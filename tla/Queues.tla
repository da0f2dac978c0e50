------------------------------- MODULE Queues -------------------------------
(***************************************************************************)
(* What the agent's VecDeque::retain and the server's Array.filter do to a *)
(* queue of command identifiers.                                           *)
(***************************************************************************)
EXTENDS Integers, Sequences

\* The elements of `queue` that are in `keep`, in their order.
Retain(queue, keep) ==
    LET kept[i \in 0..Len(queue)] ==
            IF i = 0 THEN << >>
            ELSE IF queue[i] \in keep THEN Append(kept[i - 1], queue[i])
            ELSE kept[i - 1]
    IN  kept[Len(queue)]

\* The elements of a queue, and whether `number` grows along it.
Holds(queue, x) == \E i \in DOMAIN queue : queue[i] = x
Ascending(queue, number) ==
    \A i, j \in DOMAIN queue : i < j => number[queue[i]] < number[queue[j]]
=============================================================================
