------------------------------- MODULE Handlers -------------------------------
(***************************************************************************)
(* The requests the server handles at the same time.  A handler runs from  *)
(* one await to the next; `request` is where it stands and what it has     *)
(* read so far.  The components that model routes share these definitions. *)
(***************************************************************************)
CONSTANT Requests

VARIABLE request  \* what each request is about to do

Idle == [at |-> "idle"]
Is(r, at) == request[r].at = at
Goes(r, state) == request' = [request EXCEPT ![r] = state]
=============================================================================
