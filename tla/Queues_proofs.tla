---------------------------- MODULE Queues_proofs ---------------------------
(***************************************************************************)
(* What Retain returns, for every queue, and the facts about sequences the *)
(* other proof modules share.                                              *)
(***************************************************************************)
EXTENDS Queues, SequenceTheorems, WellFoundedInduction, TLAPS

\* Every non-empty set of naturals has a least element.
LEMMA LeastNatural ==
    ASSUME NEW T \in SUBSET Nat, T # {}
    PROVE  \E n \in T : \A m \in T : n <= m
<1>1. \E x \in T : \A y \in T : ~ (<<y, x>> \in OpToRel(<, Nat))
  BY WFMin, NatLessThanWellFounded
<1>2. PICK x \in T : \A y \in T : ~ (<<y, x>> \in OpToRel(<, Nat))
  BY <1>1
<1>3. \A y \in T : ~(y < x)
  BY <1>2 DEF OpToRel
<1>. QED  BY <1>3

-----------------------------------------------------------------------------
(* Retain                                                                  *)

KeptSpec(queue, keep, n, kept) ==
    kept = [i \in 0..n |-> IF i = 0 THEN << >>
                           ELSE IF queue[i] \in keep THEN Append(kept[i - 1], queue[i])
                           ELSE kept[i - 1]]

\* The recursive function inside Retain exists.
LEMMA KeptExists ==
    ASSUME NEW S, NEW keep, NEW queue \in Seq(S)
    PROVE  \E kept \in [0..Len(queue) -> Seq(S)] :
              KeptSpec(queue, keep, Len(queue), kept)
<1>. DEFINE Good(n) == \E kept \in [0..n -> Seq(S)] : KeptSpec(queue, keep, n, kept)
<1>0. Len(queue) \in Nat /\ \A i \in 1..Len(queue) : queue[i] \in S
  BY LenProperties, ElementOfSeq
<1>1. Good(0)
  <2>1. [i \in 0..0 |-> << >>] \in [0..0 -> Seq(S)]
    OBVIOUS
  <2>2. KeptSpec(queue, keep, 0, [i \in 0..0 |-> << >>])
    BY DEF KeptSpec
  <2>. QED  BY <2>1, <2>2
<1>2. ASSUME NEW n \in 1..Len(queue), Good(n - 1)
      PROVE  Good(n)
  <2>1. PICK kept \in [0..(n - 1) -> Seq(S)] : KeptSpec(queue, keep, n - 1, kept)
    BY <1>2
  <2>. DEFINE last == IF queue[n] \in keep THEN Append(kept[n - 1], queue[n])
                      ELSE kept[n - 1]
              more == [i \in 0..n |-> IF i = n THEN last ELSE kept[i]]
  <2>2. last \in Seq(S)
    BY <1>0, <2>1, AppendProperties
  <2>3. more \in [0..n -> Seq(S)]
    <3>. HIDE DEF last
    <3>. QED  BY <2>2
  <2>4. ASSUME NEW i \in 0..n
        PROVE  more[i] = IF i = 0 THEN << >>
                         ELSE IF queue[i] \in keep THEN Append(more[i - 1], queue[i])
                         ELSE more[i - 1]
    <3>1. CASE i = n
      BY <1>0, <3>1
    <3>2. CASE i # n
      <4>1. i \in 0..(n - 1) /\ (i # 0 => i - 1 \in 0..(n - 1))
        BY <3>2, <1>0
      <4>2. kept[i] = IF i = 0 THEN << >>
                      ELSE IF queue[i] \in keep THEN Append(kept[i - 1], queue[i])
                      ELSE kept[i - 1]
        BY <4>1, <2>1 DEF KeptSpec
      <4>3. more[i] = kept[i] /\ (i # 0 => more[i - 1] = kept[i - 1])
        BY <4>1, <1>0
      <4>. QED  BY <4>2, <4>3
    <3>. QED  BY <3>1, <3>2
  <2>5. KeptSpec(queue, keep, n, more)
    <3>. HIDE DEF last
    <3>. QED  BY <2>4 DEF KeptSpec
  <2>. QED  BY <2>3, <2>5
<1>. HIDE DEF Good
<1>3. \A n \in 0..Len(queue) : Good(n)
  <2>. DEFINE Bad == {n \in 0..Len(queue) : ~Good(n)}
  <2>. SUFFICES ASSUME Bad # {} PROVE FALSE
    OBVIOUS
  <2>1. PICK n \in Bad : \A m \in Bad : n <= m
    <3>1. Bad \in SUBSET Nat
      BY <1>0
    <3>. HIDE DEF Bad
    <3>. QED  BY <3>1, LeastNatural
  <2>2. n # 0
    BY <2>1, <1>1
  <2>3. n - 1 \in 0..Len(queue) /\ n - 1 \notin Bad
    BY <2>1, <2>2, <1>0
  <2>. QED  BY <1>2, <2>1, <2>2, <2>3, <1>0
<1>. QED  BY <1>0, <1>3 DEF Good

\* No element twice.
Injective(s) == \A i, j \in DOMAIN s : s[i] = s[j] => i = j

\* Retain keeps the elements of the queue that are in `keep` and no others,
\* none twice that was there once, and in their order.
LEMMA RetainOrder ==
    ASSUME NEW S, NEW keep, NEW queue \in Seq(S), NEW number
    PROVE  /\ Retain(queue, keep) \in Seq(S)
           /\ \A k \in DOMAIN Retain(queue, keep) :
                 \E i \in DOMAIN queue : /\ queue[i] = Retain(queue, keep)[k]
                                         /\ queue[i] \in keep
           /\ \A i \in DOMAIN queue : queue[i] \in keep => Holds(Retain(queue, keep), queue[i])
           /\ Injective(queue) => Injective(Retain(queue, keep))
           /\ Ascending(queue, number) => Ascending(Retain(queue, keep), number)
<1>. DEFINE kept == CHOOSE f : KeptSpec(queue, keep, Len(queue), f)
            From(s, n) == \A k \in DOMAIN s : \E i \in 1..n : queue[i] = s[k] /\ queue[i] \in keep
            Good(n) == /\ kept[n] \in Seq(S)
                       /\ From(kept[n], n)
                       /\ \A i \in 1..n : queue[i] \in keep => Holds(kept[n], queue[i])
                       /\ Injective(queue) => Injective(kept[n])
                       /\ Ascending(queue, number) => Ascending(kept[n], number)
<1>0. Len(queue) \in Nat /\ DOMAIN queue = 1..Len(queue)
      /\ \A i \in 1..Len(queue) : queue[i] \in S
  BY LenProperties, ElementOfSeq
<1>1. KeptSpec(queue, keep, Len(queue), kept)
  BY KeptExists
<1>2. Retain(queue, keep) = kept[Len(queue)]
  BY DEF Retain, KeptSpec
<1>. HIDE DEF kept
<1>3. /\ kept[0] = << >>
      /\ \A i \in 1..Len(queue) :
            kept[i] = IF queue[i] \in keep THEN Append(kept[i - 1], queue[i])
                      ELSE kept[i - 1]
  <2>1. ASSUME NEW i \in 0..Len(queue)
        PROVE  kept[i] = IF i = 0 THEN << >>
                         ELSE IF queue[i] \in keep THEN Append(kept[i - 1], queue[i])
                         ELSE kept[i - 1]
    BY <1>1, Zenon DEF KeptSpec
  <2>2. kept[0] = << >>
    BY <2>1, <1>0
  <2>3. ASSUME NEW i \in 1..Len(queue)
        PROVE  kept[i] = IF queue[i] \in keep THEN Append(kept[i - 1], queue[i])
                         ELSE kept[i - 1]
    <3>1. i \in 0..Len(queue) /\ i # 0
      BY <1>0
    <3>. QED  BY <2>1, <3>1, Zenon
  <2>. QED  BY <2>2, <2>3
<1>4. Good(0)
  BY <1>3 DEF Injective, Ascending
<1>5. ASSUME NEW n \in 1..Len(queue), Good(n - 1)
      PROVE  Good(n)
  <2>1. CASE queue[n] \notin keep
    <3>1. kept[n] = kept[n - 1]
      BY <1>3, <2>1
    <3>2. From(kept[n], n)
      BY <3>1, <1>5, <1>0
    <3>3. ASSUME NEW i \in 1..n, queue[i] \in keep
          PROVE  Holds(kept[n], queue[i])
      <4>1. i \in 1..(n - 1)
        BY <2>1, <3>3, <1>0
      <4>. QED  BY <3>1, <3>3, <4>1, <1>5
    <3>. QED  BY <3>1, <3>2, <3>3, <1>5
  <2>2. CASE queue[n] \in keep
    <3>. DEFINE s == kept[n - 1]
    <3>1. kept[n] = Append(s, queue[n])
      BY <1>3, <2>2
    <3>2. /\ s \in Seq(S) /\ From(s, n - 1) /\ (Injective(queue) => Injective(s))
          /\ Ascending(queue, number) => Ascending(s, number)
          /\ \A i \in 1..(n - 1) : queue[i] \in keep => Holds(s, queue[i])
      BY <1>5
    <3>. HIDE DEF s
    <3>3. Len(s) \in Nat /\ DOMAIN s = 1..Len(s)
      BY <3>2, LenProperties
    <3>4. /\ kept[n] \in Seq(S)
          /\ DOMAIN kept[n] = 1..(Len(s) + 1)
          /\ kept[n][Len(s) + 1] = queue[n]
          /\ \A k \in 1..Len(s) : kept[n][k] = s[k]
      BY <1>0, <3>1, <3>2, <3>3, AppendProperties, LenProperties
    <3>5. From(kept[n], n)
      <4>. SUFFICES ASSUME NEW k \in DOMAIN kept[n]
                    PROVE  \E i \in 1..n : queue[i] = kept[n][k] /\ queue[i] \in keep
        OBVIOUS
      <4>1. CASE k = Len(s) + 1
        BY <4>1, <3>4, <2>2, <1>0
      <4>2. CASE k # Len(s) + 1
        <5>1. k \in 1..Len(s)
          BY <4>2, <3>3, <3>4
        <5>2. PICK i \in 1..(n - 1) : queue[i] = s[k] /\ queue[i] \in keep
          BY <5>1, <3>2, <3>3
        <5>. QED  BY <5>1, <5>2, <3>4, <1>0
      <4>. QED  BY <4>1, <4>2
    <3>6. ASSUME Injective(queue)
          PROVE  Injective(kept[n])
      <4>1. \A k \in 1..Len(s) : s[k] # queue[n]
        <5>. SUFFICES ASSUME NEW k \in 1..Len(s), s[k] = queue[n]
                      PROVE  FALSE
          OBVIOUS
        <5>1. PICK i \in 1..(n - 1) : queue[i] = s[k]
          BY <3>2, <3>3
        <5>. QED  BY <5>1, <3>6, <1>0 DEF Injective
      <4>2. Injective(s)
        BY <3>2, <3>6
      <4>. SUFFICES ASSUME NEW i \in 1..(Len(s) + 1), NEW j \in 1..(Len(s) + 1),
                           kept[n][i] = kept[n][j]
                    PROVE  i = j
        BY <3>4 DEF Injective
      <4>3. Len(s) \in Nat /\ DOMAIN s = 1..Len(s)
        BY <3>3
      <4>4. \A k \in 1..(Len(s) + 1) : k # Len(s) + 1 => k \in 1..Len(s) /\ kept[n][k] = s[k]
        <5>1. \A k \in 1..(Len(s) + 1) : k # Len(s) + 1 => k \in 1..Len(s)
          BY <4>3
        <5>. QED  BY <5>1, <3>4
      <4>5. kept[n][Len(s) + 1] = queue[n]
        BY <3>4
      <4>. QED  BY <4>1, <4>2, <4>3, <4>4, <4>5 DEF Injective
    <3>7. ASSUME Ascending(queue, number)
          PROVE  Ascending(kept[n], number)
      <4>1. \A k \in 1..Len(s) : number[s[k]] < number[queue[n]]
        <5>. SUFFICES ASSUME NEW k \in 1..Len(s)
                      PROVE  number[s[k]] < number[queue[n]]
          OBVIOUS
        <5>1. PICK i \in 1..(n - 1) : queue[i] = s[k]
          BY <3>2, <3>3
        <5>2. i \in DOMAIN queue /\ n \in DOMAIN queue /\ i < n
          BY <1>0
        <5>. QED  BY <5>1, <5>2, <3>7 DEF Ascending
      <4>2. Ascending(s, number)
        BY <3>2, <3>7
      <4>0. Len(s) \in Nat
        BY <3>3
      <4>. SUFFICES ASSUME NEW i \in 1..(Len(s) + 1), NEW j \in 1..(Len(s) + 1), i < j
                    PROVE  number[kept[n][i]] < number[kept[n][j]]
        BY <3>4 DEF Ascending
      <4>3. i \in 1..Len(s) /\ kept[n][i] = s[i]
        BY <3>3, <3>4
      <4>4. CASE j = Len(s) + 1
        <5>1. kept[n][j] = queue[n]
          BY <4>4, <3>4
        <5>. QED  BY <4>1, <4>3, <5>1
      <4>5. CASE j # Len(s) + 1
        <5>1. j \in 1..Len(s) /\ kept[n][j] = s[j]
          BY <4>5, <3>3, <3>4
        <5>. QED  BY <4>2, <4>3, <5>1, <3>3 DEF Ascending
      <4>. QED  BY <4>4, <4>5
    <3>8. ASSUME NEW i \in 1..n, queue[i] \in keep
          PROVE  Holds(kept[n], queue[i])
      <4>1. CASE i = n
        <5>1. Len(s) + 1 \in DOMAIN kept[n]
          BY <3>3, <3>4
        <5>. QED  BY <4>1, <5>1, <3>4 DEF Holds
      <4>2. CASE i # n
        <5>1. i \in 1..(n - 1)
          BY <4>2, <1>0
        <5>2. PICK k \in DOMAIN s : s[k] = queue[i]
          BY <5>1, <3>2, <3>8 DEF Holds
        <5>3. k \in DOMAIN kept[n] /\ kept[n][k] = queue[i]
          BY <5>2, <3>3, <3>4
        <5>. QED  BY <5>3 DEF Holds
      <4>. QED  BY <4>1, <4>2
    <3>. QED  BY <3>4, <3>5, <3>6, <3>7, <3>8
  <2>. QED  BY <2>1, <2>2
<1>. HIDE DEF Good
<1>6. \A n \in 0..Len(queue) : Good(n)
  <2>. DEFINE Bad == {n \in 0..Len(queue) : ~Good(n)}
  <2>. SUFFICES ASSUME Bad # {} PROVE FALSE
    OBVIOUS
  <2>1. PICK n \in Bad : \A m \in Bad : n <= m
    <3>1. Bad \in SUBSET Nat
      BY <1>0
    <3>. HIDE DEF Bad
    <3>. QED  BY <3>1, LeastNatural
  <2>2. n # 0
    BY <2>1, <1>4
  <2>3. n - 1 \in 0..Len(queue) /\ n - 1 \notin Bad
    BY <2>1, <2>2, <1>0
  <2>. QED  BY <1>5, <2>1, <2>2, <2>3, <1>0
<1>7. Good(Len(queue))
  BY <1>6, <1>0
<1>8. From(kept[Len(queue)], Len(queue))
  BY <1>7 DEF Good
<1>9. \A k \in DOMAIN Retain(queue, keep) :
         \E i \in DOMAIN queue : queue[i] = Retain(queue, keep)[k] /\ queue[i] \in keep
  BY <1>8, <1>2, <1>0
<1>10. \A i \in DOMAIN queue : queue[i] \in keep => Holds(Retain(queue, keep), queue[i])
  BY <1>7, <1>2, <1>0 DEF Good
<1>11. /\ Retain(queue, keep) \in Seq(S)
       /\ Injective(queue) => Injective(Retain(queue, keep))
       /\ Ascending(queue, number) => Ascending(Retain(queue, keep), number)
  BY <1>7, <1>2 DEF Good
<1>. QED  BY <1>9, <1>10, <1>11

\* The same, without the order.
LEMMA RetainProperties ==
    ASSUME NEW S, NEW keep, NEW queue \in Seq(S)
    PROVE  /\ Retain(queue, keep) \in Seq(S)
           /\ \A k \in DOMAIN Retain(queue, keep) :
                 \E i \in DOMAIN queue : /\ queue[i] = Retain(queue, keep)[k]
                                         /\ queue[i] \in keep
           /\ \A i \in DOMAIN queue : queue[i] \in keep => Holds(Retain(queue, keep), queue[i])
           /\ Injective(queue) => Injective(Retain(queue, keep))
BY RetainOrder
=============================================================================
