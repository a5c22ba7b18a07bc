-------------------------- MODULE WorkQueue_proofs --------------------------
(* What the operations of the work queue keep, whatever the keys are.      *)
EXTENDS WorkQueue, TLAPS

\* Every operation of the work queue returns a queue over the same keys.
LEMMA QueueOperations ==
    ASSUME NEW Keys, NEW q \in QueueOver(Keys), NEW k \in Keys
    PROVE  /\ AddAfter(q, k) \in QueueOver(Keys)
           /\ Expire(q, k) \in QueueOver(Keys)
           /\ Get(q, k) \in QueueOver(Keys)
           /\ Done(q, k) \in QueueOver(Keys)
<1>1. AddAfter(q, k) \in QueueOver(Keys)
  BY DEF AddAfter, QueueOver
<1>2. Expire(q, k) \in QueueOver(Keys)
  BY DEF Expire, QueueOver
<1>3. Get(q, k) \in QueueOver(Keys)
  BY DEF Get, QueueOver
<1>4. Done(q, k) \in QueueOver(Keys)
  BY DEF Done, QueueOver
<1> QED
  BY <1>1, <1>2, <1>3, <1>4

\* What each operation does to the keys that are pending: only Get takes one
\* out, and only the one it returns.
LEMMA PendingOperations ==
    ASSUME NEW Keys, NEW q \in QueueOver(Keys), NEW k \in Keys, NEW b \in Keys
    PROVE  /\ Pending(AddAfter(q, k), b) <=> b = k \/ Pending(q, b)
           /\ Pending(q, b) => Pending(Expire(q, k), b)
           /\ b # k /\ Pending(q, b) => Pending(Get(q, k), b)
           /\ Pending(Done(q, k), b) <=> Pending(q, b)
<1>1. Pending(AddAfter(q, k), b) <=> b = k \/ Pending(q, b)
  BY DEF Pending, AddAfter, QueueOver
<1>2. Pending(q, b) => Pending(Expire(q, k), b)
  BY DEF Pending, Expire, QueueOver
<1>3. b # k /\ Pending(q, b) => Pending(Get(q, k), b)
  BY DEF Pending, Get, QueueOver
<1>4. Pending(Done(q, k), b) <=> Pending(q, b)
  BY DEF Pending, Done, QueueOver
<1> QED
  BY <1>1, <1>2, <1>3, <1>4
=============================================================================
