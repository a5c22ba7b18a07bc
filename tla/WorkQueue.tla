----------------------------- MODULE WorkQueue -----------------------------
(***************************************************************************)
(* The client-go work queue the live-status reporters are built on         *)
(* (workqueue.TypedRateLimitingInterface), as pure operators on a record:  *)
(*                                                                         *)
(*   waiting     keys added with a delay that has not passed yet           *)
(*               (AddAfter's debounce, AddRateLimited's back-off)          *)
(*   dirty       keys that need processing                                 *)
(*   processing  keys a worker took and has not called Done for            *)
(*                                                                         *)
(* A key is in each set at most once, which is how the queue coalesces a   *)
(* burst.  A key added while it is processed is only marked dirty; Done    *)
(* puts it back.  The queue is FIFO; here Get may take any ready key, and  *)
(* FIFO order survives as the strong fairness of Get in the reporters.     *)
(* The lengths of the delays are abstracted: a waiting key may be added at *)
(* any later moment.  The queue is a library, so every operator here is    *)
(* external.                                                               *)
(***************************************************************************)

EmptyQueue == [waiting |-> {}, dirty |-> {}, processing |-> {}]

QueueOver(Keys) ==
    [waiting : SUBSET Keys, dirty : SUBSET Keys, processing : SUBSET Keys]

\* AddAfter and AddRateLimited: the key is added once its delay has passed.
AddAfter(q, k) == [q EXCEPT !.waiting = @ \cup {k}]

\* The delay of a waiting key is over: the key is added.
Expire(q, k) == [q EXCEPT !.waiting = @ \ {k}, !.dirty = @ \cup {k}]

\* What Get may return: a key being processed is handed to nobody else.
Ready(q) == q.dirty \ q.processing

Get(q, k) == [q EXCEPT !.dirty = @ \ {k}, !.processing = @ \cup {k}]

\* Done leaves the dirty mark alone, so that a key added meanwhile is ready again.
Done(q, k) == [q EXCEPT !.processing = @ \ {k}]

\* Whether the queue still has something to do, now or later, for the key.
Pending(q, k) == k \in q.waiting \cup q.dirty
=============================================================================
