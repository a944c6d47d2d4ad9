-------------------------- MODULE ChannelDelivery --------------------------
(***************************************************************************)
(* Posting products to a messenger channel (modules/omnichannel): the       *)
(* outbox events, the delivery rows that mirror them, the worker processes  *)
(* that lease events and call the messenger, the producers that enqueue and *)
(* the administrators who clear, retry and approve.                         *)
(*                                                                         *)
(* All deliveries are CREATEs for one destination.  A delivery stands for   *)
(* its idempotency key: the key gets one row and (dedupeKey is unique) one  *)
(* event.  The number of attempts is abstracted: any failure may be the     *)
(* last one.  STALE is a PROCESSING event whose lock is five minutes old.   *)
(* Publications are not withdrawn, deleted or updated.                       *)
(***************************************************************************)
EXTENDS Integers, FiniteSets

CONSTANTS
  Deliveries,  \* products to be posted to the destination
  Workers,     \* worker processes
  Handlers,    \* calls of handle() that may run at the same time
  None,        \* no handler, no worker, no delivery
  Cap,         \* posts per day (autoDailyCap)
  MaxOrders,   \* how often administrators send a delivery off again
  Mishaps      \* which disturbances may happen

ASSUME DeliveryAssumption ==
  /\ IsFiniteSet(Handlers)
  /\ Cap \in Nat \ {0} /\ MaxOrders \in Nat
  /\ Mishaps \subseteq {"timeout", "crash", "expiry", "database", "republish", "clear"}
  /\ None \notin Handlers \cup Workers \cup Deliveries

VARIABLES
  row,        \* status of each delivery row
  sentAt,     \* when each row was sent, relative to today
  event,      \* status of the outbox event of each delivery
  worker,     \* program point, leased batch and current job of each worker
  handler,    \* program point and job of each call of handle()
  queueing,   \* producers between reading the rows of a key and writing
  cleared,    \* events just cleared whose rows are still to be killed
  reopening,  \* rows just reactivated whose events are still to be reopened
  posts,      \* posts the messenger got for each delivery (history)
  orders,     \* times an administrator sent it off again (history)
  released    \* deliveries whose claim was given up by mistake (history)

tables  == <<row, sentAt, event>>
running == <<worker, handler>>
admin   == <<queueing, cleared, reopening, orders>>
history == <<posts, released>>
vars    == <<tables, running, admin, history>>

MaxPosts == MaxOrders + 2  \* enough to see one post too many

RowStatuses   == {"NONE", "PENDING", "PROCESSING", "RETRY", "SUCCEEDED", "HOLD", "DEAD"}
EventStatuses == {"NONE", "PENDING", "PROCESSING", "STALE", "DONE", "DEAD"}

WorkerPlaces  == {"idle", "next", "wait", "done", "unlock", "defer", "hold", "held", "fail", "kill"}
HandlerPlaces == {"idle", "read", "orphan", "gate", "send", "sent", "uncertain",
                  "failed", "cut", "save", "saveCut"}

IdleWorker  == [at |-> "idle", todo |-> {}, job |-> None, call |-> None]
IdleHandler == [at |-> "idle", job |-> None, owner |-> None]

DeliveryTypeOK ==
  /\ row \in [Deliveries -> RowStatuses]
  /\ sentAt \in [Deliveries -> {"never", "today", "before"}]
  /\ event \in [Deliveries -> EventStatuses]
  /\ worker \in [Workers -> [at : WorkerPlaces, todo : SUBSET Deliveries,
                             job : Deliveries \cup {None}, call : Handlers \cup {None}]]
  /\ handler \in [Handlers -> [at : HandlerPlaces, job : Deliveries \cup {None},
                               owner : Workers \cup {None}]]
  /\ queueing \in [Deliveries -> {"no", "merge", "reuse"}]
  /\ cleared \subseteq Deliveries
  /\ reopening \subseteq Deliveries
  /\ posts \in [Deliveries -> 0..MaxPosts]
  /\ orders \in [Deliveries -> 0..MaxOrders]
  /\ released \subseteq Deliveries

DeliveryInit ==
  /\ row = [d \in Deliveries |-> "NONE"]
  /\ sentAt = [d \in Deliveries |-> "never"]
  /\ event = [d \in Deliveries |-> "NONE"]
  /\ worker = [w \in Workers |-> IdleWorker]
  /\ handler = [h \in Handlers |-> IdleHandler]
  /\ queueing = [d \in Deliveries |-> "no"]
  /\ cleared = {}
  /\ reopening = {}
  /\ posts = [d \in Deliveries |-> 0]
  /\ orders = [d \in Deliveries |-> 0]
  /\ released = {}

----------------------------------------------------------------------------
(* Helpers.                                                                 *)

SetRow(d, status)   == row' = [row EXCEPT ![d] = status]
SetEvent(d, status) == event' = [event EXCEPT ![d] = status]

WorkerAt(w, place)  == worker[w].at = place
HandlerAt(h, place) == handler[h].at = place
WorkerGo(w, place)  == worker' = [worker EXCEPT ![w].at = place]
HandlerGo(h, place) == handler' = [handler EXCEPT ![h].at = place] /\ UNCHANGED worker

\* The loop of the tick goes on with the next row of the batch.
NextRow(w) == worker' = [worker EXCEPT ![w] =
  [at |-> IF worker[w].todo = {} THEN "idle" ELSE "next",
   todo |-> worker[w].todo, job |-> None, call |-> None]]

\* handle() ends; the worker goes on unless it stopped waiting for this call.
HandlerEnds(h, place) ==
  /\ handler' = [handler EXCEPT ![h] = IdleHandler]
  /\ worker' = [w \in Workers |->
       IF worker[w].call = h THEN [worker[w] EXCEPT !.at = place, !.call = None]
                             ELSE worker[w]]

\* pg_advisory_xact_lock on the idempotency key.
KeyLocked(d) == queueing[d] # "no"

\* Calls that have claimed the delivery and are about to call the messenger.
Sending(d) == {h \in Handlers : HandlerAt(h, "send") /\ handler[h].job = d}

\* A call that has claimed the delivery is at the messenger, or back from it.
BeingSent(d) == \E h \in Handlers :
  handler[h].at \in {"send", "sent", "uncertain"} /\ handler[h].job = d

\* A row that stands for a post loses that status: it may be sent again.
GiveUp(d, statuses) ==
  released' = IF row[d] \in statuses /\ (BeingSent(d) \/ posts[d] > orders[d])
              THEN released \cup {d} ELSE released

SentRows == {d \in Deliveries : row[d] = "SUCCEEDED" /\ sentAt[d] = "today"}
InFlight == {d \in Deliveries : row[d] \in {"PROCESSING", "HOLD", "PENDING", "RETRY"}}
\* RESERVE_CREATE_COUNTS_SQL: a claim older than ten minutes is not counted.
Orphans      == {d \in Deliveries : row[d] = "PROCESSING" /\ ~BeingSent(d)}
Room(d, old) == Cardinality((SentRows \cup (InFlight \ old)) \ {d}) < Cap

----------------------------------------------------------------------------
(* Producers: enqueueOneDelivery for a CREATE.                              *)

Insert(d) ==
  /\ row[d] = "NONE"
  /\ SetRow(d, "PENDING")
  /\ SetEvent(d, "PENDING")
  /\ UNCHANGED <<sentAt, running, admin, history>>

(* The row is read under the lock of its key.  HOLD and SUCCEEDED are left   *)
(* alone, and so is a waiting row whose event a worker is processing.       *)
Reusable == {"DEAD"}
Decide(d) ==
  /\ "republish" \in Mishaps
  /\ ~KeyLocked(d)
  /\ \/ /\ row[d] \in {"PENDING", "PROCESSING", "RETRY"}
        /\ event[d] \notin {"PROCESSING", "STALE"}
        /\ queueing' = [queueing EXCEPT ![d] = "merge"]
     \/ /\ row[d] \in Reusable
        /\ queueing' = [queueing EXCEPT ![d] = "reuse"]
  /\ UNCHANGED <<tables, running, cleared, reopening, orders, history>>

Retarget(d) ==
  /\ KeyLocked(d)
  /\ row' = IF queueing[d] = "reuse" THEN [row EXCEPT ![d] = "PENDING"] ELSE row
  /\ SetEvent(d, "PENDING")
  /\ queueing' = [queueing EXCEPT ![d] = "no"]
  /\ UNCHANGED <<sentAt, running, cleared, reopening, orders, history>>

----------------------------------------------------------------------------
(* The worker's tick.                                                       *)

Leasable(d) == event[d] \in {"PENDING", "STALE"}

Lease(w) ==
  /\ WorkerAt(w, "idle")
  /\ \E batch \in SUBSET {d \in Deliveries : Leasable(d)} :
       /\ batch # {}
       /\ event' = [d \in Deliveries |-> IF d \in batch THEN "PROCESSING" ELSE event[d]]
       /\ worker' = [worker EXCEPT ![w].at = "next", ![w].todo = batch]
  /\ UNCHANGED <<row, sentAt, handler, admin, history>>

(* A lease lasts five minutes; a batch of twenty rows may take longer, and   *)
(* the worker does not look at its leases again.                            *)
Expire(d) ==
  /\ "expiry" \in Mishaps
  /\ event[d] = "PROCESSING"
  /\ SetEvent(d, "STALE")
  /\ UNCHANGED <<row, sentAt, running, admin, history>>

StartRow(w) ==
  /\ WorkerAt(w, "next")
  /\ \E d \in worker[w].todo, h \in Handlers :
       /\ HandlerAt(h, "idle")
       /\ handler' = [handler EXCEPT ![h] = [at |-> "read", job |-> d, owner |-> w]]
       /\ worker' = [worker EXCEPT ![w] =
            [at |-> "wait", todo |-> @.todo \ {d}, job |-> d, call |-> h]]
  /\ UNCHANGED <<tables, admin, history>>

(* withTimeout: the worker stops waiting, the call goes on; the time-out is  *)
(* an error that leaves open whether the post appeared.                     *)
TimeOut(w) ==
  /\ "timeout" \in Mishaps
  /\ WorkerAt(w, "wait")
  /\ worker' = [worker EXCEPT ![w].at = "hold", ![w].call = None]
  /\ UNCHANGED <<tables, handler, admin, history>>

HoldAlways(d) == row' = [row EXCEPT ![d] = "HOLD"]  \* mutant: overwrites a late success

(* markCreateUnconfirmed.                                                   *)
HoldUnlessSucceeded(d) ==
  row' = IF row[d] = "SUCCEEDED" THEN row ELSE [row EXCEPT ![d] = "HOLD"]

HoldUnconfirmed(w) ==
  /\ WorkerAt(w, "hold")
  /\ HoldUnlessSucceeded(worker[w].job)
  /\ WorkerGo(w, "held")
  /\ UNCHANGED <<sentAt, event, handler, admin, history>>

MarkDone(w) ==
  /\ WorkerAt(w, "done") \/ WorkerAt(w, "held")
  /\ SetEvent(worker[w].job, "DONE")
  /\ NextRow(w)
  /\ UNCHANGED <<row, sentAt, handler, admin, history>>

(* releaseProcessingDelivery: whoever claimed the row.                       *)
Unlock(w) ==
  LET d == worker[w].job IN
  /\ WorkerAt(w, "unlock")
  /\ row' = IF row[d] = "PROCESSING" THEN [row EXCEPT ![d] = "PENDING"] ELSE row
  /\ GiveUp(d, {"PROCESSING"})
  /\ WorkerGo(w, "defer")
  /\ UNCHANGED <<sentAt, event, handler, admin, posts>>

ReleaseDeferred(w) ==
  /\ WorkerAt(w, "defer")
  /\ SetEvent(worker[w].job, "PENDING")
  /\ NextRow(w)
  /\ UNCHANGED <<row, sentAt, handler, admin, history>>

MarkFailure(w) ==
  /\ \/ WorkerAt(w, "fail") /\ SetEvent(worker[w].job, "PENDING")
     \/ WorkerAt(w, "kill") /\ SetEvent(worker[w].job, "DEAD")
  /\ NextRow(w)
  /\ UNCHANGED <<row, sentAt, handler, admin, history>>

(* A statement of the tick fails.  The release of the claim is best effort;  *)
(* markDone after a good end is inside the try, so the row is treated like a *)
(* failed one; any other failure leaves the loop with the rest of the batch. *)
TickFails(w) ==
  /\ "database" \in Mishaps
  /\ \/ WorkerAt(w, "unlock") /\ WorkerGo(w, "defer")
     \/ WorkerAt(w, "done") /\ \E place \in {"fail", "kill", "hold"} : WorkerGo(w, place)
     \/ /\ worker[w].at \in {"hold", "held", "defer", "fail", "kill"}
        /\ worker' = [worker EXCEPT ![w] = IdleWorker]
  /\ UNCHANGED <<tables, handler, admin, history>>

(* The process dies with everything it was doing.                           *)
Crash(w) ==
  /\ "crash" \in Mishaps
  /\ ~WorkerAt(w, "idle") \/ \E h \in Handlers : handler[h].owner = w
  /\ worker' = [worker EXCEPT ![w] = IdleWorker]
  /\ handler' = [h \in Handlers |-> IF handler[h].owner = w THEN IdleHandler ELSE handler[h]]
  /\ UNCHANGED <<tables, admin, history>>

----------------------------------------------------------------------------
(* handle(): handlePublicationDeliver and reserveCreateSend.                *)

(* The read before the transaction, unless the connectors are switched off:  *)
(* a claim found there is taken for the leftover of a process that died.     *)
PreRead(h) ==
  LET status == row[handler[h].job] IN
  /\ HandlerAt(h, "read")
  /\ \/ HandlerEnds(h, "unlock")
     \/ status \in {"SUCCEEDED", "HOLD"} /\ HandlerEnds(h, "done")
     \/ status = "PROCESSING" /\ HandlerGo(h, "orphan")
     \/ status \notin {"SUCCEEDED", "HOLD", "PROCESSING"} /\ HandlerGo(h, "gate")
  /\ UNCHANGED <<tables, admin, history>>

HoldOrphan(h) ==
  /\ HandlerAt(h, "orphan")
  /\ HoldUnlessSucceeded(handler[h].job)
  /\ HandlerEnds(h, "done")
  /\ UNCHANGED <<sentAt, event, admin, history>>

ClaimableAny == {"PENDING", "RETRY", "PROCESSING"}  \* mutant: takes over a claim
Claimable    == {"PENDING", "RETRY"}

(* The transaction of reserveCreateSend, under the locks of the key and of   *)
(* the destination's day: a stale row is held, a closed gate (quiet hours,   *)
(* minimum gap, rate) or a full day defers, otherwise the row is claimed.    *)
Reserve(h) ==
  LET d == handler[h].job IN
  /\ HandlerAt(h, "gate")
  /\ ~KeyLocked(d)
  /\ \/ row[d] \notin Claimable /\ HandlerEnds(h, "done") /\ UNCHANGED row
     \/ row[d] \in Claimable /\ SetRow(d, "HOLD") /\ HandlerEnds(h, "done")
     \/ row[d] \in Claimable /\ HandlerEnds(h, "unlock") /\ UNCHANGED row
     \/ /\ row[d] \in Claimable
        /\ \E old \in SUBSET Orphans : Room(d, old)
        /\ SetRow(d, "PROCESSING") /\ HandlerGo(h, "send")
  /\ UNCHANGED <<sentAt, event, admin, history>>

(* adapter.create: the post appears and the answer arrives or is lost, or    *)
(* nothing appears and the error says so, or does not; or the connector was  *)
(* switched off.                                                            *)
CallMessenger(h) ==
  LET d == handler[h].job IN
  /\ HandlerAt(h, "send")
  /\ \/ /\ posts' = [posts EXCEPT ![d] = IF @ < MaxPosts THEN @ + 1 ELSE @]
        /\ HandlerGo(h, "sent") \/ HandlerGo(h, "uncertain")
     \/ /\ HandlerGo(h, "uncertain") \/ HandlerGo(h, "failed") \/ HandlerEnds(h, "unlock")
        /\ UNCHANGED posts
  /\ UNCHANGED <<tables, admin, released>>

(* markCreateSucceeded: also after the time-out has put the row on HOLD.     *)
MarkSucceeded(h) ==
  LET d == handler[h].job IN
  /\ HandlerAt(h, "sent")
  /\ IF row[d] \in {"PROCESSING", "HOLD"}
     THEN /\ SetRow(d, "SUCCEEDED")
          /\ sentAt' = [sentAt EXCEPT ![d] = IF @ = "never" THEN "today" ELSE @]
     ELSE UNCHANGED <<row, sentAt>>
  /\ HandlerEnds(h, "done")
  /\ UNCHANGED <<event, admin, history>>

RetryUnconfirmed(d) == row' = [row EXCEPT ![d] = "RETRY"]  \* mutant: tries again
Unconfirmed(d)      == HoldUnlessSucceeded(d)
MarkUncertain(h) ==
  /\ HandlerAt(h, "uncertain")
  /\ Unconfirmed(handler[h].job)
  /\ HandlerEnds(h, "done")
  /\ UNCHANGED <<sentAt, event, admin, history>>

(* A statement of handle() fails: the error is taken for a failed post, or   *)
(* ("cut") for a post that may have appeared, if it reads like a time-out.  *)
StatementFails(h) ==
  /\ "database" \in Mishaps
  /\ handler[h].at \in {"read", "orphan", "gate", "sent", "uncertain"}
  /\ HandlerGo(h, "failed") \/ HandlerGo(h, "cut")
  /\ UNCHANGED <<tables, admin, history>>

(* markDeliveryFailure reads the row and saves what it made of it.  The error *)
(* or the number of attempts decides whether delivery and event are dead; a   *)
(* cut one is held by the tick.  That this method fails itself is ignored.   *)
Ignored(h) ==
  \/ handler[h].at \in {"failed", "save"} /\ (HandlerEnds(h, "fail") \/ HandlerEnds(h, "kill"))
  \/ handler[h].at \in {"cut", "saveCut"} /\ HandlerEnds(h, "hold")

ReadFailure(h) ==
  LET settled == row[handler[h].job] \in {"SUCCEEDED", "HOLD"} IN
  /\ handler[h].at \in {"failed", "cut"}
  /\ \/ (settled \/ "database" \in Mishaps) /\ Ignored(h)
     \/ ~settled /\ HandlerAt(h, "failed") /\ HandlerGo(h, "save")
     \/ ~settled /\ HandlerAt(h, "cut") /\ HandlerGo(h, "saveCut")
  /\ UNCHANGED <<tables, admin, history>>

SaveFailure(h) ==
  LET d == handler[h].job IN
  /\ \/ HandlerAt(h, "save") /\ SetRow(d, "RETRY") /\ HandlerEnds(h, "fail")
     \/ HandlerAt(h, "save") /\ SetRow(d, "DEAD")  /\ HandlerEnds(h, "kill")
     \/ /\ HandlerAt(h, "saveCut")
        /\ SetRow(d, "RETRY") \/ SetRow(d, "DEAD")
        /\ HandlerEnds(h, "hold")
  /\ GiveUp(d, {"PROCESSING", "HOLD", "SUCCEEDED"})
  /\ UNCHANGED <<sentAt, event, admin, posts>>

SaveFails(h) ==
  /\ "database" \in Mishaps
  /\ handler[h].at \in {"save", "saveCut"}
  /\ Ignored(h)
  /\ UNCHANGED <<tables, admin, history>>

----------------------------------------------------------------------------
(* Administrators, and the day.                                             *)

(* retryDelivery and reapproveDelivery: the row first, then its event.       *)
Reactivate(d) ==
  /\ row[d] \in {"DEAD", "HOLD", "RETRY", "PENDING"}
  /\ SetRow(d, "PENDING")
  /\ orders[d] < MaxOrders
  /\ orders' = [orders EXCEPT ![d] = @ + 1]
  /\ reopening' = reopening \cup {d}
  /\ UNCHANGED <<sentAt, event, running, queueing, cleared, history>>

Reopen(d) ==
  /\ d \in reopening
  /\ SetEvent(d, "PENDING")
  /\ reopening' = reopening \ {d}
  /\ UNCHANGED <<row, sentAt, running, queueing, cleared, orders, history>>

(* clearWaitingOutbox: waiting events and those whose lease ran out are      *)
(* done; the rows of these events follow in another statement.               *)
ClearWaiting(d) ==
  /\ "clear" \in Mishaps
  /\ Leasable(d)
  /\ SetEvent(d, "DONE")
  /\ cleared' = cleared \cup {d}
  /\ UNCHANGED <<row, sentAt, running, queueing, reopening, orders, history>>

KillCleared(d) ==
  /\ d \in cleared
  /\ row' = IF row[d] \in {"PENDING", "RETRY", "PROCESSING"} THEN [row EXCEPT ![d] = "DEAD"] ELSE row
  /\ GiveUp(d, {"PROCESSING"})
  /\ cleared' = cleared \ {d}
  /\ UNCHANGED <<sentAt, event, running, queueing, reopening, orders, posts>>

NewDay ==
  /\ \E d \in Deliveries : sentAt[d] = "today"
  /\ sentAt' = [d \in Deliveries |-> IF sentAt[d] = "today" THEN "before" ELSE sentAt[d]]
  /\ UNCHANGED <<row, event, running, admin, history>>

Tick(w) ==
  \/ Lease(w) \/ StartRow(w) \/ TimeOut(w) \/ HoldUnconfirmed(w) \/ MarkDone(w)
  \/ Unlock(w) \/ ReleaseDeferred(w) \/ MarkFailure(w) \/ TickFails(w)

Handle(h) ==
  \/ PreRead(h) \/ HoldOrphan(h) \/ Reserve(h) \/ CallMessenger(h)
  \/ MarkSucceeded(h) \/ MarkUncertain(h) \/ StatementFails(h)
  \/ ReadFailure(h) \/ SaveFailure(h) \/ SaveFails(h)

DeliveryNext ==
  \/ \E w \in Workers : Tick(w) \/ Crash(w)
  \/ \E h \in Handlers : Handle(h)
  \/ \E d \in Deliveries : \/ Insert(d) \/ Decide(d) \/ Retarget(d) \/ Expire(d)
                           \/ Reactivate(d) \/ Reopen(d) \/ ClearWaiting(d) \/ KillCleared(d)
  \/ NewDay

DeliverySpec == DeliveryInit /\ [][DeliveryNext]_vars

----------------------------------------------------------------------------
(* Properties.                                                              *)

(* A product is posted once, and once more for every time an administrator   *)
(* asks: reserveCreateSend ("exactly one send"), whatever leases, workers,   *)
(* time-outs and restarts do.  Left out are deliveries whose claim the code  *)
(* gives up although it stands for a post: a deferral releases the claim of  *)
(* another call (Unlock), the queue is cleared after a worker died           *)
(* (KillCleared), or a failing statement is taken for a failed post          *)
(* (SaveFailure).  No other step modelled here posts twice.                  *)
NeverTwice == \A d \in Deliveries \ released : posts[d] <= 1 + orders[d]

(* Why: posts and calls about to post never exceed what was asked for, and    *)
(* when they reach it the row has a status that reserveCreateSend and         *)
(* decideCreateEnqueue leave alone.                                         *)
Budget(d) == 1 + orders[d]
SendsWithinBudget ==
  \A d \in Deliveries \ released :
     LET sends == posts[d] + Cardinality(Sending(d)) IN
     /\ sends <= Budget(d)
     /\ sends = Budget(d) => row[d] \in {"PROCESSING", "HOLD", "SUCCEEDED"}

(* A late success that replaced HOLD stays: neither a time-out, another       *)
(* worker's doubt nor a stale failure takes it back, unless an administrator  *)
(* sent the delivery off again ("never overwrite a different SUCCEEDED").     *)
SuccessStays ==
  [][\A d \in Deliveries \ released' :
       row[d] = "SUCCEEDED" /\ orders[d] = 0 => row'[d] = "SUCCEEDED"]_vars
=============================================================================
