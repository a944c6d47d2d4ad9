----------------------- MODULE ChannelDelivery_proofs -----------------------
(***************************************************************************)
(* Proofs about ChannelDelivery: type correctness, and that no delivery is  *)
(* posted more often than asked for, for any number of deliveries, workers, *)
(* concurrent calls and administrators' orders and for all mishaps.         *)
(***************************************************************************)
EXTENDS ChannelDelivery, FiniteSetTheorems, TLAPS

----------------------------------------------------------------------------
(* Type correctness.                                                        *)

WorkerRec  == [at : WorkerPlaces, todo : SUBSET Deliveries,
               job : Deliveries \cup {None}, call : Handlers \cup {None}]
HandlerRec == [at : HandlerPlaces, job : Deliveries \cup {None}, owner : Workers \cup {None}]

\* Who is past reading its batch, and every call that runs, has a delivery.
WorkersOK ==
  /\ worker \in [Workers -> WorkerRec]
  /\ \A w \in Workers :
       worker[w].at \notin {"idle", "next"} \/ worker[w].call # None => worker[w].job \in Deliveries
HandlersOK ==
  /\ handler \in [Handlers -> HandlerRec]
  /\ \A h \in Handlers : handler[h].at # "idle" => handler[h].job \in Deliveries

TypedIInv == DeliveryTypeOK /\ WorkersOK /\ HandlersOK

LEMMA HandlerEndsType ==
  ASSUME WorkersOK, HandlersOK, NEW h \in Handlers, HandlerEnds(h, "done")
                             \/ HandlerEnds(h, "unlock") \/ HandlerEnds(h, "fail")
                             \/ HandlerEnds(h, "kill") \/ HandlerEnds(h, "hold")
  PROVE  WorkersOK' /\ HandlersOK'
<1>1. PICK place \in {"done", "unlock", "fail", "kill", "hold"} : HandlerEnds(h, place)
  OBVIOUS
<1>2. place \in WorkerPlaces /\ place # "next" /\ IdleHandler \in HandlerRec /\ IdleHandler.at = "idle"
  BY DEF WorkerPlaces, IdleHandler, HandlerRec, HandlerPlaces
<1>3. HandlersOK'
  BY <1>1, <1>2 DEF HandlerEnds, HandlersOK
<1>4. worker' = [w \in Workers |->
         IF worker[w].call = h THEN [worker[w] EXCEPT !.at = place, !.call = None]
                               ELSE worker[w]]
  BY <1>1 DEF HandlerEnds
<1>5. ASSUME NEW w \in Workers
      PROVE  /\ worker'[w] \in WorkerRec
             /\ worker'[w].at \notin {"idle", "next"} \/ worker'[w].call # None
                  => worker'[w].job \in Deliveries
  <2>1. worker[w] \in WorkerRec
    BY DEF WorkersOK
  <2>2. CASE worker[w].call = h
    <3>1. worker[w].job \in Deliveries
      BY <2>2, DeliveryAssumption DEF WorkersOK
    <3>2. worker'[w] = [worker[w] EXCEPT !.at = place, !.call = None]
      BY <1>4, <2>2
    <3> QED
      BY <1>2, <2>1, <3>1, <3>2 DEF WorkerRec
  <2>3. CASE worker[w].call # h
    BY <1>4, <2>3 DEF WorkersOK
  <2> QED
    BY <2>2, <2>3
<1>6. WorkersOK'
  BY <1>4, <1>5 DEF WorkersOK
<1> QED
  BY <1>3, <1>6

LEMMA HandlerGoType ==
  ASSUME WorkersOK, HandlersOK, NEW h \in Handlers, NEW place \in HandlerPlaces,
         HandlerGo(h, place), handler[h].at # "idle"
  PROVE  WorkersOK' /\ HandlersOK'
<1>1. handler' = [handler EXCEPT ![h].at = place] /\ worker' = worker
  BY DEF HandlerGo
<1>2. WorkersOK'
  BY <1>1 DEF WorkersOK
<1>3. handler[h] \in HandlerRec /\ handler[h].job \in Deliveries
  BY DEF HandlersOK
<1>4. handler'[h] = [handler[h] EXCEPT !.at = place]
  BY <1>1 DEF HandlersOK
<1>5. handler' \in [Handlers -> HandlerRec]
  BY <1>1, <1>3 DEF HandlersOK, HandlerRec
<1>6. HandlersOK'
  BY <1>1, <1>3, <1>5 DEF HandlersOK, HandlerRec
<1> QED
  BY <1>2, <1>6

LEMMA NextRowType ==
  ASSUME WorkersOK, NEW w \in Workers, NextRow(w)
  PROVE  WorkersOK'
<1> DEFINE next == [at |-> IF worker[w].todo = {} THEN "idle" ELSE "next",
                    todo |-> worker[w].todo, job |-> None, call |-> None]
<1>1. next \in WorkerRec
  BY DEF WorkersOK, WorkerRec, WorkerPlaces
<1>2. worker' = [worker EXCEPT ![w] = next]
  BY DEF NextRow
<1>3. next.at \in {"idle", "next"} /\ next.call = None
  OBVIOUS
<1> HIDE DEF next
<1> QED
  BY <1>1, <1>2, <1>3 DEF WorkersOK

LEMMA WorkerGoType ==
  ASSUME WorkersOK, NEW w \in Workers, NEW place \in WorkerPlaces,
         WorkerGo(w, place), worker[w].job \in Deliveries
  PROVE  WorkersOK'
<1>1. worker' = [worker EXCEPT ![w].at = place]
  BY DEF WorkerGo
<1>2. worker' \in [Workers -> WorkerRec]
  BY <1>1 DEF WorkersOK, WorkerRec
<1> QED
  BY <1>1, <1>2 DEF WorkersOK, WorkerRec
LEMMA TypedInit == DeliveryInit => TypedIInv
<1> SUFFICES ASSUME DeliveryInit PROVE TypedIInv
  OBVIOUS
<1>1. IdleWorker \in WorkerRec /\ IdleWorker.at = "idle" /\ IdleWorker.call = None
  BY DEF IdleWorker, WorkerRec, WorkerPlaces
<1>2. IdleHandler \in HandlerRec /\ IdleHandler.at = "idle"
  BY DEF IdleHandler, HandlerRec, HandlerPlaces
<1>3. WorkersOK
  BY <1>1 DEF DeliveryInit, WorkersOK
<1>4. HandlersOK
  BY <1>2 DEF DeliveryInit, HandlersOK
<1>5. DeliveryTypeOK
  BY <1>3, <1>4, DeliveryAssumption DEF DeliveryInit, DeliveryTypeOK, WorkersOK, HandlersOK,
     WorkerRec, HandlerRec, RowStatuses, EventStatuses, MaxPosts
<1> QED
  BY <1>3, <1>4, <1>5 DEF TypedIInv

\* What an action has to establish: the tables and histories, then the programs.
DataOK ==
  /\ row \in [Deliveries -> RowStatuses]
  /\ sentAt \in [Deliveries -> {"never", "today", "before"}]
  /\ event \in [Deliveries -> EventStatuses]
  /\ queueing \in [Deliveries -> {"no", "merge", "reuse"}]
  /\ cleared \subseteq Deliveries
  /\ reopening \subseteq Deliveries
  /\ posts \in [Deliveries -> 0..MaxPosts]
  /\ orders \in [Deliveries -> 0..MaxOrders]
  /\ released \subseteq Deliveries

LEMMA TypedParts == TypedIInv <=> DataOK /\ WorkersOK /\ HandlersOK
  BY DEF TypedIInv, DataOK, DeliveryTypeOK, WorkersOK, HandlersOK, WorkerRec, HandlerRec

LEMMA ProducersTyped ==
  ASSUME TypedIInv, NEW d \in Deliveries, Insert(d) \/ Decide(d) \/ Retarget(d)
  PROVE  TypedIInv'
<1>1. DataOK /\ WorkersOK /\ HandlersOK
  BY TypedParts
<1>2. worker' = worker /\ handler' = handler
  BY DEF Insert, Decide, Retarget, running
<1>3. DataOK'
  BY <1>1 DEF Insert, Decide, Retarget, DataOK, SetRow, SetEvent, RowStatuses, EventStatuses,
     tables, admin, history
<1> QED
  BY <1>1, <1>2, <1>3, TypedParts DEF TypedIInv, DataOK, DeliveryTypeOK, WorkersOK, HandlersOK,
     WorkerRec, HandlerRec

LEMMA AdministratorsTyped ==
  ASSUME TypedIInv, NEW d \in Deliveries,
         Reactivate(d) \/ Reopen(d) \/ ClearWaiting(d) \/ KillCleared(d) \/ Expire(d)
  PROVE  TypedIInv'
<1>1. DataOK /\ WorkersOK /\ HandlersOK
  BY TypedParts
<1>2. worker' = worker /\ handler' = handler
  BY DEF Reactivate, Reopen, ClearWaiting, KillCleared, Expire, running
<1>3. DataOK'
  BY <1>1, DeliveryAssumption DEF Reactivate, Reopen, ClearWaiting, KillCleared, Expire,
     DataOK, SetRow, SetEvent, GiveUp, RowStatuses, EventStatuses, tables, admin, history
<1> QED
  BY <1>1, <1>2, <1>3 DEF TypedIInv, DataOK, DeliveryTypeOK, WorkersOK, HandlersOK,
     WorkerRec, HandlerRec
LEMMA TickTyped ==
  ASSUME TypedIInv, NEW w \in Workers, Tick(w) \/ Crash(w)
  PROVE  TypedIInv'
<1>0. DataOK /\ WorkersOK /\ HandlersOK
  BY TypedParts
<1>1. SUFFICES DataOK' /\ WorkersOK' /\ HandlersOK'
  BY <1>0 DEF TypedIInv, DataOK, DeliveryTypeOK, WorkersOK, HandlersOK, WorkerRec, HandlerRec
<1>2. CASE Lease(w)
  <2>1. PICK batch \in SUBSET {d \in Deliveries : Leasable(d)} :
          /\ event' = [d \in Deliveries |-> IF d \in batch THEN "PROCESSING" ELSE event[d]]
          /\ worker' = [worker EXCEPT ![w].at = "next", ![w].todo = batch]
    BY <1>2 DEF Lease
  <2>2. DataOK'
    BY <1>0, <1>2, <2>1 DEF Lease, DataOK, EventStatuses, admin, history
  <2>3. WorkersOK'
    <3>1. worker[w] \in WorkerRec /\ worker[w].at = "idle"
      BY <1>0, <1>2 DEF WorkersOK, Lease, WorkerAt
    <3>2. /\ worker'[w].at = "next" /\ worker'[w].call = worker[w].call
          /\ worker'[w].job = worker[w].job /\ worker'[w] \in WorkerRec
      BY <1>0, <2>1, <3>1 DEF WorkersOK, WorkerRec, WorkerPlaces
    <3>3. worker' = [worker EXCEPT ![w] = worker'[w]]
      BY <1>0, <2>1 DEF WorkersOK
    <3> QED
      BY <1>0, <3>1, <3>2, <3>3 DEF WorkersOK
  <2>4. HandlersOK'
    BY <1>0, <1>2 DEF Lease, HandlersOK
  <2> QED
    BY <2>2, <2>3, <2>4
<1>3. CASE StartRow(w)
  <2>1. PICK d \in worker[w].todo, h \in Handlers :
          /\ handler' = [handler EXCEPT ![h] = [at |-> "read", job |-> d, owner |-> w]]
          /\ worker' = [worker EXCEPT ![w] =
               [at |-> "wait", todo |-> @.todo \ {d}, job |-> d, call |-> h]]
    BY <1>3 DEF StartRow
  <2>2. worker[w].todo \in SUBSET Deliveries /\ d \in Deliveries
    BY <1>0, <2>1 DEF WorkersOK, WorkerRec
  <2>3. HandlersOK'
    BY <1>0, <2>1, <2>2 DEF HandlersOK, HandlerRec, HandlerPlaces
  <2>4. WorkersOK'
    BY <1>0, <2>1, <2>2 DEF WorkersOK, WorkerRec, WorkerPlaces
  <2>5. DataOK'
    BY <1>0, <1>3 DEF StartRow, DataOK, tables, admin, history
  <2> QED
    BY <2>3, <2>4, <2>5
<1>4. CASE TimeOut(w)
  <2>1. worker[w].job \in Deliveries /\ worker[w] \in WorkerRec
    BY <1>0, <1>4 DEF TimeOut, WorkerAt, WorkersOK
  <2>2. /\ worker'[w].at = "hold" /\ worker'[w].job = worker[w].job
        /\ worker'[w] \in WorkerRec
    BY <1>0, <1>4, <2>1 DEF TimeOut, WorkersOK, WorkerRec, WorkerPlaces
  <2>3. worker' = [worker EXCEPT ![w] = worker'[w]]
    BY <1>0, <1>4 DEF TimeOut, WorkersOK
  <2>4. WorkersOK'
    BY <1>0, <2>1, <2>2, <2>3 DEF WorkersOK
  <2> QED
    BY <1>0, <1>4, <2>4 DEF TimeOut, DataOK, HandlersOK, tables, admin, history
<1>5. CASE HoldUnconfirmed(w) \/ Unlock(w)
  <2>1. worker[w].job \in Deliveries
    BY <1>0, <1>5 DEF HoldUnconfirmed, Unlock, WorkerAt, WorkersOK
  <2>2. WorkersOK'
    BY <1>0, <1>5, <2>1, WorkerGoType DEF HoldUnconfirmed, Unlock, WorkerPlaces
  <2>3. HandlersOK'
    BY <1>0, <1>5 DEF HoldUnconfirmed, Unlock, HandlersOK
  <2>4. DataOK'
    BY <1>0, <1>5, <2>1 DEF HoldUnconfirmed, Unlock, HoldUnlessSucceeded, GiveUp, DataOK,
       RowStatuses, admin, history
  <2> QED
    BY <2>2, <2>3, <2>4
<1>6. CASE MarkDone(w) \/ ReleaseDeferred(w) \/ MarkFailure(w)
  <2>1. WorkersOK'
    BY <1>0, <1>6, NextRowType DEF MarkDone, ReleaseDeferred, MarkFailure
  <2>2. HandlersOK'
    BY <1>0, <1>6 DEF MarkDone, ReleaseDeferred, MarkFailure, HandlersOK
  <2>3. DataOK'
    BY <1>0, <1>6 DEF MarkDone, ReleaseDeferred, MarkFailure, SetEvent, DataOK,
       EventStatuses, admin, history
  <2> QED
    BY <2>1, <2>2, <2>3
<1>7. CASE TickFails(w)
  <2>1. worker[w].job \in Deliveries
    BY <1>0, <1>7 DEF TickFails, WorkerAt, WorkersOK
  <2>2. WorkersOK'
    <3>1. CASE \E place \in {"defer", "fail", "kill", "hold"} : WorkerGo(w, place)
      BY <1>0, <2>1, <3>1, WorkerGoType DEF WorkerPlaces
    <3>2. CASE worker' = [worker EXCEPT ![w] = IdleWorker]
      <4>1. IdleWorker \in WorkerRec /\ IdleWorker.at = "idle" /\ IdleWorker.call = None
        BY DEF IdleWorker, WorkerRec, WorkerPlaces
      <4> QED
        BY <1>0, <3>2, <4>1 DEF WorkersOK
    <3> QED
      BY <1>7, <3>1, <3>2 DEF TickFails
  <2> QED
    BY <1>0, <1>7, <2>2 DEF TickFails, DataOK, HandlersOK, tables, admin, history
<1>8. CASE Crash(w)
  <2>1. IdleWorker \in WorkerRec /\ IdleWorker.at = "idle" /\ IdleWorker.call = None
    BY DEF IdleWorker, WorkerRec, WorkerPlaces
  <2>2. IdleHandler \in HandlerRec /\ IdleHandler.at = "idle"
    BY DEF IdleHandler, HandlerRec, HandlerPlaces
  <2>3. WorkersOK'
    BY <1>0, <1>8, <2>1 DEF Crash, WorkersOK
  <2>4. HandlersOK'
    BY <1>0, <1>8, <2>2 DEF Crash, HandlersOK
  <2> QED
    BY <1>0, <1>8, <2>3, <2>4 DEF Crash, DataOK, tables, admin, history
<1> QED
  BY <1>2, <1>3, <1>4, <1>5, <1>6, <1>7, <1>8 DEF Tick

LEMMA HandleTyped ==
  ASSUME TypedIInv, NEW h \in Handlers, Handle(h)
  PROVE  TypedIInv'
<1>0. DataOK /\ WorkersOK /\ HandlersOK
  BY TypedParts
<1>1. SUFFICES DataOK' /\ WorkersOK' /\ HandlersOK'
  BY <1>0 DEF TypedIInv, DataOK, DeliveryTypeOK, WorkersOK, HandlersOK, WorkerRec, HandlerRec
<1>2. handler[h].at # "idle" /\ handler[h].job \in Deliveries
  <2>1. handler[h].at # "idle"
    BY DEF Handle, PreRead, HoldOrphan, Reserve, CallMessenger, MarkSucceeded, MarkUncertain,
       StatementFails, ReadFailure, SaveFailure, SaveFails, HandlerAt
  <2> QED
    BY <1>0, <2>1 DEF HandlersOK
<1>3. \/ \E place \in {"orphan", "gate", "send", "sent", "uncertain", "failed",
                       "cut", "save", "saveCut"} : HandlerGo(h, place)
      \/ HandlerEnds(h, "done") \/ HandlerEnds(h, "unlock")
      \/ HandlerEnds(h, "fail") \/ HandlerEnds(h, "kill") \/ HandlerEnds(h, "hold")
  BY DEF Handle, PreRead, HoldOrphan, Reserve, CallMessenger, MarkSucceeded, MarkUncertain,
     StatementFails, ReadFailure, SaveFailure, SaveFails, Ignored
<1>4. WorkersOK' /\ HandlersOK'
  <2>1. CASE \E place \in {"orphan", "gate", "send", "sent", "uncertain", "failed",
                          "cut", "save", "saveCut"} : HandlerGo(h, place)
    <3>1. PICK place \in HandlerPlaces : HandlerGo(h, place)
      BY <2>1 DEF HandlerPlaces
    <3> QED
      BY <1>0, <1>2, <3>1, HandlerGoType
  <2> QED
    BY <1>0, <1>3, <2>1, HandlerEndsType
<1>5. CASE PreRead(h) \/ StatementFails(h) \/ ReadFailure(h) \/ SaveFails(h)
  BY <1>0, <1>4, <1>5 DEF PreRead, StatementFails, ReadFailure, SaveFails, DataOK, tables, admin, history
<1>6. CASE HoldOrphan(h) \/ MarkUncertain(h) \/ Reserve(h)
  <2>1. row' \in [Deliveries -> RowStatuses]
    BY <1>0, <1>6 DEF HoldOrphan, MarkUncertain, Reserve, Unconfirmed, HoldUnlessSucceeded,
       SetRow, DataOK, RowStatuses
  <2>2. UNCHANGED <<sentAt, event, admin, history>>
    BY <1>6 DEF HoldOrphan, MarkUncertain, Reserve
  <2> QED
    BY <1>0, <1>4, <2>1, <2>2 DEF DataOK, admin, history
<1>7. CASE CallMessenger(h)
  <2>1. UNCHANGED <<tables, admin, released>>
    BY <1>7 DEF CallMessenger
  <2>2. posts' \in [Deliveries -> 0..MaxPosts]
    <3>1. MaxPosts \in Nat
      BY DeliveryAssumption DEF MaxPosts
    <3> QED
      BY <1>0, <1>7, <3>1 DEF CallMessenger, DataOK
  <2> QED
    BY <1>0, <1>4, <2>1, <2>2 DEF DataOK, tables, admin
<1>8. CASE MarkSucceeded(h)
  <2>1. row' \in [Deliveries -> RowStatuses] /\ sentAt' \in [Deliveries -> {"never", "today", "before"}]
    BY <1>0, <1>8 DEF MarkSucceeded, SetRow, DataOK, RowStatuses
  <2>2. UNCHANGED <<event, admin, history>>
    BY <1>8 DEF MarkSucceeded
  <2> QED
    BY <1>0, <1>4, <2>1, <2>2 DEF DataOK, admin, history
<1>9. CASE SaveFailure(h)
  <2>1. row' \in [Deliveries -> RowStatuses] /\ released' \subseteq Deliveries
    BY <1>0, <1>2, <1>9 DEF SaveFailure, SetRow, GiveUp, DataOK, RowStatuses
  <2>2. UNCHANGED <<sentAt, event, admin, posts>>
    BY <1>9 DEF SaveFailure
  <2> QED
    BY <1>0, <1>4, <2>1, <2>2 DEF DataOK, admin
<1> QED
  BY <1>5, <1>6, <1>7, <1>8, <1>9 DEF Handle

LEMMA TypedStutter ==
  ASSUME TypedIInv, UNCHANGED vars
  PROVE  TypedIInv'
  BY DEF TypedIInv, DeliveryTypeOK, WorkersOK, HandlersOK, WorkerRec, HandlerRec,
     vars, tables, running, admin, history

LEMMA TypedNext ==
  ASSUME TypedIInv, [DeliveryNext]_vars
  PROVE  TypedIInv'
<1>1. ASSUME NEW w \in Workers, Tick(w) \/ Crash(w) PROVE TypedIInv'
  BY <1>1, TickTyped
<1>2. ASSUME NEW h \in Handlers, Handle(h) PROVE TypedIInv'
  BY <1>2, HandleTyped
<1>3. ASSUME NEW d \in Deliveries, Insert(d) \/ Decide(d) \/ Retarget(d) PROVE TypedIInv'
  BY <1>3, ProducersTyped
<1>4. ASSUME NEW d \in Deliveries,
             Reactivate(d) \/ Reopen(d) \/ ClearWaiting(d) \/ KillCleared(d) \/ Expire(d)
      PROVE  TypedIInv'
  BY <1>4, AdministratorsTyped
<1>5. CASE NewDay
  <2>1. worker' = worker /\ handler' = handler
    BY <1>5 DEF NewDay, running
  <2>2. DataOK'
    BY <1>5, TypedParts DEF NewDay, DataOK, admin, history
  <2> QED
    BY <2>1, <2>2 DEF TypedIInv, DataOK, DeliveryTypeOK, WorkersOK, HandlersOK, WorkerRec, HandlerRec
<1>6. CASE UNCHANGED vars
  BY <1>6, TypedStutter
<1> QED
  BY <1>1, <1>2, <1>3, <1>4, <1>5, <1>6 DEF DeliveryNext

(* All variables keep their types, and every call and every busy worker has  *)
(* a delivery to work on.                                                   *)
THEOREM DeliveryTypeCorrect == DeliverySpec => []DeliveryTypeOK
<1>1. DeliverySpec => []TypedIInv
  BY TypedInit, TypedNext, PTL DEF DeliverySpec
<1>2. TypedIInv => DeliveryTypeOK
  BY DEF TypedIInv
<1> QED
  BY <1>1, <1>2, PTL

----------------------------------------------------------------------------
(* How often a delivery is sent.                                            *)

Kept     == {"PROCESSING", "HOLD", "SUCCEEDED"}
Sends(d) == posts[d] + Cardinality(Sending(d))

\* SendsWithinBudget for one delivery, and for a producer that is about to put
\* a dead row back: no claim can come in between, as it holds the key's lock.
KeptOK(d) ==
  /\ Sends(d) <= Budget(d)
  /\ Sends(d) = Budget(d) => row[d] \in Kept
  /\ queueing[d] = "reuse" => Sends(d) < Budget(d)

SendsIInv == \A d \in Deliveries \ released : KeptOK(d)

LEMMA SendsNat ==
  ASSUME TypedIInv, NEW d \in Deliveries
  PROVE  /\ IsFiniteSet(Sending(d)) /\ Cardinality(Sending(d)) \in Nat
         /\ posts[d] \in Nat /\ Sends(d) \in Nat
         /\ orders[d] \in Nat /\ Budget(d) \in Nat
<1>1. Sending(d) \subseteq Handlers
  BY DEF Sending
<1>2. IsFiniteSet(Sending(d)) /\ Cardinality(Sending(d)) \in Nat
  BY <1>1, DeliveryAssumption, FS_Subset, FS_CardinalityType
<1>3. posts[d] \in Nat /\ orders[d] \in Nat
  BY DeliveryAssumption DEF TypedIInv, DeliveryTypeOK, MaxPosts
<1> QED
  BY <1>2, <1>3 DEF Sends, Budget

LEMMA SendsNatNext ==
  ASSUME TypedIInv', NEW d \in Deliveries
  PROVE  /\ IsFiniteSet(Sending(d))' /\ Cardinality(Sending(d))' \in Nat
         /\ posts'[d] \in Nat /\ Sends(d)' \in Nat
         /\ orders'[d] \in Nat /\ Budget(d)' \in Nat
<1>1. Sending(d)' \subseteq Handlers
  BY DEF Sending
<1>2. IsFiniteSet(Sending(d)') /\ Cardinality(Sending(d)') \in Nat
  BY <1>1, DeliveryAssumption, FS_Subset, FS_CardinalityType
<1>3. posts'[d] \in Nat /\ orders'[d] \in Nat
  BY DeliveryAssumption DEF TypedIInv, DeliveryTypeOK, MaxPosts
<1> QED
  BY <1>2, <1>3 DEF Sends, Budget

\* A step that lets no call begin to send, and after which the row stands for
\* the posts or there is room for another one.
LEMMA QuietStep ==
  ASSUME TypedIInv, TypedIInv', NEW d \in Deliveries, KeptOK(d),
         posts'[d] = posts[d], orders'[d] = orders[d],
         Sending(d)' \subseteq Sending(d),
         row[d] \in Kept => row'[d] \in Kept \/ Sends(d) < Budget(d),
         queueing'[d] = "reuse" => queueing[d] = "reuse" \/ Sends(d) < Budget(d)
  PROVE  KeptOK(d)'
<1>1. Cardinality(Sending(d)') <= Cardinality(Sending(d))
  BY SendsNat, FS_Subset
<1>2. Sends(d)' <= Sends(d) /\ Budget(d)' = Budget(d)
  BY <1>1, SendsNat, SendsNatNext DEF Sends, Budget
<1> QED
  BY <1>2, SendsNat, SendsNatNext DEF KeptOK

LEMMA NoNewSender ==
  ASSUME TypedIInv, NEW h \in Handlers, NEW d,
         \/ \E place \in HandlerPlaces \ {"send"} : HandlerGo(h, place)
         \/ \E place \in WorkerPlaces : HandlerEnds(h, place)
  PROVE  Sending(d)' \subseteq Sending(d)
<1>1. \A g \in Handlers \ {h} : handler'[g] = handler[g]
  BY DEF HandlerGo, HandlerEnds, TypedIInv, HandlersOK
<1>2. handler'[h].at # "send"
  <2>1. handler[h] \in HandlerRec
    BY DEF TypedIInv, HandlersOK
  <2>2. \/ \E place \in HandlerPlaces \ {"send"} : handler'[h] = [handler[h] EXCEPT !.at = place]
        \/ handler'[h] = IdleHandler
    BY DEF HandlerGo, HandlerEnds, TypedIInv, HandlersOK
  <2>3. ASSUME NEW place \in HandlerPlaces \ {"send"},
               handler'[h] = [handler[h] EXCEPT !.at = place]
        PROVE  handler'[h].at # "send"
    BY <2>1, <2>3 DEF HandlerRec
  <2>4. IdleHandler.at # "send"
    BY DEF IdleHandler
  <2> QED
    BY <2>2, <2>3, <2>4
<1> QED
  BY <1>1, <1>2 DEF Sending, HandlerAt

\* A row that gives up its claim, and is not counted as a mistake, has room.
LEMMA GivenUp ==
  ASSUME TypedIInv, NEW d \in Deliveries, NEW statuses, GiveUp(d, statuses),
         d \notin released', row[d] \in statuses
  PROVE  Sends(d) < Budget(d)
<1>1. ~BeingSent(d) /\ ~(posts[d] > orders[d])
  BY DEF GiveUp, TypedIInv, DeliveryTypeOK
<1>2. Sending(d) = {}
  BY <1>1 DEF BeingSent, Sending, HandlerAt
<1>3. Cardinality(Sending(d)) = 0
  BY <1>2, FS_EmptySet
<1> QED
  BY <1>1, <1>3, SendsNat DEF Sends, Budget

LEMMA ReleasedGrows ==
  ASSUME TypedIInv, [DeliveryNext]_vars
  PROVE  released \subseteq released'
  BY DEF DeliveryNext, vars, tables, running, admin, history, Tick, Handle, Lease, StartRow,
     TimeOut, HoldUnconfirmed, MarkDone, Unlock, ReleaseDeferred, MarkFailure, TickFails, Crash, PreRead,
     HoldOrphan, Reserve, CallMessenger, MarkSucceeded, MarkUncertain, StatementFails,
     ReadFailure, SaveFailure, SaveFails, Insert, Decide, Retarget, Expire, Reactivate, Reopen,
     ClearWaiting, KillCleared, NewDay, GiveUp

LEMMA SendsInit == DeliveryInit => SendsIInv
<1> SUFFICES ASSUME DeliveryInit, NEW d \in Deliveries PROVE KeptOK(d)
  BY DEF SendsIInv
<1>1. Sending(d) = {}
  BY DEF DeliveryInit, Sending, HandlerAt, IdleHandler
<1>2. Sends(d) = 0 /\ Budget(d) = 1
  BY <1>1, FS_EmptySet DEF DeliveryInit, Sends, Budget
<1> QED
  BY <1>2 DEF KeptOK, DeliveryInit

\* The steps of a call that do not claim, post or save a failure.
LEMMA CallSends ==
  ASSUME TypedIInv, TypedIInv', NEW h \in Handlers, NEW d \in Deliveries, KeptOK(d),
         PreRead(h) \/ HoldOrphan(h) \/ MarkSucceeded(h) \/ MarkUncertain(h)
           \/ StatementFails(h) \/ ReadFailure(h) \/ SaveFails(h)
  PROVE  KeptOK(d)'
<1>1. Sending(d)' \subseteq Sending(d)
  <2>1. \/ \E place \in {"orphan", "gate", "failed", "cut", "save", "saveCut"} : HandlerGo(h, place)
        \/ \E place \in {"done", "unlock", "fail", "kill", "hold"} : HandlerEnds(h, place)
    BY DEF PreRead, HoldOrphan, MarkSucceeded, MarkUncertain, StatementFails, ReadFailure, SaveFails, Ignored
  <2> QED
    BY <2>1, NoNewSender DEF HandlerPlaces, WorkerPlaces
<1>2. row[d] \in Kept => row'[d] \in Kept
  BY DEF PreRead, HoldOrphan, MarkSucceeded, MarkUncertain, StatementFails, ReadFailure, SaveFails, Ignored,
     HoldUnlessSucceeded, Unconfirmed, SetRow, Kept, tables, TypedIInv, DeliveryTypeOK
<1>3. posts' = posts /\ orders' = orders /\ queueing' = queueing
  BY DEF PreRead, HoldOrphan, MarkSucceeded, MarkUncertain, StatementFails, ReadFailure, SaveFails, Ignored,
     admin, history
<1> QED
  BY <1>1, <1>2, <1>3, QuietStep

LEMMA SaveFailureSends ==
  ASSUME TypedIInv, TypedIInv', NEW h \in Handlers, NEW d \in Deliveries, KeptOK(d),
         SaveFailure(h), d \notin released'
  PROVE  KeptOK(d)'
<1>1. Sending(d)' \subseteq Sending(d)
  <2>1. HandlerEnds(h, "fail") \/ HandlerEnds(h, "kill") \/ HandlerEnds(h, "hold")
    BY DEF SaveFailure
  <2> QED
    BY <2>1, NoNewSender DEF WorkerPlaces
<1>2. row[d] \in Kept => row'[d] \in Kept \/ Sends(d) < Budget(d)
  <2>1. CASE handler[h].job = d
    <3>1. GiveUp(d, Kept)
      BY <2>1 DEF SaveFailure, Kept
    <3> QED
      BY <3>1, GivenUp
  <2>2. CASE handler[h].job # d
    BY <2>2 DEF SaveFailure, SetRow, TypedIInv, DeliveryTypeOK
  <2> QED
    BY <2>1, <2>2
<1>3. posts' = posts /\ orders' = orders /\ queueing' = queueing
  BY DEF SaveFailure, admin
<1> QED
  BY <1>1, <1>2, <1>3, QuietStep

\* The claim needs a waiting row, and a waiting row means room for one more.
LEMMA ReserveSends ==
  ASSUME TypedIInv, TypedIInv', NEW h \in Handlers, NEW d \in Deliveries, KeptOK(d), Reserve(h)
  PROVE  KeptOK(d)'
<1>0. posts' = posts /\ orders' = orders /\ queueing' = queueing
  BY DEF Reserve, admin, history
<1>1. CASE HandlerEnds(h, "done") \/ HandlerEnds(h, "unlock")
  <2>2. Sending(d)' \subseteq Sending(d)
    BY <1>1, NoNewSender DEF WorkerPlaces
  <2>3. row[d] \in Kept => row'[d] \in Kept
    BY DEF Reserve, SetRow, Kept, TypedIInv, DeliveryTypeOK
  <2> QED
    BY <1>0, <2>2, <2>3, QuietStep
<1>2. CASE /\ row[handler[h].job] \in Claimable /\ ~KeyLocked(handler[h].job)
           /\ SetRow(handler[h].job, "PROCESSING") /\ HandlerGo(h, "send")
  <2>1. CASE handler[h].job # d
    <3>1. Sending(d)' \subseteq Sending(d)
      BY <1>2, <2>1 DEF HandlerGo, Sending, HandlerAt, TypedIInv, HandlersOK, HandlerRec
    <3>2. row'[d] = row[d]
      BY <1>2, <2>1 DEF SetRow, TypedIInv, DeliveryTypeOK
    <3> QED
      BY <1>0, <3>1, <3>2, QuietStep
  <2>2. CASE handler[h].job = d
    <3>1. Sends(d) < Budget(d)
      BY <1>2, <2>2, SendsNat DEF KeptOK, Kept, Claimable
    <3>2. Sending(d)' = Sending(d) \cup {h}
      BY <1>2, <2>2 DEF HandlerGo, Sending, HandlerAt, TypedIInv, HandlersOK, HandlerRec
    <3>3. Cardinality(Sending(d)') <= Cardinality(Sending(d)) + 1
      <4>1. IsFiniteSet(Sending(d)) /\ Cardinality(Sending(d)) \in Nat
        BY SendsNat
      <4>2. \/ Cardinality(Sending(d) \cup {h}) = Cardinality(Sending(d))
            \/ Cardinality(Sending(d) \cup {h}) = Cardinality(Sending(d)) + 1
        BY <4>1, FS_AddElement
      <4> QED
        BY <3>2, <4>1, <4>2
    <3>4. Sends(d)' <= Budget(d)'
      BY <1>0, <3>1, <3>3, SendsNat, SendsNatNext DEF Sends, Budget
    <3>5. row'[d] = "PROCESSING"
      BY <1>2, <2>2 DEF SetRow, TypedIInv, DeliveryTypeOK
    <3>6. queueing'[d] # "reuse"
      BY <1>0, <1>2, <2>2 DEF KeyLocked
    <3> QED
      BY <3>4, <3>5, <3>6 DEF KeptOK, Kept
  <2> QED
    BY <2>1, <2>2
<1> QED
  BY <1>1, <1>2 DEF Reserve

\* A call that posts was counted before: it moves from one term to the other.
LEMMA CallMessengerSends ==
  ASSUME TypedIInv, TypedIInv', NEW h \in Handlers, NEW d \in Deliveries, KeptOK(d),
         CallMessenger(h)
  PROVE  KeptOK(d)'
<1>0. row' = row /\ orders' = orders /\ queueing' = queueing
  BY DEF CallMessenger, tables, admin
<1>1. handler[h].at = "send" /\ handler'[h].at # "send"
  <2>1. handler[h] \in HandlerRec /\ handler[h].at = "send"
    BY DEF CallMessenger, HandlerAt, TypedIInv, HandlersOK
  <2>2. \/ \E place \in {"sent", "uncertain", "failed"} : HandlerGo(h, place)
        \/ HandlerEnds(h, "unlock")
    BY DEF CallMessenger
  <2>3. \/ \E place \in {"sent", "uncertain", "failed"} :
              handler'[h] = [handler[h] EXCEPT !.at = place]
        \/ handler'[h] = IdleHandler
    BY <2>2 DEF HandlerGo, HandlerEnds, TypedIInv, HandlersOK
  <2> QED
    BY <2>1, <2>3 DEF HandlerRec, IdleHandler
<1>2. \A g \in Handlers \ {h} : handler'[g] = handler[g]
  BY DEF CallMessenger, HandlerGo, HandlerEnds, TypedIInv, HandlersOK
<1>3. Sending(d)' = Sending(d) \ {h}
  BY <1>1, <1>2 DEF Sending, HandlerAt
<1>4. CASE posts'[d] = posts[d]
  BY <1>0, <1>3, <1>4, QuietStep
<1>5. CASE posts'[d] # posts[d]
  <2>1. handler[h].job = d /\ posts'[d] = posts[d] + 1
    BY <1>5 DEF CallMessenger, TypedIInv, DeliveryTypeOK
  <2>2. h \in Sending(d)
    BY <1>1, <2>1 DEF Sending, HandlerAt
  <2>3. Cardinality(Sending(d)') = Cardinality(Sending(d)) - 1
    BY <1>3, <2>2, SendsNat, FS_RemoveElement
  <2>4. Sends(d)' = Sends(d) /\ Budget(d)' = Budget(d)
    BY <1>0, <2>1, <2>3, SendsNat, SendsNatNext DEF Sends, Budget
  <2> QED
    BY <1>0, <2>4 DEF KeptOK
<1> QED
  BY <1>4, <1>5

\* The worker's own steps start a call or leave it alone, or kill it.
LEMMA TickSends ==
  ASSUME TypedIInv, TypedIInv', NEW w \in Workers, NEW d \in Deliveries, KeptOK(d),
         Tick(w) \/ Crash(w), d \notin released'
  PROVE  KeptOK(d)'
<1>0. posts' = posts /\ orders' = orders /\ queueing' = queueing
  BY DEF Tick, Crash, Lease, StartRow, TimeOut, HoldUnconfirmed, MarkDone, Unlock,
     ReleaseDeferred, MarkFailure, TickFails, admin, history
<1>1. Sending(d)' \subseteq Sending(d)
  <2>1. CASE StartRow(w)
    <3>1. PICK e \in worker[w].todo, h \in Handlers :
            handler' = [handler EXCEPT ![h] = [at |-> "read", job |-> e, owner |-> w]]
      BY <2>1 DEF StartRow
    <3>2. handler'[h].at # "send" /\ \A g \in Handlers \ {h} : handler'[g] = handler[g]
      BY <3>1 DEF TypedIInv, HandlersOK
    <3> QED
      BY <3>2 DEF Sending, HandlerAt
  <2>2. CASE Crash(w)
    BY <2>2 DEF Crash, IdleHandler, Sending, HandlerAt
  <2>3. CASE Tick(w) /\ ~StartRow(w)
    <3>1. handler' = handler
      BY <2>3 DEF Tick, Lease, TimeOut, HoldUnconfirmed, MarkDone, Unlock, ReleaseDeferred, MarkFailure, TickFails
    <3> QED
      BY <3>1 DEF Sending, HandlerAt
  <2> QED
    BY <2>1, <2>2, <2>3
<1>2. row[d] \in Kept => row'[d] \in Kept \/ Sends(d) < Budget(d)
  <2>1. CASE Unlock(w)
    <3>1. CASE worker[w].job = d /\ row[d] = "PROCESSING"
      <4>1. GiveUp(d, {"PROCESSING"})
        BY <2>1, <3>1 DEF Unlock
      <4> QED
        BY <3>1, <4>1, GivenUp
    <3>2. CASE ~(worker[w].job = d /\ row[d] = "PROCESSING")
      BY <2>1, <3>2 DEF Unlock, TypedIInv, DeliveryTypeOK
    <3> QED
      BY <3>1, <3>2
  <2>2. CASE (Tick(w) /\ ~Unlock(w)) \/ Crash(w)
    BY <2>2 DEF Tick, Crash, Lease, StartRow, TimeOut, HoldUnconfirmed, MarkDone,
       ReleaseDeferred, MarkFailure, TickFails, HoldUnlessSucceeded, tables, Kept, TypedIInv, DeliveryTypeOK
  <2> QED
    BY <2>1, <2>2
<1> QED
  BY <1>0, <1>1, <1>2, QuietStep

\* Producers: a dead row is put back under the lock of its key.
LEMMA ProducersSend ==
  ASSUME TypedIInv, TypedIInv', NEW e \in Deliveries, NEW d \in Deliveries, KeptOK(d),
         Insert(e) \/ Decide(e) \/ Retarget(e)
  PROVE  KeptOK(d)'
<1>0. posts' = posts /\ orders' = orders
  BY DEF Insert, Decide, Retarget, admin, history
<1>1. Sending(d)' \subseteq Sending(d)
  BY DEF Insert, Decide, Retarget, running, Sending, HandlerAt
<1>2. row[d] \in Kept => row'[d] \in Kept \/ Sends(d) < Budget(d)
  <2>1. CASE Insert(e) \/ Decide(e)
    BY <2>1 DEF Insert, Decide, SetRow, tables, Kept, TypedIInv, DeliveryTypeOK
  <2>2. CASE Retarget(e)
    BY <2>2 DEF Retarget, KeptOK, Kept, TypedIInv, DeliveryTypeOK
  <2> QED
    BY <2>1, <2>2
<1>3. queueing'[d] = "reuse" => queueing[d] = "reuse" \/ Sends(d) < Budget(d)
  <2>1. CASE Decide(e)
    <3>1. row[d] = "DEAD" => Sends(d) < Budget(d)
      BY SendsNat DEF KeptOK, Kept
    <3> QED
      BY <2>1, <3>1 DEF Decide, Reusable, TypedIInv, DeliveryTypeOK
  <2>2. CASE Insert(e) \/ Retarget(e)
    BY <2>2 DEF Insert, Retarget, admin, TypedIInv, DeliveryTypeOK
  <2> QED
    BY <2>1, <2>2
<1> QED
  BY <1>0, <1>1, <1>2, <1>3, QuietStep

\* Administrators: a reactivation asks for one more, the rest takes waiting
\* rows, or claims it knows to be given up.
LEMMA AdministratorsSend ==
  ASSUME TypedIInv, TypedIInv', NEW e \in Deliveries, NEW d \in Deliveries, KeptOK(d),
         Reactivate(e) \/ Reopen(e) \/ ClearWaiting(e) \/ KillCleared(e) \/ Expire(e),
         d \notin released'
  PROVE  KeptOK(d)'
<1>0. posts' = posts /\ queueing' = queueing
  BY DEF Reactivate, Reopen, ClearWaiting, KillCleared, Expire, admin, history
<1>1. Sending(d)' = Sending(d)
  BY DEF Reactivate, Reopen, ClearWaiting, KillCleared, Expire, running, Sending, HandlerAt
<1>2. CASE Reactivate(e)
  <2>1. CASE e = d
    <3>1. orders'[d] = orders[d] + 1
      BY <1>2, <2>1 DEF Reactivate, TypedIInv, DeliveryTypeOK
    <3>2. Sends(d)' = Sends(d) /\ Budget(d)' = Budget(d) + 1
      BY <1>0, <1>1, <3>1, SendsNat DEF Sends, Budget
    <3> QED
      BY <1>0, <3>2, SendsNat DEF KeptOK
  <2>2. CASE e # d
    <3>1. row'[d] = row[d] /\ orders'[d] = orders[d]
      BY <1>2, <2>2 DEF Reactivate, SetRow, TypedIInv, DeliveryTypeOK
    <3> QED
      BY <1>0, <1>1, <3>1, QuietStep
  <2> QED
    BY <2>1, <2>2
<1>3. CASE KillCleared(e)
  <2>1. row[d] \in Kept => row'[d] \in Kept \/ Sends(d) < Budget(d)
    <3>1. CASE e = d /\ row[d] = "PROCESSING"
      <4>1. GiveUp(d, {"PROCESSING"})
        BY <1>3, <3>1 DEF KillCleared
      <4> QED
        BY <3>1, <4>1, GivenUp
    <3>2. CASE ~(e = d /\ row[d] = "PROCESSING")
      BY <1>3, <3>2 DEF KillCleared, Kept, TypedIInv, DeliveryTypeOK
    <3> QED
      BY <3>1, <3>2
  <2>2. orders' = orders
    BY <1>3 DEF KillCleared
  <2> QED
    BY <1>0, <1>1, <2>1, <2>2, QuietStep
<1>4. CASE Reopen(e) \/ ClearWaiting(e) \/ Expire(e)
  <2>1. row' = row /\ orders' = orders
    BY <1>4 DEF Reopen, ClearWaiting, Expire, admin
  <2> QED
    BY <1>0, <1>1, <2>1, QuietStep
<1> QED
  BY <1>2, <1>3, <1>4

LEMMA SendsNext ==
  ASSUME TypedIInv, TypedIInv', SendsIInv, [DeliveryNext]_vars
  PROVE  SendsIInv'
<1> SUFFICES ASSUME NEW d \in Deliveries, d \notin released' PROVE KeptOK(d)'
  BY DEF SendsIInv
<1>0. KeptOK(d)
  BY ReleasedGrows DEF SendsIInv
<1>1. ASSUME NEW w \in Workers, Tick(w) \/ Crash(w) PROVE KeptOK(d)'
  BY <1>0, <1>1, TickSends
<1>2. ASSUME NEW h \in Handlers, Handle(h) PROVE KeptOK(d)'
  BY <1>0, <1>2, CallSends, SaveFailureSends, ReserveSends, CallMessengerSends DEF Handle
<1>3. ASSUME NEW e \in Deliveries, Insert(e) \/ Decide(e) \/ Retarget(e) PROVE KeptOK(d)'
  BY <1>0, <1>3, ProducersSend
<1>4. ASSUME NEW e \in Deliveries,
             Reactivate(e) \/ Reopen(e) \/ ClearWaiting(e) \/ KillCleared(e) \/ Expire(e)
      PROVE  KeptOK(d)'
  BY <1>0, <1>4, AdministratorsSend
<1>5. CASE NewDay \/ UNCHANGED vars
  <2>1. row' = row /\ posts' = posts /\ orders' = orders /\ queueing' = queueing /\ handler' = handler
    BY <1>5 DEF NewDay, vars, tables, running, admin, history
  <2>2. Sending(d)' = Sending(d)
    BY <2>1 DEF Sending, HandlerAt
  <2> QED
    BY <1>0, <2>1, <2>2, QuietStep
<1> QED
  BY <1>1, <1>2, <1>3, <1>4, <1>5 DEF DeliveryNext

LEMMA SendsAlways == DeliverySpec => [](TypedIInv /\ SendsIInv)
  BY TypedInit, TypedNext, SendsInit, SendsNext, PTL DEF DeliverySpec

(* Posts and calls about to post never exceed what was asked for, and a row   *)
(* for which nothing more may be posted is one that no worker claims and no   *)
(* producer takes up again.                                                  *)
THEOREM SendsHold == DeliverySpec => []SendsWithinBudget
<1>1. TypedIInv /\ SendsIInv => SendsWithinBudget
  BY DEF SendsIInv, KeptOK, SendsWithinBudget, Sends, Kept
<1> QED
  BY <1>1, SendsAlways, PTL

(* However many workers, overlapping leases, late answers, time-outs,         *)
(* crashes, producers and administrators there are, no delivery whose claim   *)
(* was not given up by mistake is posted more than once, and once more for    *)
(* every time an administrator sent it off again.                            *)
THEOREM NeverTwiceHolds == DeliverySpec => []NeverTwice
<1>1. TypedIInv /\ SendsIInv => NeverTwice
  <2> SUFFICES ASSUME TypedIInv, SendsIInv, NEW d \in Deliveries \ released
               PROVE  posts[d] <= 1 + orders[d]
    BY DEF NeverTwice
  <2>1. Sends(d) <= Budget(d)
    BY DEF SendsIInv, KeptOK
  <2> QED
    BY <2>1, SendsNat DEF Sends, Budget
<1> QED
  BY <1>1, SendsAlways, PTL

----------------------------------------------------------------------------
(* A success stays.                                                         *)

\* Only what has been posted is recorded as sent.
PostedOK ==
  /\ \A d \in Deliveries : row[d] = "SUCCEEDED" => posts[d] >= 1
  /\ \A h \in Handlers : handler[h].at = "sent" => posts[handler[h].job] >= 1

LEMMA PostsGrow ==
  ASSUME TypedIInv, [DeliveryNext]_vars, NEW d \in Deliveries, posts[d] >= 1
  PROVE  posts'[d] >= 1
<1>1. CASE \E h \in Handlers : CallMessenger(h)
  BY <1>1, DeliveryAssumption DEF CallMessenger, TypedIInv, DeliveryTypeOK, MaxPosts
<1>2. CASE ~\E h \in Handlers : CallMessenger(h)
  <2>1. posts' = posts
    BY <1>2 DEF DeliveryNext, vars, tables, running, admin, history, Tick, Handle, Lease,
     StartRow, TimeOut, HoldUnconfirmed, MarkDone, Unlock, ReleaseDeferred, MarkFailure, TickFails, Crash,
     PreRead, HoldOrphan, Reserve, MarkSucceeded, MarkUncertain, StatementFails, ReadFailure,
     SaveFailure, SaveFails, Insert, Decide, Retarget, Expire, Reactivate, Reopen, ClearWaiting,
     KillCleared, NewDay
  <2> QED
    BY <2>1
<1> QED
  BY <1>1, <1>2

\* Only markCreateSucceeded records a success, for a call that saw its post.
LEMMA Succeeding ==
  ASSUME TypedIInv, [DeliveryNext]_vars, NEW d \in Deliveries,
         row[d] # "SUCCEEDED", row'[d] = "SUCCEEDED"
  PROVE  \E h \in Handlers : handler[h].at = "sent" /\ handler[h].job = d
<1>1. CASE \E h \in Handlers : MarkSucceeded(h)
  BY <1>1 DEF MarkSucceeded, HandlerAt, SetRow, TypedIInv, DeliveryTypeOK
<1>2. CASE ~\E h \in Handlers : MarkSucceeded(h)
  BY <1>2 DEF DeliveryNext, vars, tables, running, admin, history, Tick, Handle, Lease,
     StartRow, TimeOut, HoldUnconfirmed, MarkDone, Unlock, ReleaseDeferred, MarkFailure, TickFails, Crash,
     PreRead, HoldOrphan, Reserve, CallMessenger, MarkUncertain, StatementFails, ReadFailure,
     SaveFailure, SaveFails, Insert, Decide, Retarget, Expire, Reactivate, Reopen, ClearWaiting,
     KillCleared, NewDay, HoldUnlessSucceeded, Unconfirmed, SetRow, TypedIInv, DeliveryTypeOK
<1> QED
  BY <1>1, <1>2

\* A call is at "sent" because it was, or because it has just posted.
LEMMA Sent ==
  ASSUME TypedIInv, [DeliveryNext]_vars, NEW h \in Handlers, handler'[h].at = "sent"
  PROVE  \/ handler'[h] = handler[h]
         \/ handler'[h].job \in Deliveries /\ posts'[handler'[h].job] >= 1
<1>0. handler \in [Handlers -> HandlerRec]
  BY DEF TypedIInv, HandlersOK
<1>1. CASE \E g \in Handlers : CallMessenger(g)
  <2>1. PICK g \in Handlers : CallMessenger(g)
    BY <1>1
  <2>2. CASE g # h
    BY <1>0, <2>1, <2>2 DEF CallMessenger, HandlerGo, HandlerEnds
  <2>3. CASE g = h
    <3>1. handler[h].at = "send" /\ handler[h] \in HandlerRec /\ handler[h].job \in Deliveries
      BY <2>1, <2>3 DEF CallMessenger, HandlerAt, TypedIInv, HandlersOK
    <3>2. \/ /\ posts' = [posts EXCEPT ![handler[h].job] = IF @ < MaxPosts THEN @ + 1 ELSE @]
             /\ handler'[h].job = handler[h].job
          \/ handler'[h] = [handler[h] EXCEPT !.at = "uncertain"]
          \/ handler'[h] = [handler[h] EXCEPT !.at = "failed"]
          \/ handler'[h] = IdleHandler
      <4>1. CASE /\ posts' = [posts EXCEPT ![handler[h].job] = IF @ < MaxPosts THEN @ + 1 ELSE @]
                 /\ HandlerGo(h, "sent")
        BY <1>0, <3>1, <4>1 DEF HandlerGo, HandlerRec
      <4>2. CASE HandlerGo(h, "uncertain") \/ HandlerGo(h, "failed") \/ HandlerEnds(h, "unlock")
        BY <1>0, <4>2 DEF HandlerGo, HandlerEnds
      <4> QED
        BY <2>1, <2>3, <4>1, <4>2 DEF CallMessenger
    <3>3. handler'[h].job = handler[h].job
          /\ posts' = [posts EXCEPT ![handler[h].job] = IF @ < MaxPosts THEN @ + 1 ELSE @]
      BY <3>1, <3>2 DEF HandlerRec, IdleHandler
    <3> QED
      BY <3>1, <3>3, DeliveryAssumption DEF TypedIInv, DeliveryTypeOK, MaxPosts
  <2> QED
    BY <2>2, <2>3
<1>2. CASE \E g \in Handlers : Handle(g) /\ ~CallMessenger(g)
  <2>1. PICK g \in Handlers : Handle(g) /\ ~CallMessenger(g)
    BY <1>2
  <2>2. \/ \E place \in HandlerPlaces \ {"sent"} : HandlerGo(g, place)
        \/ \E place \in WorkerPlaces : HandlerEnds(g, place)
    BY <2>1 DEF Handle, PreRead, HoldOrphan, Reserve, MarkSucceeded, MarkUncertain,
       StatementFails, ReadFailure, SaveFailure, SaveFails, Ignored, HandlerPlaces, WorkerPlaces
  <2>3. \A k \in Handlers \ {g} : handler'[k] = handler[k]
    BY <1>0, <2>2 DEF HandlerGo, HandlerEnds
  <2>4. handler'[g].at # "sent"
    <3>1. ASSUME NEW place \in HandlerPlaces \ {"sent"}, HandlerGo(g, place)
          PROVE  handler'[g].at # "sent"
      BY <1>0, <3>1 DEF HandlerGo, HandlerRec
    <3>2. ASSUME NEW place \in WorkerPlaces, HandlerEnds(g, place)
          PROVE  handler'[g].at # "sent"
      BY <1>0, <3>2 DEF HandlerEnds, IdleHandler
    <3> QED
      BY <2>2, <3>1, <3>2
  <2> QED
    BY <2>3, <2>4
<1>3. CASE \E w \in Workers : StartRow(w) \/ Crash(w)
  BY <1>0, <1>3 DEF StartRow, Crash, IdleHandler
<1>4. CASE ~(\E w \in Workers : StartRow(w) \/ Crash(w)) /\ ~\E g \in Handlers : Handle(g)
  BY <1>4 DEF DeliveryNext, vars, running, Tick, Lease, TimeOut, HoldUnconfirmed, MarkDone,
     Unlock, ReleaseDeferred, MarkFailure, TickFails, Insert, Decide, Retarget, Expire, Reactivate, Reopen,
     ClearWaiting, KillCleared, NewDay
<1> QED
  BY <1>1, <1>2, <1>3, <1>4

LEMMA PostedNext ==
  ASSUME TypedIInv, TypedIInv', PostedOK, [DeliveryNext]_vars
  PROVE  PostedOK'
<1>1. ASSUME NEW d \in Deliveries, row'[d] = "SUCCEEDED" PROVE posts'[d] >= 1
  <2>1. posts[d] >= 1
    BY <1>1, Succeeding DEF PostedOK
  <2> QED
    BY <2>1, PostsGrow
<1>2. ASSUME NEW h \in Handlers, handler'[h].at = "sent" PROVE posts'[handler'[h].job] >= 1
  <2>1. handler[h].at = "sent" => handler[h].job \in Deliveries
    BY DEF TypedIInv, HandlersOK
  <2> QED
    BY <1>2, <2>1, Sent, PostsGrow DEF PostedOK
<1> QED
  BY <1>1, <1>2 DEF PostedOK

\* A producer that found a dead row meets no success when it puts it back.
LEMMA SuccessStep ==
  ASSUME TypedIInv, PostedOK, SendsIInv, [DeliveryNext]_vars, NEW d \in Deliveries \ released',
         row[d] = "SUCCEEDED", orders[d] = 0
  PROVE  row'[d] = "SUCCEEDED"
<1>0. posts[d] > orders[d] /\ Sends(d) >= Budget(d) /\ d \notin released
  BY SendsNat, ReleasedGrows DEF PostedOK, Sends, Budget
<1>1. queueing[d] # "reuse"
  BY <1>0, SendsNat DEF SendsIInv, KeptOK
<1>2. ASSUME NEW h \in Handlers, SaveFailure(h) PROVE row'[d] = row[d]
  BY <1>0, <1>2 DEF SaveFailure, SetRow, GiveUp, TypedIInv, DeliveryTypeOK
<1>3. ASSUME NEW h \in Handlers, Handle(h), ~SaveFailure(h) PROVE row'[d] = row[d] \/ row'[d] = "SUCCEEDED"
  BY <1>3 DEF Handle, PreRead, HoldOrphan, Reserve, CallMessenger, MarkSucceeded, MarkUncertain,
     StatementFails, ReadFailure, SaveFails, Claimable, HoldUnlessSucceeded, Unconfirmed, SetRow, tables,
     TypedIInv, DeliveryTypeOK
<1>4. ASSUME NEW w \in Workers, Tick(w) \/ Crash(w) PROVE row'[d] = row[d]
  BY <1>4 DEF Tick, Crash, Lease, StartRow, TimeOut, HoldUnconfirmed, MarkDone, Unlock,
     ReleaseDeferred, MarkFailure, TickFails, HoldUnlessSucceeded, tables, TypedIInv, DeliveryTypeOK
<1>5. ASSUME NEW e \in Deliveries, Insert(e) \/ Decide(e) \/ Retarget(e) \/ Expire(e)
                \/ Reactivate(e) \/ Reopen(e) \/ ClearWaiting(e) \/ KillCleared(e)
      PROVE  row'[d] = row[d]
  BY <1>1, <1>5 DEF Insert, Decide, Retarget, Expire, Reactivate, Reopen, ClearWaiting,
     KillCleared, SetRow, tables, TypedIInv, DeliveryTypeOK
<1>6. CASE NewDay \/ UNCHANGED vars
  BY <1>6 DEF NewDay, vars, tables
<1> QED
  BY <1>2, <1>3, <1>4, <1>5, <1>6 DEF DeliveryNext

(* A delivery recorded as sent stays recorded, as long as no administrator    *)
(* sends it off again and no failing statement is taken for a failed post.   *)
THEOREM SuccessStaysHolds == DeliverySpec => SuccessStays
<1>1. DeliveryInit => PostedOK
  BY DEF DeliveryInit, PostedOK, IdleHandler
<1>2. DeliverySpec => [](TypedIInv /\ PostedOK)
  BY <1>1, TypedInit, TypedNext, PostedNext, PTL DEF DeliverySpec
<1>3. TypedIInv /\ PostedOK /\ SendsIInv /\ [DeliveryNext]_vars =>
        [\A d \in Deliveries \ released' :
           row[d] = "SUCCEEDED" /\ orders[d] = 0 => row'[d] = "SUCCEEDED"]_vars
  BY SuccessStep
<1> QED
  BY <1>2, <1>3, SendsAlways, PTL DEF DeliverySpec, SuccessStays
=============================================================================
