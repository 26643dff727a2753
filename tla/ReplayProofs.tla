----------------------------- MODULE ReplayProofs -----------------------------
(***************************************************************************)
(* What holds of Replay for every number of sessions, credits, requests,   *)
(* batches and crashes, and every capacity of the semaphore: its type      *)
(* invariant, the credits, the semaphore and the ledger of the charges;    *)
(* that it implements ReplayLifecycle; and what a session says about its   *)
(* batches.  The last part is about ReplayRetry: which events a retry      *)
(* sends, for every number of events, sizes of batches and length of the   *)
(* lineage.                                                                *)
(***************************************************************************)
EXTENDS Replay, ReplayRetry, FiniteSetTheorems, SequenceTheorems, WellFoundedInduction, TLAPS

serverVars == <<stored, mode, sem, stops>>
clientVars == <<req, can>>

(* A goroutine inside the loop has a batch left to send; before it, the    *)
(* loop counter is zero.                                                   *)
InLoop  == {"check", "poll", "send", "delay"}
Fresh   == {"none", "queued", "start"}
LoopInv ==
  \A s \in Sessions : /\ pc[s] \in InLoop => next[s] < total[s]
                      /\ pc[s] \in Fresh => next[s] = 0

(* A request at work and a row name a source pixel, a request names the    *)
(* credit it holds or gives back, and every goroutine has a row.           *)
Bound(r) ==
  /\ r.pc # "idle" => r.source \in Pixels
  /\ r.pc \in {"locked", "refund"} => r.credit \in Credits
BindingInv ==
  /\ \A h \in Handlers : Bound(req[h])
  /\ \A s \in Sessions :
       /\ status[s] # "none" => source[s] \in Pixels
       /\ pc[s] # "none" => status[s] # "none"

TypeInv == TypeOK /\ LoopInv /\ BindingInv

-----------------------------------------------------------------------------
(* Lemmas about the data. *)

(* Counting a set of batches gives a number of batches.                    *)
LEMMA BatchCount ==
  ASSUME NEW S \in SUBSET Batches
  PROVE  Cardinality(S) \in Counts
<1> USE ConstantsAssumption
<1>1. CASE MaxBatches = 0
  <2>1. S = {}
    BY <1>1 DEF Batches
  <2> QED
    BY <2>1, <1>1, FS_EmptySet DEF Counts
<1>2. CASE MaxBatches > 0
  <2>1. IsFiniteSet(Batches) /\ Cardinality(Batches) = MaxBatches
    BY <1>2, FS_Interval DEF Batches
  <2>2. IsFiniteSet(S) /\ Cardinality(S) <= MaxBatches
    BY <2>1, FS_Subset
  <2> QED
    BY <2>2, FS_CardinalityType DEF Counts
<1> QED
  BY <1>1, <1>2

(* What updateProgress writes is well typed.                               *)
LEMMA TallyType ==
  ASSUME TypeOK, NEW s \in Sessions
  PROVE  Tally(s) \in [replayed : Counts, failed : Counts]
  BY BatchCount DEF Tally, TypeOK, LoopsOK

LEMMA InitTypeInv == Init => TypeInv
  BY ConstantsAssumption
  DEF Init, TypeInv, TypeOK, RowsOK, MoneyOK, ServerOK, RequestsOK, LoopsOK,
      LoopInv, BindingInv, Bound, InLoop, Fresh, Statuses, Counts, Requests,
      NoReq, Cancellations, NoCan, Points, Exits, Executing

-----------------------------------------------------------------------------
(* Lemmas about the frames the actions are built from. *)

(* What a step leaves alone keeps its type.                                *)
LEMMA Keep ==
  ASSUME TypeOK
  PROVE  /\ UNCHANGED dbVars => RowsOK'
         /\ UNCHANGED moneyVars => MoneyOK'
         /\ UNCHANGED serverVars => ServerOK'
         /\ UNCHANGED clientVars => RequestsOK'
         /\ UNCHANGED <<pc, loopVars>> => LoopsOK'
<1>1. UNCHANGED dbVars => RowsOK'
  BY DEF TypeOK, RowsOK, dbVars
<1>2. UNCHANGED moneyVars => MoneyOK'
  BY DEF TypeOK, MoneyOK, moneyVars
<1>3. UNCHANGED serverVars => ServerOK'
  BY DEF TypeOK, ServerOK, serverVars
<1>4. UNCHANGED clientVars => RequestsOK'
  BY DEF TypeOK, RequestsOK, clientVars
<1>5. UNCHANGED <<pc, loopVars>> => LoopsOK'
  BY DEF TypeOK, LoopsOK, loopVars
<1> QED
  BY <1>1, <1>2, <1>3, <1>4, <1>5

(* A step that gives one request a new, well-typed local state.            *)
LEMMA StepReqType ==
  ASSUME TypeInv, NEW h \in Handlers, NEW new \in Requests,
         Bound(new), StepReq(h, new)
  PROVE  /\ RequestsOK'
         /\ \A g \in Handlers : Bound(req'[g])
         /\ stored' = stored /\ mode' = mode /\ stops' = stops
<1> USE DEF StepReq, TypeInv, TypeOK, RequestsOK
<1>1. req' \in [Handlers -> Requests]
  OBVIOUS
<1>2. ASSUME NEW g \in Handlers
      PROVE  Bound(req'[g])
  BY DEF BindingInv
<1> QED
  BY <1>1, <1>2

LEMMA OnlyReqType ==
  ASSUME TypeInv, NEW h \in Handlers, NEW new \in Requests,
         Bound(new), OnlyReq(h, new)
  PROVE  TypeInv'
<1>1. UNCHANGED <<dbVars, moneyVars, serverVars, pc, loopVars>>
  BY DEF OnlyReq, StepReq, serverVars
<1>2. StepReq(h, new)
  BY DEF OnlyReq
<1>3. LoopInv'
  BY <1>1 DEF TypeInv, LoopInv, dbVars, loopVars
<1>4. BindingInv'
  BY <1>1, <1>2, StepReqType DEF TypeInv, BindingInv, Bound, dbVars
<1> QED
  BY <1>1, <1>2, <1>3, <1>4, StepReqType, Keep DEF TypeInv, TypeOK

(* A step of a request that also charges or refunds a credit.              *)
LEMMA PaidStepType ==
  ASSUME TypeInv, NEW h \in Handlers, NEW new \in Requests, Bound(new),
         StepReq(h, new), UNCHANGED <<dbVars, sem, pc, loopVars>>, MoneyOK'
  PROVE  TypeInv'
<1>1. UNCHANGED serverVars
  BY DEF StepReq, serverVars
<1>2. LoopInv'
  BY DEF TypeInv, LoopInv, dbVars, loopVars
<1>3. BindingInv'
  BY StepReqType DEF TypeInv, BindingInv, Bound, dbVars
<1> QED
  BY <1>1, <1>2, <1>3, StepReqType, Keep DEF TypeInv, TypeOK

(* A step of a Cancel request.                                             *)
LEMMA StepCanType ==
  ASSUME TypeInv, NEW k \in Cancellers, NEW new \in Cancellations,
         StepCan(k, new),
         \/ status' = status
         \/ \E s \in Sessions : /\ status[s] # "none"
                                /\ status' = [status EXCEPT ![s] = "cancelled"],
         MoneyOK'
  PROVE  TypeInv'
<1> USE DEF TypeInv, TypeOK, StepCan
<1>1. RowsOK'
  BY DEF RowsOK, Statuses, Final
<1>2. RequestsOK'
  BY DEF RequestsOK
<1>3. UNCHANGED <<serverVars, pc, loopVars>>
  BY DEF serverVars
<1>4. LoopInv'
  BY DEF LoopInv, loopVars
<1>5. BindingInv'
  BY DEF BindingInv, RowsOK
<1> QED
  BY <1>1, <1>2, <1>3, <1>4, <1>5, Keep

(* A step of a goroutine: what the frame StepLoop leaves to be shown.      *)
LEMMA StepLoopType ==
  ASSUME TypeInv, NEW s \in Sessions, NEW to \in Points, StepLoop(s, to),
         pc[s] # "none", status[s] # "none" => status'[s] # "none",
         status' \in [Sessions -> Statuses],
         progress' \in [Sessions -> [replayed : Counts, failed : Counts]],
         ranges' \in [Sessions -> SUBSET Batches],
         sem' \in Int,
         next' \in [Sessions -> Counts],
         good' \in [Sessions -> SUBSET Batches],
         bad' \in [Sessions -> SUBSET Batches],
         exit' \in [Sessions -> Exits],
         delivered' \in [Sessions -> SUBSET Batches],
         late' \in [Sessions -> Nat],
         to \in InLoop => next'[s] < total[s],
         to \in Fresh => next'[s] = 0,
         \A t \in Sessions \ {s} : status'[t] = status[t] /\ next'[t] = next[t]
  PROVE  TypeInv'
<1> USE DEF TypeInv, TypeOK, StepLoop
<1>1. RowsOK'
  BY DEF RowsOK
<1>2. ServerOK'
  BY DEF ServerOK
<1>3. LoopsOK'
  BY DEF LoopsOK
<1>4. UNCHANGED <<moneyVars, clientVars>>
  BY DEF clientVars
<1>5. LoopInv'
  BY DEF LoopInv, LoopsOK
<1>6. BindingInv'
  BY DEF BindingInv, LoopsOK
<1> QED
  BY <1>1, <1>2, <1>3, <1>4, <1>5, <1>6, Keep

(* Stay and Leave write the program point and the reason only.             *)
LEMMA StayType ==
  ASSUME TypeInv, NEW s \in Sessions, NEW to \in Points, Stay(s, to),
         pc[s] # "none",
         to \in InLoop => next[s] < total[s], to \notin Fresh
  PROVE  TypeInv'
  BY StepLoopType
  DEF Stay, TypeInv, TypeOK, RowsOK, ServerOK, LoopsOK, loopVars

LEMMA LeaveType ==
  ASSUME TypeInv, NEW s \in Sessions, NEW why \in Exits, NEW to \in Points,
         Leave(s, why, to), pc[s] # "none",
         to \notin InLoop, to \notin Fresh
  PROVE  TypeInv'
  BY StepLoopType DEF Leave, TypeInv, TypeOK, RowsOK, ServerOK, LoopsOK

(* The three outcomes of a send that go on to Record.                      *)
LEMMA AdvanceType ==
  ASSUME TypeInv, NEW s \in Sessions, pc[s] = "send", Advance(s),
         good' \in [Sessions -> SUBSET Batches],
         bad' \in [Sessions -> SUBSET Batches],
         delivered' \in [Sessions -> SUBSET Batches],
         late' = late \/ CountLate(s)
  PROVE  TypeInv'
<1>1. next[s] < total[s]
  BY DEF TypeInv, LoopInv, InLoop
<1>2. next' \in [Sessions -> Counts] /\ \A t \in Sessions \ {s} : next'[t] = next[t]
  <2>1. next[s] \in Nat /\ total[s] \in Nat /\ total[s] <= MaxBatches
    BY ConstantsAssumption DEF TypeInv, TypeOK, RowsOK, LoopsOK, Counts
  <2>2. next[s] + 1 \in Counts
    BY <1>1, <2>1, ConstantsAssumption DEF Counts
  <2> QED
    BY <2>2 DEF Advance, TypeInv, TypeOK, LoopsOK
<1>3. late' \in [Sessions -> Nat]
  BY DEF CountLate, TypeInv, TypeOK, LoopsOK
<1>4. StepLoop(s, "record") /\ "record" \in Points \ (InLoop \cup Fresh)
  BY DEF Advance, Points, Executing, InLoop, Fresh
<1> QED
  BY <1>2, <1>3, <1>4, StepLoopType
  DEF Advance, TypeInv, TypeOK, RowsOK, ServerOK, LoopsOK

-----------------------------------------------------------------------------
(* Each action keeps the types. *)

LEMMA RequestTypeInv ==
  ASSUME TypeInv, NEW h \in Handlers, Request(h)
  PROVE  TypeInv'
<1> DEFINE r == req[h]
<1>1. /\ r \in Requests /\ Bound(r)
      /\ NoReq \in Requests /\ Bound(NoReq)
  BY ConstantsAssumption
  DEF TypeInv, TypeOK, RequestsOK, BindingInv, Bound, Requests, NoReq, Counts
<1>2. CASE CreateCount(h)
  <2> DEFINE new == [r EXCEPT !.pc = "counted", !.charge = stored[r.source] > 0]
  <2>1. (stored[r.source] > 0) \in BOOLEAN
    OBVIOUS
  <2>2. new \in Requests /\ Bound(new)
    BY <1>1, <1>2, <2>1 DEF Requests, Bound, CreateCount
  <2> QED
    BY <1>2, <2>2, OnlyReqType DEF CreateCount
<1>3. CASE CreateLoad(h)
  <2>1. stored[r.source] \in Counts
    BY <1>1, <1>3 DEF CreateLoad, Bound, TypeInv, TypeOK, ServerOK
  <2> QED
    BY <1>1, <1>3, <2>1, OnlyReqType DEF CreateLoad, Requests, Bound
<1>4. CASE ReadFails(h)
  BY <1>1, <1>4, OnlyReqType DEF ReadFails
<1>5. CASE ConsumeSelect(h)
  <2>1. ASSUME NEW c \in Credits,
               OnlyReq(h, [r EXCEPT !.pc = "locked", !.credit = c]),
               r.pc = "loaded"
        PROVE  TypeInv'
    BY <1>1, <2>1, OnlyReqType DEF Requests, Bound
  <2> QED
    BY <1>1, <1>5, <2>1, OnlyReqType DEF ConsumeSelect, Consumable
<1>6. CASE ConsumeCommit(h)
  <2> DEFINE c   == r.credit
             new == [r EXCEPT !.pc = "paid", !.load = Capped(c, @)]
  <2>1. CASE OnlyReq(h, NoReq)
    BY <1>1, <2>1, OnlyReqType
  <2>2. CASE /\ used' = [used EXCEPT ![c] = IF HasReplaysLeft(c) THEN @ + 1 ELSE @]
             /\ StepReq(h, new)
             /\ UNCHANGED <<dbVars, refunded, returned, lost, sem, pc, loopVars>>
    <3>1. c \in Credits
      BY <1>1, <1>6 DEF ConsumeCommit, Bound
    <3>2. Capped(c, r.load) \in Counts
      BY <1>1, <3>1, ConstantsAssumption DEF Capped, Counts, Requests
    <3>3. new \in Requests /\ Bound(new)
      BY <1>1, <1>6, <3>2 DEF Requests, Bound, ConsumeCommit
    <3>4. MoneyOK'
      <4>1. CASE HasReplaysLeft(c)
        BY <2>2, <3>1, <4>1 DEF TypeInv, TypeOK, MoneyOK
      <4>2. CASE ~HasReplaysLeft(c)
        BY <2>2, <4>2 DEF TypeInv, TypeOK, MoneyOK
      <4> QED
        BY <4>1, <4>2
    <3> HIDE DEF new
    <3> QED
      BY <2>2, <3>3, <3>4, PaidStepType
  <2> QED
    BY <1>6, <2>1, <2>2 DEF ConsumeCommit
<1>7. CASE NoCharge(h)
  BY <1>1, <1>7, OnlyReqType DEF NoCharge, Requests, Bound
<1>8. ASSUME NEW s \in Sessions, InsertSession(h, s)
      PROVE  TypeInv'
  <2>1. stored[r.source] \in Counts /\ r.source \in Pixels /\ r.load \in Counts
        /\ r.credit \in Credits \cup {None}
    BY <1>1, <1>8 DEF InsertSession, Bound, Requests, TypeInv, TypeOK, ServerOK
  <2>2. RowsOK'
    BY <1>8, <2>1 DEF InsertSession, TypeInv, TypeOK, RowsOK, Statuses, Active
  <2>3. StepReq(h, NoReq)
    BY <1>8 DEF InsertSession
  <2>4. LoopsOK'
    BY <1>8 DEF InsertSession, TypeInv, TypeOK, LoopsOK, loopVars, Points
  <2>5. LoopInv'
    <3>1. pc[s] = "none"
      BY <1>8 DEF InsertSession, TypeInv, BindingInv
    <3> QED
      BY <1>8, <3>1 DEF InsertSession, TypeInv, TypeOK, LoopsOK, RowsOK, LoopInv,
                        InLoop, Fresh, loopVars
  <2>6. BindingInv'
    BY <1>1, <1>8, <2>1, <2>3, StepReqType
    DEF InsertSession, TypeInv, TypeOK, RowsOK, BindingInv, Bound
  <2>7. sem' = sem /\ UNCHANGED moneyVars
    BY <1>8 DEF InsertSession
  <2> QED
    BY <1>1, <2>2, <2>3, <2>4, <2>5, <2>6, <2>7, StepReqType, Keep
    DEF TypeInv, TypeOK, ServerOK
<1>9. CASE InsertFails(h)
  <2>1. CASE r.credit = None
    BY <1>1, <1>9, <2>1, OnlyReqType DEF InsertFails
  <2>2. CASE r.credit # None
    BY <1>1, <1>9, <2>2, OnlyReqType DEF InsertFails, Requests, Bound
  <2> QED
    BY <2>1, <2>2
<1>10. CASE Compensate(h)
  <2>1. MoneyOK'
    BY <1>10 DEF Compensate, CanRefund, TakeBack, TypeInv, TypeOK, MoneyOK
  <2> QED
    BY <1>1, <1>10, <2>1, PaidStepType DEF Compensate
<1> QED
  BY <1>2, <1>3, <1>4, <1>5, <1>6, <1>7, <1>8, <1>9, <1>10 DEF Request

LEMMA CreateTypeInv ==
  ASSUME TypeInv, NEW h \in Handlers, NEW p \in Pixels, CreateCheck(h, p)
  PROVE  TypeInv'
<1> DEFINE new == [NoReq EXCEPT !.pc = "checked", !.source = p]
<1>1. NoReq \in Requests
  BY ConstantsAssumption DEF Requests, NoReq, Counts
<1>2. new \in Requests
  BY <1>1 DEF Requests
<1>3. new.pc = "checked" /\ new.source = p
  BY DEF NoReq
<1> QED
  BY <1>2, <1>3, OnlyReqType DEF CreateCheck, Bound

LEMMA RetryTypeInv ==
  ASSUME TypeInv, NEW h \in Handlers, NEW s \in Sessions, Retry(h, s)
  PROVE  TypeInv'
<1> DEFINE n   == IF ranges[s] = {} THEN upTo[s] ELSE Cardinality(ranges[s])
           new == [NoReq EXCEPT !.pc = "loaded", !.source = source[s],
                                !.charge = TRUE, !.load = n]
<1>1. n \in Counts
  BY BatchCount DEF TypeInv, TypeOK, RowsOK
<1>2. source[s] \in Pixels
  BY DEF Retry, TypeInv, BindingInv
<1> HIDE DEF n
<1>3. new \in Requests /\ Bound(new)
  BY <1>1, <1>2, ConstantsAssumption DEF Requests, NoReq, Bound
<1> QED
  BY <1>3, OnlyReqType DEF Retry, n

LEMMA CancelTypeInv ==
  ASSUME TypeInv, NEW k \in Cancellers,
         \/ \E s \in Sessions : CancelRead(k, s)
         \/ CancelWrite(k)
         \/ CancelRefund(k)
  PROVE  TypeInv'
<1>1. can[k] \in Cancellations /\ NoCan \in Cancellations
  BY DEF TypeInv, TypeOK, RequestsOK, Cancellations, NoCan
<1>2. ASSUME NEW s \in Sessions, CancelRead(k, s)
      PROVE  TypeInv'
  <2> DEFINE new == [pc |-> "read", session |-> s,
                     eligible |-> status[s] = "pending" /\ credit[s] # None]
  <2>1. new \in Cancellations
    BY DEF Cancellations
  <2>2. StepCan(k, new) /\ status' = status /\ UNCHANGED moneyVars
    BY <1>2 DEF CancelRead
  <2>3. MoneyOK'
    BY <2>2, Keep DEF TypeInv
  <2> HIDE DEF new
  <2> QED
    BY <2>1, <2>2, <2>3, StepCanType
<1>3. CASE CancelWrite(k)
  <2> DEFINE s   == can[k].session
             new == [can[k] EXCEPT !.pc = "refund"]
  <2>1. new \in Cancellations
    BY <1>1 DEF Cancellations
  <2>2. MoneyOK'
    BY <1>3, Keep DEF CancelWrite, TypeInv
  <2>3. \/ status' = status
        \/ status[s] # "none" /\ status' = [status EXCEPT ![s] = "cancelled"]
    BY <1>3 DEF CancelWrite, Cancellable, Active
  <2>4. CASE s \in Sessions
    BY <1>1, <1>3, <2>1, <2>2, <2>3, <2>4, StepCanType DEF CancelWrite
  <2>5. CASE s \notin Sessions
    <3>1. status' = status
      BY <2>3, <2>5 DEF TypeInv, TypeOK, RowsOK
    <3> QED
      BY <1>1, <1>3, <2>1, <2>2, <3>1, StepCanType DEF CancelWrite
  <2> QED
    BY <2>4, <2>5
<1>4. CASE CancelRefund(k)
  <2>1. MoneyOK'
    BY <1>4 DEF CancelRefund, CanRefund, TakeBack, TypeInv, TypeOK, MoneyOK
  <2> QED
    BY <1>1, <1>4, <2>1, StepCanType DEF CancelRefund
<1> QED
  BY <1>2, <1>3, <1>4

(* The points a goroutine steps to, and the values it may write.           *)
LEMMA PointTypes ==
  /\ InLoop \subseteq Points \ Fresh
  /\ {"record", "saveRanges", "saveProgress", "settle", "done"}
       \subseteq Points \ (InLoop \cup Fresh)
  /\ "start" \in Points \ InLoop
  /\ {"running", "failed", "completed"} \subseteq Statuses \ {"none"}
  /\ Exits = {"none", "shutdown", "pixel", "cancelled", "auth", "end"}
  BY DEF Points, Executing, InLoop, Fresh, Statuses, Active, Final, Exits

LEMMA StatusWriteType ==
  ASSUME TypeInv, NEW s \in Sessions, NEW v \in Statuses \ {"none"},
         status' = [status EXCEPT ![s] = v] \/ status' = status
  PROVE  /\ status' \in [Sessions -> Statuses]
         /\ \A t \in Sessions \ {s} : status'[t] = status[t]
         /\ status[s] # "none" => status'[s] # "none"
  BY DEF TypeInv, TypeOK, RowsOK

(* A step to a point outside the loop that leaves the loop's own variables *)
(* alone.                                                                  *)
LEMMA OutsideLoopType ==
  ASSUME TypeInv, NEW s \in Sessions, NEW to \in Points \ InLoop,
         StepLoop(s, to), pc[s] # "none", to \in Fresh => next[s] = 0,
         NEW v \in Statuses \ {"none"},
         status' = [status EXCEPT ![s] = v] \/ status' = status,
         progress' = progress \/ progress' = [progress EXCEPT ![s] = Tally(s)],
         ranges' = ranges \/ ranges' = [ranges EXCEPT ![s] = bad[s]],
         sem' \in {sem - 1, sem, sem + 1},
         UNCHANGED <<next, good, bad, delivered, late>>,
         NEW why \in Exits,
         exit' = exit \/ exit' = [exit EXCEPT ![s] = why]
  PROVE  TypeInv'
<1>1. progress' \in [Sessions -> [replayed : Counts, failed : Counts]]
  BY TallyType DEF TypeInv, TypeOK, RowsOK
<1>2. ranges' \in [Sessions -> SUBSET Batches]
  BY DEF TypeInv, TypeOK, RowsOK, LoopsOK
<1>3. sem' \in Int
  BY DEF TypeInv, TypeOK, ServerOK
<1>4. exit' \in [Sessions -> Exits]
  BY DEF TypeInv, TypeOK, LoopsOK
<1>5. /\ next' \in [Sessions -> Counts]
      /\ good' \in [Sessions -> SUBSET Batches]
      /\ bad' \in [Sessions -> SUBSET Batches]
      /\ delivered' \in [Sessions -> SUBSET Batches]
      /\ late' \in [Sessions -> Nat]
  BY DEF TypeInv, TypeOK, LoopsOK
<1> QED
  BY <1>1, <1>2, <1>3, <1>4, <1>5, StatusWriteType, StepLoopType

LEMMA GoroutineTypeInv ==
  ASSUME TypeInv, NEW s \in Sessions, Acquire(s) \/ Goroutine(s)
  PROVE  TypeInv'
<1>1. CASE Acquire(s)
  <2>1. next[s] = 0
    BY <1>1 DEF Acquire, TypeInv, LoopInv, Fresh
  <2> QED
    BY <1>1, <2>1, PointTypes, OutsideLoopType
    DEF Acquire, loopVars
<1>2. CASE SkipOnShutdown(s)
  BY <1>2, PointTypes, OutsideLoopType
  DEF SkipOnShutdown, loopVars
<1>3. CASE Start(s)
  <2>1. CASE BatchesLeft(s)
    <3>1. next[s] < total[s]
      BY <1>3, <2>1 DEF Start, BatchesLeft, TypeInv, LoopInv, Fresh
    <3>2. "check" \in Points \ Fresh /\ "running" \in Statuses \ {"none"}
      BY PointTypes DEF InLoop, Statuses, Active
    <3>3. /\ status' \in [Sessions -> Statuses]
          /\ \A t \in Sessions \ {s} : status'[t] = status[t]
          /\ status[s] # "none" => status'[s] # "none"
      BY <1>3, <3>2, StatusWriteType DEF Start
    <3>4. /\ StepLoop(s, "check") /\ pc[s] # "none"
          /\ UNCHANGED <<progress, ranges, sem, loopVars>>
      BY <1>3, <2>1 DEF Start, loopVars
    <3> QED
      BY <3>1, <3>2, <3>3, <3>4, StepLoopType
      DEF TypeInv, TypeOK, RowsOK, ServerOK, LoopsOK, loopVars
  <2>2. CASE ~BatchesLeft(s)
    BY <1>3, <2>2, PointTypes, OutsideLoopType
    DEF Start
  <2> QED
    BY <2>1, <2>2
<1>4. CASE Check(s)
  <2>1. next[s] < total[s]
    BY <1>4 DEF Check, TypeInv, LoopInv, InLoop
  <2>2. {"shutdown", "pixel"} \subseteq Exits /\ "poll" \in Points \ Fresh
    BY PointTypes DEF Exits, InLoop, Fresh
  <2> QED
    BY <1>4, <2>1, <2>2, PointTypes, StayType, LeaveType DEF Check
<1>5. CASE Poll(s)
  <2>1. next[s] < total[s]
    BY <1>5 DEF Poll, TypeInv, LoopInv, InLoop
  <2>2. "cancelled" \in Exits /\ "send" \in Points \ Fresh
    BY PointTypes DEF Exits, InLoop, Fresh
  <2> QED
    BY <1>5, <2>1, <2>2, PointTypes, StayType, LeaveType DEF Poll
<1>6. CASE SendOk(s)
  <2>1. next[s] \in Batches
    BY <1>6, ConstantsAssumption
    DEF SendOk, TypeInv, TypeOK, RowsOK, LoopsOK, LoopInv, InLoop, Counts, Batches
  <2>2. /\ good' \in [Sessions -> SUBSET Batches]
        /\ bad' \in [Sessions -> SUBSET Batches]
        /\ delivered' \in [Sessions -> SUBSET Batches]
    BY <1>6, <2>1 DEF SendOk, TypeInv, TypeOK, LoopsOK
  <2> QED
    BY <1>6, <2>2, AdvanceType DEF SendOk
<1>7. CASE SendFails(s)
  <2>1. next[s] \in Batches
    BY <1>7, ConstantsAssumption
    DEF SendFails, TypeInv, TypeOK, RowsOK, LoopsOK, LoopInv, InLoop, Counts, Batches
  <2>2. /\ good' \in [Sessions -> SUBSET Batches]
        /\ bad' \in [Sessions -> SUBSET Batches]
        /\ delivered' \in [Sessions -> SUBSET Batches]
    BY <1>7, <2>1 DEF SendFails, TypeInv, TypeOK, LoopsOK
  <2> QED
    BY <1>7, <2>2, AdvanceType DEF SendFails
<1>8. CASE SendUnauthorized(s)
  BY <1>8, PointTypes, LeaveType DEF SendUnauthorized, Exits
<1>9. CASE Record(s)
  <2>1. CASE BatchesLeft(s)
    <3>1. progress' \in [Sessions -> [replayed : Counts, failed : Counts]]
      BY <1>9, TallyType DEF Record, TypeInv, TypeOK, RowsOK
    <3>2. StepLoop(s, "delay") /\ "delay" \in Points \ Fresh /\ pc[s] # "none"
      BY <1>9, <2>1, PointTypes DEF Record, InLoop, Fresh
    <3>3. UNCHANGED <<status, ranges, sem, loopVars>>
      BY <1>9, <2>1 DEF Record, loopVars
    <3> QED
      BY <2>1, <3>1, <3>2, <3>3, StepLoopType
      DEF BatchesLeft, TypeInv, TypeOK, RowsOK, ServerOK, LoopsOK, loopVars
  <2>2. CASE ~BatchesLeft(s)
    BY <1>9, <2>2, PointTypes, OutsideLoopType DEF Record
  <2> QED
    BY <2>1, <2>2
<1>10. CASE Delay(s)
  <2>1. next[s] < total[s]
    BY <1>10 DEF Delay, TypeInv, LoopInv, InLoop
  <2>2. "shutdown" \in Exits /\ "check" \in Points \ Fresh
    BY PointTypes DEF Exits, InLoop, Fresh
  <2> QED
    BY <1>10, <2>1, <2>2, PointTypes, StayType, LeaveType DEF Delay
<1>11. CASE SaveRanges(s)
  BY <1>11, PointTypes, OutsideLoopType
  DEF SaveRanges, loopVars
<1>12. CASE SaveProgress(s)
  BY <1>12, PointTypes, OutsideLoopType
  DEF SaveProgress, Release, loopVars
<1>13. CASE Settle(s)
  <2>1. Verdict(s) \in Statuses \ {"none"}
    BY DEF Verdict, Statuses, Final
  <2> QED
    BY <1>13, <2>1, PointTypes, OutsideLoopType
    DEF Settle, Release, loopVars, Exits
<1> QED
  BY <1>1, <1>2, <1>3, <1>4, <1>5, <1>6, <1>7, <1>8, <1>9, <1>10, <1>11,
     <1>12, <1>13 DEF Goroutine

LEMMA ServerTypeInv ==
  ASSUME TypeInv,
         \/ \E s \in Sessions : AdminCancel(s)
         \/ \E p \in Pixels : Ingest(p)
         \/ Sigterm \/ Exit \/ Crash \/ Restart
  PROVE  TypeInv'
<1>1. ASSUME NEW s \in Sessions, AdminCancel(s)
      PROVE  TypeInv'
  <2>1. UNCHANGED <<moneyVars, serverVars, clientVars, pc, loopVars>>
    BY <1>1 DEF AdminCancel, serverVars, clientVars
  <2>2. RowsOK'
    BY <1>1 DEF AdminCancel, TypeInv, TypeOK, RowsOK, Statuses, Final
  <2>3. LoopInv'
    BY <1>1 DEF AdminCancel, TypeInv, LoopInv, loopVars
  <2>4. BindingInv'
    BY <1>1 DEF AdminCancel, Cancellable, TypeInv, TypeOK, RowsOK, BindingInv,
                Bound, Active
  <2> QED
    BY <2>1, <2>2, <2>3, <2>4, Keep DEF TypeInv, TypeOK
<1>2. ASSUME UNCHANGED <<dbVars, moneyVars, clientVars, pc, loopVars>>, ServerOK'
      PROVE  TypeInv'
  BY <1>2, Keep
  DEF TypeInv, TypeOK, LoopInv, BindingInv, Bound, dbVars, clientVars, loopVars
<1>3. ASSUME NEW p \in Pixels, Ingest(p)
      PROVE  TypeInv'
  <2>1. stored[p] + 1 \in Counts
    BY <1>3, ConstantsAssumption DEF Ingest, TypeInv, TypeOK, ServerOK, Counts
  <2> QED
    BY <1>2, <1>3, <2>1 DEF Ingest, clientVars, TypeInv, TypeOK, ServerOK
<1>4. CASE Sigterm
  BY <1>2, <1>4, ConstantsAssumption
  DEF Sigterm, clientVars, TypeInv, TypeOK, ServerOK
<1>5. CASE Exit
  BY <1>2, <1>5 DEF Exit, clientVars, TypeInv, TypeOK, ServerOK
<1>6. CASE Crash
  <2>1. ASSUME NEW c \in Credits
        PROVE  Cardinality({h \in Handlers : req[h].pc \in {"paid", "refund"}
                                             /\ req[h].credit = c}) \in Nat
    BY ConstantsAssumption, FS_Subset, FS_CardinalityType
  <2>2. MoneyOK'
    BY <1>6, <2>1 DEF Crash, TypeInv, TypeOK, MoneyOK
  <2>3. ServerOK'
    BY <1>6, ConstantsAssumption DEF Crash, TypeInv, TypeOK, ServerOK
  <2>4. NoReq \in Requests /\ NoCan \in Cancellations /\ Bound(NoReq)
    BY ConstantsAssumption
    DEF Requests, NoReq, Cancellations, NoCan, Bound, Counts
  <2>5. RequestsOK'
    BY <1>6, <2>4 DEF Crash, RequestsOK
  <2>6. UNCHANGED <<dbVars, loopVars>> /\ pc' \in [Sessions -> {"none", "done"}]
    BY <1>6 DEF Crash
  <2>7. LoopsOK'
    BY <2>6 DEF TypeInv, TypeOK, LoopsOK, Points, loopVars
  <2>8. \A s \in Sessions : pc'[s] # "none" <=> pc[s] # "none"
    BY <1>6 DEF Crash
  <2>9. LoopInv'
    BY <2>6, <2>8 DEF TypeInv, LoopInv, InLoop, Fresh, loopVars
  <2>10. BindingInv'
    BY <1>6, <2>4, <2>6, <2>8 DEF Crash, TypeInv, BindingInv, dbVars
  <2> QED
    BY <2>2, <2>3, <2>5, <2>6, <2>7, <2>9, <2>10, Keep DEF TypeInv, TypeOK
<1>7. CASE Restart
  <2>1. UNCHANGED <<moneyVars, clientVars, pc, loopVars>>
    BY <1>7 DEF Restart, clientVars
  <2>2. RowsOK'
    BY <1>7 DEF Restart, Recovered, TypeInv, TypeOK, RowsOK, Statuses, Final
  <2>3. ServerOK'
    BY <1>7 DEF Restart, TypeInv, TypeOK, ServerOK
  <2>4. LoopInv'
    BY <1>7 DEF Restart, TypeInv, LoopInv, loopVars
  <2>5. BindingInv'
    BY <1>7 DEF Restart, Recovered, TypeInv, TypeOK, RowsOK, BindingInv, Bound,
                Active
  <2> QED
    BY <2>1, <2>2, <2>3, <2>4, <2>5, Keep DEF TypeInv, TypeOK
<1> QED
  BY <1>1, <1>3, <1>4, <1>5, <1>6, <1>7

-----------------------------------------------------------------------------
LEMMA StepTypeInv == TypeInv /\ [Next]_vars => TypeInv'
<1>1. ASSUME TypeInv, UNCHANGED vars
      PROVE  TypeInv'
  BY <1>1, Keep
  DEF vars, TypeInv, TypeOK, LoopInv, BindingInv, Bound, serverVars, clientVars,
      dbVars, loopVars
<1>2. ASSUME TypeInv, Next
      PROVE  TypeInv'
  BY <1>2, CreateTypeInv, RetryTypeInv, RequestTypeInv, CancelTypeInv,
     GoroutineTypeInv, ServerTypeInv
  DEF Next
<1> QED
  BY <1>1, <1>2

(* Every variable keeps its type; among others, no goroutine sends more    *)
(* batches than its session has, and no row is without a source pixel.     *)
THEOREM TypeCorrect == Spec => []TypeOK
<1>1. TypeInv => TypeOK
  BY DEF TypeInv
<1> QED
  BY InitTypeInv, StepTypeInv, <1>1, PTL DEF Spec

-----------------------------------------------------------------------------
(***************************************************************************)
(* Credits and the semaphore, on top of the type invariant.                *)
(***************************************************************************)

(* Credits. *)

(* What a step can do to the credits: nothing, one guarded charge, or one  *)
(* refund.                                                                 *)
Charge(c) == used' = [used EXCEPT ![c] = IF HasReplaysLeft(c) THEN @ + 1 ELSE @]
Refund(c) == used[c] > 0 /\ TakeBack(c)

LEMMA CreditMoves ==
  ASSUME TypeInv, [Next]_vars
  PROVE  \/ used' = used
         \/ \E c \in Credits : Charge(c)
         \/ \E c : Refund(c)
<1>1. ASSUME NEW h \in Handlers, Request(h)
      PROVE  used' = used \/ (\E c \in Credits : Charge(c)) \/ \E c : Refund(c)
  <2>1. CASE ConsumeCommit(h)
    <3>1. req[h].credit \in Credits
      BY <2>1 DEF ConsumeCommit, TypeInv, BindingInv, Bound
    <3> QED
      BY <2>1, <3>1 DEF ConsumeCommit, Charge, OnlyReq, moneyVars
  <2>2. CASE Compensate(h)
    BY <2>2 DEF Compensate, Refund, CanRefund
  <2> QED
    BY <1>1, <2>1, <2>2
    DEF Request, CreateCount, CreateLoad, ReadFails, ConsumeSelect, NoCharge,
        InsertSession, InsertFails, OnlyReq, moneyVars
<1>2. ASSUME NEW k \in Cancellers,
             \/ \E s \in Sessions : CancelRead(k, s)
             \/ CancelWrite(k)
             \/ CancelRefund(k)
      PROVE  used' = used \/ \E c : Refund(c)
  BY <1>2 DEF CancelRead, CancelWrite, CancelRefund, Refund, CanRefund,
                 moneyVars
<1>3. ASSUME NEW s \in Sessions, AdminCancel(s) \/ Acquire(s) \/ Goroutine(s)
      PROVE  used' = used
  BY <1>3
  DEF AdminCancel, Acquire, Goroutine, SkipOnShutdown, Start, Check, Poll, SendOk,
      SendFails, SendUnauthorized, Record, Delay, SaveRanges, SaveProgress, Settle,
      Advance, Stay, Leave, StepLoop, moneyVars
<1>4. ASSUME NEW h \in Handlers,
             \/ \E p \in Pixels : CreateCheck(h, p)
             \/ \E s \in Sessions : Retry(h, s)
      PROVE  used' = used
  BY <1>4 DEF CreateCheck, Retry, OnlyReq, moneyVars
<1>5. ASSUME \/ \E p \in Pixels : Ingest(p)
             \/ Sigterm \/ Exit \/ Crash \/ Restart
             \/ UNCHANGED vars
      PROVE  used' = used
  BY <1>5 DEF Ingest, Sigterm, Exit, Crash, Restart, vars, moneyVars
<1> QED
  BY <1>1, <1>2, <1>3, <1>4, <1>5 DEF Next

(* However many requests and cancellations compete, however often the      *)
(* server crashes, no pack is used more often than it was sold.            *)
THEOREM CreditsNotOverspent == Spec => []NoOverspend
<1>1. Init => NoOverspend
  BY ConstantsAssumption DEF Init, NoOverspend, Unlimited
<1>2. ASSUME TypeInv, NoOverspend, [Next]_vars
      PROVE  NoOverspend'
  <2>1. SUFFICES ASSUME NEW d \in Credits, TotalReplays[d] # Unlimited
                 PROVE  used'[d] <= TotalReplays[d]
    BY DEF NoOverspend
  <2>2. /\ used \in [Credits -> Nat] /\ TotalReplays[d] \in Nat
        /\ used[d] <= TotalReplays[d]
    BY <1>2, <2>1, ConstantsAssumption DEF NoOverspend, TypeInv, TypeOK, MoneyOK
  <2>3. ASSUME NEW c \in Credits, Charge(c)
        PROVE  used'[d] <= TotalReplays[d]
    <3>1. CASE c = d /\ HasReplaysLeft(d)
      BY <2>1, <2>2, <2>3, <3>1 DEF Charge, HasReplaysLeft
    <3>2. CASE ~(c = d /\ HasReplaysLeft(d))
      BY <2>2, <2>3, <3>2 DEF Charge
    <3> QED
      BY <3>1, <3>2
  <2>4. ASSUME NEW c, Refund(c)
        PROVE  used'[d] <= TotalReplays[d]
    BY <2>2, <2>4 DEF Refund, TakeBack
  <2> QED
    BY <1>2, <2>2, <2>3, <2>4, CreditMoves
<1> QED
  BY <1>1, <1>2, InitTypeInv, StepTypeInv, PTL DEF Spec

-----------------------------------------------------------------------------
(* The semaphore. *)

LEMMA HoldersFinite == IsFiniteSet(Holders)
  BY ConstantsAssumption, FS_Subset DEF Holders

LEMMA SemaphoreKept ==
  ASSUME SemaphoreExact, sem' = sem,
         \A s \in Sessions : pc'[s] \in Executing <=> pc[s] \in Executing
  PROVE  SemaphoreExact'
  BY DEF SemaphoreExact, Holders

LEMMA SemaphoreReleased ==
  ASSUME SemaphoreExact, NEW s \in Sessions, sem' = sem - 1,
         pc \in [Sessions -> Points],
         pc[s] \in Executing, pc' = [pc EXCEPT ![s] = "done"]
  PROVE  SemaphoreExact'
<1>1. s \in Holders /\ Holders' = Holders \ {s}
  BY DEF Holders, Executing
<1>2. Cardinality(Holders') = Cardinality(Holders) - 1
  BY <1>1, HoldersFinite, FS_RemoveElement
<1> QED
  BY <1>2, ConstantsAssumption, HoldersFinite, FS_CardinalityType DEF SemaphoreExact

(* Every step of a goroutine inside executeReplay keeps its token, except  *)
(* the two that end it.                                                    *)
LEMMA GoroutineTokens ==
  ASSUME TypeInv, SemaphoreExact, NEW s \in Sessions, Goroutine(s)
  PROVE  SemaphoreExact'
<1> USE DEF Executing
<1>1. pc \in [Sessions -> Points]
  BY DEF TypeInv, TypeOK, LoopsOK
<1>2. ASSUME NEW to \in Executing, pc[s] \in Executing, sem' = sem,
             pc' = [pc EXCEPT ![s] = to]
      PROVE  SemaphoreExact'
  BY <1>1, <1>2, SemaphoreKept
<1>3. CASE SkipOnShutdown(s)
  <2>1. sem' = sem /\ pc[s] = "queued" /\ pc' = [pc EXCEPT ![s] = "done"]
    BY <1>3 DEF SkipOnShutdown, StepLoop
  <2> QED
    BY <1>1, <2>1, SemaphoreKept
<1>4. CASE Start(s) \/ Check(s) \/ Poll(s)
  BY <1>2, <1>4 DEF Start, Check, Poll, Leave, Stay, StepLoop
<1>5. CASE SendOk(s) \/ SendFails(s) \/ SendUnauthorized(s)
  BY <1>2, <1>5
  DEF SendOk, SendFails, SendUnauthorized, Advance, Leave, StepLoop
<1>6. CASE Record(s) \/ Delay(s) \/ SaveRanges(s)
  BY <1>2, <1>6 DEF Record, Delay, SaveRanges, Leave, Stay, StepLoop
<1>7. CASE SaveProgress(s)
  <2>1. CASE exit[s] = "cancelled"
    BY <1>1, <1>7, <2>1, SemaphoreReleased DEF SaveProgress, Release, StepLoop
  <2>2. CASE exit[s] # "cancelled"
    BY <1>2, <1>7, <2>2 DEF SaveProgress, StepLoop
  <2> QED
    BY <2>1, <2>2
<1>8. CASE Settle(s)
  BY <1>1, <1>8, SemaphoreReleased DEF Settle, Release, StepLoop
<1> QED
  BY <1>3, <1>4, <1>5, <1>6, <1>7, <1>8 DEF Goroutine

LEMMA AcquireTokens ==
  ASSUME TypeInv, SemaphoreExact, NEW s \in Sessions, Acquire(s)
  PROVE  SemaphoreExact'
<1>1. /\ sem < Limit /\ sem' = sem + 1 /\ pc[s] = "queued"
      /\ pc' = [pc EXCEPT ![s] = "start"] /\ pc \in [Sessions -> Points]
  BY DEF Acquire, StepLoop, TypeInv, TypeOK, LoopsOK
<1>2. s \notin Holders /\ Holders' = Holders \cup {s}
  BY <1>1 DEF Holders, Executing
<1>3. Cardinality(Holders') = Cardinality(Holders) + 1
  BY <1>2, HoldersFinite, FS_AddElement
<1> QED
  BY <1>1, <1>3, ConstantsAssumption, HoldersFinite, FS_CardinalityType
  DEF SemaphoreExact

(* The tokens of the semaphore are exactly the goroutines at work, and     *)
(* there are never more than maxConcurrentReplays of them: no return path  *)
(* of executeReplay leaks a token or gives one back twice.                 *)
THEOREM SemaphoreIsExact == Spec => []SemaphoreExact
<1>1. Init => SemaphoreExact
  <2> SUFFICES ASSUME Init PROVE SemaphoreExact
    OBVIOUS
  <2>1. Holders = {}
    BY DEF Init, Holders, Executing
  <2> QED
    BY <2>1, FS_EmptySet, ConstantsAssumption DEF Init, SemaphoreExact
<1>2. ASSUME TypeInv, SemaphoreExact, [Next]_vars
      PROVE  SemaphoreExact'
  <2>1. CASE UNCHANGED <<pc, sem>>
    BY <1>2, <2>1, SemaphoreKept
  <2>2. ASSUME NEW h \in Handlers,
               \/ \E p \in Pixels : CreateCheck(h, p)
               \/ \E s \in Sessions : Retry(h, s)
        PROVE  UNCHANGED <<pc, sem>>
    BY <2>2 DEF CreateCheck, Retry, OnlyReq
  <2>3. ASSUME NEW h \in Handlers, NEW s \in Sessions, InsertSession(h, s)
        PROVE  SemaphoreExact'
    <3>1. sem' = sem /\ pc[s] = "none" /\ pc' = [pc EXCEPT ![s] = "queued"]
          /\ pc \in [Sessions -> Points]
      BY <1>2, <2>3 DEF InsertSession, TypeInv, TypeOK, LoopsOK, BindingInv
    <3> QED
      BY <1>2, <3>1, SemaphoreKept DEF Executing
  <2>4. ASSUME NEW h \in Handlers, Request(h),
               ~ \E s \in Sessions : InsertSession(h, s)
        PROVE  UNCHANGED <<pc, sem>>
    BY <2>4
    DEF Request, CreateCount, CreateLoad, ReadFails, ConsumeSelect, ConsumeCommit,
        NoCharge, InsertFails, Compensate, OnlyReq
  <2>5. ASSUME NEW k \in Cancellers,
               \/ \E s \in Sessions : CancelRead(k, s)
               \/ CancelWrite(k)
               \/ CancelRefund(k)
        PROVE  UNCHANGED <<pc, sem>>
    BY <2>5 DEF CancelRead, CancelWrite, CancelRefund, StepCan
  <2>6. ASSUME \/ \E s \in Sessions : AdminCancel(s)
               \/ \E p \in Pixels : Ingest(p)
               \/ Sigterm \/ Exit \/ Restart
               \/ UNCHANGED vars
        PROVE  UNCHANGED <<pc, sem>>
    BY <2>6 DEF AdminCancel, Ingest, Sigterm, Exit, Restart, vars
  <2>7. CASE Crash
    <3>1. Holders' = {} /\ sem' = 0
      BY <2>7 DEF Crash, Holders, Executing
    <3> QED
      BY <3>1, FS_EmptySet, ConstantsAssumption DEF SemaphoreExact
  <2> QED
    BY <1>2, <2>1, <2>2, <2>3, <2>4, <2>5, <2>6, <2>7, GoroutineTokens,
       AcquireTokens
    DEF Next
<1> QED
  BY <1>1, <1>2, InitTypeInv, StepTypeInv, PTL DEF Spec

-----------------------------------------------------------------------------
(***************************************************************************)
(* The books of the credits balance (CreditLedger).  It is not inductive:  *)
(* that a charge always counts rests on the row lock, and that a refund    *)
(* finds a credit rests on rows never losing theirs.                       *)
(***************************************************************************)

InHand(r, c) == r.pc \in {"paid", "refund"} /\ r.credit = c

(* A request names no credit before it has selected one; a credit it has   *)
(* locked has a replay left and is locked by no other request.             *)
LockInv ==
  /\ \A h \in Handlers :
       /\ req[h].pc \in {"checked", "counted", "loaded"} => req[h].credit = None
       /\ req[h].pc = "locked" => HasReplaysLeft(req[h].credit)
  /\ \A g, h \in Handlers :
       req[g].pc = "locked" /\ req[h].pc = "locked"
         /\ req[g].credit = req[h].credit => g = h

(* A row that does not exist has no credit; a cancellation works on a row  *)
(* that exists and refunds only if that row names a credit.                *)
Grounded(r) ==
  /\ r.session \in Sessions /\ status[r.session] # "none"
  /\ r.eligible => credit[r.session] \in Credits
  /\ r.pc = "refund" => r.eligible
RowInv ==
  /\ \A s \in Sessions : status[s] = "none" => credit[s] = None
  /\ \A k \in Cancellers : can[k].pc # "idle" => Grounded(can[k])

LedgerInv == CreditLedger /\ LockInv /\ RowInv

-----------------------------------------------------------------------------
(* Who holds a charge. *)

LEMMA ChargesFinite ==
  ASSUME NEW c
  PROVE  /\ IsFiniteSet(Charging(c)) /\ Cardinality(Charging(c)) \in Nat
         /\ IsFiniteSet(Charged(c)) /\ Cardinality(Charged(c)) \in Nat
  BY ConstantsAssumption, FS_Subset, FS_CardinalityType DEF Charging, Charged

LEMMA NoReqIdle == NoReq.pc = "idle" /\ \A c : ~InHand(NoReq, c)
  BY DEF NoReq, InHand

(* A request that changes its state disturbs only the charge it holds.     *)
LEMMA ChargingMoves ==
  ASSUME TypeInv, NEW h \in Handlers, NEW new,
         req' = [req EXCEPT ![h] = new], NEW c
  PROVE  /\ (InHand(new, c) <=> InHand(req[h], c)) => Charging(c)' = Charging(c)
         /\ InHand(new, c) /\ ~InHand(req[h], c)
              => Cardinality(Charging(c)') = Cardinality(Charging(c)) + 1
         /\ ~InHand(new, c) /\ InHand(req[h], c)
              => Cardinality(Charging(c)') = Cardinality(Charging(c)) - 1
<1>1. req \in [Handlers -> Requests]
  BY DEF TypeInv, TypeOK, RequestsOK
<1>2. CASE InHand(new, c) <=> InHand(req[h], c)
  BY <1>1, <1>2 DEF Charging, InHand
<1>3. CASE InHand(new, c) /\ ~InHand(req[h], c)
  <2>1. Charging(c)' = Charging(c) \cup {h} /\ h \notin Charging(c)
    BY <1>1, <1>3 DEF Charging, InHand
  <2> QED
    BY <1>3, <2>1, ChargesFinite, FS_AddElement
<1>4. CASE ~InHand(new, c) /\ InHand(req[h], c)
  <2>1. Charging(c)' = Charging(c) \ {h} /\ h \in Charging(c)
    BY <1>1, <1>4 DEF Charging, InHand
  <2> QED
    BY <1>4, <2>1, ChargesFinite, FS_RemoveElement
<1> QED
  BY <1>2, <1>3, <1>4

(* The locks of a request that gives up or has none.                       *)
LEMMA LockKept ==
  ASSUME TypeInv, LockInv, NEW h \in Handlers, NEW new,
         req' = [req EXCEPT ![h] = new], new.pc # "locked",
         new.pc \in {"checked", "counted", "loaded"} => new.credit = None,
         \A c : HasReplaysLeft(c) =>
           \/ HasReplaysLeft(c)'
           \/ \A g \in Handlers \ {h} : req[g].pc = "locked" => req[g].credit # c
  PROVE  LockInv'
<1>1. \A g \in Handlers : req'[g] = IF g = h THEN new ELSE req[g]
  BY DEF TypeInv, TypeOK, RequestsOK
<1>2. ASSUME NEW g \in Handlers, req'[g].pc = "locked"
      PROVE  HasReplaysLeft(req[g].credit)'
  <2>1. g # h /\ req'[g] = req[g]
    BY <1>1, <1>2
  <2>2. HasReplaysLeft(req[g].credit)
    BY <1>2, <2>1 DEF LockInv
  <2> QED
    BY <1>2, <2>1, <2>2 DEF HasReplaysLeft
<1> QED
  BY <1>1, <1>2 DEF LockInv

(* A request that neither gains nor loses a charge leaves the books alone. *)
LEMMA QuietRequest ==
  ASSUME TypeInv, LedgerInv, NEW h \in Handlers, NEW new,
         OnlyReq(h, new), new.pc # "locked",
         new.pc \in {"checked", "counted", "loaded"} => new.credit = None,
         \A c \in Credits : InHand(new, c) <=> InHand(req[h], c)
  PROVE  CreditLedger' /\ LockInv'
<1>1. /\ req' = [req EXCEPT ![h] = new]
      /\ UNCHANGED <<used, returned, lost, credit>>
  BY DEF OnlyReq, StepReq, dbVars, moneyVars
<1>2. CreditLedger'
  <2>1. \A c \in Credits : Charging(c)' = Charging(c) /\ Charged(c)' = Charged(c)
    BY <1>1, ChargingMoves DEF Charged
  <2> QED
    BY <1>1, <2>1 DEF LedgerInv, CreditLedger
<1>3. LockInv'
  BY <1>1, LockKept DEF LedgerInv, LockInv, HasReplaysLeft
<1> QED
  BY <1>2, <1>3

-----------------------------------------------------------------------------
(* Requests. *)

LEMMA SelectLedger ==
  ASSUME TypeInv, LedgerInv, NEW h \in Handlers, ConsumeSelect(h)
  PROVE  CreditLedger' /\ LockInv'
<1>1. ASSUME NEW c \in Consumable(req[h].load),
             OnlyReq(h, [req[h] EXCEPT !.pc = "locked", !.credit = c])
      PROVE  CreditLedger' /\ LockInv'
  <2> DEFINE new == [req[h] EXCEPT !.pc = "locked", !.credit = c]
  <2>1. /\ c \in Credits /\ c \notin Locked /\ HasReplaysLeft(c)
        /\ req \in [Handlers -> Requests] /\ req[h].pc = "loaded"
    BY <1>1 DEF Consumable, TypeInv, TypeOK, RequestsOK, ConsumeSelect
  <2>2. new.pc = "locked" /\ new.credit = c
    BY <2>1 DEF Requests
  <2>3. /\ \A g \in Handlers : req'[g] = IF g = h THEN new ELSE req[g]
        /\ req' = [req EXCEPT ![h] = new]
        /\ UNCHANGED <<used, returned, lost, credit>>
    BY <1>1, <2>1 DEF OnlyReq, StepReq, dbVars, moneyVars
  <2> HIDE DEF new
  <2>4. LockInv'
    BY <2>1, <2>2, <2>3 DEF LedgerInv, LockInv, HasReplaysLeft, Locked
  <2>5. \A d \in Credits : Charging(d)' = Charging(d) /\ Charged(d)' = Charged(d)
    BY <2>1, <2>2, <2>3, ChargingMoves DEF Charged, InHand
  <2> QED
    BY <2>3, <2>4, <2>5 DEF LedgerInv, CreditLedger
<1>2. CASE OnlyReq(h, NoReq)
  BY <1>2, NoReqIdle, QuietRequest DEF ConsumeSelect, InHand
<1> QED
  BY <1>1, <1>2 DEF ConsumeSelect

(* The locked credit has a replay left, so the update counts.              *)
LEMMA CommitLedger ==
  ASSUME TypeInv, LedgerInv, NEW h \in Handlers, ConsumeCommit(h)
  PROVE  CreditLedger' /\ LockInv'
<1> DEFINE c   == req[h].credit
           new == [req[h] EXCEPT !.pc = "paid", !.load = Capped(c, @)]
<1>1. /\ req \in [Handlers -> Requests] /\ req[h].pc = "locked"
      /\ c \in Credits /\ HasReplaysLeft(c)
      /\ used \in [Credits -> Nat] /\ returned \in [Credits -> Nat]
      /\ lost \in [Credits -> Nat]
  BY DEF ConsumeCommit, TypeInv, TypeOK, RequestsOK, MoneyOK, BindingInv, Bound,
         LedgerInv, LockInv
<1>2. CASE /\ used' = [used EXCEPT ![c] = IF HasReplaysLeft(c) THEN @ + 1 ELSE @]
           /\ StepReq(h, new)
           /\ UNCHANGED <<dbVars, refunded, returned, lost, sem, pc, loopVars>>
  <2>1. new.pc = "paid" /\ new.credit = c
    BY <1>1 DEF Requests
  <2>2. /\ req' = [req EXCEPT ![h] = new] /\ used' = [used EXCEPT ![c] = @ + 1]
        /\ UNCHANGED <<credit, returned, lost>>
    BY <1>1, <1>2 DEF StepReq, dbVars
  <2> HIDE DEF new
  <2>3. LockInv'
    <3>1. \A d : HasReplaysLeft(d) => HasReplaysLeft(d)' \/ d = c
      BY <1>1, <2>2 DEF HasReplaysLeft
    <3> QED
      BY <1>1, <2>1, <2>2, <3>1, LockKept DEF LedgerInv, LockInv
  <2>4. ASSUME NEW d \in Credits
        PROVE  used'[d] + returned'[d] = Cardinality(Charged(d)')
                 + Cardinality(Charging(d)') + lost'[d]
    <3>1. Charged(d)' = Charged(d)
      BY <2>2 DEF Charged
    <3>2. InHand(new, d) <=> d = c
      BY <2>1 DEF InHand
    <3>3. ~InHand(req[h], d)
      BY <1>1 DEF InHand
    <3>4. used[d] + returned[d]
            = Cardinality(Charged(d)) + Cardinality(Charging(d)) + lost[d]
      BY DEF LedgerInv, CreditLedger
    <3>5. CASE d = c
      <4>1. Cardinality(Charging(d)') = Cardinality(Charging(d)) + 1
        BY <2>2, <3>2, <3>3, <3>5, ChargingMoves
      <4>2. used'[d] = used[d] + 1
        BY <1>1, <2>2, <3>5
      <4> QED
        BY <1>1, <2>2, <3>1, <3>4, <4>1, <4>2, ChargesFinite
    <3>6. CASE d # c
      BY <1>1, <2>2, <3>1, <3>2, <3>3, <3>4, <3>6, ChargingMoves
    <3> QED
      BY <3>5, <3>6
  <2> QED
    BY <2>3, <2>4 DEF CreditLedger
<1>3. CASE OnlyReq(h, NoReq)
  BY <1>1, <1>3, NoReqIdle, QuietRequest DEF InHand
<1> QED
  BY <1>2, <1>3 DEF ConsumeCommit

(* The charge of the request becomes the credit of the row.                *)
LEMMA InsertLedger ==
  ASSUME TypeInv, LedgerInv, NEW h \in Handlers, NEW s \in Sessions,
         InsertSession(h, s)
  PROVE  CreditLedger' /\ LockInv'
<1>1. /\ req[h].pc = "paid" /\ credit[s] = None
      /\ req' = [req EXCEPT ![h] = NoReq]
      /\ credit' = [credit EXCEPT ![s] = req[h].credit]
      /\ credit \in [Sessions -> Credits \cup {None}]
      /\ UNCHANGED <<used, returned, lost>>
  BY DEF InsertSession, StepReq, LedgerInv, RowInv, TypeInv, TypeOK, RowsOK, moneyVars
<1>2. LockInv'
  BY <1>1, NoReqIdle, LockKept DEF LedgerInv, HasReplaysLeft
<1>3. ASSUME NEW d \in Credits
      PROVE  Cardinality(Charged(d)') + Cardinality(Charging(d)')
               = Cardinality(Charged(d)) + Cardinality(Charging(d))
  <2>1. d # None /\ ~InHand(NoReq, d)
    BY ConstantsAssumption, NoReqIdle
  <2>2. CASE req[h].credit = d
    <3>1. Cardinality(Charging(d)') = Cardinality(Charging(d)) - 1
      BY <1>1, <2>1, <2>2, ChargingMoves DEF InHand
    <3>2. Charged(d)' = Charged(d) \cup {s} /\ s \notin Charged(d)
      BY <1>1, <2>1, <2>2 DEF Charged
    <3>3. Cardinality(Charged(d)') = Cardinality(Charged(d)) + 1
      BY <3>2, ChargesFinite, FS_AddElement
    <3> QED
      BY <3>1, <3>3, ChargesFinite
  <2>3. CASE req[h].credit # d
    <3>1. Charging(d)' = Charging(d)
      BY <1>1, <2>1, <2>3, ChargingMoves DEF InHand
    <3>2. Charged(d)' = Charged(d)
      BY <1>1, <2>1, <2>3 DEF Charged
    <3> QED
      BY <3>1, <3>2
  <2> QED
    BY <2>2, <2>3
<1>4. ASSUME NEW d \in Credits
      PROVE  used'[d] + returned'[d] = Cardinality(Charged(d)')
               + Cardinality(Charging(d)') + lost'[d]
  BY <1>1, <1>3 DEF LedgerInv, CreditLedger
<1> QED
  BY <1>2, <1>4 DEF CreditLedger

(* A compensation gives the unit back, or it is lost.                      *)
LEMMA CompensateLedger ==
  ASSUME TypeInv, LedgerInv, NEW h \in Handlers, Compensate(h)
  PROVE  CreditLedger' /\ LockInv'
<1> DEFINE c == req[h].credit
<1>1. /\ req[h].pc = "refund" /\ c \in Credits
      /\ req' = [req EXCEPT ![h] = NoReq]
      /\ UNCHANGED <<credit, returned>>
      /\ used \in [Credits -> Nat] /\ returned \in [Credits -> Nat]
      /\ lost \in [Credits -> Nat]
  BY DEF Compensate, StepReq, dbVars, TypeInv, TypeOK, MoneyOK, BindingInv, Bound
<1>2. \/ used' = [used EXCEPT ![c] = @ - 1] /\ lost' = lost
      \/ used' = used /\ lost' = [lost EXCEPT ![c] = @ + 1]
  BY DEF Compensate, TakeBack
<1>3. LockInv'
  <2>1. \A d : HasReplaysLeft(d) => HasReplaysLeft(d)' \/ d \notin Credits
    BY <1>1, <1>2, ConstantsAssumption DEF HasReplaysLeft, Unlimited
  <2>2. \A g \in Handlers : req[g].pc = "locked" => req[g].credit \in Credits
    BY DEF TypeInv, BindingInv, Bound
  <2> QED
    BY <1>1, <2>1, <2>2, NoReqIdle, LockKept DEF LedgerInv
<1>4. ASSUME NEW d \in Credits
      PROVE  used'[d] + returned'[d] = Cardinality(Charged(d)')
               + Cardinality(Charging(d)') + lost'[d]
  <2>1. Charged(d)' = Charged(d)
    BY <1>1 DEF Charged
  <2>2. used[d] + returned[d]
          = Cardinality(Charged(d)) + Cardinality(Charging(d)) + lost[d]
    BY DEF LedgerInv, CreditLedger
  <2>3. CASE d = c
    <3>1. Cardinality(Charging(d)') = Cardinality(Charging(d)) - 1
      BY <1>1, <2>3, NoReqIdle, ChargingMoves DEF InHand
    <3>2. \/ used'[d] = used[d] - 1 /\ lost'[d] = lost[d]
          \/ used'[d] = used[d] /\ lost'[d] = lost[d] + 1
      BY <1>1, <1>2, <2>3
    <3> QED
      BY <1>1, <2>1, <2>2, <3>1, <3>2, ChargesFinite
  <2>4. CASE d # c
    <3>1. Charging(d)' = Charging(d)
      BY <1>1, <2>4, NoReqIdle, ChargingMoves DEF InHand
    <3> QED
      BY <1>1, <1>2, <2>1, <2>2, <2>4, <3>1
  <2> QED
    BY <2>3, <2>4
<1> QED
  BY <1>3, <1>4 DEF CreditLedger

LEMMA RequestLedger ==
  ASSUME TypeInv, LedgerInv, NEW h \in Handlers, Request(h)
  PROVE  CreditLedger' /\ LockInv'
<1> DEFINE r == req[h]
<1>1. r \in Requests
  BY DEF TypeInv, TypeOK, RequestsOK
<1>2. CASE CreateCount(h)
  <2> DEFINE new == [r EXCEPT !.pc = "counted", !.charge = stored[r.source] > 0]
  <2>1. new.pc = "counted" /\ new.credit = r.credit
    BY <1>1 DEF Requests
  <2>2. r.pc = "checked" /\ r.credit = None
    BY <1>2 DEF CreateCount, LedgerInv, LockInv
  <2>3. OnlyReq(h, new)
    BY <1>2 DEF CreateCount
  <2> HIDE DEF new
  <2> QED
    BY <2>1, <2>2, <2>3, QuietRequest DEF InHand
<1>3. CASE CreateLoad(h)
  <2> DEFINE new == [r EXCEPT !.pc = "loaded", !.load = stored[r.source]]
  <2>1. new.pc = "loaded" /\ new.credit = r.credit
    BY <1>1 DEF Requests
  <2>2. r.pc = "counted" /\ r.credit = None
    BY <1>3 DEF CreateLoad, LedgerInv, LockInv
  <2>3. OnlyReq(h, new)
    BY <1>3 DEF CreateLoad
  <2> HIDE DEF new
  <2> QED
    BY <2>1, <2>2, <2>3, QuietRequest DEF InHand
<1>4. CASE ReadFails(h)
  BY <1>4, NoReqIdle, QuietRequest DEF ReadFails, InHand
<1>5. CASE NoCharge(h)
  <2> DEFINE new == [r EXCEPT !.pc = "paid"]
  <2>1. new.pc = "paid" /\ new.credit = r.credit
    BY <1>1 DEF Requests
  <2>2. r.pc = "loaded" /\ r.credit = None
    BY <1>5 DEF NoCharge, LedgerInv, LockInv
  <2>3. OnlyReq(h, new)
    BY <1>5 DEF NoCharge
  <2> HIDE DEF new
  <2> QED
    BY <2>1, <2>2, <2>3, QuietRequest, ConstantsAssumption DEF InHand
<1>6. CASE InsertFails(h)
  <2> DEFINE new == [r EXCEPT !.pc = "refund"]
  <2>1. new.pc = "refund" /\ new.credit = r.credit
    BY <1>1 DEF Requests
  <2>2. r.pc = "paid"
    BY <1>6 DEF InsertFails
  <2>3. IF r.credit = None THEN OnlyReq(h, NoReq) ELSE OnlyReq(h, new)
    BY <1>6 DEF InsertFails
  <2> HIDE DEF new
  <2>4. CASE r.credit = None
    BY <2>2, <2>3, <2>4, NoReqIdle, QuietRequest, ConstantsAssumption DEF InHand
  <2>5. CASE r.credit # None
    BY <2>1, <2>2, <2>3, <2>5, QuietRequest DEF InHand
  <2> QED
    BY <2>4, <2>5
<1> QED
  BY <1>2, <1>3, <1>4, <1>5, <1>6, SelectLedger, CommitLedger, InsertLedger,
     CompensateLedger
  DEF Request

LEMMA StartLedger ==
  ASSUME TypeInv, LedgerInv, NEW h \in Handlers,
         \/ \E p \in Pixels : CreateCheck(h, p)
         \/ \E s \in Sessions : Retry(h, s)
  PROVE  CreditLedger' /\ LockInv'
<1>1. ASSUME NEW new, new.pc \in {"checked", "loaded"}, new.credit = None,
             OnlyReq(h, new), req[h].pc = "idle"
      PROVE  CreditLedger' /\ LockInv'
  BY <1>1, QuietRequest DEF InHand
<1>2. ASSUME NEW p \in Pixels, CreateCheck(h, p)
      PROVE  CreditLedger' /\ LockInv'
  <2> DEFINE new == [NoReq EXCEPT !.pc = "checked", !.source = p]
  <2>1. new.pc = "checked" /\ new.credit = None
    BY DEF NoReq
  <2>2. OnlyReq(h, new) /\ req[h].pc = "idle"
    BY <1>2 DEF CreateCheck
  <2> HIDE DEF new
  <2> QED
    BY <1>1, <2>1, <2>2
<1>3. ASSUME NEW s \in Sessions, Retry(h, s)
      PROVE  CreditLedger' /\ LockInv'
  <2> DEFINE n   == IF ranges[s] = {} THEN upTo[s] ELSE Cardinality(ranges[s])
             new == [NoReq EXCEPT !.pc = "loaded", !.source = source[s],
                                  !.charge = TRUE, !.load = n]
  <2>1. new.pc = "loaded" /\ new.credit = None
    BY DEF NoReq
  <2>2. OnlyReq(h, new) /\ req[h].pc = "idle"
    BY <1>3 DEF Retry
  <2> HIDE DEF new
  <2> QED
    BY <1>1, <2>1, <2>2
<1> QED
  BY <1>2, <1>3

-----------------------------------------------------------------------------
(* Everything else. *)

(* A cancellation that refunds works on a row that names a credit.         *)
LEMMA RefundLedger ==
  ASSUME TypeInv, LedgerInv, NEW k \in Cancellers, CancelRefund(k)
  PROVE  CreditLedger' /\ LockInv'
<1> DEFINE c == credit[can[k].session]
<1>1. /\ c \in Credits /\ UNCHANGED <<req, credit, lost>>
      /\ used \in [Credits -> Nat] /\ returned \in [Credits -> Nat]
  BY DEF CancelRefund, StepCan, LedgerInv, RowInv, Grounded, TypeInv, TypeOK, MoneyOK
<1>2. \/ used' = [used EXCEPT ![c] = @ - 1] /\ returned' = [returned EXCEPT ![c] = @ + 1]
      \/ UNCHANGED <<used, returned>>
  BY DEF CancelRefund, TakeBack
<1>3. LockInv'
  <2>1. \A d \in Credits : HasReplaysLeft(d) => HasReplaysLeft(d)'
    BY <1>1, <1>2, ConstantsAssumption DEF HasReplaysLeft, Unlimited
  <2>2. \A g \in Handlers : req[g].pc = "locked" => req[g].credit \in Credits
    BY DEF TypeInv, BindingInv, Bound
  <2> QED
    BY <1>1, <2>1, <2>2 DEF LedgerInv, LockInv, HasReplaysLeft
<1>4. \A d \in Credits : used'[d] + returned'[d] = used[d] + returned[d]
  BY <1>1, <1>2
<1>5. \A d : Charged(d)' = Charged(d) /\ Charging(d)' = Charging(d)
  BY <1>1 DEF Charged, Charging
<1> QED
  BY <1>1, <1>3, <1>4, <1>5 DEF LedgerInv, CreditLedger

(* A crash turns the charges of unfinished requests into losses.           *)
LEMMA CrashLedger ==
  ASSUME TypeInv, LedgerInv, Crash
  PROVE  CreditLedger' /\ LockInv'
<1>1. \A h \in Handlers : req'[h].pc = "idle"
  BY NoReqIdle DEF Crash
<1>2. ASSUME NEW d \in Credits
      PROVE  used'[d] + returned'[d] = Cardinality(Charged(d)')
               + Cardinality(Charging(d)') + lost'[d]
  <2>1. Charging(d)' = {} /\ Charged(d)' = Charged(d)
    BY <1>1 DEF Charging, Charged, Crash, dbVars
  <2>2. lost'[d] = lost[d] + Cardinality(Charging(d))
    BY DEF Crash, Charging
  <2>3. lost[d] \in Nat /\ used' = used /\ returned' = returned
    BY DEF Crash, TypeInv, TypeOK, MoneyOK
  <2> QED
    BY <2>1, <2>2, <2>3, FS_EmptySet, ChargesFinite DEF LedgerInv, CreditLedger
<1> QED
  BY <1>1, <1>2 DEF CreditLedger, LockInv

LEMMA OtherLedger ==
  ASSUME LedgerInv, UNCHANGED <<used, returned, lost, credit, req>>
  PROVE  CreditLedger' /\ LockInv'
  BY DEF LedgerInv, CreditLedger, LockInv, Charging, Charged, HasReplaysLeft

(* A row keeps its credit once it exists, and it never ceases to exist.    *)
LEMMA RowsStay ==
  ASSUME TypeInv, [Next]_vars, NEW s \in Sessions
  PROVE  /\ status[s] # "none" => status'[s] # "none" /\ credit'[s] = credit[s]
         /\ status'[s] = "none" => credit'[s] = credit[s]
<1> USE DEF TypeInv, TypeOK, RowsOK
<1>1. ASSUME NEW h \in Handlers, Request(h)
      PROVE  \/ UNCHANGED <<status, credit>>
             \/ \E t \in Sessions : InsertSession(h, t)
  BY <1>1
  DEF Request, CreateCount, CreateLoad, ReadFails, ConsumeSelect, ConsumeCommit,
      NoCharge, InsertFails, Compensate, OnlyReq, dbVars
<1>2. ASSUME NEW h \in Handlers, NEW t \in Sessions, InsertSession(h, t)
      PROVE  /\ status[s] # "none" => status'[s] # "none" /\ credit'[s] = credit[s]
             /\ status'[s] = "none" => credit'[s] = credit[s]
  BY <1>2 DEF InsertSession
<1>3. ASSUME NEW h \in Handlers,
             \/ \E p \in Pixels : CreateCheck(h, p)
             \/ \E t \in Sessions : Retry(h, t)
      PROVE  UNCHANGED <<status, credit>>
  BY <1>3 DEF CreateCheck, Retry, OnlyReq, dbVars
<1>4. ASSUME NEW k \in Cancellers,
             \/ \E t \in Sessions : CancelRead(k, t)
             \/ CancelWrite(k)
             \/ CancelRefund(k)
      PROVE  credit' = credit /\ (status[s] # "none" <=> status'[s] # "none")
  BY <1>4
  DEF CancelRead, CancelWrite, CancelRefund, StepCan, Cancellable, Active
<1>5. ASSUME NEW t \in Sessions, AdminCancel(t) \/ Acquire(t)
      PROVE  credit' = credit /\ (status[s] # "none" <=> status'[s] # "none")
  BY <1>5 DEF AdminCancel, Cancellable, Active, Acquire, StepLoop
<1>6. ASSUME NEW t \in Sessions, Goroutine(t)
      PROVE  credit' = credit /\ (status[s] # "none" <=> status'[s] # "none")
  <2>1. status[t] # "none"
    BY <1>6
    DEF BindingInv, Goroutine, SkipOnShutdown, Start, Check, Poll, SendOk, SendFails,
        SendUnauthorized, Record, Delay, SaveRanges, SaveProgress, Settle
  <2> QED
    BY <1>6, <2>1
    DEF Goroutine, SkipOnShutdown, Start, Check, Poll, SendOk, SendFails,
        SendUnauthorized, Record, Delay, SaveRanges, SaveProgress, Settle,
        Verdict, Advance, Stay, Leave, StepLoop
<1>7. CASE Restart
  BY <1>7 DEF Restart, Recovered, Active
<1>8. ASSUME (\E p \in Pixels : Ingest(p)) \/ Sigterm \/ Exit \/ Crash \/ UNCHANGED vars
      PROVE  UNCHANGED <<status, credit>>
  BY <1>8 DEF Ingest, Sigterm, Exit, Crash, dbVars, vars
<1> QED
  BY <1>1, <1>2, <1>3, <1>4, <1>5, <1>6, <1>7, <1>8 DEF Next

(* What a cancellation does to its own state.                              *)
LEMMA CancelMoves ==
  ASSUME TypeInv, RowInv, [Next]_vars, NEW k \in Cancellers
  PROVE  \/ can'[k] = can[k]
         \/ can'[k].pc = "idle"
         \/ \E s \in Sessions :
              /\ can'[k].pc = "read" /\ can'[k].session = s /\ status[s] # "none"
              /\ can'[k].eligible => credit[s] # None
         \/ /\ can[k].pc # "idle" /\ can[k].eligible
            /\ can'[k] = [can[k] EXCEPT !.pc = "refund"]
<1> USE DEF TypeInv, TypeOK, RequestsOK
<1>1. CASE can' = can
  BY <1>1
<1>2. ASSUME NEW j \in Cancellers, NEW s \in Sessions, CancelRead(j, s)
      PROVE  \/ can'[k] = can[k]
             \/ \E t \in Sessions :
                  /\ can'[k].pc = "read" /\ can'[k].session = t /\ status[t] # "none"
                  /\ can'[k].eligible => credit[t] # None
  BY <1>2 DEF CancelRead, StepCan
<1>3. ASSUME NEW j \in Cancellers, CancelWrite(j)
      PROVE  \/ can'[k] = can[k]
             \/ can'[k].pc = "idle"
             \/ /\ can[k].pc # "idle" /\ can[k].eligible
                /\ can'[k] = [can[k] EXCEPT !.pc = "refund"]
  BY <1>3 DEF CancelWrite, StepCan, NoCan
<1>4. ASSUME NEW j \in Cancellers, CancelRefund(j)
      PROVE  can'[k] = can[k] \/ can'[k].pc = "idle"
  BY <1>4 DEF CancelRefund, StepCan, NoCan
<1>5. CASE Crash
  BY <1>5 DEF Crash, NoCan
<1>6. ASSUME NEW h \in Handlers,
             \/ \E p \in Pixels : CreateCheck(h, p)
             \/ \E s \in Sessions : Retry(h, s)
             \/ Request(h)
      PROVE  can' = can
  BY <1>6
  DEF CreateCheck, Retry, Request, CreateCount, CreateLoad, ReadFails, ConsumeSelect,
      ConsumeCommit, NoCharge, InsertSession, InsertFails, Compensate, OnlyReq, StepReq
<1>7. ASSUME NEW s \in Sessions, AdminCancel(s) \/ Acquire(s) \/ Goroutine(s)
      PROVE  can' = can
  BY <1>7
  DEF AdminCancel, Acquire, Goroutine, SkipOnShutdown, Start, Check, Poll, SendOk,
      SendFails, SendUnauthorized, Record, Delay, SaveRanges, SaveProgress, Settle,
      Advance, Stay, Leave, StepLoop
<1>8. ASSUME (\E p \in Pixels : Ingest(p)) \/ Sigterm \/ Exit \/ Restart \/ UNCHANGED vars
      PROVE  can' = can
  BY <1>8 DEF Ingest, Sigterm, Exit, Restart, vars
<1> QED
  BY <1>1, <1>2, <1>3, <1>4, <1>5, <1>6, <1>7, <1>8 DEF Next

LEMMA RowInvKept ==
  ASSUME TypeInv, RowInv, [Next]_vars
  PROVE  RowInv'
<1>1. ASSUME NEW s \in Sessions, status'[s] = "none"
      PROVE  credit'[s] = None
  BY <1>1, RowsStay DEF RowInv
<1>2. ASSUME NEW k \in Cancellers, can'[k].pc # "idle"
      PROVE  Grounded(can[k])'
  <2>1. \A s \in Sessions : credit[s] \in Credits \cup {None}
    BY DEF TypeInv, TypeOK, RowsOK
  <2>2. can[k] \in Cancellations
    BY DEF TypeInv, TypeOK, RequestsOK
  <2>3. CASE can'[k] = can[k]
    BY <1>2, <2>3, RowsStay DEF RowInv, Grounded
  <2>4. ASSUME NEW s \in Sessions, can'[k].pc = "read", can'[k].session = s,
               status[s] # "none", can'[k].eligible => credit[s] # None
        PROVE  Grounded(can[k])'
    BY <2>1, <2>4, RowsStay DEF Grounded
  <2>5. CASE /\ can[k].pc # "idle" /\ can[k].eligible
             /\ can'[k] = [can[k] EXCEPT !.pc = "refund"]
    <3>1. /\ can'[k].pc = "refund" /\ can'[k].session = can[k].session
          /\ can'[k].eligible = can[k].eligible
      BY <2>2, <2>5 DEF Cancellations
    <3> QED
      BY <2>5, <3>1, RowsStay DEF RowInv, Grounded
  <2> QED
    BY <1>2, <2>3, <2>4, <2>5, CancelMoves
<1> QED
  BY <1>1, <1>2 DEF RowInv

-----------------------------------------------------------------------------
(* For any number of requests, cancellations, credits and crashes, what a  *)
(* credit has counted as used, plus what cancellations gave back, is what  *)
(* its sessions and unfinished requests were charged, plus what was lost   *)
(* on the way: ConsumeOneCredit, RefundReplayCredit and the callers of     *)
(* both never count a charge twice and never forget one.                   *)
THEOREM LedgerBalances == Spec => []CreditLedger
<1>1. Init => LedgerInv
  <2> SUFFICES ASSUME Init PROVE LedgerInv
    OBVIOUS
  <2>1. \A c \in Credits : Charged(c) = {} /\ Charging(c) = {}
    BY ConstantsAssumption, NoReqIdle DEF Init, Charged, Charging
  <2>2. CreditLedger
    <3>1. ASSUME NEW c \in Credits
          PROVE  /\ Cardinality(Charged(c)) = 0 /\ Cardinality(Charging(c)) = 0
                 /\ used[c] = 0 /\ returned[c] = 0 /\ lost[c] = 0
      BY <2>1, FS_EmptySet DEF Init
    <3> QED
      BY <3>1 DEF CreditLedger
  <2>3. LockInv
    BY NoReqIdle DEF Init, LockInv
  <2>4. RowInv
    BY DEF Init, RowInv, NoCan
  <2> QED
    BY <2>2, <2>3, <2>4 DEF LedgerInv
<1>2. ASSUME TypeInv, LedgerInv, [Next]_vars
      PROVE  LedgerInv'
  <2>1. RowInv'
    BY <1>2, RowInvKept DEF LedgerInv
  <2>2. ASSUME NEW k \in Cancellers,
               CancelWrite(k) \/ \E s \in Sessions : CancelRead(k, s)
        PROVE  UNCHANGED <<used, returned, lost, credit, req>>
    BY <2>2 DEF CancelRead, CancelWrite, StepCan, moneyVars
  <2>3. ASSUME NEW s \in Sessions, AdminCancel(s) \/ Acquire(s) \/ Goroutine(s)
        PROVE  UNCHANGED <<used, returned, lost, credit, req>>
    BY <2>3
    DEF AdminCancel, Acquire, Goroutine, SkipOnShutdown, Start, Check, Poll, SendOk,
        SendFails, SendUnauthorized, Record, Delay, SaveRanges, SaveProgress,
        Settle, Advance, Stay, Leave, StepLoop, moneyVars
  <2>4. ASSUME (\E p \in Pixels : Ingest(p)) \/ Sigterm \/ Exit \/ Restart \/ UNCHANGED vars
        PROVE  UNCHANGED <<used, returned, lost, credit, req>>
    BY <2>4 DEF Ingest, Sigterm, Exit, Restart, vars, dbVars, moneyVars
  <2>5. CreditLedger' /\ LockInv'
    BY <1>2, <2>2, <2>3, <2>4, RequestLedger, StartLedger, RefundLedger,
       CrashLedger, OtherLedger
    DEF Next
  <2> QED
    BY <2>1, <2>5 DEF LedgerInv
<1>3. LedgerInv => CreditLedger
  BY DEF LedgerInv
<1> QED
  BY <1>1, <1>2, <1>3, InitTypeInv, StepTypeInv, PTL DEF Spec

-----------------------------------------------------------------------------
(* Where the goroutine of a session is, given what its row says; and       *)
(* nothing is at work while the server is down.                            *)
LifeInv ==
  /\ \A s \in Sessions :
       /\ status[s] \in {"completed", "failed"} => pc[s] = "done"
       /\ pc[s] \in {"queued", "start"} => status[s] \in {"pending", "cancelled"}
       /\ status[s] # "none" => pc[s] # "none"
  /\ mode = "down" => /\ Engaged = {}
                      /\ \A h \in Handlers : req[h].pc = "idle"

Inv == TypeInv /\ LifeInv

LEMMA InitLifeInv == Init => LifeInv
  BY DEF Init, LifeInv, NoReq

LifeStep == [Lifecycle!LifeNext]_(Lifecycle!lifeVars)

-----------------------------------------------------------------------------
(* A step that leaves the rows, the goroutines and the mode alone.         *)
LEMMA QuietStep ==
  ASSUME Inv, UNCHANGED <<status, pc, mode>>, mode # "down" \/ req' = req
  PROVE  LifeInv' /\ LifeStep
<1>1. Engaged' = Engaged
  BY DEF Engaged, Alive
<1> QED
  BY <1>1 DEF Inv, LifeInv, LifeStep, Lifecycle!lifeVars

(* Requests: only the insert shows.                                        *)
LEMMA RequestLife ==
  ASSUME Inv, NEW h \in Handlers,
         \/ \E p \in Pixels : CreateCheck(h, p)
         \/ \E s \in Sessions : Retry(h, s)
         \/ Request(h)
  PROVE  LifeInv' /\ LifeStep
<1>1. mode # "down"
  BY DEF Inv, LifeInv, CreateCheck, Retry, Request, CreateCount, CreateLoad,
         ReadFails, ConsumeSelect, ConsumeCommit, NoCharge, InsertSession,
         InsertFails, Compensate
<1>2. ASSUME NEW s \in Sessions, InsertSession(h, s)
      PROVE  LifeInv' /\ LifeStep
  <2>1. /\ status[s] = "none" /\ pc[s] = "none"
        /\ status' = [status EXCEPT ![s] = "pending"]
        /\ pc' = [pc EXCEPT ![s] = "queued"]
        /\ mode' = mode
        /\ status \in [Sessions -> Statuses] /\ pc \in [Sessions -> Points]
    BY <1>2 DEF InsertSession, StepReq, Inv, TypeInv, TypeOK, RowsOK, LoopsOK,
                BindingInv
  <2>2. Engaged' = Engaged \cup {s} /\ s \notin Engaged
    BY <2>1 DEF Engaged, Alive
  <2>3. LifeInv'
    BY <1>1, <2>1, <2>2 DEF Inv, LifeInv
  <2>4. Lifecycle!Submit(s)
    BY <2>1, <2>2 DEF Lifecycle!Submit
  <2> QED
    BY <2>3, <2>4 DEF LifeStep, Lifecycle!LifeNext
<1>3. CASE \A s \in Sessions : ~InsertSession(h, s)
  <2>1. UNCHANGED <<status, pc, mode>>
    BY <1>3
    DEF CreateCheck, Retry, Request, CreateCount, CreateLoad, ReadFails,
        ConsumeSelect, ConsumeCommit, NoCharge, InsertFails, Compensate, OnlyReq,
        StepReq, dbVars
  <2> QED
    BY <1>1, <2>1, QuietStep
<1> QED
  BY <1>2, <1>3

(* Cancellations, the administrator's included.                            *)
LEMMA CancelLife ==
  ASSUME Inv,
         \/ \E s \in Sessions : AdminCancel(s)
         \/ \E k \in Cancellers : \/ \E s \in Sessions : CancelRead(k, s)
                                  \/ CancelWrite(k)
                                  \/ CancelRefund(k)
  PROVE  LifeInv' /\ LifeStep
<1>1. UNCHANGED <<pc, mode, req>>
  BY DEF AdminCancel, CancelRead, CancelWrite, CancelRefund, StepCan
<1>2. CASE status' = status
  BY <1>1, <1>2, QuietStep
<1>3. ASSUME NEW s \in Sessions, status[s] \in Active,
             status' = [status EXCEPT ![s] = "cancelled"]
      PROVE  LifeInv' /\ LifeStep
  <2>1. status \in [Sessions -> Statuses]
    BY DEF Inv, TypeInv, TypeOK, RowsOK
  <2>2. Engaged' = Engaged
    BY <1>1 DEF Engaged, Alive
  <2>3. LifeInv'
    BY <1>1, <1>3, <2>1, <2>2 DEF Inv, LifeInv, Active
  <2>4. Lifecycle!Cancel(s)
    BY <1>3, <2>2 DEF Lifecycle!Cancel, Lifecycle!Open, Active
  <2> QED
    BY <2>3, <2>4 DEF LifeStep, Lifecycle!LifeNext
<1>4. \/ status' = status
      \/ \E s \in Sessions : /\ status[s] \in Active
                             /\ status' = [status EXCEPT ![s] = "cancelled"]
  <2>1. ASSUME NEW k \in Cancellers, CancelWrite(k)
        PROVE  \/ status' = status
               \/ \E s \in Sessions : /\ status[s] \in Active
                                      /\ status' = [status EXCEPT ![s] = "cancelled"]
    <3>1. can[k].session \in Sessions \/ [status EXCEPT ![can[k].session] = "cancelled"] = status
      BY DEF Inv, TypeInv, TypeOK, RowsOK
    <3> QED
      BY <2>1, <3>1 DEF CancelWrite, Cancellable
  <2> QED
    BY <2>1 DEF AdminCancel, Cancellable, CancelRead, CancelRefund
<1> QED
  BY <1>2, <1>3, <1>4

(* A goroutine that stays engaged and leaves its row alone does not show.  *)
LEMMA WorkingLife ==
  ASSUME Inv, NEW s \in Sessions, UNCHANGED <<status, mode, req>>,
         NEW to \in Executing, pc' = [pc EXCEPT ![s] = to],
         pc[s] \notin {"none", "done"},
         to = "start" => pc[s] = "queued"
  PROVE  LifeInv' /\ LifeStep
<1>1. pc \in [Sessions -> Points] /\ to \notin {"none", "done", "queued"}
  BY DEF Inv, TypeInv, TypeOK, LoopsOK, Executing
<1>2. Engaged' = Engaged
  BY <1>1 DEF Engaged, Alive
<1>3. LifeInv'
  BY <1>1, <1>2 DEF Inv, LifeInv
<1> QED
  BY <1>2, <1>3 DEF LifeStep, Lifecycle!lifeVars

(* The last step of a goroutine, with or without a verdict.                *)
LEMMA EndingLife ==
  ASSUME Inv, NEW s \in Sessions, UNCHANGED <<mode, req>>,
         pc' = [pc EXCEPT ![s] = "done"], pc[s] \notin {"none", "done"},
         \/ status' = status
         \/ \E v \in {"completed", "failed"} : status' = [status EXCEPT ![s] = v]
  PROVE  LifeInv' /\ LifeStep
<1>1. /\ pc \in [Sessions -> Points] /\ status \in [Sessions -> Statuses]
      /\ status[s] \in {"pending", "running", "cancelled"}
  BY DEF Inv, LifeInv, TypeInv, TypeOK, RowsOK, LoopsOK, BindingInv, Statuses,
         Active, Final
<1>2. s \in Engaged /\ Engaged' = Engaged \ {s}
  BY <1>1 DEF Engaged, Alive
<1>3. LifeInv'
  BY <1>1, <1>2 DEF Inv, LifeInv
<1>4. Lifecycle!Finish(s) \/ Lifecycle!Disengage(s)
  BY <1>1, <1>2
  DEF Lifecycle!Finish, Lifecycle!Disengage, Lifecycle!Unruly, Lifecycle!Open
<1> QED
  BY <1>3, <1>4 DEF LifeStep, Lifecycle!LifeNext

LEMMA GoroutineLife ==
  ASSUME Inv, NEW s \in Sessions, Acquire(s) \/ Goroutine(s)
  PROVE  LifeInv' /\ LifeStep
<1>1. UNCHANGED <<mode, req>>
  BY DEF Acquire, Goroutine, SkipOnShutdown, Start, Check, Poll, SendOk, SendFails,
         SendUnauthorized, Record, Delay, SaveRanges, SaveProgress, Settle,
         Advance, Stay, Leave, StepLoop
<1>2. CASE \E to \in Executing :
             /\ status' = status
             /\ pc' = [pc EXCEPT ![s] = to]
             /\ pc[s] \notin {"none", "done"}
             /\ to = "start" => pc[s] = "queued"
  BY <1>1, <1>2, WorkingLife
<1>3. CASE Acquire(s)
  BY <1>2, <1>3 DEF Acquire, StepLoop, Executing
<1>4. CASE Start(s)
  <2>1. CASE status' = status
    BY <1>2, <1>4, <2>1 DEF Start, StepLoop, Executing
  <2>2. CASE status' = [status EXCEPT ![s] = "running"]
    <3>1. PICK to \in {"check", "saveRanges"} : pc' = [pc EXCEPT ![s] = to]
      BY <1>4 DEF Start, StepLoop
    <3>2. /\ pc[s] = "start" /\ status[s] \in {"pending", "cancelled"}
          /\ pc \in [Sessions -> Points] /\ status \in [Sessions -> Statuses]
      BY <1>4 DEF Start, Inv, LifeInv, TypeInv, TypeOK, RowsOK, LoopsOK
    <3>3. Engaged' = Engaged /\ s \in Engaged
      BY <3>1, <3>2 DEF Engaged, Alive
    <3>4. LifeInv'
      BY <1>1, <2>2, <3>1, <3>2, <3>3 DEF Inv, LifeInv
    <3>5. Lifecycle!Begin(s)
      BY <2>2, <3>2, <3>3 DEF Lifecycle!Begin
    <3> QED
      BY <3>4, <3>5 DEF LifeStep, Lifecycle!LifeNext
  <2> QED
    BY <1>4, <2>1, <2>2 DEF Start
<1>5. CASE Check(s) \/ Poll(s) \/ SendOk(s) \/ SendFails(s) \/ SendUnauthorized(s)
  BY <1>2, <1>5
  DEF Check, Poll, SendOk, SendFails, SendUnauthorized, Advance, Stay, Leave,
      StepLoop, Executing
<1>6. CASE Record(s) \/ Delay(s) \/ SaveRanges(s)
  BY <1>2, <1>6 DEF Record, Delay, SaveRanges, Stay, Leave, StepLoop, Executing
<1>7. CASE SaveProgress(s)
  <2>1. CASE exit[s] = "cancelled"
    BY <1>1, <1>7, <2>1, EndingLife DEF SaveProgress, StepLoop
  <2>2. CASE exit[s] # "cancelled"
    BY <1>2, <1>7, <2>2 DEF SaveProgress, StepLoop, Executing
  <2> QED
    BY <2>1, <2>2
<1>8. CASE SkipOnShutdown(s)
  BY <1>1, <1>8, EndingLife DEF SkipOnShutdown, StepLoop
<1>9. CASE Settle(s)
  BY <1>1, <1>9, EndingLife DEF Settle, Verdict, StepLoop
<1> QED
  BY <1>3, <1>4, <1>5, <1>6, <1>7, <1>8, <1>9 DEF Goroutine

(* The server process: only a crash and a restart show.                    *)
LEMMA ServerLife ==
  ASSUME Inv,
         \/ \E p \in Pixels : Ingest(p)
         \/ Sigterm \/ Exit \/ Crash \/ Restart \/ UNCHANGED vars
  PROVE  LifeInv' /\ LifeStep
<1>1. CASE (\E p \in Pixels : Ingest(p)) \/ UNCHANGED vars
  BY <1>1, QuietStep DEF Ingest, vars, dbVars
<1>2. CASE Sigterm \/ Exit
  <2>1. UNCHANGED <<status, pc, req>>
    BY <1>2 DEF Sigterm, Exit, dbVars
  <2>2. Engaged' = Engaged
    BY <2>1 DEF Engaged, Alive
  <2>3. Exit => Engaged = {} /\ \A h \in Handlers : req[h].pc = "idle"
    BY DEF Exit, Idle, Engaged, Alive
  <2>4. LifeInv'
    BY <1>2, <2>1, <2>2, <2>3 DEF Inv, LifeInv, Sigterm
  <2> QED
    BY <2>1, <2>2, <2>4 DEF LifeStep, Lifecycle!lifeVars
<1>3. CASE Crash
  <2>1. /\ status' = status
        /\ pc' = [s \in Sessions |-> IF pc[s] = "none" THEN "none" ELSE "done"]
        /\ req' = [h \in Handlers |-> NoReq]
    BY <1>3 DEF Crash, dbVars
  <2>2. Engaged' = {}
    BY <2>1 DEF Engaged, Alive
  <2>3. LifeInv'
    BY <2>1, <2>2 DEF Inv, LifeInv, NoReq
  <2>4. Lifecycle!Stop
    BY <2>1, <2>2 DEF Lifecycle!Stop
  <2> QED
    BY <2>3, <2>4 DEF LifeStep, Lifecycle!LifeNext
<1>4. CASE Restart
  <2>1. /\ Engaged = {} /\ Engaged' = Engaged /\ UNCHANGED <<pc, req>> /\ mode' = "up"
        /\ status \in [Sessions -> Statuses] /\ pc \in [Sessions -> Points]
    BY <1>4 DEF Restart, Inv, LifeInv, Engaged, Alive, TypeInv, TypeOK, RowsOK, LoopsOK
  <2>2. \A s \in Sessions : pc[s] \in {"none", "done"}
    BY <2>1 DEF Engaged, Alive
  <2>3. CASE status' = status
    BY <2>1, <2>3 DEF Inv, LifeInv, LifeStep, Lifecycle!lifeVars
  <2>4. CASE status' = [s \in Sessions |->
                          IF status[s] \in Active THEN "failed" ELSE status[s]]
    <3>1. LifeInv'
      BY <2>1, <2>2, <2>4 DEF Inv, LifeInv, Active
    <3>2. Lifecycle!Recover
      BY <2>1, <2>4 DEF Lifecycle!Recover, Lifecycle!Open, Active
    <3> QED
      BY <3>1, <3>2 DEF LifeStep, Lifecycle!LifeNext
  <2> QED
    BY <1>4, <2>3, <2>4 DEF Restart, Recovered
<1> QED
  BY <1>1, <1>2, <1>3, <1>4

LEMMA StepInv == Inv /\ [Next]_vars => Inv' /\ LifeStep
<1> SUFFICES ASSUME Inv, [Next]_vars PROVE Inv' /\ LifeStep
  OBVIOUS
<1>1. TypeInv'
  BY StepTypeInv DEF Inv
<1>2. LifeInv' /\ LifeStep
  BY RequestLife, CancelLife, GoroutineLife, ServerLife DEF Next
<1> QED
  BY <1>1, <1>2 DEF Inv

-----------------------------------------------------------------------------
(* The only moves a session row makes are those of ReplayLifecycle,        *)
(* whatever is cancelled, lost, crashed or restarted in between.           *)
THEOREM ImplementsLifecycle == Spec => FollowsLifecycle
<1>1. Init => Lifecycle!LifeInit
  BY DEF Init, Engaged, Alive, Lifecycle!LifeInit
<1>2. Init => Inv
  BY InitTypeInv, InitLifeInv DEF Inv
<1> QED
  BY <1>1, <1>2, StepInv, PTL DEF Spec, LifeStep, FollowsLifecycle, Lifecycle!Spec

(* completed and failed are for ever: it follows from the lifecycle alone. *)
THEOREM SettledForEver == Spec => SettledIsStable
<1>1. ASSUME Inv, LifeStep
      PROVE  \A s \in Sessions :
               status[s] \in {"completed", "failed"} => status'[s] = status[s]
  <2>1. status \in [Sessions -> Statuses]
    BY <1>1 DEF Inv, TypeInv, TypeOK, RowsOK
  <2> QED
    BY <1>1, <2>1
    DEF LifeStep, Lifecycle!LifeNext, Lifecycle!lifeVars, Lifecycle!Submit,
        Lifecycle!Begin, Lifecycle!Cancel, Lifecycle!Finish, Lifecycle!Disengage,
        Lifecycle!Stop, Lifecycle!Recover, Lifecycle!Open, Lifecycle!Unruly
<1>2. Init => Inv
  BY InitTypeInv, InitLifeInv DEF Inv
<1> QED
  BY <1>1, <1>2, StepInv, PTL DEF Spec, SettledIsStable

-----------------------------------------------------------------------------
(* A session is not orphaned while writes succeed. *)

(* A goroutine that leaves because of a cancellation still sees it: only a *)
(* goroutine takes its own session out of "cancelled", and it is past its  *)
(* first write.                                                            *)
CancelledInv ==
  \A s \in Sessions :
    /\ exit[s] = "cancelled" =>
         /\ status[s] = "cancelled"
         /\ pc[s] \in {"saveRanges", "saveProgress", "done"}
    /\ pc[s] \in Fresh \cup InLoop \cup {"record"} => exit[s] = "none"

WorkInv == CancelledInv /\ ActiveIsWorked

LEMMA CancelledKept ==
  ASSUME Inv, CancelledInv, NEW s \in Sessions, Acquire(s) \/ Goroutine(s)
  PROVE  CancelledInv'
<1> USE DEF Fresh, InLoop
<1>1. /\ status \in [Sessions -> Statuses] /\ pc \in [Sessions -> Points]
      /\ exit \in [Sessions -> Exits]
  BY DEF Inv, TypeInv, TypeOK, RowsOK, LoopsOK
<1>2. ASSUME NEW t \in Sessions \ {s}
      PROVE  UNCHANGED <<status[t], pc[t], exit[t]>>
  BY <1>1 DEF Acquire, Goroutine, SkipOnShutdown, Start, Check, Poll, SendOk,
     SendFails, SendUnauthorized, Record, Delay, SaveRanges, SaveProgress, Settle,
     Advance, Stay, Leave, StepLoop, loopVars
<1>3. /\ exit'[s] = "cancelled" =>
           /\ status'[s] = "cancelled"
           /\ pc'[s] \in {"saveRanges", "saveProgress", "done"}
      /\ pc'[s] \in Fresh \cup InLoop \cup {"record"} => exit'[s] = "none"
  <2> USE <1>1 DEF CancelledInv
  <2>1. CASE Acquire(s) \/ SkipOnShutdown(s) \/ Start(s)
    BY <2>1 DEF Acquire, SkipOnShutdown, Start, StepLoop, loopVars
  <2>2. CASE Check(s) \/ Poll(s)
    BY <2>2 DEF Check, Poll, SeesCancel, Leave, Stay, StepLoop, loopVars
  <2>3. CASE SendOk(s) \/ SendFails(s) \/ SendUnauthorized(s)
    BY <2>3 DEF SendOk, SendFails, SendUnauthorized, Advance, Leave, StepLoop
  <2>4. CASE Record(s) \/ Delay(s)
    BY <2>4 DEF Record, Delay, Leave, Stay, StepLoop, loopVars
  <2>5. CASE SaveRanges(s) \/ SaveProgress(s) \/ Settle(s)
    BY <2>5 DEF SaveRanges, SaveProgress, Settle, StepLoop, loopVars
  <2> QED
    BY <2>1, <2>2, <2>3, <2>4, <2>5 DEF Goroutine
<1> QED
  BY <1>2, <1>3 DEF CancelledInv

LEMMA GoroutineWork ==
  ASSUME ~DbMayFail, Inv, WorkInv, NEW s \in Sessions, Acquire(s) \/ Goroutine(s)
  PROVE  ActiveIsWorked'
<1>1. /\ status \in [Sessions -> Statuses] /\ pc \in [Sessions -> Points]
      /\ mode' = mode
  BY DEF Inv, TypeInv, TypeOK, RowsOK, LoopsOK, Acquire, Goroutine, SkipOnShutdown,
     Start, Check, Poll, SendOk, SendFails, SendUnauthorized, Record, Delay,
     SaveRanges, SaveProgress, Settle, Advance, Stay, Leave, StepLoop
<1>2. ASSUME NEW t \in Sessions \ {s}
      PROVE  UNCHANGED <<status[t], pc[t]>>
  BY <1>1 DEF Acquire, Goroutine, SkipOnShutdown, Start, Check, Poll, SendOk,
     SendFails, SendUnauthorized, Record, Delay, SaveRanges, SaveProgress, Settle,
     Advance, Stay, Leave, StepLoop
<1>3. pc'[s] \in Executing \/ (mode = "up" => status'[s] \notin Active)
  <2> USE <1>1 DEF Executing
  <2>1. CASE Acquire(s) \/ Start(s) \/ Check(s) \/ Poll(s) \/ SendOk(s)
             \/ SendFails(s) \/ SendUnauthorized(s) \/ Record(s) \/ Delay(s)
             \/ SaveRanges(s)
    BY <2>1 DEF Acquire, Start, Check, Poll, SendOk, SendFails, SendUnauthorized,
                Record, Delay, SaveRanges, Advance, Stay, Leave, StepLoop
  <2>2. CASE SkipOnShutdown(s)
    BY <2>2 DEF SkipOnShutdown, CtxDone
  <2>3. CASE SaveProgress(s)
    BY <2>3 DEF SaveProgress, StepLoop, WorkInv, CancelledInv, Active
  <2>4. CASE Settle(s)
    BY <2>4 DEF Settle, MustWrite, CtxDone, Verdict, Active
  <2> QED
    BY <2>1, <2>2, <2>3, <2>4 DEF Goroutine
<1> QED
  BY <1>1, <1>2, <1>3 DEF WorkInv, ActiveIsWorked, Alive, Executing

LEMMA OtherWork ==
  ASSUME ~DbMayFail, Inv, WorkInv, [Next]_vars,
         \A s \in Sessions : ~Acquire(s) /\ ~Goroutine(s)
  PROVE  WorkInv'
<1>1. /\ status \in [Sessions -> Statuses] /\ pc \in [Sessions -> Points]
      /\ exit \in [Sessions -> Exits]
  BY DEF Inv, TypeInv, TypeOK, RowsOK, LoopsOK
<1>2. CASE UNCHANGED <<status, pc, exit>> /\ mode' \in {mode, "stopping", "down"}
  BY <1>2 DEF WorkInv, CancelledInv, ActiveIsWorked, Alive
<1>3. ASSUME NEW s \in Sessions, status[s] \in Active,
             status' = [status EXCEPT ![s] = "cancelled"], UNCHANGED <<pc, exit, mode>>
      PROVE  WorkInv'
  BY <1>1, <1>3 DEF WorkInv, CancelledInv, ActiveIsWorked, Alive, Active
<1>4. ASSUME NEW h \in Handlers, NEW s \in Sessions, InsertSession(h, s)
      PROVE  WorkInv'
  <2>1. /\ status[s] = "none" /\ pc[s] = "none" /\ UNCHANGED <<mode, exit>>
        /\ status' = [status EXCEPT ![s] = "pending"]
        /\ pc' = [pc EXCEPT ![s] = "queued"]
    BY <1>4 DEF InsertSession, StepReq, loopVars, Inv, TypeInv, BindingInv
  <2> QED
    BY <1>1, <2>1
    DEF WorkInv, CancelledInv, ActiveIsWorked, Alive, Fresh
<1>5. CASE Crash
  <2>1. /\ UNCHANGED <<status, exit>> /\ mode' = "down"
        /\ pc' = [s \in Sessions |-> IF pc[s] = "none" THEN "none" ELSE "done"]
    BY <1>5 DEF Crash, dbVars, loopVars
  <2> QED
    BY <1>1, <2>1 DEF WorkInv, CancelledInv, ActiveIsWorked, Fresh, InLoop
<1>6. CASE Restart
  <2>1. /\ UNCHANGED <<pc, exit>>
        /\ status' = [s \in Sessions |->
                        IF status[s] \in Active THEN "failed" ELSE status[s]]
    BY <1>6 DEF Restart, Recovered, loopVars
  <2> QED
    BY <1>1, <2>1 DEF WorkInv, CancelledInv, ActiveIsWorked, Active
<1>7. ASSUME NEW k \in Cancellers, CancelWrite(k)
      PROVE  WorkInv'
  <2>1. UNCHANGED <<pc, exit, mode>>
    BY <1>7 DEF CancelWrite, StepCan, loopVars
  <2>2. CASE status' = status
    BY <1>2, <2>1, <2>2
  <2>3. CASE status' # status
    <3>1. /\ status[can[k].session] \in Active
          /\ status' = [status EXCEPT ![can[k].session] = "cancelled"]
      BY <1>7, <2>3 DEF CancelWrite, Cancellable
    <3>2. can[k].session \in Sessions
      BY <1>1, <2>3, <3>1
    <3> QED
      BY <1>3, <2>1, <3>1, <3>2
  <2> QED
    BY <2>2, <2>3
<1>8. ASSUME NEW s \in Sessions, AdminCancel(s)
      PROVE  WorkInv'
  BY <1>3, <1>8 DEF AdminCancel, Cancellable, loopVars
<1>9. ASSUME NEW h \in Handlers,
             \/ \E p \in Pixels : CreateCheck(h, p)
             \/ \E s \in Sessions : Retry(h, s)
             \/ Request(h),
             \A s \in Sessions : ~InsertSession(h, s)
      PROVE  WorkInv'
  <2>1. UNCHANGED <<status, pc, exit, mode>>
    BY <1>9
    DEF CreateCheck, Retry, Request, CreateCount, CreateLoad, ReadFails,
        ConsumeSelect, ConsumeCommit, NoCharge, InsertFails, Compensate, OnlyReq,
        StepReq, dbVars, loopVars
  <2> QED
    BY <1>2, <2>1
<1>10. ASSUME NEW k \in Cancellers, CancelRefund(k) \/ \E s \in Sessions : CancelRead(k, s)
       PROVE  WorkInv'
  <2>1. UNCHANGED <<status, pc, exit, mode>>
    BY <1>10 DEF CancelRead, CancelRefund, StepCan, loopVars
  <2> QED
    BY <1>2, <2>1
<1>11. CASE (\E p \in Pixels : Ingest(p)) \/ Sigterm \/ Exit \/ UNCHANGED vars
  <2>1. UNCHANGED <<status, pc, exit>> /\ mode' \in {mode, "stopping", "down"}
    BY <1>11 DEF Ingest, Sigterm, Exit, vars, dbVars, loopVars
  <2> QED
    BY <1>2, <2>1
<1> QED
  BY <1>4, <1>5, <1>6, <1>7, <1>8, <1>9, <1>10, <1>11 DEF Next

(* While the server runs, no session is pending or running without a       *)
(* goroutine at work on it, provided writes do not fail.                   *)
THEOREM NoOrphans ==
  ASSUME ~DbMayFail
  PROVE  Spec => []ActiveIsWorked
<1>1. Init => Inv /\ WorkInv
  BY InitTypeInv, InitLifeInv
  DEF Inv, Init, WorkInv, CancelledInv, ActiveIsWorked, Active
<1>2. ASSUME Inv, WorkInv, [Next]_vars
      PROVE  WorkInv'
  <2>1. ASSUME NEW s \in Sessions, Acquire(s) \/ Goroutine(s)
        PROVE  WorkInv'
    BY <1>2, <2>1, CancelledKept, GoroutineWork DEF WorkInv
  <2> QED
    BY <1>2, <2>1, OtherWork
<1>3. WorkInv => ActiveIsWorked
  BY DEF WorkInv
<1> QED
  BY <1>1, <1>2, <1>3, StepInv, PTL DEF Spec

-----------------------------------------------------------------------------
(***************************************************************************)
(* The counters, the ranges and the sends after a cancellation.            *)
(***************************************************************************)

Working == Fresh \cup InLoop \cup {"record"}

(* The loop counter parts the batches before it into accepted and failed   *)
(* ones, and no row claims more than was accepted.                         *)
SentInv(s) ==
  /\ next[s] <= total[s]
  /\ good[s] \cup bad[s] = 0 .. next[s] - 1
  /\ good[s] \cap bad[s] = {}
  /\ good[s] \subseteq delivered[s]
  /\ progress[s].replayed <= Cardinality(good[s])

(* What is already written when the goroutine has come to a point, if      *)
(* writes succeed: the ranges after SaveRanges, the counters after         *)
(* SaveProgress, and both in a completed row.                              *)
ReportedInv(s) ==
  /\ pc[s] \in Working => exit[s] = "none"
  /\ pc[s] \in Working \cup {"saveRanges"} => ranges[s] = {}
  /\ exit[s] = "end" =>
       /\ next[s] = total[s]
       /\ pc[s] \in {"saveProgress", "settle"} => ranges[s] = bad[s]
       /\ pc[s] = "settle" => progress[s] = Tally(s)
  /\ status[s] = "completed" =>
       /\ next[s] = total[s] /\ ranges[s] = bad[s] /\ progress[s] = Tally(s)
       /\ bad[s] = {} \/ good[s] # {}

(* A goroutine that has sent a batch of a cancelled session has not polled *)
(* since, or polls in vain because the server is stopping: then its        *)
(* context is done and nothing goes out.                                   *)
LateInv(s) ==
  /\ late[s] <= 1
  /\ late[s] > 0 =>
       /\ pc[s] \notin Fresh
       /\ pc[s] \in InLoop \cup {"record"} => status[s] = "cancelled"
       /\ pc[s] = "send" => CtxDone

SentAll   == \A s \in Sessions : SentInv(s)
WrittenAll == \A s \in Sessions : ReportedInv(s) /\ LateInv(s)

-----------------------------------------------------------------------------
(* The set of batches counted so far. *)

LEMMA BatchesFinite ==
  ASSUME NEW S \in SUBSET Batches
  PROVE  IsFiniteSet(S) /\ Cardinality(S) \in Nat
<1>1. IsFiniteSet(Batches)
  BY ConstantsAssumption, FS_Interval DEF Batches
<1> QED
  BY <1>1, FS_Subset, FS_CardinalityType

(* The types the proofs below need of a session.                           *)
LEMMA SessionTypes ==
  ASSUME TypeInv, NEW s \in Sessions
  PROVE  /\ next[s] \in Nat /\ total[s] \in Nat
         /\ good[s] \in SUBSET Batches /\ bad[s] \in SUBSET Batches
         /\ delivered[s] \in SUBSET Batches
         /\ progress[s].replayed \in Nat /\ late[s] \in Nat
         /\ Cardinality(good[s]) \in Nat /\ Cardinality(bad[s]) \in Nat
  BY BatchesFinite, ConstantsAssumption
  DEF TypeInv, TypeOK, RowsOK, LoopsOK, Counts

(* What was accepted never becomes less.                                   *)
LEMMA CountGrows ==
  ASSUME NEW S \in SUBSET Batches, NEW T \in SUBSET S
  PROVE  Cardinality(T) <= Cardinality(S)
  BY BatchesFinite, FS_Subset

(* There are n batches before the n-th.                                    *)
LEMMA CountBefore ==
  ASSUME NEW n \in Nat
  PROVE  Cardinality(0 .. n - 1) = n
<1>1. Cardinality(0 .. n - 1) = IF 0 > n - 1 THEN 0 ELSE n - 1 - 0 + 1
  <2>1. 0 \in Int /\ n - 1 \in Int
    OBVIOUS
  <2> QED
    BY <2>1, FS_Interval
<1> QED
  BY <1>1

-----------------------------------------------------------------------------
(* Steps that are not a goroutine's. *)

(* What they can do to a session: create its row and its goroutine, cancel *)
(* it, end its goroutine with the server, or recover it afterwards.        *)
Aside(s) ==
  \/ UNCHANGED <<status[s], total[s], pc[s]>>
  \/ /\ status[s] = "none" /\ pc[s] = "none"
     /\ status'[s] = "pending" /\ pc'[s] = "queued"
     /\ total'[s] \in Counts
  \/ /\ status[s] \in Active /\ status'[s] = "cancelled"
     /\ UNCHANGED <<total[s], pc[s]>>
  \/ /\ pc[s] # "none" /\ pc'[s] = "done"
     /\ UNCHANGED <<status[s], total[s]>>
  \/ /\ status[s] \in Active /\ status'[s] = "failed"
     /\ pc[s] = "done"
     /\ UNCHANGED <<total[s], pc[s]>>

LEMMA OtherSteps ==
  ASSUME Inv, [Next]_vars, \A s \in Sessions : ~Acquire(s) /\ ~Goroutine(s)
  PROVE  /\ UNCHANGED <<progress, ranges, loopVars>>
         /\ \A s \in Sessions : /\ Aside(s)
                                /\ CtxDone => CtxDone' \/ pc'[s] # "send"
<1>1. /\ status \in [Sessions -> Statuses] /\ pc \in [Sessions -> Points]
      /\ total \in [Sessions -> Counts]
  BY DEF Inv, TypeInv, TypeOK, RowsOK, LoopsOK
<1>2. CASE UNCHANGED <<dbVars, pc, loopVars>> /\ (CtxDone => CtxDone')
  BY <1>2 DEF Aside, dbVars
<1>3. ASSUME NEW t \in Sessions, status[t] \in Active,
             status' = [status EXCEPT ![t] = "cancelled"],
             UNCHANGED <<total, progress, ranges, pc, loopVars, mode>>
      PROVE  /\ UNCHANGED <<progress, ranges, loopVars>>
             /\ \A s \in Sessions : Aside(s)
             /\ CtxDone => CtxDone'
  BY <1>1, <1>3 DEF Aside, CtxDone
<1>4. ASSUME NEW h \in Handlers, NEW t \in Sessions, InsertSession(h, t)
      PROVE  /\ UNCHANGED <<progress, ranges, loopVars>>
             /\ \A s \in Sessions : Aside(s)
             /\ CtxDone => CtxDone'
  <2>1. req[h].load \in Counts
    BY DEF Inv, TypeInv, TypeOK, RequestsOK, Requests
  <2>2. pc[t] = "none"
    BY <1>4 DEF InsertSession, Inv, TypeInv, BindingInv
  <2>3. /\ status[t] = "none"
        /\ status' = [status EXCEPT ![t] = "pending"]
        /\ total' = [total EXCEPT ![t] = req[h].load]
        /\ pc' = [pc EXCEPT ![t] = "queued"]
        /\ UNCHANGED <<progress, ranges, loopVars, mode>>
    BY <1>4 DEF InsertSession, StepReq
  <2> QED
    BY <1>1, <2>1, <2>2, <2>3 DEF Aside, CtxDone
<1>5. ASSUME NEW h \in Handlers,
             \/ \E p \in Pixels : CreateCheck(h, p)
             \/ \E s \in Sessions : Retry(h, s)
             \/ Request(h),
             \A s \in Sessions : ~InsertSession(h, s)
      PROVE  UNCHANGED <<dbVars, pc, loopVars>> /\ (CtxDone => CtxDone')
  BY <1>5
  DEF CreateCheck, Retry, Request, CreateCount, CreateLoad, ReadFails,
      ConsumeSelect, ConsumeCommit, NoCharge, InsertFails, Compensate, OnlyReq,
      StepReq, CtxDone
<1>6. ASSUME NEW k \in Cancellers, CancelRefund(k) \/ \E s \in Sessions : CancelRead(k, s)
      PROVE  UNCHANGED <<dbVars, pc, loopVars>> /\ (CtxDone => CtxDone')
  BY <1>6 DEF CancelRead, CancelRefund, StepCan, dbVars, CtxDone
<1>7. ASSUME NEW k \in Cancellers, CancelWrite(k)
      PROVE  \/ UNCHANGED <<dbVars, pc, loopVars>> /\ (CtxDone => CtxDone')
             \/ \E t \in Sessions :
                  /\ status[t] \in Active
                  /\ status' = [status EXCEPT ![t] = "cancelled"]
                  /\ UNCHANGED <<total, progress, ranges, pc, loopVars, mode>>
  <2>1. UNCHANGED <<source, credit, total, progress, ranges, upTo, pc, loopVars, mode>>
    BY <1>7 DEF CancelWrite, StepCan
  <2>2. can[k].session \in Sessions
        \/ [status EXCEPT ![can[k].session] = "cancelled"] = status
    BY <1>1
  <2> QED
    BY <1>7, <2>1, <2>2 DEF CancelWrite, Cancellable, dbVars, CtxDone
<1>8. ASSUME NEW t \in Sessions, AdminCancel(t)
      PROVE  /\ status[t] \in Active
             /\ status' = [status EXCEPT ![t] = "cancelled"]
             /\ UNCHANGED <<total, progress, ranges, pc, loopVars, mode>>
  BY <1>8 DEF AdminCancel, Cancellable
<1>9. CASE (\E p \in Pixels : Ingest(p)) \/ Sigterm \/ UNCHANGED vars
  <2>1. UNCHANGED <<dbVars, pc, loopVars>> /\ (CtxDone => CtxDone')
    BY <1>9 DEF Ingest, Sigterm, vars, CtxDone
  <2> QED
    BY <1>2, <2>1
<1>10. CASE Exit \/ Crash
  <2>1. UNCHANGED <<dbVars, loopVars>>
    BY <1>10 DEF Exit, Crash
  <2>2. \A s \in Sessions : /\ pc'[s] = pc[s] \/ (pc[s] # "none" /\ pc'[s] = "done")
                            /\ pc'[s] # "send"
    BY <1>1, <1>10 DEF Exit, Crash
  <2> QED
    BY <2>1, <2>2 DEF Aside, dbVars
<1>11. CASE Restart
  <2>1. /\ UNCHANGED <<total, progress, ranges, pc, loopVars>> /\ ~CtxDone
        /\ Engaged = {}
    BY <1>11 DEF Restart, CtxDone, Inv, LifeInv
  <2>2. \A s \in Sessions : status[s] \in Active => pc[s] = "done"
    BY <2>1 DEF Engaged, Alive, Inv, LifeInv, Active
  <2>3. \A s \in Sessions : \/ status'[s] = status[s]
                            \/ status[s] \in Active /\ status'[s] = "failed"
    BY <1>11 DEF Restart, Recovered
  <2> QED
    BY <2>1, <2>2, <2>3 DEF Aside
<1> QED
  BY <1>2, <1>3, <1>4, <1>5, <1>6, <1>7, <1>8, <1>9, <1>10, <1>11 DEF Next

(* They keep the invariants: a session that is being created has sent      *)
(* nothing, and a completed one is not touched.                            *)
LEMMA AsideKeeps ==
  ASSUME Inv, NEW s \in Sessions, Aside(s),
         UNCHANGED <<progress, ranges, loopVars>>,
         CtxDone => CtxDone' \/ pc'[s] # "send"
  PROVE  /\ SentInv(s) => SentInv(s)'
         /\ ReportedInv(s) => ReportedInv(s)'
         /\ LateInv(s) => LateInv(s)'
<1>1. /\ next[s] \in Nat /\ total[s] \in Nat
      /\ pc[s] = "none" => next[s] = 0
      /\ Tally(s)' = Tally(s)
  BY SessionTypes DEF Inv, TypeInv, LoopInv, Fresh, loopVars, Tally
<1>2. SentInv(s) => SentInv(s)'
  <2>1. CASE UNCHANGED total[s]
    BY <2>1 DEF SentInv, loopVars
  <2>2. CASE pc[s] = "none" /\ total'[s] \in Counts
    <3>1. next'[s] <= total'[s]
      BY <1>1, <2>2, ConstantsAssumption DEF Counts, loopVars
    <3> QED
      BY <3>1 DEF SentInv, loopVars
  <2> QED
    BY <2>1, <2>2 DEF Aside
<1>3. ReportedInv(s) => ReportedInv(s)'
  BY <1>1
  DEF Aside, ReportedInv, loopVars, Working, Fresh, InLoop, Active, Inv, LifeInv
<1>4. LateInv(s) => LateInv(s)'
  BY DEF Aside, LateInv, loopVars, Fresh, InLoop, Active
<1> QED
  BY <1>2, <1>3, <1>4

-----------------------------------------------------------------------------
(* Steps of a goroutine. *)

(* A goroutine touches its own session only.                               *)
LEMMA OthersUntouched ==
  ASSUME Inv, NEW s \in Sessions, Acquire(s) \/ Goroutine(s),
         NEW t \in Sessions \ {s}
  PROVE  UNCHANGED <<status[t], total[t], progress[t], ranges[t], pc[t], next[t],
                     good[t], bad[t], exit[t], delivered[t], late[t], mode>>
<1>1. /\ status \in [Sessions -> Statuses] /\ pc \in [Sessions -> Points]
      /\ progress \in [Sessions -> [replayed : Counts, failed : Counts]]
      /\ ranges \in [Sessions -> SUBSET Batches]
      /\ next \in [Sessions -> Counts] /\ exit \in [Sessions -> Exits]
      /\ good \in [Sessions -> SUBSET Batches]
      /\ bad \in [Sessions -> SUBSET Batches]
      /\ delivered \in [Sessions -> SUBSET Batches]
      /\ late \in [Sessions -> Nat]
  BY DEF Inv, TypeInv, TypeOK, RowsOK, LoopsOK
<1> QED
  BY <1>1
  DEF Acquire, Goroutine, SkipOnShutdown, Start, Check, Poll, SendOk, SendFails,
      SendUnauthorized, Record, Delay, SaveRanges, SaveProgress, Settle,
      Advance, CountLate, Stay, Leave, StepLoop, loopVars

LEMMA OthersKeep ==
  ASSUME Inv, NEW s \in Sessions, Acquire(s) \/ Goroutine(s),
         NEW t \in Sessions \ {s}
  PROVE  /\ SentInv(t) => SentInv(t)'
         /\ ReportedInv(t) => ReportedInv(t)'
         /\ LateInv(t) => LateInv(t)'
<1> USE OthersUntouched
<1>1. SentInv(t) => SentInv(t)'
  BY DEF SentInv
<1>2. ReportedInv(t) => ReportedInv(t)'
  BY DEF ReportedInv, Tally
<1>3. LateInv(t) => LateInv(t)'
  BY DEF LateInv, CtxDone
<1> QED
  BY <1>1, <1>2, <1>3

(* The two outcomes of a send that are counted: the batch joins the        *)
(* accepted or the failed ones.                                            *)
LEMMA SendKeepsSent ==
  ASSUME Inv, NEW s \in Sessions, SentInv(s), SendOk(s) \/ SendFails(s)
  PROVE  SentInv(s)'
<1>1. /\ next \in [Sessions -> Counts]
      /\ good \in [Sessions -> SUBSET Batches]
      /\ bad \in [Sessions -> SUBSET Batches]
      /\ delivered \in [Sessions -> SUBSET Batches]
  BY DEF Inv, TypeInv, TypeOK, LoopsOK
<1>2. /\ next[s] \in Nat /\ total[s] \in Nat /\ next[s] < total[s]
      /\ next'[s] = next[s] + 1 /\ UNCHANGED <<total, progress>>
  BY <1>1, SessionTypes
  DEF SendOk, SendFails, Advance, StepLoop, Inv, TypeInv, LoopInv, InLoop
<1>3. next[s] \notin good[s] \cup bad[s]
  BY <1>2 DEF SentInv
<1>4. 0 .. next'[s] - 1 = (0 .. next[s] - 1) \cup {next[s]}
  BY <1>2
<1>5. /\ good[s] \subseteq good'[s]
      /\ good'[s] \subseteq delivered'[s]
      /\ good'[s] \cap bad'[s] = {}
      /\ good'[s] \cup bad'[s] = (good[s] \cup bad[s]) \cup {next[s]}
  BY <1>1, <1>3 DEF SendOk, SendFails, SentInv
<1>6. progress'[s].replayed <= Cardinality(good'[s])
  <2>1. good'[s] \in SUBSET Batches
    <3>1. next[s] \in Batches
      BY <1>2, ConstantsAssumption
      DEF Inv, TypeInv, TypeOK, RowsOK, Counts, Batches
    <3> QED
      BY <1>1, <3>1 DEF SendOk, SendFails
  <2>2. Cardinality(good[s]) <= Cardinality(good'[s])
    BY <1>5, <2>1, CountGrows
  <2>3. /\ progress[s].replayed \in Nat /\ Cardinality(good[s]) \in Nat
        /\ Cardinality(good'[s]) \in Nat
    BY <2>1, BatchesFinite, SessionTypes DEF Inv
  <2> QED
    BY <1>2, <2>2, <2>3 DEF SentInv
<1> QED
  BY <1>2, <1>4, <1>5, <1>6 DEF SentInv

LEMMA GoroutineKeepsSent ==
  ASSUME Inv, NEW s \in Sessions, SentInv(s), Acquire(s) \/ Goroutine(s)
  PROVE  SentInv(s)'
<1>1. CASE SendOk(s) \/ SendFails(s)
  BY <1>1, SendKeepsSent
<1>2. CASE ~SendOk(s) /\ ~SendFails(s)
  <2>1. /\ UNCHANGED <<next, total, good, bad, delivered>>
        /\ progress' = progress \/ progress' = [progress EXCEPT ![s] = Tally(s)]
    BY <1>2
    DEF Acquire, Goroutine, SkipOnShutdown, Start, Check, Poll, SendUnauthorized,
        Record, Delay, SaveRanges, SaveProgress, Settle, Stay, Leave, StepLoop,
        loopVars
  <2>2. /\ progress \in [Sessions -> [replayed : Counts, failed : Counts]]
        /\ Cardinality(good[s]) \in Nat
    BY SessionTypes DEF Inv, TypeInv, TypeOK, RowsOK
  <2>3. progress'[s].replayed <= Cardinality(good[s])
    BY <2>1, <2>2 DEF SentInv, Tally
  <2> QED
    BY <2>1, <2>3 DEF SentInv
<1> QED
  BY <1>1, <1>2

LEMMA StepSent == Inv /\ SentAll /\ [Next]_vars => SentAll'
<1> SUFFICES ASSUME Inv, SentAll, [Next]_vars, NEW s \in Sessions
             PROVE  SentInv(s)'
  BY DEF SentAll
<1>1. CASE \A t \in Sessions : ~Acquire(t) /\ ~Goroutine(t)
  BY <1>1, OtherSteps, AsideKeeps DEF SentAll
<1>2. ASSUME NEW t \in Sessions, Acquire(t) \/ Goroutine(t)
      PROVE  SentInv(s)'
  BY <1>2, OthersKeep, GoroutineKeepsSent DEF SentAll
<1> QED
  BY <1>1, <1>2

LEMMA InitSent == Init => SentAll
<1> SUFFICES ASSUME Init, NEW s \in Sessions
             PROVE  SentInv(s)
  BY DEF SentAll
<1>1. /\ next[s] = 0 /\ total[s] = 0 /\ good[s] = {} /\ bad[s] = {}
      /\ delivered[s] = {} /\ progress[s].replayed = 0
  BY DEF Init
<1>2. 0 .. next[s] - 1 = {}
  BY <1>1
<1> QED
  BY <1>1, <1>2, FS_EmptySet DEF SentInv

(* Whatever crashes or fails to be written, a row never claims that more   *)
(* batches were replayed than Facebook accepted (UpdateProgress).          *)
THEOREM NeverOverstated == Spec => []NotOverstated
<1>1. Init => Inv
  BY InitTypeInv, InitLifeInv DEF Inv
<1>2. ASSUME Inv, SentAll
      PROVE  NotOverstated
  <2> SUFFICES ASSUME NEW s \in Sessions
               PROVE  progress[s].replayed <= Cardinality(delivered[s])
    BY DEF NotOverstated
  <2>1. Cardinality(good[s]) <= Cardinality(delivered[s])
    BY <1>2, SessionTypes, CountGrows DEF Inv, SentAll, SentInv
  <2>2. /\ progress[s].replayed \in Nat /\ Cardinality(good[s]) \in Nat
        /\ Cardinality(delivered[s]) \in Nat
    BY <1>2, SessionTypes, BatchesFinite DEF Inv
  <2> QED
    BY <1>2, <2>1, <2>2 DEF SentAll, SentInv
<1> QED
  BY <1>1, <1>2, InitSent, StepSent, StepInv, PTL DEF Spec

-----------------------------------------------------------------------------
(* What is reported when writes succeed. *)

LEMMA GoroutineKeepsReported ==
  ASSUME ~DbMayFail, Inv, NEW s \in Sessions, SentInv(s), ReportedInv(s),
         Acquire(s) \/ Goroutine(s)
  PROVE  ReportedInv(s)'
<1> USE DEF Working, Fresh, InLoop
<1>1. /\ status \in [Sessions -> Statuses] /\ pc \in [Sessions -> Points]
      /\ progress \in [Sessions -> [replayed : Counts, failed : Counts]]
      /\ ranges \in [Sessions -> SUBSET Batches]
      /\ exit \in [Sessions -> Exits]
      /\ next[s] \in Nat /\ total[s] \in Nat /\ total' = total
  BY SessionTypes
  DEF Inv, TypeInv, TypeOK, RowsOK, LoopsOK, Acquire, Goroutine, SkipOnShutdown,
      Start, Check, Poll, SendOk, SendFails, SendUnauthorized, Record, Delay,
      SaveRanges, SaveProgress, Settle, Advance, Stay, Leave, StepLoop
<1>2. status[s] # "completed"
  BY DEF Inv, LifeInv, Acquire, Goroutine, SkipOnShutdown, Start, Check, Poll,
     SendOk, SendFails, SendUnauthorized, Record, Delay, SaveRanges,
     SaveProgress, Settle
<1>3. CASE Acquire(s) \/ SkipOnShutdown(s) \/ Start(s)
  <2>1. /\ UNCHANGED <<next, ranges>> /\ status'[s] # "completed"
        /\ exit[s] = "none" /\ ranges[s] = {}
        /\ pc'[s] \in {"start", "done", "check", "saveRanges"}
        /\ \/ exit'[s] = exit[s]
           \/ exit'[s] = "end" /\ pc'[s] = "saveRanges" /\ ~BatchesLeft(s)
    BY <1>1, <1>2, <1>3
    DEF Acquire, SkipOnShutdown, Start, StepLoop, ReportedInv, loopVars
  <2>2. ~BatchesLeft(s) => next[s] = total[s]
    BY <1>1 DEF BatchesLeft, SentInv
  <2> QED
    BY <1>1, <1>2, <2>1, <2>2, <1>3
    DEF ReportedInv, Acquire, SkipOnShutdown, Start, StepLoop
<1>4. CASE Check(s) \/ Poll(s) \/ SendUnauthorized(s) \/ Delay(s)
  BY <1>1, <1>2, <1>4
  DEF Check, Poll, SendUnauthorized, Delay, Stay, Leave, StepLoop, ReportedInv,
      loopVars
<1>5. CASE SendOk(s) \/ SendFails(s)
  BY <1>1, <1>2, <1>5
  DEF SendOk, SendFails, Advance, StepLoop, ReportedInv
<1>6. CASE Record(s)
  <2>1. ~BatchesLeft(s) => next[s] = total[s]
    BY <1>1 DEF BatchesLeft, SentInv
  <2> QED
    BY <1>1, <1>2, <1>6, <2>1 DEF Record, StepLoop, ReportedInv
<1>7. CASE SaveRanges(s)
  <2>1. /\ pc'[s] = "saveProgress" /\ pc[s] = "saveRanges"
        /\ UNCHANGED <<status, next, bad, exit>>
    BY <1>1, <1>7 DEF SaveRanges, StepLoop, loopVars
  <2>2. exit[s] = "end" => ranges'[s] = bad[s]
    <3>1. bad[s] = {} => ranges'[s] = {}
      BY <1>1, <1>7 DEF SaveRanges, ReportedInv
    <3>2. bad[s] # {} /\ exit[s] = "end" => ranges'[s] = bad[s]
      BY <1>1, <1>7 DEF SaveRanges, MustWrite
    <3> QED
      BY <3>1, <3>2
  <2> QED
    BY <1>1, <1>2, <2>1, <2>2 DEF ReportedInv
<1>8. CASE SaveProgress(s)
  <2>1. /\ pc'[s] \in {"settle", "done"} /\ pc[s] = "saveProgress"
        /\ UNCHANGED <<status, ranges, next, bad, good, exit>>
    BY <1>1, <1>8 DEF SaveProgress, StepLoop, loopVars
  <2>2. exit[s] = "end" => progress'[s] = Tally(s)
    BY <1>1, <1>8 DEF SaveProgress, MustWrite
  <2>3. Tally(s)' = Tally(s)
    BY <2>1 DEF Tally
  <2> QED
    BY <1>1, <1>2, <2>1, <2>2, <2>3 DEF ReportedInv
<1>9. CASE Settle(s)
  <2>1. /\ pc'[s] = "done" /\ pc[s] = "settle"
        /\ UNCHANGED <<progress, ranges, next, bad, good, exit>>
    BY <1>1, <1>9 DEF Settle, StepLoop, loopVars
  <2>2. status'[s] = "completed" =>
          exit[s] = "end" /\ (bad[s] = {} \/ good[s] # {})
    BY <1>1, <1>2, <1>9 DEF Settle, Verdict
  <2>3. Tally(s)' = Tally(s)
    BY <2>1 DEF Tally
  <2> QED
    BY <1>1, <2>1, <2>2, <2>3 DEF ReportedInv
<1> QED
  BY <1>3, <1>4, <1>5, <1>6, <1>7, <1>8, <1>9 DEF Goroutine

LEMMA GoroutineKeepsLate ==
  ASSUME ~DbMayFail, Inv, NEW s \in Sessions, LateInv(s),
         Acquire(s) \/ Goroutine(s)
  PROVE  LateInv(s)'
<1> USE DEF Fresh, InLoop
<1>1. /\ status \in [Sessions -> Statuses] /\ pc \in [Sessions -> Points]
      /\ late \in [Sessions -> Nat]
      /\ mode' = mode
  BY DEF Inv, TypeInv, TypeOK, RowsOK, LoopsOK, Acquire, Goroutine, SkipOnShutdown,
     Start, Check, Poll, SendOk, SendFails, SendUnauthorized, Record, Delay,
     SaveRanges, SaveProgress, Settle, Advance, Stay, Leave, StepLoop
<1>2. CASE Acquire(s) \/ SkipOnShutdown(s) \/ Start(s)
  BY <1>1, <1>2
  DEF Acquire, SkipOnShutdown, Start, StepLoop, LateInv, loopVars
<1>3. CASE Check(s) \/ Record(s) \/ Delay(s)
  BY <1>1, <1>3
  DEF Check, Record, Delay, Stay, Leave, StepLoop, LateInv, loopVars
<1>4. CASE Poll(s)
  BY <1>1, <1>4
  DEF Poll, SeesCancel, Stay, Leave, StepLoop, LateInv, loopVars, CtxDone
<1>5. CASE SendOk(s) \/ SendFails(s)
  <2>1. /\ pc[s] = "send" /\ pc'[s] = "record" /\ status' = status
        /\ late' = late \/ (~CtxDone /\ CountLate(s))
    BY <1>1, <1>5 DEF SendOk, SendFails, Advance, StepLoop
  <2> QED
    BY <1>1, <2>1 DEF CountLate, LateInv
<1>6. CASE SendUnauthorized(s) \/ SaveRanges(s) \/ SaveProgress(s) \/ Settle(s)
  BY <1>1, <1>6
  DEF SendUnauthorized, SaveRanges, SaveProgress, Settle, Leave, StepLoop, LateInv,
      loopVars
<1> QED
  BY <1>2, <1>3, <1>4, <1>5, <1>6 DEF Goroutine

LEMMA StepWritten ==
  ASSUME ~DbMayFail, Inv, SentAll, WrittenAll, [Next]_vars
  PROVE  WrittenAll'
<1> SUFFICES ASSUME NEW s \in Sessions
             PROVE  ReportedInv(s)' /\ LateInv(s)'
  BY DEF WrittenAll
<1>1. CASE \A t \in Sessions : ~Acquire(t) /\ ~Goroutine(t)
  BY <1>1, OtherSteps, AsideKeeps DEF WrittenAll
<1>2. ASSUME NEW t \in Sessions, Acquire(t) \/ Goroutine(t)
      PROVE  ReportedInv(s)' /\ LateInv(s)'
  BY <1>2, OthersKeep, GoroutineKeepsReported, GoroutineKeepsLate
  DEF WrittenAll, SentAll
<1> QED
  BY <1>1, <1>2

LEMMA InitWritten == Init => WrittenAll
  BY DEF Init, WrittenAll, ReportedInv, LateInv, Working, Fresh, InLoop

(* If reads succeed, at most one batch of a session goes out while its row *)
(* says cancelled (the poll of executeReplay), also when the poll after it *)
(* is missed because the server is stopping.  It does not say that little  *)
(* is sent after every cancellation: that of a queued session may be       *)
(* written over with running, and then all of it goes out (run refund).    *)
THEOREM OneLateBatch ==
  ASSUME ~DbMayFail
  PROVE  Spec => []LateBound
<1>1. Init => Inv
  BY InitTypeInv, InitLifeInv DEF Inv
<1>2. WrittenAll => LateBound
  BY DEF WrittenAll, LateInv, LateBound
<1> QED
  BY <1>1, <1>2, InitSent, StepSent, InitWritten, StepWritten, StepInv, PTL DEF Spec

(* If writes succeed, a completed session tells the truth about every one  *)
(* of its batches (UpdateFailedBatches, UpdateProgress and the final       *)
(* UpdateStatus of executeReplay).                                         *)
THEOREM CompletedTellsTheTruth ==
  ASSUME ~DbMayFail
  PROVE  Spec => []CompletedIsAccounted
<1>1. Init => Inv
  BY InitTypeInv, InitLifeInv DEF Inv
<1>2. ASSUME Inv, SentAll, WrittenAll
      PROVE  CompletedIsAccounted
  <2> SUFFICES ASSUME NEW s \in Sessions, status[s] = "completed"
               PROVE  /\ progress[s].replayed + progress[s].failed = total[s]
                      /\ Cardinality(ranges[s]) = progress[s].failed
                      /\ (0 .. total[s] - 1) \ ranges[s] \subseteq delivered[s]
                      /\ total[s] > 0 => progress[s].replayed > 0
    BY DEF CompletedIsAccounted
  <2>1. /\ next[s] = total[s] /\ ranges[s] = bad[s] /\ progress[s] = Tally(s)
        /\ bad[s] = {} \/ good[s] # {}
        /\ good[s] \cup bad[s] = 0 .. total[s] - 1
        /\ good[s] \cap bad[s] = {} /\ good[s] \subseteq delivered[s]
    BY <1>2 DEF SentAll, WrittenAll, SentInv, ReportedInv
  <2>2. /\ total[s] \in Nat /\ IsFiniteSet(good[s]) /\ IsFiniteSet(bad[s])
        /\ Cardinality(good[s]) \in Nat /\ Cardinality(bad[s]) \in Nat
    BY <1>2, SessionTypes, BatchesFinite DEF Inv
  <2>3. Cardinality(0 .. total[s] - 1) = total[s]
    BY <2>2, CountBefore
  <2>4. Cardinality(good[s]) + Cardinality(bad[s]) = total[s]
    <3>1. Cardinality(good[s] \cup bad[s])
            = Cardinality(good[s]) + Cardinality(bad[s]) - Cardinality({})
      <4>1. Cardinality(good[s] \cup bad[s])
              = Cardinality(good[s]) + Cardinality(bad[s])
                - Cardinality(good[s] \cap bad[s])
        BY <2>2, FS_Union
      <4> QED
        BY <2>1, <4>1
    <3>2. Cardinality({}) = 0
      BY FS_EmptySet
    <3>3. Cardinality(good[s] \cup bad[s]) = total[s]
      BY <2>1, <2>3
    <3> QED
      BY <2>2, <3>1, <3>2, <3>3
  <2>5. total[s] > 0 => Cardinality(good[s]) > 0
    <3>1. total[s] > 0 => good[s] # {}
      BY <2>1, <2>2
    <3>2. good[s] # {} => Cardinality(good[s]) # 0
      BY <2>2, FS_EmptySet
    <3> QED
      BY <2>2, <3>1, <3>2
  <2> QED
    BY <2>1, <2>4, <2>5 DEF Tally
<1> QED
  BY <1>1, <1>2, InitSent, StepSent, InitWritten, StepWritten, StepInv, PTL DEF Spec

-----------------------------------------------------------------------------
(* ReplayRetry: which events a retry sends.                                *)

(* Induction over the natural numbers, with a set for the predicate. *)
LEMMA SetInduction ==
  ASSUME NEW S \in SUBSET Nat, 0 \in S, \A n \in S : n + 1 \in S
  PROVE  S = Nat
<1> DEFINE T == Nat \ S
           R == OpToRel(<, Nat)
<1>1. IsWellFoundedOn(R, Nat)
  BY NatLessThanWellFounded
<1>2. \A x, y \in Nat : x < y => <<x, y>> \in R
  BY DEF OpToRel
<1> HIDE DEF R
<1>3. ASSUME T # {} PROVE FALSE
  <2>1. PICK x \in T : \A y \in T : ~ (<<y, x>> \in R)
    BY <1>1, <1>3, WFMin
  <2>2. x # 0 /\ x - 1 \in Nat /\ x - 1 \notin S /\ x - 1 < x
    BY <2>1
  <2> QED
    BY <1>2, <2>1, <2>2
<1> QED
  BY <1>3

(* The function that FlattenSeq is defined by. *)
IsJoin(f, seqs, n) == f = [i \in 1 .. n |-> IF i = 1 THEN seqs[i] ELSE f[i - 1] \o seqs[i]]

LEMMA JoinExists ==
  ASSUME NEW seqs, NEW n \in Nat
  PROVE  \E f : IsJoin(f, seqs, n)
<1> DEFINE S == {m \in Nat : \E f : IsJoin(f, seqs, m)}
<1>1. 0 \in S
  <2>1. IsJoin([i \in 1 .. 0 |-> 0], seqs, 0)
    BY DEF IsJoin
  <2> QED
    BY <2>1
<1>2. ASSUME NEW m \in S PROVE m + 1 \in S
  <2>1. PICK f : IsJoin(f, seqs, m)
    OBVIOUS
  <2> DEFINE last == IF m + 1 = 1 THEN seqs[m + 1] ELSE f[m] \o seqs[m + 1]
             g == [i \in 1 .. m + 1 |-> IF i = m + 1 THEN last ELSE f[i]]
  <2>2. \A i \in 1 .. m + 1 : g[i] = IF i = 1 THEN seqs[i] ELSE g[i - 1] \o seqs[i]
    <3> TAKE i \in 1 .. m + 1
    <3> HIDE DEF last
    <3>0. m \in Nat
      OBVIOUS
    <3>1. CASE i = m + 1
      <4>1. g[i] = last /\ (i # 1 => g[i - 1] = f[m])
        BY <3>0, <3>1
      <4> QED
        BY <3>1, <4>1 DEF last
    <3>2. CASE i # m + 1
      <4>1. i \in 1 .. m /\ (i # 1 => i - 1 \in 1 .. m)
        BY <3>0, <3>2
      <4>2. g[i] = f[i] /\ (i # 1 => g[i - 1] = f[i - 1])
        BY <3>0, <4>1
      <4>3. f[i] = IF i = 1 THEN seqs[i] ELSE f[i - 1] \o seqs[i]
        BY <2>1, <4>1 DEF IsJoin
      <4> QED
        BY <4>2, <4>3
    <3> QED
      BY <3>1, <3>2
  <2> HIDE DEF last
  <2>3. IsJoin(g, seqs, m + 1)
    BY <2>2 DEF IsJoin
  <2> QED
    BY <2>3
<1> HIDE DEF S
<1>3. S = Nat
  BY <1>1, <1>2, SetInduction DEF S
<1> QED
  BY <1>3 DEF S

LEMMA FlattenIsJoin ==
  ASSUME NEW seqs, Len(seqs) \in Nat, Len(seqs) # 0
  PROVE  \E f : IsJoin(f, seqs, Len(seqs)) /\ FlattenSeq(seqs) = f[Len(seqs)]
<1> DEFINE f == CHOOSE h : IsJoin(h, seqs, Len(seqs))
<1>1. IsJoin(f, seqs, Len(seqs))
  BY JoinExists
<1>2. FlattenSeq(seqs) = f[Len(seqs)]
  BY DEF FlattenSeq, IsJoin
<1> QED
  BY <1>1, <1>2

-----------------------------------------------------------------------------
(* Sequence c is what all has at the positions P, in their order. *)
Picks(c, all, P) ==
  /\ Len(c) \in Nat /\ c \in Seq(Events)
  /\ \E at \in [1 .. Len(c) -> P] :
       /\ \A i, j \in 1 .. Len(c) : i < j => at[i] < at[j]
       /\ \A k \in P : \E i \in 1 .. Len(c) : at[i] = k
       /\ \A i \in 1 .. Len(c) : c[i] = all[at[i]]

LEMMA PicksJoin ==
  ASSUME NEW all, NEW P \in SUBSET Nat, NEW Q \in SUBSET Nat, NEW c, NEW d,
         Picks(c, all, P), Picks(d, all, Q), \A p \in P, q \in Q : p < q
  PROVE  Picks(c \o d, all, P \cup Q)
<1> DEFINE m == Len(c)
           n == Len(d)
<1>1. m \in Nat /\ n \in Nat /\ c \in Seq(Events) /\ d \in Seq(Events)
  BY DEF Picks
<1>2. /\ c \o d \in Seq(Events) /\ Len(c \o d) = m + n
      /\ \A i \in 1 .. m + n : (c \o d)[i] = IF i <= m THEN c[i] ELSE d[i - m]
  BY <1>1
<1>3. PICK at \in [1 .. m -> P] :
       /\ \A i, j \in 1 .. m : i < j => at[i] < at[j]
       /\ \A k \in P : \E i \in 1 .. m : at[i] = k
       /\ \A i \in 1 .. m : c[i] = all[at[i]]
  BY DEF Picks
<1>4. PICK bt \in [1 .. n -> Q] :
       /\ \A i, j \in 1 .. n : i < j => bt[i] < bt[j]
       /\ \A k \in Q : \E i \in 1 .. n : bt[i] = k
       /\ \A i \in 1 .. n : d[i] = all[bt[i]]
  BY DEF Picks
<1> DEFINE ct == [i \in 1 .. m + n |-> IF i <= m THEN at[i] ELSE bt[i - m]]
<1> HIDE DEF m, n
<1>5. /\ \A i \in 1 .. m : i \in 1 .. m + n /\ ct[i] = at[i]
      /\ \A i \in 1 .. m + n : i \notin 1 .. m => i - m \in 1 .. n /\ ct[i] = bt[i - m]
      /\ \A i \in 1 .. n : i + m \in 1 .. m + n /\ ct[i + m] = bt[i]
  BY <1>1
<1>6. ct \in [1 .. m + n -> P \cup Q]
  BY <1>1, <1>3, <1>4
<1> HIDE DEF ct
<1>7. \A i, j \in 1 .. m + n : i < j => ct[i] < ct[j]
  <2> TAKE i, j \in 1 .. m + n
  <2> SUFFICES ASSUME i < j PROVE ct[i] < ct[j]
    OBVIOUS
  <2>1. CASE i \in 1 .. m /\ j \in 1 .. m
    BY <1>3, <1>5, <2>1
  <2>2. CASE i \in 1 .. m /\ j \notin 1 .. m
    <3>1. j - m \in 1 .. n /\ ct[i] = at[i] /\ ct[j] = bt[j - m]
      BY <1>5, <2>2
    <3>2. at[i] \in P /\ bt[j - m] \in Q
      BY <1>3, <1>4, <2>2, <3>1
    <3> QED
      BY <3>1, <3>2
  <2>3. CASE i \notin 1 .. m /\ j \notin 1 .. m
    <3>1. i - m \in 1 .. n /\ j - m \in 1 .. n /\ ct[i] = bt[i - m] /\ ct[j] = bt[j - m]
      BY <1>5, <2>3
    <3>2. i - m < j - m
      BY <1>1
    <3> QED
      BY <1>4, <3>1, <3>2
  <2>4. i \in 1 .. m \/ j \notin 1 .. m
    BY <1>1
  <2> QED
    BY <2>1, <2>2, <2>3, <2>4
<1>8. \A k \in P \cup Q : \E i \in 1 .. m + n : ct[i] = k
  <2> TAKE k \in P \cup Q
  <2>1. CASE k \in P
    BY <1>3, <1>5, <2>1
  <2>2. CASE k \in Q
    <3>1. PICK i \in 1 .. n : bt[i] = k
      BY <1>4, <2>2
    <3>2. i + m \in 1 .. m + n /\ ct[i + m] = k
      BY <1>5, <3>1
    <3> QED
      BY <3>2
  <2> QED
    BY <2>1, <2>2
<1>9. \A i \in 1 .. m + n : (c \o d)[i] = all[ct[i]]
  <2> TAKE i \in 1 .. m + n
  <2>1. CASE i \in 1 .. m
    BY <1>1, <1>2, <1>3, <1>5, <2>1
  <2>2. CASE i \notin 1 .. m
    <3>1. i - m \in 1 .. n /\ ct[i] = bt[i - m] /\ ~(i <= m)
      BY <1>1, <1>5, <2>2
    <3> QED
      BY <1>2, <1>4, <3>1
  <2> QED
    BY <2>1, <2>2
<1> DEFINE e == c \o d
<1>10. /\ e \in Seq(Events) /\ Len(e) = m + n /\ m + n \in Nat
       /\ \A i \in 1 .. m + n : e[i] = all[ct[i]]
  BY <1>1, <1>2, <1>9
<1> HIDE DEF e
<1>11. /\ ct \in [1 .. Len(e) -> P \cup Q]
       /\ \A i, j \in 1 .. Len(e) : i < j => ct[i] < ct[j]
       /\ \A k \in P \cup Q : \E i \in 1 .. Len(e) : ct[i] = k
       /\ \A i \in 1 .. Len(e) : e[i] = all[ct[i]]
  BY <1>6, <1>7, <1>8, <1>10, Zenon
<1>12. Picks(e, all, P \cup Q)
  <2>1. e \in Seq(Events) /\ Len(e) \in Nat
    BY <1>10
  <2> QED
    BY <1>11, <2>1, Zenon DEF Picks
<1> QED
  BY <1>12 DEF e

(* What a saved range cuts out of a list. *)
Within(r, all) == (r.start + 1 .. r.end) \cap (1 .. Len(all))

LEMMA SlicePicks ==
  ASSUME NEW all \in Seq(Events), NEW r \in Ranges
  PROVE  Picks(Slice(all, r), all, Within(r, all))
<1> DEFINE n == Len(all)
           last == IF r.end < n THEN r.end ELSE n
           c == SubSeq(all, r.start + 1, last)
<1>1. n \in Nat /\ r.start \in Nat /\ r.end \in Nat /\ last \in Nat /\ last <= n
  BY DEF Ranges
<1>2. Slice(all, r) = c
  BY DEF Slice, AtMost
<1>3. \A k : k \in Within(r, all) <=> k \in r.start + 1 .. last
  BY <1>1 DEF Within
<1>4. CASE r.start + 1 <= last
  <2> DEFINE at == [i \in 1 .. last - r.start |-> r.start + i]
  <2>1. /\ c \in Seq(Events) /\ Len(c) = last - r.start
        /\ \A i \in 1 .. last - r.start : c[i] = all[r.start + i]
    <3>1. r.start + 1 \in 1 .. n /\ last \in r.start + 1 .. n
      BY <1>1, <1>4
    <3> HIDE DEF last
    <3>2. /\ c \in Seq(Events) /\ Len(c) = last - (r.start + 1) + 1
          /\ \A i \in 1 .. last - (r.start + 1) + 1 : c[i] = all[r.start + 1 + i - 1]
      BY <1>1, <3>1, SubSeqProperties
    <3>3. last - (r.start + 1) + 1 = last - r.start
      BY <1>1
    <3>4. ASSUME NEW i \in 1 .. last - r.start PROVE r.start + 1 + i - 1 = r.start + i
      BY <1>1
    <3> HIDE DEF c
    <3> QED
      BY <3>2, <3>3, <3>4
  <2> HIDE DEF c, last
  <2>2. at \in [1 .. last - r.start -> Within(r, all)]
    BY <1>1, <1>3, <1>4
  <2>3. \A k \in Within(r, all) : \E i \in 1 .. last - r.start : at[i] = k
    <3> TAKE k \in Within(r, all)
    <3>1. k - r.start \in 1 .. last - r.start /\ at[k - r.start] = k
      BY <1>1, <1>3, <1>4
    <3> QED
      BY <3>1
  <2>4. /\ \A i, j \in 1 .. last - r.start : i < j => at[i] < at[j]
        /\ \A i \in 1 .. last - r.start : c[i] = all[at[i]]
        /\ last - r.start \in Nat
    BY <1>1, <1>4, <2>1
  <2> HIDE DEF at
  <2>5. Picks(c, all, Within(r, all))
    BY <2>1, <2>2, <2>3, <2>4 DEF Picks
  <2> QED
    BY <1>2, <2>5
<1>5. CASE ~(r.start + 1 <= last)
  <2>1. c = <<>> /\ Within(r, all) = {}
    BY <1>1, <1>3, <1>5, SubSeqEmpty
  <2>2. Picks(<<>>, all, {})
    <3> DEFINE at == [i \in 1 .. 0 |-> i]
    <3>1. 1 .. 0 = {} /\ Len(<<>>) = 0 /\ <<>> \in Seq(Events)
      OBVIOUS
    <3>2. at \in [1 .. Len(<<>>) -> {}] /\ \A i \in 1 .. Len(<<>>) : FALSE
      BY <3>1
    <3> HIDE DEF at
    <3> QED
      BY <3>1, <3>2 DEF Picks
  <2> QED
    BY <1>2, <2>1, <2>2
<1> QED
  BY <1>4, <1>5

(* Ranges in the order of the batches they stand for. *)
InOrder(rs) ==
  /\ \A i \in DOMAIN rs : rs[i].start < rs[i].end
  /\ \A i, j \in DOMAIN rs : i < j => rs[i].end <= rs[j].start

Covered(rs, n, all) == UNION {Within(rs[i], all) : i \in 1 .. n}

LEMMA CutPicks ==
  ASSUME NEW all \in Seq(Events), NEW rs \in Seq(Ranges), InOrder(rs), rs # <<>>
  PROVE  Picks(FlattenSeq([i \in DOMAIN rs |-> Slice(all, rs[i])]), all, Covered(rs, Len(rs), all))
<1> DEFINE n == Len(rs)
           slices == [i \in DOMAIN rs |-> Slice(all, rs[i])]
<1>1. n \in Nat /\ n # 0 /\ DOMAIN rs = 1 .. n /\ \A i \in 1 .. n : rs[i] \in Ranges
  OBVIOUS
<1>2. slices \in Seq(Seq(Events)) /\ Len(slices) = n
  <2>1. \A i \in 1 .. n : Slice(all, rs[i]) \in Seq(Events)
    BY <1>1, SlicePicks DEF Picks
  <2> QED
    BY <1>1, <2>1
<1>3. PICK f : IsJoin(f, slices, n) /\ FlattenSeq(slices) = f[n]
  BY <1>1, <1>2, FlattenIsJoin
<1>4. \A i \in 1 .. n : f[i] = IF i = 1 THEN Slice(all, rs[i]) ELSE f[i - 1] \o Slice(all, rs[i])
  BY <1>1, <1>3 DEF IsJoin
<1> HIDE DEF n, slices
<1> DEFINE S == {m \in Nat : m = 0 \/ m > n \/ Picks(f[m], all, Covered(rs, m, all))}
<1>5. 0 \in S
  OBVIOUS
<1>6. ASSUME NEW m \in S PROVE m + 1 \in S
  <2> DEFINE k == m + 1
             old == Covered(rs, m, all)
             new == Within(rs[k], all)
  <2>1. m \in Nat
    OBVIOUS
  <2>2. CASE k > n
    BY <2>2
  <2>3. CASE ~(k > n)
    <3>1. k \in 1 .. n /\ \A i \in 1 .. m : i \in 1 .. n /\ i < k
      BY <1>1, <2>1, <2>3
    <3>2. Covered(rs, k, all) = old \cup new
      BY <2>1 DEF Covered
    <3>3. Picks(Slice(all, rs[k]), all, new)
      BY <1>1, <3>1, SlicePicks
    <3>4. CASE m = 0
      <4>1. Covered(rs, k, all) = new
        BY <3>2, <3>4 DEF Covered
      <4>2. f[k] = Slice(all, rs[k])
        BY <1>4, <3>1, <3>4
      <4> QED
        BY <3>3, <4>1, <4>2
    <3>5. CASE m # 0
      <4>0. k # 1 /\ k - 1 = m
        BY <2>1, <3>5
      <4>1. f[k] = f[m] \o Slice(all, rs[k])
        BY <1>4, <3>1, <4>0
      <4>2. Picks(f[m], all, old)
        BY <2>1, <2>3, <3>1, <3>5, <1>1
      <4>3. old \in SUBSET Nat /\ new \in SUBSET Nat
        BY DEF Covered, Within
      <4>4. \A p \in old, q \in new : p < q
        <5> TAKE p \in old, q \in new
        <5>1. PICK i \in 1 .. m : p \in Within(rs[i], all)
          BY DEF Covered
        <5>2. rs[i].end <= rs[k].start /\ rs[i] \in Ranges /\ rs[k] \in Ranges
          BY <1>1, <3>1 DEF InOrder
        <5>3. p <= rs[i].end /\ rs[k].start + 1 <= q /\ p \in Nat /\ q \in Nat
          BY <5>1 DEF Within
        <5>4. rs[i].end \in Nat /\ rs[k].start \in Nat
          BY <5>2 DEF Ranges
        <5> HIDE DEF k
        <5> QED
          BY <5>2, <5>3, <5>4
      <4> HIDE DEF old, new, k
      <4>5. Picks(f[m] \o Slice(all, rs[k]), all, old \cup new)
        BY <3>3, <4>2, <4>3, <4>4, PicksJoin
      <4>6. Picks(f[k], all, Covered(rs, k, all))
        BY <3>2, <4>1, <4>5
      <4> QED
        BY <2>1, <4>6 DEF k
    <3> QED
      BY <3>4, <3>5
  <2> QED
    BY <2>2, <2>3
<1>7. S = Nat
  <2> HIDE DEF S
  <2> QED
    BY <1>5, <1>6, SetInduction DEF S
<1>8. Picks(f[n], all, Covered(rs, n, all))
  BY <1>1, <1>7
<1> QED
  BY <1>3, <1>8 DEF n, slices

NoRepeats(s) == \A i, j \in DOMAIN s : s[i] = s[j] => i = j

LEMMA PicksHolds ==
  ASSUME NEW all \in Seq(Events), NEW P \in SUBSET (1 .. Len(all)), NEW c, Picks(c, all, P),
         NoRepeats(all)
  PROVE  NoRepeats(c) /\ ToSet(c) = {all[k] : k \in P}
<1>1. DOMAIN all = 1 .. Len(all) /\ Len(all) \in Nat
  OBVIOUS
<1>2. DOMAIN c = 1 .. Len(c) /\ Len(c) \in Nat
  BY DEF Picks
<1>3. PICK at \in [1 .. Len(c) -> P] :
       /\ \A i, j \in 1 .. Len(c) : i < j => at[i] < at[j]
       /\ \A k \in P : \E i \in 1 .. Len(c) : at[i] = k
       /\ \A i \in 1 .. Len(c) : c[i] = all[at[i]]
  BY DEF Picks
<1>4. ASSUME NEW i \in 1 .. Len(c), NEW j \in 1 .. Len(c), c[i] = c[j] PROVE i = j
  <2>1. at[i] \in P /\ at[j] \in P /\ all[at[i]] = all[at[j]]
    BY <1>3, <1>4
  <2>2. at[i] = at[j] /\ at[i] \in Int
    <3>1. at[i] \in 1 .. Len(all) /\ at[j] \in 1 .. Len(all)
      BY <2>1
    <3> QED
      BY <1>1, <2>1, <3>1 DEF NoRepeats
  <2>3. ~(i < j) /\ ~(j < i)
    BY <1>3, <2>2
  <2> QED
    BY <2>3
<1>5. ToSet(c) = {all[k] : k \in P}
  <2>1. ASSUME NEW x \in ToSet(c) PROVE x \in {all[k] : k \in P}
    <3>1. PICK i \in 1 .. Len(c) : x = c[i]
      BY <1>2, <2>1 DEF ToSet
    <3>2. at[i] \in P /\ c[i] = all[at[i]]
      BY <1>3
    <3> QED
      BY <3>1, <3>2
  <2>2. ASSUME NEW k \in P PROVE all[k] \in ToSet(c)
    BY <1>2, <1>3 DEF ToSet
  <2> QED
    BY <2>1, <2>2
<1> QED
  BY <1>2, <1>4, <1>5 DEF NoRepeats

(* What a retry sends is without repetitions, and exactly the events at    *)
(* the positions saved if all of them are in the list.                     *)
LEMMA SelectedHolds ==
  ASSUME NEW all \in Seq(Events), NoRepeats(all), NEW rs \in Seq(Ranges), InOrder(rs)
  PROVE  /\ Selected(all, rs) \in Seq(Events) /\ NoRepeats(Selected(all, rs))
         /\ rs # <<>> /\ (\A i \in DOMAIN rs : rs[i].end <= Len(all))
              => ToSet(Selected(all, rs)) = {all[k] : k \in Positions(rs)}
<1> DEFINE cut == FlattenSeq([i \in DOMAIN rs |-> Slice(all, rs[i])])
<1>1. Selected(all, rs) = IF cut = <<>> THEN all ELSE cut
  BY DEF Selected
<1>2. CASE rs = <<>>
  <2>1. cut = <<>>
    BY <1>2 DEF FlattenSeq
  <2> QED
    BY <1>1, <1>2, <2>1
<1>3. CASE rs # <<>>
  <2> DEFINE P == Covered(rs, Len(rs), all)
  <2>1. Picks(cut, all, P)
    BY <1>3, CutPicks
  <2>2. P \in SUBSET (1 .. Len(all)) /\ DOMAIN rs = 1 .. Len(rs)
    BY DEF Covered, Within
  <2> HIDE DEF cut
  <2>3. cut \in Seq(Events) /\ NoRepeats(cut) /\ ToSet(cut) = {all[k] : k \in P}
    <3>1. cut \in Seq(Events)
      BY <2>1 DEF Picks
    <3> HIDE DEF P
    <3> QED
      BY <2>1, <2>2, <3>1, PicksHolds
  <2>4. ASSUME \A i \in DOMAIN rs : rs[i].end <= Len(all)
        PROVE  ToSet(Selected(all, rs)) = {all[k] : k \in Positions(rs)}
    <3>1. \A i \in DOMAIN rs : Within(rs[i], all) = rs[i].start + 1 .. rs[i].end
      <4> TAKE i \in DOMAIN rs
      <4>1. rs[i].start \in Nat /\ rs[i].end \in Nat /\ rs[i].end <= Len(all)
        <5>1. rs[i] \in Ranges
          BY <2>2
        <5> QED
          BY <2>4, <5>1 DEF Ranges
      <4> QED
        BY <4>1 DEF Within
    <3>2. P = Positions(rs)
      BY <2>2, <3>1 DEF Covered, Positions
    <3>3. 1 \in DOMAIN rs /\ rs[1].start + 1 \in rs[1].start + 1 .. rs[1].end
      <4>1. 1 \in DOMAIN rs /\ rs[1] \in Ranges
        BY <1>3, <2>2
      <4>2. rs[1].start \in Nat /\ rs[1].end \in Nat /\ rs[1].start < rs[1].end
        BY <4>1 DEF Ranges, InOrder
      <4> QED
        BY <4>1, <4>2
    <3>4. rs[1].start + 1 \in P
      BY <3>2, <3>3 DEF Positions
    <3> HIDE DEF P
    <3>5. cut # <<>>
      <4>1. all[rs[1].start + 1] \in ToSet(cut)
        BY <2>3, <3>4
      <4>2. ToSet(<<>>) = {}
        BY DEF ToSet
      <4> QED
        BY <4>1, <4>2
    <3> QED
      BY <1>1, <2>3, <3>2, <3>5
  <2> QED
    BY <1>1, <2>3, <2>4
<1> QED
  BY <1>2, <1>3

-----------------------------------------------------------------------------
(* What the database lists. *)

Ordered(q, S) ==
  /\ q \in [1 .. Cardinality(S) -> S]
  /\ \A i, j \in 1 .. Cardinality(S) : i # j => q[i] # q[j]
  /\ \A i, j \in 1 .. Cardinality(S) : i < j => Time[q[i]] <= Time[q[j]]

LEMMA ListingHolds ==
  ASSUME NEW S \in SUBSET Events, IsFiniteSet(S), MaxReplayEvents \in Nat,
         NEW all \in Listings(S)
  PROVE  all \in Seq(Events) /\ NoRepeats(all)
<1> DEFINE n == Cardinality(S)
<1>1. n \in Nat
  BY FS_CardinalityType
<1>2. PICK q : Ordered(q, S) /\ all = SubSeq(q, 1, AtMost(Len(q), MaxReplayEvents))
  BY DEF Listings, SetToSeqs, Ordered
<1>3. q \in Seq(Events) /\ Len(q) = n
  BY <1>1, <1>2 DEF Ordered
<1> DEFINE m == AtMost(n, MaxReplayEvents)
<1>4. m \in Nat /\ m <= n
  BY <1>1 DEF AtMost
<1> HIDE DEF m, n
<1>5. all = SubSeq(q, 1, m)
  BY <1>2, <1>3 DEF m
<1>6. /\ all \in Seq(Events) /\ DOMAIN all = 1 .. m
      /\ \A i \in 1 .. m : i \in 1 .. n /\ all[i] = q[i]
  BY <1>1, <1>3, <1>4, <1>5
<1>7. \A i, j \in 1 .. n : i # j => q[i] # q[j]
  BY <1>2 DEF Ordered, n
<1> QED
  BY <1>6, <1>7 DEF NoRepeats

(* Events of different times are listed in one way only. *)
LEMMA ListingIsUnique ==
  ASSUME NEW S \in SUBSET Events, IsFiniteSet(S), Time \in [Events -> Nat],
         \A e, f \in S : e # f => Time[e] # Time[f],
         NEW all \in Listings(S), NEW other \in Listings(S)
  PROVE  all = other
<1> DEFINE n == Cardinality(S)
<1>1. n \in Nat /\ IsFiniteSet(1 .. n) /\ Cardinality(1 .. n) = n
  BY FS_CardinalityType, FS_Interval
<1>2. PICK p : Ordered(p, S) /\ all = SubSeq(p, 1, AtMost(Len(p), MaxReplayEvents))
  BY DEF Listings, SetToSeqs, Ordered
<1>3. PICK q : Ordered(q, S) /\ other = SubSeq(q, 1, AtMost(Len(q), MaxReplayEvents))
  BY DEF Listings, SetToSeqs, Ordered
<1> HIDE DEF n
<1>4. ASSUME NEW s, Ordered(s, S), NEW x \in S PROVE \E i \in 1 .. n : s[i] = x
  <2>1. s \in Injection(1 .. n, S)
    BY <1>4 DEF Ordered, Injection, IsInjective, n
  <2>2. s \in Surjection(1 .. n, S)
    BY <1>1, <2>1, FS_Injection DEF n
  <2> QED
    BY <2>2 DEF Surjection
<1>5. /\ p \in [1 .. n -> S] /\ \A i, j \in 1 .. n : i # j => p[i] # p[j]
      /\ \A i, j \in 1 .. n : i < j => Time[p[i]] <= Time[p[j]]
  BY <1>2 DEF Ordered, n
<1>6. /\ q \in [1 .. n -> S] /\ \A i, j \in 1 .. n : i # j => q[i] # q[j]
      /\ \A i, j \in 1 .. n : i < j => Time[q[i]] <= Time[q[j]]
  BY <1>3 DEF Ordered, n
<1> DEFINE Same == {m \in Nat : \A i \in 1 .. m : i <= n => p[i] = q[i]}
<1>7. 0 \in Same
  OBVIOUS
<1>8. ASSUME NEW m \in Same PROVE m + 1 \in Same
  <2>1. m \in Nat /\ \A i \in 1 .. m : i <= n => p[i] = q[i]
    OBVIOUS
  <2>2. ASSUME m + 1 <= n PROVE p[m + 1] = q[m + 1]
    <3> DEFINE k == m + 1
    <3>1. k \in 1 .. n /\ p[k] \in S /\ q[k] \in S
      BY <1>1, <1>5, <1>6, <2>1, <2>2
    <3>2. PICK j \in 1 .. n : q[j] = p[k]
      BY <1>3, <1>4, <3>1
    <3>3. PICK i \in 1 .. n : p[i] = q[k]
      BY <1>2, <1>4, <3>1
    <3>4. k <= j
      <4> SUFFICES ASSUME ~(k <= j) PROVE FALSE
        OBVIOUS
      <4>1. j \in 1 .. m /\ j <= n /\ j # k
        BY <1>1, <2>1
      <4>2. p[j] = q[j]
        BY <2>1, <4>1
      <4> HIDE DEF k
      <4> QED
        BY <1>5, <3>1, <3>2, <4>1, <4>2
    <3>5. k <= i
      <4> SUFFICES ASSUME ~(k <= i) PROVE FALSE
        OBVIOUS
      <4>1. i \in 1 .. m /\ i <= n /\ i # k
        BY <1>1, <2>1
      <4>2. p[i] = q[i]
        BY <2>1, <4>1
      <4> HIDE DEF k
      <4> QED
        BY <1>6, <3>1, <3>3, <4>1, <4>2
    <3> HIDE DEF k
    <3>6. Time[p[k]] \in Nat /\ Time[q[k]] \in Nat
      BY <3>1
    <3>7. Time[q[k]] <= Time[p[k]]
      <4>1. CASE k = j
        BY <3>2, <3>6, <4>1
      <4>2. CASE k < j
        BY <1>6, <3>1, <3>2, <4>2
      <4> QED
        BY <3>1, <3>4, <4>1, <4>2
    <3>8. Time[p[k]] <= Time[q[k]]
      <4>1. CASE k = i
        BY <3>3, <3>6, <4>1
      <4>2. CASE k < i
        BY <1>5, <3>1, <3>3, <4>2
      <4> QED
        BY <3>1, <3>5, <4>1, <4>2
    <3>9. Time[p[k]] = Time[q[k]]
      BY <3>6, <3>7, <3>8
    <3>10. p[k] = q[k]
      BY <3>1, <3>9
    <3> QED
      BY <3>10 DEF k
  <2>3. \A i \in 1 .. m + 1 : i = m + 1 \/ i \in 1 .. m
    BY <2>1
  <2> QED
    BY <2>1, <2>2, <2>3
<1>9. Same = Nat
  <2> HIDE DEF Same
  <2> QED
    BY <1>7, <1>8, SetInduction DEF Same
<1>10. \A i \in 1 .. n : p[i] = q[i]
  <2>1. n \in Same
    BY <1>1, <1>9
  <2>2. \A i \in 1 .. n : i <= n => p[i] = q[i]
    BY <2>1
  <2> QED
    BY <1>1, <2>2
<1>11. p = q
  <2>1. p = [i \in 1 .. n |-> p[i]] /\ q = [i \in 1 .. n |-> q[i]]
    BY <1>5, <1>6
  <2> HIDE DEF Same
  <2> QED
    BY <1>10, <2>1
<1> QED
  BY <1>2, <1>3, <1>11

-----------------------------------------------------------------------------
(* The invariants of ReplayRetry. *)

Settled == state \in {"completed", "failed", "cancelled"}

(* The ranges in memory are those of the batches that failed so far; what  *)
(* a settled session has saved are they or nothing.                        *)
RangesInv ==
  /\ NoRepeats(work)
  /\ InOrder(local) /\ \A i \in DOMAIN local : local[i].end <= pos
  /\ {work[k] : k \in Positions(local)} = failed
  /\ InOrder(saved) /\ (Settled => saved \in {<<>>, local})

(* The events there were before the first session's row.                   *)
Old == {e \in pixelEvents : born[e] = 0}
Told == \A e, f \in Old : e # f => Time[e] # Time[f]

FirstInv ==
  /\ state = "new" => count = 0
  /\ state = "loaded" => count < MaxSessions
  /\ count = 0 => state \in {"new", "loaded"} /\ \A e \in Events : born[e] \in {0, NotYet}
  /\ same =>
       /\ \A e \in Events : born[e] # NotYet <=> e \in pixelEvents
       /\ (count = 0 /\ state = "loaded") \/ (count = 1 /\ state # "loaded")
            => work \in Listings(Old)
       /\ (count = 1 /\ state = "loaded") \/ (count = 2 /\ state # "loaded")
            => (parent.saved # <<>> /\ Told => ToSet(work) = parent.failed)

RetryInv == RetryTypeOK /\ RangesInv /\ FirstInv

LEMMA RetryInvSuffices == RetryInv => RangesAreFailures /\ NoDuplicates /\ FirstRetryExact
<1> SUFFICES ASSUME RetryInv PROVE RangesAreFailures /\ NoDuplicates /\ FirstRetryExact
  OBVIOUS
<1>1. RangesAreFailures
  BY DEF RetryInv, RangesInv, InOrder, RangesAreFailures
<1>2. NoDuplicates
  BY DEF RetryInv, RangesInv, NoRepeats, NoDuplicates
<1>3. FirstRetryExact
  BY DEF RetryInv, FirstInv, Told, Old, FirstRetryExact
<1> QED
  BY <1>1, <1>2, <1>3

LEMMA EmptyRanges ==
  InOrder(<<>>) /\ Positions(<<>>) = {} /\ <<>> \in Seq(Ranges) /\ DOMAIN <<>> = {}
  BY DEF InOrder, Positions

LEMMA OldStays ==
  ASSUME UNCHANGED <<pixelEvents, born>>
  PROVE  Old' = Old /\ Told' = Told /\ Listings(Old)' = Listings(Old)
  BY DEF Old, Told, Listings

LEMMA RetryInitially == RetryAssumption /\ RetryInit => RetryInv
<1> SUFFICES ASSUME RetryAssumption, RetryInit PROVE RetryInv
  OBVIOUS
<1>1. RetryTypeOK
  BY DEF RetryAssumption, RetryInit, RetryTypeOK, NotYet
<1>2. RangesInv
  BY EmptyRanges DEF RetryInit, RangesInv, NoRepeats, Settled
<1>3. FirstInv
  BY DEF RetryAssumption, RetryInit, FirstInv, NotYet
<1> QED
  BY <1>1, <1>2, <1>3 DEF RetryInv

(* A load of a list without repetitions. *)
LEMMA LoadKeeps ==
  ASSUME RetryAssumption, RetryInv, NEW events \in Seq(Events), NoRepeats(events),
         NEW from \in [saved : Seq(Ranges), failed : SUBSET Events],
         Load(events, from), FirstInv'
  PROVE  RetryInv'
<1>1. /\ work' = events /\ pos' = 0 /\ local' = <<>> /\ failed' = {} /\ parent' = from
      /\ state' = "loaded" /\ UNCHANGED <<pixelEvents, born, count, saved, same>>
  BY DEF Load
<1>2. RetryTypeOK'
  BY <1>1, EmptyRanges DEF RetryInv, RetryTypeOK, NotYet
<1>3. RangesInv'
  BY <1>1, EmptyRanges DEF RetryInv, RangesInv, Settled
<1> QED
  BY <1>2, <1>3 DEF RetryInv

LEMMA StoredIsFinite ==
  ASSUME RetryAssumption, RetryInv, NEW S, S \subseteq pixelEvents
  PROVE  S \in SUBSET Events /\ IsFiniteSet(S)
  BY FS_Subset DEF RetryAssumption, RetryInv, RetryTypeOK

LEMMA CreateKeeps ==
  ASSUME RetryAssumption, RetryInv, Create
  PROVE  RetryInv'
<1> DEFINE from == [saved |-> <<>>, failed |-> {}]
<1>1. PICK all \in Listings(pixelEvents) : Load(all, from)
  BY DEF Create
<1>2. all \in Seq(Events) /\ NoRepeats(all)
  BY StoredIsFinite, ListingHolds DEF RetryAssumption
<1>3. from \in [saved : Seq(Ranges), failed : SUBSET Events]
  BY EmptyRanges
<1>4. FirstInv'
  <2>1. state = "new" /\ count = 0
    BY DEF Create, RetryInv, FirstInv
  <2>2. /\ work' = all /\ state' = "loaded" /\ UNCHANGED <<pixelEvents, born, count, saved, same>>
    BY <1>1 DEF Load
  <2>3. same => Old = pixelEvents
    BY <2>1 DEF Old, RetryInv, FirstInv, RetryTypeOK
  <2>4. Old' = Old /\ Listings(Old)' = Listings(Old)
    BY <2>2, OldStays
  <2> QED
    BY <2>1, <2>2, <2>3, <2>4 DEF RetryInv, FirstInv, NotYet
<1> QED
  BY <1>1, <1>2, <1>3, <1>4, LoadKeeps

LEMMA ReloadKeeps ==
  ASSUME RetryAssumption, RetryInv, RetrySession
  PROVE  RetryInv'
<1> DEFINE from == [saved |-> saved, failed |-> failed]
<1>1. PICK all \in Listings(Eligible) : Load(Selected(all, saved), from)
  BY DEF RetrySession
<1>2. Eligible \subseteq pixelEvents
  BY DEF Eligible
<1>3. all \in Seq(Events) /\ NoRepeats(all)
  BY <1>2, StoredIsFinite, ListingHolds DEF RetryAssumption
<1>4. /\ saved \in Seq(Ranges) /\ InOrder(saved) /\ failed \in SUBSET Events
      /\ saved \in {<<>>, local} /\ count # 0
      /\ state # "loaded" /\ state # "new" /\ count < MaxSessions
  BY DEF RetryInv, RetryTypeOK, RangesInv, FirstInv, Settled, RetrySession
<1>5. /\ Selected(all, saved) \in Seq(Events) /\ NoRepeats(Selected(all, saved))
      /\ saved # <<>> /\ (\A i \in DOMAIN saved : saved[i].end <= Len(all))
           => ToSet(Selected(all, saved)) = {all[k] : k \in Positions(saved)}
  BY <1>3, <1>4, SelectedHolds
<1>6. from \in [saved : Seq(Ranges), failed : SUBSET Events]
  BY <1>4
<1>7. FirstInv'
  <2>1. /\ work' = Selected(all, saved) /\ state' = "loaded"
        /\ parent'.saved = saved /\ parent'.failed = failed
        /\ UNCHANGED <<pixelEvents, born, count, saved, same>>
    BY <1>1 DEF Load
  <2>2. ASSUME count = 1, same, saved # <<>>, Told PROVE ToSet(work') = failed
    <3>1. Eligible = Old
      BY <2>2 DEF Eligible, Old, RetryInv, RetryTypeOK, NotYet, RetryAssumption
    <3>2. work \in Listings(Old)
      BY <1>4, <2>2 DEF RetryInv, FirstInv
    <3>3. all = work
      <4>1. Old \subseteq pixelEvents
        BY DEF Old
      <4> QED
        BY <2>2, <3>1, <3>2, <4>1, StoredIsFinite, ListingIsUnique DEF RetryAssumption, Told
    <3>4. saved = local /\ \A i \in DOMAIN saved : saved[i].end <= Len(all)
      <4>1. saved = local
        BY <1>4, <2>2
      <4>2. \A i \in DOMAIN local : local[i] \in Ranges /\ local[i].end <= pos
        BY DEF RetryInv, RangesInv, RetryTypeOK
      <4>3. pos <= Len(work) /\ Len(work) \in Nat /\ pos \in Nat
        BY DEF RetryInv, RetryTypeOK
      <4> QED
        BY <3>3, <4>1, <4>2, <4>3 DEF Ranges
    <3> QED
      BY <1>5, <2>1, <2>2, <3>3, <3>4 DEF RetryInv, RangesInv
  <2>3. Old' = Old /\ Told' = Told
    BY <2>1, OldStays
  <2> QED
    BY <1>4, <2>1, <2>2, <2>3 DEF RetryInv, FirstInv, NotYet
<1> QED
  BY <1>1, <1>5, <1>6, <1>7, LoadKeeps

(* The row is there from now on: what is stored later was born later.      *)
LEMMA InsertKeeps ==
  ASSUME RetryAssumption, RetryInv, Insert
  PROVE  RetryInv'
<1>1. /\ state = "loaded" /\ count' = count + 1 /\ state' = "running" /\ saved' = <<>>
      /\ UNCHANGED <<pixelEvents, born, work, pos, local, failed, parent, same>>
      /\ count \in Nat /\ count < MaxSessions
  BY DEF Insert, RetryInv, FirstInv, RetryTypeOK, RetryAssumption
<1>2. RetryTypeOK'
  BY <1>1, EmptyRanges DEF RetryInv, RetryTypeOK, NotYet, RetryAssumption
<1>3. RangesInv'
  BY <1>1, EmptyRanges DEF RetryInv, RangesInv, Settled
<1>4. FirstInv'
  <2>1. Old' = Old /\ Told' = Told /\ Listings(Old)' = Listings(Old)
    BY <1>1, OldStays
  <2> QED
    BY <1>1, <2>1 DEF RetryInv, FirstInv, NotYet
<1> QED
  BY <1>2, <1>3, <1>4 DEF RetryInv

(* A batch: the ranges grow by what has been sent in vain.                 *)
LEMMA BatchKeeps ==
  ASSUME RetryAssumption, RetryInv, BatchOk \/ BatchFails
  PROVE  RetryInv'
<1>1. /\ state = "running" /\ pos < Len(work) /\ pos' = BatchEnd
      /\ UNCHANGED <<pixelEvents, born, count, state, work, saved, parent, same>>
      /\ pos \in Nat /\ work \in Seq(Events) /\ Len(work) \in Nat /\ local \in Seq(Ranges)
  BY DEF BatchOk, BatchFails, Walking, RetryInv, RetryTypeOK
<1>2. BatchEnd \in Nat /\ pos < BatchEnd /\ BatchEnd <= Len(work)
  BY <1>1 DEF BatchEnd, AtMost, RetryAssumption
<1>3. FirstInv'
  <2>1. Old' = Old /\ Told' = Told /\ Listings(Old)' = Listings(Old)
    BY <1>1, OldStays
  <2> QED
    BY <1>1, <2>1 DEF RetryInv, FirstInv, NotYet
<1>4. /\ InOrder(local) /\ \A i \in DOMAIN local : local[i] \in Ranges /\ local[i].end <= pos
      /\ {work[k] : k \in Positions(local)} = failed /\ failed \subseteq Events
  BY DEF RetryInv, RangesInv, RetryTypeOK
<1>5. CASE BatchOk
  <2>1. UNCHANGED <<local, failed>>
    BY <1>5 DEF BatchOk
  <2>2. \A i \in DOMAIN local : local[i].end <= pos'
    BY <1>1, <1>2, <1>4 DEF Ranges
  <2>3. RetryTypeOK'
    BY <1>1, <1>2, <2>1 DEF RetryInv, RetryTypeOK, NotYet
  <2>4. RangesInv'
    <3>1. Positions(local') = Positions(local) /\ (InOrder(local') <=> InOrder(local))
      BY <2>1
    <3> QED
      BY <1>1, <2>1, <2>2, <3>1 DEF RetryInv, RangesInv, Settled, NoRepeats
  <2> QED
    BY <1>3, <2>3, <2>4 DEF RetryInv
<1>6. CASE BatchFails
  <2> DEFINE n == Len(local)
             r == [start |-> pos, end |-> BatchEnd]
             new == {work[k] : k \in pos + 1 .. BatchEnd}
  <2>1. local' = Append(local, r) /\ failed' = failed \cup new
    BY <1>6 DEF BatchFails, FailedRange
  <2>2. r \in Ranges /\ r.start = pos /\ r.end = BatchEnd
    BY <1>1, <1>2 DEF Ranges
  <2> HIDE DEF r
  <2>3. /\ n \in Nat /\ DOMAIN local = 1 .. n /\ DOMAIN local' = 1 .. n + 1
        /\ local' \in Seq(Ranges) /\ local'[n + 1] = r
        /\ \A i \in 1 .. n : local'[i] = local[i]
    BY <1>1, <2>1, <2>2
  <2> HIDE DEF n
  <2>4. \A i \in 1 .. n + 1 : i = n + 1 \/ i \in 1 .. n
    BY <2>3
  <2>5. Positions(local') = Positions(local) \cup (pos + 1 .. BatchEnd)
    <3>1. ASSUME NEW k \in Positions(local')
          PROVE  k \in Positions(local) \cup (pos + 1 .. BatchEnd)
      <4>1. PICK i \in 1 .. n + 1 : k \in local'[i].start + 1 .. local'[i].end
        BY <2>3, <3>1 DEF Positions
      <4> QED
        BY <2>2, <2>3, <2>4, <4>1 DEF Positions
    <3>2. ASSUME NEW k \in Positions(local) PROVE k \in Positions(local')
      <4>1. PICK i \in 1 .. n : k \in local[i].start + 1 .. local[i].end
        BY <2>3, <3>2 DEF Positions
      <4>2. i \in 1 .. n + 1
        BY <2>3
      <4> QED
        BY <2>3, <4>1, <4>2 DEF Positions
    <3>3. ASSUME NEW k \in pos + 1 .. BatchEnd PROVE k \in Positions(local')
      <4>1. n + 1 \in 1 .. n + 1
        BY <2>3
      <4> QED
        BY <2>2, <2>3, <4>1 DEF Positions
    <3> QED
      BY <3>1, <3>2, <3>3
  <2>6. {work'[k] : k \in Positions(local')} = failed'
    BY <1>1, <1>4, <2>1, <2>5
  <2>7. /\ \A i \in 1 .. n + 1 : local'[i].start < local'[i].end /\ local'[i].end <= pos'
        /\ \A i, j \in 1 .. n + 1 : i < j => local'[i].end <= local'[j].start
    <3>1. \A i \in 1 .. n : /\ local[i].start < local[i].end /\ local[i].end <= pos
                            /\ local[i].end \in Nat
      BY <1>4, <2>3 DEF InOrder, Ranges
    <3>2. ASSUME NEW i \in 1 .. n + 1
          PROVE  local'[i].start < local'[i].end /\ local'[i].end <= pos'
      <4>1. CASE i = n + 1
        BY <1>1, <1>2, <2>2, <2>3, <4>1
      <4>2. CASE i \in 1 .. n
        <5>1. local'[i] = local[i] /\ local[i].end <= pos /\ pos < BatchEnd
          BY <1>2, <2>3, <3>1, <4>2
        <5> QED
          BY <1>1, <1>2, <3>1, <4>2, <5>1
      <4> QED
        BY <2>4, <4>1, <4>2
    <3>3. ASSUME NEW i \in 1 .. n + 1, NEW j \in 1 .. n + 1, i < j
          PROVE  local'[i].end <= local'[j].start
      <4>1. i \in 1 .. n
        BY <2>3, <2>4, <3>3
      <4>2. CASE j = n + 1
        BY <2>2, <2>3, <3>1, <4>1, <4>2
      <4>3. CASE j \in 1 .. n
        BY <1>4, <2>3, <3>3, <4>1, <4>3 DEF InOrder
      <4> QED
        BY <2>4, <4>2, <4>3
    <3> QED
      BY <3>2, <3>3
  <2>8. RangesInv'
    <3>1. InOrder(local') /\ \A i \in DOMAIN local' : local'[i].end <= pos'
      BY <2>3, <2>7 DEF InOrder
    <3>2. InOrder(local)'
      BY <3>1 DEF InOrder
    <3>3. {work[k] : k \in Positions(local)}' = failed'
      BY <2>6 DEF Positions
    <3> QED
      BY <1>1, <3>1, <3>2, <3>3 DEF RetryInv, RangesInv, Settled, NoRepeats, InOrder
  <2>9. RetryTypeOK'
    <3>1. new \subseteq Events
      BY <1>1, <1>2
    <3> HIDE DEF new
    <3> QED
      BY <1>1, <1>2, <1>4, <2>1, <2>3, <3>1 DEF RetryInv, RetryTypeOK, NotYet
  <2> QED
    BY <1>3, <2>8, <2>9 DEF RetryInv
<1> QED
  BY <1>5, <1>6

LEMMA EndKeeps ==
  ASSUME RetryAssumption, RetryInv, Interrupted \/ Aborted \/ Finished
  PROVE  RetryInv'
<1>1. /\ state = "running" /\ state' \in {"completed", "failed", "cancelled"}
      /\ saved' \in {<<>>, local}
      /\ UNCHANGED <<pixelEvents, born, count, work, pos, local, failed, parent, same>>
  BY DEF Interrupted, Walking, Aborted, Finished, End
<1>2. RetryTypeOK' /\ RangesInv'
  BY <1>1, EmptyRanges DEF RetryInv, RetryTypeOK, RangesInv, Settled, NotYet, InOrder
<1>3. FirstInv'
  <2>1. Old' = Old /\ Told' = Told /\ Listings(Old)' = Listings(Old)
    BY <1>1, OldStays
  <2> QED
    BY <1>1, <2>1 DEF RetryInv, FirstInv, NotYet
<1> QED
  BY <1>2, <1>3 DEF RetryInv

(* An event that arrives is not among the old ones once the first session  *)
(* has its row, and marks a load that is under way.                        *)
LEMMA StoreKeeps ==
  ASSUME RetryAssumption, RetryInv, NEW e \in Events, Store(e)
  PROVE  RetryInv'
<1>1. /\ born[e] = NotYet /\ born' = [born EXCEPT ![e] = count]
      /\ pixelEvents' = pixelEvents \cup {e}
      /\ same' = (same /\ state # "loaded")
      /\ UNCHANGED <<count, state, work, pos, local, saved, failed, parent>>
      /\ born \in [Events -> 0 .. NotYet] /\ count \in 0 .. MaxSessions
      /\ MaxSessions \in Nat /\ count # NotYet
  BY DEF Store, RetryInv, RetryTypeOK, RetryAssumption, NotYet
<1>2. RetryTypeOK' /\ RangesInv'
  BY <1>1 DEF RetryInv, RetryTypeOK, RangesInv, Settled, NotYet
<1>3. FirstInv'
  <2>1. count # 0 => Old' = Old
    BY <1>1 DEF Old, NotYet
  <2>2. count # 0 => Told' = Told /\ Listings(Old)' = Listings(Old)
    BY <2>1 DEF Told, Listings
  <2>3. \A f \in Events : born'[f] = IF f = e THEN count ELSE born[f]
    BY <1>1
  <2>4. /\ state' = "new" => count' = 0
        /\ state' = "loaded" => count' < MaxSessions
        /\ count' = 0 => state' \in {"new", "loaded"} /\ \A f \in Events : born'[f] \in {0, NotYet}
    BY <1>1, <2>3 DEF RetryInv, FirstInv
  <2>5. ASSUME same'
        PROVE  /\ same /\ state # "loaded"
               /\ \A f \in Events : born[f] # NotYet <=> f \in pixelEvents
    BY <1>1, <2>5 DEF RetryInv, FirstInv
  <2>6. same' => \A f \in Events : born'[f] # NotYet <=> f \in pixelEvents'
    BY <1>1, <2>3, <2>5
  <2>7. same' => /\ count' = 1 => work' \in Listings(Old')
                 /\ count' = 2 => (parent'.saved # <<>> /\ Told' => ToSet(work') = parent'.failed)
    BY <1>1, <2>2, <2>5 DEF RetryInv, FirstInv
  <2>8. same' /\ count' = 0 => state' # "loaded"
    BY <1>1, <2>5
  <2>9. NotYet' = NotYet
    BY DEF NotYet
  <2> QED
    BY <1>1, <2>4, <2>5, <2>6, <2>7, <2>8, <2>9 DEF FirstInv
<1> QED
  BY <1>2, <1>3 DEF RetryInv

LEMMA ExpireKeeps ==
  ASSUME RetryAssumption, RetryInv, NEW e \in Events, Expire(e)
  PROVE  RetryInv'
<1>1. /\ pixelEvents' \subseteq pixelEvents /\ same' = FALSE
      /\ UNCHANGED <<born, count, state, work, pos, local, saved, failed, parent>>
  BY DEF Expire
<1> QED
  BY <1>1 DEF RetryInv, RetryTypeOK, RangesInv, FirstInv, Settled, NotYet

LEMMA RetryNextKeeps ==
  ASSUME RetryAssumption, RetryInv, [RetryNext]_retryVars
  PROVE  RetryInv'
<1>1. CASE UNCHANGED retryVars
  <2>1. Old' = Old /\ Told' = Told /\ Listings(Old)' = Listings(Old)
    BY <1>1, OldStays DEF retryVars
  <2> QED
    BY <1>1, <2>1 DEF retryVars, RetryInv, RetryTypeOK, RangesInv, FirstInv, Settled, NotYet
<1> QED
  BY <1>1, CreateKeeps, ReloadKeeps, InsertKeeps, BatchKeeps, EndKeeps, StoreKeeps, ExpireKeeps
     DEF RetryNext

LEMMA RetryAlways == RetrySpec => []RetryInv
  BY RetryInitially, RetryNextKeeps, RetryAssumption, PTL DEF RetrySpec

(* Sessions, ranges and lists keep their types (replay_service.go, Retry   *)
(* and executeReplay).                                                     *)
THEOREM RetryTypeCorrect == RetrySpec => []RetryTypeOK
  BY RetryAlways, PTL DEF RetryInv

(* The ranges of executeReplay are in order, do not overlap and stand for  *)
(* exactly the events whose batch failed, whatever is loaded and however   *)
(* often it is retried.                                                    *)
THEOREM RangesTellTheFailures == RetrySpec => []RangesAreFailures
  BY RetryAlways, RetryInvSuffices, PTL

(* No session holds an event twice, although Retry applies the ranges of   *)
(* one list to another.                                                    *)
THEOREM NothingIsSentTwice == RetrySpec => []NoDuplicates
  BY RetryAlways, RetryInvSuffices, PTL

(* The retry of a first session sends exactly what failed, for any number  *)
(* of events, ranges and batch sizes and whatever is stored in between.    *)
THEOREM FirstRetrySendsTheFailures == RetrySpec => []FirstRetryExact
  BY RetryAlways, RetryInvSuffices, PTL
===============================================================================
