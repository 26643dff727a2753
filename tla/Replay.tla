------------------------------- MODULE Replay -------------------------------
(***************************************************************************)
(* The replay engine of one customer: ReplayService (replay_service.go),   *)
(* its session and credit tables, the background goroutine every session   *)
(* gets, and the server process they live in.                              *)
(*                                                                         *)
(* Every database call is one SQL statement that commits on its own, so    *)
(* it is one step here; anything may happen between two of them.  A batch  *)
(* (1000 events) is the unit of work: the events in it do not matter.      *)
(*                                                                         *)
(* A definition named ...Slip is what its namesake would be after a        *)
(* plausible programming slip; nothing uses it.  The README says which     *)
(* property notices each slip.                                             *)
(***************************************************************************)
EXTENDS Integers, FiniteSets

CONSTANTS
  Sessions,     \* rows that can ever be inserted into replay_sessions
  Pixels,       \* the customer's source pixels
  Credits,      \* the customer's rows of replay_credits
  Handlers,     \* concurrent Create / Retry requests
  Cancellers,   \* concurrent Cancel requests
  None,         \* SQL NULL
  Stored,       \* batches of events stored for a pixel at the start
  MaxBatches,   \* bound on the batches of events a pixel can come to hold
  TotalReplays, \* total_replays of a credit; Unlimited never runs out
  MaxEvents,    \* max_events_per_replay of a credit in batches; 0 is no cap
  Limit,        \* capacity of the goroutine semaphore
  Revalidate,   \* the target pixel is read again every Revalidate batches
  DbMayFail,    \* whether a write of a live process may fail
  MaxStops      \* bound on crashes and graceful shutdowns

Unlimited == -1
Batches   == 0 .. MaxBatches - 1
Counts    == 0 .. MaxBatches
Active    == {"pending", "running"}
Final     == {"completed", "failed", "cancelled"}
Statuses  == {"none"} \cup Active \cup Final

ASSUME ConstantsAssumption ==
  /\ IsFiniteSet(Sessions) /\ IsFiniteSet(Handlers)
  /\ None \notin Sessions \cup Pixels \cup Credits
  /\ MaxBatches \in Nat /\ Stored \in 0 .. MaxBatches
  /\ TotalReplays \in [Credits -> Nat \cup {Unlimited}]
  /\ MaxEvents \in [Credits -> Nat]
  /\ Limit \in Nat \ {0} /\ Revalidate \in Nat \ {0}
  /\ DbMayFail \in BOOLEAN /\ MaxStops \in Nat

VARIABLES
  (* the database *)
  status,    \* status of a session; "none" before the row exists
  source,    \* source_pixel_id
  credit,    \* credit_id
  total,     \* total_events, in batches
  progress,  \* replayed_events and failed_events, in batches
  ranges,    \* failed_batch_ranges: the batches to send again
  upTo,      \* batches of the source whose created_at precedes the session's
  used,      \* used_replays of a credit
  stored,    \* batches of events stored for a pixel
  (* the server process *)
  mode,      \* "up", "stopping" (shutdownCtx is done) or "down"
  sem,       \* tokens in the semaphore channel
  req,       \* local state of a Create / Retry request
  can,       \* local state of a Cancel request
  pc,        \* where the goroutine of a session is
  next,      \* its loop counter
  good, bad, \* batches it counted as replayed / appended to failedBatchRanges
  exit,      \* why it left the loop
  (* what happened, for the properties *)
  delivered, \* batches Facebook accepted
  late,      \* batches sent while the row said "cancelled"
  refunded,  \* how often a cancellation gave the credit of a session back
  returned,  \* the same, counted for every credit
  lost,      \* replays consumed for a session that never came to be
  stops      \* crashes and shutdowns so far

dbVars    == <<status, source, credit, total, progress, ranges, upTo>>
moneyVars == <<used, refunded, returned, lost>>
loopVars  == <<next, good, bad, exit, delivered, late>>
vars == <<dbVars, moneyVars, stored, mode, sem, req, can, pc, loopVars, stops>>

NoReq == [pc |-> "idle", source |-> None, charge |-> FALSE, load |-> 0,
          credit |-> None]
NoCan == [pc |-> "idle", session |-> None, eligible |-> FALSE]

Requests ==
  [pc : {"idle", "checked", "counted", "loaded", "locked", "paid", "refund"},
   source : Pixels \cup {None}, charge : BOOLEAN, load : Counts,
   credit : Credits \cup {None}]
Cancellations ==
  [pc : {"idle", "read", "refund"}, session : Sessions \cup {None},
   eligible : BOOLEAN]

(* Program points of a goroutine that holds a token of the semaphore.      *)
Executing ==
  {"start", "check", "poll", "send", "record", "delay",
   "saveRanges", "saveProgress", "settle"}
Points == {"none", "queued", "done"} \cup Executing
Exits  == {"none", "shutdown", "pixel", "cancelled", "auth", "end"}

RowsOK ==
  /\ status \in [Sessions -> Statuses]
  /\ source \in [Sessions -> Pixels \cup {None}]
  /\ credit \in [Sessions -> Credits \cup {None}]
  /\ total \in [Sessions -> Counts]
  /\ progress \in [Sessions -> [replayed : Counts, failed : Counts]]
  /\ ranges \in [Sessions -> SUBSET Batches]
  /\ upTo \in [Sessions -> Counts]
MoneyOK ==
  /\ used \in [Credits -> Nat]
  /\ refunded \in [Sessions -> Nat]
  /\ returned \in [Credits -> Nat]
  /\ lost \in [Credits -> Nat]
ServerOK ==
  /\ stored \in [Pixels -> Counts]
  /\ mode \in {"up", "stopping", "down"}
  /\ sem \in Int
  /\ stops \in 0 .. MaxStops
RequestsOK ==
  /\ req \in [Handlers -> Requests]
  /\ can \in [Cancellers -> Cancellations]
LoopsOK ==
  /\ pc \in [Sessions -> Points]
  /\ next \in [Sessions -> Counts]
  /\ good \in [Sessions -> SUBSET Batches]
  /\ bad \in [Sessions -> SUBSET Batches]
  /\ exit \in [Sessions -> Exits]
  /\ delivered \in [Sessions -> SUBSET Batches]
  /\ late \in [Sessions -> Nat]

TypeOK == RowsOK /\ MoneyOK /\ ServerOK /\ RequestsOK /\ LoopsOK

Init ==
  /\ status = [s \in Sessions |-> "none"]
  /\ source = [s \in Sessions |-> None]
  /\ credit = [s \in Sessions |-> None]
  /\ total = [s \in Sessions |-> 0]
  /\ progress = [s \in Sessions |-> [replayed |-> 0, failed |-> 0]]
  /\ ranges = [s \in Sessions |-> {}]
  /\ upTo = [s \in Sessions |-> 0]
  /\ used = [c \in Credits |-> 0]
  /\ stored = [p \in Pixels |-> Stored]
  /\ mode = "up"
  /\ sem = 0
  /\ req = [h \in Handlers |-> NoReq]
  /\ can = [k \in Cancellers |-> NoCan]
  /\ pc = [s \in Sessions |-> "none"]
  /\ next = [s \in Sessions |-> 0]
  /\ good = [s \in Sessions |-> {}]
  /\ bad = [s \in Sessions |-> {}]
  /\ exit = [s \in Sessions |-> "none"]
  /\ delivered = [s \in Sessions |-> {}]
  /\ late = [s \in Sessions |-> 0]
  /\ refunded = [s \in Sessions |-> 0]
  /\ returned = [c \in Credits |-> 0]
  /\ lost = [c \in Credits |-> 0]
  /\ stops = 0

-----------------------------------------------------------------------------
(* Credits: ReplayCreditRepo. *)

(* Rows a ConsumeOneCredit transaction holds FOR UPDATE.                   *)
LockedSlip == {}
Locked == {req[h].credit : h \in {g \in Handlers : req[g].pc = "locked"}}

HasReplaysLeftSlip(c) ==
  TotalReplays[c] = Unlimited \/ used[c] <= TotalReplays[c]
HasReplaysLeft(c) == TotalReplays[c] = Unlimited \/ used[c] < TotalReplays[c]

(* Credits the SELECT may return for a replay of n batches.  ORDER BY      *)
(* expires_at picks one of them; SKIP LOCKED hides the rows other          *)
(* transactions hold, so any unlocked one can be the first.                *)
Consumable(n) ==
  {c \in Credits \ Locked :
     HasReplaysLeft(c) /\ (MaxEvents[c] = 0 \/ MaxEvents[c] >= n)}

(* UPDATE ... SET used_replays = used_replays - 1 ... AND used_replays > 0 *)
CanRefund(c) == c \notin Locked /\ used[c] > 0
TakeBack(c)  == used' = [used EXCEPT ![c] = @ - 1]

Capped(c, n) == IF MaxEvents[c] > 0 /\ n > MaxEvents[c] THEN MaxEvents[c] ELSE n

-----------------------------------------------------------------------------
(* Create and Retry requests. *)

StepReq(h, new) ==
  /\ req' = [req EXCEPT ![h] = new]
  /\ UNCHANGED <<stored, mode, can, stops>>

OnlyReq(h, new) ==
  /\ StepReq(h, new)
  /\ UNCHANGED <<dbVars, moneyVars, sem, pc, loopVars>>

(* The bound on Sessions: a request starts only if a row is left for it.   *)
RowLeft ==
  Cardinality({h \in Handlers : req[h].pc # "idle"})
    < Cardinality({s \in Sessions : status[s] = "none"})

(* Create: ListByCustomerID shows no active session of the pixel.          *)
CreateCheck(h, p) ==
  /\ mode = "up" /\ req[h].pc = "idle" /\ RowLeft
  /\ \A s \in Sessions : source[s] = p => status[s] \notin Active
  /\ OnlyReq(h, [NoReq EXCEPT !.pc = "checked", !.source = p])

(* Create: a credit is asked for only if this count is not zero.           *)
CreateCount(h) ==
  /\ req[h].pc = "checked"
  /\ OnlyReq(h, [req[h] EXCEPT !.pc = "counted",
                               !.charge = stored[req[h].source] > 0])

CreateLoad(h) ==
  /\ req[h].pc = "counted"
  /\ OnlyReq(h, [req[h] EXCEPT !.pc = "loaded", !.load = stored[req[h].source]])

(* A read between the check and the charge fails: an error response.       *)
ReadFails(h) ==
  /\ req[h].pc \in {"checked", "counted"} /\ DbMayFail
  /\ OnlyReq(h, NoReq)

(* Retry: the row of the session, then its events created before it; the   *)
(* failed ranges of them, or all of them if no range was saved.            *)
Retry(h, s) ==
  /\ mode = "up" /\ req[h].pc = "idle" /\ RowLeft
  /\ status[s] \in {"failed", "cancelled"}
  /\ OnlyReq(h, [NoReq EXCEPT
                   !.pc = "loaded", !.source = source[s], !.charge = TRUE,
                   !.load = IF ranges[s] = {} THEN upTo[s]
                                              ELSE Cardinality(ranges[s])])

(* ConsumeOneCredit, SELECT ... FOR UPDATE: no row is an error response.   *)
ConsumeSelect(h) ==
  /\ req[h].pc = "loaded" /\ req[h].charge
  /\ \/ \E c \in Consumable(req[h].load) :
          OnlyReq(h, [req[h] EXCEPT !.pc = "locked", !.credit = c])
     \/ /\ Consumable(req[h].load) = {} \/ DbMayFail
        /\ OnlyReq(h, NoReq)

(* ConsumeOneCredit, UPDATE and COMMIT; a failure rolls back.              *)
ConsumeCommit(h) ==
  /\ req[h].pc = "locked"
  /\ \/ LET c == req[h].credit IN
        /\ used' = [used EXCEPT ![c] = IF HasReplaysLeft(c) THEN @ + 1 ELSE @]
        /\ StepReq(h, [req[h] EXCEPT !.pc = "paid",
                                     !.load = Capped(c, @)])
        /\ UNCHANGED <<dbVars, refunded, returned, lost, sem, pc, loopVars>>
     \/ DbMayFail /\ OnlyReq(h, NoReq)

NoCharge(h) ==
  /\ req[h].pc = "loaded" /\ ~req[h].charge
  /\ OnlyReq(h, [req[h] EXCEPT !.pc = "paid"])

(* replayRepo.Create and the go statement that follows it.                 *)
InsertSession(h, s) ==
  /\ req[h].pc = "paid" /\ status[s] = "none"
  /\ LET r == req[h] IN
     /\ status' = [status EXCEPT ![s] = "pending"]
     /\ source' = [source EXCEPT ![s] = r.source]
     /\ credit' = [credit EXCEPT ![s] = r.credit]
     /\ total' = [total EXCEPT ![s] = r.load]
     /\ upTo' = [upTo EXCEPT ![s] = stored[r.source]]
  /\ pc' = [pc EXCEPT ![s] = "queued"]
  /\ StepReq(h, NoReq)
  /\ UNCHANGED <<progress, ranges, moneyVars, sem, loopVars>>

(* The insert fails; a consumed credit is to be given back.                *)
InsertFails(h) ==
  /\ req[h].pc = "paid" /\ DbMayFail
  /\ OnlyReq(h, IF req[h].credit = None THEN NoReq
                ELSE [req[h] EXCEPT !.pc = "refund"])

(* RefundReplayCredit as compensation; an error is only logged.            *)
Compensate(h) ==
  /\ req[h].pc = "refund"
  /\ LET c == req[h].credit IN
     \/ CanRefund(c) /\ TakeBack(c) /\ lost' = lost
     \/ /\ used[c] = 0 \/ DbMayFail
        /\ used' = used
        /\ lost' = [lost EXCEPT ![c] = @ + 1]
  /\ StepReq(h, NoReq)
  /\ UNCHANGED <<dbVars, refunded, returned, sem, pc, loopVars>>

-----------------------------------------------------------------------------
(* Cancel requests, and the administrator's cancel. *)

(* CancelSession: WHERE status IN ('pending', 'running').                  *)
CancellableSlip(s) == status[s] # "none"
Cancellable(s)     == status[s] \in Active

StepCan(k, new) ==
  /\ can' = [can EXCEPT ![k] = new]
  /\ UNCHANGED <<source, credit, total, progress, ranges, upTo, stored, mode,
                 sem, req, pc, loopVars, stops>>

(* GetByID: whether a refund is due is decided on this row.                *)
CancelRead(k, s) ==
  /\ mode = "up" /\ can[k].pc = "idle"
  /\ status[s] # "none"
  /\ StepCan(k, [pc |-> "read", session |-> s,
                 eligible |-> status[s] = "pending" /\ credit[s] # None])
  /\ UNCHANGED <<status, moneyVars>>

(* CancelSession: pending/running -> cancelled, or ErrReplayNotCancellable *)
CancelWrite(k) ==
  /\ can[k].pc = "read"
  /\ LET s == can[k].session IN
     \/ /\ Cancellable(s)
        /\ status' = [status EXCEPT ![s] = "cancelled"]
        /\ StepCan(k, IF can[k].eligible THEN [can[k] EXCEPT !.pc = "refund"]
                                         ELSE NoCan)
     \/ /\ ~Cancellable(s) \/ DbMayFail
        /\ StepCan(k, NoCan) /\ status' = status
  /\ UNCHANGED moneyVars

(* RefundReplayCredit; an error is only logged.                            *)
CancelRefund(k) ==
  /\ can[k].pc = "refund"
  /\ LET s == can[k].session
         c == credit[s] IN
     \/ /\ CanRefund(c) /\ TakeBack(c)
        /\ refunded' = [refunded EXCEPT ![s] = @ + 1]
        /\ returned' = [returned EXCEPT ![c] = @ + 1]
     \/ (used[c] = 0 \/ DbMayFail) /\ UNCHANGED <<used, refunded, returned>>
  /\ StepCan(k, NoCan)
  /\ UNCHANGED <<status, lost>>

(* AdminService.CancelReplay: the same statement, and no refund.           *)
AdminCancel(s) ==
  /\ mode = "up" /\ Cancellable(s)
  /\ status' = [status EXCEPT ![s] = "cancelled"]
  /\ UNCHANGED <<source, credit, total, progress, ranges, upTo, moneyVars,
                 stored, mode, sem, req, can, pc, loopVars, stops>>

-----------------------------------------------------------------------------
(* The goroutine of a session: the select in Create / Retry, executeReplay *)

CtxDone == mode = "stopping"

StepLoop(s, to) ==
  /\ pc' = [pc EXCEPT ![s] = to]
  /\ UNCHANGED <<source, credit, total, upTo, moneyVars, stored, mode, req,
                 can, stops>>

(* The semaphore has room; Go's select may prefer it to a done context.    *)
Acquire(s) ==
  /\ pc[s] = "queued" /\ sem < Limit
  /\ sem' = sem + 1
  /\ StepLoop(s, "start")
  /\ UNCHANGED <<status, progress, ranges, loopVars>>

(* UpdateStatusWithError(failed) on a detached context.                    *)
SkipOnShutdown(s) ==
  /\ pc[s] = "queued" /\ CtxDone
  /\ \/ status' = [status EXCEPT ![s] = "failed"]
     \/ DbMayFail /\ status' = status
  /\ StepLoop(s, "done")
  /\ UNCHANGED <<progress, ranges, sem, loopVars>>

(* The condition of the batch loop, i < len(events).                       *)
BatchesLeftSlip(s) == next[s] <= total[s]
BatchesLeft(s)     == next[s] < total[s]

(* The deferred release of the semaphore.                                  *)
ReleaseSlip == sem' = sem
Release     == sem' = sem - 1

(* UpdateStatus(running), whatever the row says.                           *)
Start(s) ==
  /\ pc[s] = "start"
  /\ \/ status' = [status EXCEPT ![s] = "running"]
     \/ DbMayFail /\ status' = status
  /\ IF BatchesLeft(s)
       THEN StepLoop(s, "check") /\ exit' = exit
       ELSE StepLoop(s, "saveRanges") /\ exit' = [exit EXCEPT ![s] = "end"]
  /\ UNCHANGED <<progress, ranges, sem, next, good, bad, delivered, late>>

Leave(s, why, to) ==
  /\ exit' = [exit EXCEPT ![s] = why]
  /\ StepLoop(s, to)
  /\ UNCHANGED <<status, progress, ranges, sem, next, good, bad, delivered, late>>

Stay(s, to) ==
  /\ StepLoop(s, to)
  /\ UNCHANGED <<status, progress, ranges, sem, loopVars>>

RevalidationDue(s) == next[s] > 0 /\ next[s] % Revalidate = 0

(* The shutdown check, then the periodic read of the target pixel, which   *)
(* may be missing, inactive or unreadable.                                 *)
Check(s) ==
  /\ pc[s] = "check"
  /\ \/ CtxDone /\ Leave(s, "shutdown", "saveRanges")
     \/ ~CtxDone /\ RevalidationDue(s) /\ Leave(s, "pixel", "settle")
     \/ ~CtxDone /\ Stay(s, "poll")

(* GetStatus says cancelled (with a done context it returns an error).     *)
SeesCancelSlip(s) == next[s] = 0 /\ ~CtxDone /\ status[s] = "cancelled"
SeesCancel(s)     == ~CtxDone /\ status[s] = "cancelled"

(* The poll before a batch; on an error the batch is sent all the same.    *)
Poll(s) ==
  /\ pc[s] = "poll"
  /\ \/ SeesCancel(s) /\ Leave(s, "cancelled", "saveRanges")
     \/ (~SeesCancel(s) \/ DbMayFail) /\ Stay(s, "send")

CountLate(s) ==
  late' = [late EXCEPT ![s] = IF status[s] = "cancelled" THEN @ + 1 ELSE @]

Advance(s) ==
  /\ next' = [next EXCEPT ![s] = @ + 1]
  /\ StepLoop(s, "record")
  /\ exit' = exit
  /\ UNCHANGED <<status, progress, ranges, sem>>

(* SendEventsWithRetry returns without an error.                           *)
SendOk(s) ==
  /\ pc[s] = "send" /\ ~CtxDone
  /\ good' = [good EXCEPT ![s] = @ \cup {next[s]}]
  /\ delivered' = [delivered EXCEPT ![s] = @ \cup {next[s]}]
  /\ CountLate(s)
  /\ Advance(s) /\ bad' = bad

(* It returns an error that is not about credentials.  Facebook may have   *)
(* accepted the batch even so (a timeout, a lost answer).  With a done     *)
(* context the request is not sent.                                        *)
SendFails(s) ==
  /\ pc[s] = "send"
  /\ bad' = [bad EXCEPT ![s] = @ \cup {next[s]}]
  /\ \/ delivered' = delivered
     \/ ~CtxDone /\ delivered' = [delivered EXCEPT ![s] = @ \cup {next[s]}]
  /\ IF CtxDone THEN late' = late ELSE CountLate(s)
  /\ Advance(s) /\ good' = good

(* 401 or 403: fail fast, nothing about the batch is kept.                 *)
SendUnauthorized(s) ==
  /\ pc[s] = "send" /\ ~CtxDone
  /\ Leave(s, "auth", "settle")

TallySlip(s) == [replayed |-> next[s], failed |-> Cardinality(bad[s])]
Tally(s) == [replayed |-> Cardinality(good[s]), failed |-> Cardinality(bad[s])]

(* UpdateProgress on a detached context after every batch.                 *)
Record(s) ==
  /\ pc[s] = "record"
  /\ \/ progress' = [progress EXCEPT ![s] = Tally(s)]
     \/ DbMayFail /\ progress' = progress
  /\ IF BatchesLeft(s)
       THEN StepLoop(s, "delay") /\ exit' = exit
       ELSE StepLoop(s, "saveRanges") /\ exit' = [exit EXCEPT ![s] = "end"]
  /\ UNCHANGED <<status, ranges, sem, next, good, bad, delivered, late>>

(* The batch delay elapses, or the shutdown interrupts it.                 *)
Delay(s) ==
  /\ pc[s] = "delay"
  /\ \/ Stay(s, "check")
     \/ CtxDone /\ Leave(s, "shutdown", "saveRanges")

(* The writes on the way out use a detached context after a shutdown and   *)
(* at the end, and shutdownCtx for a cancellation, a lost pixel and an     *)
(* authentication error: those fail once the server is stopping.           *)
MustWriteSlip(s) == ~DbMayFail
MustWrite(s) == ~DbMayFail /\ (CtxDone => exit[s] \in {"shutdown", "end"})
CanWrite(s)  == CtxDone => exit[s] \in {"shutdown", "end"}

(* UpdateFailedBatches, if any batch failed.                               *)
SaveRanges(s) ==
  /\ pc[s] = "saveRanges"
  /\ \/ /\ CanWrite(s) /\ bad[s] # {}
        /\ ranges' = [ranges EXCEPT ![s] = bad[s]]
     \/ (bad[s] = {} \/ ~MustWrite(s)) /\ ranges' = ranges
  /\ StepLoop(s, "saveProgress")
  /\ UNCHANGED <<status, progress, sem, loopVars>>

(* UpdateProgress; after a cancellation this is the last step.             *)
SaveProgress(s) ==
  /\ pc[s] = "saveProgress"
  /\ \/ CanWrite(s) /\ progress' = [progress EXCEPT ![s] = Tally(s)]
     \/ ~MustWrite(s) /\ progress' = progress
  /\ IF exit[s] = "cancelled"
       THEN StepLoop(s, "done") /\ Release
       ELSE StepLoop(s, "settle") /\ sem' = sem
  /\ UNCHANGED <<status, ranges, loopVars>>

VerdictSlip(s) == IF exit[s] = "end" THEN "completed" ELSE "failed"
Verdict(s) ==
  IF exit[s] = "end" /\ (bad[s] = {} \/ good[s] # {}) THEN "completed"
                                                      ELSE "failed"

(* The last status write, whatever the row says; the token is released.    *)
Settle(s) ==
  /\ pc[s] = "settle"
  /\ \/ CanWrite(s) /\ status' = [status EXCEPT ![s] = Verdict(s)]
     \/ ~MustWrite(s) /\ status' = status
  /\ StepLoop(s, "done") /\ Release
  /\ UNCHANGED <<progress, ranges, loopVars>>

Goroutine(s) ==
  \/ SkipOnShutdown(s) \/ Start(s) \/ Check(s) \/ Poll(s)
  \/ SendOk(s) \/ SendFails(s) \/ SendUnauthorized(s) \/ Record(s) \/ Delay(s)
  \/ SaveRanges(s) \/ SaveProgress(s) \/ Settle(s)

-----------------------------------------------------------------------------
(* The world outside and the server process: main.go. *)

(* New events are stored for a pixel.                                      *)
Ingest(p) ==
  /\ mode = "up" /\ stored[p] < MaxBatches
  /\ stored' = [stored EXCEPT ![p] = @ + 1]
  /\ UNCHANGED <<dbVars, moneyVars, mode, sem, req, can, pc, loopVars, stops>>

(* SIGTERM: shutdownCancel().                                              *)
Sigterm ==
  /\ mode = "up" /\ stops < MaxStops
  /\ mode' = "stopping" /\ stops' = stops + 1
  /\ UNCHANGED <<dbVars, moneyVars, stored, sem, req, can, pc, loopVars>>

Idle ==
  /\ \A h \in Handlers : req[h].pc = "idle"
  /\ \A k \in Cancellers : can[k].pc = "idle"

(* srv.Shutdown has drained the requests, wg.Wait the goroutines.          *)
Exit ==
  /\ mode = "stopping" /\ Idle
  /\ \A s \in Sessions : pc[s] \in {"none", "done"}
  /\ mode' = "down"
  /\ UNCHANGED <<dbVars, moneyVars, stored, sem, req, can, pc, loopVars, stops>>

(* Every request and goroutine ends where it is; open transactions roll    *)
(* back, consumed credits of unfinished requests stay consumed.            *)
Crash ==
  /\ mode # "down" /\ stops < MaxStops
  /\ mode' = "down" /\ stops' = stops + 1
  /\ lost' = [c \in Credits |-> lost[c] + Cardinality(
                {h \in Handlers : req[h].pc \in {"paid", "refund"}
                                  /\ req[h].credit = c})]
  /\ req' = [h \in Handlers |-> NoReq]
  /\ can' = [k \in Cancellers |-> NoCan]
  /\ pc' = [s \in Sessions |-> IF pc[s] = "none" THEN "none" ELSE "done"]
  /\ sem' = 0
  /\ UNCHANGED <<dbVars, used, refunded, returned, stored, loopVars>>

(* Startup: RecoverOrphanedSessions before the server listens.             *)
RecoveredSlip(s)     == IF status[s] = "running" THEN "failed" ELSE status[s]
RecoveredSlipLate(s) ==
  IF status[s] \in Active \cup {"cancelled"} THEN "failed" ELSE status[s]
Recovered(s)         == IF status[s] \in Active THEN "failed" ELSE status[s]

Restart ==
  /\ mode = "down"
  /\ mode' = "up"
  /\ \/ status' = [s \in Sessions |-> Recovered(s)]
     \/ DbMayFail /\ status' = status
  /\ UNCHANGED <<source, credit, total, progress, ranges, upTo, moneyVars,
                 stored, sem, req, can, pc, loopVars, stops>>

-----------------------------------------------------------------------------
Request(h) ==
  \/ CreateCount(h) \/ CreateLoad(h) \/ ReadFails(h)
  \/ ConsumeSelect(h) \/ ConsumeCommit(h) \/ NoCharge(h)
  \/ (\E s \in Sessions : InsertSession(h, s)) \/ InsertFails(h) \/ Compensate(h)

Next ==
  \/ \E h \in Handlers :
       \/ \E p \in Pixels : CreateCheck(h, p)
       \/ \E s \in Sessions : Retry(h, s)
       \/ Request(h)
  \/ \E k \in Cancellers :
       \/ \E s \in Sessions : CancelRead(k, s)
       \/ CancelWrite(k)
       \/ CancelRefund(k)
  \/ \E s \in Sessions : AdminCancel(s) \/ Acquire(s) \/ Goroutine(s)
  \/ \E p \in Pixels : Ingest(p)
  \/ Sigterm \/ Exit \/ Crash \/ Restart

(* Requests run to their end, as do goroutines; waiting senders of a Go    *)
(* channel are served in order, so no queued session is passed over for    *)
(* ever; a stopping server exits and a stopped one is started again.       *)
Fairness ==
  /\ \A h \in Handlers : WF_vars(Request(h))
  /\ \A k \in Cancellers : WF_vars(CancelWrite(k)) /\ WF_vars(CancelRefund(k))
  /\ \A s \in Sessions : WF_vars(Goroutine(s)) /\ SF_vars(Acquire(s))
  /\ WF_vars(Exit) /\ WF_vars(Restart)

Spec     == Init /\ [][Next]_vars
FairSpec == Spec /\ Fairness

-----------------------------------------------------------------------------
(* Safety. *)

(* However many requests compete, no pack is used more often than it was   *)
(* sold (ConsumeOneCredit).                                                *)
NoOverspend ==
  \A c \in Credits : TotalReplays[c] # Unlimited => used[c] <= TotalReplays[c]

(* Every unit of used_replays has a cause: what is used and what           *)
(* cancellations gave back are the sessions that were charged, the         *)
(* requests between their charge and their insert, and what a crash or a   *)
(* failed compensation left behind.  No charge is counted twice or lost by *)
(* two transactions on one row, no compensation is paid for a session that *)
(* exists.                                                                 *)
Charging(c) ==
  {h \in Handlers : req[h].pc \in {"paid", "refund"} /\ req[h].credit = c}
Charged(c) == {s \in Sessions : credit[s] = c}
CreditLedger ==
  \A c \in Credits :
    used[c] + returned[c]
      = Cardinality(Charged(c)) + Cardinality(Charging(c)) + lost[c]

(* The semaphore's tokens are the goroutines inside executeReplay, never   *)
(* more than maxConcurrentReplays: every return path gives its token back. *)
Holders == {s \in Sessions : pc[s] \in Executing}
SemaphoreExact == sem = Cardinality(Holders) /\ sem <= Limit

(* While the server runs, a session shown as pending or running has a      *)
(* goroutine that will settle it: none is orphaned by an early return, a   *)
(* shutdown or a crash, RecoverOrphanedSessions included.  (If writes can  *)
(* fail this is lost until the next restart.)                              *)
Alive(s) == pc[s] \notin {"none", "done"}
ActiveIsWorked ==
  mode = "up" => \A s \in Sessions : status[s] \in Active => Alive(s)

(* A cancellation that meets a running replay is noticed at the next poll: *)
(* at most the batch being prepared still goes out while the row says      *)
(* cancelled (if reads succeed).  A session cancelled in the queue that is *)
(* written over with running is another matter: see RefundOnlyUnsent.      *)
LateBound == \A s \in Sessions : late[s] <= 1

(* A completed session tells the truth: its counters add up to its total,  *)
(* its saved ranges are its failures, everything else reached Facebook,    *)
(* and not everything failed.                                              *)
CompletedIsAccounted ==
  \A s \in Sessions : status[s] = "completed" =>
    /\ progress[s].replayed + progress[s].failed = total[s]
    /\ Cardinality(ranges[s]) = progress[s].failed
    /\ (0 .. total[s] - 1) \ ranges[s] \subseteq delivered[s]
    /\ total[s] > 0 => progress[s].replayed > 0

(* Whatever crashes or fails to be written, replayed_events never exceeds  *)
(* what Facebook accepted.                                                 *)
NotOverstated ==
  \A s \in Sessions : progress[s].replayed <= Cardinality(delivered[s])

(* No refund for a session that sent something: the comments of Cancel and *)
(* RefundReplayCredit.                                                     *)
RefundOnlyUnsent ==
  \A s \in Sessions : refunded[s] > 0 => delivered[s] = {}

-----------------------------------------------------------------------------
(* Action properties. *)

(* completed and failed are for ever: no late write of a goroutine, of a   *)
(* cancellation or of the startup recovery changes such a row.             *)
SettledIsStable ==
  [][\A s \in Sessions :
       status[s] \in {"completed", "failed"} => status'[s] = status[s]]_vars

-----------------------------------------------------------------------------
(* Liveness, and the lifecycle a client of the API may rely on. *)

(* Every session that was accepted is settled in the end, through waits    *)
(* for the semaphore, shutdowns and crashes.                               *)
EverySessionSettles ==
  \A s \in Sessions : status[s] \in Active ~> status[s] \in Final

(* A shutdown comes to its end: wg.Wait waits for no goroutine for ever.   *)
ShutdownEnds == mode = "stopping" ~> mode = "down"

Engaged == {s \in Sessions : Alive(s)}
Lifecycle == INSTANCE ReplayLifecycle WITH engaged <- Engaged

(* The engine implements the lifecycle: the only moves a session row makes *)
(* are those of ReplayLifecycle.                                           *)
FollowsLifecycle == Lifecycle!Spec
=============================================================================
