----------------------------- MODULE ReplayRetry -----------------------------
(***************************************************************************)
(* Which events a retry sends.  A session loads the events of its source   *)
(* pixel, walks them in batches and keeps the index ranges of the batches  *)
(* that failed; Retry loads the events AGAIN and cuts those ranges out of  *)
(* the new list (replay_service.go, Retry).  The ranges are positions, so  *)
(* everything depends on the two lists being the same.                     *)
(*                                                                         *)
(* One lineage is modelled: a session, its retry, the retry of the retry.  *)
(* Credits, cancellation races and the semaphore are in Replay, and so is  *)
(* what a definition named ...Slip is for.                                 *)
(***************************************************************************)
EXTENDS Integers, Sequences, FiniteSets, SequencesExt

CONSTANTS
  Events,          \* event ids
  Time,            \* event_time of an event, set by whoever sent it
  Initial,         \* events stored before the first session
  BatchSize,       \* batchSize
  MaxReplayEvents, \* the LIMIT of GetEventsForReplay
  MaxSessions      \* bound on the length of the lineage

ASSUME RetryAssumption ==
  /\ Time \in [Events -> Nat] /\ Initial \subseteq Events
  /\ IsFiniteSet(Events)
  /\ {BatchSize, MaxReplayEvents, MaxSessions} \subseteq Nat \ {0}

VARIABLES
  pixelEvents, \* pixel_events of the source pixel
  born,    \* sessions of the lineage created before an event was stored
  count,   \* sessions created so far
  state,   \* "new", "loaded", or the status of the latest session
  work,    \* the events slice of executeReplay
  pos,     \* the loop variable i
  local,   \* failedBatchRanges
  saved,   \* failed_batch_ranges of the session's row
  failed,  \* events whose batch was answered with an error
  parent,  \* saved and failed of the session this one retries
  same     \* no event was deleted, or stored between the load of a session's
           \* events and the insert of its row

retryVars == <<pixelEvents, born, count, state, work, pos, local, saved, failed, parent, same>>

NotYet == MaxSessions + 1     \* born of an event that was never stored

Ranges == [start : Nat, end : Nat]

RetryTypeOK ==
  /\ pixelEvents \subseteq Events
  /\ born \in [Events -> 0 .. NotYet]
  /\ count \in 0 .. MaxSessions
  /\ state \in {"new", "loaded", "running", "completed", "failed", "cancelled"}
  /\ work \in Seq(Events) /\ pos \in 0 .. Len(work)
  /\ local \in Seq(Ranges) /\ saved \in Seq(Ranges)
  /\ failed \subseteq Events
  /\ parent \in [saved : Seq(Ranges), failed : SUBSET Events]
  /\ same \in BOOLEAN

RetryInit ==
  /\ pixelEvents = Initial
  /\ born = [e \in Events |-> IF e \in Initial THEN 0 ELSE NotYet]
  /\ count = 0 /\ state = "new"
  /\ work = <<>> /\ pos = 0 /\ local = <<>> /\ saved = <<>> /\ failed = {}
  /\ parent = [saved |-> <<>>, failed |-> {}] /\ same = TRUE

AtMost(m, n) == IF m < n THEN m ELSE n

(* GetEventsForReplay: ORDER BY event_time LIMIT, in any order among       *)
(* events of one time.                                                     *)
Listings(S) ==
  {SubSeq(q, 1, AtMost(Len(q), MaxReplayEvents)) :
     q \in {p \in SetToSeqs(S) :
              \A i, j \in DOMAIN p : i < j => Time[p[i]] <= Time[p[j]]}}

(* append(retryEvents, allEvents[start:end]...) for every saved range,     *)
(* clipped to the list; all events if nothing is left.                     *)
SliceSlip(all, r) == SubSeq(all, r.start + 1, AtMost(r.end + 1, Len(all)))
Slice(all, r) == SubSeq(all, r.start + 1, AtMost(r.end, Len(all)))
Selected(all, rs) ==
  LET cut == FlattenSeq([i \in DOMAIN rs |-> Slice(all, rs[i])])
  IN IF cut = <<>> THEN all ELSE cut

Load(events, from) ==
  /\ work' = events /\ pos' = 0 /\ local' = <<>> /\ failed' = {}
  /\ parent' = from /\ state' = "loaded"
  /\ UNCHANGED <<pixelEvents, born, count, saved, same>>

Create ==
  /\ state = "new"
  /\ \E all \in Listings(pixelEvents) : Load(all, [saved |-> <<>>, failed |-> {}])

(* Events whose created_at precedes the retried session's.                 *)
EligibleSlip == pixelEvents
Eligible     == {e \in pixelEvents : born[e] < count}

RetrySession ==
  /\ state \in {"failed", "cancelled"} /\ count < MaxSessions
  /\ \E all \in Listings(Eligible) :
       Load(Selected(all, saved), [saved |-> saved, failed |-> failed])

(* replayRepo.Create, and executeReplay begins.                            *)
Insert ==
  /\ state = "loaded"
  /\ count' = count + 1 /\ state' = "running" /\ saved' = <<>>
  /\ UNCHANGED <<pixelEvents, born, work, pos, local, failed, parent, same>>

BatchEnd == AtMost(pos + BatchSize, Len(work))
Walking  == state = "running" /\ pos < Len(work)

BatchOk ==
  /\ Walking
  /\ pos' = BatchEnd
  /\ UNCHANGED <<pixelEvents, born, count, state, work, local, saved, failed, parent, same>>

FailedRangeSlip == [start |-> pos + 1, end |-> BatchEnd]
FailedRange     == [start |-> pos, end |-> BatchEnd]

BatchFails ==
  /\ Walking
  /\ pos' = BatchEnd
  /\ local' = Append(local, FailedRange)
  /\ failed' = failed \cup {work[i] : i \in pos + 1 .. BatchEnd}
  /\ UNCHANGED <<pixelEvents, born, count, state, work, saved, parent, same>>

End(as, ranges) ==
  /\ state' = as /\ saved' = ranges
  /\ UNCHANGED <<pixelEvents, born, count, work, pos, local, failed, parent, same>>

(* Shutdown or a cancellation seen by the poll: the ranges are saved.      *)
Interrupted == Walking /\ \E as \in {"failed", "cancelled"} : End(as, local)

(* An authentication error, a lost target pixel or a crash (of a session   *)
(* that may have been cancelled meanwhile): they are not.                  *)
Aborted == state = "running" /\ \E as \in {"failed", "cancelled"} : End(as, <<>>)

Finished ==
  /\ state = "running" /\ pos = Len(work)
  /\ LET allFailed == failed # {} /\ ToSet(work) = failed
     IN End(IF allFailed THEN "failed" ELSE "completed", local)

Store(e) ==
  /\ born[e] = NotYet
  /\ pixelEvents' = pixelEvents \cup {e}
  /\ born' = [born EXCEPT ![e] = count]
  /\ same' = (same /\ state # "loaded")
  /\ UNCHANGED <<count, state, work, pos, local, saved, failed, parent>>

(* DeleteExpiredByRetention: the events stored first go first.             *)
Expire(e) ==
  /\ e \in pixelEvents
  /\ \A f \in pixelEvents : born[e] <= born[f]
  /\ pixelEvents' = pixelEvents \ {e} /\ same' = FALSE
  /\ UNCHANGED <<born, count, state, work, pos, local, saved, failed, parent>>

RetryNext ==
  \/ Create \/ RetrySession \/ Insert
  \/ BatchOk \/ BatchFails \/ Interrupted \/ Aborted \/ Finished
  \/ \E e \in Events : Store(e) \/ Expire(e)

RetrySpec == RetryInit /\ [][RetryNext]_retryVars

-----------------------------------------------------------------------------
(* The ranges in memory are, in order and without overlap, exactly the     *)
(* positions of the events that failed (executeReplay).                    *)
Positions(rs) == UNION {rs[i].start + 1 .. rs[i].end : i \in DOMAIN rs}
RangesAreFailures ==
  /\ \A i, j \in DOMAIN local : i < j => local[i].end <= local[j].start
  /\ {work[i] : i \in Positions(local)} = failed

(* No event is twice in the list of a session, so none is sent twice by    *)
(* it, whatever was deleted or stored between the two loads (Retry).       *)
NoDuplicates == \A i, j \in DOMAIN work : work[i] = work[j] => i = j

(* A retry of a first session whose ranges were saved sends exactly the    *)
(* events that failed, whatever is stored in between: created_at < the     *)
(* session's keeps later events out even if their event_time is earlier.   *)
(* It needs distinct event times, no expiry and no event stored between    *)
(* the load and the insert; later retries count their ranges in the cut    *)
(* list and apply them to the whole one.                                   *)
FirstRetryExact ==
  /\ count = 2 /\ state # "loaded" /\ parent.saved # <<>> /\ same
  /\ \A e, f \in {g \in pixelEvents : born[g] = 0} : e # f => Time[e] # Time[f]
  => ToSet(work) = parent.failed
=============================================================================
