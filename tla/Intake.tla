-------------------------------- MODULE Intake --------------------------------
(***************************************************************************)
(* How the events of a customer's visitors come in (event_service.go): a   *)
(* request takes its whole batch from the month's quota, reads the pixels, *)
(* stores the events one by one, gives back what it did not store, and     *)
(* leaves a goroutine behind for every event and every backup pixel, which *)
(* forwards it to Facebook.  Customer and administrator change the pixels  *)
(* meanwhile (pixel_service.go, SetPixelActive), and the nightly cleanup   *)
(* deletes what is older than the customer's retention.                    *)
(* One database statement, or one call of Facebook with its retries, is    *)
(* one step.                                                               *)
(***************************************************************************)
EXTENDS Naturals, Sequences, FiniteSets, SequencesExt

CONSTANTS Pixels, None,   \* the customer's pixels; no backup pixel
          BackupOf,       \* the backup pixel of each at the start
          Used,           \* those the visitors' pages carry
          Ids,            \* event ids the visitors' browsers give
          Handlers,       \* requests served at a time
          Allowed,        \* events the plan allows a month
          Tokens,         \* capacity of capiSem, 50
          BatchSize, MaxRequests, MaxMonth, MaxUpsets  \* bounds

ASSUME IntakeAssumption ==
  /\ None \notin Pixels /\ Used \subseteq Pixels /\ IsFiniteSet(Handlers)
  /\ BackupOf \in [Pixels -> Pixels \cup {None}] /\ \A p \in Pixels : BackupOf[p] # p
  /\ Tokens \in Nat \ {0} /\ MaxMonth \in Nat \ {0}
  /\ {Allowed, BatchSize, MaxRequests, MaxUpsets} \subseteq Nat

VARIABLES pixels,      \* table pixels: is_active and backup_pixel_id of each row
          month, usage,  \* table event_usage
          stored,      \* table pixel_events
          marks,       \* their capi_response_code: none, ok (200) or error
          request,     \* the requests being served
          forward,     \* the forwarding goroutines
          sem,         \* tokens of capiSem taken
          editing,     \* PixelService.Update between its read and its write
          kept, leaked,  \* events stored, and events lost to the count, by the month
                         \* they were charged to
          loose,       \* a month ended, or an insert's answer was lost, in a request
          again,       \* a goroutine was begun for an event that had one, and
                       \* that retention has not deleted since
          off,         \* pixels the administrator switched off and nobody on again
          served, upsets  \* counted for the bounds

tables == <<pixels, usage, stored, marks>>
books  == <<kept, leaked, loose, again>>
bounds == <<served, upsets>>
intakeVars == <<tables, month, request, forward, sem, editing, books, off, bounds>>

Months == 1 .. MaxMonth
Events == [pixel : Used, id : Ids]
Roles  == {"own", "backup"}
Jobs   == Events \X Roles
Row    == [there : BOOLEAN, active : BOOLEAN, backup : Pixels \cup {None}]
NoRow  == [there |-> FALSE, active |-> FALSE, backup |-> None]
Working == {"fetch", "send", "mark"}      \* a goroutine then holds a token
Steps  == {"none", "queued", "done"} \cup Working
NoJob  == [at |-> "none", to |-> None, ok |-> FALSE]

NoRequest == [at |-> "idle", batch |-> <<>>, size |-> 0, created |-> 0, month |-> 1,
              seen |-> [p \in Pixels |-> NoRow], shut |-> {}]

\* A failure, a change of a pixel, the end of a month or of an event's retention.
Upset == upsets < MaxUpsets /\ upsets' = upsets + 1

-----------------------------------------------------------------------------
\* Ingest.

Batches == SeqOf(Events, BatchSize) \ {<<>>}

\* CheckAndIncrement refuses a batch that does not fit in one statement.
Fits(n) == usage[month] + n <= Allowed

Accept(h, batch) ==
  /\ request[h].at = "idle" /\ served < MaxRequests /\ Fits(Len(batch))
  /\ served' = served + 1
  /\ usage' = [usage EXCEPT ![month] = @ + Len(batch)]
  /\ request' = [request EXCEPT ![h] =
                   [NoRequest EXCEPT !.at = "pixels", !.batch = batch, !.size = Len(batch),
                                     !.month = month, !.shut = off]]
  /\ UNCHANGED <<pixels, stored, marks, month, forward, sem, editing, books, off, upsets>>

ReadPixels(h) ==
  /\ request[h].at = "pixels"
  /\ request' = [request EXCEPT ![h].at = "events", ![h].seen = pixels]
  /\ UNCHANGED <<tables, month, forward, sem, editing, books, off, bounds>>

Reserved(r) == r.size - r.created

\* The places of the quota of month m that requests hold, numbered in each.
Held(m) ==
  {place \in Handlers \X (1 .. BatchSize) :
     LET r == request[place[1]] IN
     r.at # "idle" /\ r.month = m /\ place[2] <= Reserved(r)}

\* The request ends and what it reserved stays counted.
Dropped(h) ==
  /\ request' = [request EXCEPT ![h] = NoRequest]
  /\ leaked' = [leaked EXCEPT ![request[h].month] = @ + Reserved(request[h])]

ReadFails(h) ==
  /\ request[h].at = "pixels" /\ Upset
  /\ Dropped(h)
  /\ UNCHANGED <<tables, month, forward, sem, editing, kept, loose, again, off, served>>

Inserting(h) == request[h].at = "events" /\ request[h].batch # <<>>
Event(h)     == Head(request[h].batch)
Seen(h)      == request[h].seen[Event(h).pixel]
Past(h)      == [request[h] EXCEPT !.batch = Tail(@)]

\* The row the request has read; a row deleted since breaks the foreign key.
Insertable(h) == Seen(h).active /\ pixels[Event(h).pixel].there

FreshSlip(h) == TRUE
\* The unique index on pixel and event id.
Fresh(h) == Event(h) \notin stored

Begun(h, backup) ==
  [forward EXCEPT ![<<Event(h), "own">>] = [NoJob EXCEPT !.at = "queued", !.to = Event(h).pixel],
                  ![<<Event(h), "backup">>] =
                     IF backup = None THEN @ ELSE [NoJob EXCEPT !.at = "queued", !.to = backup]]

Created(h) == [request[h] EXCEPT !.batch = Tail(@), !.created = @ + 1]

Insert(h) ==
  /\ Inserting(h) /\ Insertable(h) /\ Fresh(h)
  /\ stored' = stored \cup {Event(h)}
  /\ forward' = Begun(h, Seen(h).backup)
  /\ request' = [request EXCEPT ![h] = Created(h)]
  /\ kept' = [kept EXCEPT ![request[h].month] = @ + 1]
  /\ again' = (again \/ forward[<<Event(h), "own">>] # NoJob)
  /\ UNCHANGED <<pixels, usage, marks, month, sem, editing, leaked, loose, off, bounds>>

\* An inactive or deleted pixel, or an event that is there already.
Skip(h) ==
  /\ Inserting(h) /\ ~(Insertable(h) /\ Fresh(h))
  /\ request' = [request EXCEPT ![h] = Past(h)]
  /\ UNCHANGED <<tables, month, forward, sem, editing, books, off, bounds>>

InsertFails(h) ==
  /\ Inserting(h) /\ Insertable(h) /\ Upset
  /\ request' = [request EXCEPT ![h] = Past(h)]
  /\ UNCHANGED <<tables, month, forward, sem, editing, books, off, served>>

\* The row is there and the request does not know.
InsertUnheard(h) ==
  /\ Inserting(h) /\ Insertable(h) /\ Fresh(h) /\ Upset
  /\ stored' = stored \cup {Event(h)}
  /\ request' = [request EXCEPT ![h] = Past(h)]
  /\ kept' = [kept EXCEPT ![request[h].month] = @ + 1]
  /\ loose' = TRUE
  /\ UNCHANGED <<pixels, usage, marks, month, forward, sem, editing, leaked, again, off, served>>

Refunding(h) == request[h].at = "events" /\ request[h].batch = <<>>

Less(n, k) == IF n < k THEN 0 ELSE n - k      \* GREATEST(0, n - k)

SkippedSlip(h) == request[h].size
Skipped(h) == Reserved(request[h])

\* DecrementEventQuota, of the month that is current now, and the answer.
Refund(h) ==
  /\ Refunding(h)
  /\ usage' = [usage EXCEPT ![month] = Less(@, Skipped(h))]
  /\ request' = [request EXCEPT ![h] = NoRequest]
  /\ UNCHANGED <<pixels, stored, marks, month, forward, sem, editing, books, off, bounds>>

RefundFails(h) ==
  /\ Refunding(h) /\ Skipped(h) > 0 /\ Upset
  /\ Dropped(h)
  /\ UNCHANGED <<tables, month, forward, sem, editing, kept, loose, again, off, served>>

Busy == {h \in Handlers : request[h].at # "idle"}

NextMonth ==
  /\ month < MaxMonth /\ Upset
  /\ month' = month + 1
  /\ loose' = (loose \/ Busy # {})
  /\ UNCHANGED <<tables, request, forward, sem, editing, kept, leaked, again, off, served>>

-----------------------------------------------------------------------------
\* The goroutines.  The event's own pixel is used as the request read it, the
\* backup pixel is read again.

Doing(j, step) == forward[j].at = step
To(j, step) == forward' = [forward EXCEPT ![j].at = step]

Acquire(j) ==
  /\ Doing(j, "queued") /\ sem < Tokens
  /\ sem' = sem + 1
  /\ To(j, IF j[2] = "backup" THEN "fetch" ELSE "send")
  /\ UNCHANGED <<tables, month, request, editing, books, off, bounds>>

FinishSlip(j) == To(j, "done") /\ sem' = IF Doing(j, "mark") THEN sem - 1 ELSE sem
\* Every way out gives the token back.
Finish(j) == To(j, "done") /\ sem' = sem - 1

FetchBackup(j) ==
  /\ Doing(j, "fetch")
  /\ IF pixels[forward[j].to].active THEN To(j, "send") /\ UNCHANGED sem ELSE Finish(j)
  /\ UNCHANGED <<tables, month, request, editing, books, off, bounds>>

FetchFails(j) ==
  /\ Doing(j, "fetch") /\ Upset
  /\ Finish(j)
  /\ UNCHANGED <<tables, month, request, editing, books, off, served>>

\* Taken, or not as far as the answer says; up to four attempts.
Send(j, taken) ==
  /\ Doing(j, "send")
  /\ forward' = [forward EXCEPT ![j].at = "mark", ![j].ok = taken]
  /\ UNCHANGED <<tables, month, request, sem, editing, books, off, bounds>>

Code(j) == IF forward[j].ok THEN "ok" ELSE "error"

\* The event's own and its backup goroutine write the same columns.
MarkForwarded(j) ==
  /\ Doing(j, "mark")
  /\ marks' = IF j[1] \in stored THEN [marks EXCEPT ![j[1]] = Code(j)] ELSE marks
  /\ Finish(j)
  /\ UNCHANGED <<pixels, usage, stored, month, request, editing, books, off, bounds>>

MarkFails(j) ==
  /\ Doing(j, "mark") /\ Upset
  /\ Finish(j)
  /\ UNCHANGED <<tables, month, request, editing, books, off, served>>

\* The server stops: srv.Shutdown waits for requests, as long as it does, and
\* nothing waits for these goroutines.
Exit ==
  /\ Upset
  /\ request' = [h \in Handlers |-> NoRequest]
  /\ leaked' = [m \in Months |-> leaked[m] + Cardinality(Held(m))]
  /\ forward' = [j \in Jobs |-> [forward[j] EXCEPT !.at = IF @ = "none" THEN @ ELSE "done"]]
  /\ sem' = 0
  /\ editing' = <<>>
  /\ UNCHANGED <<tables, month, kept, loose, again, off, served>>

-----------------------------------------------------------------------------
\* The pixels.  shut in a request: those that are off since before it began.

Reopened(p) == [h \in Handlers |-> [request[h] EXCEPT !.shut = @ \ {p}]]

\* The administrator's one statement.
SetPixelActive(p, active) ==
  /\ pixels[p].there /\ pixels[p].active # active /\ Upset
  /\ pixels' = [pixels EXCEPT ![p].active = active]
  /\ off' = IF active THEN off \ {p} ELSE off \cup {p}
  /\ request' = IF active THEN Reopened(p) ELSE request
  /\ UNCHANGED <<usage, stored, marks, month, forward, sem, editing, books, served>>

UpdateRead(p) ==
  /\ editing = <<>> /\ pixels[p].there /\ Upset
  /\ editing' = <<[pixel |-> p, row |-> pixels[p]]>>
  /\ UNCHANGED <<tables, month, request, forward, sem, books, off, served>>

MergedSlip(row, active, backup) == [row EXCEPT !.active = (active # "no"), !.backup = backup]
\* A field the request leaves out keeps the value that was read.
Merged(row, active, backup) ==
  [row EXCEPT !.active = IF active = "keep" THEN @ ELSE active = "yes", !.backup = backup]

\* The whole row goes back; a row that is gone is not written, and a backup
\* that is gone by now breaks the foreign key.
UpdateWrite(active, backup) ==
  LET p   == editing[1].pixel
      row == Merged(editing[1].row, active, backup)
      on  == row.active /\ (active = "yes" \/ editing[1].row.active) IN
  /\ editing # <<>> /\ backup # p
  /\ editing' = <<>>
  /\ IF pixels[p].there /\ (backup = None \/ pixels[backup].there)
     THEN /\ pixels' = [pixels EXCEPT ![p] = row]
          /\ off' = IF on THEN off \ {p} ELSE off
          /\ request' = IF on THEN Reopened(p) ELSE request
     ELSE UNCHANGED <<pixels, off, request>>
  /\ UNCHANGED <<usage, stored, marks, month, forward, sem, books, bounds>>

\* Its events go with it, and it is nobody's backup any more.
DeletePixel(p) ==
  /\ pixels[p].there /\ Upset
  /\ pixels' = [q \in Pixels |-> IF q = p THEN NoRow
                                 ELSE [pixels[q] EXCEPT !.backup = IF @ = p THEN None ELSE @]]
  /\ stored' = {e \in stored : e.pixel # p}
  /\ marks' = [e \in Events |-> IF e.pixel = p THEN "none" ELSE marks[e]]
  /\ UNCHANGED <<usage, month, request, forward, sem, editing, books, off, served>>

-----------------------------------------------------------------------------
\* Retention.  It counts in days and a goroutine in minutes, so those of an event
\* that is deleted have ended.  With the row goes all that tells a repeat of the
\* event from a new one: to the unique index the next one of its id is the first.

Ended(e) == \A role \in Roles : forward[<<e, role>>].at \in {"none", "done"}

Expire(e) ==
  /\ e \in stored /\ Ended(e) /\ Upset
  /\ stored' = stored \ {e}
  /\ marks' = [marks EXCEPT ![e] = "none"]
  /\ forward' = [j \in Jobs |-> IF j[1] = e THEN NoJob ELSE forward[j]]
  /\ UNCHANGED <<pixels, usage, month, request, sem, editing, books, off, served>>

-----------------------------------------------------------------------------
IntakeInit ==
  /\ pixels = [p \in Pixels |-> [there |-> TRUE, active |-> TRUE, backup |-> BackupOf[p]]]
  /\ month = 1 /\ usage = [m \in Months |-> 0]
  /\ stored = {} /\ marks = [e \in Events |-> "none"]
  /\ request = [h \in Handlers |-> NoRequest] /\ forward = [j \in Jobs |-> NoJob] /\ sem = 0
  /\ editing = <<>>
  /\ kept = [m \in Months |-> 0] /\ leaked = [m \in Months |-> 0] /\ loose = FALSE
  /\ again = FALSE /\ off = {} /\ served = 0 /\ upsets = 0

Goroutine(j) ==
  \/ Acquire(j) \/ FetchBackup(j) \/ MarkForwarded(j)
  \/ \E taken \in BOOLEAN : Send(j, taken)

IntakeNext ==
  \/ \E h \in Handlers :
       \/ \E batch \in Batches : Accept(h, batch)
       \/ ReadPixels(h) \/ ReadFails(h)
       \/ Insert(h) \/ Skip(h) \/ InsertFails(h) \/ InsertUnheard(h)
       \/ Refund(h) \/ RefundFails(h)
  \/ NextMonth
  \/ \E j \in Jobs : Goroutine(j) \/ FetchFails(j) \/ MarkFails(j)
  \/ Exit
  \/ \E p \in Pixels :
       \/ \E active \in BOOLEAN : SetPixelActive(p, active)
       \/ UpdateRead(p) \/ DeletePixel(p)
  \/ \E e \in Events : Expire(e)
  \/ \E active \in {"keep", "yes", "no"}, backup \in Pixels \cup {None} : UpdateWrite(active, backup)

\* The Go scheduler runs every goroutine, and a channel serves those that wait
\* in turn.
IntakeSpec ==
  /\ IntakeInit /\ [][IntakeNext]_intakeVars
  /\ \A j \in Jobs : WF_intakeVars(Goroutine(j))

-----------------------------------------------------------------------------
\* Properties.

\* Every variable has its type, and the tokens taken are those of the
\* goroutines at work.
IntakeTypeOK ==
  /\ pixels \in [Pixels -> Row]
  /\ \A p \in Pixels : pixels[p].backup # None => pixels[pixels[p].backup].there
  /\ usage \in [Months -> 0 .. Allowed]
  /\ stored \subseteq Events
  /\ \A e \in Events \ stored : marks[e] = "none"
  /\ \A j \in Jobs : forward[j].at \in Steps /\ forward[j].to \in Pixels \cup {None}
  /\ sem = Cardinality({j \in Jobs : forward[j].at \in Working}) /\ sem <= Tokens

\* The count of a month is what was stored on its account, what requests still
\* hold and what failures left behind, whatever requests, refunds and restarts
\* come together; refunds after the month's end and inserts whose answer was
\* lost (loose) apart.
UsageLedger ==
  ~loose => \A m \in Months :
    usage[m] = kept[m] + leaked[m] + Cardinality(Held(m))

\* However often a visitor's browser sends an event, to however many requests,
\* one goroutine at most sends it to Facebook for its pixel, until retention
\* deletes it: a repeat after that is stored, counted and forwarded once more.
ForwardedOnce == ~again

\* A request that begins after the administrator switched a pixel off stores
\* nothing for it, as long as nobody switches it on: an update of the customer
\* that does not mention is_active leaves it off, unless it read the row before.
SwitchedOffTakesNothing ==
  \A h \in Handlers : request[h].at = "events" =>
    \A p \in request[h].shut : ~request[h].seen[p].active

\* A forwarding goroutine comes to its end: none waits for a token for ever.
EveryForwardEnds == \A j \in Jobs : forward[j].at = "queued" ~> forward[j].at = "done"
===============================================================================
