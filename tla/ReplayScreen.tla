----------------------------- MODULE ReplayScreen -----------------------------
(***************************************************************************)
(* The replay page of the dashboard (ReplayPage.tsx) and its hooks         *)
(* (use-replays.ts): the form, the preview, the confirmation, the session  *)
(* the page follows, its history, and the query cache behind them.  The    *)
(* engine it talks to is Replay.tla; here it is cut down to what it does   *)
(* to the status the page reads, its unconditional writes over a cancelled *)
(* row included, and every status write succeeds.                          *)
(***************************************************************************)
EXTENDS Integers, Sequences, FiniteSets, QueryCache

CONSTANTS Sources,     \* the customer's pixels
          Types,       \* event types
          TypesOf,     \* those stored for a pixel
          None,        \* no pixel chosen yet
          Credit,      \* the replay credit at the start, at most
          MaxSessions, MaxVisits, \* bounds
          MaxOverruns             \* on the cancellations written over

ASSUME ScreenAssumption ==
  /\ None \notin Sources /\ {Credit, MaxSessions} \subseteq Nat
  /\ TypesOf \in [Sources \cup {None} -> SUBSET Types] /\ TypesOf[None] = {}

VARIABLES sessions,   \* the server's rows: their status
          overrun,    \* those whose cancellation the engine wrote over
          remaining,  \* the replay credit left
          cache,      \* query cache: ['replays'] and ['replays', id]
          quota,      \* query ['billing', 'quota']: nothing or what it read
          mounted, visits,
          form,       \* the form, selectedEventTypes included
          preview,    \* the preview on show: the request it answers, the
                      \* formData kept for the confirmation, and whether the
                      \* form was edited in between
          previewing, \* its request under way
          active,     \* activeReplayId, 0 when null
          dialog,     \* cancelConfirm, 0 when null
          sent,       \* the mutation under way, one at a time
          heard       \* the calls whose success the page was told, by kind and session

server  == <<sessions, overrun, remaining>>
queries == <<cache, quota>>
page    == <<form, preview, previewing, active, dialog>>
screenVars == <<server, queries, mounted, visits, page, sent, heard>>

Settled  == {"ended", "cancelled"}     \* ended: completed or failed
Ids      == 1 .. MaxSessions
Statuses == {"live"} \cup Settled     \* live: pending or running
Forms    == [source : Sources \cup {None}, types : SUBSET Types]
List     == <<"replays", 0>>
One(s)   == <<"replay", s>>
Keys     == {List} \cup {One(s) : s \in Ids}

NewForm == [source |-> None, types |-> {}]
NoCall  == [kind |-> "none", at |-> "no", id |-> 0, mine |-> FALSE]

-----------------------------------------------------------------------------
\* The server, as far as the page can tell.

Exists(s) == s \in 1 .. Len(sessions)

\* The engine asks nothing of the row it writes: a cancellation is written over.
\* Where its goroutine stands only shows in which of these writes come: a row
\* that stays cancelled is one whose goroutine saw it, or was gone.
Write(s, status) ==
  /\ sessions[s] = "cancelled" => s \in overrun \/ Cardinality(overrun) < MaxOverruns
  /\ sessions' = [sessions EXCEPT ![s] = status]
  /\ overrun' = IF sessions[s] = "cancelled" THEN overrun \cup {s} ELSE overrun
  /\ UNCHANGED <<remaining, queries, mounted, visits, page, sent, heard>>

\* A session cancelled in the queue gets its slot and is running all the same.
Begin(s) ==
  /\ Exists(s) /\ sessions[s] = "cancelled" /\ s \notin overrun
  /\ Write(s, "live")

\* The last write: after the last batch, when the target is gone, at a shutdown
\* or by the recovery after a crash.
Finish(s) ==
  /\ Exists(s) /\ sessions[s] # "ended"
  /\ Write(s, "ended")

-----------------------------------------------------------------------------
\* The queries.

\* Of the history only its rows and which of them are cancelled matter here.
Answer(k) == IF k = List THEN [s \in 1 .. Len(sessions) |-> sessions[s] = "cancelled"]
                         ELSE sessions[k[2]]

Observed(k) == mounted /\ (k = List \/ (active # 0 /\ k = One(active)))

PollsSlip(k) == FALSE
\* refetchInterval: every two seconds while the data says it is not settled.
Polls(k) == k[1] = "replay" /\ Has(cache[k]) /\ cache[k].data[1] = "live"

Ask(k) ==
  /\ Observed(k) /\ (Wanted(cache[k]) \/ (Idle(cache[k]) /\ Polls(k)))
  /\ cache' = [cache EXCEPT ![k] = Asked(@, Answer(k))]
  /\ UNCHANGED <<server, quota, mounted, visits, page, sent, heard>>

Land(k) ==
  /\ ~Idle(cache[k])
  /\ cache' = [cache EXCEPT ![k] = Landed(@)]
  /\ UNCHANGED <<server, quota, mounted, visits, page, sent, heard>>

\* One that is wanted again may be asked for or not: the polls alone are sure to go on.
AskFails(k) ==
  /\ ~Idle(cache[k])
  /\ cache' = [cache EXCEPT ![k] = Dropped(@)]
  /\ UNCHANGED <<server, quota, mounted, visits, page, sent, heard>>

\* useQuota: read when the page finds no quota in the cache, and never after.
AskQuota ==
  /\ mounted /\ quota = <<>>
  /\ quota' = <<remaining>>
  /\ UNCHANGED <<server, cache, mounted, visits, page, sent, heard>>

Shown == IF active # 0 /\ Has(cache[One(active)]) THEN cache[One(active)].data ELSE <<>>

-----------------------------------------------------------------------------
\* The form, hidden by the preview and by the paywall.

Paywall == quota = <<0>>
FormShownSlip == mounted /\ ~Paywall
FormShown == mounted /\ ~Paywall /\ preview = <<>>

EditForm(f) ==
  /\ FormShown
  /\ form' = f
  /\ UNCHANGED <<server, queries, mounted, visits, preview, previewing, active, dialog, sent, heard>>

\* An effect clears the selected types when the source changes.
WithSource(p) == [source |-> p, types |-> {}]

PickSource(p) == p # form.source /\ EditForm(WithSource(p))

ToggleType(t) ==
  /\ t \in TypesOf[form.source]
  /\ EditForm([form EXCEPT !.types = IF t \in @ THEN @ \ {t} ELSE @ \cup {t}])

ToggleAll ==
  /\ TypesOf[form.source] # {}
  /\ EditForm([form EXCEPT !.types =
       IF Cardinality(@) = Cardinality(TypesOf[form.source]) THEN {} ELSE TypesOf[form.source]])

\* onPreview.
Preview ==
  /\ FormShown /\ previewing = <<>> /\ form.source # None
  /\ previewing' = <<form>>
  /\ UNCHANGED <<server, queries, mounted, visits, form, preview, active, dialog, sent, heard>>

LandPreview ==
  /\ previewing # <<>>
  /\ preview' = <<[form |-> previewing[1], edited |-> form # previewing[1]]>>
  /\ previewing' = <<>>
  /\ UNCHANGED <<server, queries, mounted, visits, form, active, dialog, sent, heard>>

PreviewFails ==
  /\ previewing # <<>>
  /\ previewing' = <<>>
  /\ UNCHANGED <<server, queries, mounted, visits, form, preview, active, dialog, sent, heard>>

Back ==
  /\ mounted /\ preview # <<>> /\ ~Paywall
  /\ preview' = <<>>
  /\ UNCHANGED <<server, queries, mounted, visits, form, previewing, active, dialog, sent, heard>>

-----------------------------------------------------------------------------
\* Mutations.  Each is sent, done by the server, and answered.

Send(call) ==
  /\ mounted /\ sent.at = "no"
  /\ sent' = [call EXCEPT !.at = "sent", !.mine = TRUE]

\* onConfirmReplay: the kept formData with the types selected now.
Confirmed == [source |-> preview[1].form.source, types |-> form.types]

Confirm ==
  /\ preview # <<>> /\ ~Paywall
  /\ Send([NoCall EXCEPT !.kind = "create"])
  /\ UNCHANGED <<server, queries, mounted, visits, page, heard>>

\* canCancel, and the dialog that asks once more.
AskCancel ==
  /\ mounted /\ Shown # <<>> /\ Shown[1] = "live" /\ sent.kind # "cancel"
  /\ dialog' = active
  /\ UNCHANGED <<server, queries, mounted, visits, form, preview, previewing, active, sent, heard>>

KeepRunning ==
  /\ dialog # 0
  /\ dialog' = 0
  /\ UNCHANGED <<server, queries, mounted, visits, form, preview, previewing, active, sent, heard>>

Cancel ==
  /\ dialog # 0
  /\ Send([NoCall EXCEPT !.kind = "cancel", !.id = dialog])
  /\ dialog' = 0
  /\ UNCHANGED <<server, queries, mounted, visits, form, preview, previewing, active, heard>>

\* canRetry; whether an ended session failed, and events in it, is left open.
Retry ==
  /\ Shown # <<>> /\ Shown[1] \in Settled
  /\ Send([NoCall EXCEPT !.kind = "retry", !.id = active])
  /\ UNCHANGED <<server, queries, mounted, visits, page, heard>>

\* The server carries the call out: a new session, or another for one that is
\* settled, each for a credit; or the cancellation of one that is live, which
\* gives the credit back if it was pending when the handler read it.
Carry ==
  /\ sent.at = "sent"
  /\ \/ /\ sent.kind \in {"create", "retry"} /\ Len(sessions) < MaxSessions /\ remaining > 0
        /\ sent.kind = "retry" => sessions[sent.id] \in Settled
        /\ sessions' = Append(sessions, "live")
        /\ remaining' = remaining - 1
        /\ sent' = [sent EXCEPT !.at = "done", !.id = Len(sessions) + 1]
     \/ /\ sent.kind = "cancel" /\ sessions[sent.id] = "live"
        /\ sessions' = [sessions EXCEPT ![sent.id] = "cancelled"]
        /\ remaining' \in {remaining, remaining + 1} /\ remaining' <= Credit
        /\ sent' = [sent EXCEPT !.at = "done"]
  /\ UNCHANGED <<overrun, queries, mounted, visits, page, heard>>

InvalidatesSlip(kind) == {List}
\* onSuccess of all three: everything under ['replays'], the quota not.
Invalidates(kind) == {List} \cup {One(s) : s \in Ids}

\* The handler that awaits the answer; the hook's part runs without the page.
Succeeds ==
  /\ sent.at = "done"
  /\ cache' = [k \in Keys |-> IF k \in Invalidates(sent.kind) THEN Outdated(cache[k], Observed(k)) ELSE cache[k]]
  /\ heard' = heard \cup {<<sent.kind, sent.id>>}
  /\ sent' = NoCall
  /\ active' = IF sent.mine /\ sent.kind # "cancel" THEN sent.id ELSE active
  /\ preview' = IF sent.mine /\ sent.kind = "create" THEN <<>> ELSE preview
  /\ UNCHANGED <<server, quota, mounted, visits, form, previewing, dialog>>

\* Refused (no credit left, already settled), or lost on the way.
Fails ==
  /\ sent.at # "no"
  /\ sent' = NoCall
  /\ UNCHANGED <<server, queries, mounted, visits, page, heard>>

-----------------------------------------------------------------------------
\* The history, on show while no session is, and leaving the page.

OpenSession(s) ==
  /\ mounted /\ Shown = <<>> /\ Has(cache[List])
  /\ s \in 1 .. Len(cache[List].data[1])
  /\ active' = s
  /\ UNCHANGED <<server, queries, mounted, visits, form, preview, previewing, dialog, sent, heard>>

Leave ==
  /\ mounted
  /\ mounted' = FALSE
  /\ form' = NewForm /\ preview' = <<>> /\ previewing' = <<>> /\ active' = 0 /\ dialog' = 0
  /\ sent' = [sent EXCEPT !.mine = FALSE]
  /\ UNCHANGED <<server, queries, visits, heard>>

\* What the cache holds may have grown old by then: five minutes.
Enter ==
  /\ ~mounted /\ visits < MaxVisits
  /\ mounted' = TRUE /\ visits' = visits + 1
  /\ \/ UNCHANGED queries
     \/ cache' = [k \in Keys |-> Aged(cache[k])] /\ quota' = <<>>
  /\ UNCHANGED <<server, page, sent, heard>>

-----------------------------------------------------------------------------
ScreenInit ==
  /\ sessions = <<>> /\ overrun = {} /\ remaining \in 0 .. Credit
  /\ cache = [k \in Keys |-> NoEntry] /\ quota = <<>>
  /\ mounted = FALSE /\ visits = 0
  /\ form = NewForm /\ preview = <<>> /\ previewing = <<>> /\ active = 0 /\ dialog = 0
  /\ sent = NoCall /\ heard = {}

ScreenNext ==
  \/ \E s \in Ids : Begin(s) \/ Finish(s) \/ OpenSession(s)
  \/ \E k \in Keys : Ask(k) \/ Land(k) \/ AskFails(k)
  \/ AskQuota
  \/ \E p \in Sources \cup {None} : PickSource(p)
  \/ \E t \in Types : ToggleType(t)
  \/ ToggleAll
  \/ Preview \/ LandPreview \/ PreviewFails \/ Back
  \/ Confirm \/ AskCancel \/ KeepRunning \/ Cancel \/ Retry
  \/ Carry \/ Succeeds \/ Fails
  \/ Leave \/ Enter

\* A session that is not cancelled comes to its end, the timer of one that was
\* read as live polls it, and not every poll fails.
ScreenFairness ==
  /\ WF_screenVars(\E s \in Ids : Exists(s) /\ sessions[s] = "live" /\ Finish(s))
  /\ WF_screenVars(\E s \in Ids : Polls(One(s)) /\ Ask(One(s)))
  /\ SF_screenVars(\E s \in Ids : Land(One(s)))

ScreenSpec == ScreenInit /\ [][ScreenNext]_screenVars /\ ScreenFairness

-----------------------------------------------------------------------------
\* Properties.

ScreenTypeOK ==
  /\ sessions \in Seq(Statuses) /\ Len(sessions) <= MaxSessions /\ remaining \in 0 .. Credit
  /\ overrun \subseteq 1 .. Len(sessions)
  /\ form \in Forms /\ form.types \subseteq TypesOf[form.source]
  /\ active \in 0 .. Len(sessions) /\ dialog \in 0 .. Len(sessions)
  /\ preview # <<>> => previewing = <<>> /\ preview[1].form \in Forms
  /\ EntryOK(cache[List], Seq(BOOLEAN)) /\ Holds(quota, 0 .. Credit)
  /\ \A s \in Ids : EntryOK(cache[One(s)], Statuses)
  /\ sent.at \in {"no", "sent", "done"}

\* What a confirmation would replay is what the preview on show counted,
\* whatever was edited, gone back on or answered in between.  Edits of the form while its preview loads apart.
ConfirmsThePreview == (preview # <<>> /\ ~preview[1].edited) => Confirmed = preview[1].form

\* An answer the page has heard shows in every entry that passes for current:
\* the session it made in the history, the end it gave one there and on the card.
\* What was read before the mutation outlives its answer only in an entry whose
\* fetch the invalidation let run on: a first one, or one nobody observed (late).
\* A cancellation the engine wrote over apart: the page told of it shows what
\* the row says by then.
OwnChangesShow ==
  \A call \in heard :
    /\ Vouched(cache[List]) => call[2] <= Len(cache[List].data[1])
    /\ call[1] = "cancel" /\ call[2] \notin overrun =>
         /\ Vouched(cache[List]) => cache[List].data[1][call[2]]
         /\ Vouched(cache[One(call[2])]) => cache[One(call[2])].data[1] = "cancelled"

\* Whoever keeps looking at a session sees it settle: the page never goes on
\* for ever showing one as live, and what it settles on showing is how the
\* session ended.  To leave it, or to turn to a new session, ends the watch, for
\* then nothing is on show.  Not so for a cancelled session that runs after all:
\* the page that read "cancelled" polls no more and never learns of the end.
SettlingIsSeen ==
  []<>\/ Shown = <<>>
      \/ Shown[1] \in Settled /\ (Shown[1] = sessions[active] \/ active \in overrun)
=============================================================================
