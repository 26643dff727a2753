-------------------------- MODULE ReplayScreenProofs --------------------------
(***************************************************************************)
(* What holds of the replay page for any number of sessions, pixels and    *)
(* event types: the types, ConfirmsThePreview and OwnChangesShow of        *)
(* ReplayScreen.                                                           *)
(***************************************************************************)
EXTENDS ReplayScreen, TLAPS

-----------------------------------------------------------------------------
(* The form and the preview. *)

(* The form cannot change under a preview, and one that changed while the  *)
(* preview was under way is marked when it lands.  No preview is asked for *)
(* under another.                                                          *)
FormInv ==
  /\ form \in Forms /\ form.types \subseteq TypesOf[form.source]
  /\ previewing # <<>> => previewing[1] \in Forms
  /\ preview # <<>> => /\ previewing = <<>> /\ preview[1].form \in Forms
                       /\ ~preview[1].edited => form = preview[1].form

LEMMA FormInitially == ScreenInit => FormInv
  BY DEF ScreenInit, FormInv, NewForm, Forms

(* An edit leaves a form behind, and only while no preview is on show.     *)
LEMMA EditKeepsForm ==
  ASSUME FormInv, NEW f \in Forms, f.types \subseteq TypesOf[f.source], EditForm(f)
  PROVE  FormInv'
  BY DEF FormInv, EditForm, FormShown

LEMMA NextKeepsForm ==
  ASSUME ScreenAssumption, FormInv, [ScreenNext]_screenVars
  PROVE  FormInv'
<1>1. CASE UNCHANGED <<form, preview, previewing>>
  BY <1>1 DEF FormInv
<1>2. ASSUME NEW p \in Sources \cup {None}, PickSource(p)
      PROVE  FormInv'
  <2>1. WithSource(p) \in Forms /\ WithSource(p).types = {}
    BY DEF WithSource, Forms
  <2> QED
    BY <1>2, <2>1, EditKeepsForm DEF PickSource
<1>3. ASSUME \E t \in Types : ToggleType(t)
      PROVE  FormInv'
  <2>1. PICK t \in Types : ToggleType(t)
    BY <1>3
  <2> DEFINE f == [form EXCEPT !.types = IF t \in @ THEN @ \ {t} ELSE @ \cup {t}]
  <2>2. f \in Forms /\ f.types \subseteq TypesOf[f.source]
    BY <2>1 DEF FormInv, Forms, ToggleType
  <2> QED
    BY <2>1, <2>2, EditKeepsForm DEF ToggleType
<1>4. ASSUME ToggleAll
      PROVE  FormInv'
  <2>1. TypesOf[form.source] \subseteq Types
    BY DEF FormInv, Forms, ScreenAssumption
  <2> DEFINE f == [form EXCEPT !.types = IF Cardinality(@) = Cardinality(TypesOf[form.source])
                                         THEN {} ELSE TypesOf[form.source]]
  <2>2. f \in Forms /\ f.types \subseteq TypesOf[f.source]
    BY <2>1 DEF FormInv, Forms
  <2> QED
    BY <1>4, <2>2, EditKeepsForm DEF ToggleAll
<1>5. CASE Preview \/ PreviewFails \/ Back
  BY <1>5 DEF Preview, FormShown, PreviewFails, Back, FormInv
<1>9. CASE LandPreview
  <2> DEFINE asked == previewing[1]
  <2>1. /\ asked \in Forms /\ form' = form /\ previewing' = <<>>
        /\ preview' = <<[form |-> asked, edited |-> form # asked]>>
    BY <1>9 DEF LandPreview, FormInv
  <2> HIDE DEF asked
  <2>2. preview'[1].form = asked /\ preview'[1].edited = (form # asked)
    BY <2>1
  <2> QED
    BY <2>1, <2>2 DEF FormInv
<1>6. CASE Leave
  BY <1>6 DEF Leave, FormInv, NewForm, Forms
<1>7. CASE Succeeds
  BY <1>7 DEF Succeeds, FormInv
<1>8. CASE \/ \E s \in Ids : Begin(s) \/ Finish(s) \/ OpenSession(s)
           \/ \E k \in Keys : Ask(k) \/ Land(k) \/ AskFails(k)
           \/ AskQuota \/ Confirm \/ AskCancel \/ KeepRunning \/ Cancel \/ Retry
           \/ Carry \/ Fails \/ Enter \/ UNCHANGED screenVars
  BY <1>1, <1>8 DEF Begin, Finish, Write, OpenSession, Ask, Land, AskFails, AskQuota, Confirm, AskCancel,
                    KeepRunning, Cancel, Retry, Carry, Fails, Enter, page, screenVars
<1> QED
  BY <1>2, <1>3, <1>4, <1>5, <1>6, <1>7, <1>8, <1>9 DEF ScreenNext

(* Confirming sends what the preview on show counted (onConfirmReplay),    *)
(* whatever pixels and types there are and however edits, previews and     *)
(* answers interleave.                                                     *)
THEOREM PreviewIsConfirmed == ScreenSpec => []ConfirmsThePreview
<1>1. FormInv => ConfirmsThePreview
  BY DEF FormInv, ConfirmsThePreview, Confirmed, Forms
<1> QED
  BY <1>1, FormInitially, NextKeepsForm, ScreenAssumption, PTL DEF ScreenSpec

-----------------------------------------------------------------------------
(* The query cache. *)

Lists  == {v \in Seq(BOOLEAN) : Len(v) <= Len(sessions)}
Values(k) == IF k = List THEN Lists ELSE Statuses

Calls == [kind : {"none", "create", "retry", "cancel"}, at : {"no", "sent", "done"},
          id : Nat, mine : BOOLEAN]

(* A session the page follows, asks about or has made is one the server    *)
(* has.                                                                    *)
Known(id) == id \in 0 .. Len(sessions)
RowsInv ==
  /\ sessions \in Seq(Statuses) /\ Len(sessions) <= MaxSessions
  /\ overrun \subseteq 1 .. Len(sessions)
  /\ Known(active) /\ Known(dialog) /\ Known(sent.id)
  /\ sent \in Calls

(* So is every row of a history that was read.                             *)
EntriesInv ==
  /\ cache = [k \in Keys |-> cache[k]]
  /\ \A k \in Keys : cache[k] \in Entries(Values(k))

(* What the server has done for a call stays done, a cancellation unless   *)
(* the engine writes over it.                                              *)
Done(kind, id) ==
  /\ id \in 1 .. Len(sessions)
  /\ kind = "cancel" => sessions[id] = "cancelled" \/ id \in overrun
DoneInv ==
  /\ sent.at = "done" => Done(sent.kind, sent.id)
  /\ sent.at = "sent" /\ sent.kind = "cancel" => sent.id # 0
  /\ \A call \in heard : Done(call[1], call[2])

(* The value v of the entry k knows of what the page has heard; so does    *)
(* every entry that is vouched for, and every answer under way that no     *)
(* invalidation has outrun.                                                *)
Told(k, v) ==
  \A call \in heard :
    /\ k = List => call[2] <= Len(v)
    /\ call[1] = "cancel" /\ call[2] \notin overrun =>
         /\ k = List => v[call[2]]
         /\ k = One(call[2]) => v = "cancelled"
EntryTold(k, e) ==
  /\ Vouched(e) => Told(k, e.data[1])
  /\ ~Idle(e) /\ ~e.outrun => Told(k, e.answer[1])
ToldInv == \A k \in Keys : EntryTold(k, cache[k])

CacheInv == RowsInv /\ EntriesInv /\ DoneInv /\ ToldInv

LEMMA CacheInitially == ScreenAssumption /\ ScreenInit => CacheInv
<1> SUFFICES ASSUME ScreenAssumption, ScreenInit PROVE CacheInv
  OBVIOUS
<1>1. (\A V : NoEntry \in Entries(V)) /\ NoEntry.data = <<>> /\ NoEntry.answer = <<>>
  BY DEF NoEntry, Entries, Shapes, Maybe
<1>2. List \in Keys /\ cache = [k \in Keys |-> NoEntry]
  BY DEF Keys, ScreenInit
<1>3. Len(sessions) = 0 /\ sessions \in Seq(Statuses) /\ MaxSessions \in Nat
  BY DEF ScreenInit, ScreenAssumption
<1>4. RowsInv /\ EntriesInv
  BY <1>1, <1>2, <1>3 DEF RowsInv, EntriesInv, Calls, ScreenInit, NoCall, Known
<1>5. DoneInv
  BY DEF DoneInv, ScreenInit, NoCall
<1>6. ToldInv
  BY <1>2 DEF ToldInv, EntryTold, Told, ScreenInit
<1> QED
  BY <1>4, <1>5, <1>6 DEF CacheInv

LEMMA CacheInvSuffices == CacheInv => OwnChangesShow
<1> SUFFICES ASSUME CacheInv, NEW call \in heard
             PROVE  /\ Vouched(cache[List]) => call[2] <= Len(cache[List].data[1])
                    /\ call[1] = "cancel" /\ call[2] \notin overrun =>
                         /\ Vouched(cache[List]) => cache[List].data[1][call[2]]
                         /\ Vouched(cache[One(call[2])])
                              => cache[One(call[2])].data[1] = "cancelled"
  BY DEF OwnChangesShow
<1>1. call[2] \in Ids
  BY ScreenAssumption DEF CacheInv, DoneInv, Done, RowsInv, Ids
<1>2. List \in Keys /\ One(call[2]) \in Keys
  BY <1>1 DEF Keys
<1>3. EntryTold(List, cache[List]) /\ EntryTold(One(call[2]), cache[One(call[2])])
  BY <1>2 DEF CacheInv, ToldInv
<1> QED
  BY <1>3 DEF EntryTold, Told

(* Steps of the page alone. *)
LEMMA PageKeepsCache ==
  ASSUME CacheInv, UNCHANGED <<sessions, overrun, cache, heard>>, Known(active'), Known(dialog'),
         sent' \in Calls, Known(sent'.id),
         \/ sent'.at = "no"
         \/ sent'.at = "sent" /\ (sent'.kind = "cancel" => sent'.id # 0)
         \/ sent'.at = sent.at /\ sent'.kind = sent.kind /\ sent'.id = sent.id
  PROVE  CacheInv'
<1>1. RowsInv' /\ EntriesInv'
  BY DEF CacheInv, RowsInv, EntriesInv, Known, NoCall, Lists, Values
<1>2. DoneInv'
  BY DEF CacheInv, RowsInv, DoneInv, Done, NoCall
<1>3. ToldInv'
  BY DEF CacheInv, ToldInv, EntryTold, Told
<1> QED
  BY <1>1, <1>2, <1>3 DEF CacheInv

(* Steps of the server. *)
LEMMA ServerKeepsCache ==
  ASSUME CacheInv, UNCHANGED <<cache, heard, active, dialog>>,
         sessions' \in Seq(Statuses), Len(sessions') <= MaxSessions,
         Len(sessions) <= Len(sessions'),
         overrun \subseteq overrun', overrun' \subseteq 1 .. Len(sessions'),
         \A s \in 1 .. Len(sessions) :
           sessions[s] = "cancelled" => sessions'[s] = "cancelled" \/ s \in overrun',
         sent' \in Calls,
         sent' # sent => sent'.at = "done" /\ Done(sent.kind, sent.id)'
  PROVE  CacheInv'
<1>1. Len(sessions) \in Nat /\ Len(sessions') \in Nat
  BY DEF CacheInv, RowsInv
<1>2. RowsInv'
  <2>1. Known(active)' /\ Known(dialog)' /\ Known(sent.id)'
    BY <1>1 DEF CacheInv, RowsInv, Known, Done
  <2> QED
    BY <1>1, <2>1 DEF CacheInv, RowsInv
<1>3. EntriesInv'
  <2>1. \A k : Values(k) \subseteq Values(k)'
    BY <1>1 DEF Values, Lists
  <2>2. \A k : Entries(Values(k)) \subseteq Entries(Values(k)')
    BY <2>1 DEF Entries, Shapes, Maybe
  <2> QED
    BY <2>2 DEF CacheInv, EntriesInv
<1>4. DoneInv'
  BY <1>1 DEF CacheInv, RowsInv, DoneInv, Done
<1>5. ToldInv'
  BY DEF CacheInv, ToldInv, EntryTold, Told
<1> QED
  BY <1>2, <1>3, <1>4, <1>5 DEF CacheInv

(* The answer of the server knows of all that was heard. *)
LEMMA AnswerTold ==
  ASSUME CacheInv, NEW k, k = List \/ \E id \in 1 .. Len(sessions) : k = One(id)
  PROVE  Told(k, Answer(k)) /\ Answer(k) \in Values(k)
<1>1. Len(sessions) \in Nat /\ sessions \in Seq(Statuses) /\ Len(sessions) <= MaxSessions
  BY DEF CacheInv, RowsInv
<1>2. CASE k = List
  <2> DEFINE v == [s \in 1 .. Len(sessions) |-> sessions[s] = "cancelled"]
  <2>1. Answer(k) = v
    BY <1>2 DEF Answer
  <2>2. v \in Seq(BOOLEAN) /\ Len(v) = Len(sessions)
    BY <1>1
  <2>3. \A s \in 1 .. Len(sessions) : v[s] = (sessions[s] = "cancelled")
    OBVIOUS
  <2>4. List # One(0) /\ \A s : List # One(s)
    BY DEF List, One
  <2> HIDE DEF v
  <2>5. \A call \in heard :
          /\ call[2] <= Len(v)
          /\ call[1] = "cancel" /\ call[2] \notin overrun => v[call[2]]
    BY <1>1, <2>2, <2>3 DEF CacheInv, DoneInv, Done
  <2> QED
    BY <1>1, <1>2, <2>1, <2>2, <2>4, <2>5 DEF Told, Lists, Values
<1>3. CASE k # List
  <2>1. PICK id \in 1 .. Len(sessions) : k = One(id)
    BY <1>3
  <2>2. Answer(k) = sessions[id]
    BY <1>3, <2>1 DEF Answer, One
  <2>3. \A call \in heard :
          k = One(call[2]) /\ call[1] = "cancel" /\ call[2] \notin overrun
            => sessions[id] = "cancelled"
    BY <2>1 DEF One, CacheInv, DoneInv, Done
  <2>4. Answer(k) \in Statuses
    BY <1>1, <2>1, <2>2
  <2> QED
    BY <1>3, <2>2, <2>3, <2>4 DEF Told, Values
<1> QED
  BY <1>2, <1>3

(* Steps of the cache. *)
LEMMA OneEntryKeepsCache ==
  ASSUME CacheInv, UNCHANGED <<sessions, overrun, heard, active, dialog, sent>>,
         NEW k \in Keys, NEW e \in Entries(Values(k)), cache' = [cache EXCEPT ![k] = e],
         EntryTold(k, e)
  PROVE  CacheInv'
<1>1. /\ cache' = [j \in Keys |-> cache'[j]]
      /\ \A j \in Keys : cache'[j] = IF j = k THEN e ELSE cache[j]
  BY DEF CacheInv, EntriesInv
<1>2. RowsInv' /\ EntriesInv'
  BY <1>1 DEF CacheInv, RowsInv, EntriesInv, Known, Lists, Values
<1>3. DoneInv'
  BY DEF CacheInv, DoneInv, Done
<1>4. ASSUME NEW j \in Keys PROVE EntryTold(j, cache'[j])
  BY <1>1 DEF CacheInv, ToldInv
<1>5. ToldInv'
  BY <1>4 DEF ToldInv, EntryTold, Told
<1> QED
  BY <1>2, <1>3, <1>5 DEF CacheInv

LEMMA FetchKeepsCache ==
  ASSUME ScreenAssumption, CacheInv, NEW k \in Keys, Ask(k) \/ Land(k) \/ AskFails(k)
  PROVE  CacheInv'
<1>1. UNCHANGED <<sessions, overrun, heard, active, dialog, sent>>
  BY DEF Ask, Land, AskFails, server, page
<1>2. cache[k] \in Entries(Values(k)) /\ EntryTold(k, cache[k])
  BY DEF CacheInv, EntriesInv, ToldInv
<1>3. CASE Ask(k)
  <2>1. k = List \/ \E id \in 1 .. Len(sessions) : k = One(id)
    BY <1>3 DEF Ask, Observed, CacheInv, RowsInv, Known
  <2>2. Told(k, Answer(k)) /\ Answer(k) \in Values(k)
    BY <2>1, AnswerTold
  <2> DEFINE e == Asked(cache[k], Answer(k))
  <2>3. /\ e \in Entries(Values(k)) /\ e.data = cache[k].data /\ e.answer = <<Answer(k)>>
        /\ Vouched(e) <=> Vouched(cache[k])
    <3>1. \A v \in Values(k) :
            /\ Asked(cache[k], v) \in Entries(Values(k))
            /\ Asked(cache[k], v).data = cache[k].data /\ Asked(cache[k], v).answer = <<v>>
            /\ Vouched(Asked(cache[k], v)) <=> Vouched(cache[k])
      BY <1>2, EntryMoves
    <3> QED
      BY <2>2, <3>1
  <2>4. cache' = [cache EXCEPT ![k] = e]
    BY <1>3 DEF Ask
  <2> HIDE DEF e
  <2>5. EntryTold(k, e)
    BY <1>2, <2>2, <2>3 DEF EntryTold
  <2> QED
    BY <1>1, <2>3, <2>4, <2>5, OneEntryKeepsCache
<1>4. CASE Land(k)
  <2> DEFINE e == Landed(cache[k])
  <2>1. /\ e \in Entries(Values(k)) /\ e.data = cache[k].answer /\ e.answer = <<>>
        /\ Vouched(e) <=> ~Idle(cache[k]) /\ ~cache[k].outrun
    BY <1>2, EntryMoves
  <2>2. cache' = [cache EXCEPT ![k] = e]
    BY <1>4 DEF Land
  <2> HIDE DEF e
  <2>3. EntryTold(k, e)
    BY <1>2, <2>1 DEF EntryTold, Idle
  <2> QED
    BY <1>1, <2>1, <2>2, <2>3, OneEntryKeepsCache
<1>5. CASE AskFails(k)
  <2> DEFINE e == Dropped(cache[k])
  <2>1. /\ e \in Entries(Values(k)) /\ e.data = cache[k].data /\ e.answer = <<>>
        /\ Vouched(e) <=> Vouched(cache[k])
    BY <1>2, EntryMoves
  <2>2. cache' = [cache EXCEPT ![k] = e]
    BY <1>5 DEF AskFails
  <2> HIDE DEF e
  <2>3. EntryTold(k, e)
    BY <1>2, <2>1 DEF EntryTold, Idle
  <2> QED
    BY <1>1, <2>1, <2>2, <2>3, OneEntryKeepsCache
<1> QED
  BY <1>3, <1>4, <1>5

(* An answer the page hears, by the hook's invalidation of every entry.    *)
LEMMA SuccessKeepsCache ==
  ASSUME ScreenAssumption, CacheInv, Succeeds
  PROVE  CacheInv'
<1>1. /\ sessions' = sessions /\ overrun' = overrun /\ dialog' = dialog /\ sent' = NoCall /\ sent.at = "done"
      /\ heard' = heard \cup {<<sent.kind, sent.id>>}
      /\ active' \in {sent.id, active}
  BY DEF Succeeds, server
<1>2. Done(sent.kind, sent.id) /\ \A k \in Keys : cache[k] \in Entries(Values(k))
  BY <1>1 DEF CacheInv, EntriesInv, DoneInv
<1>3. cache' = [k \in Keys |-> Outdated(cache[k], Observed(k))]
  <2>1. \A k \in Keys : k \in Invalidates(sent.kind)
    BY DEF Keys, Invalidates
  <2> QED
    BY <2>1 DEF Succeeds
<1>4. ASSUME NEW k \in Keys
      PROVE  /\ cache'[k] \in Entries(Values(k))
             /\ ~Vouched(cache'[k]) /\ (Idle(cache'[k]) \/ cache'[k].outrun)
  BY <1>2, <1>3, OutdatedMoves
<1>5. RowsInv' /\ EntriesInv'
  <2>1. Known(active)' /\ Known(dialog)' /\ Known(sent.id)' /\ sent' \in Calls
    BY <1>1, <1>2 DEF CacheInv, RowsInv, Known, Done, NoCall, Calls
  <2>2. \A k : Values(k)' = Values(k)
    BY <1>1 DEF Values, Lists
  <2> QED
    BY <1>1, <1>3, <1>4, <2>1, <2>2 DEF CacheInv, RowsInv, EntriesInv
<1>6. DoneInv'
  <2>1. \A kind, id : Done(kind, id) => Done(kind, id)'
    BY <1>1 DEF Done
  <2>2. ASSUME NEW call \in heard' PROVE Done(call[1], call[2])'
    <3>1. Done(call[1], call[2])
      BY <1>1, <1>2 DEF CacheInv, DoneInv
    <3> QED
      BY <2>1, <3>1
  <2> QED
    BY <1>1, <2>2 DEF DoneInv, NoCall
<1>7. ToldInv'
  BY <1>4 DEF ToldInv, EntryTold
<1> QED
  BY <1>5, <1>6, <1>7 DEF CacheInv

(* What the cache holds has grown old.                                     *)
LEMMA EnterKeepsCache ==
  ASSUME CacheInv, Enter
  PROVE  CacheInv'
<1>1. UNCHANGED <<sessions, overrun, heard, active, dialog, sent>>
  BY DEF Enter, server, page
<1>2. CASE cache' = cache
  BY <1>1, <1>2, PageKeepsCache DEF CacheInv, RowsInv, Known
<1>3. CASE cache' = [k \in Keys |-> Aged(cache[k])]
  <2>1. ASSUME NEW k \in Keys
        PROVE  /\ cache'[k] \in Entries(Values(k))
               /\ cache'[k].answer = cache[k].answer /\ cache'[k].outrun = cache[k].outrun
               /\ ~Vouched(cache'[k])
    BY <1>3, EntryMoves DEF CacheInv, EntriesInv
  <2>2. RowsInv' /\ EntriesInv'
    BY <1>1, <1>3, <2>1 DEF CacheInv, RowsInv, EntriesInv, Known, Lists, Values
  <2>3. DoneInv'
    BY <1>1 DEF CacheInv, DoneInv, Done
  <2>4. ToldInv'
    BY <1>1, <2>1 DEF CacheInv, ToldInv, EntryTold, Told, Idle
  <2> QED
    BY <2>2, <2>3, <2>4 DEF CacheInv
<1> QED
  BY <1>2, <1>3 DEF Enter, queries

LEMMA NextKeepsCache ==
  ASSUME ScreenAssumption, CacheInv, [ScreenNext]_screenVars
  PROVE  CacheInv'
<1>0. /\ sent \in Calls /\ Known(sent.id) /\ Known(active) /\ Known(dialog)
      /\ sessions \in Seq(Statuses) /\ Len(sessions) \in Nat /\ Len(sessions) <= MaxSessions
      /\ overrun \subseteq 1 .. Len(sessions)
  BY DEF CacheInv, RowsInv
<1>1. CASE \/ \E p \in Sources \cup {None} : PickSource(p)
           \/ \E t \in Types : ToggleType(t)
           \/ ToggleAll \/ Preview \/ LandPreview \/ PreviewFails \/ Back \/ AskQuota
           \/ UNCHANGED screenVars
  <2>1. UNCHANGED <<sessions, overrun, cache, heard, active, dialog, sent>>
    BY <1>1 DEF PickSource, ToggleType, ToggleAll, EditForm, Preview, LandPreview, PreviewFails,
                Back, AskQuota, server, queries, page, screenVars
  <2> QED
    BY <1>0, <2>1, PageKeepsCache
<1>2. CASE Confirm \/ Cancel \/ Retry
  <2>1. UNCHANGED <<sessions, overrun, cache, heard, active>> /\ Known(dialog')
    BY <1>0, <1>2 DEF Confirm, Cancel, Retry, server, queries, page, Known
  <2>2. /\ sent' \in Calls /\ Known(sent'.id) /\ sent'.at = "sent"
        /\ sent'.kind = "cancel" => sent'.id # 0
    <3>1. PICK kind \in {"create", "cancel", "retry"}, id \in 0 .. Len(sessions) :
            /\ sent' = [kind |-> kind, at |-> "sent", id |-> id, mine |-> TRUE]
            /\ kind = "cancel" => id # 0
      <4>1. CASE Confirm
        <5>1. sent' = [kind |-> "create", at |-> "sent", id |-> 0, mine |-> TRUE]
          BY <4>1 DEF Confirm, Send, NoCall
        <5>2. 0 \in 0 .. Len(sessions)
          BY <1>0
        <5> QED
          BY <5>1, <5>2
      <4>2. CASE Cancel
        BY <1>0, <4>2 DEF Cancel, Send, NoCall, Known
      <4>3. CASE Retry
        BY <1>0, <4>3 DEF Retry, Send, NoCall, Known
      <4> QED
        BY <1>2, <4>1, <4>2, <4>3
    <3> QED
      BY <3>1, <1>0 DEF Calls, Known
  <2> QED
    BY <1>0, <2>1, <2>2, PageKeepsCache
<1>3. CASE AskCancel \/ KeepRunning
  <2>1. UNCHANGED <<sessions, overrun, cache, heard, active, sent>> /\ Known(dialog')
    BY <1>0, <1>3 DEF AskCancel, KeepRunning, server, queries, Known
  <2> QED
    BY <1>0, <2>1, PageKeepsCache
<1>4. CASE Leave \/ Fails
  <2>1. UNCHANGED <<sessions, overrun, cache, heard>> /\ Known(active') /\ Known(dialog')
    BY <1>0, <1>4 DEF Leave, Fails, server, queries, page, Known
  <2>2. /\ sent' \in Calls /\ Known(sent'.id)
        /\ sent'.at = "no" \/ (sent'.at = sent.at /\ sent'.kind = sent.kind /\ sent'.id = sent.id)
    <3>1. CASE Leave
      BY <1>0, <3>1 DEF Leave, Calls
    <3>2. CASE Fails
      BY <1>0, <3>2 DEF Fails, NoCall, Calls, Known
    <3> QED
      BY <1>4, <3>1, <3>2
  <2> QED
    BY <2>1, <2>2, PageKeepsCache
<1>5. ASSUME NEW s \in Ids, OpenSession(s)
      PROVE  CacheInv'
  <2>1. cache[List].data # <<>> /\ s \in 1 .. Len(cache[List].data[1])
    BY <1>5 DEF OpenSession, Has
  <2>2. Known(s)
    <3>1. List \in Keys /\ cache[List].data \in Maybe(Lists)
      BY DEF Keys, CacheInv, EntriesInv, Values, Entries, Shapes
    <3> QED
      BY <1>0, <2>1, <3>1 DEF Maybe, Lists, Known
  <2>3. UNCHANGED <<sessions, overrun, cache, heard, dialog, sent>> /\ active' = s
    BY <1>5 DEF OpenSession, server, queries
  <2> QED
    BY <1>0, <2>2, <2>3, PageKeepsCache
<1>6. ASSUME NEW s \in Ids, Begin(s) \/ Finish(s)
      PROVE  CacheInv'
  <2>1. PICK status \in {"live", "ended"} : Write(s, status)
    BY <1>6 DEF Begin, Finish
  <2>2. /\ UNCHANGED <<cache, heard, active, dialog, sent>>
        /\ sessions' = [sessions EXCEPT ![s] = status] /\ s \in 1 .. Len(sessions)
        /\ overrun' = IF sessions[s] = "cancelled" THEN overrun \cup {s} ELSE overrun
    BY <1>6, <2>1 DEF Begin, Finish, Exists, Write, queries, page
  <2>3. /\ sessions' \in Seq(Statuses) /\ Len(sessions') = Len(sessions)
        /\ \A r \in 1 .. Len(sessions) : r # s => sessions'[r] = sessions[r]
    BY <1>0, <2>2 DEF Statuses, Settled
  <2>4. /\ overrun \subseteq overrun' /\ overrun' \subseteq 1 .. Len(sessions')
        /\ \A r \in 1 .. Len(sessions) :
             sessions[r] = "cancelled" => sessions'[r] = "cancelled" \/ r \in overrun'
    BY <1>0, <2>2, <2>3
  <2>5. Len(sessions') <= MaxSessions /\ Len(sessions) <= Len(sessions') /\ sent' \in Calls
    BY <1>0, <2>2, <2>3
  <2> QED
    BY <2>2, <2>3, <2>4, <2>5, ServerKeepsCache
<1>7. CASE Carry
  <2>1. UNCHANGED <<overrun, cache, heard, active, dialog>> /\ sent.at = "sent"
    BY <1>7 DEF Carry, queries, page
  <2>2. CASE /\ sent.kind \in {"create", "retry"} /\ Len(sessions) < MaxSessions
             /\ sessions' = Append(sessions, "live")
             /\ sent' = [sent EXCEPT !.at = "done", !.id = Len(sessions) + 1]
    <3>1. /\ sessions' \in Seq(Statuses) /\ Len(sessions') = Len(sessions) + 1
          /\ \A r \in 1 .. Len(sessions) : sessions'[r] = sessions[r]
      BY <1>0, <2>2 DEF Statuses
    <3>2. /\ sent' \in Calls /\ sent'.at = "done" /\ sent'.kind = sent.kind
          /\ sent'.id = Len(sessions')
      <4>1. Len(sessions) + 1 \in Nat /\ Len(sessions') = Len(sessions) + 1
        BY <1>0, <3>1
      <4> DEFINE n == Len(sessions) + 1
      <4>2. sent' = [sent EXCEPT !.at = "done", !.id = n] /\ n \in Nat
        BY <2>2, <4>1
      <4> HIDE DEF n
      <4>3. sent' \in Calls /\ sent'.at = "done" /\ sent'.kind = sent.kind /\ sent'.id = n
        BY <1>0, <4>2 DEF Calls
      <4> QED
        BY <4>1, <4>3 DEF n
    <3>3. Done(sent.kind, sent.id)'
      BY <1>0, <2>2, <3>1, <3>2 DEF Done
    <3>4. Len(sessions') <= MaxSessions /\ overrun' \subseteq 1 .. Len(sessions')
      BY <1>0, <2>1, <2>2, <3>1, ScreenAssumption DEF ScreenAssumption
    <3> QED
      BY <1>0, <2>1, <3>1, <3>2, <3>3, <3>4, ServerKeepsCache
  <2>3. CASE /\ sent.kind = "cancel"
             /\ sessions' = [sessions EXCEPT ![sent.id] = "cancelled"]
             /\ sent' = [sent EXCEPT !.at = "done"]
    <3>1. sent.id \in 1 .. Len(sessions)
      BY <1>0, <2>1, <2>3 DEF CacheInv, DoneInv, Known
    <3>2. /\ sessions' \in Seq(Statuses) /\ Len(sessions') = Len(sessions)
          /\ \A r \in 1 .. Len(sessions) : sessions[r] = "cancelled" => sessions'[r] = "cancelled"
          /\ sessions'[sent.id] = "cancelled" /\ overrun' \subseteq 1 .. Len(sessions')
      BY <1>0, <2>1, <2>3, <3>1 DEF Statuses, Settled
    <3>3. sent' \in Calls /\ sent'.at = "done" /\ sent'.kind = sent.kind /\ sent'.id = sent.id
      BY <1>0, <2>3 DEF Calls
    <3>4. Done(sent.kind, sent.id)'
      BY <3>1, <3>2, <3>3 DEF Done
    <3> QED
      BY <1>0, <2>1, <3>2, <3>3, <3>4, ServerKeepsCache
  <2> QED
    BY <1>7, <2>2, <2>3 DEF Carry
<1> QED
  BY <1>1, <1>2, <1>3, <1>4, <1>5, <1>6, <1>7, FetchKeepsCache, SuccessKeepsCache,
     EnterKeepsCache DEF ScreenNext

(* An answer the page has heard shows in every entry of the cache that     *)
(* passes for current, for any number of sessions, fetches under way,      *)
(* visits and cancellations the engine writes over (use-replays.ts,        *)
(* onSuccess of the three mutations).  Of a session whose cancellation was *)
(* written over it only says that the history has it.                      *)
THEOREM HeardChangesShow == ScreenSpec => []OwnChangesShow
  BY CacheInitially, NextKeepsCache, CacheInvSuffices, ScreenAssumption, PTL DEF ScreenSpec

-----------------------------------------------------------------------------
(* Types. *)

QuotaInv == remaining \in 0 .. Credit /\ quota \in Maybe(0 .. Credit)

LEMMA NextKeepsQuota ==
  ASSUME ScreenAssumption, QuotaInv, [ScreenNext]_screenVars
  PROVE  QuotaInv'
<1>1. CASE AskQuota
  BY <1>1 DEF AskQuota, server, QuotaInv, Maybe
<1>2. CASE Carry
  <2>1. quota' = quota /\ remaining' \in Int
    BY <1>2 DEF Carry, queries, QuotaInv
  <2> QED
    BY <1>2, <2>1 DEF Carry, QuotaInv, ScreenAssumption
<1>3. CASE Enter
  BY <1>3 DEF Enter, server, queries, QuotaInv, Maybe
<1>4. CASE UNCHANGED <<remaining, quota>>
  BY <1>4 DEF QuotaInv
<1>5. CASE \/ \E s \in Ids : Begin(s) \/ Finish(s) \/ OpenSession(s)
           \/ \E k \in Keys : Ask(k) \/ Land(k) \/ AskFails(k)
           \/ \E p \in Sources \cup {None} : PickSource(p)
           \/ \E t \in Types : ToggleType(t)
           \/ ToggleAll \/ Preview \/ LandPreview \/ PreviewFails \/ Back
           \/ Confirm \/ AskCancel \/ KeepRunning \/ Cancel \/ Retry
           \/ Succeeds \/ Fails \/ Leave \/ UNCHANGED screenVars
  BY <1>4, <1>5
     DEF Begin, Finish, Write, OpenSession, Ask, Land, AskFails, PickSource, ToggleType, ToggleAll, EditForm,
         Preview, LandPreview, PreviewFails, Back, Confirm, AskCancel, KeepRunning, Cancel,
         Retry, Succeeds, Fails, Leave, server, queries, screenVars
<1> QED
  BY <1>1, <1>2, <1>3, <1>5 DEF ScreenNext

LEMMA TypesSuffice == ScreenAssumption /\ FormInv /\ CacheInv /\ QuotaInv => ScreenTypeOK
<1> SUFFICES ASSUME ScreenAssumption, FormInv, CacheInv, QuotaInv PROVE ScreenTypeOK
  OBVIOUS
<1>1. EntryOK(cache[List], Seq(BOOLEAN))
  <2>1. List \in Keys /\ Values(List) = Lists
    BY DEF Keys, Values
  <2>2. EntryOK(cache[List], Lists)
    BY <2>1, EntriesAreOK DEF CacheInv, EntriesInv
  <2> QED
    BY <2>2 DEF EntryOK, Holds, Lists
<1>2. ASSUME NEW s \in Ids
      PROVE  EntryOK(cache[One(s)], Statuses)
  <2>1. One(s) \in Keys /\ Values(One(s)) = Statuses
    BY DEF Keys, Values, One, List
  <2> QED
    BY <2>1, EntriesAreOK DEF CacheInv, EntriesInv
<1>3. Holds(quota, 0 .. Credit)
  BY DEF QuotaInv, Maybe, Holds
<1>4. sent.at \in {"no", "sent", "done"}
  BY DEF CacheInv, RowsInv, Calls
<1> QED
  BY <1>1, <1>2, <1>3, <1>4 DEF ScreenTypeOK, FormInv, CacheInv, RowsInv, QuotaInv, Known

(* Every variable of the page keeps its type: the history has only rows    *)
(* the server has, the types chosen are types of the pixel (ReplayPage.tsx *)
(* clears them with it), and no preview is asked for under another.        *)
THEOREM ScreenTypeCorrect == ScreenSpec => []ScreenTypeOK
<1>1. ScreenAssumption /\ ScreenInit => QuotaInv
  BY DEF ScreenInit, QuotaInv, Maybe
<1> QED
  BY <1>1, FormInitially, CacheInitially, NextKeepsForm, NextKeepsCache, NextKeepsQuota,
     TypesSuffice, ScreenAssumption, PTL DEF ScreenSpec

=============================================================================
