----------------------------- MODULE ConsoleProofs -----------------------------
(***************************************************************************)
(* What holds of the lists read page by page for any number of rows, hits  *)
(* and rows to a page: the types, OwnActionsShow and NotStranded of        *)
(* Console.                                                                *)
(***************************************************************************)
EXTENDS Console, FiniteSetTheorems, TLAPS

-----------------------------------------------------------------------------
(* Types. *)

Portions   == {seen \in SUBSET [row : Rows, state : States] : Cardinality(seen) <= PerPage}
ListValues == [page : 1 .. MaxPage, pages : Nat, rows : Portions]
Calls      == {NoCall} \cup [at : {"sent", "done"}, row : Rows]

(* An action is asked for in a dialog, and a dialog is that of a row.      *)
PageInv ==
  /\ typed \in BOOLEAN /\ filter \in Keys /\ last \in Maybe(ListValues)
  /\ opened \in Rows \cup {0}
  /\ asking \in States \cup {"none"} /\ (asking # "none" => opened # 0)
ServerInv ==
  /\ rows \in [Rows -> States]
  /\ calls \in [States -> Calls]
  /\ owes \in [Rows -> Maybe(States)]
CacheInv ==
  /\ lists \in [Keys -> Entries(ListValues)]
  /\ details \in [Rows -> Entries(States)]

(* What the entries hold of row r that passes for current, or will.        *)
ListShows(answer, r) == \A seen \in answer.rows : seen.row = r => seen.state = rows[r]
ListAgrees(e, r) ==
  /\ Vouched(e) => ListShows(e.data[1], r)
  /\ ~Idle(e) /\ ~e.outrun => ListShows(e.answer[1], r)
DetailAgrees(e, r) ==
  /\ Vouched(e) => e.data[1] = rows[r]
  /\ ~Idle(e) /\ ~e.outrun => e.answer[1] = rows[r]

(* A row that shows as an action left it is so on the server, no call for  *)
(* it is under way, and every entry agrees, with every answer under way    *)
(* that no invalidation has outrun.                                        *)
OwedInv ==
  \A r \in Rows : owes[r] # <<>> =>
    /\ owes[r] = <<rows[r]>>
    /\ \A s \in States : calls[s].row # r
    /\ \A k \in Keys : ListAgrees(lists[k], r)
    /\ DetailAgrees(details[r], r)

ActionInv == PageInv /\ ServerInv /\ CacheInv /\ OwedInv

LEMMA NewFilterHolds == ConsoleAssumption => NewFilter \in Keys
  BY DEF ConsoleAssumption, NewFilter, Keys, Statuses

LEMMA ActionInitially == ConsoleAssumption /\ ConsoleInit => ActionInv
<1> SUFFICES ASSUME ConsoleAssumption, ConsoleInit PROVE ActionInv
  OBVIOUS
<1>1. \A V : NoEntry \in Entries(V)
  BY DEF NoEntry, Entries, Shapes, Maybe
<1>2. PageInv
  BY NewFilterHolds DEF PageInv, ConsoleInit, Maybe
<1>3. ServerInv
  BY DEF ServerInv, ConsoleInit, States, Calls, Maybe
<1>4. CacheInv
  BY <1>1 DEF CacheInv, ConsoleInit
<1>5. OwedInv
  BY DEF OwedInv, ConsoleInit
<1> QED
  BY <1>2, <1>3, <1>4, <1>5 DEF ActionInv

LEMMA ActionInvSuffices == ActionInv => OwnActionsShow
<1> SUFFICES ASSUME ActionInv, NEW r \in Rows, owes[r] # <<>>
             PROVE  /\ \A k \in Keys : Vouched(lists[k]) =>
                         \A seen \in lists[k].data[1].rows : seen.row = r => seen.state = owes[r][1]
                    /\ Vouched(details[r]) => details[r].data[1] = owes[r][1]
  BY DEF OwnActionsShow
<1>1. owes[r][1] = rows[r]
  BY DEF ActionInv, OwedInv
<1> QED
  BY <1>1 DEF ActionInv, OwedInv, ListAgrees, ListShows, DetailAgrees

(* Steps that leave the cache alone: those that touch a row, or send a     *)
(* call for it, forget what was owed to it.                                *)
LEMMA StepKeepsAction ==
  ASSUME ActionInv, UNCHANGED <<lists, details>>, PageInv', ServerInv',
         \A r \in Rows : owes'[r] # <<>> =>
           /\ owes'[r] = owes[r] /\ rows'[r] = rows[r]
           /\ \A s \in States : calls'[s].row = r => \E t \in States : calls[t].row = r
  PROVE  ActionInv'
<1>1. CacheInv'
  BY DEF ActionInv, CacheInv
<1>2. OwedInv'
  BY DEF ActionInv, OwedInv, ListAgrees, ListShows, DetailAgrees
<1> QED
  BY <1>1, <1>2 DEF ActionInv

LEMMA PageKeepsAction ==
  ASSUME ActionInv, UNCHANGED <<lists, details, rows, calls, owes>>, PageInv'
  PROVE  ActionInv'
<1>1. ServerInv'
  BY DEF ActionInv, ServerInv
<1> QED
  BY <1>1, StepKeepsAction

(* The server's answer. *)

(* Two rows of a list have different places in it.                         *)
LEMMA PlacesDiffer ==
  ASSUME NEW m \in SUBSET Nat, IsFiniteSet(m), NEW q \in m, NEW r \in m, q < r
  PROVE  Place(q, m) \in Nat /\ Place(r, m) \in Nat /\ Place(q, m) < Place(r, m)
<1> DEFINE upTo(x) == {y \in m : y <= x}
<1>1. IsFiniteSet(upTo(r)) /\ upTo(q) \in SUBSET upTo(r)
  <2>1. \A y \in m : y <= q => y <= r
    <3>1. q \in Nat /\ r \in Nat /\ \A y \in m : y \in Nat
      OBVIOUS
    <3> QED
      BY <3>1
  <2>2. upTo(r) \in SUBSET m /\ upTo(q) \in SUBSET upTo(r)
    BY <2>1
  <2> QED
    BY <2>2, FS_Subset
<1>2. r \in upTo(r) /\ r \notin upTo(q)
  OBVIOUS
<1>3. /\ IsFiniteSet(upTo(q)) /\ Cardinality(upTo(q)) <= Cardinality(upTo(r))
      /\ Cardinality(upTo(q)) # Cardinality(upTo(r))
  BY <1>1, <1>2, FS_Subset
<1>4. Cardinality(upTo(q)) \in Nat /\ Cardinality(upTo(r)) \in Nat
  BY <1>1, <1>3, FS_CardinalityType
<1>5. Place(q, m) = Cardinality(upTo(q)) /\ Place(r, m) = Cardinality(upTo(r))
  BY DEF Place
<1> HIDE DEF upTo
<1> QED
  BY <1>3, <1>4, <1>5

(* LIMIT and OFFSET cut out at most PerPage rows.                          *)
LEMMA PagesAreShort ==
  ASSUME ConsoleAssumption, NEW m \in SUBSET Rows, NEW p \in Nat \ {0},
         NEW S \in SUBSET [row : m, state : States],
         \A seen \in S : /\ Place(seen.row, m) \in (p - 1) * PerPage + 1 .. p * PerPage
                         /\ seen.state = rows[seen.row]
  PROVE  Cardinality(S) <= PerPage
<1> DEFINE low == (p - 1) * PerPage
           T == low + 1 .. low + PerPage
           f == [seen \in S |-> Place(seen.row, m)]
<1>1. m \in SUBSET Nat /\ IsFiniteSet(m) /\ PerPage \in Nat \ {0}
  BY FS_Subset DEF ConsoleAssumption
<1>2. low \in Nat /\ p * PerPage = low + PerPage
  BY <1>1
<1>3. f \in [S -> T]
  BY <1>2
<1> HIDE DEF low
<1>4. ASSUME NEW a \in S, NEW b \in S, f[a] = f[b]
      PROVE  a = b
  <2>1. a.row \in m /\ b.row \in m /\ a.row \in Nat /\ b.row \in Nat
    BY <1>1
  <2>2. Place(a.row, m) = Place(b.row, m)
    BY <1>4
  <2>3. ~(a.row < b.row) /\ ~(b.row < a.row)
    BY <1>1, <2>1, <2>2, PlacesDiffer
  <2>4. a.row = b.row
    BY <2>1, <2>3
  <2> QED
    BY <2>4
<1>5. f \in Injection(S, T)
  BY <1>3, <1>4 DEF Injection, IsInjective
<1>6. IsFiniteSet(T) /\ Cardinality(T) = PerPage
  <2>1. low + 1 \in Int /\ low + PerPage \in Int /\ ~(low + 1 > low + PerPage)
    BY <1>1, <1>2
  <2> QED
    BY <1>1, <1>2, <2>1, FS_Interval
<1> HIDE DEF T, f
<1> QED
  BY <1>5, <1>6, FS_Injection

LEMMA AnswerHolds ==
  ASSUME ConsoleAssumption, ServerInv, NEW k \in Keys
  PROVE  /\ Answer(k) \in ListValues /\ Answer(k).page = k.page
         /\ \A r \in Rows : ListShows(Answer(k), r)
<1> DEFINE m == Matching(k)
           pages == (Cardinality(m) + PerPage - 1) \div PerPage
           on == {q \in m : Place(q, m) \in (k.page - 1) * PerPage + 1 .. k.page * PerPage}
           shown == {[row |-> r, state |-> rows[r]] : r \in on}
<1>1. Answer(k) = [page |-> k.page, pages |-> pages, rows |-> shown]
  BY DEF Answer
<1>2. m \subseteq Rows /\ IsFiniteSet(m)
  BY FS_Subset DEF Matching, ConsoleAssumption
<1>3. pages \in Nat
  <2>1. Cardinality(m) \in Nat
    BY <1>2, FS_CardinalityType
  <2> HIDE DEF m
  <2> QED
    BY <2>1 DEF ConsoleAssumption
<1>4. on \subseteq m
  OBVIOUS
<1>7. \A q \in on : Place(q, m) \in (k.page - 1) * PerPage + 1 .. k.page * PerPage
  OBVIOUS
<1>8. k.page \in Nat \ {0}
  BY DEF Keys, ConsoleAssumption
<1> HIDE DEF m, pages, on
<1>5. shown \in Portions
  <2>1. shown \in SUBSET [row : m, state : States]
    BY <1>2, <1>4 DEF ServerInv
  <2>2. \A seen \in shown : seen.row \in on /\ seen.state = rows[seen.row]
    OBVIOUS
  <2>3. Cardinality(shown) <= PerPage
    BY <1>2, <1>7, <1>8, <2>1, <2>2, PagesAreShort
  <2> QED
    BY <1>2, <2>1, <2>3 DEF Portions
<1>6. \A seen \in shown : seen.state = rows[seen.row]
  OBVIOUS
<1> HIDE DEF shown
<1> QED
  BY <1>1, <1>3, <1>5, <1>6 DEF ListValues, ListShows, Keys

-----------------------------------------------------------------------------
(* Filters and pages. *)

LEMMA FilterStays ==
  ASSUME ConsoleAssumption, PageInv, CacheInv,
         Type \/ CommitSearch \/ (\E s \in Statuses : SetStatus(s)) \/ NextPage \/ PreviousPage
  PROVE  filter' \in Keys
<1>0. /\ filter \in [search : BOOLEAN, status : Statuses, page : 1 .. MaxPage]
      /\ typed \in BOOLEAN /\ MaxPage \in Nat \ {0}
  BY DEF PageInv, Keys, ConsoleAssumption
<1>1. CASE Type
  BY <1>1 DEF Type, PageInv
<1>2. CASE CommitSearch \/ \E s \in Statuses : SetStatus(s)
  <2>1. PICK k \in Keys : filter' = [k EXCEPT !.page = 1]
    <3>1. CASE CommitSearch
      BY <1>0, <3>1 DEF CommitSearch, FirstPage, Keys
    <3>2. CASE \E s \in Statuses : SetStatus(s)
      BY <1>0, <3>2 DEF SetStatus, FirstPage, Keys
    <3> QED
      BY <1>2, <3>1, <3>2
  <2> QED
    BY <1>0, <2>1 DEF Keys
<1>3. CASE NextPage \/ PreviousPage
  <2>1. Shown # <<>> => Shown[1].page \in 1 .. MaxPage
    <3>1. Shown \in Maybe(ListValues)
      BY DEF Shown, PageInv, CacheInv, Entries, Shapes, Maybe
    <3> QED
      BY <3>1 DEF Maybe, ListValues
  <2>2. Here \in 1 .. MaxPage
    BY <1>0, <1>3, <2>1 DEF Here, NextPage, PreviousPage, Paginated
  <2>3. PICK p \in 1 .. MaxPage : filter' = [filter EXCEPT !.page = p]
    BY <1>0, <1>3, <2>2 DEF NextPage, PreviousPage, GoTo
  <2> QED
    BY <1>0, <2>3 DEF Keys
<1> QED
  BY <1>1, <1>2, <1>3

-----------------------------------------------------------------------------
(* Steps of the cache. *)

LEMMA ListKeepsAction ==
  ASSUME ActionInv, UNCHANGED <<details, typed, filter, opened, asking, rows, calls, owes>>,
         last' \in {last, (lists[filter].data)'},
         NEW k \in Keys, NEW e \in Entries(ListValues), lists' = [lists EXCEPT ![k] = e],
         \A r \in Rows : ListAgrees(lists[k], r) => ListAgrees(e, r)
  PROVE  ActionInv'
<1>1. ServerInv'
  BY DEF ActionInv, ServerInv
<1>2. CacheInv'
  BY DEF ActionInv, CacheInv
<1>6. PageInv'
  BY <1>2 DEF ActionInv, PageInv, CacheInv, Entries, Shapes
<1>3. \A j \in Keys : lists'[j] = IF j = k THEN e ELSE lists[j]
  BY DEF ActionInv, CacheInv
<1>4. \A j \in Keys, r \in Rows : ListAgrees(lists[j], r) => ListAgrees(lists'[j], r)
  BY <1>3
<1>5. OwedInv'
  BY <1>4 DEF ActionInv, OwedInv, ListAgrees, ListShows, DetailAgrees
<1> QED
  BY <1>1, <1>2, <1>5, <1>6 DEF ActionInv

LEMMA DetailKeepsAction ==
  ASSUME ActionInv, UNCHANGED <<lists, last, typed, filter, opened, asking, rows, calls, owes>>,
         NEW d \in Rows, NEW e \in Entries(States), details' = [details EXCEPT ![d] = e],
         DetailAgrees(details[d], d) => DetailAgrees(e, d)
  PROVE  ActionInv'
<1>1. PageInv' /\ ServerInv'
  BY DEF ActionInv, PageInv, ServerInv
<1>2. CacheInv'
  BY DEF ActionInv, CacheInv
<1>3. \A r \in Rows : details'[r] = IF r = d THEN e ELSE details[r]
  BY DEF ActionInv, CacheInv
<1>4. \A r \in Rows : DetailAgrees(details[r], r) => DetailAgrees(details'[r], r)
  BY <1>3
<1>5. OwedInv'
  BY <1>4 DEF ActionInv, OwedInv, ListAgrees, ListShows, DetailAgrees
<1> QED
  BY <1>1, <1>2, <1>5 DEF ActionInv

LEMMA FetchKeepsAction ==
  ASSUME ConsoleAssumption, ActionInv,
         \/ AskList \/ AskDetail
         \/ \E k \in Keys : LandList(k) \/ ListFails(k)
         \/ \E r \in Rows : LandDetail(r) \/ DetailFails(r)
  PROVE  ActionInv'
<1>1. /\ UNCHANGED <<typed, filter, opened, asking, rows, calls, owes>>
      /\ last' \in {last, (lists[filter].data)'}
  BY DEF AskList, AskDetail, LandList, ListFails, LandDetail, DetailFails, Remember,
         server, controls, dialogs, mutations
<1>2. CASE AskList
  <2>1. /\ filter \in Keys /\ lists[filter] \in Entries(ListValues)
        /\ Answer(filter) \in ListValues
        /\ \A r \in Rows : ListShows(Answer(filter), r)
    BY AnswerHolds DEF ActionInv, PageInv, CacheInv
  <2> DEFINE e == Asked(lists[filter], Answer(filter))
  <2>2. /\ e \in Entries(ListValues)
        /\ e.data = lists[filter].data /\ e.answer = <<Answer(filter)>>
        /\ Vouched(e) <=> Vouched(lists[filter])
    BY <2>1, EntryMoves
  <2>3. lists' = [lists EXCEPT ![filter] = e] /\ details' = details
    BY <1>2 DEF AskList
  <2> DEFINE answer == Answer(filter)
  <2> HIDE DEF e, answer
  <2>4. \A r \in Rows : ListAgrees(lists[filter], r) => ListAgrees(e, r)
    <3>1. e.answer[1] = answer
      BY <2>2 DEF answer
    <3>2. \A r \in Rows : ListShows(answer, r)
      BY <2>1 DEF answer
    <3> QED
      BY <2>2, <3>1, <3>2 DEF ListAgrees
  <2> QED
    BY <1>1, <2>1, <2>2, <2>3, <2>4, ListKeepsAction
<1>3. ASSUME NEW k \in Keys, LandList(k) \/ ListFails(k) PROVE ActionInv'
  <2>1. lists[k] \in Entries(ListValues)
    BY DEF ActionInv, CacheInv
  <2>2. PICK e \in {Landed(lists[k]), Dropped(lists[k])} :
          lists' = [lists EXCEPT ![k] = e] /\ details' = details
    BY <1>3 DEF LandList, ListFails
  <2>3. /\ e \in Entries(ListValues) /\ e.answer = <<>>
        /\ \/ e.data = lists[k].data /\ (Vouched(e) <=> Vouched(lists[k]))
           \/ e.data = lists[k].answer /\ (Vouched(e) <=> (~Idle(lists[k]) /\ ~lists[k].outrun))
    BY <2>1, <2>2, EntryMoves
  <2>4. \A r \in Rows : ListAgrees(lists[k], r) => ListAgrees(e, r)
    BY <2>3 DEF ListAgrees, Idle
  <2> QED
    BY <1>1, <2>2, <2>3, <2>4, ListKeepsAction
<1>4. CASE AskDetail
  <2>1. /\ opened \in Rows /\ details[opened] \in Entries(States) /\ rows[opened] \in States
    BY <1>4 DEF AskDetail, ActionInv, PageInv, CacheInv, ServerInv
  <2> DEFINE e == Asked(details[opened], rows[opened])
  <2>2. /\ e \in Entries(States)
        /\ e.data = details[opened].data /\ e.answer = <<rows[opened]>>
        /\ Vouched(e) <=> Vouched(details[opened])
    BY <2>1, EntryMoves
  <2>3. details' = [details EXCEPT ![opened] = e] /\ lists' = lists /\ last' = last
    BY <1>4 DEF AskDetail
  <2> HIDE DEF e
  <2>4. DetailAgrees(details[opened], opened) => DetailAgrees(e, opened)
    BY <2>2 DEF DetailAgrees
  <2> QED
    BY <1>1, <2>1, <2>2, <2>3, <2>4, DetailKeepsAction
<1>5. ASSUME NEW r \in Rows, LandDetail(r) \/ DetailFails(r) PROVE ActionInv'
  <2>1. details[r] \in Entries(States)
    BY DEF ActionInv, CacheInv
  <2>2. PICK e \in {Landed(details[r]), Dropped(details[r])} :
          details' = [details EXCEPT ![r] = e] /\ lists' = lists /\ last' = last
    BY <1>5 DEF LandDetail, DetailFails
  <2>3. /\ e \in Entries(States) /\ e.answer = <<>>
        /\ \/ e.data = details[r].data /\ (Vouched(e) <=> Vouched(details[r]))
           \/ e.data = details[r].answer
                /\ (Vouched(e) <=> (~Idle(details[r]) /\ ~details[r].outrun))
    BY <2>1, <2>2, EntryMoves
  <2>4. DetailAgrees(details[r], r) => DetailAgrees(e, r)
    BY <2>3 DEF DetailAgrees, Idle
  <2> QED
    BY <1>1, <2>2, <2>3, <2>4, DetailKeepsAction
<1> QED
  BY <1>2, <1>3, <1>4, <1>5

(* Entering may age what the cache holds.                                  *)
LEMMA EnterKeepsAction ==
  ASSUME ActionInv, Enter
  PROVE  ActionInv'
<1>1. /\ UNCHANGED <<typed, filter, opened, asking, rows, calls, owes>>
      /\ last' \in {last, (lists[filter].data)'}
  BY DEF Enter, Remember, server, dialogs, mutations
<1>2. ServerInv' /\ (CacheInv' => PageInv')
  BY <1>1 DEF ActionInv, PageInv, ServerInv, CacheInv, Entries, Shapes
<1>3. CASE UNCHANGED <<lists, details>>
  <2>1. CacheInv'
    BY <1>3 DEF ActionInv, CacheInv
  <2> QED
    BY <1>1, <1>2, <1>3, <2>1, PageKeepsAction
<1>4. CASE /\ lists' = [k \in Keys |-> Aged(lists[k])]
           /\ details' = [d \in Rows |-> Aged(details[d])]
  <2>1. \A V : \A e \in Entries(V) :
          /\ Aged(e) \in Entries(V) /\ Aged(e).answer = e.answer
          /\ Aged(e).outrun = e.outrun /\ ~Vouched(Aged(e))
    BY EntryMoves
  <2>2. CacheInv'
    BY <1>4, <2>1 DEF ActionInv, CacheInv
  <2>3. /\ \A k \in Keys : /\ lists'[k].answer = lists[k].answer
                           /\ lists'[k].outrun = lists[k].outrun /\ ~Vouched(lists'[k])
        /\ \A d \in Rows : /\ details'[d].answer = details[d].answer
                           /\ details'[d].outrun = details[d].outrun /\ ~Vouched(details'[d])
    BY <1>4, <2>1 DEF ActionInv, CacheInv
  <2>4. OwedInv'
    BY <1>1, <2>3 DEF ActionInv, OwedInv, ListAgrees, ListShows, DetailAgrees, Idle
  <2> QED
    BY <1>2, <2>2, <2>4 DEF ActionInv
<1> QED
  BY <1>3, <1>4 DEF Enter

(* An answer that is heard, by the invalidation of every list and detail   *)
(* (onSuccess in use-admin.ts).                                            *)
LEMMA SuccessKeepsAction ==
  ASSUME ConsoleAssumption, ActionInv, NEW state \in States, Succeeds(state)
  PROVE  ActionInv'
<1> DEFINE r == calls[state].row
<1>1. /\ UNCHANGED <<last, typed, filter, opened, asking, rows>>
      /\ calls[state].at = "done" /\ calls' = [calls EXCEPT ![state] = NoCall]
      /\ owes' = IF Settles(state) THEN [owes EXCEPT ![r] = <<rows[r]>>] ELSE owes
  BY DEF Succeeds, server, controls, dialogs
<1>2. calls[state] \in [at : {"sent", "done"}, row : Rows] /\ r \in Rows
  BY <1>1 DEF ActionInv, ServerInv, Calls, NoCall
<1>3. /\ calls'[state].row = 0 /\ 0 \notin Rows
      /\ \A s \in States \ {state} : calls'[s] = calls[s]
  BY <1>1 DEF ActionInv, ServerInv, NoCall, ConsoleAssumption
<1>4. ServerInv'
  <2>1. calls' \in [States -> Calls]
    BY <1>1 DEF ActionInv, ServerInv, Calls
  <2>2. rows[r] \in States /\ <<rows[r]>> \in Maybe(States)
    BY <1>2 DEF ActionInv, ServerInv, Maybe
  <2>3. owes' \in [Rows -> Maybe(States)]
    BY <1>1, <2>2 DEF ActionInv, ServerInv
  <2> QED
    BY <1>1, <2>1, <2>3 DEF ActionInv, ServerInv
<1>5. PageInv'
  BY <1>1 DEF ActionInv, PageInv
<1>6. /\ \A k \in Keys : /\ lists'[k] \in Entries(ListValues) /\ ~Vouched(lists'[k])
                         /\ Idle(lists'[k]) \/ lists'[k].outrun
      /\ \A d \in Rows : /\ details'[d] \in Entries(States) /\ ~Vouched(details'[d])
                         /\ Idle(details'[d]) \/ details'[d].outrun
  <2>1. /\ lists' = [k \in Keys |-> Outdated(lists[k], Observed(k))]
        /\ details' = [d \in Rows |-> Outdated(details[d], mounted /\ d = opened)]
    BY DEF Succeeds, Invalidated
  <2> QED
    BY <2>1, OutdatedMoves DEF ActionInv, CacheInv
<1>7. CacheInv'
  <2>1. /\ lists' = [k \in Keys |-> lists'[k]] /\ details' = [d \in Rows |-> details'[d]]
    BY DEF Succeeds, Invalidated
  <2> QED
    BY <1>6, <2>1 DEF CacheInv
<1>8. ASSUME NEW q \in Rows, owes'[q] # <<>>
      PROVE  /\ owes'[q] = <<rows[q]>>
             /\ \A s \in States : calls'[s].row # q
  <2>1. CASE owes'[q] = owes[q]
    <3>1. owes[q] = <<rows[q]>> /\ \A s \in States : calls[s].row # q
      BY <1>8, <2>1 DEF ActionInv, OwedInv
    <3> QED
      BY <1>3, <2>1, <3>1
  <2>2. CASE owes'[q] # owes[q]
    <3>1. Settles(state) /\ q = r /\ owes'[q] = <<rows[q]>>
      BY <1>1, <1>2, <2>2 DEF ActionInv, ServerInv
    <3>2. \A s \in States \ {state} : calls[s] = NoCall \/ calls[s].row # q
      BY <3>1 DEF Settles
    <3>3. \A s \in States \ {state} : calls[s].row # q
      BY <1>2, <1>3, <3>1, <3>2 DEF NoCall
    <3> QED
      BY <1>3, <3>1, <3>3
  <2> QED
    BY <2>1, <2>2
<1>9. OwedInv'
  BY <1>1, <1>6, <1>8 DEF OwedInv, ListAgrees, DetailAgrees
<1> QED
  BY <1>4, <1>5, <1>7, <1>9 DEF ActionInv

LEMMA NextKeepsAction ==
  ASSUME ConsoleAssumption, ActionInv, [ConsoleNext]_consoleVars
  PROVE  ActionInv'
<1>0. /\ typed \in BOOLEAN /\ filter \in Keys /\ last \in Maybe(ListValues)
      /\ opened \in Rows \cup {0}
      /\ asking \in States \cup {"none"} /\ (asking # "none" => opened # 0)
      /\ rows \in [Rows -> States] /\ calls \in [States -> Calls]
      /\ owes \in [Rows -> Maybe(States)]
  BY DEF ActionInv, PageInv, ServerInv
<1>1. ASSUME NEW r \in Rows, NEW s \in States, Elsewhere(r, s) PROVE ActionInv'
  <2>1. /\ UNCHANGED <<lists, details, last, typed, filter, opened, asking, calls>>
        /\ rows' = [rows EXCEPT ![r] = s] /\ owes' = [owes EXCEPT ![r] = <<>>]
    BY <1>1 DEF Elsewhere, queries, controls, dialogs
  <2>2. PageInv' /\ ServerInv'
    BY <1>0, <2>1 DEF PageInv, ServerInv, Maybe
  <2>3. \A q \in Rows : owes'[q] # <<>> => q # r /\ owes'[q] = owes[q] /\ rows'[q] = rows[q]
    BY <1>0, <2>1
  <2> QED
    BY <2>1, <2>2, <2>3, StepKeepsAction
<1>2. CASE \/ \E r \in Rows : OpenRow(r)
           \/ CloseRow \/ Dismiss \/ \E s \in States : AskFirst(s)
  <2>1. UNCHANGED <<lists, details, last, typed, filter, rows, calls, owes>>
    BY <1>2 DEF OpenRow, CloseRow, Dismiss, AskFirst, server, queries, controls, mutations
  <2>2. /\ opened' \in Rows \cup {0}
        /\ asking' \in States \cup {"none"} /\ (asking' # "none" => opened' # 0)
    BY <1>0, <1>2, ConsoleAssumption DEF OpenRow, CloseRow, Dismiss, AskFirst, Offered, Loaded,
                                         ConsoleAssumption
  <2>3. PageInv'
    BY <1>0, <2>1, <2>2 DEF PageInv
  <2> QED
    BY <2>1, <2>3, PageKeepsAction
<1>3. CASE Type \/ CommitSearch \/ (\E s \in Statuses : SetStatus(s)) \/ NextPage \/ PreviousPage
  <2>1. UNCHANGED <<lists, details, opened, asking, rows, calls, owes>>
    BY <1>3 DEF Type, CommitSearch, SetStatus, NextPage, PreviousPage, GoTo, server, queries,
                dialogs, mutations
  <2>2. filter' \in Keys
    BY <1>3, FilterStays DEF ActionInv
  <2>4. typed' \in BOOLEAN /\ last' \in {last, (lists[filter].data)'}
    BY <1>0, <1>3 DEF Type, CommitSearch, SetStatus, NextPage, PreviousPage, GoTo, Remember, queries
  <2>3. PageInv'
    BY <1>0, <2>1, <2>2, <2>4 DEF PageInv, ActionInv, CacheInv, Entries, Shapes
  <2> QED
    BY <2>1, <2>3, PageKeepsAction
<1>4. CASE Leave \/ UNCHANGED consoleVars
  <2>1. UNCHANGED <<lists, details, rows, calls, owes>>
    BY <1>4 DEF Leave, server, mutations, queries, consoleVars
  <2>2. PageInv'
    <3>1. CASE Leave
      BY <3>1, NewFilterHolds DEF Leave, PageInv, Maybe
    <3>2. CASE UNCHANGED consoleVars
      BY <1>0, <3>2 DEF consoleVars, queries, controls, dialogs, PageInv
    <3> QED
      BY <1>4, <3>1, <3>2
  <2> QED
    BY <2>1, <2>2, PageKeepsAction
<1>5. ASSUME NEW s \in States, Set(s) \/ (s = asking /\ Confirm) PROVE ActionInv'
  <2>1. /\ UNCHANGED <<lists, details, last, typed, filter, rows>> /\ Send(s)
        /\ opened \in Rows /\ opened' \in {opened, 0}
        /\ asking' # "none" => asking' = asking /\ opened' = opened
    BY <1>0, <1>5 DEF Set, Confirm, AfterConfirm, Offered, Loaded, server, queries, controls,
                      dialogs
  <2>2. /\ calls' = [calls EXCEPT ![s] = [at |-> "sent", row |-> opened]]
        /\ owes' = [owes EXCEPT ![opened] = <<>>]
    BY <2>1 DEF Send
  <2>3. PageInv'
    BY <1>0, <2>1 DEF PageInv
  <2> DEFINE call == [at |-> "sent", row |-> opened]
  <2>4. call \in Calls /\ call.row = opened
    BY <2>1 DEF Calls
  <2> HIDE DEF call
  <2>5. calls' = [calls EXCEPT ![s] = call]
    BY <2>2 DEF call
  <2>6. ServerInv'
    BY <1>0, <2>1, <2>2, <2>4, <2>5 DEF ServerInv, Maybe
  <2>7. \A t \in States : t # s => calls'[t] = calls[t]
    BY <1>0, <2>5
  <2>8. \A q \in Rows : owes'[q] # <<>> => q # opened /\ owes'[q] = owes[q]
    BY <1>0, <2>1, <2>2
  <2>9. calls'[s].row = opened
    BY <1>0, <2>4, <2>5
  <2>10. \A q \in Rows : owes'[q] # <<>> =>
           /\ owes'[q] = owes[q] /\ rows'[q] = rows[q]
           /\ \A t \in States : calls'[t].row = q => \E u \in States : calls[u].row = q
    BY <2>1, <2>7, <2>8, <2>9
  <2> QED
    BY <2>1, <2>3, <2>6, <2>10, StepKeepsAction
<1>6. ASSUME NEW s \in States, Carry(s) PROVE ActionInv'
  <2>1. /\ UNCHANGED <<lists, details, last, typed, filter, opened, asking, owes>>
        /\ calls[s].at = "sent" /\ rows' = [rows EXCEPT ![calls[s].row] = s]
        /\ calls' = [calls EXCEPT ![s].at = "done"]
    BY <1>6 DEF Carry, queries, controls, dialogs
  <2>2. calls[s] \in [at : {"sent", "done"}, row : Rows]
    BY <1>0, <2>1 DEF Calls, NoCall
  <2> DEFINE call == [calls[s] EXCEPT !.at = "done"]
  <2>3. call \in Calls /\ call.row = calls[s].row
    BY <2>2 DEF Calls
  <2>4. calls' = [calls EXCEPT ![s] = call]
    BY <2>1
  <2> HIDE DEF call
  <2>5. PageInv' /\ ServerInv'
    BY <1>0, <2>1, <2>2, <2>3, <2>4 DEF PageInv, ServerInv
  <2>6. \A t \in States : calls'[t].row = calls[t].row
    BY <1>0, <2>3, <2>4
  <2>7. \A q \in Rows : owes'[q] # <<>> => owes'[q] = owes[q] /\ rows'[q] = rows[q]
    <3>1. \A q \in Rows : owes[q] # <<>> => calls[s].row # q
      BY DEF ActionInv, OwedInv
    <3> QED
      BY <1>0, <2>1, <3>1
  <2> QED
    BY <2>1, <2>5, <2>6, <2>7, StepKeepsAction
<1>7. ASSUME NEW s \in States, Fails(s) PROVE ActionInv'
  <2>1. /\ UNCHANGED <<lists, details, last, typed, filter, opened, asking, owes, rows>>
        /\ calls' = [calls EXCEPT ![s] = NoCall]
    BY <1>7 DEF Fails, server, queries, controls, dialogs
  <2>2. PageInv' /\ ServerInv'
    BY <1>0, <2>1 DEF PageInv, ServerInv, Calls
  <2>3. \A q \in Rows, t \in States : calls'[t].row = q => calls[t].row = q
    <3>1. 0 \notin Rows
      BY DEF ConsoleAssumption
    <3> QED
      BY <1>0, <2>1, <3>1 DEF NoCall
  <2> QED
    BY <2>1, <2>2, <2>3, StepKeepsAction
<1>8. CASE Confirm
  <2>1. asking \in States
    BY <1>0, <1>8 DEF Confirm
  <2> QED
    BY <1>5, <1>8, <2>1
<1> QED
  BY <1>1, <1>2, <1>3, <1>4, <1>5, <1>6, <1>7, <1>8, FetchKeepsAction, EnterKeepsAction,
     SuccessKeepsAction DEF ConsoleNext

(* An action the administrator was told has succeeded shows in every list  *)
(* and detail that passes for current, for any number of rows, pages and   *)
(* fetches under way (use-admin.ts, onSuccess of its mutations).           *)
THEOREM OwnActionsAreShown == ConsoleSpec => []OwnActionsShow
  BY ActionInitially, NextKeepsAction, ActionInvSuffices, ConsoleAssumption, PTL DEF ConsoleSpec

-----------------------------------------------------------------------------
(* Pages. *)

(* While nobody has changed a row: the lists have the pages the server     *)
(* would answer with now, and the page that is open is one of them.        *)
Total(k) == Answer(k).pages
StandsInv ==
  /\ acts \in Nat /\ changes \in Nat
  /\ acts = 0 /\ changes = 0 =>
       /\ \A s \in States : calls[s] = NoCall
       /\ \A k \in Keys : \A held \in {lists[k].data, lists[k].answer} :
            held # <<>> => held[1].page = k.page /\ held[1].pages = Total(k)
       /\ filter.page > 1 /\ ~hurried => filter.page <= Total(filter)

(* Every page of a filter is answered with the same totals.                *)
LEMMA TotalOfFilter ==
  ASSUME NEW k, NEW j, k.search = j.search, k.status = j.status
  PROVE  Total(k) = Total(j)
<1>1. Matching(k) = Matching(j)
  BY DEF Matching
<1> QED
  BY <1>1 DEF Total, Answer

LEMMA TotalStays ==
  ASSUME UNCHANGED rows
  PROVE  \A k \in Keys : Total(k)' = Total(k)
  BY DEF Total, Answer, Matching

LEMMA StandsInitially == ConsoleAssumption /\ ConsoleInit => StandsInv
  BY DEF StandsInv, ConsoleInit, NoEntry, NewFilter

LEMMA StandsSuffices == ActionInv /\ StandsInv => NotStranded
<1> SUFFICES ASSUME ActionInv, StandsInv, Has(lists[filter]), filter.page > 1, ~hurried,
                    acts = 0, changes = 0
             PROVE  Shown[1].pages >= filter.page
  BY DEF NotStranded
<1>1. filter \in Keys /\ filter.page \in Nat
  BY DEF ActionInv, PageInv, Keys
<1>2. Shown = lists[filter].data /\ Shown # <<>>
  BY DEF Shown, Has
<1>3. Shown[1].pages = Total(filter)
  BY <1>1, <1>2 DEF StandsInv
<1>4. filter.page <= Total(filter)
  BY DEF StandsInv
<1>5. Total(filter) \in Nat
  BY <1>1, ConsoleAssumption, AnswerHolds DEF Total, ActionInv, ListValues
<1> QED
  BY <1>1, <1>3, <1>4, <1>5

(* Once a row has been changed or an action sent, it stays so.             *)
LEMMA Changed ==
  ASSUME StandsInv,
         \/ acts' = acts + 1 /\ changes' = changes
         \/ acts' = acts /\ changes' = changes + 1
         \/ acts' = acts /\ changes' = changes /\ ~(acts = 0 /\ changes = 0)
  PROVE  StandsInv'
<1>1. acts \in Nat /\ changes \in Nat
  BY DEF StandsInv
<1>2. acts' \in Nat /\ changes' \in Nat /\ ~(acts' = 0 /\ changes' = 0)
  BY <1>1
<1> QED
  BY <1>2 DEF StandsInv

(* Steps of the lists.                                                     *)
LEMMA ListsStand ==
  ASSUME ActionInv, StandsInv, UNCHANGED <<acts, changes, rows, filter, hurried>>,
         acts = 0 /\ changes = 0 => calls' = calls,
         \A k \in Keys : \A held \in {lists'[k].data, lists'[k].answer} :
           \/ held \in {<<>>, lists[k].data, lists[k].answer}
           \/ held = <<Answer(k)>> /\ Answer(k).page = k.page
  PROVE  StandsInv'
<1>1. filter \in Keys
  BY DEF ActionInv, PageInv
<1>2. \A k \in Keys : Total(k)' = Total(k)
  BY TotalStays
<1>3. SUFFICES ASSUME acts = 0, changes = 0
               PROVE  /\ \A s \in States : calls'[s] = NoCall
                      /\ \A k \in Keys : \A held \in {lists'[k].data, lists'[k].answer} :
                           held # <<>> => held[1].page = k.page /\ held[1].pages = Total(k)
                      /\ filter.page > 1 /\ ~hurried => filter.page <= Total(filter)
  BY <1>1, <1>2 DEF StandsInv
<1>4. ASSUME NEW k \in Keys, NEW held \in {lists'[k].data, lists'[k].answer}, held # <<>>
      PROVE  held[1].page = k.page /\ held[1].pages = Total(k)
  <2>1. CASE held \in {lists[k].data, lists[k].answer}
    BY <1>3, <1>4, <2>1 DEF StandsInv
  <2>2. CASE held = <<Answer(k)>> /\ Answer(k).page = k.page
    BY <2>2 DEF Total
  <2> QED
    BY <1>4, <2>1, <2>2
<1> QED
  BY <1>3, <1>4 DEF StandsInv

(* Steps to another filter or page. *)
LEMMA PagesStand ==
  ASSUME ActionInv, StandsInv, UNCHANGED <<acts, changes, rows, calls, lists>>, filter' \in Keys,
         acts = 0 /\ changes = 0 /\ filter'.page > 1 /\ ~hurried' => filter'.page <= Total(filter')
  PROVE  StandsInv'
<1>1. \A k \in Keys : Total(k)' = Total(k)
  BY TotalStays
<1> QED
  BY <1>1 DEF StandsInv

LEMMA TurningStands ==
  ASSUME ConsoleAssumption, ActionInv, StandsInv, NextPage \/ PreviousPage
  PROVE  StandsInv'
<1>1. UNCHANGED <<acts, changes, rows, calls, lists>>
  BY DEF NextPage, PreviousPage, GoTo, server, mutations
<1>2. filter' \in Keys
  BY FilterStays DEF ActionInv
<1>3. PICK p : /\ filter' = [filter EXCEPT !.page = p]
               /\ \/ p = Here + 1 /\ HasNext /\ hurried' = ~Has(lists[filter])
                  \/ p = Here - 1 /\ Here > 1 /\ hurried' = (hurried \/ ~Has(lists[filter]))
  BY DEF NextPage, PreviousPage, GoTo
<1>4. /\ filter \in Keys /\ filter.page \in Nat
      /\ filter'.page = p /\ Total(filter') = Total(filter)
  <2>1. /\ filter \in Keys /\ filter.page \in Nat
        /\ filter'.page = p /\ filter'.search = filter.search /\ filter'.status = filter.status
    BY <1>3 DEF ActionInv, PageInv, Keys
  <2> QED
    BY <2>1, TotalOfFilter
<1>5. ASSUME acts = 0, changes = 0, p > 1, ~hurried' PROVE p <= Total(filter)
  <2>1. Has(lists[filter])
    BY <1>3, <1>5
  <2>2. Shown = lists[filter].data /\ Shown # <<>>
    BY <2>1 DEF Shown, Has
  <2>3. Shown[1].pages = Total(filter) /\ Shown[1].page = filter.page
    BY <1>4, <1>5, <2>2 DEF StandsInv
  <2>4. Here = filter.page /\ Total(filter) \in Nat
    BY <1>4, <2>3, AnswerHolds DEF Here, Total, ActionInv, ListValues
  <2>5. CASE p = Here + 1 /\ HasNext
    BY <1>4, <2>3, <2>4, <2>5 DEF HasNext
  <2>6. CASE p = Here - 1 /\ ~hurried /\ Here > 1
    <3>1. filter.page <= Total(filter)
      BY <1>5, <2>4, <2>6 DEF StandsInv
    <3> QED
      BY <1>4, <2>4, <2>6, <3>1
  <2> QED
    BY <1>3, <1>5, <2>5, <2>6
<1> QED
  BY <1>1, <1>2, <1>4, <1>5, PagesStand

LEMMA NextStands ==
  ASSUME ConsoleAssumption, ActionInv, StandsInv, [ConsoleNext]_consoleVars
  PROVE  StandsInv'
<1>0. /\ filter \in Keys /\ \A k \in Keys : Answer(k).page = k.page
      /\ lists \in [Keys -> Entries(ListValues)]
  BY AnswerHolds DEF ActionInv, PageInv, CacheInv
<1>1. CASE \E r \in Rows, s \in States : Elsewhere(r, s)
  BY <1>1, Changed DEF Elsewhere
<1>2. CASE Confirm \/ \E s \in States : Set(s)
  BY <1>2, Changed DEF Confirm, Set, Send, server
<1>3. ASSUME NEW s \in States, Carry(s) \/ Succeeds(s) \/ Fails(s) PROVE StandsInv'
  <2>1. UNCHANGED <<acts, changes>> /\ calls[s] # NoCall
    BY <1>3 DEF Carry, Succeeds, Fails, NoCall, server
  <2> QED
    BY <2>1, Changed DEF StandsInv
<1>4. CASE AskList
  BY <1>0, <1>4, ListsStand DEF AskList, Asked, server, controls, mutations
<1>5. ASSUME NEW k \in Keys, LandList(k) \/ ListFails(k) PROVE StandsInv'
  <2>1. PICK e \in {Landed(lists[k]), Dropped(lists[k])} : lists' = [lists EXCEPT ![k] = e]
    BY <1>5 DEF LandList, ListFails
  <2>2. e.answer = <<>> /\ e.data \in {lists[k].data, lists[k].answer}
    BY <1>0, <2>1, EntryMoves
  <2>3. UNCHANGED <<acts, changes, rows, filter, hurried, calls>>
    BY <1>5 DEF LandList, ListFails, server, controls, mutations
  <2>4. \A j \in Keys : lists'[j] = IF j = k THEN e ELSE lists[j]
    BY <1>0, <2>1
  <2> QED
    BY <2>2, <2>3, <2>4, ListsStand
<1>6. CASE Enter
  <2>1. UNCHANGED <<acts, changes, rows, filter, hurried, calls>>
    BY <1>6 DEF Enter, server, mutations
  <2>2. \A k \in Keys : lists'[k] \in {lists[k], Aged(lists[k])}
    BY <1>0, <1>6 DEF Enter
  <2>3. \A k \in Keys : lists'[k].data = lists[k].data /\ lists'[k].answer = lists[k].answer
    BY <1>0, <2>2, EntryMoves
  <2> QED
    BY <2>1, <2>3, ListsStand
<1>7. CASE \/ AskDetail \/ \E r \in Rows : LandDetail(r) \/ DetailFails(r) \/ OpenRow(r)
           \/ CloseRow \/ Dismiss \/ Type \/ \E s \in States : AskFirst(s)
           \/ UNCHANGED consoleVars
  <2>1. UNCHANGED <<acts, changes, rows, filter, hurried, calls, lists>>
    BY <1>7 DEF AskDetail, LandDetail, DetailFails, OpenRow, CloseRow, Dismiss, Type, AskFirst,
                consoleVars, server, queries, controls, mutations
  <2> QED
    BY <2>1, ListsStand
<1>8. CASE CommitSearch \/ Leave \/ \E s \in Statuses : SetStatus(s)
  <2>1. UNCHANGED <<acts, changes, rows, calls, lists>>
    BY <1>8 DEF CommitSearch, Leave, SetStatus, server, mutations
  <2>2. filter' \in Keys
    BY <1>8, FilterStays, NewFilterHolds DEF ActionInv, Leave
  <2>3. filter'.page = 1
    <3>1. CASE Leave
      BY <3>1 DEF Leave, NewFilter
    <3>2. CASE CommitSearch \/ \E s \in Statuses : SetStatus(s)
      <4>1. PICK k \in Keys : filter' = [k EXCEPT !.page = 1]
        <5>1. CASE CommitSearch
          BY <1>0, <5>1 DEF CommitSearch, FirstPage, Keys, ActionInv, PageInv
        <5>2. CASE \E s \in Statuses : SetStatus(s)
          BY <1>0, <5>2 DEF SetStatus, FirstPage, Keys
        <5> QED
          BY <3>2, <5>1, <5>2
      <4> QED
        BY <4>1 DEF Keys
    <3> QED
      BY <1>8, <3>1, <3>2
  <2> QED
    BY <2>1, <2>2, <2>3, PagesStand
<1> QED
  BY <1>1, <1>2, <1>3, <1>4, <1>5, <1>6, <1>7, <1>8, TurningStands DEF ConsoleNext

(* Whoever turns pages by the totals of the filter on show stays on a page *)
(* of it, for any number of rows and of rows to a page (the pagination of  *)
(* pages/admin and use-admin.ts).                                          *)
THEOREM NobodyStranded == ConsoleSpec => []NotStranded
<1>1. ConsoleAssumption /\ ConsoleInit => ActionInv /\ StandsInv
  BY ActionInitially, StandsInitially
<1>2. ConsoleAssumption /\ ActionInv /\ StandsInv /\ [ConsoleNext]_consoleVars
        => ActionInv' /\ StandsInv'
  BY NextKeepsAction, NextStands
<1> QED
  BY <1>1, <1>2, StandsSuffices, ConsoleAssumption, PTL DEF ConsoleSpec

-----------------------------------------------------------------------------
(* The other types. *)

(* What an entry holds is the page of its key, and a confirmation is asked *)
(* for on a row whose detail has been read.                                *)
TimerInv  == screen \in Screens /\ (timer => Page[screen].search)
DialogInv == asking # "none" => Loaded
KeyedInv  ==
  \A k \in Keys : \A held \in {lists[k].data, lists[k].answer} :
    held # <<>> => held[1].page = k.page

LEMMA NextKeepsTimer ==
  ASSUME TimerInv, [ConsoleNext]_consoleVars
  PROVE  TimerInv'
<1>1. CASE Type \/ CommitSearch \/ Leave \/ Enter
  BY <1>1 DEF Type, CommitSearch, Leave, Enter, fixed, rest, TimerInv
<1>2. CASE UNCHANGED <<screen, timer>>
  BY <1>2 DEF TimerInv
<1>3. CASE \/ \E r \in Rows, s \in States : Elsewhere(r, s)
           \/ AskList \/ AskDetail \/ NextPage \/ PreviousPage
           \/ \E k \in Keys : LandList(k) \/ ListFails(k)
           \/ \E r \in Rows : LandDetail(r) \/ DetailFails(r) \/ OpenRow(r)
           \/ \E s \in Statuses : SetStatus(s)
           \/ CloseRow \/ Dismiss \/ Confirm
           \/ \E s \in States : Set(s) \/ AskFirst(s) \/ Carry(s) \/ Succeeds(s) \/ Fails(s)
           \/ UNCHANGED consoleVars
  BY <1>2, <1>3
     DEF Elsewhere, AskList, AskDetail, NextPage, PreviousPage, GoTo, LandList, ListFails,
         LandDetail, DetailFails, OpenRow, SetStatus, CloseRow, Dismiss, Confirm, Set, AskFirst,
         Carry, Succeeds, Fails, controls, fixed, rest, consoleVars
<1> QED
  BY <1>1, <1>3 DEF ConsoleNext

(* A detail that was read stays in the cache: it is read again, or marked  *)
(* as stale, and not dropped.                                              *)
LEMMA DetailsStay ==
  ASSUME ActionInv, [ConsoleNext]_consoleVars, NEW d \in Rows, Has(details[d])
  PROVE  Has(details'[d])
<1>0. details \in [Rows -> Entries(States)] /\ opened \in Rows \cup {0}
  BY DEF ActionInv, CacheInv, PageInv
<1>1. CASE AskDetail
  BY <1>0, <1>1 DEF AskDetail, Asked, Has
<1>2. ASSUME NEW r \in Rows, LandDetail(r) \/ DetailFails(r) PROVE Has(details'[d])
  <2>1. PICK e : details' = [details EXCEPT ![r] = e] /\ e.data \in {details[r].data, details[r].answer}
                 /\ (e.data = details[r].answer => e.data # <<>> \/ details[r].data = <<>>)
    BY <1>0, <1>2, EntryMoves DEF LandDetail, DetailFails, Idle
  <2> QED
    BY <1>0, <2>1 DEF Has
<1>3. CASE Enter \/ \E s \in States : Succeeds(s)
  <2>1. details'[d] \in {details[d], Aged(details[d])}
          \cup {Outdated(details[d], observed) : observed \in BOOLEAN}
    BY <1>0, <1>3 DEF Enter, Succeeds
  <2>2. details'[d].data = details[d].data
    BY <1>0, <2>1, EntryMoves, OutdatedMoves
  <2> QED
    BY <2>2 DEF Has
<1>4. CASE details' = details
  BY <1>4
<1>5. CASE \/ \E r \in Rows, s \in States : Elsewhere(r, s)
           \/ AskList \/ NextPage \/ PreviousPage \/ Type \/ CommitSearch \/ Leave
           \/ \E k \in Keys : LandList(k) \/ ListFails(k)
           \/ \E r \in Rows : OpenRow(r)
           \/ \E s \in Statuses : SetStatus(s)
           \/ CloseRow \/ Dismiss \/ Confirm
           \/ \E s \in States : Set(s) \/ AskFirst(s) \/ Carry(s) \/ Fails(s)
           \/ UNCHANGED consoleVars
  BY <1>4, <1>5
     DEF Elsewhere, AskList, NextPage, PreviousPage, GoTo, Type, CommitSearch, Leave, LandList,
         ListFails, OpenRow, SetStatus, CloseRow, Dismiss, Confirm, Set, AskFirst,
         Carry, Fails, queries, consoleVars
<1> QED
  BY <1>1, <1>2, <1>3, <1>5 DEF ConsoleNext

LEMMA NextKeepsDialog ==
  ASSUME ActionInv, DialogInv, [ConsoleNext]_consoleVars
  PROVE  DialogInv'
<1>0. opened \in Rows \cup {0} /\ (asking # "none" => opened # 0)
  BY DEF ActionInv, PageInv
<1>1. ASSUME opened' = opened, Loaded PROVE Loaded'
  BY <1>0, <1>1, DetailsStay DEF Loaded, Has
<1>2. CASE UNCHANGED <<opened, asking>>
  BY <1>1, <1>2 DEF DialogInv
<1>3. CASE CloseRow \/ Dismiss \/ Confirm \/ Leave \/ \E r \in Rows : OpenRow(r)
  BY <1>0, <1>3 DEF CloseRow, Dismiss, Confirm, AfterConfirm, Leave, OpenRow, DialogInv
<1>4. ASSUME NEW s \in States, AskFirst(s) PROVE DialogInv'
  <2>1. opened' = opened /\ Loaded
    BY <1>4 DEF AskFirst, Offered
  <2> QED
    BY <1>1, <2>1 DEF DialogInv
<1>5. CASE \/ \E r \in Rows, s \in States : Elsewhere(r, s)
           \/ AskList \/ AskDetail \/ NextPage \/ PreviousPage \/ Type \/ CommitSearch \/ Enter
           \/ \E k \in Keys : LandList(k) \/ ListFails(k)
           \/ \E r \in Rows : LandDetail(r) \/ DetailFails(r)
           \/ \E s \in Statuses : SetStatus(s)
           \/ \E s \in States : Set(s) \/ Carry(s) \/ Succeeds(s) \/ Fails(s)
           \/ UNCHANGED consoleVars
  BY <1>2, <1>5
     DEF Elsewhere, AskList, AskDetail, NextPage, PreviousPage, GoTo, Type, CommitSearch, Enter,
         LandList, ListFails, LandDetail, DetailFails, SetStatus, Set, Carry, Succeeds, Fails,
         dialogs, consoleVars
<1> QED
  BY <1>3, <1>4, <1>5 DEF ConsoleNext

LEMMA NextKeepsKeyed ==
  ASSUME ConsoleAssumption, ActionInv, KeyedInv, [ConsoleNext]_consoleVars
  PROVE  KeyedInv'
<1>0. /\ lists \in [Keys -> Entries(ListValues)] /\ filter \in Keys
      /\ \A k \in Keys : Answer(k).page = k.page
  BY AnswerHolds DEF ActionInv, CacheInv, PageInv
<1>1. SUFFICES \A k \in Keys : \A held \in {lists'[k].data, lists'[k].answer} :
                 held \in {<<>>, lists[k].data, lists[k].answer, <<Answer(k)>>}
  BY <1>0 DEF KeyedInv
<1>2. CASE AskList
  BY <1>0, <1>2 DEF AskList, Asked
<1>3. ASSUME NEW j \in Keys, LandList(j) \/ ListFails(j)
      PROVE  \A k \in Keys : \A held \in {lists'[k].data, lists'[k].answer} :
               held \in {<<>>, lists[k].data, lists[k].answer}
  <2>1. PICK e \in {Landed(lists[j]), Dropped(lists[j])} : lists' = [lists EXCEPT ![j] = e]
    BY <1>3 DEF LandList, ListFails
  <2>2. e.answer = <<>> /\ e.data \in {lists[j].data, lists[j].answer}
    BY <1>0, <2>1, EntryMoves
  <2> QED
    BY <1>0, <2>1, <2>2
<1>4. CASE Enter \/ \E s \in States : Succeeds(s)
  <2>1. \A k \in Keys : lists'[k] \in {lists[k], Aged(lists[k])}
          \cup {Outdated(lists[k], observed) : observed \in BOOLEAN}
    BY <1>0, <1>4 DEF Enter, Succeeds, Observed
  <2>2. \A k \in Keys : /\ lists'[k].data = lists[k].data
                        /\ lists'[k].answer \in {lists[k].answer, <<>>}
    BY <1>0, <2>1, EntryMoves, OutdatedMoves
  <2> QED
    BY <2>2
<1>5. CASE lists' = lists
  BY <1>5
<1>6. CASE \/ \E r \in Rows, s \in States : Elsewhere(r, s)
           \/ AskDetail \/ NextPage \/ PreviousPage \/ Type \/ CommitSearch \/ Leave
           \/ \E r \in Rows : LandDetail(r) \/ DetailFails(r) \/ OpenRow(r)
           \/ \E s \in Statuses : SetStatus(s)
           \/ CloseRow \/ Dismiss \/ Confirm
           \/ \E s \in States : Set(s) \/ AskFirst(s) \/ Carry(s) \/ Fails(s)
           \/ UNCHANGED consoleVars
  BY <1>5, <1>6
     DEF Elsewhere, AskDetail, NextPage, PreviousPage, GoTo, Type, CommitSearch, Leave,
         LandDetail, DetailFails, OpenRow, SetStatus, CloseRow, Dismiss, Confirm, Set, AskFirst,
         Carry, Fails, queries, consoleVars
<1> QED
  BY <1>2, <1>3, <1>4, <1>6 DEF ConsoleNext

LEMMA TypesSuffice == ActionInv /\ TimerInv /\ DialogInv /\ KeyedInv => ConsoleTypeOK
<1> SUFFICES ASSUME ActionInv, TimerInv, DialogInv, KeyedInv PROVE ConsoleTypeOK
  OBVIOUS
<1>1. ASSUME NEW k \in Keys, NEW held \in {lists[k].data, lists[k].answer}, held # <<>>
      PROVE  held[1].page = k.page /\ Cardinality(held[1].rows) <= PerPage
  <2>1. held \in Maybe(ListValues)
    BY DEF ActionInv, CacheInv, Entries, Shapes
  <2>2. held[1].rows \in Portions
    BY <1>1, <2>1 DEF Maybe, ListValues
  <2> QED
    BY <1>1, <2>2 DEF KeyedInv, Portions
<1>2. \A d \in Rows : EntryOK(details[d], States)
  BY EntriesAreOK DEF ActionInv, CacheInv
<1> QED
  BY <1>1, <1>2 DEF ConsoleTypeOK, ActionInv, PageInv, ServerInv, TimerInv, DialogInv

(* Every variable of the console keeps its type: no answer holds more rows *)
(* than a page (LIMIT and OFFSET of ListAllSalePages and its like), an     *)
(* entry holds the page of its key, and a confirmation is asked for about  *)
(* a row whose detail has been read.                                       *)
THEOREM ConsoleTypeCorrect == ConsoleSpec => []ConsoleTypeOK
<1> DEFINE Inv == ActionInv /\ TimerInv /\ DialogInv /\ KeyedInv
<1>1. ConsoleAssumption /\ ConsoleInit => Inv
  BY ActionInitially DEF ConsoleInit, TimerInv, DialogInv, KeyedInv, NoEntry
<1>2. ConsoleAssumption /\ Inv /\ [ConsoleNext]_consoleVars => Inv'
  BY NextKeepsAction, NextKeepsTimer, NextKeepsDialog, NextKeepsKeyed
<1>3. Inv => ConsoleTypeOK
  BY TypesSuffice
<1> HIDE DEF Inv
<1> QED
  BY <1>1, <1>2, <1>3, ConsoleAssumption, PTL DEF ConsoleSpec
================================================================================
