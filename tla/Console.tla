-------------------------------- MODULE Console --------------------------------
(***************************************************************************)
(* The lists that are read page by page: those of the administrator's      *)
(* console with their filters, pages, detail dialogs and actions           *)
(* (pages/admin, components/admin), and the queries and mutations of       *)
(* use-admin.ts behind them; and the customer's history of events.  The    *)
(* screens share one behaviour and differ in what their page and their     *)
(* dialog offer, which is written down in a record for each.  One screen   *)
(* is open at a time.                                                      *)
(***************************************************************************)
EXTENDS Integers, Sequences, FiniteSets, QueryCache

CONSTANTS Rows,      \* the server's rows, numbered in the order of the list
          Hits,      \* those the text in the search box matches
          PerPage,   \* twenty in the code
          MaxPage,   \* bound: the pages there are to turn to
          MaxSteps, MaxVisits  \* bounds: uses of the page and changes to rows, visits

ASSUME ConsoleAssumption ==
  /\ Rows \subseteq Nat \ {0} /\ IsFiniteSet(Rows) /\ Hits \subseteq Rows
  /\ PerPage \in Nat \ {0} /\ MaxPage \in Nat \ {0}

VARIABLES screen,    \* the screen that is open; it stays
          rows,      \* the server's rows: on, off or gone
          lists,     \* query cache: ['admin', screen, filters and page]
          details,   \* query cache: ['admin', screen, id]
          mounted,
          typed,     \* the search box holds the text
          timer,     \* the debounce runs
          filter,    \* what the query key holds: [search, status, page]
          last,      \* the data shown last: placeholderData of the next key
          opened,    \* selectedId, 0 when null
          asking,    \* the action a confirmation dialog asks about
          calls,     \* the mutations under way, by the state they set
          owes,      \* what an answered action left in a row nobody touched since
          hurried,   \* paged by the totals of another filter
          gaveUp,    \* the last fetch of the list on show failed for good
          unheard,   \* somebody else changed a row, or an answer was lost
          moves, acts, changes, visits  \* counted for the bounds

server  == <<rows, changes>>
queries == <<lists, details, last>>
controls == <<typed, timer, filter, hurried, moves>>
dialogs == <<opened, asking>>
mutations == <<calls, owes, acts>>
fixed   == <<screen, mounted, visits>>
rest    == <<fixed, gaveUp>>
consoleVars == <<server, queries, controls, dialogs, mutations, rest, unheard>>

-----------------------------------------------------------------------------
\* What each screen offers.  search: a debounced search box; filters: choices that
\* act at once; byData: its buttons page from the data on show; keeps: what it
\* showed last stays while a page loads (placeholderData); direct: the states its
\* dialog sets at once; asked: those it sets after a confirmation.

NoDialog == [direct |-> {}, asked |-> {}]

CustomersPage == [search |-> TRUE, filters |-> TRUE, byData |-> FALSE, keeps |-> TRUE]
CustomerDetailDialog == [direct |-> {"on"}, asked |-> {"off"}]

PixelsPage == [search |-> TRUE, filters |-> TRUE, byData |-> FALSE, keeps |-> TRUE]
PixelDetailDialog == [direct |-> {"on", "off"}, asked |-> {}]

SalePagesPage == [search |-> TRUE, filters |-> TRUE, byData |-> FALSE, keeps |-> TRUE]
SalePageDetailDialog == [direct |-> {"on", "off"}, asked |-> {"gone"}]

ReplaysPage == [search |-> FALSE, filters |-> TRUE, byData |-> FALSE, keeps |-> TRUE]
ReplayDetailDialog == [direct |-> {}, asked |-> {"off"}]

EventsPage == [search |-> TRUE, filters |-> TRUE, byData |-> FALSE, keeps |-> TRUE]
AuditLogPage == [search |-> FALSE, filters |-> TRUE, byData |-> FALSE, keeps |-> TRUE]
PurchasesTab == [search |-> FALSE, filters |-> TRUE, byData |-> TRUE, keeps |-> TRUE]
SubscriptionsTab == [search |-> FALSE, filters |-> TRUE, byData |-> TRUE, keeps |-> TRUE]
CreditGrantsTab == [search |-> FALSE, filters |-> FALSE, byData |-> TRUE, keeps |-> TRUE]

\* The customer's own events, page by page: the history mode of the events page.
EventHistory == [search |-> FALSE, filters |-> TRUE, byData |-> FALSE, keeps |-> FALSE]

Page ==
  [customers |-> CustomersPage, pixels |-> PixelsPage, salePages |-> SalePagesPage,
   replays |-> ReplaysPage, events |-> EventsPage, auditLog |-> AuditLogPage,
   purchases |-> PurchasesTab, subscriptions |-> SubscriptionsTab,
   credits |-> CreditGrantsTab, history |-> EventHistory]

Dialog ==
  [customers |-> CustomerDetailDialog, pixels |-> PixelDetailDialog,
   salePages |-> SalePageDetailDialog, replays |-> ReplayDetailDialog,
   events |-> NoDialog, auditLog |-> NoDialog, purchases |-> NoDialog,
   subscriptions |-> NoDialog, credits |-> NoDialog, history |-> NoDialog]

Screens  == DOMAIN Page
States   == {"on", "off", "gone"}
Statuses == {"all", "off"}
Keys     == [search : BOOLEAN, status : Statuses, page : 1 .. MaxPage]

\* Room under the bound for another use of the page or change of a row.
Left == moves + acts + changes < MaxSteps

NoCall == [at |-> "no", row |-> 0]
NewFilter == [search |-> FALSE, status |-> "all", page |-> 1]

-----------------------------------------------------------------------------
\* The server's side of the queries.

Matching(k) ==
  {r \in Rows : /\ rows[r] # "gone"
                /\ k.search => r \in Hits
                /\ k.status = "all" \/ rows[r] = k.status}

\* The place of row r in the list of the rows m.
Place(r, m) == Cardinality({q \in m : q <= r})

Answer(k) ==
  LET m == Matching(k)
  IN  [page  |-> k.page, pages |-> (Cardinality(m) + PerPage - 1) \div PerPage,
       rows  |-> {[row |-> r, state |-> rows[r]] :
                    r \in {q \in m : Place(q, m) \in (k.page - 1) * PerPage + 1 .. k.page * PerPage}}]

\* Customers and their replays change the rows as well; a replay that was
\* cancelled while it waited runs after all when its turn comes.
Elsewhere(r, state) ==
  /\ Left /\ state # rows[r] /\ {state, rows[r]} \subseteq {"on", "off"}
  /\ rows' = [rows EXCEPT ![r] = state]
  /\ changes' = changes + 1
  /\ owes' = [owes EXCEPT ![r] = <<>>]
  /\ unheard' = TRUE
  /\ UNCHANGED <<queries, controls, dialogs, calls, acts, rest>>

-----------------------------------------------------------------------------
\* The queries.

Observed(k) == mounted /\ k = filter

Shown == IF Has(lists[filter]) THEN lists[filter].data
         ELSE IF Page[screen].keeps THEN last ELSE <<>>
Remember == last' = IF Has(lists[filter]') THEN (lists[filter].data)' ELSE last

AskList ==
  /\ mounted /\ Wanted(lists[filter])
  /\ lists' = [lists EXCEPT ![filter] = Asked(@, Answer(filter))]
  /\ gaveUp' = FALSE
  /\ UNCHANGED <<server, details, last, controls, dialogs, mutations, fixed, unheard>>

LandList(k) ==
  /\ ~Idle(lists[k])
  /\ lists' = [lists EXCEPT ![k] = Landed(@)]
  /\ UNCHANGED <<server, details, controls, dialogs, mutations, rest, unheard>>
  /\ IF mounted THEN Remember ELSE UNCHANGED last

ListFails(k) ==
  /\ ~Idle(lists[k])
  /\ lists' = [lists EXCEPT ![k] = Dropped(@)]
  /\ gaveUp' = (gaveUp \/ Observed(k))
  /\ UNCHANGED <<server, details, last, controls, dialogs, mutations, fixed, unheard>>

\* A row that is gone answers with an error.
AskDetail ==
  /\ mounted /\ opened # 0 /\ Wanted(details[opened]) /\ rows[opened] # "gone"
  /\ details' = [details EXCEPT ![opened] = Asked(@, rows[opened])]
  /\ UNCHANGED <<server, lists, last, controls, dialogs, mutations, rest, unheard>>

LandDetail(r) ==
  /\ ~Idle(details[r])
  /\ details' = [details EXCEPT ![r] = Landed(@)]
  /\ UNCHANGED <<server, lists, last, controls, dialogs, mutations, rest, unheard>>

DetailFails(r) ==
  /\ ~Idle(details[r])
  /\ details' = [details EXCEPT ![r] = Dropped(@)]
  /\ UNCHANGED <<server, lists, last, controls, dialogs, mutations, rest, unheard>>

-----------------------------------------------------------------------------
\* Filters and pages.

\* The list of another key has not failed yet.
Turned == gaveUp' = (gaveUp /\ filter' = filter)

FirstPageSlip(k) == k
\* Every filter, and the committed search, goes back to the first page.
FirstPage(k) == [k EXCEPT !.page = 1]

Move == mounted /\ opened = 0 /\ Left /\ moves' = moves + 1

Type ==
  /\ Move /\ Page[screen].search
  /\ typed' = ~typed /\ timer' = TRUE
  /\ UNCHANGED <<server, queries, filter, hurried, dialogs, mutations, rest, unheard>>

\* 300 ms after the last keystroke, and after the page has opened.
CommitSearch ==
  /\ mounted /\ timer
  /\ timer' = FALSE
  /\ filter' = FirstPage([filter EXCEPT !.search = typed])
  /\ hurried' = FALSE
  /\ UNCHANGED <<server, lists, details, typed, moves, dialogs, mutations, fixed, unheard>>
  /\ Remember /\ Turned

SetStatus(s) ==
  /\ Move /\ Page[screen].filters /\ s # filter.status
  /\ filter' = FirstPage([filter EXCEPT !.status = s])
  /\ hurried' = FALSE
  /\ UNCHANGED <<server, lists, details, typed, timer, dialogs, mutations, fixed, unheard>>
  /\ Remember /\ Turned

\* The history shows its buttons under rows only.
Paginated ==
  /\ Shown # <<>> /\ Shown[1].pages > 1
  /\ screen = "history" => Shown[1].rows # {}
Here == IF Page[screen].byData THEN Shown[1].page ELSE filter.page

\* The button is disabled on the last page of the data on show.
HasNext == Here < Shown[1].pages

\* A page reached by the totals of another filter, or on the way back from one.
GoTo(p, astray) ==
  /\ filter' = [filter EXCEPT !.page = p]
  /\ hurried' = (astray \/ ~Has(lists[filter]))
  /\ UNCHANGED <<server, lists, details, typed, timer, dialogs, mutations, fixed, unheard>>
  /\ Remember /\ Turned

NextPage == Paginated /\ HasNext /\ Here < MaxPage /\ Move /\ GoTo(Here + 1, FALSE)
PreviousPage == Paginated /\ Here > 1 /\ Move /\ GoTo(Here - 1, hurried)

-----------------------------------------------------------------------------
\* The detail dialog of a row and its actions.

OpenRow(r) ==
  /\ mounted /\ opened = 0 /\ Dialog[screen] # NoDialog
  /\ Shown # <<>> /\ \E seen \in Shown[1].rows : seen.row = r
  /\ opened' = r
  /\ UNCHANGED <<server, queries, controls, asking, mutations, rest, unheard>>

CloseRow ==
  /\ opened # 0 /\ asking = "none"
  /\ opened' = 0
  /\ UNCHANGED <<server, queries, controls, asking, mutations, rest, unheard>>

Loaded == opened # 0 /\ Has(details[opened])

\* The state the buttons of the dialog lead to from the one it shows.
Offered(state) ==
  /\ Loaded
  /\ \/ state = "gone"
     \/ state = "off" /\ details[opened].data[1] = "on"
     \/ state = "on" /\ details[opened].data[1] = "off"

\* isPending: toggles share their buttons, the deletion has its own.
Free(state) ==
  IF state = "gone" THEN calls["gone"] = NoCall ELSE calls["on"] = NoCall /\ calls["off"] = NoCall

Send(state) ==
  /\ Left /\ acts' = acts + 1
  /\ calls' = [calls EXCEPT ![state] = [at |-> "sent", row |-> opened]]
  /\ owes' = [owes EXCEPT ![opened] = <<>>]

Set(state) ==
  /\ asking = "none" /\ state \in Dialog[screen].direct /\ Offered(state) /\ Free(state)
  /\ Send(state)
  /\ UNCHANGED <<server, queries, controls, dialogs, rest, unheard>>

AskFirst(state) ==
  /\ asking = "none" /\ state \in Dialog[screen].asked /\ Offered(state)
  /\ state # "off" \/ screen = "replays" \/ Free(state)
  /\ asking' = state
  /\ UNCHANGED <<server, queries, controls, opened, mutations, rest, unheard>>

Dismiss ==
  /\ asking # "none"
  /\ asking' = "none"
  /\ UNCHANGED <<server, queries, controls, opened, mutations, rest, unheard>>

\* The confirmation closes, and with a deletion the dialog under it.
AfterConfirm ==
  /\ asking' = "none"
  /\ opened' = IF asking = "gone" THEN 0 ELSE opened

Confirm ==
  /\ asking # "none" /\ Free(asking)
  /\ Send(asking)
  /\ AfterConfirm
  /\ UNCHANGED <<server, queries, controls, rest, unheard>>

\* The server finds the row, and a replay that can still be cancelled.
Carry(state) ==
  LET r == calls[state].row IN
  /\ calls[state].at = "sent" /\ rows[r] # "gone"
  /\ screen = "replays" => rows[r] = "on"
  /\ rows' = [rows EXCEPT ![r] = state]
  /\ calls' = [calls EXCEPT ![state].at = "done"]
  /\ UNCHANGED <<changes, queries, controls, dialogs, owes, acts, rest, unheard>>

InvalidatedSlip(k) == k = filter
\* onSuccess: every list of the screen and every detail of it.
Invalidated(k) == TRUE

\* The row is as the last of its calls left it, once the others are answered.
Settles(state) ==
  \A s \in States \ {state} : calls[s] = NoCall \/ calls[s].row # calls[state].row

Succeeds(state) ==
  LET r == calls[state].row IN
  /\ calls[state].at = "done"
  /\ calls' = [calls EXCEPT ![state] = NoCall]
  /\ lists' = [k \in Keys |-> IF Invalidated(k) THEN Outdated(lists[k], Observed(k)) ELSE lists[k]]
  /\ details' = [d \in Rows |-> Outdated(details[d], mounted /\ d = opened)]
  /\ owes' = IF Settles(state) THEN [owes EXCEPT ![r] = <<rows[r]>>] ELSE owes
  /\ gaveUp' = FALSE
  /\ UNCHANGED <<server, last, controls, dialogs, acts, fixed, unheard>>

Fails(state) ==
  /\ calls[state].at # "no"
  /\ calls' = [calls EXCEPT ![state] = NoCall]
  /\ unheard' = (unheard \/ calls[state].at = "done")
  /\ UNCHANGED <<server, queries, controls, dialogs, owes, acts, rest>>

-----------------------------------------------------------------------------
\* Leaving a screen drops its state; opening it starts the debounce.  What the
\* cache holds may have grown old by then.

Leave ==
  /\ mounted
  /\ mounted' = FALSE /\ gaveUp' = FALSE
  /\ typed' = FALSE /\ timer' = FALSE /\ filter' = NewFilter /\ hurried' = FALSE
  /\ last' = <<>> /\ opened' = 0 /\ asking' = "none"
  /\ UNCHANGED <<server, lists, details, moves, mutations, screen, visits, unheard>>

Enter ==
  /\ ~mounted /\ visits < MaxVisits
  /\ mounted' = TRUE /\ visits' = visits + 1
  /\ timer' = Page[screen].search
  /\ \/ UNCHANGED <<lists, details>>
     \/ /\ lists' = [k \in Keys |-> Aged(lists[k])]
        /\ details' = [d \in Rows |-> Aged(details[d])]
  /\ UNCHANGED <<server, typed, filter, hurried, gaveUp, moves, dialogs, mutations, screen,
                 unheard>>
  /\ Remember

-----------------------------------------------------------------------------
ConsoleInit ==
  /\ screen \in Screens
  /\ rows = [r \in Rows |-> "on"] /\ changes = 0
  /\ lists = [k \in Keys |-> NoEntry] /\ details = [d \in Rows |-> NoEntry] /\ last = <<>>
  /\ mounted = FALSE /\ visits = 0
  /\ typed = FALSE /\ timer = FALSE /\ filter = NewFilter
  /\ opened = 0 /\ asking = "none"
  /\ calls = [s \in States |-> NoCall] /\ owes = [r \in Rows |-> <<>>]
  /\ hurried = FALSE /\ gaveUp = FALSE /\ unheard = FALSE
  /\ moves = 0 /\ acts = 0

ConsoleNext ==
  \/ \E r \in Rows, s \in States : Elsewhere(r, s)
  \/ AskList \/ AskDetail
  \/ \E k \in Keys : LandList(k) \/ ListFails(k)
  \/ \E r \in Rows : LandDetail(r) \/ DetailFails(r) \/ OpenRow(r)
  \/ Type \/ CommitSearch \/ NextPage \/ PreviousPage
  \/ \E s \in Statuses : SetStatus(s)
  \/ CloseRow \/ Dismiss \/ Confirm
  \/ \E s \in States : Set(s) \/ AskFirst(s) \/ Carry(s) \/ Succeeds(s) \/ Fails(s)
  \/ Leave \/ Enter

\* Timers fire, a query that is due is sent, and not every answer is an error.
\* Nothing asks again for certain where a fetch failed for good.
ConsoleSpec ==
  /\ ConsoleInit /\ [][ConsoleNext]_consoleVars
  /\ WF_consoleVars(CommitSearch) /\ WF_consoleVars(~gaveUp /\ AskList)
  /\ SF_consoleVars(LandList(filter))

-----------------------------------------------------------------------------
\* Properties.

ConsoleTypeOK ==
  /\ screen \in Screens /\ rows \in [Rows -> States] /\ filter \in Keys
  /\ opened \in Rows \cup {0} /\ (asking # "none" => Loaded)
  /\ \A k \in Keys : \A held \in {lists[k].data, lists[k].answer} :
       held # <<>> => held[1].page = k.page /\ Cardinality(held[1].rows) <= PerPage
  /\ \A d \in Rows : EntryOK(details[d], States)
  /\ timer => Page[screen].search

\* An action the administrator was told has succeeded shows in every list and
\* detail that passes for current, whatever was being fetched meanwhile: a row
\* nobody touched since is there as it was left, and not there once deleted.
\* Entries whose fetch the invalidation let run on (late) apart.
OwnActionsShow ==
  \A r \in Rows : owes[r] # <<>> =>
    /\ \A k \in Keys : Vouched(lists[k]) =>
         \A seen \in lists[k].data[1].rows : seen.row = r => seen.state = owes[r][1]
    /\ Vouched(details[r]) => details[r].data[1] = owes[r][1]

\* Nobody is left on an empty page without the buttons that lead back, unless
\* he paged on by the totals of another filter or rows have changed.
NotStranded ==
  (mounted /\ Has(lists[filter]) /\ filter.page > 1 /\ ~hurried /\ acts = 0 /\ changes = 0)
    => Shown[1].pages >= filter.page

\* The list comes to rest on the server's answer to what was typed and chosen.
\* Changes by others, lost answers and late entries apart, of which nothing tells
\* the page, and a list whose last fetch failed for good: it stands still until a
\* mount, a focus or an invalidation.
ListSettles ==
  <>[]( (mounted /\ ~unheard /\ \A s \in States : calls[s] = NoCall)
          => /\ filter.search = typed
             /\ \/ gaveUp
                \/ /\ Has(lists[filter])
                   /\ lists[filter].late \/ lists[filter].data[1] = Answer(filter) )
================================================================================
