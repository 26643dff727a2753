------------------------------ MODULE QueryCache ------------------------------
(***************************************************************************)
(* One entry of the dashboard's query cache (TanStack Query 5), as the     *)
(* hooks use it: a fetch takes two steps, the server's read and the        *)
(* landing of its answer; one fetch of an entry at a time.  An             *)
(* invalidation marks the entry stale; the fetch under way is dropped and  *)
(* begun anew only if the entry has data and a page observes it, otherwise *)
(* its answer lands all the same and passes for current.                   *)
(* The pages that observe an entry fetch it when it has no data or is      *)
(* stale.  A fetch that failed, its one retry included (retry: 1 in        *)
(* main.tsx), is not begun again by itself: what prompts another is a      *)
(* mount, a focus of the window or an invalidation, so the pages take none *)
(* for certain once an entry gave up.                                      *)
(***************************************************************************)
LOCAL INSTANCE Sequences

\* data is <<>> or the one value the entry holds, answer likewise; outrun: the
\* answer under way was read before an invalidation; late: so was the data;
\* gaveUp: the last fetch failed for good, and none has begun since.
NoEntry == [data |-> <<>>, stale |-> FALSE, late |-> FALSE, answer |-> <<>>, outrun |-> FALSE,
            gaveUp |-> FALSE]

Holds(maybe, Values) == maybe = <<>> \/ (Len(maybe) = 1 /\ maybe[1] \in Values)
EntryOK(e, Values) ==
  /\ Holds(e.data, Values) /\ Holds(e.answer, Values)
  /\ e.stale => e.data # <<>>

Has(e)     == e.data # <<>>
Current(e) == Has(e) /\ ~e.stale
Idle(e)    == e.answer = <<>>
Wanted(e)  == Idle(e) /\ ~Current(e)
Due(e)     == Wanted(e) /\ ~e.gaveUp
Vouched(e) == Current(e) /\ ~e.late

Asked(e, value) == [e EXCEPT !.answer = <<value>>, !.gaveUp = FALSE]
Landed(e) ==
  [data |-> e.answer, stale |-> FALSE, late |-> e.outrun, answer |-> <<>>, outrun |-> FALSE,
   gaveUp |-> FALSE]
Dropped(e) == [e EXCEPT !.answer = <<>>, !.outrun = FALSE]
Failed(e)  == [Dropped(e) EXCEPT !.gaveUp = TRUE]
Aged(e)    == [e EXCEPT !.stale = Has(e), !.late = FALSE, !.gaveUp = FALSE]
Outdated(e, observed) ==
  IF observed /\ Has(e) THEN Dropped(Aged(e))
                        ELSE [Aged(e) EXCEPT !.outrun = ~Idle(e)]

-----------------------------------------------------------------------------
(* What happens to an entry, whatever the values it holds. *)

Maybe(V) == {<<>>} \cup {<<v>> : v \in V}
Shapes(V) ==
  [data : Maybe(V), stale : BOOLEAN, late : BOOLEAN, answer : Maybe(V), outrun : BOOLEAN,
   gaveUp : BOOLEAN]
Entries(V) == {e \in Shapes(V) : e.stale => e.data # <<>>}

LEMMA EntriesAreOK ==
  ASSUME NEW V, NEW e \in Entries(V)
  PROVE  EntryOK(e, V)
  BY DEF Entries, Shapes, Maybe, EntryOK, Holds

(* A fetch that is begun or fails leaves the data as good as it was; one   *)
(* that lands is vouched for unless an invalidation outran it; what has    *)
(* grown old is not vouched for.                                           *)
LEMMA EntryMoves ==
  ASSUME NEW V, NEW e \in Entries(V)
  PROVE  /\ \A v \in V :
              /\ Asked(e, v) \in Entries(V)
              /\ Asked(e, v).data = e.data /\ Asked(e, v).answer = <<v>>
              /\ Vouched(Asked(e, v)) <=> Vouched(e)
         /\ /\ Landed(e) \in Entries(V)
            /\ Landed(e).data = e.answer /\ Landed(e).answer = <<>>
            /\ Vouched(Landed(e)) <=> (~Idle(e) /\ ~e.outrun)
         /\ \A f \in {Dropped(e), Failed(e)} :
              /\ f \in Entries(V)
              /\ f.data = e.data /\ f.answer = <<>>
              /\ Vouched(f) <=> Vouched(e)
         /\ /\ Aged(e) \in Entries(V)
            /\ Aged(e).data = e.data /\ Aged(e).answer = e.answer
            /\ Aged(e).outrun = e.outrun /\ ~Vouched(Aged(e))
<1>1. e.data \in Maybe(V) /\ e.answer \in Maybe(V)
  BY DEF Entries, Shapes
<1>2. <<>> \in Maybe(V) /\ \A v \in V : <<v>> \in Maybe(V)
  BY DEF Maybe
<1>3. ASSUME NEW v \in V
      PROVE  /\ Asked(e, v) \in Entries(V)
             /\ Asked(e, v).data = e.data /\ Asked(e, v).answer = <<v>>
             /\ Asked(e, v).stale = e.stale /\ Asked(e, v).late = e.late
  BY <1>2 DEF Asked, Entries, Shapes
<1>4. /\ Landed(e) \in Entries(V)
      /\ Landed(e).data = e.answer /\ Landed(e).answer = <<>>
      /\ Landed(e).stale = FALSE /\ Landed(e).late = e.outrun
  BY <1>1, <1>2 DEF Landed, Entries, Shapes
<1>5. ASSUME NEW f \in {Dropped(e), Failed(e)}
      PROVE  /\ f \in Entries(V)
             /\ f.data = e.data /\ f.answer = <<>>
             /\ f.stale = e.stale /\ f.late = e.late
  BY <1>2 DEF Dropped, Failed, Entries, Shapes
<1>6. /\ Aged(e) \in Entries(V)
      /\ Aged(e).data = e.data /\ Aged(e).answer = e.answer
      /\ Aged(e).stale = Has(e) /\ Aged(e).outrun = e.outrun
  BY DEF Aged, Entries, Shapes, Has
<1> QED
  BY <1>3, <1>4, <1>5, <1>6 DEF Vouched, Current, Has, Idle

(* An invalidation leaves nothing vouched for, and no answer under way     *)
(* that is not marked as outrun.                                           *)
LEMMA OutdatedMoves ==
  ASSUME NEW V, NEW e \in Entries(V), NEW observed
  PROVE  LET f == Outdated(e, observed) IN
         /\ f \in Entries(V) /\ f.data = e.data /\ f.answer \in {e.answer, <<>>}
         /\ ~Vouched(f) /\ (Idle(f) \/ f.outrun)
<1>1. /\ Aged(e) \in Entries(V) /\ Aged(e).data = e.data /\ Aged(e).answer = e.answer
      /\ ~Vouched(Aged(e))
  BY EntryMoves
<1>2. CASE observed /\ Has(e)
  <2>1. Outdated(e, observed) = Dropped(Aged(e))
    BY <1>2 DEF Outdated
  <2> QED
    BY <1>1, <2>1, EntryMoves DEF Idle
<1>3. CASE ~(observed /\ Has(e))
  <2> DEFINE f == [Aged(e) EXCEPT !.outrun = ~Idle(e)]
  <2>1. Outdated(e, observed) = f
    BY <1>3 DEF Outdated
  <2>2. /\ f \in Entries(V) /\ f.data = e.data /\ f.answer = e.answer /\ f.outrun = ~Idle(e)
        /\ f.stale = Aged(e).stale /\ f.late = Aged(e).late
    BY <1>1 DEF Entries, Shapes
  <2> HIDE DEF f
  <2> QED
    BY <1>1, <2>1, <2>2 DEF Vouched, Current, Has, Idle
<1> QED
  BY <1>2, <1>3
===============================================================================
