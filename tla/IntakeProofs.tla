---------------------------- MODULE IntakeProofs ----------------------------
(***************************************************************************)
(* What holds of Intake for any number of pixels, events, requests and     *)
(* goroutines and any quota, and of Feed for any log, buffer and limits.   *)
(***************************************************************************)
EXTENDS Intake, Feed, FiniteSetTheorems, SequenceTheorems, WellFoundedInduction, TLAPS

Requests ==
  [at : {"idle", "pixels", "events"}, batch : Seq(Events), size : 0 .. BatchSize,
   created : Nat, month : Months, seen : [Pixels -> Row], shut : SUBSET Pixels]
Jobbed == [at : Steps, to : Pixels \cup {None}, ok : BOOLEAN]

(* The rows: a backup pixel is there, and an update that is under way has  *)
(* read a row that was there.                                              *)
TableInv ==
  /\ pixels \in [Pixels -> Row]
  /\ \A p \in Pixels : pixels[p].backup # None => pixels[pixels[p].backup].there
  /\ \/ editing = <<>>
     \/ \E p \in Pixels, row \in Row :
          row.there /\ editing = <<[pixel |-> p, row |-> row]>>

EventInv ==
  /\ stored \subseteq Events /\ marks \in [Events -> {"none", "ok", "error"}]
  /\ \A e \in Events \ stored : marks[e] = "none"

(* A request has reserved room for what is left of its batch.              *)
RequestInv ==
  /\ month \in Months /\ off \subseteq Pixels
  /\ request \in [Handlers -> Requests]
  /\ \A h \in Handlers : request[h].created + Len(request[h].batch) <= request[h].size

(* The tokens taken are the goroutines at work.                            *)
AtWork == {j \in Jobs : forward[j].at \in Working}
JobInv ==
  /\ forward \in [Jobs -> Jobbed]
  /\ IsFiniteSet(AtWork) /\ sem = Cardinality(AtWork) /\ sem <= Tokens

(* While no month has ended in a request and every insert was heard of,    *)
(* the requests are of the current month and the ledger balances.          *)
QuotaInv ==
  /\ usage \in [Months -> 0 .. Allowed]
  /\ kept \in [Months -> Nat] /\ leaked \in [Months -> Nat] /\ loose \in BOOLEAN
  /\ UsageLedger
  /\ ~loose => \A h \in Busy : request[h].month = month

(* An event that had a goroutine, since retention deleted it last, is      *)
(* still stored, or its pixel is gone for ever.                            *)
OnceInv ==
  /\ again = FALSE
  /\ \A j \in Jobs : forward[j] # NoJob =>
       j[1] \in stored \/ ~pixels[j[1].pixel].there

(* A pixel that was switched off and not on again is off, and a request    *)
(* that began since then has read it so.                                   *)
OffInv ==
  /\ \A p \in off : ~pixels[p].active
  /\ \A h \in Handlers : request[h].at # "idle" =>
       /\ request[h].shut \subseteq off
       /\ request[h].at = "events" =>
            \A p \in request[h].shut : ~request[h].seen[p].active

TypeInv   == TableInv /\ EventInv /\ RequestInv /\ JobInv
IntakeInv == TypeInv /\ QuotaInv /\ OnceInv /\ OffInv

-----------------------------------------------------------------------------
(* Lemmas about the data. *)

LEMMA Numbers == Allowed \in Nat /\ BatchSize \in Nat
  BY IntakeAssumption

LEMMA NoRequestType == NoRequest \in Requests /\ Len(NoRequest.batch) = 0
<1>1. NoRow \in Row
  BY DEF NoRow, Row
<1>2. 1 \in Months /\ 0 \in 0 .. BatchSize
  BY IntakeAssumption DEF Months
<1>3. <<>> \in Seq(Events) /\ Len(<<>>) = 0
  BY EmptySeq
<1> QED
  BY <1>1, <1>2, <1>3 DEF NoRequest, Requests

LEMMA BatchType ==
  ASSUME NEW batch \in Batches
  PROVE  batch \in Seq(Events) /\ Len(batch) \in 1 .. BatchSize
<1>1. PICK m \in 0 .. BatchSize : batch \in [1 .. m -> Events]
  BY DEF Batches, SeqOf
<1>2. batch \in Seq(Events) /\ Len(batch) = m
  BY <1>1, IntakeAssumption, IsASeq
<1>3. m # 0
  BY <1>2, EmptySeq DEF Batches
<1> QED
  BY <1>1, <1>2, <1>3

LEMMA PlacesFinite ==
  ASSUME NEW S \in SUBSET (Handlers \X (1 .. BatchSize))
  PROVE  IsFiniteSet(S) /\ Cardinality(S) \in Nat
<1>1. IsFiniteSet(1 .. BatchSize)
  BY IntakeAssumption, FS_Interval
<1>2. IsFiniteSet(Handlers \X (1 .. BatchSize))
  BY <1>1, IntakeAssumption, FS_Product
<1> QED
  BY <1>2, FS_Subset, FS_CardinalityType

LEMMA InitIntakeInv == IntakeInit => IntakeInv
<1> SUFFICES ASSUME IntakeInit PROVE IntakeInv
  OBVIOUS
<1> USE DEF IntakeInit
<1>1. TableInv
  BY IntakeAssumption DEF TableInv, Row
<1>2. EventInv
  BY DEF EventInv
<1>3. RequestInv
  BY NoRequestType, IntakeAssumption DEF RequestInv, Months, NoRequest
<1>4. JobInv
  <2>1. AtWork = {}
    BY DEF AtWork, NoJob, Working
  <2>2. NoJob \in Jobbed
    BY DEF NoJob, Jobbed, Steps
  <2> QED
    BY <2>1, <2>2, FS_EmptySet, IntakeAssumption DEF JobInv
<1>5. QuotaInv
  <2>1. Busy = {} /\ \A m : Held(m) = {}
    BY DEF Busy, Held, NoRequest
  <2>2. Allowed \in Nat
    BY IntakeAssumption
  <2>3. Cardinality({}) = 0
    BY FS_EmptySet
  <2>4. ASSUME NEW m \in Months
        PROVE  usage[m] = kept[m] + leaked[m] + Cardinality(Held(m))
    <3>1. usage[m] = 0 /\ kept[m] = 0 /\ leaked[m] = 0
      OBVIOUS
    <3>2. Cardinality(Held(m)) = 0
      BY <2>1, <2>3
    <3> QED
      BY <3>1, <3>2
  <2>5. UsageLedger
    BY <2>4 DEF UsageLedger
  <2>6. usage \in [Months -> 0 .. Allowed]
    <3>1. 0 \in 0 .. Allowed
      BY <2>2
    <3> QED
      BY <3>1
  <2>7. kept \in [Months -> Nat] /\ leaked \in [Months -> Nat]
    OBVIOUS
  <2>8. loose \in BOOLEAN
    OBVIOUS
  <2> QED
    BY <2>1, <2>5, <2>6, <2>7, <2>8 DEF QuotaInv
<1>6. OnceInv /\ OffInv
  BY DEF OnceInv, OffInv, NoRequest, Jobs, Roles
<1> QED
  BY <1>1, <1>2, <1>3, <1>4, <1>5, <1>6 DEF IntakeInv, TypeInv

-----------------------------------------------------------------------------
(* The pixels. *)

LEMMA StepTable == IntakeInv /\ [IntakeNext]_intakeVars => TableInv'
<1> SUFFICES ASSUME IntakeInv, [IntakeNext]_intakeVars PROVE TableInv'
  OBVIOUS
<1> USE DEF IntakeInv, TypeInv, TableInv
<1>1. CASE UNCHANGED <<pixels, editing>>
  BY <1>1
<1>2. ASSUME NEW p \in Pixels, NEW active \in BOOLEAN, SetPixelActive(p, active)
      PROVE  TableInv'
  <2>1. /\ pixels' = [pixels EXCEPT ![p].active = active] /\ editing' = editing
        /\ pixels[p] \in Row
    BY <1>2 DEF SetPixelActive
  <2>2. [pixels[p] EXCEPT !.active = active] \in Row
    BY <2>1 DEF Row
  <2>3. \A q \in Pixels : /\ pixels'[q].backup = pixels[q].backup
                          /\ pixels'[q].there = pixels[q].there
    BY <2>1 DEF Row
  <2>4. \A q \in Pixels : pixels[q].backup \in Pixels \cup {None}
    BY DEF Row
  <2> QED
    BY <2>1, <2>2, <2>3, <2>4
<1>3. ASSUME NEW p \in Pixels, UpdateRead(p)
      PROVE  TableInv'
  BY <1>3 DEF UpdateRead, tables
<1>4. ASSUME NEW active \in {"keep", "yes", "no"}, NEW backup \in Pixels \cup {None},
             UpdateWrite(active, backup)
      PROVE  TableInv'
  <2>1. PICK p \in Pixels, old \in Row :
               old.there /\ editing = <<[pixel |-> p, row |-> old]>>
    BY <1>4 DEF UpdateWrite
  <2> DEFINE row == Merged(old, active, backup)
  <2>2. row \in Row /\ row.there /\ row.backup = backup
    BY <2>1 DEF Row, Merged
  <2>3. \/ pixels' = pixels
        \/ /\ backup = None \/ pixels[backup].there
           /\ pixels' = [pixels EXCEPT ![p] = row]
    BY <1>4, <2>1 DEF UpdateWrite
  <2>4. editing' = <<>>
    BY <1>4 DEF UpdateWrite
  <2> HIDE DEF row
  <2>5. ASSUME pixels' = [pixels EXCEPT ![p] = row],
               backup = None \/ pixels[backup].there
        PROVE  TableInv'
    <3>1. \A q \in Pixels : pixels[q].there => pixels'[q].there
      BY <2>2, <2>5
    <3>2. \A q \in Pixels : pixels[q].backup \in Pixels \cup {None}
      BY DEF Row
    <3>3. pixels' \in [Pixels -> Row]
      BY <2>2, <2>5
    <3>4. ASSUME NEW q \in Pixels, pixels'[q].backup # None
          PROVE  pixels'[pixels'[q].backup].there
      BY <2>2, <2>5, <3>1, <3>2, <3>4
    <3> QED
      BY <2>4, <3>3, <3>4
  <2> QED
    BY <2>3, <2>4, <2>5
<1>5. ASSUME NEW p \in Pixels, DeletePixel(p)
      PROVE  TableInv'
  <2>1. /\ pixels' = [q \in Pixels |-> IF q = p THEN NoRow
                       ELSE [pixels[q] EXCEPT !.backup = IF @ = p THEN None ELSE @]]
        /\ editing' = editing
    BY <1>5 DEF DeletePixel
  <2>2. NoRow \in Row /\ NoRow.backup = None
    BY DEF NoRow, Row
  <2>3. ASSUME NEW q \in Pixels \ {p}
        PROVE  /\ pixels'[q] \in Row
               /\ pixels'[q].there = pixels[q].there
               /\ pixels'[q].backup = IF pixels[q].backup = p THEN None
                                      ELSE pixels[q].backup
    BY <2>1 DEF Row
  <2>4. \A q \in Pixels : pixels[q].backup \in Pixels \cup {None}
    BY DEF Row
  <2>5. pixels' \in [Pixels -> Row] /\ pixels'[p] = NoRow
    BY <2>1, <2>2, <2>3
  <2>6. ASSUME NEW q \in Pixels, pixels'[q].backup # None
        PROVE  pixels'[pixels'[q].backup].there
    BY <2>2, <2>3, <2>4, <2>5, <2>6
  <2> QED
    BY <2>1, <2>5, <2>6
<1>6. CASE Exit
  BY <1>6 DEF Exit, tables
<1> QED
  BY <1>1, <1>2, <1>3, <1>4, <1>5, <1>6
  DEF IntakeNext, intakeVars, tables, Accept, ReadPixels, ReadFails, Insert, Skip,
      InsertFails, InsertUnheard, Refund, RefundFails, NextMonth, Goroutine, Acquire,
      FetchBackup, MarkForwarded, Send, FetchFails, MarkFails, Expire

-----------------------------------------------------------------------------
(* The events. *)

(* An event of a request's batch is one a page can send.                   *)
LEMMA HeadType ==
  ASSUME RequestInv, NEW h \in Handlers, Inserting(h)
  PROVE  /\ Event(h) \in Events
         /\ Past(h).batch \in Seq(Events)
         /\ Len(Past(h).batch) = Len(request[h].batch) - 1
         /\ Len(request[h].batch) \in Nat \ {0}
<1>1. request[h] \in Requests /\ request[h].batch # <<>>
  BY DEF RequestInv, Inserting
<1>2. request[h].batch \in Seq(Events)
  BY <1>1 DEF Requests
<1>3. Past(h).batch = Tail(request[h].batch)
  BY <1>1 DEF Past, Requests
<1> QED
  BY <1>1, <1>2, <1>3, HeadTailProperties, LenProperties, EmptySeq DEF Event

LEMMA StepEvents == IntakeInv /\ [IntakeNext]_intakeVars => EventInv'
<1> SUFFICES ASSUME IntakeInv, [IntakeNext]_intakeVars PROVE EventInv'
  OBVIOUS
<1> USE DEF IntakeInv, TypeInv, EventInv
<1>1. CASE UNCHANGED <<stored, marks>>
  BY <1>1
<1>2. ASSUME NEW h \in Handlers, Insert(h) \/ InsertUnheard(h)
      PROVE  EventInv'
  <2>1. Event(h) \in Events
    BY <1>2, HeadType DEF Insert, InsertUnheard
  <2>2. stored' = stored \cup {Event(h)} /\ marks' = marks
    BY <1>2 DEF Insert, InsertUnheard
  <2> QED
    BY <2>1, <2>2
<1>3. ASSUME NEW j \in Jobs, MarkForwarded(j)
      PROVE  EventInv'
  <2>1. Code(j) \in {"none", "ok", "error"}
    BY DEF Code
  <2>2. stored' = stored
    BY <1>3 DEF MarkForwarded
  <2>3. marks' = marks \/ (j[1] \in stored /\ marks' = [marks EXCEPT ![j[1]] = Code(j)])
    BY <1>3 DEF MarkForwarded
  <2> QED
    BY <2>1, <2>2, <2>3
<1>4. ASSUME NEW p \in Pixels, DeletePixel(p)
      PROVE  EventInv'
  BY <1>4 DEF DeletePixel
<1>5. ASSUME NEW e \in Events, Expire(e)
      PROVE  EventInv'
  BY <1>5 DEF Expire
<1> QED
  BY <1>1, <1>2, <1>3, <1>4, <1>5
  DEF IntakeNext, intakeVars, tables, Accept, ReadPixels, ReadFails, Skip,
      InsertFails, Refund, RefundFails, NextMonth, Goroutine, Acquire,
      FetchBackup, Send, FetchFails, MarkFails, Exit, SetPixelActive, UpdateRead,
      UpdateWrite

-----------------------------------------------------------------------------
(* The requests. *)

(* What a request step makes of one request, and that the month, the       *)
(* pixels that are off and the other requests stay.                        *)
LEMMA OneRequest ==
  ASSUME RequestInv, NEW h \in Handlers, NEW r \in Requests,
         r.created + Len(r.batch) <= r.size,
         request' = [request EXCEPT ![h] = r], UNCHANGED <<month, off>>
  PROVE  RequestInv'
<1>1. request' \in [Handlers -> Requests]
  BY DEF RequestInv
<1>2. ASSUME NEW g \in Handlers
      PROVE  request'[g].created + Len(request'[g].batch) <= request'[g].size
  BY DEF RequestInv
<1> QED
  BY <1>1, <1>2 DEF RequestInv

LEMMA AcceptedType ==
  ASSUME RequestInv, NEW batch \in Batches
  PROVE  LET r == [NoRequest EXCEPT !.at = "pixels", !.batch = batch,
                     !.size = Len(batch), !.month = month, !.shut = off]
         IN  /\ r \in Requests
             /\ r.at = "pixels" /\ r.batch = batch /\ r.size = Len(batch)
             /\ r.created = 0 /\ r.month = month /\ r.shut = off
<1> DEFINE r == [NoRequest EXCEPT !.at = "pixels", !.batch = batch,
                   !.size = Len(batch), !.month = month, !.shut = off]
<1>1. batch \in Seq(Events) /\ Len(batch) \in 0 .. BatchSize
  BY BatchType, IntakeAssumption
<1>2. month \in Months /\ off \in SUBSET Pixels
  BY DEF RequestInv
<1>3. r \in Requests
  BY <1>1, <1>2, NoRequestType DEF Requests
<1>4. /\ r.at = "pixels" /\ r.batch = batch /\ r.size = Len(batch)
      /\ r.created = 0 /\ r.month = month /\ r.shut = off
  BY DEF NoRequest
<1> QED
  BY <1>3, <1>4

(* Switching a pixel on forgets that it was off, in every request.         *)
LEMMA ReopenedType ==
  ASSUME RequestInv, NEW p, request' = Reopened(p)
  PROVE  /\ request' \in [Handlers -> Requests]
         /\ \A h \in Handlers :
              /\ request'[h].at = request[h].at
              /\ request'[h].batch = request[h].batch
              /\ request'[h].size = request[h].size
              /\ request'[h].created = request[h].created
              /\ request'[h].month = request[h].month
              /\ request'[h].seen = request[h].seen
              /\ request'[h].shut = request[h].shut \ {p}
<1> SUFFICES ASSUME NEW h \in Handlers
             PROVE  /\ request'[h] \in Requests
                    /\ request'[h].at = request[h].at
                    /\ request'[h].batch = request[h].batch
                    /\ request'[h].size = request[h].size
                    /\ request'[h].created = request[h].created
                    /\ request'[h].month = request[h].month
                    /\ request'[h].seen = request[h].seen
                    /\ request'[h].shut = request[h].shut \ {p}
  BY DEF Reopened
<1>1. /\ request[h] \in Requests
      /\ request'[h] = [request[h] EXCEPT !.shut = request[h].shut \ {p}]
  BY DEF RequestInv, Reopened
<1> QED
  BY <1>1 DEF Requests

(* What the steps of a request that serve its batch make of it.            *)
LEMMA ServedType ==
  ASSUME RequestInv, TableInv, NEW h \in Handlers
  PROVE  /\ request[h].at = "pixels" =>
              [request[h] EXCEPT !.at = "events", !.seen = pixels] \in Requests
         /\ Inserting(h) =>
              /\ Past(h) \in Requests /\ Created(h) \in Requests
              /\ Len(Past(h).batch) = Len(request[h].batch) - 1
              /\ Created(h).batch = Past(h).batch
              /\ Created(h).created = request[h].created + 1
              /\ Past(h).created = request[h].created
              /\ Created(h).size = request[h].size /\ Past(h).size = request[h].size
              /\ Created(h).month = request[h].month /\ Past(h).month = request[h].month
              /\ Created(h).at = "events" /\ Past(h).at = "events"
              /\ Created(h).seen = request[h].seen /\ Past(h).seen = request[h].seen
              /\ Created(h).shut = request[h].shut /\ Past(h).shut = request[h].shut
<1>1. request[h] \in Requests
  BY DEF RequestInv
<1>2. request[h].at = "pixels" =>
        [request[h] EXCEPT !.at = "events", !.seen = pixels] \in Requests
  BY <1>1 DEF Requests, TableInv
<1>3. ASSUME Inserting(h)
      PROVE  /\ Past(h) \in Requests /\ Created(h) \in Requests
             /\ Len(Past(h).batch) = Len(request[h].batch) - 1
             /\ Created(h).batch = Past(h).batch
             /\ Created(h).created = request[h].created + 1
             /\ Past(h).created = request[h].created
             /\ Created(h).size = request[h].size /\ Past(h).size = request[h].size
             /\ Created(h).month = request[h].month /\ Past(h).month = request[h].month
             /\ Created(h).at = "events" /\ Past(h).at = "events"
             /\ Created(h).seen = request[h].seen /\ Past(h).seen = request[h].seen
             /\ Created(h).shut = request[h].shut /\ Past(h).shut = request[h].shut
  <2>1. /\ Tail(request[h].batch) \in Seq(Events)
        /\ Past(h).batch = Tail(request[h].batch)
        /\ Len(Past(h).batch) = Len(request[h].batch) - 1
    BY <1>1, <1>3, HeadType DEF Past, Requests
  <2>2. Past(h) \in Requests
    BY <1>1, <2>1 DEF Past, Requests
  <2>3. Created(h) \in Requests
    <3>1. request[h].created + 1 \in Nat
      BY <1>1 DEF Requests
    <3> QED
      BY <1>1, <2>1, <3>1 DEF Created, Past, Requests
  <2> QED
    BY <1>1, <1>3, <2>1, <2>2, <2>3 DEF Past, Created, Requests, Inserting
<1> QED
  BY <1>2, <1>3

LEMMA StepRequests == IntakeInv /\ [IntakeNext]_intakeVars => RequestInv'
<1> SUFFICES ASSUME IntakeInv, [IntakeNext]_intakeVars PROVE RequestInv'
  OBVIOUS
<1> USE DEF IntakeInv, TypeInv
<1>0. request \in [Handlers -> Requests]
  BY DEF RequestInv
<1>1. CASE UNCHANGED <<month, request, off>>
  BY <1>1 DEF RequestInv
<1>2. ASSUME NEW h \in Handlers, NEW batch \in Batches, Accept(h, batch)
      PROVE  RequestInv'
  <2> DEFINE r == [NoRequest EXCEPT !.at = "pixels", !.batch = batch,
                     !.size = Len(batch), !.month = month, !.shut = off]
  <2>1. request' = [request EXCEPT ![h] = r] /\ UNCHANGED <<month, off>>
    BY <1>2 DEF Accept
  <2>2. /\ r \in Requests
        /\ r.batch = batch /\ r.size = Len(batch) /\ r.created = 0
    BY AcceptedType
  <2> HIDE DEF r
  <2>3. Len(batch) \in Nat
    BY BatchType, IntakeAssumption
  <2>4. r.created + Len(r.batch) <= r.size
    BY <2>2, <2>3
  <2> QED
    BY <2>1, <2>2, <2>4, OneRequest
<1>3. ASSUME NEW h \in Handlers, ReadPixels(h)
      PROVE  RequestInv'
  <2> DEFINE r == [request[h] EXCEPT !.at = "events", !.seen = pixels]
  <2>1. r \in Requests
    BY <1>3, ServedType DEF ReadPixels
  <2>2. request' = [request EXCEPT ![h] = r] /\ UNCHANGED <<month, off>>
    BY <1>0, <1>3 DEF ReadPixels
  <2>3. r.created = request[h].created /\ r.batch = request[h].batch
        /\ r.size = request[h].size
    BY <1>0 DEF Requests
  <2>4. r.created + Len(r.batch) <= r.size
    BY <2>3 DEF RequestInv
  <2> HIDE DEF r
  <2> QED
    BY <2>1, <2>2, <2>4, OneRequest
<1>4. ASSUME NEW h \in Handlers,
             Insert(h) \/ Skip(h) \/ InsertFails(h) \/ InsertUnheard(h)
      PROVE  RequestInv'
  <2>1. Inserting(h) /\ UNCHANGED <<month, off>>
    BY <1>4 DEF Insert, Skip, InsertFails, InsertUnheard
  <2>2. \/ request' = [request EXCEPT ![h] = Created(h)]
        \/ request' = [request EXCEPT ![h] = Past(h)]
    BY <1>4 DEF Insert, Skip, InsertFails, InsertUnheard
  <2>3. /\ Len(request[h].batch) \in Nat /\ request[h].created \in Nat
        /\ request[h].size \in Nat
        /\ request[h].created + Len(request[h].batch) <= request[h].size
    BY <1>0, <2>1, HeadType, IntakeAssumption DEF RequestInv, Requests
  <2>4. /\ Len(Past(h).batch) = Len(request[h].batch) - 1
        /\ Created(h).batch = Past(h).batch
        /\ Created(h).created = request[h].created + 1
        /\ Past(h).created = request[h].created
        /\ Created(h).size = request[h].size /\ Past(h).size = request[h].size
    BY <2>1, ServedType
  <2>5. /\ Created(h).created + Len(Created(h).batch) <= Created(h).size
        /\ Past(h).created + Len(Past(h).batch) <= Past(h).size
    <3>1. Len(Created(h).batch) = Len(request[h].batch) - 1
      BY <2>4
    <3>2. /\ (request[h].created + 1) + (Len(request[h].batch) - 1) <= request[h].size
          /\ request[h].created + (Len(request[h].batch) - 1) <= request[h].size
      BY <2>3
    <3> QED
      BY <2>4, <3>1, <3>2
  <2> QED
    BY <2>1, <2>2, <2>5, ServedType, OneRequest
<1>5. ASSUME NEW h \in Handlers, ReadFails(h) \/ Refund(h) \/ RefundFails(h)
      PROVE  RequestInv'
  <2>1. request' = [request EXCEPT ![h] = NoRequest] /\ UNCHANGED <<month, off>>
    BY <1>5 DEF ReadFails, Refund, RefundFails, Dropped
  <2>2. NoRequest.created + Len(NoRequest.batch) <= NoRequest.size
    BY NoRequestType DEF NoRequest
  <2> QED
    BY <2>1, <2>2, NoRequestType, OneRequest
<1>6. CASE NextMonth
  <2>1. month' \in Months
    BY <1>6, IntakeAssumption DEF NextMonth, RequestInv, Months
  <2> QED
    BY <1>6, <2>1 DEF NextMonth, RequestInv
<1>7. CASE Exit
  <2>1. NoRequest.created + Len(NoRequest.batch) <= NoRequest.size
    BY NoRequestType DEF NoRequest
  <2> QED
    BY <1>7, <2>1, NoRequestType DEF Exit, RequestInv
<1>8. ASSUME NEW p \in Pixels, request' = request \/ request' = Reopened(p),
             off' \subseteq Pixels, month' = month
      PROVE  RequestInv'
  BY <1>8, ReopenedType DEF RequestInv
<1>9. ASSUME NEW p \in Pixels, NEW active \in BOOLEAN, SetPixelActive(p, active)
      PROVE  RequestInv'
  BY <1>8, <1>9 DEF SetPixelActive, RequestInv
<1>10. ASSUME NEW active \in {"keep", "yes", "no"}, NEW backup \in Pixels \cup {None},
              UpdateWrite(active, backup)
       PROVE  RequestInv'
  <2>1. editing[1].pixel \in Pixels
    BY <1>10 DEF UpdateWrite, TableInv
  <2> QED
    BY <1>8, <1>10, <2>1 DEF UpdateWrite, RequestInv
<1> QED
  BY <1>1, <1>2, <1>3, <1>4, <1>5, <1>6, <1>7, <1>9, <1>10
  DEF IntakeNext, intakeVars, Goroutine, Acquire, FetchBackup, MarkForwarded, Send,
      FetchFails, MarkFails, UpdateRead, DeletePixel, Expire

-----------------------------------------------------------------------------
(* The goroutines and their tokens. *)

(* A goroutine that goes on or ends: the set at work gains or loses it.    *)
LEMMA OneJob ==
  ASSUME JobInv, NEW j \in Jobs, NEW job \in Jobbed,
         forward' = [forward EXCEPT ![j] = job],
         \/ /\ forward[j].at \in Working /\ job.at \in Working
            /\ sem' = sem
         \/ /\ forward[j].at \in Working /\ job.at \notin Working
            /\ sem' = sem - 1
         \/ /\ forward[j].at \notin Working /\ job.at \in Working
            /\ sem < Tokens /\ sem' = sem + 1
  PROVE  JobInv'
<1>1. /\ forward' \in [Jobs -> Jobbed]
      /\ \A k \in Jobs : forward'[k] = IF k = j THEN job ELSE forward[k]
  BY DEF JobInv
<1>2. Cardinality(AtWork) \in Nat /\ Tokens \in Nat
  BY FS_CardinalityType, IntakeAssumption DEF JobInv
<1>3. CASE forward[j].at \in Working /\ job.at \in Working /\ sem' = sem
  <2>1. AtWork' = AtWork
    BY <1>1, <1>3 DEF AtWork
  <2> QED
    BY <1>1, <1>3, <2>1 DEF JobInv
<1>4. CASE forward[j].at \in Working /\ job.at \notin Working /\ sem' = sem - 1
  <2>1. j \in AtWork /\ AtWork' = AtWork \ {j}
    BY <1>1, <1>4 DEF AtWork
  <2>2. IsFiniteSet(AtWork') /\ Cardinality(AtWork') = Cardinality(AtWork) - 1
    BY <2>1, FS_RemoveElement DEF JobInv
  <2> QED
    BY <1>1, <1>2, <1>4, <2>2 DEF JobInv
<1>5. CASE forward[j].at \notin Working /\ job.at \in Working
           /\ sem < Tokens /\ sem' = sem + 1
  <2>1. j \notin AtWork /\ AtWork' = AtWork \cup {j}
    BY <1>1, <1>5 DEF AtWork
  <2>2. IsFiniteSet(AtWork') /\ Cardinality(AtWork') = Cardinality(AtWork) + 1
    BY <2>1, FS_AddElement DEF JobInv
  <2> QED
    BY <1>1, <1>2, <1>5, <2>2 DEF JobInv
<1> QED
  BY <1>3, <1>4, <1>5

LEMMA StepTo ==
  ASSUME JobInv, NEW j \in Jobs, NEW at \in Steps
  PROVE  /\ [forward[j] EXCEPT !.at = at] \in Jobbed
         /\ [forward[j] EXCEPT !.at = at].at = at
         /\ To(j, at) =>
              forward' = [forward EXCEPT ![j] = [forward[j] EXCEPT !.at = at]]
<1>1. forward[j] \in Jobbed
  BY DEF JobInv
<1> QED
  BY <1>1 DEF Jobbed, To

LEMMA MovesOn ==
  ASSUME JobInv, NEW j \in Jobs, forward[j].at \in Working,
         \/ \E at \in Working : To(j, at) /\ sem' = sem
         \/ Finish(j)
  PROVE  JobInv'
<1>1. ASSUME NEW at \in Steps, To(j, at),
             \/ at \in Working /\ sem' = sem
             \/ at \notin Working /\ sem' = sem - 1
      PROVE  JobInv'
  <2> DEFINE job == [forward[j] EXCEPT !.at = at]
  <2>1. /\ job \in Jobbed /\ job.at = at
        /\ forward' = [forward EXCEPT ![j] = job]
    BY <1>1, StepTo
  <2> HIDE DEF job
  <2> QED
    BY <1>1, <2>1, OneJob
<1>2. Working \subseteq Steps /\ "done" \in Steps \ Working
  BY DEF Working, Steps
<1> QED
  BY <1>1, <1>2 DEF Finish

LEMMA JobSteps ==
  ASSUME JobInv, NEW j \in Jobs, Goroutine(j) \/ FetchFails(j) \/ MarkFails(j)
  PROVE  JobInv'
<1>1. CASE Acquire(j)
  <2>1. PICK at \in {"fetch", "send"} : To(j, at)
    BY <1>1 DEF Acquire
  <2>2. at \in Working /\ at \in Steps
    BY DEF Working, Steps
  <2> DEFINE job == [forward[j] EXCEPT !.at = at]
  <2>3. /\ job \in Jobbed /\ job.at = at
        /\ forward' = [forward EXCEPT ![j] = job]
    BY <2>1, <2>2, StepTo
  <2>4. /\ forward[j].at \notin Working /\ sem < Tokens /\ sem' = sem + 1
    BY <1>1 DEF Acquire, Doing, Working
  <2> HIDE DEF job
  <2> QED
    BY <2>2, <2>3, <2>4, OneJob
<1>2. CASE FetchBackup(j)
  <2>1. forward[j].at \in Working
    BY <1>2 DEF FetchBackup, Doing, Working
  <2>2. Finish(j) \/ (To(j, "send") /\ sem' = sem)
    BY <1>2 DEF FetchBackup
  <2> QED
    BY <2>1, <2>2, MovesOn DEF Working
<1>3. CASE MarkForwarded(j) \/ FetchFails(j) \/ MarkFails(j)
  BY <1>3, MovesOn DEF MarkForwarded, FetchFails, MarkFails, Doing, Working
<1>4. ASSUME NEW taken \in BOOLEAN, Send(j, taken)
      PROVE  JobInv'
  <2> DEFINE job == [forward[j] EXCEPT !.at = "mark", !.ok = taken]
  <2>1. forward[j] \in Jobbed
    BY DEF JobInv
  <2>2. job \in Jobbed /\ job.at = "mark"
    BY <2>1 DEF Jobbed, Steps, Working
  <2>3. /\ forward' = [forward EXCEPT ![j] = job] /\ sem' = sem
        /\ forward[j].at \in Working
    BY <1>4, <2>1 DEF Send, JobInv, Doing, Working
  <2> HIDE DEF job
  <2>4. job.at \in Working
    BY <2>2 DEF Working
  <2> QED
    BY <2>2, <2>3, <2>4, OneJob
<1> QED
  BY <1>1, <1>2, <1>3, <1>4 DEF Goroutine

(* The goroutines of an event that is new have not begun; Begun changes no *)
(* other one.                                                              *)
LEMMA BegunJobs ==
  ASSUME JobInv, NEW h \in Handlers, NEW backup \in Pixels \cup {None},
         Event(h) \in Events, forward' = Begun(h, backup)
  PROVE  /\ forward' \in [Jobs -> Jobbed]
         /\ forward'[<<Event(h), "own">>].at = "queued"
         /\ \/ forward'[<<Event(h), "backup">>] = forward[<<Event(h), "backup">>]
            \/ forward'[<<Event(h), "backup">>].at = "queued"
         /\ \A j \in Jobs : j[1] # Event(h) => forward'[j] = forward[j]
<1>1. /\ <<Event(h), "own">> \in Jobs /\ <<Event(h), "backup">> \in Jobs
      /\ Event(h).pixel \in Pixels
      /\ \A j \in Jobs : j[1] # Event(h) =>
            j # <<Event(h), "own">> /\ j # <<Event(h), "backup">>
  BY IntakeAssumption DEF Jobs, Roles, Events
<1> DEFINE own   == [NoJob EXCEPT !.at = "queued", !.to = Event(h).pixel]
           other == [NoJob EXCEPT !.at = "queued", !.to = backup]
<1>2. own \in Jobbed /\ other \in Jobbed /\ own.at = "queued" /\ other.at = "queued"
  BY <1>1 DEF NoJob, Jobbed, Steps
<1>3. forward' = [forward EXCEPT
                    ![<<Event(h), "own">>] = own,
                    ![<<Event(h), "backup">>] = IF backup = None THEN @ ELSE other]
  BY DEF Begun
<1> HIDE DEF own, other
<1> QED
  BY <1>1, <1>2, <1>3 DEF JobInv

(* The insert of an event that no goroutine was begun for.                 *)
LEMMA InsertBegins ==
  ASSUME IntakeInv, NEW h \in Handlers, Insert(h)
  PROVE  /\ Event(h) \in Events
         /\ \A j \in Jobs : j[1] = Event(h) => forward[j] = NoJob
         /\ <<Event(h), "own">> \in Jobs
         /\ forward' \in [Jobs -> Jobbed]
         /\ \A j \in Jobs : j[1] # Event(h) => forward'[j] = forward[j]
         /\ \A j \in Jobs : j[1] = Event(h) => forward'[j].at \notin Working
<1>1. /\ Inserting(h) /\ Insertable(h) /\ Fresh(h)
      /\ forward' = Begun(h, Seen(h).backup)
  BY DEF Insert
<1>2. Event(h) \in Events
  BY <1>1, HeadType DEF IntakeInv, TypeInv
<1>3. \A j \in Jobs : j[1] = Event(h) => forward[j] = NoJob
  BY <1>1, <1>2 DEF IntakeInv, OnceInv, Fresh, Insertable
<1>4. Seen(h).backup \in Pixels \cup {None}
  <2>1. Event(h).pixel \in Pixels
    BY <1>2, IntakeAssumption DEF Events
  <2>2. request[h].seen \in [Pixels -> Row]
    BY DEF IntakeInv, TypeInv, RequestInv, Requests
  <2> QED
    BY <2>1, <2>2 DEF Seen, Row
<1>5. /\ forward' \in [Jobs -> Jobbed]
      /\ forward'[<<Event(h), "own">>].at = "queued"
      /\ \/ forward'[<<Event(h), "backup">>] = forward[<<Event(h), "backup">>]
         \/ forward'[<<Event(h), "backup">>].at = "queued"
      /\ \A j \in Jobs : j[1] # Event(h) => forward'[j] = forward[j]
  BY <1>1, <1>2, <1>4, BegunJobs DEF IntakeInv, TypeInv
<1>6. /\ <<Event(h), "own">> \in Jobs /\ <<Event(h), "backup">> \in Jobs
      /\ \A j \in Jobs : j[1] = Event(h) =>
            j = <<Event(h), "own">> \/ j = <<Event(h), "backup">>
  BY <1>2 DEF Jobs, Roles
<1>7. "queued" \notin Working /\ NoJob.at \notin Working
  BY DEF Working, NoJob
<1> QED
  BY <1>2, <1>3, <1>5, <1>6, <1>7

LEMMA StepJobs == IntakeInv /\ [IntakeNext]_intakeVars => JobInv'
<1> SUFFICES ASSUME IntakeInv, [IntakeNext]_intakeVars PROVE JobInv'
  OBVIOUS
<1>0. JobInv
  BY DEF IntakeInv, TypeInv
<1>1. CASE UNCHANGED <<forward, sem>>
  BY <1>0, <1>1 DEF JobInv, AtWork
<1>2. ASSUME NEW j \in Jobs, Goroutine(j) \/ FetchFails(j) \/ MarkFails(j)
      PROVE  JobInv'
  BY <1>0, <1>2, JobSteps
<1>3. ASSUME NEW h \in Handlers, Insert(h)
      PROVE  JobInv'
  <2>1. forward' \in [Jobs -> Jobbed] /\ sem' = sem
    BY <1>3, InsertBegins DEF Insert
  <2>2. ASSUME NEW j \in Jobs
        PROVE  forward'[j].at \in Working <=> forward[j].at \in Working
    <3>1. CASE j[1] = Event(h)
      <4>1. forward[j] = NoJob /\ forward'[j].at \notin Working
        BY <1>3, <3>1, InsertBegins
      <4>2. NoJob.at \notin Working
        BY DEF NoJob, Working
      <4> QED
        BY <4>1, <4>2
    <3>2. CASE j[1] # Event(h)
      BY <1>3, <3>2, InsertBegins
    <3> QED
      BY <3>1, <3>2
  <2>3. AtWork' = AtWork
    BY <2>2 DEF AtWork
  <2> QED
    BY <1>0, <2>1, <2>3 DEF JobInv
<1>4. CASE Exit
  <2>1. /\ forward' = [j \in Jobs |->
                         [forward[j] EXCEPT !.at = IF @ = "none" THEN @ ELSE "done"]]
        /\ sem' = 0
    BY <1>4 DEF Exit
  <2>2. ASSUME NEW j \in Jobs
        PROVE  forward'[j] \in Jobbed /\ forward'[j].at \notin Working
    BY <1>0, <2>1 DEF JobInv, Jobbed, Steps, Working
  <2>3. AtWork' = {}
    BY <2>2 DEF AtWork
  <2>4. forward' \in [Jobs -> Jobbed]
    BY <2>1, <2>2
  <2> QED
    BY <2>1, <2>3, <2>4, FS_EmptySet, IntakeAssumption DEF JobInv
<1>5. ASSUME NEW e \in Events, Expire(e)
      PROVE  JobInv'
  <2>1. forward' = [j \in Jobs |-> IF j[1] = e THEN NoJob ELSE forward[j]] /\ sem' = sem
    BY <1>5 DEF Expire
  <2>2. NoJob \in Jobbed /\ NoJob.at \notin Working
    BY DEF NoJob, Jobbed, Steps, Working
  <2>3. ASSUME NEW j \in Jobs
        PROVE  forward'[j] \in Jobbed /\ (forward'[j].at \in Working <=> forward[j].at \in Working)
    <3>1. j[1] = e => Ended(e) /\ j = <<e, j[2]>> /\ j[2] \in Roles
      BY <1>5 DEF Expire, Jobs
    <3>2. j[1] = e => forward[j].at \notin Working
      BY <3>1 DEF Ended, Working
    <3> QED
      BY <1>0, <2>1, <2>2, <3>2 DEF JobInv
  <2>4. forward' \in [Jobs -> Jobbed] /\ AtWork' = AtWork
    BY <2>1, <2>3 DEF AtWork
  <2> QED
    BY <1>0, <2>1, <2>4 DEF JobInv
<1> QED
  BY <1>1, <1>2, <1>3, <1>4, <1>5
  DEF IntakeNext, intakeVars, Accept, ReadPixels, ReadFails, Skip, InsertFails,
      InsertUnheard, Refund, RefundFails, NextMonth, SetPixelActive, UpdateRead,
      UpdateWrite, DeletePixel

-----------------------------------------------------------------------------
(* One goroutine an event. *)

(* A pixel that is gone does not come back: no create is modelled, and the *)
(* write of an update finds no row.                                        *)
LEMMA GoneForEver ==
  ASSUME IntakeInv, [IntakeNext]_intakeVars, NEW p \in Pixels, ~pixels[p].there
  PROVE  ~pixels'[p].there
<1> USE DEF IntakeInv, TypeInv, TableInv
<1>1. ASSUME NEW q \in Pixels, NEW active \in BOOLEAN, SetPixelActive(q, active)
      PROVE  ~pixels'[p].there
  BY <1>1 DEF SetPixelActive, Row
<1>2. ASSUME NEW active \in {"keep", "yes", "no"}, NEW backup \in Pixels \cup {None},
             UpdateWrite(active, backup)
      PROVE  ~pixels'[p].there
  <2>1. PICK q \in Pixels, old \in Row : editing = <<[pixel |-> q, row |-> old]>>
    BY <1>2 DEF UpdateWrite
  <2>2. \/ pixels' = pixels
        \/ pixels[q].there /\ \E row : pixels' = [pixels EXCEPT ![q] = row]
    BY <1>2, <2>1 DEF UpdateWrite
  <2> QED
    BY <2>2
<1>3. ASSUME NEW q \in Pixels, DeletePixel(q)
      PROVE  ~pixels'[p].there
  BY <1>3 DEF DeletePixel, NoRow, Row
<1> QED
  BY <1>1, <1>2, <1>3
  DEF IntakeNext, intakeVars, tables, Accept, ReadPixels, ReadFails, Insert, Skip,
      InsertFails, InsertUnheard, Refund, RefundFails, NextMonth, Goroutine, Acquire,
      FetchBackup, MarkForwarded, Send, FetchFails, MarkFails, UpdateRead, Exit, Expire

(* The goroutines that exist, and the events stored, from one step to the  *)
(* next.                                                                   *)
LEMMA JobsBegun ==
  ASSUME IntakeInv, [IntakeNext]_intakeVars, NEW j \in Jobs
  PROVE  /\ forward'[j] # NoJob =>
              forward[j] # NoJob \/ j[1] \in stored'
         /\ j[1] \in stored /\ forward'[j] # NoJob =>
              j[1] \in stored' \/ ~pixels'[j[1].pixel].there
<1>0. forward \in [Jobs -> Jobbed] /\ j[1] \in Events /\ j[1].pixel \in Pixels
  BY IntakeAssumption DEF IntakeInv, TypeInv, JobInv, Jobs, Events
<1>1. ASSUME NEW h \in Handlers, Insert(h)
      PROVE  /\ forward'[j] # NoJob => forward[j] # NoJob \/ j[1] \in stored'
             /\ stored \subseteq stored'
  BY <1>1, InsertBegins DEF Insert
<1>2. ASSUME NEW k \in Jobs, Goroutine(k) \/ FetchFails(k) \/ MarkFails(k)
      PROVE  /\ forward'[j] # NoJob => forward[j] # NoJob
             /\ stored' = stored
  <2>1. forward[k].at # "none" /\ stored' = stored
    BY <1>2 DEF Goroutine, Acquire, FetchBackup, MarkForwarded, Send, FetchFails,
                MarkFails, Doing, tables
  <2>2. k # j => forward'[j] = forward[j]
    BY <1>0, <1>2
    DEF Goroutine, Acquire, FetchBackup, MarkForwarded, Send, FetchFails,
        MarkFails, Finish, To
  <2> QED
    BY <2>1, <2>2 DEF NoJob
<1>3. CASE Exit
  <2>1. /\ forward'[j] = [forward[j] EXCEPT !.at = IF @ = "none" THEN @ ELSE "done"]
        /\ stored' = stored
    BY <1>3 DEF Exit, tables
  <2>2. forward[j].at = "none" => forward'[j] = [forward[j] EXCEPT !.at = "none"]
    BY <2>1
  <2>3. forward[j].at = "none" => forward'[j] = forward[j]
    BY <1>0, <2>2 DEF Jobbed
  <2>4. NoJob.at = "none"
    BY DEF NoJob
  <2> QED
    BY <2>1, <2>3, <2>4
<1>4. ASSUME NEW p \in Pixels, DeletePixel(p)
      PROVE  /\ forward' = forward
             /\ j[1] \in stored => j[1] \in stored' \/ ~pixels'[j[1].pixel].there
  BY <1>0, <1>4 DEF DeletePixel, NoRow
<1>5. ASSUME NEW h \in Handlers, InsertUnheard(h)
      PROVE  forward' = forward /\ stored \subseteq stored'
  BY <1>5 DEF InsertUnheard
<1>6. CASE UNCHANGED <<forward, stored>>
  BY <1>6
<1>7. ASSUME NEW e \in Events, Expire(e)
      PROVE  /\ forward'[j] # NoJob => forward[j] # NoJob /\ j[1] # e
             /\ stored' = stored \ {e}
  BY <1>7 DEF Expire
<1> QED
  BY <1>1, <1>2, <1>3, <1>4, <1>5, <1>6, <1>7
  DEF IntakeNext, intakeVars, tables, Accept, ReadPixels, ReadFails, Skip,
      InsertFails, Refund, RefundFails, NextMonth, SetPixelActive, UpdateRead,
      UpdateWrite

LEMMA StepOnce == IntakeInv /\ [IntakeNext]_intakeVars => OnceInv'
<1> SUFFICES ASSUME IntakeInv, [IntakeNext]_intakeVars PROVE OnceInv'
  OBVIOUS
<1>1. again' = FALSE
  <2>1. ASSUME NEW h \in Handlers, Insert(h)
        PROVE  again' = FALSE
    <3>1. forward[<<Event(h), "own">>] = NoJob
      BY <2>1, InsertBegins
    <3> QED
      BY <2>1, <3>1 DEF Insert, IntakeInv, OnceInv
  <2> QED
    BY <2>1
    DEF IntakeInv, OnceInv, IntakeNext, intakeVars, books, Accept, ReadPixels,
        ReadFails, Skip, InsertFails, InsertUnheard, Refund, RefundFails, NextMonth,
        Goroutine, Acquire, FetchBackup, MarkForwarded, Send, FetchFails, MarkFails,
        Exit, SetPixelActive, UpdateRead, UpdateWrite, DeletePixel, Expire
<1>2. ASSUME NEW j \in Jobs, forward'[j] # NoJob
      PROVE  j[1] \in stored' \/ ~pixels'[j[1].pixel].there
  <2>1. j[1].pixel \in Pixels
    BY IntakeAssumption DEF Jobs, Events
  <2> QED
    BY <1>2, <2>1, JobsBegun, GoneForEver DEF IntakeInv, OnceInv
<1> QED
  BY <1>1, <1>2 DEF OnceInv

-----------------------------------------------------------------------------
(* Pixels that are off. *)

LEMMA StepOff == IntakeInv /\ [IntakeNext]_intakeVars => OffInv'
<1> SUFFICES ASSUME IntakeInv, [IntakeNext]_intakeVars PROVE OffInv'
  OBVIOUS
<1>0. /\ pixels \in [Pixels -> Row] /\ request \in [Handlers -> Requests]
      /\ off \subseteq Pixels
  BY DEF IntakeInv, TypeInv, TableInv, RequestInv
<1> USE DEF IntakeInv, OffInv
<1>1. CASE UNCHANGED <<pixels, off, request>>
  BY <1>1
<1>2. ASSUME NEW h \in Handlers, NEW r,
             request' = [request EXCEPT ![h] = r], UNCHANGED <<pixels, off>>,
             \/ r.at = "idle"
             \/ r.at = "pixels" /\ r.shut \subseteq off
             \/ r.at = "events" /\ r.shut \subseteq off
                /\ \A p \in r.shut : ~r.seen[p].active
      PROVE  OffInv'
  BY <1>0, <1>2
<1>3. ASSUME NEW h \in Handlers, NEW batch \in Batches, Accept(h, batch)
      PROVE  OffInv'
  <2> DEFINE r == [NoRequest EXCEPT !.at = "pixels", !.batch = batch,
                     !.size = Len(batch), !.month = month, !.shut = off]
  <2>1. /\ request' = [request EXCEPT ![h] = r] /\ UNCHANGED <<pixels, off>>
        /\ r.at = "pixels" /\ r.shut = off
    BY <1>3 DEF Accept, NoRequest
  <2> HIDE DEF r
  <2> QED
    BY <1>2, <2>1
<1>4. ASSUME NEW h \in Handlers, ReadPixels(h)
      PROVE  OffInv'
  <2> DEFINE r == [request[h] EXCEPT !.at = "events", !.seen = pixels]
  <2>1. /\ request' = [request EXCEPT ![h] = r] /\ UNCHANGED <<pixels, off>>
        /\ request[h].at = "pixels"
    BY <1>0, <1>4 DEF ReadPixels, tables
  <2>2. r.at = "events" /\ r.shut = request[h].shut /\ r.seen = pixels
    BY <1>0 DEF Requests
  <2>3. r.shut \subseteq off /\ \A p \in r.shut : ~r.seen[p].active
    BY <2>1, <2>2
  <2> HIDE DEF r
  <2> QED
    BY <1>2, <2>1, <2>2, <2>3
<1>5. ASSUME NEW h \in Handlers,
             Insert(h) \/ Skip(h) \/ InsertFails(h) \/ InsertUnheard(h)
      PROVE  OffInv'
  <2>1. PICK r \in {Created(h), Past(h)} : request' = [request EXCEPT ![h] = r]
    BY <1>5 DEF Insert, Skip, InsertFails, InsertUnheard
  <2>2. Inserting(h) /\ UNCHANGED <<pixels, off>>
    BY <1>5 DEF Insert, Skip, InsertFails, InsertUnheard, tables
  <2>3. r.at = "events" /\ r.shut = request[h].shut /\ r.seen = request[h].seen
    BY <2>2, ServedType DEF TypeInv
  <2>4. r.shut \subseteq off /\ \A p \in r.shut : ~r.seen[p].active
    BY <2>2, <2>3 DEF Inserting
  <2> QED
    BY <1>2, <2>1, <2>2, <2>3, <2>4
<1>6. ASSUME NEW h \in Handlers, ReadFails(h) \/ Refund(h) \/ RefundFails(h)
      PROVE  OffInv'
  <2>1. /\ request' = [request EXCEPT ![h] = NoRequest] /\ UNCHANGED <<pixels, off>>
        /\ NoRequest.at = "idle"
    BY <1>6 DEF ReadFails, Refund, RefundFails, Dropped, tables, NoRequest
  <2> QED
    BY <1>2, <2>1
<1>7. CASE Exit
  BY <1>7 DEF Exit, tables, NoRequest
<1>8. ASSUME NEW p \in Pixels, request' = Reopened(p), off' = off \ {p},
             \A q \in Pixels \ {p} : pixels'[q] = pixels[q]
      PROVE  OffInv'
  <2>1. \A h \in Handlers :
          /\ request'[h].at = request[h].at
          /\ request'[h].seen = request[h].seen
          /\ request'[h].shut = request[h].shut \ {p}
    BY <1>8, ReopenedType DEF TypeInv
  <2> QED
    BY <1>0, <1>8, <2>1
<1>9. ASSUME request' = request, off \subseteq off',
             \A p \in off' : ~pixels'[p].active
      PROVE  OffInv'
  BY <1>9
<1>10. ASSUME NEW p \in Pixels, NEW active \in BOOLEAN, SetPixelActive(p, active)
       PROVE  OffInv'
  <2>1. /\ pixels' = [pixels EXCEPT ![p].active = active]
        /\ pixels'[p].active = active
    BY <1>0, <1>10 DEF SetPixelActive, Row
  <2>2. \A q \in Pixels \ {p} : pixels'[q] = pixels[q]
    BY <1>0, <2>1
  <2>3. CASE active
    BY <1>8, <1>10, <2>2, <2>3 DEF SetPixelActive
  <2>4. CASE ~active
    BY <1>0, <1>9, <1>10, <2>1, <2>2, <2>4 DEF SetPixelActive
  <2> QED
    BY <2>3, <2>4
<1>11. ASSUME NEW active \in {"keep", "yes", "no"}, NEW backup \in Pixels \cup {None},
              UpdateWrite(active, backup)
       PROVE  OffInv'
  <2>1. PICK p \in Pixels, old \in Row : editing = <<[pixel |-> p, row |-> old]>>
    BY <1>11 DEF UpdateWrite, TypeInv, TableInv
  <2> DEFINE row == Merged(old, active, backup)
             on  == row.active /\ (active = "yes" \/ old.active)
  <2>2. row.active = IF active = "keep" THEN old.active ELSE active = "yes"
    BY DEF Merged, Row
  <2>3. row.active => on
    BY <2>2
  <2>4. \/ UNCHANGED <<pixels, off, request>>
        \/ /\ pixels' = [pixels EXCEPT ![p] = row]
           /\ off' = IF on THEN off \ {p} ELSE off
           /\ request' = IF on THEN Reopened(p) ELSE request
    BY <1>11, <2>1 DEF UpdateWrite
  <2> HIDE DEF row, on
  <2>5. ASSUME pixels' = [pixels EXCEPT ![p] = row], on,
               off' = off \ {p}, request' = Reopened(p)
        PROVE  OffInv'
    BY <1>0, <1>8, <2>5
  <2>6. ASSUME pixels' = [pixels EXCEPT ![p] = row], ~on, UNCHANGED <<off, request>>
        PROVE  OffInv'
    BY <1>0, <1>9, <2>3, <2>6
  <2> QED
    BY <1>1, <2>4, <2>5, <2>6
<1>12. ASSUME NEW p \in Pixels, DeletePixel(p)
       PROVE  OffInv'
  <2>1. /\ UNCHANGED <<off, request>>
        /\ pixels' = [q \in Pixels |-> IF q = p THEN NoRow
                       ELSE [pixels[q] EXCEPT !.backup = IF @ = p THEN None ELSE @]]
    BY <1>12 DEF DeletePixel
  <2>2. \A q \in Pixels : pixels'[q].active => pixels[q].active
    BY <1>0, <2>1 DEF NoRow, Row
  <2> QED
    BY <1>0, <1>9, <2>1, <2>2
<1> QED
  BY <1>1, <1>3, <1>4, <1>5, <1>6, <1>7, <1>10, <1>11, <1>12
  DEF IntakeNext, intakeVars, tables, NextMonth, Goroutine, Acquire, FetchBackup,
      MarkForwarded, Send, FetchFails, MarkFails, UpdateRead, Expire

-----------------------------------------------------------------------------
(* The quota. *)

(* What a request adds to the places held of a month.                      *)
Share(r, m) == IF r.at # "idle" /\ r.month = m THEN Reserved(r) ELSE 0

HeldBy(q, m) ==
  {place \in Handlers \X (1 .. BatchSize) :
     LET r == q[place[1]] IN
     r.at # "idle" /\ r.month = m /\ place[2] <= Reserved(r)}
Others(q, h, m) == {place \in HeldBy(q, m) : place[1] # h}

LEMMA HeldShare ==
  ASSUME NEW q, NEW h \in Handlers, NEW m, Reserved(q[h]) \in 0 .. BatchSize
  PROVE  /\ Cardinality(Others(q, h, m)) \in Nat
         /\ Cardinality(HeldBy(q, m))
              = Cardinality(Others(q, h, m)) + Share(q[h], m)
<1> DEFINE n    == Share(q[h], m)
           mine == {h} \X (1 .. n)
           rest == Others(q, h, m)
<1>1. BatchSize \in Nat /\ n \in 0 .. BatchSize /\ n \in Nat
  <2>1. n = Reserved(q[h]) \/ n = 0
    BY DEF Share
  <2> HIDE DEF n
  <2> QED
    BY <2>1, Numbers
<1>2. IsFiniteSet(rest) /\ Cardinality(rest) \in Nat
  BY PlacesFinite DEF Others, HeldBy
<1>3. IsFiniteSet(mine) /\ Cardinality(mine) = n
  <2>1. IsFiniteSet(1 .. n) /\ Cardinality(1 .. n) = n
    <3>1. 1 \in Int /\ n \in Int
      BY <1>1
    <3>2. /\ IsFiniteSet(1 .. n)
          /\ Cardinality(1 .. n) = IF 1 > n THEN 0 ELSE n - 1 + 1
      BY <3>1, FS_Interval
    <3> HIDE DEF n
    <3> QED
      BY <1>1, <3>2
  <2>2. IsFiniteSet({h}) /\ Cardinality({h}) = 1
    BY FS_Singleton
  <2>3. IsFiniteSet(mine) /\ Cardinality(mine) = 1 * n
    BY <2>1, <2>2, FS_Product
  <2> QED
    BY <1>1, <2>3
<1>4. HeldBy(q, m) = rest \cup mine
  <2>1. ASSUME NEW i \in 1 .. n
        PROVE  <<h, i>> \in HeldBy(q, m)
    BY <1>1 DEF Share, HeldBy
  <2>2. ASSUME NEW place \in HeldBy(q, m), place[1] = h
        PROVE  place \in mine
    <3>1. place \in Handlers \X (1 .. BatchSize) /\ place[2] <= n
      BY <2>2 DEF HeldBy, Share
    <3> QED
      BY <2>2, <3>1
  <2> QED
    BY <2>1, <2>2 DEF Others
<1>5. rest \cap mine = {}
  BY DEF Others
<1>6. Cardinality(rest \cup mine)
        = Cardinality(rest) + Cardinality(mine) - Cardinality(rest \cap mine)
  BY <1>2, <1>3, FS_Union
<1>7. Cardinality(rest \cap mine) = 0
  BY <1>5, FS_EmptySet
<1> HIDE DEF n, mine, rest
<1>8. Cardinality(HeldBy(q, m)) = Cardinality(rest) + n
  BY <1>1, <1>2, <1>3, <1>4, <1>6, <1>7
<1> QED
  BY <1>2, <1>8 DEF rest, n

(* A step of one request changes the places held by its own share.         *)
LEMMA HeldMoves ==
  ASSUME RequestInv, NEW h \in Handlers, NEW r \in Requests, NEW m,
         Reserved(r) \in 0 .. BatchSize, request' = [request EXCEPT ![h] = r]
  PROVE  /\ Share(request[h], m) \in Nat /\ Share(r, m) \in Nat
         /\ Cardinality(Held(m)) \in Nat /\ Share(request[h], m) <= Cardinality(Held(m))
         /\ Cardinality(Held(m)')
              = Cardinality(Held(m)) - Share(request[h], m) + Share(r, m)
<1>1. Reserved(request[h]) \in 0 .. BatchSize
  <2>1. /\ request[h] \in Requests
        /\ request[h].created + Len(request[h].batch) <= request[h].size
    BY DEF RequestInv
  <2>2. /\ request[h].size \in 0 .. BatchSize /\ request[h].created \in Nat
        /\ request[h].batch \in Seq(Events)
    BY <2>1 DEF Requests
  <2>3. Len(request[h].batch) \in Nat
    BY <2>2, LenProperties
  <2> QED
    BY <2>1, <2>2, <2>3, Numbers DEF Reserved
<1>2. /\ request'[h] = r
      /\ \A g \in Handlers \ {h} : request'[g] = request[g]
  BY DEF RequestInv
<1>3. Others(request', h, m) = Others(request, h, m)
  BY <1>2 DEF Others, HeldBy
<1>4. Held(m) = HeldBy(request, m) /\ Held(m)' = HeldBy(request', m)
  BY DEF Held, HeldBy
<1>5. /\ Cardinality(Others(request, h, m)) \in Nat
      /\ Cardinality(HeldBy(request, m))
           = Cardinality(Others(request, h, m)) + Share(request[h], m)
  BY <1>1, HeldShare
<1>6. Cardinality(HeldBy(request', m))
        = Cardinality(Others(request', h, m)) + Share(request'[h], m)
  BY <1>2, HeldShare
<1>7. Share(request[h], m) \in Nat /\ Share(r, m) \in Nat
  BY <1>1, Numbers DEF Share
<1>8. /\ Cardinality(Held(m)) = Cardinality(Others(request, h, m)) + Share(request[h], m)
      /\ Cardinality(Held(m)') = Cardinality(Others(request, h, m)) + Share(r, m)
  BY <1>2, <1>3, <1>4, <1>5, <1>6
<1> QED
  BY <1>5, <1>7, <1>8

QuotaTypes ==
  /\ usage \in [Months -> 0 .. Allowed]
  /\ kept \in [Months -> Nat] /\ leaked \in [Months -> Nat] /\ loose \in BOOLEAN

(* What the ledger says of one month.                                      *)
Balanced(m) == usage[m] = kept[m] + leaked[m] + Cardinality(Held(m))

(* A step of one request keeps the ledger if what it adds to a month's     *)
(* count is what it adds to the events stored, those lost and the places   *)
(* it holds.                                                               *)
LEMMA BalanceKept ==
  ASSUME IntakeInv, NEW h \in Handlers, NEW r \in Requests,
         Reserved(r) \in 0 .. BatchSize, request' = [request EXCEPT ![h] = r],
         QuotaTypes', loose' = loose,
         ~loose => \A m \in Months :
           usage'[m] - usage[m] = (kept'[m] - kept[m]) + (leaked'[m] - leaked[m])
                                  + (Share(r, m) - Share(request[h], m)),
         ~loose /\ r.at # "idle" => r.month = month', month' = month
  PROVE  QuotaInv'
<1>1. ASSUME ~loose, NEW m \in Months
      PROVE  Balanced(m)'
  <2>1. /\ usage[m] = kept[m] + leaked[m] + Cardinality(Held(m))
        /\ usage[m] \in Nat /\ kept[m] \in Nat /\ leaked[m] \in Nat
    BY <1>1, Numbers DEF IntakeInv, QuotaInv, UsageLedger
  <2>2. usage'[m] \in Nat /\ kept'[m] \in Nat /\ leaked'[m] \in Nat
    BY Numbers DEF QuotaTypes
  <2>3. /\ Share(request[h], m) \in Nat /\ Share(r, m) \in Nat
        /\ Cardinality(Held(m)) \in Nat
        /\ Cardinality(Held(m)')
             = Cardinality(Held(m)) - Share(request[h], m) + Share(r, m)
    BY HeldMoves DEF IntakeInv, TypeInv
  <2>4. usage'[m] - usage[m] = (kept'[m] - kept[m]) + (leaked'[m] - leaked[m])
                               + (Share(r, m) - Share(request[h], m))
    BY <1>1
  <2>5. usage'[m] = kept'[m] + leaked'[m] + Cardinality(Held(m)')
    BY <2>1, <2>2, <2>3, <2>4
  <2>6. Cardinality(Held(m)') = Cardinality(Held(m))'
    OBVIOUS
  <2> QED
    BY <2>5, <2>6 DEF Balanced
<1>2. UsageLedger'
  BY <1>1 DEF UsageLedger, Balanced
<1>3. ASSUME ~loose, NEW g \in Handlers, request'[g].at # "idle"
      PROVE  request'[g].month = month'
  BY <1>3 DEF IntakeInv, QuotaInv, TypeInv, RequestInv, Busy
<1> QED
  BY <1>2, <1>3 DEF QuotaInv, QuotaTypes, Busy

(* What a request holds: room for the rest of its batch.                   *)
LEMMA RoomHeld ==
  ASSUME RequestInv, NEW h \in Handlers
  PROVE  /\ Reserved(request[h]) \in 0 .. BatchSize /\ Reserved(request[h]) \in Nat
         /\ request[h].month \in Months /\ request[h].created \in Nat
         /\ request[h].size \in Nat
         /\ Inserting(h) => Reserved(request[h]) > 0
<1>1. /\ request[h] \in Requests
      /\ request[h].created + Len(request[h].batch) <= request[h].size
  BY DEF RequestInv
<1>2. /\ request[h].size \in 0 .. BatchSize /\ request[h].created \in Nat
      /\ request[h].batch \in Seq(Events) /\ request[h].month \in Months
  BY <1>1 DEF Requests
<1>3. Len(request[h].batch) \in Nat
  BY <1>2, LenProperties
<1>4. Inserting(h) => Len(request[h].batch) \in Nat \ {0}
  BY HeadType
<1> QED
  BY <1>1, <1>2, <1>3, <1>4, Numbers DEF Reserved

LEMMA AcceptQuota ==
  ASSUME IntakeInv, NEW h \in Handlers, NEW batch \in Batches, Accept(h, batch)
  PROVE  QuotaInv'
<1> DEFINE r == [NoRequest EXCEPT !.at = "pixels", !.batch = batch,
                   !.size = Len(batch), !.month = month, !.shut = off]
           n == Len(batch)
<1>1. /\ request' = [request EXCEPT ![h] = r] /\ request[h].at = "idle"
      /\ usage' = [usage EXCEPT ![month] = @ + n] /\ usage[month] + n <= Allowed
      /\ UNCHANGED <<kept, leaked, loose, month>>
  BY DEF Accept, books, Fits
<1>2. /\ r \in Requests /\ r.size = n /\ r.created = 0 /\ r.month = month
      /\ r.at = "pixels"
  BY AcceptedType DEF IntakeInv, TypeInv
<1> HIDE DEF r
<1>3. n \in Nat /\ n <= BatchSize /\ month \in Months
  BY BatchType, Numbers DEF IntakeInv, TypeInv, RequestInv
<1> HIDE DEF n
<1>4. /\ usage \in [Months -> 0 .. Allowed] /\ kept \in [Months -> Nat]
      /\ leaked \in [Months -> Nat] /\ loose \in BOOLEAN
  BY DEF IntakeInv, QuotaInv
<1>5. QuotaTypes'
  <2>1. usage[month] + n \in 0 .. Allowed
    BY <1>1, <1>3, <1>4, Numbers
  <2> QED
    BY <1>1, <1>4, <2>1 DEF QuotaTypes
<1>6. Reserved(r) = n /\ Reserved(r) \in 0 .. BatchSize
  BY <1>2, <1>3, Numbers DEF Reserved
<1>7. ASSUME NEW m \in Months
      PROVE  usage'[m] - usage[m] = (kept'[m] - kept[m]) + (leaked'[m] - leaked[m])
                                    + (Share(r, m) - Share(request[h], m))
  <2>1. usage[m] \in Nat /\ kept[m] \in Nat /\ leaked[m] \in Nat
    BY <1>4, Numbers
  <2>2. Share(request[h], m) = 0
    BY <1>1 DEF Share
  <2>3. Share(r, m) = IF m = month THEN n ELSE 0
    BY <1>2, <1>6 DEF Share
  <2>4. usage'[m] = IF m = month THEN usage[m] + n ELSE usage[m]
    BY <1>1, <1>4
  <2> QED
    BY <1>1, <1>3, <2>1, <2>2, <2>3, <2>4
<1> QED
  BY <1>1, <1>2, <1>5, <1>6, <1>7, BalanceKept

(* Steps that leave a request what it held.                                *)
LEMMA SameShare ==
  ASSUME IntakeInv, NEW h \in Handlers, NEW r \in Requests,
         request' = [request EXCEPT ![h] = r], request[h].at # "idle", r.at # "idle",
         Reserved(r) = Reserved(request[h]), r.month = request[h].month,
         UNCHANGED <<usage, kept, leaked, loose, month>>
  PROVE  QuotaInv'
<1>1. RequestInv /\ Reserved(r) \in 0 .. BatchSize
  BY RoomHeld DEF IntakeInv, TypeInv
<1>2. QuotaTypes'
  BY DEF IntakeInv, QuotaInv, QuotaTypes
<1>3. ASSUME NEW m \in Months
      PROVE  usage'[m] - usage[m] = (kept'[m] - kept[m]) + (leaked'[m] - leaked[m])
                                    + (Share(r, m) - Share(request[h], m))
  <2>1. Share(r, m) = Share(request[h], m) /\ Share(r, m) \in Nat
    BY <1>1, RoomHeld DEF Share
  <2>2. /\ usage[m] \in Nat /\ kept[m] \in Nat /\ leaked[m] \in Nat
        /\ usage'[m] = usage[m] /\ kept'[m] = kept[m] /\ leaked'[m] = leaked[m]
    BY <1>2, Numbers DEF IntakeInv, QuotaInv
  <2> QED
    BY <2>1, <2>2
<1>4. ~loose => r.month = month'
  BY DEF IntakeInv, QuotaInv, Busy
<1> QED
  BY <1>1, <1>2, <1>3, <1>4, BalanceKept

LEMMA ServeQuota ==
  ASSUME IntakeInv, NEW h \in Handlers, ReadPixels(h) \/ Skip(h) \/ InsertFails(h)
  PROVE  QuotaInv'
<1>0. RequestInv /\ TableInv /\ request[h] \in Requests
  BY DEF IntakeInv, TypeInv, RequestInv
<1>1. CASE ReadPixels(h)
  <2> DEFINE r == [request[h] EXCEPT !.at = "events", !.seen = pixels]
  <2>1. /\ r \in Requests /\ r.at = "events" /\ r.size = request[h].size
        /\ r.created = request[h].created /\ r.month = request[h].month
    BY <1>0, <1>1, ServedType DEF ReadPixels, Requests
  <2>2. /\ request' = [request EXCEPT ![h] = r] /\ request[h].at = "pixels"
        /\ UNCHANGED <<usage, kept, leaked, loose, month>>
    BY <1>0, <1>1 DEF ReadPixels, tables, books
  <2> HIDE DEF r
  <2> QED
    BY <2>1, <2>2, SameShare DEF Reserved
<1>2. CASE Skip(h) \/ InsertFails(h)
  <2>1. /\ request' = [request EXCEPT ![h] = Past(h)] /\ Inserting(h)
        /\ UNCHANGED <<usage, kept, leaked, loose, month>>
    BY <1>2 DEF Skip, InsertFails, tables, books
  <2>2. /\ Past(h) \in Requests /\ Past(h).at = "events" /\ Past(h).size = request[h].size
        /\ Past(h).created = request[h].created /\ Past(h).month = request[h].month
    BY <1>0, <2>1, ServedType
  <2>3. request[h].at = "events" /\ Reserved(Past(h)) = Reserved(request[h])
    BY <2>1, <2>2 DEF Inserting, Reserved
  <2> QED
    BY <2>1, <2>2, <2>3, SameShare
<1> QED
  BY <1>1, <1>2

(* A place held becomes an event stored.                                   *)
LEMMA InsertQuota ==
  ASSUME IntakeInv, NEW h \in Handlers, Insert(h)
  PROVE  QuotaInv'
<1> DEFINE r == Created(h)
           n == request[h].month
<1>0. RequestInv /\ TableInv
  BY DEF IntakeInv, TypeInv
<1>1. /\ request' = [request EXCEPT ![h] = r] /\ request[h].at = "events" /\ Inserting(h)
      /\ kept' = [kept EXCEPT ![n] = @ + 1]
      /\ UNCHANGED <<usage, leaked, loose, month>>
  BY DEF Insert, Inserting
<1>2. /\ r \in Requests /\ r.size = request[h].size /\ r.month = n
      /\ r.created = request[h].created + 1 /\ r.at = "events"
  BY <1>0, <1>1, ServedType
<1> HIDE DEF r
<1>3. /\ n \in Months /\ Reserved(request[h]) \in 0 .. BatchSize
      /\ Reserved(request[h]) \in Nat /\ Reserved(request[h]) > 0
      /\ request[h].created \in Nat /\ request[h].size \in Nat
  BY <1>0, <1>1, RoomHeld
<1>4. Reserved(r) = Reserved(request[h]) - 1 /\ Reserved(r) \in 0 .. BatchSize
  BY <1>2, <1>3, Numbers DEF Reserved
<1> HIDE DEF n
<1>5. /\ usage \in [Months -> 0 .. Allowed] /\ kept \in [Months -> Nat]
      /\ leaked \in [Months -> Nat] /\ loose \in BOOLEAN
  BY DEF IntakeInv, QuotaInv
<1>6. QuotaTypes'
  <2>1. kept[n] + 1 \in Nat
    BY <1>3, <1>5
  <2> QED
    BY <1>1, <1>5, <2>1 DEF QuotaTypes
<1>7. ASSUME NEW m \in Months
      PROVE  usage'[m] - usage[m] = (kept'[m] - kept[m]) + (leaked'[m] - leaked[m])
                                    + (Share(r, m) - Share(request[h], m))
  <2>1. usage[m] \in Nat /\ kept[m] \in Nat /\ leaked[m] \in Nat
    BY <1>5, Numbers
  <2>2. Share(request[h], m) = IF m = n THEN Reserved(request[h]) ELSE 0
    BY <1>1 DEF Share, n
  <2>3. Share(r, m) = IF m = n THEN Reserved(request[h]) - 1 ELSE 0
    BY <1>2, <1>4 DEF Share
  <2>4. kept'[m] = IF m = n THEN kept[m] + 1 ELSE kept[m]
    BY <1>1, <1>5
  <2>5. usage'[m] = usage[m] /\ leaked'[m] = leaked[m]
    BY <1>1
  <2> QED
    BY <1>3, <2>1, <2>2, <2>3, <2>4, <2>5
<1>8. ~loose => r.month = month'
  BY <1>1, <1>2 DEF IntakeInv, QuotaInv, Busy, n
<1> QED
  BY <1>1, <1>2, <1>4, <1>6, <1>7, <1>8, BalanceKept

LEMMA UnheardQuota ==
  ASSUME IntakeInv, NEW h \in Handlers, InsertUnheard(h)
  PROVE  QuotaInv'
<1>1. request[h].month \in Months
  BY RoomHeld DEF IntakeInv, TypeInv
<1>2. /\ kept' = [kept EXCEPT ![request[h].month] = @ + 1] /\ loose' = TRUE
      /\ UNCHANGED <<usage, leaked>>
  BY DEF InsertUnheard
<1>3. kept[request[h].month] + 1 \in Nat
  BY <1>1 DEF IntakeInv, QuotaInv
<1> QED
  BY <1>1, <1>2, <1>3 DEF IntakeInv, QuotaInv, UsageLedger

(* What a request that ends without its refund held is lost.               *)
LEMMA DroppedQuota ==
  ASSUME IntakeInv, NEW h \in Handlers, Dropped(h), request[h].at # "idle",
         UNCHANGED <<usage, kept, loose, month>>
  PROVE  QuotaInv'
<1> DEFINE n == request[h].month
           d == Reserved(request[h])
<1>1. n \in Months /\ d \in Nat
  BY RoomHeld DEF IntakeInv, TypeInv
<1>2. /\ NoRequest \in Requests /\ Reserved(NoRequest) = 0 /\ NoRequest.at = "idle"
      /\ Reserved(NoRequest) \in 0 .. BatchSize
  BY NoRequestType, Numbers DEF NoRequest, Reserved
<1>3. /\ request' = [request EXCEPT ![h] = NoRequest]
      /\ leaked' = [leaked EXCEPT ![n] = @ + d]
  BY DEF Dropped
<1>4. /\ usage \in [Months -> 0 .. Allowed] /\ kept \in [Months -> Nat]
      /\ leaked \in [Months -> Nat] /\ loose \in BOOLEAN
  BY DEF IntakeInv, QuotaInv
<1>5. QuotaTypes'
  <2> HIDE DEF n, d
  <2>1. leaked[n] + d \in Nat
    BY <1>1, <1>4
  <2> QED
    BY <1>3, <1>4, <2>1 DEF QuotaTypes
<1>6. ASSUME NEW m \in Months
      PROVE  usage'[m] - usage[m] = (kept'[m] - kept[m]) + (leaked'[m] - leaked[m])
                                    + (Share(NoRequest, m) - Share(request[h], m))
  <2>1. usage[m] \in Nat /\ kept[m] \in Nat /\ leaked[m] \in Nat
    BY <1>4, Numbers
  <2>2. Share(request[h], m) = IF m = n THEN d ELSE 0
    BY DEF Share
  <2>3. Share(NoRequest, m) = 0
    BY <1>2 DEF Share
  <2>4. usage'[m] = usage[m] /\ kept'[m] = kept[m]
    OBVIOUS
  <2> HIDE DEF n, d
  <2>5. leaked'[m] = IF m = n THEN leaked[m] + d ELSE leaked[m]
    BY <1>3, <1>4
  <2> QED
    BY <1>1, <2>1, <2>2, <2>3, <2>4, <2>5
<1> QED
  BY <1>2, <1>3, <1>5, <1>6, BalanceKept

(* The refund takes back what the request still held, and no count of a    *)
(* month is smaller than that while the requests are of the current month. *)
LEMMA RefundQuota ==
  ASSUME IntakeInv, NEW h \in Handlers, Refund(h)
  PROVE  QuotaInv'
<1> DEFINE d == Skipped(h)
<1>1. d \in Nat /\ d = Reserved(request[h]) /\ month \in Months /\ RequestInv
  BY RoomHeld DEF IntakeInv, TypeInv, Skipped, RequestInv
<1>2. /\ NoRequest \in Requests /\ Reserved(NoRequest) = 0 /\ NoRequest.at = "idle"
      /\ Reserved(NoRequest) \in 0 .. BatchSize
  BY NoRequestType, Numbers DEF NoRequest, Reserved
<1>3. /\ request' = [request EXCEPT ![h] = NoRequest] /\ request[h].at = "events"
      /\ usage' = [usage EXCEPT ![month] = Less(@, d)]
      /\ UNCHANGED <<kept, leaked, loose, month>>
  BY DEF Refund, Refunding, books
<1>4. /\ usage \in [Months -> 0 .. Allowed] /\ kept \in [Months -> Nat]
      /\ leaked \in [Months -> Nat] /\ loose \in BOOLEAN
  BY DEF IntakeInv, QuotaInv
<1>5. ASSUME NEW m \in Months
      PROVE  /\ Share(request[h], m) \in Nat /\ Cardinality(Held(m)) \in Nat
             /\ Share(request[h], m) <= Cardinality(Held(m))
             /\ Share(NoRequest, m) = 0
  BY <1>1, <1>2, <1>3, HeldMoves DEF Share
<1>6. QuotaTypes'
  <2> HIDE DEF d
  <2>1. Less(usage[month], d) \in 0 .. Allowed
    BY <1>1, <1>4, Numbers DEF Less
  <2> QED
    BY <1>3, <1>4, <2>1 DEF QuotaTypes
<1>7. ASSUME ~loose, NEW m \in Months
      PROVE  usage'[m] - usage[m] = (kept'[m] - kept[m]) + (leaked'[m] - leaked[m])
                                    + (Share(NoRequest, m) - Share(request[h], m))
  <2>1. request[h].month = month
    BY <1>3, <1>7 DEF IntakeInv, QuotaInv, Busy
  <2>2. Share(request[h], m) = IF m = month THEN d ELSE 0
    BY <1>1, <1>3, <2>1 DEF Share
  <2>3. /\ usage[m] = kept[m] + leaked[m] + Cardinality(Held(m))
        /\ usage[m] \in Nat /\ kept[m] \in Nat /\ leaked[m] \in Nat
    BY <1>4, <1>7, Numbers DEF IntakeInv, QuotaInv, UsageLedger
  <2> HIDE DEF d
  <2>4. usage'[m] = IF m = month THEN Less(usage[m], d) ELSE usage[m]
    BY <1>3, <1>4
  <2>5. Share(request[h], m) <= usage[m]
    BY <1>5, <2>3
  <2>6. m = month => Less(usage[m], d) = usage[m] - d
    BY <1>1, <2>2, <2>3, <2>5 DEF Less
  <2> QED
    BY <1>1, <1>3, <1>5, <2>2, <2>3, <2>4, <2>6
<1> QED
  BY <1>2, <1>3, <1>6, <1>7, BalanceKept

(* Nothing is held when the server stops.                                  *)
LEMMA ExitQuota ==
  ASSUME IntakeInv, Exit
  PROVE  QuotaInv'
<1>1. /\ request' = [h \in Handlers |-> NoRequest] /\ UNCHANGED <<usage, kept, loose>>
      /\ leaked' = [m \in Months |-> leaked[m] + Cardinality(Held(m))]
  BY DEF Exit, tables
<1>2. \A m : Cardinality(Held(m)) \in Nat
  BY PlacesFinite DEF Held
<1>3. /\ usage \in [Months -> 0 .. Allowed] /\ kept \in [Months -> Nat]
      /\ leaked \in [Months -> Nat] /\ loose \in BOOLEAN
  BY DEF IntakeInv, QuotaInv
<1>4. Busy' = {}
  BY <1>1 DEF Busy, NoRequest
<1>5. ASSUME ~loose, NEW m \in Months
      PROVE  Balanced(m)'
  <2>1. Held(m)' = {}
    BY <1>1 DEF Held, NoRequest
  <2>2. Cardinality(Held(m))' = 0
    BY <2>1, FS_EmptySet
  <2>3. /\ usage[m] = kept[m] + leaked[m] + Cardinality(Held(m))
        /\ usage[m] \in Nat /\ kept[m] \in Nat /\ leaked[m] \in Nat
    BY <1>3, <1>5, Numbers DEF IntakeInv, QuotaInv, UsageLedger
  <2>4. /\ usage'[m] = usage[m] /\ kept'[m] = kept[m]
        /\ leaked'[m] = leaked[m] + Cardinality(Held(m))
    BY <1>1
  <2>5. usage'[m] = kept'[m] + leaked'[m] + 0
    BY <1>2, <2>3, <2>4
  <2> QED
    BY <2>2, <2>5 DEF Balanced
<1>6. UsageLedger'
  BY <1>1, <1>5 DEF UsageLedger, Balanced
<1>7. leaked' \in [Months -> Nat]
  BY <1>1, <1>2, <1>3
<1> QED
  BY <1>1, <1>3, <1>4, <1>6, <1>7 DEF QuotaInv

(* Steps that change no request but in what it knows of the pixels.        *)
LEMMA NothingMoves ==
  ASSUME IntakeInv, UNCHANGED <<usage, kept, leaked, loose, month>>,
         \A h \in Handlers :
           /\ request'[h].at = request[h].at /\ request'[h].size = request[h].size
           /\ request'[h].created = request[h].created
           /\ request'[h].month = request[h].month
  PROVE  QuotaInv'
<1>1. \A m : Held(m)' = Held(m)
  BY DEF Held, Reserved
<1>2. Busy' = Busy
  BY DEF Busy
<1>3. UsageLedger'
  BY <1>1 DEF IntakeInv, QuotaInv, UsageLedger
<1>4. ~loose => \A h \in Busy : request'[h].month = month'
  BY DEF IntakeInv, QuotaInv, Busy
<1> QED
  BY <1>2, <1>3, <1>4 DEF IntakeInv, QuotaInv

LEMMA StepQuota == IntakeInv /\ [IntakeNext]_intakeVars => QuotaInv'
<1> SUFFICES ASSUME IntakeInv, [IntakeNext]_intakeVars PROVE QuotaInv'
  OBVIOUS
<1>1. CASE UNCHANGED <<usage, kept, leaked, loose, month, request>>
  BY <1>1, NothingMoves
<1>2. ASSUME NEW h \in Handlers, ReadFails(h) \/ RefundFails(h)
      PROVE  QuotaInv'
  BY <1>2, DroppedQuota DEF ReadFails, RefundFails, Refunding, tables
<1>3. CASE NextMonth
  <2>1. /\ UNCHANGED <<usage, kept, leaked, request>> /\ loose' = (loose \/ Busy # {})
    BY <1>3 DEF NextMonth, tables
  <2>2. \A m : Held(m)' = Held(m)
    BY <2>1 DEF Held, Reserved
  <2>3. Busy' = Busy
    BY <2>1 DEF Busy
  <2> QED
    BY <2>1, <2>2, <2>3 DEF IntakeInv, QuotaInv, UsageLedger
<1>4. ASSUME NEW p, request' = Reopened(p),
             UNCHANGED <<usage, kept, leaked, loose, month>>
      PROVE  QuotaInv'
  BY <1>4, NothingMoves, ReopenedType DEF IntakeInv, TypeInv
<1>5. ASSUME NEW p \in Pixels, NEW active \in BOOLEAN, SetPixelActive(p, active)
      PROVE  QuotaInv'
  BY <1>1, <1>4, <1>5 DEF SetPixelActive, books
<1>6. ASSUME NEW active \in {"keep", "yes", "no"}, NEW backup \in Pixels \cup {None},
             UpdateWrite(active, backup)
      PROVE  QuotaInv'
  <2>1. UNCHANGED <<usage, kept, leaked, loose, month>>
    BY <1>6 DEF UpdateWrite, books
  <2>2. request' = request \/ \E p : request' = Reopened(p)
    BY <1>6 DEF UpdateWrite
  <2> QED
    BY <1>1, <1>4, <2>1, <2>2
<1> QED
  BY <1>1, <1>2, <1>3, <1>5, <1>6, AcceptQuota, ServeQuota, InsertQuota, UnheardQuota,
     RefundQuota, ExitQuota
  DEF IntakeNext, intakeVars, tables, books, Goroutine, Acquire, FetchBackup,
      MarkForwarded, Send, FetchFails, MarkFails, UpdateRead, DeletePixel, Expire

-----------------------------------------------------------------------------
(* The theorems. *)

LEMMA StepIntakeInv == IntakeInv /\ [IntakeNext]_intakeVars => IntakeInv'
  BY StepTable, StepEvents, StepRequests, StepJobs, StepQuota, StepOnce, StepOff
  DEF IntakeInv, TypeInv

LEMMA IntakeInvariant == IntakeSpec => []IntakeInv
  BY InitIntakeInv, StepIntakeInv, PTL DEF IntakeSpec

(* Every variable of Ingest and of its goroutines has its type, a pixel's  *)
(* backup exists, and the tokens of capiSem taken are those of the         *)
(* goroutines at work, however many requests and pixels there are.         *)
THEOREM IntakeTypeCorrect == IntakeSpec => []IntakeTypeOK
<1>1. IntakeInv => IntakeTypeOK
  BY DEF IntakeInv, TypeInv, TableInv, EventInv, JobInv, QuotaInv, IntakeTypeOK, Jobbed,
         AtWork
<1> QED
  BY <1>1, IntakeInvariant, PTL

(* CheckAndIncrement and DecrementEventQuota keep the month's count equal  *)
(* to the events stored on its account, those lost to failures and those   *)
(* requests still hold room for, for any number of requests at a time and  *)
(* any batches, months and quota.                                          *)
THEOREM QuotaLedgerBalances == IntakeSpec => []UsageLedger
<1>1. IntakeInv => UsageLedger
  BY DEF IntakeInv, QuotaInv
<1> QED
  BY <1>1, IntakeInvariant, PTL

(* Ingest begins one goroutine at most for an event and its own pixel,     *)
(* whatever browsers repeat and whichever pixels are deleted meanwhile,    *)
(* from one deletion of the event by retention to the next.                *)
THEOREM OneForwardEach == IntakeSpec => []ForwardedOnce
<1>1. IntakeInv => ForwardedOnce
  BY DEF IntakeInv, OnceInv, ForwardedOnce
<1> QED
  BY <1>1, IntakeInvariant, PTL

(* What SetPixelActive switched off stores no events of requests that      *)
(* begin later, until it or an update switches it on.                      *)
THEOREM SwitchedOffStays == IntakeSpec => []SwitchedOffTakesNothing
<1>1. IntakeInv => SwitchedOffTakesNothing
  BY DEF IntakeInv, OffInv, SwitchedOffTakesNothing
<1> QED
  BY <1>1, IntakeInvariant, PTL

-----------------------------------------------------------------------------
(* Feed, for any number of pixels, events, visits and resets, and any      *)
(* sizes of the buffer and the limits: what the live mode shows of what    *)
(* Intake stores.                                                          *)

(* Lists of events, which are positions in the log.                        *)
Asc(s)  == \A m, n \in 1 .. Len(s) : m < n => s[m] < s[n]
Desc(s) == \A m, n \in 1 .. Len(s) : m < n => s[m] > s[n]

LEMMA SetInduction ==
  ASSUME NEW S \in SUBSET Nat, 0 \in S, \A n \in S : n + 1 \in S
  PROVE  S = Nat
<1> DEFINE T == Nat \ S
           R == OpToRel(<, Nat)
<1>1. IsWellFoundedOn(R, Nat)
  BY NatLessThanWellFounded
<1>2. \A x, y \in Nat : x < y => <<x, y>> \in R
  BY DEF OpToRel
<1> HIDE DEF R
<1>3. ASSUME T # {} PROVE FALSE
  <2>1. PICK x \in T : \A y \in T : ~ (<<y, x>> \in R)
    BY <1>1, <1>3, WFMin
  <2>2. x # 0 /\ x - 1 \in Nat /\ x - 1 \notin S /\ x - 1 < x
    BY <2>1
  <2> QED
    BY <1>2, <2>1, <2>2
<1> QED
  BY <1>3

(* A sequence and the set of its elements.                                 *)
Indexed(s) ==
  /\ Len(s) \in Nat
  /\ \A i \in 1 .. Len(s) : s[i] \in ToSet(s)
  /\ \A x \in ToSet(s) : \E i \in 1 .. Len(s) : x = s[i]

LEMMA ElementsOf ==
  ASSUME NEW V, NEW s \in Seq(V)
  PROVE  /\ Indexed(s) /\ ToSet(s) \subseteq V
         /\ s = <<>> <=> ToSet(s) = {}
         /\ s # <<>> => Len(s) > 0 /\ Last(s) \in ToSet(s) /\ Last(s) = s[Len(s)]
         /\ s \in Seq(ToSet(s))
<1>1. Len(s) \in Nat /\ DOMAIN s = 1 .. Len(s) /\ (s # <<>> => Len(s) > 0) /\ Len(<<>>) = 0
  BY LenProperties, EmptySeq
<1>2. ToSet(s) = {s[i] : i \in 1 .. Len(s)}
  BY <1>1 DEF ToSet
<1>3. \A i \in 1 .. Len(s) : s[i] \in V /\ s[i] \in ToSet(s)
  BY <1>2, ElementOfSeq
<1>4. s # <<>> => Last(s) = s[Len(s)] /\ Len(s) \in 1 .. Len(s)
  BY <1>1 DEF Last
<1>5. s \in Seq(ToSet(s))
  BY <1>1, <1>3
<1>6. s = <<>> <=> ToSet(s) = {}
  <2>1. s = <<>> => 1 .. Len(s) = {}
    BY <1>1
  <2>2. s # <<>> => 1 \in 1 .. Len(s)
    BY <1>1
  <2> QED
    BY <1>2, <1>3, <2>1, <2>2
<1>7. s # <<>> => Last(s) \in ToSet(s)
  BY <1>3, <1>4
<1>8. ToSet(s) \subseteq V
  BY <1>2, <1>3
<1> QED
  BY <1>1, <1>2, <1>4, <1>5, <1>6, <1>7, <1>8 DEF Indexed

(* Numbers in ascending order: the last is the greatest, the first the     *)
(* least.                                                                  *)
LEMMA LastIsGreatest ==
  ASSUME NEW V \in SUBSET Nat, NEW s \in Seq(V), Asc(s), s # <<>>
  PROVE  \A i \in ToSet(s) : s[1] <= i /\ i <= Last(s)
<1>1. Indexed(s) /\ Len(s) > 0 /\ Last(s) = s[Len(s)]
  BY ElementsOf
<1>2. \A i \in 1 .. Len(s) : s[i] \in Nat
  BY ElementOfSeq
<1>3. ASSUME NEW i \in 1 .. Len(s) PROVE s[1] <= s[i] /\ s[i] <= s[Len(s)]
  BY <1>1, <1>2 DEF Asc, Indexed
<1> QED
  BY <1>1, <1>3 DEF Indexed

LEMMA LastIsLeast ==
  ASSUME NEW V \in SUBSET Nat, NEW s \in Seq(V), Desc(s), s # <<>>
  PROVE  \A i \in ToSet(s) : Last(s) <= i
<1>1. Indexed(s) /\ Len(s) > 0 /\ Last(s) = s[Len(s)]
  BY ElementsOf
<1>2. \A i \in 1 .. Len(s) : s[i] \in Nat
  BY ElementOfSeq
<1>3. ASSUME NEW i \in 1 .. Len(s) PROVE s[Len(s)] <= s[i]
  BY <1>1, <1>2 DEF Desc, Indexed
<1> QED
  BY <1>1, <1>3 DEF Indexed

LEMMA Reversing ==
  ASSUME NEW V \in SUBSET Nat, NEW s \in Seq(V)
  PROVE  /\ Reverse(s) \in Seq(V) /\ Len(Reverse(s)) = Len(s)
         /\ ToSet(Reverse(s)) = ToSet(s)
         /\ Asc(s) => Desc(Reverse(s))
<1>1. Indexed(s) /\ Len(s) \in Nat
  BY ElementsOf DEF Indexed
<1>2. \A i \in 1 .. Len(s) : s[i] \in V /\ Len(s) - i + 1 \in 1 .. Len(s)
  BY <1>1, ElementOfSeq
<1>3. Reverse(s) = [i \in 1 .. Len(s) |-> s[Len(s) - i + 1]]
  BY DEF Reverse
<1>4. Reverse(s) \in Seq(V) /\ Len(Reverse(s)) = Len(s)
  BY <1>1, <1>2, <1>3
<1>5. Indexed(Reverse(s))
  BY <1>4, ElementsOf
<1>6. ToSet(Reverse(s)) = ToSet(s)
  <2>1. \A i \in 1 .. Len(s) :
        Reverse(s)[i] = s[Len(s) - i + 1] /\ Len(s) - (Len(s) - i + 1) + 1 = i
    BY <1>1, <1>3
  <2>2. \A x \in ToSet(s) : x \in ToSet(Reverse(s))
    <3> TAKE x \in ToSet(s)
    <3>1. PICK i \in 1 .. Len(s) : x = s[i]
      BY <1>1 DEF Indexed
    <3>2. Len(s) - i + 1 \in 1 .. Len(s) /\ Reverse(s)[Len(s) - i + 1] = s[i]
      BY <1>1, <1>2, <2>1
    <3> QED
      BY <1>4, <1>5, <3>1, <3>2 DEF Indexed
  <2>3. \A x \in ToSet(Reverse(s)) : x \in ToSet(s)
    <3> TAKE x \in ToSet(Reverse(s))
    <3>1. PICK i \in 1 .. Len(s) : x = Reverse(s)[i]
      BY <1>4, <1>5 DEF Indexed
    <3> QED
      BY <1>1, <1>2, <2>1, <3>1 DEF Indexed
  <2> QED
    BY <2>2, <2>3
<1>7. ASSUME Asc(s) PROVE Desc(Reverse(s))
  <2>1. ASSUME NEW m \in 1 .. Len(s), NEW n \in 1 .. Len(s), m < n
        PROVE  s[Len(s) - m + 1] > s[Len(s) - n + 1]
    BY <1>1, <1>2, <1>7, <2>1 DEF Asc
  <2> QED
    BY <1>3, <1>4, <2>1 DEF Desc
<1> QED
  BY <1>4, <1>6, <1>7

(* The front of a list, and its end.                                       *)
LEMMA Beginning ==
  ASSUME NEW V \in SUBSET Nat, NEW s \in Seq(V), NEW m \in 0 .. Len(s)
  PROVE  LET t == SubSeq(s, 1, m) IN
         /\ t \in Seq(V) /\ Len(t) = m /\ ToSet(t) \subseteq ToSet(s)
         /\ m = Len(s) => t = s
         /\ \A i \in 1 .. m : t[i] = s[i]
         /\ Asc(s) => Asc(t) /\ \A i \in ToSet(s) \ ToSet(t), j \in ToSet(t) : i > j
         /\ Desc(s) => Desc(t) /\ \A i \in ToSet(s) \ ToSet(t), j \in ToSet(t) : i < j
<1> DEFINE t == SubSeq(s, 1, m)
<1>1. Indexed(s) /\ Len(s) \in Nat /\ m \in Nat /\ m <= Len(s)
  BY ElementsOf DEF Indexed
<1>2. \A i \in 1 .. Len(s) : s[i] \in V
  BY ElementOfSeq
<1>3. t \in Seq(V) /\ Len(t) = m /\ \A i \in 1 .. m : t[i] = s[i]
  BY <1>1, <1>2, SubSeqProperties
<1>4. Indexed(t)
  BY <1>3, ElementsOf
<1>5. m = Len(s) => t = s
  BY <1>1, <1>3, SubSeqFull
<1> HIDE DEF t
<1>6. ToSet(t) \subseteq ToSet(s)
  BY <1>1, <1>3, <1>4 DEF Indexed
<1>7. Asc(s) => Asc(t)
  BY <1>1, <1>3 DEF Asc
<1>8. Desc(s) => Desc(t)
  BY <1>1, <1>3 DEF Desc
<1>9. ASSUME NEW i \in ToSet(s) \ ToSet(t), NEW j \in ToSet(t)
      PROVE  (Asc(s) => i > j) /\ (Desc(s) => i < j)
  <2>1. PICK k \in 1 .. Len(s) : i = s[k]
    BY <1>1 DEF Indexed
  <2>2. PICK l \in 1 .. m : j = s[l]
    BY <1>3, <1>4 DEF Indexed
  <2>3. l < k /\ l \in 1 .. Len(s)
    BY <1>1, <1>3, <1>4, <2>1, <2>2 DEF Indexed
  <2> QED
    BY <1>2, <2>1, <2>2, <2>3 DEF Asc, Desc
<1> QED
  BY <1>3, <1>5, <1>6, <1>7, <1>8, <1>9 DEF t

LEMMA Ending ==
  ASSUME NEW V \in SUBSET Nat, NEW s \in Seq(V), NEW m \in 1 .. Len(s)
  PROVE  LET t == SubSeq(s, m, Len(s)) IN
         /\ t \in Seq(V) /\ Len(t) = Len(s) - m + 1 /\ ToSet(t) \subseteq ToSet(s)
         /\ Last(t) = Last(s) /\ t # <<>>
         /\ Asc(s) => Asc(t) /\ \A i \in ToSet(s) \ ToSet(t), j \in ToSet(t) : i < j
<1> DEFINE t == SubSeq(s, m, Len(s))
<1>1. Indexed(s) /\ Len(s) \in Nat
  BY ElementsOf DEF Indexed
<1>2. Indexed(s) /\ Len(s) \in Nat /\ m \in Nat /\ 1 <= m /\ m <= Len(s)
  BY <1>1
<1>3. \A i \in 1 .. Len(s) : s[i] \in V
  BY ElementOfSeq
<1>4. t \in Seq(V) /\ Len(t) = Len(s) - m + 1 /\ \A i \in 1 .. Len(s) - m + 1 : t[i] = s[m + i - 1]
  BY <1>2, <1>3, SubSeqProperties
<1> HIDE DEF t
<1>5. Indexed(t) /\ Len(t) > 0
  BY <1>2, <1>4, ElementsOf
<1>6. \A k \in m .. Len(s) : s[k] \in ToSet(t)
  <2> TAKE k \in m .. Len(s)
  <2>1. k - m + 1 \in 1 .. Len(t) /\ t[k - m + 1] = s[k]
    BY <1>2, <1>4
  <2> QED
    BY <1>5, <2>1 DEF Indexed
<1>7. \A j \in ToSet(t) : \E l \in m .. Len(s) : j = s[l]
  <2> TAKE j \in ToSet(t)
  <2>1. PICK i \in 1 .. Len(t) : j = t[i]
    BY <1>5 DEF Indexed
  <2>2. m + i - 1 \in m .. Len(s)
    BY <1>2, <1>4
  <2> QED
    BY <1>4, <2>1, <2>2
<1>8. ToSet(t) \subseteq ToSet(s)
  BY <1>2, <1>7 DEF Indexed
<1>9. ASSUME Asc(s) PROVE Asc(t)
  <2> SUFFICES ASSUME NEW k \in 1 .. Len(t), NEW n \in 1 .. Len(t), k < n PROVE t[k] < t[n]
    BY DEF Asc
  <2>1. /\ m + k - 1 \in 1 .. Len(s) /\ m + n - 1 \in 1 .. Len(s) /\ m + k - 1 < m + n - 1
        /\ t[k] = s[m + k - 1] /\ t[n] = s[m + n - 1]
    <3>1. k \in 1 .. Len(s) - m + 1 /\ n \in 1 .. Len(s) - m + 1
      BY <1>4
    <3>2. t[k] = s[m + k - 1] /\ t[n] = s[m + n - 1]
      BY <1>4, <3>1
    <3>3. /\ m + k - 1 \in 1 .. Len(s) /\ m + n - 1 \in 1 .. Len(s)
          /\ m + k - 1 < m + n - 1
      BY <1>2, <3>1
    <3> QED
      BY <3>2, <3>3
  <2> QED
    BY <1>9, <2>1 DEF Asc
<1>10. t # <<>> /\ Last(t) = Last(s)
  <2>1. t # <<>>
    BY <1>5
  <2>2. Last(t) = t[Len(t)] /\ Last(s) = s[Len(s)]
    BY DEF Last
  <2> QED
    BY <1>2, <1>4, <2>1, <2>2
<1>11. ASSUME Asc(s), NEW i \in ToSet(s) \ ToSet(t), NEW j \in ToSet(t) PROVE i < j
  <2>1. PICK k \in 1 .. Len(s) : i = s[k]
    BY <1>2 DEF Indexed
  <2>2. PICK l \in m .. Len(s) : j = s[l]
    BY <1>7
  <2>3. k < l /\ l \in 1 .. Len(s)
    BY <1>2, <1>6, <2>1, <2>2
  <2> QED
    BY <1>11, <2>1, <2>2, <2>3 DEF Asc
<1> QED
  BY <1>4, <1>8, <1>9, <1>10, <1>11 DEF t

LEMMA Joining ==
  ASSUME NEW V, NEW s \in Seq(V), NEW t \in Seq(V)
  PROVE  /\ s \o t \in Seq(V) /\ Len(s \o t) = Len(s) + Len(t)
         /\ ToSet(s \o t) = ToSet(s) \cup ToSet(t)
<1>1. Indexed(s) /\ Indexed(t) /\ Len(s) \in Nat /\ Len(t) \in Nat
  BY ElementsOf DEF Indexed
<1> DEFINE u == s \o t
<1>2. /\ u \in Seq(V) /\ Len(u) = Len(s) + Len(t)
      /\ \A i \in 1 .. Len(s) + Len(t) : u[i] = IF i <= Len(s) THEN s[i] ELSE t[i - Len(s)]
  BY ConcatProperties
<1> HIDE DEF u
<1>3. Indexed(u)
  BY <1>2, ElementsOf
<1>4. ToSet(u) \subseteq ToSet(s) \cup ToSet(t)
  <2> SUFFICES ASSUME NEW i \in 1 .. Len(u) PROVE u[i] \in ToSet(s) \cup ToSet(t)
    BY <1>3 DEF Indexed
  <2>1. CASE i <= Len(s)
    BY <1>1, <1>2, <2>1 DEF Indexed
  <2>2. CASE ~(i <= Len(s))
    <3>1. i - Len(s) \in 1 .. Len(t) /\ u[i] = t[i - Len(s)]
      BY <1>1, <1>2, <2>2
    <3> QED
      BY <1>1, <3>1 DEF Indexed
  <2> QED
    BY <2>1, <2>2
<1>5. ToSet(s) \subseteq ToSet(u)
  <2>1. \A i \in 1 .. Len(s) : i \in 1 .. Len(u) /\ u[i] = s[i]
    BY <1>1, <1>2
  <2> QED
    BY <1>1, <1>3, <2>1 DEF Indexed
<1>6. ToSet(t) \subseteq ToSet(u)
  <2>1. ASSUME NEW i \in 1 .. Len(t)
        PROVE  i + Len(s) \in 1 .. Len(u) /\ u[i + Len(s)] = t[i]
    <3>1. /\ i + Len(s) \in 1 .. Len(s) + Len(t) /\ ~(i + Len(s) <= Len(s))
          /\ (i + Len(s)) - Len(s) = i
      BY <1>1
    <3> QED
      BY <1>2, <3>1
  <2> QED
    BY <1>1, <1>3, <2>1 DEF Indexed
<1> QED
  BY <1>2, <1>4, <1>5, <1>6 DEF u

LEMMA JoiningDesc ==
  ASSUME NEW V \in SUBSET Nat, NEW s \in Seq(V), NEW t \in Seq(V),
         Desc(s), Desc(t), \A i \in ToSet(s), j \in ToSet(t) : i > j
  PROVE  Desc(s \o t)
<1>1. Indexed(s) /\ Indexed(t) /\ Len(s) \in Nat /\ Len(t) \in Nat
  BY ElementsOf DEF Indexed
<1> DEFINE u == s \o t
<1>2. /\ u \in Seq(V) /\ Len(u) = Len(s) + Len(t)
      /\ \A i \in 1 .. Len(s) + Len(t) : u[i] = IF i <= Len(s) THEN s[i] ELSE t[i - Len(s)]
  BY ConcatProperties
<1> HIDE DEF u
<1> SUFFICES ASSUME NEW m \in 1 .. Len(u), NEW n \in 1 .. Len(u), m < n PROVE u[m] > u[n]
  BY DEF Desc, u
<1>3. CASE n <= Len(s)
  BY <1>1, <1>2, <1>3 DEF Desc
<1>4. CASE m > Len(s)
  <2>1. m - Len(s) \in 1 .. Len(t) /\ n - Len(s) \in 1 .. Len(t) /\ m - Len(s) < n - Len(s)
    BY <1>1, <1>2, <1>4
  <2>2. u[m] = t[m - Len(s)] /\ u[n] = t[n - Len(s)]
    BY <1>1, <1>2, <1>4
  <2> QED
    BY <2>1, <2>2 DEF Desc
<1>5. CASE m <= Len(s) /\ n > Len(s)
  <2>1. m \in 1 .. Len(s) /\ n - Len(s) \in 1 .. Len(t)
    BY <1>1, <1>2, <1>5
  <2>2. u[m] = s[m] /\ u[n] = t[n - Len(s)]
    BY <1>1, <1>2, <1>5
  <2> QED
    BY <1>1, <2>1, <2>2 DEF Indexed
<1> QED
  BY <1>1, <1>2, <1>3, <1>4, <1>5

(* The function that Kept is defined by.                                   *)
IsKeeping(f, s, S, m) ==
  f = [n \in 0 .. m |-> IF n = 0 THEN <<>> ELSE IF s[n] \in S THEN Append(f[n - 1], s[n])
                                                             ELSE f[n - 1]]

LEMMA KeepingExists ==
  ASSUME NEW s, NEW S, NEW n \in Nat
  PROVE  \E f : IsKeeping(f, s, S, n)
<1> DEFINE R == {m \in Nat : \E f : IsKeeping(f, s, S, m)}
<1>1. 0 \in R
  <2>1. IsKeeping([i \in 0 .. 0 |-> <<>>], s, S, 0)
    BY DEF IsKeeping
  <2> QED
    BY <2>1
<1>2. ASSUME NEW m \in R PROVE m + 1 \in R
  <2>1. PICK f : IsKeeping(f, s, S, m)
    OBVIOUS
  <2> DEFINE last == IF s[m + 1] \in S THEN Append(f[m], s[m + 1]) ELSE f[m]
             g == [i \in 0 .. m + 1 |-> IF i = m + 1 THEN last ELSE f[i]]
  <2>2. \A i \in 0 .. m + 1 :
          g[i] = IF i = 0 THEN <<>> ELSE IF s[i] \in S THEN Append(g[i - 1], s[i]) ELSE g[i - 1]
    <3> TAKE i \in 0 .. m + 1
    <3> HIDE DEF last
    <3>1. m \in Nat
      OBVIOUS
    <3>2. CASE i = m + 1
      <4>1. g[i] = last /\ g[i - 1] = f[m] /\ i # 0
        BY <3>1, <3>2
      <4> QED
        BY <3>2, <4>1 DEF last
    <3>3. CASE i # m + 1
      <4>1. i \in 0 .. m /\ (i # 0 => i - 1 \in 0 .. m)
        BY <3>1, <3>3
      <4>2. g[i] = f[i] /\ (i # 0 => g[i - 1] = f[i - 1])
        BY <3>1, <4>1
      <4>3. f[i] = IF i = 0 THEN <<>> ELSE IF s[i] \in S THEN Append(f[i - 1], s[i]) ELSE f[i - 1]
        BY <2>1, <4>1 DEF IsKeeping
      <4> QED
        BY <4>2, <4>3
    <3> QED
      BY <3>2, <3>3
  <2> HIDE DEF last
  <2>3. IsKeeping(g, s, S, m + 1)
    BY <2>2 DEF IsKeeping
  <2> QED
    BY <2>3
<1> HIDE DEF R
<1>3. R = Nat
  BY <1>1, <1>2, SetInduction DEF R
<1> QED
  BY <1>3 DEF R

(* What is kept of a list are its elements in S, in their order.           *)
LEMMA Keeping ==
  ASSUME NEW V \in SUBSET Nat, NEW s \in Seq(V), NEW S
  PROVE  /\ Kept(s, S) \in Seq(V) /\ ToSet(Kept(s, S)) = ToSet(s) \cap S
         /\ Asc(s) => Asc(Kept(s, S))
<1>1. Indexed(s) /\ Len(s) \in Nat
  BY ElementsOf DEF Indexed
<1>2. \A i \in 1 .. Len(s) : s[i] \in V
  BY ElementOfSeq
<1> DEFINE f == CHOOSE h : IsKeeping(h, s, S, Len(s))
<1>3. IsKeeping(f, s, S, Len(s))
  BY <1>1, KeepingExists
<1>4. Kept(s, S) = f[Len(s)]
  BY DEF Kept, IsKeeping
<1> HIDE DEF f
<1>5. f[0] = <<>>
  BY <1>1, <1>3 DEF IsKeeping
<1>6. ASSUME NEW n \in 1 .. Len(s)
      PROVE  f[n] = IF s[n] \in S THEN Append(f[n - 1], s[n]) ELSE f[n - 1]
  <2>1. n \in 0 .. Len(s) /\ n # 0
    BY <1>1
  <2> QED
    BY <1>3, <2>1 DEF IsKeeping
<1> DEFINE Up(n) == {s[i] : i \in 1 .. n}
           Good(n) == /\ f[n] \in Seq(V) /\ ToSet(f[n]) = Up(n) \cap S
                      /\ Asc(s) => Asc(f[n])
           R == {n \in Nat : n <= Len(s) => Good(n)}
<1>7. 0 \in R
  <2>1. <<>> \in Seq(V) /\ Up(0) = {}
    OBVIOUS
  <2>2. ToSet(<<>>) = {}
    BY <2>1, ElementsOf
  <2>3. Asc(<<>>)
    BY DEF Asc
  <2> QED
    BY <1>5, <2>1, <2>2, <2>3
<1>8. ASSUME NEW m \in R PROVE m + 1 \in R
  <2> SUFFICES ASSUME m + 1 <= Len(s) PROVE Good(m + 1)
    OBVIOUS
  <2>1. m \in Nat /\ m <= Len(s) /\ Good(m) /\ m + 1 \in 1 .. Len(s) /\ (m + 1) - 1 = m
    BY <1>1
  <2>2. Up(m + 1) = Up(m) \cup {s[m + 1]}
    BY <2>1
  <2>3. f[m + 1] = IF s[m + 1] \in S THEN Append(f[m], s[m + 1]) ELSE f[m]
    BY <1>6, <2>1
  <2>4. CASE s[m + 1] \notin S
    BY <2>1, <2>2, <2>3, <2>4
  <2>5. CASE s[m + 1] \in S
    <3> DEFINE g == f[m]
               e == s[m + 1]
               h == f[m + 1]
    <3>1. e \in V /\ h = Append(g, e) /\ g \in Seq(V)
      BY <1>2, <2>1, <2>3, <2>5
    <3>2. /\ h \in Seq(V) /\ Len(h) = Len(g) + 1 /\ h[Len(g) + 1] = e
          /\ \A i \in 1 .. Len(g) : h[i] = g[i]
      BY <3>1, AppendProperties
    <3> HIDE DEF g, h
    <3>3. Indexed(g) /\ Indexed(h)
      BY <3>1, <3>2, ElementsOf
    <3>4. Indexed(g) /\ Indexed(h) /\ Len(g) \in Nat
      BY <3>3 DEF Indexed
    <3>5. ToSet(g) = Up(m) \cap S
      BY <2>1 DEF g
    <3>6. 1 .. Len(h) = (1 .. Len(g)) \cup {Len(g) + 1}
      BY <3>2, <3>4
    <3>7. ToSet(h) = ToSet(g) \cup {e}
      BY <3>2, <3>4, <3>6 DEF Indexed
    <3>8. ToSet(h) = Up(m + 1) \cap S
      BY <2>2, <2>5, <3>5, <3>7
    <3>9. ASSUME Asc(s) PROVE Asc(h)
      <4>1. Asc(g)
        BY <2>1, <3>9 DEF g
      <4>2. \A i \in 1 .. Len(g) : g[i] < e
        <5> TAKE i \in 1 .. Len(g)
        <5>1. g[i] \in Up(m)
          BY <3>4, <3>5 DEF Indexed
        <5>2. PICK k \in 1 .. m : g[i] = s[k]
          BY <5>1
        <5>3. k \in 1 .. Len(s) /\ k < m + 1
          BY <2>1
        <5> QED
          BY <2>1, <3>9, <5>2, <5>3 DEF Asc
      <4> SUFFICES ASSUME NEW k \in 1 .. Len(h), NEW n \in 1 .. Len(h), k < n PROVE h[k] < h[n]
        BY DEF Asc
      <4>3. k \in 1 .. Len(g) /\ h[k] = g[k]
        BY <3>2, <3>4, <3>6
      <4>4. CASE n \in 1 .. Len(g)
        BY <3>2, <4>1, <4>3, <4>4 DEF Asc
      <4>5. CASE n = Len(g) + 1
        BY <3>2, <4>2, <4>3, <4>5
      <4> QED
        BY <3>6, <4>4, <4>5
    <3> QED
      BY <3>2, <3>8, <3>9 DEF h
  <2> QED
    BY <2>4, <2>5
<1> HIDE DEF R
<1>9. R = Nat
  BY <1>7, <1>8, SetInduction DEF R
<1>10. Len(s) \in R
  BY <1>1, <1>9
<1>11. Good(Len(s))
  BY <1>1, <1>10 DEF R
<1>12. Up(Len(s)) = ToSet(s)
  BY <1>1 DEF Indexed
<1> QED
  BY <1>4, <1>11, <1>12

-----------------------------------------------------------------------------
(* The events of a filter, what the server answers and what the hook makes *)
(* of an answer.                                                           *)
Mine(p) == {i \in Stored : p \in {All, log[i].pixel}}
IsBatch(s, M) == s \in Seq(M) /\ Asc(s)

(* A list without gaps.                                                    *)
Whole(s, M) ==
  s # <<>> => \A i \in M : s[1] <= i /\ i <= Last(s) => i \in ToSet(s)

LogInv ==
  /\ now \in Nat \ {0}
  /\ log \in Seq([pixel : FeedPixels, at : 1 .. now, there : BOOLEAN])
  /\ \A i, j \in 1 .. Len(log) : i < j => log[i].at <= log[j].at

LEMMA LogFacts ==
  ASSUME LogInv
  PROVE  /\ Len(log) \in Nat /\ Stored \subseteq Nat /\ Stored \subseteq 1 .. Len(log)
         /\ \A i \in 1 .. Len(log) :
              log[i] \in [pixel : FeedPixels, at : 1 .. now, there : BOOLEAN]
         /\ \A i \in Stored : log[i].at \in 1 .. now /\ log[i].pixel \in FeedPixels
         /\ \A i, j \in Stored : i < j => log[i].at <= log[j].at
         /\ \A p : Mine(p) \in SUBSET Nat /\ Mine(p) \subseteq Stored
<1>1. /\ Len(log) \in Nat
      /\ \A i \in 1 .. Len(log) : log[i] \in [pixel : FeedPixels, at : 1 .. now, there : BOOLEAN]
  BY ElementOfSeq, LenProperties DEF LogInv
<1> QED
  BY <1>1 DEF Stored, Mine, LogInv

LEMMA OfIs ==
  ASSUME LogInv, NEW p
  PROVE  IsBatch(Of(p), Mine(p)) /\ ToSet(Of(p)) = Mine(p)
<1> DEFINE R == 1 .. Len(log)
           s == [i \in R |-> i]
<1>1. Len(log) \in Nat /\ Stored \subseteq R /\ R \in SUBSET Nat
  BY LogFacts
<1>2. s \in Seq(R) /\ Len(s) = Len(log) /\ \A i \in R : s[i] = i
  BY <1>1
<1>3. Asc(s)
  BY <1>1, <1>2 DEF Asc
<1> HIDE DEF s
<1>4. ToSet(s) = R
  <2>1. Indexed(s) /\ ToSet(s) \subseteq R
    BY <1>2, ElementsOf
  <2> QED
    BY <1>1, <1>2, <2>1 DEF Indexed
<1>5. Of(p) = Kept(s, Mine(p))
  BY DEF Of, Mine, s
<1> HIDE DEF R
<1>6. Of(p) \in Seq(R) /\ ToSet(Of(p)) = R \cap Mine(p) /\ Asc(Of(p))
  BY <1>1, <1>2, <1>3, <1>4, <1>5, Keeping
<1>7. ToSet(Of(p)) = Mine(p)
  BY <1>1, <1>6 DEF Mine
<1> QED
  BY <1>6, <1>7, ElementsOf DEF IsBatch

(* The initial load is the newest of the filter's events, without a gap.   *)
LEMMA LatestIs ==
  ASSUME FeedAssumption, LogInv, NEW p
  PROVE  LET s == ListLatest(p) IN
         /\ IsBatch(s, Mine(p)) /\ Len(s) <= InitialLimit /\ Whole(s, Mine(p))
         /\ \A i \in Mine(p) : s # <<>> /\ i <= Last(s)
<1> DEFINE t == Of(p)
           m == IF Len(t) > InitialLimit THEN Len(t) - InitialLimit + 1 ELSE 1
           s == SubSeq(t, m, Len(t))
<1>1. t \in Seq(Mine(p)) /\ Asc(t) /\ ToSet(t) = Mine(p) /\ Mine(p) \in SUBSET Nat
  BY OfIs, LogFacts DEF IsBatch
<1>2. s = ListLatest(p)
  BY DEF ListLatest
<1>3. Len(t) \in Nat /\ InitialLimit \in Nat /\ InitialLimit > 0
  BY <1>1, LenProperties DEF FeedAssumption
<1> HIDE DEF t
<1>4. CASE t = <<>>
  <2>1. s = <<>>
    BY <1>3, <1>4, SubSeqEmpty
  <2>2. Mine(p) = {}
    BY <1>1, <1>4, ElementsOf
  <2>3. IsBatch(<<>>, Mine(p)) /\ Whole(<<>>, Mine(p)) /\ Len(<<>>) <= InitialLimit
    BY <1>3 DEF IsBatch, Whole, Asc
  <2> QED
    BY <1>2, <2>1, <2>2, <2>3
<1>5. CASE t # <<>>
  <2>1. m \in 1 .. Len(t) /\ Len(t) - m + 1 <= InitialLimit
    <3>1. Len(t) > 0
      BY <1>1, <1>5, ElementsOf
    <3> QED
      BY <1>3, <3>1
  <2> HIDE DEF m
  <2>2. /\ s \in Seq(Mine(p)) /\ Len(s) = Len(t) - m + 1 /\ ToSet(s) \subseteq ToSet(t)
        /\ Last(s) = Last(t) /\ s # <<>> /\ Asc(s)
        /\ \A i \in ToSet(t) \ ToSet(s), j \in ToSet(s) : i < j
    BY <1>1, <2>1, Ending
  <2> HIDE DEF s
  <2>3. \A i \in Mine(p) : i <= Last(s)
    BY <1>1, <1>5, <2>2, LastIsGreatest
  <2>4. Whole(s, Mine(p))
    <3> SUFFICES ASSUME NEW i \in Mine(p), s[1] <= i, i \notin ToSet(s) PROVE FALSE
      BY DEF Whole
    <3>1. s[1] \in ToSet(s) /\ s[1] \in Nat /\ i \in Nat
      <4>1. Indexed(s) /\ Len(s) > 0 /\ ToSet(s) \subseteq Mine(p)
        BY <1>1, <2>2, ElementsOf
      <4> QED
        BY <1>1, <4>1 DEF Indexed
    <3> QED
      BY <1>1, <2>2, <3>1
  <2> QED
    BY <1>2, <2>1, <2>2, <2>3, <2>4 DEF IsBatch
<1> QED
  BY <1>4, <1>5

(* A poll's answer is later than the cursor and leaves nothing out before  *)
(* its last event, unless the cursor was older than five minutes.          *)
LEMMA RecentIs ==
  ASSUME FeedAssumption, LogInv, NEW p, NEW t \in Int
  PROVE  LET s == ListRecent(p, t) IN
         /\ IsBatch(s, Mine(p))
         /\ \A i \in ToSet(s) : log[i].at > t
         /\ Clamped(t) = t /\ s # <<>> =>
              \A i \in Mine(p) : log[i].at > t /\ i <= Last(s) => i \in ToSet(s)
<1> DEFINE S == {i \in Stored : log[i].at > Clamped(t)}
           u == Kept(Of(p), S)
           m == IF Len(u) > PollLimit THEN PollLimit ELSE Len(u)
           s == SubSeq(u, 1, m)
<1>1. s = ListRecent(p, t)
  BY DEF ListRecent
<1>2. /\ Of(p) \in Seq(Mine(p)) /\ Asc(Of(p)) /\ ToSet(Of(p)) = Mine(p)
      /\ Mine(p) \in SUBSET Nat /\ Mine(p) \subseteq Stored
  BY OfIs, LogFacts DEF IsBatch
<1> HIDE DEF S
<1>3. u \in Seq(Mine(p)) /\ Asc(u) /\ ToSet(u) = Mine(p) \cap S
  BY <1>2, Keeping
<1> HIDE DEF u
<1>4. m \in 0 .. Len(u)
  BY <1>3, LenProperties DEF FeedAssumption
<1> HIDE DEF m
<1>5. /\ s \in Seq(Mine(p)) /\ Asc(s) /\ ToSet(s) \subseteq ToSet(u)
      /\ \A i \in ToSet(u) \ ToSet(s), j \in ToSet(s) : i > j
  BY <1>2, <1>3, <1>4, Beginning
<1> HIDE DEF s
<1>6. Clamped(t) \in Int /\ Clamped(t) >= t
  BY DEF Clamped, FeedAssumption, LogInv
<1>7. ASSUME NEW i \in ToSet(s) PROVE log[i].at > t
  <2>1. i \in S /\ i \in Stored
    BY <1>2, <1>3, <1>5
  <2>2. log[i].at \in Int
    BY <2>1, LogFacts
  <2> QED
    BY <1>6, <2>1, <2>2 DEF S
<1>8. ASSUME Clamped(t) = t, s # <<>>, NEW i \in Mine(p), log[i].at > t, i <= Last(s)
      PROVE  i \in ToSet(s)
  <2>1. i \in ToSet(u)
    BY <1>2, <1>3, <1>8 DEF S
  <2>2. Last(s) \in ToSet(s) /\ Last(s) \in Nat /\ i \in Nat
    BY <1>2, <1>5, <1>8, ElementsOf
  <2> QED
    BY <1>5, <1>8, <2>1, <2>2
<1> QED
  BY <1>1, <1>5, <1>7, <1>8 DEF IsBatch

LEMMA CappedIs ==
  ASSUME FeedAssumption, NEW V \in SUBSET Nat, NEW s \in Seq(V)
  PROVE  LET t == Capped(s) IN
         /\ t \in Seq(V) /\ Len(t) <= MaxBuffer /\ ToSet(t) \subseteq ToSet(s)
         /\ s # <<>> => t # <<>>
         /\ Desc(s) => Desc(t) /\ \A i \in ToSet(s) \ ToSet(t), j \in ToSet(t) : i < j
<1> DEFINE m == IF Len(s) < MaxBuffer THEN Len(s) ELSE MaxBuffer
           t == SubSeq(s, 1, m)
<1>1. t = Capped(s)
  BY DEF Capped
<1>2. m \in 0 .. Len(s) /\ m <= MaxBuffer /\ (Len(s) > 0 => m > 0)
  BY LenProperties DEF FeedAssumption
<1> HIDE DEF m
<1>3. /\ t \in Seq(V) /\ Len(t) = m /\ ToSet(t) \subseteq ToSet(s)
      /\ Desc(s) => Desc(t) /\ \A i \in ToSet(s) \ ToSet(t), j \in ToSet(t) : i < j
  BY <1>2, Beginning
<1> HIDE DEF t
<1>4. s # <<>> => t # <<>>
  <2>1. s # <<>> => Len(s) > 0
    BY ElementsOf
  <2>2. Len(<<>>) = 0
    OBVIOUS
  <2> QED
    BY <1>2, <1>3, <2>1, <2>2
<1> QED
  BY <1>1, <1>2, <1>3, <1>4

(* Of a list that is cut, only the beginning of its parts matters.         *)
LEMMA CappedJoin ==
  ASSUME FeedAssumption, NEW V \in SUBSET Nat, NEW x \in Seq(V), NEW y \in Seq(V)
  PROVE  Capped(Capped(x) \o y) = Capped(x \o y) /\ Capped(x \o Capped(y)) = Capped(x \o y)
<1> DEFINE Top(n) == IF n < MaxBuffer THEN n ELSE MaxBuffer
<1>1. MaxBuffer \in Nat
  BY DEF FeedAssumption
<1>2. ASSUME NEW s \in Seq(V)
      PROVE  /\ Len(s) \in Nat /\ Capped(s) \in Seq(V) /\ Len(Capped(s)) = Top(Len(s))
             /\ \A i \in 1 .. Top(Len(s)) : Capped(s)[i] = s[i]
  <2>1. Len(s) \in Nat /\ Top(Len(s)) \in 0 .. Len(s)
    BY <1>1, LenProperties
  <2>2. Capped(s) = SubSeq(s, 1, Top(Len(s)))
    BY DEF Capped
  <2> QED
    BY <2>1, <2>2, Beginning
<1>3. ASSUME NEW s \in Seq(V), NEW t \in Seq(V)
      PROVE  /\ s \o t \in Seq(V) /\ Len(s \o t) = Len(s) + Len(t)
             /\ \A i \in 1 .. Len(s) + Len(t) :
                  (s \o t)[i] = IF i <= Len(s) THEN s[i] ELSE t[i - Len(s)]
  BY ConcatProperties
<1>4. ASSUME NEW s \in Seq(V), NEW t \in Seq(V)
      PROVE  LET d == Capped(s \o t) IN
             /\ Len(s) \in Nat /\ Len(t) \in Nat
             /\ d \in Seq(V) /\ Len(d) = Top(Len(s) + Len(t))
             /\ \A i \in 1 .. Len(d) : d[i] = IF i <= Len(s) THEN s[i] ELSE t[i - Len(s)]
  <2> DEFINE u == s \o t
             d == Capped(u)
  <2>1. /\ u \in Seq(V) /\ Len(u) = Len(s) + Len(t)
        /\ \A i \in 1 .. Len(u) : u[i] = IF i <= Len(s) THEN s[i] ELSE t[i - Len(s)]
    BY <1>3
  <2> HIDE DEF u
  <2>2. /\ d \in Seq(V) /\ Len(d) = Top(Len(u)) /\ Len(u) \in Nat
        /\ \A i \in 1 .. Top(Len(u)) : d[i] = u[i]
    BY <1>2, <2>1
  <2>3. Len(s) \in Nat /\ Len(t) \in Nat
    BY LenProperties
  <2> HIDE DEF d
  <2>4. \A i \in 1 .. Len(d) : i \in 1 .. Len(u)
    BY <1>1, <2>2
  <2>5. \A i \in 1 .. Len(d) : d[i] = IF i <= Len(s) THEN s[i] ELSE t[i - Len(s)]
    BY <2>1, <2>2, <2>4
  <2> QED
    BY <2>1, <2>2, <2>3, <2>5 DEF d, u
<1> DEFINE z == Capped(x \o y)
<1>5. /\ Len(x) \in Nat /\ Len(y) \in Nat /\ z \in Seq(V) /\ Len(z) = Top(Len(x) + Len(y))
      /\ \A i \in 1 .. Len(z) : z[i] = IF i <= Len(x) THEN x[i] ELSE y[i - Len(x)]
  BY <1>4
<1> HIDE DEF z
<1>6. Capped(Capped(x) \o y) = z
  <2> DEFINE c == Capped(x)
             d == Capped(c \o y)
  <2>1. /\ c \in Seq(V) /\ Len(c) = Top(Len(x)) /\ \A i \in 1 .. Top(Len(x)) : c[i] = x[i]
    BY <1>2
  <2> HIDE DEF c
  <2>2. /\ d \in Seq(V) /\ Len(d) = Top(Len(c) + Len(y))
        /\ \A i \in 1 .. Len(d) : d[i] = IF i <= Len(c) THEN c[i] ELSE y[i - Len(c)]
    BY <1>4, <2>1
  <2> HIDE DEF d
  <2>3. Len(d) = Len(z) /\ Len(z) \in Nat
    BY <1>1, <1>5, <2>1, <2>2
  <2>4. ASSUME NEW i \in 1 .. Len(d) PROVE d[i] = z[i]
    <3>1. CASE i <= Len(c)
      <4>1. i <= Len(x) /\ i \in 1 .. Top(Len(x))
        BY <1>1, <1>5, <2>1, <2>3, <3>1
      <4> QED
        BY <1>5, <2>1, <2>2, <2>3, <3>1, <4>1
    <3>2. CASE ~(i <= Len(c))
      <4>1. Len(c) = Len(x)
        BY <1>1, <1>5, <2>1, <2>2, <2>3, <3>2
      <4> QED
        BY <1>5, <2>2, <2>3, <3>2, <4>1
    <3> QED
      BY <3>1, <3>2
  <2>5. d = z
    BY <1>5, <2>2, <2>3, <2>4, SeqEqual
  <2> QED
    BY <2>5 DEF c, d
<1>7. Capped(x \o Capped(y)) = z
  <2> DEFINE c == Capped(y)
             d == Capped(x \o c)
  <2>1. /\ c \in Seq(V) /\ Len(c) = Top(Len(y)) /\ \A i \in 1 .. Top(Len(y)) : c[i] = y[i]
    BY <1>2
  <2> HIDE DEF c
  <2>2. /\ d \in Seq(V) /\ Len(d) = Top(Len(x) + Len(c))
        /\ \A i \in 1 .. Len(d) : d[i] = IF i <= Len(x) THEN x[i] ELSE c[i - Len(x)]
    BY <1>4, <2>1
  <2> HIDE DEF d
  <2>3. Len(d) = Len(z) /\ Len(z) \in Nat
    BY <1>1, <1>5, <2>1, <2>2
  <2>4. ASSUME NEW i \in 1 .. Len(d) PROVE d[i] = z[i]
    <3>1. CASE i <= Len(x)
      BY <1>5, <2>2, <2>3, <3>1
    <3>2. CASE ~(i <= Len(x))
      <4>1. i - Len(x) \in 1 .. Top(Len(y))
        BY <1>1, <1>5, <2>1, <2>2, <2>3, <3>2
      <4> QED
        BY <1>5, <2>1, <2>2, <2>3, <3>2, <4>1
    <3> QED
      BY <3>1, <3>2
  <2>5. d = z
    BY <1>5, <2>2, <2>3, <2>4, SeqEqual
  <2> QED
    BY <2>5 DEF c, d
<1> QED
  BY <1>6, <1>7 DEF z

(* The last event of an answer is its newest.                              *)
LEMMA LastAtIs ==
  ASSUME LogInv, NEW p, NEW data, IsBatch(data, Mine(p)), data # <<>>
  PROVE  /\ Last(data) \in Mine(p) /\ Last(data) \in ToSet(data)
         /\ LastAt(data) = log[Last(data)].at /\ LastAt(data) \in 1 .. now
         /\ \A i \in ToSet(data) : i <= Last(data) /\ log[i].at <= LastAt(data)
<1>1. /\ Mine(p) \in SUBSET Nat /\ Mine(p) \subseteq Stored /\ data \in Seq(Mine(p)) /\ Asc(data)
      /\ \A i \in Stored : log[i].at \in 1 .. now
  BY LogFacts DEF IsBatch
<1>2. Last(data) \in ToSet(data) /\ ToSet(data) \subseteq Mine(p) /\ Last(data) = data[Len(data)]
  BY <1>1, ElementsOf
<1>3. \A i \in ToSet(data) : i <= Last(data)
  BY <1>1, LastIsGreatest
<1>4. \A i \in ToSet(data) : log[i].at <= log[Last(data)].at
  <2> TAKE i \in ToSet(data)
  <2>1. i \in Stored /\ Last(data) \in Stored /\ i \in Nat /\ Last(data) \in Nat /\ i <= Last(data)
    BY <1>1, <1>2, <1>3
  <2>2. log[i].at \in Int /\ log[Last(data)].at \in Int
    BY <1>1, <2>1
  <2>3. CASE i = Last(data)
    BY <2>2, <2>3
  <2>4. CASE i < Last(data)
    BY <2>1, <2>4, LogFacts
  <2> QED
    BY <2>1, <2>3, <2>4
<1> QED
  BY <1>1, <1>2, <1>3, <1>4 DEF LastAt

LEMMA SeededIs ==
  ASSUME FeedAssumption, LogInv, NEW p, NEW data, IsBatch(data, Mine(p)), Len(data) <= InitialLimit
  PROVE  LET s == Seeded(data) IN
         /\ s.processed = data /\ data \in Seq(Stored) /\ Len(data) <= 2 * MaxBuffer
         /\ s.since \in 1 .. now
         /\ \A i \in ToSet(data) : log[i].at <= s.since
         /\ data = <<>> => s.since = now
         /\ data # <<>> => s.since = log[Last(data)].at
<1>1. /\ Mine(p) \subseteq Stored /\ data \in Seq(Mine(p)) /\ Len(data) \in Nat
      /\ InitialLimit \in Nat /\ InitialLimit <= 2 * MaxBuffer /\ MaxBuffer \in Nat
  BY LogFacts, LenProperties DEF IsBatch, FeedAssumption
<1>2. data \in Seq(Stored) /\ Len(data) <= 2 * MaxBuffer
  BY <1>1
<1>3. CASE data = <<>>
  <2>1. ToSet(data) = {}
    BY <1>1, <1>3, ElementsOf
  <2> QED
    BY <1>2, <1>3, <2>1 DEF Seeded, LogInv
<1>4. CASE data # <<>>
  BY <1>2, <1>4, LastAtIs DEF Seeded
<1> QED
  BY <1>3, <1>4

(* What absorbing an answer does: one with something new moves the cursor  *)
(* to its end and puts the news on top.                                    *)
Absorbs(a, p, seen, t, shown, data) ==
  LET N == ToSet(data) \ ToSet(seen) IN
  /\ N = {} => a.processed = seen /\ a.since = t /\ a.polled = shown
  /\ N # {} =>
       /\ data # <<>> /\ a.since = LastAt(data)
       /\ a.processed \in Seq(Stored) /\ Len(a.processed) <= 2 * MaxBuffer
       /\ ToSet(a.processed) \subseteq ToSet(seen) \cup ToSet(data)
       /\ \E new \in Seq(Mine(p)) :
            Desc(new) /\ ToSet(new) = N /\ a.polled = Capped(new \o shown)

LEMMA AbsorbedIs ==
  ASSUME FeedAssumption, LogInv, NEW p, NEW seen \in Seq(Stored), NEW t,
         NEW shown \in Seq(Mine(p)), NEW data, IsBatch(data, Mine(p))
  PROVE  Absorbs(Absorbed(seen, t, shown, data), p, seen, t, shown, data)
<1> DEFINE N == ToSet(data) \ ToSet(seen)
           new == Unseen(seen, data)
           a == Absorbed(seen, t, shown, data)
           all == seen \o new
<1>1. /\ Mine(p) \in SUBSET Nat /\ Mine(p) \subseteq Stored /\ Stored \in SUBSET Nat
      /\ data \in Seq(Mine(p)) /\ Asc(data)
  BY LogFacts DEF IsBatch
<1>2. new \in Seq(Mine(p)) /\ ToSet(new) = N /\ Asc(new)
  <2>1. new = Kept(data, N)
    BY DEF Unseen
  <2>2. ToSet(data) \cap N = N
    OBVIOUS
  <2> HIDE DEF N, new
  <2>3. Kept(data, N) \in Seq(Mine(p)) /\ ToSet(Kept(data, N)) = ToSet(data) \cap N
    BY <1>1, Keeping
  <2>4. Asc(Kept(data, N))
    BY <1>1, Keeping
  <2> QED
    BY <2>1, <2>2, <2>3, <2>4
<1>3. a = IF new = <<>> THEN [processed |-> seen, since |-> t, polled |-> shown]
          ELSE [processed |-> Trim(all), since |-> LastAt(data),
                polled |-> Capped(Reverse(new) \o shown)]
  BY DEF Absorbed
<1> HIDE DEF new
<1>4. new = <<>> <=> N = {}
  BY <1>2, ElementsOf
<1>5. /\ all \in Seq(Stored) /\ ToSet(all) \subseteq ToSet(seen) \cup ToSet(data)
      /\ Len(all) \in Nat
  <2>1. new \in Seq(Stored)
    BY <1>1, <1>2
  <2>2. all \in Seq(Stored) /\ ToSet(all) = ToSet(seen) \cup ToSet(new)
    BY <1>1, <2>1, Joining
  <2> QED
    BY <1>2, <2>2, LenProperties
<1> HIDE DEF all, N
<1>6. ASSUME all # <<>>
      PROVE  /\ Trim(all) \in Seq(Stored) /\ Len(Trim(all)) <= 2 * MaxBuffer
             /\ ToSet(Trim(all)) \subseteq ToSet(all)
  <2>1. MaxBuffer \in Nat /\ MaxBuffer > 0
    BY DEF FeedAssumption
  <2>2. CASE Len(all) > 2 * MaxBuffer
    <3> DEFINE m == Len(all) - MaxBuffer + 1
    <3>1. m \in 1 .. Len(all) /\ Len(all) - m + 1 = MaxBuffer
      BY <1>5, <2>1, <2>2
    <3>2. Trim(all) = SubSeq(all, m, Len(all))
      BY <2>2 DEF Trim
    <3> HIDE DEF m
    <3>3. /\ SubSeq(all, m, Len(all)) \in Seq(Stored)
          /\ Len(SubSeq(all, m, Len(all))) = Len(all) - m + 1
          /\ ToSet(SubSeq(all, m, Len(all))) \subseteq ToSet(all)
      BY <1>1, <1>5, <3>1, Ending
    <3> QED
      BY <2>1, <3>1, <3>2, <3>3
  <2>3. CASE ~(Len(all) > 2 * MaxBuffer)
    BY <1>5, <2>1, <2>3 DEF Trim
  <2> QED
    BY <2>2, <2>3
<1>7. CASE N = {}
  BY <1>3, <1>4, <1>7 DEF N, Absorbs
<1>8. CASE N # {}
  <2>1. new # <<>> /\ data # <<>>
    <3>1. ToSet(data) # {}
      BY <1>8 DEF N
    <3> QED
      BY <1>1, <1>4, <1>8, <3>1, ElementsOf
  <2>2. a = [processed |-> Trim(all), since |-> LastAt(data),
             polled |-> Capped(Reverse(new) \o shown)]
    BY <1>3, <2>1
  <2>3. all # <<>>
    <3>1. ToSet(new) # {} /\ new \in Seq(Stored)
      BY <1>1, <1>2, <1>8
    <3>2. ToSet(all) = ToSet(seen) \cup ToSet(new)
      BY <1>1, <3>1, Joining DEF all
    <3> QED
      BY <1>5, <3>1, <3>2, ElementsOf
  <2>4. Reverse(new) \in Seq(Mine(p)) /\ Desc(Reverse(new)) /\ ToSet(Reverse(new)) = N
    BY <1>1, <1>2, Reversing
  <2> QED
    BY <1>5, <1>6, <1>8, <2>1, <2>2, <2>3, <2>4 DEF N, Absorbs
<1> QED
  BY <1>7, <1>8

(* The polled events and the initial load, newest first and cut.           *)
LEMMA EventsAre ==
  ASSUME FeedAssumption, LogInv, NEW p, NEW shown \in Seq(Mine(p)), NEW init, IsBatch(init, Mine(p))
  PROVE  LET E == Capped(shown \o Reverse(init)) IN
         /\ E \in Seq(Mine(p)) /\ ToSet(E) \subseteq ToSet(shown) \cup ToSet(init)
         /\ shown # <<>> \/ init # <<>> => E # <<>>
         /\ Desc(shown) /\ (\A i \in ToSet(shown), j \in ToSet(init) : i > j) =>
              /\ Desc(E)
              /\ \A i \in (ToSet(shown) \cup ToSet(init)) \ ToSet(E), j \in ToSet(E) : i < j
<1> DEFINE r == Reverse(init)
           u == shown \o r
<1>1. Mine(p) \in SUBSET Nat /\ init \in Seq(Mine(p)) /\ Asc(init)
  BY LogFacts DEF IsBatch
<1> DEFINE Apart == \A i \in ToSet(shown), j \in ToSet(init) : i > j
<1>2. r \in Seq(Mine(p)) /\ ToSet(r) = ToSet(init) /\ Desc(r)
  BY <1>1, Reversing
<1> HIDE DEF r
<1>3. u \in Seq(Mine(p)) /\ ToSet(u) = ToSet(shown) \cup ToSet(init)
  <2>1. u \in Seq(Mine(p)) /\ ToSet(u) = ToSet(shown) \cup ToSet(r)
    BY <1>2, Joining
  <2> QED
    BY <1>2, <2>1
<1>4. Desc(shown) /\ Apart => Desc(u)
  BY <1>1, <1>2, JoiningDesc
<1> HIDE DEF u
<1>5. shown # <<>> \/ init # <<>> => u # <<>>
  <2>1. shown # <<>> => ToSet(shown) # {}
    BY ElementsOf
  <2>2. init # <<>> => ToSet(init) # {}
    BY <1>1, ElementsOf
  <2>3. u = <<>> <=> ToSet(u) = {}
    BY <1>3, ElementsOf
  <2> QED
    BY <1>3, <2>1, <2>2, <2>3
<1>6. /\ Capped(u) \in Seq(Mine(p)) /\ ToSet(Capped(u)) \subseteq ToSet(u)
      /\ u # <<>> => Capped(u) # <<>>
      /\ Desc(u) => /\ Desc(Capped(u))
                    /\ \A i \in ToSet(u) \ ToSet(Capped(u)), j \in ToSet(Capped(u)) : i < j
  BY <1>1, <1>3, CappedIs
<1> QED
  BY <1>3, <1>4, <1>5, <1>6 DEF u, r

-----------------------------------------------------------------------------
(* The types: what the caches hold is sorted and of its filter, and so is  *)
(* what the hook shows.                                                    *)
Loads == [at : {"none", "answered", "loaded"}, data : Seq(Nat)]
GoodLoad(l, M) ==
  /\ IsBatch(l.data, M) /\ Len(l.data) <= InitialLimit
  /\ l.at = "none" => l.data = <<>>

Polls == [at : {"idle", "answered"}, answer : Seq(Nat), data : Seq(Nat)]
GoodPoll(q, M) ==
  /\ IsBatch(q.answer, M) /\ IsBatch(q.data, M)
  /\ q.at = "idle" => q.answer = <<>>

PageInv ==
  /\ mounted \in BOOLEAN /\ smooth \in BOOLEAN /\ crossed \in BOOLEAN
  /\ pixel \in Filters /\ pixel = filter /\ generation \in 0 .. MaxGen
  /\ paused = (mode = "history")
  /\ generation = 0 => pixel = All
  /\ ~mounted =>
       pixel = All /\ generation = 0 /\ since = Blank /\ polled = <<>> /\ processed = <<>>
LoadsInv == initialQ \in [Keys -> Loads] /\ \A k \in Keys : GoodLoad(initialQ[k], Mine(k[1]))
PollsInv ==
  /\ pollQ \in [Filters -> Polls] /\ \A p \in Filters : GoodPoll(pollQ[p], Mine(p))
  /\ pixel # All => pollQ[All] = NoPoll
HookInv ==
  /\ polled \in Seq(Mine(pixel)) /\ Len(polled) <= MaxBuffer
  /\ processed \in Seq(Stored) /\ Len(processed) <= 2 * MaxBuffer
  /\ since \in {Blank} \cup 1 .. now

ShapeInv == LogInv /\ PageInv /\ LoadsInv /\ PollsInv /\ HookInv

LEMMA EmptyIsGood ==
  ASSUME FeedAssumption, NEW M
  PROVE  /\ IsBatch(<<>>, M) /\ Whole(<<>>, M) /\ ToSet(<<>>) = {} /\ Desc(<<>>)
         /\ NoLoad \in Loads /\ GoodLoad(NoLoad, M)
         /\ NoPoll \in Polls /\ GoodPoll(NoPoll, M)
<1>1. <<>> \in Seq(M) /\ Len(<<>>) = 0
  OBVIOUS
<1>2. ToSet(<<>>) = {}
  BY <1>1, ElementsOf
<1>3. IsBatch(<<>>, M) /\ Whole(<<>>, M) /\ ToSet(<<>>) = {} /\ Desc(<<>>)
  BY <1>1, <1>2 DEF IsBatch, Whole, Asc, Desc
<1>4. NoLoad \in Loads /\ GoodLoad(NoLoad, M)
  BY <1>1, <1>3 DEF NoLoad, Loads, GoodLoad, FeedAssumption
<1>5. NoPoll \in Polls /\ GoodPoll(NoPoll, M)
  BY <1>1, <1>3 DEF NoPoll, Polls, GoodPoll
<1> QED
  BY <1>3, <1>4, <1>5

LEMMA HomeIsKey == FeedAssumption => <<All, 0>> \in Keys /\ All \in Filters
  BY DEF Keys, Filters, FeedAssumption

LEMMA ShapeInitially == FeedAssumption /\ FeedInit => ShapeInv
<1> SUFFICES ASSUME FeedAssumption, FeedInit PROVE ShapeInv
  OBVIOUS
<1>1. LogInv
  <2>1. Len(log) = 0 /\ log = <<>> /\ now = 1
    BY DEF FeedInit
  <2> QED
    BY <2>1 DEF LogInv
<1>2. PageInv
  <2>1. 0 \in 0 .. MaxGen
    BY DEF FeedAssumption
  <2>2. paused = (mode = "history")
    BY DEF FeedInit
  <2> QED
    BY <2>1, <2>2, HomeIsKey DEF PageInv, FeedInit
<1>3. LoadsInv
  BY EmptyIsGood DEF LoadsInv, FeedInit, Emptied
<1>4. PollsInv
  BY EmptyIsGood DEF PollsInv, FeedInit, Unpolled
<1>5. HookInv
  BY DEF HookInv, FeedInit, FeedAssumption
<1> QED
  BY <1>1, <1>2, <1>3, <1>4, <1>5 DEF ShapeInv

(* While the log stays, so do the events of each filter.                   *)
LEMMA SameLog ==
  ASSUME UNCHANGED log
  PROVE  Stored' = Stored /\ \A p : Mine(p)' = Mine(p)
  BY DEF Stored, Mine

(* An insert that begins changes no row a query sees.                      *)
LEMMA StampKeeps ==
  ASSUME LogInv, NEW q \in FeedPixels, Stamp(q)
  PROVE  /\ LogInv' /\ Stored' = Stored
         /\ \A i \in Stored : log'[i] = log[i]
         /\ \A p : Mine(p)' = Mine(p)
<1> DEFINE e == [pixel |-> q, at |-> now, there |-> FALSE]
<1>1. /\ log' = Append(log, e) /\ Len(log) \in Nat /\ now' = now /\ now \in Nat \ {0}
      /\ log \in Seq([pixel : FeedPixels, at : 1 .. now, there : BOOLEAN])
      /\ e \in [pixel : FeedPixels, at : 1 .. now, there : BOOLEAN]
  BY LogFacts DEF Stamp, LogInv
<1>2. e.at = now /\ ~e.there
  OBVIOUS
<1> HIDE DEF e
<1>3. /\ Len(log') = Len(log) + 1 /\ log'[Len(log) + 1] = e
      /\ \A i \in 1 .. Len(log) : log'[i] = log[i]
      /\ log' \in Seq([pixel : FeedPixels, at : 1 .. now, there : BOOLEAN])
  BY <1>1, AppendProperties
<1>4. Stored' = Stored /\ \A i \in Stored : log'[i] = log[i]
  BY <1>1, <1>2, <1>3 DEF Stored
<1>5. ASSUME NEW i \in 1 .. Len(log'), NEW j \in 1 .. Len(log'), i < j
      PROVE  log'[i].at <= log'[j].at
  <2>1. i \in 1 .. Len(log) /\ log'[i] = log[i] /\ log[i].at \in 1 .. now
    BY <1>1, <1>3, <1>5, LogFacts
  <2>2. CASE j \in 1 .. Len(log)
    BY <1>3, <1>5, <2>1, <2>2 DEF LogInv
  <2>3. CASE j = Len(log) + 1
    BY <1>1, <1>2, <1>3, <2>1, <2>3
  <2> QED
    BY <1>1, <1>3, <2>2, <2>3
<1>6. \A p : Mine(p)' = Mine(p)
  BY <1>4 DEF Mine
<1>7. LogInv'
  BY <1>1, <1>3, <1>5 DEF LogInv
<1> QED
  BY <1>4, <1>6, <1>7

(* One that commits adds its row to what queries see, wherever it is.      *)
LEMMA StoreGrows ==
  ASSUME LogInv, NEW n \in 1 .. Len(log), Store(n)
  PROVE  /\ LogInv' /\ Stored' = Stored \cup {n} /\ n \notin Stored
         /\ log[n].at \in 1 .. now /\ log'[n].at = log[n].at
         /\ \A i \in Stored : log'[i] = log[i]
         /\ \A p : /\ Mine(p) \subseteq Mine(p)' /\ Mine(p)' \subseteq Mine(p) \cup {n}
                   /\ Mine(p)' \in SUBSET Nat
<1> DEFINE T == [pixel : FeedPixels, at : 1 .. now, there : BOOLEAN]
           e == [log[n] EXCEPT !.there = TRUE]
<1>1. /\ log' = [log EXCEPT ![n] = e] /\ n \notin Stored /\ now' = now
      /\ log \in Seq(T) /\ Len(log) \in Nat /\ \A i \in 1 .. Len(log) : log[i] \in T
  BY LogFacts DEF Store, LogInv
<1>2. log[n] \in T /\ e \in T /\ e.at = log[n].at /\ e.pixel = log[n].pixel /\ e.there
  BY <1>1
<1> HIDE DEF e, T
<1>3. /\ log' \in Seq(T) /\ Len(log') = Len(log) /\ log'[n] = e
      /\ \A i \in 1 .. Len(log) : i # n => log'[i] = log[i]
  BY <1>1, <1>2, ExceptSeq
<1>4. /\ Stored' = Stored \cup {n}
      /\ \A i \in Stored : log'[i] = log[i]
  BY <1>1, <1>2, <1>3 DEF Stored
<1>5. \A i \in 1 .. Len(log) : log'[i].at = log[i].at
  BY <1>2, <1>3
<1>6. LogInv'
  BY <1>1, <1>3, <1>5 DEF LogInv, T
<1>7. /\ log[n].at \in 1 .. now
      /\ \A p : /\ Mine(p) \subseteq Mine(p)' /\ Mine(p)' \subseteq Mine(p) \cup {n}
                /\ Mine(p)' \in SUBSET Nat
  BY <1>1, <1>2, <1>4, LogFacts DEF Mine, T
<1> QED
  BY <1>1, <1>4, <1>5, <1>6, <1>7

LEMMA GoodGrows ==
  ASSUME NEW M, NEW N, M \subseteq N
  PROVE  /\ \A s : IsBatch(s, M) => IsBatch(s, N)
         /\ \A l : GoodLoad(l, M) => GoodLoad(l, N)
         /\ \A q : GoodPoll(q, M) => GoodPoll(q, N)
<1>1. ASSUME NEW s, IsBatch(s, M) PROVE IsBatch(s, N)
  <2>1. s \in Seq(N)
    BY <1>1, SeqMonotonic DEF IsBatch
  <2> QED
    BY <1>1, <2>1 DEF IsBatch
<1> QED
  BY <1>1 DEF GoodLoad, GoodPoll

(* A load or a poll that was good stays so, whatever is stored.            *)
LEMMA ServerShape ==
  ASSUME FeedAssumption, ShapeInv, LogInv', now' = now,
         UNCHANGED <<page, hook, initialQ, pollQ, crossed>>, smooth' \in BOOLEAN,
         Stored \subseteq Stored', \A p : Mine(p) \subseteq Mine(p)'
  PROVE  ShapeInv'
<1>1. PageInv'
  BY DEF ShapeInv, PageInv, page, hook
<1>2. ASSUME NEW p
      PROVE  /\ \A l : GoodLoad(l, Mine(p)) => GoodLoad(l, Mine(p)')
             /\ \A l : GoodPoll(l, Mine(p)) => GoodPoll(l, Mine(p)')
  BY GoodGrows
<1>3. LoadsInv'
  BY <1>2 DEF ShapeInv, LoadsInv
<1>4. PollsInv'
  BY <1>2 DEF ShapeInv, PollsInv, hook
<1>5. HookInv'
  <2>1. polled \in Seq(Mine(pixel)') /\ processed \in Seq(Stored')
    BY SeqMonotonic DEF ShapeInv, HookInv, hook
  <2> QED
    BY <2>1 DEF ShapeInv, HookInv, hook
<1> QED
  BY <1>1, <1>3, <1>4, <1>5 DEF ShapeInv

LEMMA StoreShape ==
  ASSUME FeedAssumption, ShapeInv,
         \/ \E q \in FeedPixels : Stamp(q)
         \/ \E n \in 1 .. Len(log) : Store(n)
  PROVE  ShapeInv'
<1>1. LogInv /\ smooth \in BOOLEAN
  BY DEF ShapeInv, PageInv
<1>2. ASSUME NEW q \in FeedPixels, Stamp(q) PROVE ShapeInv'
  <2>1. UNCHANGED <<now, page, hook, initialQ, pollQ, crossed, smooth>>
    BY <1>2 DEF Stamp, ghosts
  <2> QED
    BY <1>1, <1>2, <2>1, StampKeeps, ServerShape
<1>3. ASSUME NEW n \in 1 .. Len(log), Store(n) PROVE ShapeInv'
  <2>1. UNCHANGED <<now, page, hook, initialQ, pollQ, crossed>> /\ smooth' \in BOOLEAN
    BY <1>3 DEF Store
  <2>2. /\ LogInv' /\ Stored \subseteq Stored'
        /\ \A p : Mine(p) \subseteq Mine(p)'
    BY <1>1, <1>3, StoreGrows
  <2> QED
    BY <2>1, <2>2, ServerShape
<1> QED
  BY <1>2, <1>3

LEMMA SameServer ==
  ASSUME UNCHANGED server
  PROVE  /\ now' = now /\ log' = log /\ Stored' = Stored /\ \A p : Mine(p)' = Mine(p)
         /\ LogInv => LogInv'
<1>1. now' = now /\ log' = log
  BY DEF server
<1>2. Stored' = Stored /\ \A p : Mine(p)' = Mine(p)
  BY <1>1, SameLog
<1> QED
  BY <1>1, <1>2 DEF LogInv

LEMMA KeyIs ==
  ASSUME FeedAssumption, PageInv
  PROVE  /\ Key \in Keys /\ Key[1] = pixel /\ Key[2] = generation /\ pixel \in Filters
         /\ <<All, 0>> \in Keys /\ All \in Filters
  BY HomeIsKey DEF PageInv, Key, Keys

LEMMA TickShape ==
  ASSUME FeedAssumption, ShapeInv, Tick
  PROVE  ShapeInv'
<1>1. now' = now + 1 /\ now \in Nat \ {0} /\ UNCHANGED <<log, page, hook, initialQ, pollQ, ghosts>>
  BY DEF Tick, ShapeInv, LogInv
<1>2. Stored' = Stored /\ \A p : Mine(p)' = Mine(p)
  BY <1>1, SameLog
<1>3. LogInv'
  <2>1. 1 .. now \subseteq 1 .. now'
    BY <1>1
  <2>3. log \in Seq([pixel : FeedPixels, at : 1 .. now', there : BOOLEAN])
    <3> DEFINE R == [pixel : FeedPixels, at : 1 .. now, there : BOOLEAN]
               T == [pixel : FeedPixels, at : 1 .. now', there : BOOLEAN]
    <3>1. log \in Seq(R) /\ R \subseteq T
      BY <2>1 DEF ShapeInv, LogInv
    <3> HIDE DEF R, T
    <3>2. log \in Seq(T)
      BY <3>1, SeqMonotonic
    <3> QED
      BY <3>2 DEF T
  <2> QED
    BY <1>1, <1>2, <2>3 DEF ShapeInv, LogInv
<1>4. PageInv'
  BY <1>1 DEF ShapeInv, PageInv, page, hook, ghosts
<1>5. LoadsInv' /\ PollsInv'
  BY <1>1, <1>2 DEF ShapeInv, LoadsInv, PollsInv, hook
<1>6. HookInv'
  BY <1>1, <1>2 DEF ShapeInv, HookInv, hook
<1> QED
  BY <1>3, <1>4, <1>5, <1>6 DEF ShapeInv

LEMMA AskInitialShape ==
  ASSUME FeedAssumption, ShapeInv, AskInitial
  PROVE  ShapeInv'
<1> DEFINE l == [at |-> "answered", data |-> ListLatest(pixel)]
<1>1. UNCHANGED <<server, page, hook, pollQ, ghosts>> /\ initialQ' = [initialQ EXCEPT ![Key] = l]
  BY DEF AskInitial
<1>2. /\ Stored' = Stored /\ (\A p : Mine(p)' = Mine(p)) /\ LogInv' /\ now' = now
      /\ Key \in Keys /\ Key[1] = pixel
  BY <1>1, SameServer, KeyIs DEF ShapeInv
<1>3. l \in Loads /\ GoodLoad(l, Mine(pixel))
  <2>1. /\ IsBatch(ListLatest(pixel), Mine(pixel)) /\ Len(ListLatest(pixel)) <= InitialLimit
        /\ Mine(pixel) \subseteq Nat
    BY LatestIs, LogFacts DEF ShapeInv
  <2>2. ListLatest(pixel) \in Seq(Nat)
    BY <2>1, SeqMonotonic DEF IsBatch
  <2> QED
    BY <2>1, <2>2 DEF Loads, GoodLoad
<1> HIDE DEF l
<1>4. LoadsInv'
  BY <1>1, <1>2, <1>3 DEF ShapeInv, LoadsInv
<1>5. PageInv'
  BY <1>1 DEF ShapeInv, PageInv, page, hook, ghosts
<1>6. PollsInv' /\ HookInv'
  BY <1>1, <1>2 DEF ShapeInv, PollsInv, HookInv, hook
<1> QED
  BY <1>2, <1>4, <1>5, <1>6 DEF ShapeInv

LEMMA LandInitialShape ==
  ASSUME FeedAssumption, ShapeInv, NEW k \in Keys, LandInitial(k)
  PROVE  ShapeInv'
<1>1. /\ UNCHANGED <<server, page, pixel, generation, polled, pollQ, ghosts>>
      /\ initialQ[k].at = "answered" /\ initialQ' = [initialQ EXCEPT ![k].at = "loaded"]
  BY DEF LandInitial
<1>2. Stored' = Stored /\ (\A p : Mine(p)' = Mine(p)) /\ LogInv' /\ now' = now
  BY <1>1, SameServer DEF ShapeInv
<1>3. LoadsInv'
  <2>1. initialQ[k] \in Loads /\ GoodLoad(initialQ[k], Mine(k[1]))
    BY DEF ShapeInv, LoadsInv
  <2> DEFINE l == [initialQ[k] EXCEPT !.at = "loaded"]
  <2>2. l \in Loads /\ GoodLoad(l, Mine(k[1])) /\ initialQ' = [initialQ EXCEPT ![k] = l]
    BY <1>1, <2>1 DEF Loads, GoodLoad
  <2> HIDE DEF l
  <2> QED
    BY <1>2, <2>2 DEF ShapeInv, LoadsInv
<1>4. HookInv'
  <2>1. polled' \in Seq(Mine(pixel)') /\ Len(polled') <= MaxBuffer
    BY <1>1, <1>2 DEF ShapeInv, HookInv
  <2>2. CASE UNCHANGED <<processed, since>>
    BY <1>2, <2>1, <2>2 DEF ShapeInv, HookInv
  <2>3. CASE mounted /\ k = Key /\ Seed(k) /\ initialQ'[k].at = "loaded"
    <3> DEFINE d == initialQ'[k].data
    <3>1. IsBatch(d, Mine(k[1])) /\ Len(d) <= InitialLimit
      BY <1>2, <1>3 DEF LoadsInv, GoodLoad
    <3>2. processed' = Seeded(d).processed /\ since' = Seeded(d).since
      BY <2>3 DEF Seed
    <3> HIDE DEF d
    <3>3. processed' = d /\ d \in Seq(Stored) /\ Len(d) <= 2 * MaxBuffer /\ since' \in 1 .. now
      BY <3>1, <3>2, SeededIs DEF ShapeInv
    <3> QED
      BY <1>2, <2>1, <3>3 DEF HookInv
  <2> QED
    BY <2>2, <2>3 DEF LandInitial, Seed
<1>5. PageInv'
  <2>1. ~mounted => UNCHANGED <<processed, since>>
    BY DEF LandInitial
  <2> QED
    BY <1>1, <2>1 DEF ShapeInv, PageInv, page, ghosts
<1>6. PollsInv'
  BY <1>1, <1>2 DEF ShapeInv, PollsInv
<1> QED
  BY <1>2, <1>3, <1>4, <1>5, <1>6 DEF ShapeInv

LEMMA AskPollShape ==
  ASSUME FeedAssumption, ShapeInv, AskPoll
  PROVE  ShapeInv'
<1> DEFINE s == ListRecent(pixel, since)
           q == [pollQ[pixel] EXCEPT !.at = "answered", !.answer = s]
<1>1. /\ UNCHANGED <<server, page, hook, initialQ, crossed>> /\ smooth' \in BOOLEAN
      /\ pollQ' = [pollQ EXCEPT ![pixel].at = "answered", ![pixel].answer = s]
      /\ pollQ[pixel].at = "idle" /\ IsLoaded
  BY DEF AskPoll, CanPoll
<1>2. /\ Stored' = Stored /\ (\A p : Mine(p)' = Mine(p)) /\ LogInv' /\ now' = now
      /\ pixel \in Filters
  BY <1>1, SameServer, KeyIs DEF ShapeInv
<1>3. s \in Seq(Nat) /\ IsBatch(s, Mine(pixel))
  <2>1. since \in Int
    BY DEF ShapeInv, HookInv, Blank, LogInv
  <2>2. IsBatch(s, Mine(pixel)) /\ Mine(pixel) \subseteq Nat
    BY <2>1, RecentIs, LogFacts DEF ShapeInv
  <2> HIDE DEF s
  <2> QED
    BY <2>2, SeqMonotonic DEF IsBatch
<1> HIDE DEF s
<1>4. pollQ[pixel] \in Polls /\ GoodPoll(pollQ[pixel], Mine(pixel)) /\ pollQ \in [Filters -> Polls]
  BY <1>2 DEF ShapeInv, PollsInv
<1>5. q \in Polls /\ GoodPoll(q, Mine(pixel)) /\ pollQ' = [pollQ EXCEPT ![pixel] = q]
  BY <1>1, <1>2, <1>3, <1>4 DEF Polls, GoodPoll
<1> HIDE DEF q
<1>6. PollsInv'
  <2>1. pollQ' \in [Filters -> Polls] /\ \A p \in Filters : GoodPoll(pollQ'[p], Mine(p))
    BY <1>2, <1>5 DEF ShapeInv, PollsInv
  <2>2. pixel' = pixel /\ (pixel # All => pollQ'[All] = pollQ[All])
    BY <1>1, <1>2, <1>5, HomeIsKey DEF hook, ShapeInv, PollsInv
  <2> QED
    BY <1>2, <2>1, <2>2 DEF ShapeInv, PollsInv
<1>7. PageInv'
  BY <1>1 DEF ShapeInv, PageInv, page, hook
<1>8. LoadsInv' /\ HookInv'
  BY <1>1, <1>2 DEF ShapeInv, LoadsInv, HookInv, hook
<1> QED
  BY <1>2, <1>6, <1>7, <1>8 DEF ShapeInv

(* A poll that has ended, well or not, leaves good data.                   *)
LEMMA PollEnds ==
  ASSUME ShapeInv, NEW p \in Filters, pollQ[p].at = "answered",
         NEW d \in {pollQ[p].answer, pollQ[p].data},
         pollQ' = [pollQ EXCEPT ![p] = [NoPoll EXCEPT !.data = d]],
         UNCHANGED <<server, pixel>>
  PROVE  PollsInv'
<1>1. \A r : Mine(r)' = Mine(r)
  BY SameServer
<1>2. pollQ[p] \in Polls /\ GoodPoll(pollQ[p], Mine(p))
  BY DEF ShapeInv, PollsInv
<1> DEFINE q == [NoPoll EXCEPT !.data = d]
<1>3. q \in Polls /\ GoodPoll(q, Mine(p))
  <2>1. <<>> \in Seq(Mine(p)) /\ Asc(<<>>) /\ <<>> \in Seq(Nat)
    BY DEF Asc
  <2> QED
    BY <1>2, <2>1 DEF Polls, GoodPoll, IsBatch, NoPoll
<1>4. pixel # All => p # All
  BY DEF ShapeInv, PollsInv, NoPoll
<1> HIDE DEF q
<1> QED
  BY <1>1, <1>3, <1>4 DEF ShapeInv, PollsInv, q

LEMMA LandPollShape ==
  ASSUME FeedAssumption, ShapeInv, NEW p \in Filters, LandPoll(p)
  PROVE  ShapeInv'
<1> DEFINE data == pollQ[p].answer
           a == Absorbed(processed, since, polled, data)
<1>1. /\ UNCHANGED <<server, page, pixel, generation, initialQ, ghosts>>
      /\ pollQ[p].at = "answered" /\ pollQ' = [pollQ EXCEPT ![p] = [NoPoll EXCEPT !.data = data]]
      /\ \/ UNCHANGED <<processed, since, polled>>
         \/ /\ mounted /\ p = pixel
            /\ processed' = a.processed /\ since' = a.since /\ polled' = a.polled
  BY DEF LandPoll
<1>2. Stored' = Stored /\ (\A r : Mine(r)' = Mine(r)) /\ LogInv' /\ now' = now
  BY <1>1, SameServer DEF ShapeInv
<1>3. PollsInv'
  BY <1>1, PollEnds
<1>4. LoadsInv'
  BY <1>1, <1>2 DEF ShapeInv, LoadsInv
<1>5. HookInv' /\ (~mounted => UNCHANGED <<processed, since, polled>>)
  <2>1. CASE UNCHANGED <<processed, since, polled>>
    BY <1>1, <1>2, <2>1 DEF ShapeInv, HookInv
  <2>2. CASE /\ mounted /\ p = pixel
             /\ processed' = a.processed /\ since' = a.since /\ polled' = a.polled
    <3>1. IsBatch(data, Mine(p))
      BY DEF ShapeInv, PollsInv, GoodPoll
    <3> DEFINE N == ToSet(data) \ ToSet(processed)
    <3>2. LogInv /\ processed \in Seq(Stored) /\ polled \in Seq(Mine(p))
      BY <2>2 DEF ShapeInv, HookInv
    <3> HIDE DEF data
    <3>3. Absorbs(a, p, processed, since, polled, data)
      BY <3>2, <3>1, AbsorbedIs
    <3> HIDE DEF a, N
    <3>4. /\ N = {} => a.processed = processed /\ a.since = since /\ a.polled = polled
          /\ N # {} =>
               /\ data # <<>> /\ a.since = LastAt(data)
               /\ a.processed \in Seq(Stored) /\ Len(a.processed) <= 2 * MaxBuffer
               /\ \E new \in Seq(Mine(p)) : a.polled = Capped(new \o polled)
      BY <3>3 DEF Absorbs, N
    <3>5. CASE N = {}
      BY <1>1, <1>2, <2>2, <3>4, <3>5 DEF ShapeInv, HookInv
    <3>6. CASE N # {}
      <4>1. since' \in 1 .. now
        BY <2>2, <3>1, <3>4, <3>6, LastAtIs DEF ShapeInv
      <4>2. polled' \in Seq(Mine(p)) /\ Len(polled') <= MaxBuffer
        <5>1. PICK new \in Seq(Mine(p)) : polled' = Capped(new \o polled)
          BY <2>2, <3>4, <3>6
        <5>2. new \o polled \in Seq(Mine(p)) /\ Mine(p) \in SUBSET Nat
          BY <2>2, Joining, LogFacts DEF ShapeInv, HookInv
        <5> QED
          BY <5>1, <5>2, CappedIs
      <4> QED
        BY <1>1, <1>2, <2>2, <3>4, <3>6, <4>1, <4>2 DEF HookInv
    <3> QED
      BY <3>5, <3>6
  <2> QED
    BY <1>1, <2>1, <2>2
<1>6. PageInv'
  BY <1>1, <1>5 DEF ShapeInv, PageInv, page, ghosts
<1> QED
  BY <1>2, <1>3, <1>4, <1>5, <1>6 DEF ShapeInv

LEMMA PollFailsShape ==
  ASSUME FeedAssumption, ShapeInv, NEW p \in Filters, PollFails(p)
  PROVE  ShapeInv'
<1>1. /\ UNCHANGED <<server, page, hook, initialQ, ghosts>> /\ pollQ[p].at = "answered"
      /\ pollQ' = [pollQ EXCEPT ![p] = [NoPoll EXCEPT !.data = pollQ[p].data]]
  BY DEF PollFails
<1>2. Stored' = Stored /\ (\A r : Mine(r)' = Mine(r)) /\ LogInv' /\ now' = now
  BY <1>1, SameServer DEF ShapeInv
<1>3. PollsInv'
  BY <1>1, PollEnds DEF hook
<1>4. PageInv'
  BY <1>1 DEF ShapeInv, PageInv, page, hook, ghosts
<1>5. LoadsInv' /\ HookInv'
  BY <1>1, <1>2 DEF ShapeInv, LoadsInv, HookInv, hook
<1> QED
  BY <1>2, <1>3, <1>4, <1>5 DEF ShapeInv

LEMMA ResetShape ==
  ASSUME FeedAssumption, ShapeInv, NEW p \in Filters, NEW t \in {Blank} \cup 1 .. now, NEW cache,
         cache \in [Keys -> Loads], \A k \in Keys : GoodLoad(cache[k], Mine(k[1])),
         Reset(p, t, cache), UNCHANGED <<server, mounted>>, mounted, smooth' = smooth,
         filter' = p, paused' = (mode' = "history"),
         \/ p = pixel /\ pollQ' = pollQ
         \/ pollQ' = Unpolled
  PROVE  ShapeInv'
<1> DEFINE k == <<p, generation + 1>>
           s == IF cache[k].at = "loaded" THEN Seeded(cache[k].data)
                                          ELSE [processed |-> <<>>, since |-> t]
<1>1. /\ generation < MaxGen /\ generation' = generation + 1 /\ pixel' = p /\ initialQ' = cache
      /\ polled' = <<>> /\ processed' = s.processed /\ since' = s.since /\ crossed' \in BOOLEAN
  BY DEF Reset
<1>2. Stored' = Stored /\ (\A r : Mine(r)' = Mine(r)) /\ LogInv' /\ now' = now
  BY SameServer DEF ShapeInv
<1>3. /\ generation \in 0 .. MaxGen /\ generation' \in 0 .. MaxGen /\ generation' # 0 /\ k \in Keys
      /\ MaxBuffer \in Nat
  BY <1>1 DEF ShapeInv, PageInv, FeedAssumption, Keys
<1>4. HookInv'
  <2>1. <<>> \in Seq(Mine(p)) /\ <<>> \in Seq(Stored) /\ Len(<<>>) = 0
    OBVIOUS
  <2>2. s.processed \in Seq(Stored) /\ Len(s.processed) <= 2 * MaxBuffer
        /\ s.since \in {Blank} \cup 1 .. now
    <3>1. CASE cache[k].at = "loaded"
      <4> DEFINE d == cache[k].data
      <4>1. IsBatch(d, Mine(p)) /\ Len(d) <= InitialLimit /\ s = Seeded(d)
        BY <1>3, <3>1 DEF GoodLoad
      <4> HIDE DEF d, s
      <4> QED
        BY <4>1, SeededIs DEF ShapeInv
    <3>2. CASE cache[k].at # "loaded"
      <4>1. s = [processed |-> <<>>, since |-> t]
        BY <3>2
      <4> HIDE DEF s
      <4> QED
        BY <1>3, <2>1, <4>1
    <3> QED
      BY <3>1, <3>2
  <2> HIDE DEF s
  <2> QED
    BY <1>1, <1>2, <1>3, <2>1, <2>2 DEF HookInv
<1> HIDE DEF s
<1>5. PageInv'
  BY <1>1, <1>3 DEF ShapeInv, PageInv
<1>6. LoadsInv'
  BY <1>1, <1>2 DEF LoadsInv
<1>7. PollsInv'
  <2>1. CASE p = pixel /\ pollQ' = pollQ
    BY <1>1, <1>2, <2>1 DEF ShapeInv, PollsInv
  <2>2. CASE pollQ' = Unpolled
    BY <1>1, <2>2, HomeIsKey, EmptyIsGood DEF Unpolled, PollsInv
  <2> QED
    BY <2>1, <2>2
<1> QED
  BY <1>2, <1>4, <1>5, <1>6, <1>7 DEF ShapeInv

LEMMA RefreshShape ==
  ASSUME FeedAssumption, ShapeInv, Refresh
  PROVE  ShapeInv'
<1>1. /\ mounted /\ Reset(pixel, Blank, initialQ) /\ UNCHANGED <<server, page, pollQ, smooth>>
  BY DEF Refresh
<1>2. /\ pixel \in Filters /\ filter' = pixel /\ paused' = (mode' = "history")
      /\ UNCHANGED <<server, mounted>>
  BY <1>1 DEF ShapeInv, PageInv, page
<1>3. initialQ \in [Keys -> Loads] /\ \A k \in Keys : GoodLoad(initialQ[k], Mine(k[1]))
  BY DEF ShapeInv, LoadsInv
<1> QED
  BY <1>1, <1>2, <1>3, ResetShape

LEMMA ClearShape ==
  ASSUME FeedAssumption, ShapeInv, Clear
  PROVE  ShapeInv'
<1>1. /\ mounted /\ Reset(pixel, now, Emptied) /\ UNCHANGED <<server, page, pollQ, smooth>>
  BY DEF Clear
<1>2. /\ pixel \in Filters /\ filter' = pixel /\ paused' = (mode' = "history")
      /\ UNCHANGED <<server, mounted>> /\ now \in 1 .. now
  BY <1>1 DEF ShapeInv, PageInv, LogInv, page
<1>3. Emptied \in [Keys -> Loads] /\ \A k \in Keys : GoodLoad(Emptied[k], Mine(k[1]))
  BY EmptyIsGood DEF Emptied
<1> QED
  BY <1>1, <1>2, <1>3, ResetShape

LEMMA FilterShape ==
  ASSUME FeedAssumption, ShapeInv, NEW p \in Filters, SetPixelFilter(p)
  PROVE  ShapeInv'
<1>1. /\ mounted /\ filter' = p /\ p # filter /\ FollowFilter(p)
      /\ UNCHANGED <<server, mounted, visits, mode, paused, smooth>>
  BY DEF SetPixelFilter
<1>2. Reset(p, Blank, initialQ) /\ pollQ' = Unpolled
  BY <1>1 DEF FollowFilter, ShapeInv, PageInv
<1>3. paused' = (mode' = "history") /\ UNCHANGED <<server, mounted>>
  BY <1>1 DEF ShapeInv, PageInv
<1>4. initialQ \in [Keys -> Loads] /\ \A k \in Keys : GoodLoad(initialQ[k], Mine(k[1]))
  BY DEF ShapeInv, LoadsInv
<1> QED
  BY <1>1, <1>2, <1>3, <1>4, ResetShape

LEMMA ModeShape ==
  ASSUME FeedAssumption, ShapeInv, (\E m : SetMode(m)) \/ TogglePause
  PROVE  ShapeInv'
<1>1. /\ UNCHANGED <<server, mounted, visits, filter, hook, initialQ, pollQ, smooth, crossed>>
      /\ paused' = (mode' = "history")
  BY DEF SetMode, TogglePause, AutoPause
<1>2. Stored' = Stored /\ (\A p : Mine(p)' = Mine(p)) /\ LogInv' /\ now' = now
  BY <1>1, SameServer DEF ShapeInv
<1>3. PageInv'
  BY <1>1 DEF ShapeInv, PageInv, hook
<1>4. LoadsInv' /\ PollsInv' /\ HookInv'
  BY <1>1, <1>2 DEF ShapeInv, LoadsInv, PollsInv, HookInv, hook
<1> QED
  BY <1>2, <1>3, <1>4 DEF ShapeInv

LEMMA LeaveShape ==
  ASSUME FeedAssumption, ShapeInv, Leave
  PROVE  ShapeInv'
<1>1. /\ mounted' = FALSE /\ pixel' = All /\ generation' = 0 /\ since' = Blank
      /\ processed' = <<>> /\ polled' = <<>> /\ mode' = "live" /\ filter' = All /\ paused' = FALSE
      /\ UNCHANGED <<server, visits, initialQ, pollQ, smooth, crossed>>
  BY DEF Leave
<1>2. Stored' = Stored /\ (\A p : Mine(p)' = Mine(p)) /\ LogInv' /\ now' = now
  BY <1>1, SameServer DEF ShapeInv
<1>3. PageInv'
  <2>1. 0 \in 0 .. MaxGen
    BY DEF FeedAssumption
  <2>2. paused' = (mode' = "history")
    BY <1>1
  <2> QED
    BY <1>1, <2>1, <2>2, HomeIsKey DEF ShapeInv, PageInv
<1>4. LoadsInv' /\ PollsInv'
  BY <1>1, <1>2 DEF ShapeInv, LoadsInv, PollsInv
<1>5. HookInv'
  BY <1>1, <1>2 DEF HookInv, FeedAssumption
<1> QED
  BY <1>2, <1>3, <1>4, <1>5 DEF ShapeInv

(* What an opened page makes of the cache.                                 *)
Opened(a) == processed' = a.processed /\ since' = a.since /\ polled' = a.polled

LEMMA EnterIs ==
  ASSUME FeedAssumption, ShapeInv, Enter
  PROVE  LET l == initialQ[<<All, 0>>]
             d == pollQ[All].data IN
         /\ ~mounted /\ mounted' = TRUE /\ pixel = All /\ generation = 0
         /\ polled = <<>> /\ processed = <<>>
         /\ UNCHANGED <<server, mode, filter, paused, pixel, generation, initialQ, pollQ>>
         /\ smooth' = (smooth /\ l.at = "none")
         /\ crossed' = (crossed \/ (l.at # "loaded" /\ pollQ[All] # NoPoll))
         /\ l.at = "loaded" =>
              Opened(Absorbed(Seeded(l.data).processed, Seeded(l.data).since, <<>>, d))
         /\ l.at # "loaded" => Opened(Absorbed(<<>>, Blank, <<>>, d))
         /\ IsBatch(d, Mine(All)) /\ IsBatch(l.data, Mine(All)) /\ Len(l.data) <= InitialLimit
         /\ LogInv
<1>1. /\ ~mounted /\ mounted' = TRUE /\ pixel = All /\ generation = 0
      /\ polled = <<>> /\ processed = <<>>
  BY DEF Enter, ShapeInv, PageInv
<1>2. <<All, 0>> \in Keys /\ All \in Filters /\ <<All, 0>>[1] = All
  BY HomeIsKey
<1>3. /\ IsBatch(pollQ[All].data, Mine(All)) /\ IsBatch(initialQ[<<All, 0>>].data, Mine(All))
      /\ Len(initialQ[<<All, 0>>].data) <= InitialLimit /\ LogInv
  BY <1>2 DEF ShapeInv, LoadsInv, PollsInv, GoodLoad, GoodPoll
<1> QED
  BY <1>1, <1>3 DEF Enter, Opened

LEMMA EnterShape ==
  ASSUME FeedAssumption, ShapeInv, Enter
  PROVE  ShapeInv'
<1> DEFINE l == initialQ[<<All, 0>>]
           d == pollQ[All].data
<1>1. /\ ~mounted /\ mounted' = TRUE /\ pixel = All
      /\ UNCHANGED <<server, mode, filter, paused, pixel, generation, initialQ, pollQ>>
      /\ smooth' \in BOOLEAN /\ crossed' \in BOOLEAN
      /\ IsBatch(d, Mine(All)) /\ IsBatch(l.data, Mine(All)) /\ Len(l.data) <= InitialLimit
      /\ LogInv
  BY EnterIs
<1>2. \E seen \in Seq(Stored), t \in {Blank} \cup 1 .. now :
         Len(seen) <= 2 * MaxBuffer /\ Opened(Absorbed(seen, t, <<>>, d))
  <2> HIDE DEF d, l
  <2>1. CASE l.at = "loaded"
    <3>1. Opened(Absorbed(Seeded(l.data).processed, Seeded(l.data).since, <<>>, d))
      BY <2>1, EnterIs DEF l, d
    <3>2. /\ Seeded(l.data).processed \in Seq(Stored) /\ Seeded(l.data).since \in 1 .. now
          /\ Len(Seeded(l.data).processed) <= 2 * MaxBuffer
      BY <1>1, SeededIs
    <3> QED
      BY <3>1, <3>2
  <2>2. CASE l.at # "loaded"
    <3>1. Opened(Absorbed(<<>>, Blank, <<>>, d))
      BY <2>2, EnterIs DEF l, d
    <3>2. <<>> \in Seq(Stored) /\ Blank \in {Blank} \cup 1 .. now /\ Len(<<>>) <= 2 * MaxBuffer
      BY DEF FeedAssumption
    <3> QED
      BY <3>1, <3>2
  <2> QED
    BY <2>1, <2>2
<1> HIDE DEF l, d
<1>3. PICK seen \in Seq(Stored), t \in {Blank} \cup 1 .. now :
         Len(seen) <= 2 * MaxBuffer /\ Opened(Absorbed(seen, t, <<>>, d))
  BY <1>2
<1>4. Stored' = Stored /\ (\A p : Mine(p)' = Mine(p)) /\ LogInv' /\ now' = now
  BY <1>1, SameServer
<1>5. HookInv'
  <2> DEFINE shown == <<>>
             a == Absorbed(seen, t, shown, d)
             N == ToSet(d) \ ToSet(seen)
  <2>1. shown \in Seq(Mine(All)) /\ Len(shown) = 0 /\ MaxBuffer \in Nat
    BY DEF FeedAssumption
  <2>2. processed' = a.processed /\ since' = a.since /\ polled' = a.polled
    BY <1>3 DEF Opened
  <2> HIDE DEF shown
  <2>3. Absorbs(a, All, seen, t, shown, d)
    BY <1>1, <2>1, AbsorbedIs
  <2> HIDE DEF a
  <2>4. /\ N = {} => a.processed = seen /\ a.since = t /\ a.polled = shown
        /\ N # {} =>
             /\ d # <<>> /\ a.since = LastAt(d)
             /\ a.processed \in Seq(Stored) /\ Len(a.processed) <= 2 * MaxBuffer
             /\ \E new \in Seq(Mine(All)) : a.polled = Capped(new \o shown)
    BY <2>3 DEF Absorbs
  <2> HIDE DEF N
  <2>5. CASE N = {}
    <3>1. polled' = shown /\ processed' = seen /\ since' = t
      BY <2>4, <2>2, <2>5
    <3>2. polled' \in Seq(Mine(All)) /\ Len(polled') <= MaxBuffer
      BY <2>1, <3>1
    <3> QED
      BY <1>1, <1>3, <1>4, <3>1, <3>2 DEF HookInv
  <2>6. CASE N # {}
    <3>1. since' \in 1 .. now
      BY <1>1, <2>4, <2>2, <2>6, LastAtIs
    <3>2. PICK new \in Seq(Mine(All)) : a.polled = Capped(new \o shown)
      BY <2>4, <2>6
    <3> DEFINE u == new \o shown
    <3>3. u \in Seq(Mine(All)) /\ Mine(All) \in SUBSET Nat /\ polled' = Capped(u)
      BY <1>1, <2>1, <2>2, <3>2, Joining, LogFacts
    <3> HIDE DEF u
    <3>4. polled' \in Seq(Mine(All)) /\ Len(polled') <= MaxBuffer
      BY <3>3, CappedIs
    <3> QED
      BY <1>1, <1>4, <2>4, <2>2, <2>6, <3>1, <3>4 DEF HookInv
  <2> QED
    BY <2>5, <2>6
<1>6. PageInv'
  BY <1>1 DEF ShapeInv, PageInv
<1>7. LoadsInv' /\ PollsInv'
  BY <1>1, <1>4 DEF ShapeInv, LoadsInv, PollsInv
<1> QED
  BY <1>4, <1>5, <1>6, <1>7 DEF ShapeInv

LEMMA CollectShape ==
  ASSUME FeedAssumption, ShapeInv, Collect
  PROVE  ShapeInv'
<1>1. initialQ' = Emptied /\ pollQ' = Unpolled /\ UNCHANGED <<server, page, hook, ghosts>>
  BY DEF Collect
<1>2. Stored' = Stored /\ (\A p : Mine(p)' = Mine(p)) /\ LogInv' /\ now' = now
  BY <1>1, SameServer DEF ShapeInv
<1>3. PageInv' /\ HookInv'
  BY <1>1, <1>2 DEF ShapeInv, PageInv, HookInv, page, hook, ghosts
<1>4. LoadsInv'
  BY <1>1, EmptyIsGood DEF LoadsInv, Emptied
<1>5. PollsInv'
  BY <1>1, EmptyIsGood, HomeIsKey DEF PollsInv, Unpolled
<1> QED
  BY <1>2, <1>3, <1>4, <1>5 DEF ShapeInv

LEMMA ShapeNext == FeedAssumption /\ ShapeInv /\ [FeedNext]_feedVars => ShapeInv'
<1> SUFFICES ASSUME FeedAssumption, ShapeInv, [FeedNext]_feedVars PROVE ShapeInv'
  OBVIOUS
<1>1. CASE FeedNext
  BY <1>1, StoreShape, TickShape, AskInitialShape, LandInitialShape, AskPollShape, LandPollShape,
     PollFailsShape, RefreshShape, ClearShape, FilterShape, ModeShape, LeaveShape, EnterShape,
     CollectShape DEF FeedNext
<1>2. CASE UNCHANGED feedVars
  <2>1. UNCHANGED <<server, page, hook, initialQ, pollQ, ghosts>>
    BY <1>2 DEF feedVars
  <2>2. Stored' = Stored /\ (\A p : Mine(p)' = Mine(p)) /\ LogInv' /\ now' = now
    BY <2>1, SameServer DEF ShapeInv
  <2>3. PageInv' /\ HookInv'
    BY <2>1, <2>2 DEF ShapeInv, PageInv, HookInv, page, hook, ghosts
  <2>4. LoadsInv' /\ PollsInv'
    BY <2>1, <2>2 DEF ShapeInv, LoadsInv, PollsInv, hook
  <2> QED
    BY <2>2, <2>3, <2>4 DEF ShapeInv
<1> QED
  BY <1>1, <1>2

(* What the page shows is of its filter.                                   *)
LEMMA InitialIs ==
  ASSUME FeedAssumption, ShapeInv
  PROVE  /\ IsBatch(Initial, Mine(pixel)) /\ ToSet(Initial) \subseteq ToSet(initialQ[Key].data)
         /\ IsBatch(initialQ[Key].data, Mine(pixel)) /\ GoodLoad(initialQ[Key], Mine(pixel))
<1>1. GoodLoad(initialQ[Key], Mine(pixel))
  BY KeyIs DEF ShapeInv, LoadsInv
<1>2. IsBatch(<<>>, Mine(pixel)) /\ ToSet(<<>>) = {}
  BY EmptyIsGood
<1> QED
  BY <1>1, <1>2 DEF Initial, GoodLoad

LEMMA ShownAre ==
  ASSUME FeedAssumption, ShapeInv
  PROVE  FeedEvents \in Seq(Mine(pixel))
<1> DEFINE init == Initial
           E == Capped(polled \o Reverse(init))
<1>1. IsBatch(init, Mine(pixel)) /\ polled \in Seq(Mine(pixel)) /\ LogInv
  BY InitialIs DEF ShapeInv, HookInv
<1>2. FeedEvents = E
  BY DEF FeedEvents
<1> HIDE DEF init
<1>3. E \in Seq(Mine(pixel))
  BY <1>1, EventsAre
<1> QED
  BY <1>2, <1>3

THEOREM ShapeHolds == FeedSpec => []ShapeInv
<1> USE FeedAssumption
<1>1. FeedInit => ShapeInv
  BY ShapeInitially
<1>2. ShapeInv /\ [FeedNext]_feedVars => ShapeInv'
  BY ShapeNext
<1> QED
  BY <1>1, <1>2, PTL DEF FeedSpec

(* The hook's state has its types, its buffer and dedup set keep their     *)
(* sizes, and the feed is paused in history mode only.                     *)
THEOREM FeedTypeCorrect == FeedSpec => []FeedTypeOK
<1> USE FeedAssumption
<1>1. ASSUME ShapeInv PROVE FeedTypeOK
  <2>1. ToSet(polled) \cup ToSet(processed) \subseteq Stored
    <3>1. ToSet(polled) \subseteq Mine(pixel) /\ ToSet(processed) \subseteq Stored
      BY <1>1, ElementsOf DEF ShapeInv, HookInv
    <3> QED
      BY <3>1 DEF Mine
  <2> QED
    BY <1>1, <2>1 DEF ShapeInv, LogInv, PageInv, HookInv, FeedTypeOK
<1> QED
  BY <1>1, ShapeHolds, PTL

(* However loads, polls and changes of the filter overlap, the feed shows  *)
(* events of the pixel the page filters by and no others: an answer is     *)
(* kept under the pixel it was asked for, and polledEvents is emptied      *)
(* whenever the pixel changes.                                             *)
THEOREM TheFilterIsRespected == FeedSpec => []FilterRespected
<1> USE FeedAssumption
<1>1. ASSUME ShapeInv PROVE FilterRespected
  <2>1. pixel = filter /\ FeedEvents \in Seq(Mine(pixel))
    BY <1>1, ShownAre DEF ShapeInv, PageInv
  <2>2. \A n \in 1 .. Len(FeedEvents) : FeedEvents[n] \in Mine(pixel)
    BY <2>1, ElementOfSeq
  <2> QED
    BY <2>1, <2>2 DEF FilterRespected, Mine
<1> QED
  BY <1>1, ShapeHolds, PTL

-----------------------------------------------------------------------------
(* The order.  Polled data is later than the load it was polled beside,    *)
(* what a running poll will bring is later than all the hook knows, and    *)
(* the cursor is behind none of it.                                        *)
Later(S, T) == \A i \in S, j \in T : log[i].at > log[j].at

Home      == <<All, 0>>
Polled(p) == ToSet(pollQ[p].data)
Answer(p) == ToSet(pollQ[p].answer)
Loaded    == ToSet(initialQ[Key].data)
AtHome    == ToSet(initialQ[Home].data)
Known ==
  ToSet(polled) \cup ToSet(processed) \cup Loaded \cup Polled(pixel)
    \cup (IF pixel = All THEN AtHome ELSE {})

CacheOrder == Later(Polled(All), AtHome) /\ Later(Answer(All), AtHome \cup Polled(All))
LoadedOrder ==
  mounted /\ IsLoaded =>
    /\ \A i \in Known : log[i].at <= since
    /\ Later(Answer(pixel), Known)
    /\ Desc(polled) /\ Later(ToSet(polled), Loaded)
LoadingOrder ==
  mounted /\ ~IsLoaded =>
    /\ polled = <<>> /\ processed = <<>> /\ pollQ[pixel].at = "idle"
    /\ generation = 0 => pollQ[All] = NoPoll
    /\ initialQ[Key].data # <<>> => \A i \in Known : i <= Last(initialQ[Key].data)

OrderInv == CacheOrder /\ LoadedOrder /\ LoadingOrder

(* All of it is stored.                                                    *)
LEMMA AllStored ==
  ASSUME FeedAssumption, ShapeInv
  PROVE  /\ \A p \in Filters : Polled(p) \subseteq Mine(p) /\ Answer(p) \subseteq Mine(p)
         /\ AtHome \subseteq Mine(All) /\ Loaded \subseteq Mine(pixel)
         /\ ToSet(polled) \subseteq Mine(pixel) /\ ToSet(processed) \subseteq Stored
         /\ Known \subseteq Stored
<1>1. \A p \in Filters : Polled(p) \subseteq Mine(p) /\ Answer(p) \subseteq Mine(p)
  BY ElementsOf DEF ShapeInv, PollsInv, GoodPoll, IsBatch, Polled, Answer
<1>2. AtHome \subseteq Mine(All)
  BY HomeIsKey, ElementsOf DEF ShapeInv, LoadsInv, GoodLoad, IsBatch, AtHome, Home
<1>3. Loaded \subseteq Mine(pixel)
  BY InitialIs, ElementsOf DEF IsBatch, Loaded
<1>4. ToSet(polled) \subseteq Mine(pixel) /\ ToSet(processed) \subseteq Stored
  BY ElementsOf DEF ShapeInv, HookInv
<1>5. Known \subseteq Stored
  BY <1>1, <1>2, <1>3, <1>4, KeyIs DEF Known, Mine, ShapeInv
<1> QED
  BY <1>1, <1>2, <1>3, <1>4, <1>5

(* Later in time is later in the log, and no event is later than itself.   *)
LEMMA LaterIsLater ==
  ASSUME LogInv, NEW S \in SUBSET Stored, NEW T \in SUBSET Stored, Later(S, T)
  PROVE  S \cap T = {} /\ \A i \in S, j \in T : i > j
<1>1. ASSUME NEW i \in S, NEW j \in T PROVE i \in Nat /\ i > j
  <2>1. /\ i \in Nat /\ j \in Nat /\ i \in Stored /\ j \in Stored /\ log[i].at > log[j].at
        /\ log[i].at \in Int /\ log[j].at \in Int
    BY LogFacts DEF Later
  <2>2. i # j
    BY <2>1
  <2>3. ~(i < j)
    BY <2>1, LogFacts
  <2> QED
    BY <2>1, <2>2, <2>3
<1>2. ASSUME NEW i \in S, i \in T PROVE FALSE
  <2>1. i \in Nat /\ i > i
    BY <1>1, <1>2
  <2> QED
    BY <2>1
<1> QED
  BY <1>1, <1>2

(* An answer later than all that is known keeps the order when it is       *)
(* absorbed, and all of it is new.                                         *)
InOrder(a, p, seen, t, shown, data, K) ==
  /\ \A i \in K \cup ToSet(data) : log[i].at <= a.since
  /\ Desc(a.polled) /\ ToSet(a.polled) \subseteq ToSet(data) \cup ToSet(shown)
  /\ ToSet(a.processed) \subseteq ToSet(data) \cup ToSet(seen)
  /\ data = <<>> => a.processed = seen /\ a.since = t /\ a.polled = shown
  /\ data # <<>> =>
       /\ a.since = log[Last(data)].at
       /\ \E new \in Seq(Mine(p)) :
            Desc(new) /\ ToSet(new) = ToSet(data) /\ a.polled = Capped(new \o shown)

LEMMA AbsorbedLater ==
  ASSUME FeedAssumption, LogInv, NEW p, NEW seen \in Seq(Stored), NEW t \in Int,
         NEW shown \in Seq(Mine(p)), NEW data, IsBatch(data, Mine(p)), NEW K \in SUBSET Stored,
         ToSet(seen) \subseteq K, ToSet(shown) \subseteq K
  PROVE  LET a == Absorbed(seen, t, shown, data) IN
         Desc(shown) /\ Later(ToSet(data), K) /\ (\A i \in K : log[i].at <= t) =>
           InOrder(a, p, seen, t, shown, data, K)
<1> DEFINE a == Absorbed(seen, t, shown, data)
           N == ToSet(data) \ ToSet(seen)
<1>1. Absorbs(a, p, seen, t, shown, data)
  BY AbsorbedIs
<1> HIDE DEF a
<1>2. /\ N = {} => a.processed = seen /\ a.since = t /\ a.polled = shown
      /\ N # {} =>
           /\ data # <<>> /\ a.since = LastAt(data)
           /\ a.processed \in Seq(Stored) /\ Len(a.processed) <= 2 * MaxBuffer
           /\ ToSet(a.processed) \subseteq ToSet(seen) \cup ToSet(data)
           /\ \E new \in Seq(Mine(p)) :
                Desc(new) /\ ToSet(new) = N /\ a.polled = Capped(new \o shown)
  BY <1>1, Zenon DEF Absorbs
<1> SUFFICES ASSUME Desc(shown), Later(ToSet(data), K), \A i \in K : log[i].at <= t
    PROVE  /\ \A i \in K \cup ToSet(data) : log[i].at <= a.since
           /\ Desc(a.polled) /\ ToSet(a.polled) \subseteq ToSet(data) \cup ToSet(shown)
           /\ ToSet(a.processed) \subseteq ToSet(data) \cup ToSet(seen)
           /\ data = <<>> => a.processed = seen /\ a.since = t /\ a.polled = shown
           /\ data # <<>> =>
                /\ a.since = log[Last(data)].at
                /\ \E new \in Seq(Mine(p)) :
                     Desc(new) /\ ToSet(new) = ToSet(data) /\ a.polled = Capped(new \o shown)
  BY Zenon DEF a, InOrder
<1>3. /\ Mine(p) \in SUBSET Nat /\ Mine(p) \subseteq Stored /\ data \in Seq(Mine(p))
      /\ ToSet(data) \subseteq Mine(p) /\ (data = <<>> <=> ToSet(data) = {})
      /\ \A i \in Stored : log[i].at \in Int
  <2>1. /\ Mine(p) \in SUBSET Nat /\ Mine(p) \subseteq Stored
        /\ \A i \in Stored : log[i].at \in Int
    BY LogFacts
  <2>2. data \in Seq(Mine(p))
    BY DEF IsBatch
  <2> QED
    BY <2>1, <2>2, ElementsOf
<1>4. ToSet(data) \cap K = {} /\ \A i \in ToSet(data), j \in K : i > j
  BY <1>3, LaterIsLater
<1>5. N = ToSet(data)
  BY <1>4
<1> HIDE DEF N
<1>6. CASE data = <<>>
  BY <1>3, <1>5, <1>2, <1>6 
<1>7. CASE data # <<>>
  <2>1. /\ N # {} /\ a.since = LastAt(data)
        /\ ToSet(a.processed) \subseteq ToSet(data) \cup ToSet(seen)
    BY <1>3, <1>5, <1>2, <1>7
  <2>2. PICK new \in Seq(Mine(p)) :
          Desc(new) /\ ToSet(new) = ToSet(data) /\ a.polled = Capped(new \o shown)
    BY <1>5, <1>2, <2>1
  <2>3. /\ Last(data) \in ToSet(data) /\ LastAt(data) = log[Last(data)].at
        /\ \A i \in ToSet(data) : log[i].at <= LastAt(data)
    BY <1>7, LastAtIs
  <2>4. \A i \in K : log[i].at <= LastAt(data)
    <3> TAKE i \in K
    <3>1. log[Last(data)].at > log[i].at /\ log[i].at \in Int /\ log[Last(data)].at \in Int
      BY <1>3, <2>3 DEF Later
    <3> QED
      BY <2>3, <3>1
  <2>5. Desc(a.polled) /\ ToSet(a.polled) \subseteq ToSet(data) \cup ToSet(shown)
    <3> DEFINE u == new \o shown
    <3>1. u \in Seq(Mine(p)) /\ ToSet(u) = ToSet(new) \cup ToSet(shown)
      BY Joining
    <3>2. Desc(u)
      BY <1>3, <1>4, <2>2, JoiningDesc
    <3> HIDE DEF u
    <3>3. ToSet(Capped(u)) \subseteq ToSet(u) /\ Desc(Capped(u))
      BY <1>3, <3>1, <3>2, CappedIs
    <3> QED
      BY <2>2, <3>1, <3>3 DEF u
  <2>6. \E w \in Seq(Mine(p)) :
          Desc(w) /\ ToSet(w) = ToSet(data) /\ a.polled = Capped(w \o shown)
    BY <2>2
  <2>7. \A i \in K \cup ToSet(data) : log[i].at <= a.since
    BY <2>1, <2>3, <2>4
  <2> QED
    BY <1>7, <2>1, <2>3, <2>5, <2>6, <2>7
<1> QED
  BY <1>6, <1>7

LEMMA LaterStays ==
  ASSUME \A i \in Stored : log'[i] = log[i], NEW S \in SUBSET Stored, NEW T \in SUBSET Stored
  PROVE  \A A \in SUBSET S, B \in SUBSET T :
           Later(S, T) => \A i \in A, j \in B : log'[i].at > log'[j].at
BY DEF Later

(* A step that leaves the hook and the caches alone.                       *)
LEMMA SameFeedOrder ==
  ASSUME FeedAssumption, ShapeInv, OrderInv, \A i \in Stored : log'[i] = log[i],
         UNCHANGED <<mounted, hook, initialQ, pollQ>>
  PROVE  OrderInv'
<1>1. /\ UNCHANGED <<mounted, pixel, generation, since, processed, polled, initialQ, pollQ>>
      /\ Known' = Known /\ Loaded' = Loaded /\ AtHome' = AtHome /\ Key' = Key
      /\ IsLoaded' = IsLoaded
      /\ \A p \in Filters : Polled(p)' = Polled(p) /\ Answer(p)' = Answer(p)
  BY DEF hook, Known, Loaded, AtHome, Polled, Answer, Key, IsLoaded, Home
<1>2. /\ Known \subseteq Stored /\ Loaded \subseteq Stored /\ AtHome \subseteq Stored
      /\ ToSet(polled) \subseteq Stored /\ All \in Filters /\ pixel \in Filters
      /\ \A p \in Filters : Polled(p) \subseteq Stored /\ Answer(p) \subseteq Stored
  BY AllStored, KeyIs DEF Mine, ShapeInv
<1>3. CacheOrder'
  BY <1>1, <1>2 DEF OrderInv, CacheOrder, Later
<1>4. LoadedOrder'
  BY <1>1, <1>2 DEF OrderInv, LoadedOrder, Later
<1>5. LoadingOrder'
  BY <1>1, <1>2 DEF OrderInv, LoadingOrder
<1> QED
  BY <1>3, <1>4, <1>5 DEF OrderInv

LEMMA OrderInitially == FeedAssumption /\ FeedInit => OrderInv
<1> SUFFICES ASSUME FeedAssumption, FeedInit PROVE OrderInv
  OBVIOUS
<1>1. AtHome = {} /\ Polled(All) = {} /\ Answer(All) = {}
  BY EmptyIsGood, HomeIsKey
     DEF FeedInit, AtHome, Polled, Answer, Home, Emptied, Unpolled, NoLoad, NoPoll
<1>2. CacheOrder
  BY <1>1 DEF CacheOrder, Later
<1>3. ~mounted
  BY DEF FeedInit
<1> QED
  BY <1>2, <1>3 DEF OrderInv, LoadedOrder, LoadingOrder

LEMMA AskInitialOrder ==
  ASSUME FeedAssumption, ShapeInv, OrderInv, AskInitial
  PROVE  OrderInv'
<1>1. /\ UNCHANGED <<server, page, hook, pollQ, ghosts>> /\ mounted /\ initialQ[Key].at = "none"
      /\ initialQ' = [initialQ EXCEPT ![Key] = [at |-> "answered", data |-> ListLatest(pixel)]]
  BY DEF AskInitial
<1>2. /\ Key \in Keys /\ Home \in Keys /\ initialQ \in [Keys -> Loads] /\ All \in Filters
      /\ Key' = Key /\ log' = log /\ mounted' /\ LogInv
  BY <1>1, KeyIs, SameServer DEF ShapeInv, LoadsInv, Key, Home, page, hook
<1>3. /\ initialQ'[Key].at = "answered" /\ initialQ'[Key].data = ListLatest(pixel)
      /\ Key # Home => initialQ'[Home] = initialQ[Home]
  BY <1>1, <1>2
<1>4. ~IsLoaded /\ ~IsLoaded'
  BY <1>1, <1>2, <1>3 DEF IsLoaded
<1>5. /\ polled = <<>> /\ processed = <<>> /\ pollQ[pixel].at = "idle"
      /\ generation = 0 => pollQ[All] = NoPoll
  BY <1>1, <1>4 DEF OrderInv, LoadingOrder
<1>6. CacheOrder'
  <2>1. Polled(All)' = Polled(All) /\ Answer(All)' = Answer(All)
    BY <1>1 DEF Polled, Answer
  <2>2. CASE Key = Home
    <3>1. pollQ[All] = NoPoll
      BY <1>5, <2>2 DEF Key, Home
    <3>2. Polled(All) = {} /\ Answer(All) = {}
      BY <3>1, EmptyIsGood DEF Polled, Answer, NoPoll
    <3> QED
      BY <2>1, <3>2 DEF CacheOrder, Later
  <2>3. CASE Key # Home
    <3>1. AtHome' = AtHome
      BY <1>3, <2>3 DEF AtHome, Home
    <3> QED
      BY <1>2, <2>1, <3>1 DEF OrderInv, CacheOrder, Later
  <2> QED
    BY <2>2, <2>3
<1>7. LoadedOrder'
  BY <1>4 DEF LoadedOrder
<1>8. LoadingOrder'
  <2>1. Known' \subseteq Mine(pixel)
    <3>1. polled' = <<>> /\ processed' = <<>> /\ pixel' = pixel /\ pixel \in Filters
      BY <1>1, <1>5, KeyIs DEF hook, ShapeInv
    <3>2. ToSet(polled') = {} /\ ToSet(processed') = {}
      BY <3>1, EmptyIsGood
    <3>3. ToSet(ListLatest(pixel)) \subseteq Mine(pixel)
      BY <1>2, LatestIs, ElementsOf DEF IsBatch
    <3>4. Loaded' \subseteq Mine(pixel)
      BY <1>2, <1>3, <3>3 DEF Loaded
    <3>5. pixel = All => AtHome' \subseteq Mine(pixel)
      BY <1>2, <1>3, <3>3, AllStored DEF AtHome, Home
    <3>6. Polled(pixel)' \subseteq Mine(pixel)
      BY <1>1, <3>1, AllStored DEF Polled
    <3> QED
      BY <3>1, <3>2, <3>4, <3>5, <3>6 DEF Known
  <2>2. \A i \in Mine(pixel) : i <= Last(ListLatest(pixel))
    BY <1>2, LatestIs
  <2>3. \A i \in Known' : i <= Last(initialQ'[Key'].data)
    BY <1>2, <1>3, <2>1, <2>2
  <2>4. UNCHANGED <<polled, processed, pollQ, generation, pixel>>
    BY <1>1 DEF hook
  <2> QED
    BY <1>5, <2>3, <2>4 DEF LoadingOrder
<1> QED
  BY <1>6, <1>7, <1>8 DEF OrderInv

LEMMA LandInitialOrder ==
  ASSUME FeedAssumption, ShapeInv, OrderInv, NEW k \in Keys, LandInitial(k)
  PROVE  OrderInv'
<1>1. /\ UNCHANGED <<server, page, pixel, generation, polled, pollQ, ghosts>>
      /\ initialQ[k].at = "answered" /\ initialQ' = [initialQ EXCEPT ![k].at = "loaded"]
  BY DEF LandInitial
<1>2. /\ Key \in Keys /\ Home \in Keys /\ initialQ \in [Keys -> Loads] /\ All \in Filters
      /\ Key' = Key /\ log' = log /\ mounted' = mounted /\ LogInv /\ Home' = Home
      /\ pixel \in Filters
  BY <1>1, KeyIs, SameServer DEF ShapeInv, LoadsInv, Key, Home, page
<1>3. /\ initialQ'[k].at = "loaded" /\ initialQ'[k].data = initialQ[k].data
      /\ \A h \in Keys :
           initialQ'[h].data = initialQ[h].data /\ (h # k => initialQ'[h] = initialQ[h])
  <2>1. initialQ[k] \in Loads
    BY <1>2
  <2> QED
    BY <1>1, <1>2, <2>1 DEF Loads
<1>4. /\ AtHome' = AtHome /\ Loaded' = Loaded
      /\ \A p \in Filters : Polled(p)' = Polled(p) /\ Answer(p)' = Answer(p)
  BY <1>1, <1>2, <1>3 DEF AtHome, Loaded, Polled, Answer
<1>5. CacheOrder'
  BY <1>2, <1>4 DEF OrderInv, CacheOrder, Later
<1>6. CASE ~(mounted /\ k = Key)
  <2>1. UNCHANGED <<processed, since>>
    BY <1>6 DEF LandInitial
  <2>2. /\ UNCHANGED <<mounted, pixel, generation, since, processed, polled, pollQ>>
        /\ Known' = Known
    BY <1>1, <1>2, <1>4, <2>1 DEF Known
  <2>3. mounted' => initialQ'[Key'] = initialQ[Key]
    BY <1>2, <1>3, <1>6
  <2>4. mounted' => (IsLoaded' <=> IsLoaded)
    BY <2>3 DEF IsLoaded
  <2>5. LoadedOrder' /\ LoadingOrder'
    BY <1>2, <1>4, <2>2, <2>3, <2>4 DEF OrderInv, LoadedOrder, LoadingOrder, Later
  <2> QED
    BY <1>5, <2>5 DEF OrderInv
<1>7. CASE mounted /\ k = Key
  <2> DEFINE d == initialQ[Key].data
  <2>1. ~IsLoaded /\ IsLoaded'
    BY <1>1, <1>2, <1>3, <1>7 DEF IsLoaded
  <2>2. /\ polled = <<>> /\ pollQ[pixel].at = "idle" /\ polled' = <<>>
        /\ d # <<>> => \A i \in Known : i <= Last(d)
    BY <1>1, <1>7, <2>1 DEF OrderInv, LoadingOrder
  <2>3. IsBatch(d, Mine(pixel)) /\ Len(d) <= InitialLimit /\ ToSet(d) = Loaded
    BY InitialIs DEF GoodLoad, Loaded
  <2>4. processed' = Seeded(d).processed /\ since' = Seeded(d).since
    BY <1>3, <1>7 DEF LandInitial, Seed
  <2> HIDE DEF d
  <2>5. /\ processed' = d /\ since' \in 1 .. now
        /\ \A i \in ToSet(d) : log[i].at <= since'
        /\ d = <<>> => since' = now
        /\ d # <<>> => since' = log[Last(d)].at
    BY <1>2, <2>3, <2>4, SeededIs
  <2>6. Known' \subseteq Known
    <3>1. pixel' = pixel /\ polled' = polled /\ ToSet(processed') = Loaded
      BY <1>1, <2>3, <2>5
    <3> QED
      BY <1>2, <1>4, <3>1 DEF Known
  <2>7. /\ Known \subseteq Stored /\ now \in Nat
        /\ \A i \in Stored : log[i].at \in 1 .. now /\ i \in Nat
    BY <1>2, AllStored, LogFacts DEF LogInv
  <2>8. \A i \in Known : log[i].at <= since'
    <3>1. CASE d = <<>>
      BY <2>5, <2>7, <3>1
    <3>2. CASE d # <<>>
      <4> TAKE i \in Known
      <4>1. Last(d) \in Stored /\ i \in Stored /\ i <= Last(d)
        <5>1. Last(d) \in Mine(pixel)
          BY <1>2, <2>3, <3>2, LastAtIs
        <5> QED
          BY <2>2, <2>7, <3>2, <5>1 DEF Mine
      <4>2. log[i].at <= log[Last(d)].at
        <5>1. CASE i = Last(d)
          BY <2>7, <4>1, <5>1
        <5>2. CASE i # Last(d)
          <6>1. i < Last(d)
            BY <2>7, <4>1, <5>2
          <6> QED
            BY <1>2, <4>1, <6>1, LogFacts
        <5> QED
          BY <5>1, <5>2
      <4> QED
        BY <2>5, <3>2, <4>2
    <3> QED
      BY <3>1, <3>2
  <2>9. Answer(pixel) = {}
    <3>1. pollQ[pixel].answer = <<>>
      BY <1>2, <2>2 DEF ShapeInv, PollsInv, GoodPoll
    <3> QED
      BY <3>1, EmptyIsGood DEF Answer
  <2>10. LoadedOrder'
    <3>1. ToSet(polled') = {} /\ Desc(polled')
      BY <2>2, EmptyIsGood
    <3>2. pixel' = pixel /\ Answer(pixel)' = {}
      BY <1>1, <2>9 DEF Answer
    <3> QED
      BY <1>2, <2>6, <2>8, <3>1, <3>2 DEF LoadedOrder, Later
  <2>11. LoadingOrder'
    BY <2>1 DEF LoadingOrder
  <2> QED
    BY <1>5, <2>10, <2>11 DEF OrderInv
<1> QED
  BY <1>6, <1>7

LEMMA AskPollOrder ==
  ASSUME FeedAssumption, ShapeInv, OrderInv, AskPoll
  PROVE  OrderInv'
<1> DEFINE s == ListRecent(pixel, since)
<1>1. /\ UNCHANGED <<server, page, hook, initialQ, crossed>> /\ mounted /\ IsLoaded
      /\ pollQ' = [pollQ EXCEPT ![pixel].at = "answered", ![pixel].answer = s]
  BY DEF AskPoll, CanPoll
<1>2. /\ log' = log /\ mounted' = mounted /\ LogInv /\ pixel \in Filters /\ All \in Filters
      /\ UNCHANGED <<pixel, generation, since, processed, polled, initialQ>>
      /\ pollQ \in [Filters -> Polls] /\ pollQ[pixel] \in Polls /\ since \in Int
  BY <1>1, KeyIs, SameServer DEF ShapeInv, PollsInv, HookInv, page, hook, LogInv, Blank
<1>3. \A i \in ToSet(s) : log[i].at > since
  BY <1>2, RecentIs
<1> HIDE DEF s
<1>4. /\ \A p \in Filters : pollQ'[p].data = pollQ[p].data
      /\ \A p \in Filters : p # pixel => pollQ'[p] = pollQ[p]
      /\ pollQ'[pixel].answer = s
  BY <1>1, <1>2 DEF Polls
<1>5. /\ Key' = Key /\ IsLoaded' /\ Loaded' = Loaded /\ AtHome' = AtHome
      /\ \A p \in Filters : Polled(p)' = Polled(p) /\ (p # pixel => Answer(p)' = Answer(p))
      /\ Answer(pixel)' = ToSet(s)
  BY <1>1, <1>2, <1>4 DEF Key, IsLoaded, Loaded, AtHome, Polled, Answer
<1>6. Known' = Known
  BY <1>2, <1>5 DEF Known
<1>7. /\ Known \subseteq Stored /\ ToSet(s) \subseteq Stored
      /\ \A i \in Stored : log[i].at \in Int
  BY <1>2, RecentIs, ElementsOf, AllStored, LogFacts DEF IsBatch, s
<1>8. /\ \A i \in Known : log[i].at <= since
      /\ Desc(polled) /\ Later(ToSet(polled), Loaded)
  BY <1>1 DEF OrderInv, LoadedOrder
<1>9. \A i \in ToSet(s), j \in Known : log[i].at > log[j].at
  BY <1>2, <1>3, <1>7, <1>8
<1>10. CacheOrder'
  <2>1. CASE pixel = All
    BY <1>2, <1>5, <1>9, <2>1 DEF OrderInv, CacheOrder, Later, Known
  <2>2. CASE pixel # All
    BY <1>2, <1>5, <2>2 DEF OrderInv, CacheOrder, Later
  <2> QED
    BY <2>1, <2>2
<1>11. LoadedOrder'
  BY <1>2, <1>5, <1>6, <1>8, <1>9 DEF LoadedOrder, Later
<1>12. LoadingOrder'
  BY <1>5 DEF LoadingOrder
<1> QED
  BY <1>10, <1>11, <1>12 DEF OrderInv

LEMMA PollFailsOrder ==
  ASSUME FeedAssumption, ShapeInv, OrderInv, NEW p \in Filters, PollFails(p)
  PROVE  OrderInv'
<1>1. /\ UNCHANGED <<server, page, hook, initialQ, ghosts>> /\ pollQ[p].at = "answered"
      /\ pollQ' = [pollQ EXCEPT ![p] = [NoPoll EXCEPT !.data = pollQ[p].data]]
  BY DEF PollFails
<1>2. /\ log' = log /\ mounted' = mounted /\ pixel \in Filters /\ All \in Filters
      /\ UNCHANGED <<pixel, generation, since, processed, polled, initialQ>>
      /\ pollQ \in [Filters -> Polls]
  BY <1>1, KeyIs, SameServer DEF ShapeInv, PollsInv, page, hook
<1>3. /\ \A r \in Filters : pollQ'[r].data = pollQ[r].data /\ (r # p => pollQ'[r] = pollQ[r])
      /\ pollQ'[p].answer = <<>>
  BY <1>1, <1>2 DEF NoPoll
<1>4. /\ Key' = Key /\ IsLoaded' = IsLoaded /\ Loaded' = Loaded /\ AtHome' = AtHome
      /\ \A r \in Filters : Polled(r)' = Polled(r) /\ Answer(r)' \subseteq Answer(r)
  BY <1>2, <1>3, EmptyIsGood DEF Key, IsLoaded, Loaded, AtHome, Polled, Answer, Home
<1>5. Known' = Known
  BY <1>2, <1>4 DEF Known
<1>6. CacheOrder'
  BY <1>2, <1>4 DEF OrderInv, CacheOrder, Later
<1>7. LoadedOrder'
  BY <1>2, <1>4, <1>5 DEF OrderInv, LoadedOrder, Later
<1>8. LoadingOrder'
  <2> SUFFICES ASSUME mounted', ~IsLoaded'
      PROVE  /\ polled' = <<>> /\ processed' = <<>> /\ pollQ'[pixel'].at = "idle"
             /\ generation' = 0 => pollQ'[All] = NoPoll
             /\ initialQ'[Key'].data # <<>> => \A i \in Known' : i <= Last(initialQ'[Key'].data)
    BY DEF LoadingOrder
  <2>1. /\ polled = <<>> /\ processed = <<>> /\ pollQ[pixel].at = "idle"
        /\ generation = 0 => pollQ[All] = NoPoll
        /\ initialQ[Key].data # <<>> => \A i \in Known : i <= Last(initialQ[Key].data)
    BY <1>2, <1>4 DEF OrderInv, LoadingOrder
  <2>2. p # pixel /\ (generation = 0 => p # All)
    BY <1>1, <2>1 DEF NoPoll
  <2> QED
    BY <1>2, <1>3, <1>4, <1>5, <2>1, <2>2
<1> QED
  BY <1>6, <1>7, <1>8 DEF OrderInv

(* What an answer that the hook takes up does to it.                       *)
LEMMA LandingIs ==
  ASSUME FeedAssumption, ShapeInv, OrderInv, mounted, NEW a,
         a = Absorbed(processed, since, polled, pollQ[pixel].answer), pollQ[pixel].at = "answered"
  PROVE  LET d == pollQ[pixel].answer IN
         /\ \A i \in Known \cup ToSet(d) : log[i].at <= a.since
         /\ Desc(a.polled) /\ ToSet(a.polled) \subseteq ToSet(d) \cup ToSet(polled)
         /\ ToSet(a.processed) \subseteq ToSet(d) \cup ToSet(processed)
         /\ d # <<>> =>
              /\ a.since = log[Last(d)].at
              /\ \E new \in Seq(Mine(pixel)) :
                   Desc(new) /\ ToSet(new) = ToSet(d) /\ a.polled = Capped(new \o polled)
<1> DEFINE d == pollQ[pixel].answer
<1>1. IsLoaded
  BY DEF OrderInv, LoadingOrder
<1>2. /\ \A i \in Known : log[i].at <= since
      /\ Later(Answer(pixel), Known) /\ Desc(polled)
  BY <1>1 DEF OrderInv, LoadedOrder
<1>3. /\ LogInv /\ processed \in Seq(Stored) /\ since \in Int /\ polled \in Seq(Mine(pixel))
      /\ IsBatch(d, Mine(pixel)) /\ Known \in SUBSET Stored
      /\ ToSet(processed) \subseteq Known /\ ToSet(polled) \subseteq Known
  <2>1. now \in Nat /\ since \in {Blank} \cup 1 .. now
    BY DEF ShapeInv, HookInv, LogInv
  <2>2. LogInv /\ processed \in Seq(Stored) /\ polled \in Seq(Mine(pixel))
    BY DEF ShapeInv, HookInv
  <2>3. IsBatch(d, Mine(pixel))
    BY KeyIs DEF ShapeInv, PollsInv, GoodPoll
  <2>4. Known \in SUBSET Stored /\ ToSet(processed) \subseteq Known /\ ToSet(polled) \subseteq Known
    BY AllStored DEF Known
  <2> QED
    BY <2>1, <2>2, <2>3, <2>4 DEF Blank
<1>4. Later(ToSet(d), Known)
  BY <1>2 DEF Answer
<1> HIDE DEF d
<1> DEFINE b == Absorbed(processed, since, polled, d)
<1>5. /\ \A i \in Known \cup ToSet(d) : log[i].at <= b.since
      /\ Desc(b.polled) /\ ToSet(b.polled) \subseteq ToSet(d) \cup ToSet(polled)
      /\ ToSet(b.processed) \subseteq ToSet(d) \cup ToSet(processed)
      /\ d # <<>> =>
           /\ b.since = log[Last(d)].at
           /\ \E new \in Seq(Mine(pixel)) :
                Desc(new) /\ ToSet(new) = ToSet(d) /\ b.polled = Capped(new \o polled)
  <2>1. InOrder(b, pixel, processed, since, polled, d, Known)
    BY <1>2, <1>3, <1>4, AbsorbedLater
  <2> QED
    BY <2>1 DEF InOrder
<1>6. a = b
  BY DEF d
<1> HIDE DEF b
<1> QED
  BY <1>5, <1>6 DEF d

LEMMA LandPollOrder ==
  ASSUME FeedAssumption, ShapeInv, OrderInv, NEW p \in Filters, LandPoll(p)
  PROVE  OrderInv'
<1> DEFINE d == pollQ[p].answer
<1>1. /\ UNCHANGED <<server, page, pixel, generation, initialQ, ghosts>>
      /\ pollQ[p].at = "answered" /\ pollQ' = [pollQ EXCEPT ![p] = [NoPoll EXCEPT !.data = d]]
  BY DEF LandPoll
<1>2. /\ log' = log /\ mounted' = mounted /\ pixel \in Filters /\ All \in Filters
      /\ UNCHANGED <<pixel, generation, initialQ>> /\ pollQ \in [Filters -> Polls]
  BY <1>1, KeyIs, SameServer DEF ShapeInv, PollsInv, page
<1>3. /\ \A r \in Filters : r # p => pollQ'[r] = pollQ[r]
      /\ pollQ'[p].answer = <<>> /\ pollQ'[p].data = d
  BY <1>1, <1>2 DEF NoPoll
<1>4. /\ Key' = Key /\ IsLoaded' = IsLoaded /\ Loaded' = Loaded /\ AtHome' = AtHome
      /\ \A r \in Filters : r # p => Polled(r)' = Polled(r) /\ Answer(r)' = Answer(r)
      /\ Polled(p)' = Answer(p) /\ Answer(p)' = {}
  BY <1>2, <1>3, EmptyIsGood DEF Key, IsLoaded, Loaded, AtHome, Polled, Answer, Home
<1>5. CacheOrder'
  <2>1. CASE p = All
    BY <1>2, <1>4, <2>1 DEF OrderInv, CacheOrder, Later
  <2>2. CASE p # All
    BY <1>2, <1>4, <2>2 DEF OrderInv, CacheOrder, Later
  <2> QED
    BY <2>1, <2>2
<1>6. CASE ~mounted
  BY <1>2, <1>5, <1>6 DEF OrderInv, LoadedOrder, LoadingOrder
<1>7. CASE mounted /\ p # pixel
  <2>1. UNCHANGED <<processed, since, polled>>
    BY <1>7 DEF LandPoll
  <2>2. Known' = Known /\ Answer(pixel)' = Answer(pixel)
    BY <1>2, <1>4, <1>7, <2>1 DEF Known
  <2>3. LoadedOrder'
    BY <1>2, <1>4, <2>1, <2>2 DEF OrderInv, LoadedOrder, Later
  <2>4. generation = 0 => p # All
    BY <1>7 DEF ShapeInv, PageInv
  <2>5. LoadingOrder'
    BY <1>2, <1>3, <1>4, <1>7, <2>1, <2>2, <2>4 DEF OrderInv, LoadingOrder
  <2> QED
    BY <1>5, <2>3, <2>5 DEF OrderInv
<1>8. CASE mounted /\ p = pixel
  <2>1. IsLoaded
    BY <1>1, <1>8 DEF OrderInv, LoadingOrder
  <2>2. LoadingOrder'
    BY <1>4, <2>1 DEF LoadingOrder
  <2>3. /\ \A i \in Known : log[i].at <= since
        /\ Desc(polled) /\ Later(ToSet(polled), Loaded) /\ Later(Answer(pixel), Known)
    BY <1>8, <2>1 DEF OrderInv, LoadedOrder
  <2>4. CASE UNCHANGED <<processed, since, polled>> /\ (d = pollQ[p].data \/ d = <<>>)
    <3>1. Answer(p) \subseteq Polled(p)
      BY <2>4, EmptyIsGood DEF Answer, Polled
    <3>2. Known' \subseteq Known
      BY <1>2, <1>4, <1>8, <2>4, <3>1 DEF Known
    <3>3. LoadedOrder'
      BY <1>2, <1>4, <1>8, <2>3, <2>4, <3>2 DEF LoadedOrder, Later
    <3> QED
      BY <1>5, <2>2, <3>3 DEF OrderInv
  <2>5. CASE \E a : /\ a = Absorbed(processed, since, polled, d)
                    /\ processed' = a.processed /\ since' = a.since /\ polled' = a.polled
    <3>1. PICK a : /\ a = Absorbed(processed, since, polled, pollQ[pixel].answer)
                   /\ processed' = a.processed /\ since' = a.since /\ polled' = a.polled
      BY <1>8, <2>5
    <3>2. /\ \A i \in Known \cup Answer(pixel) : log[i].at <= since'
          /\ Desc(polled') /\ ToSet(polled') \subseteq Answer(pixel) \cup ToSet(polled)
          /\ ToSet(processed') \subseteq Answer(pixel) \cup ToSet(processed)
      BY <1>1, <1>8, <3>1, LandingIs DEF Answer
    <3>3. Known' \subseteq Known \cup Answer(pixel)
      BY <1>2, <1>4, <1>8, <3>2 DEF Known
    <3>4. Later(ToSet(polled'), Loaded)
      BY <2>3, <3>2 DEF Later, Known
    <3>5. LoadedOrder'
      BY <1>2, <1>4, <1>8, <3>2, <3>3, <3>4 DEF LoadedOrder, Later
    <3> QED
      BY <1>5, <2>2, <3>5 DEF OrderInv
  <2> QED
    BY <1>8, <2>4, <2>5 DEF LandPoll
<1> QED
  BY <1>6, <1>7, <1>8

LEMMA ResetOrder ==
  ASSUME FeedAssumption, ShapeInv, OrderInv, NEW p \in Filters, NEW t,
         NEW cache \in {initialQ, Emptied},
         Reset(p, t, cache), UNCHANGED server, ~crossed',
         \/ p = pixel /\ pollQ' = pollQ
         \/ pollQ' = Unpolled
  PROVE  OrderInv' /\ ~IsLoaded'
<1> DEFINE k == <<p, generation + 1>>
<1>1. /\ generation' = generation + 1 /\ pixel' = p /\ polled' = <<>> /\ initialQ' = cache
      /\ ~(p = pixel /\ pollQ[pixel].at # "idle") /\ cache[k] = NoLoad /\ log' = log
  BY SameServer DEF Reset, Underway
<1>2. processed' = <<>>
  BY <1>1 DEF Reset, NoLoad
<1>3. /\ Key' = k /\ Home \in Keys /\ All \in Filters /\ generation \in Nat
  BY <1>1, KeyIs DEF Key, Home, ShapeInv, PageInv, FeedAssumption
<1>4. initialQ'[Key'] = NoLoad
  BY <1>1, <1>3
<1>5. ~IsLoaded'
  BY <1>4 DEF IsLoaded, NoLoad
<1>6. AtHome' \subseteq AtHome
  <2>1. cache = Emptied => AtHome' = {}
    BY <1>1, <1>3, EmptyIsGood DEF AtHome, Emptied, NoLoad, Home
  <2>2. cache = initialQ => AtHome' = AtHome
    BY <1>1 DEF AtHome, Home
  <2> QED
    BY <2>1, <2>2
<1>7. Polled(All)' \subseteq Polled(All) /\ Answer(All)' \subseteq Answer(All)
  <2>1. pollQ' = Unpolled => Polled(All)' = {} /\ Answer(All)' = {}
    BY <1>3, EmptyIsGood DEF Polled, Answer, Unpolled, NoPoll
  <2>2. pollQ' = pollQ => Polled(All)' = Polled(All) /\ Answer(All)' = Answer(All)
    BY DEF Polled, Answer
  <2> QED
    BY <2>1, <2>2
<1>8. CacheOrder'
  BY <1>1, <1>6, <1>7 DEF OrderInv, CacheOrder, Later
<1>9. pollQ'[pixel'].at = "idle"
  <2>1. Unpolled[p].at = "idle"
    BY DEF Unpolled, NoPoll
  <2> QED
    BY <1>1, <2>1
<1>10. LoadingOrder'
  <2>1. generation' # 0 /\ initialQ'[Key'].data = <<>>
    BY <1>1, <1>3, <1>4 DEF NoLoad
  <2> QED
    BY <1>1, <1>2, <1>9, <2>1 DEF LoadingOrder
<1> QED
  BY <1>5, <1>8, <1>10 DEF OrderInv, LoadedOrder

LEMMA ResetsOrder ==
  ASSUME FeedAssumption, ShapeInv, OrderInv, ~crossed',
         Refresh \/ Clear \/ \E p \in Filters : SetPixelFilter(p)
  PROVE  OrderInv' /\ ~IsLoaded'
<1>1. pixel \in Filters /\ pixel = filter
  BY DEF ShapeInv, PageInv
<1>2. CASE Refresh
  <2>1. Reset(pixel, Blank, initialQ) /\ UNCHANGED <<server, pollQ>>
    BY <1>2 DEF Refresh
  <2> QED
    BY <1>1, <2>1, ResetOrder
<1>3. CASE Clear
  <2>1. Reset(pixel, now, Emptied) /\ UNCHANGED <<server, pollQ>>
    BY <1>3 DEF Clear
  <2> QED
    BY <1>1, <2>1, ResetOrder
<1>4. ASSUME NEW p \in Filters, SetPixelFilter(p) PROVE OrderInv' /\ ~IsLoaded'
  <2>1. Reset(p, Blank, initialQ) /\ pollQ' = Unpolled /\ UNCHANGED server
    BY <1>1, <1>4 DEF SetPixelFilter, FollowFilter
  <2> QED
    BY <2>1, ResetOrder
<1> QED
  BY <1>2, <1>3, <1>4

LEMMA LeaveOrder ==
  ASSUME FeedAssumption, ShapeInv, OrderInv, Leave
  PROVE  OrderInv'
<1>1. mounted' = FALSE /\ UNCHANGED <<server, initialQ, pollQ>>
  BY DEF Leave
<1>2. /\ log' = log /\ AtHome' = AtHome
      /\ Polled(All)' = Polled(All) /\ Answer(All)' = Answer(All)
  BY <1>1, SameServer DEF AtHome, Polled, Answer, Home
<1> QED
  BY <1>1, <1>2 DEF OrderInv, CacheOrder, LoadedOrder, LoadingOrder, Later

LEMMA CollectOrder ==
  ASSUME FeedAssumption, ShapeInv, OrderInv, Collect
  PROVE  OrderInv'
<1>1. ~mounted' /\ initialQ' = Emptied /\ pollQ' = Unpolled
  BY DEF Collect, page
<1>2. AtHome' = {} /\ Polled(All)' = {} /\ Answer(All)' = {}
  BY <1>1, EmptyIsGood, HomeIsKey
     DEF AtHome, Polled, Answer, Home, Emptied, Unpolled, NoLoad, NoPoll
<1> QED
  BY <1>1, <1>2 DEF OrderInv, CacheOrder, LoadedOrder, LoadingOrder, Later

LEMMA EnterOrder ==
  ASSUME FeedAssumption, ShapeInv, OrderInv, Enter, ~crossed'
  PROVE  OrderInv'
<1> DEFINE l == initialQ[Home]
           d == pollQ[All].data
<1>1. /\ ~mounted /\ mounted' = TRUE /\ pixel = All /\ generation = 0
      /\ UNCHANGED <<server, pixel, generation, initialQ, pollQ>>
      /\ l.at = "loaded" \/ pollQ[All] = NoPoll
      /\ IsBatch(d, Mine(All)) /\ IsBatch(l.data, Mine(All)) /\ Len(l.data) <= InitialLimit
      /\ LogInv
  BY EnterIs DEF Home
<1>2. /\ log' = log /\ AtHome' = AtHome /\ Polled(All)' = Polled(All) /\ Answer(All)' = Answer(All)
      /\ Key' = Home /\ Loaded' = AtHome /\ (IsLoaded' <=> l.at = "loaded") /\ pixel' = All
  BY <1>1, SameServer DEF AtHome, Polled, Answer, Home, Key, Loaded, IsLoaded
<1>3. CacheOrder'
  BY <1>2 DEF OrderInv, CacheOrder, Later
<1>4. Known' = ToSet(polled') \cup ToSet(processed') \cup AtHome \cup Polled(All)
  BY <1>2 DEF Known
<1>5. ToSet(d) = Polled(All) /\ ToSet(l.data) = AtHome
  BY DEF Polled, AtHome
<1>6. /\ Later(Polled(All), AtHome) /\ Later(Answer(All), AtHome \cup Polled(All))
  BY DEF OrderInv, CacheOrder
<1> HIDE DEF d
<1>7. CASE l.at = "loaded"
  <2> DEFINE s == Seeded(l.data)
             t == s.since
             none == <<>>
             a == Absorbed(l.data, t, none, d)
  <2>1. /\ s.processed = l.data /\ l.data \in Seq(Stored) /\ t \in 1 .. now
        /\ \A i \in ToSet(l.data) : log[i].at <= t
    BY <1>1, SeededIs
  <2>2. processed' = a.processed /\ since' = a.since /\ polled' = a.polled
    BY <1>7, <2>1, EnterIs DEF Opened, Home, d
  <2> HIDE DEF s, l, t
  <2>3. none \in Seq(Mine(All)) /\ Desc(none) /\ ToSet(none) = {}
    BY EmptyIsGood
  <2>4. AtHome \in SUBSET Stored /\ t \in Int
    BY <1>1, <2>1, AllStored DEF Mine, LogInv
  <2> HIDE DEF none
  <2>5. ToSet(l.data) \subseteq AtHome /\ ToSet(none) \subseteq AtHome /\ Later(ToSet(d), AtHome)
        /\ \A i \in AtHome : log[i].at <= t
    BY <1>5, <1>6, <2>1, <2>3
  <2>6. /\ \A i \in AtHome \cup ToSet(d) : log[i].at <= a.since
        /\ Desc(a.polled) /\ ToSet(a.polled) \subseteq ToSet(d) \cup ToSet(none)
        /\ ToSet(a.processed) \subseteq ToSet(d) \cup ToSet(l.data)
    <3>1. /\ l.data \in Seq(Stored) /\ t \in Int /\ none \in Seq(Mine(All))
          /\ IsBatch(d, Mine(All)) /\ AtHome \in SUBSET Stored /\ LogInv
          /\ ToSet(l.data) \subseteq AtHome /\ ToSet(none) \subseteq AtHome
      BY <1>1, <2>1, <2>3, <2>4, <2>5
    <3>2. Desc(none) /\ Later(ToSet(d), AtHome) /\ \A i \in AtHome : log[i].at <= t
      BY <2>3, <2>5
    <3>3. InOrder(a, All, l.data, t, none, d, AtHome)
      BY <3>1, <3>2, AbsorbedLater
    <3> QED
      BY <3>3 DEF InOrder
  <2> HIDE DEF a
  <2>7. Known' \subseteq AtHome \cup Polled(All)
    BY <1>4, <1>5, <2>2, <2>3, <2>6
  <2>8. LoadedOrder'
    BY <1>2, <1>5, <1>6, <2>2, <2>3, <2>6, <2>7 DEF LoadedOrder, Later
  <2>9. LoadingOrder'
    BY <1>2, <1>7 DEF LoadingOrder
  <2> QED
    BY <1>3, <2>8, <2>9 DEF OrderInv
<1>8. CASE l.at # "loaded"
  <2> DEFINE none == <<>>
             b == Absorbed(none, Blank, none, d)
  <2>1. pollQ[All] = NoPoll /\ d = none
    BY <1>1, <1>8 DEF NoPoll, d
  <2>2. processed' = b.processed /\ since' = b.since /\ polled' = b.polled
    BY <1>8, EnterIs DEF Opened, Home, d
  <2>3. none \in Seq(Stored) /\ none \in Seq(Mine(All)) /\ ToSet(none) = {}
    BY EmptyIsGood
  <2> HIDE DEF none
  <2>4. Absorbs(b, All, none, Blank, none, d)
    BY <1>1, <2>3, AbsorbedIs
  <2> HIDE DEF b
  <2>5. ToSet(d) \ ToSet(none) = {}
    BY <2>1, <2>3
  <2>6. b.processed = none /\ b.polled = none
    BY <2>4, <2>5 DEF Absorbs
  <2>7. Known' = AtHome
    BY <1>4, <1>5, <2>1, <2>2, <2>3, <2>6
  <2>8. l.data # <<>> => \A i \in AtHome : i <= Last(l.data)
    <3>1. l.data \in Seq(Mine(All)) /\ Asc(l.data) /\ Mine(All) \in SUBSET Nat
      BY <1>1, LogFacts DEF IsBatch
    <3> HIDE DEF l
    <3> QED
      BY <1>5, <3>1, LastIsGreatest
  <2>9. LoadedOrder'
    BY <1>2, <1>8 DEF LoadedOrder
  <2>10. LoadingOrder'
    <3>1. pollQ' = pollQ /\ pollQ[All].at = "idle" /\ initialQ'[Key'] = l
      BY <1>1, <1>2, <2>1 DEF NoPoll
    <3> HIDE DEF b, l
    <3> QED
      BY <1>1, <1>2, <2>1, <2>2, <2>6, <2>7, <2>8, <3>1 DEF LoadingOrder, none
  <2> QED
    BY <1>3, <2>9, <2>10 DEF OrderInv
<1> QED
  BY <1>7, <1>8

OInv == ~crossed => OrderInv

(* Once crossed, always crossed.                                           *)
LEMMA CrossedStays ==
  ASSUME ShapeInv, [FeedNext]_feedVars, ~crossed'
  PROVE  ~crossed
<1>1. crossed \in BOOLEAN
  BY DEF ShapeInv, PageInv
<1>2. CASE UNCHANGED feedVars
  BY <1>2 DEF feedVars, ghosts
<1>3. CASE FeedNext
  <2>1. ASSUME NEW p, NEW t, NEW cache, Reset(p, t, cache) PROVE ~crossed
    BY <1>1, <2>1 DEF Reset
  <2>2. ASSUME NEW p \in Filters, SetPixelFilter(p) PROVE ~crossed
    BY <2>1, <2>2 DEF SetPixelFilter, FollowFilter
  <2>3. CASE Refresh \/ Clear
    BY <2>1, <2>3 DEF Refresh, Clear
  <2>4. CASE Enter
    BY <1>1, <2>4 DEF Enter
  <2>5. CASE UNCHANGED crossed
    BY <2>5
  <2> QED
    BY <1>3, <2>2, <2>3, <2>4, <2>5
       DEF FeedNext, Stamp, Store, Tick, AskInitial, AskPoll, LandInitial, LandPoll, PollFails, SetMode,
           TogglePause, Leave, Collect, ghosts
<1> QED
  BY <1>2, <1>3

LEMMA OrderNext == FeedAssumption /\ ShapeInv /\ OInv /\ [FeedNext]_feedVars => OInv'
<1> SUFFICES ASSUME FeedAssumption, ShapeInv, OInv, [FeedNext]_feedVars, ~crossed' PROVE OrderInv'
  BY DEF OInv
<1>1. OrderInv
  BY CrossedStays DEF OInv
<1>2. CASE (\E q \in FeedPixels : Stamp(q)) \/ \E n \in 1 .. Len(log) : Store(n)
  <2>1. (\A i \in Stored : log'[i] = log[i]) /\ UNCHANGED <<mounted, hook, initialQ, pollQ>>
    BY <1>2, StampKeeps, StoreGrows DEF Stamp, Store, page, ShapeInv
  <2> QED
    BY <1>1, <2>1, SameFeedOrder
<1>3. CASE Tick \/ (\E m \in {"live", "history"} : SetMode(m)) \/ TogglePause \/ UNCHANGED feedVars
  <2>1. UNCHANGED <<log, mounted, hook, initialQ, pollQ>>
    BY <1>3 DEF Tick, SetMode, TogglePause, feedVars, server, page
  <2> QED
    BY <1>1, <2>1, SameFeedOrder
<1>4. CASE Refresh \/ Clear \/ \E p \in Filters : SetPixelFilter(p)
  BY <1>1, <1>4, ResetsOrder
<1>5. CASE AskInitial
  BY <1>1, <1>5, AskInitialOrder
<1>6. CASE AskPoll
  BY <1>1, <1>6, AskPollOrder
<1>7. CASE \E k \in Keys : LandInitial(k)
  BY <1>1, <1>7, LandInitialOrder
<1>8. CASE \E p \in Filters : LandPoll(p) \/ PollFails(p)
  BY <1>1, <1>8, LandPollOrder, PollFailsOrder
<1>9. CASE Leave \/ Enter \/ Collect
  BY <1>1, <1>9, LeaveOrder, EnterOrder, CollectOrder
<1> QED
  BY <1>2, <1>3, <1>4, <1>5, <1>6, <1>7, <1>8, <1>9 DEF FeedNext

(* In order, the feed is newest first, and what the buffer cuts off is     *)
(* older than what it keeps.                                               *)
LEMMA OrderedFeed ==
  ASSUME FeedAssumption, ShapeInv, OrderInv
  PROVE  /\ Desc(FeedEvents) /\ ToSet(FeedEvents) \subseteq ToSet(polled) \cup ToSet(Initial)
         /\ polled # <<>> \/ Initial # <<>> => FeedEvents # <<>>
         /\ \A i \in (ToSet(polled) \cup ToSet(Initial)) \ ToSet(FeedEvents) :
              \A j \in ToSet(FeedEvents) : i < j
<1> DEFINE init == Initial
           E == Capped(polled \o Reverse(init))
<1>1. /\ IsBatch(init, Mine(pixel)) /\ polled \in Seq(Mine(pixel)) /\ LogInv
      /\ ToSet(init) \subseteq Loaded /\ E = FeedEvents
  BY InitialIs DEF ShapeInv, HookInv, Loaded, FeedEvents
<1>2. Desc(polled) /\ Later(ToSet(polled), ToSet(init))
  <2>1. CASE polled = <<>>
    BY <2>1, EmptyIsGood DEF Later
  <2>2. CASE polled # <<>>
    <3>1. mounted /\ IsLoaded
      BY <2>2 DEF ShapeInv, PageInv, OrderInv, LoadingOrder
    <3> QED
      BY <1>1, <3>1 DEF OrderInv, LoadedOrder, Later
  <2> QED
    BY <2>1, <2>2
<1> HIDE DEF init, E
<1>3. \A i \in ToSet(polled), j \in ToSet(init) : i > j
  <2>1. ToSet(polled) \in SUBSET Stored /\ ToSet(init) \in SUBSET Stored
    BY <1>1, AllStored DEF Mine
  <2> QED
    BY <1>1, <1>2, <2>1, LaterIsLater
<1>4. /\ ToSet(E) \subseteq ToSet(polled) \cup ToSet(init)
      /\ polled # <<>> \/ init # <<>> => E # <<>>
      /\ Desc(E)
      /\ \A i \in (ToSet(polled) \cup ToSet(init)) \ ToSet(E), j \in ToSet(E) : i < j
  BY <1>1, <1>2, <1>3, EventsAre DEF E
<1> QED
  BY <1>1, <1>4 DEF init

THEOREM OrderHolds == FeedSpec => [](ShapeInv /\ OInv)
<1> USE FeedAssumption
<1>1. FeedInit => ShapeInv /\ OInv
  BY ShapeInitially, OrderInitially DEF OInv
<1>2. ShapeInv /\ OInv /\ [FeedNext]_feedVars => ShapeInv' /\ OInv'
  BY ShapeNext, OrderNext
<1> QED
  BY <1>1, <1>2, PTL DEF FeedSpec

(* Unless the feed was reset under a running poll or to an earlier visit's *)
(* load, it is newest first and shows no event twice: the rows are keyed   *)
(* by the event's id.                                                      *)
THEOREM TheNewestIsFirst == FeedSpec => []NewestFirst
<1> USE FeedAssumption
<1>1. ASSUME ShapeInv, OInv PROVE NewestFirst
  BY <1>1, OrderedFeed DEF OInv, NewestFirst, Desc
<1> QED
  BY <1>1, OrderHolds, PTL

-----------------------------------------------------------------------------
(* No gap.  With times of their own, the feed holds every event of its     *)
(* filter between its oldest and the cursor, and a running poll will bring *)
(* all that come next; an initial load leaves none out in between.  Rows   *)
(* must be committed in their order, or one comes behind the cursor.       *)
Apart == \A i, j \in Stored : i < j => log[i].at < log[j].at

Filled ==
  FeedEvents # <<>> =>
    /\ \E i \in Stored : log[i].at >= since
    /\ \A i \in Mine(pixel) :
         i > Last(FeedEvents) /\ log[i].at <= since => i \in ToSet(FeedEvents)
Continued ==
  /\ \A i \in Answer(pixel) : log[i].at > since
  /\ pollQ[pixel].answer # <<>> =>
       \A i \in Mine(pixel) :
         log[i].at > since /\ i <= Last(pollQ[pixel].answer) => i \in Answer(pixel)

NoGap == Apart /\ (~crossed /\ mounted /\ IsLoaded => Filled /\ Continued)
WholeLoads == \A k \in Keys : Whole(initialQ[k].data, Mine(k[1]))

GapInv == smooth => NoGap /\ WholeLoads

LEMMA ApartIs ==
  ASSUME LogInv, Apart, NEW i \in Stored, NEW j \in Stored
  PROVE  i <= j <=> log[i].at <= log[j].at
<1>1. i \in Nat /\ j \in Nat /\ log[i].at \in Int /\ log[j].at \in Int
  BY LogFacts
<1> QED
  BY <1>1 DEF Apart

(* A row that is committed is then the last of all.                        *)
LEMMA CommitsLast ==
  ASSUME LogInv, NEW n \in 1 .. Len(log), Store(n), smooth'
  PROVE  /\ n \in Nat /\ \A i \in Stored : i \in Nat /\ i < n /\ log[i].at < log[n].at
<1>1. \A i \in Stored : log[i].at < log[n].at
  BY DEF Store
<1>2. /\ Len(log) \in Nat /\ Stored \subseteq 1 .. Len(log)
      /\ \A i \in 1 .. Len(log) : log[i].at \in Int
  BY LogFacts
<1>3. ASSUME NEW i \in Stored PROVE i < n
  <2>1. i \in 1 .. Len(log) /\ log[i].at < log[n].at /\ i # n
    BY <1>1, <1>2
  <2>2. ~(n < i)
    BY <1>2, <2>1 DEF LogInv
  <2> QED
    BY <1>2, <2>1, <2>2
<1>4. n \in Nat /\ \A i \in Stored : i \in Nat
  BY <1>2
<1> QED
  BY <1>1, <1>3, <1>4

LEMMA StoreGap ==
  ASSUME FeedAssumption, ShapeInv, NoGap, NEW n \in 1 .. Len(log), Store(n), smooth'
  PROVE  NoGap'
<1>0. LogInv
  BY DEF ShapeInv
<1>1. /\ Stored' = Stored \cup {n} /\ n \notin Stored
      /\ \A i \in Stored : i < n /\ log'[i] = log[i]
      /\ log'[n].at = log[n].at /\ log[n].at \in Int
      /\ \A p : Mine(p) \subseteq Mine(p)' /\ Mine(p)' \subseteq Mine(p) \cup {n}
  BY <1>0, StoreGrows, CommitsLast DEF LogInv
<1>2. /\ LogInv /\ \A i \in Stored : log[i].at < log[n].at
      /\ UNCHANGED <<now, mounted, pixel, generation, since, processed, polled, initialQ, pollQ,
                     crossed>>
  BY <1>0, CommitsLast DEF Store, page, hook
<1>3. n \in Nat /\ \A i \in Stored : i \in Nat /\ i < n
  BY <1>0, CommitsLast
<1>4. Apart'
  <2>1. \A i \in Stored : log'[i].at < log[n].at /\ i \in Nat /\ n \in Nat
    BY <1>1, <1>2, <1>3
  <2>2. \A i, j \in Stored : i < j => log'[i].at < log'[j].at
    BY <1>1 DEF NoGap, Apart
  <2>3. ASSUME NEW i \in Stored', NEW j \in Stored', i < j PROVE log'[i].at < log'[j].at
    <3>1. i \in Stored
      <4>1. i \in Stored \cup {n} /\ j \in Stored \cup {n}
        BY <1>1, <2>3
      <4> QED
        BY <1>3, <2>3, <4>1
    <3>2. CASE j \in Stored
      BY <2>2, <2>3, <3>1, <3>2
    <3>3. CASE j = n
      BY <1>1, <2>1, <3>1, <3>3
    <3> QED
      BY <1>1, <3>2, <3>3
  <2> QED
    BY <2>3 DEF Apart
<1>5. ASSUME ~crossed', mounted', IsLoaded' PROVE Filled' /\ Continued'
  <2>1. /\ Key' = Key /\ IsLoaded /\ ~crossed /\ mounted /\ FeedEvents' = FeedEvents
        /\ pixel' = pixel /\ since' = since /\ pollQ' = pollQ /\ Answer(pixel)' = Answer(pixel)
    BY <1>2, <1>5 DEF Key, IsLoaded, FeedEvents, Initial, Answer
  <2>2. Filled /\ Continued
    BY <2>1 DEF NoGap
  <2>3. /\ Answer(pixel) \subseteq Stored /\ pixel \in Filters
        /\ \A i \in Stored : log[i].at \in Int /\ i \in Nat
        /\ since \in Int
    <3>1. now \in Nat /\ since \in {Blank} \cup 1 .. now
      BY DEF ShapeInv, HookInv, LogInv
    <3>2. \A i \in Stored : log[i].at \in Int /\ i \in Nat
      BY <1>2, LogFacts
    <3>3. Answer(pixel) \subseteq Stored /\ pixel \in Filters
      BY <1>2, AllStored, LogFacts, KeyIs DEF ShapeInv
    <3> QED
      BY <3>1, <3>2, <3>3 DEF Blank
  <2>4. Filled'
    <3> SUFFICES ASSUME FeedEvents # <<>>
                 PROVE  /\ \E i \in Stored' : log'[i].at >= since
                        /\ \A i \in Mine(pixel)' :
                             i > Last(FeedEvents) /\ log'[i].at <= since => i \in ToSet(FeedEvents)
      BY <2>1 DEF Filled
    <3>1. PICK e \in Stored : log[e].at >= since
      BY <2>2 DEF Filled
    <3>2. log[n].at > since
      BY <1>1, <1>2, <2>3, <3>1
    <3>3. \A i \in Mine(pixel) :
            i > Last(FeedEvents) /\ log[i].at <= since => i \in ToSet(FeedEvents)
      BY <2>2 DEF Filled
    <3>4. Mine(pixel)' \subseteq Mine(pixel) \cup {n} /\ Mine(pixel) \subseteq Stored
      BY <1>1, <2>1, <1>2, LogFacts
    <3>5. ~(log'[n].at <= since)
      BY <1>1, <2>3, <3>2
    <3> QED
      BY <1>1, <3>1, <3>3, <3>4, <3>5
  <2>5. Continued'
    <3>1. \A i \in Answer(pixel) : log'[i].at > since
      BY <1>1, <2>2, <2>3 DEF Continued
    <3>2. ASSUME pollQ[pixel].answer # <<>>, NEW i \in Mine(pixel)', log'[i].at > since,
                 i <= Last(pollQ[pixel].answer)
          PROVE  i \in Answer(pixel)
      <4>1. Last(pollQ[pixel].answer) \in Stored
        <5>1. IsBatch(pollQ[pixel].answer, Mine(pixel)) /\ Mine(pixel) \subseteq Stored
          BY <1>2, <2>3, LogFacts DEF ShapeInv, PollsInv, GoodPoll
        <5> QED
          BY <3>2, <5>1, ElementsOf DEF IsBatch
      <4>2. i \in Mine(pixel) \cup {n}
        BY <1>1, <2>1, <3>2
      <4>3. i # n
        BY <1>3, <3>2, <4>1
      <4>4. log[i].at > since /\ i \in Mine(pixel)
        BY <1>1, <1>2, <3>2, <4>2, <4>3, LogFacts
      <4> QED
        BY <2>2, <3>2, <4>4 DEF Continued
    <3> QED
      BY <2>1, <3>1, <3>2 DEF Continued
  <2> QED
    BY <2>4, <2>5
<1> QED
  BY <1>4, <1>5 DEF NoGap

LEMMA SameFeedGap ==
  ASSUME FeedAssumption, ShapeInv, NoGap, Stored' = Stored, \A i \in Stored : log'[i] = log[i],
         \A p : Mine(p)' = Mine(p), UNCHANGED <<mounted, hook, initialQ, pollQ, crossed>>
  PROVE  NoGap'
<1>1. /\ UNCHANGED <<mounted, pixel, generation, since, processed, polled, initialQ, pollQ,
                     crossed>>
      /\ Key' = Key
  BY DEF hook, Key
<1>2. /\ Mine(pixel)' = Mine(pixel) /\ FeedEvents' = FeedEvents
      /\ IsLoaded' = IsLoaded /\ Answer(pixel)' = Answer(pixel)
  BY <1>1 DEF FeedEvents, Initial, IsLoaded, Answer
<1>3. Mine(pixel) \subseteq Stored /\ Answer(pixel) \subseteq Stored
  BY AllStored, LogFacts, KeyIs DEF ShapeInv
<1>4. Apart' /\ (Filled => Filled') /\ (Continued => Continued')
  BY <1>1, <1>2, <1>3 DEF NoGap, Apart, Filled, Continued
<1> QED
  BY <1>1, <1>2, <1>4 DEF NoGap

(* A step to a feed that is not loaded.                                    *)
LEMMA NothingShown ==
  ASSUME NoGap, UNCHANGED server, crossed' \/ ~mounted' \/ ~IsLoaded'
  PROVE  NoGap'
<1>1. Apart'
  BY SameServer DEF NoGap, Apart
<1> QED
  BY <1>1 DEF NoGap

LEMMA PollFailsGap ==
  ASSUME FeedAssumption, ShapeInv, NoGap, NEW p \in Filters, PollFails(p)
  PROVE  NoGap'
<1>1. /\ UNCHANGED <<server, page, hook, initialQ, ghosts>>
      /\ pollQ' = [pollQ EXCEPT ![p] = [NoPoll EXCEPT !.data = pollQ[p].data]]
  BY DEF PollFails
<1>2. /\ UNCHANGED <<log, mounted, crossed, pixel, generation, since, processed, polled, initialQ>>
      /\ pollQ \in [Filters -> Polls] /\ pixel \in Filters
      /\ Stored' = Stored /\ Mine(pixel)' = Mine(pixel)
  BY <1>1, KeyIs, SameServer DEF ShapeInv, PollsInv, page, hook, ghosts
<1>3. pollQ'[pixel].answer = <<>> \/ pollQ'[pixel] = pollQ[pixel]
  BY <1>1, <1>2 DEF NoPoll
<1>4. FeedEvents' = FeedEvents /\ IsLoaded' = IsLoaded
  BY <1>2 DEF FeedEvents, Initial, IsLoaded, Key
<1>5. Apart' /\ (Filled => Filled')
  BY <1>2, <1>4 DEF NoGap, Apart, Filled
<1>6. Continued => Continued'
  <2>1. CASE pollQ'[pixel].answer = <<>>
    <3>1. Answer(pixel)' = {}
      BY <1>2, <2>1, EmptyIsGood DEF Answer
    <3> QED
      BY <1>2, <2>1, <3>1 DEF Continued
  <2>2. CASE pollQ'[pixel] = pollQ[pixel]
    <3>1. Answer(pixel)' = Answer(pixel)
      BY <1>2, <2>2 DEF Answer
    <3> QED
      BY <1>2, <2>2, <3>1 DEF Continued
  <2> QED
    BY <1>3, <2>1, <2>2
<1> QED
  BY <1>2, <1>4, <1>5, <1>6 DEF NoGap

LEMMA AskPollGap ==
  ASSUME FeedAssumption, ShapeInv, NoGap, AskPoll, smooth'
  PROVE  NoGap'
<1> DEFINE s == ListRecent(pixel, since)
<1>1. /\ UNCHANGED <<server, page, hook, initialQ, crossed>> /\ Clamped(since) = since
      /\ pollQ' = [pollQ EXCEPT ![pixel].at = "answered", ![pixel].answer = s]
  BY DEF AskPoll
<1>2. /\ UNCHANGED <<log, mounted, crossed, pixel, generation, since, processed, polled, initialQ>>
      /\ pollQ \in [Filters -> Polls] /\ pixel \in Filters /\ pollQ[pixel] \in Polls
      /\ Stored' = Stored /\ Mine(pixel)' = Mine(pixel) /\ since \in Int /\ LogInv
  BY <1>1, KeyIs, SameServer DEF ShapeInv, PollsInv, HookInv, LogInv, Blank, page, hook
<1>3. /\ \A i \in ToSet(s) : log[i].at > since
      /\ s # <<>> => \A i \in Mine(pixel) : log[i].at > since /\ i <= Last(s) => i \in ToSet(s)
  BY <1>1, <1>2, RecentIs
<1> HIDE DEF s
<1>4. pollQ'[pixel].answer = s
  BY <1>1, <1>2 DEF Polls
<1>5. FeedEvents' = FeedEvents /\ IsLoaded' = IsLoaded /\ Answer(pixel)' = ToSet(s)
  BY <1>2, <1>4 DEF FeedEvents, Initial, IsLoaded, Key, Answer
<1>6. Apart' /\ (Filled => Filled')
  BY <1>2, <1>5 DEF NoGap, Apart, Filled
<1>7. Continued'
  BY <1>2, <1>3, <1>4, <1>5 DEF Continued
<1> QED
  BY <1>2, <1>5, <1>6, <1>7 DEF NoGap

LEMMA LandInitialGap ==
  ASSUME FeedAssumption, ShapeInv, OInv, NoGap, WholeLoads, NEW k \in Keys, LandInitial(k)
  PROVE  NoGap'
<1>1. /\ UNCHANGED <<server, page, pixel, generation, polled, pollQ, ghosts>>
      /\ initialQ[k].at = "answered" /\ initialQ' = [initialQ EXCEPT ![k].at = "loaded"]
  BY DEF LandInitial
<1>2. /\ UNCHANGED <<log, mounted, crossed, pixel, generation, polled, pollQ>> /\ Key' = Key
      /\ initialQ \in [Keys -> Loads] /\ Key \in Keys /\ pixel \in Filters /\ LogInv
      /\ Stored' = Stored /\ Mine(pixel)' = Mine(pixel)
  BY <1>1, KeyIs, SameServer DEF ShapeInv, LoadsInv, Key, page, ghosts
<1>3. Apart /\ Apart'
  BY <1>2 DEF NoGap, Apart
<1>4. CASE ~(mounted /\ k = Key)
  <2>1. UNCHANGED <<processed, since>>
    BY <1>4 DEF LandInitial
  <2>2. CASE ~mounted
    BY <1>2, <1>3, <2>2 DEF NoGap
  <2>3. CASE k # Key
    <3>1. initialQ'[Key'] = initialQ[Key]
      BY <1>1, <1>2, <2>3
    <3>2. FeedEvents' = FeedEvents /\ IsLoaded' = IsLoaded /\ Answer(pixel)' = Answer(pixel)
      BY <1>2, <3>1 DEF FeedEvents, Initial, IsLoaded, Answer
    <3>3. (Filled => Filled') /\ (Continued => Continued')
      BY <1>2, <2>1, <3>2 DEF Filled, Continued
    <3> QED
      BY <1>2, <1>3, <3>2, <3>3 DEF NoGap
  <2> QED
    BY <1>4, <2>2, <2>3
<1>5. CASE mounted /\ k = Key /\ ~crossed
  <2> DEFINE d == initialQ[Key].data
             E == Capped(polled \o Reverse(d))
  <2>1. OrderInv /\ ~IsLoaded
    BY <1>1, <1>5 DEF OInv, IsLoaded
  <2>2. polled = <<>> /\ pollQ[pixel].at = "idle"
    BY <1>5, <2>1 DEF OrderInv, LoadingOrder
  <2>3. GoodLoad(initialQ[Key], Mine(pixel)) /\ polled \in Seq(Mine(pixel))
    BY InitialIs DEF ShapeInv, HookInv
  <2>4. /\ IsBatch(d, Mine(pixel)) /\ Len(d) <= InitialLimit /\ Whole(d, Mine(pixel))
        /\ ToSet(polled) = {} /\ Desc(polled)
    BY <1>2, <2>2, <2>3, EmptyIsGood, KeyIs DEF GoodLoad, WholeLoads, ShapeInv
  <2>5. initialQ'[Key].at = "loaded" /\ initialQ'[Key].data = d
    BY <1>1, <1>2, <1>5 DEF Loads
  <2>6. FeedEvents' = E
    BY <1>2, <2>5 DEF FeedEvents, Initial, IsLoaded, Key
  <2>7. since' = Seeded(d).since
    BY <1>5, <2>5 DEF LandInitial, Seed
  <2>8. pollQ[pixel].answer = <<>>
    BY <1>2, <2>2 DEF ShapeInv, PollsInv, GoodPoll
  <2> HIDE DEF d, E
  <2>9. Continued'
    <3>1. Answer(pixel)' = {} /\ pollQ'[pixel'].answer = <<>>
      BY <1>2, <2>8, EmptyIsGood DEF Answer
    <3> QED
      BY <1>2, <3>1 DEF Continued
  <2>10. d # <<>> => since' = log[Last(d)].at
    BY <1>2, <2>4, <2>7, SeededIs
  <2>11. /\ E \in Seq(Mine(pixel)) /\ ToSet(E) \subseteq ToSet(d)
         /\ Desc(E) /\ \A i \in ToSet(d) \ ToSet(E), j \in ToSet(E) : i < j
    <3>1. \A i \in ToSet(polled), j \in ToSet(d) : i > j
      BY <2>4
    <3> QED
      BY <1>2, <2>3, <2>4, <3>1, EventsAre DEF E
  <2>12. Filled'
    <3> SUFFICES ASSUME E # <<>>
                 PROVE  /\ \E i \in Stored : log[i].at >= since'
                        /\ \A i \in Mine(pixel) :
                             i > Last(E) /\ log[i].at <= since' => i \in ToSet(E)
      BY <1>2, <2>6 DEF Filled
    <3>1. Last(E) \in ToSet(E) /\ Mine(pixel) \in SUBSET Nat /\ Mine(pixel) \subseteq Stored
      BY <1>2, <2>11, ElementsOf, LogFacts
    <3>2. d # <<>>
      <4>1. ToSet(d) # {}
        BY <2>11, <3>1
      <4> QED
        BY <2>4, <4>1, ElementsOf DEF IsBatch
    <3>3. Last(d) \in Mine(pixel) /\ since' = log[Last(d)].at /\ log[Last(d)].at \in Int
      BY <1>2, <2>4, <2>10, <3>1, <3>2, LastAtIs, LogFacts
    <3>4. ASSUME NEW i \in Mine(pixel), i > Last(E), log[i].at <= since' PROVE i \in ToSet(E)
      <4>1. i <= Last(d)
        BY <1>2, <1>3, <3>1, <3>3, <3>4, ApartIs
      <4>2. d[1] <= Last(E) /\ d[1] \in Nat /\ Last(E) \in Nat
        <5>1. /\ d \in Seq(Mine(pixel)) /\ Asc(d) /\ Last(E) \in ToSet(d)
          BY <2>4, <2>11, <3>1 DEF IsBatch
        <5>2. Indexed(d) /\ Len(d) > 0 /\ ToSet(d) \subseteq Mine(pixel)
          BY <3>1, <3>2, <5>1, ElementsOf
        <5>3. d[1] \in ToSet(d)
          BY <5>2 DEF Indexed
        <5> QED
          BY <3>1, <3>2, <5>1, <5>2, <5>3, LastIsGreatest
      <4>3. i \in ToSet(d)
        BY <2>4, <3>1, <3>2, <3>4, <4>1, <4>2 DEF Whole
      <4> QED
        BY <2>11, <3>1, <3>4, <4>2, <4>3
    <3> QED
      BY <3>1, <3>3, <3>4
  <2> QED
    BY <1>3, <2>9, <2>12 DEF NoGap
<1>6. CASE crossed
  BY <1>2, <1>3, <1>6 DEF NoGap
<1> QED
  BY <1>4, <1>5, <1>6

(* Absorbing puts the news on top of the feed, and cuts it off below.      *)
LEMMA NewsOnTop ==
  ASSUME NEW V \in SUBSET Nat, NEW new \in Seq(V), NEW x \in Seq(V), NEW y \in Seq(V)
  PROVE  FeedAssumption => Capped(Capped(new \o x) \o y) = Capped(new \o Capped(x \o y))
<1>1. new \o x \in Seq(V) /\ x \o y \in Seq(V)
  BY Joining
<1>2. (new \o x) \o y = new \o (x \o y)
  BY ConcatAssociative
<1> HAVE FeedAssumption
<1>3. Capped(Capped(new \o x) \o y) = Capped((new \o x) \o y)
  BY <1>1, CappedJoin
<1>4. Capped(new \o Capped(x \o y)) = Capped(new \o (x \o y))
  BY <1>1, CappedJoin
<1> QED
  BY <1>2, <1>3, <1>4

LEMMA LandPollGap ==
  ASSUME FeedAssumption, ShapeInv, OInv, NoGap, NEW p \in Filters, LandPoll(p)
  PROVE  NoGap'
<1> DEFINE d == pollQ[p].answer
           E == FeedEvents
<1>1. /\ UNCHANGED <<server, page, pixel, generation, initialQ, ghosts>>
      /\ pollQ[p].at = "answered" /\ pollQ' = [pollQ EXCEPT ![p] = [NoPoll EXCEPT !.data = d]]
  BY DEF LandPoll
<1>2. /\ UNCHANGED <<log, mounted, crossed, pixel, generation, initialQ>> /\ Key' = Key
      /\ Stored' = Stored /\ Mine(pixel)' = Mine(pixel) /\ IsLoaded' = IsLoaded
      /\ pollQ \in [Filters -> Polls] /\ pixel \in Filters /\ LogInv
  BY <1>1, KeyIs, SameServer DEF ShapeInv, PollsInv, page, ghosts, Key, IsLoaded
<1>3. Apart /\ Apart'
  BY <1>2 DEF NoGap, Apart
<1>4. CASE UNCHANGED <<processed, since, polled>>
  <2>1. FeedEvents' = FeedEvents
    BY <1>2, <1>4 DEF FeedEvents, Initial
  <2>2. Filled => Filled'
    BY <1>2, <1>4, <2>1 DEF Filled
  <2>3. Continued => Continued'
    <3>1. CASE p = pixel
      <4>1. pollQ'[pixel'].answer = <<>>
        BY <1>1, <1>2, <3>1 DEF NoPoll
      <4>2. Answer(pixel)' = {}
        BY <4>1, EmptyIsGood DEF Answer
      <4> QED
        BY <1>2, <4>1, <4>2 DEF Continued
    <3>2. CASE p # pixel
      <4>1. pollQ'[pixel] = pollQ[pixel]
        BY <1>1, <1>2, <3>2
      <4>2. Answer(pixel)' = Answer(pixel)
        BY <1>2, <4>1 DEF Answer
      <4> QED
        BY <1>2, <1>4, <4>1, <4>2 DEF Continued
    <3> QED
      BY <3>1, <3>2
  <2> QED
    BY <1>2, <1>3, <2>2, <2>3 DEF NoGap
<1>5. CASE ~(~crossed /\ mounted)
  BY <1>2, <1>3, <1>5 DEF NoGap
<1>6. CASE /\ ~crossed /\ mounted /\ p = pixel /\ d # <<>>
           /\ \E a : /\ a = Absorbed(processed, since, polled, d)
                     /\ processed' = a.processed /\ since' = a.since /\ polled' = a.polled
  <2>1. OrderInv /\ IsLoaded
    BY <1>1, <1>6 DEF OInv, OrderInv, LoadingOrder
  <2>2. Filled /\ Continued
    BY <1>6, <2>1 DEF NoGap
  <2>3. PICK a : /\ a = Absorbed(processed, since, polled, pollQ[pixel].answer)
                 /\ processed' = a.processed /\ since' = a.since /\ polled' = a.polled
    BY <1>6
  <2>4. /\ since' = log[Last(d)].at
        /\ \E new \in Seq(Mine(pixel)) :
             Desc(new) /\ ToSet(new) = ToSet(d) /\ polled' = Capped(new \o polled)
    BY <1>1, <1>6, <2>1, <2>3, LandingIs
  <2>5. PICK new \in Seq(Mine(pixel)) :
          Desc(new) /\ ToSet(new) = ToSet(d) /\ polled' = Capped(new \o polled)
    BY <2>4
  <2>6. /\ Mine(pixel) \in SUBSET Nat /\ Mine(pixel) \subseteq Stored
        /\ polled \in Seq(Mine(pixel)) /\ IsBatch(Initial, Mine(pixel))
        /\ \A i \in Stored : log[i].at \in Int
        /\ IsBatch(d, Mine(pixel)) /\ since \in Int
    <3>1. /\ Mine(pixel) \in SUBSET Nat /\ Mine(pixel) \subseteq Stored
          /\ \A i \in Stored : log[i].at \in Int
      BY <1>2, LogFacts
    <3>2. polled \in Seq(Mine(pixel)) /\ since \in Int
      BY DEF ShapeInv, HookInv, LogInv, Blank
    <3>3. IsBatch(pollQ[pixel].answer, Mine(pixel))
      BY <1>2 DEF ShapeInv, PollsInv, GoodPoll
    <3> QED
      BY <1>6, <3>1, <3>2, <3>3, InitialIs
  <2> DEFINE r == Reverse(Initial)
             F == Capped(new \o E)
  <2>7. FeedEvents' = F
    <3>1. r \in Seq(Mine(pixel))
      BY <2>6, Reversing DEF IsBatch
    <3>2. FeedEvents' = Capped(polled' \o r) /\ E = Capped(polled \o r)
      BY <1>2 DEF FeedEvents, Initial
    <3> HIDE DEF r, E
    <3> QED
      BY <2>5, <2>6, <3>1, <3>2, NewsOnTop
  <2>8. /\ E \in Seq(Mine(pixel)) /\ Desc(E) /\ ToSet(E) \subseteq Known
    BY <2>1, ShownAre, OrderedFeed, InitialIs DEF Known, Loaded
  <2>9. /\ Later(ToSet(d), Known) /\ \A i \in ToSet(d) : log[i].at > since
    BY <1>6, <2>1, <2>2 DEF OrderInv, LoadedOrder, Continued, Answer
  <2> HIDE DEF E, F, d
  <2>10. /\ ToSet(d) \subseteq Mine(pixel) /\ ToSet(E) \subseteq Mine(pixel)
         /\ Last(d) \in ToSet(d) /\ Last(d) \in Mine(pixel)
    BY <1>2, <1>6, <2>6, <2>8, ElementsOf, LastAtIs DEF IsBatch
  <2>11. \A i \in ToSet(new), j \in ToSet(E) : i > j
    <3>1. Later(ToSet(d), ToSet(E))
      BY <2>8, <2>9 DEF Later
    <3>2. ToSet(d) \in SUBSET Stored /\ ToSet(E) \in SUBSET Stored
      BY <2>6, <2>10
    <3> QED
      BY <1>2, <2>5, <3>1, <3>2, LaterIsLater
  <2>12. /\ F \in Seq(Mine(pixel)) /\ Desc(F) /\ ToSet(F) \subseteq ToSet(d) \cup ToSet(E)
         /\ \A i \in (ToSet(d) \cup ToSet(E)) \ ToSet(F), j \in ToSet(F) : i < j
    <3> DEFINE u == new \o E
    <3>1. u \in Seq(Mine(pixel)) /\ ToSet(u) = ToSet(d) \cup ToSet(E)
      BY <2>5, <2>8, Joining
    <3>2. Desc(u)
      BY <2>5, <2>6, <2>8, <2>11, JoiningDesc
    <3>3. F = Capped(u)
      BY DEF F
    <3> HIDE DEF u
    <3> QED
      BY <2>6, <3>1, <3>2, <3>3, CappedIs
  <2>13. Continued'
    <3>1. pollQ'[pixel'].answer = <<>>
      BY <1>1, <1>2, <1>6 DEF NoPoll
    <3>2. Answer(pixel)' = {}
      BY <3>1, EmptyIsGood DEF Answer
    <3> QED
      BY <1>2, <3>1, <3>2 DEF Continued
  <2>14. Filled'
    <3> SUFFICES ASSUME F # <<>>
                 PROVE  /\ \E i \in Stored : log[i].at >= since'
                        /\ \A i \in Mine(pixel) :
                             i > Last(F) /\ log[i].at <= since' => i \in ToSet(F)
      BY <1>2, <2>7 DEF Filled
    <3>1. Last(F) \in ToSet(F) /\ Last(F) \in Mine(pixel)
      BY <2>12, ElementsOf
    <3>2. log[Last(d)].at >= since' /\ Last(d) \in Stored
      BY <2>4, <2>6, <2>10
    <3>3. ASSUME NEW i \in Mine(pixel), i > Last(F), log[i].at <= since', i \notin ToSet(F)
          PROVE  FALSE
      <4>1. /\ i <= Last(d) /\ i \in Nat /\ Last(d) \in Nat /\ Last(F) \in Nat
            /\ i \in Stored /\ Last(F) \in Stored
        BY <1>2, <1>3, <2>4, <2>6, <2>10, <3>1, <3>3, ApartIs
      <4>2. i \notin ToSet(d) /\ i \notin ToSet(E)
        <5>1. ASSUME i \in ToSet(d) \cup ToSet(E) PROVE FALSE
          <6>1. i < Last(F)
            BY <2>12, <3>1, <3>3, <5>1
          <6> QED
            BY <3>3, <4>1, <6>1
        <5> QED
          BY <5>1
      <4>3. log[i].at <= since
        <5>1. ~(log[i].at > since)
          BY <1>6, <2>2, <4>1, <4>2 DEF Continued, Answer, d
        <5>2. log[i].at \in Int /\ since \in Int
          BY <2>6, <4>1
        <5> QED
          BY <5>1, <5>2
      <4>4. Last(F) \in ToSet(E)
        <5>1. ASSUME Last(F) \in ToSet(d) PROVE FALSE
          <6>1. log[Last(F)].at > since
            BY <2>9, <5>1
          <6>2. log[Last(F)].at <= log[i].at
            BY <1>2, <1>3, <3>3, <4>1, ApartIs
          <6> QED
            <7>1. since \in Int /\ log[i].at \in Int /\ log[Last(F)].at \in Int
              BY <2>6, <4>1
            <7> QED
              BY <4>3, <6>1, <6>2, <7>1
        <5> QED
          BY <2>12, <3>1, <5>1
      <4>5. E # <<>> /\ Last(E) <= Last(F)
        <5>1. E # <<>>
          BY <2>8, <4>4, ElementsOf
        <5> QED
          BY <2>6, <2>8, <4>4, <5>1, LastIsLeast
      <4>6. Last(E) \in Nat /\ i > Last(E)
        <5>1. Last(E) \in Mine(pixel)
          BY <2>8, <2>10, <4>5, ElementsOf
        <5> QED
          BY <2>6, <3>3, <4>1, <4>5, <5>1
      <4> QED
        BY <2>2, <4>2, <4>3, <4>5, <4>6 DEF Filled, E
    <3> QED
      BY <3>2, <3>3
  <2> QED
    BY <1>3, <2>13, <2>14 DEF NoGap
<1> QED
  BY <1>4, <1>5, <1>6 DEF LandPoll

(* An initial load stays without a gap: what is committed later is later.  *)
LEMMA WholeStays ==
  ASSUME FeedAssumption, ShapeInv, WholeLoads,
         NEW n, \A i \in Stored : i < n /\ n \in Nat,
         \A p : Mine(p)' \subseteq Mine(p) \cup {n},
         \A k \in Keys : \/ initialQ'[k].data \in {<<>>, initialQ[k].data}
                         \/ Whole(initialQ'[k].data, Mine(k[1])')
  PROVE  WholeLoads'
<1> SUFFICES ASSUME NEW k \in Keys PROVE Whole(initialQ'[k].data, Mine(k[1])')
  BY DEF WholeLoads
<1> DEFINE d == initialQ[k].data
<1>1. CASE initialQ'[k].data = d
  <2> SUFFICES ASSUME d # <<>>, NEW i \in Mine(k[1])', d[1] <= i, i <= Last(d)
               PROVE  i \in ToSet(d)
    BY <1>1 DEF Whole
  <2>1. IsBatch(d, Mine(k[1])) /\ Mine(k[1]) \subseteq Stored /\ Stored \subseteq Nat
    <3>1. LogInv /\ IsBatch(d, Mine(k[1]))
      BY DEF ShapeInv, LoadsInv, GoodLoad
    <3> QED
      BY <3>1, LogFacts
  <2>2. Whole(d, Mine(k[1]))
    BY DEF WholeLoads
  <2> HIDE DEF d
  <2>3. d \in Seq(Mine(k[1])) /\ d # <<>>
    BY <2>1 DEF IsBatch, d
  <2>4. Last(d) \in ToSet(d) /\ ToSet(d) \subseteq Mine(k[1])
    BY <2>3, ElementsOf
  <2>5. Last(d) < n /\ n \in Nat /\ Last(d) \in Nat /\ i <= Last(d)
    BY <2>1, <2>4 DEF d
  <2>6. i # n
    BY <2>5
  <2>7. i \in Mine(k[1]) /\ d[1] <= i
    BY <2>6 DEF d
  <2> QED
    BY <2>2, <2>3, <2>5, <2>7 DEF Whole
<1>2. CASE initialQ'[k].data = <<>>
  BY <1>2, EmptyIsGood
<1> QED
  BY <1>1, <1>2

LEMMA WholeNext ==
  ASSUME FeedAssumption, ShapeInv, WholeLoads, [FeedNext]_feedVars, smooth'
  PROVE  WholeLoads'
<1>1. LogInv /\ initialQ \in [Keys -> Loads] /\ Key \in Keys /\ Key[1] = pixel
  BY KeyIs DEF ShapeInv, LoadsInv
<1>2. ASSUME UNCHANGED log,
             \A k \in Keys : \/ initialQ'[k].data \in {<<>>, initialQ[k].data}
                             \/ Whole(initialQ'[k].data, Mine(k[1]))
      PROVE  WholeLoads'
  <2>1. \A p : Mine(p)' = Mine(p)
    BY <1>2, SameLog
  <2> DEFINE n == Len(log) + 1
  <2>2. \A i \in Stored : i < n /\ n \in Nat
    BY <1>1, LogFacts
  <2> HIDE DEF n
  <2> QED
    BY <1>2, <2>1, <2>2, WholeStays
<1>3. ASSUME NEW q \in FeedPixels, Stamp(q) PROVE WholeLoads'
  <2>1. \A p : Mine(p)' = Mine(p)
    BY <1>1, <1>3, StampKeeps
  <2>2. initialQ' = initialQ
    BY <1>3 DEF Stamp
  <2> QED
    BY <2>1, <2>2 DEF WholeLoads
<1>4. ASSUME NEW n \in 1 .. Len(log), Store(n) PROVE WholeLoads'
  <2>1. /\ \A p : Mine(p)' \subseteq Mine(p) \cup {n}
        /\ \A i \in Stored : i < n /\ n \in Nat
        /\ initialQ' = initialQ
    BY <1>1, <1>4, StoreGrows, CommitsLast DEF Store
  <2> QED
    BY <2>1, WholeStays
<1>5. ASSUME AskInitial PROVE WholeLoads'
  <2>1. Whole(ListLatest(pixel), Mine(pixel))
    BY <1>1, LatestIs
  <2>2. /\ initialQ' = [initialQ EXCEPT ![Key] = [at |-> "answered", data |-> ListLatest(pixel)]]
        /\ log' = log
    BY <1>5 DEF AskInitial, server
  <2> QED
    BY <1>1, <1>2, <2>1, <2>2
<1>6. ASSUME NEW j \in Keys, LandInitial(j) PROVE WholeLoads'
  <2>1. initialQ' = [initialQ EXCEPT ![j].at = "loaded"] /\ log' = log
    BY <1>6 DEF LandInitial, server
  <2>2. \A k \in Keys : initialQ'[k].data = initialQ[k].data
    BY <1>1, <2>1 DEF Loads
  <2> QED
    BY <1>2, <2>1, <2>2
<1>7. CASE log' = log /\ initialQ' \in {initialQ, Emptied}
  BY <1>2, <1>7 DEF Emptied, NoLoad
<1>8. ASSUME NEW p, NEW t, NEW cache \in {initialQ, Emptied}, Reset(p, t, cache), log' = log
      PROVE  WholeLoads'
  BY <1>7, <1>8 DEF Reset
<1>9. CASE FeedNext
  BY <1>3, <1>4, <1>5, <1>6, <1>7, <1>8, <1>9
  DEF FeedNext, Tick, AskPoll, LandPoll, PollFails, Refresh, Clear, SetPixelFilter, FollowFilter,
      SetMode, TogglePause, Leave, Enter, Collect, server
<1> QED
  BY <1>7, <1>9 DEF feedVars, server

(* Once a row came late, the feed may have gaps from then on.              *)
LEMMA SmoothBefore ==
  ASSUME ShapeInv, [FeedNext]_feedVars, smooth'
  PROVE  smooth
<1>1. smooth \in BOOLEAN
  BY DEF ShapeInv, PageInv
<1>2. CASE UNCHANGED smooth
  BY <1>2
<1>3. CASE AskPoll \/ Enter \/ \E n \in 1 .. Len(log) : Store(n)
  BY <1>1, <1>3 DEF AskPoll, Enter, Store
<1> QED
  BY <1>2, <1>3
  DEF FeedNext, feedVars, Stamp, Tick, AskInitial, LandInitial, LandPoll, PollFails, Refresh,
      Clear, SetPixelFilter, SetMode, TogglePause, Leave, Collect, ghosts

LEMMA GapNext == FeedAssumption /\ ShapeInv /\ OInv /\ GapInv /\ [FeedNext]_feedVars => GapInv'
<1> SUFFICES ASSUME FeedAssumption, ShapeInv, OInv, GapInv, [FeedNext]_feedVars, smooth'
             PROVE  NoGap' /\ WholeLoads'
  BY DEF GapInv
<1>0. smooth /\ WholeLoads'
  BY SmoothBefore, WholeNext DEF GapInv
<1> SUFFICES NoGap'
  BY <1>0
<1>1. ASSUME NEW q \in FeedPixels, Stamp(q) PROVE NoGap'
  <2>1. UNCHANGED <<mounted, hook, initialQ, pollQ, crossed>>
    BY <1>1 DEF Stamp, page, ghosts
  <2> QED
    BY <1>0, <1>1, <2>1, StampKeeps, SameFeedGap DEF GapInv, ShapeInv
<1>2. CASE \E n \in 1 .. Len(log) : Store(n)
  BY <1>0, <1>2, StoreGap DEF GapInv
<1>3. CASE Tick \/ (\E m \in {"live", "history"} : SetMode(m)) \/ TogglePause \/ UNCHANGED feedVars
  <2>1. UNCHANGED <<log, mounted, hook, initialQ, pollQ, smooth, crossed>>
    BY <1>3 DEF Tick, SetMode, TogglePause, feedVars, server, page, ghosts
  <2> QED
    BY <1>0, <2>1, SameLog, SameFeedGap DEF GapInv
<1>4. CASE Refresh \/ Clear \/ \E p \in Filters : SetPixelFilter(p)
  <2>1. smooth /\ UNCHANGED server
    BY <1>4 DEF Refresh, Clear, SetPixelFilter
  <2>2. ~crossed' => ~IsLoaded'
    BY <1>4, CrossedStays, ResetsOrder DEF OInv
  <2> QED
    BY <1>0, <2>1, <2>2, NothingShown DEF GapInv
<1>5. CASE AskInitial \/ Leave \/ Collect
  <2>1. smooth /\ UNCHANGED server
    BY <1>5 DEF AskInitial, Leave, Collect, ghosts
  <2>2. ~mounted' \/ ~IsLoaded'
    <3>1. CASE AskInitial
      <4>1. Key \in Keys /\ Key' = Key /\ initialQ \in [Keys -> Loads]
        BY <3>1, KeyIs DEF AskInitial, ShapeInv, LoadsInv, Key, hook
      <4>2. initialQ'[Key].at = "answered"
        BY <3>1, <4>1 DEF AskInitial
      <4> QED
        BY <4>1, <4>2 DEF IsLoaded
    <3>2. CASE Leave \/ Collect
      BY <3>2 DEF Leave, Collect, page
    <3> QED
      BY <1>5, <3>1, <3>2
  <2> QED
    BY <1>0, <2>1, <2>2, NothingShown DEF GapInv
<1>6. CASE Enter
  <2>1. /\ smooth /\ initialQ[<<All, 0>>].at = "none"
        /\ UNCHANGED <<server, initialQ, pixel, generation>>
        /\ pixel = All /\ generation = 0
    BY <1>6, EnterIs DEF ShapeInv, PageInv
  <2>2. ~IsLoaded'
    BY <2>1 DEF IsLoaded, Key
  <2> QED
    BY <1>0, <2>1, <2>2, NothingShown DEF GapInv
<1>7. CASE AskPoll
  BY <1>0, <1>7, AskPollGap DEF GapInv
<1>8. CASE \E k \in Keys : LandInitial(k)
  BY <1>0, <1>8, LandInitialGap DEF GapInv
<1>9. CASE \E p \in Filters : LandPoll(p) \/ PollFails(p)
  BY <1>0, <1>9, LandPollGap, PollFailsGap DEF GapInv
<1> QED
  BY <1>1, <1>2, <1>3, <1>4, <1>5, <1>6, <1>7, <1>8, <1>9 DEF FeedNext

(* The cursor passes no event by: what is stored after the oldest event    *)
(* shown and up to the cursor is shown too.  This needs rows that are      *)
(* committed in the order of their created_at and none with the time of    *)
(* another, a page opened with an empty cache, polls within ListRecent's   *)
(* five minutes (smooth), and no such reset.                               *)
THEOREM NothingIsSkipped == FeedSpec => []NothingSkipped
<1> USE FeedAssumption
<1>1. FeedInit => ShapeInv /\ OInv /\ GapInv
  <2> SUFFICES ASSUME FeedInit PROVE ShapeInv /\ OInv /\ GapInv
    OBVIOUS
  <2>1. ShapeInv /\ OInv
    BY ShapeInitially, OrderInitially DEF OInv
  <2>2. Stored = {} /\ ~mounted
    BY DEF FeedInit, Stored
  <2>3. WholeLoads
    BY EmptyIsGood DEF FeedInit, Emptied, NoLoad, WholeLoads
  <2> QED
    BY <2>1, <2>2, <2>3 DEF GapInv, NoGap, Apart
<1>2. ShapeInv /\ OInv /\ GapInv /\ [FeedNext]_feedVars => ShapeInv' /\ OInv' /\ GapInv'
  BY ShapeNext, OrderNext, GapNext
<1>3. ASSUME ShapeInv, OInv, GapInv PROVE NothingSkipped
  <2> SUFFICES ASSUME smooth, ~crossed, IsLoaded, FeedEvents # <<>>,
                      NEW n \in 1 .. Len(Of(pixel)),
                      Of(pixel)[n] > Last(FeedEvents), log[Of(pixel)[n]].at <= since
               PROVE  Of(pixel)[n] \in ToSet(FeedEvents)
    BY DEF NothingSkipped
  <2>1. Of(pixel)[n] \in Mine(pixel) /\ log[Of(pixel)[n]].at \in 1 .. now /\ now \in Nat
    <3>1. LogInv
      BY <1>3 DEF ShapeInv
    <3>2. Of(pixel) \in Seq(Mine(pixel)) /\ Mine(pixel) \subseteq Stored
      BY <3>1, OfIs, LogFacts DEF IsBatch
    <3>3. Of(pixel)[n] \in Mine(pixel)
      BY <3>2, ElementOfSeq
    <3> QED
      BY <3>1, <3>2, <3>3, LogFacts DEF LogInv
  <2>2. mounted
    BY <1>3, <2>1 DEF ShapeInv, PageInv, Blank
  <2>3. Filled
    BY <1>3, <2>2 DEF GapInv, NoGap
  <2> QED
    BY <2>1, <2>3 DEF Filled
<1> QED
  BY <1>1, <1>2, <1>3, PTL DEF FeedSpec

-----------------------------------------------------------------------------
(* The rate and the chart.                                                 *)
IsSum(f, v, m) == f = [n \in 0 .. m |-> IF n = 0 THEN 0 ELSE f[n - 1] + v[Buckets - n]]

LEMMA SumExists ==
  ASSUME NEW v, NEW n \in Nat
  PROVE  \E f : IsSum(f, v, n)
<1> DEFINE R == {m \in Nat : \E f : IsSum(f, v, m)}
<1>1. 0 \in R
  <2>1. IsSum([i \in 0 .. 0 |-> 0], v, 0)
    BY DEF IsSum
  <2> QED
    BY <2>1
<1>2. ASSUME NEW m \in R PROVE m + 1 \in R
  <2>1. PICK f : IsSum(f, v, m)
    OBVIOUS
  <2> DEFINE last == f[m] + v[Buckets - (m + 1)]
             g == [i \in 0 .. m + 1 |-> IF i = m + 1 THEN last ELSE f[i]]
  <2>2. m \in Nat
    OBVIOUS
  <2>3. \A i \in 0 .. m + 1 : g[i] = IF i = 0 THEN 0 ELSE g[i - 1] + v[Buckets - i]
    <3> TAKE i \in 0 .. m + 1
    <3> HIDE DEF last
    <3>1. CASE i = m + 1
      <4>1. g[i] = last /\ g[i - 1] = f[m] /\ i # 0
        BY <2>2, <3>1
      <4> QED
        BY <3>1, <4>1 DEF last
    <3>2. CASE i # m + 1
      <4>1. i \in 0 .. m /\ (i # 0 => i - 1 \in 0 .. m)
        BY <2>2, <3>2
      <4>2. g[i] = f[i] /\ (i # 0 => g[i - 1] = f[i - 1])
        BY <2>2, <4>1
      <4>3. f[i] = IF i = 0 THEN 0 ELSE f[i - 1] + v[Buckets - i]
        BY <2>1, <4>1 DEF IsSum
      <4> QED
        BY <4>2, <4>3
    <3> QED
      BY <3>1, <3>2
  <2> HIDE DEF last
  <2>4. IsSum(g, v, m + 1)
    BY <2>3 DEF IsSum
  <2> QED
    BY <2>4
<1> HIDE DEF R
<1>3. R = Nat
  BY <1>1, <1>2, SetInduction DEF R
<1> QED
  BY <1>3 DEF R

(* The events of the last n intervals, one after the other in the chart.   *)
Recent(n) == {m \in 1 .. Len(FeedEvents) : n # 0 /\ log[FeedEvents[m]].at >= now - n}
Slot(b) ==
  {m \in 1 .. Len(FeedEvents) : LET t == log[FeedEvents[m]].at
                                IN  t >= now - Buckets /\ BucketOf(t) = b}

LEMMA SlotIs ==
  ASSUME FeedAssumption, ShapeInv, NEW n \in 1 .. Buckets
  PROVE  /\ Recent(n) = Recent(n - 1) \cup Slot(Buckets - n)
         /\ Recent(n - 1) \cap Slot(Buckets - n) = {}
         /\ \A b : IsFiniteSet(Slot(b)) /\ IsFiniteSet(Recent(b))
<1>1. Buckets \in Nat /\ n \in Nat /\ n >= 1 /\ n <= Buckets
  BY DEF FeedAssumption
<1>2. /\ Len(FeedEvents) \in Nat /\ now \in Nat
      /\ \A m \in 1 .. Len(FeedEvents) :
           log[FeedEvents[m]].at \in Int /\ log[FeedEvents[m]].at <= now
  <2>1. FeedEvents \in Seq(Mine(pixel)) /\ LogInv
    BY ShownAre DEF ShapeInv
  <2>2. Mine(pixel) \subseteq Stored /\ \A i \in Stored : log[i].at \in 1 .. now
    BY <2>1, LogFacts
  <2>3. Len(FeedEvents) \in Nat /\ \A m \in 1 .. Len(FeedEvents) : FeedEvents[m] \in Mine(pixel)
    BY <2>1, LenProperties, ElementOfSeq
  <2> QED
    BY <2>1, <2>2, <2>3 DEF LogInv
<1>3. \A b : IsFiniteSet(Slot(b)) /\ IsFiniteSet(Recent(b))
  <2>1. IsFiniteSet(1 .. Len(FeedEvents))
    BY <1>2, FS_Interval
  <2>2. \A b : Slot(b) \subseteq 1 .. Len(FeedEvents) /\ Recent(b) \subseteq 1 .. Len(FeedEvents)
    BY DEF Slot, Recent
  <2> QED
    BY <2>1, <2>2, FS_Subset
<1>4. ASSUME NEW m \in 1 .. Len(FeedEvents)
      PROVE  /\ m \in Slot(Buckets - n) <=> m \in Recent(n) /\ m \notin Recent(n - 1)
             /\ m \in Recent(n - 1) => m \in Recent(n)
  <2> DEFINE t == log[FeedEvents[m]].at
  <2>1. t \in Int /\ now \in Int /\ t <= now
    BY <1>2
  <2>2. m \in Recent(n) <=> t >= now - n
    BY <1>1 DEF Recent
  <2>3. m \in Recent(n - 1) <=> n # 1 /\ t >= now - (n - 1)
    BY <1>1 DEF Recent
  <2>4. m \in Slot(Buckets - n) <=> t >= now - Buckets /\ BucketOf(t) = Buckets - n
    BY DEF Slot
  <2> HIDE DEF t
  <2>5. (t >= now - Buckets /\ BucketOf(t) = Buckets - n)
          <=> t >= now - n /\ ~(n # 1 /\ t >= now - (n - 1))
    BY <1>1, <2>1 DEF BucketOf
  <2>6. n # 1 /\ t >= now - (n - 1) => t >= now - n
    BY <1>1, <2>1
  <2> QED
    BY <2>2, <2>3, <2>4, <2>5, <2>6
<1>5. \A b : Slot(b) \subseteq 1 .. Len(FeedEvents) /\ Recent(b) \subseteq 1 .. Len(FeedEvents)
  BY DEF Slot, Recent
<1> QED
  BY <1>3, <1>4, <1>5

LEMMA SumIs ==
  ASSUME FeedAssumption, ShapeInv, NEW f, IsSum(f, TimeBuckets, Minute)
  PROVE  f[Minute] = EventsPerMinute
<1> DEFINE R == {n \in Nat : n <= Minute => f[n] = Cardinality(Recent(n))}
<1>1. Minute \in Nat \ {0} /\ Buckets \in Nat \ {0} /\ Minute <= Buckets
  BY DEF FeedAssumption
<1>2. 0 \in R
  <2>1. f[0] = 0
    BY <1>1 DEF IsSum
  <2>2. Recent(0) = {}
    BY DEF Recent
  <2> QED
    BY <2>1, <2>2, FS_EmptySet
<1>3. ASSUME NEW m \in R PROVE m + 1 \in R
  <2> SUFFICES ASSUME m + 1 <= Minute PROVE f[m + 1] = Cardinality(Recent(m + 1))
    OBVIOUS
  <2> DEFINE n == m + 1
  <2>1. m \in Nat /\ n \in 1 .. Buckets /\ n \in 0 .. Minute /\ n # 0 /\ n - 1 = m
        /\ f[m] = Cardinality(Recent(m)) /\ Buckets - n \in 0 .. Buckets - 1
    BY <1>1
  <2> HIDE DEF n
  <2>2. f[n] = f[n - 1] + TimeBuckets[Buckets - n]
    BY <2>1 DEF IsSum
  <2>3. TimeBuckets[Buckets - n] = Cardinality(Slot(Buckets - n))
    BY <2>1 DEF TimeBuckets, Slot
  <2>4. /\ Recent(n) = Recent(m) \cup Slot(Buckets - n) /\ Recent(m) \cap Slot(Buckets - n) = {}
        /\ IsFiniteSet(Recent(m)) /\ IsFiniteSet(Slot(Buckets - n))
    BY <2>1, SlotIs
  <2>5. Cardinality(Recent(n)) = Cardinality(Recent(m)) + Cardinality(Slot(Buckets - n))
    <3>1. Cardinality(Recent(m)) \in Nat /\ Cardinality(Slot(Buckets - n)) \in Nat
      BY <2>4, FS_CardinalityType
    <3> DEFINE S == Recent(m)
               T == Slot(Buckets - n)
    <3>2. Recent(n) = S \cup T /\ S \cap T = {} /\ IsFiniteSet(S) /\ IsFiniteSet(T)
      BY <2>4
    <3> HIDE DEF S, T
    <3>3. Cardinality(S \cup T) = Cardinality(S) + Cardinality(T) - Cardinality(S \cap T)
      BY <3>2, FS_Union
    <3>4. Cardinality(S \cap T) = 0
      BY <3>2, FS_EmptySet
    <3>5. Cardinality(S \cup T) = Cardinality(S) + Cardinality(T)
      BY <3>1, <3>3, <3>4 DEF S, T
    <3> QED
      BY <3>2, <3>5 DEF S, T
  <2> QED
    BY <2>1, <2>2, <2>3, <2>5 DEF n
<1> HIDE DEF R
<1>4. R = Nat
  BY <1>2, <1>3, SetInduction DEF R
<1>5. f[Minute] = Cardinality(Recent(Minute))
  BY <1>1, <1>4 DEF R
<1>6. EventsPerMinute = Cardinality(Recent(Minute))
  BY <1>1 DEF EventsPerMinute, Recent
<1> QED
  BY <1>5, <1>6

(* The two figures computed from the feed agree: the events of the last    *)
(* minute are those of the chart's last intervals.                         *)
THEOREM TheRateMatchesTheChart == FeedSpec => []RateMatchesChart
<1> USE FeedAssumption
<1>1. ASSUME ShapeInv PROVE RateMatchesChart
  <2> DEFINE f == CHOOSE h : IsSum(h, TimeBuckets, Minute)
  <2>1. IsSum(f, TimeBuckets, Minute)
    BY SumExists DEF FeedAssumption
  <2>2. RateMatchesChart <=> EventsPerMinute = f[Minute]
    BY DEF RateMatchesChart, IsSum
  <2> HIDE DEF f
  <2> QED
    BY <1>1, <2>1, <2>2, SumIs
<1> QED
  BY <1>1, ShapeHolds, PTL

=============================================================================
