--------------------------- MODULE StorefrontProofs ---------------------------
(***************************************************************************)
(* What is true of Storefront for every value of its constants: for any    *)
(* number of pages, slugs, owners, visitors and domains, and any lifetime. *)
(***************************************************************************)
EXTENDS Storefront, TLAPS

-----------------------------------------------------------------------------
(* The invariant, part by part.                                            *)

VisitRecord ==
  [at : {"idle", "set", "put"}, slug : Slugs \cup {None}, host : Hosts \cup {None},
   since : 0 .. Delay, text : Texts \cup {None}, read : Ages, late : BOOLEAN]
SaveRecord ==
  [at : {"idle", "write", "delete", "tell"}, page : Pages \cup {None}, old : Slugs \cup {None},
   new : Row \cup {None}, tell : SUBSET Slugs]

(* A request under way has read the row since it began, or was given what  *)
(* the cache may hold when it began.                                       *)
VisitOK(x) ==
  /\ x \in VisitRecord
  /\ x.at = "set" => x.slug \in Slugs /\ x.text \in Texts /\ x.read <= x.since
  /\ x.at = "put" => x.host \in Hosts /\ x.read <= Delay + Ttl + x.since

SaveOK(x) ==
  /\ x \in SaveRecord
  /\ x.at # "tell" => x.tell = {}
  /\ x.at \in {"write", "delete"} => x.page \in Pages /\ x.old \in Slugs
  /\ x.at = "write" => x.new \in Row

EntryOK(e)  == e \in Entry /\ e.kept <= Ttl /\ e.read <= Delay + e.kept
AnswerOK(a) == a \in Answer /\ a.kept < EdgeTtl /\ a.read <= Delay + Ttl + Delay + a.kept

RowsOK ==
  /\ row \in [Pages -> {None} \cup Row] /\ edits \in Texts
  /\ \A p, q \in Pages : There(p) /\ There(q) /\ row[p].slug = row[q].slug => p = q
CacheOK  == /\ cache \in [Slugs -> {None} \cup Entry]
            /\ \A s \in Slugs : cache[s] # None => EntryOK(cache[s])
EdgeOK   == /\ edge \in [Hosts -> {None} \cup Answer]
            /\ \A h \in Hosts : edge[h] # None => AnswerOK(edge[h])
VisitsOK == visit \in [Visitors -> VisitRecord] /\ \A v \in Visitors : VisitOK(visit[v])
SavesOK  == save \in [Owners -> SaveRecord] /\ \A o \in Owners : SaveOK(save[o])

StoreInv == RowsOK /\ CacheOK /\ EdgeOK /\ VisitsOK /\ SavesOK

LEMMA InvImpliesType == StoreInv => StoreTypeOK
  BY DEF StoreInv, RowsOK, CacheOK, EdgeOK, VisitsOK, SavesOK, VisitRecord, SaveRecord, StoreTypeOK

LEMMA InvImpliesAges == StoreInv => OldPagesGoAway
<1> SUFFICES ASSUME StoreInv PROVE OldPagesGoAway
  OBVIOUS
<1>1. ASSUME NEW s \in Slugs, Fresh(s) PROVE cache[s].read <= Delay + Ttl
  <2>1. EntryOK(cache[s])
    BY <1>1 DEF StoreInv, CacheOK, Fresh
  <2> QED
    BY <2>1, StorefrontAssumption DEF EntryOK, Entry, Ages, Oldest
<1>2. ASSUME NEW h \in Hosts, edge[h] # None
      PROVE  edge[h].read < Delay + Ttl + Delay + EdgeTtl
  <2>1. AnswerOK(edge[h])
    BY <1>2 DEF StoreInv, EdgeOK
  <2> QED
    BY <2>1, StorefrontAssumption DEF AnswerOK, Answer, Ages, Oldest
<1> QED
  BY <1>1, <1>2 DEF OldPagesGoAway

-----------------------------------------------------------------------------
(* The values the actions write.                                           *)

LEMMA QuietIsOK == VisitOK(Quiet)
  BY StorefrontAssumption DEF VisitOK, VisitRecord, Quiet, Ages, Oldest

LEMMA IdleIsOK == SaveOK(Idle)
  BY DEF SaveOK, SaveRecord, Idle

LEMMA OlderAge == ASSUME NEW n \in Ages PROVE Older(n) \in Ages /\ Older(n) <= n + 1
  BY StorefrontAssumption DEF Older, Ages, Oldest

LEMMA InvInitially == StoreInit => StoreInv
<1> SUFFICES ASSUME StoreInit PROVE StoreInv
  OBVIOUS
<1>1. RowsOK
  BY StorefrontAssumption DEF StoreInit, RowsOK, Row, Texts, There
<1>2. CacheOK /\ EdgeOK
  BY DEF StoreInit, CacheOK, EdgeOK
<1>3. VisitsOK
  BY QuietIsOK DEF StoreInit, VisitsOK, VisitOK
<1>4. SavesOK
  BY IdleIsOK DEF StoreInit, SavesOK, SaveOK
<1> QED
  BY <1>1, <1>2, <1>3, <1>4 DEF StoreInv

LEMMA VisitChanged ==
  ASSUME VisitsOK, NEW v \in Visitors, NEW x, VisitOK(x), visit' = [visit EXCEPT ![v] = x]
  PROVE  VisitsOK'
  BY DEF VisitsOK, VisitOK

LEMMA SaveChanged ==
  ASSUME SavesOK, NEW o \in Owners, NEW x, SaveOK(x), save' = [save EXCEPT ![o] = x]
  PROVE  SavesOK'
  BY DEF SavesOK, SaveOK

LEMMA RowChanged ==
  ASSUME RowsOK, NEW p \in Pages, NEW r \in {None} \cup Row, r # None => FreeSlug(r.slug, p),
         row' = [row EXCEPT ![p] = r], edits' \in Texts
  PROVE  RowsOK'
<1>1. row' \in [Pages -> {None} \cup Row]
  BY DEF RowsOK
<1>2. ASSUME NEW a \in Pages, NEW b \in Pages, There(a)', There(b)', row'[a].slug = row'[b].slug, a # b
      PROVE  FALSE
  <2>1. CASE a = p
    BY <2>1, <1>2 DEF RowsOK, There, FreeSlug
  <2>2. CASE b = p
    BY <2>2, <1>2 DEF RowsOK, There, FreeSlug
  <2>3. CASE a # p /\ b # p
    BY <2>3, <1>2 DEF RowsOK, There
  <2> QED
    BY <2>1, <2>2, <2>3
<1> QED
  BY <1>1, <1>2 DEF RowsOK, There

(* What somebody else's mark changes.                                      *)
LEMMA MarkedVisits ==
  ASSUME VisitsOK, NEW S,
         visit' = [v \in Visitors |-> IF \E s \in S : Reading(v, s)
                                      THEN [visit[v] EXCEPT !.late = TRUE] ELSE visit[v]]
  PROVE  VisitsOK'
<1>1. ASSUME NEW v \in Visitors PROVE VisitOK(visit'[v])
  <2>1. VisitOK(visit[v])
    BY DEF VisitsOK
  <2>2. VisitOK([visit[v] EXCEPT !.late = TRUE])
    BY <2>1 DEF VisitOK, VisitRecord
  <2> QED
    BY <2>1, <2>2
<1> QED
  BY <1>1 DEF VisitsOK, VisitOK

LEMMA InvalidateKeeps == ASSUME CacheOK, VisitsOK, NEW S, Invalidate(S) PROVE CacheOK' /\ VisitsOK'
<1>1. VisitsOK'
  BY MarkedVisits DEF Invalidate
<1>2. CacheOK'
  BY DEF Invalidate, CacheOK, EntryOK
<1> QED
  BY <1>1, <1>2

LEMMA UntoldKeeps == ASSUME CacheOK, VisitsOK, NEW S, Untold(S) PROVE CacheOK' /\ VisitsOK'
<1>1. VisitsOK'
  BY MarkedVisits DEF Untold
<1>2. ASSUME NEW s \in Slugs, cache'[s] # None PROVE EntryOK(cache'[s])
  <2>1. cache[s] # None /\ EntryOK(cache[s])
    BY <1>2 DEF Untold, CacheOK
  <2>2. EntryOK([cache[s] EXCEPT !.late = TRUE])
    BY <2>1 DEF EntryOK, Entry
  <2> QED
    BY <2>1, <2>2 DEF Untold
<1>3. CacheOK'
  BY <1>2 DEF Untold, CacheOK, EntryOK
<1> QED
  BY <1>1, <1>3

-----------------------------------------------------------------------------
(* Each action keeps the invariant.                                        *)

LEMMA AnswerPut ==
  ASSUME VisitsOK, NEW v \in Visitors, NEW h \in Hosts \cup {None}, NEW r \in Ages,
         r <= Delay + Ttl + visit[v].since
  PROVE  VisitOK(Answered(v, h, r))
<1>1. CASE h = None
  BY <1>1, QuietIsOK DEF Answered
<1>2. CASE h # None
  <2>1. visit[v].since \in 0 .. Delay
    BY DEF VisitsOK, VisitRecord
  <2>2. Answered(v, h, r) = [at |-> "put", slug |-> None, host |-> h, since |-> visit[v].since,
                             text |-> None, read |-> r, late |-> FALSE]
    BY <1>2 DEF Answered, Quiet
  <2> QED
    BY <1>2, <2>1, <2>2 DEF VisitOK, VisitRecord
<1> QED
  BY <1>1, <1>2

LEMMA GetKeepsInv ==
  ASSUME StoreInv, NEW v \in Visitors, NEW s \in Slugs, NEW h \in Hosts \cup {None}, Get(v, s, h)
  PROVE  StoreInv'
<1> USE DEF StoreInv
<1>1. CASE Fresh(s) /\ h # None /\ visit' = [visit EXCEPT ![v] = Answered(v, h, cache[s].read)]
  <2>1. EntryOK(cache[s]) /\ visit[v].since \in 0 .. Delay
    BY <1>1 DEF CacheOK, Fresh, VisitsOK, VisitRecord
  <2>2. cache[s].read \in Ages /\ cache[s].read <= Delay + Ttl + visit[v].since
    BY <2>1, StorefrontAssumption DEF EntryOK, Entry, Ages, Oldest
  <2>3. VisitOK(Answered(v, h, cache[s].read))
    BY <2>2, AnswerPut
  <2>4. VisitsOK'
    BY <1>1, <2>3, VisitChanged
  <2> QED
    BY <2>4 DEF Get, RowsOK, There, CacheOK, EdgeOK, SavesOK
<1>2. ASSUME NEW p \in Pages, Shows(p, s),
             visit' = [visit EXCEPT ![v] = [Quiet EXCEPT !.at = "set", !.slug = s, !.host = h,
                                                         !.text = row[p].text]]
      PROVE  StoreInv'
  <2>1. row[p] \in Row
    BY <1>2 DEF RowsOK, Shows, There
  <2>2. /\ row[p].text \in Texts
        /\ 0 \in Ages /\ 0 \in 0 .. Delay
    BY <2>1, StorefrontAssumption DEF Row, Ages, Oldest
  <2> DEFINE x == [Quiet EXCEPT !.at = "set", !.slug = s, !.host = h, !.text = row[p].text]
  <2>3. visit' = [visit EXCEPT ![v] = x]
    BY <1>2
  <2>4. VisitOK(x)
    <3>1. x \in VisitRecord
      BY <2>2, QuietIsOK DEF VisitOK, VisitRecord
    <3>2. x.at = "set" /\ x.slug = s /\ x.text = row[p].text /\ x.read = 0 /\ x.since = 0
      BY DEF Quiet
    <3> HIDE DEF x
    <3> QED
      BY <2>2, <3>1, <3>2 DEF VisitOK
  <2> HIDE DEF x
  <2>5. VisitsOK'
    BY <2>3, <2>4, VisitChanged
  <2> QED
    BY <2>5 DEF Get, RowsOK, There, CacheOK, EdgeOK, SavesOK
<1> QED
  BY <1>1, <1>2 DEF Get

LEMMA VisitsKeepInv ==
  ASSUME StoreInv, NEW v \in Visitors,
         Visit(v) \/ (\E h \in Hosts : VisitHost(v, h)) \/ VisitFails(v) \/ Set(v) \/ Put(v)
  PROVE  StoreInv'
<1>1. CASE Visit(v) \/ (\E h \in Hosts : VisitHost(v, h))
  BY <1>1, GetKeepsInv DEF Visit, VisitHost
<1> USE DEF StoreInv
<1>2. CASE VisitFails(v)
  <2>1. VisitsOK'
    BY <1>2, QuietIsOK, VisitChanged DEF VisitFails
  <2> QED
    BY <1>2, <2>1 DEF VisitFails, RowsOK, There, CacheOK, EdgeOK, SavesOK
<1>3. CASE Set(v)
  <2>1. VisitOK(visit[v]) /\ visit[v] \in VisitRecord /\ visit[v].at = "set"
    BY <1>3 DEF Set, VisitsOK
  <2>2. /\ visit[v].slug \in Slugs /\ visit[v].text \in Texts /\ visit[v].read <= visit[v].since
        /\ visit[v].read \in Ages /\ visit[v].since \in 0 .. Delay
        /\ visit[v].host \in Hosts \cup {None} /\ visit[v].late \in BOOLEAN
    BY <2>1 DEF VisitOK, VisitRecord
  <2>3. visit[v].read <= Delay + Ttl + visit[v].since
    BY <2>2, StorefrontAssumption DEF Ages, Oldest
  <2>4. VisitsOK'
    BY <1>3, <2>2, <2>3, AnswerPut, VisitChanged DEF Set
  <2> DEFINE e == [text |-> visit[v].text, read |-> visit[v].read, kept |-> 0, late |-> visit[v].late]
  <2>5. EntryOK(e)
    BY <2>2, StorefrontAssumption DEF EntryOK, Entry, Ages, Oldest
  <2>6. cache' = [cache EXCEPT ![visit[v].slug] = e]
    BY <1>3 DEF Set
  <2> HIDE DEF e
  <2>7. CacheOK'
    BY <2>2, <2>5, <2>6 DEF CacheOK, EntryOK
  <2> QED
    BY <1>3, <2>4, <2>7 DEF Set, RowsOK, There, EdgeOK, SavesOK
<1>4. CASE Put(v)
  <2>1. VisitOK(visit[v]) /\ visit[v] \in VisitRecord /\ visit[v].at = "put"
    BY <1>4 DEF Put, VisitsOK
  <2>2. /\ visit[v].host \in Hosts /\ visit[v].read <= Delay + Ttl + visit[v].since
        /\ visit[v].read \in Ages /\ visit[v].since \in 0 .. Delay
    BY <2>1 DEF VisitOK, VisitRecord
  <2> DEFINE a == [read |-> visit[v].read, kept |-> 0]
  <2>3. AnswerOK(a)
    BY <2>2, StorefrontAssumption DEF AnswerOK, Answer, Ages, Oldest
  <2>4. edge' = [edge EXCEPT ![visit[v].host] = a]
    BY <1>4 DEF Put
  <2> HIDE DEF a
  <2>5. EdgeOK'
    BY <2>2, <2>3, <2>4 DEF EdgeOK, AnswerOK
  <2>6. VisitsOK'
    BY <1>4, QuietIsOK, VisitChanged DEF Put
  <2> QED
    BY <1>4, <2>5, <2>6 DEF Put, RowsOK, There, CacheOK, SavesOK
<1> QED
  BY <1>1, <1>2, <1>3, <1>4

LEMMA TickKeepsInv == ASSUME StoreInv, Tick PROVE StoreInv'
<1> USE DEF StoreInv
<1>1. ASSUME NEW s \in Slugs, cache'[s] # None PROVE cache'[s] \in Entry /\ EntryOK(cache'[s])
  <2>1. cache[s] # None /\ EntryOK(cache[s]) /\ ~ (cache[s].kept >= Ttl)
    BY <1>1 DEF Tick, Aged, CacheOK
  <2>2. /\ cache[s] \in Entry /\ cache[s].kept \in Ages /\ cache[s].read \in Ages
        /\ cache[s].kept < Ttl /\ cache[s].read <= Delay + cache[s].kept
    BY <2>1, StorefrontAssumption DEF EntryOK, Entry, Ages, Oldest
  <2>3. Older(cache[s].kept) = cache[s].kept + 1
    BY <2>2, StorefrontAssumption DEF Older, Ages, Oldest
  <2>4. Older(cache[s].read) \in Ages /\ Older(cache[s].read) <= cache[s].read + 1
        /\ Older(cache[s].kept) \in Ages
    BY <2>2, OlderAge
  <2>5. cache'[s] = [cache[s] EXCEPT !.read = Older(@), !.kept = Older(@)]
    BY <2>1 DEF Tick, Aged
  <2>6. cache'[s] \in Entry /\ cache'[s].read = Older(cache[s].read) /\ cache'[s].kept = Older(cache[s].kept)
    BY <2>2, <2>4, <2>5 DEF Entry
  <2> QED
    BY <2>2, <2>3, <2>4, <2>6, StorefrontAssumption DEF EntryOK, Ages, Oldest
<1>2. CacheOK'
  BY <1>1 DEF Tick, CacheOK
<1>3. ASSUME NEW h \in Hosts, edge'[h] # None PROVE edge'[h] \in Answer /\ AnswerOK(edge'[h])
  <2>1. edge[h] # None /\ AnswerOK(edge[h]) /\ ~ (edge[h].kept >= EdgeTtl - 1)
    BY <1>3 DEF Tick, Aged, EdgeOK
  <2>2. /\ edge[h] \in Answer /\ edge[h].kept \in Ages /\ edge[h].read \in Ages
        /\ edge[h].kept < EdgeTtl - 1 /\ edge[h].read <= Delay + Ttl + Delay + edge[h].kept
    BY <2>1, StorefrontAssumption DEF AnswerOK, Answer, Ages, Oldest
  <2>3. Older(edge[h].kept) = edge[h].kept + 1
    BY <2>2, StorefrontAssumption DEF Older, Ages, Oldest
  <2>4. Older(edge[h].read) \in Ages /\ Older(edge[h].read) <= edge[h].read + 1
        /\ Older(edge[h].kept) \in Ages
    BY <2>2, OlderAge
  <2>5. edge'[h] = [edge[h] EXCEPT !.read = Older(@), !.kept = Older(@)]
    BY <2>1 DEF Tick, Aged
  <2>6. edge'[h] \in Answer /\ edge'[h].read = Older(edge[h].read) /\ edge'[h].kept = Older(edge[h].kept)
    BY <2>2, <2>4, <2>5 DEF Answer
  <2> QED
    BY <2>2, <2>3, <2>4, <2>6, StorefrontAssumption DEF AnswerOK, Ages, Oldest
<1>4. EdgeOK'
  BY <1>3 DEF Tick, EdgeOK
<1>5. ASSUME NEW v \in Visitors PROVE visit'[v] \in VisitRecord /\ VisitOK(visit'[v])
  <2>1. VisitOK(visit[v]) /\ visit[v] \in VisitRecord /\ visit[v].since < Delay
    BY DEF Tick, VisitsOK
  <2>2. CASE visit[v].at = "idle"
    BY <2>1, <2>2 DEF Tick
  <2>3. CASE visit[v].at # "idle"
    <3> DEFINE x == [visit[v] EXCEPT !.since = @ + 1, !.read = Older(@)]
    <3>1. visit'[v] = x
      BY <2>3 DEF Tick
    <3>2. visit[v].read \in Ages /\ visit[v].since \in 0 .. Delay
      BY <2>1 DEF VisitRecord
    <3>3. Older(visit[v].read) \in Ages /\ Older(visit[v].read) <= visit[v].read + 1
      BY <3>2, OlderAge
    <3>4. visit[v].since + 1 \in 0 .. Delay
      BY <2>1, <3>2, StorefrontAssumption
    <3>5. /\ x \in VisitRecord /\ x.at = visit[v].at /\ x.slug = visit[v].slug /\ x.text = visit[v].text
          /\ x.host = visit[v].host /\ x.since = visit[v].since + 1 /\ x.read = Older(visit[v].read)
      BY <2>1, <3>3, <3>4 DEF VisitRecord
    <3> HIDE DEF x
    <3>6. x.at = "set" => x.slug \in Slugs /\ x.text \in Texts /\ x.read <= x.since
      BY <2>1, <3>2, <3>3, <3>5 DEF VisitOK, Ages
    <3>7. x.at = "put" => x.host \in Hosts /\ x.read <= Delay + Ttl + x.since
      BY <2>1, <3>2, <3>3, <3>5, StorefrontAssumption DEF VisitOK, Ages, Oldest
    <3> QED
      BY <3>1, <3>5, <3>6, <3>7 DEF VisitOK
  <2> QED
    BY <2>2, <2>3
<1>6. VisitsOK'
  BY <1>5 DEF Tick, VisitsOK
<1> QED
  BY <1>2, <1>4, <1>6 DEF Tick, RowsOK, There, SavesOK

LEMMA RestartKeepsInv == ASSUME StoreInv, Restart PROVE StoreInv'
<1>1. CacheOK'
  BY DEF Restart, CacheOK, StoreInv
<1>2. VisitsOK'
  BY QuietIsOK DEF Restart, VisitsOK, VisitOK
<1>3. SavesOK'
  BY IdleIsOK DEF Restart, SavesOK, SaveOK
<1> QED
  BY <1>1, <1>2, <1>3 DEF Restart, StoreInv, RowsOK, There, EdgeOK

LEMMA ReadsKeepInv ==
  ASSUME StoreInv, NEW o \in Owners, NEW p \in Pages, UpdateRead(o, p) \/ DeleteRead(o, p)
  PROVE  StoreInv'
<1> USE DEF StoreInv
<1>1. row[p] \in Row /\ row[p].slug \in Slugs /\ row[p].text \in Texts /\ row[p].live \in BOOLEAN
  BY DEF UpdateRead, DeleteRead, There, RowsOK, Row
<1>2. CASE UpdateRead(o, p)
  <2>1. PICK s \in Slugs, live \in BOOLEAN, anew \in BOOLEAN :
          /\ anew => edits < MaxEdits
          /\ edits' = IF anew THEN edits + 1 ELSE edits
          /\ save' = [save EXCEPT ![o] =
               [Idle EXCEPT !.at = "write", !.page = p, !.old = row[p].slug,
                !.new = [row[p] EXCEPT !.slug = s, !.live = live,
                                       !.text = IF anew THEN edits + 1 ELSE @]]]
    BY <1>2 DEF UpdateRead
  <2>2. edits \in Texts /\ edits' \in Texts /\ (anew => edits + 1 \in Texts)
    BY <2>1, StorefrontAssumption DEF RowsOK, Texts
  <2> DEFINE r == [row[p] EXCEPT !.slug = s, !.live = live, !.text = IF anew THEN edits + 1 ELSE @]
             x == [Idle EXCEPT !.at = "write", !.page = p, !.old = row[p].slug, !.new = r]
  <2>3. r \in Row
    BY <1>1, <2>2 DEF Row
  <2>4. save' = [save EXCEPT ![o] = x]
    BY <2>1
  <2> HIDE DEF r
  <2>5. SaveOK(x)
    BY <1>1, <2>3 DEF SaveOK, SaveRecord, Idle
  <2> HIDE DEF x
  <2>6. SavesOK'
    BY <2>4, <2>5, SaveChanged
  <2> QED
    BY <1>2, <2>2, <2>6 DEF UpdateRead, origin, RowsOK, There, CacheOK, EdgeOK, VisitsOK
<1>3. CASE DeleteRead(o, p)
  <2> DEFINE x == [Idle EXCEPT !.at = "delete", !.page = p, !.old = row[p].slug]
  <2>1. save' = [save EXCEPT ![o] = x]
    BY <1>3 DEF DeleteRead
  <2>2. SaveOK(x)
    BY <1>1 DEF SaveOK, SaveRecord, Idle
  <2> HIDE DEF x
  <2>3. SavesOK'
    BY <2>1, <2>2, SaveChanged
  <2> QED
    BY <1>3, <2>3 DEF DeleteRead, origin, RowsOK, There, CacheOK, EdgeOK, VisitsOK
<1> QED
  BY <1>2, <1>3

LEMMA TellingOK ==
  ASSUME NEW S \in SUBSET Slugs
  PROVE  SaveOK([Idle EXCEPT !.at = "tell", !.tell = S])
  BY DEF SaveOK, SaveRecord, Idle

LEMMA WritesKeepInv ==
  ASSUME StoreInv, NEW o \in Owners,
         UpdateWrite(o) \/ DeleteWrite(o) \/ Tell(o) \/ SaveFails(o) \/ SaveUnheard(o)
  PROVE  StoreInv'
<1> USE DEF StoreInv
<1>1. SaveOK(save[o]) /\ save[o] \in SaveRecord
  BY DEF SavesOK
<1>2. save[o].at \in {"write", "delete"} => save[o].page \in Pages /\ save[o].old \in Slugs
  BY <1>1 DEF SaveOK
<1>3. save[o].at = "write" => save[o].new \in Row /\ save[o].new.slug \in Slugs
  BY <1>1 DEF SaveOK, Row
<1>4. CASE UpdateWrite(o)
  <2> DEFINE p == save[o].page
  <2>1. /\ save[o].at = "write" /\ p \in Pages /\ save[o].old \in Slugs
        /\ save[o].new \in Row /\ save[o].new.slug \in Slugs
    BY <1>2, <1>3, <1>4 DEF UpdateWrite
  <2>2. CacheOK' /\ VisitsOK'
    BY <1>4, UntoldKeeps DEF UpdateWrite
  <2>3. SavesOK'
    BY <1>4, <2>1, TellingOK, SaveChanged DEF UpdateWrite, Tells
  <2>4. CASE There(p)
    <3>1. row' = [row EXCEPT ![p] = save[o].new] /\ edits' \in Texts
      BY <1>4, <2>4 DEF UpdateWrite, RowsOK
    <3>2. FreeSlug(save[o].new.slug, p)
      BY <1>4 DEF UpdateWrite
    <3>3. RowsOK'
      BY <2>1, <3>1, <3>2, RowChanged
    <3> QED
      BY <1>4, <2>2, <2>3, <3>3 DEF UpdateWrite, EdgeOK
  <2>5. CASE ~ There(p)
    BY <1>4, <2>2, <2>3, <2>5 DEF UpdateWrite, RowsOK, There, EdgeOK
  <2> QED
    BY <2>4, <2>5
<1>5. CASE DeleteWrite(o)
  <2>1. CacheOK' /\ VisitsOK'
    BY <1>5, UntoldKeeps DEF DeleteWrite
  <2>2. SavesOK'
    BY <1>2, <1>5, TellingOK, SaveChanged DEF DeleteWrite
  <2>3. RowsOK'
    BY <1>2, <1>5, RowChanged DEF DeleteWrite, RowsOK
  <2> QED
    BY <1>5, <2>1, <2>2, <2>3 DEF DeleteWrite, EdgeOK
<1>6. CASE Tell(o)
  <2>1. CacheOK' /\ VisitsOK'
    BY <1>6, InvalidateKeeps DEF Tell
  <2>2. SavesOK'
    BY <1>6, IdleIsOK, SaveChanged DEF Tell
  <2> QED
    BY <1>6, <2>1, <2>2 DEF Tell, RowsOK, There, EdgeOK
<1>7. CASE SaveFails(o)
  <2>1. SavesOK'
    BY <1>7, IdleIsOK, SaveChanged DEF SaveFails
  <2> QED
    BY <1>7, <2>1 DEF SaveFails, origin, RowsOK, There, CacheOK, EdgeOK, VisitsOK
<1>8. CASE SaveUnheard(o)
  <2> DEFINE p == save[o].page
  <2>1. p \in Pages /\ edits' \in Texts
    BY <1>2, <1>8 DEF SaveUnheard, RowsOK
  <2>2. CacheOK' /\ VisitsOK'
    BY <1>8, UntoldKeeps DEF SaveUnheard
  <2>3. SavesOK'
    BY <1>8, IdleIsOK, SaveChanged DEF SaveUnheard
  <2>4. CASE save[o].at = "write" /\ FreeSlug(save[o].new.slug, p) /\ row' = [row EXCEPT ![p] = save[o].new]
    <3>1. RowsOK'
      BY <1>3, <2>1, <2>4, RowChanged
    <3> QED
      BY <1>8, <2>2, <2>3, <3>1 DEF SaveUnheard, EdgeOK
  <2>5. CASE row' = [row EXCEPT ![p] = None]
    <3>1. RowsOK'
      BY <2>1, <2>5, RowChanged
    <3> QED
      BY <1>8, <2>2, <2>3, <3>1 DEF SaveUnheard, EdgeOK
  <2> QED
    BY <1>8, <2>4, <2>5 DEF SaveUnheard
<1> QED
  BY <1>4, <1>5, <1>6, <1>7, <1>8

LEMMA PagesKeepInv ==
  ASSUME StoreInv, NEW p \in Pages, Create(p) \/ SetPublished(p) \/ AdminDelete(p)
  PROVE  StoreInv'
<1> USE DEF StoreInv
<1>1. CASE Create(p)
  <2>1. PICK s \in Slugs, live \in BOOLEAN :
          /\ FreeSlug(s, p)
          /\ row' = [row EXCEPT ![p] = [slug |-> s, text |-> edits + 1, live |-> live]]
    BY <1>1 DEF Create
  <2>2. edits + 1 \in Texts /\ edits' \in Texts
    BY <1>1, StorefrontAssumption DEF Create, NewText, RowsOK, Texts
  <2>3. [slug |-> s, text |-> edits + 1, live |-> live] \in Row
    BY <2>2 DEF Row
  <2>4. RowsOK'
    BY <2>1, <2>2, <2>3, RowChanged
  <2> QED
    BY <1>1, <2>4 DEF Create, origin, CacheOK, EdgeOK, VisitsOK, SavesOK
<1>2. CASE SetPublished(p)
  <2> DEFINE r == [row[p] EXCEPT !.live = ~ @]
  <2>1. row[p] \in Row /\ There(p)
    BY <1>2 DEF SetPublished, There, RowsOK
  <2>2. r \in Row /\ r.slug = row[p].slug
    BY <2>1 DEF Row
  <2>3. FreeSlug(row[p].slug, p)
    BY <2>1 DEF FreeSlug, RowsOK
  <2>4. row' = [row EXCEPT ![p] = r] /\ edits' \in Texts
    BY <1>2 DEF SetPublished, RowsOK
  <2> HIDE DEF r
  <2>5. RowsOK'
    BY <2>2, <2>3, <2>4, RowChanged
  <2>6. CacheOK' /\ VisitsOK'
    BY <1>2, UntoldKeeps DEF SetPublished
  <2> QED
    BY <1>2, <2>5, <2>6 DEF SetPublished, EdgeOK, SavesOK
<1>3. CASE AdminDelete(p)
  <2>1. RowsOK'
    BY <1>3, RowChanged DEF AdminDelete, RowsOK
  <2>2. CacheOK' /\ VisitsOK'
    BY <1>3, UntoldKeeps DEF AdminDelete
  <2> QED
    BY <1>3, <2>1, <2>2 DEF AdminDelete, EdgeOK, SavesOK
<1> QED
  BY <1>1, <1>2, <1>3

LEMMA NextKeepsInv == ASSUME StoreInv, [StoreNext]_storeVars PROVE StoreInv'
<1>1. CASE UNCHANGED storeVars
  BY <1>1 DEF storeVars, StoreInv, RowsOK, There, CacheOK, EdgeOK, VisitsOK, SavesOK
<1>2. CASE StoreNext
  BY <1>2, RestartKeepsInv, TickKeepsInv, VisitsKeepInv, PagesKeepInv, ReadsKeepInv, WritesKeepInv
     DEF StoreNext
<1> QED
  BY <1>1, <1>2

LEMMA InvAlways == StoreSpec => []StoreInv
<1>1. StoreInv /\ [StoreNext]_storeVars => StoreInv'
  BY NextKeepsInv
<1> QED
  BY InvInitially, <1>1, PTL DEF StoreSpec

(* Every variable keeps its type, and no two pages come to one slug        *)
(* (the unique index and the checks of Create and Update).                 *)
THEOREM StoreTypeCorrect == StoreSpec => []StoreTypeOK
  BY InvAlways, InvImpliesType, PTL

(* A page that nobody invalidated goes away by its age: on the server      *)
(* after Ttl and a request, on a customer's domain after both lifetimes    *)
(* and two requests (sale_page_cache.go, workers/custom-domain).           *)
THEOREM OldPagesExpire == StoreSpec => []OldPagesGoAway
  BY InvAlways, InvImpliesAges, PTL
-----------------------------------------------------------------------------
(* What is shown is what was saved.  The invariant says of the requests    *)
(* that have read a row what OwnChangesShow says of the cache.             *)

Matches(s, t) == \E p \in Pages : Shows(p, s) /\ row[p].text = t
Told(s)       == \E o \in Owners : s \in save[o].tell

CacheCurrent ==
  \A s \in Slugs : cache[s] # None /\ ~ cache[s].late /\ ~ Told(s) => Matches(s, cache[s].text)
VisitsCurrent ==
  \A v \in Visitors, s \in Slugs :
    Reading(v, s) /\ ~ visit[v].late /\ ~ Told(s) => Matches(s, visit[v].text)
Current == CacheCurrent /\ VisitsCurrent

LEMMA CurrentIsShown == Current => OwnChangesShow
  BY DEF Current, CacheCurrent, OwnChangesShow, Matches, Told, Fresh

LEMMA CurrentInitially == StoreInit => Current
  BY DEF StoreInit, Current, CacheCurrent, VisitsCurrent, Reading, Quiet

(* One page p changes: it was on a slug of S, or on one that is to be told. *)
LEMMA UntoldStaysCurrent ==
  ASSUME Current, NEW p, NEW S, Untold(S),
         \A q \in Pages \ {p} : row'[q] = row[q],
         \A s \in Slugs : Told(s) => Told(s)',
         \A s \in Slugs : Shows(p, s) => s \in S \/ Told(s)'
  PROVE  Current'
<1>1. ASSUME NEW s \in Slugs, NEW t, s \notin S, ~ Told(s)', Matches(s, t)
      PROVE  Matches(s, t)'
  <2>1. PICK q \in Pages : Shows(q, s) /\ row[q].text = t
    BY <1>1 DEF Matches
  <2>2. q # p
    BY <1>1, <2>1
  <2> QED
    BY <2>1, <2>2 DEF Matches, Shows, There
<1>2. CacheCurrent'
  <2> SUFFICES ASSUME NEW s \in Slugs, cache'[s] # None, ~ cache'[s].late, ~ Told(s)'
               PROVE  Matches(s, cache[s].text)'
    BY DEF CacheCurrent
  <2>1. CASE s \in S /\ cache[s] # None
    BY <2>1 DEF Untold
  <2>2. CASE s \notin S \/ cache[s] = None
    <3>1. cache'[s] = cache[s]
      BY <2>2 DEF Untold
    <3>2. s \notin S /\ ~ Told(s) /\ Matches(s, cache[s].text)
      BY <2>2, <3>1 DEF Current, CacheCurrent
    <3> QED
      BY <1>1, <3>1, <3>2
  <2> QED
    BY <2>1, <2>2
<1>3. VisitsCurrent'
  <2> SUFFICES ASSUME NEW v \in Visitors, NEW s \in Slugs, Reading(v, s)', ~ visit'[v].late, ~ Told(s)'
               PROVE  Matches(s, visit[v].text)'
    BY DEF VisitsCurrent
  <2>1. CASE \E a \in S : Reading(v, a)
    BY <2>1 DEF Untold
  <2>2. CASE ~ \E a \in S : Reading(v, a)
    <3>1. visit'[v] = visit[v]
      BY <2>2 DEF Untold
    <3>2. Reading(v, s)
      BY <3>1 DEF Reading
    <3>3. s \notin S /\ ~ Told(s) /\ Matches(s, visit[v].text)
      BY <2>2, <3>1, <3>2 DEF Current, VisitsCurrent
    <3> QED
      BY <1>1, <3>1, <3>3
  <2> QED
    BY <2>1, <2>2
<1> QED
  BY <1>2, <1>3 DEF Current

LEMMA VisitsStayCurrent ==
  ASSUME StoreInv, Current, NEW v \in Visitors,
         Visit(v) \/ (\E h \in Hosts : VisitHost(v, h)) \/ VisitFails(v) \/ Set(v) \/ Put(v)
  PROVE  Current'
<1>0. /\ visit \in [Visitors -> VisitRecord] /\ cache \in [Slugs -> {None} \cup Entry]
  BY DEF StoreInv, VisitsOK, CacheOK
<1>1. UNCHANGED row /\ UNCHANGED save
  BY DEF Visit, VisitHost, Get, VisitFails, Set, Put
<1>2. ASSUME NEW s \in Slugs, NEW t
      PROVE  (Matches(s, t)' <=> Matches(s, t)) /\ (Told(s)' <=> Told(s))
  BY <1>1 DEF Matches, Shows, There, Told
<1>3. ASSUME UNCHANGED cache, NEW x, visit' = [visit EXCEPT ![v] = x],
             \A s \in Slugs : x.at = "set" /\ x.slug = s => Matches(s, x.text)
      PROVE  Current'
  BY <1>0, <1>2, <1>3 DEF Current, CacheCurrent, VisitsCurrent, Reading
<1>4. ASSUME NEW s \in Slugs, NEW h \in Hosts \cup {None}, Get(v, s, h) PROVE Current'
  <2>1. CASE visit' = [visit EXCEPT ![v] = Answered(v, h, cache[s].read)]
    <3>1. Answered(v, h, cache[s].read).at # "set"
      BY DEF Answered, Quiet
    <3> QED
      BY <1>3, <1>4, <2>1, <3>1 DEF Get
  <2>2. ASSUME NEW p \in Pages, Shows(p, s),
               visit' = [visit EXCEPT ![v] = [Quiet EXCEPT !.at = "set", !.slug = s, !.host = h,
                                                           !.text = row[p].text]]
        PROVE  Current'
    <3> DEFINE x == [Quiet EXCEPT !.at = "set", !.slug = s, !.host = h, !.text = row[p].text]
    <3>1. x.slug = s /\ x.text = row[p].text
      BY DEF Quiet
    <3>2. visit' = [visit EXCEPT ![v] = x] /\ UNCHANGED cache
      BY <1>4, <2>2 DEF Get
    <3> HIDE DEF x
    <3> QED
      BY <1>3, <2>2, <3>1, <3>2 DEF Matches
  <2> QED
    BY <1>4, <2>1, <2>2 DEF Get
<1>5. CASE VisitFails(v) \/ Put(v)
  <2>1. Quiet.at # "set"
    BY DEF Quiet
  <2> QED
    BY <1>3, <1>5, <2>1 DEF VisitFails, Put
<1>6. CASE Set(v)
  <2> DEFINE x == Answered(v, visit[v].host, visit[v].read)
             e == [text |-> visit[v].text, read |-> visit[v].read, kept |-> 0, late |-> visit[v].late]
  <2>1. x.at # "set"
    BY DEF Answered, Quiet
  <2>2. visit' = [visit EXCEPT ![v] = x] /\ cache' = [cache EXCEPT ![visit[v].slug] = e]
        /\ visit[v].at = "set"
    BY <1>6 DEF Set
  <2>3. e.text = visit[v].text /\ e.late = visit[v].late
    OBVIOUS
  <2> HIDE DEF x, e
  <2>4. VisitsCurrent'
    BY <1>0, <1>2, <2>1, <2>2 DEF Current, VisitsCurrent, Reading
  <2>5. CacheCurrent'
    <3> SUFFICES ASSUME NEW s \in Slugs, cache'[s] # None, ~ cache'[s].late, ~ Told(s)'
                 PROVE  Matches(s, cache[s].text)'
      BY DEF CacheCurrent
    <3>1. CASE s = visit[v].slug
      <4>1. cache'[s] = e /\ Reading(v, s)
        BY <1>0, <2>2, <3>1 DEF Reading
      <4>2. ~ visit[v].late /\ ~ Told(s)
        BY <1>2, <2>3, <4>1
      <4>3. Matches(s, visit[v].text)
        BY <4>1, <4>2 DEF Current, VisitsCurrent
      <4> QED
        BY <1>2, <2>3, <4>1, <4>3
    <3>2. CASE s # visit[v].slug
      <4>1. cache'[s] = cache[s]
        BY <1>0, <2>2, <3>2
      <4>2. Matches(s, cache[s].text)
        BY <1>2, <4>1 DEF Current, CacheCurrent
      <4> QED
        BY <1>2, <4>1, <4>2
    <3> QED
      BY <3>1, <3>2
  <2> QED
    BY <2>4, <2>5 DEF Current
<1> QED
  BY <1>4, <1>5, <1>6 DEF Visit, VisitHost

LEMMA TimeKeepsCurrent == ASSUME StoreInv, Current, Tick \/ Restart PROVE Current'
<1>1. CASE Restart
  BY <1>1 DEF Restart, Current, CacheCurrent, VisitsCurrent, Reading, Quiet
<1>2. CASE Tick
  <2>0. /\ visit \in [Visitors -> VisitRecord] /\ cache \in [Slugs -> {None} \cup Entry]
    BY DEF StoreInv, VisitsOK, CacheOK
  <2>1. ASSUME NEW s \in Slugs, NEW t
        PROVE  (Matches(s, t)' <=> Matches(s, t)) /\ (Told(s)' <=> Told(s))
    BY <1>2 DEF Tick, Matches, Shows, There, Told
  <2>2. ASSUME NEW s \in Slugs, cache'[s] # None
        PROVE  cache[s] # None /\ cache'[s].text = cache[s].text /\ cache'[s].late = cache[s].late
    <3>1. cache'[s] = Aged(cache[s], Ttl) /\ cache[s] \in {None} \cup Entry
      BY <1>2, <2>0 DEF Tick
    <3> QED
      BY <2>2, <3>1 DEF Aged, Entry
  <2>3. ASSUME NEW v \in Visitors
        PROVE  /\ visit'[v].at = visit[v].at /\ visit'[v].slug = visit[v].slug
               /\ visit'[v].text = visit[v].text /\ visit'[v].late = visit[v].late
    <3>1. visit[v] \in VisitRecord
      BY <2>0
    <3>2. visit'[v] = visit[v] \/ visit'[v] = [visit[v] EXCEPT !.since = @ + 1, !.read = Older(@)]
      BY <1>2 DEF Tick
    <3> QED
      BY <3>1, <3>2 DEF VisitRecord
  <2>4. CacheCurrent'
    BY <2>1, <2>2 DEF Current, CacheCurrent
  <2>5. VisitsCurrent'
    BY <2>1, <2>3 DEF Current, VisitsCurrent, Reading
  <2> QED
    BY <2>4, <2>5 DEF Current
<1> QED
  BY <1>1, <1>2

LEMMA OthersTold ==
  ASSUME StoreInv, NEW o \in Owners, NEW x, save' = [save EXCEPT ![o] = x], NEW s
  PROVE  Told(s)' <=> (s \in x.tell \/ \E b \in Owners \ {o} : s \in save[b].tell)
  BY DEF StoreInv, SavesOK, Told

LEMMA SavesStayCurrent ==
  ASSUME StoreInv, Current, NEW o \in Owners,
         \/ \E p \in Pages : UpdateRead(o, p) \/ DeleteRead(o, p)
         \/ UpdateWrite(o) \/ DeleteWrite(o) \/ Tell(o) \/ SaveFails(o) \/ SaveUnheard(o)
  PROVE  Current'
<1>0. /\ save \in [Owners -> SaveRecord] /\ SaveOK(save[o]) /\ row \in [Pages -> {None} \cup Row]
  BY DEF StoreInv, SavesOK, RowsOK
<1>1. save[o].at # "tell" => save[o].tell = {}
  BY <1>0 DEF SaveOK
<1>2. save[o].at \in {"write", "delete"} => save[o].page \in Pages
  BY <1>0 DEF SaveOK
<1>3. ASSUME NEW x, save' = [save EXCEPT ![o] = x], save[o].at # "tell", NEW s, Told(s)
      PROVE  Told(s)'
  BY <1>1, <1>3, OthersTold DEF Told
<1>4. Idle.tell = {}
  BY DEF Idle
<1>5. ASSUME NEW x, save' = [save EXCEPT ![o] = x], save[o].at # "tell",
             UNCHANGED <<row, origin>>
      PROVE  Current'
  <2>1. ASSUME NEW s \in Slugs PROVE ~ Told(s)' => ~ Told(s)
    BY <1>3, <1>5
  <2>2. ASSUME NEW s \in Slugs, NEW t PROVE Matches(s, t)' <=> Matches(s, t)
    BY <1>5 DEF Matches, Shows, There
  <2> QED
    BY <1>5, <2>1, <2>2 DEF origin, Current, CacheCurrent, VisitsCurrent, Reading
<1>6. CASE \E p \in Pages : UpdateRead(o, p) \/ DeleteRead(o, p)
  BY <1>5, <1>6 DEF UpdateRead, DeleteRead
<1>7. CASE SaveFails(o)
  BY <1>5, <1>7 DEF SaveFails
<1>8. CASE UpdateWrite(o)
  <2> DEFINE p == save[o].page
             x == [Idle EXCEPT !.at = "tell", !.tell = Tells(o)]
             S == Moved(o) \ {save[o].new.slug}
  <2>1. save[o].at = "write" /\ save' = [save EXCEPT ![o] = x] /\ Untold(S)
    BY <1>8 DEF UpdateWrite
  <2>2. x.tell = {save[o].old, save[o].new.slug}
    BY DEF Idle, Tells
  <2>3. ASSUME NEW q \in Pages \ {p} PROVE row'[q] = row[q]
    BY <1>0, <1>8 DEF UpdateWrite
  <2>4. ASSUME NEW s \in Slugs, Shows(p, s) PROVE s \in S \/ s \in x.tell
    BY <2>2, <2>4 DEF Shows, Moved
  <2> HIDE DEF x
  <2>5. ASSUME NEW s \in Slugs, s \in x.tell PROVE Told(s)'
    BY <2>1, <2>5, OthersTold
  <2> HIDE DEF S, p
  <2>6. \A s \in Slugs : Shows(p, s) => s \in S \/ Told(s)'
    BY <2>4, <2>5
  <2>7. \A s \in Slugs : Told(s) => Told(s)'
    BY <1>3, <2>1
  <2> QED
    BY <2>1, <2>3, <2>6, <2>7, UntoldStaysCurrent
<1>9. CASE DeleteWrite(o)
  <2> DEFINE p == save[o].page
             x == [Idle EXCEPT !.at = "tell", !.tell = {save[o].old}]
  <2>1. save[o].at = "delete" /\ save' = [save EXCEPT ![o] = x] /\ Untold(Moved(o))
    BY <1>9 DEF DeleteWrite
  <2>2. x.tell = {save[o].old}
    BY DEF Idle
  <2>3. ASSUME NEW q \in Pages \ {p} PROVE row'[q] = row[q]
    BY <1>0, <1>9 DEF DeleteWrite
  <2>4. ASSUME NEW s \in Slugs, Shows(p, s) PROVE s \in Moved(o) \/ s \in x.tell
    BY <2>2, <2>4 DEF Shows, Moved
  <2> HIDE DEF x
  <2>5. ASSUME NEW s \in Slugs, s \in x.tell PROVE Told(s)'
    BY <2>1, <2>5, OthersTold
  <2> HIDE DEF p
  <2>6. \A s \in Slugs : Shows(p, s) => s \in Moved(o) \/ Told(s)'
    BY <2>4, <2>5
  <2>7. \A s \in Slugs : Told(s) => Told(s)'
    BY <1>3, <2>1
  <2> QED
    BY <2>1, <2>3, <2>6, <2>7, UntoldStaysCurrent
<1>10. CASE SaveUnheard(o)
  <2> DEFINE p == save[o].page
  <2>1. /\ save[o].at \in {"write", "delete"} /\ save' = [save EXCEPT ![o] = Idle]
        /\ There(p) /\ p \in Pages
    BY <1>2, <1>10 DEF SaveUnheard
  <2>2. PICK S : Untold(S) /\ row[p].slug \in S
    BY <1>10 DEF SaveUnheard
  <2>3. ASSUME NEW q \in Pages \ {p} PROVE row'[q] = row[q]
    BY <1>0, <1>10 DEF SaveUnheard
  <2>4. \A s \in Slugs : Shows(p, s) => s \in S
    BY <2>2 DEF Shows
  <2> HIDE DEF p
  <2>5. \A s \in Slugs : Told(s) => Told(s)'
    BY <1>3, <2>1
  <2> QED
    BY <2>2, <2>3, <2>4, <2>5, UntoldStaysCurrent
<1>11. CASE Tell(o)
  <2> DEFINE S == save[o].tell
  <2>1. UNCHANGED row /\ Invalidate(S) /\ save' = [save EXCEPT ![o] = Idle]
    BY <1>11 DEF Tell
  <2>2. ASSUME NEW s \in Slugs, s \notin S, ~ Told(s)' PROVE ~ Told(s)
    BY <2>1, <2>2, OthersTold DEF Told
  <2>3. ASSUME NEW s \in Slugs, NEW t PROVE Matches(s, t)' <=> Matches(s, t)
    BY <2>1 DEF Matches, Shows, There
  <2> HIDE DEF S
  <2>4. CacheCurrent'
    BY <2>1, <2>2, <2>3 DEF Invalidate, Current, CacheCurrent
  <2>5. VisitsCurrent'
    <3> SUFFICES ASSUME NEW v \in Visitors, NEW s \in Slugs, Reading(v, s)', ~ visit'[v].late,
                        ~ Told(s)'
                 PROVE  Matches(s, visit[v].text)'
      BY DEF VisitsCurrent
    <3>1. CASE \E a \in S : Reading(v, a)
      BY <2>1, <3>1 DEF Invalidate
    <3>2. CASE ~ \E a \in S : Reading(v, a)
      <4>1. visit'[v] = visit[v]
        BY <2>1, <3>2 DEF Invalidate
      <4>2. Reading(v, s)
        BY <4>1 DEF Reading
      <4>3. s \notin S /\ ~ Told(s)
        BY <2>2, <3>2, <4>2
      <4> QED
        BY <2>3, <4>1, <4>2, <4>3 DEF Current, VisitsCurrent
    <3> QED
      BY <3>1, <3>2
  <2> QED
    BY <2>4, <2>5 DEF Current
<1> QED
  BY <1>6, <1>7, <1>8, <1>9, <1>10, <1>11

LEMMA PagesStayCurrent ==
  ASSUME StoreInv, Current, NEW p \in Pages, Create(p) \/ SetPublished(p) \/ AdminDelete(p)
  PROVE  Current'
<1>0. row \in [Pages -> {None} \cup Row]
  BY DEF StoreInv, RowsOK
<1>1. \A q \in Pages \ {p} : row'[q] = row[q]
  BY <1>0 DEF Create, SetPublished, AdminDelete
<1>2. \A s \in Slugs : Told(s)' <=> Told(s)
  BY DEF Create, SetPublished, AdminDelete, Told
<1>3. CASE Create(p)
  <2>1. ASSUME NEW s \in Slugs, NEW t, Matches(s, t) PROVE Matches(s, t)'
    BY <1>1, <1>3, <2>1 DEF Create, Matches, Shows, There
  <2> QED
    BY <1>2, <1>3, <2>1 DEF Create, origin, Current, CacheCurrent, VisitsCurrent, Reading
<1>4. CASE SetPublished(p) \/ AdminDelete(p)
  <2>1. Untold({row[p].slug})
    BY <1>4 DEF SetPublished, AdminDelete
  <2>2. \A s \in Slugs : Shows(p, s) => s \in {row[p].slug}
    BY DEF Shows
  <2> QED
    BY <1>1, <1>2, <2>1, <2>2, UntoldStaysCurrent
<1> QED
  BY <1>3, <1>4

LEMMA NextStaysCurrent == ASSUME StoreInv, Current, [StoreNext]_storeVars PROVE Current'
<1>1. CASE UNCHANGED storeVars
  BY <1>1 DEF storeVars, Current, CacheCurrent, VisitsCurrent, Matches, Told, Shows, There, Reading
<1>2. CASE StoreNext
  BY <1>2, TimeKeepsCurrent, VisitsStayCurrent, SavesStayCurrent, PagesStayCurrent DEF StoreNext
<1> QED
  BY <1>1, <1>2

(* An owner's change is what the server shows once the request is answered, *)
(* whatever the other owners and visitors do (sale_page_service.go:300,     *)
(* :322); the exceptions are the ones OwnChangesShow names.                 *)
THEOREM OwnChangesAlwaysShow == StoreSpec => []OwnChangesShow
<1>1. Current /\ StoreInv /\ [StoreNext]_storeVars => Current'
  BY NextStaysCurrent
<1> QED
  BY InvAlways, CurrentInitially, CurrentIsShown, <1>1, PTL DEF StoreSpec
===============================================================================
