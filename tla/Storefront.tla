------------------------------ MODULE Storefront ------------------------------
(***************************************************************************)
(* What a visitor of a sale page is shown.  The page is a row the owner    *)
(* saves (sale_page_service.go) and the administrator takes down           *)
(* (admin_service_salepages.go); the server keeps what it last read of a   *)
(* slug for Ttl (sale_page_cache.go), and the worker of the customers'     *)
(* own domains keeps its answers for EdgeTtl (workers/custom-domain).      *)
(* One database statement or one call of a cache is one step; a transaction *)
(* is a step.  A request may take Delay, which the code leaves open.       *)
(***************************************************************************)
EXTENDS Naturals

CONSTANTS Pages, Slugs, Hosts, None,
          Owners, Visitors,          \* saves and visits in progress at a time
          Ttl, EdgeTtl, Delay,
          MaxEdits                   \* bound on the texts written

VARIABLES row,        \* table sale_pages
          cache,      \* salePageCache: the entry of each slug
          edge,       \* caches.default: the answer kept for each host
          visit,      \* the requests for pages in progress
          save,       \* the owners' requests in progress
          edits       \* texts written

origin == <<cache, visit>>
storeVars == <<row, cache, edge, visit, save, edits>>

Texts  == 0 .. MaxEdits
\* Times are kept as ages; Oldest stands for every age above the limits.
Oldest == Delay + Ttl + Delay + EdgeTtl
Ages   == 0 .. Oldest
Older(n) == IF n < Oldest THEN n + 1 ELSE n
Row    == [slug : Slugs, text : Texts, live : BOOLEAN]
\* read: the time since the row was read; kept: since the entry was set;
\* late: the page was changed since the read and nobody will say so.
Entry  == [text : Texts, read : Ages, kept : Ages, late : BOOLEAN]
Answer == [read : Ages, kept : Ages]
Quiet  == [at |-> "idle", slug |-> None, host |-> None, since |-> 0,
           text |-> None, read |-> 0, late |-> FALSE]
Idle   == [at |-> "idle", page |-> None, old |-> None, new |-> None, tell |-> {}]

ASSUME StorefrontAssumption ==
  /\ {Ttl, EdgeTtl, Delay, MaxEdits} \subseteq Nat /\ EdgeTtl > 0 /\ Slugs # {}
  /\ None \notin Slugs \cup Hosts \cup Row \cup Entry \cup Answer

There(p)    == row[p] # None
Shows(p, s) == There(p) /\ row[p].live /\ row[p].slug = s

-----------------------------------------------------------------------------
\* The caches.

\* Get gives nothing older than Ttl, so the model forgets an entry when it is;
\* the sweep of the code (lines 27-44) only frees its memory.
Fresh(s) == cache[s] # None

\* A request that has read the row and has still to put it in the cache.
Reading(v, s) == visit[v].at = "set" /\ visit[v].slug = s

\* Invalidate on each of the slugs: what is being read is not reached.
Invalidate(slugs) ==
  /\ cache' = [s \in Slugs |-> IF s \in slugs THEN None ELSE cache[s]]
  /\ visit' = [v \in Visitors |-> IF \E s \in slugs : Reading(v, s)
                                  THEN [visit[v] EXCEPT !.late = TRUE] ELSE visit[v]]

\* The page of the slugs changes and no Invalidate follows.
Untold(slugs) ==
  /\ cache' = [s \in Slugs |-> IF s \in slugs /\ cache[s] # None
                               THEN [cache[s] EXCEPT !.late = TRUE] ELSE cache[s]]
  /\ visit' = [v \in Visitors |-> IF \E s \in slugs : Reading(v, s)
                                  THEN [visit[v] EXCEPT !.late = TRUE] ELSE visit[v]]

\* The container is replaced: the cache and the requests are gone.
Restart ==
  /\ cache' = [s \in Slugs |-> None]
  /\ visit' = [v \in Visitors |-> Quiet]
  /\ save'  = [o \in Owners |-> Idle]
  /\ UNCHANGED <<row, edge, edits>>

-----------------------------------------------------------------------------
\* Visits.

\* The page is rendered; the worker keeps it, the visitor of /p/slug has it.
Answered(v, host, read) ==
  IF host = None THEN Quiet ELSE [Quiet EXCEPT !.at = "put", !.host = host, !.read = read, !.since = visit[v].since]

\* GetPublishData: a request finds the entry, or reads the page and will read its
\* owner and pixels and set the entry.  Without a published page, or with an
\* error, nothing is kept anywhere.
Get(v, s, h) ==
  /\ visit[v].at = "idle"
  /\ \/ Fresh(s) /\ h # None /\ visit' = [visit EXCEPT ![v] = Answered(v, h, cache[s].read)]
     \/ /\ ~ Fresh(s)
        /\ \E p \in Pages :
             /\ Shows(p, s)
             /\ visit' = [visit EXCEPT ![v] = [Quiet EXCEPT !.at = "set", !.slug = s, !.host = h,
                                                           !.text = row[p].text]]
  /\ UNCHANGED <<row, cache, edge, save, edits>>

\* A visit of /p/slug, and one of a customer's domain the worker keeps no answer
\* for; DOMAIN_MAP, edited outside the program, may give it any slug.
Visit(v) == \E s \in Slugs : Get(v, s, None)
VisitHost(v, h) == edge[h] = None /\ \E s \in Slugs : Get(v, s, h)

VisitFails(v) ==
  /\ visit[v].at = "set"
  /\ visit' = [visit EXCEPT ![v] = Quiet]
  /\ UNCHANGED <<row, cache, edge, save, edits>>

\* createdAt is the time of Set, not of the read.
Set(v) ==
  /\ visit[v].at = "set"
  /\ cache' = [cache EXCEPT ![visit[v].slug] =
                 [text |-> visit[v].text, read |-> visit[v].read, kept |-> 0, late |-> visit[v].late]]
  /\ visit' = [visit EXCEPT ![v] = Answered(v, visit[v].host, visit[v].read)]
  /\ UNCHANGED <<row, edge, save, edits>>

Put(v) ==
  /\ visit[v].at = "put"
  /\ edge' = [edge EXCEPT ![visit[v].host] = [read |-> visit[v].read, kept |-> 0]]
  /\ visit' = [visit EXCEPT ![v] = Quiet]
  /\ UNCHANGED <<row, cache, save, edits>>

-----------------------------------------------------------------------------
\* The owners' requests.

\* The unique index on slug; p is the page that is to have it.
FreeSlug(s, p) == \A q \in Pages \ {p} : ~ (There(q) /\ row[q].slug = s)

NewText == edits < MaxEdits /\ edits' = edits + 1

Create(p) ==
  /\ ~ There(p) /\ NewText
  /\ \E s \in Slugs, live \in BOOLEAN :
       /\ FreeSlug(s, p)
       /\ row' = [row EXCEPT ![p] = [slug |-> s, text |-> edits + 1, live |-> live]]
  /\ UNCHANGED <<origin, edge, save>>

\* Update reads the row and lays the fields of the request over it.
UpdateRead(o, p) ==
  /\ save[o].at = "idle" /\ There(p)
  /\ \E s \in Slugs, live \in BOOLEAN, anew \in BOOLEAN :
       /\ s # row[p].slug => FreeSlug(s, p)
       /\ anew => edits < MaxEdits
       /\ edits' = IF anew THEN edits + 1 ELSE edits
       /\ save' = [save EXCEPT ![o] =
            [Idle EXCEPT !.at = "write", !.page = p, !.old = row[p].slug,
             !.new = [row[p] EXCEPT !.slug = s, !.live = live, !.text = IF anew THEN edits + 1 ELSE @]]]
  /\ UNCHANGED <<row, origin, edge>>

\* Slugs the request will not invalidate though it takes the page off them:
\* the page has moved since the request read it.
Moved(o) == LET p == save[o].page IN
            IF There(p) THEN {row[p].slug} \ {save[o].old} ELSE {}

TellsSlip(o) == {save[o].new.slug}
\* Invalidate the old slug and the new one.
Tells(o) == {save[o].old, save[o].new.slug}

\* The whole row is written; one deleted meanwhile stays deleted.
UpdateWrite(o) ==
  LET p == save[o].page IN
  /\ save[o].at = "write" /\ FreeSlug(save[o].new.slug, p)
  /\ row' = IF There(p) THEN [row EXCEPT ![p] = save[o].new] ELSE row
  /\ save' = [save EXCEPT ![o] = [Idle EXCEPT !.at = "tell", !.tell = Tells(o)]]
  /\ Untold(Moved(o) \ {save[o].new.slug})
  /\ UNCHANGED <<edge, edits>>

DeleteRead(o, p) ==
  /\ save[o].at = "idle" /\ There(p)
  /\ save' = [save EXCEPT ![o] = [Idle EXCEPT !.at = "delete", !.page = p, !.old = row[p].slug]]
  /\ UNCHANGED <<row, origin, edge, edits>>

DeleteWrite(o) ==
  /\ save[o].at = "delete"
  /\ row' = [row EXCEPT ![save[o].page] = None]
  /\ save' = [save EXCEPT ![o] = [Idle EXCEPT !.at = "tell", !.tell = {save[o].old}]]
  /\ Untold(Moved(o))
  /\ UNCHANGED <<edge, edits>>

Tell(o) ==
  /\ save[o].at = "tell"
  /\ save' = [save EXCEPT ![o] = Idle]
  /\ Invalidate(save[o].tell)
  /\ UNCHANGED <<row, edge, edits>>

\* The slug was taken, or the statement failed.
SaveFails(o) ==
  /\ save[o].at \in {"write", "delete"}
  /\ save' = [save EXCEPT ![o] = Idle]
  /\ UNCHANGED <<row, origin, edge, edits>>

\* The commit was made and its answer lost: the request ends with an error.
SaveUnheard(o) ==
  LET p == save[o].page IN
  /\ save[o].at \in {"write", "delete"} /\ There(p)
  /\ \/ /\ save[o].at = "write" /\ FreeSlug(save[o].new.slug, p)
        /\ row' = [row EXCEPT ![p] = save[o].new]
        /\ Untold({row[p].slug, save[o].new.slug})
     \/ /\ save[o].at = "delete"
        /\ row' = [row EXCEPT ![p] = None]
        /\ Untold({row[p].slug})
  /\ save' = [save EXCEPT ![o] = Idle]
  /\ UNCHANGED <<edge, edits>>

-----------------------------------------------------------------------------
\* The administrator: the cache is not told.

SetPublished(p) ==
  /\ There(p)
  /\ row' = [row EXCEPT ![p].live = ~ @]
  /\ Untold({row[p].slug})
  /\ UNCHANGED <<edge, save, edits>>

AdminDelete(p) ==
  /\ There(p)
  /\ row' = [row EXCEPT ![p] = None]
  /\ Untold({row[p].slug})
  /\ UNCHANGED <<edge, save, edits>>

-----------------------------------------------------------------------------
AgedSlip(e, limit) == IF e = None THEN None ELSE [e EXCEPT !.read = Older(@), !.kept = Older(@)]
\* An entry after one more unit of time, unless it is then past its limit.
Aged(e, limit) ==
  IF e = None \/ e.kept >= limit THEN None ELSE [e EXCEPT !.read = Older(@), !.kept = Older(@)]

\* Time passes; no request outlives Delay.  Get still gives an entry of age
\* ttl; max-age ends when its age is reached.
Tick ==
  /\ \A v \in Visitors : visit[v].since < Delay
  /\ cache' = [s \in Slugs |-> Aged(cache[s], Ttl)]
  /\ edge' = [h \in Hosts |-> Aged(edge[h], EdgeTtl - 1)]
  /\ visit' = [v \in Visitors |-> IF visit[v].at = "idle" THEN visit[v]
                                  ELSE [visit[v] EXCEPT !.since = @ + 1, !.read = Older(@)]]
  /\ UNCHANGED <<row, save, edits>>

\* A shop of one published page.
StoreInit ==
  /\ \E first \in Pages, s \in Slugs :
       row = [p \in Pages |-> IF p = first THEN [slug |-> s, text |-> 0, live |-> TRUE] ELSE None]
  /\ cache = [s \in Slugs |-> None] /\ edge = [h \in Hosts |-> None]
  /\ visit = [v \in Visitors |-> Quiet] /\ save = [o \in Owners |-> Idle]
  /\ edits = 0

StoreNext ==
  \/ Restart \/ Tick
  \/ \E v \in Visitors : Visit(v) \/ VisitFails(v) \/ Set(v) \/ Put(v)
  \/ \E v \in Visitors, h \in Hosts : VisitHost(v, h)
  \/ \E p \in Pages : Create(p) \/ SetPublished(p) \/ AdminDelete(p)
  \/ \E o \in Owners, p \in Pages : UpdateRead(o, p) \/ DeleteRead(o, p)
  \/ \E o \in Owners : UpdateWrite(o) \/ DeleteWrite(o) \/ Tell(o) \/ SaveFails(o) \/ SaveUnheard(o)

StoreSpec == StoreInit /\ [][StoreNext]_storeVars

-----------------------------------------------------------------------------
\* Values are of their kinds, and no two pages have one slug.
StoreTypeOK ==
  /\ \A p \in Pages : row[p] \in {None} \cup Row
  /\ \A p, q \in Pages : There(p) /\ There(q) /\ row[p].slug = row[q].slug => p = q
  /\ \A s \in Slugs : cache[s] \in {None} \cup Entry
  /\ \A h \in Hosts : edge[h] \in {None} \cup Answer
  /\ \A v \in Visitors : visit[v].at \in {"idle", "set", "put"}
  /\ \A o \in Owners : save[o].at \in {"idle", "write", "delete", "tell"}
  /\ edits \in Texts

\* What the server shows of a slug is its published page, once the owner's
\* requests about the slug have been answered: Update and Delete invalidate
\* every slug they take a page off (sale_page_service.go:300, :322).  Not so
\* for a visitor's request that was reading the row meanwhile and sets the old
\* entry afterwards, for a page that moved during another Update of it, for a
\* commit whose answer was lost, and for what the administrator does.
OwnChangesShow ==
  \A s \in Slugs :
    Fresh(s) /\ ~ cache[s].late /\ ~ (\E o \in Owners : s \in save[o].tell)
      => \E p \in Pages : Shows(p, s) /\ row[p].text = cache[s].text

\* Even then an old page goes away: the server shows nothing it read more than
\* Ttl and one request ago, and a customer's domain nothing read longer ago
\* than that, another request and EdgeTtl.  The ages add up, for the worker
\* starts its own count from an answer the server may have kept for Ttl.
OldPagesGoAway ==
  /\ \A s \in Slugs : Fresh(s) => cache[s].read <= Delay + Ttl
  /\ \A h \in Hosts : edge[h] # None => edge[h].read < Delay + Ttl + Delay + EdgeTtl
===============================================================================
