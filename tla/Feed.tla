-------------------------------- MODULE Feed --------------------------------
(***************************************************************************)
(* The live mode of the events page: the hook useRealtimeEvents, the two   *)
(* queries it keeps in the query cache, the effects of EventsPage that     *)
(* drive it, and the handler ListRecent that answers it.  A fetch takes    *)
(* two steps (the server reads, the answer lands), so that the user, the   *)
(* clock and new events come in between.                                   *)
(* An event is its position in the server's log, which is in the order of  *)
(* created_at and not of the commits that make the rows visible.  Client   *)
(* and server read one clock, whose unit several events may share.         *)
(***************************************************************************)
EXTENDS Integers, Sequences, FiniteSets, SequencesExt

CONSTANTS FeedPixels,    \* the customer's pixels
          Watched,       \* those the user filters by
          All,           \* no pixel filter (null)
          MaxBuffer,     \* MAX_BUFFER, 200 in the hook
          InitialLimit,  \* limit of the initial load, 100
          PollLimit,     \* realtimeEventLimit, 50
          Lookback,      \* the five minutes ListRecent looks back
          Buckets, Minute, \* the chart's intervals, and how many make a minute
          MaxEvents, MaxNow, MaxGen, MaxVisits,  \* bounds
          MaxInputs      \* on events and visits together

ASSUME FeedAssumption ==
  /\ All \notin FeedPixels /\ Watched \subseteq FeedPixels
  /\ {MaxBuffer, InitialLimit, PollLimit, Lookback, Buckets, Minute} \subseteq Nat \ {0}
  /\ InitialLimit <= 2 * MaxBuffer /\ Minute <= Buckets /\ MaxGen \in Nat

VARIABLES log,        \* the events: their pixel, created_at, and whether the row
                      \* is committed
          now,        \* the clock
          mounted, visits,
          mode,       \* "live" or "history", from the URL
          filter,     \* pixel_id in the URL
          paused,     \* isPaused
          pixel, generation, since, processed, polled,  \* the hook's state and refs
          initialQ,   \* query cache: the initial load of every key
          pollQ,      \* query cache: the polling query of every pixel
          smooth,     \* every row was committed after all of an earlier or the
                      \* same created_at, no visit began from the cache, and no
                      \* poll came too late
          crossed     \* the feed was reset under a poll or to a load of an
                      \* earlier visit, or its load begun beside polled data

server == <<log, now>>
page   == <<mounted, visits, mode, filter, paused>>
hook   == <<pixel, generation, since, processed, polled>>
ghosts == <<smooth, crossed>>
feedVars == <<server, page, hook, initialQ, pollQ, ghosts>>

Filters == Watched \cup {All}
Keys    == Filters \X (0 .. MaxGen)
Blank   == -1                                     \* since = ''
NoLoad  == [at |-> "none", data |-> <<>>]
NoPoll  == [at |-> "idle", answer |-> <<>>, data |-> <<>>]

Key      == <<pixel, generation>>
IsLoaded == initialQ[Key].at = "loaded"
Initial  == IF IsLoaded THEN initialQ[Key].data ELSE <<>>
Capped(s) == SubSeq(s, 1, IF Len(s) < MaxBuffer THEN Len(s) ELSE MaxBuffer)
FeedEventsSlip == Capped(polled \o Initial)
FeedEvents == Capped(polled \o Reverse(Initial))

-----------------------------------------------------------------------------
\* The server.

\* The elements of s that are in S, in their order.
Kept(s, S) ==
  LET f[n \in 0 .. Len(s)] ==
        IF n = 0 THEN <<>> ELSE IF s[n] \in S THEN Append(f[n - 1], s[n]) ELSE f[n - 1]
  IN  f[Len(s)]

\* The rows a query sees.
Stored == {i \in 1 .. Len(log) : log[i].there}
Of(p)  == Kept([i \in 1 .. Len(log) |-> i], {i \in Stored : p \in {All, log[i].pixel}})

\* Without since: the newest events, oldest first.
ListLatest(p) ==
  LET s == Of(p) IN SubSeq(s, IF Len(s) > InitialLimit THEN Len(s) - InitialLimit + 1 ELSE 1, Len(s))

\* With since: the oldest events after it, and after the clamp.
Clamped(t) == IF t < now - Lookback THEN now - Lookback ELSE t
ListRecentSlip(p, t) ==
  LET s == Kept(Of(p), {i \in Stored : log[i].at > Clamped(t)})
  IN  SubSeq(s, IF Len(s) > PollLimit THEN Len(s) - PollLimit + 1 ELSE 1, Len(s))
ListRecent(p, t) ==
  LET s == Kept(Of(p), {i \in Stored : log[i].at > Clamped(t)})
  IN  SubSeq(s, 1, IF Len(s) > PollLimit THEN PollLimit ELSE Len(s))

Room == Len(log) + visits < MaxInputs

\* An INSERT begins: created_at defaults to NOW(), when its transaction starts.
Stamp(p) ==
  /\ Len(log) < MaxEvents /\ Room
  /\ log' = Append(log, [pixel |-> p, at |-> now, there |-> FALSE])
  /\ UNCHANGED <<now, page, hook, initialQ, pollQ, ghosts>>

\* It commits.  Inserts of several requests overlap and end in any order.
Store(i) ==
  /\ i \in 1 .. Len(log) /\ i \notin Stored
  /\ log' = [log EXCEPT ![i].there = TRUE]
  /\ smooth' = (smooth /\ \A j \in Stored : log[j].at < log[i].at)
  /\ UNCHANGED <<now, page, hook, initialQ, pollQ, crossed>>

Tick ==
  /\ now < MaxNow
  /\ now' = now + 1
  /\ UNCHANGED <<log, page, hook, initialQ, pollQ, ghosts>>

-----------------------------------------------------------------------------
\* The effects of the hook, written as what they leave in its state.

LastAt(ids) == log[ids[Len(ids)]].at

\* Initialise the dedup set and the cursor from an initial load.
Seeded(data) == [processed |-> data, since |-> IF data = <<>> THEN now ELSE LastAt(data)]

\* Trim the dedup set once it holds more than two buffers.
Trim(s) == IF Len(s) > 2 * MaxBuffer THEN SubSeq(s, Len(s) - MaxBuffer + 1, Len(s)) ELSE s

Unseen(seen, data) == Kept(data, ToSet(data) \ ToSet(seen))

\* Process a polling result against the dedup set seen and the cursor t.
Absorbed(seen, t, shown, data) ==
  LET new == Unseen(seen, data) IN
  IF new = <<>> THEN [processed |-> seen, since |-> t, polled |-> shown]
  ELSE [processed |-> Trim(seen \o new), since |-> LastAt(data),
        polled |-> Capped(Reverse(new) \o shown)]

\* The effect on the initial data of key k, then nothing more: the polling
\* data has not changed.
Seed(k) ==
  IF initialQ'[k].at = "loaded"
  THEN LET s == Seeded(initialQ'[k].data) IN processed' = s.processed /\ since' = s.since
  ELSE UNCHANGED <<processed, since>>

-----------------------------------------------------------------------------
\* The initial load.  A key is loaded once: staleTime is Infinity.

AskInitial ==
  /\ mounted /\ initialQ[Key].at = "none"
  /\ initialQ' = [initialQ EXCEPT ![Key] = [at |-> "answered", data |-> ListLatest(pixel)]]
  /\ UNCHANGED <<server, page, hook, pollQ, ghosts>>

LandInitial(k) ==
  /\ initialQ[k].at = "answered"
  /\ initialQ' = [initialQ EXCEPT ![k].at = "loaded"]
  /\ IF mounted /\ k = Key THEN Seed(k) ELSE UNCHANGED <<processed, since>>
  /\ UNCHANGED <<server, page, pixel, generation, polled, pollQ, ghosts>>

-----------------------------------------------------------------------------
\* The polling query.

CanPoll == mounted /\ IsLoaded /\ ~paused

AskPoll ==
  /\ CanPoll /\ pollQ[pixel].at = "idle"
  /\ pollQ' = [pollQ EXCEPT ![pixel].at = "answered", ![pixel].answer = ListRecent(pixel, since)]
  /\ smooth' = (smooth /\ Clamped(since) = since)
  /\ UNCHANGED <<server, page, hook, initialQ, crossed>>

\* Equal data keeps its reference in the cache, so the effect does not run.
LandPoll(p) ==
  LET data == pollQ[p].answer
      a    == Absorbed(processed, since, polled, data) IN
  /\ pollQ[p].at = "answered"
  /\ pollQ' = [pollQ EXCEPT ![p] = [NoPoll EXCEPT !.data = data]]
  /\ IF mounted /\ p = pixel /\ data # pollQ[p].data /\ data # <<>>
     THEN processed' = a.processed /\ since' = a.since /\ polled' = a.polled
     ELSE UNCHANGED <<processed, since, polled>>
  /\ UNCHANGED <<server, page, pixel, generation, initialQ, ghosts>>

\* A poll that fails, retry included, leaves the data of the last one.
PollFails(p) ==
  /\ pollQ[p].at = "answered"
  /\ pollQ' = [pollQ EXCEPT ![p] = [NoPoll EXCEPT !.data = pollQ[p].data]]
  /\ UNCHANGED <<server, page, hook, initialQ, ghosts>>

-----------------------------------------------------------------------------
\* The user.

Underway == pollQ[pixel].at # "idle"

\* The feed is reset and the key changes; t is the cursor until the load lands.
\* Polling data of the key is untouched, so only the initial effect can run.
Reset(p, t, cache) ==
  LET k == <<p, generation + 1>>
      s == IF cache[k].at = "loaded" THEN Seeded(cache[k].data) ELSE [processed |-> <<>>, since |-> t]
  IN  /\ generation < MaxGen
      /\ generation' = generation + 1 /\ pixel' = p
      /\ polled' = <<>> /\ processed' = s.processed /\ since' = s.since
      /\ initialQ' = cache
      /\ crossed' = (crossed \/ (p = pixel /\ Underway) \/ cache[k] # NoLoad)

IsLoading == ~IsLoaded

Refresh ==
  /\ mounted /\ mode = "live" /\ ~IsLoading
  /\ Reset(pixel, Blank, initialQ)
  /\ UNCHANGED <<server, page, pollQ, smooth>>

Emptied == [k \in Keys |-> NoLoad]

Clear ==
  /\ mounted /\ mode = "live"
  /\ Reset(pixel, now, Emptied)
  /\ UNCHANGED <<server, page, pollQ, smooth>>

Unpolled == [p \in Filters |-> NoPoll]

FollowFilterSlip(p) == UNCHANGED <<hook, initialQ, pollQ, crossed>>
\* setPixelId, called by the effect that follows pixel_id.
FollowFilter(p) ==
  IF p = pixel THEN UNCHANGED <<hook, initialQ, pollQ, crossed>>
  ELSE Reset(p, Blank, initialQ) /\ pollQ' = Unpolled

SetPixelFilter(p) ==
  /\ mounted /\ p # filter
  /\ filter' = p
  /\ FollowFilter(p)
  /\ UNCHANGED <<server, mounted, visits, mode, paused, smooth>>

\* The effect that keeps the feed paused in history mode and only there.
AutoPause(m) == m = "history"

SetMode(m) ==
  /\ mounted /\ m # mode
  /\ mode' = m
  /\ paused' = AutoPause(m)
  /\ UNCHANGED <<server, mounted, visits, filter, hook, initialQ, pollQ, smooth, crossed>>

\* The click turns isPaused over, and the effect turns it back.
TogglePause ==
  /\ mounted /\ mode = "live"
  /\ paused' = AutoPause(mode)
  /\ UNCHANGED <<server, mounted, visits, mode, filter, hook, initialQ, pollQ, smooth, crossed>>

\* The page is left: its state is gone, the query cache stays.
Leave ==
  /\ mounted
  /\ mounted' = FALSE
  /\ pixel' = All /\ generation' = 0 /\ since' = Blank
  /\ processed' = <<>> /\ polled' = <<>>
  /\ mode' = "live" /\ filter' = All /\ paused' = FALSE
  /\ UNCHANGED <<server, visits, initialQ, pollQ, smooth, crossed>>

\* The page is opened: both effects run on what the cache holds.
Enter ==
  LET k == <<All, 0>>
      s == Seeded(initialQ[k].data)
      a == Absorbed(s.processed, s.since, <<>>, pollQ[All].data) IN
  /\ ~mounted /\ visits < MaxVisits /\ Room
  /\ mounted' = TRUE /\ visits' = visits + 1
  /\ smooth' = (smooth /\ initialQ[k].at = "none")
  /\ crossed' = (crossed \/ (initialQ[k].at # "loaded" /\ pollQ[All] # NoPoll))
  /\ IF initialQ[k].at = "loaded"
     THEN processed' = a.processed /\ since' = a.since /\ polled' = a.polled
     ELSE LET b == Absorbed(<<>>, Blank, <<>>, pollQ[All].data)
          IN  processed' = b.processed /\ since' = b.since /\ polled' = b.polled
  /\ UNCHANGED <<server, mode, filter, paused, pixel, generation, initialQ, pollQ>>

\* Five minutes without an observer: the query is dropped from the cache.
Collect ==
  /\ ~mounted
  /\ initialQ' = Emptied /\ pollQ' = Unpolled
  /\ <<initialQ, pollQ>> # <<Emptied, Unpolled>>
  /\ UNCHANGED <<server, page, hook, ghosts>>

-----------------------------------------------------------------------------
FeedInit ==
  /\ log = <<>> /\ now = 1
  /\ mounted = FALSE /\ visits = 0
  /\ mode = "live" /\ filter = All /\ paused = FALSE
  /\ pixel = All /\ generation = 0 /\ since = Blank
  /\ processed = <<>> /\ polled = <<>>
  /\ initialQ = Emptied /\ pollQ = Unpolled
  /\ smooth = TRUE /\ crossed = FALSE

FeedNext ==
  \/ \E p \in FeedPixels : Stamp(p)
  \/ \E i \in 1 .. Len(log) : Store(i)
  \/ Tick
  \/ AskInitial \/ AskPoll
  \/ \E k \in Keys : LandInitial(k)
  \/ \E p \in Filters : LandPoll(p) \/ PollFails(p)
  \/ Refresh \/ Clear
  \/ \E p \in Filters : SetPixelFilter(p)
  \/ \E m \in {"live", "history"} : SetMode(m)
  \/ TogglePause \/ Leave \/ Enter \/ Collect

FeedSpec == FeedInit /\ [][FeedNext]_feedVars

-----------------------------------------------------------------------------
\* What computeRealtimeStats shows of the feed, one tick to an interval.

EventsPerMinute == Cardinality({n \in 1 .. Len(FeedEvents) : log[FeedEvents[n]].at >= now - Minute})

BucketOfSlip(t) == LET d == t - (now - Buckets) IN IF d < Buckets THEN d ELSE Buckets
BucketOf(t) == LET d == t - (now - Buckets) IN IF d < Buckets - 1 THEN d ELSE Buckets - 1
TimeBuckets ==
  [b \in 0 .. Buckets - 1 |->
     Cardinality({n \in 1 .. Len(FeedEvents) : LET t == log[FeedEvents[n]].at
                                           IN  t >= now - Buckets /\ BucketOf(t) = b})]

-----------------------------------------------------------------------------
\* Properties.

\* The hook's state has its types, its buffer and dedup set keep their sizes,
\* and the feed is paused in history mode only.
FeedTypeOK ==
  /\ log \in Seq([pixel : FeedPixels, at : 1 .. now, there : BOOLEAN])
  /\ pixel \in Filters /\ generation \in 0 .. MaxGen /\ since \in {Blank} \cup 1 .. now
  /\ ToSet(polled) \cup ToSet(processed) \subseteq Stored
  /\ Len(polled) <= MaxBuffer /\ Len(processed) <= 2 * MaxBuffer
  /\ paused = (mode = "history")

\* However loads, polls and changes of the filter overlap, the feed shows
\* events of the pixel the page filters by and no others.
FilterRespected ==
  /\ pixel = filter
  /\ \A n \in 1 .. Len(FeedEvents) : filter \in {All, log[FeedEvents[n]].pixel}

\* Unless the feed was reset under a running poll or to an earlier visit's
\* load, it is newest first and shows no event twice: the rows are keyed by
\* the event's id.
NewestFirst ==
  ~crossed => \A m, n \in 1 .. Len(FeedEvents) : m < n => FeedEvents[m] > FeedEvents[n]

\* The cursor passes no event by: what is stored after the oldest event shown
\* and up to the cursor is shown too.  This needs rows that are committed in the
\* order of their created_at and none with the time of another (a row that
\* commits late is behind the cursor for ever), a page opened with an empty
\* cache, polls within ListRecent's five minutes (smooth), and no such reset.
NothingSkipped ==
  (smooth /\ ~crossed /\ IsLoaded /\ FeedEvents # <<>>) =>
     \A n \in 1 .. Len(Of(pixel)) :
        LET i == Of(pixel)[n] IN
        (i > Last(FeedEvents) /\ log[i].at <= since) => i \in ToSet(FeedEvents)

\* The two figures computed from the feed agree: the events of the last minute
\* are those of the chart's last intervals.
RateMatchesChart ==
  LET sum[n \in 0 .. Minute] == IF n = 0 THEN 0 ELSE sum[n - 1] + TimeBuckets[Buckets - n]
  IN  EventsPerMinute = sum[Minute]
=============================================================================
