---------------------------- MODULE BillingProofs -----------------------------
(***************************************************************************)
(* What is true of Billing for every value of its constants: its type      *)
(* invariant, that nothing is granted twice, that what Stripe was told is  *)
(* done is done, and that once everything is answered the table follows    *)
(* Stripe and the customer has the plan that was paid for.                 *)
(***************************************************************************)
EXTENDS Billing, TLAPS

-----------------------------------------------------------------------------
(* Credits. *)

OnceInv == credits \in [Grants -> {0, 1}]

LEMMA CreditAdded ==
  ASSUME OnceInv, NEW g, Fits(g)
  PROVE  [credits EXCEPT ![g] = @ + 1] \in [Grants -> {0, 1}]
<1> DEFINE new == [credits EXCEPT ![g] = @ + 1]
<1>1. new = [k \in Grants |-> IF k = g THEN credits[g] + 1 ELSE credits[k]]
  BY DEF OnceInv
<1>2. ASSUME NEW k \in Grants
      PROVE  (IF k = g THEN credits[g] + 1 ELSE credits[k]) \in {0, 1}
  BY DEF OnceInv, Fits
<1> QED
  BY <1>1, <1>2

LEMMA OnceInductive == ASSUME OnceInv, [BillingNext]_billingVars PROVE OnceInv'
<1>1. ASSUME NEW w \in Workers, Checkout(w) \/ CommitUnheard(w)
      PROVE  OnceInv'
  <2> DEFINE g == Sub(w)
  <2>1. credits' = credits \/ (Fits(g) /\ credits' = [credits EXCEPT ![g] = @ + 1])
    BY <1>1 DEF Checkout, CommitUnheard
  <2> HIDE DEF g
  <2> QED
    BY <2>1, CreditAdded DEF OnceInv
<1>2. ASSUME NEW w \in Workers, Grant(w)
      PROVE  OnceInv'
  <2> DEFINE g == The(w).row.period
  <2>1. credits' = credits \/ (Fits(g) /\ credits' = [credits EXCEPT ![g] = @ + 1])
    BY <1>2 DEF Grant
  <2> HIDE DEF g
  <2> QED
    BY <2>1, CreditAdded DEF OnceInv
<1>3. ASSUME credits' = credits
      PROVE  OnceInv'
  BY <1>3 DEF OnceInv
<1>4. CASE UNCHANGED billingVars
  BY <1>3, <1>4 DEF billingVars
<1>5. ASSUME NEW g \in Goods,
             Begin(g) \/ Make(g) \/ Save(g) \/ SaveFails(g) \/ Pay(g) \/ Subscribe(g)
      PROVE  credits' = credits
  BY <1>5 DEF Begin, Make, Save, SaveFails, Pay, Subscribe, Report
<1>6. ASSUME NEW s \in Subs, End(s) \/ \E status \in {"active", "past_due"} : Renew(s, status)
      PROVE  credits' = credits
  BY <1>6 DEF End, Renew, Report
<1>7. ASSUME NEW w \in Workers,
             \/ Claim(w) \/ Rollback(w) \/ Reply(w) \/ Find(w) \/ Write(w) \/ Upgrade(w)
             \/ KeepLong(w) \/ Granted(w) \/ Seek(w) \/ Cancel(w) \/ LookForOthers(w)
             \/ Revert(w) \/ KeepShort(w) \/ StepFails(w) \/ RollbackFails(w) \/ ReplyLost(w)
      PROVE  credits' = credits
  BY <1>7 DEF Claim, Rollback, Reply, Find, Write, Upgrade, KeepLong, Granted, Seek, Cancel,
              LookForOthers, Revert, KeepShort, StepFails, RollbackFails, ReplyLost
<1>8. ASSUME (\E w \in Workers, e \in 1 .. Len(events) : Deliver(w, e)) \/ Crash
      PROVE  credits' = credits
  BY <1>8 DEF Deliver, Crash
<1> QED
  BY <1>1, <1>2, <1>3, <1>4, <1>5, <1>6, <1>7, <1>8 DEF BillingNext, Serve

LEMMA OnceAlways == BillingSpec => []OnceInv
<1>1. BillingInit => OnceInv
  BY DEF BillingInit, OnceInv
<1> QED
  BY <1>1, OnceInductive, PTL DEF BillingSpec

(* However many deliveries of however many events run at once, fail, or    *)
(* crash half way, no purchase and no period is credited twice.            *)
THEOREM NeverCreditedTwice == BillingSpec => []GrantedOnce
<1>1. OnceInv => GrantedOnce
  BY DEF OnceInv, GrantedOnce
<1> QED
  BY <1>1, OnceAlways, PTL

-----------------------------------------------------------------------------
(* Types.  The parts of the type invariant, and what a request knows of    *)
(* the event it serves at each of its steps.                               *)

ShopOK ==
  /\ made \in Nat /\ stripeId \in 0 .. made
  /\ buys \in [Goods -> [at : {"no", "make", "save", "open", "paid"}, holder : 0 .. made]]

TablesOK ==
  /\ stripe \in [Subs -> Row] /\ rows \in [Subs -> Row]
  /\ \A s \in Subs : stripe[s].status # "none" => stripe[s].period # 0
  /\ \A s \in Subs : rows[s].period = 0 => rows[s] = NoRow

(* Subscriptions that are not over.                                        *)
Living == {"active", "past_due"}

Shaped(v) ==
  /\ IF v.kind = "paid" THEN v.good \in Purchases ELSE v.good \in Subs
  /\ v.kind = "upsert" => v.row.period # 0 /\ v.row.status \in Living
  /\ v.kind = "deleted" => v.row.status = "canceled"

EventsOK ==
  /\ events \in Seq(Event) /\ Len(events) <= MaxEvents
  /\ \A e \in 1 .. Len(events) : Shaped(events[e])

ClaimsOK ==
  /\ acked \subseteq claims \cup dropped /\ claims \subseteq 1 .. Len(events)
  /\ dropped \subseteq 1 .. Len(events)

Upserting == {"find", "write", "plan", "retention", "grant", "insert"}
Deleting  == {"seek", "cancel", "others", "revert", "shorten"}

WorkersOK ==
  /\ workers \in [Workers -> [at : Steps \cup {"idle"}, event : 0 .. Len(events), seen : Row]]
  /\ \A w \in Workers :
       /\ IF workers[w].at = "idle" THEN workers[w] = Idle ELSE workers[w].event # 0
       /\ workers[w].at = "checkout" => The(w).kind = "paid"
       /\ workers[w].at \in Upserting => The(w).kind = "upsert"
       /\ workers[w].at \in Deleting => The(w).kind = "deleted"
       /\ workers[w].at = "cancel" => workers[w].seen.period # 0

CustomerOK == plan \in {"sandbox", "paid"} /\ retention \in {"free", "paid"}

BillingInv == ShopOK /\ TablesOK /\ EventsOK /\ ClaimsOK /\ WorkersOK /\ CustomerOK

LEMMA InvImpliesType == BillingInv => BillingTypeOK
  BY DEF BillingInv, ShopOK, TablesOK, EventsOK, ClaimsOK, WorkersOK, CustomerOK, BillingTypeOK,
         Idle, NoRow

LEMMA InvInitially == BillingInit => BillingInv
<1> SUFFICES ASSUME BillingInit PROVE BillingInv
  OBVIOUS
<1> USE BillingAssumption
<1>1. PICK old \in {{}, Old} :
        /\ stripeId = made /\ made = IF old = {} THEN 0 ELSE 1
        /\ buys = [g \in Goods |-> IF g \in old THEN [at |-> "paid", holder |-> 1] ELSE NoBuy]
        /\ stripe = [s \in Subs |-> IF s \in old THEN [status |-> "active", period |-> 1] ELSE NoRow]
        /\ rows = stripe
  BY DEF BillingInit
<1>2. /\ events = <<>> /\ acked = {} /\ claims = {} /\ dropped = {}
      /\ workers = [w \in Workers |-> Idle]
  BY DEF BillingInit
<1>3. ShopOK
  BY <1>1 DEF ShopOK, NoBuy
<1>4. TablesOK
  <2>1. NoRow \in Row /\ [status |-> "active", period |-> 1] \in Row
    BY DEF NoRow, Row
  <2> QED
    BY <1>1, <2>1 DEF TablesOK, NoRow
<1>5. EventsOK /\ ClaimsOK
  BY <1>2 DEF EventsOK, ClaimsOK
<1>6. WorkersOK
  <2>1. NoRow \in Row
    BY DEF NoRow, Row
  <2> QED
    BY <1>2, <2>1 DEF WorkersOK, Idle, Steps, Upserting, Deleting
<1>7. CustomerOK
  BY DEF BillingInit, CustomerOK
<1> QED
  BY <1>3, <1>4, <1>5, <1>6, <1>7 DEF BillingInv

(* Stripe reports: the sequence of events grows by one, and nothing that   *)
(* was said of the earlier ones changes.                                   *)
LEMMA Reported ==
  ASSUME BillingInv, NEW kind \in {"paid", "upsert", "deleted"}, NEW g \in Goods, NEW row \in Row,
         Report(kind, g, row),
         IF kind = "paid" THEN g \in Purchases ELSE g \in Subs,
         kind = "upsert" => row.period # 0 /\ row.status \in Living,
         kind = "deleted" => row.status = "canceled"
  PROVE  EventsOK' /\ ClaimsOK' /\ WorkersOK'
<1> DEFINE v == [kind |-> kind, good |-> g, row |-> row, holder |-> buys[g].holder]
<1>1. v \in Event /\ Shaped(v)
  BY DEF BillingInv, ShopOK, Event, Shaped
<1> HIDE DEF v
<1>2. events \in Seq(Event) /\ events' = Append(events, v) /\ Len(events) < MaxEvents
  BY DEF BillingInv, EventsOK, Report, v
<1>3. /\ events' \in Seq(Event) /\ Len(events') = Len(events) + 1
      /\ \A e \in 1 .. Len(events) : events'[e] = events[e]
      /\ events'[Len(events) + 1] = v
  BY <1>1, <1>2
<1>4. EventsOK'
  <2>1. ASSUME NEW e \in 1 .. Len(events')
        PROVE  Shaped(events'[e])
    BY <1>1, <1>2, <1>3, <2>1 DEF BillingInv, EventsOK
  <2> QED
    BY <1>2, <1>3, <2>1, BillingAssumption DEF EventsOK, Shaped
<1>5. ClaimsOK'
  BY <1>2, <1>3 DEF BillingInv, ClaimsOK, Report, ghosts
<1>6. WorkersOK'
  <2>1. workers' = workers
    BY DEF Report
  <2>2. ASSUME NEW w \in Workers, workers[w].at # "idle"
        PROVE  events'[workers[w].event] = events[workers[w].event]
    BY <1>2, <1>3, <2>2 DEF BillingInv, WorkersOK
  <2> QED
    BY <1>2, <1>3, <2>1, <2>2 DEF BillingInv, WorkersOK, The, Upserting, Deleting
<1> QED
  BY <1>4, <1>5, <1>6

LEMMA ShoppingKeepsInv ==
  ASSUME BillingInv, NEW g \in Goods, Begin(g) \/ Make(g) \/ Save(g) \/ SaveFails(g)
  PROVE  BillingInv'
<1>1. UNCHANGED <<stripe, events, acked, claims, dropped, workers, rows, plan, retention>>
  BY DEF Begin, Make, Save, SaveFails, sold, customer, ghosts
<1>2. ShopOK'
  BY DEF BillingInv, ShopOK, Begin, Make, Save, SaveFails, NoBuy
<1>3. (TablesOK /\ EventsOK /\ ClaimsOK /\ WorkersOK /\ CustomerOK)'
  BY <1>1 DEF BillingInv, TablesOK, EventsOK, Shaped, ClaimsOK, WorkersOK, The, CustomerOK
<1> QED
  BY <1>2, <1>3 DEF BillingInv

LEMMA PayKeepsInv ==
  ASSUME BillingInv, NEW g \in Goods, Pay(g)
  PROVE  BillingInv'
<1>1. UNCHANGED <<stripeId, made, stripe, rows, plan, retention>>
  BY DEF Pay, Report, customer
<1>2. Report("paid", g, NoRow) /\ NoRow \in Row /\ g \in Purchases
  BY BillingAssumption DEF Pay, NoRow, Row
<1>3. (EventsOK /\ ClaimsOK /\ WorkersOK)'
  BY <1>2, Reported
<1>4. ShopOK'
  BY <1>1 DEF BillingInv, ShopOK, Pay
<1>5. (TablesOK /\ CustomerOK)'
  BY <1>1 DEF BillingInv, TablesOK, CustomerOK
<1> QED
  BY <1>3, <1>4, <1>5 DEF BillingInv

(* What Stripe makes of a subscription is what it reports.                 *)
LEMMA SubscriptionReports ==
  ASSUME BillingInv, NEW s \in Subs,
         Subscribe(s) \/ End(s) \/ \E status \in {"active", "past_due"} : Renew(s, status)
  PROVE  \E kind \in {"upsert", "deleted"}, row \in Row :
           /\ stripe' = [stripe EXCEPT ![s] = row] /\ Report(kind, s, row)
           /\ row.period # 0 /\ row.status # "none"
           /\ kind = "upsert" => row.status \in Living
           /\ kind = "deleted" => row.status = "canceled" /\ stripe[s].status # "none"
<1>1. CASE Subscribe(s)
  <2> DEFINE row == [status |-> "active", period |-> 1]
  <2>1. row \in Row /\ row.period # 0 /\ row.status \in Living /\ row.status # "none"
    BY BillingAssumption DEF Row, Living
  <2>2. stripe' = [stripe EXCEPT ![s] = row] /\ stripe'[s] = row
    BY <1>1 DEF Subscribe, BillingInv, TablesOK
  <2>3. Report("upsert", s, row)
    BY <1>1, <2>2 DEF Subscribe
  <2> QED
    BY <2>1, <2>2, <2>3
<1>2. CASE End(s)
  <2> DEFINE row == [stripe[s] EXCEPT !.status = "canceled"]
  <2>1. row \in Row /\ row.period # 0 /\ row.status = "canceled"
    BY <1>2 DEF End, BillingInv, TablesOK, Row
  <2>2. stripe' = [stripe EXCEPT ![s] = row] /\ stripe'[s] = row
    BY <1>2 DEF End, BillingInv, TablesOK
  <2>3. Report("deleted", s, row) /\ stripe[s].status # "none"
    BY <1>2, <2>2 DEF End
  <2> QED
    BY <2>1, <2>2, <2>3
<1>3. ASSUME NEW status \in {"active", "past_due"}, Renew(s, status)
      PROVE  \E kind \in {"upsert", "deleted"}, row \in Row :
               /\ stripe' = [stripe EXCEPT ![s] = row] /\ Report(kind, s, row)
               /\ row.period # 0 /\ row.status # "none"
               /\ kind = "upsert" => row.status \in Living
               /\ kind = "deleted" => row.status = "canceled" /\ stripe[s].status # "none"
  <2> DEFINE row == [status |-> status, period |-> stripe[s].period + 1]
  <2>1. row \in Row /\ row.period # 0 /\ row.status \in Living /\ row.status # "none"
    BY <1>3, BillingAssumption DEF Renew, BillingInv, TablesOK, Row, Living
  <2>2. stripe' = [stripe EXCEPT ![s] = row] /\ stripe'[s] = row
    BY <1>3 DEF Renew, BillingInv, TablesOK
  <2>3. Report("upsert", s, row)
    BY <1>3, <2>2 DEF Renew
  <2> QED
    BY <2>1, <2>2, <2>3
<1> QED
  BY <1>1, <1>2, <1>3

LEMMA SubscriptionKeepsInv ==
  ASSUME BillingInv, NEW s \in Subs,
         Subscribe(s) \/ End(s) \/ \E status \in {"active", "past_due"} : Renew(s, status)
  PROVE  BillingInv'
<1>1. UNCHANGED <<stripeId, made, rows, plan, retention>>
  BY DEF Subscribe, End, Renew, Report, customer
<1>2. PICK kind \in {"upsert", "deleted"}, row \in Row :
        /\ stripe' = [stripe EXCEPT ![s] = row] /\ Report(kind, s, row)
        /\ row.period # 0
        /\ kind = "upsert" => row.status \in Living
        /\ kind = "deleted" => row.status = "canceled"
  BY SubscriptionReports
<1>3. (EventsOK /\ ClaimsOK /\ WorkersOK)'
  BY <1>2, Reported DEF Goods
<1>4. ShopOK'
  BY <1>1 DEF BillingInv, ShopOK, Subscribe, End, Renew
<1>5. (TablesOK /\ CustomerOK)'
  BY <1>1, <1>2 DEF BillingInv, TablesOK, CustomerOK
<1> QED
  BY <1>3, <1>4, <1>5 DEF BillingInv

(* A request goes on with its event, or comes to its end.                  *)
LEMMA WorkerMoves ==
  ASSUME BillingInv, UNCHANGED events, NEW w \in Workers, workers[w].at # "idle",
         NEW r \in [at : Steps, event : 0 .. Len(events), seen : Row],
         workers' = [workers EXCEPT ![w] = r], r.event = workers[w].event,
         r.at = "checkout" => The(w).kind = "paid",
         r.at \in Upserting => The(w).kind = "upsert",
         r.at \in Deleting => The(w).kind = "deleted",
         r.at = "cancel" => r.seen.period # 0
  PROVE  WorkersOK'
<1>1. workers' \in [Workers -> [at : Steps \cup {"idle"}, event : 0 .. Len(events'), seen : Row]]
  BY DEF BillingInv, WorkersOK
<1>2. ASSUME NEW v \in Workers
      PROVE  (/\ IF workers[v].at = "idle" THEN workers[v] = Idle ELSE workers[v].event # 0
              /\ workers[v].at = "checkout" => The(v).kind = "paid"
              /\ workers[v].at \in Upserting => The(v).kind = "upsert"
              /\ workers[v].at \in Deleting => The(v).kind = "deleted"
              /\ workers[v].at = "cancel" => workers[v].seen.period # 0)'
  <2>1. CASE v = w
    <3>1. workers'[v] = r /\ r.at # "idle" /\ r.event # 0
      BY <2>1 DEF BillingInv, WorkersOK, Steps
    <3> QED
      BY <2>1, <3>1 DEF The, Upserting, Deleting
  <2>2. CASE v # w
    BY <2>2 DEF BillingInv, WorkersOK, The, Upserting, Deleting
  <2> QED
    BY <2>1, <2>2
<1> QED
  BY <1>1, <1>2 DEF WorkersOK

LEMMA WorkerEnds ==
  ASSUME BillingInv, UNCHANGED events, NEW w \in Workers, workers' = [workers EXCEPT ![w] = Idle]
  PROVE  WorkersOK'
<1>1. Idle \in [at : Steps \cup {"idle"}, event : 0 .. Len(events'), seen : Row] /\ Idle.at = "idle"
  BY BillingAssumption DEF Idle, NoRow, Row, BillingInv, EventsOK
<1>2. workers' \in [Workers -> [at : Steps \cup {"idle"}, event : 0 .. Len(events'), seen : Row]]
  BY <1>1 DEF BillingInv, WorkersOK
<1>3. ASSUME NEW v \in Workers
      PROVE  (/\ IF workers[v].at = "idle" THEN workers[v] = Idle ELSE workers[v].event # 0
              /\ workers[v].at = "checkout" => The(v).kind = "paid"
              /\ workers[v].at \in Upserting => The(v).kind = "upsert"
              /\ workers[v].at \in Deleting => The(v).kind = "deleted"
              /\ workers[v].at = "cancel" => workers[v].seen.period # 0)'
  <2>1. CASE v = w
    <3>1. workers'[v] = Idle
      BY <2>1 DEF BillingInv, WorkersOK
    <3> QED
      BY <1>1, <3>1 DEF Upserting, Deleting
  <2>2. CASE v # w
    BY <2>2 DEF BillingInv, WorkersOK, The, Upserting, Deleting
  <2> QED
    BY <2>1, <2>2
<1> QED
  BY <1>2, <1>3 DEF WorkersOK

(* To changes the step alone.                                              *)
LEMMA StepTaken ==
  ASSUME BillingInv, UNCHANGED events, NEW w \in Workers, workers[w].at # "idle",
         NEW step \in Steps, To(w, step), step # "cancel",
         step = "checkout" => The(w).kind = "paid",
         step \in Upserting => The(w).kind = "upsert",
         step \in Deleting => The(w).kind = "deleted"
  PROVE  WorkersOK'
<1> DEFINE r == [workers[w] EXCEPT !.at = step]
<1>1. /\ r \in [at : Steps, event : 0 .. Len(events), seen : Row]
      /\ r.at = step /\ r.event = workers[w].event
      /\ workers' = [workers EXCEPT ![w] = r]
  BY DEF To, BillingInv, WorkersOK
<1> HIDE DEF r
<1> QED
  BY <1>1, WorkerMoves

LEMMA DeliveryKeepsInv ==
  ASSUME BillingInv, NEW w \in Workers, NEW e \in 1 .. Len(events), Deliver(w, e)
  PROVE  BillingInv'
<1>1. UNCHANGED <<stripeId, made, buys, stripe, events, acked, claims, dropped, rows, plan, retention>>
  BY DEF Deliver, shop, sold, customer, ghosts
<1>2. WorkersOK'
  <2>1. [at |-> "claim", event |-> e, seen |-> NoRow]
           \in [at : Steps \cup {"idle"}, event : 0 .. Len(events), seen : Row]
    BY BillingAssumption DEF NoRow, Row, Steps, BillingInv, EventsOK
  <2> QED
    BY <1>1, <2>1 DEF Deliver, BillingInv, WorkersOK, The, Upserting, Deleting
<1>3. (ShopOK /\ TablesOK /\ EventsOK /\ ClaimsOK /\ CustomerOK)'
  BY <1>1 DEF BillingInv, ShopOK, TablesOK, EventsOK, Shaped, ClaimsOK, CustomerOK
<1> QED
  BY <1>2, <1>3 DEF BillingInv

LEMMA CrashKeepsInv == ASSUME BillingInv, Crash PROVE BillingInv'
<1>1. UNCHANGED <<stripeId, made, buys, stripe, events, acked, claims, rows, plan, retention>>
  BY DEF Crash, shop, sold, customer
<1>2. WorkersOK'
  <2>1. Idle \in [at : Steps \cup {"idle"}, event : 0 .. Len(events), seen : Row]
    BY BillingAssumption DEF Idle, NoRow, Row, BillingInv, EventsOK
  <2> QED
    BY <1>1, <2>1 DEF Crash, WorkersOK, Idle, Upserting, Deleting
<1>3. ClaimsOK'
  <2>1. ASSUME NEW v \in Workers, workers[v].at \notin {"idle", "claim", "reply"}
        PROVE  workers[v].event \in 1 .. Len(events)
    BY <2>1 DEF BillingInv, WorkersOK, EventsOK
  <2>2. dropped \subseteq dropped' /\ dropped' \subseteq 1 .. Len(events)
    BY <2>1 DEF Crash, BillingInv, ClaimsOK
  <2> QED
    BY <1>1, <2>2 DEF BillingInv, ClaimsOK
<1>4. (ShopOK /\ TablesOK /\ EventsOK /\ CustomerOK)'
  BY <1>1 DEF BillingInv, ShopOK, TablesOK, EventsOK, Shaped, CustomerOK
<1> QED
  BY <1>2, <1>3, <1>4 DEF BillingInv

LEMMA ClaimingKeepsInv ==
  ASSUME BillingInv, NEW w \in Workers,
         \/ Claim(w) \/ StepFails(w) \/ Rollback(w) \/ RollbackFails(w) \/ Reply(w) \/ ReplyLost(w)
  PROVE  BillingInv'
<1>1. UNCHANGED <<stripeId, made, buys, stripe, events, rows, plan, retention>>
  BY DEF Claim, StepFails, Rollback, RollbackFails, Reply, ReplyLost, shop, sold, customer
<1>2. /\ workers[w].at \in Steps /\ workers[w].at # "idle" /\ workers[w].event \in 1 .. Len(events)
      /\ The(w) \in Event /\ Shaped(The(w))
  BY DEF Claim, StepFails, Rollback, RollbackFails, Reply, ReplyLost, At, Steps, BillingInv,
         WorkersOK, EventsOK, The
<1>3. WorkersOK'
  <2>1. CASE Claim(w)
    <3>1. PICK step \in {"reply", FirstStep(The(w).kind)} : To(w, step)
      BY <2>1 DEF Claim
    <3>2. /\ step \in Steps \ {"cancel"}
          /\ step = "checkout" => The(w).kind = "paid"
          /\ step \in Upserting => The(w).kind = "upsert"
          /\ step \in Deleting => The(w).kind = "deleted"
      BY <1>2, <3>1 DEF FirstStep, Event, Steps, Upserting, Deleting
    <3> QED
      BY <1>1, <1>2, <3>1, <3>2, StepTaken
  <2>2. CASE workers' = [workers EXCEPT ![w] = Idle]
    BY <1>1, <2>2, WorkerEnds
  <2>3. CASE workers' = [workers EXCEPT ![w] = [@ EXCEPT !.at = "rollback"]]
    <3>1. To(w, "rollback") /\ "rollback" \in Steps
      BY <2>3 DEF To, Steps
    <3> QED
      BY <1>1, <1>2, <3>1, StepTaken DEF Upserting, Deleting
  <2> QED
    BY <2>1, <2>2, <2>3 DEF StepFails, Rollback, RollbackFails, Reply, ReplyLost
<1>4. ClaimsOK'
  BY <1>1, <1>2
  DEF Claim, StepFails, Rollback, RollbackFails, Reply, ReplyLost, Released, ghosts, BillingInv, ClaimsOK
<1>5. (ShopOK /\ TablesOK /\ EventsOK /\ CustomerOK)'
  BY <1>1 DEF BillingInv, ShopOK, TablesOK, EventsOK, Shaped, CustomerOK
<1> QED
  BY <1>3, <1>4, <1>5 DEF BillingInv

LEMMA CheckoutKeepsInv ==
  ASSUME BillingInv, NEW w \in Workers, Checkout(w) \/ CommitUnheard(w)
  PROVE  BillingInv'
<1>1. UNCHANGED <<stripeId, made, buys, stripe, events, acked, claims, dropped, rows, plan, retention>>
  BY DEF Checkout, CommitUnheard, shop, sold, customer, ghosts
<1>2. WorkersOK'
  <2>1. workers[w].at # "idle"
    BY DEF Checkout, CommitUnheard, At
  <2>2. PICK step \in {"reply", "rollback"} : To(w, step)
    BY DEF Checkout, CommitUnheard
  <2>3. step \in Steps \ {"cancel", "checkout"} /\ step \notin Upserting /\ step \notin Deleting
    BY DEF Steps, Upserting, Deleting
  <2> QED
    BY <1>1, <2>1, <2>2, <2>3, StepTaken
<1>3. (ShopOK /\ TablesOK /\ EventsOK /\ ClaimsOK /\ CustomerOK)'
  BY <1>1 DEF BillingInv, ShopOK, TablesOK, EventsOK, Shaped, ClaimsOK, CustomerOK
<1> QED
  BY <1>2, <1>3 DEF BillingInv

LEMMA UpsertKeepsInv ==
  ASSUME BillingInv, NEW w \in Workers,
         Find(w) \/ Write(w) \/ Upgrade(w) \/ KeepLong(w) \/ Granted(w) \/ Grant(w)
  PROVE  BillingInv'
<1>1. UNCHANGED <<stripeId, made, buys, stripe, events, acked, claims, dropped>>
  BY DEF Find, Write, Upgrade, KeepLong, Granted, Grant, shop, sold, ghosts
<1>2. /\ workers[w].at \in Upserting /\ workers[w].at # "idle"
      /\ workers[w].event \in 1 .. Len(events)
      /\ The(w) \in Event /\ Shaped(The(w)) /\ The(w).kind = "upsert"
  BY DEF Find, Write, Upgrade, KeepLong, Granted, Grant, At, Upserting, BillingInv,
         WorkersOK, EventsOK, The
<1>3. Sub(w) \in Subs /\ The(w).row \in Row /\ The(w).row.period # 0
  BY <1>2 DEF Shaped, Event, Sub
<1>4. CASE Find(w)
  <2>1. PICK step \in {"write", "rollback"} :
          workers' = [workers EXCEPT ![w] = [workers[w] EXCEPT !.at = step, !.seen = rows[Sub(w)]]]
    BY <1>4 DEF Find
  <2> DEFINE r == [workers[w] EXCEPT !.at = step, !.seen = rows[Sub(w)]]
  <2>2. /\ r \in [at : Steps, event : 0 .. Len(events), seen : Row]
        /\ r.event = workers[w].event /\ r.at = step
    BY <1>3 DEF BillingInv, WorkersOK, TablesOK, Steps
  <2> HIDE DEF r
  <2>3. WorkersOK'
    BY <1>1, <1>2, <2>1, <2>2, WorkerMoves DEF Upserting, Deleting, r
  <2>4. UNCHANGED <<rows, plan, retention>>
    BY <1>4 DEF Find, customer
  <2>5. (ShopOK /\ TablesOK /\ EventsOK /\ ClaimsOK /\ CustomerOK)'
    BY <1>1, <2>4 DEF BillingInv, ShopOK, TablesOK, EventsOK, Shaped, ClaimsOK, CustomerOK
  <2> QED
    BY <2>3, <2>5 DEF BillingInv
<1>5. ASSUME ~ Find(w)
      PROVE  BillingInv'
  <2>1. PICK step \in {"plan", "retention", "grant", "insert", "reply", "rollback"} : To(w, step)
    BY <1>5 DEF Write, AfterWrite, Upgrade, KeepLong, Granted, Grant
  <2>2. step \in Steps \ {"cancel", "checkout"} /\ step \notin Deleting
    BY DEF Steps, Deleting
  <2>3. WorkersOK'
    BY <1>1, <1>2, <2>1, <2>2, StepTaken
  <2>4. TablesOK'
    <3>1. rows' = rows \/ rows' = [rows EXCEPT ![Sub(w)] = The(w).row]
      BY <1>5 DEF Write, Written, Upgrade, KeepLong, Granted, Grant
    <3> QED
      BY <1>1, <1>3, <3>1 DEF BillingInv, TablesOK
  <2>5. CustomerOK'
    BY <1>5 DEF Write, Upgrade, KeepLong, Granted, Grant, customer, BillingInv, CustomerOK
  <2>6. (ShopOK /\ EventsOK /\ ClaimsOK)'
    BY <1>1 DEF BillingInv, ShopOK, EventsOK, Shaped, ClaimsOK
  <2> QED
    BY <2>3, <2>4, <2>5, <2>6 DEF BillingInv
<1> QED
  BY <1>4, <1>5

LEMMA DeletionKeepsInv ==
  ASSUME BillingInv, NEW w \in Workers,
         Seek(w) \/ Cancel(w) \/ LookForOthers(w) \/ Revert(w) \/ KeepShort(w)
  PROVE  BillingInv'
<1>1. UNCHANGED <<stripeId, made, buys, stripe, events, acked, claims, dropped>>
  BY DEF Seek, Cancel, LookForOthers, Revert, KeepShort, shop, sold, ghosts
<1>2. /\ workers[w].at \in Deleting /\ workers[w].at # "idle"
      /\ workers[w].event \in 1 .. Len(events)
      /\ The(w) \in Event /\ Shaped(The(w)) /\ The(w).kind = "deleted"
  BY DEF Seek, Cancel, LookForOthers, Revert, KeepShort, At, Deleting, BillingInv,
         WorkersOK, EventsOK, The
<1>3. Sub(w) \in Subs
  BY <1>2 DEF Shaped, Sub
<1>4. CASE Seek(w)
  <2>1. PICK step \in {"cancel", "reply"} :
          /\ workers' = [workers EXCEPT ![w] = [workers[w] EXCEPT !.at = step, !.seen = rows[Sub(w)]]]
          /\ step = "cancel" => rows[Sub(w)] # NoRow
    BY <1>4 DEF Seek, Missing
  <2> DEFINE r == [workers[w] EXCEPT !.at = step, !.seen = rows[Sub(w)]]
  <2>2. /\ r \in [at : Steps, event : 0 .. Len(events), seen : Row]
        /\ r.event = workers[w].event /\ r.at = step
        /\ step = "cancel" => r.seen.period # 0
    BY <1>3, <2>1 DEF BillingInv, WorkersOK, TablesOK, Steps
  <2> HIDE DEF r
  <2>3. WorkersOK'
    BY <1>1, <1>2, <2>1, <2>2, WorkerMoves DEF Upserting, r
  <2>4. UNCHANGED <<rows, plan, retention>>
    BY <1>4 DEF Seek, customer
  <2>5. (ShopOK /\ TablesOK /\ EventsOK /\ ClaimsOK /\ CustomerOK)'
    BY <1>1, <2>4 DEF BillingInv, ShopOK, TablesOK, EventsOK, Shaped, ClaimsOK, CustomerOK
  <2> QED
    BY <2>3, <2>5 DEF BillingInv
<1>5. ASSUME ~ Seek(w)
      PROVE  BillingInv'
  <2>1. PICK step \in {"others", "revert", "shorten", "reply"} : To(w, step)
    BY <1>5 DEF Cancel, LookForOthers, Revert, KeepShort
  <2>2. step \in Steps \ {"cancel", "checkout"} /\ step \notin Upserting
    BY DEF Steps, Upserting
  <2>3. WorkersOK'
    BY <1>1, <1>2, <2>1, <2>2, StepTaken
  <2>4. TablesOK'
    <3>1. CASE Cancel(w)
      <4> DEFINE row == [workers[w].seen EXCEPT !.status = "canceled"]
      <4>1. row \in Row /\ row.period # 0
        BY <3>1 DEF Cancel, At, BillingInv, WorkersOK, Row
      <4>2. rows' = [rows EXCEPT ![Sub(w)] = row]
        BY <3>1 DEF Cancel
      <4> HIDE DEF row
      <4> QED
        BY <1>1, <1>3, <4>1, <4>2 DEF BillingInv, TablesOK
    <3>2. CASE ~ Cancel(w)
      BY <1>1, <1>5, <3>2 DEF LookForOthers, Revert, KeepShort, BillingInv, TablesOK
    <3> QED
      BY <3>1, <3>2
  <2>5. CustomerOK'
    BY <1>5 DEF Cancel, LookForOthers, Revert, KeepShort, customer, BillingInv, CustomerOK
  <2>6. (ShopOK /\ EventsOK /\ ClaimsOK)'
    BY <1>1 DEF BillingInv, ShopOK, EventsOK, Shaped, ClaimsOK
  <2> QED
    BY <2>3, <2>4, <2>5, <2>6 DEF BillingInv
<1> QED
  BY <1>4, <1>5

LEMMA NextKeepsInv == ASSUME BillingInv, [BillingNext]_billingVars PROVE BillingInv'
<1>1. CASE UNCHANGED billingVars
  BY <1>1 DEF billingVars, shop, sold, customer, ghosts, BillingInv, ShopOK, TablesOK, EventsOK,
              Shaped, ClaimsOK, WorkersOK, The, CustomerOK
<1>2. ASSUME NEW g \in Goods,
             Begin(g) \/ Make(g) \/ Save(g) \/ SaveFails(g) \/ Pay(g) \/ Subscribe(g)
      PROVE  BillingInv'
  <2>1. Subscribe(g) => g \in Subs
    BY DEF Subscribe
  <2> QED
    BY <1>2, <2>1, ShoppingKeepsInv, PayKeepsInv, SubscriptionKeepsInv
<1>3. ASSUME NEW s \in Subs, End(s) \/ \E status \in {"active", "past_due"} : Renew(s, status)
      PROVE  BillingInv'
  BY <1>3, SubscriptionKeepsInv
<1>4. ASSUME NEW w \in Workers,
             Serve(w) \/ StepFails(w) \/ RollbackFails(w) \/ ReplyLost(w) \/ CommitUnheard(w)
      PROVE  BillingInv'
  BY <1>4, ClaimingKeepsInv, CheckoutKeepsInv, UpsertKeepsInv, DeletionKeepsInv DEF Serve
<1> QED
  BY <1>1, <1>2, <1>3, <1>4, DeliveryKeepsInv, CrashKeepsInv DEF BillingNext

LEMMA InvAlways == BillingSpec => []BillingInv
  BY InvInitially, NextKeepsInv, PTL DEF BillingSpec

(* The tables of the billing service and the requests that work on them    *)
(* stay well formed: no row without a period but the missing one, no id of *)
(* a Stripe customer that was not made, and no acknowledged event that is  *)
(* neither claimed nor known to have been given up.                        *)
THEOREM BillingTypeCorrect == BillingSpec => []BillingTypeOK
  BY InvAlways, InvImpliesType, PTL

-----------------------------------------------------------------------------
(***************************************************************************)
(* What Stripe was told is done is done (AnsweredIsApplied).               *)
(***************************************************************************)

(* What an event is for has come about.                                    *)
Effect(e) ==
  LET g == events[e].good IN
  IF g \in Purchases THEN credits[g] = 1
  ELSE /\ latest[g] >= e
       /\ g \in Monthlies /\ events[e].row.status = "active" => credits[events[e].row.period] = 1

Serving(w)  == workers[w].at \notin {"idle", "claim", "reply"}
ServedBy(e) == \E w \in Workers : Serving(w) /\ workers[w].event = e

(* The strengthening: a claimed event that was not given up is applied, or *)
(* a request is at it.                                                     *)
ClaimedIsApplied == \A e \in claims \ dropped : Effect(e) \/ ServedBy(e)

(* What a request has done by the step it is at.                           *)
AtThePlan == {"plan", "retention", "others", "revert", "shorten"}
HalfWay ==
  \A w \in Workers :
    /\ workers[w].at \in AtThePlan \cup {"grant", "insert"}
         => latest[Sub(w)] >= workers[w].event
    /\ workers[w].at \in AtThePlan => Slot(w)

AnswerInv ==
  /\ OnceInv /\ latest \in [Subs -> Nat]
  /\ ClaimedIsApplied /\ HalfWay

LEMMA AnswerInvSuffices == BillingInv /\ AnswerInv => AnsweredIsApplied
<1> SUFFICES ASSUME BillingInv, AnswerInv, NEW e \in acked \ dropped,
                    \A w \in Workers : workers[w].event # e
             PROVE  Effect(e)
  BY DEF AnsweredIsApplied, Effect
<1>1. e \in claims \ dropped
  BY DEF BillingInv, ClaimsOK
<1> QED
  BY <1>1 DEF AnswerInv, ClaimedIsApplied, ServedBy

LEMMA AnswersInitially == BillingInit => AnswerInv
<1> SUFFICES ASSUME BillingInit PROVE AnswerInv
  OBVIOUS
<1>1. /\ credits = [g \in Grants |-> 0] /\ latest = [s \in Subs |-> 0] /\ claims = {}
      /\ workers = [w \in Workers |-> Idle]
  BY DEF BillingInit
<1> QED
  BY <1>1 DEF AnswerInv, OnceInv, ClaimedIsApplied, HalfWay, Idle, AtThePlan

-----------------------------------------------------------------------------
(* Nothing that was done is undone: the credits and the last event applied *)
(* to a subscription only grow.                                            *)
Grow ==
  /\ \A k \in Grants : credits[k] = 1 => credits'[k] = 1
  /\ latest' \in [Subs -> Nat]
  /\ \A s \in Subs : latest'[s] >= latest[s]

(* The subject of an event, and what it grants.                            *)
LEMMA EventFacts ==
  ASSUME BillingInv, NEW e \in 1 .. Len(events)
  PROVE  /\ e \in Nat \ {0} /\ events[e] \in Event
         /\ IF events[e].kind = "paid" THEN events[e].good \in Purchases ELSE events[e].good \in Subs
         /\ events[e].good \in Purchases <=> events[e].kind = "paid"
         /\ events[e].kind = "deleted" => events[e].row.status = "canceled"
         /\ events[e].kind = "upsert" => events[e].row.period \in Grants
<1>1. events[e] \in Event /\ Shaped(events[e])
  BY DEF BillingInv, EventsOK
<1>2. events[e].kind = "upsert" => events[e].row.period \in 1 .. MaxPeriod
  BY <1>1, BillingAssumption DEF Shaped, Event, Row
<1>3. events[e].good \in Purchases <=> events[e].kind = "paid"
  BY <1>1, BillingAssumption DEF Shaped
<1>4. e \in Nat \ {0}
  BY DEF BillingInv, EventsOK
<1> QED
  BY <1>1, <1>2, <1>3, <1>4 DEF Shaped, Grants

(* The event a request serves.                                             *)
LEMMA TheEvent ==
  ASSUME BillingInv, NEW w \in Workers, workers[w].at # "idle"
  PROVE  /\ workers[w].event \in 1 .. Len(events) /\ The(w) = events[workers[w].event]
         /\ The(w).kind \in {"paid", "upsert", "deleted"}
         /\ Sub(w) = events[workers[w].event].good
         /\ workers[w].at \in Upserting \cup Deleting => Sub(w) \in Subs /\ Sub(w) \notin Purchases
<1>1. workers[w].event \in 1 .. Len(events)
  BY DEF BillingInv, WorkersOK, EventsOK
<1> QED
  BY <1>1, EventFacts, BillingAssumption
  DEF BillingInv, WorkersOK, The, Sub, Event, Upserting, Deleting

LEMMA EffectLasts ==
  ASSUME BillingInv, Grow, latest \in [Subs -> Nat], NEW e \in 1 .. Len(events),
         events'[e] = events[e], Effect(e)
  PROVE  Effect(e)'
<1>1. CASE events[e].good \in Purchases
  BY <1>1 DEF Effect, Grow, Grants
<1>2. CASE events[e].good \notin Purchases
  <2>1. events[e].kind \in {"paid", "upsert", "deleted"}
    BY EventFacts DEF Event
  <2>2. events[e].good \in Subs /\ (events[e].row.status = "active" => events[e].row.period \in Grants)
    BY <1>2, <2>1, EventFacts
  <2> QED
    BY <1>2, <2>2, EventFacts DEF Effect, Grow
<1> QED
  BY <1>1, <1>2

(* The step of one request that claims nothing new: its own event is still *)
(* served, or applied, or no longer of concern.                            *)
LEMMA OneMoves ==
  ASSUME BillingInv, AnswerInv, Grow, NEW w \in Workers,
         UNCHANGED events, \A v \in Workers \ {w} : workers'[v] = workers[v],
         claims' \subseteq claims, dropped \subseteq dropped',
         \/ ~ Serving(w)
         \/ Serving(w)' /\ workers'[w].event = workers[w].event
         \/ \A e : e = workers[w].event => Effect(e)'
         \/ workers[w].event \notin claims' \ dropped'
  PROVE  ClaimedIsApplied'
<1> SUFFICES ASSUME NEW e \in claims' \ dropped'
             PROVE  Effect(e)' \/ ServedBy(e)'
  BY DEF ClaimedIsApplied
<1>1. e \in claims \ dropped /\ e \in 1 .. Len(events)
  BY DEF BillingInv, ClaimsOK
<1>2. CASE Effect(e)
  BY <1>1, <1>2, EffectLasts DEF AnswerInv
<1>3. CASE ServedBy(e)
  <2>1. PICK v \in Workers : Serving(v) /\ workers[v].event = e
    BY <1>3 DEF ServedBy
  <2>2. CASE v = w
    BY <2>1, <2>2, Zenon DEF ServedBy
  <2>3. CASE v # w
    <3>1. workers'[v] = workers[v]
      BY <2>3
    <3> QED
      BY <2>1, <3>1 DEF ServedBy, Serving
  <2> QED
    BY <2>2, <2>3
<1> QED
  BY <1>1, <1>2, <1>3 DEF AnswerInv, ClaimedIsApplied

(* The same for what the requests have done by now.                        *)
LEMMA OneHalfWay ==
  ASSUME BillingInv, AnswerInv, Grow, NEW w \in Workers,
         UNCHANGED events, \A v \in Workers \ {w} : workers'[v] = workers[v],
         workers'[w].at \in AtThePlan \cup {"grant", "insert"}
           => latest'[Sub(w)'] >= workers'[w].event,
         workers'[w].at \in AtThePlan => Slot(w)'
  PROVE  HalfWay'
<1> SUFFICES ASSUME NEW v \in Workers \ {w}
             PROVE (/\ workers[v].at \in AtThePlan \cup {"grant", "insert"}
                         => latest[Sub(v)] >= workers[v].event
                    /\ workers[v].at \in AtThePlan => Slot(v))'
  BY DEF HalfWay, AtThePlan
<1>1. workers'[v] = workers[v] /\ Sub(v)' = Sub(v) /\ Slot(v)' = Slot(v)
  BY DEF Sub, The, Slot
<1>2. CASE workers[v].at \in AtThePlan \cup {"grant", "insert"}
  <2>1. workers[v].event \in 1 .. Len(events) /\ The(v).kind # "paid"
    BY <1>2 DEF BillingInv, WorkersOK, EventsOK, Upserting, Deleting, AtThePlan
  <2>2. Sub(v) \in Subs /\ workers[v].event \in Nat
    BY <2>1, EventFacts DEF Sub, The
  <2> QED
    BY <1>1, <1>2, <2>2 DEF AnswerInv, HalfWay, Grow, AtThePlan
<1> QED
  BY <1>1, <1>2

LEMMA QuietGrows == ASSUME AnswerInv, UNCHANGED <<credits, latest>> PROVE Grow
  BY DEF AnswerInv, Grow

-----------------------------------------------------------------------------
(* The steps. *)

(* Checkouts and Stripe: the events that were there are the same.          *)
LEMMA OutsideKeepsAnswers ==
  ASSUME BillingInv, AnswerInv,
         UNCHANGED <<workers, claims, dropped, credits, latest>>,
         \A e \in 1 .. Len(events) : events'[e] = events[e]
  PROVE  AnswerInv'
<1>1. ClaimedIsApplied'
  <2> SUFFICES ASSUME NEW e \in claims \ dropped
               PROVE  Effect(e)' \/ ServedBy(e)'
    BY DEF ClaimedIsApplied
  <2>1. e \in 1 .. Len(events)
    BY DEF BillingInv, ClaimsOK
  <2>2. Effect(e) => Effect(e)'
    BY <2>1, EffectLasts, QuietGrows DEF AnswerInv
  <2>3. ServedBy(e) => ServedBy(e)'
    BY DEF ServedBy, Serving
  <2> QED
    BY <2>2, <2>3 DEF AnswerInv, ClaimedIsApplied
<1>2. HalfWay'
  <2>1. ASSUME NEW w \in Workers, workers[w].at \in Upserting \cup Deleting
        PROVE  Sub(w)' = Sub(w) /\ Slot(w)' = Slot(w)
    <3>1. workers[w].event \in 1 .. Len(events)
      BY <2>1 DEF BillingInv, WorkersOK, EventsOK, Upserting, Deleting
    <3> QED
      BY <3>1 DEF Sub, The, Slot
  <2> QED
    BY <2>1 DEF AnswerInv, HalfWay, Upserting, Deleting, AtThePlan
<1> QED
  BY <1>1, <1>2 DEF AnswerInv, OnceInv

LEMMA ReportedKeepsAnswers ==
  ASSUME BillingInv, AnswerInv, NEW g \in Goods,
         \/ Begin(g) \/ Make(g) \/ Save(g) \/ SaveFails(g) \/ Pay(g) \/ Subscribe(g)
         \/ End(g) \/ \E status \in {"active", "past_due"} : Renew(g, status)
  PROVE  AnswerInv'
<1>1. UNCHANGED <<workers, claims, dropped, credits, latest>>
  BY DEF Begin, Make, Save, SaveFails, Pay, Subscribe, End, Renew, Report, ghosts
<1>2. events' = events \/ \E v : events' = Append(events, v)
  BY DEF Begin, Make, Save, SaveFails, Pay, Subscribe, End, Renew, Report, sold
<1>3. \A e \in 1 .. Len(events) : events'[e] = events[e]
  BY <1>2 DEF BillingInv, EventsOK
<1> QED
  BY <1>1, <1>3, OutsideKeepsAnswers

LEMMA DeliveryKeepsAnswers ==
  ASSUME BillingInv, AnswerInv, NEW w \in Workers, NEW e \in 1 .. Len(events), Deliver(w, e)
  PROVE  AnswerInv'
<1>1. UNCHANGED <<events, claims, dropped, credits, latest>>
  BY DEF Deliver, sold, ghosts
<1>2. Grow
  BY <1>1, QuietGrows
<1>3. /\ ~ Serving(w) /\ workers'[w].at = "claim"
      /\ \A v \in Workers \ {w} : workers'[v] = workers[v]
  BY DEF Deliver, Serving, Idle, BillingInv, WorkersOK
<1>4. ClaimedIsApplied' /\ HalfWay'
  BY <1>1, <1>2, <1>3, OneMoves, OneHalfWay DEF AtThePlan
<1> QED
  BY <1>1, <1>4 DEF AnswerInv, OnceInv

LEMMA CrashKeepsAnswers == ASSUME BillingInv, AnswerInv, Crash PROVE AnswerInv'
<1>1. UNCHANGED <<events, claims, credits, latest>> /\ \A w \in Workers : workers'[w].at = "idle"
  BY DEF Crash, sold, Idle
<1>2. ClaimedIsApplied'
  <2> SUFFICES ASSUME NEW e \in claims \ dropped'
               PROVE  Effect(e)'
    BY <1>1 DEF ClaimedIsApplied
  <2>1. e \in claims \ dropped /\ ~ ServedBy(e) /\ e \in 1 .. Len(events)
    BY DEF Crash, ServedBy, Serving, BillingInv, ClaimsOK
  <2> QED
    BY <1>1, <2>1, EffectLasts, QuietGrows DEF AnswerInv, ClaimedIsApplied
<1> QED
  BY <1>1, <1>2 DEF AnswerInv, OnceInv, HalfWay, AtThePlan

LEMMA ClaimKeepsAnswers == ASSUME BillingInv, AnswerInv, NEW w \in Workers, Claim(w) PROVE AnswerInv'
<1>1. UNCHANGED <<events, dropped, credits, latest>>
  BY DEF Claim, sold, ghosts
<1>2. Grow
  BY <1>1, QuietGrows
<1>3. /\ ~ Serving(w)
      /\ workers'[w].at \in {"reply", "checkout", "find", "seek"}
      /\ workers'[w].event = workers[w].event
      /\ \A v \in Workers \ {w} : workers'[v] = workers[v]
  <2>1. The(w).kind \in {"paid", "upsert", "deleted"}
    BY TheEvent DEF Claim, At
  <2> QED
    BY <2>1 DEF Claim, At, Serving, To, FirstStep, BillingInv, WorkersOK
<1>4. HalfWay'
  BY <1>1, <1>2, <1>3, OneHalfWay DEF AtThePlan
<1>5. CASE claims' = claims
  BY <1>1, <1>2, <1>3, <1>4, <1>5, OneMoves DEF AnswerInv, OnceInv
<1>6. CASE claims' = claims \cup {workers[w].event} /\ workers'[w].at # "reply"
  <2> SUFFICES ASSUME NEW e \in claims' \ dropped
               PROVE  Effect(e)' \/ ServedBy(e)'
    BY <1>1, <1>4 DEF AnswerInv, OnceInv, ClaimedIsApplied
  <2>1. CASE e = workers[w].event
    BY <1>3, <1>6, <2>1 DEF ServedBy, Serving
  <2>2. CASE e \in claims
    <3>1. e \in 1 .. Len(events)
      BY <2>2 DEF BillingInv, ClaimsOK
    <3>2. Effect(e) => Effect(e)'
      BY <1>1, <1>2, <3>1, EffectLasts DEF AnswerInv
    <3>3. ServedBy(e) => ServedBy(e)'
      BY <1>3 DEF ServedBy, Serving
    <3> QED
      BY <1>1, <2>2, <3>2, <3>3 DEF AnswerInv, ClaimedIsApplied
  <2> QED
    BY <1>6, <2>1, <2>2
<1> QED
  <2>1. FirstStep(The(w).kind) # "reply"
    <3>1. The(w).kind \in {"paid", "upsert", "deleted"}
      BY TheEvent DEF Claim, At
    <3> QED
      BY <3>1 DEF FirstStep
  <2> QED
    BY <1>5, <1>6, <2>1 DEF Claim, To, BillingInv, WorkersOK

(* A failure leaves the claim to the rollback, an end without an answer    *)
(* either frees the event or gives it up.                                  *)
LEMMA EndsKeepAnswers ==
  ASSUME BillingInv, AnswerInv, NEW w \in Workers,
         StepFails(w) \/ Rollback(w) \/ RollbackFails(w) \/ Reply(w) \/ ReplyLost(w)
  PROVE  AnswerInv'
<1>1. UNCHANGED <<events, credits, latest>>
  BY DEF StepFails, Rollback, RollbackFails, Reply, ReplyLost, sold, ghosts
<1>2. Grow
  BY <1>1, QuietGrows
<1>3. /\ workers'[w].at \in {"idle", "rollback"}
      /\ \A v \in Workers \ {w} : workers'[v] = workers[v]
  BY DEF StepFails, Rollback, RollbackFails, Reply, ReplyLost, Idle, BillingInv, WorkersOK
<1>4. claims' \subseteq claims /\ dropped \subseteq dropped'
  BY DEF StepFails, Rollback, RollbackFails, Reply, ReplyLost, Released, ghosts
<1>5. \/ ~ Serving(w)
      \/ Serving(w)' /\ workers'[w].event = workers[w].event
      \/ workers[w].event \notin claims' \ dropped'
  BY DEF StepFails, Rollback, RollbackFails, Reply, ReplyLost, Released, Serving, At, BillingInv, WorkersOK
<1>6. ClaimedIsApplied' /\ HalfWay'
  BY <1>1, <1>2, <1>3, <1>4, <1>5, OneMoves, OneHalfWay DEF AtThePlan
<1> QED
  BY <1>1, <1>6 DEF AnswerInv, OnceInv

LEMMA CheckoutKeepsAnswers ==
  ASSUME BillingInv, AnswerInv, NEW w \in Workers, Checkout(w) \/ CommitUnheard(w), OnceInv'
  PROVE  AnswerInv'
<1>1. UNCHANGED <<events, claims, dropped, latest>>
  BY DEF Checkout, CommitUnheard, sold, ghosts
<1>2. /\ workers[w].at = "checkout"
      /\ \A v \in Workers \ {w} : workers'[v] = workers[v]
      /\ workers'[w].at \in {"reply", "rollback"} /\ workers'[w].event = workers[w].event
  BY DEF Checkout, CommitUnheard, At, To, BillingInv, WorkersOK
<1>3. Sub(w) \in Purchases /\ Sub(w) \in Grants /\ Sub(w) = events[workers[w].event].good
  BY <1>2, TheEvent, EventFacts DEF BillingInv, WorkersOK, Grants
<1>4. Grow
  BY <1>1, <1>3 DEF Checkout, CommitUnheard, Fits, AnswerInv, OnceInv, Grow
<1>5. workers'[w].at = "reply" => \A e : e = workers[w].event => Effect(e)'
  <2>1. workers'[w].at = "reply" => credits'[Sub(w)] = 1
    BY <1>2, <1>3 DEF Checkout, CommitUnheard, To, Fits, AnswerInv, OnceInv, BillingInv, WorkersOK
  <2> QED
    BY <1>1, <1>3, <2>1 DEF Effect
<1>6. workers'[w].at = "rollback" => Serving(w)'
  BY DEF Serving
<1>7. ClaimedIsApplied' /\ HalfWay'
  BY <1>1, <1>2, <1>4, <1>5, <1>6, OneMoves, OneHalfWay DEF AtThePlan
<1> QED
  BY <1>1, <1>7 DEF AnswerInv

LEMMA UpsertKeepsAnswers ==
  ASSUME BillingInv, AnswerInv, NEW w \in Workers, OnceInv',
         Find(w) \/ Write(w) \/ Upgrade(w) \/ KeepLong(w) \/ Granted(w) \/ Grant(w)
  PROVE  AnswerInv'
<1>1. UNCHANGED <<events, claims, dropped>>
  BY DEF Find, Write, Upgrade, KeepLong, Granted, Grant, sold, ghosts
<1>2. /\ workers[w].at \in Upserting /\ workers[w].at # "idle"
      /\ \A v \in Workers \ {w} : workers'[v] = workers[v]
      /\ workers'[w].event = workers[w].event
  BY DEF Find, Write, Upgrade, KeepLong, Granted, Grant, At, To, Upserting, BillingInv, WorkersOK
<1>3. /\ workers[w].event \in 1 .. Len(events) /\ workers[w].event \in Nat
      /\ Sub(w) \in Subs \ Purchases /\ Sub(w) = events[workers[w].event].good
      /\ The(w) = events[workers[w].event]
      /\ The(w).row.period \in Grants
      /\ Sub(w)' = Sub(w) /\ Slot(w)' = Slot(w)
  <2>1. /\ workers[w].event \in 1 .. Len(events) /\ The(w) = events[workers[w].event]
        /\ Sub(w) \in Subs \ Purchases /\ Sub(w) = events[workers[w].event].good
        /\ The(w).kind = "upsert"
    BY <1>2, TheEvent DEF BillingInv, WorkersOK
  <2> QED
    BY <1>1, <1>2, <2>1, EventFacts DEF Sub, The, Slot
<1>4. latest' \in [Subs -> Nat] /\ \A s \in Subs : latest'[s] >= latest[s]
  <2>1. latest' = latest \/ Applied(w)
    BY DEF Find, Write, Upgrade, KeepLong, Granted, Grant, ghosts
  <2> QED
    BY <1>3, <2>1 DEF Applied, AnswerInv
<1>5. \A k \in Grants : credits[k] = 1 => credits'[k] = 1
  <2>1. CASE Grant(w)
    BY <1>3, <2>1 DEF Grant, Fits, AnswerInv, OnceInv
  <2>2. CASE ~ Grant(w)
    BY <2>2 DEF Find, Write, Upgrade, KeepLong, Granted
  <2> QED
    BY <2>1, <2>2
<1>6. Grow
  BY <1>4, <1>5 DEF Grow
<1>7. /\ workers'[w].at \in {"plan", "retention", "grant", "insert", "reply"}
           => latest'[Sub(w)] >= workers[w].event
      /\ workers'[w].at \in {"plan", "retention"} => Slot(w)
      /\ workers'[w].at \in {"plan", "retention", "grant", "insert", "reply", "write", "rollback"}
      /\ workers'[w].at = "reply" =>
           \/ ~ Active(w) \/ Slot(w) \/ credits'[The(w).row.period] = 1
  <2>1. CASE Find(w)
    BY <2>1 DEF Find, BillingInv, WorkersOK
  <2>2. CASE Write(w)
    BY <1>3, <2>2 DEF Write, Applied, AfterWrite, To, BillingInv, WorkersOK, AnswerInv
  <2>3. CASE Upgrade(w) \/ KeepLong(w)
    BY <1>3, <2>3 DEF Upgrade, KeepLong, At, To, ghosts, BillingInv, WorkersOK, AnswerInv, HalfWay, AtThePlan
  <2>4. CASE Granted(w)
    BY <1>3, <2>4 DEF Granted, At, To, ghosts, BillingInv, WorkersOK, AnswerInv, OnceInv, HalfWay, AtThePlan
  <2>5. CASE Grant(w)
    BY <1>3, <2>5 DEF Grant, Fits, At, To, ghosts, BillingInv, WorkersOK, AnswerInv, OnceInv, HalfWay, AtThePlan
  <2> QED
    BY <2>1, <2>2, <2>3, <2>4, <2>5
<1>8. workers'[w].at = "reply" => \A e : e = workers[w].event => Effect(e)'
  BY <1>1, <1>3, <1>7, BillingAssumption DEF Effect, Active, Slot
<1>9. workers'[w].at # "reply" => Serving(w)'
  BY <1>7 DEF Serving
<1>10. ClaimedIsApplied'
  BY <1>1, <1>2, <1>6, <1>8, <1>9, OneMoves
<1>11. HalfWay'
  BY <1>1, <1>2, <1>3, <1>6, <1>7, OneHalfWay DEF AtThePlan
<1> QED
  BY <1>4, <1>10, <1>11 DEF AnswerInv

LEMMA DeletionKeepsAnswers ==
  ASSUME BillingInv, AnswerInv, NEW w \in Workers,
         Seek(w) \/ Cancel(w) \/ LookForOthers(w) \/ Revert(w) \/ KeepShort(w)
  PROVE  AnswerInv'
<1>1. UNCHANGED <<events, claims, dropped, credits>>
  BY DEF Seek, Cancel, LookForOthers, Revert, KeepShort, sold, ghosts
<1>2. /\ workers[w].at \in Deleting /\ workers[w].at # "idle"
      /\ \A v \in Workers \ {w} : workers'[v] = workers[v]
      /\ workers'[w].event = workers[w].event
  BY DEF Seek, Cancel, LookForOthers, Revert, KeepShort, At, To, Deleting, BillingInv, WorkersOK
<1>3. /\ workers[w].event \in 1 .. Len(events) /\ workers[w].event \in Nat
      /\ Sub(w) \in Subs \ Purchases /\ Sub(w) = events[workers[w].event].good
      /\ events[workers[w].event].row.status = "canceled"
      /\ Sub(w)' = Sub(w) /\ Slot(w)' = Slot(w)
  <2>1. /\ workers[w].event \in 1 .. Len(events) /\ The(w) = events[workers[w].event]
        /\ Sub(w) \in Subs \ Purchases /\ Sub(w) = events[workers[w].event].good
        /\ The(w).kind = "deleted"
    BY <1>2, TheEvent DEF BillingInv, WorkersOK
  <2> QED
    BY <1>1, <1>2, <2>1, EventFacts DEF Sub, The, Slot
<1>4. latest' \in [Subs -> Nat] /\ \A s \in Subs : latest'[s] >= latest[s]
  BY <1>3 DEF Seek, Cancel, Applied, LookForOthers, Revert, KeepShort, ghosts, AnswerInv
<1>5. Grow
  BY <1>1, <1>4 DEF Grow
<1>6. /\ workers'[w].at # "cancel" => latest'[Sub(w)] >= workers[w].event
      /\ workers'[w].at \in {"others", "revert", "shorten"} => Slot(w)
      /\ workers'[w].at \in {"cancel", "others", "revert", "shorten", "reply"}
  <2>1. CASE Seek(w)
    BY <1>3, <2>1 DEF Seek, Applied, BillingInv, WorkersOK, AnswerInv
  <2>2. CASE Cancel(w)
    BY <1>3, <2>2 DEF Cancel, Applied, To, BillingInv, WorkersOK, AnswerInv
  <2>3. CASE LookForOthers(w) \/ Revert(w) \/ KeepShort(w)
    BY <1>3, <2>3 DEF LookForOthers, Revert, KeepShort, At, To, ghosts, BillingInv, WorkersOK, AnswerInv, HalfWay, AtThePlan
  <2> QED
    BY <2>1, <2>2, <2>3
<1>7. workers'[w].at = "reply" => \A e : e = workers[w].event => Effect(e)'
  BY <1>1, <1>3, <1>6 DEF Effect
<1>8. workers'[w].at # "reply" => Serving(w)'
  BY <1>6 DEF Serving
<1>9. ClaimedIsApplied'
  BY <1>1, <1>2, <1>5, <1>7, <1>8, OneMoves
<1>10. HalfWay'
  BY <1>1, <1>2, <1>3, <1>5, <1>6, OneHalfWay DEF AtThePlan
<1> QED
  BY <1>1, <1>4, <1>9, <1>10 DEF AnswerInv, OnceInv

LEMMA NextKeepsAnswers ==
  ASSUME BillingInv, AnswerInv, [BillingNext]_billingVars
  PROVE  AnswerInv'
<1>1. OnceInv'
  BY OnceInductive DEF AnswerInv
<1>2. CASE UNCHANGED billingVars
  <2>1. /\ UNCHANGED <<workers, claims, dropped, credits, latest>>
        /\ \A e \in 1 .. Len(events) : events'[e] = events[e]
    BY <1>2 DEF billingVars, sold, ghosts
  <2> QED
    BY <2>1, OutsideKeepsAnswers
<1>3. ASSUME NEW g \in Goods,
             \/ Begin(g) \/ Make(g) \/ Save(g) \/ SaveFails(g) \/ Pay(g) \/ Subscribe(g)
             \/ End(g) \/ \E status \in {"active", "past_due"} : Renew(g, status)
      PROVE  AnswerInv'
  BY <1>3, ReportedKeepsAnswers
<1>4. ASSUME NEW w \in Workers,
             Serve(w) \/ StepFails(w) \/ RollbackFails(w) \/ ReplyLost(w) \/ CommitUnheard(w)
      PROVE  AnswerInv'
  BY <1>1, <1>4, ClaimKeepsAnswers, EndsKeepAnswers, CheckoutKeepsAnswers, UpsertKeepsAnswers,
     DeletionKeepsAnswers DEF Serve
<1>5. Subs \subseteq Goods
  BY DEF Goods
<1> QED
  BY <1>2, <1>3, <1>4, <1>5, DeliveryKeepsAnswers, CrashKeepsAnswers DEF BillingNext

(* However deliveries are repeated, overtaken by one another, refused,     *)
(* failed and cut off by crashes: an event Stripe will not send again has  *)
(* been applied, unless an attempt that held the claim failed after a      *)
(* duplicate was acknowledged, or without giving the claim back.           *)
THEOREM AnsweredEventsApplied == BillingSpec => []AnsweredIsApplied
<1>1. BillingInv /\ AnswerInv /\ [BillingNext]_billingVars => AnswerInv'
  BY NextKeepsAnswers
<1> QED
  BY <1>1, AnswersInitially, InvAlways, AnswerInvSuffices, PTL DEF BillingSpec

-----------------------------------------------------------------------------
(* The rows. *)

Agree(a, b) == a.status = b.status /\ (a.status = "active" => a.period = b.period)

About(s) == {e \in 1 .. Len(events) : events[e].good = s}

(* Stripe has what its last report says, and had what the table has before *)
(* there was one.                                                          *)
ReportsInv ==
  \A s \in Subs :
    /\ About(s) = {} => rows[s] = stripe[s]
    /\ \A e \in About(s) :
         /\ stripe[s].status # "none"
         /\ (\A f \in About(s) : f <= e) => stripe[s] = events[e].row
    /\ stripe[s].status # "none" /\ rows[s] = NoRow =>
         \E e \in About(s) : events[e].kind = "upsert"

(* A subscription whose claimed event was not given up is in the table, or *)
(* a request is about to put it there.                                     *)
Unwritten(w) == workers[w].at \in {"find", "write", "rollback"}
WrittenInv ==
  \A e \in claims \ dropped : events[e].kind = "upsert" =>
    \/ rows[events[e].good] # NoRow
    \/ \E w \in Workers : workers[w].event = e /\ Unwritten(w)

(* A row is what the last event applied to it says, if none came late.     *)
FollowsInv ==
  /\ reordered \in [Subs -> BOOLEAN]
  /\ \A s \in Subs : latest[s] # 0 =>
       /\ latest[s] \in About(s)
       /\ ~ reordered[s] /\ rows[s] # NoRow => Agree(rows[s], events[latest[s]].row)

RowsInv == ReportsInv /\ WrittenInv /\ FollowsInv

LEMMA RowsInitially == BillingInit => RowsInv
<1> SUFFICES ASSUME BillingInit PROVE RowsInv
  OBVIOUS
<1>1. /\ rows = stripe /\ events = <<>> /\ claims = {}
      /\ latest = [s \in Subs |-> 0] /\ reordered = [s \in Subs |-> FALSE]
      /\ \A s \in Subs : stripe[s].status # "none" => rows[s] # NoRow
  BY DEF BillingInit, NoRow
<1>2. \A s : About(s) = {}
  BY <1>1 DEF About
<1> QED
  BY <1>1, <1>2 DEF RowsInv, ReportsInv, WrittenInv, FollowsInv

(* The events the customer's webhook has settled are those applied.        *)
LEMMA RowsInvSuffices == BillingInv /\ AnswerInv /\ RowsInv => RowsFollowStripe
<1> SUFFICES ASSUME BillingInv, AnswerInv, RowsInv, Settled, NEW s \in Subs, ~ reordered[s]
             PROVE  Agree(rows[s], stripe[s])
  BY DEF RowsFollowStripe, Agree
<1>1. CASE About(s) = {}
  BY <1>1 DEF RowsInv, ReportsInv, Agree
<1>2. CASE About(s) # {}
  <2>1. \A e \in About(s) : /\ e \in claims \ dropped /\ latest[s] >= e /\ e \in Nat \ {0}
                            /\ events[e].good \notin Purchases
    <3> SUFFICES ASSUME NEW e \in About(s)
                 PROVE  /\ e \in claims \ dropped /\ latest[s] >= e /\ e \in Nat \ {0}
                        /\ events[e].good \notin Purchases
      OBVIOUS
    <3>1. e \in 1 .. Len(events) /\ events[e].good = s
      BY DEF About
    <3>2. e \in acked \ dropped /\ e \in claims
      BY <3>1 DEF Settled, BillingInv, ClaimsOK
    <3>3. e \in Nat \ {0} /\ s \notin Purchases
      BY <3>1, EventFacts, BillingAssumption DEF Goods
    <3>4. \A w \in Workers : workers[w].event # e
      BY <3>3 DEF Settled, Idle
    <3>5. latest[s] >= e
      BY <3>1, <3>2, <3>3, <3>4, AnswerInvSuffices DEF AnsweredIsApplied
    <3> QED
      BY <3>1, <3>2, <3>3, <3>5
  <2>2. latest[s] \in Nat /\ latest[s] # 0
    BY <1>2, <2>1 DEF AnswerInv
  <2>3. latest[s] \in About(s) /\ (rows[s] # NoRow => Agree(rows[s], events[latest[s]].row))
    BY <2>2 DEF RowsInv, FollowsInv
  <2>4. stripe[s] = events[latest[s]].row /\ stripe[s].status # "none"
    BY <2>1, <2>2, <2>3 DEF RowsInv, ReportsInv
  <2>5. rows[s] # NoRow
    <3>1. SUFFICES ASSUME rows[s] = NoRow PROVE FALSE
      OBVIOUS
    <3>2. PICK e \in About(s) : events[e].kind = "upsert"
      BY <2>4, <3>1 DEF RowsInv, ReportsInv
    <3>3. e \in claims \ dropped /\ events[e].good = s
      BY <2>1, <3>2 DEF About
    <3>4. \E w \in Workers : Unwritten(w)
      BY <3>1, <3>2, <3>3 DEF RowsInv, WrittenInv
    <3> QED
      BY <3>4 DEF Settled, Unwritten, Idle
  <2> QED
    BY <2>3, <2>4, <2>5
<1> QED
  BY <1>1, <1>2

(* Stripe reports of a subscription, or of a purchase.                     *)
LEMMA ReportKeepsRows ==
  ASSUME BillingInv, AnswerInv, RowsInv, NEW v, v.good \in Goods, events' = Append(events, v),
         \/ v.good \in Purchases /\ stripe' = stripe
         \/ /\ v.good \in Subs /\ v.row.status # "none"
            /\ stripe' = [stripe EXCEPT ![v.good] = v.row]
            /\ v.kind # "upsert" => stripe[v.good].status # "none",
         UNCHANGED <<rows, claims, dropped, latest, reordered, workers>>
  PROVE  RowsInv'
<1> DEFINE n == Len(events) + 1
<1>1. /\ events \in Seq(Event) /\ Len(events) \in Nat /\ Len(events') = n
      /\ events'[n] = v /\ \A e \in 1 .. Len(events) : events'[e] = events[e]
  BY DEF BillingInv, EventsOK
<1>2. \A s : About(s)' = IF v.good = s THEN About(s) \cup {n} ELSE About(s)
  BY <1>1 DEF About
<1>3. \A s : \A e \in About(s) : e \in 1 .. Len(events) /\ e < n
  BY <1>1 DEF About
<1>4. stripe \in [Subs -> Row] /\ Subs \cap Purchases = {}
  BY BillingAssumption DEF BillingInv, TablesOK
<1>5. ReportsInv'
  <2> SUFFICES ASSUME NEW s \in Subs
               PROVE  /\ About(s)' = {} => rows'[s] = stripe'[s]
                      /\ \A e \in About(s)' :
                           /\ stripe'[s].status # "none"
                           /\ (\A f \in About(s)' : f <= e) => stripe'[s] = events'[e].row
                      /\ stripe'[s].status # "none" /\ rows'[s] = NoRow =>
                           \E e \in About(s)' : events'[e].kind = "upsert"
    BY DEF ReportsInv
  <2>1. CASE v.good # s
    <3>1. About(s)' = About(s) /\ stripe'[s] = stripe[s] /\ rows'[s] = rows[s]
      BY <1>2, <1>4, <2>1
    <3>2. \A e \in About(s) : events'[e] = events[e]
      BY <1>1 DEF About
    <3>3. /\ About(s) = {} => rows[s] = stripe[s]
          /\ \A e \in About(s) :
               /\ stripe[s].status # "none"
               /\ (\A f \in About(s) : f <= e) => stripe[s] = events[e].row
          /\ stripe[s].status # "none" /\ rows[s] = NoRow =>
               \E e \in About(s) : events[e].kind = "upsert"
      BY DEF RowsInv, ReportsInv
    <3> QED
      BY <3>1, <3>2, <3>3
  <2>2. CASE v.good = s
    <3>1. About(s)' = About(s) \cup {n} /\ stripe'[s] = v.row /\ v.row.status # "none"
      BY <1>2, <1>4, <2>2
    <3>2. ASSUME NEW e \in About(s)', \A f \in About(s)' : f <= e
          PROVE  stripe'[s] = events'[e].row
      <4>1. n <= e
        BY <3>1, <3>2
      <4>2. e = n
        BY <1>1, <1>3, <3>1, <4>1
      <4> QED
        BY <1>1, <3>1, <4>2
    <3>3. ASSUME rows'[s] = NoRow
          PROVE  \E e \in About(s)' : events'[e].kind = "upsert"
      <4>1. CASE v.kind = "upsert"
        BY <1>1, <3>1, <4>1
      <4>2. CASE v.kind # "upsert"
        <5>1. PICK e \in About(s) : events[e].kind = "upsert"
          BY <1>4, <2>2, <3>3, <4>2 DEF RowsInv, ReportsInv
        <5> QED
          BY <1>1, <1>3, <3>1, <5>1
      <4> QED
        BY <4>1, <4>2
    <3> QED
      BY <3>1, <3>2, <3>3
  <2> QED
    BY <2>1, <2>2
<1>6. WrittenInv'
  <2>1. claims \subseteq 1 .. Len(events)
    BY DEF BillingInv, ClaimsOK
  <2> QED
    BY <1>1, <2>1 DEF RowsInv, WrittenInv, Unwritten
<1>7. FollowsInv'
  BY <1>1, <1>2, <1>3 DEF RowsInv, FollowsInv, Agree
<1> QED
  BY <1>5, <1>6, <1>7 DEF RowsInv

(* A step of one request that writes no row and applies no event.          *)
LEMMA WorkKeepsRows ==
  ASSUME BillingInv, RowsInv, NEW w \in Workers,
         UNCHANGED <<stripe, events, rows, latest, reordered>>,
         \A v \in Workers \ {w} : workers'[v] = workers[v],
         claims' \subseteq claims \cup {workers[w].event}, dropped \subseteq dropped',
         \/ workers[w].event \notin claims' \ dropped'
         \/ /\ claims' \subseteq claims
            /\ Unwritten(w) => Unwritten(w)' /\ workers'[w].event = workers[w].event
         \/ /\ workers'[w].event = workers[w].event
            /\ The(w).kind = "upsert" => Unwritten(w)'
  PROVE  RowsInv'
<1>1. \A s : About(s)' = About(s)
  BY DEF About
<1>2. ReportsInv' /\ FollowsInv'
  BY <1>1 DEF RowsInv, ReportsInv, FollowsInv
<1>3. WrittenInv'
  <2> SUFFICES ASSUME NEW e \in claims' \ dropped', events[e].kind = "upsert",
                      rows[events[e].good] = NoRow
               PROVE  \E v \in Workers : workers'[v].event = e /\ Unwritten(v)'
    BY DEF WrittenInv
  <2>1. CASE e = workers[w].event /\ workers'[w].event = workers[w].event /\ Unwritten(w)'
    BY <2>1
  <2>2. ASSUME e \in claims, ~ (e = workers[w].event /\ Unwritten(w))
        PROVE  \E v \in Workers : workers'[v].event = e /\ Unwritten(v)'
    <3>1. PICK v \in Workers : workers[v].event = e /\ Unwritten(v)
      BY <2>2 DEF RowsInv, WrittenInv
    <3>2. workers'[v] = workers[v]
      BY <2>2, <3>1
    <3> QED
      BY <3>1, <3>2 DEF Unwritten
  <2>3. e = workers[w].event => events[e] = The(w)
    BY DEF The
  <2> QED
    BY <2>1, <2>2, <2>3
<1> QED
  BY <1>2, <1>3 DEF RowsInv

(* A request applies its event to the row of its subscription.             *)
LEMMA AppliedKeepsRows ==
  ASSUME BillingInv, AnswerInv, RowsInv, NEW w \in Workers, workers[w].at \in Upserting \cup Deleting,
         UNCHANGED <<stripe, events, claims, dropped>>, Applied(w),
         \A v \in Workers \ {w} : workers'[v] = workers[v],
         \/ /\ rows[Sub(w)] = NoRow /\ rows' = rows /\ ~ Unwritten(w)
         \/ \E row : /\ rows' = [rows EXCEPT ![Sub(w)] = row] /\ row # NoRow
                     /\ Agree(row, The(w).row)
  PROVE  RowsInv'
<1> DEFINE s == Sub(w)
           e == workers[w].event
<1>1. /\ e \in 1 .. Len(events) /\ e \in Nat \ {0} /\ The(w) = events[e]
      /\ s \in Subs /\ s = events[e].good
  <2>1. workers[w].at # "idle"
    BY DEF Upserting, Deleting
  <2> QED
    BY <2>1, TheEvent, EventFacts
<1>2. e \in About(s) /\ \A q : About(q)' = About(q)
  BY <1>1 DEF About
<1>3. /\ rows \in [Subs -> Row] /\ latest \in [Subs -> Nat] /\ reordered \in [Subs -> BOOLEAN]
  BY DEF BillingInv, TablesOK, AnswerInv, RowsInv, FollowsInv
<1>4. /\ latest' = [latest EXCEPT ![s] = IF e > @ THEN e ELSE @]
      /\ reordered' = [reordered EXCEPT ![s] = @ \/ e < latest[s]]
  BY DEF Applied
<1>5. \/ rows[s] = NoRow /\ rows' = rows /\ ~ Unwritten(w)
      \/ rows'[s] # NoRow /\ Agree(rows'[s], events[e].row)
  BY <1>1, <1>3
<1>6. \A q \in Subs \ {s} : rows'[q] = rows[q]
  BY <1>1, <1>3
<1>10. Unwritten(w) => rows'[s] # NoRow
  BY <1>5
<1> HIDE DEF s, e
<1>7. ReportsInv'
  <2> SUFFICES ASSUME NEW q \in Subs
               PROVE  /\ About(q) = {} => rows'[q] = stripe[q]
                      /\ stripe[q].status # "none" /\ rows'[q] = NoRow => rows[q] = NoRow
    BY <1>2 DEF RowsInv, ReportsInv
  <2> QED
    BY <1>2, <1>5, <1>6 DEF RowsInv, ReportsInv
<1>8. WrittenInv'
  <2> SUFFICES ASSUME NEW f \in claims \ dropped, events[f].kind = "upsert",
                      rows'[events[f].good] = NoRow
               PROVE  \E v \in Workers : workers'[v].event = f /\ Unwritten(v)'
    BY DEF WrittenInv
  <2>1. events[f].good \in Subs /\ rows[events[f].good] = NoRow
    <3>1. f \in 1 .. Len(events)
      BY DEF BillingInv, ClaimsOK
    <3> QED
      BY <1>5, <1>6, <3>1, EventFacts
  <2>2. PICK v \in Workers : workers[v].event = f /\ Unwritten(v)
    BY <2>1 DEF RowsInv, WrittenInv
  <2>3. v # w
    BY <1>1, <1>10, <2>2 DEF e
  <2> QED
    BY <2>2, <2>3 DEF Unwritten
<1>9. FollowsInv'
  <2> SUFFICES ASSUME NEW q \in Subs, latest'[q] # 0
               PROVE  /\ latest'[q] \in About(q)
                      /\ ~ reordered'[q] /\ rows'[q] # NoRow => Agree(rows'[q], events[latest'[q]].row)
    <3>1. reordered' \in [Subs -> BOOLEAN]
      BY <1>1, <1>3, <1>4
    <3> QED
      BY <1>2, <3>1 DEF FollowsInv
  <2>1. CASE q # s
    <3>1. latest'[q] = latest[q] /\ reordered'[q] = reordered[q] /\ rows'[q] = rows[q]
      BY <1>3, <1>4, <1>6, <2>1
    <3> QED
      BY <3>1 DEF RowsInv, FollowsInv
  <2>2. CASE q = s /\ e < latest[s]
    <3>1. latest'[q] = latest[q]
      BY <1>1, <1>3, <1>4, <2>2
    <3>2. reordered'[q] = (reordered[s] \/ e < latest[s])
      BY <1>1, <1>3, <1>4, <2>2, Zenon
    <3>3. reordered'[q]
      BY <2>2, <3>2
    <3> QED
      BY <3>1, <3>3 DEF RowsInv, FollowsInv
  <2>3. CASE q = s /\ ~ (e < latest[s])
    <3>1. latest[s] \in Nat
      BY <1>1, <1>3
    <3>2. latest'[q] = e
      BY <1>1, <1>3, <1>4, <2>3, <3>1
    <3> QED
      BY <1>2, <1>5, <2>3, <3>2
  <2> QED
    BY <2>1, <2>2, <2>3
<1> QED
  BY <1>7, <1>8, <1>9 DEF RowsInv

LEMMA QuietKeepsRows ==
  ASSUME BillingInv, RowsInv,
         UNCHANGED <<stripe, events, rows, claims, dropped, latest, reordered, workers>>
  PROVE  RowsInv'
  BY DEF RowsInv, ReportsInv, WrittenInv, FollowsInv, About, Unwritten

LEMMA OutsideKeepsRows ==
  ASSUME BillingInv, AnswerInv, RowsInv, NEW g \in Goods,
         \/ Begin(g) \/ Make(g) \/ Save(g) \/ SaveFails(g) \/ Pay(g) \/ Subscribe(g)
         \/ g \in Subs /\ (End(g) \/ \E status \in {"active", "past_due"} : Renew(g, status))
  PROVE  RowsInv'
<1>0. Subscribe(g) => g \in Subs
  BY DEF Subscribe
<1>1. CASE Begin(g) \/ Make(g) \/ Save(g) \/ SaveFails(g)
  BY <1>1, QuietKeepsRows DEF Begin, Make, Save, SaveFails, sold, ghosts
<1>2. CASE Pay(g)
  <2> DEFINE v == [kind |-> "paid", good |-> g, row |-> NoRow, holder |-> buys[g].holder]
  <2>1. /\ v.good = g /\ g \in Purchases /\ stripe' = stripe /\ events' = Append(events, v)
        /\ UNCHANGED <<rows, claims, dropped, latest, reordered, workers>>
    BY <1>2 DEF Pay, Report, ghosts
  <2> HIDE DEF v
  <2> QED
    BY <2>1, ReportKeepsRows
<1>3. CASE /\ g \in Subs
           /\ Subscribe(g) \/ End(g) \/ \E status \in {"active", "past_due"} : Renew(g, status)
  <2>1. g \in Subs
    BY <1>3
  <2>2. PICK kind \in {"upsert", "deleted"}, row \in Row :
          /\ stripe' = [stripe EXCEPT ![g] = row] /\ Report(kind, g, row)
          /\ row.status # "none"
          /\ kind = "deleted" => stripe[g].status # "none"
    BY <1>3, <2>1, SubscriptionReports
  <2> DEFINE v == [kind |-> kind, good |-> g, row |-> row, holder |-> buys[g].holder]
  <2>3. /\ v.good = g /\ v.row = row /\ v.kind = kind /\ events' = Append(events, v)
        /\ UNCHANGED <<rows, claims, dropped, latest, reordered, workers>>
    BY <2>2 DEF Report, ghosts
  <2> HIDE DEF v
  <2> QED
    BY <2>1, <2>2, <2>3, ReportKeepsRows
<1> QED
  BY <1>0, <1>1, <1>2, <1>3

LEMMA ClaimingKeepsRows ==
  ASSUME BillingInv, RowsInv, NEW w \in Workers,
         \/ \E e \in 1 .. Len(events) : Deliver(w, e)
         \/ Claim(w) \/ StepFails(w) \/ Rollback(w) \/ RollbackFails(w) \/ Reply(w) \/ ReplyLost(w)
  PROVE  RowsInv'
<1>1. UNCHANGED <<stripe, events, rows, latest, reordered>>
  BY DEF Deliver, Claim, StepFails, Rollback, RollbackFails, Reply, ReplyLost, sold, ghosts
<1>2. /\ \A v \in Workers \ {w} : workers'[v] = workers[v]
      /\ dropped \subseteq dropped'
  BY DEF Deliver, Claim, StepFails, Rollback, RollbackFails, Reply, ReplyLost, ghosts, To,
         BillingInv, WorkersOK
<1>3. CASE Claim(w)
  <2>1. The(w).kind = "upsert" /\ ~ (claims' \subseteq claims) => Unwritten(w)'
    BY <1>3 DEF Claim, FirstStep, To, Unwritten, BillingInv, WorkersOK
  <2>2. /\ claims' \subseteq claims \cup {workers[w].event} /\ ~ Unwritten(w)
        /\ workers'[w].event = workers[w].event
    BY <1>3 DEF Claim, At, To, Unwritten, BillingInv, WorkersOK
  <2> QED
    BY <1>1, <1>2, <2>1, <2>2, WorkKeepsRows
<1>4. CASE StepFails(w)
  <2>1. /\ claims' = claims
        /\ Unwritten(w) => Unwritten(w)' /\ workers'[w].event = workers[w].event
    BY <1>4 DEF StepFails, At, Unwritten, BillingInv, WorkersOK
  <2> QED
    BY <1>1, <1>2, <2>1, WorkKeepsRows
<1>5. CASE Rollback(w) \/ RollbackFails(w)
  <2>1. claims' \subseteq claims /\ workers[w].event \notin claims' \ dropped'
    BY <1>5 DEF Rollback, RollbackFails, Released
  <2> QED
    BY <1>1, <1>2, <2>1, WorkKeepsRows
<1>6. CASE Reply(w) \/ ReplyLost(w) \/ \E e \in 1 .. Len(events) : Deliver(w, e)
  <2>1. claims' = claims /\ ~ Unwritten(w)
    BY <1>6 DEF Reply, ReplyLost, Deliver, At, Unwritten, Idle
  <2> QED
    BY <1>1, <1>2, <2>1, WorkKeepsRows
<1> QED
  BY <1>3, <1>4, <1>5, <1>6

LEMMA CrashKeepsRows == ASSUME BillingInv, RowsInv, Crash PROVE RowsInv'
<1>1. UNCHANGED <<stripe, events, rows, claims, latest, reordered>>
  BY DEF Crash, sold
<1>2. ReportsInv' /\ FollowsInv'
  BY <1>1 DEF RowsInv, ReportsInv, FollowsInv, About
<1>3. WrittenInv'
  <2>1. \A w \in Workers : Unwritten(w) => workers[w].event \in dropped'
    BY DEF Crash, Unwritten
  <2>2. dropped \subseteq dropped'
    BY DEF Crash
  <2> QED
    BY <1>1, <2>1, <2>2 DEF RowsInv, WrittenInv
<1> QED
  BY <1>2, <1>3 DEF RowsInv

LEMMA ServingKeepsRows ==
  ASSUME BillingInv, AnswerInv, RowsInv, NEW w \in Workers,
         \/ Checkout(w) \/ CommitUnheard(w)
         \/ Find(w) \/ Write(w) \/ Upgrade(w) \/ KeepLong(w) \/ Granted(w) \/ Grant(w)
         \/ Seek(w) \/ Cancel(w) \/ LookForOthers(w) \/ Revert(w) \/ KeepShort(w)
  PROVE  RowsInv'
<1>1. UNCHANGED <<stripe, events, claims, dropped>>
  BY DEF Checkout, CommitUnheard, Find, Write, Upgrade, KeepLong, Granted, Grant, Seek, Cancel,
         LookForOthers, Revert, KeepShort, sold, ghosts
<1>2. /\ \A v \in Workers \ {w} : workers'[v] = workers[v]
      /\ workers'[w].event = workers[w].event
  BY DEF Checkout, CommitUnheard, Find, Write, Upgrade, KeepLong, Granted, Grant, Seek, Cancel,
         LookForOthers, Revert, KeepShort, To, BillingInv, WorkersOK
<1>3. ASSUME UNCHANGED <<rows, latest, reordered>>, Unwritten(w) => Unwritten(w)'
      PROVE  RowsInv'
  BY <1>1, <1>2, <1>3, WorkKeepsRows
<1>4. CASE \/ Checkout(w) \/ CommitUnheard(w) \/ Upgrade(w) \/ KeepLong(w) \/ Granted(w)
           \/ Grant(w) \/ LookForOthers(w) \/ Revert(w) \/ KeepShort(w)
  BY <1>3, <1>4
  DEF Checkout, CommitUnheard, Upgrade, KeepLong, Granted, Grant, LookForOthers, Revert,
      KeepShort, At, Unwritten, ghosts
<1>5. CASE Find(w)
  BY <1>3, <1>5 DEF Find, Unwritten, ghosts, BillingInv, WorkersOK
<1>6. CASE Write(w)
  <2>1. CASE UNCHANGED <<rows, latest, reordered>> /\ To(w, "rollback")
    BY <1>3, <2>1 DEF To, Unwritten, BillingInv, WorkersOK
  <2>2. CASE rows' = [rows EXCEPT ![Sub(w)] = Written(w)] /\ Applied(w)
    <3>1. workers[w].at \in Upserting
      BY <1>6 DEF Write, At, Upserting
    <3>2. Shaped(The(w)) /\ The(w).kind = "upsert"
      BY <3>1 DEF BillingInv, WorkersOK, EventsOK, The, Upserting
    <3>3. Written(w) # NoRow /\ Agree(Written(w), The(w).row)
      BY <3>2 DEF Shaped, Written, NoRow, Agree
    <3> QED
      BY <1>1, <1>2, <2>2, <3>1, <3>3, AppliedKeepsRows
  <2> QED
    BY <1>6, <2>1, <2>2 DEF Write
<1>7. CASE Seek(w)
  <2>1. workers[w].at \in Deleting /\ ~ Unwritten(w) /\ rows' = rows
    BY <1>7 DEF Seek, At, Deleting, Unwritten
  <2>2. CASE Missing(w)
    BY <1>1, <1>2, <1>7, <2>1, <2>2, AppliedKeepsRows DEF Seek, Missing
  <2>3. CASE ~ Missing(w)
    BY <1>3, <1>7, <2>1, <2>3 DEF Seek
  <2> QED
    BY <2>2, <2>3
<1>8. CASE Cancel(w)
  <2> DEFINE row == [workers[w].seen EXCEPT !.status = "canceled"]
  <2>1. workers[w].at \in Deleting /\ workers[w].seen \in Row /\ workers[w].seen.period # 0
    BY <1>8 DEF Cancel, At, Deleting, BillingInv, WorkersOK
  <2>2. Shaped(The(w)) /\ The(w).kind = "deleted"
    BY <2>1 DEF BillingInv, WorkersOK, EventsOK, The, Deleting
  <2>3. row.status = "canceled" /\ row # NoRow
    BY <2>1 DEF Row, NoRow
  <2>4. rows' = [rows EXCEPT ![Sub(w)] = row] /\ Applied(w)
    BY <1>8 DEF Cancel
  <2>5. Agree(row, The(w).row)
    BY <2>2, <2>3 DEF Shaped, Agree
  <2> HIDE DEF row
  <2> QED
    BY <1>1, <1>2, <2>1, <2>3, <2>4, <2>5, AppliedKeepsRows
<1> QED
  BY <1>4, <1>5, <1>6, <1>7, <1>8

LEMMA NextKeepsRows ==
  ASSUME BillingInv, AnswerInv, RowsInv, [BillingNext]_billingVars
  PROVE  RowsInv'
<1>1. CASE UNCHANGED billingVars
  BY <1>1, QuietKeepsRows DEF billingVars, sold, ghosts
<1>2. Subs \subseteq Goods
  BY DEF Goods
<1>3. ASSUME NEW w \in Workers,
             Serve(w) \/ StepFails(w) \/ RollbackFails(w) \/ ReplyLost(w) \/ CommitUnheard(w)
      PROVE  RowsInv'
  BY <1>3, ClaimingKeepsRows, ServingKeepsRows DEF Serve
<1> QED
  BY <1>1, <1>2, <1>3, OutsideKeepsRows, ClaimingKeepsRows, CrashKeepsRows DEF BillingNext

LEMMA AnswersAlways == BillingSpec => [](BillingInv /\ AnswerInv)
<1>1. BillingInv /\ AnswerInv /\ [BillingNext]_billingVars => AnswerInv'
  BY NextKeepsAnswers
<1> QED
  BY <1>1, AnswersInitially, InvAlways, PTL DEF BillingSpec

(* Whatever the order in which Stripe's events arrive and are repeated:    *)
(* once all are answered and none was given up, a subscription whose       *)
(* events were not applied an older after a newer has the status Stripe    *)
(* has it in, and the period if it is active.                              *)
THEOREM TableFollowsStripe == BillingSpec => []RowsFollowStripe
<1>1. BillingInv /\ AnswerInv /\ RowsInv /\ [BillingNext]_billingVars => RowsInv'
  BY NextKeepsRows
<1> QED
  BY <1>1, RowsInitially, AnswersAlways, RowsInvSuffices, PTL DEF BillingSpec

-----------------------------------------------------------------------------
(* The accounts.  An id made at Stripe is saved by the checkout that made  *)
(* it and by no other, so the customer's id never comes back to an earlier *)
(* one: an account that is the only one now always was.                    *)
AccountsInv ==
  /\ \A g \in Goods : buys[g].at = "save" =>
       /\ buys[g].holder \notin {0, stripeId}
       /\ \A o \in Goods \ {g} : buys[o].holder # buys[g].holder
  /\ \A s \in Subs : stripe[s].status # "none" => buys[s].at = "paid"
  /\ \A e \in 1 .. Len(events) :
       LET buy == buys[events[e].good] IN buy.at = "paid" /\ events[e].holder = buy.holder

LEMMA AccountsInitially == BillingInit => AccountsInv
<1> SUFFICES ASSUME BillingInit PROVE AccountsInv
  OBVIOUS
<1>1. PICK old \in {{}, Old} :
        /\ buys = [g \in Goods |-> IF g \in old THEN [at |-> "paid", holder |-> 1] ELSE NoBuy]
        /\ stripe = [s \in Subs |-> IF s \in old THEN [status |-> "active", period |-> 1] ELSE NoRow]
  BY DEF BillingInit
<1>2. events = <<>> /\ \A g \in Goods : buys[g].at # "save"
  BY <1>1 DEF BillingInit, NoBuy
<1>3. ASSUME NEW s \in Subs, stripe[s].status # "none"
      PROVE  buys[s].at = "paid"
  BY <1>1, <1>3 DEF NoRow, Goods
<1> QED
  BY <1>2, <1>3 DEF AccountsInv

LEMMA ShoppingKeepsAccounts ==
  ASSUME BillingInv, AccountsInv, NEW g \in Goods,
         Begin(g) \/ Make(g) \/ Save(g) \/ SaveFails(g)
  PROVE  AccountsInv' /\ (OneAccount' => OneAccount)
<1>1. /\ buys \in [Goods -> [at : {"no", "make", "save", "open", "paid"}, holder : 0 .. made]]
      /\ made \in Nat /\ stripeId \in 0 .. made
  BY DEF BillingInv, ShopOK
<1>2. UNCHANGED <<events, stripe>> /\ \A o \in Goods \ {g} : buys'[o] = buys[o]
  BY <1>1 DEF Begin, Make, Save, SaveFails, sold
<1>3. buys[g].at # "paid"
  BY DEF Begin, Make, Save, SaveFails
<1>4. /\ \A e \in 1 .. Len(events) : events[e].good \in Goods \ {g}
      /\ \A s \in Subs : stripe[s].status # "none" => s \in Goods \ {g}
  <2>1. \A e \in 1 .. Len(events) : events[e] \in Event
    BY DEF BillingInv, EventsOK
  <2>2. \A e \in 1 .. Len(events) : events[e].good \in Goods
    BY <2>1 DEF Event
  <2> QED
    BY <1>3, <2>2 DEF AccountsInv, Goods
<1>5. /\ \A s \in Subs : stripe'[s].status # "none" => buys'[s].at = "paid"
      /\ \A e \in 1 .. Len(events') :
           /\ buys'[events'[e].good].at = "paid"
           /\ events'[e].holder = buys'[events'[e].good].holder
  BY <1>2, <1>4 DEF AccountsInv
<1>6. ASSUME \A o \in Goods : buys'[o].at = "save" =>
               /\ buys'[o].holder \notin {0, stripeId'}
               /\ \A q \in Goods \ {o} : buys'[q].holder # buys'[o].holder
      PROVE  AccountsInv'
  BY <1>5, <1>6 DEF AccountsInv
<1>7. ASSUME stripeId' = stripeId
      PROVE  OneAccount' => OneAccount
  BY <1>2, <1>3, <1>7 DEF OneAccount, Goods, Subs
<1>8. CASE Begin(g)
  <2>1. buys'[g].at # "save" /\ buys'[g].holder = stripeId /\ stripeId' = stripeId
    BY <1>1, <1>8 DEF Begin
  <2> QED
    BY <1>2, <1>6, <1>7, <2>1 DEF AccountsInv
<1>9. CASE Make(g)
  <2>1. buys'[g].holder = made + 1 /\ buys'[g].at = "save" /\ stripeId' = stripeId
    BY <1>1, <1>9 DEF Make
  <2>2. (\A o \in Goods : buys[o].holder # made + 1) /\ made + 1 \notin {0, stripeId}
    BY <1>1
  <2> QED
    BY <1>2, <1>6, <1>7, <2>1, <2>2 DEF AccountsInv
<1>10. CASE Save(g)
  <2>1. /\ buys'[g].holder = buys[g].holder /\ buys'[g].at = "open"
        /\ stripeId' = buys[g].holder /\ buys[g].at = "save"
    BY <1>1, <1>10 DEF Save
  <2>2. AccountsInv'
    BY <1>2, <1>6, <2>1 DEF AccountsInv
  <2>3. ASSUME OneAccount', NEW s \in Slots, buys[s].at = "paid"
        PROVE  buys[s].holder = stripeId
    <3>1. s \in Goods \ {g}
      BY <1>3, <2>3 DEF Goods, Subs
    <3>2. buys'[s] = buys[s] /\ buys[s].holder # buys[g].holder
      BY <1>2, <2>1, <3>1 DEF AccountsInv
    <3> QED
      BY <2>1, <2>3, <3>2 DEF OneAccount
  <2> QED
    BY <2>2, <2>3 DEF OneAccount
<1>11. CASE SaveFails(g)
  <2>1. buys'[g] = NoBuy /\ stripeId' = stripeId
    BY <1>1, <1>11 DEF SaveFails
  <2> QED
    BY <1>2, <1>6, <1>7, <2>1 DEF AccountsInv, NoBuy
<1> QED
  BY <1>8, <1>9, <1>10, <1>11

LEMMA ReportKeepsAccounts ==
  ASSUME BillingInv, AccountsInv, NEW g \in Goods,
         \/ Pay(g) \/ Subscribe(g)
         \/ g \in Subs /\ (End(g) \/ \E status \in {"active", "past_due"} : Renew(g, status))
  PROVE  AccountsInv' /\ (OneAccount' => OneAccount)
<1>1. /\ buys \in [Goods -> [at : {"no", "make", "save", "open", "paid"}, holder : 0 .. made]]
      /\ stripe \in [Subs -> Row] /\ stripeId' = stripeId
      /\ events \in Seq(Event)
  BY DEF BillingInv, ShopOK, TablesOK, EventsOK, Pay, Subscribe, End, Renew, Report
<1>2. /\ buys'[g].at = "paid" /\ buys'[g].holder = buys[g].holder /\ buys[g].at \in {"open", "paid"}
      /\ \A o \in Goods \ {g} : buys'[o] = buys[o]
  <2>1. CASE Pay(g) \/ Subscribe(g)
    BY <1>1, <2>1 DEF Pay, Subscribe
  <2>2. CASE g \in Subs /\ (End(g) \/ \E status \in {"active", "past_due"} : Renew(g, status))
    BY <1>1, <2>2 DEF End, Renew, AccountsInv
  <2> QED
    BY <2>1, <2>2
<1>3. PICK v : v.good = g /\ v.holder = buys[g].holder /\ events' = Append(events, v)
  <2>1. PICK kind, row : Report(kind, g, row)
    BY DEF Pay, Subscribe, End, Renew
  <2> DEFINE v == [kind |-> kind, good |-> g, row |-> row, holder |-> buys[g].holder]
  <2>2. v.good = g /\ v.holder = buys[g].holder /\ events' = Append(events, v)
    BY <2>1 DEF Report
  <2> HIDE DEF v
  <2> QED
    BY <2>2
<1>4. /\ Len(events') = Len(events) + 1 /\ Len(events) \in Nat
      /\ \A e \in 1 .. Len(events) : events'[e] = events[e]
      /\ events'[Len(events) + 1] = v
  BY <1>1, <1>3
<1>5. ASSUME NEW e \in 1 .. Len(events')
      PROVE  /\ buys'[events'[e].good].at = "paid"
             /\ events'[e].holder = buys'[events'[e].good].holder
  <2>1. CASE e = Len(events) + 1
    BY <1>2, <1>3, <1>4, <2>1
  <2>2. CASE e \in 1 .. Len(events)
    <3>1. buys[events[e].good].at = "paid" /\ events[e].holder = buys[events[e].good].holder
      BY <2>2 DEF AccountsInv
    <3>2. events[e] \in Event /\ events'[e] = events[e]
      BY <1>1, <1>4, <2>2
    <3>3. events[e].good \in Goods
      BY <3>2 DEF Event
    <3> QED
      BY <1>2, <3>1, <3>2, <3>3
  <2> QED
    BY <1>4, <2>1, <2>2
<1>6. ASSUME NEW s \in Subs, stripe'[s].status # "none"
      PROVE  buys'[s].at = "paid"
  <2>1. s \in Goods /\ (s # g => stripe'[s] = stripe[s])
    BY <1>1 DEF Pay, Subscribe, End, Renew, Goods
  <2> QED
    BY <1>2, <1>6, <2>1 DEF AccountsInv
<1>7. AccountsInv'
  BY <1>1, <1>2, <1>5, <1>6 DEF AccountsInv
<1>8. OneAccount' => OneAccount
  BY <1>1, <1>2 DEF OneAccount, Goods, Subs
<1> QED
  BY <1>7, <1>8

LEMMA NextKeepsAccounts ==
  ASSUME BillingInv, AccountsInv, [BillingNext]_billingVars
  PROVE  AccountsInv' /\ (OneAccount' => OneAccount)
<1>1. ASSUME UNCHANGED <<stripeId, buys, stripe, events>>
      PROVE  AccountsInv' /\ (OneAccount' => OneAccount)
  BY <1>1 DEF AccountsInv, OneAccount
<1>2. CASE UNCHANGED billingVars
  BY <1>1, <1>2 DEF billingVars, shop, sold
<1>3. Subs \subseteq Goods
  BY DEF Goods
<1>4. ASSUME NEW w \in Workers,
             \/ Serve(w) \/ StepFails(w) \/ RollbackFails(w) \/ ReplyLost(w) \/ CommitUnheard(w)
             \/ \E e \in 1 .. Len(events) : Deliver(w, e)
      PROVE  UNCHANGED <<stripeId, buys, stripe, events>>
  BY <1>4 DEF Serve, Claim, Rollback, Reply, Checkout, Find, Write, Upgrade, KeepLong, Granted,
              Grant, Seek, Cancel, LookForOthers, Revert, KeepShort, StepFails, RollbackFails,
              ReplyLost, CommitUnheard, Deliver, shop, sold
<1>5. CASE Crash
  BY <1>1, <1>5 DEF Crash, shop, sold
<1> QED
  BY <1>1, <1>2, <1>3, <1>4, <1>5, ShoppingKeepsAccounts, ReportKeepsAccounts DEF BillingNext

-----------------------------------------------------------------------------
(* Grants and reverts.  As long as no plan was granted while another       *)
(* request reverted it, the two are never at work together, and neither is *)
(* overtaken by what the table says.                                       *)
Subscribed(statuses) == \E s \in Slots : rows[s].status \in statuses

Alone ==
  \/ \A w \in Workers : ~ Reverting(w)
  \/ \A w \in Workers : ~ Granting(w)

Fit(w) ==
  /\ Granting(w) => Active(w) /\ rows[Sub(w)].status \in Living
  /\ Reverting(w) => rows[Sub(w)].status # "active" /\ rows[Sub(w)] # NoRow
  /\ workers[w].at \in {"revert", "shorten"} => ~ Subscribed({"active"})
  /\ workers[w].at = "retention" => plan = "paid"
  /\ workers[w].at = "shorten" => plan = "sandbox"

ApartInv == ~ raced => Alone /\ \A w \in Workers : Fit(w)

LEMMA ApartInitially == BillingInit => ApartInv
  BY DEF BillingInit, ApartInv, Alone, Fit, Granting, Reverting, Idle

(* What a worker at the plan is at.                                        *)
LEMMA AtPlanFacts ==
  ASSUME BillingInv, AnswerInv, NEW w \in Workers
  PROVE  /\ Granting(w) <=> workers[w].at \in {"plan", "retention"}
         /\ Reverting(w) <=> workers[w].at \in {"others", "revert", "shorten"}
         /\ workers[w].at \in AtThePlan =>
              /\ workers[w].event \in 1 .. Len(events) /\ workers[w].event \in Nat
              /\ Sub(w) \in Slots /\ Sub(w) \in Subs
<1>1. workers[w].at \in AtThePlan => Slot(w)
  BY DEF AnswerInv, HalfWay
<1>2. workers[w].at \in AtThePlan =>
        workers[w].event \in 1 .. Len(events) /\ workers[w].event \in Nat
  BY TheEvent, EventFacts DEF AtThePlan
<1> QED
  BY <1>1, <1>2 DEF Granting, Reverting, AtThePlan, Slot, Subs

(* A request goes on without touching plan or slots, and none begins to    *)
(* grant or revert.                                                        *)
LEMMA QuietKeepsApart ==
  ASSUME BillingInv, AnswerInv, ApartInv, UNCHANGED plan, raced => raced',
         \A s \in Slots : rows'[s] = rows[s],
         \A e \in 1 .. Len(events) : events'[e] = events[e],
         \A w \in Workers : workers'[w].at \in AtThePlan => workers'[w] = workers[w]
  PROVE  ApartInv'
<1> SUFFICES ASSUME ~ raced' PROVE Alone' /\ \A w \in Workers : Fit(w)'
  BY DEF ApartInv
<1>1. Alone /\ \A w \in Workers : Fit(w)
  BY DEF ApartInv
<1>2. Subscribed({"active"})' <=> Subscribed({"active"})
  BY DEF Subscribed
<1>3. ASSUME NEW w \in Workers, workers'[w].at \in AtThePlan
      PROVE  /\ workers'[w] = workers[w] /\ The(w)' = The(w) /\ Sub(w)' = Sub(w)
             /\ Slot(w)' = Slot(w) /\ Active(w)' = Active(w) /\ Sub(w) \in Slots
             /\ rows'[Sub(w)] = rows[Sub(w)]
  <2>1. workers'[w] = workers[w] /\ workers[w].event \in 1 .. Len(events) /\ Sub(w) \in Slots
    BY <1>3, AtPlanFacts
  <2>2. The(w)' = The(w)
    BY <2>1 DEF The
  <2> QED
    BY <2>1, <2>2 DEF Sub, Slot, Active
<1>4. ASSUME NEW w \in Workers
      PROVE  (Granting(w)' => Granting(w)) /\ (Reverting(w)' => Reverting(w)) /\ Fit(w)'
  <2>1. CASE workers'[w].at \in AtThePlan
    BY <1>1, <1>2, <1>3, <2>1 DEF Granting, Reverting, Fit
  <2>2. CASE workers'[w].at \notin AtThePlan
    BY <2>2 DEF Granting, Reverting, Fit, AtThePlan
  <2> QED
    BY <2>1, <2>2
<1> QED
  BY <1>1, <1>4 DEF Alone

(* The row of a slot is written: no grant stays without its subscription,  *)
(* and no revert with it.                                                  *)
LEMMA WriteKeepsApart ==
  ASSUME BillingInv, AnswerInv, ApartInv, NEW w \in Workers, Write(w), Slot(w),
         rows' = [rows EXCEPT ![Sub(w)] = Written(w)], To(w, AfterWrite(w)),
         raced' = (raced \/ (Slot(w) /\ Active(w) /\ \E v \in Workers : Reverting(v)))
  PROVE  ApartInv'
<1> SUFFICES ASSUME ~ raced' PROVE Alone' /\ \A v \in Workers : Fit(v)'
  BY DEF ApartInv
<1> DEFINE s == Sub(w)
<1>1. Alone /\ \A v \in Workers : Fit(v)
  BY DEF ApartInv
<1>2. /\ workers[w].at = "write" /\ UNCHANGED <<events, plan>>
      /\ \A v \in Workers \ {w} : workers'[v] = workers[v]
      /\ workers'[w].event = workers[w].event
      /\ workers'[w].at = IF Active(w) THEN "plan" ELSE "reply"
  BY DEF Write, At, To, AfterWrite, customer, sold, BillingInv, WorkersOK
<1>3. Shaped(The(w)) /\ The(w).kind = "upsert" /\ s \in Slots /\ s \in Subs
  BY <1>2, TheEvent, EventFacts
  DEF BillingInv, WorkersOK, EventsOK, The, Upserting, Slot, Subs
<1>4. /\ rows'[s] = The(w).row /\ The(w).row.status \in Living /\ The(w).row # NoRow
      /\ \A q \in Subs \ {s} : rows'[q] = rows[q]
  BY <1>3 DEF Shaped, Written, NoRow, Living, BillingInv, TablesOK
<1>5. \A v \in Workers : /\ Sub(v)' = Sub(v) /\ Slot(v)' = Slot(v) /\ Active(v)' = Active(v)
  BY <1>2 DEF Sub, The, Slot, Active
<1>6. \A v \in Workers : ~ Granting(v) => ~ Granting(v)' \/ (v = w /\ Active(w))
  BY <1>2, <1>5 DEF Granting
<1>7. \A v \in Workers : Reverting(v)' => Reverting(v) /\ v # w
  BY <1>2, <1>5 DEF Reverting
<1>8. Active(w) => \A v \in Workers : ~ Reverting(v)
  OBVIOUS
<1> HIDE DEF s
<1>9. Alone'
  BY <1>1, <1>6, <1>7, <1>8 DEF Alone
<1>10. ASSUME ~ Active(w), Subscribed({"active"})'
       PROVE  Subscribed({"active"})
  <2>1. The(w).row.status # "active"
    BY <1>10 DEF Active
  <2> QED
    BY <1>4, <1>10, <2>1 DEF Subscribed, Subs
<1>11. ASSUME NEW v \in Workers
       PROVE  Fit(v)'
  <2>1. CASE v = w
    <3>1. CASE Active(w)
      BY <1>2, <1>4, <1>5, <2>1, <3>1 DEF Fit, Granting, Reverting, s
    <3>2. CASE ~ Active(w)
      BY <1>2, <2>1, <3>2 DEF Fit, Granting, Reverting
    <3> QED
      BY <3>1, <3>2
  <2>2. CASE v # w
    <3>1. workers'[v] = workers[v] /\ Fit(v)
      BY <1>1, <1>2, <2>2
    <3>2. workers[v].at \in AtThePlan => Sub(v) \in Subs
      BY AtPlanFacts
    <3>3. Granting(v)' => Active(v)' /\ rows'[Sub(v)'].status \in Living
      BY <1>4, <1>5, <3>1, <3>2 DEF Fit, Granting, AtThePlan
    <3>4. Reverting(v)' => ~ Active(w)
      BY <1>7, <1>8
    <3>5. Reverting(v)' => rows'[Sub(v)'].status # "active" /\ rows'[Sub(v)'] # NoRow
      BY <1>4, <1>5, <1>7, <3>1, <3>2, <3>4 DEF Fit, Reverting, AtThePlan, Active
    <3>6. workers'[v].at \in {"revert", "shorten"} => Reverting(v)'
      BY <1>5, <3>1, AtPlanFacts DEF Reverting, AtThePlan, Slot
    <3> QED
      BY <1>2, <1>10, <3>1, <3>3, <3>4, <3>5, <3>6 DEF Fit
  <2> QED
    BY <2>1, <2>2
<1> QED
  BY <1>9, <1>11

LEMMA CancelKeepsApart ==
  ASSUME BillingInv, AnswerInv, ApartInv, NEW w \in Workers, Cancel(w), Slot(w)
  PROVE  ApartInv'
<1> SUFFICES ASSUME ~ raced' PROVE Alone' /\ \A v \in Workers : Fit(v)'
  BY DEF ApartInv
<1> DEFINE s == Sub(w)
           row == [workers[w].seen EXCEPT !.status = "canceled"]
<1>1. ~ raced /\ \A v \in Workers : ~ Granting(v)
  BY DEF Cancel
<1>2. \A v \in Workers : Fit(v)
  BY <1>1 DEF ApartInv
<1>3. /\ workers[w].at = "cancel" /\ UNCHANGED <<events, plan>>
      /\ \A v \in Workers \ {w} : workers'[v] = workers[v]
      /\ workers'[w].event = workers[w].event /\ workers'[w].at = "others"
      /\ rows' = [rows EXCEPT ![s] = row] /\ s \in Slots /\ s \in Subs
  BY DEF Cancel, At, To, Slot, customer, sold, BillingInv, WorkersOK, Subs
<1>4. row.status = "canceled" /\ row # NoRow
  BY <1>3 DEF BillingInv, WorkersOK, Row, NoRow
<1> HIDE DEF row
<1>5. rows'[s] = row /\ \A q \in Subs \ {s} : rows'[q] = rows[q]
  BY <1>3 DEF BillingInv, TablesOK
<1>6. \A v \in Workers : Sub(v)' = Sub(v) /\ Slot(v)' = Slot(v)
  BY <1>3 DEF Sub, The, Slot
<1>7. \A v \in Workers : ~ Granting(v)'
  BY <1>1, <1>3, <1>6 DEF Granting
<1>8. ASSUME Subscribed({"active"})'
      PROVE  Subscribed({"active"})
  BY <1>4, <1>5, <1>8 DEF Subscribed, Subs
<1> HIDE DEF s
<1>9. ASSUME NEW v \in Workers
      PROVE  Fit(v)'
  <2>1. CASE v = w
    BY <1>3, <1>4, <1>5, <1>6, <1>7, <2>1 DEF Fit, Granting, s
  <2>2. CASE v # w
    <3>1. workers'[v] = workers[v] /\ Fit(v)
      BY <1>2, <1>3, <2>2
    <3>2. workers[v].at \in AtThePlan => Sub(v) \in Subs
      BY AtPlanFacts
    <3>3. Reverting(v)' => rows'[Sub(v)'].status # "active" /\ rows'[Sub(v)'] # NoRow
      BY <1>4, <1>5, <1>6, <3>1, <3>2 DEF Fit, Reverting, AtThePlan
    <3> QED
      BY <1>3, <1>7, <1>8, <3>1, <3>3 DEF Fit
  <2> QED
    BY <2>1, <2>2
<1> QED
  BY <1>7, <1>9 DEF Alone

(* A request that is granting, or reverting, takes its next step.          *)
LEMMA PlanKeepsApart ==
  ASSUME BillingInv, AnswerInv, ApartInv, NEW w \in Workers,
         Upgrade(w) \/ LookForOthers(w) \/ Revert(w)
  PROVE  ApartInv'
<1> SUFFICES ASSUME ~ raced' PROVE Alone' /\ \A v \in Workers : Fit(v)'
  BY DEF ApartInv
<1>1. /\ UNCHANGED <<events, rows, raced>>
      /\ \A v \in Workers \ {w} : workers'[v] = workers[v]
      /\ workers'[w].event = workers[w].event
  BY DEF Upgrade, LookForOthers, Revert, To, sold, ghosts, BillingInv, WorkersOK
<1>2. Alone /\ \A v \in Workers : Fit(v)
  BY <1>1 DEF ApartInv
<1>3. \A v \in Workers : /\ Sub(v)' = Sub(v) /\ Slot(v)' = Slot(v) /\ Active(v)' = Active(v)
  BY <1>1 DEF Sub, The, Slot, Active
<1>4. Subscribed({"active"})' <=> Subscribed({"active"})
  BY <1>1 DEF Subscribed
<1>5. CASE Upgrade(w)
  <2>1. workers[w].at = "plan" /\ workers'[w].at = "retention" /\ plan' = "paid" /\ Granting(w)
    BY <1>5, AtPlanFacts DEF Upgrade, At, To, BillingInv, WorkersOK
  <2>2. \A v \in Workers : ~ Reverting(v)
    BY <1>2, <2>1 DEF Alone
  <2>3. \A v \in Workers : ~ Reverting(v)' /\ (Granting(v)' => Granting(v))
    BY <1>1, <1>3, <2>1, <2>2 DEF Reverting, Granting
  <2>4. \A v \in Workers : workers'[v].at \notin {"revert", "shorten"}
    BY <1>1, <2>1, <2>2, AtPlanFacts
  <2>5. ASSUME NEW v \in Workers
        PROVE  Fit(v)'
    BY <1>1, <1>2, <1>3, <2>1, <2>3, <2>4 DEF Fit
  <2> QED
    BY <2>3, <2>5 DEF Alone
<1>6. CASE LookForOthers(w) \/ Revert(w)
  <2>1. Reverting(w)
    BY <1>6, AtPlanFacts DEF LookForOthers, Revert, At
  <2>2. \A v \in Workers : ~ Granting(v)
    BY <1>2, <2>1 DEF Alone
  <2>3. workers'[w].at \in {"reply", "revert", "shorten"}
    BY <1>6 DEF LookForOthers, Revert, To, BillingInv, WorkersOK
  <2>4. \A v \in Workers : ~ Granting(v)' /\ (Reverting(v)' => Reverting(v))
    BY <1>1, <1>3, <2>1, <2>2, <2>3 DEF Reverting, Granting
  <2>5. workers'[w].at \in {"revert", "shorten"} => ~ Subscribed({"active"})
    <3>1. CASE LookForOthers(w)
      <4>1. rows[Sub(w)].status # "active"
        BY <1>2, <2>1 DEF Fit
      <4>2. workers'[w].at # "reply" => ~ Others(w)
        BY <3>1 DEF LookForOthers, To, BillingInv, WorkersOK
      <4> QED
        BY <4>1, <4>2 DEF Others, Subscribed
    <3>2. CASE Revert(w)
      BY <1>2, <3>2 DEF Revert, At, Fit
    <3> QED
      BY <1>6, <3>1, <3>2
  <2>6. \A v \in Workers : workers'[v].at # "retention"
    BY <1>1, <2>2, <2>3, AtPlanFacts
  <2>7. /\ plan' \in {plan, "sandbox"}
        /\ workers'[w].at = "shorten" => plan' = "sandbox"
    BY <1>6 DEF LookForOthers, Revert, To, customer, BillingInv, WorkersOK
  <2>8. ASSUME NEW v \in Workers
        PROVE  Fit(v)'
    BY <1>1, <1>2, <1>3, <1>4, <2>4, <2>5, <2>6, <2>7 DEF Fit
  <2> QED
    BY <2>4, <2>8 DEF Alone
<1> QED
  BY <1>5, <1>6

LEMMA NextKeepsApart ==
  ASSUME BillingInv, AnswerInv, ApartInv, [BillingNext]_billingVars
  PROVE  ApartInv'
<1>1. CASE UNCHANGED billingVars
  BY <1>1, QuietKeepsApart DEF billingVars, sold, customer, ghosts
<1>2. ASSUME NEW g \in Goods,
             \/ Begin(g) \/ Make(g) \/ Save(g) \/ SaveFails(g) \/ Pay(g) \/ Subscribe(g)
             \/ g \in Subs /\ (End(g) \/ \E status \in {"active", "past_due"} : Renew(g, status))
      PROVE  ApartInv'
  <2>1. UNCHANGED <<workers, rows, plan, raced>>
    BY <1>2 DEF Begin, Make, Save, SaveFails, Pay, Subscribe, End, Renew, Report, customer, ghosts
  <2>2. events' = events \/ \E v : events' = Append(events, v)
    BY <1>2 DEF Begin, Make, Save, SaveFails, Pay, Subscribe, End, Renew, Report, sold
  <2>3. \A e \in 1 .. Len(events) : events'[e] = events[e]
    BY <2>2 DEF BillingInv, EventsOK
  <2> QED
    BY <2>1, <2>3, QuietKeepsApart
<1>3. ASSUME NEW w \in Workers,
             \/ \E e \in 1 .. Len(events) : Deliver(w, e)
             \/ Claim(w) \/ StepFails(w) \/ Rollback(w) \/ RollbackFails(w) \/ Reply(w)
             \/ ReplyLost(w) \/ Checkout(w) \/ CommitUnheard(w) \/ Find(w) \/ KeepLong(w)
             \/ Granted(w) \/ Grant(w) \/ Seek(w) \/ KeepShort(w)
      PROVE  ApartInv'
  <2>1. UNCHANGED <<events, rows, plan, raced>>
    BY <1>3 DEF Deliver, Claim, StepFails, Rollback, RollbackFails, Reply, ReplyLost, Checkout,
                CommitUnheard, Find, KeepLong, Granted, Grant, Seek, KeepShort, sold, customer,
                ghosts
  <2>2. /\ \A v \in Workers \ {w} : workers'[v] = workers[v]
        /\ workers'[w].at \notin AtThePlan
    <3>1. CASE Claim(w)
      <4>1. The(w).kind \in {"paid", "upsert", "deleted"}
        BY <3>1, TheEvent DEF Claim, At
      <4> QED
        BY <3>1, <4>1 DEF Claim, FirstStep, To, AtThePlan, BillingInv, WorkersOK
    <3>2. CASE \/ \E e \in 1 .. Len(events) : Deliver(w, e)
               \/ StepFails(w) \/ Rollback(w) \/ RollbackFails(w) \/ Reply(w) \/ ReplyLost(w)
      BY <3>2 DEF Deliver, StepFails, Rollback, RollbackFails, Reply, ReplyLost, Idle, AtThePlan,
                  BillingInv, WorkersOK
    <3>3. CASE \/ Checkout(w) \/ CommitUnheard(w) \/ KeepLong(w) \/ Granted(w) \/ Grant(w)
               \/ KeepShort(w)
      BY <3>3 DEF Checkout, CommitUnheard, KeepLong, Granted, Grant, KeepShort, To, AtThePlan,
                  BillingInv, WorkersOK
    <3>4. CASE Find(w) \/ Seek(w)
      BY <3>4 DEF Find, Seek, AtThePlan, BillingInv, WorkersOK
    <3> QED
      BY <1>3, <3>1, <3>2, <3>3, <3>4
  <2> QED
    BY <2>1, <2>2, QuietKeepsApart
<1>4. ASSUME NEW w \in Workers, Write(w)
      PROVE  ApartInv'
  <2>0. /\ workers[w].at = "write" /\ UNCHANGED <<events, plan>>
        /\ \A v \in Workers \ {w} : workers'[v] = workers[v]
    BY <1>4 DEF Write, At, To, sold, customer, BillingInv, WorkersOK
  <2>1. CASE To(w, "rollback") /\ UNCHANGED <<rows, latest, reordered, raced>>
    <3>1. workers'[w].at = "rollback"
      BY <2>1 DEF To, BillingInv, WorkersOK
    <3> QED
      BY <2>0, <2>1, <3>1, QuietKeepsApart DEF AtThePlan
  <2>2. CASE /\ rows' = [rows EXCEPT ![Sub(w)] = Written(w)]
             /\ To(w, AfterWrite(w))
             /\ raced' = (raced \/ (Slot(w) /\ Active(w) /\ \E v \in Workers : Reverting(v)))
    <3>1. CASE Slot(w)
      BY <1>4, <2>2, <3>1, WriteKeepsApart
    <3>2. CASE ~ Slot(w)
      <4>1. \A s \in Slots : rows'[s] = rows[s]
        BY <2>2, <3>2 DEF Slot
      <4>2. workers'[w].at \notin AtThePlan
        BY <2>2, <3>2 DEF To, AfterWrite, AtThePlan, BillingInv, WorkersOK
      <4> QED
        BY <2>0, <2>2, <4>1, <4>2, QuietKeepsApart
    <3> QED
      BY <3>1, <3>2
  <2> QED
    BY <1>4, <2>1, <2>2 DEF Write
<1>5. ASSUME NEW w \in Workers, Cancel(w)
      PROVE  ApartInv'
  <2>1. CASE Slot(w)
    BY <1>5, <2>1, CancelKeepsApart
  <2>2. CASE ~ Slot(w)
    <3>1. /\ UNCHANGED <<events, plan>>
          /\ \A v \in Workers \ {w} : workers'[v] = workers[v]
          /\ workers'[w].at = "reply"
      BY <1>5, <2>2 DEF Cancel, To, sold, customer, BillingInv, WorkersOK
    <3>3. raced => raced'
      BY <1>5, Zenon DEF Cancel
    <3>2. \A s \in Slots : rows'[s] = rows[s]
      BY <1>5, <2>2 DEF Cancel, Slot
    <3> QED
      BY <3>1, <3>3, <3>2, QuietKeepsApart DEF AtThePlan
  <2> QED
    BY <2>1, <2>2
<1>6. CASE Crash
  <2>1. UNCHANGED <<events, rows, plan, raced>> /\ \A w \in Workers : workers'[w].at = "idle"
    BY <1>6 DEF Crash, sold, customer, Idle
  <2> QED
    BY <2>1, QuietKeepsApart DEF AtThePlan
<1>7. Subs \subseteq Goods /\ \A g \in Goods : Subscribe(g) => g \in Subs
  BY DEF Goods, Subscribe
<1> QED
  BY <1>1, <1>2, <1>3, <1>4, <1>5, <1>6, <1>7, PlanKeepsApart DEF BillingNext, Serve

-----------------------------------------------------------------------------
(* What is owed.  An event is owed at some steps if a request is at one of *)
(* them with it, or will claim it (again), or gave it up.                  *)
Owed(e, steps) ==
  \/ e \notin claims \/ e \in dropped
  \/ \E w \in Workers : workers[w].event = e /\ workers[w].at \in steps \cup {"rollback"}

(* The events that grant the plan, and those that may revert it.           *)
SlotGrants ==
  {e \in 1 .. Len(events) : /\ events[e].kind = "upsert" /\ events[e].good \in Slots
                            /\ events[e].row.status = "active"}
SlotEnds ==
  {e \in 1 .. Len(events) : /\ events[e].kind = "deleted" /\ events[e].good \in Slots
                            /\ rows[events[e].good] # NoRow}

Up   == {"find", "write", "plan"}
Down == {"seek", "cancel", "others", "revert"}
GrantDue     == \E e \in SlotGrants : Owed(e, Up)
KeepLongDue  == \E e \in SlotGrants : Owed(e, Up \cup {"retention"})
RevertDue    == \E e \in SlotEnds : Owed(e, Down)
KeepShortDue == \E e \in SlotEnds : Owed(e, Down \cup {"shorten"})

(* Where plan, retention and slots disagree, something is still to come.   *)
OwedInv ==
  (~ raced /\ OneAccount) =>
    /\ Subscribed({"active"}) /\ plan = "sandbox" => GrantDue
    /\ plan = "paid" => Subscribed(Living) \/ RevertDue
    /\ plan = "paid" /\ retention = "free" => KeepLongDue
    /\ plan = "sandbox" /\ retention = "paid" => GrantDue \/ KeepShortDue

LEMMA OwedInitially == BillingInit => OwedInv
<1> SUFFICES ASSUME BillingInit PROVE OwedInv
  OBVIOUS
<1>1. PICK old \in {{}, Old} :
        /\ rows = [s \in Subs |-> IF s \in old THEN [status |-> "active", period |-> 1] ELSE NoRow]
        /\ plan = IF old = {} THEN "sandbox" ELSE "paid"
        /\ retention = IF old = {} THEN "free" ELSE "paid"
  BY DEF BillingInit
<1>2. CASE old = {}
  BY <1>1, <1>2 DEF OwedInv, Subscribed, NoRow, Subs
<1>3. CASE old # {}
  <2>1. PICK s \in Slots : s \in old
    BY <1>3, BillingAssumption
  <2>2. rows[s].status \in Living
    BY <1>1, <2>1 DEF Living, Subs
  <2>3. Subscribed(Living)
    BY <2>2 DEF Subscribed
  <2> QED
    BY <1>1, <1>3, <2>3 DEF OwedInv
<1> QED
  BY <1>2, <1>3

(* Nothing is owed any more when all is settled.                           *)
LEMMA OwedSuffices == BillingInv /\ OwedInv => PlanFollowsSlots
<1> SUFFICES ASSUME BillingInv, OwedInv, Settled, ~ raced, OneAccount
             PROVE  /\ Subscribed({"active"}) => plan = "paid"
                    /\ plan = "paid" => Subscribed(Living)
                    /\ (plan = "paid") = (retention = "paid")
  BY DEF PlanFollowsSlots, Subscribed, Living
<1>1. ASSUME NEW e \in 1 .. Len(events), NEW steps, Owed(e, steps), "idle" \notin steps
      PROVE  FALSE
  BY <1>1 DEF Settled, Owed, Idle, BillingInv, ClaimsOK
<1>2. ~ GrantDue /\ ~ KeepLongDue /\ ~ RevertDue /\ ~ KeepShortDue
  BY <1>1 DEF GrantDue, KeepLongDue, RevertDue, KeepShortDue, SlotGrants, SlotEnds, Up, Down
<1>3. plan \in {"sandbox", "paid"} /\ retention \in {"free", "paid"}
  BY DEF BillingInv, CustomerOK
<1> QED
  BY <1>2, <1>3 DEF OwedInv

(* The step of one request keeps what is owed, unless the request was at   *)
(* it and leaves it.                                                       *)
LEMMA OwedLasts ==
  ASSUME BillingInv, NEW w \in Workers, NEW e, NEW steps, Owed(e, steps),
         \A v \in Workers \ {w} : workers'[v] = workers[v],
         claims' \subseteq claims \cup {workers[w].event}, dropped \subseteq dropped',
         \/ workers[w].event # e
         \/ claims' \subseteq claims /\ workers[w].at \notin steps \cup {"rollback"}
         \/ workers'[w].event = e /\ workers'[w].at \in steps \cup {"rollback"}
         \/ e \notin claims' \ dropped'
  PROVE  Owed(e, steps)'
<1>1. CASE e \notin claims' \ dropped'
  BY <1>1 DEF Owed
<1>2. CASE workers'[w].event = e /\ workers'[w].at \in steps \cup {"rollback"}
  BY <1>2 DEF Owed
<1>3. CASE /\ e \in claims' \ dropped' /\ e \in claims
           /\ workers[w].event # e \/ workers[w].at \notin steps \cup {"rollback"}
  <2>1. PICK v \in Workers : workers[v].event = e /\ workers[v].at \in steps \cup {"rollback"}
    BY <1>3 DEF Owed
  <2>2. workers'[v] = workers[v]
    BY <1>3, <2>1
  <2> QED
    BY <2>1, <2>2 DEF Owed
<1> QED
  BY <1>1, <1>2, <1>3

(* Claims, failures, answers and crashes keep what is owed.                *)
LEMMA ClaimingKeepsOwed ==
  ASSUME BillingInv, NEW w \in Workers, NEW e \in 1 .. Len(events), NEW steps, Owed(e, steps),
         FirstStep(events[e].kind) \in steps,
         {"idle", "claim", "reply", "rollback"} \cap steps = {},
         \/ \E f \in 1 .. Len(events) : Deliver(w, f)
         \/ Claim(w) \/ StepFails(w) \/ Rollback(w) \/ RollbackFails(w) \/ Reply(w) \/ ReplyLost(w)
  PROVE  Owed(e, steps)'
<1>1. /\ \A v \in Workers \ {w} : workers'[v] = workers[v]
      /\ claims' \subseteq claims \cup {workers[w].event} /\ dropped \subseteq dropped'
  BY DEF Deliver, Claim, StepFails, Rollback, RollbackFails, Reply, ReplyLost, Released, ghosts,
         To, BillingInv, WorkersOK
<1>2. CASE Claim(w)
  <2>1. CASE claims' = claims
    BY <1>1, <1>2, <2>1, OwedLasts DEF Claim, At
  <2>2. CASE claims' # claims
    <3>1. workers'[w].event = workers[w].event /\ workers'[w].at = FirstStep(The(w).kind)
      BY <1>2, <2>2 DEF Claim, To, BillingInv, WorkersOK
    <3>2. workers[w].event = e => workers'[w].at \in steps
      BY <3>1 DEF The
    <3> QED
      BY <1>1, <3>1, <3>2, OwedLasts
  <2> QED
    BY <2>1, <2>2
<1>3. CASE StepFails(w)
  <2>1. claims' = claims
    BY <1>3 DEF StepFails
  <2>2. \/ workers[w].at = "claim"
        \/ workers'[w].event = workers[w].event /\ workers'[w].at = "rollback"
    BY <1>3 DEF StepFails, At, BillingInv, WorkersOK
  <2> QED
    BY <1>1, <2>1, <2>2, OwedLasts
<1>4. CASE Rollback(w) \/ RollbackFails(w)
  <2>1. workers[w].event \notin claims' \ dropped'
    BY <1>4 DEF Rollback, RollbackFails, Released
  <2> QED
    BY <1>1, <2>1, OwedLasts
<1>5. CASE Reply(w) \/ ReplyLost(w) \/ \E f \in 1 .. Len(events) : Deliver(w, f)
  <2>1. claims' = claims /\ workers[w].at \in {"idle", "reply"}
    BY <1>5 DEF Reply, ReplyLost, Deliver, At, Idle
  <2> QED
    BY <1>1, <2>1, OwedLasts
<1> QED
  BY <1>2, <1>3, <1>4, <1>5

LEMMA CrashKeepsOwed ==
  ASSUME BillingInv, NEW e, NEW steps, Owed(e, steps), Crash,
         {"idle", "claim", "reply"} \cap steps = {}
  PROVE  Owed(e, steps)'
<1>1. claims' = claims /\ dropped \subseteq dropped'
  BY DEF Crash
<1>2. ASSUME NEW w \in Workers, workers[w].event = e, workers[w].at \in steps \cup {"rollback"}
      PROVE  e \in dropped'
  BY <1>2 DEF Crash
<1> QED
  BY <1>1, <1>2 DEF Owed

(* The kinds of events that are owed keep their kind.                      *)
LEMMA OwedEvents ==
  ASSUME BillingInv, \A e \in 1 .. Len(events) : events'[e] = events[e],
         Len(events') \in Nat, Len(events) <= Len(events'),
         \A s \in Slots : rows[s] # NoRow => rows'[s] # NoRow
  PROVE  /\ \A e \in SlotGrants : e \in SlotGrants' /\ e \in 1 .. Len(events)
                                  /\ FirstStep(events[e].kind) = "find"
         /\ \A e \in SlotEnds : e \in SlotEnds' /\ e \in 1 .. Len(events)
                                /\ FirstStep(events[e].kind) = "seek"
<1>1. Len(events) \in Nat
  BY DEF BillingInv, EventsOK
<1> QED
  BY <1>1 DEF SlotGrants, SlotEnds, FirstStep

(* Steps that settle nothing and change nothing at the slots.              *)
LEMMA NothingSettled ==
  ASSUME OwedInv, OneAccount' => OneAccount, raced => raced',
         UNCHANGED <<plan, retention>>,
         Subscribed({"active"})' => Subscribed({"active"}),
         Subscribed(Living) => Subscribed(Living)',
         GrantDue => GrantDue', KeepLongDue => KeepLongDue',
         RevertDue => RevertDue', KeepShortDue => KeepShortDue'
  PROVE  OwedInv'
  BY DEF OwedInv

LEMMA SameSlots ==
  ASSUME \A s \in Slots : rows'[s] = rows[s]
  PROVE  /\ Subscribed({"active"})' <=> Subscribed({"active"})
         /\ Subscribed(Living)' <=> Subscribed(Living)
  BY DEF Subscribed

LEMMA ClaimingKeepsOwing ==
  ASSUME BillingInv, OwedInv, OneAccount' => OneAccount,
         \/ Crash
         \/ \E w \in Workers :
              \/ \E f \in 1 .. Len(events) : Deliver(w, f)
              \/ Claim(w) \/ StepFails(w) \/ Rollback(w) \/ RollbackFails(w) \/ Reply(w)
              \/ ReplyLost(w)
  PROVE  OwedInv'
<1>1. UNCHANGED <<events, rows, plan, retention, raced>>
  BY DEF Deliver, Claim, StepFails, Rollback, RollbackFails, Reply, ReplyLost, Crash, sold,
         customer, ghosts
<1>2. /\ \A e \in SlotGrants : e \in SlotGrants' /\ e \in 1 .. Len(events)
                               /\ FirstStep(events[e].kind) = "find"
      /\ \A e \in SlotEnds : e \in SlotEnds' /\ e \in 1 .. Len(events)
                             /\ FirstStep(events[e].kind) = "seek"
  <2>1. Len(events) \in Nat
    BY DEF BillingInv, EventsOK
  <2> QED
    BY <1>1, <2>1, OwedEvents
<1>3. ASSUME NEW e \in 1 .. Len(events), NEW steps, Owed(e, steps),
             FirstStep(events[e].kind) \in steps,
             {"idle", "claim", "reply", "rollback"} \cap steps = {}
      PROVE  Owed(e, steps)'
  BY <1>3, ClaimingKeepsOwed, CrashKeepsOwed
<1>4. /\ GrantDue => GrantDue'
      /\ KeepLongDue => KeepLongDue'
  BY <1>2, <1>3 DEF GrantDue, KeepLongDue, Up
<1>5. /\ RevertDue => RevertDue'
      /\ KeepShortDue => KeepShortDue'
  BY <1>2, <1>3 DEF RevertDue, KeepShortDue, Down
<1> QED
  BY <1>1, <1>4, <1>5, SameSlots, NothingSettled

LEMMA OutsideKeepsOwing ==
  ASSUME BillingInv, OwedInv, OneAccount' => OneAccount,
         UNCHANGED <<workers, claims, dropped, rows, plan, retention, raced>>,
         events' = events \/ \E v : events' = Append(events, v)
  PROVE  OwedInv'
<1>1. /\ \A e \in 1 .. Len(events) : events'[e] = events[e]
      /\ Len(events') \in Nat /\ Len(events) <= Len(events')
  BY DEF BillingInv, EventsOK
<1>2. (\A e \in SlotGrants : e \in SlotGrants') /\ (\A e \in SlotEnds : e \in SlotEnds')
  BY <1>1, OwedEvents
<1>3. \A e, steps : Owed(e, steps) => Owed(e, steps)'
  BY DEF Owed
<1>4. /\ GrantDue => GrantDue'
      /\ KeepLongDue => KeepLongDue'
  BY <1>2, <1>3 DEF GrantDue, KeepLongDue
<1>5. /\ RevertDue => RevertDue'
      /\ KeepShortDue => KeepShortDue'
  BY <1>2, <1>3 DEF RevertDue, KeepShortDue
<1> QED
  BY <1>4, <1>5, SameSlots, NothingSettled

(* What the next step of a request leaves owed.                            *)
LEMMA DuesLast ==
  ASSUME BillingInv, NEW w \in Workers, UNCHANGED <<events, claims, dropped>>,
         \A v \in Workers \ {w} : workers'[v] = workers[v],
         workers'[w].event = workers[w].event,
         \A s \in Slots : rows[s] # NoRow => rows'[s] # NoRow
  PROVE  LET Keeps(E, steps) ==
               workers[w].event \in E /\ workers[w].at \in steps \cup {"rollback"}
                 => workers'[w].at \in steps \cup {"rollback"}
         IN  /\ Keeps(SlotGrants, Up) /\ GrantDue => GrantDue'
             /\ Keeps(SlotGrants, Up \cup {"retention"}) /\ KeepLongDue => KeepLongDue'
             /\ Keeps(SlotEnds, Down) /\ RevertDue => RevertDue'
             /\ Keeps(SlotEnds, Down \cup {"shorten"}) /\ KeepShortDue => KeepShortDue'
<1> DEFINE Keeps(E, steps) ==
             workers[w].event \in E /\ workers[w].at \in steps \cup {"rollback"}
               => workers'[w].at \in steps \cup {"rollback"}
<1>1. (\A e \in SlotGrants : e \in SlotGrants') /\ (\A e \in SlotEnds : e \in SlotEnds')
  <2>1. Len(events) \in Nat
    BY DEF BillingInv, EventsOK
  <2> QED
    BY <2>1, OwedEvents
<1>2. ASSUME NEW E, NEW steps, Keeps(E, steps), NEW e \in E, Owed(e, steps)
      PROVE  Owed(e, steps)'
  BY <1>2, OwedLasts
<1> HIDE DEF Keeps
<1>3. Keeps(SlotGrants, Up) /\ GrantDue => GrantDue'
  BY <1>1, <1>2 DEF GrantDue
<1>4. Keeps(SlotGrants, Up \cup {"retention"}) /\ KeepLongDue => KeepLongDue'
  BY <1>1, <1>2 DEF KeepLongDue
<1>5. Keeps(SlotEnds, Down) /\ RevertDue => RevertDue'
  BY <1>1, <1>2 DEF RevertDue
<1>6. Keeps(SlotEnds, Down \cup {"shorten"}) /\ KeepShortDue => KeepShortDue'
  BY <1>1, <1>2 DEF KeepShortDue
<1> QED
  BY <1>3, <1>4, <1>5, <1>6 DEF Keeps

(* A request at its upsert serves no end of a slot, and the other way.     *)
LEMMA AtEvent ==
  ASSUME BillingInv, NEW w \in Workers
  PROVE  /\ workers[w].at \in Upserting =>
              /\ workers[w].event \notin SlotEnds
              /\ workers[w].event \in 1 .. Len(events)
              /\ Slot(w) /\ Active(w) <=> workers[w].event \in SlotGrants
         /\ workers[w].at \in Deleting =>
              /\ workers[w].event \notin SlotGrants
              /\ workers[w].event \in 1 .. Len(events)
              /\ Slot(w) /\ rows[Sub(w)] # NoRow <=> workers[w].event \in SlotEnds
         /\ workers[w].at = "checkout" => workers[w].event \notin SlotGrants \cup SlotEnds
<1>1. workers[w].at # "idle" => workers[w].event \in 1 .. Len(events)
  BY TheEvent
<1>2. /\ workers[w].at \in Upserting => The(w).kind = "upsert"
      /\ workers[w].at \in Deleting => The(w).kind = "deleted"
      /\ workers[w].at = "checkout" => The(w).kind = "paid"
  BY DEF BillingInv, WorkersOK
<1> QED
  BY <1>1, <1>2 DEF The, Sub, Slot, Active, SlotGrants, SlotEnds, Upserting, Deleting

LEMMA UpsertKeepsOwing ==
  ASSUME BillingInv, AnswerInv, ApartInv, OwedInv, NEW w \in Workers,
         \/ Checkout(w) \/ CommitUnheard(w) \/ Granted(w) \/ Grant(w)
         \/ Find(w) \/ Write(w) \/ Upgrade(w) \/ KeepLong(w),
         OneAccount' => OneAccount
  PROVE  OwedInv'
<1>1. /\ UNCHANGED <<events, claims, dropped>>
      /\ \A v \in Workers \ {w} : workers'[v] = workers[v]
      /\ workers'[w].event = workers[w].event
  BY DEF Checkout, CommitUnheard, Granted, Grant, Find, Write, Upgrade, KeepLong, To, sold, ghosts,
         BillingInv, WorkersOK
<1>2. workers[w].at \in Upserting \cup {"checkout"} /\ workers[w].event \notin SlotEnds
  <2>1. workers[w].at \in Upserting \cup {"checkout"}
    BY DEF Checkout, CommitUnheard, Granted, Grant, Find, Write, Upgrade, KeepLong, At, Upserting
  <2> QED
    BY <2>1, AtEvent
<1>3. CASE Checkout(w) \/ CommitUnheard(w) \/ Granted(w) \/ Grant(w)
  <2>1. UNCHANGED <<rows, plan, retention, raced>>
    BY <1>3 DEF Checkout, CommitUnheard, Granted, Grant, customer, ghosts
  <2>2. workers[w].at \notin Up \cup {"retention", "rollback"}
    BY <1>3 DEF Checkout, CommitUnheard, Granted, Grant, At, Up
  <2> QED
    BY <1>1, <1>2, <2>1, <2>2, DuesLast, SameSlots, NothingSettled
<1>4. CASE Find(w)
  <2>1. UNCHANGED <<rows, plan, retention, raced>>
    BY <1>4 DEF Find, customer, ghosts
  <2>2. workers'[w].at \in {"write", "rollback"}
    BY <1>4 DEF Find, BillingInv, WorkersOK
  <2>3. workers'[w].at \in Up \cup {"rollback"}
    BY <2>2 DEF Up
  <2> QED
    BY <1>1, <1>2, <2>1, <2>3, DuesLast, SameSlots, NothingSettled
<1>5. CASE Write(w)
  <2>1. /\ workers[w].at = "write" /\ UNCHANGED <<plan, retention>>
        /\ raced => raced'
    <3>1. raced => raced'
      BY <1>5, Zenon DEF Write
    <3> QED
      BY <1>5, <3>1 DEF Write, At, customer
  <2>2. Shaped(The(w)) /\ workers[w].event \in 1 .. Len(events) /\ The(w).kind = "upsert"
    <3>1. workers[w].event \in 1 .. Len(events)
      BY <2>1, TheEvent
    <3>2. The(w).kind = "upsert"
      BY <2>1 DEF BillingInv, WorkersOK, Upserting
    <3>3. Shaped(The(w))
      BY <3>1 DEF BillingInv, EventsOK, The
    <3> QED
      BY <3>1, <3>2, <3>3
  <2>3. Written(w).status \in Living /\ Written(w) # NoRow /\ Written(w) = The(w).row
    BY <2>2 DEF Shaped, Written, NoRow
  <2>4. \/ UNCHANGED rows /\ workers'[w].at = "rollback"
        \/ rows' = [rows EXCEPT ![Sub(w)] = Written(w)] /\ workers'[w].at = AfterWrite(w)
    BY <1>5 DEF Write, To, BillingInv, WorkersOK
  <2>5. rows \in [Subs -> Row] /\ Slots \subseteq Subs
    BY DEF BillingInv, TablesOK, Subs
  <2>6. \A s \in Slots : rows'[s] = rows[s] \/ (s = Sub(w) /\ rows'[s] = The(w).row)
    BY <2>3, <2>4, <2>5
  <2>7. workers[w].event \in SlotGrants <=> Slot(w) /\ Active(w)
    BY <2>2 DEF SlotGrants, Slot, Active, Sub, The
  <2>8. workers[w].event \in SlotGrants => workers'[w].at \in {"plan", "rollback"}
    BY <2>4, <2>7 DEF AfterWrite
  <2>9. /\ GrantDue => GrantDue'
        /\ KeepLongDue => KeepLongDue'
        /\ RevertDue => RevertDue'
        /\ KeepShortDue => KeepShortDue'
    <3>1. \A s \in Slots : rows[s] # NoRow => rows'[s] # NoRow
      BY <2>3, <2>6
    <3> QED
      BY <1>1, <1>2, <2>8, <3>1, DuesLast DEF Up
  <2>10. Subscribed(Living) => Subscribed(Living)'
    BY <2>3, <2>6 DEF Subscribed
  <2>11. CASE Slot(w) /\ Active(w) /\ rows' # rows
    <3>1. workers'[w].at = "plan" /\ workers[w].event \in SlotGrants
      BY <2>4, <2>7, <2>11 DEF AfterWrite
    <3>2. (workers[w].event \in SlotGrants)' /\ Owed(workers[w].event, Up)'
      BY <1>1, <3>1 DEF SlotGrants, Owed, Up
    <3>3. GrantDue'
      BY <3>2 DEF GrantDue, Owed
    <3>4. Subscribed(Living)'
      BY <2>3, <2>4, <2>5, <2>11 DEF Subscribed, Slot
    <3> QED
      BY <2>1, <2>9, <3>3, <3>4 DEF OwedInv
  <2>12. CASE ~ (Slot(w) /\ Active(w)) \/ rows' = rows
    <3>1. Subscribed({"active"})' => Subscribed({"active"})
      BY <2>6, <2>12 DEF Subscribed, Slot, Active
    <3> QED
      BY <2>1, <2>9, <2>10, <3>1, NothingSettled
  <2> QED
    BY <2>11, <2>12
<1>6. CASE Upgrade(w) \/ KeepLong(w)
  <2>1. /\ UNCHANGED <<rows, raced>> /\ workers[w].at \in {"plan", "retention"}
        /\ Subscribed({"active"})' = Subscribed({"active"})
        /\ Subscribed(Living)' = Subscribed(Living)
    BY <1>6 DEF Upgrade, KeepLong, At, ghosts, Subscribed
  <2>2. RevertDue => RevertDue'
    BY <1>1, <1>2, <2>1, DuesLast
  <2> SUFFICES ASSUME ~ raced, OneAccount, plan' = "paid"
               PROVE  /\ Subscribed(Living)' \/ RevertDue'
                      /\ retention' = "free" => KeepLongDue'
    <3>1. plan' = "paid" \/ raced
      BY <1>6 DEF Upgrade, KeepLong, At, customer, ApartInv, Fit
    <3> QED
      BY <2>1, <3>1 DEF OwedInv
  <2>3. Fit(w) /\ Granting(w) /\ Sub(w) \in Slots
    BY <2>1, AtPlanFacts DEF ApartInv, AtThePlan
  <2>4. Active(w) /\ rows[Sub(w)].status \in Living
    BY <2>3 DEF Fit
  <2>5. Subscribed(Living)'
    BY <2>1, <2>3, <2>4 DEF Subscribed
  <2>6. ASSUME retention' = "free"
        PROVE  KeepLongDue'
    <3>1. workers'[w].at = "retention"
      BY <1>6, <2>6 DEF Upgrade, KeepLong, To, BillingInv, WorkersOK
    <3>2. workers[w].event \in SlotGrants
      BY <2>1, <2>3, <2>4, AtEvent DEF Upserting, Slot
    <3>3. (workers[w].event \in SlotGrants)' /\ Owed(workers[w].event, Up \cup {"retention"})'
      BY <1>1, <3>1, <3>2 DEF SlotGrants, Owed
    <3> QED
      BY <3>3 DEF KeepLongDue, Owed
  <2> QED
    BY <2>5, <2>6
<1> QED
  BY <1>3, <1>4, <1>5, <1>6

LEMMA DeletionKeepsOwing ==
  ASSUME BillingInv, AnswerInv, AccountsInv, ApartInv, OwedInv, NEW w \in Workers,
         Seek(w) \/ Cancel(w) \/ LookForOthers(w) \/ Revert(w) \/ KeepShort(w),
         OneAccount' => OneAccount
  PROVE  OwedInv'
<1>1. /\ UNCHANGED <<events, claims, dropped>>
      /\ \A v \in Workers \ {w} : workers'[v] = workers[v]
      /\ workers'[w].event = workers[w].event
  BY DEF Seek, Cancel, LookForOthers, Revert, KeepShort, To, sold, ghosts, BillingInv, WorkersOK
<1>2. /\ workers[w].at \in Deleting /\ workers[w].event \notin SlotGrants
      /\ workers[w].event \in 1 .. Len(events)
      /\ Slot(w) /\ rows[Sub(w)] # NoRow <=> workers[w].event \in SlotEnds
  <2>1. workers[w].at \in Deleting
    BY DEF Seek, Cancel, LookForOthers, Revert, KeepShort, At, Deleting
  <2> QED
    BY <2>1, AtEvent
<1>3. CASE Seek(w)
  <2>1. UNCHANGED <<rows, plan, retention, raced>>
    BY <1>3 DEF Seek, customer
  <2>2. workers[w].event \in SlotEnds => workers'[w].at = "cancel"
    BY <1>2, <1>3 DEF Seek, Missing, BillingInv, WorkersOK
  <2>3. workers[w].event \in SlotEnds => workers'[w].at \in Down
    BY <2>2 DEF Down
  <2> QED
    BY <1>1, <1>2, <2>1, <2>3, DuesLast, SameSlots, NothingSettled
<1>4. CASE Cancel(w)
  <2> DEFINE row == [workers[w].seen EXCEPT !.status = "canceled"]
  <2>1. /\ UNCHANGED <<plan, retention>> /\ rows' = [rows EXCEPT ![Sub(w)] = row]
        /\ workers'[w].at = IF Slot(w) THEN "others" ELSE "reply"
        /\ workers[w].at = "cancel"
    BY <1>4 DEF Cancel, At, To, customer, BillingInv, WorkersOK
  <2>2. raced => raced'
    BY <1>4, Zenon DEF Cancel
  <2>3. row.status = "canceled" /\ row # NoRow
    BY <2>1 DEF BillingInv, WorkersOK, Row, NoRow
  <2> HIDE DEF row
  <2>4. rows \in [Subs -> Row] /\ Slots \subseteq Subs
    BY DEF BillingInv, TablesOK, Subs
  <2>5. \A s \in Slots : rows'[s] = IF s = Sub(w) THEN row ELSE rows[s]
    BY <2>1, <2>4
  <2>6. workers[w].event \in SlotEnds => workers'[w].at \in Down
    BY <1>2, <2>1 DEF Down
  <2>7. /\ GrantDue => GrantDue'
        /\ KeepLongDue => KeepLongDue'
        /\ RevertDue => RevertDue'
        /\ KeepShortDue => KeepShortDue'
    BY <1>1, <1>2, <2>3, <2>5, <2>6, DuesLast
  <2>8. Subscribed({"active"})' => Subscribed({"active"})
    BY <2>3, <2>5 DEF Subscribed
  <2>9. CASE ~ Slot(w)
    <3>1. Subscribed(Living) => Subscribed(Living)'
      BY <2>5, <2>9 DEF Subscribed, Slot
    <3> QED
      BY <2>1, <2>2, <2>7, <2>8, <3>1, NothingSettled
  <2>10. CASE Slot(w)
    <3>1. The(w).kind = "deleted" /\ The(w) = events[workers[w].event]
      BY <1>2 DEF The, BillingInv, WorkersOK
    <3>2. (workers[w].event \in SlotEnds)'
      BY <1>1, <1>2, <2>3, <2>5, <2>10, <3>1 DEF SlotEnds, Slot, Sub
    <3>3. Owed(workers[w].event, Down)'
      BY <1>1, <2>1, <2>10 DEF Owed, Down
    <3>4. RevertDue'
      BY <3>2, <3>3 DEF RevertDue, Owed
    <3> QED
      BY <2>1, <2>2, <2>7, <2>8, <3>4 DEF OwedInv
  <2> QED
    BY <2>9, <2>10
<1>5. CASE LookForOthers(w)
  <2>1. /\ UNCHANGED <<rows, plan, retention, raced>> /\ workers[w].at = "others"
        /\ workers'[w].at = IF ~ Known(w) \/ Others(w) THEN "reply" ELSE "revert"
    BY <1>5 DEF LookForOthers, At, To, customer, ghosts, BillingInv, WorkersOK
  <2>2. GrantDue => GrantDue'
    BY <1>1, <1>2, <2>1, DuesLast
  <2>3. KeepLongDue => KeepLongDue'
    BY <1>1, <1>2, <2>1, DuesLast
  <2>4. CASE workers'[w].at = "revert"
    <3>1. workers'[w].at \in Down
      BY <2>4 DEF Down
    <3> QED
      BY <1>1, <1>2, <2>1, <3>1, DuesLast, SameSlots, NothingSettled
  <2>5. CASE workers'[w].at = "reply"
    <3> SUFFICES ASSUME ~ raced, OneAccount
                 PROVE  /\ plan = "paid" => Subscribed(Living)'
                        /\ Subscribed({"active"})
      BY <2>1, <2>2, <2>3, SameSlots DEF OwedInv
    <3>1. Sub(w) \in Slots /\ workers[w].event \in 1 .. Len(events)
      BY <2>1, AtPlanFacts DEF AtThePlan
    <3>2. Known(w)
      BY <3>1 DEF Known, The, Sub, AccountsInv, OneAccount
    <3>3. Others(w)
      BY <2>1, <2>5, <3>2
    <3>4. Subscribed({"active"}) /\ Subscribed(Living)
      BY <3>3 DEF Others, Subscribed, Living
    <3> QED
      BY <2>1, <3>4, SameSlots
  <2> QED
    BY <2>1, <2>4, <2>5
<1>6. CASE Revert(w)
  <2>1. /\ UNCHANGED <<rows, retention, raced>> /\ plan' = "sandbox"
        /\ workers[w].at = "revert" /\ workers'[w].at = "shorten"
    BY <1>6 DEF Revert, At, To, ghosts, BillingInv, WorkersOK
  <2> SUFFICES ASSUME ~ raced
               PROVE  ~ Subscribed({"active"})' /\ KeepShortDue'
    BY <2>1 DEF OwedInv
  <2>2. Fit(w) /\ Reverting(w) /\ Slot(w)
    BY <2>1, AtPlanFacts DEF ApartInv, AtThePlan, Slot
  <2>3. ~ Subscribed({"active"})'
    BY <2>1, <2>2, SameSlots DEF Fit
  <2>4. workers[w].event \in SlotEnds
    BY <1>2, <2>2 DEF Fit
  <2>5. (workers[w].event \in SlotEnds)' /\ Owed(workers[w].event, Down \cup {"shorten"})'
    BY <1>1, <2>1, <2>4 DEF SlotEnds, Owed
  <2> QED
    BY <2>3, <2>5 DEF KeepShortDue, Owed
<1>7. CASE KeepShort(w)
  <2>1. /\ UNCHANGED <<rows, plan, raced>> /\ retention' = "free" /\ workers[w].at = "shorten"
    BY <1>7 DEF KeepShort, At, ghosts
  <2>2. GrantDue => GrantDue'
    BY <1>1, <1>2, <2>1, DuesLast
  <2>3. ~ raced => plan = "sandbox"
    BY <2>1 DEF ApartInv, Fit
  <2> QED
    BY <2>1, <2>2, <2>3, SameSlots DEF OwedInv
<1> QED
  BY <1>3, <1>4, <1>5, <1>6, <1>7

LEMMA NextKeepsOwing ==
  ASSUME BillingInv, AnswerInv, AccountsInv, ApartInv, OwedInv, [BillingNext]_billingVars
  PROVE  OwedInv'
<1>1. OneAccount' => OneAccount
  BY NextKeepsAccounts
<1>2. CASE UNCHANGED billingVars
  BY <1>1, <1>2, OutsideKeepsOwing DEF billingVars, sold, customer, ghosts
<1>3. ASSUME NEW g \in Goods,
             \/ Begin(g) \/ Make(g) \/ Save(g) \/ SaveFails(g) \/ Pay(g) \/ Subscribe(g)
             \/ g \in Subs /\ (End(g) \/ \E status \in {"active", "past_due"} : Renew(g, status))
      PROVE  OwedInv'
  <2>1. UNCHANGED <<workers, claims, dropped, rows, plan, retention, raced>>
    BY <1>3 DEF Begin, Make, Save, SaveFails, Pay, Subscribe, End, Renew, Report, customer, ghosts
  <2>2. events' = events \/ \E v : events' = Append(events, v)
    BY <1>3 DEF Begin, Make, Save, SaveFails, Pay, Subscribe, End, Renew, Report, sold
  <2> QED
    BY <1>1, <2>1, <2>2, OutsideKeepsOwing
<1>4. Subs \subseteq Goods /\ \A g \in Goods : Subscribe(g) => g \in Subs
  BY DEF Goods, Subscribe
<1> QED
  BY <1>1, <1>2, <1>3, <1>4, ClaimingKeepsOwing, UpsertKeepsOwing, DeletionKeepsOwing
  DEF BillingNext, Serve

(* However the deliveries of a customer's subscriptions are ordered,       *)
(* repeated, failed and cut off: once all events are answered and none was *)
(* given up, plan and retention are paid while a slot is active and not    *)
(* without a living one, unless a plan was granted in the middle of a      *)
(* revert or the customer has a second account at Stripe.                  *)
THEOREM PlanIsOwned == BillingSpec => []PlanFollowsSlots
<1> DEFINE Inv == BillingInv /\ AnswerInv /\ AccountsInv /\ ApartInv /\ OwedInv
<1>1. BillingInit => AccountsInv /\ ApartInv /\ OwedInv
  BY AccountsInitially, ApartInitially, OwedInitially
<1>2. BillingInv /\ AnswerInv /\ AccountsInv /\ ApartInv /\ OwedInv /\ [BillingNext]_billingVars
        => AccountsInv' /\ ApartInv' /\ OwedInv'
  BY NextKeepsAccounts, NextKeepsApart, NextKeepsOwing
<1> QED
  BY <1>1, <1>2, AnswersAlways, OwedSuffices, PTL DEF BillingSpec


=============================================================================
