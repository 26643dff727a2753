-------------------------------- MODULE Billing --------------------------------
(***************************************************************************)
(* How a payment becomes a credit or a plan: the checkouts of one customer *)
(* (billing_service.go), Stripe, which sells and sends webhook events at   *)
(* least once and in any order, and the handlers that claim an event and   *)
(* apply it, one database statement a step.                                *)
(***************************************************************************)
EXTENDS Naturals, Sequences, FiniteSets

CONSTANTS Slots,      \* subscriptions to pixel slots
          Monthlies,  \* subscriptions to monthly replays
          Old,        \* the slots the customer may have subscribed to before
          Purchases,  \* single replays, paid once
          Workers,    \* webhook requests served at a time
          MaxPeriod, MaxEvents, MaxTroubles  \* bounds

Subs   == Slots \cup Monthlies
Goods  == Subs \cup Purchases
Grants == Purchases \cup (1 .. MaxPeriod)  \* what a credit is unique for

ASSUME BillingAssumption ==
  /\ Old \subseteq Slots
  /\ Slots \cap Monthlies = {} /\ Subs \cap Purchases = {} /\ Purchases \cap (1 .. MaxPeriod) = {}
  /\ MaxPeriod \in Nat \ {0} /\ MaxEvents \in Nat /\ MaxTroubles \in Nat

VARIABLES stripeId,    \* customers.stripe_customer_id, 0 for NULL
          made,        \* customers made at Stripe
          buys,        \* the checkout of each good, and the Stripe customer it is for
          stripe,      \* the subscriptions as Stripe has them
          events,      \* what Stripe has to report
          acked,       \* the events answered with 200
          claims,      \* stripe_webhook_events
          workers, rows, plan, retention, credits,
          dropped,     \* events acknowledged or claimed for an attempt that failed
          latest,      \* the last event applied to each subscription
          reordered,   \* subscriptions with an older event applied after a newer
          raced,       \* a plan was granted while it was being reverted
          troubles     \* failures and crashes, for the bound

shop     == <<stripeId, made, buys>>
sold     == <<stripe, events>>
customer == <<plan, retention>>
ghosts   == <<dropped, latest, reordered, raced>>
billingVars ==
  <<shop, sold, acked, claims, workers, rows, customer, credits, ghosts, troubles>>

Row    == [status : {"none", "active", "past_due", "canceled"}, period : 0 .. MaxPeriod]
NoRow  == [status |-> "none", period |-> 0]
Event  == [kind : {"paid", "upsert", "deleted"}, good : Goods, row : Row, holder : Nat]
Steps  == {"claim", "checkout", "find", "write", "plan", "retention", "grant", "insert",
           "seek", "cancel", "others", "revert", "shorten", "rollback", "reply"}
Idle   == [at |-> "idle", event |-> 0, seen |-> NoRow]
\* Every failure and every crash counts.
Trouble == troubles < MaxTroubles /\ troubles' = troubles + 1

NoBuy  == [at |-> "no", holder |-> 0]

-----------------------------------------------------------------------------
\* Checkouts.  EnsureStripeCustomer reads the customer, makes one at Stripe if
\* it has none, and saves the id.

Begin(g) ==
  /\ buys[g].at = "no"
  /\ Len(events) + Cardinality({o \in Goods : buys[o].at \notin {"no", "paid"}}) < MaxEvents
  /\ buys' = [buys EXCEPT ![g] =
                [at |-> IF stripeId = 0 THEN "make" ELSE "open", holder |-> stripeId]]
  /\ UNCHANGED <<stripeId, made, sold, acked, claims, workers, rows, customer, credits, ghosts, troubles>>

Make(g) ==
  /\ buys[g].at = "make"
  /\ made' = made + 1
  /\ buys' = [buys EXCEPT ![g] = [at |-> "save", holder |-> made + 1]]
  /\ UNCHANGED <<stripeId, sold, acked, claims, workers, rows, customer, credits, ghosts, troubles>>

Save(g) ==
  /\ buys[g].at = "save"
  /\ stripeId' = buys[g].holder
  /\ buys' = [buys EXCEPT ![g].at = "open"]
  /\ UNCHANGED <<made, sold, acked, claims, workers, rows, customer, credits, ghosts, troubles>>

\* The customer made at Stripe is deleted again, and the request fails.
SaveFails(g) ==
  /\ buys[g].at = "save" /\ Trouble
  /\ buys' = [buys EXCEPT ![g] = NoBuy]
  /\ UNCHANGED <<stripeId, made, sold, acked, claims, workers, rows, customer, credits, ghosts>>

-----------------------------------------------------------------------------
\* Stripe.

Report(kind, g, row) ==
  /\ Len(events) < MaxEvents
  /\ events' = Append(events, [kind |-> kind, good |-> g, row |-> row, holder |-> buys[g].holder])
  /\ UNCHANGED <<stripeId, made, acked, claims, workers, rows, customer, credits, ghosts, troubles>>

Pay(p) ==
  /\ p \in Purchases /\ buys[p].at = "open"
  /\ buys' = [buys EXCEPT ![p].at = "paid"]
  /\ Report("paid", p, NoRow)
  /\ UNCHANGED stripe

Subscribe(s) ==
  /\ s \in Subs /\ buys[s].at = "open"
  /\ buys' = [buys EXCEPT ![s].at = "paid"]
  /\ stripe' = [stripe EXCEPT ![s] = [status |-> "active", period |-> 1]]
  /\ Report("upsert", s, stripe'[s])

\* A renewal that is paid or not, or a change of the subscription.
Renew(s, status) ==
  /\ stripe[s].status \in {"active", "past_due"} /\ stripe[s].period < MaxPeriod
  /\ stripe' = [stripe EXCEPT ![s] = [status |-> status, period |-> @.period + 1]]
  /\ Report("upsert", s, stripe'[s])
  /\ UNCHANGED buys

End(s) ==
  /\ stripe[s].status \in {"active", "past_due"}
  /\ stripe' = [stripe EXCEPT ![s].status = "canceled"]
  /\ Report("deleted", s, stripe'[s])
  /\ UNCHANGED buys

\* An event goes out until it is acknowledged; the answer may be late, and then
\* it goes out while an earlier delivery is being served.
Deliver(w, e) ==
  /\ workers[w] = Idle /\ e \in 1 .. Len(events) /\ e \notin acked
  /\ workers' = [workers EXCEPT ![w] = [at |-> "claim", event |-> e, seen |-> NoRow]]
  /\ UNCHANGED <<shop, sold, acked, claims, rows, customer, credits, ghosts, troubles>>

-----------------------------------------------------------------------------
\* The claim around the processing.

At(w, step) == workers[w].at = step
The(w) == events[workers[w].event]
Sub(w) == The(w).good
Slot(w) == Sub(w) \in Slots
To(w, step) == workers' = [workers EXCEPT ![w].at = step]

FirstStep(kind) ==
  CASE kind = "paid" -> "checkout" [] kind = "upsert" -> "find" [] kind = "deleted" -> "seek"

Claim(w) ==
  /\ At(w, "claim")
  /\ IF workers[w].event \in claims
       THEN To(w, "reply") /\ UNCHANGED claims
       ELSE To(w, FirstStep(The(w).kind)) /\ claims' = claims \cup {workers[w].event}
  /\ UNCHANGED <<shop, sold, acked, rows, customer, credits, ghosts, troubles>>

\* A statement fails: before the claim the request fails, after it the claim is
\* rolled back.
StepFails(w) ==
  /\ workers[w].at \in Steps \ {"reply", "rollback"} /\ Trouble
  /\ workers' = [workers EXCEPT ![w] = IF At(w, "claim") THEN Idle ELSE [@ EXCEPT !.at = "rollback"]]
  /\ UNCHANGED <<shop, sold, acked, claims, rows, customer, credits, ghosts>>

ReleasedSlip(w) == claims
Released(w) == claims \ {workers[w].event}

\* Stripe is answered with 500.  A delivery answered meanwhile with 200 has
\* stopped it from trying again.
Rollback(w) ==
  /\ At(w, "rollback")
  /\ claims' = Released(w)
  /\ workers' = [workers EXCEPT ![w] = Idle]
  /\ dropped' = IF workers[w].event \in acked THEN dropped \cup {workers[w].event} ELSE dropped
  /\ UNCHANGED <<shop, sold, acked, rows, customer, credits, latest, reordered, raced, troubles>>

RollbackFails(w) ==
  /\ At(w, "rollback") /\ Trouble
  /\ workers' = [workers EXCEPT ![w] = Idle]
  /\ dropped' = dropped \cup {workers[w].event}
  /\ UNCHANGED <<shop, sold, acked, claims, rows, customer, credits, latest, reordered, raced>>

\* A duplicate is acknowledged even if the claim it met is no more.
Reply(w) ==
  /\ At(w, "reply")
  /\ acked' = acked \cup {workers[w].event}
  /\ workers' = [workers EXCEPT ![w] = Idle]
  /\ dropped' = IF workers[w].event \in claims THEN dropped ELSE dropped \cup {workers[w].event}
  /\ UNCHANGED <<shop, sold, claims, rows, customer, credits, latest, reordered, raced, troubles>>

ReplyLost(w) ==
  /\ At(w, "reply") /\ Trouble
  /\ workers' = [workers EXCEPT ![w] = Idle]
  /\ UNCHANGED <<shop, sold, acked, claims, rows, customer, credits, ghosts>>

\* The server dies; the claims stay.
Crash ==
  /\ Trouble /\ \E w \in Workers : workers[w] # Idle
  /\ dropped' = dropped \cup {workers[w].event : w \in {v \in Workers :
                                 workers[v].at \notin {"idle", "claim", "reply"}}}
  /\ workers' = [w \in Workers |-> Idle]
  /\ UNCHANGED <<shop, sold, acked, claims, rows, customer, credits, latest, reordered, raced>>

-----------------------------------------------------------------------------
\* A single replay: the purchase and its credit in one transaction.

FitsSlip(g) == TRUE
\* The unique indexes on the purchase and on the end of a monthly period.
Fits(g) == credits[g] = 0

Checkout(w) ==
  /\ At(w, "checkout")
  /\ IF Fits(Sub(w))
       THEN credits' = [credits EXCEPT ![Sub(w)] = @ + 1] /\ To(w, "reply")
       ELSE To(w, "rollback") /\ UNCHANGED credits
  /\ UNCHANGED <<shop, sold, acked, claims, rows, customer, ghosts, troubles>>

\* The commit takes effect and its answer is lost.
CommitUnheard(w) ==
  /\ At(w, "checkout") /\ Fits(Sub(w)) /\ Trouble
  /\ credits' = [credits EXCEPT ![Sub(w)] = @ + 1]
  /\ To(w, "rollback")
  /\ UNCHANGED <<shop, sold, acked, claims, rows, customer, ghosts>>

-----------------------------------------------------------------------------
\* A subscription was created or updated.

Known(w) == The(w).holder = stripeId
Active(w) == The(w).row.status = "active"

Applied(w) ==
  LET s == Sub(w)  e == workers[w].event IN
  /\ latest' = [latest EXCEPT ![s] = IF e > @ THEN e ELSE @]
  /\ reordered' = [reordered EXCEPT ![s] = @ \/ e < latest[s]]

Reverting(v) == workers[v].at \in {"others", "revert", "shorten"} /\ Slot(v)
Granting(v)  == workers[v].at \in {"plan", "retention"} /\ Slot(v)

Find(w) ==
  /\ At(w, "find")
  /\ workers' = [workers EXCEPT ![w].at = IF Known(w) THEN "write" ELSE "rollback",
                                ![w].seen = rows[Sub(w)]]
  /\ UNCHANGED <<shop, sold, acked, claims, rows, customer, credits, ghosts, troubles>>

AfterWrite(w) ==
  IF ~Active(w) THEN "reply" ELSE IF Slot(w) THEN "plan" ELSE "grant"

WrittenSlip(w) ==
  IF workers[w].seen = NoRow THEN The(w).row
  ELSE [The(w).row EXCEPT !.status = workers[w].seen.status]
Written(w) == The(w).row

\* Update of the row that was found, or an insert, unique for the subscription.
Write(w) ==
  /\ At(w, "write")
  /\ IF workers[w].seen # NoRow \/ rows[Sub(w)] = NoRow
       THEN /\ rows' = [rows EXCEPT ![Sub(w)] = Written(w)]
            /\ To(w, AfterWrite(w))
            /\ Applied(w)
            /\ raced' = (raced \/ (Slot(w) /\ Active(w) /\ \E v \in Workers : Reverting(v)))
       ELSE To(w, "rollback") /\ UNCHANGED <<rows, latest, reordered, raced>>
  /\ UNCHANGED <<shop, sold, acked, claims, customer, credits, dropped, troubles>>

Upgrade(w) ==
  /\ At(w, "plan")
  /\ plan' = "paid"
  /\ To(w, "retention")
  /\ UNCHANGED <<shop, sold, acked, claims, rows, retention, credits, ghosts, troubles>>

KeepLong(w) ==
  /\ At(w, "retention")
  /\ retention' = "paid"
  /\ To(w, "reply")
  /\ UNCHANGED <<shop, sold, acked, claims, rows, plan, credits, ghosts, troubles>>

\* A monthly credit is granted once for a period, whoever else grants it.
Granted(w) ==
  /\ At(w, "grant")
  /\ To(w, IF credits[The(w).row.period] > 0 THEN "reply" ELSE "insert")
  /\ UNCHANGED <<shop, sold, acked, claims, rows, customer, credits, ghosts, troubles>>

Grant(w) ==
  /\ At(w, "insert")
  /\ credits' = IF Fits(The(w).row.period)
                  THEN [credits EXCEPT ![The(w).row.period] = @ + 1] ELSE credits
  /\ To(w, "reply")
  /\ UNCHANGED <<shop, sold, acked, claims, rows, customer, ghosts, troubles>>

-----------------------------------------------------------------------------
\* A subscription has ended.

MissingSlip(w) == FALSE
Missing(w) == rows[Sub(w)] = NoRow

\* One that is not in the table is passed over.
Seek(w) ==
  /\ At(w, "seek")
  /\ workers' = [workers EXCEPT ![w].at = IF Missing(w) THEN "reply" ELSE "cancel",
                                ![w].seen = rows[Sub(w)]]
  /\ IF Missing(w) THEN Applied(w) ELSE UNCHANGED <<latest, reordered>>
  /\ UNCHANGED <<shop, sold, acked, claims, rows, customer, credits, dropped, raced, troubles>>

Cancel(w) ==
  /\ At(w, "cancel")
  /\ rows' = [rows EXCEPT ![Sub(w)] = [workers[w].seen EXCEPT !.status = "canceled"]]
  /\ To(w, IF Slot(w) THEN "others" ELSE "reply")
  /\ Applied(w)
  /\ raced' = (raced \/ (Slot(w) /\ \E v \in Workers : Granting(v)))
  /\ UNCHANGED <<shop, sold, acked, claims, customer, credits, dropped, troubles>>

OthersSlip(w) == FALSE
Others(w) == \E s \in Slots \ {Sub(w)} : rows[s].status = "active"

LookForOthers(w) ==
  /\ At(w, "others")
  /\ To(w, IF ~Known(w) \/ Others(w) THEN "reply" ELSE "revert")
  /\ UNCHANGED <<shop, sold, acked, claims, rows, customer, credits, ghosts, troubles>>

Revert(w) ==
  /\ At(w, "revert")
  /\ plan' = "sandbox"
  /\ To(w, "shorten")
  /\ UNCHANGED <<shop, sold, acked, claims, rows, retention, credits, ghosts, troubles>>

KeepShort(w) ==
  /\ At(w, "shorten")
  /\ retention' = "free"
  /\ To(w, "reply")
  /\ UNCHANGED <<shop, sold, acked, claims, rows, plan, credits, ghosts, troubles>>

-----------------------------------------------------------------------------
\* A new customer, or one who has subscribed before.
BillingInit ==
  \E old \in {{}, Old} :
  LET n == IF old = {} THEN 0 ELSE 1
      subscribed == [s \in Subs |-> IF s \in old THEN [status |-> "active", period |-> 1] ELSE NoRow]
  IN
  /\ stripeId = n /\ made = n
  /\ buys = [g \in Goods |-> IF g \in old THEN [at |-> "paid", holder |-> 1] ELSE NoBuy]
  /\ stripe = subscribed /\ rows = subscribed /\ events = <<>>
  /\ acked = {} /\ claims = {} /\ workers = [w \in Workers |-> Idle]
  /\ plan = (IF old = {} THEN "sandbox" ELSE "paid")
  /\ retention = (IF old = {} THEN "free" ELSE "paid")
  /\ credits = [g \in Grants |-> 0]
  /\ dropped = {} /\ latest = [s \in Subs |-> 0] /\ reordered = [s \in Subs |-> FALSE]
  /\ raced = FALSE
  /\ troubles = 0

\* The steps of a webhook request.
Serve(w) ==
  \/ Claim(w) \/ Rollback(w) \/ Reply(w) \/ Checkout(w)
  \/ Find(w) \/ Write(w) \/ Upgrade(w) \/ KeepLong(w) \/ Granted(w) \/ Grant(w)
  \/ Seek(w) \/ Cancel(w) \/ LookForOthers(w) \/ Revert(w) \/ KeepShort(w)

BillingNext ==
  \/ \E g \in Goods : Begin(g) \/ Make(g) \/ Save(g) \/ SaveFails(g) \/ Pay(g) \/ Subscribe(g)
  \/ \E s \in Subs : End(s) \/ \E status \in {"active", "past_due"} : Renew(s, status)
  \/ \E w \in Workers :
       Serve(w) \/ StepFails(w) \/ RollbackFails(w) \/ ReplyLost(w) \/ CommitUnheard(w)
  \/ \E w \in Workers, e \in 1 .. Len(events) : Deliver(w, e)
  \/ Crash

BillingSpec == BillingInit /\ [][BillingNext]_billingVars

-----------------------------------------------------------------------------
\* Properties.

BillingTypeOK ==
  /\ stripeId \in 0 .. made
  /\ buys \in [Goods -> [at : {"no", "make", "save", "open", "paid"}, holder : 0 .. made]]
  /\ stripe \in [Subs -> Row] /\ rows \in [Subs -> Row]
  /\ \A s \in Subs : rows[s].period = 0 => rows[s] = NoRow
  /\ events \in Seq(Event) /\ Len(events) <= MaxEvents
  /\ acked \subseteq claims \cup dropped /\ claims \subseteq 1 .. Len(events)
  /\ dropped \subseteq 1 .. Len(events)
  /\ \A w \in Workers : /\ workers[w].at \in Steps \cup {"idle"} /\ workers[w].seen \in Row
                        /\ workers[w].event \in 0 .. Len(events)
                        /\ workers[w].event = 0 <=> workers[w] = Idle
  /\ plan \in {"sandbox", "paid"} /\ retention \in {"free", "paid"}

\* A purchase, and a monthly period, is credited at most once, however often
\* and by however many requests its events are processed.
GrantedOnce == \A g \in Grants : credits[g] <= 1

\* All events are answered and none of them was given up half way.
Settled ==
  /\ \A w \in Workers : workers[w] = Idle
  /\ acked = 1 .. Len(events) /\ dropped = {}

OneAccount == \A s \in Slots : buys[s].at = "paid" => buys[s].holder = stripeId

\* Then the plan and the retention follow the slots in the table: paid while
\* one is active, and not without one that lives; a plan granted while another
\* request reverted it, and a second customer made at Stripe, apart.
PlanFollowsSlots ==
  (Settled /\ ~raced /\ OneAccount) =>
    /\ (\E s \in Slots : rows[s].status = "active") => plan = "paid"
    /\ plan = "paid" =>
         \E s \in Slots : rows[s].status \in {"active", "past_due"}
    /\ (plan = "paid") = (retention = "paid")

\* And the table follows Stripe, for a subscription whose events were applied
\* in the order they were sent.
RowsFollowStripe ==
  Settled => \A s \in Subs : ~reordered[s] =>
    /\ rows[s].status = stripe[s].status
    /\ rows[s].status = "active" => rows[s].period = stripe[s].period

\* What was acknowledged has taken effect, unless an attempt that had claimed
\* the event failed and left the claim or met a duplicate: the purchase is
\* credited, the subscription is as the event or a later one says.
AnsweredIsApplied ==
  \A e \in acked \ dropped : (\A w \in Workers : workers[w].event # e) =>
    LET g == events[e].good IN
    IF g \in Purchases THEN credits[g] = 1
    ELSE /\ latest[g] >= e
         /\ g \in Monthlies /\ events[e].row.status = "active" => credits[events[e].row.period] = 1
================================================================================
