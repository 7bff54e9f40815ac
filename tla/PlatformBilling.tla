---------------------------- MODULE PlatformBilling ----------------------------
(* A tenant's platform subscription: the billing API, the Stripe webhook and  *)
(* the reconciliation sweep (routes/platform_billing.go, platform_webhook.go, *)
(* plan_change_intent.go), interleaved over the tenant row, the plan-change   *)
(* intents and the provider events, against Stripe's own subscription.        *)
(*                                                                            *)
(* Tiers are numbered by price.  A request inserts at most one intent, which  *)
(* bears its name.  One action is what an actor does up to and including one  *)
(* write to Mongo or one call of Stripe; a request's reads of the tenant and  *)
(* of Stripe, back to back, are one action.  A fault is a crash, a failed     *)
(* write, a failed Stripe call or a lost answer; MaxFaults bounds them all.   *)
EXTENDS Naturals, Sequences, FiniteSets

CONSTANTS
    Requests,    \* calls of the billing API
    Slots,       \* concurrent webhook deliveries
    Sweepers,    \* concurrent runners of the sweep
    MaxTier,     \* tiers are 1 .. MaxTier, 1 is the default
    MaxEvents,   \* bound on the events Stripe emits
    MaxPeriods,  \* bound on the billing periods that end
    MaxFaults,   \* bound on the faults
    Operations,  \* what the requests of this instance do
    UsesPortal,  \* TRUE: the user also cancels in Stripe's own portal
    Subscribed,  \* TRUE: the tenant is at tier 2, subscribed, to begin with
    Serial,      \* TRUE: an actor begins when the others, and Stripe's events, are done
    InOrder,     \* TRUE: Stripe is through with an event before it sends a later one
    Lossy,       \* TRUE: Stripe may give up on an event
    Outage,      \* TRUE: Stripe may be out of reach for a day
    Doubt        \* TRUE: a Stripe call that reports an error may have taken effect

ASSUME BillingConstants ==
    /\ Requests # {}
    /\ MaxTier \in Nat \ {0}
    /\ MaxEvents \in Nat /\ MaxPeriods \in Nat /\ MaxFaults \in Nat
    /\ Operations \subseteq {"upgrade", "downgrade", "cancel", "reactivate", "withdraw"}
    /\ UsesPortal \in BOOLEAN /\ Subscribed \in BOOLEAN /\ Serial \in BOOLEAN /\ InOrder \in BOOLEAN
    /\ Lossy \in BOOLEAN /\ Outage \in BOOLEAN /\ Doubt \in BOOLEAN
    /\ Subscribed => MaxTier >= 2

Tiers == 1 .. MaxTier
Open == {"pending", "scheduled"}
Settled == {"confirmed", "failed", "canceled"}

VARIABLES
    stripe,   \* Stripe's subscription
    paid,     \* every tier it has been at, and the default
    period,   \* billing periods that ended
    events,   \* the events Stripe emitted, each with a snapshot
    acked,    \* the events Stripe is through with
    row,      \* provider_events, by event
    tenant,   \* the tenant's billing fields
    intent,   \* plan_change_intents, by request
    req,      \* where each request is
    slot,     \* where each delivery is
    sweep,    \* where each sweep is
    faults

vars == <<stripe, paid, period, events, acked, row, tenant, intent, req, slot, sweep, faults>>
stripeVars == <<stripe, paid, period, events>>
actors == <<req, slot, sweep>>

Statuses == {"incomplete", "trialing", "active", "past_due", "unpaid", "canceled"}
Subscription == [status : Statuses \cup {"none"}, tier : Tiers, cancel : BOOLEAN]
Event == [kind : {"checkout", "updated", "deleted", "payment_failed"},
          status : Statuses, tier : Tiers, cancel : BOOLEAN]
Tenant == [sub : BOOLEAN, tier : Tiers, change : {"", "plan", "cancel", "reactivate"},
           status : {"trial", "active", "past_due", "canceled"}, pastDueAt : BOOLEAN]
Intent == [kind : {"", "plan", "cancel", "reactivate"}, to : Tiers, effective : Nat,
           status : {"none"} \cup Open \cup Settled]
Request == [pc : {"new", "project", "claim", "record", "stripe", "fail", "restore", "save",
                  "resolve", "settle", "clear", "done"},
            op : {"none"} \cup Operations, to : Tiers, effective : Nat]
Delivery == [pc : {"idle", "read", "settle", "stamp", "apply", "list", "confirm", "mark", "fail"},
             event : 0 .. MaxEvents, change : {"keep", "clear", "cancel"},
             batch : SUBSET Requests]
Round == [pc : {"idle", "next", "price", "save", "resolve", "clear"},
          phase : {"stale", "due", "cancel"}, batch : SUBSET Requests,
          at : Requests, tier : Tiers, outcome : Settled]

NoDelivery == [pc |-> "idle", event |-> 0, change |-> "keep", batch |-> {}]
NoRound == [pc |-> "idle", phase |-> "stale", batch |-> {}, at |-> CHOOSE r \in Requests : TRUE,
            tier |-> 1, outcome |-> "confirmed"]

\* Every variable keeps its shape, and no bound is passed.
TypeOK ==
    /\ stripe \in Subscription
    /\ paid \subseteq Tiers
    /\ period \in 0 .. MaxPeriods
    /\ events \in Seq(Event) /\ Len(events) <= MaxEvents
    /\ acked \subseteq 1 .. Len(events)
    /\ row \in [1 .. MaxEvents -> {"none", "received", "failed", "processed"}]
    /\ tenant \in Tenant
    /\ intent \in [Requests -> Intent]
    /\ req \in [Requests -> Request]
    /\ slot \in [Slots -> Delivery]
    /\ sweep \in [Sweepers -> Round]
    /\ faults \in 0 .. MaxFaults

Init ==
    /\ stripe = IF Subscribed THEN [status |-> "active", tier |-> 2, cancel |-> FALSE]
                              ELSE [status |-> "none", tier |-> 1, cancel |-> FALSE]
    /\ paid = {1, stripe.tier}
    /\ period = 0
    /\ events = <<>>
    /\ acked = {}
    /\ row = [e \in 1 .. MaxEvents |-> "none"]
    /\ tenant = [sub |-> Subscribed, tier |-> stripe.tier, change |-> "",
                 status |-> IF Subscribed THEN "active" ELSE "trial", pastDueAt |-> FALSE]
    /\ intent = [r \in Requests |-> [kind |-> "", to |-> 1, effective |-> 0, status |-> "none"]]
    /\ req = [r \in Requests |-> [pc |-> "new", op |-> "none", to |-> 1, effective |-> 0]]
    /\ slot = [w \in Slots |-> NoDelivery]
    /\ sweep = [s \in Sweepers |-> NoRound]
    /\ faults = 0

InFlight(r) == req[r].pc \notin {"new", "done"}
Calm ==
    /\ \A r \in Requests : ~InFlight(r)
    /\ \A w \in Slots : slot[w].pc = "idle"
    /\ \A s \in Sweepers : sweep[s].pc = "idle"
AllDelivered == acked = 1 .. Len(events)
MayBegin == Serial => Calm /\ AllDelivered

NoFault == UNCHANGED faults
Fault == faults < MaxFaults /\ faults' = faults + 1

--------------------------------------------------------------------------------
(* Stripe *)

\* The subscription becomes sub, and Stripe emits events of these kinds about it.
Becomes(sub, kinds) ==
    /\ Len(events) + Len(kinds) <= MaxEvents
    /\ stripe' = sub
    /\ paid' = paid \cup {sub.tier}
    /\ events' = events \o [i \in 1 .. Len(kinds) |->
                              [kind |-> kinds[i], status |-> sub.status, tier |-> sub.tier,
                               cancel |-> sub.cancel]]

\* Stripe's own moves leave room for the events of the calls to come.
Moves(sub, kinds) ==
    /\ MayBegin
    /\ Len(events) + Len(kinds) + 2 * Cardinality(Requests) <= MaxEvents
    /\ Becomes(sub, kinds)

Live == stripe.status \notin {"none", "canceled"}

\* A call that asks Stripe for sub: whether it took effect, and whether it
\* answered without an error.
Call(sub, ok) ==
    LET takesEffect == /\ IF sub = stripe THEN UNCHANGED <<stripe, paid, events>>
                                        ELSE Becomes(sub, <<"updated">>)
                       /\ UNCHANGED period
    IN \/ ok /\ Live /\ takesEffect /\ NoFault
       \/ ~ok /\ Live /\ UNCHANGED stripeVars /\ Fault
       \/ ~ok /\ ~Live /\ UNCHANGED stripeVars /\ NoFault
       \/ ~ok /\ Live /\ Doubt /\ takesEffect /\ Fault

\* The user completes the hosted checkout of some tier.
Checkout ==
    /\ stripe.status = "none"
    /\ \E t \in Tiers, st \in {"incomplete", "trialing", "active"} :
         Moves([status |-> st, tier |-> t, cancel |-> FALSE], <<"updated", "checkout">>)
    /\ UNCHANGED <<period, acked, row, tenant, intent, actors, faults>>

Payment ==
    /\ \/ /\ stripe.status \in {"incomplete", "trialing", "past_due", "unpaid"}
          /\ Moves([stripe EXCEPT !.status = "active"], <<"updated">>)
       \/ /\ stripe.status \in {"trialing", "active"}
          /\ Moves([stripe EXCEPT !.status = "past_due"], <<"payment_failed", "updated">>)
       \/ /\ stripe.status = "past_due"
          /\ Moves([stripe EXCEPT !.status = "unpaid"], <<"updated">>)
    /\ UNCHANGED <<period, acked, row, tenant, intent, actors, faults>>

\* The user schedules or reverses a cancellation in Stripe's own portal.
Portal ==
    /\ Live
    /\ UsesPortal
    /\ Moves([stripe EXCEPT !.cancel = ~@], <<"updated">>)
    /\ UNCHANGED <<period, acked, row, tenant, intent, actors, faults>>

\* The paid-through period ends; a scheduled cancellation takes effect then.
PeriodEnds ==
    /\ Live
    /\ period < MaxPeriods
    /\ IF stripe.cancel
       THEN Moves([stripe EXCEPT !.status = "canceled"], <<"deleted">>)
       ELSE UNCHANGED <<stripe, paid, events>>
    /\ period' = period + 1
    /\ UNCHANGED <<acked, row, tenant, intent, actors, faults>>

GiveUp(e) ==
    /\ Lossy
    /\ e \in 1 .. Len(events) /\ e \notin acked
    /\ \A w \in Slots : slot[w].event # e
    /\ acked' = acked \cup {e}
    /\ UNCHANGED <<stripeVars, row, tenant, intent, actors, faults>>

--------------------------------------------------------------------------------
(* Writes the actors share.  An error of any of them is ignored. *)

\* resolvePlanIntent
ResolvedUnpinned(r, status) == [intent EXCEPT ![r].status = status]
Resolved(r, status) ==
    IF intent[r].status \in Open THEN [intent EXCEPT ![r].status = status] ELSE intent

\* markScheduledIntents
Marked(kind, status) ==
    [r \in Requests |->
        IF intent[r].kind = kind /\ intent[r].status = "scheduled"
        THEN [intent[r] EXCEPT !.status = status]
        ELSE intent[r]]

\* clearBillingChange
Cleared == [tenant EXCEPT !.change = ""]

SetsIntents(new) == \/ intent' = new /\ NoFault
                    \/ UNCHANGED intent /\ Fault
SetsTenant(new) == \/ tenant' = new /\ NoFault
                   \/ UNCHANGED tenant /\ Fault

--------------------------------------------------------------------------------
(* The billing API *)

Goto(r, pc) == req' = [req EXCEPT ![r].pc = pc]

Begin(r, op, pc, to) ==
    /\ req[r].pc = "new"
    /\ op \in Operations
    /\ tenant.sub
    /\ MayBegin
    /\ req' = [req EXCEPT ![r] = [pc |-> pc, op |-> op, to |-> to, effective |-> period + 1]]
    /\ UNCHANGED <<stripeVars, acked, row, tenant, intent, slot, sweep, faults>>

\* HandleChangeBillingPlan: a downgrade is scheduled, an upgrade made at once.
ChangeRead(r) ==
    /\ tenant.change = ""
    /\ \/ \E t \in Tiers : t < tenant.tier /\ Begin(r, "downgrade", "project", t)
       \/ \E t \in Tiers : t > tenant.tier /\ Begin(r, "upgrade", "record", t)
CancelRead(r) == tenant.change = "" /\ Begin(r, "cancel", "project", tenant.tier)
ReactivateRead(r) == tenant.change = "cancel" /\ Begin(r, "reactivate", "claim", tenant.tier)
WithdrawRead(r) == tenant.change = "plan" /\ Begin(r, "withdraw", "settle", tenant.tier)

\* projectBillingChange sets the change if none is scheduled; reactivation
\* claims the scheduled cancellation the same way.
CompareAndSet(r) ==
    LET from == IF req[r].pc = "project" THEN "" ELSE "cancel"
        to == CASE req[r].op = "downgrade" -> "plan" [] OTHER -> req[r].op
    IN /\ req[r].pc \in {"project", "claim"}
       /\ IF tenant.change = from
          THEN /\ tenant' = [tenant EXCEPT !.change = to]
               /\ Goto(r, IF req[r].pc = "project" THEN "record" ELSE "stripe")
          ELSE Goto(r, "done") /\ UNCHANGED tenant
       /\ UNCHANGED <<stripeVars, acked, row, intent, slot, sweep, faults>>

\* Insert the intent: pending for an upgrade, scheduled for a downgrade or a
\* cancellation, already confirmed for a reactivation.
Record(r) ==
    LET op == req[r].op
        inserted == [kind |-> IF op \in {"upgrade", "downgrade"} THEN "plan" ELSE op,
                     to |-> req[r].to, effective |-> req[r].effective,
                     status |-> CASE op = "upgrade" -> "pending"
                                  [] op = "reactivate" -> "confirmed"
                                  [] OTHER -> "scheduled"]
        next == CASE op \in {"upgrade", "cancel"} -> "stripe"
                  [] op = "downgrade" -> "done"
                  [] op = "reactivate" -> "clear"
    IN /\ req[r].pc = "record"
       /\ \/ intent' = [intent EXCEPT ![r] = inserted] /\ Goto(r, next) /\ NoFault
          \/ /\ UNCHANGED intent /\ Fault
             /\ Goto(r, IF op = "upgrade" THEN "done" ELSE "clear")
       /\ UNCHANGED <<stripeVars, acked, row, tenant, slot, sweep>>

\* What a request does once Stripe answered: ok or an error.
AfterCallUnchecked(op, ok) ==
    CASE op = "upgrade" -> "save" [] op = "cancel" -> "done" [] op = "reactivate" -> "settle"
AfterCall(op, ok) ==
    CASE op = "upgrade"    -> IF ok THEN "save" ELSE "fail"
      [] op = "cancel"     -> IF ok THEN "done" ELSE "fail"
      [] op = "reactivate" -> IF ok THEN "settle" ELSE "restore"

CallStripe(r) ==
    LET asked == CASE req[r].op = "upgrade"    -> [stripe EXCEPT !.tier = req[r].to]
                   [] req[r].op = "cancel"     -> [stripe EXCEPT !.cancel = TRUE]
                   [] req[r].op = "reactivate" -> [stripe EXCEPT !.cancel = FALSE]
    IN /\ req[r].pc = "stripe"
       /\ \E ok \in BOOLEAN : Call(asked, ok) /\ Goto(r, AfterCall(req[r].op, ok))
       /\ UNCHANGED <<acked, row, tenant, intent, slot, sweep>>

FailIntent(r) ==
    /\ req[r].pc = "fail"
    /\ SetsIntents(Resolved(r, "failed"))
    /\ Goto(r, IF req[r].op = "cancel" THEN "clear" ELSE "done")
    /\ UNCHANGED <<stripeVars, acked, row, tenant, slot, sweep>>

RestoreCancel(r) ==
    /\ req[r].pc = "restore"
    /\ SetsTenant([tenant EXCEPT !.change = "cancel"])
    /\ Goto(r, "done")
    /\ UNCHANGED <<stripeVars, acked, row, intent, slot, sweep>>

\* An upgrade Stripe accepted but Sentanyl cannot save leaves its intent pending.
AfterSaveResolving(saved) == "resolve"
AfterSave(saved) == IF saved THEN "resolve" ELSE "done"

SaveTier(r) ==
    /\ req[r].pc = "save"
    /\ \/ tenant' = [tenant EXCEPT !.tier = req[r].to] /\ Goto(r, AfterSave(TRUE)) /\ NoFault
       \/ UNCHANGED tenant /\ Goto(r, AfterSave(FALSE)) /\ Fault
    /\ UNCHANGED <<stripeVars, acked, row, intent, slot, sweep>>

ConfirmInline(r) ==
    /\ req[r].pc = "resolve"
    /\ SetsIntents(Resolved(r, "confirmed"))
    /\ Goto(r, "done")
    /\ UNCHANGED <<stripeVars, acked, row, tenant, slot, sweep>>

\* A reactivation settles the cancellations scheduled, a withdrawal the downgrades.
SettleScheduled(r) ==
    /\ req[r].pc = "settle"
    /\ SetsIntents(Marked(IF req[r].op = "reactivate" THEN "cancel" ELSE "plan", "canceled"))
    /\ Goto(r, IF req[r].op = "reactivate" THEN "record" ELSE "clear")
    /\ UNCHANGED <<stripeVars, acked, row, tenant, slot, sweep>>

ClearChange(r) ==
    /\ req[r].pc = "clear"
    /\ SetsTenant(Cleared)
    /\ Goto(r, "done")
    /\ UNCHANGED <<stripeVars, acked, row, intent, slot, sweep>>

RequestCrash(r) ==
    /\ InFlight(r)
    /\ Fault
    /\ Goto(r, "done")
    /\ UNCHANGED <<stripeVars, acked, row, tenant, intent, slot, sweep>>

Proceed(r) ==
    \/ CompareAndSet(r) \/ Record(r) \/ CallStripe(r) \/ FailIntent(r) \/ RestoreCancel(r)
    \/ SaveTier(r) \/ ConfirmInline(r) \/ SettleScheduled(r) \/ ClearChange(r)

--------------------------------------------------------------------------------
(* The Stripe webhook *)

SlotGoto(w, pc) == slot' = [slot EXCEPT ![w].pc = pc]
SlotRests(w) == slot' = [slot EXCEPT ![w] = NoDelivery]
Snapshot(w) == events[slot[w].event]

FirstWork(kind) == IF kind = "updated" THEN "read" ELSE "apply"

\* A delivery of an event records it; one processed before is acknowledged at once.
Receive(w, e) ==
    /\ slot[w].pc = "idle"
    /\ e \in 1 .. Len(events) /\ e \notin acked
    /\ InOrder => 1 .. (e - 1) \subseteq acked
    /\ Serial => Calm
    /\ IF row[e] = "processed"
       THEN acked' = acked \cup {e} /\ UNCHANGED <<row, slot>>
       ELSE /\ row' = [row EXCEPT ![e] = IF @ = "none" THEN "received" ELSE @]
            /\ slot' = [slot EXCEPT ![w] = [pc |-> FirstWork(events[e].kind), event |-> e,
                                            change |-> "keep", batch |-> {}]]
            /\ UNCHANGED acked
    /\ UNCHANGED <<stripeVars, tenant, intent, req, sweep, faults>>

\* subscription.updated, once it knows what becomes of the scheduled change:
\* incomplete ends it, past_due stamps first.
AfterRead(status) ==
    CASE status = "incomplete" -> "mark" [] status = "past_due" -> "stamp" [] OTHER -> "apply"

\* A cancellation at Stripe is shown; one no longer there is withdrawn.
UpdatedRead(w) ==
    LET change == CASE Snapshot(w).cancel -> "cancel"
                    [] ~Snapshot(w).cancel /\ tenant.change = "cancel" -> "clear"
                    [] OTHER -> "keep"
    IN /\ slot[w].pc = "read"
       /\ slot' = [slot EXCEPT ![w].change = change,
                    ![w].pc = IF change = "clear" THEN "settle" ELSE AfterRead(Snapshot(w).status)]
       /\ UNCHANGED <<stripeVars, acked, row, tenant, intent, req, sweep, faults>>

SettleCancels(w) ==
    /\ slot[w].pc = "settle"
    /\ IF Snapshot(w).kind = "updated"
       THEN SetsIntents(Marked("cancel", "canceled")) /\ SlotGoto(w, AfterRead(Snapshot(w).status))
       ELSE SetsIntents(Marked("cancel", "confirmed")) /\ SlotGoto(w, "mark")
    /\ UNCHANGED <<stripeVars, acked, row, tenant, req, sweep>>

\* stampPastDueIfUnset
StampPastDue(w) ==
    /\ slot[w].pc = "stamp"
    /\ \/ /\ tenant' = [tenant EXCEPT !.pastDueAt = TRUE]
          /\ SlotGoto(w, IF Snapshot(w).kind = "updated" THEN "apply" ELSE "mark")
          /\ NoFault
       \/ UNCHANGED tenant /\ SlotGoto(w, "fail") /\ Fault
    /\ UNCHANGED <<stripeVars, acked, row, intent, req, sweep>>

\* subscription_status for a status of Stripe's
StatusOfUnmapped(status) == status
StatusOf(status) ==
    CASE status = "trialing" -> "trial" [] status = "unpaid" -> "canceled" [] OTHER -> status

\* The statuses that leave past_due_at alone.
KeepsClockNever(status) == FALSE
KeepsClock(status) == status \notin {"trialing", "active"}

UpdatedWithoutTier(event, change) ==
    [sub |-> TRUE, tier |-> tenant.tier, status |-> StatusOf(event.status),
     change |-> CASE change = "cancel" -> "cancel" [] change = "clear" -> ""
                  [] change = "keep" -> tenant.change,
     pastDueAt |-> tenant.pastDueAt /\ KeepsClock(event.status)]

\* The tenant as subscription.updated writes it.
Updated(event, change) ==
    [sub |-> TRUE, tier |-> event.tier, status |-> StatusOf(event.status),
     change |-> CASE change = "cancel" -> "cancel" [] change = "clear" -> ""
                  [] change = "keep" -> tenant.change,
     pastDueAt |-> tenant.pastDueAt /\ KeepsClock(event.status)]

\* The one write of the tenant each kind of event makes, and what follows it.
Apply(w) ==
    LET event == Snapshot(w)
        applied == CASE event.kind = "updated" -> {Updated(event, slot[w].change)}
                     [] event.kind = "checkout" ->
                          {[tenant EXCEPT !.sub = TRUE, !.pastDueAt = FALSE, !.status = st] :
                             st \in {"trial", "active"}}
                     [] event.kind = "deleted" ->
                          {[tenant EXCEPT !.status = "canceled", !.change = ""]}
                     [] event.kind = "payment_failed" -> {[tenant EXCEPT !.status = "past_due"]}
        next == CASE event.kind = "updated" -> "list" [] event.kind = "checkout" -> "mark"
                  [] event.kind = "deleted" -> "settle" [] event.kind = "payment_failed" -> "stamp"
    IN /\ slot[w].pc = "apply"
       /\ \/ tenant' \in applied /\ SlotGoto(w, next) /\ NoFault
          \/ UNCHANGED tenant /\ SlotGoto(w, "fail") /\ Fault
       /\ UNCHANGED <<stripeVars, acked, row, intent, req, sweep>>

\* confirmPlanIntents lists the pending intents, then resolves them one by one.
ListPending(w) ==
    LET pending == {r \in Requests : intent[r].status = "pending"}
    IN /\ slot[w].pc = "list"
       /\ slot' = [slot EXCEPT ![w].batch = pending,
                               ![w].pc = IF pending = {} THEN "mark" ELSE "confirm"]
       /\ UNCHANGED <<stripeVars, acked, row, tenant, intent, req, sweep, faults>>

ConfirmPending(w) ==
    /\ slot[w].pc = "confirm"
    /\ \E r \in slot[w].batch :
         /\ SetsIntents(Resolved(r, "confirmed"))
         /\ slot' = [slot EXCEPT ![w].batch = @ \ {r},
                                 ![w].pc = IF slot[w].batch = {r} THEN "mark" ELSE "confirm"]
    /\ UNCHANGED <<stripeVars, acked, row, tenant, req, sweep>>

\* The answer to Stripe: an event processed is acknowledged, unless the answer
\* is lost; one that failed is sent again.
MarkProcessed(w) ==
    LET e == slot[w].event
    IN /\ slot[w].pc = "mark"
       /\ row' = [row EXCEPT ![e] = "processed"]
       /\ SlotRests(w)
       /\ \/ acked' = acked \cup {e} /\ NoFault
          \/ UNCHANGED acked /\ Fault
       /\ UNCHANGED <<stripeVars, tenant, intent, req, sweep>>

\* An event whose processing failed is answered with an error, so Stripe sends it again.
MarkFailed(w) ==
    LET e == slot[w].event
    IN /\ slot[w].pc = "fail"
       /\ row' = [row EXCEPT ![e] = "failed"]
       /\ SlotRests(w)
       /\ UNCHANGED <<stripeVars, acked, tenant, intent, req, sweep, faults>>

SlotCrash(w) ==
    /\ slot[w].pc # "idle"
    /\ Fault
    /\ SlotRests(w)
    /\ UNCHANGED <<stripeVars, acked, row, tenant, intent, req, sweep>>

Process(w) ==
    \/ UpdatedRead(w) \/ SettleCancels(w) \/ StampPastDue(w) \/ Apply(w)
    \/ ListPending(w) \/ ConfirmPending(w) \/ MarkProcessed(w) \/ MarkFailed(w)

--------------------------------------------------------------------------------
(* The reconciliation sweep *)

\* A pending intent two minutes old: the calls of the request that made it time
\* out well before.
StaleInFlight(r) == intent[r].status = "pending" /\ InFlight(r)
Stale(r) == intent[r].status = "pending" /\ ~InFlight(r)
Due(r) == intent[r].kind = "plan" /\ intent[r].status = "scheduled" /\ intent[r].effective <= period
Scheduled(r) == intent[r].kind = "cancel" /\ intent[r].status = "scheduled"

Begins(s, phase, batch) ==
    sweep' = [sweep EXCEPT ![s].pc = "next", ![s].phase = phase, ![s].batch = batch]
SweepGoto(s, pc) == sweep' = [sweep EXCEPT ![s].pc = pc]
SweepRests(s) == sweep' = [sweep EXCEPT ![s] = NoRound]
Item(s) == sweep[s].at

\* Three lists, each read when the one before has been worked through.
SweepList(s) ==
    /\ \/ sweep[s].pc = "idle" /\ MayBegin /\ Begins(s, "stale", {r \in Requests : Stale(r)})
       \/ /\ sweep[s].pc = "next" /\ sweep[s].batch = {}
          /\ \/ sweep[s].phase = "stale" /\ Begins(s, "due", {r \in Requests : Due(r)})
             \/ sweep[s].phase = "due" /\ Begins(s, "cancel", {r \in Requests : Scheduled(r)})
             \/ sweep[s].phase = "cancel" /\ SweepRests(s)
    /\ UNCHANGED <<stripeVars, acked, row, tenant, intent, req, slot, faults>>

\* Look one intent's subscription up.
SweepLook(s) ==
    /\ sweep[s].pc = "next"
    /\ \E r \in sweep[s].batch :
         LET phase == sweep[s].phase
             found == [sweep[s] EXCEPT
                         !.batch = @ \ {r}, !.at = r,
                         !.tier = IF phase = "due" THEN intent[r].to ELSE stripe.tier,
                         !.outcome = IF phase = "cancel" THEN "canceled" ELSE "confirmed",
                         !.pc = CASE phase = "stale" -> "save"
                                  [] phase = "due" /\ stripe.tier # intent[r].to -> "price"
                                  [] phase = "due" /\ stripe.tier = intent[r].to -> "save"
                                  [] phase = "cancel" -> IF stripe.cancel THEN "save" ELSE "resolve"]
         IN sweep' = [sweep EXCEPT ![s] = found]
    /\ UNCHANGED <<stripeVars, acked, row, tenant, intent, req, slot, faults>>

\* Stripe does not answer: the intent is left for the next sweep, and a pending
\* one is given up on after a day.
SweepLookFails(s) ==
    /\ sweep[s].pc = "next"
    /\ \E r \in sweep[s].batch :
         \/ sweep' = [sweep EXCEPT ![s].batch = @ \ {r}]
         \/ /\ sweep[s].phase = "stale" /\ Outage
            /\ sweep' = [sweep EXCEPT ![s].batch = @ \ {r}, ![s].at = r,
                                      ![s].outcome = "failed", ![s].pc = "resolve"]
    /\ Fault
    /\ UNCHANGED <<stripeVars, acked, row, tenant, intent, req, slot>>

SweepPrice(s) ==
    /\ sweep[s].pc = "price"
    /\ \E ok \in BOOLEAN :
         /\ Call([stripe EXCEPT !.tier = sweep[s].tier], ok)
         /\ SweepGoto(s, IF ok THEN "save" ELSE "next")
    /\ UNCHANGED <<acked, row, tenant, intent, req, slot>>

SweepSave(s) ==
    LET saved == CASE sweep[s].phase = "stale" -> [tenant EXCEPT !.tier = sweep[s].tier]
                   [] sweep[s].phase = "due" -> [Cleared EXCEPT !.tier = sweep[s].tier]
                   [] sweep[s].phase = "cancel" -> [tenant EXCEPT !.change = "cancel"]
    IN /\ sweep[s].pc = "save"
       /\ \/ /\ tenant' = saved /\ NoFault
             /\ SweepGoto(s, IF sweep[s].phase = "cancel" THEN "next" ELSE "resolve")
          \/ UNCHANGED tenant /\ Fault /\ SweepGoto(s, "next")
       /\ UNCHANGED <<stripeVars, acked, row, intent, req, slot>>

SweepResolve(s) ==
    /\ sweep[s].pc = "resolve"
    /\ SetsIntents(Resolved(Item(s), sweep[s].outcome))
    /\ SweepGoto(s, IF sweep[s].phase = "cancel" THEN "clear" ELSE "next")
    /\ UNCHANGED <<stripeVars, acked, row, tenant, req, slot>>

SweepClear(s) ==
    /\ sweep[s].pc = "clear"
    /\ SetsTenant(Cleared)
    /\ SweepGoto(s, "next")
    /\ UNCHANGED <<stripeVars, acked, row, intent, req, slot>>

SweepCrash(s) ==
    /\ sweep[s].pc # "idle"
    /\ Fault
    /\ SweepRests(s)
    /\ UNCHANGED <<stripeVars, acked, row, tenant, intent, req, slot>>

Sweep(s) ==
    \/ SweepList(s) \/ SweepLook(s) \/ SweepPrice(s) \/ SweepSave(s) \/ SweepResolve(s)
    \/ SweepClear(s)

--------------------------------------------------------------------------------

Next ==
    \/ Checkout \/ Payment \/ Portal \/ PeriodEnds
    \/ \E e \in 1 .. MaxEvents : GiveUp(e) \/ \E w \in Slots : Receive(w, e)
    \/ \E r \in Requests :
         \/ ChangeRead(r) \/ CancelRead(r) \/ ReactivateRead(r) \/ WithdrawRead(r)
         \/ Proceed(r) \/ RequestCrash(r)
    \/ \E w \in Slots : Process(w) \/ SlotCrash(w)
    \/ \E s \in Sweepers : Sweep(s) \/ SweepLookFails(s) \/ SweepCrash(s)

Spec == Init /\ [][Next]_vars

\* Handlers run to their end, and the sweep runs every five minutes.
FairSpec ==
    /\ Spec
    /\ \A r \in Requests : WF_vars(Proceed(r))
    /\ \A w \in Slots : WF_vars(Process(w))
    /\ \A s \in Sweepers : WF_vars(Sweep(s))

--------------------------------------------------------------------------------
(* Properties *)

\* An intent is settled once: whichever of the handler, the webhook and the
\* sweep comes first decides its outcome, and nothing changes it afterwards
\* (resolvePlanIntent, markScheduledIntents).
SettledIntentsStay ==
    [][\A r \in Requests : intent[r].status \in Settled => intent'[r] = intent[r]]_vars

\* The tenant is never recorded at a tier Stripe did not bill it for: the intent
\* comes before Stripe, and Stripe before plan_tier (HandleChangeBillingPlan,
\* applyDueBillingChanges).
NeverAheadOfStripe == tenant.tier \in paid

\* Nobody is at work, Stripe has nothing left to send, and the sweep nothing left
\* to settle.
Quiet ==
    /\ Calm
    /\ AllDelivered
    /\ \A r \in Requests : intent[r].status # "pending" /\ ~Due(r)

\* What the tenant pays and what it is recorded as do not silently diverge
\* (BILL-003): once everything is quiet, the tier is the one Stripe bills.
TierAgreesWithStripe == Quiet /\ Live /\ stripe.status # "incomplete" => tenant.tier = stripe.tier

\* A tenant past due has a grace-period clock: whatever order Stripe's events
\* come in, once they are through past_due_at is set (stampPastDueIfUnset).
PastDueHasAClock == Calm /\ AllDelivered /\ tenant.status = "past_due" => tenant.pastDueAt

\* A pending intent does not stay pending: the handler, the webhook or the sweep
\* settles it (reconcileStalePlanIntents).
PendingIntentsSettle ==
    \A r \in Requests : intent[r].status = "pending" ~> intent[r].status # "pending"

\* A downgrade the tenant withdrew is not carried out: the sweep re-prices the
\* subscription only for an intent still scheduled (applyDueBillingChanges).
WithdrawnIsNotApplied ==
    [][\A s \in Sweepers : sweep[s].pc = "price" /\ stripe'.tier # stripe.tier
                              => intent[Item(s)].status = "scheduled"]_vars

\* While a cancellation "is already being reversed", a request is reversing it or
\* the sweep still has it on its list (HandleReactivateBillingSubscription).
ReversalIsUnderWay ==
    Quiet /\ tenant.change = "reactivate" => \E r \in Requests : Scheduled(r)

================================================================================
