------------------------- MODULE PlatformBillingProofs -------------------------
(* Platform billing, for any requests, deliveries and sweeps: the types, that *)
(* an intent is settled once, and that no tier is recorded before Stripe      *)
(* billed it; for one delivery at a time, that a tenant past due has a clock; *)
(* and for one change at a time, that the tier is the one Stripe bills.       *)
EXTENDS PlatformBilling, TLAPS

\* A delivery at work carries an event Stripe emitted, and applies no update of
\* an incomplete subscription.
Carries(d) ==
    d.pc # "idle" =>
        /\ d.event \in 1 .. Len(events)
        /\ (events[d.event].kind = "updated" /\ d.pc = "apply") => events[d.event].status # "incomplete"
        /\ (events[d.event].kind = "updated" /\ d.pc = "stamp") => events[d.event].status = "past_due"
DeliveriesCarry == \A w \in Slots : Carries(slot[w])

\* Where a request of each kind can be.
CanBe(p, op) ==
    /\ p = "project" => op \in {"downgrade", "cancel"}
    /\ p \in {"claim", "restore"} => op = "reactivate"
    /\ p = "record" => op \in {"upgrade", "downgrade", "cancel", "reactivate"}
    /\ p = "stripe" => op \in {"upgrade", "cancel", "reactivate"}
    /\ p \in {"save", "resolve"} => op = "upgrade"
    /\ p = "fail" => op \in {"upgrade", "cancel"}
    /\ p = "settle" => op \in {"reactivate", "withdraw"}
RequestsMatch == \A r \in Requests : CanBe(req[r].pc, req[r].op)

TypeInv == TypeOK /\ DeliveriesCarry /\ RequestsMatch

\* What Stripe's side keeps to when a subscription changes or does not.
StripeOK ==
    /\ stripe \in Subscription
    /\ paid \subseteq Tiers
    /\ events \in Seq(Event) /\ Len(events) <= MaxEvents

\* Events are only ever appended.
Extends ==
    /\ Len(events) <= Len(events')
    /\ \A i \in 1 .. Len(events) : events'[i] = events[i]

\* A change of the subscription appends its events, each with the new tier.
LEMMA BecomesKeeps ==
    ASSUME StripeOK, NEW sub \in Subscription, sub.status # "none",
           NEW kinds \in Seq({"checkout", "updated", "deleted", "payment_failed"}),
           Becomes(sub, kinds)
    PROVE  /\ StripeOK'
           /\ Extends
           /\ \A i \in 1 .. Len(events') : i > Len(events) => events'[i].tier = sub.tier
           /\ stripe' = sub /\ paid' = paid \cup {sub.tier}
<1> DEFINE new == [i \in 1 .. Len(kinds) |->
                     [kind |-> kinds[i], status |-> sub.status, tier |-> sub.tier,
                      cancel |-> sub.cancel]]
<1>1. /\ sub.status \in Statuses /\ sub.tier \in Tiers /\ sub.cancel \in BOOLEAN
  BY DEF Subscription
<1>2. new \in Seq(Event) /\ Len(new) = Len(kinds)
  <2>1. \A i \in 1 .. Len(kinds) : new[i] \in Event
    BY <1>1 DEF Event
  <2>2. Len(kinds) \in Nat
    OBVIOUS
  <2>3. new \in [1 .. Len(kinds) -> Event]
    BY <2>1
  <2> HIDE DEF new
  <2> QED
    BY <2>2, <2>3
<1>3. \A i \in 1 .. Len(new) : new[i].tier = sub.tier
  BY <1>2
<1>4. /\ stripe' = sub /\ paid' = paid \cup {sub.tier} /\ events' = events \o new
      /\ Len(events) + Len(kinds) <= MaxEvents
  BY DEF Becomes
<1> HIDE DEF new
<1>5. /\ events' \in Seq(Event) /\ Len(events') = Len(events) + Len(new)
      /\ \A i \in 1 .. Len(events') : events'[i] = IF i <= Len(events) THEN events[i]
                                                   ELSE new[i - Len(events)]
  BY <1>2, <1>4 DEF StripeOK
<1>6. StripeOK'
  BY <1>1, <1>2, <1>4, <1>5 DEF StripeOK
<1>7. Extends
  BY <1>2, <1>5 DEF Extends, StripeOK
<1>8. \A i \in 1 .. Len(events') : i > Len(events) => events'[i].tier = sub.tier
  <2> SUFFICES ASSUME NEW i \in 1 .. Len(events'), i > Len(events)
               PROVE  events'[i].tier = sub.tier
    OBVIOUS
  <2>1. i - Len(events) \in 1 .. Len(new)
    BY <1>2, <1>5 DEF StripeOK
  <2>2. events'[i] = new[i - Len(events)]
    BY <1>2, <1>5 DEF StripeOK
  <2> QED
    BY <1>3, <2>1, <2>2
<1> QED
  BY <1>4, <1>6, <1>7, <1>8

\* A call of Stripe either leaves its side alone or makes the subscription what
\* was asked for, and does the latter whenever it reports success.
LEMMA CallKeeps ==
    ASSUME TypeOK, NEW sub \in Subscription, Live => sub.status # "none",
           NEW ok \in BOOLEAN, Call(sub, ok)
    PROVE  /\ StripeOK' /\ Extends
           /\ period' = period
           /\ faults' \in 0 .. MaxFaults
           /\ ok => stripe' = sub
           /\ \/ stripe' = stripe /\ paid' = paid /\ events' = events
              \/ /\ stripe' = sub /\ paid' = paid \cup {sub.tier}
                 /\ \A i \in 1 .. Len(events') : i > Len(events) => events'[i].tier = sub.tier
<1>1. StripeOK
  BY DEF TypeOK, StripeOK
<1>2. faults' \in 0 .. MaxFaults
  BY BillingConstants DEF Call, Fault, NoFault, TypeOK, BillingConstants
<1>3. period' = period
  BY DEF Call, stripeVars
<1>4. CASE Live /\ sub # stripe /\ Becomes(sub, <<"updated">>)
  <2>1. <<"updated">> \in Seq({"checkout", "updated", "deleted", "payment_failed"})
    OBVIOUS
  <2> QED
    BY <1>1, <1>2, <1>3, <1>4, <2>1, BecomesKeeps
<1>5. CASE UNCHANGED <<stripe, paid, events>> /\ (ok => stripe = sub)
  BY <1>1, <1>2, <1>3, <1>5 DEF StripeOK, Extends
<1> QED
  BY <1>4, <1>5 DEF Call, stripeVars

--------------------------------------------------------------------------------
(* Types *)

RequestPlaces == {"new", "project", "claim", "record", "stripe", "fail", "restore", "save",
                  "resolve", "settle", "clear", "done"}
DeliveryPlaces == {"idle", "read", "settle", "stamp", "apply", "list", "confirm", "mark", "fail"}
SweepPlaces == {"idle", "next", "price", "save", "resolve", "clear"}

\* A request that moves on keeps what it is about.
LEMMA GotoType ==
    ASSUME TypeOK, NEW r \in Requests, NEW p \in RequestPlaces, Goto(r, p)
    PROVE  /\ req' \in [Requests -> Request]
           /\ req'[r].pc = p /\ req'[r].op = req[r].op /\ req'[r].to = req[r].to
           /\ \A q \in Requests \ {r} : req'[q] = req[q]
<1>1. req[r] \in Request /\ req \in [Requests -> Request]
  BY DEF TypeOK
<1> DEFINE new == [req[r] EXCEPT !.pc = p]
<1>2. new \in Request /\ new.pc = p /\ new.op = req[r].op /\ new.to = req[r].to
  BY <1>1 DEF Request, RequestPlaces
<1>3. req' = [req EXCEPT ![r] = new]
  BY DEF Goto
<1> HIDE DEF new
<1> QED
  BY <1>1, <1>2, <1>3

\* A request that moves on to where its kind can be.
LEMMA GotoMatches ==
    ASSUME TypeInv, NEW r \in Requests, NEW p \in RequestPlaces, Goto(r, p), CanBe(p, req[r].op)
    PROVE  RequestsMatch'
<1>1. /\ req'[r].pc = p /\ req'[r].op = req[r].op
      /\ \A q \in Requests \ {r} : req'[q] = req[q]
  BY GotoType DEF TypeInv
<1> QED
  BY <1>1 DEF TypeInv, RequestsMatch

\* A delivery that moves on keeps its event.
LEMMA SlotGotoType ==
    ASSUME TypeOK, NEW w \in Slots, NEW p \in DeliveryPlaces, SlotGoto(w, p)
    PROVE  /\ slot' \in [Slots -> Delivery]
           /\ slot'[w].pc = p /\ slot'[w].event = slot[w].event
           /\ \A v \in Slots \ {w} : slot'[v] = slot[v]
<1>1. slot[w] \in Delivery /\ slot \in [Slots -> Delivery]
  BY DEF TypeOK
<1> DEFINE new == [slot[w] EXCEPT !.pc = p]
<1>2. new \in Delivery /\ new.pc = p /\ new.event = slot[w].event
  BY <1>1 DEF Delivery, DeliveryPlaces
<1>3. slot' = [slot EXCEPT ![w] = new]
  BY DEF SlotGoto
<1> HIDE DEF new
<1> QED
  BY <1>1, <1>2, <1>3

\* A sweep that moves on keeps its item.
LEMMA SweepGotoType ==
    ASSUME TypeOK, NEW s \in Sweepers, NEW p \in SweepPlaces, SweepGoto(s, p)
    PROVE  /\ sweep' \in [Sweepers -> Round]
           /\ sweep'[s].pc = p /\ sweep'[s].phase = sweep[s].phase /\ sweep'[s].tier = sweep[s].tier
           /\ sweep'[s].batch = sweep[s].batch /\ sweep'[s].at = sweep[s].at
           /\ \A v \in Sweepers \ {s} : sweep'[v] = sweep[v]
<1>1. sweep[s] \in Round /\ sweep \in [Sweepers -> Round]
  BY DEF TypeOK
<1> DEFINE new == [sweep[s] EXCEPT !.pc = p]
<1>2. /\ new \in Round /\ new.pc = p /\ new.phase = sweep[s].phase /\ new.tier = sweep[s].tier
      /\ new.batch = sweep[s].batch /\ new.at = sweep[s].at
  BY <1>1 DEF Round, SweepPlaces
<1>3. sweep' = [sweep EXCEPT ![s] = new]
  BY DEF SweepGoto
<1> HIDE DEF new
<1> QED
  BY <1>1, <1>2, <1>3

\* A fault is counted, and within its bound.
LEMMA FaultType == ASSUME TypeOK, Fault \/ NoFault PROVE faults' \in 0 .. MaxFaults
  BY BillingConstants DEF Fault, NoFault, TypeOK, BillingConstants

\* Settling intents keeps them intents.
LEMMA IntentType ==
    ASSUME TypeOK, NEW r \in Requests, NEW kind, NEW status \in Settled,
           SetsIntents(Resolved(r, status)) \/ SetsIntents(Marked(kind, status))
    PROVE  intent' \in [Requests -> Intent] /\ faults' \in 0 .. MaxFaults
<1>1. intent \in [Requests -> Intent]
  BY DEF TypeOK
<1>2. \A q \in Requests : [intent[q] EXCEPT !.status = status] \in Intent
  BY <1>1 DEF Intent
<1>3. Resolved(r, status) \in [Requests -> Intent]
  BY <1>1, <1>2 DEF Resolved
<1>4. Marked(kind, status) \in [Requests -> Intent]
  BY <1>1, <1>2 DEF Marked
<1>5. faults' \in 0 .. MaxFaults
  BY FaultType DEF SetsIntents
<1> QED
  BY <1>1, <1>3, <1>4, <1>5 DEF SetsIntents

\* A write of a proper tenant leaves one.
LEMMA TenantType ==
    ASSUME TypeOK, NEW new \in Tenant, SetsTenant(new)
    PROVE  tenant' \in Tenant /\ faults' \in 0 .. MaxFaults
  BY FaultType DEF SetsTenant, TypeOK

--------------------------------------------------------------------------------
(* Stripe's side, of which every step either changes nothing or appends the   *)
(* events of a new subscription.                                              *)

StripeStep ==
    /\ StripeOK' /\ Extends
    /\ period' \in 0 .. MaxPeriods
    /\ \/ UNCHANGED <<stripe, paid, events>>
       \/ /\ paid' = paid \cup {stripe'.tier}
          /\ \A i \in 1 .. Len(events') : i > Len(events) => events'[i].tier = stripe'.tier

\* A step that leaves Stripe alone.
LEMMA StripeRests == ASSUME TypeOK, UNCHANGED stripeVars PROVE StripeStep
  BY DEF TypeOK, StripeStep, StripeOK, Extends, stripeVars

\* The steps that are Stripe's own.
StripeMoves == Checkout \/ Payment \/ Portal \/ PeriodEnds

LEMMA StripeMovesStep == ASSUME TypeOK, StripeMoves PROVE StripeStep
<1> DEFINE Kinds == {"checkout", "updated", "deleted", "payment_failed"}
<1>1. StripeOK
  BY DEF TypeOK, StripeOK
<1>2. ASSUME NEW sub \in Subscription, sub.status # "none", NEW kinds \in Seq(Kinds),
             Moves(sub, kinds), period' \in 0 .. MaxPeriods
      PROVE  StripeStep
  BY <1>1, <1>2, BecomesKeeps DEF Moves, StripeStep
<1>3. /\ <<"updated", "checkout">> \in Seq(Kinds) /\ <<"updated">> \in Seq(Kinds)
      /\ <<"payment_failed", "updated">> \in Seq(Kinds) /\ <<"deleted">> \in Seq(Kinds)
  OBVIOUS
<1>4. stripe \in Subscription /\ period \in 0 .. MaxPeriods
  BY DEF TypeOK
<1> HIDE DEF Kinds
<1>5. CASE Checkout
  <2>1. PICK t \in Tiers, st \in {"incomplete", "trialing", "active"} :
          Moves([status |-> st, tier |-> t, cancel |-> FALSE], <<"updated", "checkout">>)
    BY <1>5 DEF Checkout
  <2> DEFINE sub == [status |-> st, tier |-> t, cancel |-> FALSE]
  <2>2. sub \in Subscription /\ sub.status # "none"
    BY DEF Subscription, Statuses
  <2>3. Moves(sub, <<"updated", "checkout">>)
    BY <2>1
  <2>4. period' \in 0 .. MaxPeriods
    BY <1>4, <1>5 DEF Checkout
  <2> HIDE DEF sub
  <2> QED
    BY <1>2, <1>3, <2>2, <2>3, <2>4
<1>6. ASSUME NEW st \in {"active", "past_due", "unpaid", "canceled"}
      PROVE  /\ [stripe EXCEPT !.status = st] \in Subscription
             /\ [stripe EXCEPT !.status = st].status # "none"
  BY <1>4 DEF Subscription, Statuses
<1>7. CASE Payment
  <2>1. period' \in 0 .. MaxPeriods
    BY <1>4, <1>7 DEF Payment
  <2>2. CASE Moves([stripe EXCEPT !.status = "active"], <<"updated">>)
    BY <1>2, <1>3, <1>6, <2>1, <2>2
  <2>3. CASE Moves([stripe EXCEPT !.status = "past_due"], <<"payment_failed", "updated">>)
    BY <1>2, <1>3, <1>6, <2>1, <2>3
  <2>4. CASE Moves([stripe EXCEPT !.status = "unpaid"], <<"updated">>)
    BY <1>2, <1>3, <1>6, <2>1, <2>4
  <2> QED
    BY <1>7, <2>2, <2>3, <2>4 DEF Payment
<1>8. CASE Portal
  <2> DEFINE sub == [stripe EXCEPT !.cancel = ~@]
  <2>1. sub \in Subscription /\ sub.status # "none"
    BY <1>4, <1>8 DEF Portal, Live, Subscription
  <2>2. Moves(sub, <<"updated">>) /\ period' \in 0 .. MaxPeriods
    BY <1>4, <1>8 DEF Portal
  <2> HIDE DEF sub
  <2> QED
    BY <1>2, <1>3, <2>1, <2>2
<1>9. CASE PeriodEnds
  <2>1. period' \in 0 .. MaxPeriods
    BY <1>4, <1>9, BillingConstants DEF PeriodEnds, BillingConstants
  <2>2. CASE stripe.cancel
    <3>1. Moves([stripe EXCEPT !.status = "canceled"], <<"deleted">>)
      BY <1>9, <2>2 DEF PeriodEnds
    <3> QED
      BY <1>2, <1>3, <1>6, <2>1, <3>1
  <2>3. CASE ~stripe.cancel
    BY <1>1, <1>9, <2>1, <2>3 DEF PeriodEnds, StripeStep, StripeOK, Extends
  <2> QED
    BY <2>2, <2>3
<1> QED
  BY <1>5, <1>7, <1>8, <1>9 DEF StripeMoves

\* A call of Stripe for a change of the subscription.
LEMMA CallStep ==
    ASSUME TypeOK, NEW sub \in Subscription, Live => sub.status # "none",
           NEW ok \in BOOLEAN, Call(sub, ok)
    PROVE  StripeStep /\ faults' \in 0 .. MaxFaults /\ (ok => stripe' = sub)
<1>1. period \in 0 .. MaxPeriods
  BY DEF TypeOK
<1> QED
  BY <1>1, CallKeeps DEF StripeStep

\* Deliveries at work keep their event as Stripe goes on.
LEMMA CarryKept ==
    ASSUME TypeInv, StripeStep, UNCHANGED slot
    PROVE  DeliveriesCarry' /\ acked \subseteq 1 .. Len(events')
<1>1. Len(events) \in Nat /\ Len(events') \in Nat /\ acked \subseteq 1 .. Len(events)
  BY DEF TypeInv, TypeOK, StripeStep, StripeOK
<1>2. ASSUME NEW w \in Slots PROVE Carries(slot[w])'
  <2>1. slot'[w] = slot[w] /\ Carries(slot[w])
    BY DEF TypeInv, DeliveriesCarry
  <2>2. \A i \in 1 .. Len(events) : i \in 1 .. Len(events') /\ events'[i] = events[i]
    BY <1>1 DEF StripeStep, Extends
  <2> QED
    BY <2>1, <2>2 DEF Carries
<1>3. acked \subseteq 1 .. Len(events')
  BY <1>1 DEF StripeStep, Extends
<1> QED
  BY <1>2, <1>3 DEF DeliveriesCarry


LEMMA StripeMovesType ==
    ASSUME TypeInv, StripeMoves \/ \E e \in 1 .. MaxEvents : GiveUp(e)
    PROVE  TypeInv'
<1>1. CASE StripeMoves
  <2>1. StripeStep
    BY <1>1, StripeMovesStep DEF TypeInv
  <2>2. UNCHANGED <<acked, row, tenant, intent, req, slot, sweep, faults>>
    BY <1>1 DEF StripeMoves, Checkout, Payment, Portal, PeriodEnds, actors
  <2>3. DeliveriesCarry' /\ acked' \subseteq 1 .. Len(events')
    BY <2>1, <2>2, CarryKept
  <2>4. TypeOK'
    BY <2>1, <2>2, <2>3 DEF TypeInv, TypeOK, StripeStep, StripeOK
  <2> QED
    BY <2>2, <2>3, <2>4 DEF TypeInv, RequestsMatch
<1>2. ASSUME NEW e \in 1 .. MaxEvents, GiveUp(e) PROVE TypeInv'
  <2>1. UNCHANGED <<stripe, paid, period, events, row, tenant, intent, req, slot, sweep, faults>>
    BY <1>2 DEF GiveUp, stripeVars, actors
  <2>2. acked' \subseteq 1 .. Len(events)
    BY <1>2 DEF GiveUp, TypeInv, TypeOK
  <2>3. TypeOK'
    BY <2>1, <2>2 DEF TypeInv, TypeOK
  <2> QED
    BY <2>1, <2>3 DEF TypeInv, RequestsMatch, DeliveriesCarry, Carries
<1> QED
  BY <1>1, <1>2

\* The steps of the API.
Reads(r) == ChangeRead(r) \/ CancelRead(r) \/ ReactivateRead(r) \/ WithdrawRead(r)

\* A request begins where its kind begins.
LEMMA ReadsMatch ==
    ASSUME TypeInv, NEW r \in Requests, Reads(r)
    PROVE  /\ UNCHANGED <<stripeVars, acked, row, tenant, intent, slot, sweep, faults>>
           /\ req' \in [Requests -> Request] /\ RequestsMatch'
           /\ req[r].pc = "new" /\ \A q \in Requests \ {r} : req'[q] = req[q]
           /\ req'[r].pc \in {"project", "record", "claim", "settle"}
           /\ req'[r].pc = "record" => req'[r].op = "upgrade"
           /\ req'[r].pc = "settle" => req'[r].op = "withdraw"
<1>1. /\ req \in [Requests -> Request] /\ tenant.tier \in Tiers /\ period + 1 \in Nat
      /\ Operations \subseteq {"upgrade", "downgrade", "cancel", "reactivate", "withdraw"}
  <2>1. req \in [Requests -> Request] /\ tenant.tier \in Tiers /\ period \in 0 .. MaxPeriods
    BY DEF TypeInv, TypeOK, Tenant
  <2>2. Operations \subseteq {"upgrade", "downgrade", "cancel", "reactivate", "withdraw"}
    BY BillingConstants DEF BillingConstants
  <2>3. period + 1 \in Nat
    BY <2>1, BillingConstants DEF BillingConstants
  <2> QED
    BY <2>1, <2>2, <2>3
<1>2. PICK op \in Operations, p \in {"project", "record", "claim", "settle"}, to \in Tiers :
        /\ Begin(r, op, p, to)
        /\ \/ op = "downgrade" /\ p = "project"
           \/ op = "upgrade" /\ p = "record"
           \/ op = "cancel" /\ p = "project"
           \/ op = "reactivate" /\ p = "claim"
           \/ op = "withdraw" /\ p = "settle"
  <2>1. CASE ChangeRead(r)
    BY <1>1, <2>1 DEF ChangeRead, Begin
  <2>2. CASE CancelRead(r)
    BY <1>1, <2>2 DEF CancelRead, Begin
  <2>3. CASE ReactivateRead(r)
    BY <1>1, <2>3 DEF ReactivateRead, Begin
  <2>4. CASE WithdrawRead(r)
    BY <1>1, <2>4 DEF WithdrawRead, Begin
  <2> QED
    BY <2>1, <2>2, <2>3, <2>4 DEF Reads
<1> DEFINE new == [pc |-> p, op |-> op, to |-> to, effective |-> period + 1]
<1>3. new \in Request /\ new.pc = p /\ new.op = op
  BY <1>1 DEF Request
<1>4. /\ req' = [req EXCEPT ![r] = new] /\ req[r].pc = "new"
      /\ UNCHANGED <<stripeVars, acked, row, tenant, intent, slot, sweep, faults>>
  BY <1>2 DEF Begin
<1> HIDE DEF new
<1>5. req' \in [Requests -> Request] /\ req'[r] = new /\ \A q \in Requests \ {r} : req'[q] = req[q]
  BY <1>1, <1>3, <1>4
<1>6. RequestsMatch'
  <2> SUFFICES ASSUME NEW q \in Requests PROVE CanBe(req'[q].pc, req'[q].op)
    BY DEF RequestsMatch
  <2>1. CASE q = r
    BY <1>2, <1>3, <1>5, <2>1 DEF CanBe
  <2>2. CASE q # r
    BY <1>5, <2>2 DEF TypeInv, RequestsMatch
  <2> QED
    BY <2>1, <2>2
<1> QED
  BY <1>2, <1>3, <1>4, <1>5, <1>6

\* A step of a request keeps the types if what it writes is proper.
LEMMA RequestStepType ==
    ASSUME TypeInv, StripeStep, UNCHANGED <<acked, row, slot, sweep>>,
           tenant' \in Tenant, intent' \in [Requests -> Intent], faults' \in 0 .. MaxFaults,
           req' \in [Requests -> Request], RequestsMatch'
    PROVE  TypeInv'
<1>1. DeliveriesCarry' /\ acked \subseteq 1 .. Len(events')
  BY CarryKept
<1>2. TypeOK'
  BY <1>1 DEF TypeInv, TypeOK, StripeStep, StripeOK
<1> QED
  BY <1>1, <1>2 DEF TypeInv

LEMMA CompareAndSetType ==
    ASSUME TypeInv, NEW r \in Requests, CompareAndSet(r) PROVE TypeInv'
<1> DEFINE to == CASE req[r].op = "downgrade" -> "plan" [] OTHER -> req[r].op
           next == IF req[r].pc = "project" THEN "record" ELSE "stripe"
<1>1. /\ req[r].pc \in {"project", "claim"} /\ CanBe(req[r].pc, req[r].op)
      /\ UNCHANGED <<stripeVars, acked, row, intent, slot, sweep, faults>>
      /\ \/ tenant' = [tenant EXCEPT !.change = to] /\ Goto(r, next)
         \/ UNCHANGED tenant /\ Goto(r, "done")
  BY DEF CompareAndSet, TypeInv, RequestsMatch
<1>2. to \in {"plan", "cancel", "reactivate"}
  BY <1>1 DEF CanBe
<1>3. next \in RequestPlaces /\ CanBe(next, req[r].op) /\ "done" \in RequestPlaces
      /\ CanBe("done", req[r].op)
  BY <1>1 DEF RequestPlaces, CanBe
<1> HIDE DEF to, next
<1>4. req' \in [Requests -> Request] /\ RequestsMatch'
  BY <1>1, <1>3, GotoType, GotoMatches DEF TypeInv
<1>5. tenant' \in Tenant
  BY <1>1, <1>2 DEF TypeInv, TypeOK, Tenant
<1>6. intent' \in [Requests -> Intent] /\ faults' \in 0 .. MaxFaults
  BY <1>1 DEF TypeInv, TypeOK
<1> QED
  BY <1>1, <1>4, <1>5, <1>6, StripeRests, RequestStepType DEF TypeInv

LEMMA RecordType ==
    ASSUME TypeInv, NEW r \in Requests, Record(r) PROVE TypeInv'
<1> DEFINE op == req[r].op
           status == CASE op = "upgrade" -> "pending" [] op = "reactivate" -> "confirmed"
                       [] OTHER -> "scheduled"
           inserted == [kind |-> IF op \in {"upgrade", "downgrade"} THEN "plan" ELSE op,
                        to |-> req[r].to, effective |-> req[r].effective, status |-> status]
<1>1. op \in {"upgrade", "downgrade", "cancel", "reactivate"}
  BY DEF Record, TypeInv, RequestsMatch, CanBe
<1>2. PICK p \in {"stripe", "done", "clear"} : Goto(r, p) /\ CanBe(p, op)
  BY <1>1 DEF Record, CanBe
<1>3. req[r] \in Request
  BY DEF TypeInv, TypeOK
<1>4. inserted \in Intent
  BY <1>1, <1>3 DEF Request, Intent, Open, Settled
<1>5. /\ UNCHANGED <<stripeVars, acked, row, tenant, slot, sweep>> /\ (NoFault \/ Fault)
      /\ \/ intent' = [intent EXCEPT ![r] = inserted]
         \/ UNCHANGED intent
  BY DEF Record
<1> HIDE DEF op, inserted
<1>6. intent' \in [Requests -> Intent] /\ tenant' \in Tenant /\ faults' \in 0 .. MaxFaults
  BY <1>4, <1>5, FaultType DEF TypeInv, TypeOK
<1>7. req' \in [Requests -> Request] /\ RequestsMatch'
  BY <1>2, GotoType, GotoMatches DEF TypeInv, RequestPlaces, op
<1> QED
  BY <1>5, <1>6, <1>7, StripeRests, RequestStepType DEF TypeInv

\* What a request asks Stripe for, and where it goes with the answer.
LEMMA CallStripeAsks ==
    ASSUME TypeInv, NEW r \in Requests, CallStripe(r)
    PROVE  /\ StripeStep /\ faults' \in 0 .. MaxFaults
           /\ UNCHANGED <<acked, row, tenant, intent, slot, sweep>>
           /\ req[r].pc = "stripe" /\ req[r].op \in {"upgrade", "cancel", "reactivate"}
           /\ \E p \in {"save", "fail", "done", "settle", "restore"} :
                /\ Goto(r, p) /\ CanBe(p, req[r].op)
                /\ p = "save" => stripe'.tier = req[r].to
<1> DEFINE asked == CASE req[r].op = "upgrade"    -> [stripe EXCEPT !.tier = req[r].to]
                      [] req[r].op = "cancel"     -> [stripe EXCEPT !.cancel = TRUE]
                      [] req[r].op = "reactivate" -> [stripe EXCEPT !.cancel = FALSE]
<1>1. /\ req[r].pc = "stripe" /\ req[r].op \in {"upgrade", "cancel", "reactivate"}
      /\ UNCHANGED <<acked, row, tenant, intent, slot, sweep>>
  BY DEF CallStripe, TypeInv, RequestsMatch, CanBe
<1>2. PICK ok \in BOOLEAN : Call(asked, ok) /\ Goto(r, AfterCall(req[r].op, ok))
  BY DEF CallStripe
<1>3. stripe \in Subscription /\ req[r].to \in Tiers
  BY DEF TypeInv, TypeOK, Request
<1>4. /\ asked \in Subscription /\ asked.status = stripe.status
      /\ req[r].op = "upgrade" => asked.tier = req[r].to
  BY <1>1, <1>3 DEF Subscription
<1> HIDE DEF asked
<1>5. StripeStep /\ faults' \in 0 .. MaxFaults /\ (ok => stripe' = asked)
  BY <1>2, <1>4, CallStep DEF TypeInv, Live
<1>6. AfterCall(req[r].op, ok) = CASE req[r].op = "upgrade" /\ ok -> "save"
                                   [] req[r].op = "cancel" /\ ok -> "done"
                                   [] req[r].op = "reactivate" /\ ok -> "settle"
                                   [] req[r].op \in {"upgrade", "cancel"} /\ ~ok -> "fail"
                                   [] req[r].op = "reactivate" /\ ~ok -> "restore"
  BY <1>1 DEF AfterCall
<1>7. \E p \in {"save", "fail", "done", "settle", "restore"} :
        /\ Goto(r, p) /\ CanBe(p, req[r].op)
        /\ p = "save" => stripe'.tier = req[r].to
  BY <1>1, <1>2, <1>4, <1>5, <1>6 DEF CanBe
<1> QED
  BY <1>1, <1>5, <1>7

LEMMA CallStripeType ==
    ASSUME TypeInv, NEW r \in Requests, CallStripe(r) PROVE TypeInv'
<1>1. PICK p \in {"save", "fail", "done", "settle", "restore"} : Goto(r, p) /\ CanBe(p, req[r].op)
  BY CallStripeAsks
<1>2. req' \in [Requests -> Request] /\ RequestsMatch'
  BY <1>1, GotoType, GotoMatches DEF TypeInv, RequestPlaces
<1>3. tenant' \in Tenant /\ intent' \in [Requests -> Intent]
  BY CallStripeAsks DEF TypeInv, TypeOK
<1> QED
  BY <1>2, <1>3, CallStripeAsks, RequestStepType

\* The other steps settle an intent or write the tenant, and then move on.
Settles(r) == FailIntent(r) \/ ConfirmInline(r) \/ SettleScheduled(r)

LEMMA SettlesStep ==
    ASSUME TypeInv, NEW r \in Requests, Settles(r)
    PROVE  /\ UNCHANGED <<stripeVars, acked, row, tenant, slot, sweep>>
           /\ \E kind \in {"cancel", "plan"}, status \in Settled :
                SetsIntents(Resolved(r, status)) \/ SetsIntents(Marked(kind, status))
           /\ \E p \in {"clear", "done", "record"} : Goto(r, p) /\ CanBe(p, req[r].op)
           /\ req[r].pc \in {"fail", "resolve", "settle"}
<1>1. CASE FailIntent(r)
  BY <1>1 DEF FailIntent, Settled, CanBe
<1>2. CASE ConfirmInline(r)
  BY <1>2 DEF ConfirmInline, Settled, CanBe
<1>3. CASE SettleScheduled(r)
  BY <1>3 DEF SettleScheduled, Settled, CanBe
<1> QED
  BY <1>1, <1>2, <1>3 DEF Settles

LEMMA SettlesType ==
    ASSUME TypeInv, NEW r \in Requests, Settles(r) PROVE TypeInv'
<1>1. PICK p \in {"clear", "done", "record"} : Goto(r, p) /\ CanBe(p, req[r].op)
  BY SettlesStep
<1>2. PICK kind \in {"cancel", "plan"}, status \in Settled :
        SetsIntents(Resolved(r, status)) \/ SetsIntents(Marked(kind, status))
  BY SettlesStep
<1>3. req' \in [Requests -> Request] /\ RequestsMatch'
  BY <1>1, GotoType, GotoMatches DEF TypeInv, RequestPlaces
<1>4. intent' \in [Requests -> Intent] /\ faults' \in 0 .. MaxFaults
  BY <1>2, IntentType DEF TypeInv
<1>5. UNCHANGED <<stripeVars, acked, row, tenant, slot, sweep>>
  BY SettlesStep
<1> QED
  BY <1>3, <1>4, <1>5, StripeRests, RequestStepType DEF TypeInv, TypeOK

Writes(r) == RestoreCancel(r) \/ SaveTier(r) \/ ClearChange(r) \/ RequestCrash(r)

LEMMA WritesStep ==
    ASSUME TypeInv, NEW r \in Requests, Writes(r)
    PROVE  /\ UNCHANGED <<stripeVars, acked, row, intent, slot, sweep>>
           /\ tenant' \in Tenant /\ faults' \in 0 .. MaxFaults
           /\ \E p \in {"resolve", "done"} : Goto(r, p) /\ CanBe(p, req[r].op)
           /\ \/ tenant'.tier = tenant.tier
              \/ req[r].pc = "save" /\ tenant'.tier = req[r].to
           /\ req[r].pc # "new"
<1>1. tenant \in Tenant /\ req[r].to \in Tiers
  BY DEF TypeInv, TypeOK, Request
<1>2. TypeOK /\ CanBe(req[r].pc, req[r].op)
  BY DEF TypeInv, RequestsMatch
<1>3. CASE RestoreCancel(r)
  <2>1. [tenant EXCEPT !.change = "cancel"] \in Tenant
    BY <1>1 DEF Tenant
  <2>2. tenant' \in Tenant /\ faults' \in 0 .. MaxFaults
    BY <1>2, <1>3, <2>1, TenantType DEF RestoreCancel
  <2>3. tenant'.tier = tenant.tier
    BY <1>1, <1>3 DEF RestoreCancel, SetsTenant, Tenant
  <2> QED
    BY <1>2, <1>3, <2>2, <2>3 DEF RestoreCancel, CanBe
<1>4. CASE SaveTier(r)
  <2>1. [tenant EXCEPT !.tier = req[r].to] \in Tenant
    BY <1>1 DEF Tenant
  <2>2. [tenant EXCEPT !.tier = req[r].to].tier = req[r].to
    BY <1>1 DEF Tenant
  <2>3. tenant' \in Tenant /\ (tenant'.tier = tenant.tier \/ tenant'.tier = req[r].to)
    BY <1>1, <1>4, <2>1, <2>2 DEF SaveTier
  <2>4. faults' \in 0 .. MaxFaults
    BY <1>2, <1>4, FaultType DEF SaveTier
  <2>5. \E p \in {"resolve", "done"} : Goto(r, p) /\ CanBe(p, req[r].op)
    BY <1>2, <1>4 DEF SaveTier, AfterSave, CanBe
  <2> QED
    BY <1>4, <2>3, <2>4, <2>5 DEF SaveTier
<1>5. CASE ClearChange(r)
  <2>1. Cleared \in Tenant /\ Cleared.tier = tenant.tier
    BY <1>1 DEF Cleared, Tenant
  <2>2. tenant' \in Tenant /\ faults' \in 0 .. MaxFaults
    BY <1>2, <1>5, <2>1, TenantType DEF ClearChange
  <2>3. tenant'.tier = tenant.tier
    BY <1>5, <2>1 DEF ClearChange, SetsTenant
  <2> QED
    BY <1>2, <1>5, <2>2, <2>3 DEF ClearChange, CanBe
<1>6. CASE RequestCrash(r)
  <2>1. faults' \in 0 .. MaxFaults
    BY <1>2, <1>6, FaultType DEF RequestCrash
  <2> QED
    BY <1>1, <1>2, <1>6, <2>1 DEF RequestCrash, InFlight, CanBe
<1> QED
  BY <1>3, <1>4, <1>5, <1>6 DEF Writes

LEMMA WritesType ==
    ASSUME TypeInv, NEW r \in Requests, Writes(r) PROVE TypeInv'
<1>1. PICK p \in {"resolve", "done"} : Goto(r, p) /\ CanBe(p, req[r].op)
  BY WritesStep
<1>2. req' \in [Requests -> Request] /\ RequestsMatch'
  BY <1>1, GotoType, GotoMatches DEF TypeInv, RequestPlaces
<1>3. intent' \in [Requests -> Intent] /\ UNCHANGED stripeVars
  BY WritesStep DEF TypeInv, TypeOK
<1> QED
  BY <1>2, <1>3, WritesStep, StripeRests, RequestStepType DEF TypeInv

\* Every step of a request keeps the types.
LEMMA RequestsType ==
    ASSUME TypeInv, NEW r \in Requests, Reads(r) \/ Proceed(r) \/ RequestCrash(r)
    PROVE  TypeInv'
<1>1. CASE Reads(r)
  <2>1. /\ UNCHANGED <<stripeVars, acked, row, tenant, intent, slot, sweep, faults>>
        /\ req' \in [Requests -> Request] /\ RequestsMatch'
    BY <1>1, ReadsMatch
  <2>2. tenant' \in Tenant /\ intent' \in [Requests -> Intent] /\ faults' \in 0 .. MaxFaults
    BY <2>1 DEF TypeInv, TypeOK
  <2> QED
    BY <2>1, <2>2, StripeRests, RequestStepType DEF TypeInv
<1> QED
  BY <1>1, CompareAndSetType, RecordType, CallStripeType, SettlesType, WritesType
     DEF Proceed, Settles, Writes

--------------------------------------------------------------------------------
(* The steps of a delivery *)

\* A step of a delivery keeps the types if what it writes is proper.
LEMMA DeliveryStepType ==
    ASSUME TypeInv, NEW w \in Slots, UNCHANGED <<stripeVars, req, sweep>>,
           acked' \subseteq 1 .. Len(events), row' \in [1 .. MaxEvents -> {"none", "received", "failed", "processed"}],
           tenant' \in Tenant, intent' \in [Requests -> Intent], faults' \in 0 .. MaxFaults,
           slot' \in [Slots -> Delivery], \A v \in Slots \ {w} : slot'[v] = slot[v],
           Carries(slot'[w])
    PROVE  TypeInv'
<1>1. UNCHANGED <<stripe, paid, period, events, req, sweep>>
  BY DEF stripeVars
<1>2. TypeOK'
  BY <1>1 DEF TypeInv, TypeOK
<1>3. DeliveriesCarry'
  <2> SUFFICES ASSUME NEW v \in Slots PROVE Carries(slot[v])'
    BY DEF DeliveriesCarry
  <2>1. Carries(slot'[v])
    BY DEF TypeInv, DeliveriesCarry
  <2> QED
    BY <1>1, <2>1 DEF Carries
<1>4. RequestsMatch'
  BY <1>1 DEF TypeInv, RequestsMatch
<1> QED
  BY <1>2, <1>3, <1>4 DEF TypeInv

\* The event a delivery at work carries.
LEMMA Carried ==
    ASSUME TypeInv, NEW w \in Slots, slot[w].pc # "idle"
    PROVE  /\ slot[w].event \in 1 .. Len(events) /\ slot[w].event \in 1 .. MaxEvents
           /\ Snapshot(w) \in Event
           /\ (Snapshot(w).kind = "updated" /\ slot[w].pc = "apply") => Snapshot(w).status # "incomplete"
           /\ (Snapshot(w).kind = "updated" /\ slot[w].pc = "stamp") => Snapshot(w).status = "past_due"
<1>1. Carries(slot[w])
  BY DEF TypeInv, DeliveriesCarry
<1>2. slot[w].event \in 1 .. Len(events)
  BY <1>1 DEF Carries
<1>3. events \in Seq(Event) /\ Len(events) <= MaxEvents /\ MaxEvents \in Nat
  BY BillingConstants DEF TypeInv, TypeOK, BillingConstants
<1>4. Snapshot(w) \in Event /\ slot[w].event \in 1 .. MaxEvents
  BY <1>2, <1>3 DEF Snapshot
<1> QED
  BY <1>1, <1>2, <1>4 DEF Carries, Snapshot

\* A delivery that moves on to where its event allows.
LEMMA SlotGotoCarries ==
    ASSUME TypeInv, NEW w \in Slots, slot[w].pc # "idle", NEW p \in DeliveryPlaces, SlotGoto(w, p),
           (Snapshot(w).kind = "updated" /\ p = "apply") => Snapshot(w).status # "incomplete",
           (Snapshot(w).kind = "updated" /\ p = "stamp") => Snapshot(w).status = "past_due"
    PROVE  /\ slot' \in [Slots -> Delivery] /\ Carries(slot'[w])
           /\ \A v \in Slots \ {w} : slot'[v] = slot[v]
<1>1. /\ slot' \in [Slots -> Delivery]
      /\ slot'[w].pc = p /\ slot'[w].event = slot[w].event
      /\ \A v \in Slots \ {w} : slot'[v] = slot[v]
  BY SlotGotoType DEF TypeInv
<1>2. slot[w].event \in 1 .. Len(events)
  BY Carried
<1> QED
  BY <1>1, <1>2 DEF Carries, Snapshot

\* A delivery that is over, or was lost.
LEMMA SlotRestsCarries ==
    ASSUME TypeInv, NEW w \in Slots, SlotRests(w)
    PROVE  /\ slot' \in [Slots -> Delivery] /\ Carries(slot'[w])
           /\ \A v \in Slots \ {w} : slot'[v] = slot[v]
<1>1. NoDelivery \in Delivery /\ NoDelivery.pc = "idle"
  BY BillingConstants DEF NoDelivery, Delivery, BillingConstants
<1>2. slot' = [slot EXCEPT ![w] = NoDelivery] /\ slot \in [Slots -> Delivery]
  BY DEF SlotRests, TypeInv, TypeOK
<1> QED
  BY <1>1, <1>2 DEF Carries

LEMMA AfterReadFits ==
    ASSUME NEW status \in Statuses
    PROVE  /\ AfterRead(status) \in {"mark", "stamp", "apply"}
           /\ AfterRead(status) = "apply" => status # "incomplete"
           /\ AfterRead(status) = "stamp" => status = "past_due"
  BY DEF AfterRead, Statuses

LEMMA ReceiveType ==
    ASSUME TypeInv, NEW w \in Slots, NEW e \in 1 .. MaxEvents, Receive(w, e)
    PROVE  TypeInv'
<1>1. /\ UNCHANGED <<stripeVars, tenant, intent, req, sweep, faults>>
      /\ slot[w].pc = "idle" /\ e \in 1 .. Len(events)
  BY DEF Receive
<1>2. /\ slot \in [Slots -> Delivery] /\ events \in Seq(Event) /\ acked \subseteq 1 .. Len(events)
      /\ row \in [1 .. MaxEvents -> {"none", "received", "failed", "processed"}]
      /\ tenant' \in Tenant /\ intent' \in [Requests -> Intent] /\ faults' \in 0 .. MaxFaults
  BY <1>1 DEF TypeInv, TypeOK
<1>3. events[e] \in Event
  BY <1>1, <1>2
<1>4. acked' \subseteq 1 .. Len(events)
  BY <1>1, <1>2 DEF Receive
<1>5. row' \in [1 .. MaxEvents -> {"none", "received", "failed", "processed"}]
  BY <1>1, <1>2 DEF Receive
<1>6. /\ slot' \in [Slots -> Delivery] /\ Carries(slot'[w])
      /\ \A v \in Slots \ {w} : slot'[v] = slot[v]
  <2>1. CASE UNCHANGED slot
    BY <1>1, <1>2, <2>1 DEF Carries
  <2>2. CASE ~UNCHANGED slot
    <3> DEFINE new == [pc |-> FirstWork(events[e].kind), event |-> e, change |-> "keep", batch |-> {}]
    <3>1. slot' = [slot EXCEPT ![w] = new]
      BY <2>2 DEF Receive
    <3>2. FirstWork(events[e].kind) = IF events[e].kind = "updated" THEN "read" ELSE "apply"
      BY DEF FirstWork
    <3>3. new \in Delivery
      BY <3>2 DEF Delivery
    <3>4. Carries(new)
      BY <1>1, <3>2 DEF Carries
    <3> HIDE DEF new
    <3> QED
      BY <1>2, <3>1, <3>3, <3>4
  <2> QED
    BY <2>1, <2>2
<1> QED
  BY <1>1, <1>2, <1>4, <1>5, <1>6, DeliveryStepType

LEMMA UpdatedReadType ==
    ASSUME TypeInv, NEW w \in Slots, UpdatedRead(w) PROVE TypeInv'
<1> DEFINE change == CASE Snapshot(w).cancel -> "cancel"
                       [] ~Snapshot(w).cancel /\ tenant.change = "cancel" -> "clear"
                       [] OTHER -> "keep"
           next == IF change = "clear" THEN "settle" ELSE AfterRead(Snapshot(w).status)
           new == [slot[w] EXCEPT !.change = change, !.pc = next]
<1>1. /\ UNCHANGED <<stripeVars, acked, row, tenant, intent, req, sweep, faults>>
      /\ slot[w].pc = "read" /\ slot' = [slot EXCEPT ![w] = new]
  BY DEF UpdatedRead
<1>2. /\ Snapshot(w).status \in Statuses /\ Snapshot(w).cancel \in BOOLEAN
      /\ slot[w].event \in 1 .. Len(events)
  BY <1>1, Carried DEF Event
<1>3. slot[w] \in Delivery /\ slot \in [Slots -> Delivery]
  BY DEF TypeInv, TypeOK
<1>4. change \in {"keep", "clear", "cancel"}
  BY <1>2
<1>5. /\ next \in {"settle", "mark", "stamp", "apply"}
      /\ next = "apply" => Snapshot(w).status # "incomplete"
      /\ next = "stamp" => Snapshot(w).status = "past_due"
  <2> HIDE DEF change
  <2> QED
    BY <1>2, AfterReadFits
<1> HIDE DEF change, next
<1>6. new \in Delivery /\ new.pc = next /\ new.event = slot[w].event
  BY <1>3, <1>4, <1>5 DEF Delivery
<1>7. Carries(new)
  BY <1>2, <1>5, <1>6 DEF Carries, Snapshot
<1> HIDE DEF new
<1>8. /\ slot' \in [Slots -> Delivery] /\ Carries(slot'[w])
      /\ \A v \in Slots \ {w} : slot'[v] = slot[v]
  BY <1>1, <1>3, <1>6, <1>7
<1>9. /\ acked' \subseteq 1 .. Len(events) /\ row' \in [1 .. MaxEvents -> {"none", "received", "failed", "processed"}]
      /\ tenant' \in Tenant /\ intent' \in [Requests -> Intent] /\ faults' \in 0 .. MaxFaults
  BY <1>1 DEF TypeInv, TypeOK
<1> QED
  BY <1>1, <1>8, <1>9, DeliveryStepType

LEMMA SettleCancelsType ==
    ASSUME TypeInv, NEW w \in Slots, SettleCancels(w) PROVE TypeInv'
<1>1. /\ UNCHANGED <<stripeVars, acked, row, tenant, req, sweep>> /\ slot[w].pc = "settle"
  BY DEF SettleCancels
<1>2. Snapshot(w).status \in Statuses
  BY <1>1, Carried DEF Event
<1>3. PICK status \in Settled, p \in {"mark", "stamp", "apply"} :
        /\ SetsIntents(Marked("cancel", status)) /\ SlotGoto(w, p)
        /\ p \in {"stamp", "apply"} => p = AfterRead(Snapshot(w).status)
  BY <1>2, AfterReadFits DEF SettleCancels, Settled
<1>4. /\ slot' \in [Slots -> Delivery] /\ Carries(slot'[w])
      /\ \A v \in Slots \ {w} : slot'[v] = slot[v]
  BY <1>1, <1>2, <1>3, AfterReadFits, SlotGotoCarries DEF DeliveryPlaces
<1>5. intent' \in [Requests -> Intent] /\ faults' \in 0 .. MaxFaults
  <2>1. PICK r : r \in Requests
    BY BillingConstants DEF BillingConstants
  <2> QED
    BY <1>3, <2>1, IntentType DEF TypeInv
<1>6. /\ acked' \subseteq 1 .. Len(events) /\ row' \in [1 .. MaxEvents -> {"none", "received", "failed", "processed"}]
      /\ tenant' \in Tenant
  BY <1>1 DEF TypeInv, TypeOK
<1> QED
  BY <1>1, <1>4, <1>5, <1>6, DeliveryStepType

LEMMA StampPastDueType ==
    ASSUME TypeInv, NEW w \in Slots, StampPastDue(w) PROVE TypeInv' /\ tenant'.tier = tenant.tier
<1>1. /\ UNCHANGED <<stripeVars, acked, row, intent, req, sweep>> /\ slot[w].pc = "stamp"
      /\ Fault \/ NoFault
      /\ tenant' = [tenant EXCEPT !.pastDueAt = TRUE] \/ tenant' = tenant
  BY DEF StampPastDue
<1>2. PICK p \in {"apply", "mark", "fail"} :
        SlotGoto(w, p) /\ (p = "apply" => Snapshot(w).kind = "updated")
  BY DEF StampPastDue
<1>3. Snapshot(w).kind = "updated" => Snapshot(w).status = "past_due"
  BY <1>1, Carried
<1>4. /\ slot' \in [Slots -> Delivery] /\ Carries(slot'[w])
      /\ \A v \in Slots \ {w} : slot'[v] = slot[v]
  BY <1>1, <1>2, <1>3, SlotGotoCarries DEF DeliveryPlaces
<1>5. tenant' \in Tenant /\ tenant'.tier = tenant.tier
  BY <1>1 DEF TypeInv, TypeOK, Tenant
<1>6. /\ acked' \subseteq 1 .. Len(events) /\ row' \in [1 .. MaxEvents -> {"none", "received", "failed", "processed"}]
      /\ intent' \in [Requests -> Intent] /\ faults' \in 0 .. MaxFaults
  BY <1>1, FaultType DEF TypeInv, TypeOK
<1> QED
  BY <1>1, <1>4, <1>5, <1>6, DeliveryStepType

\* The tenant an event leaves: its tier is the tenant's own or the event's.
LEMMA AppliedTenant ==
    ASSUME TypeInv, NEW w \in Slots, Apply(w)
    PROVE  tenant' \in Tenant /\ tenant'.tier \in {tenant.tier, Snapshot(w).tier}
<1>1. slot[w].pc = "apply" /\ slot[w] \in Delivery /\ tenant \in Tenant
  BY DEF Apply, TypeInv, TypeOK
<1>2. /\ Snapshot(w) \in Event
      /\ Snapshot(w).kind = "updated" => Snapshot(w).status # "incomplete"
  BY <1>1, Carried
<1>3. Snapshot(w).kind \in {"checkout", "updated", "deleted", "payment_failed"}
  BY <1>2 DEF Event
<1>4. CASE UNCHANGED tenant
  BY <1>1, <1>4
<1>5. CASE Snapshot(w).kind = "updated" /\ tenant' = Updated(Snapshot(w), slot[w].change)
  <2> DEFINE event == Snapshot(w)
             change == slot[w].change
  <2>1. /\ event.tier \in Tiers /\ event.status \in Statuses \ {"incomplete"}
        /\ change \in {"keep", "clear", "cancel"} /\ tenant.change \in {"", "plan", "cancel", "reactivate"}
        /\ tenant.pastDueAt \in BOOLEAN
    BY <1>1, <1>2, <1>5 DEF Event, Delivery, Tenant
  <2> HIDE DEF event, change
  <2>2. StatusOf(event.status) \in {"trial", "active", "past_due", "canceled"}
    BY <2>1 DEF StatusOf, Statuses
  <2>3. Updated(event, change).change \in {"", "plan", "cancel", "reactivate"}
    BY <2>1 DEF Updated
  <2>4. Updated(event, change).pastDueAt \in BOOLEAN
    BY <2>1 DEF Updated, KeepsClock
  <2>5. Updated(event, change) \in Tenant /\ Updated(event, change).tier = event.tier
    BY <2>1, <2>2, <2>3, <2>4 DEF Updated, Tenant
  <2> QED
    BY <1>5, <2>5 DEF event, change
<1>6. CASE \E st \in {"trial", "active"} :
             tenant' = [tenant EXCEPT !.sub = TRUE, !.pastDueAt = FALSE, !.status = st]
  BY <1>1, <1>6 DEF Tenant
<1>7. CASE tenant' = [tenant EXCEPT !.status = "canceled", !.change = ""]
  BY <1>1, <1>7 DEF Tenant
<1>8. CASE tenant' = [tenant EXCEPT !.status = "past_due"]
  BY <1>1, <1>8 DEF Tenant
<1> QED
  BY <1>3, <1>4, <1>5, <1>6, <1>7, <1>8 DEF Apply

LEMMA ApplyType ==
    ASSUME TypeInv, NEW w \in Slots, Apply(w) PROVE TypeInv'
<1>1. /\ UNCHANGED <<stripeVars, acked, row, intent, req, sweep>> /\ slot[w].pc = "apply"
      /\ Fault \/ NoFault
  BY DEF Apply
<1>2. Snapshot(w).kind \in {"checkout", "updated", "deleted", "payment_failed"}
  BY <1>1, Carried DEF Event
<1>3. PICK p \in {"list", "mark", "settle", "stamp", "fail"} :
        SlotGoto(w, p) /\ (p = "stamp" => Snapshot(w).kind # "updated")
  BY <1>2 DEF Apply
<1>4. /\ slot' \in [Slots -> Delivery] /\ Carries(slot'[w])
      /\ \A v \in Slots \ {w} : slot'[v] = slot[v]
  BY <1>1, <1>3, SlotGotoCarries DEF DeliveryPlaces
<1>5. /\ acked' \subseteq 1 .. Len(events) /\ row' \in [1 .. MaxEvents -> {"none", "received", "failed", "processed"}]
      /\ intent' \in [Requests -> Intent] /\ faults' \in 0 .. MaxFaults
  BY <1>1, FaultType DEF TypeInv, TypeOK
<1> QED
  BY <1>1, <1>4, <1>5, AppliedTenant, DeliveryStepType

LEMMA ListPendingType ==
    ASSUME TypeInv, NEW w \in Slots, ListPending(w) PROVE TypeInv'
<1> DEFINE pending == {r \in Requests : intent[r].status = "pending"}
           next == IF pending = {} THEN "mark" ELSE "confirm"
           new == [slot[w] EXCEPT !.batch = pending, !.pc = next]
<1>1. /\ UNCHANGED <<stripeVars, acked, row, tenant, intent, req, sweep, faults>>
      /\ slot[w].pc = "list" /\ slot' = [slot EXCEPT ![w] = new]
  BY DEF ListPending
<1>2. slot[w] \in Delivery /\ slot \in [Slots -> Delivery] /\ slot[w].event \in 1 .. Len(events)
  BY <1>1, Carried DEF TypeInv, TypeOK
<1>3. pending \subseteq Requests /\ next \in {"mark", "confirm"}
  OBVIOUS
<1> HIDE DEF pending, next
<1>4. new \in Delivery /\ new.pc = next /\ new.event = slot[w].event
  BY <1>2, <1>3 DEF Delivery
<1>5. Carries(new)
  BY <1>2, <1>3, <1>4 DEF Carries
<1> HIDE DEF new
<1>6. /\ slot' \in [Slots -> Delivery] /\ Carries(slot'[w])
      /\ \A v \in Slots \ {w} : slot'[v] = slot[v]
  BY <1>1, <1>2, <1>4, <1>5
<1>7. /\ acked' \subseteq 1 .. Len(events) /\ row' \in [1 .. MaxEvents -> {"none", "received", "failed", "processed"}]
      /\ tenant' \in Tenant /\ intent' \in [Requests -> Intent] /\ faults' \in 0 .. MaxFaults
  BY <1>1 DEF TypeInv, TypeOK
<1> QED
  BY <1>1, <1>6, <1>7, DeliveryStepType

LEMMA ConfirmPendingType ==
    ASSUME TypeInv, NEW w \in Slots, ConfirmPending(w) PROVE TypeInv'
<1>1. /\ UNCHANGED <<stripeVars, acked, row, tenant, req, sweep>> /\ slot[w].pc = "confirm"
  BY DEF ConfirmPending
<1>2. slot[w] \in Delivery /\ slot \in [Slots -> Delivery] /\ slot[w].event \in 1 .. Len(events)
  BY <1>1, Carried DEF TypeInv, TypeOK
<1>3. PICK r \in slot[w].batch :
        /\ SetsIntents(Resolved(r, "confirmed"))
        /\ slot' = [slot EXCEPT ![w].batch = @ \ {r},
                                ![w].pc = IF slot[w].batch = {r} THEN "mark" ELSE "confirm"]
  BY DEF ConfirmPending
<1> DEFINE next == IF slot[w].batch = {r} THEN "mark" ELSE "confirm"
           new == [slot[w] EXCEPT !.batch = @ \ {r}, !.pc = next]
<1>4. r \in Requests /\ slot' = [slot EXCEPT ![w] = new] /\ next \in {"mark", "confirm"}
  BY <1>2, <1>3 DEF Delivery
<1> HIDE DEF next
<1>5. new \in Delivery /\ new.pc = next /\ new.event = slot[w].event
  BY <1>2, <1>4 DEF Delivery
<1>6. Carries(new)
  BY <1>2, <1>4, <1>5 DEF Carries
<1> HIDE DEF new
<1>7. /\ slot' \in [Slots -> Delivery] /\ Carries(slot'[w])
      /\ \A v \in Slots \ {w} : slot'[v] = slot[v]
  BY <1>2, <1>4, <1>5, <1>6
<1>8. intent' \in [Requests -> Intent] /\ faults' \in 0 .. MaxFaults
  BY <1>3, <1>4, IntentType DEF TypeInv, Settled
<1>9. /\ acked' \subseteq 1 .. Len(events) /\ row' \in [1 .. MaxEvents -> {"none", "received", "failed", "processed"}]
      /\ tenant' \in Tenant
  BY <1>1 DEF TypeInv, TypeOK
<1> QED
  BY <1>1, <1>7, <1>8, <1>9, DeliveryStepType

\* The end of a delivery: done, failed or crashed.
Ends(w) == MarkProcessed(w) \/ MarkFailed(w) \/ SlotCrash(w)

LEMMA EndsType ==
    ASSUME TypeInv, NEW w \in Slots, Ends(w) PROVE TypeInv'
<1>1. /\ UNCHANGED <<stripeVars, tenant, intent, req, sweep>> /\ SlotRests(w) /\ slot[w].pc # "idle"
      /\ \/ row' = row
         \/ row' = [row EXCEPT ![slot[w].event] = "processed"]
         \/ row' = [row EXCEPT ![slot[w].event] = "failed"]
      /\ acked' = acked \/ acked' = acked \cup {slot[w].event}
      /\ Fault \/ NoFault
  BY DEF Ends, MarkProcessed, MarkFailed, SlotCrash, NoFault
<1>2. slot[w].event \in 1 .. Len(events) /\ slot[w].event \in 1 .. MaxEvents
  BY <1>1, Carried
<1>3. acked' \subseteq 1 .. Len(events) /\ row' \in [1 .. MaxEvents -> {"none", "received", "failed", "processed"}]
  BY <1>1, <1>2 DEF TypeInv, TypeOK
<1>4. tenant' \in Tenant /\ intent' \in [Requests -> Intent] /\ faults' \in 0 .. MaxFaults
  BY <1>1, FaultType DEF TypeInv, TypeOK
<1> QED
  BY <1>1, <1>3, <1>4, SlotRestsCarries, DeliveryStepType

\* Every step of a delivery keeps the types.
LEMMA DeliveriesType ==
    ASSUME TypeInv, NEW w \in Slots,
           Process(w) \/ SlotCrash(w) \/ \E e \in 1 .. MaxEvents : Receive(w, e)
    PROVE  TypeInv'
  BY ReceiveType, UpdatedReadType, SettleCancelsType, StampPastDueType, ApplyType, ListPendingType,
     ConfirmPendingType, EndsType DEF Process, Ends

--------------------------------------------------------------------------------
(* The steps of a sweep *)

\* A step of a sweep keeps the types if what it writes is proper.
LEMMA SweepStepType ==
    ASSUME TypeInv, StripeStep, UNCHANGED <<acked, row, req, slot>>,
           tenant' \in Tenant, intent' \in [Requests -> Intent], faults' \in 0 .. MaxFaults,
           sweep' \in [Sweepers -> Round]
    PROVE  TypeInv'
<1>1. DeliveriesCarry' /\ acked \subseteq 1 .. Len(events')
  BY CarryKept
<1>2. TypeOK'
  BY <1>1 DEF TypeInv, TypeOK, StripeStep, StripeOK
<1> QED
  BY <1>1, <1>2 DEF TypeInv, RequestsMatch

LEMMA SweepRestsType ==
    ASSUME TypeOK, NEW s \in Sweepers, SweepRests(s)
    PROVE  sweep' \in [Sweepers -> Round] /\ sweep'[s].pc = "idle"
           /\ \A v \in Sweepers \ {s} : sweep'[v] = sweep[v]
<1>1. (CHOOSE r \in Requests : TRUE) \in Requests
  <2>1. \E r \in Requests : TRUE
    BY BillingConstants DEF BillingConstants
  <2> QED
    BY <2>1
<1> DEFINE some == CHOOSE r \in Requests : TRUE
<1>2. 1 \in Tiers
  BY BillingConstants DEF BillingConstants, Tiers
<1>3. NoRound = [pc |-> "idle", phase |-> "stale", batch |-> {}, at |-> some, tier |-> 1,
                 outcome |-> "confirmed"]
  BY DEF NoRound
<1> HIDE DEF some
<1>4. NoRound \in Round /\ NoRound.pc = "idle"
  BY <1>1, <1>2, <1>3 DEF Round, Settled, some
<1> QED
  BY <1>4 DEF SweepRests, TypeOK

LEMMA SweepListType ==
    ASSUME TypeInv, NEW s \in Sweepers, SweepList(s)
    PROVE  TypeInv' /\ sweep'[s].pc # "save" /\ \A v \in Sweepers \ {s} : sweep'[v] = sweep[v]
<1>1. UNCHANGED <<stripeVars, acked, row, tenant, intent, req, slot, faults>>
  BY DEF SweepList
<1>2. /\ sweep' \in [Sweepers -> Round] /\ sweep'[s].pc # "save"
      /\ \A v \in Sweepers \ {s} : sweep'[v] = sweep[v]
  <2>1. CASE SweepRests(s)
    BY <2>1, SweepRestsType DEF TypeInv
  <2>2. ASSUME NEW phase \in {"stale", "due", "cancel"}, NEW batch \in SUBSET Requests,
               Begins(s, phase, batch)
        PROVE  /\ sweep' \in [Sweepers -> Round] /\ sweep'[s].pc # "save"
               /\ \A v \in Sweepers \ {s} : sweep'[v] = sweep[v]
    <3> DEFINE new == [sweep[s] EXCEPT !.pc = "next", !.phase = phase, !.batch = batch]
    <3>1. sweep[s] \in Round /\ sweep \in [Sweepers -> Round]
      BY DEF TypeInv, TypeOK
    <3>2. new \in Round /\ new.pc = "next"
      BY <2>2, <3>1 DEF Round
    <3>3. sweep' = [sweep EXCEPT ![s] = new]
      BY <2>2 DEF Begins
    <3> HIDE DEF new
    <3> QED
      BY <3>1, <3>2, <3>3
  <2>3. /\ {r \in Requests : Stale(r)} \in SUBSET Requests
        /\ {r \in Requests : Due(r)} \in SUBSET Requests
        /\ {r \in Requests : Scheduled(r)} \in SUBSET Requests
    OBVIOUS
  <2> QED
    BY <2>1, <2>2, <2>3 DEF SweepList
<1>3. tenant' \in Tenant /\ intent' \in [Requests -> Intent] /\ faults' \in 0 .. MaxFaults
  BY <1>1 DEF TypeInv, TypeOK
<1> QED
  BY <1>1, <1>2, <1>3, StripeRests, SweepStepType DEF TypeInv

\* A sweep about to save a tier looked it up at Stripe.
LEMMA SweepLookType ==
    ASSUME TypeInv, NEW s \in Sweepers, SweepLook(s)
    PROVE  /\ TypeInv' /\ UNCHANGED <<stripeVars, tenant, req>>
           /\ sweep'[s].pc = "save" => sweep'[s].tier = stripe.tier
           /\ \A v \in Sweepers \ {s} : sweep'[v] = sweep[v]
<1>1. UNCHANGED <<stripeVars, acked, row, tenant, intent, req, slot, faults>> /\ sweep[s].pc = "next"
  BY DEF SweepLook
<1>2. /\ sweep[s] \in Round /\ sweep \in [Sweepers -> Round] /\ stripe.tier \in Tiers
      /\ intent \in [Requests -> Intent] /\ stripe.cancel \in BOOLEAN
  BY DEF TypeInv, TypeOK, Subscription
<1> DEFINE phase == sweep[s].phase
           tierOf(r) == IF phase = "due" THEN intent[r].to ELSE stripe.tier
           outcome == IF phase = "cancel" THEN "canceled" ELSE "confirmed"
           placeOf(r) == CASE phase = "stale" -> "save"
                           [] phase = "due" /\ stripe.tier # intent[r].to -> "price"
                           [] phase = "due" /\ stripe.tier = intent[r].to -> "save"
                           [] phase = "cancel" -> IF stripe.cancel THEN "save" ELSE "resolve"
           found(r) == [sweep[s] EXCEPT !.batch = @ \ {r}, !.at = r, !.tier = tierOf(r),
                                        !.outcome = outcome, !.pc = placeOf(r)]
<1>3. PICK r \in sweep[s].batch : sweep' = [sweep EXCEPT ![s] = found(r)]
  BY DEF SweepLook
<1>4. r \in Requests /\ phase \in {"stale", "due", "cancel"}
  BY <1>2, <1>3 DEF Round
<1>5. intent[r].to \in Tiers
  BY <1>2, <1>4 DEF Intent
<1>6. /\ tierOf(r) \in Tiers /\ outcome \in Settled
      /\ placeOf(r) \in {"save", "price", "resolve"}
      /\ placeOf(r) = "save" => tierOf(r) = stripe.tier
  <2> HIDE DEF phase
  <2> QED
    BY <1>2, <1>4, <1>5 DEF Settled
<1> DEFINE new == found(r)
<1> HIDE DEF phase, tierOf, outcome, placeOf
<1>7. new \in Round /\ new.pc = placeOf(r) /\ new.tier = tierOf(r)
  BY <1>2, <1>4, <1>6 DEF Round
<1>8. sweep' = [sweep EXCEPT ![s] = new]
  BY <1>3
<1> HIDE DEF new, found
<1>9. /\ sweep' \in [Sweepers -> Round] /\ sweep'[s] = new
      /\ \A v \in Sweepers \ {s} : sweep'[v] = sweep[v]
  BY <1>2, <1>7, <1>8
<1>10. tenant' \in Tenant /\ intent' \in [Requests -> Intent] /\ faults' \in 0 .. MaxFaults
  BY <1>1 DEF TypeInv, TypeOK
<1>11. TypeInv'
  BY <1>1, <1>9, <1>10, StripeRests, SweepStepType DEF TypeInv
<1> QED
  BY <1>1, <1>6, <1>7, <1>9, <1>11

LEMMA SweepLookFailsType ==
    ASSUME TypeInv, NEW s \in Sweepers, SweepLookFails(s)
    PROVE  TypeInv' /\ sweep'[s].pc # "save" /\ \A v \in Sweepers \ {s} : sweep'[v] = sweep[v]
<1>1. UNCHANGED <<stripeVars, acked, row, tenant, intent, req, slot>> /\ Fault /\ sweep[s].pc = "next"
  BY DEF SweepLookFails
<1>2. sweep[s] \in Round /\ sweep \in [Sweepers -> Round]
  BY DEF TypeInv, TypeOK
<1>3. PICK r \in sweep[s].batch :
        \/ sweep' = [sweep EXCEPT ![s].batch = @ \ {r}]
        \/ sweep' = [sweep EXCEPT ![s].batch = @ \ {r}, ![s].at = r,
                                  ![s].outcome = "failed", ![s].pc = "resolve"]
  BY DEF SweepLookFails
<1> DEFINE left == [sweep[s] EXCEPT !.batch = @ \ {r}]
           given == [sweep[s] EXCEPT !.batch = @ \ {r}, !.at = r, !.outcome = "failed",
                                     !.pc = "resolve"]
<1>4. r \in Requests
  BY <1>2, <1>3 DEF Round
<1>5. left \in Round /\ left.pc = "next"
  BY <1>1, <1>2 DEF Round
<1>6. given \in Round /\ given.pc = "resolve"
  BY <1>2, <1>4 DEF Round, Settled
<1>7. sweep' = [sweep EXCEPT ![s] = left] \/ sweep' = [sweep EXCEPT ![s] = given]
  BY <1>3
<1> HIDE DEF left, given
<1>8. /\ sweep' \in [Sweepers -> Round] /\ sweep'[s].pc # "save"
      /\ \A v \in Sweepers \ {s} : sweep'[v] = sweep[v]
  BY <1>2, <1>5, <1>6, <1>7
<1>9. tenant' \in Tenant /\ intent' \in [Requests -> Intent] /\ faults' \in 0 .. MaxFaults
  BY <1>1, FaultType DEF TypeInv, TypeOK
<1> QED
  BY <1>1, <1>8, <1>9, StripeRests, SweepStepType DEF TypeInv

\* A sweep goes on to save a tier once Stripe took it.
LEMMA SweepPriceType ==
    ASSUME TypeInv, NEW s \in Sweepers, SweepPrice(s)
    PROVE  /\ TypeInv' /\ StripeStep /\ UNCHANGED <<tenant, req>>
           /\ sweep'[s].pc = "save" => sweep'[s].tier = stripe'.tier
           /\ \A v \in Sweepers \ {s} : sweep'[v] = sweep[v]
<1> DEFINE asked == [stripe EXCEPT !.tier = sweep[s].tier]
<1>1. PICK ok \in BOOLEAN : Call(asked, ok) /\ SweepGoto(s, IF ok THEN "save" ELSE "next")
  BY DEF SweepPrice
<1>2. UNCHANGED <<acked, row, tenant, intent, req, slot>>
  BY DEF SweepPrice
<1>3. sweep[s] \in Round /\ stripe \in Subscription
  BY DEF TypeInv, TypeOK
<1>4. asked \in Subscription /\ asked.status = stripe.status /\ asked.tier = sweep[s].tier
  BY <1>3 DEF Round, Subscription
<1> HIDE DEF asked
<1>5. StripeStep /\ faults' \in 0 .. MaxFaults /\ (ok => stripe' = asked)
  BY <1>1, <1>4, CallStep DEF TypeInv, Live
<1> DEFINE p == IF ok THEN "save" ELSE "next"
<1>6. p \in SweepPlaces /\ SweepGoto(s, p) /\ (p = "save" => ok)
  BY <1>1 DEF SweepPlaces
<1> HIDE DEF p
<1>7. /\ sweep' \in [Sweepers -> Round] /\ sweep'[s].pc = p /\ sweep'[s].tier = sweep[s].tier
      /\ \A v \in Sweepers \ {s} : sweep'[v] = sweep[v]
  BY <1>6, SweepGotoType DEF TypeInv
<1>8. tenant' \in Tenant /\ intent' \in [Requests -> Intent]
  BY <1>2 DEF TypeInv, TypeOK
<1>9. TypeInv'
  BY <1>2, <1>5, <1>7, <1>8, SweepStepType
<1> QED
  BY <1>2, <1>4, <1>5, <1>6, <1>7, <1>9

\* The tenant a sweep saves has its own tier or the one the sweep looked up.
LEMMA SweepSaveType ==
    ASSUME TypeInv, NEW s \in Sweepers, SweepSave(s)
    PROVE  /\ TypeInv' /\ UNCHANGED <<stripeVars, req>>
           /\ sweep[s].pc = "save" /\ tenant'.tier \in {tenant.tier, sweep[s].tier}
           /\ sweep'[s].pc # "save" /\ \A v \in Sweepers \ {s} : sweep'[v] = sweep[v]
<1>1. /\ UNCHANGED <<stripeVars, acked, row, intent, req, slot>> /\ sweep[s].pc = "save"
      /\ Fault \/ NoFault
  BY DEF SweepSave
<1>2. PICK p \in {"next", "resolve"} : SweepGoto(s, p)
  BY DEF SweepSave
<1>3. /\ sweep' \in [Sweepers -> Round] /\ sweep'[s].pc = p
      /\ \A v \in Sweepers \ {s} : sweep'[v] = sweep[v]
  BY <1>2, SweepGotoType DEF TypeInv, SweepPlaces
<1>4. tenant \in Tenant /\ sweep[s].tier \in Tiers /\ sweep[s].phase \in {"stale", "due", "cancel"}
  BY DEF TypeInv, TypeOK, Round
<1>5. tenant' \in Tenant /\ tenant'.tier \in {tenant.tier, sweep[s].tier}
  <2>1. CASE UNCHANGED tenant
    BY <1>4, <2>1
  <2>2. CASE tenant' = [tenant EXCEPT !.tier = sweep[s].tier]
    BY <1>4, <2>2 DEF Tenant
  <2>3. CASE tenant' = [Cleared EXCEPT !.tier = sweep[s].tier]
    <3>1. Cleared \in Tenant
      BY <1>4 DEF Cleared, Tenant
    <3> QED
      BY <1>4, <2>3, <3>1 DEF Tenant
  <2>4. CASE tenant' = [tenant EXCEPT !.change = "cancel"]
    BY <1>4, <2>4 DEF Tenant
  <2> QED
    BY <1>4, <2>1, <2>2, <2>3, <2>4 DEF SweepSave
<1>6. intent' \in [Requests -> Intent] /\ faults' \in 0 .. MaxFaults
  BY <1>1, FaultType DEF TypeInv, TypeOK
<1>7. TypeInv'
  BY <1>1, <1>3, <1>5, <1>6, StripeRests, SweepStepType DEF TypeInv
<1> QED
  BY <1>1, <1>3, <1>5, <1>7

\* The other steps of a sweep.
SweepEnds(s) == SweepResolve(s) \/ SweepClear(s) \/ SweepCrash(s)

LEMMA SweepEndsType ==
    ASSUME TypeInv, NEW s \in Sweepers, SweepEnds(s)
    PROVE  /\ TypeInv' /\ UNCHANGED <<stripeVars, req>> /\ tenant'.tier = tenant.tier
           /\ sweep'[s].pc # "save" /\ \A v \in Sweepers \ {s} : sweep'[v] = sweep[v]
<1>1. UNCHANGED <<stripeVars, acked, row, req, slot>>
  BY DEF SweepEnds, SweepResolve, SweepClear, SweepCrash
<1>2. /\ sweep' \in [Sweepers -> Round] /\ sweep'[s].pc # "save"
      /\ \A v \in Sweepers \ {s} : sweep'[v] = sweep[v]
  <2>1. CASE SweepRests(s)
    BY <2>1, SweepRestsType DEF TypeInv
  <2>2. ASSUME NEW p \in {"clear", "next"}, SweepGoto(s, p)
        PROVE  /\ sweep' \in [Sweepers -> Round] /\ sweep'[s].pc # "save"
               /\ \A v \in Sweepers \ {s} : sweep'[v] = sweep[v]
    BY <2>2, SweepGotoType DEF TypeInv, SweepPlaces
  <2> QED
    BY <2>1, <2>2 DEF SweepEnds, SweepResolve, SweepClear, SweepCrash
<1>3. sweep[s] \in Round /\ tenant \in Tenant /\ intent \in [Requests -> Intent]
  BY DEF TypeInv, TypeOK
<1>4. /\ tenant' \in Tenant /\ tenant'.tier = tenant.tier
      /\ intent' \in [Requests -> Intent] /\ faults' \in 0 .. MaxFaults
  <2>1. CASE SweepResolve(s)
    <3>1. SetsIntents(Resolved(sweep[s].at, sweep[s].outcome)) /\ UNCHANGED tenant
      BY <2>1 DEF SweepResolve, Item
    <3>2. sweep[s].at \in Requests /\ sweep[s].outcome \in Settled
      BY <1>3 DEF Round
    <3> QED
      BY <1>3, <3>1, <3>2, IntentType DEF TypeInv
  <2>2. CASE SweepClear(s)
    <3>1. SetsTenant(Cleared) /\ UNCHANGED intent
      BY <2>2 DEF SweepClear
    <3>2. Cleared \in Tenant /\ Cleared.tier = tenant.tier
      BY <1>3 DEF Cleared, Tenant
    <3> QED
      BY <1>3, <3>1, <3>2, TenantType DEF TypeInv, SetsTenant
  <2>3. CASE SweepCrash(s)
    BY <1>3, <2>3, FaultType DEF SweepCrash, TypeInv
  <2> QED
    BY <2>1, <2>2, <2>3 DEF SweepEnds
<1>5. TypeInv'
  BY <1>1, <1>2, <1>4, StripeRests, SweepStepType DEF TypeInv
<1> QED
  BY <1>1, <1>2, <1>4, <1>5

LEMMA SweepsType ==
    ASSUME TypeInv, NEW s \in Sweepers, Sweep(s) \/ SweepLookFails(s) \/ SweepCrash(s)
    PROVE  TypeInv'
  BY SweepListType, SweepLookType, SweepLookFailsType, SweepPriceType, SweepSaveType, SweepEndsType
     DEF Sweep, SweepEnds

--------------------------------------------------------------------------------

LEMMA InitTypes == Init => TypeInv
<1> SUFFICES ASSUME Init PROVE TypeInv
  OBVIOUS
<1> DEFINE first == [pc |-> "new", op |-> "none", to |-> 1, effective |-> 0]
           none == [kind |-> "", to |-> 1, effective |-> 0, status |-> "none"]
<1>1. 1 \in Tiers /\ (Subscribed => 2 \in Tiers) /\ Subscribed \in BOOLEAN
  BY BillingConstants DEF BillingConstants, Tiers
<1>2. stripe \in Subscription /\ paid \subseteq Tiers
  BY <1>1 DEF Init, Subscription, Statuses
<1>3. period \in 0 .. MaxPeriods /\ faults \in 0 .. MaxFaults
  <2>1. period = 0 /\ faults = 0
    BY DEF Init
  <2> QED
    BY <2>1, BillingConstants DEF BillingConstants
<1>4. events \in Seq(Event) /\ Len(events) <= MaxEvents /\ acked \subseteq 1 .. Len(events)
  <2>1. events = <<>> /\ acked = {}
    BY DEF Init
  <2> QED
    BY <2>1, BillingConstants DEF BillingConstants
<1>5. row \in [1 .. MaxEvents -> {"none", "received", "failed", "processed"}]
  BY DEF Init
<1>6. tenant \in Tenant
  BY <1>1, <1>2 DEF Init, Tenant, Subscription
<1>7. none \in Intent /\ intent = [r \in Requests |-> none]
  BY <1>1 DEF Init, Intent
<1>8. first \in Request /\ req = [r \in Requests |-> first] /\ first.pc = "new"
  BY <1>1 DEF Init, Request
<1>9. NoDelivery \in Delivery /\ NoDelivery.pc = "idle" /\ slot = [w \in Slots |-> NoDelivery]
  <2>1. NoDelivery \in Delivery /\ NoDelivery.pc = "idle"
    BY BillingConstants DEF NoDelivery, Delivery, BillingConstants
  <2> QED
    BY <2>1 DEF Init
<1>10. NoRound \in Round /\ sweep = [s \in Sweepers |-> NoRound]
  <2> DEFINE some == CHOOSE r \in Requests : TRUE
  <2>1. \E r \in Requests : TRUE
    BY BillingConstants DEF BillingConstants
  <2>2. some \in Requests
    BY <2>1
  <2>3. NoRound = [pc |-> "idle", phase |-> "stale", batch |-> {}, at |-> some, tier |-> 1,
                   outcome |-> "confirmed"]
    BY DEF NoRound
  <2> HIDE DEF some
  <2>4. NoRound \in Round
    BY <1>1, <2>2, <2>3 DEF Round, Settled
  <2> QED
    BY <2>4 DEF Init
<1> HIDE DEF first, none
<1>11. TypeOK
  <2> HIDE DEF Init
  <2>1. intent \in [Requests -> Intent] /\ req \in [Requests -> Request]
    BY <1>7, <1>8
  <2>2. slot \in [Slots -> Delivery] /\ sweep \in [Sweepers -> Round]
    BY <1>9, <1>10
  <2> QED
    BY <1>2, <1>3, <1>4, <1>5, <1>6, <2>1, <2>2 DEF TypeOK
<1>12. DeliveriesCarry
  BY <1>9 DEF DeliveriesCarry, Carries
<1>13. RequestsMatch
  BY <1>8 DEF RequestsMatch, CanBe
<1> QED
  BY <1>11, <1>12, <1>13 DEF TypeInv

LEMMA NextTypes == ASSUME TypeInv, [Next]_vars PROVE TypeInv'
<1>1. CASE UNCHANGED vars
  <2>1. TypeOK'
    BY <1>1 DEF TypeInv, TypeOK, vars
  <2> QED
    BY <1>1, <2>1 DEF TypeInv, DeliveriesCarry, Carries, RequestsMatch, vars
<1>2. CASE Next
  BY <1>2, StripeMovesType, RequestsType, DeliveriesType, SweepsType DEF Next, StripeMoves, Reads
<1> QED
  BY <1>1, <1>2

\* Whatever the tiers, requests, deliveries, sweeps and bounds, the variables
\* keep their shape, and no delivery looks for an event that is not there.
THEOREM BillingTypes == Spec => []TypeOK
<1>1. Init => TypeInv
  BY InitTypes
<1>2. TypeInv /\ [Next]_vars => TypeInv'
  BY NextTypes
<1>3. TypeInv => TypeOK
  BY DEF TypeInv
<1> QED
  BY <1>1, <1>2, <1>3, PTL DEF Spec

--------------------------------------------------------------------------------
(* No tier is recorded before Stripe billed it.  Inductively: whatever tier   *)
(* an event, a request about to save or a sweep about to save bears has been  *)
(* billed.                                                                    *)

StripeIsBilled ==
    /\ stripe.tier \in paid
    /\ \A i \in 1 .. Len(events) : events[i].tier \in paid
SavesAreBilled ==
    /\ \A r \in Requests : req[r].pc = "save" => req[r].to \in paid
    /\ \A s \in Sweepers : sweep[s].pc = "save" => sweep[s].tier \in paid
Billed == StripeIsBilled /\ SavesAreBilled /\ NeverAheadOfStripe

\* What Stripe billed it has billed for good.
LEMMA StripeStepBilled ==
    ASSUME TypeInv, StripeIsBilled, StripeStep
    PROVE  StripeIsBilled' /\ paid \subseteq paid'
<1>1. Len(events) \in Nat /\ Len(events') \in Nat
  BY DEF TypeInv, TypeOK, StripeStep, StripeOK
<1>2. CASE UNCHANGED <<stripe, paid, events>>
  BY <1>2 DEF StripeIsBilled
<1>3. CASE /\ paid' = paid \cup {stripe'.tier}
           /\ \A i \in 1 .. Len(events') : i > Len(events) => events'[i].tier = stripe'.tier
  <2>1. \A i \in 1 .. Len(events') : events'[i].tier \in paid'
    <3> TAKE i \in 1 .. Len(events')
    <3>1. CASE i > Len(events)
      BY <1>3, <3>1
    <3>2. CASE i \in 1 .. Len(events)
      BY <1>3, <3>2 DEF StripeStep, Extends, StripeIsBilled
    <3> QED
      BY <1>1, <3>1, <3>2
  <2> QED
    BY <1>3, <2>1 DEF StripeIsBilled
<1> QED
  BY <1>2, <1>3 DEF StripeStep

\* A step of a request, if it goes on to save only what was billed.
LEMMA RequestStepBilled ==
    ASSUME TypeInv, Billed, StripeStep, NEW r \in Requests, UNCHANGED sweep,
           \A q \in Requests \ {r} : req'[q] = req[q],
           req'[r].pc = "save" => req'[r].to \in paid',
           tenant'.tier \in paid'
    PROVE  Billed'
<1>1. StripeIsBilled' /\ paid \subseteq paid'
  BY StripeStepBilled DEF Billed
<1>2. SavesAreBilled'
  BY <1>1 DEF Billed, SavesAreBilled
<1> QED
  BY <1>1, <1>2 DEF Billed, NeverAheadOfStripe

LEMMA RequestsBilled ==
    ASSUME TypeInv, Billed, NEW r \in Requests, Reads(r) \/ Proceed(r) \/ RequestCrash(r)
    PROVE  Billed'
<1>1. ASSUME UNCHANGED <<stripeVars, sweep>>, NEW p \in RequestPlaces \ {"save"}, Goto(r, p),
             tenant'.tier \in paid
      PROVE  Billed'
  <2>1. paid' = paid
    BY <1>1 DEF stripeVars
  <2> QED
    BY <1>1, <2>1, StripeRests, GotoType, RequestStepBilled DEF TypeInv
<1>2. tenant.tier \in paid /\ tenant \in Tenant
  BY DEF Billed, NeverAheadOfStripe, TypeInv, TypeOK
<1>3. CASE Reads(r)
  <2>1. UNCHANGED <<stripeVars, tenant, sweep>> /\ paid' = paid
    BY <1>3, ReadsMatch DEF stripeVars
  <2> QED
    BY <1>2, <1>3, <2>1, ReadsMatch, StripeRests, RequestStepBilled DEF TypeInv
<1>4. CASE CompareAndSet(r)
  <2>1. tenant'.tier = tenant.tier
    BY <1>2, <1>4 DEF CompareAndSet, Tenant
  <2>2. PICK p \in {"record", "stripe", "done"} : Goto(r, p)
    BY <1>4 DEF CompareAndSet
  <2>3. UNCHANGED <<stripeVars, sweep>>
    BY <1>4 DEF CompareAndSet
  <2> QED
    BY <1>1, <1>2, <2>1, <2>2, <2>3 DEF RequestPlaces
<1>5. CASE Record(r)
  <2>1. req[r].op \in {"upgrade", "downgrade", "cancel", "reactivate"}
    BY <1>5 DEF Record, TypeInv, RequestsMatch, CanBe
  <2>2. PICK p \in {"stripe", "done", "clear"} : Goto(r, p)
    BY <1>5, <2>1 DEF Record
  <2>3. UNCHANGED <<stripeVars, sweep, tenant>>
    BY <1>5 DEF Record
  <2> QED
    BY <1>1, <1>2, <2>2, <2>3 DEF RequestPlaces
<1>6. CASE CallStripe(r)
  <2>1. StripeStep /\ UNCHANGED <<tenant, sweep>>
    BY <1>6, CallStripeAsks
  <2>2. PICK p \in {"save", "fail", "done", "settle", "restore"} :
          Goto(r, p) /\ (p = "save" => stripe'.tier = req[r].to)
    BY <1>6, CallStripeAsks
  <2>3. /\ req'[r].pc = p /\ req'[r].to = req[r].to
        /\ \A q \in Requests \ {r} : req'[q] = req[q]
    BY <2>2, GotoType DEF TypeInv, RequestPlaces
  <2>4. stripe'.tier \in paid' /\ tenant'.tier \in paid'
    BY <1>2, <2>1, StripeStepBilled DEF Billed, StripeIsBilled
  <2> QED
    BY <2>1, <2>2, <2>3, <2>4, RequestStepBilled
<1>7. CASE Settles(r)
  <2>1. PICK p \in {"clear", "done", "record"} : Goto(r, p)
    BY <1>7, SettlesStep
  <2>2. UNCHANGED <<stripeVars, sweep, tenant>>
    BY <1>7, SettlesStep
  <2> QED
    BY <1>1, <1>2, <2>1, <2>2 DEF RequestPlaces
<1>8. CASE Writes(r)
  <2>1. PICK p \in {"resolve", "done"} : Goto(r, p)
    BY <1>8, WritesStep
  <2>2. UNCHANGED <<stripeVars, sweep>>
    BY <1>8, WritesStep
  <2>3. tenant'.tier \in paid
    BY <1>2, <1>8, WritesStep DEF Billed, SavesAreBilled
  <2> QED
    BY <1>1, <2>1, <2>2, <2>3 DEF RequestPlaces
<1> QED
  BY <1>3, <1>4, <1>5, <1>6, <1>7, <1>8 DEF Proceed, Settles, Writes

\* A step of a delivery writes its own tier to the tenant or the event's.
LEMMA DeliveriesBilled ==
    ASSUME TypeInv, Billed, NEW w \in Slots,
           Process(w) \/ SlotCrash(w) \/ \E e \in 1 .. MaxEvents : Receive(w, e)
    PROVE  Billed'
<1>1. UNCHANGED <<stripe, paid, events, req, sweep>>
  BY DEF Process, SlotCrash, Receive, UpdatedRead, SettleCancels, StampPastDue, Apply, ListPending,
         ConfirmPending, MarkProcessed, MarkFailed, stripeVars
<1>2. tenant'.tier \in paid
  <2>1. tenant.tier \in paid
    BY DEF Billed, NeverAheadOfStripe
  <2>2. CASE Apply(w)
    <3>1. slot[w].event \in 1 .. Len(events)
      BY <2>2, Carried DEF Apply
    <3>2. Snapshot(w).tier \in paid
      BY <3>1 DEF Billed, StripeIsBilled, Snapshot
    <3> QED
      BY <2>1, <2>2, <3>2, AppliedTenant
  <2>3. CASE StampPastDue(w)
    BY <2>1, <2>3, StampPastDueType
  <2>4. CASE UNCHANGED tenant
    BY <2>1, <2>4
  <2> QED
    BY <2>2, <2>3, <2>4 DEF Process, SlotCrash, Receive, UpdatedRead, SettleCancels, ListPending,
         ConfirmPending, MarkProcessed, MarkFailed
<1> QED
  BY <1>1, <1>2 DEF Billed, StripeIsBilled, SavesAreBilled, NeverAheadOfStripe

\* A step of a sweep, if it goes on to save only what was billed.
LEMMA SweepsBilled ==
    ASSUME TypeInv, Billed, NEW s \in Sweepers, Sweep(s) \/ SweepLookFails(s) \/ SweepCrash(s)
    PROVE  Billed'
<1>1. ASSUME StripeStep, UNCHANGED req, \A v \in Sweepers \ {s} : sweep'[v] = sweep[v],
             sweep'[s].pc = "save" => sweep'[s].tier \in paid',
             tenant'.tier \in paid'
      PROVE  Billed'
  <2>1. StripeIsBilled' /\ paid \subseteq paid'
    BY <1>1, StripeStepBilled DEF Billed
  <2>2. SavesAreBilled'
    BY <1>1, <2>1 DEF Billed, SavesAreBilled
  <2> QED
    BY <1>1, <2>1, <2>2 DEF Billed, NeverAheadOfStripe
<1>2. ASSUME UNCHANGED <<stripeVars, req>>, \A v \in Sweepers \ {s} : sweep'[v] = sweep[v],
             sweep'[s].pc = "save" => sweep'[s].tier \in paid,
             tenant'.tier \in paid
      PROVE  Billed'
  BY <1>1, <1>2, StripeRests DEF TypeInv, stripeVars
<1>3. tenant.tier \in paid /\ stripe.tier \in paid
  BY DEF Billed, StripeIsBilled, NeverAheadOfStripe
<1>4. CASE SweepList(s)
  BY <1>2, <1>3, <1>4, SweepListType DEF SweepList
<1>5. CASE SweepLook(s)
  BY <1>2, <1>3, <1>5, SweepLookType
<1>6. CASE SweepLookFails(s)
  BY <1>2, <1>3, <1>6, SweepLookFailsType DEF SweepLookFails
<1>7. CASE SweepPrice(s)
  <2>1. /\ StripeStep /\ UNCHANGED <<tenant, req>>
        /\ sweep'[s].pc = "save" => sweep'[s].tier = stripe'.tier
        /\ \A v \in Sweepers \ {s} : sweep'[v] = sweep[v]
    BY <1>7, SweepPriceType
  <2>2. stripe'.tier \in paid' /\ tenant'.tier \in paid'
    BY <1>3, <2>1, StripeStepBilled DEF Billed, StripeIsBilled
  <2> QED
    BY <1>1, <2>1, <2>2
<1>8. CASE SweepSave(s)
  <2>1. tenant'.tier \in paid
    BY <1>3, <1>8, SweepSaveType DEF Billed, SavesAreBilled
  <2> QED
    BY <1>2, <1>8, <2>1, SweepSaveType
<1>9. CASE SweepEnds(s)
  BY <1>2, <1>3, <1>9, SweepEndsType
<1> QED
  BY <1>4, <1>5, <1>6, <1>7, <1>8, <1>9 DEF Sweep, SweepEnds

\* The tenant is never recorded at a tier Stripe did not bill it for, whatever
\* the interleaving, the crashes and the answers lost.
THEOREM NeverAhead == Spec => []NeverAheadOfStripe
<1>1. Init => TypeInv /\ Billed
  <2> SUFFICES ASSUME Init PROVE Billed
    BY InitTypes
  <2>1. events = <<>> /\ tenant.tier = stripe.tier /\ stripe.tier \in paid
    BY DEF Init
  <2>2. /\ \A r \in Requests : req[r].pc = "new"
        /\ \A s \in Sweepers : sweep[s].pc = "idle"
    BY DEF Init, NoRound
  <2> QED
    BY <2>1, <2>2 DEF Billed, StripeIsBilled, SavesAreBilled, NeverAheadOfStripe
<1>2. TypeInv /\ Billed /\ [Next]_vars => (TypeInv /\ Billed)'
  <2> SUFFICES ASSUME TypeInv, Billed, [Next]_vars PROVE Billed'
    BY NextTypes
  <2>1. CASE UNCHANGED vars
    BY <2>1 DEF vars, Billed, StripeIsBilled, SavesAreBilled, NeverAheadOfStripe
  <2>2. CASE StripeMoves
    <3>1. UNCHANGED <<tenant, req, sweep>>
      BY <2>2 DEF StripeMoves, Checkout, Payment, Portal, PeriodEnds, actors
    <3>2. StripeIsBilled' /\ paid \subseteq paid'
      BY <2>2, StripeMovesStep, StripeStepBilled DEF TypeInv, Billed
    <3> QED
      BY <3>1, <3>2 DEF Billed, SavesAreBilled, NeverAheadOfStripe
  <2>3. ASSUME NEW e \in 1 .. MaxEvents, GiveUp(e) PROVE Billed'
    BY <2>3 DEF GiveUp, stripeVars, actors, Billed, StripeIsBilled, SavesAreBilled, NeverAheadOfStripe
  <2> QED
    BY <2>1, <2>2, <2>3, RequestsBilled, DeliveriesBilled, SweepsBilled
       DEF Next, StripeMoves, Reads
<1>3. Billed => NeverAheadOfStripe
  BY DEF Billed
<1> QED
  BY <1>1, <1>2, <1>3, PTL DEF Spec

--------------------------------------------------------------------------------
(* An intent is settled once.  Every write but the insertion spares the       *)
(* intents that are not open, and a request inserts its intent only while it  *)
(* has none.                                                                  *)

Unrecorded(r) ==
    \/ req[r].pc \in {"new", "project", "claim", "record"}
    \/ req[r].op = "reactivate" /\ req[r].pc \in {"stripe", "settle"}
NoneYet == \A r \in Requests : Unrecorded(r) => intent[r].status = "none"

SparesSettled == \A r \in Requests : intent[r].status \notin Open => intent'[r] = intent[r]

\* resolvePlanIntent and markScheduledIntents filter on the status.
LEMMA SettlingSpares ==
    ASSUME TypeOK, NEW r \in Requests, NEW kind, NEW status \in Settled,
           SetsIntents(Resolved(r, status)) \/ SetsIntents(Marked(kind, status))
    PROVE  SparesSettled
<1>1. intent \in [Requests -> Intent]
  BY DEF TypeOK
<1>2. CASE intent' = Resolved(r, status)
  BY <1>1, <1>2 DEF Resolved, SparesSettled
<1>3. CASE intent' = Marked(kind, status)
  BY <1>1, <1>3 DEF Marked, SparesSettled, Open
<1>4. CASE UNCHANGED intent
  BY <1>4 DEF SparesSettled
<1> QED
  BY <1>2, <1>3, <1>4 DEF SetsIntents

\* No step of a request but the insertion makes it one without an intent.
LEMMA RequestsSpare ==
    ASSUME TypeInv, NEW r \in Requests, Reads(r) \/ Proceed(r) \/ RequestCrash(r), ~Record(r)
    PROVE  SparesSettled /\ \A q \in Requests : Unrecorded(q)' => Unrecorded(q)
<1>1. ASSUME NEW p \in RequestPlaces, Goto(r, p),
             p \in {"new", "project", "claim", "record"} => Unrecorded(r),
             (p \in {"stripe", "settle"} /\ req[r].op = "reactivate") => Unrecorded(r)
      PROVE  \A q \in Requests : Unrecorded(q)' => Unrecorded(q)
  <2>1. /\ req'[r].pc = p /\ req'[r].op = req[r].op
        /\ \A q \in Requests \ {r} : req'[q] = req[q]
    BY <1>1, GotoType DEF TypeInv
  <2> QED
    BY <1>1, <2>1 DEF Unrecorded
<1>2. CASE Reads(r)
  BY <1>2, ReadsMatch DEF Unrecorded, SparesSettled
<1>3. CASE CompareAndSet(r)
  <2>1. PICK p \in {"record", "stripe", "done"} : Goto(r, p)
    BY <1>3 DEF CompareAndSet
  <2>2. Unrecorded(r) /\ SparesSettled
    BY <1>3 DEF CompareAndSet, Unrecorded, SparesSettled
  <2> QED
    BY <1>1, <2>1, <2>2 DEF RequestPlaces
<1>4. CASE CallStripe(r)
  <2>1. PICK p \in {"save", "fail", "done", "settle", "restore"} : Goto(r, p)
    BY <1>4, CallStripeAsks
  <2>2. SparesSettled /\ req[r].pc = "stripe"
    BY <1>4, CallStripeAsks DEF SparesSettled
  <2> QED
    BY <1>1, <2>1, <2>2 DEF RequestPlaces, Unrecorded
<1>5. CASE Settles(r)
  <2>1. SparesSettled
    BY <1>5, SettlesStep, SettlingSpares DEF TypeInv
  <2>2. PICK p \in {"clear", "done", "record"} :
          /\ Goto(r, p)
          /\ p = "record" => req[r].op = "reactivate" /\ req[r].pc = "settle"
    BY <1>5 DEF Settles, FailIntent, ConfirmInline, SettleScheduled
  <2> QED
    BY <1>1, <2>1, <2>2 DEF RequestPlaces, Unrecorded
<1>6. CASE Writes(r)
  <2>1. SparesSettled
    BY <1>6, WritesStep DEF SparesSettled
  <2>2. PICK p \in {"resolve", "done"} : Goto(r, p)
    BY <1>6, WritesStep
  <2> QED
    BY <1>1, <2>1, <2>2 DEF RequestPlaces
<1> QED
  BY <1>2, <1>3, <1>4, <1>5, <1>6 DEF Proceed, Settles, Writes

LEMMA DeliveriesSpare ==
    ASSUME TypeInv, NEW w \in Slots,
           Process(w) \/ SlotCrash(w) \/ \E e \in 1 .. MaxEvents : Receive(w, e)
    PROVE  SparesSettled /\ UNCHANGED req
<1>1. UNCHANGED req
  BY DEF Process, SlotCrash, Receive, UpdatedRead, SettleCancels, StampPastDue, Apply, ListPending,
         ConfirmPending, MarkProcessed, MarkFailed
<1>2. CASE SettleCancels(w)
  <2>1. PICK r : r \in Requests
    BY BillingConstants DEF BillingConstants
  <2>2. \E status \in Settled : SetsIntents(Marked("cancel", status))
    BY <1>2 DEF SettleCancels, Settled
  <2> QED
    BY <1>1, <2>1, <2>2, SettlingSpares DEF TypeInv
<1>3. CASE ConfirmPending(w)
  <2>1. slot[w].batch \subseteq Requests
    BY DEF TypeInv, TypeOK, Delivery
  <2>2. \E r \in Requests : SetsIntents(Resolved(r, "confirmed"))
    BY <1>3, <2>1 DEF ConfirmPending
  <2> QED
    BY <1>1, <2>2, SettlingSpares DEF TypeInv, Settled
<1>4. CASE UNCHANGED intent
  BY <1>1, <1>4 DEF SparesSettled
<1> QED
  BY <1>2, <1>3, <1>4 DEF Process, SlotCrash, Receive, UpdatedRead, StampPastDue, Apply, ListPending,
         MarkProcessed, MarkFailed

LEMMA SweepsSpare ==
    ASSUME TypeInv, NEW s \in Sweepers, Sweep(s) \/ SweepLookFails(s) \/ SweepCrash(s)
    PROVE  SparesSettled /\ UNCHANGED req
<1>1. UNCHANGED req
  BY DEF Sweep, SweepLookFails, SweepCrash, SweepList, SweepLook, SweepPrice, SweepSave, SweepResolve,
         SweepClear
<1>2. CASE SweepResolve(s)
  <2>1. sweep[s].at \in Requests /\ sweep[s].outcome \in Settled
    BY DEF TypeInv, TypeOK, Round
  <2>2. SetsIntents(Resolved(sweep[s].at, sweep[s].outcome))
    BY <1>2 DEF SweepResolve, Item
  <2> QED
    BY <1>1, <2>1, <2>2, SettlingSpares DEF TypeInv
<1>3. CASE UNCHANGED intent
  BY <1>1, <1>3 DEF SparesSettled
<1>4. ASSUME ~SweepResolve(s) PROVE UNCHANGED intent
  BY <1>4 DEF Sweep, SweepLookFails, SweepCrash, SweepList, SweepLook, SweepPrice, SweepSave, SweepClear
<1> QED
  BY <1>2, <1>3, <1>4

LEMMA IntentStep ==
    ASSUME TypeInv, NoneYet, [Next]_vars
    PROVE  NoneYet' /\ \A r \in Requests : intent[r].status \in Settled => intent'[r] = intent[r]
<1>1. CASE SparesSettled /\ \A r \in Requests : Unrecorded(r)' => Unrecorded(r)
  BY <1>1 DEF SparesSettled, NoneYet, Open, Settled
<1>2. ASSUME UNCHANGED <<intent, req>>
      PROVE  SparesSettled /\ \A r \in Requests : Unrecorded(r)' => Unrecorded(r)
  BY <1>2 DEF SparesSettled, Unrecorded
<1>3. ASSUME SparesSettled, UNCHANGED req
      PROVE  SparesSettled /\ \A r \in Requests : Unrecorded(r)' => Unrecorded(r)
  BY <1>3 DEF Unrecorded
<1>4. ASSUME NEW r \in Requests, Record(r)
      PROVE  NoneYet' /\ \A q \in Requests : intent[q].status \in Settled => intent'[q] = intent[q]
  <2>1. req[r].pc = "record" /\ req[r].op \in {"upgrade", "downgrade", "cancel", "reactivate"}
    BY <1>4 DEF Record, TypeInv, RequestsMatch, CanBe
  <2>2. PICK p \in {"stripe", "done", "clear"} :
          Goto(r, p) /\ (p = "stripe" => req[r].op \in {"upgrade", "cancel"})
    BY <1>4, <2>1 DEF Record
  <2>3. /\ req'[r].pc = p /\ req'[r].op = req[r].op
        /\ \A q \in Requests \ {r} : req'[q] = req[q]
    BY <2>2, GotoType DEF TypeInv, RequestPlaces
  <2>4. intent[r].status = "none"
    BY <2>1 DEF NoneYet, Unrecorded
  <2>5. \A q \in Requests \ {r} : intent'[q] = intent[q]
    BY <1>4 DEF Record, TypeInv, TypeOK
  <2>6. ~Unrecorded(r)'
    BY <2>2, <2>3 DEF Unrecorded
  <2>7. NoneYet'
    BY <2>3, <2>5, <2>6 DEF NoneYet, Unrecorded
  <2> QED
    BY <2>4, <2>5, <2>7 DEF Settled
<1>5. CASE UNCHANGED vars
  BY <1>1, <1>2, <1>5 DEF vars
<1>6. CASE StripeMoves \/ \E e \in 1 .. MaxEvents : GiveUp(e)
  <2>1. UNCHANGED <<intent, req>>
    BY <1>6 DEF StripeMoves, Checkout, Payment, Portal, PeriodEnds, GiveUp, actors
  <2> QED
    BY <1>1, <1>2, <2>1
<1>7. ASSUME NEW r \in Requests, Reads(r) \/ Proceed(r) \/ RequestCrash(r), ~Record(r)
      PROVE  NoneYet' /\ \A q \in Requests : intent[q].status \in Settled => intent'[q] = intent[q]
  BY <1>1, <1>7, RequestsSpare
<1>8. ASSUME NEW w \in Slots,
             Process(w) \/ SlotCrash(w) \/ \E e \in 1 .. MaxEvents : Receive(w, e)
      PROVE  NoneYet' /\ \A q \in Requests : intent[q].status \in Settled => intent'[q] = intent[q]
  BY <1>1, <1>3, <1>8, DeliveriesSpare
<1>9. ASSUME NEW s \in Sweepers, Sweep(s) \/ SweepLookFails(s) \/ SweepCrash(s)
      PROVE  NoneYet' /\ \A q \in Requests : intent[q].status \in Settled => intent'[q] = intent[q]
  BY <1>1, <1>3, <1>9, SweepsSpare
<1> QED
  BY <1>4, <1>5, <1>6, <1>7, <1>8, <1>9 DEF Next, StripeMoves, Reads

\* Whoever settles an intent first decides its outcome, for any number of
\* requests, deliveries and sweeps.
THEOREM SettledStay == Spec => SettledIntentsStay
<1>1. Init => TypeInv /\ NoneYet
  <2> SUFFICES ASSUME Init PROVE NoneYet
    BY InitTypes
  <2>1. \A r \in Requests : intent[r].status = "none"
    BY DEF Init
  <2> QED
    BY <2>1 DEF NoneYet
<1>2. TypeInv /\ NoneYet /\ [Next]_vars => (TypeInv /\ NoneYet)'
  BY NextTypes, IntentStep
<1>3. TypeInv /\ NoneYet /\ [Next]_vars
        => [\A r \in Requests : intent[r].status \in Settled => intent'[r] = intent[r]]_vars
  BY IntentStep
<1> QED
  BY <1>1, <1>2, <1>3, PTL DEF Spec, SettledIntentsStay
--------------------------------------------------------------------------------
(* A tenant past due has a clock, provided Stripe sends one event at a time   *)
(* and does not give up on one.  The order of the events does not matter.     *)

OneAtATime == ~Lossy /\ \A v, w \in Slots : v = w

Clockless == tenant.status = "past_due" /\ ~tenant.pastDueAt

\* A failed payment Stripe will send again.
Owed(e) ==
    /\ e \in 1 .. Len(events) /\ e \notin acked
    /\ events[e].kind = "payment_failed" /\ row[e] # "processed"

\* A delivery at work is of an event still owed.  A failed payment sets the
\* status and then the clock; an update that says past_due set the clock before.
Stamps(d) ==
    d.pc # "idle" =>
        LET event == events[d.event]
        IN /\ d.event \notin acked /\ row[d.event] # "processed"
           /\ event.kind = "payment_failed" =>
                /\ d.pc \in {"apply", "stamp", "mark", "fail"}
                /\ d.pc = "mark" => tenant.pastDueAt
           /\ (event.kind = "updated" /\ event.status = "past_due" /\ d.pc = "apply")
                => tenant.pastDueAt

\* A clock that is missing is owed to the tenant by a failed payment.
ClockInv ==
    /\ \A w \in Slots : Stamps(slot[w])
    /\ Clockless => \E e \in 1 .. Len(events) : Owed(e)

\* A step that touches neither the deliveries nor the tenant's status and clock.
Unhurried ==
    /\ Extends
    /\ UNCHANGED <<slot, acked, row>>
    /\ tenant'.status = tenant.status /\ tenant'.pastDueAt = tenant.pastDueAt

LEMMA UnhurriedKeepsClock ==
    ASSUME TypeInv, ClockInv, Unhurried
    PROVE  ClockInv'
<1>1. Len(events) \in Nat /\ Len(events) <= Len(events')
  BY DEF TypeInv, TypeOK, Unhurried, Extends
<1>2. \A i \in 1 .. Len(events) : events'[i] = events[i]
  BY DEF Unhurried, Extends
<1>3. UNCHANGED <<slot, acked, row, tenant.status, tenant.pastDueAt>>
  BY DEF Unhurried
<1>4. ASSUME NEW w \in Slots PROVE Stamps(slot[w])'
  <2>1. Stamps(slot[w]) /\ Carries(slot[w]) /\ slot'[w] = slot[w]
    BY <1>3 DEF ClockInv, TypeInv, DeliveriesCarry
  <2>2. CASE slot[w].pc = "idle"
    BY <2>1, <2>2 DEF Stamps
  <2>3. CASE slot[w].pc # "idle"
    <3>1. events'[slot[w].event] = events[slot[w].event]
      BY <1>2, <2>1, <2>3 DEF Carries
    <3> QED
      BY <1>3, <2>1, <2>3, <3>1 DEF Stamps
  <2> QED
    BY <2>2, <2>3
<1>5. ASSUME Clockless' PROVE \E e \in 1 .. Len(events') : Owed(e)'
  <2>1. Clockless
    BY <1>3, <1>5 DEF Clockless
  <2>2. PICK e \in 1 .. Len(events) : Owed(e)
    BY <2>1 DEF ClockInv
  <2>3. e \in 1 .. Len(events') /\ events'[e] = events[e]
    BY <1>1, <1>2
  <2> QED
    BY <1>3, <2>2, <2>3 DEF Owed
<1> QED
  BY <1>4, <1>5 DEF ClockInv

\* The API writes the tier and the scheduled change, nothing else of the tenant.
LEMMA RequestsUnhurried ==
    ASSUME TypeInv, NEW r \in Requests, Reads(r) \/ Proceed(r) \/ RequestCrash(r)
    PROVE  Unhurried
<1>1. UNCHANGED stripeVars => Extends
  BY StripeRests DEF TypeInv, StripeStep
<1>2. tenant \in Tenant
  BY DEF TypeInv, TypeOK
<1>3. CASE Reads(r) \/ RequestCrash(r) \/ Record(r)
  BY <1>1, <1>3, ReadsMatch DEF RequestCrash, Record, Unhurried
<1>4. CASE CompareAndSet(r)
  BY <1>1, <1>2, <1>4 DEF CompareAndSet, Unhurried, Tenant
<1>5. CASE CallStripe(r)
  BY <1>5, CallStripeAsks DEF Unhurried, StripeStep
<1>6. CASE Settles(r)
  BY <1>1, <1>6, SettlesStep DEF Unhurried
<1>7. CASE Writes(r)
  <2>1. UNCHANGED <<stripeVars, acked, row, slot>>
    BY <1>7, WritesStep
  <2>2. tenant'.status = tenant.status /\ tenant'.pastDueAt = tenant.pastDueAt
    BY <1>2, <1>7 DEF Writes, SaveTier, RestoreCancel, ClearChange, RequestCrash, SetsTenant, Cleared,
       Tenant
  <2> QED
    BY <1>1, <2>1, <2>2 DEF Unhurried
<1> QED
  BY <1>3, <1>4, <1>5, <1>6, <1>7 DEF Proceed, Settles, Writes

\* So does the sweep.
LEMMA SweepsUnhurried ==
    ASSUME TypeInv, NEW s \in Sweepers, Sweep(s) \/ SweepLookFails(s) \/ SweepCrash(s)
    PROVE  Unhurried
<1>1. UNCHANGED stripeVars => Extends
  BY StripeRests DEF TypeInv, StripeStep
<1>2. tenant \in Tenant /\ UNCHANGED <<acked, row, slot>>
  BY DEF TypeInv, TypeOK, Sweep, SweepLookFails, SweepCrash, SweepList, SweepLook, SweepPrice,
         SweepSave, SweepResolve, SweepClear
<1>3. CASE SweepPrice(s)
  BY <1>2, <1>3, SweepPriceType DEF Unhurried, StripeStep
<1>4. CASE SweepSave(s)
  <2>1. sweep[s].phase \in {"stale", "due", "cancel"} /\ UNCHANGED stripeVars
    BY <1>4 DEF TypeInv, TypeOK, Round, SweepSave
  <2>2. \/ tenant' = tenant
        \/ tenant' = [tenant EXCEPT !.tier = sweep[s].tier]
        \/ tenant' = [Cleared EXCEPT !.tier = sweep[s].tier]
        \/ tenant' = [tenant EXCEPT !.change = "cancel"]
    BY <1>4, <2>1 DEF SweepSave
  <2>3. tenant'.status = tenant.status /\ tenant'.pastDueAt = tenant.pastDueAt
    BY <1>2, <2>2 DEF Cleared, Tenant
  <2> QED
    BY <1>1, <1>2, <2>1, <2>3 DEF Unhurried
<1>5. CASE SweepClear(s)
  BY <1>1, <1>2, <1>5 DEF SweepClear, SetsTenant, Cleared, Tenant, Unhurried
<1>6. CASE SweepList(s) \/ SweepLook(s) \/ SweepLookFails(s) \/ SweepResolve(s) \/ SweepCrash(s)
  <2>1. UNCHANGED <<stripeVars, tenant>>
    BY <1>6 DEF SweepList, SweepLook, SweepLookFails, SweepResolve, SweepCrash
  <2> QED
    BY <1>1, <1>2, <2>1 DEF Unhurried
<1> QED
  BY <1>3, <1>4, <1>5, <1>6 DEF Sweep

\* A step of the one delivery within its event.
LEMMA StampsKeepClock ==
    ASSUME TypeInv, ClockInv, OneAtATime, NEW w \in Slots, slot[w].pc # "idle",
           UNCHANGED <<events, acked, row>>, slot'[w].event = slot[w].event,
           Snapshot(w).kind = "payment_failed" =>
             /\ slot'[w].pc \in {"apply", "stamp", "mark", "fail"}
             /\ slot'[w].pc = "mark" => tenant'.pastDueAt,
           (Snapshot(w).kind = "updated" /\ Snapshot(w).status = "past_due" /\ slot'[w].pc = "apply")
             => tenant'.pastDueAt,
           Clockless' => \E e \in 1 .. Len(events) : Owed(e)
    PROVE  ClockInv'
<1>1. Stamps(slot[w])
  BY DEF ClockInv
<1>2. Stamps(slot[w])'
  BY <1>1 DEF Stamps, Snapshot
<1>3. \A v \in Slots : Stamps(slot[v])'
  BY <1>2 DEF OneAtATime
<1>4. Clockless' => \E e \in 1 .. Len(events') : Owed(e)'
  BY DEF Owed
<1> QED
  BY <1>3, <1>4 DEF ClockInv

\* Confirming an intent leaves the delivery at its event, and short of applying.
LEMMA ConfirmMoves ==
    ASSUME TypeInv, NEW w \in Slots, ConfirmPending(w)
    PROVE  slot'[w].event = slot[w].event /\ slot'[w].pc \in {"mark", "confirm"}
<1>1. PICK r \in slot[w].batch :
        slot' = [slot EXCEPT ![w].batch = @ \ {r},
                             ![w].pc = IF slot[w].batch = {r} THEN "mark" ELSE "confirm"]
  BY DEF ConfirmPending
<1>2. PICK p \in {"mark", "confirm"} : p = IF slot[w].batch = {r} THEN "mark" ELSE "confirm"
  OBVIOUS
<1>3. slot'[w] = [slot[w] EXCEPT !.batch = slot[w].batch \ {r}, !.pc = p]
  BY <1>1, <1>2 DEF TypeInv, TypeOK
<1>4. slot[w] \in Delivery
  BY DEF TypeInv, TypeOK
<1>5. /\ [slot[w] EXCEPT !.batch = slot[w].batch \ {r}, !.pc = p].event = slot[w].event
      /\ [slot[w] EXCEPT !.batch = slot[w].batch \ {r}, !.pc = p].pc = p
  BY <1>4 DEF Delivery
<1> QED
  BY <1>3, <1>5

\* The reads and settlements within an event leave the tenant alone.
LEMMA WorkKeepsClock ==
    ASSUME TypeInv, ClockInv, OneAtATime, NEW w \in Slots,
           UpdatedRead(w) \/ SettleCancels(w) \/ ListPending(w) \/ ConfirmPending(w)
    PROVE  ClockInv'
<1>1. /\ slot[w].pc \in {"read", "settle", "list", "confirm"}
      /\ UNCHANGED <<stripeVars, acked, row, tenant>>
  BY DEF UpdatedRead, SettleCancels, ListPending, ConfirmPending
<1>2. UNCHANGED <<events, acked, row>> /\ (Clockless' => \E e \in 1 .. Len(events) : Owed(e))
  BY <1>1 DEF stripeVars, Clockless, ClockInv
<1>3. Snapshot(w).kind # "payment_failed" /\ Snapshot(w).status \in Statuses
  <2>1. Stamps(slot[w]) /\ Snapshot(w) \in Event
    BY <1>1, Carried DEF ClockInv
  <2> QED
    BY <1>1, <2>1 DEF Stamps, Snapshot, Event
<1>4. /\ slot'[w].event = slot[w].event
      /\ (Snapshot(w).status = "past_due" /\ Snapshot(w).kind = "updated") => slot'[w].pc # "apply"
  <2>1. AfterRead("past_due") = "stamp"
    BY DEF AfterRead
  <2>2. slot[w] \in Delivery /\ slot \in [Slots -> Delivery]
    BY DEF TypeInv, TypeOK
  <2>3. CASE UpdatedRead(w)
    BY <2>1, <2>2, <2>3 DEF UpdatedRead, Delivery
  <2>4. CASE SettleCancels(w)
    BY <2>1, <2>2, <2>4 DEF SettleCancels, SlotGoto, Delivery
  <2>5. CASE ListPending(w)
    BY <2>2, <2>5 DEF ListPending, Delivery
  <2>6. CASE ConfirmPending(w)
    BY <2>6, ConfirmMoves
  <2> QED
    BY <2>3, <2>4, <2>5, <2>6
<1> QED
  BY <1>1, <1>2, <1>3, <1>4, StampsKeepClock

\* The stamp itself; a failed one leaves the event to be sent again.
LEMMA StampKeepsClock ==
    ASSUME TypeInv, ClockInv, OneAtATime, NEW w \in Slots, StampPastDue(w)
    PROVE  ClockInv'
<1>1. slot[w].pc = "stamp" /\ UNCHANGED <<events, acked, row>> /\ tenant \in Tenant
  BY DEF StampPastDue, stripeVars, TypeInv, TypeOK
<1>2. \/ /\ tenant' = [tenant EXCEPT !.pastDueAt = TRUE]
         /\ SlotGoto(w, IF Snapshot(w).kind = "updated" THEN "apply" ELSE "mark")
      \/ tenant' = tenant /\ SlotGoto(w, "fail")
  BY DEF StampPastDue
<1>3. CASE tenant' = tenant /\ SlotGoto(w, "fail")
  <2>1. slot'[w].pc = "fail" /\ slot'[w].event = slot[w].event
    BY <1>3, SlotGotoType DEF TypeInv, DeliveryPlaces
  <2>2. Clockless' => \E e \in 1 .. Len(events) : Owed(e)
    BY <1>3 DEF Clockless, ClockInv
  <2> QED
    BY <1>1, <2>1, <2>2, StampsKeepClock
<1>4. CASE /\ tenant' = [tenant EXCEPT !.pastDueAt = TRUE]
           /\ SlotGoto(w, IF Snapshot(w).kind = "updated" THEN "apply" ELSE "mark")
  <2>1. PICK p \in {"apply", "mark"} :
          SlotGoto(w, p) /\ (p = "apply" => Snapshot(w).kind = "updated")
    BY <1>4
  <2>2. slot'[w].pc = p /\ slot'[w].event = slot[w].event
    BY <2>1, SlotGotoType DEF TypeInv, DeliveryPlaces
  <2>3. tenant'.pastDueAt /\ ~Clockless'
    BY <1>1, <1>4 DEF Tenant, Clockless
  <2> QED
    BY <1>1, <2>1, <2>2, <2>3, StampsKeepClock
<1> QED
  BY <1>2, <1>3, <1>4

\* The write of the tenant: the only events that leave it past due are a failed
\* payment, which is then owed, and an update that set the clock before.
LEMMA ApplyKeepsClock ==
    ASSUME TypeInv, ClockInv, OneAtATime, NEW w \in Slots, Apply(w)
    PROVE  ClockInv'
<1> DEFINE event == Snapshot(w)
<1>1. slot[w].pc = "apply" /\ UNCHANGED <<events, acked, row>> /\ tenant \in Tenant
  BY DEF Apply, stripeVars, TypeInv, TypeOK
<1>2. /\ event \in Event /\ slot[w].event \in 1 .. Len(events) /\ Stamps(slot[w])
      /\ event.kind \in {"checkout", "updated", "deleted", "payment_failed"}
  BY <1>1, Carried DEF Event, ClockInv
<1>3. PICK p \in {"list", "mark", "settle", "stamp", "fail"} :
        /\ SlotGoto(w, p)
        /\ event.kind = "payment_failed" => p \in {"stamp", "fail"}
  BY <1>2 DEF Apply
<1>4. slot'[w].pc = p /\ slot'[w].event = slot[w].event
  BY <1>3, SlotGotoType DEF TypeInv, DeliveryPlaces
<1>5. Clockless' => \E e \in 1 .. Len(events) : Owed(e)
  <2>1. CASE tenant' = tenant
    BY <2>1 DEF Clockless, ClockInv
  <2>2. CASE event.kind = "payment_failed"
    <3>1. Owed(slot[w].event)
      BY <1>1, <1>2, <2>2 DEF Owed, Stamps, Snapshot
    <3> QED
      BY <1>2, <3>1
  <2>3. CASE event.kind = "updated" /\ tenant' = Updated(event, slot[w].change)
    <3>1. CASE event.status = "past_due"
      <4>1. tenant.pastDueAt
        BY <1>1, <1>2, <2>3, <3>1 DEF Stamps, Snapshot
      <4>2. tenant'.pastDueAt
        BY <2>3, <3>1, <4>1 DEF Updated, KeepsClock
      <4> QED
        BY <4>2 DEF Clockless
    <3>2. CASE event.status # "past_due"
      <4>1. StatusOf(event.status) # "past_due"
        BY <3>2 DEF StatusOf
      <4>2. tenant'.status = StatusOf(event.status)
        BY <2>3 DEF Updated
      <4> QED
        BY <4>1, <4>2 DEF Clockless
    <3> QED
      BY <3>1, <3>2
  <2>4. CASE event.kind = "checkout" /\ tenant'.status \in {"trial", "active"}
    BY <2>4 DEF Clockless
  <2>5. CASE event.kind = "deleted" /\ tenant'.status = "canceled"
    BY <2>5 DEF Clockless
  <2>6. ASSUME tenant' # tenant, event.kind # "payment_failed"
        PROVE  \/ event.kind = "updated" /\ tenant' = Updated(event, slot[w].change)
               \/ event.kind = "checkout" /\ tenant'.status \in {"trial", "active"}
               \/ event.kind = "deleted" /\ tenant'.status = "canceled"
    <3>1. CASE event.kind = "updated"
      BY <2>6, <3>1 DEF Apply
    <3>2. CASE event.kind = "checkout"
      BY <1>1, <2>6, <3>2 DEF Apply, Tenant
    <3>3. CASE event.kind = "deleted"
      BY <1>1, <2>6, <3>3 DEF Apply, Tenant
    <3> QED
      BY <1>2, <2>6, <3>1, <3>2, <3>3
  <2> QED
    BY <2>1, <2>2, <2>3, <2>4, <2>5, <2>6
<1> HIDE DEF event
<1>6. slot[w].pc # "idle" /\ slot'[w].pc # "apply" /\ (event.kind = "payment_failed" => slot'[w].pc \in {"stamp", "fail"})
  BY <1>1, <1>3, <1>4
<1> QED
  BY <1>1, <1>4, <1>5, <1>6, StampsKeepClock DEF event

\* A delivery begins with an event still owed, and no other is at work.
LEMMA ReceiveKeepsClock ==
    ASSUME TypeInv, ClockInv, OneAtATime, NEW w \in Slots, NEW e \in 1 .. MaxEvents, Receive(w, e)
    PROVE  ClockInv'
<1>1. /\ slot[w].pc = "idle" /\ e \in 1 .. Len(events) /\ e \notin acked
      /\ UNCHANGED <<events, tenant>> /\ slot \in [Slots -> Delivery]
      /\ row \in [1 .. MaxEvents -> {"none", "received", "failed", "processed"}]
      /\ Len(events) <= MaxEvents /\ Len(events) \in Nat
  BY DEF Receive, stripeVars, TypeInv, TypeOK
<1>2. \A i \in 1 .. Len(events) : Owed(i) => Owed(i)'
  <2>1. \A i \in 1 .. Len(events) : i \in 1 .. MaxEvents
    BY <1>1, BillingConstants DEF BillingConstants
  <2> QED
    BY <1>1, <2>1 DEF Receive, Owed
<1>3. Clockless' => \E i \in 1 .. Len(events') : Owed(i)'
  BY <1>1, <1>2 DEF Clockless, ClockInv
<1>4. Stamps(slot[w])'
  <2>1. CASE row[e] = "processed"
    BY <1>1, <2>1 DEF Receive, Stamps
  <2>2. CASE row[e] # "processed"
    <3> DEFINE new == [pc |-> FirstWork(events[e].kind), event |-> e, change |-> "keep", batch |-> {}]
    <3>1. /\ slot' = [slot EXCEPT ![w] = new] /\ acked' = acked
          /\ row' = [row EXCEPT ![e] = IF @ = "none" THEN "received" ELSE @]
      BY <2>2 DEF Receive
    <3>2. slot'[w] = new /\ row'[e] # "processed"
      BY <1>1, <2>2, <3>1
    <3>3. /\ new.event = e
          /\ events[e].kind = "updated" => new.pc = "read"
          /\ events[e].kind # "updated" => new.pc = "apply"
      BY DEF FirstWork
    <3> HIDE DEF new
    <3> QED
      BY <1>1, <3>1, <3>2, <3>3 DEF Stamps
  <2> QED
    BY <2>1, <2>2
<1>5. \A v \in Slots : Stamps(slot[v])'
  BY <1>4 DEF OneAtATime
<1> QED
  BY <1>3, <1>5 DEF ClockInv

\* A delivery ends: a failed payment is answered only once the clock is set.
LEMMA EndsKeepClock ==
    ASSUME TypeInv, ClockInv, OneAtATime, NEW w \in Slots, Ends(w)
    PROVE  ClockInv'
<1> DEFINE e == slot[w].event
<1>1. /\ UNCHANGED <<stripeVars, tenant>> /\ slot' = [slot EXCEPT ![w] = NoDelivery]
      /\ slot[w].pc # "idle" /\ slot \in [Slots -> Delivery]
      /\ row \in [1 .. MaxEvents -> {"none", "received", "failed", "processed"}]
  BY DEF Ends, MarkProcessed, MarkFailed, SlotCrash, SlotRests, TypeInv, TypeOK
<1>2. e \in 1 .. Len(events) /\ e \in 1 .. MaxEvents /\ Stamps(slot[w])
  BY <1>1, Carried DEF ClockInv
<1>3. UNCHANGED <<events, tenant>>
  BY <1>1 DEF stripeVars
<1>4. \A v \in Slots : Stamps(slot[v])'
  <2>1. slot'[w] = NoDelivery
    BY <1>1
  <2>2. Stamps(slot[w])'
    BY <2>1 DEF Stamps, NoDelivery
  <2> QED
    BY <2>2 DEF OneAtATime
<1>5. ASSUME Clockless' PROVE \E i \in 1 .. Len(events') : Owed(i)'
  <2>1. Clockless
    BY <1>3, <1>5 DEF Clockless
  <2>2. PICK i \in 1 .. Len(events) : Owed(i)
    BY <2>1 DEF ClockInv
  <2>3. CASE MarkProcessed(w)
    <3>1. e # i
      BY <1>2, <2>1, <2>2, <2>3 DEF MarkProcessed, Stamps, Owed, Clockless
    <3>2. row' = [row EXCEPT ![e] = "processed"] /\ (acked' = acked \/ acked' = acked \cup {e})
      BY <2>3 DEF MarkProcessed
    <3>3. Owed(i)'
      BY <1>1, <1>3, <2>2, <3>1, <3>2 DEF Owed
    <3> QED
      BY <1>3, <3>3
  <2>4. CASE MarkFailed(w)
    <3>1. row' = [row EXCEPT ![e] = "failed"] /\ acked' = acked
      BY <2>4 DEF MarkFailed
    <3>2. Owed(i)'
      BY <1>1, <1>2, <1>3, <2>2, <3>1 DEF Owed
    <3> QED
      BY <1>3, <3>2
  <2>5. CASE SlotCrash(w)
    BY <1>3, <2>2, <2>5 DEF SlotCrash, Owed
  <2> QED
    BY <2>3, <2>4, <2>5 DEF Ends
<1> QED
  BY <1>4, <1>5 DEF ClockInv

\* Once Stripe has nothing left to send, a tenant past due has its clock: by then
\* the failed payment that owed it was processed, after the stamp.
THEOREM PastDueClock ==
    ASSUME OneAtATime
    PROVE  Spec => []PastDueHasAClock
<1>1. Init => TypeInv /\ ClockInv
  <2> SUFFICES ASSUME Init PROVE ClockInv
    BY InitTypes
  <2>1. tenant.status # "past_due" /\ \A w \in Slots : slot[w].pc = "idle"
    BY DEF Init, NoDelivery
  <2> QED
    BY <2>1 DEF ClockInv, Stamps, Clockless
<1>2. TypeInv /\ ClockInv /\ [Next]_vars => (TypeInv /\ ClockInv)'
  <2> SUFFICES ASSUME TypeInv, ClockInv, [Next]_vars PROVE ClockInv'
    BY NextTypes
  <2>1. CASE UNCHANGED vars
    <3>1. Unhurried
      BY <2>1, StripeRests DEF vars, stripeVars, TypeInv, StripeStep, Unhurried
    <3> QED
      BY <3>1, UnhurriedKeepsClock
  <2>2. CASE StripeMoves
    <3>1. Extends
      BY <2>2, StripeMovesStep DEF TypeInv, StripeStep
    <3>2. UNCHANGED <<slot, acked, row, tenant>>
      BY <2>2 DEF StripeMoves, Checkout, Payment, Portal, PeriodEnds, actors
    <3>3. Unhurried
      BY <3>1, <3>2 DEF Unhurried
    <3> QED
      BY <3>3, UnhurriedKeepsClock
  <2>3. \A e \in 1 .. MaxEvents : ~GiveUp(e)
    BY DEF GiveUp, OneAtATime
  <2>4. ASSUME NEW w \in Slots, Process(w) \/ SlotCrash(w) \/ \E e \in 1 .. MaxEvents : Receive(w, e)
        PROVE  ClockInv'
    BY <2>4, WorkKeepsClock, StampKeepsClock, ApplyKeepsClock, ReceiveKeepsClock, EndsKeepClock
       DEF Process, Ends
  <2> QED
    BY <2>1, <2>2, <2>3, <2>4, RequestsUnhurried, SweepsUnhurried, UnhurriedKeepsClock
       DEF Next, StripeMoves, Reads
<1>3. TypeInv /\ ClockInv => PastDueHasAClock
  BY DEF ClockInv, Owed, PastDueHasAClock, AllDelivered, Clockless
<1> QED
  BY <1>1, <1>2, <1>3, PTL DEF Spec
--------------------------------------------------------------------------------
(* The tier is the one Stripe bills once Stripe's events are through, provided *)
(* they come one at a time and in order and one actor at most changes the tier *)
(* at Stripe.                                                                  *)

OneChange ==
    /\ OneAtATime /\ InOrder
    /\ \/ \A q, r \in Requests : q = r
       \/ "upgrade" \notin Operations /\ \A s, t \in Sweepers : s = t

\* Events are through in the order they were emitted.
Before(e) == 1 .. (e - 1)
InTurn ==
    /\ \A e \in acked : Before(e) \subseteq acked
    /\ \A e \in 1 .. MaxEvents : row[e] = "processed" => Before(e) \subseteq acked
    /\ \A e \in 1 .. MaxEvents : e > Len(events) => row[e] = "none"
    /\ \A w \in Slots : slot[w].pc # "idle" =>
         /\ slot[w].event \notin acked /\ row[slot[w].event] # "processed"
         /\ Before(slot[w].event) \subseteq acked

\* An event with another tier than Stripe's is followed by one with Stripe's.
Billable == stripe.status \notin {"none", "canceled", "incomplete"}
Tells(e) ==
    events[e].kind = "updated" /\ events[e].status # "incomplete" /\ events[e].tier = stripe.tier
Superseded ==
    Billable => \A e \in 1 .. Len(events) :
                  events[e].tier # stripe.tier => \E i \in 1 .. Len(events) : i > e /\ Tells(i)

\* Before the first subscription nothing is under way.
Untouched ==
    stripe.status = "none" =>
        /\ ~tenant.sub /\ events = <<>>
        /\ \A r \in Requests : req[r].pc = "new"
        /\ \A s \in Sweepers : sweep[s].pc \in {"idle", "next"} /\ sweep[s].batch = {}

\* What an intent says of its request.
Recorded ==
    \A r \in Requests : intent[r].status # "none" =>
        /\ req[r].pc # "new" /\ intent[r].to = req[r].to
        /\ intent[r].status = "pending" => req[r].op = "upgrade"
        /\ (intent[r].kind = "plan" /\ intent[r].status = "scheduled")
             => req[r].op = "downgrade" /\ req[r].pc = "done"

\* A sweep works off requests that are done.
Items(d) == d.batch \cup (IF d.pc \in {"price", "save"} THEN {d.at} ELSE {})
ListedFor(d) ==
    /\ d.pc = "price" => d.phase = "due"
    /\ \A r \in Items(d) :
         /\ intent[r].status # "none"
         /\ d.phase = "stale" => req[r].pc = "done" /\ req[r].op = "upgrade"
         /\ d.phase = "due" => req[r].pc = "done" /\ req[r].op = "downgrade"
    /\ (d.pc \in {"price", "save"} /\ d.phase = "due") => d.tier = req[d.at].to
Listed == \A s \in Sweepers : ListedFor(sweep[s])

\* A tier about to be saved is the one Stripe bills.
SavesAreCurrent ==
    /\ \A r \in Requests : req[r].pc = "save" => req[r].to = stripe.tier
    /\ \A s \in Sweepers : (sweep[s].pc = "save" /\ sweep[s].phase # "cancel")
                             => sweep[s].tier = stripe.tier

\* A tier that is behind will be told by an event not applied yet.
Coming(e) ==
    /\ e \notin acked /\ row[e] # "processed" /\ Tells(e)
    /\ \A w \in Slots : (slot[w].pc # "idle" /\ slot[w].event = e)
                          => slot[w].pc \in {"read", "settle", "stamp", "apply", "fail"}
CatchesUp ==
    Billable /\ tenant.tier # stripe.tier => \E e \in 1 .. Len(events) : Coming(e)

TierInv ==
    /\ InTurn /\ Superseded /\ Untouched /\ Recorded /\ Listed /\ SavesAreCurrent /\ CatchesUp

\* What a step of Stripe's side keeps to: a subscription that comes to be billed,
\* or is billed otherwise, is told of in a new event.
StripeTells ==
    /\ StripeOK' /\ Extends
    /\ \A i \in 1 .. Len(events') : i > Len(events) => events'[i].tier = stripe'.tier
    /\ (Billable' /\ (~Billable \/ stripe'.tier # stripe.tier))
         => \E i \in 1 .. Len(events') : i > Len(events) /\ Tells(i)'
    /\ stripe'.status = "none" => stripe.status = "none" /\ events' = events

LEMMA StripeRestsTells == ASSUME TypeOK, UNCHANGED <<stripe, paid, events>> PROVE StripeTells
<1>1. StripeOK' /\ Extends
  BY DEF TypeOK, StripeOK, Extends
<1>2. Billable' = Billable /\ stripe' = stripe
  BY DEF Billable
<1>3. Len(events') = Len(events) /\ Len(events) \in Nat
  BY DEF TypeOK
<1> QED
  BY <1>1, <1>2, <1>3 DEF StripeTells

LEMMA BecomesTells ==
    ASSUME TypeOK, NEW sub \in Subscription, sub.status # "none",
           NEW kinds \in Seq({"checkout", "updated", "deleted", "payment_failed"}),
           Becomes(sub, kinds),
           sub.status # "canceled" => \E k \in 1 .. Len(kinds) : kinds[k] = "updated"
    PROVE  StripeTells /\ stripe' = sub
<1> DEFINE new == [i \in 1 .. Len(kinds) |->
                     [kind |-> kinds[i], status |-> sub.status, tier |-> sub.tier,
                      cancel |-> sub.cancel]]
<1>1. StripeOK
  BY DEF TypeOK, StripeOK
<1>2. /\ StripeOK' /\ Extends /\ stripe' = sub
      /\ \A i \in 1 .. Len(events') : i > Len(events) => events'[i].tier = stripe'.tier
  BY <1>1, BecomesKeeps
<1>3. ASSUME Billable' PROVE \E i \in 1 .. Len(events') : i > Len(events) /\ Tells(i)'
  <2>1. sub.status \notin {"canceled", "incomplete"}
    BY <1>2, <1>3 DEF Billable
  <2>2. PICK k \in 1 .. Len(kinds) : kinds[k] = "updated"
    BY <2>1
  <2>3. new \in Seq(Event) /\ Len(new) = Len(kinds) /\ Len(kinds) \in Nat
    <3>1. \A j \in 1 .. Len(kinds) : new[j] \in Event
      BY DEF Event, Subscription
    <3>2. Len(kinds) \in Nat
      OBVIOUS
    <3>3. new \in [1 .. Len(kinds) -> Event]
      BY <3>1
    <3> HIDE DEF new
    <3> QED
      BY <3>2, <3>3
  <2>4. new[k].kind = "updated" /\ new[k].status = sub.status /\ new[k].tier = sub.tier
    BY <2>2
  <2>5. events' = events \o new /\ events \in Seq(Event)
    BY <1>1 DEF Becomes, StripeOK
  <2> HIDE DEF new
  <2>6. PICK i \in 1 .. Len(events') : i > Len(events) /\ events'[i] = new[k]
    <3>1. /\ Len(events) + k \in 1 .. Len(events') /\ Len(events) + k > Len(events)
          /\ events'[Len(events) + k] = new[k]
      BY <2>3, <2>5
    <3> QED
      BY <3>1
  <2>7. Tells(i)'
    BY <1>2, <2>1, <2>4, <2>6 DEF Tells
  <2> QED
    BY <2>6, <2>7
<1> QED
  BY <1>2, <1>3 DEF StripeTells

LEMMA StripeMovesTells ==
    ASSUME TypeOK, StripeMoves
    PROVE  StripeTells /\ (stripe.status # "none" => stripe'.tier = stripe.tier)
<1> DEFINE Kinds == {"checkout", "updated", "deleted", "payment_failed"}
<1>1. /\ <<"updated", "checkout">> \in Seq(Kinds) /\ <<"updated">> \in Seq(Kinds)
      /\ <<"payment_failed", "updated">> \in Seq(Kinds) /\ <<"deleted">> \in Seq(Kinds)
  OBVIOUS
<1>2. /\ \E k \in 1 .. Len(<<"updated", "checkout">>) : <<"updated", "checkout">>[k] = "updated"
      /\ \E k \in 1 .. Len(<<"updated">>) : <<"updated">>[k] = "updated"
      /\ \E k \in 1 .. Len(<<"payment_failed", "updated">>) : <<"payment_failed", "updated">>[k] = "updated"
  <2>1. <<"updated", "checkout">>[1] = "updated" /\ 1 \in 1 .. Len(<<"updated", "checkout">>)
    OBVIOUS
  <2>2. <<"updated">>[1] = "updated" /\ 1 \in 1 .. Len(<<"updated">>)
    OBVIOUS
  <2>3. <<"payment_failed", "updated">>[2] = "updated" /\ 2 \in 1 .. Len(<<"payment_failed", "updated">>)
    OBVIOUS
  <2> QED
    BY <2>1, <2>2, <2>3
<1>3. stripe \in Subscription
  BY DEF TypeOK
<1>4. ASSUME NEW st \in {"active", "past_due", "unpaid", "canceled"}
      PROVE  /\ [stripe EXCEPT !.status = st] \in Subscription
             /\ [stripe EXCEPT !.status = st].status = st
             /\ [stripe EXCEPT !.status = st].tier = stripe.tier
  BY <1>3 DEF Subscription, Statuses
<1> HIDE DEF Kinds
<1>5. CASE Checkout
  <2>1. PICK t \in Tiers, st \in {"incomplete", "trialing", "active"} :
          Moves([status |-> st, tier |-> t, cancel |-> FALSE], <<"updated", "checkout">>)
    BY <1>5 DEF Checkout
  <2> DEFINE sub == [status |-> st, tier |-> t, cancel |-> FALSE]
  <2>2. sub \in Subscription /\ sub.status # "none"
    BY DEF Subscription, Statuses
  <2>3. Becomes(sub, <<"updated", "checkout">>) /\ stripe.status = "none"
    BY <1>5, <2>1 DEF Moves, Checkout
  <2> HIDE DEF sub
  <2> QED
    BY <1>1, <1>2, <2>2, <2>3, BecomesTells DEF Kinds
<1>6. CASE Payment
  <2>1. CASE Moves([stripe EXCEPT !.status = "active"], <<"updated">>)
    BY <1>1, <1>2, <1>4, <2>1, BecomesTells DEF Moves, Kinds
  <2>2. CASE Moves([stripe EXCEPT !.status = "past_due"], <<"payment_failed", "updated">>)
    BY <1>1, <1>2, <1>4, <2>2, BecomesTells DEF Moves, Kinds
  <2>3. CASE Moves([stripe EXCEPT !.status = "unpaid"], <<"updated">>)
    BY <1>1, <1>2, <1>4, <2>3, BecomesTells DEF Moves, Kinds
  <2> QED
    BY <1>6, <2>1, <2>2, <2>3 DEF Payment
<1>7. CASE Portal
  <2> DEFINE sub == [stripe EXCEPT !.cancel = ~@]
  <2>1. sub \in Subscription /\ sub.status # "none" /\ sub.tier = stripe.tier
    BY <1>3, <1>7 DEF Portal, Live, Subscription
  <2>2. Becomes(sub, <<"updated">>)
    BY <1>7 DEF Portal, Moves
  <2> HIDE DEF sub
  <2> QED
    BY <1>1, <1>2, <2>1, <2>2, BecomesTells DEF Kinds
<1>8. CASE PeriodEnds
  <2>1. CASE stripe.cancel
    <3>1. Becomes([stripe EXCEPT !.status = "canceled"], <<"deleted">>)
      BY <1>8, <2>1 DEF PeriodEnds, Moves
    <3> QED
      BY <1>1, <1>4, <3>1, BecomesTells DEF Kinds
  <2>2. CASE ~stripe.cancel
    BY <1>8, <2>2, StripeRestsTells DEF PeriodEnds
  <2> QED
    BY <2>1, <2>2
<1> QED
  BY <1>5, <1>6, <1>7, <1>8 DEF StripeMoves

LEMMA CallTells ==
    ASSUME TypeOK, NEW sub \in Subscription, sub.status = stripe.status, NEW ok \in BOOLEAN, Call(sub, ok)
    PROVE  /\ StripeTells /\ (ok => stripe' = sub)
           /\ stripe'.tier \in {stripe.tier, sub.tier}
<1>1. CASE Live /\ Becomes(sub, <<"updated">>)
  <2>1. /\ <<"updated">> \in Seq({"checkout", "updated", "deleted", "payment_failed"})
        /\ <<"updated">>[1] = "updated" /\ 1 \in 1 .. Len(<<"updated">>)
    OBVIOUS
  <2>2. sub.status # "none"
    BY <1>1 DEF Live
  <2>3. StripeTells /\ stripe' = sub
    BY <1>1, <2>1, <2>2, BecomesTells
  <2> QED
    BY <2>3
<1>2. CASE UNCHANGED <<stripe, paid, events>> /\ (ok => stripe = sub)
  BY <1>2, StripeRestsTells
<1> QED
  BY <1>1, <1>2 DEF Call, stripeVars

\* Whoever is not a delivery leaves the events to come as they are, and writes
\* no tier but Stripe's.
LEMMA OthersCatchUp ==
    ASSUME TypeInv, InTurn, Superseded, CatchesUp, StripeTells, UNCHANGED <<slot, acked, row>>,
           tenant'.tier \in {tenant.tier, stripe'.tier}
    PROVE  InTurn' /\ Superseded' /\ CatchesUp'
<1>1. /\ Len(events) \in Nat /\ Len(events') \in Nat /\ Len(events') <= MaxEvents /\ MaxEvents \in Nat
      /\ Len(events) <= Len(events') /\ acked \subseteq 1 .. Len(events)
      /\ \A i \in 1 .. Len(events) : i \in 1 .. Len(events') /\ events'[i] = events[i]
  BY BillingConstants DEF BillingConstants, TypeInv, TypeOK, StripeTells, StripeOK, Extends
<1>2. InTurn'
  BY <1>1 DEF InTurn
<1>3. ASSUME NEW i \in 1 .. Len(events), Tells(i), stripe'.tier = stripe.tier
      PROVE  i \in 1 .. Len(events') /\ Tells(i)'
  BY <1>1, <1>3 DEF Tells
<1>4. CASE Billable' /\ Billable /\ stripe'.tier = stripe.tier
  <2>1. ASSUME NEW e \in 1 .. Len(events'), events'[e].tier # stripe'.tier
        PROVE  \E i \in 1 .. Len(events') : i > e /\ Tells(i)'
    <3>1. e \in 1 .. Len(events) /\ events[e].tier # stripe.tier
      BY <1>1, <1>4, <2>1 DEF StripeTells
    <3>2. PICK i \in 1 .. Len(events) : i > e /\ Tells(i)
      BY <1>4, <3>1 DEF Superseded
    <3> QED
      BY <1>3, <1>4, <3>2
  <2>2. ASSUME tenant'.tier # stripe'.tier PROVE \E i \in 1 .. Len(events') : Coming(i)'
    <3>1. tenant.tier # stripe.tier
      BY <1>4, <2>2
    <3>2. PICK i \in 1 .. Len(events) : Coming(i)
      BY <1>4, <3>1 DEF CatchesUp
    <3>3. i \in 1 .. Len(events') /\ Coming(i)'
      BY <1>3, <1>4, <3>2 DEF Coming
    <3> QED
      BY <3>3
  <2> QED
    BY <1>2, <2>1, <2>2 DEF Superseded, CatchesUp
<1>5. CASE Billable' /\ (~Billable \/ stripe'.tier # stripe.tier)
  <2>1. PICK i \in 1 .. Len(events') : i > Len(events) /\ Tells(i)'
    BY <1>5 DEF StripeTells
  <2>2. \A e \in 1 .. Len(events') : events'[e].tier # stripe'.tier => i > e
    BY <1>1, <2>1 DEF StripeTells
  <2>3. i \notin acked /\ i \in 1 .. MaxEvents
    BY <1>1, <2>1
  <2>4. row[i] # "processed"
    BY <2>1, <2>3 DEF InTurn
  <2>5. \A w \in Slots : slot[w].pc # "idle" => slot[w].event # i
    BY <1>1, <2>1, Carried
  <2>6. Coming(i)'
    BY <2>1, <2>3, <2>4, <2>5 DEF Coming
  <2> QED
    BY <1>2, <2>1, <2>2, <2>6 DEF Superseded, CatchesUp
<1>6. CASE ~Billable'
  BY <1>2, <1>6 DEF Superseded, CatchesUp
<1> QED
  BY <1>4, <1>5, <1>6

--------------------------------------------------------------------------------
(* The steps of the API and of the sweep, for the tier *)

\* An intent once inserted stays, for the same tier, and is at most settled.
IntentsKept ==
    \A r \in Requests :
        \/ intent'[r] = intent[r]
        \/ /\ intent[r].status # "none" /\ intent'[r].to = intent[r].to
           /\ intent'[r].status \in Settled

LEMMA SettlingKeeps ==
    ASSUME TypeInv, NEW r \in Requests, NEW kind, NEW status \in Settled,
           SetsIntents(Resolved(r, status)) \/ SetsIntents(Marked(kind, status))
    PROVE  IntentsKept
<1>1. intent \in [Requests -> Intent]
  BY DEF TypeInv, TypeOK
<1>2. \A q \in Requests : /\ [intent[q] EXCEPT !.status = status].to = intent[q].to
                          /\ [intent[q] EXCEPT !.status = status].status = status
  BY <1>1 DEF Intent
<1>3. CASE intent' = Resolved(r, status)
  BY <1>1, <1>2, <1>3 DEF Resolved, IntentsKept, Open
<1>4. CASE intent' = Marked(kind, status)
  BY <1>1, <1>2, <1>4 DEF Marked, IntentsKept
<1>5. CASE UNCHANGED intent
  BY <1>5 DEF IntentsKept
<1> QED
  BY <1>3, <1>4, <1>5 DEF SetsIntents

\* A request is what it is once it began, and done once it is done.
RequestsGoOn ==
    \A r \in Requests :
        \/ req'[r] = req[r]
        \/ /\ req[r].pc # "done" /\ req'[r].pc # "new"
           /\ req[r].pc = "new" \/ (req'[r].op = req[r].op /\ req'[r].to = req[r].to)

LEMMA RecordsKept ==
    ASSUME Recorded, IntentsKept, RequestsGoOn PROVE Recorded'
<1> SUFFICES ASSUME NEW r \in Requests, intent'[r].status # "none"
             PROVE  /\ req'[r].pc # "new" /\ intent'[r].to = req'[r].to
                    /\ intent'[r].status = "pending" => req'[r].op = "upgrade"
                    /\ (intent'[r].kind = "plan" /\ intent'[r].status = "scheduled")
                         => req'[r].op = "downgrade" /\ req'[r].pc = "done"
  BY DEF Recorded
<1>1. intent[r].status # "none" /\ intent'[r].to = intent[r].to
  BY DEF IntentsKept
<1>2. intent'[r].status \in {"pending", "scheduled"} => intent'[r] = intent[r]
  BY DEF IntentsKept, Settled
<1>3. /\ req[r].pc # "new" /\ intent[r].to = req[r].to
      /\ intent[r].status = "pending" => req[r].op = "upgrade"
      /\ (intent[r].kind = "plan" /\ intent[r].status = "scheduled")
           => req[r].op = "downgrade" /\ req[r].pc = "done"
  BY <1>1 DEF Recorded
<1> QED
  BY <1>1, <1>2, <1>3 DEF RequestsGoOn

\* The lists of a sweep stay right as the requests go on.
LEMMA ListKept ==
    ASSUME TypeInv, NEW s \in Sweepers, ListedFor(sweep[s]), RequestsGoOn,
           \A r \in Requests : intent[r].status # "none" => intent'[r].status # "none",
           sweep'[s] = sweep[s]
    PROVE  ListedFor(sweep[s])'
<1>1. Items(sweep[s]) \subseteq Requests /\ sweep[s] \in Round
  BY DEF Items, TypeInv, TypeOK, Round
<1>2. sweep[s].pc \in {"price", "save"} => sweep[s].at \in Items(sweep[s])
  BY DEF Items
<1>3. \A r \in Items(sweep[s]) :
        sweep[s].phase \in {"stale", "due"} => req'[r] = req[r]
  BY <1>1 DEF ListedFor, RequestsGoOn
<1>4. Items(sweep'[s]) = Items(sweep[s])
  OBVIOUS
<1> QED
  BY <1>1, <1>2, <1>3, <1>4 DEF ListedFor

\* A request that moves on.
LEMMA GoesOn ==
    ASSUME TypeInv, NEW r \in Requests, NEW p \in RequestPlaces \ {"new"}, Goto(r, p),
           req[r].pc # "done"
    PROVE  RequestsGoOn /\ req'[r].pc = p /\ \A q \in Requests \ {r} : req'[q] = req[q]
  BY GotoType DEF TypeInv, RequestsGoOn

\* Before the first subscription no request can do anything.
LEMMA RequestsWait ==
    ASSUME Untouched, NEW r \in Requests, Reads(r) \/ Proceed(r) \/ RequestCrash(r)
    PROVE  stripe.status # "none" /\ req[r].pc # "done"
<1>1. CASE Reads(r)
  BY <1>1 DEF Reads, ChangeRead, CancelRead, ReactivateRead, WithdrawRead, Begin, Untouched
<1>2. CASE Proceed(r)
  BY <1>2 DEF Proceed, CompareAndSet, Record, CallStripe, FailIntent, RestoreCancel, SaveTier,
     ConfirmInline, SettleScheduled, ClearChange, Untouched
<1>3. CASE RequestCrash(r)
  BY <1>3 DEF RequestCrash, InFlight, Untouched
<1> QED
  BY <1>1, <1>2, <1>3

\* What is left to show of a request's step.
LEMMA RequestKeepsTier ==
    ASSUME TypeInv, TierInv, stripe.status # "none", StripeTells,
           UNCHANGED <<slot, acked, row, sweep>>, RequestsGoOn, Recorded',
           \A r \in Requests : intent[r].status # "none" => intent'[r].status # "none",
           tenant'.tier \in {tenant.tier, stripe'.tier}, SavesAreCurrent'
    PROVE  TierInv'
<1>1. InTurn' /\ Superseded' /\ CatchesUp'
  BY OthersCatchUp DEF TierInv
<1>2. Untouched'
  BY DEF StripeTells, Untouched
<1>3. Listed'
  BY ListKept DEF TierInv, Listed
<1> QED
  BY <1>1, <1>2, <1>3 DEF TierInv

\* A step of a request that does not call Stripe, and goes on to save nothing.
LEMMA QuietRequestKeepsTier ==
    ASSUME TypeInv, TierInv, stripe.status # "none", NEW r \in Requests,
           UNCHANGED <<stripeVars, slot, acked, row, sweep>>, RequestsGoOn, Recorded',
           \A q \in Requests : intent[q].status # "none" => intent'[q].status # "none",
           tenant'.tier \in {tenant.tier, stripe.tier},
           req'[r].pc # "save", \A q \in Requests \ {r} : req'[q] = req[q]
    PROVE  TierInv'
<1>1. StripeTells /\ stripe' = stripe
  BY StripeRestsTells DEF stripeVars, TypeInv
<1>2. SavesAreCurrent'
  BY <1>1 DEF TierInv, SavesAreCurrent
<1> QED
  BY <1>1, <1>2, RequestKeepsTier

LEMMA RecordKeepsTier ==
    ASSUME TypeInv, TierInv, NEW r \in Requests, Record(r)
    PROVE  TierInv'
<1>1. /\ req[r].pc = "record" /\ req[r].op \in {"upgrade", "downgrade", "cancel", "reactivate"}
      /\ stripe.status # "none" /\ req[r].to \in Tiers
      /\ UNCHANGED <<stripeVars, acked, row, tenant, slot, sweep>>
  BY RequestsWait DEF Record, Proceed, TierInv, TypeInv, TypeOK, Request, RequestsMatch, CanBe
<1> DEFINE op == req[r].op
           inserted == [kind |-> IF op \in {"upgrade", "downgrade"} THEN "plan" ELSE op,
                        to |-> req[r].to, effective |-> req[r].effective,
                        status |-> CASE op = "upgrade" -> "pending"
                                     [] op = "reactivate" -> "confirmed"
                                     [] OTHER -> "scheduled"]
<1>2. PICK p \in {"stripe", "done", "clear"} :
        /\ Goto(r, p)
        /\ \/ UNCHANGED intent
           \/ intent' = [intent EXCEPT ![r] = inserted] /\ (op = "downgrade" => p = "done")
  BY <1>1 DEF Record
<1>3. /\ inserted.to = req[r].to /\ inserted.status # "none"
      /\ inserted.status = "pending" => op = "upgrade"
      /\ (inserted.kind = "plan" /\ inserted.status = "scheduled") => op = "downgrade"
  BY <1>1
<1> HIDE DEF inserted
<1>4. /\ RequestsGoOn /\ req'[r].pc = p /\ req'[r].op = req[r].op /\ req'[r].to = req[r].to
      /\ \A q \in Requests \ {r} : req'[q] = req[q]
  BY <1>1, <1>2, GoesOn, GotoType DEF RequestPlaces, TypeInv
<1>5. Recorded' /\ \A q \in Requests : intent[q].status # "none" => intent'[q].status # "none"
  <2>1. CASE UNCHANGED intent
    BY <1>4, <2>1, RecordsKept DEF IntentsKept, TierInv
  <2>2. CASE intent' = [intent EXCEPT ![r] = inserted] /\ (op = "downgrade" => p = "done")
    <3>1. intent'[r] = inserted /\ \A q \in Requests \ {r} : intent'[q] = intent[q]
      BY <2>2 DEF TypeInv, TypeOK
    <3> QED
      BY <1>2, <1>3, <1>4, <2>2, <3>1 DEF Recorded, TierInv
  <2> QED
    BY <1>2, <2>1, <2>2
<1> QED
  BY <1>1, <1>4, <1>5, QuietRequestKeepsTier

\* Stripe's answer to a request: whoever is about to save a tier saves this one.
LEMMA CallStripeKeepsTier ==
    ASSUME TypeInv, TierInv, OneChange, NEW r \in Requests, CallStripe(r)
    PROVE  TierInv'
<1> DEFINE asked == CASE req[r].op = "upgrade"    -> [stripe EXCEPT !.tier = req[r].to]
                      [] req[r].op = "cancel"     -> [stripe EXCEPT !.cancel = TRUE]
                      [] req[r].op = "reactivate" -> [stripe EXCEPT !.cancel = FALSE]
<1>1. /\ req[r].pc = "stripe" /\ req[r].op \in {"upgrade", "cancel", "reactivate"}
      /\ UNCHANGED <<acked, row, tenant, intent, slot, sweep>>
      /\ stripe.status # "none"
  BY CallStripeAsks, RequestsWait DEF Proceed, TierInv
<1>2. \E ok \in BOOLEAN : Call(asked, ok)
  BY DEF CallStripe
<1>3. stripe \in Subscription /\ req[r] \in Request
  BY DEF TypeInv, TypeOK
<1>4. /\ asked \in Subscription /\ asked.status = stripe.status
      /\ req[r].op # "upgrade" => asked.tier = stripe.tier
  BY <1>1, <1>3 DEF Subscription, Request
<1> HIDE DEF asked
<1>5. StripeTells /\ (req[r].op # "upgrade" => stripe'.tier = stripe.tier)
  BY <1>2, <1>4, CallTells DEF TypeInv
<1>6. PICK p \in {"save", "fail", "done", "settle", "restore"} :
        Goto(r, p) /\ (p = "save" => stripe'.tier = req[r].to)
  BY CallStripeAsks
<1>7. /\ RequestsGoOn /\ req'[r].pc = p /\ req'[r].to = req[r].to
      /\ \A q \in Requests \ {r} : req'[q] = req[q]
  BY <1>1, <1>6, GoesOn, GotoType DEF RequestPlaces, TypeInv
<1>8. SavesAreCurrent'
  <2>1. CASE stripe'.tier = stripe.tier
    BY <1>1, <1>6, <1>7, <2>1 DEF TierInv, SavesAreCurrent
  <2>2. CASE req[r].op = "upgrade"
    <3>1. \A q \in Requests : q = r
      BY <1>3, <2>2 DEF OneChange, Request
    <3>2. ASSUME NEW s \in Sweepers, sweep[s].pc = "save", sweep[s].phase # "cancel" PROVE FALSE
      <4>1. sweep[s].at \in Items(sweep[s]) /\ sweep[s] \in Round
        BY <3>2 DEF Items, TypeInv, TypeOK
      <4>2. req[sweep[s].at].pc = "done"
        BY <3>2, <4>1 DEF TierInv, Listed, ListedFor, Round
      <4> QED
        BY <1>1, <3>1, <4>1, <4>2 DEF Round
    <3> QED
      BY <1>1, <1>6, <1>7, <3>1, <3>2 DEF SavesAreCurrent
  <2> QED
    BY <1>5, <2>1, <2>2
<1>9. Recorded'
  BY <1>1, <1>7, RecordsKept DEF IntentsKept, TierInv
<1> QED
  BY <1>1, <1>5, <1>7, <1>8, <1>9, RequestKeepsTier

LEMMA RequestsKeepTier ==
    ASSUME TypeInv, TierInv, OneChange, NEW r \in Requests,
           Reads(r) \/ Proceed(r) \/ RequestCrash(r)
    PROVE  TierInv'
<1>1. stripe.status # "none" /\ req[r].pc # "done"
  BY RequestsWait DEF TierInv
<1>2. ASSUME IntentsKept, RequestsGoOn
      PROVE  Recorded' /\ \A q \in Requests : intent[q].status # "none" => intent'[q].status # "none"
  BY <1>2, RecordsKept DEF TierInv, IntentsKept, Settled
<1>3. UNCHANGED intent => IntentsKept
  BY DEF IntentsKept
<1>4. CASE Reads(r)
  <2>1. /\ UNCHANGED <<stripeVars, acked, row, tenant, intent, slot, sweep>>
        /\ req[r].pc = "new" /\ \A q \in Requests \ {r} : req'[q] = req[q]
        /\ req'[r].pc \in {"project", "record", "claim", "settle"}
    BY <1>4, ReadsMatch
  <2>2. RequestsGoOn
    BY <2>1 DEF RequestsGoOn
  <2> QED
    BY <1>1, <1>2, <1>3, <2>1, <2>2, QuietRequestKeepsTier
<1>5. CASE CompareAndSet(r)
  <2>1. /\ UNCHANGED <<stripeVars, acked, row, intent, slot, sweep>>
        /\ tenant' = tenant \/ \E to : tenant' = [tenant EXCEPT !.change = to]
    BY <1>5 DEF CompareAndSet
  <2>2. tenant'.tier = tenant.tier
    BY <2>1 DEF TypeInv, TypeOK, Tenant
  <2>3. PICK p \in {"record", "stripe", "done"} : Goto(r, p)
    BY <1>5 DEF CompareAndSet
  <2>4. RequestsGoOn /\ req'[r].pc = p /\ \A q \in Requests \ {r} : req'[q] = req[q]
    BY <1>1, <2>3, GoesOn DEF RequestPlaces
  <2> QED
    BY <1>1, <1>2, <1>3, <2>1, <2>2, <2>4, QuietRequestKeepsTier
<1>6. CASE Settles(r)
  <2>1. UNCHANGED <<stripeVars, acked, row, tenant, slot, sweep>> /\ IntentsKept
    BY <1>6, SettlesStep, SettlingKeeps
  <2>2. PICK p \in {"clear", "done", "record"} : Goto(r, p)
    BY <1>6, SettlesStep
  <2>3. RequestsGoOn /\ req'[r].pc = p /\ \A q \in Requests \ {r} : req'[q] = req[q]
    BY <1>1, <2>2, GoesOn DEF RequestPlaces
  <2> QED
    BY <1>1, <1>2, <2>1, <2>3, QuietRequestKeepsTier
<1>7. CASE Writes(r)
  <2>1. UNCHANGED <<stripeVars, acked, row, intent, slot, sweep>>
    BY <1>7, WritesStep
  <2>2. tenant'.tier \in {tenant.tier, stripe.tier}
    BY <1>7, WritesStep DEF TierInv, SavesAreCurrent
  <2>3. PICK p \in {"resolve", "done"} : Goto(r, p)
    BY <1>7, WritesStep
  <2>4. RequestsGoOn /\ req'[r].pc = p /\ \A q \in Requests \ {r} : req'[q] = req[q]
    BY <1>1, <2>3, GoesOn DEF RequestPlaces
  <2> QED
    BY <1>1, <1>2, <1>3, <2>1, <2>2, <2>4, QuietRequestKeepsTier
<1> QED
  BY <1>4, <1>5, <1>6, <1>7, RecordKeepsTier, CallStripeKeepsTier DEF Proceed, Settles, Writes

\* What is left to show of a sweep's step.
LEMMA SweepKeepsTier ==
    ASSUME TypeInv, TierInv, NEW s \in Sweepers, StripeTells,
           UNCHANGED <<slot, acked, row, req>>, IntentsKept,
           \A v \in Sweepers \ {s} : sweep'[v] = sweep[v],
           ListedFor(sweep[s])',
           tenant'.tier \in {tenant.tier, stripe'.tier}, SavesAreCurrent',
           stripe.status = "none" =>
             tenant' = tenant /\ sweep'[s].pc \in {"idle", "next"} /\ sweep'[s].batch = {}
    PROVE  TierInv'
<1>1. InTurn' /\ Superseded' /\ CatchesUp'
  BY OthersCatchUp DEF TierInv
<1>2. Untouched'
  BY DEF StripeTells, TierInv, Untouched
<1>3. RequestsGoOn /\ \A r \in Requests : intent[r].status # "none" => intent'[r].status # "none"
  BY DEF RequestsGoOn, IntentsKept, Settled
<1>4. Recorded'
  BY <1>3, RecordsKept DEF TierInv
<1>5. Listed'
  BY <1>3, ListKept DEF TierInv, Listed
<1> QED
  BY <1>1, <1>2, <1>4, <1>5 DEF TierInv

\* A step of a sweep that leaves Stripe alone.
LEMMA QuietSweepKeepsTier ==
    ASSUME TypeInv, TierInv, NEW s \in Sweepers, UNCHANGED stripeVars,
           UNCHANGED <<slot, acked, row, req>>, IntentsKept,
           \A v \in Sweepers \ {s} : sweep'[v] = sweep[v],
           ListedFor(sweep[s])',
           tenant'.tier \in {tenant.tier, stripe.tier},
           sweep'[s].pc = "save" => sweep'[s].tier = stripe.tier,
           stripe.status = "none" =>
             tenant' = tenant /\ sweep'[s].pc \in {"idle", "next"} /\ sweep'[s].batch = {}
    PROVE  TierInv'
<1>1. StripeTells /\ stripe' = stripe
  BY StripeRestsTells DEF stripeVars, TypeInv
<1>2. SavesAreCurrent'
  BY <1>1 DEF TierInv, SavesAreCurrent
<1> QED
  BY <1>1, <1>2, SweepKeepsTier

\* A sweep that goes on with less of its list.
LEMMA ListShrinks ==
    ASSUME NEW s \in Sweepers, ListedFor(sweep[s]), UNCHANGED req,
           \A r \in Requests : intent[r].status # "none" => intent'[r].status # "none",
           sweep'[s].pc \notin {"price", "save"}, sweep'[s].phase = sweep[s].phase,
           sweep'[s].batch \subseteq sweep[s].batch, sweep[s].batch \subseteq Requests
    PROVE  ListedFor(sweep[s])'
<1>1. Items(sweep'[s]) \subseteq Items(sweep[s]) /\ Items(sweep'[s]) \subseteq Requests
  BY DEF Items
<1> QED
  BY <1>1 DEF ListedFor

LEMMA SweepListKeepsTier ==
    ASSUME TypeInv, TierInv, NoneYet, NEW s \in Sweepers, SweepList(s)
    PROVE  TierInv'
<1>1. /\ UNCHANGED <<stripeVars, acked, row, tenant, intent, req, slot>>
      /\ \A v \in Sweepers \ {s} : sweep'[v] = sweep[v]
  BY SweepListType DEF SweepList
<1>2. IntentsKept /\ sweep \in [Sweepers -> Round] /\ sweep[s] \in Round
  BY <1>1 DEF IntentsKept, TypeInv, TypeOK
<1>3. stripe.status = "none" => \A r \in Requests : intent[r].status = "none"
  BY DEF TierInv, Untouched, NoneYet, Unrecorded
<1>4. ASSUME NEW phase \in {"stale", "due", "cancel"}, NEW batch \in SUBSET Requests,
             Begins(s, phase, batch),
             \A r \in batch :
               /\ intent[r].status # "none"
               /\ phase = "stale" => req[r].pc = "done" /\ req[r].op = "upgrade"
               /\ phase = "due" => req[r].pc = "done" /\ req[r].op = "downgrade"
      PROVE  TierInv'
  <2> DEFINE new == [sweep[s] EXCEPT !.pc = "next", !.phase = phase, !.batch = batch]
  <2>1. new.pc = "next" /\ new.phase = phase /\ new.batch = batch
    BY <1>2 DEF Round
  <2>2. sweep' = [sweep EXCEPT ![s] = new]
    BY <1>4 DEF Begins
  <2> HIDE DEF new
  <2>3. sweep'[s].pc = "next" /\ sweep'[s].phase = phase /\ sweep'[s].batch = batch
    BY <1>2, <2>1, <2>2
  <2>4. Items(sweep'[s]) = batch
    BY <2>3 DEF Items
  <2>5. ListedFor(sweep[s])'
    BY <1>1, <1>4, <2>3, <2>4 DEF ListedFor
  <2>6. stripe.status = "none" => batch = {}
    BY <1>3, <1>4
  <2> QED
    BY <1>1, <1>2, <2>3, <2>5, <2>6, QuietSweepKeepsTier
<1>5. CASE SweepRests(s)
  <2>1. sweep'[s] = NoRound
    BY <1>2, <1>5 DEF SweepRests
  <2>2. NoRound.pc = "idle" /\ NoRound.batch = {}
    BY DEF NoRound
  <2>3. ListedFor(sweep[s])'
    BY <2>1, <2>2 DEF ListedFor, Items
  <2> QED
    BY <1>1, <1>2, <2>1, <2>2, <2>3, QuietSweepKeepsTier
<1>6. CASE Begins(s, "stale", {r \in Requests : Stale(r)})
  <2>1. \A r \in {q \in Requests : Stale(q)} :
          intent[r].status # "none" /\ req[r].pc = "done" /\ req[r].op = "upgrade"
    BY DEF Stale, InFlight, TierInv, Recorded
  <2> QED
    BY <1>4, <1>6, <2>1
<1>7. CASE Begins(s, "due", {r \in Requests : Due(r)})
  <2>1. \A r \in {q \in Requests : Due(q)} :
          intent[r].status # "none" /\ req[r].pc = "done" /\ req[r].op = "downgrade"
    BY DEF Due, TierInv, Recorded
  <2> QED
    BY <1>4, <1>7, <2>1
<1>8. CASE Begins(s, "cancel", {r \in Requests : Scheduled(r)})
  <2>1. \A r \in {q \in Requests : Scheduled(q)} : intent[r].status # "none"
    BY DEF Scheduled
  <2> QED
    BY <1>4, <1>8, <2>1
<1> QED
  BY <1>5, <1>6, <1>7, <1>8 DEF SweepList

LEMMA SweepLookKeepsTier ==
    ASSUME TypeInv, TierInv, NEW s \in Sweepers, SweepLook(s)
    PROVE  TierInv'
<1>1. /\ UNCHANGED <<stripeVars, acked, row, tenant, intent, req, slot>> /\ sweep[s].pc = "next"
      /\ sweep'[s].pc = "save" => sweep'[s].tier = stripe.tier
      /\ \A v \in Sweepers \ {s} : sweep'[v] = sweep[v]
  BY SweepLookType DEF SweepLook
<1>2. IntentsKept /\ sweep \in [Sweepers -> Round] /\ sweep[s] \in Round
  BY <1>1 DEF IntentsKept, TypeInv, TypeOK
<1>3. PICK r \in sweep[s].batch : \E t, o, p :
        /\ sweep' = [sweep EXCEPT ![s] = [sweep[s] EXCEPT !.batch = @ \ {r}, !.at = r, !.tier = t,
                                                          !.outcome = o, !.pc = p]]
        /\ sweep[s].phase = "due" => t = intent[r].to
        /\ p = "price" => sweep[s].phase = "due"
  <2>1. PICK r \in sweep[s].batch :
         LET phase == sweep[s].phase
             found == [sweep[s] EXCEPT
                         !.batch = @ \ {r}, !.at = r,
                         !.tier = IF phase = "due" THEN intent[r].to ELSE stripe.tier,
                         !.outcome = IF phase = "cancel" THEN "canceled" ELSE "confirmed",
                         !.pc = CASE phase = "stale" -> "save"
                                  [] phase = "due" /\ stripe.tier # intent[r].to -> "price"
                                  [] phase = "due" /\ stripe.tier = intent[r].to -> "save"
                                  [] phase = "cancel" -> IF stripe.cancel THEN "save" ELSE "resolve"]
         IN sweep' = [sweep EXCEPT ![s] = found]
    BY DEF SweepLook
  <2> DEFINE t == IF sweep[s].phase = "due" THEN intent[r].to ELSE stripe.tier
             o == IF sweep[s].phase = "cancel" THEN "canceled" ELSE "confirmed"
             p == CASE sweep[s].phase = "stale" -> "save"
                    [] sweep[s].phase = "due" /\ stripe.tier # intent[r].to -> "price"
                    [] sweep[s].phase = "due" /\ stripe.tier = intent[r].to -> "save"
                    [] sweep[s].phase = "cancel" -> IF stripe.cancel THEN "save" ELSE "resolve"
  <2>2. sweep' = [sweep EXCEPT ![s] = [sweep[s] EXCEPT !.batch = @ \ {r}, !.at = r, !.tier = t,
                                                          !.outcome = o, !.pc = p]]
    BY <2>1
  <2>3. p = "price" => sweep[s].phase = "due"
    BY <1>2 DEF Round
  <2>4. sweep[s].phase = "due" => t = intent[r].to
    OBVIOUS
  <2> HIDE DEF t, o, p
  <2> QED
    BY <2>2, <2>3, <2>4
<1>3a. PICK t, o, p :
        /\ sweep' = [sweep EXCEPT ![s] = [sweep[s] EXCEPT !.batch = @ \ {r}, !.at = r, !.tier = t,
                                                          !.outcome = o, !.pc = p]]
        /\ sweep[s].phase = "due" => t = intent[r].to
        /\ p = "price" => sweep[s].phase = "due"
  BY <1>3
<1> DEFINE new == [sweep[s] EXCEPT !.batch = @ \ {r}, !.at = r, !.tier = t, !.outcome = o, !.pc = p]
<1>4. /\ new.pc = p /\ new.phase = sweep[s].phase /\ new.batch = sweep[s].batch \ {r}
      /\ new.at = r /\ new.tier = t
  BY <1>2 DEF Round
<1> HIDE DEF new
<1>5. sweep'[s] = new
  BY <1>2, <1>3a DEF new
<1>6. Items(new) \subseteq sweep[s].batch /\ sweep[s].batch = Items(sweep[s])
  BY <1>1, <1>4 DEF Items
<1>7. r \in Items(sweep[s]) /\ r \in Requests
  BY <1>2, <1>6 DEF Round
<1>8. intent[r].to = req[r].to
  BY <1>7 DEF TierInv, Listed, ListedFor, Recorded
<1>9. ListedFor(sweep[s])
  BY DEF TierInv, Listed
<1>10. ListedFor(sweep[s])'
  BY <1>1, <1>3a, <1>4, <1>5, <1>6, <1>8, <1>9 DEF ListedFor
<1>11. stripe.status # "none"
  BY DEF TierInv, Untouched
<1> QED
  BY <1>1, <1>2, <1>10, <1>11, QuietSweepKeepsTier

LEMMA SweepLookFailsKeepsTier ==
    ASSUME TypeInv, TierInv, NEW s \in Sweepers, SweepLookFails(s)
    PROVE  TierInv'
<1>1. /\ UNCHANGED <<stripeVars, acked, row, tenant, intent, req, slot>> /\ sweep[s].pc = "next"
      /\ sweep'[s].pc # "save" /\ \A v \in Sweepers \ {s} : sweep'[v] = sweep[v]
  BY SweepLookFailsType DEF SweepLookFails
<1>2. IntentsKept /\ sweep \in [Sweepers -> Round] /\ sweep[s] \in Round
  BY <1>1 DEF IntentsKept, TypeInv, TypeOK
<1>3. /\ sweep'[s].pc \in {"next", "resolve"} /\ sweep'[s].phase = sweep[s].phase
      /\ sweep'[s].batch \subseteq sweep[s].batch
  BY <1>1, <1>2 DEF SweepLookFails, Round
<1>4. ListedFor(sweep[s]) /\ sweep[s].batch \subseteq Requests
  BY <1>2 DEF TierInv, Listed, Round
<1>5. ListedFor(sweep[s])'
  BY <1>1, <1>3, <1>4, ListShrinks
<1>6. stripe.status # "none"
  BY DEF SweepLookFails, TierInv, Untouched
<1> QED
  BY <1>1, <1>2, <1>3, <1>5, <1>6, QuietSweepKeepsTier

\* The sweep re-prices: nobody else is about to save another tier.
LEMMA SweepPriceKeepsTier ==
    ASSUME TypeInv, TierInv, OneChange, NEW s \in Sweepers, SweepPrice(s)
    PROVE  TierInv'
<1> DEFINE asked == [stripe EXCEPT !.tier = sweep[s].tier]
<1>1. PICK ok \in BOOLEAN : Call(asked, ok) /\ SweepGoto(s, IF ok THEN "save" ELSE "next")
  BY DEF SweepPrice
<1>2. UNCHANGED <<acked, row, tenant, intent, req, slot>> /\ sweep[s].pc = "price"
  BY DEF SweepPrice
<1>3. sweep[s] \in Round /\ stripe \in Subscription
  BY DEF TypeInv, TypeOK
<1>4. asked \in Subscription /\ asked.status = stripe.status /\ asked.tier = sweep[s].tier
  BY <1>3 DEF Round, Subscription
<1> HIDE DEF asked
<1>5. /\ StripeTells /\ (ok => stripe'.tier = sweep[s].tier)
      /\ stripe'.tier \in {stripe.tier, sweep[s].tier}
  BY <1>1, <1>4, CallTells DEF TypeInv
<1>6. PICK p \in {"save", "next"} : SweepGoto(s, p) /\ (p = "save" => ok)
  BY <1>1
<1>7. /\ sweep'[s].pc = p /\ sweep'[s].phase = sweep[s].phase /\ sweep'[s].tier = sweep[s].tier
      /\ sweep'[s].batch = sweep[s].batch /\ sweep'[s].at = sweep[s].at
      /\ \A v \in Sweepers \ {s} : sweep'[v] = sweep[v]
  BY <1>6, SweepGotoType DEF TypeInv, SweepPlaces
<1>8. /\ ListedFor(sweep[s]) /\ sweep[s].phase = "due" /\ sweep[s].at \in Requests
      /\ sweep[s].at \in Items(sweep[s])
      /\ req[sweep[s].at].pc = "done" /\ req[sweep[s].at].op = "downgrade"
      /\ sweep[s].tier = req[sweep[s].at].to
  <2>1. ListedFor(sweep[s]) /\ sweep[s].at \in Requests /\ sweep[s].at \in Items(sweep[s])
    BY <1>2, <1>3 DEF TierInv, Listed, Round, Items
  <2> QED
    BY <1>2, <2>1 DEF ListedFor
<1>9. IntentsKept /\ stripe.status # "none"
  BY <1>2 DEF IntentsKept, TierInv, Untouched
<1>10. ListedFor(sweep[s])'
  <2>1. Items(sweep'[s]) \subseteq Items(sweep[s])
    BY <1>2, <1>7 DEF Items
  <2> QED
    BY <1>2, <1>7, <1>8, <2>1 DEF ListedFor
<1>11. \A r \in Requests : req'[r].pc = "save" => req'[r].to = stripe'.tier
  <2> SUFFICES ASSUME NEW r \in Requests, req[r].pc = "save" PROVE FALSE
    BY <1>2
  <2>1. req[r].op = "upgrade" /\ "upgrade" \in Operations
    BY DEF TypeInv, TypeOK, Request, RequestsMatch, CanBe
  <2>2. r = sweep[s].at
    BY <1>8, <2>1 DEF OneChange
  <2> QED
    BY <1>8, <2>2
<1>12. ASSUME NEW v \in Sweepers, sweep'[v].pc = "save", sweep'[v].phase # "cancel"
       PROVE  sweep'[v].tier = stripe'.tier
  <2>1. CASE v = s
    BY <1>5, <1>6, <1>7, <1>12, <2>1
  <2>2. CASE v # s
    <3>1. sweep'[v] = sweep[v] /\ \A q, r \in Requests : q = r
      BY <1>7, <2>2 DEF OneChange
    <3>2. /\ ListedFor(sweep[v]) /\ sweep[v] \in Round /\ sweep[v].at \in Items(sweep[v])
          /\ sweep[v].tier = stripe.tier
      BY <1>12, <3>1 DEF TierInv, Listed, TypeInv, TypeOK, Items, SavesAreCurrent
    <3>3. sweep[v].at = sweep[s].at /\ sweep[v].phase \in {"stale", "due"}
      BY <1>8, <1>12, <3>1, <3>2 DEF Round
    <3>4. sweep[v].phase = "due"
      BY <1>8, <3>2, <3>3 DEF ListedFor
    <3>5. sweep[v].tier = sweep[s].tier
      BY <1>8, <1>12, <3>1, <3>2, <3>3, <3>4 DEF ListedFor
    <3> QED
      BY <1>5, <3>1, <3>2, <3>5
  <2> QED
    BY <2>1, <2>2
<1>13. SavesAreCurrent'
  BY <1>11, <1>12 DEF SavesAreCurrent
<1> QED
  BY <1>2, <1>5, <1>7, <1>9, <1>10, <1>13, SweepKeepsTier

\* A sweep saves the tier it looked up or asked for.
LEMMA SweepSaveKeepsTier ==
    ASSUME TypeInv, TierInv, NEW s \in Sweepers, SweepSave(s)
    PROVE  TierInv'
<1>1. /\ UNCHANGED <<stripeVars, acked, row, intent, req, slot>> /\ sweep[s].pc = "save"
  BY DEF SweepSave
<1>2. PICK p \in {"next", "resolve"} : SweepGoto(s, p)
  BY DEF SweepSave
<1>3. /\ sweep'[s].pc = p /\ sweep'[s].phase = sweep[s].phase
      /\ sweep'[s].batch = sweep[s].batch
      /\ \A v \in Sweepers \ {s} : sweep'[v] = sweep[v]
  BY <1>2, SweepGotoType DEF TypeInv, SweepPlaces
<1>4. tenant \in Tenant /\ sweep[s] \in Round /\ ListedFor(sweep[s]) /\ IntentsKept
  BY <1>1 DEF TypeInv, TypeOK, TierInv, Listed, IntentsKept
<1>5. tenant'.tier \in {tenant.tier, stripe.tier}
  <2>1. CASE sweep[s].phase = "cancel"
    BY <1>4, <2>1 DEF SweepSave, Tenant
  <2>2. CASE sweep[s].phase # "cancel"
    <3>1. sweep[s].tier = stripe.tier
      BY <1>1, <2>2 DEF TierInv, SavesAreCurrent
    <3> QED
      BY <1>4, <2>2, <3>1, SweepSaveType
  <2> QED
    BY <2>1, <2>2
<1>6. stripe.status # "none"
  BY <1>1 DEF TierInv, Untouched
<1>7. ListedFor(sweep[s])'
  BY <1>1, <1>3, <1>4, ListShrinks DEF Round
<1> QED
  BY <1>1, <1>3, <1>4, <1>5, <1>6, <1>7, QuietSweepKeepsTier

LEMMA SweepEndsKeepsTier ==
    ASSUME TypeInv, TierInv, NEW s \in Sweepers, SweepEnds(s)
    PROVE  TierInv'
<1>1. /\ UNCHANGED <<stripeVars, acked, row, req, slot>>
      /\ tenant'.tier = tenant.tier /\ sweep'[s].pc # "save"
      /\ \A v \in Sweepers \ {s} : sweep'[v] = sweep[v]
  BY SweepEndsType DEF SweepEnds, SweepResolve, SweepClear, SweepCrash
<1>2. sweep[s] \in Round /\ sweep \in [Sweepers -> Round] /\ ListedFor(sweep[s])
  BY DEF TypeInv, TypeOK, TierInv, Listed
<1>3. IntentsKept
  <2>1. CASE SweepResolve(s)
    <3>1. SetsIntents(Resolved(sweep[s].at, sweep[s].outcome))
      BY <2>1 DEF SweepResolve, Item
    <3> QED
      BY <1>2, <3>1, SettlingKeeps DEF Round
  <2>2. CASE UNCHANGED intent
    BY <2>2 DEF IntentsKept
  <2> QED
    BY <2>1, <2>2 DEF SweepEnds, SweepClear, SweepCrash
<1>4. ListedFor(sweep[s])' /\ (stripe.status = "none" =>
         tenant' = tenant /\ sweep'[s].pc \in {"idle", "next"} /\ sweep'[s].batch = {})
  <2>1. CASE SweepResolve(s) \/ SweepClear(s)
    <3>1. PICK p \in {"next", "clear"} : SweepGoto(s, p)
      BY <2>1 DEF SweepResolve, SweepClear
    <3>2. /\ sweep'[s].pc = p /\ sweep'[s].phase = sweep[s].phase
          /\ sweep'[s].batch = sweep[s].batch
      BY <3>1, SweepGotoType DEF TypeInv, SweepPlaces
    <3>3. stripe.status # "none"
      BY <2>1 DEF SweepResolve, SweepClear, TierInv, Untouched
    <3>4. \A r \in Requests : intent[r].status # "none" => intent'[r].status # "none"
      BY <1>3 DEF IntentsKept, Settled
    <3> QED
      BY <1>1, <1>2, <3>2, <3>3, <3>4, ListShrinks DEF Round
  <2>2. CASE SweepCrash(s)
    <3>1. sweep'[s] = NoRound /\ tenant' = tenant
      BY <1>2, <2>2 DEF SweepCrash, SweepRests
    <3>2. NoRound.pc = "idle" /\ NoRound.batch = {}
      BY DEF NoRound
    <3> QED
      BY <3>1, <3>2 DEF ListedFor, Items
  <2> QED
    BY <2>1, <2>2 DEF SweepEnds
<1> QED
  BY <1>1, <1>3, <1>4, QuietSweepKeepsTier

LEMMA SweepsKeepTier ==
    ASSUME TypeInv, TierInv, NoneYet, OneChange, NEW s \in Sweepers,
           Sweep(s) \/ SweepLookFails(s) \/ SweepCrash(s)
    PROVE  TierInv'
  BY SweepListKeepsTier, SweepLookKeepsTier, SweepLookFailsKeepsTier, SweepPriceKeepsTier,
     SweepSaveKeepsTier, SweepEndsKeepsTier DEF Sweep, SweepEnds

--------------------------------------------------------------------------------
(* The steps of a delivery, for the tier *)

Unapplied == {"read", "settle", "stamp", "apply", "fail"}

\* A delivery settles intents, or leaves them alone.
LEMMA DeliveriesKeepIntents ==
    ASSUME TypeInv, NEW w \in Slots,
           Process(w) \/ SlotCrash(w) \/ \E e \in 1 .. MaxEvents : Receive(w, e)
    PROVE  IntentsKept
<1>1. CASE SettleCancels(w)
  <2>1. PICK r : r \in Requests
    BY BillingConstants DEF BillingConstants
  <2>2. \E status \in Settled : SetsIntents(Marked("cancel", status))
    BY <1>1 DEF SettleCancels, Settled
  <2> QED
    BY <2>1, <2>2, SettlingKeeps
<1>2. CASE ConfirmPending(w)
  <2>1. slot[w].batch \subseteq Requests
    BY DEF TypeInv, TypeOK, Delivery
  <2>2. \E r \in Requests : SetsIntents(Resolved(r, "confirmed"))
    BY <1>2, <2>1 DEF ConfirmPending
  <2> QED
    BY <2>2, SettlingKeeps DEF Settled
<1>3. CASE UNCHANGED intent
  BY <1>3 DEF IntentsKept
<1> QED
  BY <1>1, <1>2, <1>3 DEF Process, SlotCrash, Receive, UpdatedRead, StampPastDue, Apply, ListPending,
     MarkProcessed, MarkFailed

\* What is left to show of a delivery's step.
LEMMA DeliveryKeepsTier ==
    ASSUME TypeInv, TierInv, NEW w \in Slots, IntentsKept,
           UNCHANGED <<stripeVars, req, sweep>>, events # <<>>, InTurn', CatchesUp'
    PROVE  TierInv'
<1>1. UNCHANGED <<stripe, events>>
  BY DEF stripeVars
<1>2. Superseded' /\ Untouched' /\ SavesAreCurrent'
  BY <1>1 DEF TierInv, Superseded, Billable, Tells, Untouched, SavesAreCurrent
<1>3. RequestsGoOn /\ \A r \in Requests : intent[r].status # "none" => intent'[r].status # "none"
  BY DEF RequestsGoOn, IntentsKept, Settled
<1>4. Recorded' /\ Listed'
  BY <1>3, RecordsKept, ListKept DEF TierInv, Listed
<1> QED
  BY <1>2, <1>4 DEF TierInv

\* A step of the one delivery within its event: it leaves the tier alone and
\* does not pass an update by, or it writes the tier of its event.
LEMMA EventKeepsTier ==
    ASSUME TypeInv, TierInv, OneChange, NEW w \in Slots, IntentsKept,
           UNCHANGED <<stripeVars, acked, row, req, sweep>>, slot[w].pc # "idle",
           slot'[w].event = slot[w].event,
           \/ /\ tenant'.tier = tenant.tier
              /\ (Snapshot(w).kind = "updated" /\ Snapshot(w).status # "incomplete"
                    /\ slot[w].pc \in Unapplied) => slot'[w].pc \in Unapplied
           \/ tenant'.tier = Snapshot(w).tier
    PROVE  TierInv'
<1> DEFINE e == slot[w].event
<1>1. /\ UNCHANGED <<stripe, events>> /\ \A v \in Slots : v = w
      /\ e \in 1 .. Len(events) /\ Len(events) \in Nat
  BY Carried DEF stripeVars, OneChange, OneAtATime, TypeInv, TypeOK
<1>2. /\ e \notin acked /\ row[e] # "processed" /\ Before(e) \subseteq acked
      /\ \A i \in acked : Before(i) \subseteq acked
      /\ \A i \in 1 .. MaxEvents : row[i] = "processed" => Before(i) \subseteq acked
  BY DEF TierInv, InTurn
<1>3. InTurn'
  BY <1>1, <1>2 DEF TierInv, InTurn
<1>4. CatchesUp'
  <2> SUFFICES ASSUME Billable', tenant'.tier # stripe'.tier
               PROVE  \E i \in 1 .. Len(events') : Coming(i)'
    BY DEF CatchesUp
  <2>1. Billable
    BY <1>1 DEF Billable
  <2>2. CASE /\ tenant'.tier = tenant.tier
             /\ (Snapshot(w).kind = "updated" /\ Snapshot(w).status # "incomplete"
                   /\ slot[w].pc \in Unapplied) => slot'[w].pc \in Unapplied
    <3>1. PICK i \in 1 .. Len(events) : Coming(i)
      BY <1>1, <2>1, <2>2 DEF TierInv, CatchesUp
    <3>2. Tells(i)'
      BY <1>1, <3>1 DEF Coming, Tells
    <3>3. (slot'[w].pc # "idle" /\ slot'[w].event = i) => slot'[w].pc \in Unapplied
      BY <2>2, <3>1 DEF Coming, Tells, Snapshot, Unapplied
    <3>4. Coming(i)'
      BY <1>1, <3>1, <3>2, <3>3 DEF Coming, Unapplied
    <3> QED
      BY <1>1, <3>4
  <2>3. CASE tenant'.tier = Snapshot(w).tier
    <3>1. events[e].tier # stripe.tier
      BY <1>1, <2>3 DEF Snapshot
    <3>2. PICK i \in 1 .. Len(events) : i > e /\ Tells(i)
      BY <1>1, <2>1, <3>1 DEF TierInv, Superseded
    <3>3. e \in Before(i)
      BY <1>1, <3>2 DEF Before
    <3>4. i \in 1 .. MaxEvents
      BY <1>1, BillingConstants DEF TypeInv, TypeOK, BillingConstants
    <3>5. i \notin acked /\ row[i] # "processed"
      BY <1>2, <3>3, <3>4
    <3>6. Tells(i)'
      BY <1>1, <3>2 DEF Tells
    <3>7. slot'[w].event # i
      BY <1>1, <3>2
    <3>8. Coming(i)'
      BY <1>1, <3>5, <3>6, <3>7 DEF Coming
    <3> QED
      BY <1>1, <3>8
  <2> QED
    BY <2>2, <2>3
<1>5. events # <<>>
  BY <1>1
<1> QED
  BY <1>3, <1>4, <1>5, DeliveryKeepsTier

\* An update that says anything but incomplete is read on.
LEMMA WorkKeepsTier ==
    ASSUME TypeInv, TierInv, OneChange, NEW w \in Slots,
           \/ UpdatedRead(w) \/ SettleCancels(w) \/ ListPending(w) \/ ConfirmPending(w)
           \/ StampPastDue(w) \/ Apply(w)
    PROVE  TierInv'
<1>1. /\ slot[w].pc \in {"read", "settle", "list", "confirm", "stamp", "apply"}
      /\ UNCHANGED <<stripeVars, acked, row, req, sweep>>
  BY DEF UpdatedRead, SettleCancels, ListPending, ConfirmPending, StampPastDue, Apply
<1>2. IntentsKept
  BY DeliveriesKeepIntents DEF Process
<1>3. slot[w] \in Delivery /\ slot \in [Slots -> Delivery] /\ tenant \in Tenant
  BY DEF TypeInv, TypeOK
<1>4. Snapshot(w) \in Event /\ Snapshot(w).status \in Statuses
  BY <1>1, Carried DEF Event
<1>5. Snapshot(w).status # "incomplete" => AfterRead(Snapshot(w).status) \in {"stamp", "apply"}
  BY DEF AfterRead
<1>6. CASE UpdatedRead(w)
  <2>1. slot'[w].event = slot[w].event /\ tenant' = tenant
    BY <1>3, <1>6 DEF UpdatedRead, Delivery
  <2>2. Snapshot(w).status # "incomplete" => slot'[w].pc \in {"settle", "stamp", "apply"}
    <3>1. slot'[w].pc \in {"settle", AfterRead(Snapshot(w).status)}
      BY <1>3, <1>6 DEF UpdatedRead, Delivery
    <3> QED
      BY <1>5, <3>1
  <2> QED
    BY <1>1, <1>2, <2>1, <2>2, EventKeepsTier DEF Unapplied
<1>7. CASE SettleCancels(w)
  <2>1. tenant' = tenant /\ slot'[w].event = slot[w].event
    BY <1>3, <1>7 DEF SettleCancels, SlotGoto, Delivery
  <2>2. Snapshot(w).kind = "updated" => slot'[w].pc = AfterRead(Snapshot(w).status)
    BY <1>3, <1>7 DEF SettleCancels, SlotGoto, Delivery
  <2> QED
    BY <1>1, <1>2, <1>5, <2>1, <2>2, EventKeepsTier DEF Unapplied
<1>8. CASE ListPending(w) \/ ConfirmPending(w)
  <2>1. slot'[w].event = slot[w].event /\ tenant' = tenant
    <3>1. CASE ListPending(w)
      BY <1>3, <3>1 DEF ListPending, Delivery
    <3>2. CASE ConfirmPending(w)
      BY <3>2, ConfirmMoves DEF ConfirmPending
    <3> QED
      BY <1>8, <3>1, <3>2
  <2>2. slot[w].pc \in {"list", "confirm"}
    BY <1>8 DEF ListPending, ConfirmPending
  <2> QED
    BY <1>1, <1>2, <2>1, <2>2, EventKeepsTier DEF Unapplied
<1>9. CASE StampPastDue(w)
  <2>1. tenant'.tier = tenant.tier
    BY <1>9, StampPastDueType
  <2>2. PICK p \in {"apply", "mark", "fail"} :
          SlotGoto(w, p) /\ (Snapshot(w).kind = "updated" => p \in {"apply", "fail"})
    BY <1>9 DEF StampPastDue
  <2>3. slot'[w].pc = p /\ slot'[w].event = slot[w].event
    BY <2>2, SlotGotoType DEF TypeInv, DeliveryPlaces
  <2> QED
    BY <1>1, <1>2, <2>1, <2>2, <2>3, EventKeepsTier DEF Unapplied
<1>10. CASE Apply(w)
  <2>1. PICK p \in {"list", "mark", "settle", "stamp", "fail"} : SlotGoto(w, p)
    BY <1>4, <1>10 DEF Apply, Event
  <2>2. slot'[w].pc = p /\ slot'[w].event = slot[w].event
    BY <2>1, SlotGotoType DEF TypeInv, DeliveryPlaces
  <2>3. CASE tenant' = tenant /\ SlotGoto(w, "fail")
    <3>1. slot'[w].pc = "fail"
      BY <2>3, SlotGotoType DEF TypeInv, DeliveryPlaces
    <3> QED
      BY <1>1, <1>2, <2>2, <2>3, <3>1, EventKeepsTier DEF Unapplied
  <2>4. CASE Snapshot(w).kind = "updated" /\ tenant' = Updated(Snapshot(w), slot[w].change)
    <3>1. tenant'.tier = Snapshot(w).tier
      BY <2>4 DEF Updated
    <3> QED
      BY <1>1, <1>2, <2>2, <3>1, EventKeepsTier
  <2>5. CASE Snapshot(w).kind # "updated" /\ tenant'.tier = tenant.tier
    BY <1>1, <1>2, <2>2, <2>5, EventKeepsTier
  <2>6. CASE Snapshot(w).kind = "updated"
    BY <1>10, <2>3, <2>4, <2>6 DEF Apply
  <2>7. CASE Snapshot(w).kind = "checkout"
    BY <1>3, <1>10, <2>3, <2>5, <2>7 DEF Apply, Tenant
  <2>8. CASE Snapshot(w).kind \in {"deleted", "payment_failed"}
    BY <1>3, <1>10, <2>3, <2>5, <2>8 DEF Apply, Tenant
  <2> QED
    BY <1>4, <2>6, <2>7, <2>8 DEF Event
<1> QED
  BY <1>6, <1>7, <1>8, <1>9, <1>10

\* A delivery begins, of the first event not through.
LEMMA ReceiveKeepsTier ==
    ASSUME TypeInv, TierInv, OneChange, NEW w \in Slots, NEW e \in 1 .. MaxEvents, Receive(w, e)
    PROVE  TierInv'
<1>1. /\ slot[w].pc = "idle" /\ e \in 1 .. Len(events) /\ e \notin acked /\ Before(e) \subseteq acked
      /\ UNCHANGED <<stripeVars, tenant, req, sweep>> /\ slot \in [Slots -> Delivery]
      /\ UNCHANGED <<stripe, events>> /\ \A v \in Slots : v = w
      /\ row \in [1 .. MaxEvents -> {"none", "received", "failed", "processed"}]
      /\ Len(events) \in Nat /\ Len(events) <= MaxEvents /\ MaxEvents \in Nat
  BY BillingConstants DEF Receive, stripeVars, TypeInv, TypeOK, OneChange, OneAtATime, Before,
     BillingConstants
<1>2. /\ \A i \in acked : Before(i) \subseteq acked
      /\ \A i \in 1 .. MaxEvents : row[i] = "processed" => Before(i) \subseteq acked
      /\ \A i \in 1 .. MaxEvents : i > Len(events) => row[i] = "none"
  BY DEF TierInv, InTurn
<1> DEFINE new == [pc |-> FirstWork(events[e].kind), event |-> e, change |-> "keep", batch |-> {}]
<1>3. \/ row[e] = "processed" /\ acked' = acked \cup {e} /\ row' = row /\ slot' = slot
      \/ /\ row[e] # "processed" /\ acked' = acked
         /\ row' = [row EXCEPT ![e] = IF @ = "none" THEN "received" ELSE @]
         /\ slot' = [slot EXCEPT ![w] = new]
  BY DEF Receive
<1>4. /\ new.event = e /\ new.pc # "idle"
      /\ events[e].kind = "updated" => new.pc = "read"
  BY DEF FirstWork
<1> HIDE DEF new
<1>5. InTurn'
  <2>1. CASE row[e] = "processed"
    BY <1>1, <1>2, <1>3, <2>1 DEF InTurn
  <2>2. CASE row[e] # "processed"
    <3>1. slot'[w] = new /\ row'[e] # "processed" /\ acked' = acked
      BY <1>1, <1>3, <2>2
    <3>2. \A i \in 1 .. MaxEvents : row'[i] = "processed" => row[i] = "processed"
      BY <1>1, <1>3, <2>2
    <3>3. \A i \in 1 .. MaxEvents : i > Len(events') => row'[i] = "none"
      BY <1>1, <1>2, <1>3, <2>2
    <3> QED
      BY <1>1, <1>2, <1>4, <3>1, <3>2, <3>3 DEF InTurn
  <2> QED
    BY <2>1, <2>2
<1>6. CatchesUp'
  <2> SUFFICES ASSUME Billable', tenant'.tier # stripe'.tier
               PROVE  \E i \in 1 .. Len(events') : Coming(i)'
    BY DEF CatchesUp
  <2>1. PICK i \in 1 .. Len(events) : Coming(i)
    BY <1>1 DEF TierInv, CatchesUp, Billable
  <2>2. Tells(i)' /\ i \in 1 .. MaxEvents
    BY <1>1, <2>1 DEF Coming, Tells
  <2>3. CASE row[e] = "processed"
    <3>1. Coming(i)'
      BY <1>1, <1>3, <2>1, <2>2, <2>3 DEF Coming
    <3> QED
      BY <1>1, <3>1
  <2>4. CASE row[e] # "processed"
    <3>1. slot'[w] = new /\ row'[i] # "processed" /\ acked' = acked
      BY <1>1, <1>3, <2>1, <2>2, <2>4 DEF Coming
    <3>2. new.event = i => new.pc = "read"
      BY <1>4, <2>1 DEF Coming, Tells
    <3>3. Coming(i)'
      BY <1>1, <2>1, <2>2, <3>1, <3>2 DEF Coming
    <3> QED
      BY <1>1, <3>3
  <2> QED
    BY <2>3, <2>4
<1>7. IntentsKept /\ events # <<>>
  BY <1>1, DeliveriesKeepIntents
<1> QED
  BY <1>1, <1>5, <1>6, <1>7, DeliveryKeepsTier

\* A delivery ends: an update is through only once it was applied.
LEMMA EndsKeepTier ==
    ASSUME TypeInv, TierInv, OneChange, NEW w \in Slots, Ends(w)
    PROVE  TierInv'
<1> DEFINE e == slot[w].event
<1>1. /\ UNCHANGED <<stripeVars, tenant, req, sweep>> /\ UNCHANGED <<stripe, events>>
      /\ slot' = [slot EXCEPT ![w] = NoDelivery] /\ slot \in [Slots -> Delivery]
      /\ slot[w].pc # "idle" /\ \A v \in Slots : v = w
      /\ row \in [1 .. MaxEvents -> {"none", "received", "failed", "processed"}]
      /\ Len(events) \in Nat /\ Len(events) <= MaxEvents /\ MaxEvents \in Nat
  BY BillingConstants DEF Ends, MarkProcessed, MarkFailed, SlotCrash, SlotRests, stripeVars, TypeInv,
     TypeOK, OneChange, OneAtATime, BillingConstants
<1>2. e \in 1 .. Len(events) /\ e \in 1 .. MaxEvents
  BY <1>1, Carried
<1>3. slot'[w].pc = "idle"
  BY <1>1 DEF NoDelivery
<1>4. \/ /\ slot[w].pc = "mark" /\ row' = [row EXCEPT ![e] = "processed"]
         /\ acked' = acked \/ acked' = acked \cup {e}
      \/ row' = [row EXCEPT ![e] = "failed"] /\ acked' = acked
      \/ row' = row /\ acked' = acked
  BY DEF Ends, MarkProcessed, MarkFailed, SlotCrash
<1>5. /\ e \notin acked /\ row[e] # "processed" /\ Before(e) \subseteq acked
      /\ \A i \in acked : Before(i) \subseteq acked
      /\ \A i \in 1 .. MaxEvents : row[i] = "processed" => Before(i) \subseteq acked
      /\ \A i \in 1 .. MaxEvents : i > Len(events) => row[i] = "none"
  BY <1>1 DEF TierInv, InTurn
<1>6. InTurn'
  <2>1. acked \subseteq acked' /\ acked' \subseteq acked \cup {e}
    BY <1>4
  <2>2. \A i \in 1 .. MaxEvents : i # e => row'[i] = row[i]
    BY <1>1, <1>4
  <2>3. \A i \in acked' : Before(i) \subseteq acked'
    BY <1>5, <2>1
  <2>4. \A i \in 1 .. MaxEvents : row'[i] = "processed" => Before(i) \subseteq acked'
    BY <1>5, <2>1, <2>2
  <2>5. \A i \in 1 .. MaxEvents : i > Len(events') => row'[i] = "none"
    BY <1>1, <1>2, <1>5, <2>2
  <2> HIDE DEF e
  <2> QED
    BY <1>1, <1>3, <2>3, <2>4, <2>5 DEF InTurn
<1>7. CatchesUp'
  <2> SUFFICES ASSUME Billable', tenant'.tier # stripe'.tier
               PROVE  \E i \in 1 .. Len(events') : Coming(i)'
    BY DEF CatchesUp
  <2>1. PICK i \in 1 .. Len(events) : Coming(i)
    BY <1>1 DEF TierInv, CatchesUp, Billable
  <2>2. Tells(i)' /\ i \in 1 .. MaxEvents
    BY <1>1, <2>1 DEF Coming, Tells
  <2>3. slot[w].pc = "mark" => i # e
    BY <1>1, <2>1 DEF Coming
  <2>4. i \notin acked' /\ row'[i] # "processed"
    BY <1>1, <1>2, <1>4, <2>1, <2>2, <2>3 DEF Coming
  <2>5. Coming(i)'
    BY <1>1, <1>3, <2>2, <2>4 DEF Coming
  <2> QED
    BY <1>1, <2>5
<1>8. IntentsKept /\ events # <<>>
  <2>1. Process(w) \/ SlotCrash(w) \/ \E i \in 1 .. MaxEvents : Receive(w, i)
    BY DEF Ends, Process
  <2> QED
    BY <1>1, <1>2, <2>1, DeliveriesKeepIntents
<1> QED
  BY <1>1, <1>6, <1>7, <1>8, DeliveryKeepsTier

--------------------------------------------------------------------------------

LEMMA InitTier == Init => TierInv
<1> SUFFICES ASSUME Init PROVE TierInv
  OBVIOUS
<1>1. /\ events = <<>> /\ acked = {} /\ \A e \in 1 .. MaxEvents : row[e] = "none"
      /\ \A w \in Slots : slot[w].pc = "idle"
      /\ \A r \in Requests : req[r].pc = "new"
      /\ \A r \in Requests : intent[r].status = "none"
      /\ \A s \in Sweepers : sweep[s].pc = "idle" /\ sweep[s].batch = {}
      /\ tenant.tier = stripe.tier /\ (stripe.status = "none" => ~tenant.sub)
  BY DEF Init, NoDelivery, NoRound
<1>2. InTurn /\ Superseded /\ CatchesUp
  BY <1>1 DEF InTurn, Superseded, CatchesUp
<1>3. Untouched /\ Recorded /\ SavesAreCurrent
  <2>1. Untouched
    BY <1>1 DEF Untouched
  <2>2. Recorded
    BY <1>1 DEF Recorded
  <2>3. SavesAreCurrent
    BY <1>1 DEF SavesAreCurrent
  <2> QED
    BY <2>1, <2>2, <2>3
<1>4. Listed
  BY <1>1 DEF Listed, ListedFor, Items
<1> QED
  BY <1>2, <1>3, <1>4 DEF TierInv

LEMMA NextTier ==
    ASSUME TypeInv, TierInv, NoneYet, OneChange, [Next]_vars PROVE TierInv'
<1>1. ASSUME StripeTells, UNCHANGED <<acked, row, tenant, intent, req, slot, sweep>>,
             stripe.status # "none" => stripe'.tier = stripe.tier
      PROVE  TierInv'
  <2>1. InTurn' /\ Superseded' /\ CatchesUp'
    BY <1>1, OthersCatchUp DEF TierInv
  <2>2. Untouched' /\ Recorded' /\ Listed'
    <3>1. Untouched'
      BY <1>1 DEF StripeTells, TierInv, Untouched
    <3>2. RequestsGoOn /\ IntentsKept
      BY <1>1 DEF RequestsGoOn, IntentsKept
    <3>3. Listed'
      BY <1>1, <3>2, ListKept DEF TierInv, Listed
    <3> QED
      BY <3>1, <3>2, <3>3, RecordsKept DEF TierInv
  <2>3. SavesAreCurrent'
    BY <1>1 DEF TierInv, SavesAreCurrent, Untouched
  <2> QED
    BY <2>1, <2>2, <2>3 DEF TierInv
<1>2. CASE UNCHANGED vars
  <2>1. StripeTells
    BY <1>2, StripeRestsTells DEF vars, TypeInv
  <2> QED
    BY <1>1, <1>2, <2>1 DEF vars
<1>3. CASE StripeMoves
  <2>1. StripeTells /\ (stripe.status # "none" => stripe'.tier = stripe.tier)
    BY <1>3, StripeMovesTells DEF TypeInv
  <2>2. UNCHANGED <<acked, row, tenant, intent, req, slot, sweep>>
    BY <1>3 DEF StripeMoves, Checkout, Payment, Portal, PeriodEnds, actors
  <2> QED
    BY <1>1, <2>1, <2>2
<1>4. \A e \in 1 .. MaxEvents : ~GiveUp(e)
  BY DEF GiveUp, OneChange, OneAtATime
<1>5. ASSUME NEW w \in Slots, Process(w) \/ SlotCrash(w) \/ \E e \in 1 .. MaxEvents : Receive(w, e)
      PROVE  TierInv'
  BY <1>5, WorkKeepsTier, ReceiveKeepsTier, EndsKeepTier DEF Process, Ends
<1> QED
  BY <1>2, <1>3, <1>4, <1>5, RequestsKeepTier, SweepsKeepTier DEF Next, StripeMoves, Reads

\* Once Stripe's events are through the tenant is at the tier Stripe bills, even
\* if a handler failed half way, a save was lost or Stripe's answer was wrong
\* about what it did: the last event tells the tier.
THEOREM TierAgrees ==
    ASSUME OneChange
    PROVE  Spec => []TierAgreesWithStripe
<1>1. Init => TypeInv /\ NoneYet /\ TierInv
  <2> SUFFICES ASSUME Init PROVE NoneYet
    BY InitTypes, InitTier
  <2>1. \A r \in Requests : intent[r].status = "none"
    BY DEF Init
  <2> QED
    BY <2>1 DEF NoneYet
<1>2. TypeInv /\ NoneYet /\ TierInv /\ [Next]_vars => (TypeInv /\ NoneYet /\ TierInv)'
  BY NextTypes, IntentStep, NextTier
<1>3. TypeInv /\ TierInv => TierAgreesWithStripe
  <2> SUFFICES ASSUME TypeInv, TierInv, Quiet, Live, stripe.status # "incomplete",
                      tenant.tier # stripe.tier
               PROVE  FALSE
    BY DEF TierAgreesWithStripe
  <2>1. \E e \in 1 .. Len(events) : Coming(e)
    BY DEF TierInv, CatchesUp, Billable, Live
  <2> QED
    BY <2>1 DEF Coming, Quiet, AllDelivered
<1> QED
  BY <1>1, <1>2, <1>3, PTL DEF Spec
================================================================================
