-------------------------------- MODULE Billing --------------------------------
(***************************************************************************)
(* The Stripe webhook of apps/api/src/routes/billing.ts for one customer:  *)
(* Stripe changes the subscription and charges invoices, and delivers an   *)
(* event for each in any order, again when it is not answered, sometimes   *)
(* again when it is.  Deliveries are handled concurrently, and a handler   *)
(* may throw or its process die between any two of its statements.         *)
(*                                                                         *)
(* event.created is modelled by the position of the event: no two events   *)
(* share a second.                                                         *)
(***************************************************************************)
EXTENDS Naturals, Sequences

CONSTANTS
    Price,      \* "TEAM", "BUSINESS", or one the deployment has no name for
    Delivery,   \* requests of the webhook under way at a time
    MaxEvents,  \* events of Stripe
    MaxRepeats, \* deliveries of an event that is being or has been handled
    MaxFaults,  \* statements that fail
    Faults      \* what may go wrong: a subset of {"throw", "die"}

ASSUME BillingAssumption ==
    /\ Price \subseteq {"TEAM", "BUSINESS", "unknown"} /\ "TEAM" \in Price
    /\ MaxEvents \in Nat /\ MaxRepeats \in Nat /\ MaxFaults \in Nat
    /\ Faults \subseteq {"throw", "die"}

VARIABLES
    stripe,     \* the subscription as Stripe has it
    log,        \* the events Stripe has emitted, oldest first
    acked,      \* those answered with a 2xx
    repeats, faults,
    seen,       \* rows of StripeEventSeen
    handler,    \* the deliveries
    row,        \* Subscription: plan, planSyncedAt (0 is null)
    org,        \* Organization: plan, billingState, billingStateAt
    audited,    \* the plan the newest billing.plan.applied row moved the org to
    mails,      \* dunning mails sent, by event
    overlapped, \* an event was delivered, or another handled, while one was handled
    died        \* a process has died holding a claim

external == <<stripe, log>>
tables == <<row, org, audited, mails>>
vars == <<external, acked, repeats, faults, seen, handler, tables, overlapped, died>>

Plan == {"FREE", "TEAM", "BUSINESS"}
Subscription == [price : Price, cancelled : BOOLEAN]

\* A slip: whatever Stripe names is taken for a plan.
PlanOfAny(sub) == IF sub.cancelled THEN "FREE" ELSE sub.price

\* A price this deployment cannot name, or a subscription that ended, is FREE.
PlanOf(sub) == IF sub.cancelled \/ sub.price = "unknown" THEN "FREE" ELSE sub.price

Kind == {"subscription", "checkout", "failed", "paid"}
Event == [kind : Kind, sub : Subscription]
Ids == DOMAIN log

Phase == {"idle", "seen", "claim", "retrieve", "order", "before", "upsert", "apply",
          "audit", "failed", "mark", "mail", "paid", "clear", "answer"}

Request == [phase : Phase, event : 0 .. MaxEvents,
            sub : Subscription, was : Plan \cup {"OK", "PAST_DUE"}]
SubscriptionRow == [plan : Plan, syncedAt : 0 .. MaxEvents]
OrganizationRow == [plan : Plan, state : {"OK", "PAST_DUE"}, stateAt : 0 .. MaxEvents]

BillingTypeOK ==
    /\ stripe \in Subscription
    /\ log \in Seq(Event) /\ Len(log) <= MaxEvents
    /\ acked \subseteq Ids /\ seen \subseteq Ids
    /\ repeats \in 0 .. MaxRepeats /\ faults \in 0 .. MaxFaults
    /\ handler \in [Delivery -> Request]
    /\ row \in SubscriptionRow /\ org \in OrganizationRow
    /\ audited \in Plan
    /\ mails \in [1 .. MaxEvents -> Nat]
    /\ overlapped \in BOOLEAN /\ died \in BOOLEAN

NewSub == [price |-> "TEAM", cancelled |-> FALSE]
Idle == [phase |-> "idle", event |-> 0, sub |-> NewSub, was |-> "FREE"]

\* The customer was recorded when the checkout began, with an incomplete
\* subscription and the FREE plan.
Init ==
    /\ stripe = NewSub
    /\ log = <<>>
    /\ acked = {} /\ seen = {}
    /\ repeats = 0 /\ faults = 0
    /\ handler = [d \in Delivery |-> Idle]
    /\ row = [plan |-> "FREE", syncedAt |-> 0]
    /\ org = [plan |-> "FREE", state |-> "OK", stateAt |-> 0]
    /\ audited = "FREE"
    /\ mails = [e \in 1 .. MaxEvents |-> 0]
    /\ overlapped = FALSE /\ died = FALSE

InFlight(e) == \E d \in Delivery : handler[d].phase # "idle" /\ handler[d].event = e
Holding(d) == handler[d].phase \notin {"idle", "seen", "claim"}

-------------------------------------------------------------------------------
(***************************************************************************)
(* Stripe                                                                  *)
(***************************************************************************)

Emits(kind, sub) ==
    /\ Len(log) < MaxEvents
    /\ log' = Append(log, [kind |-> kind, sub |-> sub])
    /\ UNCHANGED <<acked, repeats, faults, seen, handler, tables, overlapped, died>>

\* A change of plan, in the portal or through POST /checkout, or the end of the
\* subscription.
Changes ==
    /\ ~stripe.cancelled
    /\ \/ \E price \in Price \ {stripe.price} : stripe' = [stripe EXCEPT !.price = price]
       \/ stripe' = [stripe EXCEPT !.cancelled = TRUE]
    /\ Emits("subscription", stripe')

\* The subscription the session names is fetched, not carried.
ChecksOut ==
    /\ \A e \in Ids : log[e].kind # "checkout"
    /\ Emits("checkout", stripe)
    /\ UNCHANGED stripe

Charges ==
    /\ \E kind \in {"failed", "paid"} : Emits(kind, stripe)
    /\ UNCHANGED stripe

\* Stripe delivers what is not answered, and may deliver again what is.
Delivers(d, e) ==
    /\ handler[d].phase = "idle"
    /\ e \in Ids
    /\ IF e \in acked \/ InFlight(e)
       THEN repeats < MaxRepeats /\ repeats' = repeats + 1
       ELSE UNCHANGED repeats
    /\ overlapped' = (overlapped \/ InFlight(e))
    /\ handler' = [handler EXCEPT ![d] = [Idle EXCEPT !.phase = "seen", !.event = e]]
    /\ UNCHANGED <<external, acked, faults, seen, tables, died>>

-------------------------------------------------------------------------------
(***************************************************************************)
(* Claiming an event                                                       *)
(***************************************************************************)

Goes(d, phase) == handler' = [handler EXCEPT ![d].phase = phase]

Answers(d) ==
    /\ acked' = acked \cup {handler[d].event}
    /\ handler' = [handler EXCEPT ![d] = Idle]

\* The fast path.
AlreadySeen(d) ==
    /\ handler[d].phase = "seen"
    /\ IF handler[d].event \in seen
       THEN Answers(d)
       ELSE Goes(d, "claim") /\ UNCHANGED acked
    /\ UNCHANGED <<external, repeats, faults, seen, tables, overlapped, died>>

FirstStep(kind) ==
    CASE kind = "subscription" -> "order"
      [] kind = "checkout" -> "retrieve"
      [] kind = "failed" -> "failed"
      [] kind = "paid" -> "paid"

\* A slip: what the fast path said is believed, and the event is recorded as a
\* matter of course.
ClaimUnguarded(d) ==
    LET e == handler[d].event
    IN  /\ handler[d].phase = "claim"
        /\ seen' = seen \cup {e}
        /\ handler' = [handler EXCEPT ![d].phase = FirstStep(log[e].kind), ![d].sub = log[e].sub]
        /\ overlapped' = (overlapped \/ \E o \in Delivery \ {d} : Holding(o))
        /\ UNCHANGED <<external, acked, repeats, faults, tables, died>>

\* The insert is the lock.
Claim(d) ==
    LET e == handler[d].event
    IN  /\ handler[d].phase = "claim"
        /\ \/ /\ e \in seen
              /\ Answers(d)
              /\ UNCHANGED <<seen, overlapped>>
           \/ /\ e \notin seen
              /\ seen' = seen \cup {e}
              /\ handler' = [handler EXCEPT ![d].phase = FirstStep(log[e].kind),
                                            ![d].sub = log[e].sub]
              /\ overlapped' = (overlapped \/ \E o \in Delivery \ {d} : Holding(o))
              /\ UNCHANGED acked
        /\ UNCHANGED <<external, repeats, faults, tables, died>>

Answer(d) ==
    /\ handler[d].phase = "answer"
    /\ Answers(d)
    /\ UNCHANGED <<external, repeats, faults, seen, tables, overlapped, died>>

-------------------------------------------------------------------------------
(***************************************************************************)
(* applySubscription                                                       *)
(***************************************************************************)

Untouched == UNCHANGED <<external, acked, repeats, faults, seen, overlapped, died>>

\* What a checkout bought is read now, and stamped with the time of its event.
Retrieve(d) ==
    /\ handler[d].phase = "retrieve"
    /\ handler' = [handler EXCEPT ![d].phase = "order", ![d].sub = stripe]
    /\ UNCHANGED tables /\ Untouched

\* A slip: no ordering guard.
OrderUnguarded(d) ==
    /\ handler[d].phase = "order"
    /\ Goes(d, "before")
    /\ UNCHANGED tables /\ Untouched

\* The ordering guard is a read of its own.
Order(d) ==
    /\ handler[d].phase = "order"
    /\ Goes(d, IF row.syncedAt > handler[d].event THEN "answer" ELSE "before")
    /\ UNCHANGED tables /\ Untouched

Before(d) ==
    /\ handler[d].phase = "before"
    /\ handler' = [handler EXCEPT ![d].phase = "upsert", ![d].was = org.plan]
    /\ UNCHANGED tables /\ Untouched

Upsert(d) ==
    /\ handler[d].phase = "upsert"
    /\ row' = [plan |-> PlanOf(handler[d].sub), syncedAt |-> handler[d].event]
    /\ Goes(d, "apply")
    /\ UNCHANGED <<org, audited, mails>> /\ Untouched

\* A slip: only a lost plan leaves a row.
ApplyAuditsLoss(d) ==
    LET sub == handler[d].sub
    IN  /\ handler[d].phase = "apply"
        /\ org' = [org EXCEPT !.plan = PlanOf(sub)]
        /\ Goes(d, IF handler[d].was # PlanOf(sub) /\ PlanOf(sub) = "FREE" THEN "audit" ELSE "answer")
        /\ UNCHANGED <<row, audited, mails>> /\ Untouched

\* A cancellation ends dunning as well, whatever the invoices said since.
Apply(d) ==
    LET sub == handler[d].sub
        moved == [org EXCEPT !.plan = PlanOf(sub)]
    IN  /\ handler[d].phase = "apply"
        /\ org' = IF sub.cancelled
                  THEN [moved EXCEPT !.state = "OK", !.stateAt = handler[d].event]
                  ELSE moved
        /\ Goes(d, IF handler[d].was # PlanOf(sub) THEN "audit" ELSE "answer")
        /\ UNCHANGED <<row, audited, mails>> /\ Untouched

Audit(d) ==
    /\ handler[d].phase = "audit"
    /\ audited' = PlanOf(handler[d].sub)
    /\ Goes(d, "answer")
    /\ UNCHANGED <<row, org, mails>> /\ Untouched

-------------------------------------------------------------------------------
(***************************************************************************)
(* handlePaymentFailed and handleInvoicePaid                               *)
(***************************************************************************)

\* A slip: whatever comes is newer.
FreshAlways(d) == TRUE

\* Strictly greater is stale.
Fresh(d) == org.stateAt <= handler[d].event

PaymentFailed(d) ==
    /\ handler[d].phase = "failed"
    /\ Goes(d, IF Fresh(d) THEN "mark" ELSE "answer")
    /\ UNCHANGED tables /\ Untouched

MarkPastDue(d) ==
    /\ handler[d].phase = "mark"
    /\ org' = [org EXCEPT !.state = "PAST_DUE", !.stateAt = handler[d].event]
    /\ Goes(d, "mail")
    /\ UNCHANGED <<row, audited, mails>> /\ Untouched

MailOwners(d) ==
    /\ handler[d].phase = "mail"
    /\ mails' = [mails EXCEPT ![handler[d].event] = @ + 1]
    /\ Goes(d, "answer")
    /\ UNCHANGED <<row, org, audited>> /\ Untouched

InvoicePaid(d) ==
    /\ handler[d].phase = "paid"
    /\ handler' = [handler EXCEPT ![d].phase = IF Fresh(d) THEN "clear" ELSE "answer",
                                  ![d].was = org.state]
    /\ UNCHANGED tables /\ Untouched

\* A healthy renewal only stamps its time.
ClearPastDue(d) ==
    /\ handler[d].phase = "clear"
    /\ org' = [org EXCEPT !.state = IF handler[d].was = "PAST_DUE" THEN "OK" ELSE @,
                          !.stateAt = handler[d].event]
    /\ Goes(d, "answer")
    /\ UNCHANGED <<row, audited, mails>> /\ Untouched

-------------------------------------------------------------------------------
(***************************************************************************)
(* Failures                                                                *)
(***************************************************************************)

\* A statement throws: the claim is given back and the answer is a 500.  The
\* mails are caught one by one, and the audit row is written as best it can.
Throws(d) ==
    /\ "throw" \in Faults /\ faults < MaxFaults
    /\ Holding(d) /\ handler[d].phase # "answer"
    /\ faults' = faults + 1
    /\ seen' = seen \ {handler[d].event}
    /\ handler' = [handler EXCEPT ![d] = Idle]
    /\ UNCHANGED <<external, acked, repeats, tables, overlapped, died>>

\* The process dies, or the claim cannot be given back: the event stays claimed.
Dies(d) ==
    /\ "die" \in Faults /\ faults < MaxFaults
    /\ Holding(d)
    /\ faults' = faults + 1
    /\ died' = TRUE
    /\ handler' = [handler EXCEPT ![d] = Idle]
    /\ UNCHANGED <<external, acked, repeats, seen, tables, overlapped>>

-------------------------------------------------------------------------------
Handle(d) ==
    \/ AlreadySeen(d) \/ Claim(d) \/ Answer(d)
    \/ Retrieve(d) \/ Order(d) \/ Before(d) \/ Upsert(d) \/ Apply(d) \/ Audit(d)
    \/ PaymentFailed(d) \/ MarkPastDue(d) \/ MailOwners(d)
    \/ InvoicePaid(d) \/ ClearPastDue(d)

Next ==
    \/ Changes \/ ChecksOut \/ Charges
    \/ \E d \in Delivery : \/ \E e \in Ids : Delivers(d, e)
                           \/ Handle(d) \/ Throws(d) \/ Dies(d)

Spec == Init /\ [][Next]_vars

-------------------------------------------------------------------------------
Newest(S) == CHOOSE e \in S : \A o \in S : o <= e

\* Nothing is under way, nothing unanswered; handlers never met and none died.
Settled ==
    /\ acked = Ids /\ \A d \in Delivery : handler[d].phase = "idle"
    /\ ~overlapped /\ ~died

\* The half of "an event that moves money state must run its side effects exactly
\* once" that the claim gives: however often an event is delivered, and whatever
\* throws or dies, the owners are mailed of it at most once.
MailedOnce == \A e \in Ids : mails[e] <= 1

\* Out of order, repeated and retried, the deliveries leave the plan of both
\* rows at what Stripe said last (the ordering guard of applySubscription).
PlanIsNewest ==
    LET subs == {e \in Ids : log[e].kind \in {"subscription", "checkout"}}
    IN  Settled /\ subs # {} => row.plan = PlanOf(stripe) /\ org.plan = row.plan

\* Without a cancellation, the dunning state is that of the newest invoice event,
\* in whatever order they came.
DunningIsNewest ==
    LET invoices == {e \in Ids : log[e].kind \in {"failed", "paid"}}
    IN  Settled /\ ~stripe.cancelled /\ invoices # {} =>
            (org.state = "PAST_DUE") = (log[Newest(invoices)].kind = "failed")

\* "Every plan an org gains or loses leaves a row": where nothing failed, the
\* newest row says what the organisation is on.
PlanMovesAudited == Settled /\ faults = 0 => audited = org.plan

\* "A handler that throws releases the claim ... so the 500 makes Stripe redeliver
\* and the retry starts clean": what was answered is recorded.  Violated: the
\* redelivery of an event that is being handled is answered as a duplicate, and
\* then the handler throws.
AnsweredIsRecorded == \A e \in acked : e \in seen \/ InFlight(e)
===============================================================================
