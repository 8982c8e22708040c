----------------------------- MODULE Billing_proofs -----------------------------
(***************************************************************************)
(* Theorems about Billing, for any number of deliveries, events, faults    *)
(* and prices.                                                             *)
(***************************************************************************)
EXTENDS Billing, TLAPS

-------------------------------------------------------------------------------
(***************************************************************************)
(* The inductive invariant                                                 *)
(***************************************************************************)

SubKind == {"subscription", "checkout"}
InvoiceKind == {"failed", "paid"}

\* A request that is not idle handles an event of the log, by the statements
\* of its kind.
HandlersPlaced ==
    \A d \in Delivery :
        /\ handler[d].phase # "idle" => handler[d].event \in Ids
        /\ handler[d].phase = "retrieve" => log[handler[d].event].kind = "checkout"
        /\ handler[d].phase \in {"order", "before", "upsert", "apply", "audit"} =>
               log[handler[d].event].kind \in SubKind
        /\ handler[d].phase \in {"failed", "mark", "mail"} => log[handler[d].event].kind = "failed"
        /\ handler[d].phase \in {"paid", "clear"} => log[handler[d].event].kind = "paid"

\* A claim is a row, and has one holder.
ClaimsHeld ==
    /\ \A d \in Delivery : Holding(d) => handler[d].event \in seen
    /\ \A d, o \in Delivery :
           Holding(d) /\ Holding(o) /\ handler[d].event = handler[o].event => d = o

\* An event that was mailed stays recorded, and a handler that can still throw
\* has not mailed.
MailsCounted ==
    /\ \A e \in 1 .. MaxEvents : mails[e] <= 1 /\ (mails[e] # 0 => e \in seen)
    /\ \A d \in Delivery : Holding(d) /\ handler[d].phase # "answer" => mails[handler[d].event] = 0

ClaimInv == BillingTypeOK /\ HandlersPlaced /\ ClaimsHeld /\ MailsCounted

-------------------------------------------------------------------------------
(***************************************************************************)
(* Types                                                                   *)
(***************************************************************************)

\* What a subscription is applied as is a plan.
LEMMA PlanOfIsPlan ==
    ASSUME NEW sub \in Subscription
    PROVE  PlanOf(sub) \in Plan
BY BillingAssumption DEF PlanOf, Plan, Subscription

\* The log only grows.
LEMMA LogGrows ==
    ASSUME BillingTypeOK, NEW kind \in Kind, NEW sub \in Subscription, Emits(kind, sub)
    PROVE  /\ log' \in Seq(Event) /\ Len(log') <= MaxEvents /\ Len(log') = Len(log) + 1
           /\ Ids' = Ids \cup {Len(log')} /\ Len(log') \notin Ids
           /\ \A e \in Ids : log'[e] = log[e]
           /\ log'[Len(log')] = [kind |-> kind, sub |-> sub]
<1>1. log \in Seq(Event) /\ Len(log) < MaxEvents /\ [kind |-> kind, sub |-> sub] \in Event
  BY DEF BillingTypeOK, Emits, Event
<1>2. log' = Append(log, [kind |-> kind, sub |-> sub])
  BY DEF Emits
<1> HIDE DEF Event
<1> QED
  BY <1>1, <1>2, BillingAssumption DEF Ids

\* An event of the log has a kind and a subscription.
LEMMA EventTyped ==
    ASSUME BillingTypeOK, NEW e \in Ids
    PROVE  /\ log[e] \in Event /\ log[e].kind \in Kind /\ log[e].sub \in Subscription
           /\ e \in 1 .. MaxEvents
<1>1. log \in Seq(Event) /\ Len(log) <= MaxEvents
  BY DEF BillingTypeOK
<1>2. log[e] \in Event /\ e \in 1 .. Len(log)
  <2> HIDE DEF Event
  <2> QED BY <1>1 DEF Ids
<1> QED
  BY <1>1, <1>2, BillingAssumption DEF Event

\* What is emitted is a change of the subscription, a checkout or an invoice.
LEMMA StripeEmits ==
    ASSUME BillingTypeOK, Changes \/ ChecksOut \/ Charges
    PROVE  /\ stripe' \in Subscription
           /\ \E kind \in Kind : /\ Emits(kind, stripe')
                                 /\ kind # "subscription" => stripe' = stripe
           /\ stripe.cancelled => stripe'.cancelled
BY DEF BillingTypeOK, Changes, ChecksOut, Charges, Subscription, Kind

\* The types hold at first.
LEMMA TypeInit == Init => BillingTypeOK
<1> SUFFICES ASSUME Init PROVE BillingTypeOK
  OBVIOUS
<1>1. NewSub \in Subscription
  BY BillingAssumption DEF NewSub, Subscription
<1>2. Idle \in Request
  BY <1>1, BillingAssumption DEF Request, Idle, Plan, Phase
<1>3. log \in Seq(Event) /\ Len(log) = 0
  BY DEF Init
<1>4. handler \in [Delivery -> Request]
  BY <1>2 DEF Init
<1>5. row \in SubscriptionRow /\ org \in OrganizationRow /\ audited \in Plan
  BY BillingAssumption DEF Init, Plan, SubscriptionRow, OrganizationRow
<1>6. mails \in [1 .. MaxEvents -> Nat]
  BY DEF Init
<1>7. /\ stripe \in Subscription
      /\ acked \subseteq Ids /\ seen \subseteq Ids
      /\ repeats \in 0 .. MaxRepeats /\ faults \in 0 .. MaxFaults
  BY <1>1, BillingAssumption DEF Init
<1>8. Len(log) <= MaxEvents
  BY <1>3, BillingAssumption
<1>9. overlapped \in BOOLEAN /\ died \in BOOLEAN
  BY DEF Init
<1> QED
  BY <1>3, <1>4, <1>5, <1>6, <1>7, <1>8, <1>9 DEF BillingTypeOK

\* What Stripe does.
LEMMA TypeStripe ==
    ASSUME BillingTypeOK, Changes \/ ChecksOut \/ Charges
    PROVE  BillingTypeOK'
<1>1. PICK kind \in Kind : Emits(kind, stripe') /\ stripe' \in Subscription
  BY StripeEmits
<1>2. log' \in Seq(Event) /\ Len(log') <= MaxEvents /\ Ids \subseteq Ids'
  BY <1>1, LogGrows
<1>3. UNCHANGED <<acked, repeats, faults, seen, handler, row, org, audited, mails, overlapped, died>>
  BY <1>1 DEF Emits, tables
<1> QED
  BY <1>1, <1>2, <1>3 DEF BillingTypeOK

\* Taking up and giving up an event, which are two thirds of the handlers' steps,
\* leave records of the type.
LEMMA HandlersTyped ==
    ASSUME BillingTypeOK, NEW d \in Delivery
    PROVE  /\ handler[d] \in Request
           /\ Idle \in Request
           /\ \A x \in Request : [handler EXCEPT ![d] = x] \in [Delivery -> Request]
<1>1. NewSub \in Subscription
  BY BillingAssumption DEF NewSub, Subscription
<1>2. Idle \in Request
  BY <1>1, BillingAssumption DEF Request, Idle, Plan, Phase
<1> QED
  BY <1>2 DEF BillingTypeOK, Request

\* A step that moves a request on leaves requests.
LEMMA GoesTyped ==
    ASSUME BillingTypeOK, NEW d \in Delivery, NEW phase \in Phase, Goes(d, phase)
    PROVE  handler' \in [Delivery -> Request]
<1>1. [handler[d] EXCEPT !.phase = phase] \in Request
  BY HandlersTyped DEF Request
<1> QED
  BY <1>1, HandlersTyped DEF Goes, BillingTypeOK

\* So does one that also sets what it carries or has read.
LEMMA CarriesTyped ==
    ASSUME BillingTypeOK, NEW d \in Delivery, NEW phase \in Phase,
           \/ \E sub \in Subscription : handler' = [handler EXCEPT ![d].phase = phase, ![d].sub = sub]
           \/ \E was \in Plan \cup {"OK", "PAST_DUE"} :
                  handler' = [handler EXCEPT ![d].phase = phase, ![d].was = was]
    PROVE  handler' \in [Delivery -> Request]
<1>0. handler[d] \in Request /\ handler \in [Delivery -> Request]
  BY HandlersTyped DEF BillingTypeOK
<1>1. \A sub \in Subscription : [handler[d] EXCEPT !.phase = phase, !.sub = sub] \in Request
  BY <1>0 DEF Request
<1>2. \A was \in Plan \cup {"OK", "PAST_DUE"} :
          [handler[d] EXCEPT !.phase = phase, !.was = was] \in Request
  BY <1>0 DEF Request
<1>3. ASSUME NEW sub \in Subscription,
             handler' = [handler EXCEPT ![d].phase = phase, ![d].sub = sub]
      PROVE  handler' \in [Delivery -> Request]
  BY <1>0, <1>1, <1>3
<1>4. ASSUME NEW was \in Plan \cup {"OK", "PAST_DUE"},
             handler' = [handler EXCEPT ![d].phase = phase, ![d].was = was]
      PROVE  handler' \in [Delivery -> Request]
  BY <1>0, <1>2, <1>4
<1> QED
  BY <1>3, <1>4

\* What a handler's step leaves alone.
Framed == UNCHANGED <<stripe, log, repeats, faults, died>>

\* Where the handlers and the tables it writes are of their type, the step
\* keeps the type.
LEMMA TypeFramed ==
    ASSUME BillingTypeOK, Framed,
           handler' \in [Delivery -> Request],
           acked' \subseteq Ids, seen' \subseteq Ids, overlapped' \in BOOLEAN,
           row' \in SubscriptionRow, org' \in OrganizationRow, audited' \in Plan,
           mails' \in [1 .. MaxEvents -> Nat]
    PROVE  BillingTypeOK'
BY DEF BillingTypeOK, Framed, Ids

\* No step of a handler leaves the types.
LEMMA TypeHandle ==
    ASSUME BillingTypeOK, HandlersPlaced, NEW d \in Delivery, Handle(d)
    PROVE  BillingTypeOK'
<1>0. /\ handler \in [Delivery -> Request]
      /\ acked \subseteq Ids /\ seen \subseteq Ids /\ overlapped \in BOOLEAN
      /\ row \in SubscriptionRow /\ org \in OrganizationRow /\ audited \in Plan
      /\ mails \in [1 .. MaxEvents -> Nat]
      /\ handler[d].phase # "idle" => handler[d].event \in Ids
      /\ handler[d].event \in 0 .. MaxEvents
      /\ handler[d].sub \in Subscription
      /\ PlanOf(handler[d].sub) \in Plan
      /\ handler[d] \in Request /\ Idle \in Request
  BY HandlersTyped, PlanOfIsPlan DEF HandlersPlaced, Request, BillingTypeOK
<1>1. CASE AlreadySeen(d)
  <2>1. handler' \in [Delivery -> Request]
    BY <1>0, <1>1, GoesTyped DEF AlreadySeen, Answers, Phase
  <2>2. acked' \subseteq Ids
    BY <1>0, <1>1 DEF AlreadySeen, Answers
  <2> QED
    BY <1>0, <1>1, <2>1, <2>2, TypeFramed DEF AlreadySeen, Framed, Untouched, external, tables
<1>2. CASE Claim(d)
  <2>1. /\ log[handler[d].event].sub \in Subscription
        /\ FirstStep(log[handler[d].event].kind) \in Phase
    BY <1>0, <1>2, EventTyped DEF Claim, FirstStep, Phase, Kind
  <2>2. handler' \in [Delivery -> Request] /\ acked' \subseteq Ids
    BY <1>0, <1>2, <2>1, CarriesTyped DEF Claim, Answers
  <2>3. seen' \subseteq Ids /\ overlapped' \in BOOLEAN
    BY <1>0, <1>2 DEF Claim
  <2> QED
    BY <1>0, <1>2, <2>2, <2>3, TypeFramed DEF Claim, Framed, Untouched, external, tables
<1>3. CASE Answer(d)
  <2>1. handler' \in [Delivery -> Request]
    BY <1>0, <1>3, GoesTyped, HandlersTyped DEF Answer, Answers, Phase, BillingTypeOK
  <2> QED
    BY <1>0, <1>3, <2>1, TypeFramed DEF Answer, Framed, Untouched, Answers, external, tables
<1>4. CASE Retrieve(d)
  <2>1. stripe \in Subscription
    BY DEF BillingTypeOK
  <2>2. handler' \in [Delivery -> Request]
    BY <1>4, <2>1, CarriesTyped DEF Retrieve, Phase
  <2> QED
    BY <1>0, <1>4, <2>2, TypeFramed DEF Retrieve, Framed, Untouched, external, tables
<1>5. CASE Order(d)
  <2>1. handler' \in [Delivery -> Request]
    BY <1>0, <1>5, GoesTyped, HandlersTyped DEF Order, Answers, Phase, BillingTypeOK
  <2> QED
    BY <1>0, <1>5, <2>1, TypeFramed DEF Order, Framed, Untouched, Answers, external, tables
<1>6. CASE Before(d)
  <2>1. org.plan \in Plan
    BY <1>0 DEF OrganizationRow
  <2>2. handler' \in [Delivery -> Request]
    BY <1>6, <2>1, CarriesTyped DEF Before, Phase
  <2> QED
    BY <1>0, <1>6, <2>2, TypeFramed DEF Before, Framed, Untouched, external, tables
<1>7. CASE Upsert(d)
  <2>1. handler' \in [Delivery -> Request]
    BY <1>0, <1>7, GoesTyped, CarriesTyped, HandlersTyped DEF Upsert, Phase
  <2>2. row' \in SubscriptionRow
    BY <1>0, <1>7 DEF Upsert, SubscriptionRow
  <2> QED
    BY <1>0, <1>7, <2>1, <2>2, TypeFramed DEF Upsert, Framed, Untouched, external, tables
<1>8. CASE Apply(d)
  <2>1. handler' \in [Delivery -> Request]
    BY <1>0, <1>8, GoesTyped, CarriesTyped, HandlersTyped DEF Apply, Phase
  <2>2. org' \in OrganizationRow
    BY <1>0, <1>8 DEF Apply, OrganizationRow
  <2> QED
    BY <1>0, <1>8, <2>1, <2>2, TypeFramed DEF Apply, Framed, Untouched, external, tables
<1>9. CASE Audit(d)
  <2>1. handler' \in [Delivery -> Request]
    BY <1>0, <1>9, GoesTyped, HandlersTyped DEF Audit, Answers, Phase, BillingTypeOK
  <2> QED
    BY <1>0, <1>9, <2>1, TypeFramed DEF Audit, Framed, Untouched, Answers, external, tables
<1>10. CASE PaymentFailed(d)
  <2>1. handler' \in [Delivery -> Request]
    BY <1>0, <1>10, GoesTyped, HandlersTyped DEF PaymentFailed, Answers, Phase, BillingTypeOK
  <2> QED
    BY <1>0, <1>10, <2>1, TypeFramed DEF PaymentFailed, Framed, Untouched, Answers, external, tables
<1>11. CASE MarkPastDue(d)
  <2>1. handler' \in [Delivery -> Request]
    BY <1>0, <1>11, GoesTyped, CarriesTyped, HandlersTyped DEF MarkPastDue, Phase
  <2>2. org' \in OrganizationRow
    BY <1>0, <1>11 DEF MarkPastDue, OrganizationRow
  <2> QED
    BY <1>0, <1>11, <2>1, <2>2, TypeFramed DEF MarkPastDue, Framed, Untouched, external, tables
<1>12. CASE MailOwners(d)
  <2>1. handler' \in [Delivery -> Request]
    BY <1>0, <1>12, GoesTyped, CarriesTyped, HandlersTyped DEF MailOwners, Phase
  <2>2. mails' \in [1 .. MaxEvents -> Nat]
    BY <1>0, <1>12, EventTyped DEF MailOwners
  <2> QED
    BY <1>0, <1>12, <2>1, <2>2, TypeFramed DEF MailOwners, Framed, Untouched, external, tables
<1>13. CASE InvoicePaid(d)
  <2>1. org.state \in {"OK", "PAST_DUE"}
    BY <1>0 DEF OrganizationRow
  <2>2. handler' \in [Delivery -> Request]
    BY <1>13, <2>1, CarriesTyped DEF InvoicePaid, Phase
  <2> QED
    BY <1>0, <1>13, <2>2, TypeFramed DEF InvoicePaid, Framed, Untouched, external, tables
<1>14. CASE ClearPastDue(d)
  <2>1. handler' \in [Delivery -> Request]
    BY <1>0, <1>14, GoesTyped, CarriesTyped, HandlersTyped DEF ClearPastDue, Phase
  <2>2. org' \in OrganizationRow
    BY <1>0, <1>14 DEF ClearPastDue, OrganizationRow
  <2> QED
    BY <1>0, <1>14, <2>1, <2>2, TypeFramed DEF ClearPastDue, Framed, Untouched, external, tables
<1> QED
  BY <1>1, <1>2, <1>3, <1>4, <1>5, <1>6, <1>7, <1>8, <1>9, <1>10, <1>11, <1>12, <1>13, <1>14 DEF Handle

\* A delivery, a failure and a death keep the type as well.
LEMMA TypeOthers ==
    ASSUME BillingTypeOK, NEW d \in Delivery,
           (\E e \in Ids : Delivers(d, e)) \/ Throws(d) \/ Dies(d)
    PROVE  BillingTypeOK'
<1>0. /\ handler \in [Delivery -> Request] /\ Idle \in Request
      /\ stripe \in Subscription
      /\ log \in Seq(Event) /\ Len(log) <= MaxEvents
      /\ acked \subseteq Ids /\ seen \subseteq Ids
      /\ repeats \in 0 .. MaxRepeats /\ faults \in 0 .. MaxFaults
      /\ row \in SubscriptionRow /\ org \in OrganizationRow /\ audited \in Plan
      /\ mails \in [1 .. MaxEvents -> Nat]
      /\ overlapped \in BOOLEAN /\ died \in BOOLEAN
  BY HandlersTyped DEF BillingTypeOK
<1>1. ASSUME NEW e \in Ids, Delivers(d, e) PROVE BillingTypeOK'
  <2>1. [Idle EXCEPT !.phase = "seen", !.event = e] \in Request
    <3>1. e \in 0 .. MaxEvents /\ "seen" \in Phase
      BY EventTyped, BillingAssumption DEF Phase
    <3> QED
      BY <1>0, <3>1 DEF Request
  <2>2. handler' \in [Delivery -> Request]
    BY <1>0, <1>1, <2>1 DEF Delivers
  <2>3. repeats' \in 0 .. MaxRepeats
    <3>1. repeats' = repeats \/ (repeats < MaxRepeats /\ repeats' = repeats + 1)
      BY <1>1 DEF Delivers
    <3> QED
      BY <1>0, <3>1, BillingAssumption
  <2>4. overlapped' \in BOOLEAN
    BY <1>0, <1>1 DEF Delivers
  <2> QED
    BY <1>0, <1>1, <2>2, <2>3, <2>4 DEF BillingTypeOK, Delivers, external, tables, Ids
<1>2. CASE Throws(d)
  <2>1. handler' \in [Delivery -> Request] /\ seen' \subseteq Ids
    BY <1>0, <1>2 DEF Throws
  <2>2. faults' \in 0 .. MaxFaults
    <3>1. faults < MaxFaults /\ faults' = faults + 1
      BY <1>2 DEF Throws
    <3> QED
      BY <1>0, <3>1, BillingAssumption
  <2> QED
    BY <1>0, <1>2, <2>1, <2>2 DEF BillingTypeOK, Throws, external, tables, Ids
<1>3. CASE Dies(d)
  <2>1. handler' \in [Delivery -> Request] /\ died' \in BOOLEAN
    BY <1>0, <1>3 DEF Dies
  <2>2. faults' \in 0 .. MaxFaults
    <3>1. faults < MaxFaults /\ faults' = faults + 1
      BY <1>3 DEF Dies
    <3> QED
      BY <1>0, <3>1, BillingAssumption
  <2> QED
    BY <1>0, <1>3, <2>1, <2>2 DEF BillingTypeOK, Dies, external, tables, Ids
<1> QED
  BY <1>1, <1>2, <1>3

-------------------------------------------------------------------------------
(***************************************************************************)
(* An event's side effects happen once                                     *)
(***************************************************************************)

\* The other requests stay as they are, and so does the log.
Alone(d) ==
    /\ \A o \in Delivery \ {d} : handler'[o] = handler[o]
    /\ log' = log

\* A statement of a handler that holds its claim, up to its answer.
MovesOn(d) ==
    /\ Alone(d)
    /\ Holding(d) /\ Holding(d)' /\ handler[d].phase # "answer"
    /\ handler'[d].event = handler[d].event
    /\ UNCHANGED <<seen, acked, faults, overlapped, died, stripe>>

\* The statements that read and write the two rows.
Works(d) ==
    \/ Retrieve(d) \/ Order(d) \/ Before(d) \/ Upsert(d) \/ Apply(d) \/ Audit(d)
    \/ PaymentFailed(d) \/ MarkPastDue(d) \/ InvoicePaid(d) \/ ClearPastDue(d)

\* A handler at work keeps its event, and mails nobody.
LEMMA WorksMoveOn ==
    ASSUME BillingTypeOK, NEW d \in Delivery, Works(d)
    PROVE  MovesOn(d) /\ mails' = mails
<1>0. handler \in [Delivery -> Request] /\ handler[d] \in Request
  BY DEF BillingTypeOK
<1>1. CASE Retrieve(d)
  BY <1>0, <1>1 DEF Retrieve, MovesOn, Alone, Holding, Request, Goes, Untouched, external, tables
<1>2. CASE Order(d)
  BY <1>0, <1>2 DEF Order, MovesOn, Alone, Holding, Request, Goes, Untouched, external, tables
<1>3. CASE Before(d)
  BY <1>0, <1>3 DEF Before, MovesOn, Alone, Holding, Request, Goes, Untouched, external, tables
<1>4. CASE Upsert(d)
  BY <1>0, <1>4 DEF Upsert, MovesOn, Alone, Holding, Request, Goes, Untouched, external, tables
<1>5. CASE Apply(d)
  BY <1>0, <1>5 DEF Apply, MovesOn, Alone, Holding, Request, Goes, Untouched, external, tables
<1>6. CASE Audit(d)
  BY <1>0, <1>6 DEF Audit, MovesOn, Alone, Holding, Request, Goes, Untouched, external, tables
<1>7. CASE PaymentFailed(d)
  BY <1>0, <1>7 DEF PaymentFailed, MovesOn, Alone, Holding, Request, Goes, Untouched, external, tables
<1>8. CASE MarkPastDue(d)
  BY <1>0, <1>8 DEF MarkPastDue, MovesOn, Alone, Holding, Request, Goes, Untouched, external, tables
<1>9. CASE InvoicePaid(d)
  BY <1>0, <1>9 DEF InvoicePaid, MovesOn, Alone, Holding, Request, Goes, Untouched, external, tables
<1>10. CASE ClearPastDue(d)
  BY <1>0, <1>10 DEF ClearPastDue, MovesOn, Alone, Holding, Request, Goes, Untouched, external, tables
<1> QED
  BY <1>1, <1>2, <1>3, <1>4, <1>5, <1>6, <1>7, <1>8, <1>9, <1>10 DEF Works

\* Mailing the owners is the last thing a handler does before it answers.
LEMMA MailsMoveOn ==
    ASSUME BillingTypeOK, HandlersPlaced, NEW d \in Delivery, MailOwners(d)
    PROVE  /\ MovesOn(d)
           /\ handler[d].event \in 1 .. MaxEvents
           /\ mails' = [mails EXCEPT ![handler[d].event] = @ + 1]
           /\ handler'[d].phase = "answer"
<1>0. handler \in [Delivery -> Request] /\ handler[d] \in Request
  BY DEF BillingTypeOK
<1>1. handler[d].event \in Ids
  BY DEF HandlersPlaced, MailOwners
<1> QED
  BY <1>0, <1>1, EventTyped
     DEF MailOwners, MovesOn, Alone, Holding, Request, Goes, Untouched, external, tables

\* A request that has not claimed its event, is done or gives it up holds nothing.
LetsGo(d) ==
    /\ Alone(d)
    /\ ~Holding(d)'
    /\ UNCHANGED mails

\* A handler that goes on with its event keeps its claim.
LEMMA ClaimInvMoves ==
    ASSUME ClaimInv, NEW d \in Delivery, MovesOn(d), mails' = mails
    PROVE  ClaimsHeld' /\ MailsCounted'
<1>1. \A o \in Delivery :
          /\ Holding(o)' <=> Holding(o)
          /\ handler'[o].event = handler[o].event
          /\ Holding(o) /\ handler'[o].phase # "answer" => handler[o].phase # "answer"
  BY DEF MovesOn, Alone, Holding
<1> QED
  BY <1>1 DEF ClaimInv, ClaimsHeld, MailsCounted, MovesOn

\* One that lets go leaves its claim behind, or takes it back before it mailed.
LEMMA ClaimInvLets ==
    ASSUME ClaimInv, NEW d \in Delivery, LetsGo(d),
           \/ seen' = seen
           \/ Holding(d) /\ handler[d].phase # "answer" /\ seen' = seen \ {handler[d].event}
    PROVE  ClaimsHeld' /\ MailsCounted'
<1>1. ~Holding(d)'
  BY DEF LetsGo
<1>2. \A o \in Delivery \ {d} : handler'[o] = handler[o]
  BY DEF LetsGo, Alone
<1> QED
  BY <1>1, <1>2 DEF ClaimInv, ClaimsHeld, MailsCounted, LetsGo, Holding

\* Only a request that finds its event unrecorded takes it up.
LEMMA ClaimInvClaims ==
    ASSUME ClaimInv, NEW d \in Delivery, Claim(d), handler[d].event \notin seen
    PROVE  ClaimsHeld' /\ MailsCounted'
<1>1. /\ \A o \in Delivery \ {d} : handler'[o] = handler[o]
      /\ handler'[d].event = handler[d].event
      /\ seen' = seen \cup {handler[d].event}
      /\ mails' = mails
  BY DEF Claim, ClaimInv, BillingTypeOK, Request, tables
<1>2. handler[d].event \in 1 .. MaxEvents
  BY EventTyped DEF ClaimInv, HandlersPlaced, Claim
<1> QED
  BY <1>1, <1>2 DEF ClaimInv, ClaimsHeld, MailsCounted, Holding, BillingTypeOK

\* What Stripe emits and delivers leaves the handlers where they are.
LEMMA PlacedKept ==
    ASSUME ClaimInv, NEW d \in Delivery, Alone(d),
           \/ handler'[d] = Idle
           \/ /\ handler'[d].event \in Ids
              /\ handler'[d].phase = "retrieve" => log[handler'[d].event].kind = "checkout"
              /\ handler'[d].phase \in {"order", "before", "upsert", "apply", "audit"} =>
                     log[handler'[d].event].kind \in SubKind
              /\ handler'[d].phase \in {"failed", "mark", "mail"} =>
                     log[handler'[d].event].kind = "failed"
              /\ handler'[d].phase \in {"paid", "clear"} =>
                     log[handler'[d].event].kind = "paid"
    PROVE  HandlersPlaced'
BY DEF ClaimInv, HandlersPlaced, Alone, Idle, Ids

\* A handler is never on an event that Stripe has not sent.
LEMMA PlacedHandle ==
    ASSUME ClaimInv, NEW d \in Delivery, Handle(d)
    PROVE  HandlersPlaced'
<1>0. /\ handler \in [Delivery -> Request] /\ handler[d] \in Request
      /\ handler[d].phase # "idle" => handler[d].event \in Ids
      /\ HandlersPlaced
  BY DEF ClaimInv, BillingTypeOK, HandlersPlaced
<1>1. CASE AlreadySeen(d)
  BY <1>0, <1>1, PlacedKept
     DEF AlreadySeen, HandlersPlaced, SubKind, Alone, Request, Goes, Untouched, external, Answers
<1>2. CASE Claim(d)
  <2>1. log[handler[d].event].kind \in Kind
    BY <1>0, <1>2, EventTyped DEF Claim, ClaimInv
  <2>2. \/ Alone(d) /\ handler'[d] = Idle
        \/ /\ Alone(d)
           /\ handler'[d].phase = FirstStep(log[handler[d].event].kind)
           /\ handler'[d].event = handler[d].event
    BY <1>0, <1>2 DEF Claim, Alone, Answers, Request, external
  <2> QED
    BY <1>0, <1>2, <2>1, <2>2, PlacedKept DEF Claim, SubKind, FirstStep, Kind
<1>3. CASE Answer(d)
  BY <1>0, <1>3, PlacedKept
     DEF Answer, HandlersPlaced, SubKind, Alone, Request, Goes, Untouched, external, Answers
<1>4. CASE Retrieve(d)
  BY <1>0, <1>4, PlacedKept
     DEF Retrieve, HandlersPlaced, SubKind, Alone, Request, Goes, Untouched, external
<1>5. CASE Order(d)
  BY <1>0, <1>5, PlacedKept
     DEF Order, HandlersPlaced, SubKind, Alone, Request, Goes, Untouched, external
<1>6. CASE Before(d)
  <2>1. Alone(d) /\ handler'[d].phase = "upsert" /\ handler'[d].event = handler[d].event
    BY <1>0, <1>6 DEF Before, Alone, Request, Untouched, external
  <2> QED
    BY <1>0, <1>6, <2>1, PlacedKept DEF Before, HandlersPlaced, SubKind
<1>7. CASE Upsert(d)
  BY <1>0, <1>7, PlacedKept
     DEF Upsert, HandlersPlaced, SubKind, Alone, Request, Goes, Untouched, external
<1>8. CASE Apply(d)
  BY <1>0, <1>8, PlacedKept
     DEF Apply, HandlersPlaced, SubKind, Alone, Request, Goes, Untouched, external
<1>9. CASE Audit(d)
  BY <1>0, <1>9, PlacedKept
     DEF Audit, HandlersPlaced, SubKind, Alone, Request, Goes, Untouched, external
<1>10. CASE PaymentFailed(d)
  BY <1>0, <1>10, PlacedKept
     DEF PaymentFailed, HandlersPlaced, SubKind, Alone, Request, Goes, Untouched, external
<1>11. CASE MarkPastDue(d)
  BY <1>0, <1>11, PlacedKept
     DEF MarkPastDue, HandlersPlaced, SubKind, Alone, Request, Goes, Untouched, external
<1>12. CASE MailOwners(d)
  BY <1>0, <1>12, PlacedKept
     DEF MailOwners, HandlersPlaced, SubKind, Alone, Request, Goes, Untouched, external
<1>13. CASE InvoicePaid(d)
  <2>1. /\ Alone(d) /\ handler'[d].phase \in {"clear", "answer"}
        /\ handler'[d].event = handler[d].event
    BY <1>0, <1>13 DEF InvoicePaid, Alone, Request, Untouched, external
  <2> QED
    BY <1>0, <1>13, <2>1, PlacedKept DEF InvoicePaid, HandlersPlaced
<1>14. CASE ClearPastDue(d)
  BY <1>0, <1>14, PlacedKept
     DEF ClearPastDue, HandlersPlaced, SubKind, Alone, Request, Goes, Untouched, external
<1> QED
  BY <1>1, <1>2, <1>3, <1>4, <1>5, <1>6, <1>7, <1>8, <1>9, <1>10, <1>11, <1>12, <1>13, <1>14 DEF Handle

\* The mails of an event are sent by its one holder, on its way to the answer.
LEMMA ClaimInvMails ==
    ASSUME ClaimInv, NEW d \in Delivery, MailOwners(d)
    PROVE  ClaimsHeld' /\ MailsCounted'
<1>1. /\ MovesOn(d)
      /\ handler[d].event \in 1 .. MaxEvents
      /\ mails' = [mails EXCEPT ![handler[d].event] = @ + 1]
      /\ handler'[d].phase = "answer"
  BY MailsMoveOn DEF ClaimInv
<1>2. /\ \A o \in Delivery \ {d} : handler'[o] = handler[o]
      /\ handler'[d].event = handler[d].event /\ seen' = seen
      /\ Holding(d) /\ handler[d].phase # "answer" /\ Holding(d)'
  BY <1>1 DEF MovesOn, Alone
<1>3. mails[handler[d].event] = 0 /\ handler[d].event \in seen /\ mails \in [1 .. MaxEvents -> Nat]
  BY <1>2 DEF ClaimInv, MailsCounted, ClaimsHeld, BillingTypeOK
<1>4. \A e \in 1 .. MaxEvents : mails'[e] = IF e = handler[d].event THEN 1 ELSE mails[e]
  BY <1>1, <1>3
<1>5. ClaimsHeld'
  BY <1>2 DEF ClaimInv, ClaimsHeld, Holding
<1>6. ASSUME NEW o \in Delivery, Holding(o)', handler'[o].phase # "answer"
      PROVE  mails'[handler'[o].event] = 0
  <2>1. o # d /\ handler'[o] = handler[o] /\ Holding(o)
    BY <1>1, <1>2, <1>6 DEF Holding
  <2>2. handler[o].event # handler[d].event /\ mails[handler[o].event] = 0
    BY <1>2, <1>6, <2>1 DEF ClaimInv, ClaimsHeld, MailsCounted
  <2>3. handler[o].event \in 1 .. MaxEvents
    BY <2>1, EventTyped DEF ClaimInv, HandlersPlaced, Holding
  <2> QED
    BY <1>4, <2>1, <2>2, <2>3
<1> QED
  BY <1>2, <1>3, <1>4, <1>5, <1>6 DEF ClaimInv, MailsCounted

\* No event is claimed at first.
LEMMA ClaimInvInit == Init => ClaimInv
<1> SUFFICES ASSUME Init PROVE ClaimInv
  OBVIOUS
<1>1. \A d \in Delivery : handler[d].phase = "idle"
  BY DEF Init, Idle
<1>2. HandlersPlaced /\ ClaimsHeld
  BY <1>1 DEF HandlersPlaced, ClaimsHeld, Holding
<1>3. MailsCounted
  BY <1>1 DEF Init, MailsCounted, Holding
<1> QED
  BY <1>2, <1>3, TypeInit DEF ClaimInv

\* Every step keeps the claims.
LEMMA ClaimInvNext == ClaimInv /\ [Next]_vars => ClaimInv'
<1> SUFFICES ASSUME ClaimInv, [Next]_vars PROVE ClaimInv'
  OBVIOUS
<1>0. BillingTypeOK /\ HandlersPlaced /\ ClaimsHeld /\ MailsCounted
      /\ handler \in [Delivery -> Request]
  BY DEF ClaimInv, BillingTypeOK
<1>1. CASE Changes \/ ChecksOut \/ Charges
  <2>1. PICK kind \in Kind : Emits(kind, stripe') /\ stripe' \in Subscription
    BY <1>0, <1>1, StripeEmits
  <2>2. UNCHANGED <<handler, seen, mails>>
    BY <2>1 DEF Emits, tables
  <2>3. Ids \subseteq Ids' /\ \A e \in Ids : log'[e] = log[e]
    BY <1>0, <2>1, LogGrows
  <2>4. HandlersPlaced'
    BY <1>0, <2>2, <2>3 DEF HandlersPlaced
  <2>5. ClaimsHeld' /\ MailsCounted'
    BY <1>0, <2>2 DEF ClaimsHeld, MailsCounted, Holding
  <2> QED
    BY <1>0, <1>1, <2>4, <2>5, TypeStripe DEF ClaimInv
<1>2. ASSUME NEW d \in Delivery, Handle(d) PROVE ClaimInv'
  <2>1. ClaimsHeld' /\ MailsCounted'
    <3>1. CASE Works(d)
      BY <1>0, <3>1, WorksMoveOn, ClaimInvMoves
    <3>2. CASE MailOwners(d)
      BY <3>2, ClaimInvMails
    <3>3. CASE Claim(d) /\ handler[d].event \notin seen
      BY <3>3, ClaimInvClaims
    <3>4. CASE AlreadySeen(d) \/ Answer(d) \/ (Claim(d) /\ handler[d].event \in seen)
      <4>1. handler'[d] = Idle \/ handler'[d].phase = "claim"
        BY <1>0, <3>4 DEF AlreadySeen, Answer, Claim, Answers, Goes, Request
      <4>2. Alone(d) /\ UNCHANGED <<mails, seen>>
        BY <1>0, <3>4
           DEF AlreadySeen, Answer, Claim, Answers, Goes, Alone, external, tables
      <4> QED
        BY <4>1, <4>2, ClaimInvLets DEF LetsGo, Holding, Idle
    <3> QED
      BY <1>2, <3>1, <3>2, <3>3, <3>4 DEF Handle, Works
  <2> QED
    BY <1>0, <1>2, <2>1, TypeHandle, PlacedHandle DEF ClaimInv
<1>3. ASSUME NEW d \in Delivery, (\E e \in Ids : Delivers(d, e)) \/ Throws(d) \/ Dies(d)
      PROVE  ClaimInv'
  <2>1. handler'[d] = Idle \/ (handler'[d].event \in Ids /\ handler'[d].phase = "seen")
    BY <1>0, <1>3 DEF Delivers, Throws, Dies, Idle
  <2>2. Alone(d) /\ UNCHANGED mails
    BY <1>0, <1>3 DEF Delivers, Throws, Dies, Alone, external, tables
  <2>3. LetsGo(d)
    BY <2>1, <2>2 DEF LetsGo, Holding, Idle
  <2>4. \/ seen' = seen
        \/ Holding(d) /\ handler[d].phase # "answer" /\ seen' = seen \ {handler[d].event}
    BY <1>3 DEF Delivers, Throws, Dies
  <2>5. HandlersPlaced'
    BY <1>0, <2>1, <2>2, PlacedKept
  <2> QED
    BY <1>0, <1>3, <2>3, <2>4, <2>5, ClaimInvLets, TypeOthers DEF ClaimInv
<1>4. CASE UNCHANGED vars
  BY <1>0, <1>4
     DEF ClaimInv, BillingTypeOK, HandlersPlaced, ClaimsHeld, MailsCounted, Holding, Ids,
         vars, external, tables
<1> QED
  BY <1>1, <1>2, <1>3, <1>4 DEF Next

\* So they are kept always.
LEMMA ClaimInvAlways == Spec => []ClaimInv
BY ClaimInvInit, ClaimInvNext, PTL DEF Spec

\* Every variable keeps its type.
THEOREM BillingTyped == Spec => []BillingTypeOK
<1>1. ClaimInv => BillingTypeOK
  BY DEF ClaimInv
<1> QED
  BY <1>1, ClaimInvAlways, PTL

\* The owners are mailed of a failed charge once, however often its event is
\* delivered, however many requests handle it, and whatever throws or dies.
THEOREM BillingMailsOnce == Spec => []MailedOnce
<1>1. ClaimInv => MailedOnce
  BY EventTyped DEF ClaimInv, MailsCounted, MailedOnce
<1> QED
  BY <1>1, ClaimInvAlways, PTL

-------------------------------------------------------------------------------
(***************************************************************************)
(* Where handlers never met and none died                                  *)
(***************************************************************************)

Quiet == ~overlapped /\ ~died

\* Requests under way are for different events, and one at a time holds a claim.
Serial ==
    ~overlapped =>
        \A d, o \in Delivery : d # o =>
            /\ handler[d].phase # "idle" /\ handler[o].phase # "idle" =>
                   handler[d].event # handler[o].event
            /\ ~(Holding(d) /\ Holding(o))

\* A recorded event was answered or is being handled, and not both.
RecordedOrHeld ==
    Quiet =>
        /\ acked \subseteq seen
        /\ \A d \in Delivery : Holding(d) => handler[d].event \notin acked
        /\ \A e \in seen : e \in acked \/ \E d \in Delivery : Holding(d) /\ handler[d].event = e

SerialInv == ClaimInv /\ Serial /\ RecordedOrHeld

\* A request ends with its event answered.
Acks(d) ==
    /\ Alone(d)
    /\ handler[d].phase \in {"seen", "claim", "answer"} /\ handler'[d] = Idle
    /\ handler[d].event \in seen
    /\ acked' = acked \cup {handler[d].event}
    /\ UNCHANGED <<seen, overlapped, died, faults, stripe, row, org, audited, mails>>

\* A request finds its event unrecorded, and goes on to claim it.
Passes(d) ==
    /\ Alone(d)
    /\ handler[d].phase = "seen" /\ handler'[d].phase = "claim"
    /\ handler'[d].event = handler[d].event /\ handler'[d].sub = handler[d].sub
    /\ UNCHANGED <<acked, seen, overlapped, died, faults, stripe, row, org, audited, mails>>

\* A request takes up its event.
TakesUp(d) ==
    /\ Alone(d)
    /\ handler[d].phase = "claim"
    /\ handler[d].event \in Ids \ seen
    /\ handler'[d].phase = FirstStep(log[handler[d].event].kind)
    /\ handler'[d].event = handler[d].event
    /\ handler'[d].sub = log[handler[d].event].sub
    /\ seen' = seen \cup {handler[d].event}
    /\ overlapped' = (overlapped \/ \E o \in Delivery \ {d} : Holding(o))
    /\ UNCHANGED <<acked, died, faults, stripe, row, org, audited, mails>>

\* A meeting and a death are never forgotten.
LEMMA QuietBefore ==
    ASSUME BillingTypeOK, Quiet', NEW d \in Delivery,
           \/ UNCHANGED <<overlapped, died>>
           \/ TakesUp(d)
           \/ \E e \in Ids : Delivers(d, e)
           \/ Throws(d)
    PROVE  Quiet
<1>1. overlapped \in BOOLEAN /\ died \in BOOLEAN
  BY DEF BillingTypeOK
<1>2. died' = died /\ (overlapped' = overlapped \/ \E x : overlapped' = (overlapped \/ x))
  BY DEF TakesUp, Delivers, Throws
<1> QED
  BY <1>1, <1>2 DEF Quiet

\* What a handler's step amounts to.
LEMMA HandleKinds ==
    ASSUME BillingTypeOK, HandlersPlaced, ClaimsHeld, NEW d \in Delivery, Handle(d)
    PROVE  Works(d) \/ MailOwners(d) \/ Acks(d) \/ Passes(d) \/ TakesUp(d)
<1>0. /\ handler \in [Delivery -> Request] /\ handler[d] \in Request
      /\ handler[d].phase # "idle" => handler[d].event \in Ids
  BY DEF BillingTypeOK, HandlersPlaced
<1>1. ASSUME AlreadySeen(d) PROVE Acks(d) \/ Passes(d)
  BY <1>0, <1>1
     DEF AlreadySeen, Answers, Goes, Acks, Passes, Alone, Request, external, tables
<1>2. ASSUME Claim(d), handler[d].event \in seen PROVE Acks(d)
  BY <1>0, <1>2 DEF Claim, Answers, Acks, Alone, external, tables
<1>3. ASSUME Claim(d), handler[d].event \notin seen PROVE TakesUp(d)
  BY <1>0, <1>3 DEF Claim, TakesUp, Alone, Request, external, tables
<1>4. ASSUME Answer(d) PROVE Acks(d)
  BY <1>0, <1>4 DEF Answer, Answers, Acks, Alone, ClaimsHeld, Holding, external, tables
<1> QED
  BY <1>1, <1>2, <1>3, <1>4 DEF Handle, Works

\* The first statement of a handler holds the claim.
LEMMA FirstStepHolds ==
    ASSUME BillingTypeOK, NEW d \in Delivery, TakesUp(d)
    PROVE  Holding(d)' /\ ~Holding(d)
<1>1. log[handler[d].event].kind \in Kind
  BY EventTyped DEF TakesUp
<1> QED
  BY <1>1 DEF TakesUp, FirstStep, Kind, Holding

\* While no two events are handled at once and none died, an answer means a record.
LEMMA SerialNext ==
    ASSUME SerialInv, [Next]_vars
    PROVE  Serial' /\ RecordedOrHeld'
<1>0. BillingTypeOK /\ HandlersPlaced /\ ClaimsHeld
  BY DEF SerialInv, ClaimInv
<1>1. CASE Changes \/ ChecksOut \/ Charges
  <2>1. UNCHANGED <<handler, seen, acked, overlapped, died>>
    BY <1>1 DEF Changes, ChecksOut, Charges, Emits
  <2> QED
    BY <2>1 DEF SerialInv, Serial, RecordedOrHeld, Quiet, Holding
<1>2. ASSUME NEW d \in Delivery, MovesOn(d) PROVE Serial' /\ RecordedOrHeld'
  <2>1. \A o \in Delivery :
            /\ Holding(o)' <=> Holding(o)
            /\ handler'[o].phase # "idle" <=> handler[o].phase # "idle"
            /\ handler'[o].event = handler[o].event
    BY <1>2 DEF MovesOn, Alone, Holding
  <2> QED
    BY <1>2, <2>1 DEF MovesOn, SerialInv, Serial, RecordedOrHeld, Quiet
<1>3. ASSUME NEW d \in Delivery, Acks(d) PROVE Serial' /\ RecordedOrHeld'
  <2>1. handler'[d].phase = "idle" /\ ~Holding(d)'
    BY <1>3 DEF Acks, Idle, Holding
  <2>2. \A o \in Delivery \ {d} : handler'[o] = handler[o] /\ (Holding(o)' <=> Holding(o))
    BY <1>3 DEF Acks, Alone, Holding
  <2>3. Serial'
    BY <1>3, <2>1, <2>2 DEF Acks, SerialInv, Serial
  <2>4. RecordedOrHeld'
    <3> SUFFICES ASSUME Quiet' PROVE RecordedOrHeld'
      BY DEF RecordedOrHeld
    <3>1. Quiet /\ ~overlapped
      BY <1>3 DEF Acks, Quiet
    <3>2. \A o \in Delivery : Holding(o)' => Holding(o) /\ o # d
                               /\ handler[o].event # handler[d].event
      BY <1>3, <2>1, <2>2, <3>1 DEF Acks, SerialInv, Serial, Holding
    <3> QED
      BY <1>3, <2>1, <2>2, <3>1, <3>2 DEF Acks, SerialInv, RecordedOrHeld
  <2> QED
    BY <2>3, <2>4
<1>4. ASSUME NEW d \in Delivery, Passes(d) PROVE Serial' /\ RecordedOrHeld'
  <2>1. \A o \in Delivery :
            /\ Holding(o)' <=> Holding(o)
            /\ handler'[o].phase # "idle" <=> handler[o].phase # "idle"
            /\ handler'[o].event = handler[o].event
            /\ Holding(o) => handler'[o] = handler[o]
    BY <1>4 DEF Passes, Alone, Holding
  <2> QED
    BY <1>4, <2>1 DEF Passes, SerialInv, Serial, RecordedOrHeld, Quiet
<1>5. ASSUME NEW d \in Delivery, TakesUp(d) PROVE Serial' /\ RecordedOrHeld'
  <2>0. Holding(d)' /\ ~Holding(d)
    BY <1>0, <1>5, FirstStepHolds
  <2>1. \A o \in Delivery :
            /\ o # d => (Holding(o)' <=> Holding(o))
            /\ handler'[o].phase # "idle" => handler[o].phase # "idle"
            /\ handler'[o].event = handler[o].event
    BY <1>5 DEF TakesUp, Alone, Holding
  <2>2. Serial'
    BY <1>5, <2>0, <2>1 DEF TakesUp, SerialInv, Serial
  <2>3. RecordedOrHeld'
    BY <1>5, <2>0, <2>1 DEF TakesUp, SerialInv, RecordedOrHeld, Quiet
  <2> QED
    BY <2>2, <2>3
<1>6. ASSUME NEW d \in Delivery, NEW e \in Ids, Delivers(d, e) PROVE Serial' /\ RecordedOrHeld'
  <2>1. /\ handler'[d].event = e /\ ~Holding(d) /\ ~Holding(d)'
        /\ \A o \in Delivery \ {d} : handler'[o] = handler[o] /\ (Holding(o)' <=> Holding(o))
    BY <1>0, <1>6 DEF Delivers, Idle, Holding, BillingTypeOK
  <2>2. /\ UNCHANGED <<acked, seen, died>> /\ overlapped' = (overlapped \/ InFlight(e))
    BY <1>6 DEF Delivers
  <2>3. Serial'
    BY <2>1, <2>2 DEF SerialInv, Serial, InFlight
  <2>4. RecordedOrHeld'
    BY <2>1, <2>2 DEF SerialInv, RecordedOrHeld, Quiet
  <2> QED
    BY <2>3, <2>4
<1>7. ASSUME NEW d \in Delivery, Throws(d) PROVE Serial' /\ RecordedOrHeld'
  <2>1. /\ handler'[d].phase = "idle" /\ Holding(d) /\ ~Holding(d)'
        /\ \A o \in Delivery \ {d} : handler'[o] = handler[o] /\ (Holding(o)' <=> Holding(o))
    BY <1>0, <1>7 DEF Throws, Idle, Holding, BillingTypeOK
  <2>2. UNCHANGED <<acked, overlapped, died>> /\ seen' = seen \ {handler[d].event}
    BY <1>7 DEF Throws
  <2>3. Serial'
    BY <2>1, <2>2 DEF SerialInv, Serial
  <2>4. RecordedOrHeld'
    BY <2>1, <2>2 DEF SerialInv, RecordedOrHeld, Quiet
  <2> QED
    BY <2>3, <2>4
<1>8. ASSUME NEW d \in Delivery, Dies(d) PROVE Serial' /\ RecordedOrHeld'
  <2>1. /\ handler'[d].phase = "idle" /\ ~Holding(d)'
        /\ \A o \in Delivery \ {d} : handler'[o] = handler[o] /\ (Holding(o)' <=> Holding(o))
    BY <1>0, <1>8 DEF Dies, Idle, Holding, BillingTypeOK
  <2> QED
    BY <1>8, <2>1 DEF Dies, SerialInv, Serial, RecordedOrHeld, Quiet
<1>9. CASE UNCHANGED vars
  BY <1>9 DEF SerialInv, Serial, RecordedOrHeld, Quiet, Holding, vars, external, tables
<1>10. ASSUME NEW d \in Delivery, Handle(d) PROVE Serial' /\ RecordedOrHeld'
  BY <1>0, <1>2, <1>3, <1>4, <1>5, <1>10, HandleKinds, WorksMoveOn, MailsMoveOn
<1> QED
  BY <1>1, <1>6, <1>7, <1>8, <1>9, <1>10 DEF Next

\* Nothing is handled or answered at first.
LEMMA SerialInvInit == Init => SerialInv
<1> SUFFICES ASSUME Init PROVE SerialInv
  OBVIOUS
<1>1. /\ \A d \in Delivery : handler[d].phase = "idle" /\ ~Holding(d)
      /\ acked = {} /\ seen = {}
  BY DEF Init, Idle, Holding
<1> QED
  BY <1>1, ClaimInvInit DEF SerialInv, Serial, RecordedOrHeld

\* Every step keeps it.
LEMMA SerialInvNext == SerialInv /\ [Next]_vars => SerialInv'
BY SerialNext, ClaimInvNext DEF SerialInv

-------------------------------------------------------------------------------
(***************************************************************************)
(* What each statement does to the two rows                                *)
(***************************************************************************)

Keeps(d) == handler'[d].sub = handler[d].sub
RowsKept == UNCHANGED <<row, org, audited>>

SubscriptionEffects(d) ==
    /\ handler[d].phase = "retrieve" =>
           handler'[d].phase = "order" /\ handler'[d].sub = stripe /\ RowsKept
    /\ handler[d].phase = "order" =>
           /\ handler'[d].phase = IF row.syncedAt > handler[d].event THEN "answer" ELSE "before"
           /\ Keeps(d) /\ RowsKept
    /\ handler[d].phase = "before" =>
           /\ handler'[d].phase = "upsert" /\ handler'[d].was = org.plan
           /\ Keeps(d) /\ RowsKept
    /\ handler[d].phase = "upsert" =>
           /\ handler'[d].phase = "apply" /\ handler'[d].was = handler[d].was /\ Keeps(d)
           /\ row' = [plan |-> PlanOf(handler[d].sub), syncedAt |-> handler[d].event]
           /\ UNCHANGED <<org, audited>>
    /\ handler[d].phase = "apply" =>
           /\ handler'[d].phase = IF handler[d].was # PlanOf(handler[d].sub) THEN "audit" ELSE "answer"
           /\ Keeps(d)
           /\ org'.plan = PlanOf(handler[d].sub)
           /\ ~handler[d].sub.cancelled => org'.state = org.state /\ org'.stateAt = org.stateAt
           /\ UNCHANGED <<row, audited>>
    /\ handler[d].phase = "audit" =>
           /\ handler'[d].phase = "answer" /\ Keeps(d)
           /\ audited' = PlanOf(handler[d].sub)
           /\ UNCHANGED <<row, org>>

InvoiceEffects(d) ==
    /\ handler[d].phase = "failed" =>
           /\ handler'[d].phase = IF Fresh(d) THEN "mark" ELSE "answer"
           /\ Keeps(d) /\ RowsKept
    /\ handler[d].phase = "mark" =>
           /\ handler'[d].phase = "mail" /\ Keeps(d)
           /\ org' = [org EXCEPT !.state = "PAST_DUE", !.stateAt = handler[d].event]
           /\ UNCHANGED <<row, audited>>
    /\ handler[d].phase = "paid" =>
           /\ handler'[d].phase = IF Fresh(d) THEN "clear" ELSE "answer"
           /\ handler'[d].was = org.state
           /\ Keeps(d) /\ RowsKept
    /\ handler[d].phase = "clear" =>
           /\ handler'[d].phase = "answer" /\ Keeps(d)
           /\ org' = [org EXCEPT !.state = IF handler[d].was = "PAST_DUE" THEN "OK" ELSE @,
                                 !.stateAt = handler[d].event]
           /\ UNCHANGED <<row, audited>>

\* The phase of a request says which statement comes, and so what it does.
LEMMA WorksEffects ==
    ASSUME BillingTypeOK, NEW d \in Delivery, Works(d)
    PROVE  /\ SubscriptionEffects(d) /\ InvoiceEffects(d)
           /\ handler[d].phase \in {"retrieve", "order", "before", "upsert", "apply", "audit",
                                    "failed", "mark", "paid", "clear"}
<1>0. handler \in [Delivery -> Request] /\ handler[d] \in Request /\ org \in OrganizationRow
  BY DEF BillingTypeOK
<1>1. CASE Retrieve(d)
  BY <1>0, <1>1
     DEF Retrieve, SubscriptionEffects, InvoiceEffects, Keeps, RowsKept, Request, Goes, tables
<1>2. CASE Order(d)
  BY <1>0, <1>2
     DEF Order, SubscriptionEffects, InvoiceEffects, Keeps, RowsKept, Request, Goes, tables
<1>3. CASE Before(d)
  BY <1>0, <1>3
     DEF Before, SubscriptionEffects, InvoiceEffects, Keeps, RowsKept, Request, Goes, tables
<1>4. CASE Upsert(d)
  BY <1>0, <1>4
     DEF Upsert, SubscriptionEffects, InvoiceEffects, Keeps, RowsKept, Request, Goes, tables
<1>5. CASE Apply(d)
  BY <1>0, <1>5
     DEF Apply, SubscriptionEffects, InvoiceEffects, Keeps, RowsKept, Request, Goes, OrganizationRow, tables
<1>6. CASE Audit(d)
  BY <1>0, <1>6
     DEF Audit, SubscriptionEffects, InvoiceEffects, Keeps, RowsKept, Request, Goes, tables
<1>7. CASE PaymentFailed(d)
  BY <1>0, <1>7
     DEF PaymentFailed, SubscriptionEffects, InvoiceEffects, Keeps, RowsKept, Request, Goes, tables
<1>8. CASE MarkPastDue(d)
  BY <1>0, <1>8
     DEF MarkPastDue, SubscriptionEffects, InvoiceEffects, Keeps, RowsKept, Request, Goes, tables
<1>9. CASE InvoicePaid(d)
  BY <1>0, <1>9
     DEF InvoicePaid, SubscriptionEffects, InvoiceEffects, Keeps, RowsKept, Request, Goes, tables
<1>10. CASE ClearPastDue(d)
  BY <1>0, <1>10
     DEF ClearPastDue, SubscriptionEffects, InvoiceEffects, Keeps, RowsKept, Request, Goes, tables
<1> QED
  BY <1>1, <1>2, <1>3, <1>4, <1>5, <1>6, <1>7, <1>8, <1>9, <1>10 DEF Works

\* An answered mail moves the request on and nothing else of these.
LEMMA MailsEffects ==
    ASSUME BillingTypeOK, NEW d \in Delivery, MailOwners(d)
    PROVE  handler[d].phase = "mail" /\ handler'[d].phase = "answer" /\ Keeps(d) /\ RowsKept
BY DEF BillingTypeOK, MailOwners, Keeps, RowsKept, Request, Goes

\* Where a request holds a claim before or after a step, every other one is
\* idle or has yet to claim.
LEMMA OthersOutside ==
    ASSUME SerialInv, NEW d \in Delivery, Alone(d), Quiet',
           (Holding(d) /\ UNCHANGED <<overlapped, died>>) \/ TakesUp(d)
    PROVE  \A o \in Delivery \ {d} :
               handler'[o] = handler[o] /\ handler[o].phase \in {"idle", "seen", "claim"}
BY DEF SerialInv, Serial, Alone, Quiet, Holding, TakesUp

-------------------------------------------------------------------------------
(***************************************************************************)
(* Both plans end at what Stripe said last                                 *)
(***************************************************************************)

\* The subscription has changed since an event.
ChangedAfter(e) == \E o \in Ids : o > e /\ log[o].kind = "subscription"
Current(sub, e) == sub = stripe \/ ChangedAfter(e)

LogCurrent == \A e \in Ids : Current(log[e].sub, e)

\* What was answered is not ahead of the row.
AckedApplied == \A e \in acked : log[e].kind \in SubKind => row.syncedAt >= e

\* What a handler carries, and where it stands with the row.
HandlersApply ==
    \A d \in Delivery :
        /\ handler[d].phase \in {"order", "before", "upsert", "apply", "audit"} =>
               Current(handler[d].sub, handler[d].event)
        /\ handler[d].phase \in {"before", "upsert"} => row.syncedAt <= handler[d].event
        /\ handler[d].phase \in {"apply", "audit"} =>
               row.syncedAt = handler[d].event /\ row.plan = PlanOf(handler[d].sub)
        /\ handler[d].phase = "answer" /\ log[handler[d].event].kind \in SubKind =>
               row.syncedAt >= handler[d].event

\* The row holds what an event said, and the subscription has not changed since
\* or a newer event is to come.
RowCurrent ==
    row.syncedAt # 0 =>
        /\ row.syncedAt \in Ids /\ log[row.syncedAt].kind \in SubKind
        /\ row.plan = PlanOf(stripe) \/ ChangedAfter(row.syncedAt)

\* The event in the row has not reached the organisation: its handler threw, or
\* is on the way.
Unapplied ==
    /\ row.syncedAt # 0
    /\ \/ row.syncedAt \notin seen
       \/ \E d \in Delivery : /\ handler[d].phase \in {"retrieve", "order", "before", "upsert", "apply"}
                             /\ handler[d].event = row.syncedAt

OrgFollows == Unapplied \/ org.plan = row.plan

PlanInv == LogCurrent /\ (Quiet => AckedApplied /\ HandlersApply /\ RowCurrent /\ OrgFollows)

\* A handler's step leaves the log and the subscription.
LEMMA CurrentKept ==
    ASSUME log' = log, stripe' = stripe
    PROVE  /\ \A sub, e : Current(sub, e)' <=> Current(sub, e)
           /\ LogCurrent' <=> LogCurrent
           /\ \A e : ChangedAfter(e)' <=> ChangedAfter(e)
BY DEF Current, ChangedAfter, LogCurrent, Ids

\* An event that is answered was handled: another request would have met this one.
LEMMA AckedWasDone ==
    ASSUME SerialInv, NEW d \in Delivery, Acks(d), Quiet
    PROVE  handler[d].phase = "answer" \/ handler[d].event \in acked
BY DEF SerialInv, Serial, RecordedOrHeld, Quiet, Acks, Holding

\* What happens at Stripe leaves what the rows say of the events answered so far.
LEMMA PlanStripe ==
    ASSUME SerialInv, PlanInv, Changes \/ ChecksOut \/ Charges
    PROVE  PlanInv'
<1>0. BillingTypeOK /\ HandlersPlaced /\ acked \subseteq Ids
  BY DEF SerialInv, ClaimInv, BillingTypeOK
<1>1. PICK kind \in Kind : /\ Emits(kind, stripe') /\ stripe' \in Subscription
                           /\ kind # "subscription" => stripe' = stripe
  BY <1>0, StripeEmits
<1>2. /\ Len(log') = Len(log) + 1
      /\ Ids' = Ids \cup {Len(log')} /\ Len(log') \notin Ids
      /\ \A e \in Ids : log'[e] = log[e]
      /\ log'[Len(log')] = [kind |-> kind, sub |-> stripe']
  BY <1>0, <1>1, LogGrows
<1>11. Ids = 1 .. Len(log) /\ Len(log) \in Nat
  BY <1>0 DEF Ids, BillingTypeOK
<1>3. UNCHANGED <<handler, seen, acked, row, org, audited, overlapped, died>>
  BY <1>1 DEF Emits, tables
<1>4. \A e \in Ids : ChangedAfter(e)' <=> ChangedAfter(e) \/ kind = "subscription"
  BY <1>2, <1>11 DEF ChangedAfter
<1>5. \A e \in Ids : ChangedAfter(e)' \/ (stripe' = stripe /\ (ChangedAfter(e)' <=> ChangedAfter(e)))
  BY <1>1, <1>4
<1>6. \A sub : \A e \in Ids : Current(sub, e) => Current(sub, e)'
  BY <1>5 DEF Current
<1>7. LogCurrent'
  <2>1. \A e \in Ids : log[e].sub = stripe' \/ ChangedAfter(e)'
    BY <1>5 DEF PlanInv, LogCurrent, Current
  <2>2. \A e \in Ids' \ Ids : log'[e].sub = stripe'
    BY <1>2
  <2> QED
    BY <1>2, <2>1, <2>2 DEF LogCurrent, Current
<1>8. Quiet' => AckedApplied' /\ HandlersApply'
  BY <1>0, <1>2, <1>3, <1>6 DEF PlanInv, Quiet, AckedApplied, HandlersApply, HandlersPlaced
<1>9. Quiet' => RowCurrent'
  BY <1>2, <1>3, <1>5 DEF PlanInv, Quiet, RowCurrent
<1>10. Quiet' => OrgFollows'
  BY <1>3 DEF PlanInv, Quiet, OrgFollows, Unapplied
<1> QED
  BY <1>7, <1>8, <1>9, <1>10 DEF PlanInv

\* A handler at work applies what Stripe says, or leaves what is newer.
LEMMA PlanWorks ==
    ASSUME SerialInv, PlanInv, NEW d \in Delivery, Works(d), Quiet'
    PROVE  AckedApplied' /\ HandlersApply' /\ RowCurrent' /\ OrgFollows'
<1>0. /\ BillingTypeOK /\ HandlersPlaced /\ Quiet
      /\ MovesOn(d) /\ SubscriptionEffects(d) /\ InvoiceEffects(d)
      /\ handler[d].event \in Ids /\ handler[d].event \in Nat \ {0}
      /\ row.syncedAt \in Nat
  <2>1. BillingTypeOK /\ HandlersPlaced
    BY DEF SerialInv, ClaimInv
  <2>2. MovesOn(d)
    BY <2>1, WorksMoveOn
  <2>3. handler[d].event \in Ids /\ handler[d].event \in 1 .. MaxEvents
    BY <2>1, <2>2, EventTyped DEF MovesOn, Holding, HandlersPlaced
  <2>4. row.syncedAt \in 0 .. MaxEvents
    BY <2>1 DEF BillingTypeOK, SubscriptionRow
  <2> QED
    BY <2>1, <2>2, <2>3, <2>4, WorksEffects, BillingAssumption DEF MovesOn, Quiet
<1>1. /\ \A o \in Delivery \ {d} : /\ handler'[o] = handler[o]
                                   /\ handler[o].phase \in {"idle", "seen", "claim"}
      /\ handler'[d].event = handler[d].event
      /\ log' = log /\ acked' = acked /\ seen' = seen /\ stripe' = stripe
  BY <1>0, OthersOutside DEF MovesOn, Alone
<1>2. /\ \A sub, e : Current(sub, e)' <=> Current(sub, e)
      /\ \A e : ChangedAfter(e)' <=> ChangedAfter(e)
      /\ Ids' = Ids
  BY <1>1, CurrentKept DEF Ids
<1>3. AckedApplied /\ HandlersApply /\ RowCurrent /\ OrgFollows
  BY <1>0 DEF PlanInv
<1>4. \/ row' = row
      \/ /\ handler[d].phase = "upsert"
         /\ row'.syncedAt = handler[d].event /\ row'.plan = PlanOf(handler[d].sub)
         /\ row.syncedAt <= handler[d].event
  <2>1. row' = row \/ handler[d].phase = "upsert"
    BY <1>0, WorksEffects DEF SubscriptionEffects, InvoiceEffects, RowsKept
  <2> QED
    BY <1>0, <1>3, <2>1 DEF SubscriptionEffects, HandlersApply
<1>5. AckedApplied'
  BY <1>0, <1>1, <1>3, <1>4, EventTyped, BillingAssumption DEF AckedApplied, BillingTypeOK
<1>6. RowCurrent'
  BY <1>0, <1>1, <1>2, <1>3, <1>4
     DEF RowCurrent, HandlersApply, HandlersPlaced, Current
<1>7. HandlersApply'
  <2>1. /\ handler'[d].phase \in {"order", "before", "upsert", "apply", "audit"} =>
               Current(handler'[d].sub, handler[d].event)
        /\ handler'[d].phase \in {"before", "upsert"} => row'.syncedAt <= handler[d].event
        /\ handler'[d].phase \in {"apply", "audit"} =>
               row'.syncedAt = handler[d].event /\ row'.plan = PlanOf(handler'[d].sub)
        /\ handler'[d].phase = "answer" /\ log[handler[d].event].kind \in SubKind =>
               row'.syncedAt >= handler[d].event
    <3>1. CASE handler[d].phase \in {"retrieve", "order", "before"}
      BY <1>0, <1>3, <3>1
         DEF SubscriptionEffects, RowsKept, Keeps, HandlersApply, Current
    <3>2. CASE handler[d].phase \in {"upsert", "apply", "audit"}
      BY <1>0, <1>3, <3>2 DEF SubscriptionEffects, Keeps, HandlersApply
    <3>3. CASE handler[d].phase \in {"failed", "mark", "paid", "clear"}
      BY <1>0, <1>3, <3>3 DEF InvoiceEffects, HandlersPlaced, SubKind
    <3> QED
      BY <1>0, <3>1, <3>2, <3>3, WorksEffects
  <2> QED
    BY <1>1, <1>2, <2>1 DEF HandlersApply
<1>8. OrgFollows'
  <2>1. /\ Unapplied' <=> /\ row'.syncedAt # 0
                          /\ \/ row'.syncedAt \notin seen
                             \/ /\ handler'[d].phase \in {"retrieve", "order", "before", "upsert", "apply"}
                                /\ handler[d].event = row'.syncedAt
        /\ Unapplied <=> /\ row.syncedAt # 0
                         /\ \/ row.syncedAt \notin seen
                            \/ /\ handler[d].phase \in {"retrieve", "order", "before", "upsert", "apply"}
                               /\ handler[d].event = row.syncedAt
    BY <1>1 DEF Unapplied
  <2>2. CASE handler[d].phase \in {"retrieve", "order", "before", "upsert"}
    BY <1>0, <1>3, <2>1, <2>2 DEF SubscriptionEffects, RowsKept, OrgFollows
  <2>3. CASE handler[d].phase \in {"apply", "audit"}
    BY <1>0, <1>3, <2>1, <2>3 DEF SubscriptionEffects, HandlersApply, OrgFollows
  <2>4. CASE handler[d].phase \in {"failed", "mark", "paid", "clear"}
    <3>1. row' = row /\ org'.plan = org.plan
      BY <1>0, <2>4 DEF InvoiceEffects, RowsKept, BillingTypeOK, OrganizationRow
    <3>2. Unapplied' <=> Unapplied
      BY <1>0, <2>1, <2>4, <3>1 DEF InvoiceEffects
    <3> QED
      BY <1>3, <3>1, <3>2 DEF OrgFollows
  <2> QED
    BY <1>0, <2>2, <2>3, <2>4, WorksEffects
<1> QED
  BY <1>5, <1>6, <1>7, <1>8

\* A step that is not Stripe's leaves the rows, and the phases the rows are about,
\* except that of the request it is the step of.
LEMMA PlanOthers ==
    ASSUME SerialInv, PlanInv, NEW d \in Delivery, Quiet',
           \/ Acks(d) \/ Passes(d) \/ TakesUp(d) \/ MailOwners(d)
           \/ (\E e \in Ids : Delivers(d, e)) \/ Throws(d)
    PROVE  AckedApplied' /\ HandlersApply' /\ RowCurrent' /\ OrgFollows'
<1>0. /\ BillingTypeOK /\ HandlersPlaced /\ ClaimsHeld
      /\ handler[d].phase # "idle" => handler[d].event \in Ids
  BY DEF SerialInv, ClaimInv, HandlersPlaced
<1>1. /\ \A o \in Delivery \ {d} : handler'[o] = handler[o]
      /\ UNCHANGED <<log, stripe, row, org>>
      /\ Quiet
  <2>1. ASSUME MailOwners(d) PROVE UNCHANGED <<log, stripe, row, org, overlapped, died>> /\ Alone(d)
    BY <1>0, <2>1, MailsMoveOn, MailsEffects DEF MovesOn, Alone, RowsKept
  <2>2. Quiet
    BY <1>0, <2>1, QuietBefore DEF Acks, Passes, TakesUp, Throws, Dies
  <2>3. CASE Acks(d) \/ Passes(d) \/ TakesUp(d)
    BY <2>2, <2>3 DEF Acks, Passes, TakesUp, Alone
  <2>4. CASE (\E e \in Ids : Delivers(d, e)) \/ Throws(d)
    BY <1>0, <2>2, <2>4 DEF Delivers, Throws, BillingTypeOK, external, tables
  <2> QED
    BY <2>1, <2>2, <2>3, <2>4 DEF Alone
<1>2. /\ \A sub, e : Current(sub, e)' <=> Current(sub, e)
      /\ \A e : ChangedAfter(e)' <=> ChangedAfter(e)
      /\ Ids' = Ids
  BY <1>1, CurrentKept DEF Ids
<1>3. LogCurrent /\ AckedApplied /\ HandlersApply /\ RowCurrent /\ OrgFollows
  BY <1>1 DEF PlanInv
<1>4. RowCurrent'
  BY <1>1, <1>2, <1>3 DEF RowCurrent
<1>5. CASE Acks(d)
  <2>1. AckedApplied'
    BY <1>1, <1>3, <1>5, AckedWasDone DEF AckedApplied, HandlersApply, Acks
  <2>2. HandlersApply'
    BY <1>1, <1>2, <1>3, <1>5 DEF HandlersApply, Acks, Idle
  <2>3. OrgFollows'
    BY <1>1, <1>3, <1>5 DEF OrgFollows, Unapplied, Acks, Idle
  <2> QED
    BY <1>4, <2>1, <2>2, <2>3
<1>6. CASE Passes(d)
  <2>1. AckedApplied' /\ HandlersApply'
    BY <1>1, <1>2, <1>3, <1>6 DEF AckedApplied, HandlersApply, Passes
  <2>2. OrgFollows'
    BY <1>1, <1>3, <1>6 DEF OrgFollows, Unapplied, Passes
  <2> QED
    BY <1>4, <2>1, <2>2
<1>7. CASE TakesUp(d)
  <2>1. /\ handler'[d].phase = FirstStep(log[handler[d].event].kind)
        /\ handler'[d].event = handler[d].event /\ handler[d].event \in Ids
        /\ log[handler[d].event].kind \in Kind
        /\ handler'[d].sub = log[handler[d].event].sub
        /\ seen' = seen \cup {handler[d].event} /\ acked' = acked
        /\ handler[d].phase = "claim"
    BY <1>0, <1>7, EventTyped DEF TakesUp
  <2>2. AckedApplied'
    BY <1>1, <1>3, <2>1 DEF AckedApplied
  <2>3. HandlersApply'
    BY <1>1, <1>2, <1>3, <2>1 DEF HandlersApply, LogCurrent, FirstStep, Kind
  <2>4. OrgFollows'
    <3>1. CASE handler[d].event = row.syncedAt
      <4>1. row.syncedAt # 0 => handler'[d].phase \in {"retrieve", "order"}
        BY <1>3, <2>1, <3>1 DEF RowCurrent, SubKind, FirstStep
      <4> QED
        BY <1>1, <1>3, <2>1, <3>1, <4>1 DEF OrgFollows, Unapplied
    <3>2. CASE handler[d].event # row.syncedAt
      BY <1>1, <1>3, <2>1, <3>2 DEF OrgFollows, Unapplied
    <3> QED
      BY <3>1, <3>2
  <2> QED
    BY <1>4, <2>2, <2>3, <2>4
<1>8. CASE MailOwners(d)
  <2>1. /\ handler[d].phase = "mail" /\ handler'[d].phase = "answer"
        /\ handler'[d].event = handler[d].event
        /\ log[handler[d].event].kind = "failed"
        /\ acked' = acked /\ seen' = seen
    BY <1>0, <1>8, MailsMoveOn, MailsEffects DEF HandlersPlaced, MovesOn
  <2>2. AckedApplied' /\ HandlersApply'
    BY <1>1, <1>2, <1>3, <2>1 DEF AckedApplied, HandlersApply, SubKind
  <2>3. OrgFollows'
    BY <1>1, <1>3, <2>1 DEF OrgFollows, Unapplied
  <2> QED
    BY <1>4, <2>2, <2>3
<1>9. CASE \E e \in Ids : Delivers(d, e)
  <2>1. /\ handler[d].phase = "idle" /\ handler'[d].phase = "seen"
        /\ acked' = acked /\ seen' = seen
    BY <1>0, <1>9 DEF Delivers, Idle, BillingTypeOK
  <2>2. AckedApplied' /\ HandlersApply'
    BY <1>1, <1>2, <1>3, <2>1 DEF AckedApplied, HandlersApply
  <2>3. OrgFollows'
    BY <1>1, <1>3, <2>1 DEF OrgFollows, Unapplied
  <2> QED
    BY <1>4, <2>2, <2>3
<1>10. CASE Throws(d)
  <2>1. /\ handler'[d].phase = "idle"
        /\ acked' = acked /\ seen' = seen \ {handler[d].event}
    BY <1>0, <1>10 DEF Throws, Idle, BillingTypeOK
  <2>2. AckedApplied' /\ HandlersApply'
    BY <1>1, <1>2, <1>3, <2>1 DEF AckedApplied, HandlersApply
  <2>3. OrgFollows'
    BY <1>1, <1>3, <2>1 DEF OrgFollows, Unapplied
  <2> QED
    BY <1>4, <2>2, <2>3
<1> QED
  BY <1>5, <1>6, <1>7, <1>8, <1>9, <1>10

\* Every step keeps it.
LEMMA PlanNext ==
    ASSUME SerialInv, PlanInv, [Next]_vars
    PROVE  PlanInv'
<1>0. BillingTypeOK /\ HandlersPlaced /\ ClaimsHeld
  BY DEF SerialInv, ClaimInv
<1>1. CASE Changes \/ ChecksOut \/ Charges
  BY <1>1, PlanStripe
<1>2. CASE UNCHANGED vars
  BY <1>2
     DEF PlanInv, LogCurrent, Current, ChangedAfter, AckedApplied, HandlersApply, RowCurrent,
         OrgFollows, Unapplied, Quiet, Ids, vars, external, tables
<1>3. ASSUME NEW d \in Delivery,
             Handle(d) \/ (\E e \in Ids : Delivers(d, e)) \/ Throws(d) \/ Dies(d)
      PROVE  PlanInv'
  <2>1. log' = log /\ stripe' = stripe
    <3>1. CASE Handle(d)
      BY <1>0, <3>1, HandleKinds, WorksMoveOn, MailsMoveOn
         DEF MovesOn, Alone, Acks, Passes, TakesUp
    <3> QED
      BY <1>3, <3>1 DEF Delivers, Throws, Dies, external
  <2>2. LogCurrent'
    BY <2>1, CurrentKept DEF PlanInv
  <2>3. Quiet' => ~Dies(d)
    BY DEF Dies, Quiet
  <2>4. Quiet' => AckedApplied' /\ HandlersApply' /\ RowCurrent' /\ OrgFollows'
    BY <1>0, <1>3, <2>3, HandleKinds, PlanWorks, PlanOthers
  <2> QED
    BY <2>2, <2>4 DEF PlanInv
<1> QED
  BY <1>1, <1>2, <1>3 DEF Next

\* When every event has been answered, the row is at the newest that changes it.
LEMMA PlanSettles ==
    ASSUME SerialInv, PlanInv
    PROVE  PlanIsNewest
<1> DEFINE subs == {e \in Ids : log[e].kind \in SubKind}
<1> SUFFICES ASSUME Settled, subs # {}
             PROVE  row.plan = PlanOf(stripe) /\ org.plan = row.plan
  BY DEF PlanIsNewest, SubKind
<1>1. /\ AckedApplied /\ HandlersApply /\ RowCurrent /\ OrgFollows
      /\ acked = Ids /\ acked \subseteq seen
      /\ \A d \in Delivery : handler[d].phase = "idle"
  BY DEF Settled, PlanInv, SerialInv, RecordedOrHeld, Quiet
<1>2. Ids \subseteq Nat \ {0} /\ row.syncedAt \in Nat
  BY EventTyped, BillingAssumption DEF SerialInv, ClaimInv, BillingTypeOK, SubscriptionRow
<1>3. \A e \in subs : row.syncedAt >= e
  BY <1>1 DEF AckedApplied
<1>4. row.syncedAt # 0 /\ row.syncedAt \in Ids
  <2>1. PICK e \in subs : e \in Nat \ {0} /\ row.syncedAt >= e
    BY <1>2, <1>3
  <2> QED
    BY <1>1, <1>2, <2>1 DEF RowCurrent
<1>5. ~ChangedAfter(row.syncedAt)
  BY <1>2, <1>3 DEF ChangedAfter, SubKind
<1>6. ~Unapplied
  BY <1>1, <1>4 DEF Unapplied
<1> QED
  BY <1>1, <1>4, <1>5, <1>6 DEF RowCurrent, OrgFollows

\* Out of order, repeated and retried, the deliveries leave the plan of both rows
\* at what Stripe said last, where handlers of one customer never met and none
\* died: the ordering guard of applySubscription is enough for that.
THEOREM BillingPlanConverges == Spec => []PlanIsNewest
<1>1. Init => SerialInv /\ PlanInv
  <2> SUFFICES ASSUME Init PROVE PlanInv
    BY SerialInvInit
  <2>1. /\ \A d \in Delivery : handler[d].phase = "idle"
        /\ Ids = {} /\ acked = {} /\ row.syncedAt = 0 /\ org.plan = row.plan
    BY DEF Init, Idle, Ids
  <2> QED
    BY <2>1 DEF PlanInv, LogCurrent, AckedApplied, HandlersApply, RowCurrent, OrgFollows
<1>2. (SerialInv /\ PlanInv) /\ [Next]_vars => (SerialInv /\ PlanInv)'
  BY SerialInvNext, PlanNext
<1>3. SerialInv /\ PlanInv => PlanIsNewest
  BY PlanSettles
<1> QED
  BY <1>1, <1>2, <1>3, PTL DEF Spec

-------------------------------------------------------------------------------
(***************************************************************************)
(* The dunning state is that of the newest invoice                         *)
(***************************************************************************)

\* Nobody carries a cancelled subscription before Stripe has one.
NoneCancelled ==
    /\ \A e \in Ids : ~log[e].sub.cancelled
    /\ \A d \in Delivery : ~handler[d].sub.cancelled

AckedDunned == \A e \in acked : log[e].kind \in InvoiceKind => org.stateAt >= e

\* Where a handler of an invoice stands with the state of the organisation.
HandlersDun ==
    \A d \in Delivery :
        /\ handler[d].phase \in {"mark", "clear"} => org.stateAt <= handler[d].event
        /\ handler[d].phase = "clear" => handler[d].was = org.state
        /\ handler[d].phase \in {"mail", "answer"} /\ log[handler[d].event].kind \in InvoiceKind =>
               org.stateAt >= handler[d].event

\* The state is what the invoice it is stamped with says.
StateSays ==
    /\ org.stateAt = 0 => org.state = "OK"
    /\ org.stateAt # 0 =>
           /\ org.stateAt \in Ids /\ log[org.stateAt].kind \in InvoiceKind
           /\ (org.state = "PAST_DUE") = (log[org.stateAt].kind = "failed")

DunningInv ==
    ~stripe.cancelled => NoneCancelled /\ (Quiet => AckedDunned /\ HandlersDun /\ StateSays)

\* What happens at Stripe leaves what the dunning state says of the events answered.
LEMMA DunningStripe ==
    ASSUME SerialInv, DunningInv, Changes \/ ChecksOut \/ Charges, ~stripe'.cancelled
    PROVE  NoneCancelled' /\ (Quiet' => AckedDunned' /\ HandlersDun' /\ StateSays')
<1>0. BillingTypeOK /\ HandlersPlaced /\ acked \subseteq Ids
  BY DEF SerialInv, ClaimInv, BillingTypeOK
<1>1. PICK kind \in Kind : Emits(kind, stripe') /\ stripe' \in Subscription
  BY <1>0, StripeEmits
<1>2. /\ Ids' = Ids \cup {Len(log')} /\ Len(log') \notin Ids
      /\ \A e \in Ids : log'[e] = log[e]
      /\ log'[Len(log')] = [kind |-> kind, sub |-> stripe']
  BY <1>0, <1>1, LogGrows
<1>3. UNCHANGED <<handler, seen, acked, row, org, audited, overlapped, died>>
  BY <1>1 DEF Emits, tables
<1>4. ~stripe.cancelled
  BY <1>0, StripeEmits
<1>5. NoneCancelled'
  BY <1>2, <1>3, <1>4 DEF DunningInv, NoneCancelled
<1>6. Quiet' => AckedDunned' /\ HandlersDun'
  BY <1>0, <1>2, <1>3, <1>4
     DEF DunningInv, Quiet, AckedDunned, HandlersDun, HandlersPlaced
<1>7. Quiet' => StateSays'
  BY <1>2, <1>3, <1>4 DEF DunningInv, Quiet, StateSays
<1> QED
  BY <1>5, <1>6, <1>7

\* A handler at work dates the dunning state by its event, or leaves what is newer.
LEMMA DunningWorks ==
    ASSUME SerialInv, DunningInv, NEW d \in Delivery, Works(d), ~stripe.cancelled
    PROVE  NoneCancelled' /\ (Quiet' => AckedDunned' /\ HandlersDun' /\ StateSays')
<1>0. /\ BillingTypeOK /\ HandlersPlaced /\ NoneCancelled
      /\ MovesOn(d) /\ SubscriptionEffects(d) /\ InvoiceEffects(d)
      /\ handler[d].event \in Ids /\ handler[d].event \in Nat \ {0}
      /\ org \in OrganizationRow /\ org.stateAt \in Nat
  <2>1. BillingTypeOK /\ HandlersPlaced
    BY DEF SerialInv, ClaimInv
  <2>2. MovesOn(d)
    BY <2>1, WorksMoveOn
  <2>3. handler[d].event \in Ids /\ handler[d].event \in 1 .. MaxEvents
    BY <2>1, <2>2, EventTyped DEF MovesOn, Holding, HandlersPlaced
  <2>4. org \in OrganizationRow /\ org.stateAt \in 0 .. MaxEvents
    BY <2>1 DEF BillingTypeOK, OrganizationRow
  <2> QED
    BY <2>1, <2>2, <2>3, <2>4, WorksEffects, BillingAssumption DEF DunningInv
<1>1. handler'[d].sub \in {handler[d].sub, stripe}
  BY <1>0, WorksEffects DEF SubscriptionEffects, InvoiceEffects, Keeps
<1>2. NoneCancelled'
  BY <1>0, <1>1 DEF NoneCancelled, MovesOn, Alone, Ids
<1>3. ASSUME Quiet' PROVE AckedDunned' /\ HandlersDun' /\ StateSays'
  <2>1. /\ \A o \in Delivery \ {d} : /\ handler'[o] = handler[o]
                                     /\ handler[o].phase \in {"idle", "seen", "claim"}
        /\ handler'[d].event = handler[d].event
        /\ log' = log /\ acked' = acked /\ Ids' = Ids
    BY <1>0, <1>3, OthersOutside DEF MovesOn, Alone, Ids
  <2>2. AckedDunned /\ HandlersDun /\ StateSays
    BY <1>0, <1>3 DEF DunningInv, Quiet, MovesOn
  <2>3. \A e \in acked : e \in Nat
    BY <1>0, EventTyped, BillingAssumption DEF BillingTypeOK
  <2>4. CASE handler[d].phase \in {"retrieve", "order", "before", "upsert", "apply", "audit"}
    <3>1. org'.state = org.state /\ org'.stateAt = org.stateAt
      BY <1>0, <2>4 DEF SubscriptionEffects, RowsKept, NoneCancelled
    <3>2. /\ handler'[d].phase \notin {"mark", "clear", "mail"}
          /\ log[handler[d].event].kind \notin InvoiceKind
      BY <1>0, <2>4 DEF SubscriptionEffects, HandlersPlaced, SubKind, InvoiceKind
    <3> QED
      BY <2>1, <2>2, <3>1, <3>2 DEF AckedDunned, HandlersDun, StateSays
  <2>5. CASE handler[d].phase \in {"failed", "paid"}
    <3>1. /\ org' = org
          /\ handler'[d].phase = "answer" => org.stateAt >= handler[d].event
          /\ handler'[d].phase \in {"mark", "clear"} => org.stateAt <= handler[d].event
          /\ handler'[d].phase = "clear" => handler'[d].was = org.state
          /\ handler'[d].phase # "mail"
      BY <1>0, <2>5 DEF InvoiceEffects, RowsKept, Fresh
    <3> QED
      BY <2>1, <2>2, <3>1 DEF AckedDunned, HandlersDun, StateSays
  <2>6. CASE handler[d].phase \in {"mark", "clear"}
    <3>1. /\ org'.stateAt = handler[d].event /\ org.stateAt <= handler[d].event
          /\ handler'[d].phase \in {"mail", "answer"}
          /\ log[handler[d].event].kind = "failed" => org'.state = "PAST_DUE"
          /\ log[handler[d].event].kind = "paid" => org'.state = "OK"
          /\ log[handler[d].event].kind \in {"failed", "paid"}
      BY <1>0, <2>2, <2>6
         DEF InvoiceEffects, HandlersDun, HandlersPlaced, OrganizationRow
    <3>2. AckedDunned'
      BY <1>0, <2>1, <2>2, <2>3, <3>1 DEF AckedDunned
    <3>3. HandlersDun'
      BY <1>0, <2>1, <3>1 DEF HandlersDun
    <3>4. StateSays'
      BY <1>0, <2>1, <3>1 DEF StateSays, InvoiceKind
    <3> QED
      BY <3>2, <3>3, <3>4
  <2> QED
    BY <1>0, <2>4, <2>5, <2>6, WorksEffects
<1> QED
  BY <1>2, <1>3

\* A delivery begins a request.
LEMMA DeliversEffects ==
    ASSUME BillingTypeOK, NEW d \in Delivery, \E e \in Ids : Delivers(d, e)
    PROVE  /\ acked' = acked
           /\ handler'[d].phase = "seen" /\ handler'[d].sub = NewSub
<1>1. PICK e \in Ids : Delivers(d, e)
  OBVIOUS
<1>2. handler'[d] = [Idle EXCEPT !.phase = "seen", !.event = e] /\ acked' = acked
  BY <1>1 DEF Delivers, BillingTypeOK
<1> QED
  BY <1>2 DEF Idle

\* What begins, answers, mails or breaks off a handler leaves the state as it is.
LEMMA DunningOthers ==
    ASSUME SerialInv, DunningInv, NEW d \in Delivery, ~stripe.cancelled,
           \/ Acks(d) \/ Passes(d) \/ TakesUp(d) \/ MailOwners(d)
           \/ (\E e \in Ids : Delivers(d, e)) \/ Throws(d) \/ Dies(d)
    PROVE  NoneCancelled' /\ (Quiet' => AckedDunned' /\ HandlersDun' /\ StateSays')
<1>0. /\ BillingTypeOK /\ HandlersPlaced /\ ClaimsHeld /\ NoneCancelled
      /\ handler \in [Delivery -> Request]
      /\ handler[d].phase # "idle" => handler[d].event \in Ids
  BY DEF SerialInv, ClaimInv, HandlersPlaced, DunningInv, BillingTypeOK
<1>1. /\ \A o \in Delivery \ {d} : handler'[o] = handler[o]
      /\ UNCHANGED <<log, org>>
  <2>1. CASE MailOwners(d)
    BY <1>0, <2>1, MailsMoveOn, MailsEffects DEF MovesOn, Alone, RowsKept
  <2>2. CASE Acks(d) \/ Passes(d) \/ TakesUp(d)
    BY <2>2 DEF Acks, Passes, TakesUp, Alone
  <2>3. CASE (\E e \in Ids : Delivers(d, e)) \/ Throws(d) \/ Dies(d)
    BY <1>0, <2>3 DEF Delivers, Throws, Dies, external, tables
  <2> QED
    BY <2>1, <2>2, <2>3
<1>2. ~handler'[d].sub.cancelled
  <2>1. CASE MailOwners(d) \/ Passes(d)
    BY <1>0, <2>1, MailsEffects DEF Keeps, Passes, NoneCancelled
  <2>2. CASE Acks(d) \/ Throws(d) \/ Dies(d)
    BY <1>0, <2>2 DEF Acks, Throws, Dies, Idle, NewSub
  <2>3. CASE \E e \in Ids : Delivers(d, e)
    BY <1>0, <2>3, DeliversEffects DEF NewSub
  <2>4. CASE TakesUp(d)
    BY <1>0, <2>4 DEF TakesUp, NoneCancelled
  <2> QED
    BY <2>1, <2>2, <2>3, <2>4
<1>3. NoneCancelled'
  BY <1>0, <1>1, <1>2 DEF NoneCancelled, Ids
<1>4. ASSUME Quiet' PROVE AckedDunned' /\ HandlersDun' /\ StateSays'
  <2>1. Quiet
    <3>1. MailOwners(d) => UNCHANGED <<overlapped, died>>
      BY <1>0, MailsMoveOn DEF MovesOn
    <3> QED
      BY <1>0, <1>4, <3>1, QuietBefore DEF Acks, Passes, Dies, Quiet
  <2>2. AckedDunned /\ HandlersDun /\ StateSays
    BY <2>1 DEF DunningInv
  <2>3. StateSays'
    BY <1>1, <2>2 DEF StateSays, Ids
  <2>4. CASE Acks(d)
    <3>1. AckedDunned'
      BY <1>1, <2>1, <2>2, <2>4, AckedWasDone DEF AckedDunned, HandlersDun, Acks
    <3>2. HandlersDun'
      BY <1>1, <2>2, <2>4 DEF HandlersDun, Acks, Idle
    <3> QED
      BY <2>3, <3>1, <3>2
  <2>5. CASE MailOwners(d)
    <3>1. /\ handler[d].phase = "mail" /\ handler'[d].phase = "answer"
          /\ handler'[d].event = handler[d].event /\ acked' = acked
      BY <1>0, <2>5, MailsMoveOn, MailsEffects DEF MovesOn
    <3> QED
      BY <1>1, <2>2, <2>3, <3>1 DEF AckedDunned, HandlersDun
  <2>6. CASE Passes(d) \/ (\E e \in Ids : Delivers(d, e)) \/ Throws(d)
    <3>1. acked' = acked /\ handler'[d].phase \in {"idle", "seen", "claim"}
      <4>1. CASE \E e \in Ids : Delivers(d, e)
        BY <1>0, <4>1, DeliversEffects
      <4> QED
        BY <1>0, <2>6, <4>1 DEF Passes, Throws, Idle
    <3> QED
      BY <1>1, <2>2, <2>3, <3>1 DEF AckedDunned, HandlersDun
  <2>7. CASE TakesUp(d)
    <3>1. acked' = acked /\ handler'[d].phase \in {"order", "retrieve", "failed", "paid"}
      BY <1>0, <2>7, EventTyped DEF TakesUp, FirstStep, Kind
    <3> QED
      BY <1>1, <2>2, <2>3, <3>1 DEF AckedDunned, HandlersDun
  <2>8. CASE Dies(d)
    BY <1>4, <2>8 DEF Dies, Quiet
  <2> QED
    BY <2>4, <2>5, <2>6, <2>7, <2>8
<1> QED
  BY <1>3, <1>4

\* Every step keeps it.
LEMMA DunningNext ==
    ASSUME SerialInv, DunningInv, [Next]_vars
    PROVE  DunningInv'
<1>0. BillingTypeOK /\ HandlersPlaced /\ ClaimsHeld
  BY DEF SerialInv, ClaimInv
<1>1. CASE Changes \/ ChecksOut \/ Charges
  BY <1>1, DunningStripe DEF DunningInv
<1>2. CASE UNCHANGED vars
  BY <1>2
     DEF DunningInv, NoneCancelled, AckedDunned, HandlersDun, StateSays, Quiet, Ids,
         vars, external, tables
<1>3. ASSUME NEW d \in Delivery,
             Handle(d) \/ (\E e \in Ids : Delivers(d, e)) \/ Throws(d) \/ Dies(d)
      PROVE  DunningInv'
  <2>1. stripe' = stripe
    <3>1. CASE Handle(d)
      BY <1>0, <3>1, HandleKinds, WorksMoveOn, MailsMoveOn DEF MovesOn, Acks, Passes, TakesUp
    <3> QED
      BY <1>3, <3>1 DEF Delivers, Throws, Dies, external
  <2> QED
    BY <1>0, <1>3, <2>1, HandleKinds, DunningWorks, DunningOthers DEF DunningInv
<1> QED
  BY <1>1, <1>2, <1>3 DEF Next

\* When every event has been answered, the state is stamped with the newest invoice.
LEMMA DunningSettles ==
    ASSUME SerialInv, DunningInv
    PROVE  DunningIsNewest
<1> DEFINE invoices == {e \in Ids : log[e].kind \in InvoiceKind}
<1> SUFFICES ASSUME Settled, ~stripe.cancelled, invoices # {}
             PROVE  (org.state = "PAST_DUE") = (log[Newest(invoices)].kind = "failed")
  BY DEF DunningIsNewest, InvoiceKind
<1>1. AckedDunned /\ StateSays /\ acked = Ids
  BY DEF Settled, DunningInv, Quiet
<1>2. Ids \subseteq Nat \ {0} /\ org.stateAt \in Nat
  BY EventTyped, BillingAssumption DEF SerialInv, ClaimInv, BillingTypeOK, OrganizationRow
<1>3. \A e \in invoices : org.stateAt >= e
  BY <1>1 DEF AckedDunned
<1>4. org.stateAt \in invoices
  <2>1. PICK e \in invoices : e \in Nat \ {0} /\ org.stateAt >= e
    BY <1>2, <1>3
  <2> QED
    BY <1>1, <1>2, <2>1 DEF StateSays
<1>5. Newest(invoices) = org.stateAt
  <2>1. \A e \in invoices : (\A o \in invoices : o <= e) <=> e = org.stateAt
    BY <1>2, <1>3, <1>4
  <2> QED
    BY <1>4, <2>1 DEF Newest
<1> QED
  BY <1>1, <1>2, <1>4, <1>5 DEF StateSays

\* Where no subscription ended, handlers never met and none died, the dunning
\* state is that of the newest invoice, in whatever order the events came.
THEOREM BillingDunningConverges == Spec => []DunningIsNewest
<1>1. Init => SerialInv /\ DunningInv
  <2> SUFFICES ASSUME Init PROVE DunningInv
    BY SerialInvInit
  <2>1. /\ \A d \in Delivery : handler[d] = Idle
        /\ Ids = {} /\ acked = {} /\ org.stateAt = 0 /\ org.state = "OK"
    BY DEF Init, Ids
  <2> QED
    BY <2>1 DEF DunningInv, NoneCancelled, AckedDunned, HandlersDun, StateSays, Idle, NewSub
<1>2. (SerialInv /\ DunningInv) /\ [Next]_vars => (SerialInv /\ DunningInv)'
  BY SerialInvNext, DunningNext
<1>3. SerialInv /\ DunningInv => DunningIsNewest
  BY DunningSettles
<1> QED
  BY <1>1, <1>2, <1>3, PTL DEF Spec

-------------------------------------------------------------------------------
(***************************************************************************)
(* A plan that moved leaves an audit row                                   *)
(***************************************************************************)

\* Between the read of the old plan and the audit row, the organisation is at
\* the one or the other; at any other time the newest row says where it is.
AuditInv ==
    Quiet /\ faults = 0 =>
        /\ \A d \in Delivery :
               /\ handler[d].phase \in {"upsert", "apply"} => handler[d].was = org.plan
               /\ handler[d].phase = "audit" => org.plan = PlanOf(handler[d].sub)
        /\ (\A d \in Delivery : handler[d].phase # "audit") => audited = org.plan

\* A handler at work leaves no move of the plan unaudited, where nothing failed.
LEMMA AuditWorks ==
    ASSUME SerialInv, AuditInv, NEW d \in Delivery, Works(d)
    PROVE  AuditInv'
<1> SUFFICES ASSUME Quiet', faults' = 0 PROVE AuditInv'
  BY DEF AuditInv
<1>0. /\ BillingTypeOK
      /\ MovesOn(d) /\ SubscriptionEffects(d) /\ InvoiceEffects(d)
  <2>1. BillingTypeOK
    BY DEF SerialInv, ClaimInv
  <2> QED
    BY <2>1, WorksMoveOn, WorksEffects
<1>1. \A o \in Delivery \ {d} : /\ handler'[o] = handler[o]
                               /\ handler[o].phase \in {"idle", "seen", "claim"}
  BY <1>0, OthersOutside DEF MovesOn
<1>2. Quiet /\ faults = 0
  BY <1>0 DEF MovesOn, Quiet
<1>3. CASE handler[d].phase \in {"retrieve", "order", "before", "upsert"}
  BY <1>0, <1>1, <1>2, <1>3 DEF AuditInv, SubscriptionEffects, RowsKept
<1>4. CASE handler[d].phase \in {"apply", "audit"}
  BY <1>0, <1>1, <1>2, <1>4 DEF AuditInv, SubscriptionEffects, Keeps
<1>5. CASE handler[d].phase \in {"failed", "mark", "paid", "clear"}
  <2>1. org'.plan = org.plan /\ audited' = audited
    BY <1>0, <1>5 DEF InvoiceEffects, RowsKept, BillingTypeOK, OrganizationRow
  <2> QED
    BY <1>0, <1>1, <1>2, <1>5, <2>1 DEF AuditInv, InvoiceEffects
<1> QED
  BY <1>0, <1>3, <1>4, <1>5, WorksEffects

\* Every step keeps it.
LEMMA AuditNext ==
    ASSUME SerialInv, AuditInv, [Next]_vars
    PROVE  AuditInv'
<1>0. /\ BillingTypeOK /\ HandlersPlaced /\ ClaimsHeld
      /\ handler \in [Delivery -> Request] /\ faults \in Nat
  BY BillingAssumption DEF SerialInv, ClaimInv, BillingTypeOK
<1>1. CASE Changes \/ ChecksOut \/ Charges \/ UNCHANGED vars
  <2>1. UNCHANGED <<handler, org, audited, faults, overlapped, died>>
    BY <1>1 DEF Changes, ChecksOut, Charges, Emits, vars, tables
  <2> QED
    BY <2>1 DEF AuditInv, Quiet
<1>2. ASSUME NEW d \in Delivery, Acks(d) \/ Passes(d) \/ TakesUp(d) \/ MailOwners(d)
                                 \/ (\E e \in Ids : Delivers(d, e))
      PROVE  AuditInv'
  <2> SUFFICES ASSUME Quiet', faults' = 0 PROVE AuditInv'
    BY DEF AuditInv
  <2>1. /\ \A o \in Delivery \ {d} : handler'[o] = handler[o]
        /\ UNCHANGED <<org, audited, faults>>
    <3>1. CASE MailOwners(d)
      BY <1>0, <3>1, MailsMoveOn, MailsEffects DEF MovesOn, Alone, RowsKept
    <3>2. CASE Acks(d) \/ Passes(d) \/ TakesUp(d)
      BY <3>2 DEF Acks, Passes, TakesUp, Alone
    <3>3. CASE \E e \in Ids : Delivers(d, e)
      BY <1>0, <3>3 DEF Delivers, tables
    <3> QED
      BY <1>2, <3>1, <3>2, <3>3
  <2>2. Quiet
    <3>1. MailOwners(d) => UNCHANGED <<overlapped, died>>
      BY <1>0, MailsMoveOn DEF MovesOn
    <3> QED
      BY <1>0, <1>2, <3>1, QuietBefore DEF Acks, Passes
  <2>3. handler[d].phase # "audit" /\ handler'[d].phase \notin {"upsert", "apply", "audit"}
    <3>1. CASE MailOwners(d)
      BY <1>0, <3>1, MailsEffects
    <3>2. CASE Acks(d) \/ Passes(d)
      BY <3>2 DEF Acks, Passes, Idle
    <3>3. CASE \E e \in Ids : Delivers(d, e)
      BY <1>0, <3>3, DeliversEffects DEF Delivers
    <3>4. CASE TakesUp(d)
      BY <1>0, <3>4, EventTyped DEF TakesUp, FirstStep, Kind
    <3> QED
      BY <1>2, <3>1, <3>2, <3>3, <3>4
  <2> QED
    BY <2>1, <2>2, <2>3 DEF AuditInv
<1>3. ASSUME NEW d \in Delivery, Throws(d) \/ Dies(d) PROVE AuditInv'
  <2>1. faults' # 0
    BY <1>0, <1>3 DEF Throws, Dies
  <2> QED
    BY <2>1 DEF AuditInv
<1>4. ASSUME NEW d \in Delivery, Handle(d) PROVE AuditInv'
  BY <1>0, <1>2, <1>4, HandleKinds, AuditWorks
<1> QED
  BY <1>1, <1>2, <1>3, <1>4 DEF Next

\* Where nothing failed and handlers never met, the newest billing.plan.applied
\* row says what the organisation is on.
THEOREM BillingMovesAudited == Spec => []PlanMovesAudited
<1>1. Init => SerialInv /\ AuditInv
  <2>1. Init => AuditInv
    BY DEF Init, AuditInv, Idle
  <2> QED
    BY <2>1, SerialInvInit
<1>2. (SerialInv /\ AuditInv) /\ [Next]_vars => (SerialInv /\ AuditInv)'
  BY SerialInvNext, AuditNext
<1>3. SerialInv /\ AuditInv => PlanMovesAudited
  BY DEF AuditInv, PlanMovesAudited, Settled, Quiet
<1> QED
  BY <1>1, <1>2, <1>3, PTL DEF Spec
===============================================================================
