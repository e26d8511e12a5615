------------------------------ MODULE Payments ------------------------------
(***************************************************************************)
(* Pack purchases: a Stripe Checkout session is fulfilled by Stripe's      *)
(* webhook (handleWebhook) and by the browser that comes back to           *)
(* /payment/success (fulfillSession), in any order, at once, repeatedly,   *)
(* and with failures between any two statements.  Both check stripe_event, *)
(* mark the session there, add the credits, then write the register of     *)
(* payments; rattraperPaiements completes the register later.              *)
(*                                                                         *)
(* Stripe is external: a session completes paid, or completes unpaid (a    *)
(* delayed payment method) and may be paid later; its completion event is  *)
(* delivered at least once, and again until it is acknowledged.            *)
(***************************************************************************)
EXTENDS Integers, FiniteSets

CONSTANTS
  Sessions,     \* Checkout sessions of type pack
  Users,        \* accounts (keycloakId)
  OwnerOf,      \* metadata.keycloakId of each session
  Handlers,     \* concurrent HTTP requests on the two endpoints
  MaxFailures   \* bound on the requests that fail or vanish half-way

ASSUME PaymentsAssumption ==
  /\ OwnerOf \in [Sessions -> Users]
  /\ IsFiniteSet(Handlers)
  /\ MaxFailures \in Nat

VARIABLES
  stripe,     \* Stripe's state of each session
  acked,      \* sessions whose completion event Stripe stopped resending
  accounts,   \* users with a row
  processed,  \* stripe_event
  registry,   \* paiement
  credited,   \* how many times the credits of a session were added
  handler,    \* where each request is
  failures    \* requests that failed so far

vars == <<stripe, acked, accounts, processed, registry, credited, handler, failures>>

\* paidLater: completed unpaid, and paid since.
StripeStates == {"none", "open", "completeUnpaid", "completePaid", "paidLater"}
Complete(s) == stripe[s] \in {"completeUnpaid", "completePaid", "paidLater"}
Paid(s) == stripe[s] \in {"completePaid", "paidLater"}

Working == {"check", "retrieve", "mark", "credit", "record"}

\* kind: which endpoint; caller: the authenticated user of fulfillSession;
\* paid: payment_status in the copy of the session the request works with.
Requests ==
  [pc : Working, kind : {"webhook", "browser"}, session : Sessions, caller : Users, paid : BOOLEAN]

Idle == [pc |-> "idle"]

TypeOK ==
  /\ stripe \in [Sessions -> StripeStates]
  /\ acked \subseteq Sessions
  /\ accounts \subseteq Users
  /\ processed \subseteq Sessions
  /\ registry \subseteq Sessions
  /\ credited \in [Sessions -> Nat]
  /\ handler \in [Handlers -> Requests \union {Idle}]
  /\ failures \in 0..MaxFailures

Init ==
  /\ stripe = [s \in Sessions |-> "none"]
  /\ acked = {}
  /\ accounts = Users
  /\ processed = {}
  /\ registry = {}
  /\ credited = [s \in Sessions |-> 0]
  /\ handler = [h \in Handlers |-> Idle]
  /\ failures = 0

----------------------------------------------------------------------------
\* createPackCheckout: a session exists at Stripe, for an existing account.
CreateCheckout(s) ==
  /\ stripe[s] = "none"
  /\ OwnerOf[s] \in accounts
  /\ stripe' = [stripe EXCEPT ![s] = "open"]
  /\ UNCHANGED <<acked, accounts, processed, registry, credited, handler, failures>>

\* Stripe: the customer goes through Checkout.
CompleteCheckout(s, status) ==
  /\ stripe[s] = "open"
  /\ stripe' = [stripe EXCEPT ![s] = status]
  /\ UNCHANGED <<acked, accounts, processed, registry, credited, handler, failures>>

\* Stripe: a delayed payment succeeds.  Its event is none of those handled.
DelayedPayment(s) ==
  /\ stripe[s] = "completeUnpaid"
  /\ stripe' = [stripe EXCEPT ![s] = "paidLater"]
  /\ UNCHANGED <<acked, accounts, processed, registry, credited, handler, failures>>

DeleteAccount(u) ==
  /\ u \in accounts
  /\ accounts' = accounts \ {u}
  /\ UNCHANGED <<stripe, acked, processed, registry, credited, handler, failures>>

----------------------------------------------------------------------------
Start(h, request) ==
  /\ handler[h] = Idle
  /\ handler' = [handler EXCEPT ![h] = request]

At(h, step) == handler[h].pc = step

Goto(h, step) == handler' = [handler EXCEPT ![h].pc = step]

\* The request returns; a webhook that returns is acknowledged.
Return(h) ==
  /\ handler' = [handler EXCEPT ![h] = Idle]
  /\ acked' = IF handler[h].kind = "webhook" THEN acked \union {handler[h].session} ELSE acked

\* checkout.session.completed, first delivery or not: the event carries the
\* payment status the session had when it completed.
Webhook(h, s) ==
  /\ Complete(s)
  /\ Start(h, [pc |-> "check", kind |-> "webhook", session |-> s, caller |-> OwnerOf[s],
               paid |-> stripe[s] = "completePaid"])
  /\ UNCHANGED <<stripe, acked, accounts, processed, registry, credited, failures>>

\* Any signed-in user may post any session id, before or after payment.
FulfillSession(h, s, u) ==
  /\ stripe[s] # "none"
  /\ Start(h, [pc |-> "check", kind |-> "browser", session |-> s, caller |-> u, paid |-> FALSE])
  /\ UNCHANGED <<stripe, acked, accounts, processed, registry, credited, failures>>

\* Mutant: stripe_event is not looked at.
NeverAlreadyProcessed(h) ==
  /\ At(h, "check")
  /\ Goto(h, IF handler[h].kind = "webhook" THEN "mark" ELSE "retrieve")
  /\ UNCHANGED <<stripe, acked, accounts, processed, registry, credited, failures>>

IsAlreadyProcessed(h) ==
  /\ At(h, "check")
  /\ \/ handler[h].session \in processed /\ Return(h)
     \/ /\ handler[h].session \notin processed
        /\ Goto(h, IF handler[h].kind = "webhook" THEN "mark" ELSE "retrieve")
        /\ UNCHANGED acked
  /\ UNCHANGED <<stripe, accounts, processed, registry, credited, failures>>

\* Mutant: the owner of the session is not compared with the caller.
RetrieveForAnyone(h) ==
  /\ At(h, "retrieve")
  /\ LET s == handler[h].session
     IN  IF Complete(s)
         THEN /\ handler' = [handler EXCEPT ![h].pc = "mark", ![h].paid = Paid(s)]
              /\ UNCHANGED acked
         ELSE Return(h)
  /\ UNCHANGED <<stripe, accounts, processed, registry, credited, failures>>

\* fulfillSession only: the session as Stripe has it now, and its owner.
Retrieve(h) ==
  /\ At(h, "retrieve")
  /\ LET s == handler[h].session
     IN  IF Complete(s) /\ OwnerOf[s] = handler[h].caller
         THEN /\ handler' = [handler EXCEPT ![h].pc = "mark", ![h].paid = Paid(s)]
              /\ UNCHANGED acked
         ELSE Return(h)
  /\ UNCHANGED <<stripe, accounts, processed, registry, credited, failures>>

\* Mutant: the session is marked and the credits forgotten.
MarkedForGood(h) ==
  /\ At(h, "mark")
  /\ processed' = processed \union {handler[h].session}
  /\ Goto(h, "record")
  /\ UNCHANGED <<stripe, acked, accounts, registry, credited, failures>>

\* save on the primary key: no error when the row is already there.
MarkProcessed(h) ==
  /\ At(h, "mark")
  /\ processed' = processed \union {handler[h].session}
  /\ Goto(h, "credit")
  /\ UNCHANGED <<stripe, acked, accounts, registry, credited, failures>>

\* addExtraCredits: null without a row, which the callers do not look at.
AddExtraCredits(h) ==
  /\ At(h, "credit")
  /\ LET s == handler[h].session
     IN  credited' = IF OwnerOf[s] \in accounts THEN [credited EXCEPT ![s] = @ + 1] ELSE credited
  /\ Goto(h, "record")
  /\ UNCHANGED <<stripe, acked, accounts, processed, registry, failures>>

\* Mutant: payment_status is not looked at.
RecordUnpaid(h) ==
  /\ At(h, "record")
  /\ registry' = registry \union {handler[h].session}
  /\ Return(h)
  /\ UNCHANGED <<stripe, accounts, processed, credited, failures>>

\* enregistrerPaiement: INSERT IGNORE of a paid session; a failed INSERT is
\* logged and swallowed.
EnregistrerPaiement(h) ==
  /\ At(h, "record")
  /\ \/ registry' = IF handler[h].paid THEN registry \union {handler[h].session} ELSE registry
     \/ UNCHANGED registry
  /\ Return(h)
  /\ UNCHANGED <<stripe, accounts, processed, credited, failures>>

\* Mutant: the controller answers 200 whatever happened.
FailAcknowledged(h) ==
  /\ handler[h] # Idle
  /\ failures < MaxFailures
  /\ failures' = failures + 1
  /\ Return(h)
  /\ UNCHANGED <<stripe, accounts, processed, registry, credited>>

\* A statement throws, or the container stops: nothing is undone, and the
\* webhook answers 400 or nothing, so Stripe sends the event again.
Fail(h) ==
  /\ handler[h] # Idle
  /\ failures < MaxFailures
  /\ failures' = failures + 1
  /\ handler' = [handler EXCEPT ![h] = Idle]
  /\ UNCHANGED <<stripe, acked, accounts, processed, registry, credited>>

\* rattraperPaiements, for one row of stripe_event.
RattraperPaiement(s) ==
  /\ s \in processed
  /\ Paid(s)
  /\ registry' = registry \union {s}
  /\ UNCHANGED <<stripe, acked, accounts, processed, credited, handler, failures>>

Step(h) ==
  \/ IsAlreadyProcessed(h) \/ Retrieve(h) \/ MarkProcessed(h)
  \/ AddExtraCredits(h) \/ EnregistrerPaiement(h)

Deliver(s) == \E h \in Handlers : Webhook(h, s)

Next ==
  \/ \E s \in Sessions :
       \/ CreateCheckout(s)
       \/ CompleteCheckout(s, "completePaid") \/ CompleteCheckout(s, "completeUnpaid")
       \/ DelayedPayment(s)
       \/ Deliver(s)
       \/ RattraperPaiement(s)
       \/ \E h \in Handlers, u \in Users : FulfillSession(h, s, u)
  \/ \E u \in Users : DeleteAccount(u)
  \/ \E h \in Handlers : Step(h) \/ Fail(h)

\* A request that is running goes on (the event loop serves it), and Stripe
\* resends an event it got no answer for.
Fairness ==
  /\ \A h \in Handlers : WF_vars(Step(h))
  /\ \A s \in Sessions : SF_vars(s \notin acked /\ Deliver(s))

Spec == Init /\ [][Next]_vars

FairSpec == Spec /\ Fairness

----------------------------------------------------------------------------
WorkingOn(h, s) == handler[h] # Idle /\ handler[h].session = s

\* The register only counts money received: a session completed unpaid and
\* credited all the same is never in it, whatever copy of the session the
\* request worked with (payments.service.ts, lines 92 to 96).
RegistryIsCashed == \A s \in registry : Paid(s)

\* Credits are only added under the mark of the session: a request that
\* starts after an addition cannot add again.
CreditedIsProcessed == \A s \in Sessions : credited[s] > 0 => s \in processed

\* However many times the event is resent and the page reloaded, a session
\* is credited at most once per request that ran at the same time.
CreditsBoundedByOverlap == \A s \in Sessions : credited[s] <= Cardinality(Handlers)

\* Another account never gets a session processed before its owner did.
\* (Its owner's webhook may.)
StrangersProcessNothing ==
  [][\A s \in Sessions :
       s \in processed' \ processed
         => \E h \in Handlers : WorkingOn(h, s) /\ handler[h].caller = OwnerOf[s]]_vars

\* A completed session ends up processed, whatever fails in between, and
\* credited unless a request failed half-way or the account was deleted.
CompletedIsCredited ==
  \A s \in Sessions :
    Complete(s) ~> /\ s \in processed
                   /\ credited[s] > 0 \/ failures > 0 \/ OwnerOf[s] \notin accounts
=============================================================================
