---------------------------- MODULE PaymentsProofs ----------------------------
(***************************************************************************)
(* What holds of the fulfilment of a Checkout session for every number of  *)
(* sessions, accounts and concurrent requests, and every bound on failures.*)
(***************************************************************************)
EXTENDS Payments, FiniteSetTheorems, TLAPS

\* Requests that looked in stripe_event, did not find s, and may add its
\* credits: those that can still credit it.
Passed(s) == {h \in Handlers : WorkingOn(h, s) /\ handler[h].pc \in {"retrieve", "mark", "credit"}}

\* A request that believes its session paid is right: paid is for ever.
PaidIsTrue == \A h \in Handlers : handler[h] # Idle => (handler[h].paid => Paid(handler[h].session))

\* Nobody is about to credit a session that is not marked.
CreditsUnderTheMark ==
  \A h \in Handlers :
    handler[h] # Idle /\ handler[h].pc = "credit" => handler[h].session \in processed

\* A marked session lets nobody else pass: what was credited and what may
\* still be never exceed the requests there are.
MarkedIsBounded ==
  \A s \in Sessions : s \in processed => credited[s] + Cardinality(Passed(s)) <= Cardinality(Handlers)

PayInv ==
  /\ TypeOK
  /\ RegistryIsCashed
  /\ PaidIsTrue
  /\ CreditedIsProcessed
  /\ CreditsUnderTheMark
  /\ MarkedIsBounded

----------------------------------------------------------------------------
\* Requests that can still credit a session are counted by a number.
LEMMA PassedFinite ==
  ASSUME NEW s
  PROVE  /\ IsFiniteSet(Passed(s)) /\ Cardinality(Passed(s)) \in Nat
         /\ Cardinality(Passed(s)) <= Cardinality(Handlers) /\ Cardinality(Handlers) \in Nat
  <1>1. Passed(s) \in SUBSET Handlers
    BY DEF Passed
  <1>2. IsFiniteSet(Passed(s)) /\ Cardinality(Passed(s)) <= Cardinality(Handlers)
    BY <1>1, FS_Subset, PaymentsAssumption DEF PaymentsAssumption
  <1> QED BY <1>2, FS_CardinalityType, PaymentsAssumption DEF PaymentsAssumption

\* A step that lets nobody pass and credits nothing keeps the bound.
LEMMA NobodyPassesKeepsBound ==
  ASSUME PayInv, processed' = processed, credited' = credited,
         \A s \in processed : Passed(s)' \subseteq Passed(s)
  PROVE  MarkedIsBounded'
  <1> SUFFICES ASSUME NEW s \in Sessions, s \in processed
               PROVE  credited[s] + Cardinality(Passed(s)') <= Cardinality(Handlers)
    BY DEF MarkedIsBounded
  <1>1. IsFiniteSet(Passed(s)') /\ Cardinality(Passed(s)') <= Cardinality(Passed(s))
    BY PassedFinite, FS_Subset
  <1>2. Cardinality(Passed(s)') \in Nat
    BY <1>1, FS_CardinalityType
  <1>3. credited[s] + Cardinality(Passed(s)) <= Cardinality(Handlers) /\ credited[s] \in Nat
    BY DEF PayInv, MarkedIsBounded, TypeOK
  <1> QED BY <1>1, <1>2, <1>3, PassedFinite

\* The records a request goes through.
LEMMA RequestTypes ==
  ASSUME TypeOK, NEW h \in Handlers, handler[h] # Idle
  PROVE  /\ handler[h] \in Requests
         /\ handler[h].session \in Sessions
         /\ \A step \in Working : /\ [handler[h] EXCEPT !.pc = step] \in Requests
                                  /\ [handler[h] EXCEPT !.pc = step].session = handler[h].session
                                  /\ [handler[h] EXCEPT !.pc = step].paid = handler[h].paid
                                  /\ [handler[h] EXCEPT !.pc = step].pc = step
  <1>1. handler[h] \in Requests
    BY DEF TypeOK
  <1> QED BY <1>1 DEF Requests

\* A request at a step is not idle.
LEMMA AtIsWorking ==
  ASSUME TypeOK, NEW h \in Handlers, NEW step \in Working, At(h, step)
  PROVE  handler[h] # Idle
  BY DEF At, Idle, Working

\* Nothing has happened: no session is marked, credited or registered.
LEMMA PayInit == Init => PayInv
  <1> SUFFICES ASSUME Init PROVE PayInv
    OBVIOUS
  <1>1. TypeOK
    BY PaymentsAssumption DEF PaymentsAssumption, Init, TypeOK, StripeStates
  <1>2. \A h \in Handlers : handler[h] = Idle
    BY DEF Init
  <1>3. RegistryIsCashed /\ CreditedIsProcessed /\ MarkedIsBounded
    BY DEF Init, RegistryIsCashed, CreditedIsProcessed, MarkedIsBounded
  <1>4. PaidIsTrue /\ CreditsUnderTheMark
    BY <1>2 DEF PaidIsTrue, CreditsUnderTheMark
  <1> QED BY <1>1, <1>3, <1>4 DEF PayInv

----------------------------------------------------------------------------
\* What Stripe and the account do: a paid session stays paid, no request
\* moves.
LEMMA OutsideStep ==
  ASSUME PayInv,
         UNCHANGED <<processed, credited, handler>>,
         stripe' \in [Sessions -> StripeStates],
         \A s \in Sessions : Paid(s) => Paid(s)',
         registry' \subseteq Sessions, \A s \in registry' : Paid(s)',
         acked' \subseteq Sessions, accounts' \subseteq Users, failures' = failures
  PROVE  PayInv'
  <1>1. TypeOK'
    BY DEF PayInv, TypeOK
  <1>2. RegistryIsCashed'
    BY DEF RegistryIsCashed
  <1>3. PaidIsTrue'
    <2> SUFFICES ASSUME NEW h \in Handlers, handler[h] # Idle, handler[h].paid
                 PROVE  Paid(handler[h].session)'
      BY DEF PaidIsTrue
    <2>1. handler[h].session \in Sessions /\ Paid(handler[h].session)
      BY RequestTypes DEF PayInv, PaidIsTrue
    <2> QED BY <2>1
  <1>4. CreditedIsProcessed' /\ CreditsUnderTheMark'
    BY DEF PayInv, CreditedIsProcessed, CreditsUnderTheMark
  <1>5. \A s \in processed : Passed(s)' \subseteq Passed(s)
    BY DEF Passed, WorkingOn
  <1>6. MarkedIsBounded'
    BY <1>5, NobodyPassesKeepsBound
  <1> QED BY <1>1, <1>2, <1>3, <1>4, <1>6 DEF PayInv

\* Stripe moves a session on; it never takes a payment back.
LEMMA StripeStep ==
  ASSUME PayInv, NEW s \in Sessions,
         \/ CreateCheckout(s)
         \/ CompleteCheckout(s, "completePaid") \/ CompleteCheckout(s, "completeUnpaid")
         \/ DelayedPayment(s)
  PROVE  PayInv'
  <1>1. stripe \in [Sessions -> StripeStates] /\ registry \subseteq Sessions
        /\ acked \subseteq Sessions /\ accounts \subseteq Users
    BY DEF PayInv, TypeOK
  <1>2. PICK state \in StripeStates : stripe' = [stripe EXCEPT ![s] = state] /\ ~Paid(s)
    BY DEF CreateCheckout, CompleteCheckout, DelayedPayment, StripeStates, Paid
  <1>3. stripe' \in [Sessions -> StripeStates]
    BY <1>1, <1>2
  <1>4. \A t \in Sessions : Paid(t) => Paid(t)'
    BY <1>1, <1>2 DEF Paid
  <1>5. \A t \in registry : Paid(t)'
    BY <1>1, <1>4 DEF PayInv, RegistryIsCashed
  <1>6. UNCHANGED <<acked, accounts, processed, registry, credited, handler, failures>>
    BY DEF CreateCheckout, CompleteCheckout, DelayedPayment
  <1> QED BY <1>1, <1>3, <1>4, <1>5, <1>6, OutsideStep

\* The catch-up only registers sessions that Stripe calls paid.
LEMMA RattraperStep ==
  ASSUME PayInv, NEW s \in Sessions, RattraperPaiement(s)
  PROVE  PayInv'
  <1>1. UNCHANGED <<stripe, acked, accounts, processed, credited, handler, failures>>
        /\ registry' = registry \union {s} /\ Paid(s)
    BY DEF RattraperPaiement
  <1>2. \A t \in Sessions : Paid(t)' <=> Paid(t)
    BY <1>1 DEF Paid
  <1>3. \A t \in registry' : Paid(t)'
    BY <1>1, <1>2 DEF PayInv, RegistryIsCashed, TypeOK
  <1> QED BY <1>1, <1>2, <1>3, OutsideStep DEF PayInv, TypeOK

\* Deleting an account touches neither the mark nor the register.
LEMMA DeleteStep ==
  ASSUME PayInv, NEW u \in Users, DeleteAccount(u)
  PROVE  PayInv'
  <1>1. UNCHANGED <<stripe, acked, processed, registry, credited, handler, failures>>
        /\ accounts' = accounts \ {u}
    BY DEF DeleteAccount
  <1>2. \A t \in Sessions : Paid(t)' <=> Paid(t)
    BY <1>1 DEF Paid
  <1>3. \A t \in registry' : Paid(t)'
    BY <1>1, <1>2 DEF PayInv, RegistryIsCashed, TypeOK
  <1> QED BY <1>1, <1>2, <1>3, OutsideStep DEF PayInv, TypeOK

----------------------------------------------------------------------------
\* A request changes where it is; if it now can credit its session, it could
\* before or the session is not marked; the register takes paid sessions only.
LEMMA RequestMoves ==
  ASSUME PayInv, NEW h \in Handlers, NEW q \in Requests \union {Idle},
         handler' = [handler EXCEPT ![h] = q],
         q # Idle => (q.paid => Paid(q.session)),
         q # Idle /\ q.pc = "credit" => q.session \in processed,
         q # Idle /\ q.pc \in {"retrieve", "mark", "credit"} /\ q.session \in processed
           => h \in Passed(q.session),
         UNCHANGED <<stripe, accounts, processed, credited>>,
         acked' \subseteq Sessions,
         registry' \subseteq Sessions, \A s \in registry' : Paid(s),
         failures' \in 0..MaxFailures
  PROVE  PayInv'
  <1>1. handler' \in [Handlers -> Requests \union {Idle}]
    BY DEF PayInv, TypeOK
  <1>2. handler'[h] = q /\ \A k \in Handlers : k # h => handler'[k] = handler[k]
    BY DEF PayInv, TypeOK
  <1>3. TypeOK'
    BY <1>1 DEF PayInv, TypeOK
  <1>4. \A s : Paid(s)' <=> Paid(s)
    BY DEF Paid
  <1>5. RegistryIsCashed'
    BY <1>4 DEF RegistryIsCashed
  <1>6. PaidIsTrue'
    <2> SUFFICES ASSUME NEW k \in Handlers, handler'[k] # Idle, handler'[k].paid
                 PROVE  Paid(handler'[k].session)
      BY <1>4 DEF PaidIsTrue
    <2> QED BY <1>2 DEF PayInv, PaidIsTrue
  <1>7. CreditedIsProcessed'
    BY DEF PayInv, CreditedIsProcessed
  <1>8. CreditsUnderTheMark'
    BY <1>2 DEF PayInv, CreditsUnderTheMark
  <1>9. \A s \in processed : Passed(s)' \subseteq Passed(s)
    <2> SUFFICES ASSUME NEW s \in processed, NEW k \in Handlers,
                        handler'[k] # Idle, handler'[k].session = s,
                        handler'[k].pc \in {"retrieve", "mark", "credit"}
                 PROVE  k \in Passed(s)
      BY DEF Passed, WorkingOn
    <2>1. CASE k = h
      BY <1>2, <2>1
    <2>2. CASE k # h
      BY <1>2, <2>2 DEF Passed, WorkingOn
    <2> QED BY <2>1, <2>2
  <1>10. MarkedIsBounded'
    BY <1>9, NobodyPassesKeepsBound
  <1> QED BY <1>3, <1>5, <1>6, <1>7, <1>8, <1>10 DEF PayInv

\* Return acknowledges the session of the request at most.
LEMMA ReturnTypes ==
  ASSUME PayInv, NEW h \in Handlers, handler[h] # Idle, Return(h)
  PROVE  handler' = [handler EXCEPT ![h] = Idle] /\ acked' \subseteq Sessions
  <1>1. handler[h].session \in Sessions /\ acked \subseteq Sessions
    BY RequestTypes DEF PayInv, TypeOK
  <1> QED BY <1>1 DEF Return

\* A request starts before the check, so it has not passed.
LEMMA StartStep ==
  ASSUME PayInv, NEW h \in Handlers, NEW s \in Sessions, NEW u \in Users,
         Webhook(h, s) \/ FulfillSession(h, s, u)
  PROVE  PayInv'
  <1>1. PICK kind \in {"webhook", "browser"}, caller \in Users, paid \in BOOLEAN :
          /\ handler' = [handler EXCEPT ![h] = [pc |-> "check", kind |-> kind, session |-> s,
                                               caller |-> caller, paid |-> paid]]
          /\ paid => Paid(s)
    <2>1. OwnerOf[s] \in Users
      BY PaymentsAssumption DEF PaymentsAssumption
    <2>2. CASE Webhook(h, s)
      BY <2>1, <2>2 DEF Webhook, Start, Paid
    <2>3. CASE FulfillSession(h, s, u)
      BY <2>3 DEF FulfillSession, Start
    <2> QED BY <2>2, <2>3
  <1> DEFINE q == [pc |-> "check", kind |-> kind, session |-> s, caller |-> caller, paid |-> paid]
  <1>2. q \in Requests /\ q.pc = "check" /\ q.session = s /\ q.paid = paid
    BY DEF Requests, Working
  <1>3. UNCHANGED <<stripe, acked, accounts, processed, registry, credited, failures>>
    BY DEF Webhook, FulfillSession
  <1>4. /\ acked' \subseteq Sessions /\ registry' \subseteq Sessions
        /\ (\A t \in registry' : Paid(t)) /\ failures' \in 0..MaxFailures
    BY <1>3 DEF PayInv, TypeOK, RegistryIsCashed
  <1>5. handler' = [handler EXCEPT ![h] = q] /\ (q.paid => Paid(q.session))
    BY <1>1, <1>2
  <1>6. q.pc # "credit" /\ q.pc \notin {"retrieve", "mark", "credit"}
    BY <1>2
  <1> HIDE DEF q
  <1> QED BY <1>2, <1>3, <1>4, <1>5, <1>6, RequestMoves

\* The check lets a request pass only while the session is not marked.
LEMMA CheckStep ==
  ASSUME PayInv, NEW h \in Handlers, IsAlreadyProcessed(h)
  PROVE  PayInv'
  <1>0. /\ handler[h] # Idle /\ handler[h].pc = "check"
        /\ UNCHANGED <<stripe, accounts, processed, registry, credited, failures>>
    BY AtIsWorking DEF IsAlreadyProcessed, Working, PayInv, At
  <1>1. /\ registry' \subseteq Sessions /\ (\A t \in registry' : Paid(t))
        /\ failures' \in 0..MaxFailures /\ acked \subseteq Sessions
    BY <1>0 DEF PayInv, TypeOK, RegistryIsCashed
  <1>2. CASE handler[h].session \in processed /\ Return(h)
    BY <1>0, <1>1, <1>2, ReturnTypes, RequestMoves
  <1>3. CASE /\ handler[h].session \notin processed
             /\ Goto(h, IF handler[h].kind = "webhook" THEN "mark" ELSE "retrieve")
             /\ UNCHANGED acked
    <2> DEFINE step == IF handler[h].kind = "webhook" THEN "mark" ELSE "retrieve"
               q == [handler[h] EXCEPT !.pc = step]
    <2>1. step \in Working
      BY DEF Working
    <2>2. /\ q \in Requests /\ q.session = handler[h].session /\ q.paid = handler[h].paid
          /\ q.pc = step
      BY <1>0, <2>1, RequestTypes DEF PayInv
    <2>3. handler' = [handler EXCEPT ![h] = q]
      BY <1>3 DEF Goto
    <2>4. /\ q.paid => Paid(q.session)
          /\ q.pc # "credit" /\ q.session \notin processed
      BY <1>0, <1>3, <2>2 DEF PayInv, PaidIsTrue
    <2> HIDE DEF q
    <2> QED BY <1>0, <1>1, <1>3, <2>2, <2>3, <2>4, RequestMoves
  <1> QED BY <1>2, <1>3 DEF IsAlreadyProcessed

\* Reading the session at Stripe gives its true payment status.
LEMMA RetrieveStep ==
  ASSUME PayInv, NEW h \in Handlers, Retrieve(h)
  PROVE  PayInv'
  <1> DEFINE s == handler[h].session
  <1>0. /\ handler[h] # Idle /\ handler[h].pc = "retrieve"
        /\ UNCHANGED <<stripe, accounts, processed, registry, credited, failures>>
    BY AtIsWorking DEF Retrieve, Working, PayInv, At
  <1>1. /\ registry' \subseteq Sessions /\ (\A t \in registry' : Paid(t))
        /\ failures' \in 0..MaxFailures /\ acked \subseteq Sessions
    BY <1>0 DEF PayInv, TypeOK, RegistryIsCashed
  <1>2. CASE Return(h)
    BY <1>0, <1>1, <1>2, ReturnTypes, RequestMoves
  <1>3. CASE handler' = [handler EXCEPT ![h].pc = "mark", ![h].paid = Paid(s)] /\ UNCHANGED acked
    <2> DEFINE q == [handler[h] EXCEPT !.pc = "mark", !.paid = Paid(s)]
    <2>1. handler[h] \in Requests /\ Paid(s) \in BOOLEAN
      BY <1>0, RequestTypes DEF PayInv, Paid
    <2>2. q \in Requests /\ q.session = s /\ q.paid = Paid(s) /\ q.pc = "mark"
      BY <2>1 DEF Requests, Working
    <2>3. handler' = [handler EXCEPT ![h] = q]
      BY <1>3 DEF PayInv, TypeOK
    <2>4. h \in Passed(s)
      BY <1>0 DEF Passed, WorkingOn
    <2> HIDE DEF q
    <2> QED BY <1>0, <1>1, <1>3, <2>2, <2>3, <2>4, RequestMoves
  <1> QED BY <1>2, <1>3 DEF Retrieve

\* Marking: the requests that passed before the mark are all there will be.
LEMMA MarkStep ==
  ASSUME PayInv, NEW h \in Handlers, MarkProcessed(h)
  PROVE  PayInv'
  <1> DEFINE s == handler[h].session
             q == [handler[h] EXCEPT !.pc = "credit"]
  <1>0. /\ handler[h] # Idle /\ handler[h].pc = "mark"
        /\ UNCHANGED <<stripe, acked, accounts, registry, credited, failures>>
        /\ processed' = processed \union {s}
        /\ handler' = [handler EXCEPT ![h] = q]
    BY AtIsWorking DEF MarkProcessed, Working, PayInv, At, Goto
  <1>1. /\ q \in Requests /\ q.session = s /\ q.paid = handler[h].paid /\ q.pc = "credit"
        /\ s \in Sessions
    BY <1>0, RequestTypes DEF PayInv, Working
  <1> HIDE DEF q
  <1>2. handler'[h] = q /\ \A k \in Handlers : k # h => handler'[k] = handler[k]
    BY <1>0 DEF PayInv, TypeOK
  <1>3. TypeOK'
    BY <1>0, <1>1 DEF PayInv, TypeOK
  <1>4. \A t : Paid(t)' <=> Paid(t)
    BY <1>0 DEF Paid
  <1>5. RegistryIsCashed' /\ CreditedIsProcessed'
    BY <1>0, <1>4 DEF PayInv, RegistryIsCashed, CreditedIsProcessed
  <1>6. PaidIsTrue'
    <2> SUFFICES ASSUME NEW k \in Handlers, handler'[k] # Idle, handler'[k].paid
                 PROVE  Paid(handler'[k].session)
      BY <1>4 DEF PaidIsTrue
    <2> QED BY <1>0, <1>1, <1>2 DEF PayInv, PaidIsTrue
  <1>7. CreditsUnderTheMark'
    BY <1>0, <1>1, <1>2 DEF PayInv, CreditsUnderTheMark
  <1>8. MarkedIsBounded'
    <2> SUFFICES ASSUME NEW t \in Sessions, t \in processed'
                 PROVE  credited[t] + Cardinality(Passed(t)') <= Cardinality(Handlers)
      BY <1>0 DEF MarkedIsBounded
    <2>0. credited[t] \in Nat
      BY DEF PayInv, TypeOK
    <2>1. CASE t \in processed
      <3>1. Passed(t)' \subseteq Passed(t)
        BY <1>0, <1>1, <1>2 DEF Passed, WorkingOn
      <3>2. IsFiniteSet(Passed(t)') /\ Cardinality(Passed(t)') <= Cardinality(Passed(t))
        BY <3>1, PassedFinite, FS_Subset
      <3>3. Cardinality(Passed(t)') \in Nat
        BY <3>2, FS_CardinalityType
      <3>4. credited[t] + Cardinality(Passed(t)) <= Cardinality(Handlers)
        BY <2>1 DEF PayInv, MarkedIsBounded
      <3> QED BY <2>0, <3>2, <3>3, <3>4, PassedFinite
    <2>2. CASE t \notin processed
      <3>1. credited[t] = 0
        BY <2>0, <2>2 DEF PayInv, CreditedIsProcessed
      <3>2. Passed(t)' \in SUBSET Handlers
        BY DEF Passed
      <3>3. IsFiniteSet(Passed(t)') /\ Cardinality(Passed(t)') <= Cardinality(Handlers)
        BY <3>2, FS_Subset, PaymentsAssumption DEF PaymentsAssumption
      <3>4. Cardinality(Passed(t)') \in Nat
        BY <3>3, FS_CardinalityType
      <3> QED BY <3>1, <3>3, <3>4
    <2> QED BY <2>1, <2>2
  <1> QED BY <1>3, <1>5, <1>6, <1>7, <1>8 DEF PayInv

\* Crediting: one request fewer may still credit the session.
LEMMA CreditStep ==
  ASSUME PayInv, NEW h \in Handlers, AddExtraCredits(h)
  PROVE  PayInv'
  <1> DEFINE s == handler[h].session
             q == [handler[h] EXCEPT !.pc = "record"]
  <1>0. /\ handler[h] # Idle /\ handler[h].pc = "credit"
        /\ UNCHANGED <<stripe, acked, accounts, processed, registry, failures>>
        /\ credited' \in {credited, [credited EXCEPT ![s] = @ + 1]}
        /\ handler' = [handler EXCEPT ![h] = q]
    BY AtIsWorking DEF AddExtraCredits, Working, PayInv, At, Goto
  <1>1. /\ q \in Requests /\ q.session = s /\ q.paid = handler[h].paid /\ q.pc = "record"
        /\ s \in Sessions
    BY <1>0, RequestTypes DEF PayInv, Working
  <1> HIDE DEF q
  <1>2. handler'[h] = q /\ \A k \in Handlers : k # h => handler'[k] = handler[k]
    BY <1>0 DEF PayInv, TypeOK
  <1>3. /\ credited \in [Sessions -> Nat] /\ credited' \in [Sessions -> Nat]
        /\ \A t \in Sessions : credited'[t] <= IF t = s THEN credited[t] + 1 ELSE credited[t]
    BY <1>0, <1>1 DEF PayInv, TypeOK
  <1>4. TypeOK'
    BY <1>0, <1>1, <1>3 DEF PayInv, TypeOK
  <1>5. \A t : Paid(t)' <=> Paid(t)
    BY <1>0 DEF Paid
  <1>6. RegistryIsCashed'
    BY <1>0, <1>5 DEF PayInv, RegistryIsCashed
  <1>7. PaidIsTrue'
    <2> SUFFICES ASSUME NEW k \in Handlers, handler'[k] # Idle, handler'[k].paid
                 PROVE  Paid(handler'[k].session)
      BY <1>5 DEF PaidIsTrue
    <2> QED BY <1>0, <1>1, <1>2 DEF PayInv, PaidIsTrue
  <1>8. s \in processed
    BY <1>0 DEF PayInv, CreditsUnderTheMark
  <1>9. CreditedIsProcessed'
    <2> SUFFICES ASSUME NEW t \in Sessions, credited'[t] > 0, t # s
                 PROVE  t \in processed
      BY <1>0, <1>8 DEF CreditedIsProcessed
    <2>1. credited[t] > 0
      BY <1>3
    <2> QED BY <2>1 DEF PayInv, CreditedIsProcessed
  <1>10. CreditsUnderTheMark'
    BY <1>0, <1>1, <1>2 DEF PayInv, CreditsUnderTheMark
  <1>11. MarkedIsBounded'
    <2> SUFFICES ASSUME NEW t \in Sessions, t \in processed
                 PROVE  credited'[t] + Cardinality(Passed(t)') <= Cardinality(Handlers)
      BY <1>0 DEF MarkedIsBounded
    <2>1. credited[t] + Cardinality(Passed(t)) <= Cardinality(Handlers)
      BY DEF PayInv, MarkedIsBounded
    <2>2. Passed(t)' = IF t = s THEN Passed(t) \ {h} ELSE Passed(t)
      BY <1>0, <1>1, <1>2 DEF Passed, WorkingOn
    <2>3. CASE t = s
      <3>1. h \in Passed(t)
        BY <1>0, <2>3 DEF Passed, WorkingOn
      <3>2. Cardinality(Passed(t)') = Cardinality(Passed(t)) - 1
        BY <2>2, <2>3, <3>1, PassedFinite, FS_RemoveElement
      <3> QED BY <1>3, <2>1, <2>3, <3>2, PassedFinite
    <2>4. CASE t # s
      BY <1>3, <2>1, <2>2, <2>4, PassedFinite
    <2> QED BY <2>3, <2>4
  <1> QED BY <1>4, <1>6, <1>7, <1>9, <1>10, <1>11 DEF PayInv

\* Only a request that works with a paid session registers it.
LEMMA RecordStep ==
  ASSUME PayInv, NEW h \in Handlers, EnregistrerPaiement(h)
  PROVE  PayInv'
  <1>0. /\ handler[h] # Idle /\ Return(h)
        /\ UNCHANGED <<stripe, accounts, processed, credited, failures>>
        /\ \/ registry' = registry
           \/ registry' = registry \union {handler[h].session} /\ handler[h].paid
    BY AtIsWorking DEF EnregistrerPaiement, Working, PayInv
  <1>1. handler[h].session \in Sessions /\ (handler[h].paid => Paid(handler[h].session))
    BY <1>0, RequestTypes DEF PayInv, PaidIsTrue
  <1>2. /\ registry' \subseteq Sessions /\ (\A t \in registry' : Paid(t))
        /\ failures' \in 0..MaxFailures
    BY <1>0, <1>1 DEF PayInv, TypeOK, RegistryIsCashed
  <1> QED BY <1>0, <1>2, ReturnTypes, RequestMoves

\* A failure undoes nothing and frees the request.
LEMMA FailStep ==
  ASSUME PayInv, NEW h \in Handlers, Fail(h)
  PROVE  PayInv'
  <1>1. failures' \in 0..MaxFailures
    BY PaymentsAssumption DEF PaymentsAssumption, Fail, PayInv, TypeOK
  <1>2. /\ handler' = [handler EXCEPT ![h] = Idle]
        /\ UNCHANGED <<stripe, acked, accounts, processed, registry, credited>>
    BY DEF Fail
  <1>3. acked' \subseteq Sessions /\ registry' \subseteq Sessions /\ (\A t \in registry' : Paid(t))
    BY <1>2 DEF PayInv, TypeOK, RegistryIsCashed
  <1> QED BY <1>1, <1>2, <1>3, RequestMoves

\* Every step keeps the invariant.
LEMMA PayStep ==
  ASSUME PayInv, [Next]_vars
  PROVE  PayInv'
  <1>1. ASSUME NEW s \in Sessions,
               \/ CreateCheckout(s)
               \/ CompleteCheckout(s, "completePaid") \/ CompleteCheckout(s, "completeUnpaid")
               \/ DelayedPayment(s)
        PROVE  PayInv'
    BY <1>1, StripeStep
  <1>2. ASSUME NEW s \in Sessions, Deliver(s) PROVE PayInv'
    <2>1. OwnerOf[s] \in Users
      BY PaymentsAssumption DEF PaymentsAssumption
    <2> QED BY <1>2, <2>1, StartStep DEF Deliver
  <1>3. ASSUME NEW s \in Sessions, RattraperPaiement(s) PROVE PayInv'
    BY <1>3, RattraperStep
  <1>4. ASSUME NEW s \in Sessions, NEW h \in Handlers, NEW u \in Users, FulfillSession(h, s, u)
        PROVE  PayInv'
    BY <1>4, StartStep
  <1>5. ASSUME NEW u \in Users, DeleteAccount(u) PROVE PayInv'
    BY <1>5, DeleteStep
  <1>6. ASSUME NEW h \in Handlers, Step(h) PROVE PayInv'
    BY <1>6, CheckStep, RetrieveStep, MarkStep, CreditStep, RecordStep DEF Step
  <1>7. ASSUME NEW h \in Handlers, Fail(h) PROVE PayInv'
    BY <1>7, FailStep
  <1>8. CASE UNCHANGED vars
    BY <1>8 DEF vars, PayInv, TypeOK, RegistryIsCashed, PaidIsTrue, CreditedIsProcessed,
                CreditsUnderTheMark, MarkedIsBounded, Passed, WorkingOn, Paid
  <1> QED BY <1>1, <1>2, <1>3, <1>4, <1>5, <1>6, <1>7, <1>8 DEF Next

\* So it always holds.
LEMMA PayInductive == Spec => []PayInv
  <1>1. PayInv /\ [Next]_vars => PayInv'
    BY PayStep
  <1> QED BY PayInit, <1>1, PTL DEF Spec

----------------------------------------------------------------------------
\* The register of payments only holds money that came in, although sessions
\* completed unpaid are credited and the catch-up reads the same list.
THEOREM RegisterIsMoney == Spec => []RegistryIsCashed
  <1>1. PayInv => RegistryIsCashed
    BY DEF PayInv
  <1> QED BY PayInductive, <1>1, PTL

\* Credits are added under the mark only.
THEOREM MarkBeforeCredits == Spec => []CreditedIsProcessed
  <1>1. PayInv => CreditedIsProcessed
    BY DEF PayInv
  <1> QED BY PayInductive, <1>1, PTL

\* The mark does not make crediting once-only, but it bounds the double
\* credit by the number of requests that overlap, whatever is resent, reloaded
\* or lost.
THEOREM OverlapBoundsCredits == Spec => []CreditsBoundedByOverlap
  <1>1. PayInv => CreditsBoundedByOverlap
    <2> SUFFICES ASSUME PayInv, NEW s \in Sessions
                 PROVE  credited[s] <= Cardinality(Handlers)
      BY DEF CreditsBoundedByOverlap
    <2>1. credited[s] \in Nat
      BY DEF PayInv, TypeOK
    <2>2. CASE s \in processed
      <3>1. credited[s] + Cardinality(Passed(s)) <= Cardinality(Handlers)
        BY <2>2 DEF PayInv, MarkedIsBounded
      <3> QED BY <2>1, <3>1, PassedFinite
    <2>3. CASE s \notin processed
      <3>1. credited[s] = 0
        BY <2>1, <2>3 DEF PayInv, CreditedIsProcessed
      <3> QED BY <3>1, PassedFinite
    <2> QED BY <2>2, <2>3
  <1> QED BY PayInductive, <1>1, PTL
----------------------------------------------------------------------------
\* A webhook acts for the owner of its session, and a browser that reaches
\* the mark was found to be the owner's.
OwnersPass ==
  \A h \in Handlers :
    handler[h] # Idle /\ (handler[h].kind = "webhook" \/ handler[h].pc = "mark")
      => handler[h].caller = OwnerOf[handler[h].session]

\* Going on with the same session for the same caller.
LEMMA OwnersGoto ==
  ASSUME TypeOK, OwnersPass, NEW h \in Handlers, handler[h] \in Requests,
         NEW step \in Working, Goto(h, step), step = "mark" => handler[h].kind = "webhook"
  PROVE  OwnersPass'
  <1> DEFINE q == [handler[h] EXCEPT !.pc = step]
  <1>1. /\ q.kind = handler[h].kind /\ q.caller = handler[h].caller
        /\ q.session = handler[h].session /\ q.pc = step /\ handler[h] # Idle
    BY DEF Requests, Idle, Working
  <1>2. handler' = [handler EXCEPT ![h] = q]
    BY DEF Goto
  <1> HIDE DEF q
  <1> QED BY <1>1, <1>2 DEF TypeOK, OwnersPass

\* Every step keeps strangers before the mark: retrieve is the only way there
\* from fulfillSession.
LEMMA OwnersStep ==
  ASSUME TypeOK, OwnersPass, [Next]_vars
  PROVE  OwnersPass'
  <1> USE DEF TypeOK, OwnersPass
  <1>1. ASSUME NEW h \in Handlers, Return(h) \/ Fail(h)
        PROVE  OwnersPass'
    BY <1>1 DEF Return, Fail
  <1>2. ASSUME NEW h \in Handlers, Step(h)
        PROVE  OwnersPass'
    <2>0. \A step \in Working : At(h, step) => handler[h] \in Requests
      BY AtIsWorking
    <2>1. CASE IsAlreadyProcessed(h)
      <3>1. handler[h] \in Requests
        BY <2>0, <2>1 DEF IsAlreadyProcessed, Working
      <3>2. CASE Return(h)
        BY <1>1, <3>2
      <3>3. CASE Goto(h, IF handler[h].kind = "webhook" THEN "mark" ELSE "retrieve")
        BY <3>1, <3>3, OwnersGoto DEF Working
      <3> QED BY <2>1, <3>2, <3>3 DEF IsAlreadyProcessed
    <2>2. CASE Retrieve(h)
      <3>1. handler[h] \in Requests
        BY <2>0, <2>2 DEF Retrieve, Working
      <3> QED BY <1>1, <2>2, <3>1 DEF Retrieve, Requests
    <2>3. CASE MarkProcessed(h) \/ AddExtraCredits(h)
      <3>1. handler[h] \in Requests
        BY <2>0, <2>3 DEF MarkProcessed, AddExtraCredits, Working
      <3>2. PICK step \in {"credit", "record"} : Goto(h, step)
        BY <2>3 DEF MarkProcessed, AddExtraCredits
      <3> QED BY <3>1, <3>2, OwnersGoto DEF Working
    <2>4. CASE EnregistrerPaiement(h)
      BY <1>1, <2>4 DEF EnregistrerPaiement
    <2> QED BY <1>2, <2>1, <2>2, <2>3, <2>4 DEF Step
  <1>3. ASSUME NEW h \in Handlers, NEW s \in Sessions, Webhook(h, s)
        PROVE  OwnersPass'
    BY <1>3 DEF Webhook, Start
  <1>4. ASSUME NEW h \in Handlers, NEW s \in Sessions, NEW u \in Users, FulfillSession(h, s, u)
        PROVE  OwnersPass'
    BY <1>4 DEF FulfillSession, Start
  <1>5. ASSUME UNCHANGED handler
        PROVE  OwnersPass'
    BY <1>5
  <1> QED
    BY <1>1, <1>2, <1>3, <1>4, <1>5
    DEF Next, vars, Deliver, CreateCheckout, CompleteCheckout, DelayedPayment, RattraperPaiement,
        DeleteAccount

\* A session is only marked by a request that acts for its owner: posting
\* somebody else's session id changes nothing.
THEOREM StrangersKeptOut == Spec => StrangersProcessNothing
  <1>1. Init => OwnersPass
    BY DEF Init, OwnersPass
  <1>2. PayInv /\ OwnersPass /\ [Next]_vars => OwnersPass'
    BY OwnersStep DEF PayInv
  <1>3. PayInv /\ OwnersPass /\ [Next]_vars =>
          [\A s \in Sessions :
             s \in processed' \ processed
               => \E h \in Handlers : WorkingOn(h, s) /\ handler[h].caller = OwnerOf[s]]_vars
    <2> SUFFICES ASSUME PayInv, OwnersPass, Next, NEW s \in Sessions, s \in processed' \ processed
                 PROVE  \E h \in Handlers : WorkingOn(h, s) /\ handler[h].caller = OwnerOf[s]
      BY DEF vars
    <2>1. PICK h \in Handlers : MarkProcessed(h)
      BY DEF Next, Step, Deliver, CreateCheckout, CompleteCheckout, DelayedPayment, Webhook,
             RattraperPaiement, FulfillSession, DeleteAccount, IsAlreadyProcessed, Retrieve,
             AddExtraCredits, EnregistrerPaiement, Fail
    <2>2. handler[h] # Idle /\ handler[h].pc = "mark"
      BY <2>1, AtIsWorking DEF PayInv, MarkProcessed, At, Working
    <2>3. s = handler[h].session
      BY <2>1 DEF MarkProcessed
    <2> QED BY <2>2, <2>3 DEF OwnersPass, WorkingOn
  <1> QED BY PayInductive, <1>1, <1>2, <1>3, PTL DEF Spec, StrangersProcessNothing
=============================================================================
