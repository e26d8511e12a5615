---------------------------- MODULE Availability ----------------------------
(***************************************************************************)
(* isDomainAvailable, for the domains of one extension: the filter by DNS  *)
(* and its witness, the gate of module RegistryGate, and behind it the     *)
(* registry by RDAP, whose directory is loaded once for all, and by WHOIS. *)
(*                                                                         *)
(* The registry is right when it answers, in the words readWhois knows;    *)
(* the resolver, the directory, RDAP and WHOIS may each fail any time.     *)
(***************************************************************************)
EXTENDS RegistryGate

CONSTANTS
  MaxChecks,          \* bound on the verifications
  MaxTicks            \* bound on the delays that pass

ASSUME ProbesAssumption == MaxChecks \in Nat /\ MaxTicks \in Nat

Steps == {"idle", "witness", "dns", "registry", "lookup", "bootstrap", "rdap", "whois"}
Verdicts == {"none", "free", "taken", "unknown"}

VARIABLES
  whoisFirst,    \* the extension is in WHOIS_AVANT_RDAP
  joker,         \* the registry answers for any name (wildcard of the zone)
  hasRdap,       \* the directory names an RDAP server for the extension
  dnsUtilisable, \* the witness of the extension: a promise once it is asked
  blind,         \* history: the witness failed where it would have answered
  at,            \* where each verification is
  registered,    \* whether the domain it verifies is
  verdict,       \* what it answered last
  servers,       \* the directory in memory names a server
  fresh,         \* it is younger than BOOTSTRAP_TTL_MS
  retryAfter,    \* a failure is too recent to try again
  loading,       \* the promise of a load under way
  loads,         \* history: requests to the directory
  checks,
  ticks

facts == <<whoisFirst, joker, hasRdap>>
filter == <<dnsUtilisable, blind>>
directory == <<servers, fresh, retryAfter, loading, loads>>
probeVars == <<facts, filter, directory, at, registered, verdict, checks, ticks>>

allVars == <<vars, probeVars>>

ProbesTypeOK ==
  /\ TypeOK
  /\ whoisFirst \in BOOLEAN /\ joker \in BOOLEAN /\ hasRdap \in BOOLEAN /\ blind \in BOOLEAN
  /\ dnsUtilisable \in {"none", "asking", "yes", "no"}
  /\ at \in [Callers -> Steps]
  /\ registered \in [Callers -> BOOLEAN]
  /\ verdict \in [Callers -> Verdicts]
  /\ servers \in BOOLEAN /\ fresh \in BOOLEAN /\ retryAfter \in BOOLEAN /\ loading \in BOOLEAN
  /\ loads \in Nat /\ checks \in 0..MaxChecks /\ ticks \in 0..MaxTicks

ProbesInit ==
  /\ Init
  /\ whoisFirst \in BOOLEAN /\ joker \in BOOLEAN /\ hasRdap \in BOOLEAN
  /\ dnsUtilisable = "none" /\ blind = FALSE
  /\ at = [c \in Callers |-> "idle"]
  /\ registered = [c \in Callers |-> FALSE]
  /\ verdict = [c \in Callers |-> "none"]
  /\ servers = FALSE /\ fresh = FALSE /\ retryAfter = FALSE /\ loading = FALSE
  /\ loads = 0 /\ checks = 0 /\ ticks = 0

Goto(c, step) == at' = [at EXCEPT ![c] = step]

Truth(c) == IF registered[c] THEN "taken" ELSE "free"

----------------------------------------------------------------------------
(* The filter. *)

\* A verification starts; the first one sends the witness.
Start(c) ==
  /\ at[c] = "idle" /\ checks < MaxChecks
  /\ checks' = checks + 1
  /\ \E b \in BOOLEAN : registered' = [registered EXCEPT ![c] = b]
  /\ verdict' = [verdict EXCEPT ![c] = "none"]
  /\ Goto(c, "witness")
  /\ dnsUtilisable' = IF dnsUtilisable = "none" THEN "asking" ELSE dnsUtilisable
  /\ UNCHANGED <<vars, facts, blind, directory, ticks>>

\* Mutant: an answer to the witness is a filter that works.
WitnessWelcome(failed) == TRUE

\* The witness does not exist: only a wildcard answers for it.  A resolver that
\* fails is taken for no answer.
WitnessAbsent(failed) == joker => failed

WitnessAnswered ==
  /\ dnsUtilisable = "asking"
  /\ \E failed \in BOOLEAN :
       /\ dnsUtilisable' = IF WitnessAbsent(failed) THEN "yes" ELSE "no"
       /\ blind' = (joker /\ failed)
  /\ UNCHANGED <<vars, facts, at, registered, verdict, directory, checks, ticks>>

\* prefiltreUtilisable is known.
Filter(c) ==
  /\ at[c] = "witness"
  /\ \/ dnsUtilisable = "yes" /\ Goto(c, "dns")
     \/ dnsUtilisable = "no" /\ Goto(c, "registry")
  /\ UNCHANGED <<vars, facts, filter, registered, verdict, directory, checks, ticks>>

\* Name servers: taken.  None (also of a registered domain without any), or no
\* answer: the registry is to say.
DnsAnswered(c) ==
  /\ at[c] = "dns"
  /\ \/ /\ registered[c] \/ joker
        /\ verdict' = [verdict EXCEPT ![c] = "taken"]
        /\ Goto(c, "idle")
     \/ Goto(c, "registry") /\ UNCHANGED verdict
  /\ UNCHANGED <<vars, facts, filter, registered, directory, checks, ticks>>

----------------------------------------------------------------------------
(* The registry, behind the gate. *)

FirstProbe == IF whoisFirst THEN "whois" ELSE "lookup"

\* withRegistryGate: in, or in the queue; and in later, on its turn.
Arrive(c) ==
  /\ at[c] = "registry"
  /\ \/ Enter(c) /\ Goto(c, FirstProbe)
     \/ Wait(c) /\ UNCHANGED at
     \/ Resume(c) /\ Goto(c, FirstProbe)
  /\ UNCHANGED <<facts, filter, registered, verdict, directory, checks, ticks>>

\* The probe ends, and the place goes to the next.
Answer(c, v) ==
  /\ verdict' = [verdict EXCEPT ![c] = v]
  /\ Goto(c, "idle")
  /\ HandOver(c) \/ Release(c)

\* Mutant: a registry that cannot answer means taken.
NoVerdictMeansTaken(c, first, next) ==
  IF first THEN Goto(c, next) /\ UNCHANGED <<vars, verdict>> ELSE Answer(c, "taken")

\* No verdict: the other protocol is tried, if this was the first.
NoVerdict(c, first, next) ==
  IF first THEN Goto(c, next) /\ UNCHANGED <<vars, verdict>> ELSE Answer(c, "unknown")

\* No server, or none that answers by a 200 or a 404.
NoRdap(c) == NoVerdict(c, ~whoisFirst, "whois")

\* Mutant: each verification loads the directory for itself.
MustLoadForItself == ~fresh /\ ~retryAfter

\* The directory is to be loaded, and nobody is at it.
MustLoad == ~fresh /\ ~retryAfter /\ ~loading

\* serverFor: the directory is awaited if it is due, or used as it is.
ServerFor(c) ==
  /\ at[c] = "lookup"
  /\ IF ~fresh /\ ~retryAfter
     THEN /\ Goto(c, "bootstrap")
          /\ loading' = TRUE
          /\ loads' = IF MustLoad THEN loads + 1 ELSE loads
          /\ UNCHANGED <<vars, verdict>>
     ELSE /\ IF servers THEN Goto(c, "rdap") /\ UNCHANGED <<vars, verdict>> ELSE NoRdap(c)
          /\ UNCHANGED <<loading, loads>>
  /\ UNCHANGED <<facts, filter, registered, servers, fresh, retryAfter, checks, ticks>>

\* The same for a verification of another extension, which has its own gate:
\* the directory is one for all.
ServerForOther ==
  /\ MustLoad
  /\ loading' = TRUE /\ loads' = loads + 1
  /\ UNCHANGED <<vars, facts, filter, at, registered, verdict, servers, fresh, retryAfter, checks, ticks>>

\* doLoadBootstrap, done or failed.
BootstrapLoaded ==
  /\ loading
  /\ loading' = FALSE
  /\ \/ servers' = hasRdap /\ fresh' = TRUE /\ UNCHANGED retryAfter
     \/ retryAfter' = TRUE /\ UNCHANGED <<servers, fresh>>
  /\ UNCHANGED <<vars, facts, filter, at, registered, verdict, loads, checks, ticks>>

\* One of those who awaited the load goes on.
Loaded(c) ==
  /\ at[c] = "bootstrap" /\ ~loading
  /\ IF servers THEN Goto(c, "rdap") /\ UNCHANGED <<vars, verdict>> ELSE NoRdap(c)
  /\ UNCHANGED <<facts, filter, registered, directory, checks, ticks>>

RdapAnswered(c) ==
  /\ at[c] = "rdap"
  /\ Answer(c, Truth(c)) \/ NoRdap(c)
  /\ UNCHANGED <<facts, filter, registered, directory, checks, ticks>>

WhoisAnswered(c) ==
  /\ at[c] = "whois"
  /\ Answer(c, Truth(c)) \/ NoVerdict(c, whoisFirst, "lookup")
  /\ UNCHANGED <<facts, filter, registered, directory, checks, ticks>>

\* BOOTSTRAP_TTL_MS or BOOTSTRAP_RETRY_MS pass.
Tick ==
  /\ ticks < MaxTicks
  /\ ticks' = ticks + 1
  /\ \/ fresh /\ fresh' = FALSE /\ UNCHANGED retryAfter
     \/ retryAfter /\ retryAfter' = FALSE /\ UNCHANGED fresh
  /\ UNCHANGED <<vars, facts, filter, at, registered, verdict, servers, loading, loads, checks>>

----------------------------------------------------------------------------
Going(c) ==
  \/ Filter(c) \/ DnsAnswered(c) \/ Arrive(c) \/ ServerFor(c) \/ Loaded(c)
  \/ RdapAnswered(c) \/ WhoisAnswered(c)

ProbesNext ==
  \/ \E c \in Callers : Start(c) \/ Going(c)
  \/ WitnessAnswered \/ ServerForOther \/ BootstrapLoaded \/ Tick

\* Every outside call has a timeout (the resolver's, 8 s, 10 s), and the event
\* loop resumes whoever it can.
ProbesSpec ==
  /\ ProbesInit /\ [][ProbesNext]_allVars
  /\ WF_allVars(WitnessAnswered) /\ WF_allVars(BootstrapLoaded)
  /\ \A c \in Callers : WF_allVars(Going(c))

----------------------------------------------------------------------------
\* A doubt is never told as an answer (domain.service.ts, lines 1496 to 1506):
\* free and taken are what the registry holds, however the sources fail and
\* share what they learnt -- but where a zone has a wildcard and its only
\* witness was lost, which is taken for a zone without (line 1573).
VerdictIsTrue ==
  \A c \in Callers :
    /\ verdict[c] = "free" => ~registered[c]
    /\ verdict[c] = "taken" => registered[c] \/ blind

\* The directory of IANA is asked once for everybody, and once more for each
\* delay that passed, however many verifications are at it (rdap.service.ts,
\* lines 32 to 38).
BootstrapIsSpared == loads <= 1 + ticks

\* Every verification answers, through the witness, the queue of the gate, the
\* load of others and the sources that fail.
EveryCheckAnswers == \A c \in Callers : at[c] # "idle" ~> at[c] = "idle"
=============================================================================
