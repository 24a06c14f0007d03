----------------------------- MODULE Onboarding -----------------------------
(***************************************************************************)
(* Getting a credential and using it: a client without one probes the      *)
(* address (probe.py), asks the daemon or the openccu-lite box in front of *)
(* it for a token (pairing.py, boxpairing.py), builds its configuration    *)
(* from the token (config.py, CentralConfig) and sends its first request   *)
(* (auth.py, boxgate.py, exceptions.py).                                   *)
(*                                                                         *)
(* The issuer, the administrator, the gate and the network are external:   *)
(* answers are lost before or after they took effect, polls are refused    *)
(* with slow_down, the request expires, and the certificate on the path    *)
(* may not be the issuer's.                                                *)
(***************************************************************************)
EXTENDS Naturals, FiniteSets

CONSTANTS MaxWaits,     \* calls of wait() per attempt
          MaxSlowDowns, \* slow_down answers per attempt
          Pairings      \* the flavours paired with: "daemon", "box"

ASSUME OnboardingAssumption ==
    /\ MaxWaits \in Nat \ {0}
    /\ MaxSlowDowns \in Nat
    /\ Pairings \subseteq {"daemon", "box"}

VARIABLES
    setup,     \* what the user entered: flavour, tls, whether a port was given
    path,      \* the path to the issuer, a key of Paths
    probed,    \* the outcome of probe_daemon, with who answered it
    stage,     \* where the attempt is
    failure,   \* the exception the attempt ended with, NoError otherwise
    issued,    \* the request as the issuer holds it
    revealed,  \* PairingSession._revealed
    result,    \* the PairingResult wait() returned
    waits, slowDowns,   \* how often each happened, for the bounds
    sent,      \* the first request of the configured client
    verdict    \* how its answer was classified, with who gave it

obVars == <<setup, path, probed, stage, failure, issued, revealed,
            result, waits, slowDowns, sent, verdict>>

NoError == "none"
NoResult == [state |-> "none", token |-> FALSE]
NotSent == [port |-> 0, prefix |-> "none", credential |-> "none"]
NoVerdict == [by |-> "none", class |-> "none"]
Nothing == ""

(***************************************************************************)
(* The certificate on the path.  own: what the issuer binds its code to;   *)
(* reported: the fingerprint its answer names; seen: the certificate this  *)
(* connection was served.  Empty over plain HTTP; behind a proxy that      *)
(* terminates TLS the daemon names none and binds to none.                 *)
(***************************************************************************)
Paths ==
    [direct   |-> [own |-> "cert", reported |-> "cert", seen |-> "cert"],
     plain    |-> [own |-> Nothing, reported |-> Nothing, seen |-> Nothing],
     proxied  |-> [own |-> Nothing, reported |-> Nothing, seen |-> "other"],
     relayed  |-> [own |-> "cert", reported |-> "cert", seen |-> "other"],
     renamed  |-> [own |-> "cert", reported |-> "other", seen |-> "other"]]

SafePaths == {"direct", "plain", "proxied"}

\* derive_pairing_code: a digest of both nonces and the fingerprint; two
\* codes are equal exactly when the fingerprints hashed are.
DerivePairingCode(fingerprint) == <<"nonce", "client_nonce", fingerprint>>

\* The administrator compares the issuer's code with the one the client shows.
CodesAgree ==
    DerivePairingCode(Paths[path].own) = DerivePairingCode(Paths[path].reported)

\* A starter that trusts whatever certificate the answer names.
FingerprintMismatch_Never(l) == FALSE

\* The check both starters make on the 202 answer.
FingerprintMismatch(l) ==
    /\ l.reported # Nothing
    /\ l.seen # Nothing
    /\ l.reported # l.seen

(***************************************************************************)
(* Errors                                                                  *)
(***************************************************************************)
\* _CODE_TO_EXCEPTION
CodeToException ==
    [validation |-> "LoomValidationError", bad_request |-> "LoomBadRequestError",
     not_found |-> "LoomNotFoundError", conflict |-> "LoomConflictError",
     unauthorized |-> "LoomAuthError", forbidden |-> "LoomForbiddenError",
     unsupported |-> "LoomUnsupportedError",
     feature_unavailable |-> "LoomFeatureUnavailableError",
     rate_limited |-> "LoomRateLimitedError",
     service_unready |-> "LoomServiceUnreadyError",
     upstream_unavailable |-> "LoomUpstreamUnavailableError",
     internal |-> "LoomInternalError", pairing_off |-> "LoomPairingOffError",
     pairing_not_local |-> "LoomPairingNotLocalError",
     pairing_slow_down |-> "LoomPairingSlowDownError"]

\* parse_problem: a problem is an object that validates; a body that is none
\* has neither field.
NoProblem == [code |-> Nothing, uri |-> Nothing]

\* _problem_code: the code field, else the tail of a type URI of this project.
ProblemCode(problem) ==
    IF problem.code # Nothing THEN problem.code ELSE problem.uri

\* http_error_from_problem
HttpErrorFromProblem(problem) ==
    LET code == ProblemCode(problem)
    IN  IF code \in DOMAIN CodeToException THEN CodeToException[code] ELSE "LoomHttpError"

\* gate_refusal: "none" when the answer is the daemon's own.
GateRefusal_AnyType(answer) ==
    CASE answer.status = 302 -> "LoomBoxGateError"
      [] answer.status = 401 -> "LoomBoxTokenError"
      [] answer.status = 403 -> "LoomBoxGateError"
      [] OTHER -> NoError

GateRefusal(answer) ==
    IF answer.status = 302 THEN "LoomBoxGateError"
    ELSE IF answer.type = "problem" THEN NoError
    ELSE CASE answer.status = 401 -> "LoomBoxTokenError"
           [] answer.status = 403 -> "LoomBoxGateError"
           [] OTHER -> NoError

Answer(by, status, type, problem) ==
    [by |-> by, status |-> status, type |-> type, problem |-> problem]

\* What the gate answers a token it does not pass: a redirect before the
\* token gate existed, otherwise a page that is no problem document.
GateAnswers == {Answer("gate", s, "page", NoProblem) : s \in {302, 401, 403}}

\* An error of the daemon is a problem document, named by its code field or,
\* from an older daemon, by its type URI alone.
ErrorAnswers(status, code) ==
    {Answer("daemon", status, "problem", [code |-> c, uri |-> code]) : c \in {code, Nothing}}

\* What the daemon answers a request it gets.
DaemonAnswers ==
    ErrorAnswers(401, "unauthorized") \union ErrorAnswers(403, "forbidden") \union
    ErrorAnswers(503, "service_unready") \union
    {Answer("daemon", 200, "json", NoProblem),
     Answer("daemon", 429, "problem", [code |-> "pairing_slow_down", uri |-> "rate_limited"]),
     Answer("daemon", 404, "problem", [code |-> "not_found", uri |-> "foreign"])}

\* probe_daemon: the gate's answer first, then the daemon's; a 200 that is
\* no /info object with an api_version came from no daemon.
ProbeDaemon(answer, hasVersion) ==
    IF GateRefusal(answer) # NoError THEN "box_gate"
    ELSE IF answer.status # 200 THEN HttpErrorFromProblem(answer.problem)
    ELSE IF hasVersion THEN "daemon" ELSE "LoomTransportError"

Probe ==
    /\ stage = "idle"
    /\ probed = NoVerdict
    /\ \/ \E a \in (IF setup.flavour = "box" THEN GateAnswers ELSE {}) \union DaemonAnswers :
              \E v \in BOOLEAN : probed' = [by |-> a.by, class |-> ProbeDaemon(a, v)]
       \/ probed' = [by |-> "none", class |-> "LoomTransportError"]
    /\ UNCHANGED <<setup, path, stage, failure, issued, revealed, result,
                   waits, slowDowns, sent, verdict>>

(***************************************************************************)
(* Asking: start_pairing and start_box_pairing                             *)
(***************************************************************************)
\* How a raw connection failure, a refusal and an answer of the wrong shape
\* leave each starter: the daemon's parses the answer as the wire type, the
\* box's wraps every shape it does not expect.
BadShape == IF setup.flavour = "daemon" THEN "ValidationError" ELSE "LoomBoxPairingError"
Refusal(problem) ==
    IF setup.flavour = "daemon" THEN HttpErrorFromProblem(problem) ELSE "LoomBoxPairingError"

Ends(class) == stage' = "ended" /\ failure' = class

Ask ==
    /\ stage = "idle"
    /\ stage' = "asking"
    /\ UNCHANGED <<setup, path, probed, failure, issued, revealed, result,
                   waits, slowDowns, sent, verdict>>

\* The issuer keeps the request; the answer arrives, is malformed or is lost.
Accepted ==
    /\ stage = "asking"
    /\ issued' = "hidden"
    /\ \/ stage' = "checking" /\ UNCHANGED failure
       \/ Ends(BadShape)
       \/ Ends("LoomTransportError")
    /\ UNCHANGED <<setup, path, probed, revealed, result, waits, slowDowns, sent, verdict>>

\* pairing off, not local, a rate limit; or the issuer is not reached.
Refused ==
    /\ stage = "asking"
    /\ \/ \E code \in {"pairing_off", "pairing_not_local", "rate_limited"} :
              Ends(Refusal([code |-> code, uri |-> Nothing]))
       \/ Ends("LoomTransportError")
    /\ UNCHANGED <<setup, path, probed, issued, revealed, result, waits, slowDowns, sent, verdict>>

\* The fingerprint check: the session is handed out, or the request withdrawn.
Check ==
    /\ stage = "checking"
    /\ stage' = IF FingerprintMismatch(Paths[path]) THEN "withdrawing" ELSE "open"
    /\ UNCHANGED <<setup, path, probed, failure, issued, revealed, result,
                   waits, slowDowns, sent, verdict>>

\* What a failed withdrawal of the aborted attempt raises.  The daemon's
\* starter has a try with an empty finally: the withdrawal's own error leaves
\* it.  The box's suppresses both errors a withdrawal raises.
AbortError(class) ==
    IF setup.flavour = "daemon" /\ class # NoError THEN class
    ELSE "PairingFingerprintMismatchError"

\* withdraw() of the aborted attempt: 204 or 404, a refusal, or no answer
\* before or after it took effect.
AbortWithdraws ==
    /\ stage = "withdrawing"
    /\ stage' = "aborted"
    /\ \/ issued' = "withdrawn" /\ failure' = AbortError(NoError)
       \/ issued' \in {issued, "withdrawn"} /\ failure' = AbortError("LoomTransportError")
       \/ /\ failure' = AbortError(Refusal([code |-> "internal", uri |-> Nothing]))
          /\ UNCHANGED issued
    /\ UNCHANGED <<setup, path, probed, revealed, result, waits, slowDowns, sent, verdict>>

(***************************************************************************)
(* Waiting for the decision                                                *)
(***************************************************************************)
\* The caller calls wait(), again after a poll that failed.
Wait ==
    /\ stage = "open"
    /\ waits < MaxWaits
    /\ waits' = waits + 1
    /\ stage' = "polling"
    /\ failure' = NoError
    /\ UNCHANGED <<setup, path, probed, issued, revealed, result, slowDowns, sent, verdict>>

\* The request as the issuer holds it once it has seen this poll: the nonce
\* puts it before the administrator.
Seen == IF issued = "hidden" /\ ~revealed THEN "shown" ELSE issued

\* The state a 200 answer names; an approval's token goes out with the first
\* poll that sees it, whether or not that answer arrives.
StateOf(i) == CASE i \in {"hidden", "shown"} -> "pending"
                [] i \in {"approved", "delivered"} -> "approved"
                [] OTHER -> i
Delivered(i) == IF i = "approved" THEN "delivered" ELSE i

\* The loop's exit: every state but pending.
Concluded_Decided(state) == state \in {"approved", "rejected"}

Concluded(state) == state # "pending"

\* _result: the box's client takes no approval without a token; the daemon's
\* returns what the answer says.
PollAnswered ==
    /\ stage = "polling"
    /\ issued # "withdrawn"
    /\ issued' = Delivered(Seen)
    /\ revealed' = TRUE
    /\ LET state == StateOf(Seen)
           token == Seen = "approved"
       IN  \/ ~Concluded(state) /\ UNCHANGED <<stage, failure, result>>
           \/ /\ Concluded(state)
              /\ ~(setup.flavour = "box" /\ state = "approved" /\ ~token)
              /\ stage' = "decided"
              /\ result' = [state |-> state, token |-> token]
              /\ UNCHANGED failure
           \/ /\ setup.flavour = "box" /\ state = "approved" /\ ~token
              /\ Ends("LoomBoxPairingError")
              /\ UNCHANGED result
    /\ UNCHANGED <<setup, path, probed, waits, slowDowns, sent, verdict>>

\* slow_down: sleep for the interval, poll again with the nonce still to show.
SlowDown ==
    /\ stage = "polling"
    /\ slowDowns < MaxSlowDowns
    /\ slowDowns' = slowDowns + 1
    /\ UNCHANGED <<setup, path, probed, stage, failure, issued, revealed, result,
                   waits, sent, verdict>>

\* The poll is refused (the issuer forgot the request) or gets no answer,
\* before or after it took effect; wait() raises and may be called again.
PollFails ==
    /\ stage = "polling"
    /\ stage' = "open"
    /\ \/ /\ failure' = Refusal([code |-> "not_found", uri |-> Nothing])
          /\ issued \in {"expired", "rejected", "delivered", "withdrawn"}
          /\ UNCHANGED issued
       \/ failure' = "LoomTransportError" /\ issued' \in {issued, Delivered(Seen)}
    /\ UNCHANGED <<setup, path, probed, revealed, result, waits, slowDowns, sent, verdict>>

\* The caller gives the request up while it is not waiting.
Withdraw ==
    /\ stage = "open"
    /\ \/ issued' = "withdrawn" /\ Ends(NoError)
       \/ issued' \in {issued, "withdrawn"} /\ Ends("LoomTransportError")
    /\ UNCHANGED <<setup, path, probed, revealed, result, waits, slowDowns, sent, verdict>>

\* External: the administrator compares the codes and decides; the issuer
\* drops an undecided request after expires_in.
AdministratorDecides ==
    /\ issued = "shown"
    /\ \/ CodesAgree /\ issued' = "approved"
       \/ issued' = "rejected"
    /\ UNCHANGED <<setup, path, probed, stage, failure, revealed, result,
                   waits, slowDowns, sent, verdict>>

RequestExpires ==
    /\ issued \in {"hidden", "shown"}
    /\ issued' = "expired"
    /\ UNCHANGED <<setup, path, probed, stage, failure, revealed, result,
                   waits, slowDowns, sent, verdict>>

(***************************************************************************)
(* Using the token: CentralConfig / list_ccus, LoomConfig, the headers     *)
(***************************************************************************)
DaemonPort == 8119
BoxPort(tls) == IF tls THEN 443 ELSE 80
GivenPort == 1234

\* Where the pairing request went.
IssuerPort ==
    IF setup.given THEN GivenPort
    ELSE IF setup.flavour = "box" THEN BoxPort(setup.tls) ELSE DaemonPort

\* The keywords the integration passes on: the token under the name of its
\* flavour, the port the user gave, and a daemon login kept from before.
Keywords(login) ==
    [boxToken |-> setup.flavour = "box" /\ result.token,
     token    |-> setup.flavour = "daemon" /\ result.token,
     login    |-> login,
     port     |-> IF setup.flavour = "daemon" /\ setup.given THEN GivenPort ELSE 0,
     boxPort  |-> IF setup.flavour = "box" /\ setup.given THEN GivenPort ELSE 0]

\* CentralConfig._resolve_auth
ResolveAuth(kw) ==
    IF kw.boxToken THEN IF kw.token \/ kw.login THEN "ValueError" ELSE "NoAuth"
    ELSE IF kw.token THEN "BearerAuth"
    ELSE IF kw.login THEN "BasicAuth" ELSE "ValueError"

\* list_ccus: a blank token is sent as an empty bearer.
ListAuth(kw) ==
    IF kw.boxToken THEN IF kw.token THEN "ValueError" ELSE "NoAuth" ELSE "BearerAuth"

\* LoomConfig.__post_init__ fills the daemon's port, _authority picks the
\* box's in ingress mode.
Authority(kw) ==
    IF kw.boxToken THEN IF kw.boxPort # 0 THEN kw.boxPort ELSE BoxPort(setup.tls)
    ELSE IF kw.port # 0 THEN kw.port ELSE DaemonPort

IngressPrefix(kw) == IF kw.boxToken THEN "/addons/loom" ELSE Nothing

\* AuthMethod.apply_to_headers, what it leaves in the Authorization header.
AuthHeader(kw, auth) ==
    CASE auth = "BearerAuth" -> IF kw.token THEN "token" ELSE "blank"
      [] auth = "BasicAuth" -> "login"
      [] auth = "NoAuth" -> "none"

\* _build_headers: the daemon credential, then the box token over it.
BuildHeaders(kw, auth) == IF kw.boxToken THEN "box_token" ELSE AuthHeader(kw, auth)

Configure ==
    /\ stage = "decided"
    /\ result.state = "approved"
    /\ \E login \in BOOLEAN, auth \in {"central", "list"} :
           LET kw == Keywords(login)
               resolved == IF auth = "central" THEN ResolveAuth(kw) ELSE ListAuth(kw)
           IN  IF resolved = "ValueError"
               THEN Ends("ValueError") /\ UNCHANGED sent
               ELSE /\ sent' = [port |-> Authority(kw), prefix |-> IngressPrefix(kw),
                                credential |-> BuildHeaders(kw, resolved)]
                    /\ stage' = "sent"
                    /\ UNCHANGED failure
    /\ UNCHANGED <<setup, path, probed, issued, revealed, result, waits, slowDowns, verdict>>

\* _raise_on_gate_bounce (ingress mode only), then the problem document.
Classify(answer) ==
    IF sent.credential = "box_token" /\ GateRefusal(answer) # NoError
    THEN GateRefusal(answer)
    ELSE IF answer.status >= 300 THEN HttpErrorFromProblem(answer.problem) ELSE "ok"

RequestAnswered ==
    /\ stage = "sent"
    /\ \E a \in (IF setup.flavour = "box" THEN GateAnswers ELSE {}) \union DaemonAnswers :
           verdict' = [by |-> a.by, class |-> Classify(a)]
    /\ stage' = "ended"
    /\ UNCHANGED <<setup, path, probed, failure, issued, revealed, result, waits, slowDowns, sent>>

OnboardingInit ==
    /\ setup \in [flavour : Pairings, tls : BOOLEAN, given : BOOLEAN]
    /\ path \in DOMAIN Paths
    /\ setup.tls <=> path # "plain"
    /\ probed = NoVerdict
    /\ stage = "idle"
    /\ failure = NoError
    /\ issued = "none"
    /\ revealed = FALSE
    /\ result = NoResult
    /\ waits = 0
    /\ slowDowns = 0
    /\ sent = NotSent
    /\ verdict = NoVerdict

OnboardingNext ==
    \/ Probe \/ Ask \/ Accepted \/ Refused \/ Check \/ AbortWithdraws
    \/ Wait \/ PollAnswered \/ SlowDown \/ PollFails \/ Withdraw
    \/ AdministratorDecides \/ RequestExpires
    \/ Configure \/ RequestAnswered

\* The issuer answers a long poll at the latest when its wait runs out, and drops a
\* request nobody decides on: both clocks are the issuer's.
OnboardingFairness ==
    /\ WF_obVars(RequestExpires)
    /\ WF_obVars(PollAnswered)

OnboardingSpec == OnboardingInit /\ [][OnboardingNext]_obVars /\ OnboardingFairness

-----------------------------------------------------------------------------
(***************************************************************************)
(* Properties                                                              *)
(***************************************************************************)

\* A token reaches the client only over a path whose certificate the issuer
\* bound its code to, or over one where the issuer binds to none: on every
\* other path either the client aborts on the fingerprint or the two codes
\* differ (start_pairing, start_box_pairing, derive_pairing_code).  The first
\* request with the credential goes to the address that issued it, through the
\* prefix and under the header form of its flavour, whatever else the caller
\* configured (CentralConfig, LoomConfig._authority).
TokenIsBound ==
    /\ result.token => path \in SafePaths
    /\ sent.credential \in {"token", "box_token"} =>
        /\ sent.port = IssuerPort
        /\ (sent.credential = "box_token") <=> (setup.flavour = "box")
        /\ (sent.prefix # Nothing) <=> (setup.flavour = "box")

\* The exception class names who refused: the box's errors only for the gate's
\* answers, LoomAuthError only for the daemon's, and a 401 of the gate always
\* as the one that asks for a new pairing (gate_refusal, _raise_on_gate_bounce,
\* http_error_from_problem, probe_daemon).
AnswererIsNamed ==
    /\ (verdict.by = "gate") <=> (verdict.class \in {"LoomBoxGateError", "LoomBoxTokenError"})
    /\ (probed.by = "gate") <=> (probed.class = "box_gate")

\* wait() ends: polling stops once the request is decided or has expired, in
\* spite of slow_down answers and lost polls (PairingSession.wait).
WaitReturns == (stage = "polling") ~> (stage # "polling")
=============================================================================
