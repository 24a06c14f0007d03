---------------------------- MODULE MCConnection ----------------------------
(* TLC instance of what a client does to get and to keep its connection:    *)
(* pairing, re-authenticating and subscribing, a request's way back, the    *)
(* operations that make requests, the central's lifecycle and the devices   *)
(* the daemon holds back.  They share no state, so a behaviour is one of    *)
(* one of them, chosen at the start, and the others keep their initial      *)
(* state.                                                                   *)
EXTENDS HttpTransport, RestOperations, Onboarding, WsSession, CentralLifecycle, HeldDevices

VARIABLE part

MCBackoff == <<1>>

MCInit == /\ part \in {"request", "operations", "onboarding", "session", "lifecycle", "held"}
          /\ HttpInit /\ OperationsInit /\ OnboardingInit /\ SessionInit /\ LifecycleInit
          /\ HeldInit
          /\ part # "onboarding" =>
                 setup = [flavour |-> "daemon", tls |-> FALSE, given |-> FALSE] /\ path = "plain"

MCNext ==
    /\ UNCHANGED part
    /\ \/ /\ part = "request" /\ HttpNext
          /\ UNCHANGED <<roVars, obVars, sessionVars, lifecycleVars, heldVars>>
       \/ /\ part = "operations" /\ OperationsNext
          /\ UNCHANGED <<httpVars, obVars, sessionVars, lifecycleVars, heldVars>>
       \/ /\ part = "onboarding" /\ OnboardingNext
          /\ UNCHANGED <<httpVars, roVars, sessionVars, lifecycleVars, heldVars>>
       \/ /\ part = "session" /\ SessionNext
          /\ UNCHANGED <<httpVars, roVars, obVars, lifecycleVars, heldVars>>
       \/ /\ part = "lifecycle" /\ LifecycleNext
          /\ UNCHANGED <<httpVars, roVars, obVars, sessionVars, heldVars>>
       \/ /\ part = "held" /\ HeldNext
          /\ UNCHANGED <<httpVars, roVars, obVars, sessionVars, lifecycleVars>>

MCVars == <<part, httpVars, roVars, obVars, sessionVars, lifecycleVars, heldVars>>

\* Each part keeps its own fairness.  No fair action is enabled in the initial
\* state of its part, so the fairness of the parts not chosen asks for nothing.
MCFairness == HttpFairness /\ OnboardingFairness /\ LifecycleFairness /\ HeldFairness

MCSpec == MCInit /\ [][MCNext]_MCVars /\ MCFairness
=============================================================================
