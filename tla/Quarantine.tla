----------------------------- MODULE Quarantine -----------------------------
(***************************************************************************)
(* What the pollution cooldown of an endpoint promises.  An endpoint that  *)
(* was found polluted is isolated: no agent starts on it, unless the user  *)
(* asks for that endpoint.  It comes out again when its time is served,    *)
(* when CleanNeeded probes in a row find it well, when its guard proxy     *)
(* takes over the watch or gives it up, when it is disabled, and with a    *)
(* new run; and in no other way.  Only a probe of an enabled endpoint, or  *)
(* its guard, makes an endpoint count as working.                          *)
(***************************************************************************)
EXTENDS Naturals

CONSTANTS
    Endpoint,
    None,
    CleanNeeded,     \* clean probes in a row that end an isolation
    GuardReplaces    \* endpoints whose guard proxy, when on, answers for them

VARIABLES
    ward,      \* of each endpoint: who isolated it, and the clean probes since
    works,     \* the endpoints whose last result is good
    enabled,   \* the endpoints that may be used
    guarded,   \* the endpoints whose guard proxy is on
    running,   \* the endpoint an agent runs on, or None
    wish       \* the endpoint the user asked to start on next, or None

config == <<enabled, guarded>>
quarantineVars == <<ward, works, enabled, guarded, running, wish>>

(* "session": its session files showed pollution; "guard": its guard proxy *)
(* saw some; "served": the time is over and nobody has looked since.       *)
Free == [state |-> "free", clean |-> 0]

Isolated(e) == ward[e].state \in {"session", "guard"}

(* The guard proxy of e answers for it.                                    *)
Covered(e) == e \in guarded \cap GuardReplaces

Becomes(e, x) == ward' = [ward EXCEPT ![e] = x]

(* An agent may die at any time, and a wish be dropped.                    *)
MayStop == running' \in {running, None} /\ wish' \in {wish, None}

QuarantineInit ==
    /\ ward = [e \in Endpoint |-> Free] /\ works = {}
    /\ enabled \subseteq Endpoint /\ guarded \subseteq Endpoint
    /\ running = None /\ wish = None

(***************************************************************************)
(* Getting in.                                                             *)
(***************************************************************************)
Pollute(e) ==
    /\ \E by \in IF ward[e].state = "guard" THEN {"guard"} ELSE {"session", "guard"} :
         Becomes(e, [state |-> by, clean |-> 0])
    /\ works' \in {works, works \ {e}}
    /\ UNCHANGED config /\ MayStop

(* What a running agent complains of is not pollution: the endpoint is no  *)
(* longer known to work, nor are the clean probes counted so far lost.     *)
Report(e) ==
    /\ running = e /\ e \in enabled
    /\ works' = works \ {e}
    /\ UNCHANGED <<ward, config>> /\ MayStop

(***************************************************************************)
(* Getting out.                                                            *)
(***************************************************************************)
(* What may be forgotten of e when it is looked at: a time that is served, *)
(* and what its session files say where its guard answers for it.          *)
Tidied(e) ==
    {ward[e]} \cup (IF \/ ward[e].state = "served"
                       \/ Covered(e) /\ ward[e].state # "guard"
                    THEN {Free} ELSE {})

(* The isolation x after one more clean probe.                             *)
Better(x) ==
    IF x.state \in {"session", "guard"} /\ x.clean + 1 < CleanNeeded
    THEN [x EXCEPT !.clean = x.clean + 1] ELSE Free

Probe(e, ok) ==
    /\ e \in enabled
    /\ \E x \in Tidied(e) : Becomes(e, IF ok THEN Better(x) ELSE [x EXCEPT !.clean = 0])
    /\ works' = IF ok THEN works \cup {e} ELSE works \ {e}
    /\ UNCHANGED config /\ MayStop

(* Looking at e without a probe.                                           *)
Tidy(e) ==
    /\ ward[e].state = "served" /\ Becomes(e, Free)
    /\ UNCHANGED <<works, config>> /\ MayStop

Reinstated(e) == Becomes(e, Free) /\ works' = works \cup {e}

Reinstate(e) ==
    /\ Covered(e) /\ ward[e].state # "guard"
    /\ Reinstated(e)
    /\ UNCHANGED config /\ MayStop

(* A deadline passes; two run for an endpoint its guard isolated.          *)
Lapse(e) ==
    /\ Isolated(e)
    /\ \/ Becomes(e, [state |-> "served", clean |-> 0])
       \/ ward[e].state = "guard" /\ Becomes(e, [ward[e] EXCEPT !.state = "session"])
    /\ UNCHANGED <<works, config>> /\ MayStop

(***************************************************************************)
(* The user's hand.                                                        *)
(***************************************************************************)
Disable(e) ==
    /\ enabled' = enabled \ {e} /\ Becomes(e, Free)
    /\ UNCHANGED <<works, guarded>> /\ MayStop

Edit ==
    /\ enabled' \subseteq Endpoint /\ guarded' \subseteq Endpoint
    /\ UNCHANGED <<ward, works>> /\ MayStop

Guard(e) ==
    /\ guarded' = guarded \cup {e}
    /\ e \in GuardReplaces /\ ward[e].state # "guard" /\ Reinstated(e)
    /\ UNCHANGED enabled /\ MayStop

Unguard(e) ==
    /\ guarded' = guarded \ {e}
    /\ \/ Reinstated(e)
       \/ ward[e].state # "guard" /\ UNCHANGED <<ward, works>>
    /\ UNCHANGED enabled /\ MayStop

NewRun ==
    /\ ward' = [e \in Endpoint |-> Free] /\ works' = {}
    /\ running' = None /\ wish' \in Endpoint \cup {None}
    /\ UNCHANGED config

Wish == wish' \in Endpoint /\ UNCHANGED <<ward, works, config, running>>

(***************************************************************************)
(* The agent.                                                              *)
(***************************************************************************)
Stop == MayStop /\ UNCHANGED <<ward, works, config>>

Start(e) ==
    /\ e \in enabled /\ e \in works /\ ~Isolated(e)
    /\ running' = e
    /\ UNCHANGED <<ward, works, config, wish>>

StartAnyway(e) ==
    /\ wish = e /\ wish' = None /\ running' = e
    /\ UNCHANGED <<ward, works, config>>

QuarantineNext ==
    \/ \E e \in Endpoint :
         \/ Pollute(e) \/ Report(e)
         \/ Probe(e, TRUE) \/ Probe(e, FALSE)
         \/ Tidy(e) \/ Reinstate(e) \/ Lapse(e)
         \/ Disable(e) \/ Guard(e) \/ Unguard(e)
         \/ Start(e) \/ StartAnyway(e)
    \/ Edit \/ NewRun \/ Wish \/ Stop

QuarantineSpec == QuarantineInit /\ [][QuarantineNext]_quarantineVars

=============================================================================
