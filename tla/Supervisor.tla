----------------------------- MODULE Supervisor -----------------------------
(***************************************************************************)
(* RuntimeCore (watchapi-core/src/runtime.rs): the supervisor that keeps   *)
(* one agent process running on the heaviest endpoint that works.  A       *)
(* worker thread calls tick() every probe interval; between two ticks it   *)
(* runs the commands the GUI sent (watchapi-gui/src/app.rs).  tick() holds *)
(* the runtime's mutex from its first line to its last, so commands meet   *)
(* it only between ticks, but it awaits one probe after the other, and the *)
(* agent and its guard proxy are processes and threads of their own that   *)
(* may die at any moment: the tick is a sequence of steps here.            *)
(*                                                                         *)
(*   free --> check --> choose --> look --> recover --> commit --> free    *)
(*                                                                         *)
(* Deadlines pass between ticks and between the passes of one tick over    *)
(* the endpoints.  A pass reads the clock once, and what it does to one    *)
(* endpoint does not touch the others: a deadline that passes during it    *)
(* could as well have passed before or after.                              *)
(***************************************************************************)
EXTENDS Endpoints

CONSTANTS
    ProbeOutcomes,   \* outcomes the probes of this instance may have
    AgentSignals,    \* what the agent's monitor of this instance may report
    StartMayFail,    \* BOOLEAN: launching an agent or its guard may fail
    SlowTicks,       \* BOOLEAN: a tick may last longer than the 2 to 8 s of
                     \* startup_failure_retry_seconds
    Commands,        \* the commands the users of this instance give
    GuardedAtStart,  \* endpoints whose guard proxy is on in the loaded config
    MaybeOff         \* endpoints the loaded config may have disabled

ASSUME SupervisorAssumption ==
    /\ ProbeOutcomes \subseteq Outcome /\ ProbeOutcomes # {}
    /\ AgentSignals \subseteq
         {"polluted", "pause", "failure", "limited", "transient", "stalled"}
    /\ StartMayFail \in BOOLEAN /\ SlowTicks \in BOOLEAN
    /\ GuardedAtStart \subseteq Endpoint
    /\ MaybeOff \subseteq Endpoint

VARIABLES
    ep,           \* the memory of each endpoint
    current,      \* current_endpoint
    agent,        \* the endpoint the AgentProcess was launched on, or None
    alive,        \* its process runs
    guard,        \* the endpoint the GuardProxyServer serves, or None
    guardUp,      \* its accept thread runs
    nextSession,  \* force_new_session_once and fork_source_session_once
    fixed,        \* fixed_endpoint, as the control file has it
    forced,       \* force_probe_endpoint, as the control file has it
    paused,       \* auto_paused, as the control file has it
    direct,       \* direct_endpoint_once
    probeOnce,    \* force_current_probe_once, confirm_current_probe_once
    fullOnce,     \* force_full_probe_once
    pc,           \* where the worker thread is
    t             \* the local variables of tick()

vars == <<ep, current, agent, alive, guard, guardUp, nextSession, fixed, forced,
          paused, direct, probeOnce, fullOnce, pc, t>>
session == <<agent, alive, guard, guardUp, nextSession>>
control == <<fixed, forced, paused, direct>>
requests == <<probeOnce, fullOnce>>

NoTick == [full |-> FALSE, check |-> "no", failed |-> FALSE, skip |-> FALSE,
           hold |-> FALSE, over |-> "none", avail |-> "none", mode |-> "none",
           todo |-> {}, sel |-> None, prev |-> None]

EnabledEndpoints == {e \in Endpoint : Enabled(ep[e])}

(* Broken variant: the comparison is the wrong way round.                  *)
LighterThan(e) == {f \in EnabledEndpoints : Weight[f] < Weight[e]}

Heavier(e) == {f \in EnabledEndpoints : Weight[f] > Weight[e]}

Init ==
    /\ \E off \in SUBSET MaybeOff :
         ep = [e \in Endpoint |->
                 NewMemory(IF e \in off THEN "off" ELSE "on", e \in GuardedAtStart)]
    /\ current = None /\ agent = None /\ alive = FALSE
    /\ guard = None /\ guardUp = FALSE /\ nextSession = "resume"
    /\ fixed = None /\ forced = None /\ paused \in BOOLEAN /\ direct = None
    /\ probeOnce = "no" /\ fullOnce = FALSE
    /\ pc = "stopped" /\ t = NoTick

(***************************************************************************)
(* Launching and stopping.                                                 *)
(***************************************************************************)
(* Broken variant: the guard proxy is forgotten.                           *)
StopAgentAlone == agent' = None /\ alive' = FALSE /\ UNCHANGED <<guard, guardUp>>

(* stop_agent: the agent, then its guard proxy.                            *)
StopAgent ==
    /\ agent' = None /\ alive' = FALSE
    /\ guard' = None /\ guardUp' = FALSE

(* switch_to succeeds.                                                     *)
Launch(e) ==
    /\ agent' = e /\ alive' = TRUE
    /\ guard' = IF ep[e].guarded THEN e ELSE None
    /\ guardUp' = ep[e].guarded
    /\ current' = e
    /\ nextSession' = "resume"

(* Broken variant: a failed launch uses up the request for a fork.         *)
LaunchFailsForgetful ==
    /\ StartMayFail
    /\ StopAgent
    /\ nextSession' = "resume"
    /\ UNCHANGED current

(* switch_to fails: the old agent is gone, current_endpoint still names    *)
(* its endpoint.  The request for a new session has been taken, the one    *)
(* for a fork is kept for the next attempt.                                *)
LaunchFails ==
    /\ StartMayFail
    /\ StopAgent
    /\ nextSession' = IF nextSession = "new" THEN "resume" ELSE nextSession
    /\ UNCHANGED current

(* What maybe_drive_prompt does to the endpoint's memory: an answer of the *)
(* assistant in the session file clears the failure counters.  The prompt  *)
(* itself is left out here.                                                *)
Driven(e) ==
    {ep[e]} \cup (IF agent' # None /\ alive' THEN {[ep[e] EXCEPT !.req = 0, !.trans = 0]}
                  ELSE {})

Drive(e) == \E m \in Driven(e) : ep' = [ep EXCEPT ![e] = m]

EndTick == pc' = "free" /\ t' = NoTick

(***************************************************************************)
(* The beginning of a tick.                                                *)
(***************************************************************************)
DirectStart ==
    /\ pc = "free" /\ direct # None
    /\ direct' = None
    /\ IF ep[direct].cfg = "gone"
       THEN UNCHANGED <<ep, current, session>>
       ELSE \/ Launch(direct) /\ Drive(direct)
            \/ LaunchFails /\ UNCHANGED ep
    /\ UNCHANGED <<fixed, forced, paused, requests, pc, t>>

(* While auto-continuation is paused the running endpoint is held: nothing *)
(* moves the agent, but pollution is recorded and due probes are made.     *)
Holding == paused /\ current # None /\ ~fullOnce /\ Enabled(ep[current])

(* The guard proxy's audit shows new pollution.                            *)
GuardAlarms == IF guard # None /\ guard = current THEN BOOLEAN ELSE {FALSE}

Hold ==
    /\ pc = "free" /\ direct = None /\ Holding
    /\ UNCHANGED <<current, session, control, fullOnce>>
    /\ \E alarm \in GuardAlarms, m \in Driven(current),
          dirty \in IF "polluted" \in AgentSignals /\ agent # None
                       /\ ~Replaces(current, ep[current])
                    THEN BOOLEAN ELSE {FALSE} :
         LET seen == IF dirty THEN MarkPolluted(RememberSynthetic(m, "polluted")) ELSE m
             told == IF alarm
                     THEN RememberSynthetic(MarkGuardPolluted(seen), "polluted")
                     ELSE seen
         IN ep' = [ep EXCEPT ![current] = told]
    /\ probeOnce' = "no"
    /\ pc' = "recover"
    /\ t' = [NoTick EXCEPT !.mode = "hold", !.todo = EnabledEndpoints]

(* Broken variant: the death of the process goes unnoticed.                *)
ObservableWhileAlive ==
    IF current = None \/ agent = None THEN {"absent"}
    ELSE {"quiet"} \cup {s \in AgentSignals : alive /\ (s = "stalled" => ~paused)}

(* What the agent's monitor and process tell the tick. Only the guard of   *)
(* an enabled endpoint answers for the pollution of its session files.     *)
Observable ==
    IF current = None \/ agent = None THEN {"absent"}
    ELSE IF ~alive THEN {"dead"}
    ELSE {"quiet"} \cup {s \in AgentSignals :
                           /\ s = "stalled" => ~paused
                           /\ s = "polluted" =>
                                ~(Enabled(ep[current]) /\ Replaces(current, ep[current]))}

Counted(m, s) ==
    LET k == [m EXCEPT
                !.req = IF s \in {"failure", "limited"}
                        THEN Cap(m.req + 1, RequestThreshold) ELSE m.req,
                !.trans = IF s = "transient"
                          THEN Cap(m.trans + 1, TransientThreshold) ELSE m.trans,
                !.stall = IF s = "stalled" THEN Cap(m.stall + 1, StallThreshold)
                          ELSE IF s = "quiet" THEN 0 ELSE m.stall]
    IN IF s = "polluted" THEN MarkPolluted(k) ELSE k

Exceeded(m, s) ==
    \/ s \in {"failure", "limited"} /\ m.req >= RequestThreshold
    \/ s = "transient" /\ m.trans >= TransientThreshold
    \/ s = "stalled" /\ m.stall >= StallThreshold

SignalOutcome(s) ==
    CASE s = "polluted" -> "polluted"
      [] s = "limited" -> "retry"
      [] s \in {"failure", "transient", "stalled"} -> "bad"
      [] OTHER -> "none"

(* The counter of failed requests is full and no answer of the assistant   *)
(* has come since.                                                         *)
Overdrawn(m) == m.req >= RequestThreshold

(* What a tick finds out before it asks anybody: a signal of the agent, an *)
(* alarm of the guard, an answer in the session since the failed requests. *)
Observations ==
    LET watched == current # None /\ Enabled(ep[current])
    IN [signal : Observable,
        alarm : IF watched THEN GuardAlarms ELSE {FALSE},
        answered : IF watched /\ agent # None /\ Overdrawn(ep[current]) THEN BOOLEAN
                   ELSE {FALSE}]

Noted(o) ==
    LET before == IF o.answered THEN [ep[current] EXCEPT !.req = 0] ELSE ep[current]
    IN Counted(IF o.alarm THEN MarkGuardPolluted(before) ELSE before, o.signal)

Override(o) ==
    IF SignalOutcome(o.signal) = "none" /\ o.alarm THEN "polluted" ELSE SignalOutcome(o.signal)

Remembered(o) ==
    IF Override(o) = "none" \/ ~Enabled(ep[current]) THEN Noted(o)
    ELSE RememberSynthetic(Noted(o), Override(o))

(* The endpoint has used up its tolerance.                                 *)
Exhausted(o) ==
    /\ current # None
    /\ (Overdrawn(ep[current]) /\ ~o.answered) \/ Exceeded(Noted(o), o.signal)

Evicts(o) == Exhausted(o) \/ o.alarm \/ o.signal = "polluted"

Fails(o) ==
    Evicts(o) \/ o.signal = "dead" \/ (current # None /\ guard # None /\ ~guardUp)

CheckAfter(o) ==
    IF current # None /\ ~Fails(o) /\ Enabled(ep[current]) THEN probeOnce ELSE "no"

Watch ==
    /\ pc = "free" /\ direct = None /\ ~Holding
    /\ \E o \in Observations :
         /\ ep' = IF current = None THEN ep ELSE [ep EXCEPT ![current] = Remembered(o)]
         /\ t' = [NoTick EXCEPT !.full = fullOnce, !.check = CheckAfter(o),
                                !.failed = Fails(o), !.skip = Evicts(o),
                                !.hold = Exhausted(o), !.over = Override(o)]
         /\ pc' = IF CheckAfter(o) = "no" THEN "choose" ELSE "check"
    /\ probeOnce' = "no" /\ fullOnce' = FALSE
    /\ UNCHANGED <<current, session, control>>

(* A requested probe of the running endpoint. "confirm" is content with    *)
(* what is already known of it.                                            *)
Known(kind, m, purged) ==
    IF HardBlocked(m) THEN HardResult(m)
    ELSE IF kind = "force" THEN "none"
    ELSE IF SoftBlocked(purged) THEN SoftResult(purged)
    ELSE IF Waiting(m) /\ m.last # "unknown" THEN m.last
    ELSE "none"

Check ==
    /\ pc = "check"
    /\ LET m == ep[current]
           purged == IF t.check = "force" \/ HardBlocked(m) THEN m ELSE Purge(current, m)
           known == Known(t.check, m, purged)
       IN \E o \in IF known = "none" THEN ProbeOutcomes ELSE {known} :
            /\ ep' = [ep EXCEPT ![current] =
                        IF known = "none" THEN Remember(purged, o) ELSE purged]
            /\ t' = [t EXCEPT !.check = "no", !.failed = (o # "ok"), !.skip = (o # "ok"),
                              !.hold = (o \notin {"ok", "polluted"}), !.over = o]
    /\ pc' = "choose"
    /\ UNCHANGED <<current, session, control, requests>>

(***************************************************************************)
(* select_endpoint_with_options: where to look for an endpoint.            *)
(***************************************************************************)
Look(mode, todo, avail) ==
    /\ t' = [t EXCEPT !.mode = mode, !.todo = todo, !.avail = avail]
    /\ pc' = "look"

Decide(e, avail) ==
    /\ t' = [t EXCEPT !.sel = e, !.avail = avail, !.todo = {}]
    /\ pc' = "commit"

(* Broken variant: a failure lets go of the fixed endpoint.                *)
UsesFixedUntilFailure == ~t.full /\ ~t.failed /\ fixed # None /\ Enabled(ep[fixed])

UsesFixed == ~t.full /\ fixed # None /\ Enabled(ep[fixed])

UsesForced ==
    /\ ~t.full /\ ~UsesFixed /\ ~t.failed
    /\ forced # None /\ current # None /\ forced # current
    /\ Enabled(ep[forced])

ChooseFull == t.full /\ Look("full", EnabledEndpoints, t.avail)

ChooseFixed ==
    /\ UsesFixed
    /\ IF current = fixed /\ ~t.failed /\ ~Cooling(ep[fixed])
       THEN Decide(fixed, "ok")
       ELSE Look("fixed", {fixed}, t.avail)

ChooseForced == UsesForced /\ Look("forced", {forced}, t.avail)

ChooseAny ==
    /\ ~t.full /\ ~UsesFixed /\ (current = None \/ t.failed)
    /\ Look("any", EnabledEndpoints \ (IF t.skip THEN {current} ELSE {}), t.avail)

(* Broken variant: the running endpoint may have been disabled.            *)
ChooseUpgradeBlindly ==
    /\ ~t.full /\ ~UsesFixed /\ ~UsesForced /\ current # None /\ ~t.failed
    /\ Look("upgrade", Heavier(current), "ok")

(* The running endpoint works: only heavier ones are of interest, then the *)
(* others that are due for a recovery probe.                               *)
ChooseUpgrade ==
    /\ ~t.full /\ ~UsesFixed /\ ~UsesForced /\ current # None /\ ~t.failed
    /\ IF Enabled(ep[current])
       THEN Look("upgrade", Heavier(current), "ok")
       ELSE Decide(None, "ok")

Choose ==
    /\ pc = "choose"
    /\ ChooseFull \/ ChooseFixed \/ ChooseForced \/ ChooseAny \/ ChooseUpgrade
    /\ UNCHANGED <<ep, current, session, control, requests>>

(***************************************************************************)
(* find_first_available: one candidate after the other.                    *)
(***************************************************************************)
IgnoresCooldown == t.mode \in {"full", "forced"}

Favourite == IF t.mode = "full" /\ ~t.failed THEN current ELSE None

(* Broken variant: an answer is enough, also during a pollution cooldown.  *)
ExaminedForAnswer(e, m, o, taken) ==
    LET answers == o = "ok"
    IN /\ ep' = [ep EXCEPT ![e] = m]
       /\ t' = [t EXCEPT !.todo = IF answers THEN {} ELSE t.todo \ {e},
                         !.sel = IF answers THEN e ELSE None,
                         !.avail = IF e = current THEN o ELSE t.avail]
       /\ pc' = IF answers THEN "commit" ELSE "look"

(* The candidate e has result o; m is what is remembered of it now.        *)
Examined(e, m, o, taken) ==
    /\ ep' = [ep EXCEPT ![e] = m]
    /\ t' = [t EXCEPT !.todo = IF taken THEN {} ELSE t.todo \ {e},
                      !.sel = IF taken THEN e ELSE None,
                      !.avail = IF e = current THEN o ELSE t.avail]
    /\ pc' = IF taken THEN "commit" ELSE "look"

LookAt(e) ==
    LET hard == HardBlocked(ep[e])
        m == IF hard \/ IgnoresCooldown THEN ep[e] ELSE Purge(e, ep[e])
        soft == ~hard /\ ~IgnoresCooldown /\ SoftBlocked(m)
        known == Waiting(m) /\ m.last # "unknown"
        usable == known /\ m.last = "ok" /\ ~Cooling(m)
    IN \/ hard /\ Examined(e, m, HardResult(m), FALSE)
       \/ soft /\ Examined(e, m, SoftResult(m), FALSE)
       \/ /\ ~hard /\ ~soft /\ known /\ (usable \/ ~IgnoresCooldown)
          /\ Examined(e, m, m.last, usable)
       \/ /\ ~hard /\ ~soft /\ (known => ~usable /\ IgnoresCooldown)
          /\ \E o \in ProbeOutcomes :
               LET after == Remember(m, o)
               IN Examined(e, after, o, o = "ok" /\ ~Cooling(after))

LookAtNext ==
    /\ pc = "look"
    /\ \E e \in t.todo : Foremost(e, t.todo, Favourite) /\ LookAt(e)
    /\ UNCHANGED <<current, session, control, requests>>

LookedAtAll ==
    /\ pc = "look" /\ t.todo = {}
    /\ CASE t.mode = "upgrade" ->
              /\ t' = [t EXCEPT !.todo = EnabledEndpoints \ ({current} \cup Heavier(current))]
              /\ pc' = "recover"
         [] t.mode = "forced" ->
              Decide(IF Enabled(ep[current]) THEN current ELSE None, "ok")
         [] OTHER -> Decide(None, t.avail)
    /\ UNCHANGED <<ep, current, session, control, requests>>

(* probe_due_unhealthy_endpoints: the running endpoint, then the others.   *)
RecoverOne(e) ==
    LET hard == HardBlocked(ep[e])
        m == IF hard THEN ep[e] ELSE Purge(e, ep[e])
        probed == ~hard /\ ~SoftBlocked(m) /\ ~Waiting(m) /\ Unhealthy(m)
    IN /\ \/ ~probed /\ ep' = [ep EXCEPT ![e] = m]
          \/ probed /\ \E o \in ProbeOutcomes : ep' = [ep EXCEPT ![e] = Remember(m, o)]
       /\ t' = [t EXCEPT !.todo = t.todo \ {e}]

Recover ==
    /\ pc = "recover"
    /\ \E e \in t.todo :
         /\ e = current \/ (current \notin t.todo /\ Foremost(e, t.todo, None))
         /\ RecoverOne(e)
    /\ UNCHANGED <<current, session, control, requests, pc>>

Recovered ==
    /\ pc = "recover" /\ t.todo = {}
    /\ IF t.mode = "hold" THEN EndTick ELSE Decide(current, t.avail)
    /\ UNCHANGED <<ep, current, session, control, requests>>

(***************************************************************************)
(* The end of a tick: act on the selection.                                *)
(***************************************************************************)
(* The entry of availability for the running endpoint.                     *)
CurrentResult == IF t.over = "none" THEN t.avail ELSE t.over

(* Broken variants: the only endpoint is kept although it is polluted, or  *)
(* although its failed requests have used up the tolerance.                *)
KeepsSinglePolluted ==
    /\ \/ t.hold /\ ~Overdrawn(ep[current])
       \/ t.full /\ ~t.failed
    /\ EnabledEndpoints = {current}
    /\ agent # None /\ alive

KeepsSingleOverdrawn ==
    /\ t.hold \/ (t.full /\ ~t.failed)
    /\ EnabledEndpoints = {current}
    /\ CurrentResult # "polluted" /\ ~Cooling(ep[current])
    /\ agent # None /\ alive

(* The only enabled endpoint fails but is not polluted: its agent is kept. *)
KeepsSingle ==
    /\ \/ t.hold /\ ~Overdrawn(ep[current])
       \/ t.full /\ ~t.failed
    /\ EnabledEndpoints = {current}
    /\ CurrentResult # "polluted" /\ ~Cooling(ep[current])
    /\ agent # None /\ alive

Nothing ==
    /\ pc = "commit" /\ t.sel = None /\ t.prev = None
    /\ IF current # None /\ KeepsSingle
       THEN UNCHANGED <<current, session>> /\ Drive(current)
       ELSE StopAgent /\ current' = None /\ UNCHANGED <<ep, nextSession>>
    /\ EndTick
    /\ UNCHANGED <<control, requests>>

Changed ==
    /\ current # t.sel \/ t.failed
    /\ ~(current = t.sel /\ agent # None /\ alive /\ CurrentResult = "ok")

Stay ==
    /\ pc = "commit" /\ t.sel # None /\ t.prev = None /\ ~Changed
    /\ UNCHANGED <<current, session>>
    /\ Drive(t.sel)
    /\ EndTick
    /\ UNCHANGED <<control, requests>>

(* Broken variant: a failed launch is tried again at once, for ever.       *)
SwitchRetrying ==
    /\ pc = "commit" /\ t.sel # None
    /\ t.prev = None => Changed
    /\ \/ Launch(t.sel) /\ Drive(t.sel) /\ EndTick
       \/ /\ LaunchFails /\ UNCHANGED ep
          /\ t' = [t EXCEPT !.full = FALSE, !.failed = TRUE, !.skip = TRUE,
                            !.prev = t.sel, !.sel = None, !.avail = "none"]
          /\ pc' = "choose"
    /\ UNCHANGED <<control, requests>>

(* A failed launch falls back to another endpoint within the same tick.    *)
Switch ==
    /\ pc = "commit" /\ t.sel # None
    /\ IF t.prev = None THEN Changed ELSE t.sel # t.prev
    /\ \/ Launch(t.sel) /\ Drive(t.sel) /\ EndTick
       \/ /\ LaunchFails
          /\ ep' = [ep EXCEPT ![t.sel] = MarkStartupFailure(@)]
          /\ t' = [t EXCEPT !.full = FALSE, !.failed = TRUE, !.skip = TRUE,
                            !.prev = t.sel, !.sel = None, !.avail = "none"]
          /\ pc' = "choose"
    /\ UNCHANGED <<control, requests>>

GiveUp ==
    /\ pc = "commit" /\ t.prev # None /\ t.sel \in {None, t.prev}
    /\ EndTick
    /\ UNCHANGED <<ep, current, session, control, requests>>

Tick ==
    \/ DirectStart \/ Hold \/ Watch \/ Check \/ Choose
    \/ LookAtNext \/ LookedAtAll \/ Recover \/ Recovered
    \/ Nothing \/ Stay \/ Switch \/ GiveUp

(***************************************************************************)
(* Commands of the user, between two ticks.                                *)
(***************************************************************************)
Command(c) == pc = "free" /\ c \in Commands

(* A new run starts from a fresh RuntimeCore with the config on disk.      *)
StartRuntime ==
    /\ pc = "stopped"
    /\ ep' = [e \in Endpoint |-> NewMemory(ep[e].cfg, ep[e].guarded)]
    /\ current' = None /\ agent' = None /\ alive' = FALSE
    /\ guard' = None /\ guardUp' = FALSE
    /\ nextSession' \in {"resume"} \cup ({"fork"} \cap Commands)
    /\ paused' \in IF "pause" \in Commands THEN BOOLEAN ELSE {paused}
    /\ direct' \in {None} \cup {e \in Endpoint : "direct" \in Commands /\ ep[e].cfg # "gone"}
    /\ fixed' = IF direct' = None THEN fixed ELSE direct'
    /\ probeOnce' = "no" /\ fullOnce' = FALSE
    /\ pc' = "free" /\ t' = NoTick
    /\ UNCHANGED forced

StopRuntime ==
    /\ Command("stop")
    /\ StopAgent /\ current' = None /\ direct' = None
    /\ pc' = "stopped"
    /\ UNCHANGED <<ep, nextSession, fixed, forced, paused, requests, t>>

RestartAgent ==
    /\ StopAgent /\ current' = None /\ direct' = None
    /\ probeOnce' = "no" /\ fullOnce' = FALSE
    /\ UNCHANGED <<nextSession, fixed, forced, paused, pc, t>>

Restart == Command("restart") /\ RestartAgent /\ UNCHANGED ep

ForceNewConversation ==
    /\ Command("new")
    /\ nextSession' = "new"
    /\ StopAgent /\ current' = None /\ direct' = None
    /\ UNCHANGED <<ep, fixed, forced, paused, requests, pc, t>>

ForkSession ==
    /\ Command("fork")
    /\ nextSession' = "fork"
    /\ StopAgent /\ current' = None
    /\ UNCHANGED <<ep, control, requests, pc, t>>

ForceStartEndpoint(e) ==
    /\ Command("direct") /\ ep[e].cfg # "gone"
    /\ fixed' = e /\ direct' = e
    /\ UNCHANGED <<ep, current, session, forced, paused, requests, pc, t>>

SetFixedEndpoint(e) ==
    /\ Command("fix") /\ fixed' = e
    /\ UNCHANGED <<ep, current, session, forced, paused, direct, requests, pc, t>>

SetForceProbeEndpoint(e) ==
    /\ Command("prefer") /\ forced' = e
    /\ UNCHANGED <<ep, current, session, fixed, paused, direct, requests, pc, t>>

(* Disabling e saves the wishes the runtime holds, without e. It holds no  *)
(* wish for an endpoint that has left the config, until the next tick      *)
(* reads the control file again.                                           *)
Kept(wish, e, on) ==
    IF ~on /\ wish = e THEN {None}
    ELSE IF ~on /\ wish # None /\ ep[wish].cfg = "gone" THEN {wish, None}
    ELSE {wish}

(* set_endpoint_enabled: disabling forgets cooldowns and stops the agent.  *)
SetEndpointEnabled(e, on) ==
    /\ Command("enable") /\ ep[e].cfg = IF on THEN "off" ELSE "on"
    /\ LET m == [ep[e] EXCEPT !.cfg = IF on THEN "on" ELSE "off", !.wait = "none",
                              !.startFailed = FALSE, !.req = 0, !.trans = 0, !.stall = 0]
       IN ep' = [ep EXCEPT ![e] = IF on THEN m ELSE ClearPollutionRecovery(m)]
    /\ fixed' \in Kept(fixed, e, on) /\ forced' \in Kept(forced, e, on)
    /\ IF ~on /\ current = e
       THEN StopAgent /\ current' = None
       ELSE UNCHANGED <<current, agent, alive, guard, guardUp>>
    /\ UNCHANGED <<nextSession, paused, direct, requests, pc, t>>

SetEndpointGuardProxyEnabled(e, on) ==
    /\ Command("guard") /\ ep[e].cfg # "gone" /\ ep[e].guarded # on
    /\ LET m == [ep[e] EXCEPT !.guarded = on]
       IN ep' = [ep EXCEPT ![e] =
                   IF ~on THEN ClearGuardPollution(m)
                   ELSE IF e \in GuardReplaces THEN ClearReplacedDirectPollution(m)
                   ELSE m]
    /\ IF current = e
       THEN RestartAgent
       ELSE UNCHANGED <<current, session, control, requests, pc, t>>

(* replace_config_snapshot: an edited config arrives. An endpoint that     *)
(* leaves it is no longer current, but its agent is not stopped here. Only *)
(* instances with the guard command have edits of the guard.               *)
ReplaceConfig(e, cfg, guarded) ==
    /\ Command("config") /\ <<cfg, guarded>> # <<ep[e].cfg, ep[e].guarded>>
    /\ "guard" \in Commands \/ guarded = ep[e].guarded
    /\ ep' = [ep EXCEPT ![e].cfg = cfg, ![e].guarded = guarded]
    /\ current' = IF cfg = "gone" /\ current = e THEN None ELSE current
    /\ UNCHANGED <<session, control, requests, pc, t>>

ForceCurrentProbe ==
    /\ Command("probe")
    /\ probeOnce' = IF probeOnce = "no" THEN "force" ELSE probeOnce
    /\ UNCHANGED <<ep, current, session, control, fullOnce, pc, t>>

ConfirmCurrentProbe ==
    /\ Command("confirm") /\ probeOnce' = "confirm"
    /\ UNCHANGED <<ep, current, session, control, fullOnce, pc, t>>

ForceFullProbe ==
    /\ Command("full") /\ fullOnce' = TRUE
    /\ UNCHANGED <<ep, current, session, control, probeOnce, pc, t>>

SetPaused ==
    /\ Command("pause") /\ paused' = ~paused
    /\ UNCHANGED <<ep, current, session, fixed, forced, direct, requests, pc, t>>

UserCommand ==
    \/ StartRuntime \/ StopRuntime \/ Restart \/ ForceNewConversation \/ ForkSession
    \/ ForceCurrentProbe \/ ConfirmCurrentProbe \/ ForceFullProbe \/ SetPaused
    \/ \E e \in Endpoint :
         \/ ForceStartEndpoint(e)
         \/ \E on \in BOOLEAN :
              SetEndpointEnabled(e, on) \/ SetEndpointGuardProxyEnabled(e, on)
         \/ \E cfg \in {"on", "off", "gone"}, guarded \in BOOLEAN :
              ReplaceConfig(e, cfg, guarded)
    \/ \E e \in Endpoint \cup {None} : SetFixedEndpoint(e) \/ SetForceProbeEndpoint(e)

(***************************************************************************)
(* What happens by itself.                                                 *)
(***************************************************************************)
AgentExits ==
    /\ alive /\ alive' = FALSE
    /\ UNCHANGED <<ep, current, agent, guard, guardUp, nextSession, control, requests, pc, t>>

(* The accept loop of the guard proxy leaves on an accept error.           *)
GuardExits ==
    /\ guardUp /\ guardUp' = FALSE
    /\ UNCHANGED <<ep, current, agent, alive, guard, nextSession, control, requests, pc, t>>

TimePasses(e, d) ==
    /\ pc \in {"free", "choose", "commit"} /\ Pending(ep[e], d)
    /\ d = "startFailed" /\ ~SlowTicks => pc = "free"
    /\ ep' = [ep EXCEPT ![e] = Elapsed(@, d)]
    /\ UNCHANGED <<current, session, control, requests, pc, t>>

Environment ==
    AgentExits \/ GuardExits \/ \E e \in Endpoint, d \in Deadline : TimePasses(e, d)

Next == Tick \/ UserCommand \/ Environment

Spec == Init /\ [][Next]_vars

(* The worker thread keeps ticking and every deadline passes. Ticks take   *)
(* turns with the deadlines that only pass between them (~SlowTicks),      *)
(* hence the strong form.                                                  *)
Fairness ==
    /\ WF_vars(Tick)
    /\ WF_vars(StartRuntime)
    /\ \A e \in Endpoint, d \in Deadline : SF_vars(TimePasses(e, d))

FairSpec == Spec /\ Fairness

-----------------------------------------------------------------------------
MaybeEndpoint == Endpoint \cup {None}

TickLocals ==
    [full : BOOLEAN, check : {"no", "force", "confirm"}, failed : BOOLEAN,
     skip : BOOLEAN, hold : BOOLEAN, over : Outcome \cup {"none"},
     avail : Outcome \cup {"none"},
     mode : {"none", "hold", "full", "fixed", "forced", "any", "upgrade"},
     todo : SUBSET Endpoint, sel : MaybeEndpoint, prev : MaybeEndpoint]

TypeOK ==
    /\ ep \in [Endpoint -> Memory]
    /\ current \in MaybeEndpoint /\ agent \in MaybeEndpoint /\ guard \in MaybeEndpoint
    /\ fixed \in MaybeEndpoint /\ forced \in MaybeEndpoint /\ direct \in MaybeEndpoint
    /\ alive \in BOOLEAN /\ guardUp \in BOOLEAN /\ paused \in BOOLEAN
    /\ nextSession \in {"resume", "new", "fork"}
    /\ probeOnce \in {"no", "force", "confirm"} /\ fullOnce \in BOOLEAN
    /\ pc \in {"stopped", "free", "check", "choose", "look", "recover", "commit"}
    /\ t \in TickLocals

(* The guard proxy serves the agent that runs, and the agent runs on the   *)
(* current endpoint: over every order of ticks, failed launches, commands  *)
(* and deaths nobody is left with a guard or an agent of another endpoint. *)
(* (switch_to and stop_agent, runtime.rs 1569-1637 and 2113-2136.)         *)
AgentPaired ==
    /\ guard # None => guard = agent
    /\ agent # None /\ current # None => agent = current

(* What select_endpoint_with_options and find_first_available decide on is *)
(* an enabled endpoint that answered the last probe and is out of          *)
(* pollution cooldown, whichever command or failed launch led there.       *)
SelectionUsable ==
    pc = "commit" /\ t.sel # None /\ (t.sel # current \/ t.failed) =>
        Enabled(ep[t.sel]) /\ ep[t.sel].last = "ok" /\ ~Cooling(ep[t.sel])

Chooses == pc # "commit" /\ pc' = "commit" /\ t'.sel # None

(* Unless the user fixed or prefers an endpoint, no enabled one heavier    *)
(* than the one chosen is known to work when the choice is made: "the      *)
(* highest weight that is available".                                      *)
SelectionHeaviest ==
    [][Chooses /\ t'.mode \in {"any", "full", "upgrade"}
         => \A f \in Heavier(t'.sel) :
              \/ t.skip /\ f = current
              \/ ep'[f].startFailed \/ ep'[f].last # "ok" \/ Cooling(ep'[f])]_vars

TickEnds == pc # "free" /\ pc' = "free" /\ pc # "stopped"

(* A finished tick leaves no agent behind on an endpoint that is disabled, *)
(* gone from the config, or not the current one, whatever the config       *)
(* edits between the ticks did.                                            *)
NoStrayAgent ==
    [][TickEnds /\ agent' # None => agent' = current' /\ Enabled(ep'[agent'])]_vars

(* A tick that saw the running endpoint fail never ends with the agent on  *)
(* that endpoint while it is in pollution cooldown.                        *)
PollutionEvicts ==
    [][TickEnds /\ t.failed /\ current # None /\ Cooling(ep[current])
          => agent' # current]_vars

(* The agent is released once its failed requests reach the tolerance,     *)
(* even on the only endpoint: the comment at runtime.rs 483-485. (Config   *)
(* edits can break this: see the README.)                                  *)
OverdrawnReleased ==
    [][TickEnds /\ t.mode # "hold" /\ current # None /\ Overdrawn(ep'[current])
          => agent' # current]_vars

(* While the user has fixed an enabled endpoint the agent runs there or    *)
(* nowhere after every tick, also after failed launches and fallbacks: the *)
(* only exceptions are a full probe and a pause                            *)
(* (select_endpoint_with_options, runtime.rs 1290-1312).                   *)
FixedObeyed ==
    [][TickEnds /\ fixed # None /\ Enabled(ep[fixed]) /\ t.mode \notin {"hold", "full"}
          => agent' \in {None, fixed}]_vars

(* A full probe does not choose another endpoint of equal weight while the *)
(* running one still works (the test at runtime.rs 6667).                  *)
TieKept ==
    [][Chooses /\ t'.mode = "full" /\ ~t.failed /\ current # None /\ Enabled(ep[current])
         /\ t'.sel # current /\ Weight[t'.sel] = Weight[current]
          => ep'[current].last # "ok" \/ Cooling(ep'[current])]_vars

(* The cooldown as others may rely on it. A deadline that has passed stays *)
(* visible until something looks at it ("served"). polluted_until and      *)
(* guard_polluted_until, with pollution_recovery_successes.                *)
WardState(m) ==
    CASE m.gpol = "active" -> "guard"
      [] m.gpol # "active" /\ m.pol = "active" -> "session"
      [] ~Cooling(m) /\ (m.pol = "expired" \/ m.gpol = "expired") -> "served"
      [] OTHER -> "free"

Ward(m) == [state |-> WardState(m), clean |-> IF Cooling(m) THEN m.clean ELSE 0]

Isolation ==
    INSTANCE Quarantine
    WITH ward <- [e \in Endpoint |-> Ward(ep[e])],
         works <- {e \in Endpoint : ep[e].last = "ok"},
         enabled <- EnabledEndpoints,
         guarded <- {e \in Endpoint : ep[e].guarded},
         running <- IF alive THEN agent ELSE None,
         wish <- direct

(* A polluted endpoint stays isolated until its time is served or enough   *)
(* probes in a row found it well, whatever else happens to it meanwhile:   *)
(* agents, searches, recovery probes, its guard and the user all rewrite   *)
(* the three maps that say so, and the agent is started in three places.   *)
(* (remember_single_probe_result, mark_endpoint_polluted, cooldown_result, *)
(* clear_pollution_recovery_state and its callers, switch_to.)             *)
KeepsQuarantine == Isolation!QuarantineSpec

(* A fork the user asked for survives failed launches: only a launched     *)
(* agent, a newer request or a new run uses it up.                         *)
ForkSurvives ==
    [][nextSession = "fork" /\ nextSession' # "fork"
          => agent' # None \/ nextSession' = "new" \/ pc = "stopped"]_vars

(* Every tick finishes: the fallback loop of tick() runs out of endpoints  *)
(* while the startup retry windows last.                                   *)
TickFinishes == (pc \notin {"free", "stopped"}) ~> (pc = "free")

Running == agent # None /\ alive

(* An unpaused supervisor whose endpoints answer gets its agent running    *)
(* again after any death, pollution or failed launch: the agent always     *)
(* runs on an available endpoint (docs/USER_MANUAL.md:3).                  *)
KeepsAgentRunning == ~Running ~> (Running \/ paused)

(* switch_to is called, by the commit of a tick or for the user, and fails.*)
LaunchTriedInVain ==
    /\ LaunchFails
    /\ \/ pc = "commit" /\ t.sel # None /\ pc' = "choose"
       \/ pc = "free" /\ direct # None /\ ep[direct].cfg # "gone" /\ direct' = None

LaunchesKeepFailing == []<><<LaunchTriedInVain>>_vars

(* A launch that failed without an alternative left its endpoint current   *)
(* and no agent: nothing starts one (see KeepsAgentRunning).               *)
Stranded == agent = None /\ current # None

(* Once launches succeed, an unpaused supervisor whose endpoints answer    *)
(* gets its agent running again after any death, pollution or failed       *)
(* launch, unless it is stranded.                                          *)
AgentRegained ==
    LaunchesKeepFailing \/ (~Running ~> (Running \/ paused \/ Stranded))

(* It also brings the agent back to the heaviest endpoint.                 *)
OnHeaviest == agent # None /\ Foremost(agent, Endpoint, None)

HeaviestRegained ==
    LaunchesKeepFailing \/ (~OnHeaviest ~> (OnHeaviest \/ paused \/ Stranded))

(* A dead guard proxy is noticed and replaced.                             *)
GuardRestored == (guard # None /\ ~guardUp) ~> (guardUp \/ guard = None \/ paused)
=============================================================================
