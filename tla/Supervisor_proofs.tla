-------------------------- MODULE Supervisor_proofs --------------------------
(* Proofs of the safety of Supervisor for any number of endpoints, any     *)
(* weights, thresholds, probe outcomes, signals and commands.              *)
EXTENDS Supervisor, TLAPS

-----------------------------------------------------------------------------
(* The functions of Endpoints: each keeps the record of an endpoint within *)
(* its type and leaves alone the part of it that the config owns, and what *)
(* each does to the cooldown.                                              *)

(* CleanNeeded, the number of clean probes that end a cooldown, is a       *)
(* positive number (pollution_recovery_threshold).                         *)
LEMMA CleanNeededType == CleanNeeded \in Nat /\ CleanNeeded >= 3
BY EndpointsAssumption DEF EndpointsAssumption, CleanNeeded

(* Every counter can be cleared.                                           *)
LEMMA CountsFromZero ==
    0 \in CleanCount /\ 0 \in RequestCount /\ 0 \in TransientCount /\ 0 \in StallCount
BY CleanNeededType, EndpointsAssumption
DEF EndpointsAssumption, CleanCount, RequestCount, TransientCount, StallCount

(* A fresh endpoint has a memory of the right type.                        *)
LEMMA NewMemoryType ==
    ASSUME NEW cfg \in {"on", "off", "gone"}, NEW guarded \in BOOLEAN
    PROVE  NewMemory(cfg, guarded) \in Memory
BY CountsFromZero DEF NewMemory, Memory, Timer, Outcome

(* The helpers that clear or mark a cooldown keep the type and the config. *)
LEMMA ClearPollutionRecoveryType ==
    ASSUME NEW m \in Memory
    PROVE  /\ ClearPollutionRecovery(m) \in Memory
           /\ ClearPollutionRecovery(m).cfg = m.cfg
           /\ ClearPollutionRecovery(m).last = m.last
           /\ ~Cooling(ClearPollutionRecovery(m))
BY CountsFromZero DEF ClearPollutionRecovery, Memory, Timer, Cooling

LEMMA RecordRecoverySuccessType ==
    ASSUME NEW m \in Memory
    PROVE  /\ RecordRecoverySuccess(m) \in Memory
           /\ RecordRecoverySuccess(m).cfg = m.cfg
<1>1. CASE Cooling(m) /\ m.clean + 1 < CleanNeeded
  <2>1. m.clean + 1 \in CleanCount
    BY <1>1, CleanNeededType DEF Memory, CleanCount
  <2> QED
    BY <1>1, <2>1 DEF RecordRecoverySuccess, Memory
<1>2. CASE ~(Cooling(m) /\ m.clean + 1 < CleanNeeded)
  BY <1>2, ClearPollutionRecoveryType DEF RecordRecoverySuccess
<1> QED BY <1>1, <1>2

(* A result is remembered within the type; it becomes the last one.        *)
LEMMA RememberSyntheticType ==
    ASSUME NEW m \in Memory, NEW o \in Outcome
    PROVE  /\ RememberSynthetic(m, o) \in Memory
           /\ RememberSynthetic(m, o).cfg = m.cfg
           /\ RememberSynthetic(m, o).last = o
BY DEF RememberSynthetic, Memory, Timer

LEMMA RememberType ==
    ASSUME NEW m \in Memory, NEW o \in Outcome
    PROVE  /\ Remember(m, o) \in Memory
           /\ Remember(m, o).cfg = m.cfg
           /\ Remember(m, o).last = o
<1>1. CASE o = "ok"
  <2> DEFINE k == [m EXCEPT !.req = 0, !.trans = 0]
  <2>1. k \in Memory /\ k.cfg = m.cfg
    BY CountsFromZero DEF Memory
  <2>2. /\ RecordRecoverySuccess(k) \in Memory
        /\ RecordRecoverySuccess(k).cfg = m.cfg
    BY <2>1, RecordRecoverySuccessType
  <2>3. Remember(m, o) = RememberSynthetic(RecordRecoverySuccess(k), o)
    BY <1>1 DEF Remember
  <2> HIDE DEF k
  <2> QED BY <2>2, <2>3, RememberSyntheticType
<1>2. CASE o # "ok"
  <2> DEFINE k == [m EXCEPT !.clean = 0]
  <2>1. k \in Memory /\ k.cfg = m.cfg
    BY CountsFromZero DEF Memory
  <2>2. Remember(m, o) = RememberSynthetic(k, o)
    BY <1>2 DEF Remember
  <2> HIDE DEF k
  <2> QED BY <2>1, <2>2, RememberSyntheticType
<1> QED BY <1>1, <1>2

LEMMA MarkPollutedType ==
    ASSUME NEW m \in Memory
    PROVE  MarkPolluted(m) \in Memory /\ MarkPolluted(m).cfg = m.cfg
BY CountsFromZero DEF MarkPolluted, Memory, Timer

LEMMA MarkGuardPollutedType ==
    ASSUME NEW m \in Memory
    PROVE  MarkGuardPolluted(m) \in Memory /\ MarkGuardPolluted(m).cfg = m.cfg
BY MarkPollutedType DEF MarkGuardPolluted, Memory, Timer

LEMMA MarkStartupFailureType ==
    ASSUME NEW m \in Memory
    PROVE  MarkStartupFailure(m) \in Memory /\ MarkStartupFailure(m).cfg = m.cfg
BY DEF MarkStartupFailure, Memory

LEMMA ClearReplacedDirectPollutionType ==
    ASSUME NEW m \in Memory
    PROVE  /\ ClearReplacedDirectPollution(m) \in Memory
           /\ ClearReplacedDirectPollution(m).cfg = m.cfg
BY CountsFromZero, ZenonT(60) DEF ClearReplacedDirectPollution, Memory, Timer, Outcome

LEMMA ClearGuardPollutionType ==
    ASSUME NEW m \in Memory
    PROVE  ClearGuardPollution(m) \in Memory /\ ClearGuardPollution(m).cfg = m.cfg
BY CountsFromZero, ZenonT(60) DEF ClearGuardPollution, Memory, Timer, Outcome

(* The removals of cooldown_result keep the type and the config.           *)
LEMMA PurgeType ==
    ASSUME NEW m \in Memory, NEW e
    PROVE  Purge(e, m) \in Memory /\ Purge(e, m).cfg = m.cfg
<1> DEFINE unguarded == [m EXCEPT !.gpol = "none"]
           cleared == IF Replaces(e, m) THEN ClearReplacedDirectPollution(unguarded)
                      ELSE unguarded
<1>1. unguarded \in Memory /\ unguarded.cfg = m.cfg
  BY DEF Memory, Timer
<1>2. cleared \in Memory /\ cleared.cfg = m.cfg
  BY <1>1, ClearReplacedDirectPollutionType
<1>3. \/ Purge(e, m) = m
      \/ Purge(e, m) = cleared
      \/ Purge(e, m) = [cleared EXCEPT !.pol = "none", !.clean = 0]
  BY DEF Purge
<1> HIDE DEF cleared
<1> QED BY <1>2, <1>3, CountsFromZero, ZenonT(60) DEF Memory, Timer

(* A deadline that passes keeps the type, the config and the last result,  *)
(* and starts no cooldown.                                                 *)
LEMMA ElapsedType ==
    ASSUME NEW m \in Memory, NEW d \in Deadline
    PROVE  /\ Elapsed(m, d) \in Memory
           /\ Elapsed(m, d).cfg = m.cfg
           /\ Elapsed(m, d).last = m.last
           /\ ~Cooling(m) => ~Cooling(Elapsed(m, d))
BY DEF Elapsed, Deadline, Memory, Timer, Cooling

(* What the cooldowns answer in place of a probe is an outcome.            *)
LEMMA BlockedOutcome ==
    ASSUME NEW m \in Memory
    PROVE  /\ HardResult(m) \in Outcome \ {"ok"}
           /\ SoftBlocked(m) => SoftResult(m) \in Outcome \ {"ok"}
BY DEF HardResult, SoftBlocked, SoftResult, Cooling, Outcome, Memory

-----------------------------------------------------------------------------

(* What holds at each step of a tick, beside the types and the pairing of  *)
(* the agent: which endpoints the step works on, and what is known of them *)
(* by then. The config does not change during a tick.                      *)
AtFree == pc \in {"free", "stopped"} => t = NoTick

AtCurrent ==
    pc \in {"check", "recover"} \/ (pc = "look" /\ t.mode \in {"upgrade", "forced"}) =>
        /\ current # None
        /\ t.mode # "forced" => Enabled(ep[current])
        /\ ~t.failed

AtLook == pc = "look" => t.mode \notin {"hold", "none"} /\ t.todo \subseteq EnabledEndpoints

AtRecover ==
    pc = "recover" => t.mode \in {"hold", "upgrade"} /\ t.todo \subseteq EnabledEndpoints

AtCommit ==
    pc = "commit" /\ t.sel # None =>
        /\ Enabled(ep[t.sel])
        /\ t.sel # current \/ t.failed => ep[t.sel].last = "ok" /\ ~Cooling(ep[t.sel])

AfterFailedLaunch == t.prev # None => agent = None /\ t.failed

TickInv ==
    /\ AtFree /\ AtCurrent /\ AtLook /\ AtRecover /\ AtCommit /\ AfterFailedLaunch

IInv == TypeOK /\ AgentPaired /\ TickInv

USE DEF None

(* The endpoints of the config that are looked at keep their configuration *)
(* over a step.                                                            *)
SameConfig == \A e \in Endpoint : ep'[e].cfg = ep[e].cfg

(* Rewriting one endpoint within its type.                                 *)
LEMMA Rewrite ==
    ASSUME ep \in [Endpoint -> Memory], NEW e \in Endpoint, NEW m \in Memory,
           m.cfg = ep[e].cfg, ep' = [ep EXCEPT ![e] = m]
    PROVE  /\ ep' \in [Endpoint -> Memory] /\ SameConfig
           /\ ep'[e] = m
           /\ \A f \in Endpoint \ {e} : ep'[f] = ep[f]
BY DEF SameConfig

(* The counters saturate within their ranges.                              *)
LEMMA CountedType ==
    ASSUME NEW m \in Memory, NEW s
    PROVE  Counted(m, s) \in Memory /\ Counted(m, s).cfg = m.cfg
<1> DEFINE req == IF s \in {"failure", "limited"}
                  THEN Cap(m.req + 1, RequestThreshold) ELSE m.req
           trans == IF s = "transient"
                    THEN Cap(m.trans + 1, TransientThreshold) ELSE m.trans
           stall == IF s = "stalled" THEN Cap(m.stall + 1, StallThreshold)
                    ELSE IF s = "quiet" THEN 0 ELSE m.stall
           k == [m EXCEPT !.req = req, !.trans = trans, !.stall = stall]
<1>1. m.req \in RequestCount /\ m.trans \in TransientCount /\ m.stall \in StallCount
  BY DEF Memory
<1>2. req \in RequestCount
  BY <1>1, EndpointsAssumption DEF EndpointsAssumption, Cap, RequestCount
<1>3. trans \in TransientCount
  BY <1>1, EndpointsAssumption DEF EndpointsAssumption, Cap, TransientCount
<1>4. stall \in StallCount
  BY <1>1, EndpointsAssumption DEF EndpointsAssumption, Cap, StallCount
<1>5. Counted(m, s) = IF s = "polluted" THEN MarkPolluted(k) ELSE k
  BY DEF Counted
<1> HIDE DEF req, trans, stall
<1>6. k \in Memory /\ k.cfg = m.cfg
  BY <1>2, <1>3, <1>4 DEF Memory
<1> HIDE DEF k
<1> QED
  BY <1>5, <1>6, MarkPollutedType

LEMMA InitIInv == Init => IInv
<1> SUFFICES ASSUME Init PROVE IInv
  OBVIOUS
<1>1. ep \in [Endpoint -> Memory]
  <2>1. PICK off \in SUBSET MaybeOff :
          ep = [e \in Endpoint |->
                  NewMemory(IF e \in off THEN "off" ELSE "on", e \in GuardedAtStart)]
    BY DEF Init
  <2>2. ASSUME NEW e \in Endpoint
        PROVE  NewMemory(IF e \in off THEN "off" ELSE "on", e \in GuardedAtStart) \in Memory
    <3>1. (e \in GuardedAtStart) \in BOOLEAN
      OBVIOUS
    <3>2. (IF e \in off THEN "off" ELSE "on") \in {"on", "off", "gone"}
      OBVIOUS
    <3> QED
      BY <3>1, <3>2, NewMemoryType, Zenon
  <2> QED
    BY <2>1, <2>2
<1>2. NoTick \in TickLocals
  BY DEF NoTick, TickLocals, MaybeEndpoint
<1>3. TypeOK
  BY <1>1, <1>2 DEF Init, TypeOK, MaybeEndpoint
<1> QED
  BY <1>3 DEF Init, IInv, AgentPaired, TickInv, AtFree, AtCurrent, AtLook, AtRecover,
              AtCommit, AfterFailedLaunch, NoTick

(* Between ticks nothing is left of a tick.                                *)
LEMMA FreeTickInv ==
    ASSUME pc' \in {"free", "stopped"}, t' = NoTick
    PROVE  TickInv'
BY DEF TickInv, AtFree, AtCurrent, AtLook, AtRecover, AtCommit, AfterFailedLaunch, NoTick

LEMMA NoTickType == NoTick \in TickLocals
BY DEF NoTick, TickLocals, MaybeEndpoint

-----------------------------------------------------------------------------
(* The commands of the user and what happens by itself.                    *)

LEMMA StartRuntimeIInv == ASSUME IInv, StartRuntime PROVE IInv'
<1>1. ASSUME NEW e \in Endpoint
      PROVE  NewMemory(ep[e].cfg, ep[e].guarded) \in Memory
  BY NewMemoryType DEF IInv, TypeOK, Memory
<1>2. ep' \in [Endpoint -> Memory]
  BY <1>1 DEF StartRuntime
<1>3. TypeOK'
  BY <1>2, NoTickType DEF IInv, TypeOK, StartRuntime, MaybeEndpoint
<1>4. AgentPaired'
  BY DEF StartRuntime, AgentPaired
<1> QED
  BY <1>3, <1>4, FreeTickInv DEF StartRuntime, IInv

LEMMA StopRuntimeIInv == ASSUME IInv, StopRuntime PROVE IInv'
<1>1. t = NoTick
  BY DEF IInv, TickInv, AtFree, StopRuntime, Command
<1>2. TypeOK' /\ AgentPaired'
  BY DEF IInv, TypeOK, AgentPaired, StopRuntime, StopAgent, MaybeEndpoint, requests
<1> QED
  BY <1>1, <1>2, FreeTickInv DEF StopRuntime, IInv

(* A command that is accepted leaves the worker between two ticks.         *)
LEMMA CommandIInv ==
    ASSUME IInv, pc = "free", UNCHANGED <<pc, t>>, TypeOK', AgentPaired'
    PROVE  IInv'
BY FreeTickInv DEF IInv, TickInv, AtFree

LEMMA RestartIInv == ASSUME IInv, Restart PROVE IInv'
<1>1. TypeOK' /\ AgentPaired'
  BY DEF IInv, TypeOK, AgentPaired, Restart, RestartAgent, StopAgent, MaybeEndpoint
<1> QED
  BY <1>1, CommandIInv DEF Restart, Command, RestartAgent

LEMMA ForceNewConversationIInv == ASSUME IInv, ForceNewConversation PROVE IInv'
<1>1. TypeOK' /\ AgentPaired'
  BY DEF IInv, TypeOK, AgentPaired, ForceNewConversation, StopAgent, MaybeEndpoint, requests
<1> QED
  BY <1>1, CommandIInv DEF ForceNewConversation, Command

LEMMA ForkSessionIInv == ASSUME IInv, ForkSession PROVE IInv'
<1>1. TypeOK' /\ AgentPaired'
  BY DEF IInv, TypeOK, AgentPaired, ForkSession, StopAgent, MaybeEndpoint, control, requests
<1> QED
  BY <1>1, CommandIInv DEF ForkSession, Command

LEMMA ForceStartEndpointIInv ==
    ASSUME IInv, NEW e \in Endpoint, ForceStartEndpoint(e) PROVE IInv'
<1>1. TypeOK' /\ AgentPaired'
  BY DEF IInv, TypeOK, AgentPaired, ForceStartEndpoint, MaybeEndpoint, session, requests
<1> QED
  BY <1>1, CommandIInv DEF ForceStartEndpoint, Command

LEMMA SetFixedEndpointIInv ==
    ASSUME IInv, NEW e \in MaybeEndpoint, SetFixedEndpoint(e) PROVE IInv'
<1>1. TypeOK' /\ AgentPaired'
  BY DEF IInv, TypeOK, AgentPaired, SetFixedEndpoint, session, requests
<1> QED
  BY <1>1, CommandIInv DEF SetFixedEndpoint, Command

LEMMA SetForceProbeEndpointIInv ==
    ASSUME IInv, NEW e \in MaybeEndpoint, SetForceProbeEndpoint(e) PROVE IInv'
<1>1. TypeOK' /\ AgentPaired'
  BY DEF IInv, TypeOK, AgentPaired, SetForceProbeEndpoint, session, requests
<1> QED
  BY <1>1, CommandIInv DEF SetForceProbeEndpoint, Command

LEMMA SetEndpointEnabledIInv ==
    ASSUME IInv, NEW e \in Endpoint, NEW on \in BOOLEAN, SetEndpointEnabled(e, on)
    PROVE  IInv'
<1> DEFINE m == [ep[e] EXCEPT !.cfg = IF on THEN "on" ELSE "off", !.wait = "none",
                              !.startFailed = FALSE, !.req = 0, !.trans = 0, !.stall = 0]
<1>1. m \in Memory
  <2> DEFINE cfg == IF on THEN "on" ELSE "off"
  <2>1. ep[e] \in Memory /\ cfg \in {"on", "off", "gone"}
    BY DEF IInv, TypeOK
  <2>2. m = [ep[e] EXCEPT !.cfg = cfg, !.wait = "none", !.startFailed = FALSE,
                          !.req = 0, !.trans = 0, !.stall = 0]
    OBVIOUS
  <2> HIDE DEF cfg, m
  <2> QED
    BY <2>1, <2>2, CountsFromZero DEF Memory, Timer
<1>2. ep' = [ep EXCEPT ![e] = IF on THEN m ELSE ClearPollutionRecovery(m)]
  BY DEF SetEndpointEnabled
<1> HIDE DEF m
<1>3. ep' \in [Endpoint -> Memory]
  BY <1>1, <1>2, ClearPollutionRecoveryType DEF IInv, TypeOK
<1>4. fixed' \in MaybeEndpoint /\ forced' \in MaybeEndpoint
  BY DEF IInv, TypeOK, SetEndpointEnabled, Kept, MaybeEndpoint
<1>5. /\ current' \in MaybeEndpoint /\ agent' \in MaybeEndpoint /\ guard' \in MaybeEndpoint
      /\ alive' \in BOOLEAN /\ guardUp' \in BOOLEAN
  BY DEF IInv, TypeOK, SetEndpointEnabled, StopAgent, MaybeEndpoint
<1>6. TypeOK'
  BY <1>3, <1>4, <1>5 DEF IInv, TypeOK, SetEndpointEnabled, requests
<1>7. AgentPaired'
  BY DEF IInv, AgentPaired, SetEndpointEnabled, StopAgent
<1> QED
  BY <1>6, <1>7, CommandIInv DEF SetEndpointEnabled, Command

LEMMA SetEndpointGuardProxyEnabledIInv ==
    ASSUME IInv, NEW e \in Endpoint, NEW on \in BOOLEAN,
           SetEndpointGuardProxyEnabled(e, on)
    PROVE  IInv'
<1> DEFINE m == [ep[e] EXCEPT !.guarded = on]
<1>1. m \in Memory
  BY DEF IInv, TypeOK, Memory
<1>2. ep' = [ep EXCEPT ![e] = IF ~on THEN ClearGuardPollution(m)
                              ELSE IF e \in GuardReplaces THEN ClearReplacedDirectPollution(m)
                              ELSE m]
  BY DEF SetEndpointGuardProxyEnabled
<1> HIDE DEF m
<1>3. ep' \in [Endpoint -> Memory]
  BY <1>1, <1>2, ClearGuardPollutionType, ClearReplacedDirectPollutionType DEF IInv, TypeOK
<1>4. TypeOK'
  <2>1. CASE current = e
    BY <1>3, <2>1 DEF IInv, TypeOK, SetEndpointGuardProxyEnabled, RestartAgent, StopAgent,
                      MaybeEndpoint
  <2>2. CASE current # e
    BY <1>3, <2>2 DEF IInv, TypeOK, SetEndpointGuardProxyEnabled, session, control, requests
  <2> QED
    BY <2>1, <2>2
<1>5. AgentPaired'
  BY DEF IInv, AgentPaired, SetEndpointGuardProxyEnabled, RestartAgent, StopAgent, session
<1> QED
  BY <1>4, <1>5, CommandIInv DEF SetEndpointGuardProxyEnabled, Command, RestartAgent

LEMMA ReplaceConfigIInv ==
    ASSUME IInv, NEW e \in Endpoint, NEW cfg \in {"on", "off", "gone"},
           NEW guarded \in BOOLEAN, ReplaceConfig(e, cfg, guarded)
    PROVE  IInv'
<1> DEFINE m == [ep[e] EXCEPT !.cfg = cfg, !.guarded = guarded]
<1>1. m \in Memory
  BY ZenonT(60) DEF IInv, TypeOK, Memory
<1>2. ep' = [ep EXCEPT ![e] = m]
  BY DEF IInv, TypeOK, ReplaceConfig
<1> HIDE DEF m
<1>3. ep' \in [Endpoint -> Memory]
  BY <1>1, <1>2 DEF IInv, TypeOK
<1>4. TypeOK'
  BY <1>3 DEF IInv, TypeOK, ReplaceConfig, MaybeEndpoint, session, control, requests
<1>5. AgentPaired'
  BY DEF IInv, AgentPaired, ReplaceConfig, session
<1> QED
  BY <1>4, <1>5, CommandIInv DEF ReplaceConfig, Command

(* The commands that only leave a request for the next tick, or pause.     *)
LEMMA RequestIInv ==
    ASSUME IInv, ForceCurrentProbe \/ ConfirmCurrentProbe \/ ForceFullProbe \/ SetPaused
    PROVE  IInv'
<1>1. TypeOK' /\ AgentPaired'
  <2>1. CASE ForceCurrentProbe \/ ConfirmCurrentProbe
    BY <2>1 DEF IInv, TypeOK, AgentPaired, ForceCurrentProbe, ConfirmCurrentProbe, session,
                control
  <2>2. CASE ForceFullProbe
    BY <2>2 DEF IInv, TypeOK, AgentPaired, ForceFullProbe, session, control
  <2>3. CASE SetPaused
    <3>1. paused' \in BOOLEAN
      BY <2>3 DEF SetPaused
    <3> QED
      BY <2>3, <3>1 DEF IInv, TypeOK, AgentPaired, SetPaused, session, requests
  <2> QED
    BY <2>1, <2>2, <2>3
<1> QED
  BY <1>1, CommandIInv
  DEF ForceCurrentProbe, ConfirmCurrentProbe, ForceFullProbe, SetPaused, Command

(* A process that dies takes part in nothing the invariant speaks of.      *)
LEMMA ExitIInv == ASSUME IInv, AgentExits \/ GuardExits PROVE IInv'
<1>1. TypeOK' /\ AgentPaired'
  <2>1. CASE AgentExits
    BY <2>1, ZenonT(60) DEF IInv, TypeOK, AgentPaired, AgentExits, control, requests
  <2>2. CASE GuardExits
    <3>1. guardUp' \in BOOLEAN /\ UNCHANGED <<ep, current, agent, alive, guard, nextSession,
                                              control, requests, pc, t>>
      BY <2>2 DEF GuardExits
    <3> QED
      BY <3>1 DEF IInv, TypeOK, AgentPaired, control, requests
  <2> QED
    BY <2>1, <2>2
<1>2. TickInv'
  BY DEF IInv, TickInv, AgentExits, GuardExits, AtFree, AtCurrent, AtLook, AtRecover,
         AtCommit, AfterFailedLaunch, EnabledEndpoints
<1> QED
  BY <1>1, <1>2 DEF IInv

LEMMA TimePassesIInv ==
    ASSUME IInv, NEW e \in Endpoint, NEW d \in Deadline, TimePasses(e, d)
    PROVE  IInv'
<1>1. ep[e] \in Memory
  BY DEF IInv, TypeOK
<1>2. /\ ep' \in [Endpoint -> Memory] /\ SameConfig
      /\ \A f \in Endpoint : /\ ep'[f].last = ep[f].last
                             /\ ~Cooling(ep[f]) => ~Cooling(ep'[f])
  BY <1>1, ElapsedType DEF IInv, TypeOK, TimePasses, SameConfig
<1>3. TypeOK' /\ AgentPaired'
  BY <1>2 DEF IInv, TypeOK, AgentPaired, TimePasses, session, control, requests
<1>4. AtCommit'
  BY <1>2 DEF IInv, TypeOK, TickLocals, MaybeEndpoint, TickInv, TimePasses, AtCommit,
              Enabled, SameConfig
<1>5. TickInv'
  BY <1>2, <1>4 DEF IInv, TickInv, TimePasses, AtFree, AtCurrent, AtLook, AtRecover,
                    AfterFailedLaunch, session
<1> QED
  BY <1>3, <1>5 DEF IInv

-----------------------------------------------------------------------------
(* The steps of a tick.                                                    *)

(* The prompt at the end of a tick only clears counters.                   *)
LEMMA DrivenType ==
    ASSUME IInv, NEW e \in Endpoint, NEW m \in Driven(e)
    PROVE  m \in Memory /\ m.cfg = ep[e].cfg
<1>1. ep[e] \in Memory
  BY DEF IInv, TypeOK
<1> QED
  BY <1>1, CountsFromZero DEF Driven, Memory

LEMMA DriveType ==
    ASSUME IInv, NEW e \in Endpoint, Drive(e)
    PROVE  ep' \in [Endpoint -> Memory] /\ SameConfig
<1>1. PICK m \in Driven(e) : ep' = [ep EXCEPT ![e] = m]
  BY DEF Drive
<1> QED
  BY <1>1, DrivenType, Rewrite DEF IInv, TypeOK

(* A launched agent is the one of the current endpoint.                    *)
LEMMA LaunchType ==
    ASSUME TypeOK, NEW e \in Endpoint, Launch(e)
    PROVE  /\ current' = e /\ agent' = e /\ guard' \in MaybeEndpoint
           /\ alive' \in BOOLEAN /\ guardUp' \in BOOLEAN
           /\ nextSession' = "resume"
           /\ AgentPaired'
<1>1. ep[e].guarded \in BOOLEAN
  BY DEF TypeOK, Memory
<1> QED
  BY <1>1 DEF Launch, AgentPaired, MaybeEndpoint

LEMMA LaunchFailsType ==
    ASSUME TypeOK, LaunchFails
    PROVE  /\ agent' = None /\ guard' = None /\ alive' = FALSE /\ guardUp' = FALSE
           /\ current' = current /\ nextSession' \in {"resume", "new", "fork"}
           /\ AgentPaired'
BY DEF TypeOK, LaunchFails, StopAgent, AgentPaired

LEMMA DirectStartIInv == ASSUME IInv, DirectStart PROVE IInv'
<1>1. direct \in Endpoint /\ t = NoTick /\ pc = "free" /\ direct' = None
  BY DEF IInv, TypeOK, MaybeEndpoint, TickInv, AtFree, DirectStart
<1>2. CASE ep[direct].cfg = "gone"
  BY <1>1, <1>2, CommandIInv
  DEF DirectStart, IInv, TypeOK, AgentPaired, MaybeEndpoint, session, requests
<1>3. CASE ep[direct].cfg # "gone" /\ Launch(direct) /\ Drive(direct)
  <2>1. ep' \in [Endpoint -> Memory]
    BY <1>1, <1>3, DriveType
  <2>2. TypeOK' /\ AgentPaired'
    BY <1>1, <1>3, <2>1, LaunchType
    DEF DirectStart, IInv, TypeOK, MaybeEndpoint, requests
  <2> QED
    BY <1>1, <2>2, CommandIInv DEF DirectStart
<1>4. CASE ep[direct].cfg # "gone" /\ LaunchFails /\ UNCHANGED ep
  <2>1. TypeOK' /\ AgentPaired'
    BY <1>1, <1>4, LaunchFailsType DEF DirectStart, IInv, TypeOK, MaybeEndpoint, requests
  <2> QED
    BY <1>1, <2>1, CommandIInv DEF DirectStart
<1> QED
  BY <1>2, <1>3, <1>4 DEF DirectStart

LEMMA HoldIInv == ASSUME IInv, Hold PROVE IInv'
<1>1. current # None /\ current \in Endpoint /\ Enabled(ep[current])
  BY DEF IInv, TypeOK, MaybeEndpoint, Hold, Holding
<1>2. PICK alarm \in GuardAlarms, m \in Driven(current), dirty \in BOOLEAN :
        LET seen == IF dirty THEN MarkPolluted(RememberSynthetic(m, "polluted")) ELSE m
            told == IF alarm
                    THEN RememberSynthetic(MarkGuardPolluted(seen), "polluted")
                    ELSE seen
        IN ep' = [ep EXCEPT ![current] = told]
  BY DEF Hold
<1> DEFINE seen == IF dirty THEN MarkPolluted(RememberSynthetic(m, "polluted")) ELSE m
           told == IF alarm THEN RememberSynthetic(MarkGuardPolluted(seen), "polluted")
                   ELSE seen
<1>3. m \in Memory /\ m.cfg = ep[current].cfg
  BY <1>1, DrivenType
<1>4. "polluted" \in Outcome
  BY DEF Outcome
<1>5. seen \in Memory /\ seen.cfg = ep[current].cfg
  BY <1>3, <1>4, RememberSyntheticType, MarkPollutedType
<1> HIDE DEF seen
<1>6. told \in Memory /\ told.cfg = ep[current].cfg
  BY <1>4, <1>5, RememberSyntheticType, MarkGuardPollutedType
<1>7. ep' = [ep EXCEPT ![current] = told]
  BY <1>2 DEF seen
<1> HIDE DEF told
<1>8. ep' \in [Endpoint -> Memory] /\ SameConfig
  BY <1>1, <1>6, <1>7, Rewrite DEF IInv, TypeOK
<1>9. t' = [NoTick EXCEPT !.mode = "hold", !.todo = EnabledEndpoints]
  BY DEF Hold
<1>10. TypeOK' /\ AgentPaired'
  <2>1. t' \in TickLocals
    BY <1>9 DEF NoTick, TickLocals, MaybeEndpoint, EnabledEndpoints
  <2> QED
    BY <1>8, <2>1 DEF IInv, TypeOK, AgentPaired, Hold, session, control
<1>11. TickInv'
  <2>1. t'.mode = "hold" /\ ~t'.failed /\ t'.prev = None
    BY <1>9 DEF NoTick
  <2>2. pc' = "recover" /\ current' = current
    BY DEF Hold
  <2>3. Enabled(ep[current])'
    BY <1>1, <1>8, <2>2 DEF SameConfig, Enabled
  <2>4. t'.todo \subseteq EnabledEndpoints'
    BY <1>8, <1>9 DEF NoTick, EnabledEndpoints, SameConfig, Enabled
  <2> QED
    BY <1>1, <2>1, <2>2, <2>3, <2>4
    DEF TickInv, AtFree, AtCurrent, AtLook, AtRecover, AtCommit, AfterFailedLaunch
<1> QED
  BY <1>10, <1>11 DEF IInv

(* The invariant of a tick, step by step.                                  *)
LEMMA ChooseTickInv ==
    ASSUME pc' = "choose", AfterFailedLaunch'
    PROVE  TickInv'
BY DEF TickInv, AtFree, AtCurrent, AtLook, AtRecover, AtCommit

LEMMA CommitTickInv ==
    ASSUME pc' = "commit", AfterFailedLaunch', AtCommit'
    PROVE  TickInv'
BY DEF TickInv, AtFree, AtCurrent, AtLook, AtRecover

LEMMA LookTickInv ==
    ASSUME pc' = "look", AfterFailedLaunch', AtCurrent', AtLook'
    PROVE  TickInv'
BY DEF TickInv, AtFree, AtCommit, AtRecover

LEMMA SignalOutcomeType ==
    ASSUME NEW s
    PROVE  SignalOutcome(s) \in Outcome \cup {"none"}
BY DEF SignalOutcome, Outcome

LEMMA NotedType ==
    ASSUME IInv, current \in Endpoint, NEW o \in Observations
    PROVE  Noted(o) \in Memory /\ Noted(o).cfg = ep[current].cfg
<1> DEFINE before == IF o.answered THEN [ep[current] EXCEPT !.req = 0] ELSE ep[current]
           told == IF o.alarm THEN MarkGuardPolluted(before) ELSE before
<1>1. ep[current] \in Memory
  BY DEF IInv, TypeOK
<1>2. before \in Memory /\ before.cfg = ep[current].cfg
  BY <1>1, CountsFromZero DEF Memory
<1> HIDE DEF before
<1>3. told \in Memory /\ told.cfg = ep[current].cfg
  BY <1>2, MarkGuardPollutedType
<1>4. Noted(o) = Counted(told, o.signal)
  BY DEF Noted, before
<1> HIDE DEF told
<1> QED
  BY <1>3, <1>4, CountedType

LEMMA WatchIInv == ASSUME IInv, Watch PROVE IInv'
<1>1. PICK o \in Observations :
        /\ ep' = IF current = None THEN ep ELSE [ep EXCEPT ![current] = Remembered(o)]
        /\ t' = [NoTick EXCEPT !.full = fullOnce, !.check = CheckAfter(o),
                               !.failed = Fails(o), !.skip = Evicts(o),
                               !.hold = Exhausted(o), !.over = Override(o)]
        /\ pc' = IF CheckAfter(o) = "no" THEN "choose" ELSE "check"
  BY DEF Watch
<1>2. Override(o) \in Outcome \cup {"none"}
  BY SignalOutcomeType DEF Override, Outcome
<1>3. ep' \in [Endpoint -> Memory] /\ SameConfig
  <2>1. CASE current = None
    BY <1>1, <2>1 DEF IInv, TypeOK, SameConfig
  <2>2. CASE current # None
    <3>1. current \in Endpoint
      BY <2>2 DEF IInv, TypeOK, MaybeEndpoint
    <3>2. Remembered(o) \in Memory /\ Remembered(o).cfg = ep[current].cfg
      BY <1>2, <3>1, NotedType, RememberSyntheticType DEF Remembered
    <3> QED
      BY <1>1, <2>2, <3>1, <3>2, Rewrite DEF IInv, TypeOK
  <2> QED
    BY <2>1, <2>2
<1>4. /\ CheckAfter(o) \in {"no", "force", "confirm"}
      /\ CheckAfter(o) # "no" => current # None /\ ~Fails(o) /\ Enabled(ep[current])
  BY DEF CheckAfter, IInv, TypeOK
<1>5. Fails(o) \in BOOLEAN /\ Evicts(o) \in BOOLEAN /\ Exhausted(o) \in BOOLEAN
  BY DEF Fails, Evicts, Exhausted
<1>6. t' \in TickLocals
  <2>1. fullOnce \in BOOLEAN
    BY DEF IInv, TypeOK
  <2>2. [NoTick EXCEPT !.full = fullOnce, !.check = CheckAfter(o),
                       !.failed = Fails(o), !.skip = Evicts(o),
                       !.hold = Exhausted(o), !.over = Override(o)] \in TickLocals
    <3> DEFINE failed == Fails(o)
               skip == Evicts(o)
               hold == Exhausted(o)
               check == CheckAfter(o)
               over == Override(o)
    <3>1. /\ failed \in BOOLEAN /\ skip \in BOOLEAN /\ hold \in BOOLEAN
          /\ check \in {"no", "force", "confirm"} /\ over \in Outcome \cup {"none"}
      BY <1>2, <1>4, <1>5
    <3> HIDE DEF failed, skip, hold, check, over
    <3>2. [NoTick EXCEPT !.full = fullOnce, !.check = check, !.failed = failed,
                         !.skip = skip, !.hold = hold, !.over = over] \in TickLocals
      BY <2>1, <3>1, NoTickType DEF TickLocals
    <3> QED
      BY <3>2 DEF failed, skip, hold, check, over
  <2> QED
    BY <1>1, <2>2
<1>7. TypeOK' /\ AgentPaired'
  BY <1>1, <1>3, <1>6 DEF IInv, TypeOK, AgentPaired, Watch, session, control
<1>8. /\ t'.prev = None /\ t'.failed = Fails(o)
      /\ current' = current
  BY <1>1 DEF NoTick, Watch
<1>9. TickInv'
  <2>1. AfterFailedLaunch'
    BY <1>8 DEF AfterFailedLaunch
  <2>2. CASE CheckAfter(o) = "no"
    BY <1>1, <2>1, <2>2, ChooseTickInv
  <2>3. CASE CheckAfter(o) # "no"
    <3>1. current \in Endpoint
      BY <1>4, <2>3 DEF IInv, TypeOK, MaybeEndpoint
    <3>2. AtCurrent'
      BY <1>3, <1>4, <1>8, <2>3, <3>1 DEF AtCurrent, SameConfig, Enabled
    <3> QED
      BY <1>1, <2>1, <2>3, <3>2
      DEF TickInv, AtFree, AtLook, AtRecover, AtCommit
  <2> QED
    BY <2>2, <2>3
<1> QED
  BY <1>7, <1>9 DEF IInv

LEMMA CheckedLocals ==
    ASSUME IInv, NEW o \in Outcome
    PROVE  [t EXCEPT !.check = "no", !.failed = (o # "ok"), !.skip = (o # "ok"),
                     !.hold = (o \notin {"ok", "polluted"}), !.over = o] \in TickLocals
BY ZenonT(60) DEF IInv, TypeOK, TickLocals

LEMMA CheckIInv == ASSUME IInv, Check PROVE IInv'
<1> DEFINE m == ep[current]
           purged == IF t.check = "force" \/ HardBlocked(m) THEN m ELSE Purge(current, m)
           known == Known(t.check, m, purged)
<1>1. current # None /\ current \in Endpoint /\ ~t.failed
  BY DEF IInv, TypeOK, MaybeEndpoint, TickInv, AtCurrent, Check
<1>2. m \in Memory
  BY <1>1 DEF IInv, TypeOK
<1>3. purged \in Memory /\ purged.cfg = m.cfg
  BY <1>2, PurgeType
<1>4. PICK o \in IF known = "none" THEN ProbeOutcomes ELSE {known} :
        /\ ep' = [ep EXCEPT ![current] = IF known = "none" THEN Remember(purged, o) ELSE purged]
        /\ t' = [t EXCEPT !.check = "no", !.failed = (o # "ok"), !.skip = (o # "ok"),
                          !.hold = (o \notin {"ok", "polluted"}), !.over = o]
  BY DEF Check
<1> HIDE DEF purged
<1>5. o \in Outcome
  <2>1. CASE known = "none"
    BY <1>4, <2>1, SupervisorAssumption DEF SupervisorAssumption
  <2>2. CASE known # "none"
    <3>1. m.last \in Outcome \cup {"unknown"}
      BY <1>2 DEF Memory
    <3>2. HardResult(m) \in Outcome /\ (SoftBlocked(purged) => SoftResult(purged) \in Outcome)
      BY <1>2, <1>3, BlockedOutcome
    <3>3. known \in Outcome
      BY <2>2, <3>1, <3>2 DEF Known
    <3> QED
      BY <1>4, <2>2, <3>3
  <2> QED
    BY <2>1, <2>2
<1> HIDE DEF known
<1>6. ep' \in [Endpoint -> Memory] /\ SameConfig
  <2> DEFINE new == IF known = "none" THEN Remember(purged, o) ELSE purged
  <2>1. new \in Memory /\ new.cfg = m.cfg
    BY <1>3, <1>5, RememberType
  <2>2. ep' = [ep EXCEPT ![current] = new]
    BY <1>4
  <2> HIDE DEF new
  <2> QED
    BY <1>1, <2>1, <2>2, Rewrite DEF IInv, TypeOK
<1>7. TypeOK' /\ AgentPaired'
  BY <1>4, <1>5, <1>6, CheckedLocals, ZenonT(60)
  DEF IInv, TypeOK, AgentPaired, Check, session, control, requests
<1>8. TickInv'
  <2>1. t'.prev = t.prev /\ t.prev = None
    BY <1>1, <1>4 DEF IInv, TypeOK, TickLocals, TickInv, AfterFailedLaunch
  <2> QED
    BY <2>1, ChooseTickInv DEF AfterFailedLaunch, Check
<1> QED
  BY <1>7, <1>8 DEF IInv

(* Where select_endpoint_with_options looks.                               *)
LEMMA ChooseIInv == ASSUME IInv, Choose PROVE IInv'
<1>1. /\ pc = "choose" /\ UNCHANGED <<ep, current, session, control, requests>>
      /\ t \in TickLocals
  BY DEF Choose, IInv, TypeOK
<1>2. AgentPaired'
  BY <1>1 DEF IInv, AgentPaired, session
<1>3. ASSUME t' \in TickLocals, pc' \in {"look", "commit"}
      PROVE  TypeOK'
  BY <1>1, <1>3 DEF IInv, TypeOK, session, control, requests
<1>4. ASSUME t'.prev = t.prev, t'.failed = t.failed
      PROVE  AfterFailedLaunch'
  BY <1>1, <1>4 DEF IInv, TickInv, AfterFailedLaunch, session
<1>5. EnabledEndpoints \subseteq Endpoint /\ EnabledEndpoints' = EnabledEndpoints
  BY <1>1 DEF EnabledEndpoints
<1>6. ASSUME NEW mode \in {"full", "fixed", "forced", "any", "upgrade"},
             NEW todo \in SUBSET EnabledEndpoints, NEW avail \in {t.avail, "ok"},
             Look(mode, todo, avail),
             mode \in {"forced", "upgrade"} =>
               current # None /\ ~t.failed /\ (mode # "forced" => Enabled(ep[current]))
      PROVE  IInv'
  <2>1. t' \in TickLocals
    BY <1>1, <1>5, <1>6 DEF TickLocals, Outcome, Look
  <2>2. t'.mode = mode /\ t'.todo = todo /\ t'.failed = t.failed /\ t'.prev = t.prev
    BY <1>1, <1>6 DEF TickLocals, Look
  <2>3. AtCurrent' /\ AtLook'
    BY <1>1, <1>5, <1>6, <2>2 DEF AtCurrent, AtLook, Look
  <2> QED
    BY <1>2, <1>3, <1>4, <1>6, <2>1, <2>2, <2>3, LookTickInv DEF IInv, Look
<1>7. ASSUME NEW sel \in MaybeEndpoint, Decide(sel, "ok"),
             sel # None => sel = current /\ ~t.failed /\ Enabled(ep[sel])
      PROVE  IInv'
  <2>1. t' \in TickLocals
    BY <1>1, <1>7 DEF TickLocals, Outcome, Decide
  <2>2. t'.sel = sel /\ t'.failed = t.failed /\ t'.prev = t.prev
    BY <1>1, <1>7 DEF TickLocals, Decide
  <2>3. AtCommit'
    BY <1>1, <1>7, <2>2 DEF AtCommit
  <2> QED
    BY <1>2, <1>3, <1>4, <1>7, <2>1, <2>2, <2>3, CommitTickInv DEF IInv, Decide
<1>8. CASE ChooseFull
  BY <1>6, <1>8 DEF ChooseFull
<1>9. CASE ChooseFixed
  <2>1. fixed # None /\ fixed \in EnabledEndpoints /\ fixed \in MaybeEndpoint /\ Enabled(ep[fixed])
    BY <1>9 DEF ChooseFixed, UsesFixed, EnabledEndpoints, IInv, TypeOK, MaybeEndpoint
  <2>2. CASE current = fixed /\ ~t.failed /\ ~Cooling(ep[fixed])
    BY <1>7, <1>9, <2>1, <2>2 DEF ChooseFixed
  <2>3. CASE ~(current = fixed /\ ~t.failed /\ ~Cooling(ep[fixed]))
    BY <1>6, <1>9, <2>1, <2>3 DEF ChooseFixed
  <2> QED
    BY <2>2, <2>3
<1>10. CASE ChooseForced
  <2>1. forced \in EnabledEndpoints /\ current # None /\ ~t.failed
    BY <1>10 DEF ChooseForced, UsesForced, EnabledEndpoints, IInv, TypeOK, MaybeEndpoint
  <2> QED
    BY <1>6, <1>10, <2>1 DEF ChooseForced
<1>11. CASE ChooseAny
  BY <1>6, <1>11 DEF ChooseAny
<1>12. CASE ChooseUpgrade
  <2>1. CASE Enabled(ep[current])
    BY <1>6, <1>12, <2>1 DEF ChooseUpgrade, Heavier
  <2>2. CASE ~Enabled(ep[current])
    BY <1>7, <1>12, <2>2 DEF ChooseUpgrade, MaybeEndpoint
  <2> QED
    BY <2>1, <2>2
<1> QED
  BY <1>8, <1>9, <1>10, <1>11, <1>12 DEF Choose

(* A cached answer vouches only for an endpoint that is not overdrawn.     *)
Fit(m) == m.last = "ok" /\ Waiting(m) => ~Overdrawn(m)

(* A probe's answer resets the count of failed requests, and nothing else  *)
(* a probe or a removal of cooldowns does raises it.                       *)
LEMMA RememberFit ==
    ASSUME NEW m \in Memory, NEW o \in Outcome
    PROVE  /\ Fit(Remember(m, o))
           /\ o = "ok" \/ ~Overdrawn(m) => ~Overdrawn(Remember(m, o))
<1>1. CASE o = "ok"
  <2> DEFINE k == [m EXCEPT !.req = 0, !.trans = 0]
  <2>1. k \in Memory /\ k.req = 0
    BY CountsFromZero DEF Memory
  <2>2. Remember(m, o) = RememberSynthetic(RecordRecoverySuccess(k), o)
    BY <1>1 DEF Remember
  <2> HIDE DEF k
  <2>3. RecordRecoverySuccess(k) \in Memory /\ RecordRecoverySuccess(k).req = 0
    BY <2>1, RecordRecoverySuccessType DEF RecordRecoverySuccess, ClearPollutionRecovery, Memory
  <2>4. Remember(m, o).req = 0
    BY <2>2, <2>3 DEF RememberSynthetic, Memory
  <2> QED
    BY <2>4, EndpointsAssumption DEF EndpointsAssumption, Overdrawn, Fit
<1>2. CASE o # "ok"
  <2>1. Remember(m, o).last # "ok"
    BY <1>2, RememberType
  <2>2. Remember(m, o).req = m.req
    BY <1>2 DEF Remember, RememberSynthetic, Memory
  <2> QED
    BY <1>2, <2>1, <2>2 DEF Overdrawn, Fit
<1> QED
  BY <1>1, <1>2

LEMMA PurgeFit ==
    ASSUME NEW m \in Memory, NEW e
    PROVE  /\ Purge(e, m).req = m.req
           /\ Fit(m) => Fit(Purge(e, m))
<1> DEFINE unguarded == [m EXCEPT !.gpol = "none"]
           cleared == IF Replaces(e, m) THEN ClearReplacedDirectPollution(unguarded)
                      ELSE unguarded
<1>1. /\ unguarded \in Memory /\ unguarded.req = m.req
      /\ unguarded.last = m.last /\ unguarded.wait = m.wait
  BY DEF Memory, Timer
<1> HIDE DEF unguarded
<1>2. /\ cleared \in Memory /\ cleared.req = m.req
      /\ \/ cleared.wait = "none"
         \/ cleared.last = m.last /\ cleared.wait = m.wait
  BY <1>1, ClearReplacedDirectPollutionType DEF ClearReplacedDirectPollution, Memory
<1>3. \/ Purge(e, m) = m
      \/ Purge(e, m) = cleared
      \/ Purge(e, m) = [cleared EXCEPT !.pol = "none", !.clean = 0]
  BY DEF Purge, unguarded
<1> HIDE DEF cleared
<1>4. /\ Purge(e, m).req = m.req
      /\ \/ Purge(e, m).wait = "none"
         \/ Purge(e, m).last = m.last /\ Purge(e, m).wait = m.wait
  BY <1>2, <1>3 DEF Memory
<1> QED
  BY <1>4 DEF Fit, Overdrawn, Waiting

(* What looking at a candidate comes to: it is taken because it answered   *)
(* and is not cooling, or something speaks against it.                     *)
LEMMA LookAtOutcome ==
    ASSUME IInv, NEW e \in Endpoint, LookAt(e)
    PROVE  \E m \in Memory, o \in Outcome, taken \in BOOLEAN :
             /\ Examined(e, m, o, taken)
             /\ m.cfg = ep[e].cfg
             /\ taken => m.last = "ok" /\ ~Cooling(m)
             /\ ~taken => \/ m.last # "ok" \/ Cooling(m)
                          \/ m.startFailed /\ t.mode # "full"
             /\ Fit(ep[e]) => Fit(m) /\ (taken => ~Overdrawn(m))
             /\ ~Overdrawn(ep[e]) => ~Overdrawn(m)
<1> DEFINE hard == HardBlocked(ep[e])
           m == IF hard \/ IgnoresCooldown THEN ep[e] ELSE Purge(e, ep[e])
           soft == ~hard /\ ~IgnoresCooldown /\ SoftBlocked(m)
           known == Waiting(m) /\ m.last # "unknown"
           usable == known /\ m.last = "ok" /\ ~Cooling(m)
<1>1. ep[e] \in Memory
  BY DEF IInv, TypeOK
<1>2. /\ m \in Memory /\ m.cfg = ep[e].cfg
      /\ Fit(ep[e]) => Fit(m)
      /\ ~Overdrawn(ep[e]) => ~Overdrawn(m)
  BY <1>1, PurgeType, PurgeFit DEF Overdrawn
<1>3. ASSUME hard PROVE m.last # "ok" \/ Cooling(m)
  BY <1>3 DEF HardBlocked
<1> HIDE DEF m
<1>4. CASE hard /\ Examined(e, m, HardResult(m), FALSE)
  BY <1>2, <1>3, <1>4, BlockedOutcome
<1>5. CASE soft /\ Examined(e, m, SoftResult(m), FALSE)
  <2>1. m.last # "ok" \/ Cooling(m) \/ (m.startFailed /\ t.mode # "full")
    BY <1>5 DEF SoftBlocked, IgnoresCooldown
  <2> QED
    BY <1>2, <1>5, <2>1, BlockedOutcome
<1>6. CASE known /\ Examined(e, m, m.last, usable)
  <2>1. m.last \in Outcome /\ usable \in BOOLEAN
    BY <1>2, <1>6 DEF Memory
  <2>2. usable /\ Fit(m) => ~Overdrawn(m)
    BY DEF Fit
  <2> QED
    BY <1>2, <1>6, <2>1, <2>2
<1>7. ASSUME NEW o \in ProbeOutcomes,
             Examined(e, Remember(m, o), o, o = "ok" /\ ~Cooling(Remember(m, o)))
      PROVE  \E k \in Memory, p \in Outcome, taken \in BOOLEAN :
               /\ Examined(e, k, p, taken)
               /\ k.cfg = ep[e].cfg
               /\ taken => k.last = "ok" /\ ~Cooling(k)
               /\ ~taken => \/ k.last # "ok" \/ Cooling(k)
                            \/ k.startFailed /\ t.mode # "full"
               /\ Fit(ep[e]) => Fit(k) /\ (taken => ~Overdrawn(k))
               /\ ~Overdrawn(ep[e]) => ~Overdrawn(k)
  <2>1. o \in Outcome /\ (o = "ok" /\ ~Cooling(Remember(m, o))) \in BOOLEAN
    BY SupervisorAssumption DEF SupervisorAssumption
  <2>2. /\ Remember(m, o) \in Memory
        /\ Remember(m, o).cfg = ep[e].cfg
        /\ Remember(m, o).last = o
        /\ Fit(Remember(m, o))
        /\ o = "ok" \/ ~Overdrawn(m) => ~Overdrawn(Remember(m, o))
    BY <1>2, <2>1, RememberType, RememberFit
  <2> QED
    BY <1>2, <1>7, <2>1, <2>2
<1>8. \/ hard /\ Examined(e, m, HardResult(m), FALSE)
      \/ soft /\ Examined(e, m, SoftResult(m), FALSE)
      \/ known /\ Examined(e, m, m.last, usable)
      \/ \E o \in ProbeOutcomes :
           Examined(e, Remember(m, o), o, o = "ok" /\ ~Cooling(Remember(m, o)))
  BY DEF LookAt, m
<1> HIDE DEF hard, soft, known, usable
<1> QED
  BY <1>4, <1>5, <1>6, <1>7, <1>8

(* What a recovery probe does to the endpoint it is about.                 *)
LEMMA RecoverOneOutcome ==
    ASSUME IInv, NEW e \in Endpoint, RecoverOne(e)
    PROVE  \E m \in Memory :
             /\ m.cfg = ep[e].cfg /\ ep' = [ep EXCEPT ![e] = m]
             /\ Fit(ep[e]) => Fit(m)
             /\ ~Overdrawn(ep[e]) => ~Overdrawn(m)
<1> DEFINE m == IF HardBlocked(ep[e]) THEN ep[e] ELSE Purge(e, ep[e])
<1>1. ep[e] \in Memory
  BY DEF IInv, TypeOK
<1>2. /\ m \in Memory /\ m.cfg = ep[e].cfg
      /\ Fit(ep[e]) => Fit(m)
      /\ ~Overdrawn(ep[e]) => ~Overdrawn(m)
  BY <1>1, PurgeType, PurgeFit DEF Overdrawn
<1>3. ASSUME NEW o \in ProbeOutcomes
      PROVE  /\ Remember(m, o) \in Memory /\ Remember(m, o).cfg = ep[e].cfg
             /\ Fit(Remember(m, o))
             /\ ~Overdrawn(m) => ~Overdrawn(Remember(m, o))
  BY <1>2, RememberType, RememberFit, SupervisorAssumption DEF SupervisorAssumption
<1>4. ep' = [ep EXCEPT ![e] = m] \/ \E o \in ProbeOutcomes : ep' = [ep EXCEPT ![e] = Remember(m, o)]
  BY DEF RecoverOne
<1> HIDE DEF m
<1> QED
  BY <1>2, <1>3, <1>4

(* One candidate of find_first_available has been looked at.               *)
LEMMA ExaminedIInv ==
    ASSUME IInv, pc = "look", UNCHANGED <<current, session, control, requests>>,
           NEW e \in t.todo, NEW m \in Memory, m.cfg = ep[e].cfg,
           NEW o \in Outcome, NEW taken \in BOOLEAN, Examined(e, m, o, taken),
           taken => m.last = "ok" /\ ~Cooling(m)
    PROVE  IInv'
<1>1. /\ t \in TickLocals /\ e \in Endpoint /\ t.todo \subseteq EnabledEndpoints
      /\ t.mode \notin {"hold", "none"}
  BY DEF IInv, TypeOK, TickLocals, TickInv, AtLook
<1>2. /\ ep' \in [Endpoint -> Memory] /\ SameConfig /\ ep'[e] = m
  BY <1>1, Rewrite DEF IInv, TypeOK, Examined
<1>3. /\ t' \in TickLocals
      /\ t'.todo = IF taken THEN {} ELSE t.todo \ {e}
      /\ t'.sel = IF taken THEN e ELSE None
      /\ t'.mode = t.mode /\ t'.failed = t.failed /\ t'.prev = t.prev
  BY <1>1 DEF TickLocals, Examined, MaybeEndpoint
<1>4. pc' = IF taken THEN "commit" ELSE "look"
  BY DEF Examined
<1>5. TypeOK' /\ AgentPaired'
  BY <1>2, <1>3, <1>4 DEF IInv, TypeOK, AgentPaired, session, control, requests
<1>6. AfterFailedLaunch'
  BY <1>3 DEF IInv, TickInv, AfterFailedLaunch, session
<1>7. CASE taken
  <2>1. Enabled(ep[e])
    BY <1>1 DEF EnabledEndpoints
  <2>2. AtCommit'
    BY <1>1, <1>2, <1>3, <1>7, <2>1 DEF AtCommit, SameConfig, Enabled
  <2> QED
    BY <1>4, <1>5, <1>6, <1>7, <2>2, CommitTickInv DEF IInv
<1>8. CASE ~taken
  <2>1. AtLook'
    BY <1>1, <1>2, <1>3, <1>8 DEF AtLook, EnabledEndpoints, SameConfig, Enabled
  <2>2. AtCurrent'
    BY <1>2, <1>3, <1>4, <1>8
    DEF IInv, TypeOK, MaybeEndpoint, TickInv, AtCurrent, SameConfig, Enabled
  <2> QED
    BY <1>4, <1>5, <1>6, <1>8, <2>1, <2>2, LookTickInv DEF IInv
<1> QED
  BY <1>7, <1>8

LEMMA LookAtNextIInv == ASSUME IInv, LookAtNext PROVE IInv'
<1>1. PICK e \in t.todo : LookAt(e)
  BY DEF LookAtNext
<1>2. e \in Endpoint
  BY <1>1 DEF IInv, TypeOK, TickLocals
<1>3. PICK m \in Memory, o \in Outcome, taken \in BOOLEAN :
        /\ Examined(e, m, o, taken) /\ m.cfg = ep[e].cfg
        /\ taken => m.last = "ok" /\ ~Cooling(m)
  BY <1>1, <1>2, LookAtOutcome
<1> QED
  BY <1>1, <1>3, ExaminedIInv DEF LookAtNext

LEMMA LookedAtAllIInv == ASSUME IInv, LookedAtAll PROVE IInv'
<1>1. /\ pc = "look" /\ UNCHANGED <<ep, current, session, control, requests>>
      /\ t \in TickLocals
  BY DEF LookedAtAll, IInv, TypeOK
<1>2. AgentPaired'
  BY <1>1 DEF IInv, AgentPaired, session
<1>3. ASSUME t' \in TickLocals, pc' \in {"recover", "commit"}
      PROVE  TypeOK'
  BY <1>1, <1>3 DEF IInv, TypeOK, session, control, requests
<1>4. ASSUME t'.prev = t.prev, t'.failed = t.failed
      PROVE  AfterFailedLaunch'
  BY <1>1, <1>4 DEF IInv, TickInv, AfterFailedLaunch, session
<1>5. ASSUME NEW sel \in MaybeEndpoint, NEW avail \in {t.avail, "ok"}, Decide(sel, avail),
             sel # None => sel = current /\ ~t.failed /\ Enabled(ep[sel])
      PROVE  IInv'
  <2>1. t' \in TickLocals
    BY <1>1, <1>5 DEF TickLocals, Outcome, Decide
  <2>2. t'.sel = sel /\ t'.failed = t.failed /\ t'.prev = t.prev
    BY <1>1, <1>5 DEF TickLocals, Decide
  <2>3. AtCommit'
    BY <1>1, <1>5, <2>2 DEF AtCommit
  <2> QED
    BY <1>2, <1>3, <1>4, <1>5, <2>1, <2>2, <2>3, CommitTickInv DEF IInv, Decide
<1>6. CASE t.mode = "upgrade"
  <2>1. /\ t' = [t EXCEPT !.todo = EnabledEndpoints \ ({current} \cup Heavier(current))]
        /\ pc' = "recover"
    BY <1>6 DEF LookedAtAll
  <2>2. /\ t' \in TickLocals
        /\ t'.mode = "upgrade" /\ t'.failed = t.failed /\ t'.prev = t.prev
        /\ t'.todo \subseteq EnabledEndpoints
    BY <1>1, <1>6, <2>1 DEF TickLocals, EnabledEndpoints
  <2>3. current # None /\ ~t.failed /\ Enabled(ep[current])
    BY <1>1, <1>6 DEF IInv, TickInv, AtCurrent
  <2>4. TickInv'
    BY <1>1, <1>4, <2>1, <2>2, <2>3
    DEF TickInv, AtFree, AtCurrent, AtLook, AtRecover, AtCommit, EnabledEndpoints
  <2> QED
    BY <1>2, <1>3, <2>1, <2>2, <2>4 DEF IInv
<1>7. CASE t.mode = "forced"
  <2>1. Decide(IF Enabled(ep[current]) THEN current ELSE None, "ok")
    BY <1>7 DEF LookedAtAll
  <2>2. ~t.failed /\ current \in MaybeEndpoint
    BY <1>1, <1>7 DEF IInv, TypeOK, TickInv, AtCurrent
  <2>3. CASE Enabled(ep[current])
    BY <1>5, <2>1, <2>2, <2>3
  <2>4. CASE ~Enabled(ep[current])
    BY <1>5, <2>1, <2>4 DEF MaybeEndpoint
  <2> QED
    BY <2>3, <2>4
<1>8. CASE t.mode \notin {"upgrade", "forced"}
  <2>1. Decide(None, t.avail)
    BY <1>8 DEF LookedAtAll
  <2> QED
    BY <1>5, <2>1 DEF MaybeEndpoint
<1> QED
  BY <1>6, <1>7, <1>8

LEMMA RecoverIInv == ASSUME IInv, Recover PROVE IInv'
<1>1. PICK e \in t.todo : RecoverOne(e)
  BY DEF Recover
<1>2. t \in TickLocals /\ e \in Endpoint
  BY <1>1 DEF IInv, TypeOK, TickLocals
<1>3. PICK new \in Memory : new.cfg = ep[e].cfg /\ ep' = [ep EXCEPT ![e] = new]
  BY <1>1, <1>2, RecoverOneOutcome
<1>4. ep' \in [Endpoint -> Memory] /\ SameConfig
  BY <1>2, <1>3, Rewrite DEF IInv, TypeOK
<1>5. /\ t' \in TickLocals
      /\ t'.mode = t.mode /\ t'.failed = t.failed /\ t'.prev = t.prev
      /\ t'.todo \subseteq t.todo
  BY <1>1, <1>2 DEF RecoverOne, TickLocals
<1>6. TypeOK' /\ AgentPaired'
  BY <1>4, <1>5 DEF IInv, TypeOK, AgentPaired, Recover, session, control, requests
<1>7. TickInv'
  <2>1. pc' = "recover" /\ pc = "recover" /\ current' = current /\ agent' = agent
    BY DEF Recover, session
  <2>2. /\ current # None /\ current \in Endpoint /\ ~t.failed
        /\ t.mode \in {"hold", "upgrade"} /\ Enabled(ep[current])
    BY <2>1 DEF IInv, TypeOK, MaybeEndpoint, TickInv, AtCurrent, AtRecover
  <2>3. Enabled(ep[current])'
    BY <1>4, <2>1, <2>2 DEF SameConfig, Enabled
  <2>4. AfterFailedLaunch'
    BY <1>5, <2>1 DEF IInv, TickInv, AfterFailedLaunch
  <2>5. t'.todo \subseteq EnabledEndpoints'
    BY <1>4, <1>5, <2>1 DEF IInv, TickInv, AtRecover, EnabledEndpoints, SameConfig, Enabled
  <2> QED
    BY <1>5, <2>1, <2>2, <2>3, <2>4, <2>5
    DEF TickInv, AtFree, AtCurrent, AtLook, AtRecover, AtCommit
<1> QED
  BY <1>6, <1>7 DEF IInv

LEMMA RecoveredIInv == ASSUME IInv, Recovered PROVE IInv'
<1>1. /\ pc = "recover" /\ UNCHANGED <<ep, current, session, control, requests>>
      /\ t \in TickLocals
  BY DEF Recovered, IInv, TypeOK
<1>2. AgentPaired'
  BY <1>1 DEF IInv, AgentPaired, session
<1>3. CASE EndTick
  <2>1. TypeOK'
    BY <1>1, <1>3, NoTickType DEF IInv, TypeOK, EndTick, session, control, requests
  <2> QED
    BY <1>2, <1>3, <2>1, FreeTickInv DEF IInv, EndTick
<1>4. CASE Decide(current, t.avail)
  <2>1. current \in MaybeEndpoint /\ current # None /\ Enabled(ep[current]) /\ ~t.failed
    BY <1>1 DEF IInv, TypeOK, TickInv, AtCurrent, AtRecover
  <2>2. /\ t' \in TickLocals /\ t'.sel = current /\ t'.failed = t.failed
        /\ t'.prev = t.prev
    BY <1>1, <1>4, <2>1 DEF TickLocals, Decide
  <2>3. TypeOK'
    BY <1>1, <1>4, <2>2 DEF IInv, TypeOK, Decide, session, control, requests
  <2>4. AtCommit' /\ AfterFailedLaunch'
    BY <1>1, <2>1, <2>2 DEF AtCommit, IInv, TickInv, AfterFailedLaunch, session
  <2> QED
    BY <1>2, <1>4, <2>3, <2>4, CommitTickInv DEF IInv, Decide
<1> QED
  BY <1>3, <1>4 DEF Recovered

(* The end of a tick.                                                      *)
LEMMA EndTickIInv == ASSUME TypeOK', AgentPaired', EndTick PROVE IInv'
BY FreeTickInv DEF IInv, EndTick

LEMMA NothingIInv == ASSUME IInv, Nothing PROVE IInv'
<1>1. CASE current # None /\ UNCHANGED <<current, session>> /\ Drive(current)
  <2>1. ep' \in [Endpoint -> Memory]
    BY <1>1, DriveType DEF IInv, TypeOK, MaybeEndpoint
  <2>2. TypeOK' /\ AgentPaired'
    BY <1>1, <2>1, NoTickType
    DEF IInv, TypeOK, AgentPaired, Nothing, EndTick, session, control, requests
  <2> QED
    BY <2>2, EndTickIInv DEF Nothing
<1>2. CASE StopAgent /\ current' = None /\ UNCHANGED <<ep, nextSession>>
  <2>1. TypeOK' /\ AgentPaired'
    BY <1>2, NoTickType
    DEF IInv, TypeOK, AgentPaired, MaybeEndpoint, Nothing, StopAgent, EndTick, control, requests
  <2> QED
    BY <2>1, EndTickIInv DEF Nothing
<1> QED
  BY <1>1, <1>2 DEF Nothing

LEMMA StayIInv == ASSUME IInv, Stay PROVE IInv'
<1>1. t.sel \in Endpoint
  BY DEF IInv, TypeOK, TickLocals, MaybeEndpoint, Stay
<1>2. ep' \in [Endpoint -> Memory]
  BY <1>1, DriveType DEF Stay
<1>3. TypeOK' /\ AgentPaired'
  BY <1>2, NoTickType
  DEF IInv, TypeOK, AgentPaired, Stay, EndTick, session, control, requests
<1> QED
  BY <1>3, EndTickIInv DEF Stay

LEMMA SwitchIInv == ASSUME IInv, Switch PROVE IInv'
<1>1. t.sel \in Endpoint /\ t \in TickLocals /\ t.sel # None
  BY DEF IInv, TypeOK, TickLocals, MaybeEndpoint, Switch
<1>2. CASE Launch(t.sel) /\ Drive(t.sel) /\ EndTick
  <2>1. ep' \in [Endpoint -> Memory]
    BY <1>1, <1>2, DriveType
  <2>2. TypeOK' /\ AgentPaired'
    BY <1>1, <1>2, <2>1, LaunchType, NoTickType
    DEF IInv, TypeOK, MaybeEndpoint, Switch, EndTick, control, requests
  <2> QED
    BY <1>2, <2>2, EndTickIInv
<1>3. CASE /\ LaunchFails
           /\ ep' = [ep EXCEPT ![t.sel] = MarkStartupFailure(@)]
           /\ t' = [t EXCEPT !.full = FALSE, !.failed = TRUE, !.skip = TRUE,
                             !.prev = t.sel, !.sel = None, !.avail = "none"]
           /\ pc' = "choose"
  <2>1. ep' \in [Endpoint -> Memory]
    BY <1>1, <1>3, MarkStartupFailureType DEF IInv, TypeOK
  <2>2. t' \in TickLocals /\ t'.failed
    BY <1>1, <1>3 DEF TickLocals, MaybeEndpoint
  <2>3. TypeOK' /\ AgentPaired'
    BY <1>3, <2>1, <2>2, LaunchFailsType
    DEF IInv, TypeOK, MaybeEndpoint, Switch, control, requests
  <2>4. AfterFailedLaunch'
    BY <1>3, <2>2, LaunchFailsType DEF AfterFailedLaunch, IInv
  <2> QED
    BY <1>3, <2>3, <2>4, ChooseTickInv DEF IInv
<1> QED
  BY <1>2, <1>3 DEF Switch

LEMMA GiveUpIInv == ASSUME IInv, GiveUp PROVE IInv'
<1>1. TypeOK' /\ AgentPaired'
  BY NoTickType DEF IInv, TypeOK, AgentPaired, GiveUp, EndTick, session, control, requests
<1> QED
  BY <1>1, EndTickIInv DEF GiveUp

-----------------------------------------------------------------------------
(* Every step preserves the invariant.                                     *)
LEMMA NextIInv == ASSUME IInv, [Next]_vars PROVE IInv'
<1>1. CASE Tick
  BY <1>1, DirectStartIInv, HoldIInv, WatchIInv, CheckIInv, ChooseIInv, LookAtNextIInv,
     LookedAtAllIInv, RecoverIInv, RecoveredIInv, NothingIInv, StayIInv, SwitchIInv,
     GiveUpIInv DEF Tick
<1>2. CASE UserCommand
  BY <1>2, StartRuntimeIInv, StopRuntimeIInv, RestartIInv, ForceNewConversationIInv,
     ForkSessionIInv, RequestIInv, ForceStartEndpointIInv, SetEndpointEnabledIInv,
     SetEndpointGuardProxyEnabledIInv, ReplaceConfigIInv, SetFixedEndpointIInv,
     SetForceProbeEndpointIInv DEF UserCommand, MaybeEndpoint
<1>3. CASE Environment
  BY <1>3, ExitIInv, TimePassesIInv DEF Environment
<1>4. CASE UNCHANGED vars
  BY <1>4 DEF vars, IInv, TypeOK, AgentPaired, TickInv, AtFree, AtCurrent, AtLook,
              AtRecover, AtCommit, AfterFailedLaunch, EnabledEndpoints
<1> QED
  BY <1>1, <1>2, <1>3, <1>4 DEF Next

THEOREM Invariance == Spec => []IInv
<1>1. Init => IInv
  BY InitIInv
<1>2. IInv /\ [Next]_vars => IInv'
  BY NextIInv
<1> QED
  BY <1>1, <1>2, PTL DEF Spec

(* Types, for every number of endpoints and every command.                 *)
THEOREM TypeCorrect == Spec => []TypeOK
<1>1. IInv => TypeOK
  BY DEF IInv
<1> QED
  BY <1>1, Invariance, PTL

(* No step ever leaves a guard or an agent of another endpoint.            *)
THEOREM AgentPairing == Spec => []AgentPaired
<1>1. IInv => AgentPaired
  BY DEF IInv
<1> QED
  BY <1>1, Invariance, PTL

(* What a tick decides to move to is enabled, answered and not cooling.    *)
THEOREM SelectionIsUsable == Spec => []SelectionUsable
<1>1. IInv => SelectionUsable
  BY DEF IInv, TickInv, AtCommit, SelectionUsable
<1> QED
  BY <1>1, Invariance, PTL

-----------------------------------------------------------------------------
(* Only these steps end a tick.                                            *)
LEMMA EndingSteps ==
    ASSUME [Next]_vars, TickEnds
    PROVE  (Recovered /\ EndTick) \/ Nothing \/ Stay \/ Switch \/ GiveUp
<1>1. ~UNCHANGED vars
  BY DEF TickEnds, vars
<1>2. CASE Tick
  BY <1>2 DEF Tick, TickEnds, DirectStart, Hold, Watch, Check, Choose, ChooseFull,
              ChooseFixed, ChooseForced, ChooseAny, ChooseUpgrade, Look, Decide,
              LookAtNext, LookAt, Examined, LookedAtAll, Recover, Recovered
<1>3. CASE UserCommand
  BY <1>3 DEF UserCommand, TickEnds, Command, StartRuntime, StopRuntime, Restart,
              ForceNewConversation, ForkSession, ForceStartEndpoint, SetFixedEndpoint,
              SetForceProbeEndpoint, SetEndpointEnabled, SetEndpointGuardProxyEnabled,
              ReplaceConfig, ForceCurrentProbe, ConfirmCurrentProbe, ForceFullProbe,
              SetPaused
<1>4. CASE Environment
  BY <1>4 DEF Environment, TickEnds, AgentExits, GuardExits, TimePasses
<1> QED
  BY <1>1, <1>2, <1>3, <1>4 DEF Next

LEMMA NoStrayAgentStep ==
    ASSUME IInv, [Next]_vars, TickEnds, agent' # None
    PROVE  agent' = current' /\ Enabled(ep'[agent'])
<1>1. CASE Recovered /\ EndTick
  <2>1. UNCHANGED <<ep, current, agent>> /\ current # None /\ Enabled(ep[current])
    BY <1>1 DEF IInv, TickInv, AtCurrent, AtRecover, Recovered, session
  <2> QED
    BY <2>1 DEF IInv, AgentPaired
<1>2. CASE Nothing
  <2>1. /\ current # None /\ KeepsSingle /\ Drive(current)
        /\ UNCHANGED <<current, agent>>
    BY <1>2 DEF Nothing, StopAgent, session
  <2>2. current \in Endpoint
    BY <2>1 DEF IInv, TypeOK, MaybeEndpoint
  <2>3. Enabled(ep[current]) /\ agent = current
    BY <2>1, <2>2 DEF KeepsSingle, EnabledEndpoints, IInv, AgentPaired
  <2> QED
    BY <2>1, <2>2, <2>3, DriveType DEF SameConfig, Enabled
<1>3. CASE Stay
  <2>1. /\ t.sel = current /\ t.sel # None /\ Drive(t.sel)
        /\ UNCHANGED <<current, agent>>
    BY <1>3 DEF Stay, Changed, session
  <2>2. t.sel \in Endpoint /\ Enabled(ep[t.sel]) /\ agent = current
    BY <1>3, <2>1
    DEF IInv, TypeOK, MaybeEndpoint, TickInv, AtCommit, AgentPaired, Stay
  <2> QED
    BY <2>1, <2>2, DriveType DEF SameConfig, Enabled
<1>4. CASE Switch
  <2>1. Launch(t.sel) /\ Drive(t.sel)
    BY <1>4 DEF Switch, TickEnds
  <2>2. t.sel \in Endpoint /\ Enabled(ep[t.sel])
    BY <1>4 DEF IInv, TypeOK, TickLocals, MaybeEndpoint, TickInv, AtCommit, Switch
  <2> QED
    BY <2>1, <2>2, DriveType DEF Launch, SameConfig, Enabled
<1>5. CASE GiveUp
  BY <1>5 DEF GiveUp, IInv, TickInv, AfterFailedLaunch, session
<1> QED
  BY <1>1, <1>2, <1>3, <1>4, <1>5, EndingSteps

(* A finished tick leaves the agent, if any, on the current endpoint, and  *)
(* that endpoint is enabled: whatever the users and the config edits do.   *)
THEOREM AgentNeverStray == Spec => NoStrayAgent
<1>1. IInv /\ [Next]_vars
        => [TickEnds /\ agent' # None => agent' = current' /\ Enabled(ep'[agent'])]_vars
  BY NoStrayAgentStep
<1> QED
  BY <1>1, Invariance, PTL DEF Spec, NoStrayAgent

LEMMA PollutionEvictsStep ==
    ASSUME IInv, [Next]_vars, TickEnds, t.failed, current # None, Cooling(ep[current])
    PROVE  agent' # current
<1>1. CASE Recovered /\ EndTick
  BY <1>1 DEF IInv, TickInv, AtCurrent, Recovered
<1>2. CASE Nothing
  BY <1>2 DEF Nothing, KeepsSingle, StopAgent
<1>3. CASE Stay
  BY <1>3 DEF Stay, Changed, IInv, TickInv, AtCommit
<1>4. CASE Switch
  BY <1>4 DEF Switch, Launch, TickEnds, IInv, TickInv, AtCommit
<1>5. CASE GiveUp
  BY <1>5 DEF GiveUp, IInv, TickInv, AfterFailedLaunch, session
<1> QED
  BY <1>1, <1>2, <1>3, <1>4, <1>5, EndingSteps

(* A tick that saw the running endpoint fail does not keep its agent on it *)
(* through a pollution cooldown.                                           *)
THEOREM PollutionAlwaysEvicts == Spec => PollutionEvicts
<1>1. IInv /\ [Next]_vars
        => [TickEnds /\ t.failed /\ current # None /\ Cooling(ep[current])
              => agent' # current]_vars
  BY PollutionEvictsStep
<1> QED
  BY <1>1, Invariance, PTL DEF Spec, PollutionEvicts

-----------------------------------------------------------------------------
(* What a search for an endpoint has found out.                            *)

(* A tick begins its search afresh, unless a launch has failed.            *)
FreshChoice == pc \in {"check", "choose"} => t.failed \/ t.mode = "none"

(* Where a search for an endpoint looks.                                   *)
Scope ==
    CASE t.mode = "any" -> EnabledEndpoints \ (IF t.skip THEN {current} ELSE {})
      [] t.mode = "upgrade" -> Heavier(current)
      [] OTHER -> EnabledEndpoints

(* The search has looked at f and did not take it. A full search overrides *)
(* the startup retry window.                                               *)
RuledOut(f) ==
    \/ ep[f].last # "ok" \/ Cooling(ep[f])
    \/ ep[f].startFailed /\ t.mode # "full"

Searched ==
    pc = "look" /\ t.mode \in {"any", "full", "upgrade"} =>
        t.todo \subseteq Scope /\ \A f \in Scope \ t.todo : RuledOut(f)

(* The recovery probes after an upgrade search leave its verdicts alone.   *)
StillSearched ==
    pc = "recover" /\ t.mode = "upgrade" =>
        \A f \in Heavier(current) : f \notin t.todo /\ RuledOut(f)

(* A fixed endpoint that can be used is all a tick turns to.               *)
OnlyFixed ==
    fixed # None /\ Enabled(ep[fixed]) =>
        /\ pc = "look" /\ t.mode # "full" => t.mode = "fixed" /\ t.todo \subseteq {fixed}
        /\ pc = "recover" => t.mode = "hold"
        /\ pc = "commit" /\ t.mode # "full" => t.sel \in {None, fixed}

SearchInv == FreshChoice /\ Searched /\ StillSearched /\ OnlyFixed

(* Between ticks there is nothing to say of a search.                      *)
LEMMA FreeSearchInv == ASSUME pc' \in {"free", "stopped"} PROVE SearchInv'
BY DEF SearchInv, FreshChoice, Searched, StillSearched, OnlyFixed

(* Commands are given, and their work is done, between two ticks.          *)
LEMMA CommandSteps == ASSUME UserCommand PROVE pc' \in {"free", "stopped"}
<1>1. ASSUME NEW e \in Endpoint, NEW on \in BOOLEAN,
             SetEndpointEnabled(e, on) \/ SetEndpointGuardProxyEnabled(e, on)
      PROVE  pc' = "free"
  <2>1. CASE SetEndpointEnabled(e, on)
    BY <2>1 DEF SetEndpointEnabled, Command
  <2>2. CASE SetEndpointGuardProxyEnabled(e, on)
    BY <2>2 DEF SetEndpointGuardProxyEnabled, Command, RestartAgent
  <2> QED
    BY <1>1, <2>1, <2>2
<1>2. ASSUME NEW e \in Endpoint, NEW cfg, NEW guarded, ReplaceConfig(e, cfg, guarded)
      PROVE  pc' = "free"
  BY <1>2 DEF ReplaceConfig, Command
<1>3. ASSUME NEW e, ForceStartEndpoint(e) \/ SetFixedEndpoint(e) \/ SetForceProbeEndpoint(e)
      PROVE  pc' = "free"
  BY <1>3 DEF ForceStartEndpoint, SetFixedEndpoint, SetForceProbeEndpoint, Command
<1>4. CASE StartRuntime \/ StopRuntime
  BY <1>4 DEF StartRuntime, StopRuntime
<1>5. CASE Restart \/ ForceNewConversation \/ ForkSession
  BY <1>5 DEF Restart, RestartAgent, ForceNewConversation, ForkSession, Command
<1>6. CASE ForceCurrentProbe \/ ConfirmCurrentProbe \/ ForceFullProbe \/ SetPaused
  BY <1>6 DEF ForceCurrentProbe, ConfirmCurrentProbe, ForceFullProbe, SetPaused, Command
<1> QED
  BY <1>1, <1>2, <1>3, <1>4, <1>5, <1>6 DEF UserCommand

(* Every step either leaves the worker between two ticks, or is a step of  *)
(* the tick, or has nothing to do with a tick under way.                   *)
LEMMA StepKinds ==
    ASSUME [Next]_vars
    PROVE  \/ pc' \in {"free", "stopped"}
           \/ Hold \/ Watch \/ Check \/ Choose \/ LookAtNext \/ LookedAtAll
           \/ Recover \/ Recovered \/ Switch
           \/ UNCHANGED <<ep, current, fixed, pc, t>>
           \/ \E e \in Endpoint, d \in Deadline : TimePasses(e, d)
<1>1. CASE Tick
  BY <1>1 DEF Tick, DirectStart, Nothing, Stay, GiveUp, EndTick
<1>2. CASE UserCommand
  BY <1>2, CommandSteps
<1>3. CASE Environment
  BY <1>3 DEF Environment, AgentExits, GuardExits, control
<1>4. CASE UNCHANGED vars
  BY <1>4 DEF vars
<1> QED
  BY <1>1, <1>2, <1>3, <1>4 DEF Next

LEMMA HoldSearchInv == ASSUME IInv, Hold PROVE SearchInv'
<1>1. pc' = "recover" /\ t'.mode = "hold"
  BY DEF Hold, NoTick
<1> QED
  BY <1>1 DEF SearchInv, FreshChoice, Searched, StillSearched, OnlyFixed

LEMMA WatchSearchInv == ASSUME IInv, Watch PROVE SearchInv'
<1>1. pc' \in {"check", "choose"} /\ t'.mode = "none"
  BY DEF Watch, NoTick
<1> QED
  BY <1>1 DEF SearchInv, FreshChoice, Searched, StillSearched, OnlyFixed

LEMMA CheckSearchInv == ASSUME IInv, SearchInv, Check PROVE SearchInv'
<1>1. t.mode = "none" /\ t \in TickLocals
  BY DEF IInv, TypeOK, TickInv, AtCurrent, SearchInv, FreshChoice, Check
<1>2. pc' = "choose" /\ t'.mode = "none"
  BY <1>1 DEF Check, TickLocals
<1> QED
  BY <1>2 DEF SearchInv, FreshChoice, Searched, StillSearched, OnlyFixed

(* A search begins with everything it is to look at.                       *)
LEMMA ChooseSearchInv == ASSUME IInv, SearchInv, Choose PROVE SearchInv'
<1>1. UNCHANGED <<ep, current, fixed>> /\ t \in TickLocals
  BY DEF Choose, control, IInv, TypeOK
<1>2. ASSUME NEW mode, NEW todo, NEW avail, Look(mode, todo, avail),
             mode = "any" => todo = EnabledEndpoints \ (IF t.skip THEN {current} ELSE {}),
             mode = "upgrade" => todo = Heavier(current),
             mode = "full" => todo = EnabledEndpoints,
             fixed # None /\ Enabled(ep[fixed]) =>
               mode = "full" \/ (mode = "fixed" /\ todo \subseteq {fixed})
      PROVE  SearchInv'
  <2>1. /\ t'.mode = mode /\ t'.todo = todo /\ t'.skip = t.skip
        /\ pc' = "look"
    BY <1>1, <1>2 DEF Look, TickLocals
  <2>2. Searched'
    BY <1>1, <1>2, <2>1 DEF Searched, Scope, Heavier, EnabledEndpoints
  <2>3. OnlyFixed'
    BY <1>1, <1>2, <2>1 DEF OnlyFixed
  <2> QED
    BY <2>1, <2>2, <2>3 DEF SearchInv, FreshChoice, StillSearched
<1>3. ASSUME NEW sel, NEW avail, Decide(sel, avail), sel \in {None, fixed}
      PROVE  SearchInv'
  <2>1. t'.sel = sel /\ pc' = "commit"
    BY <1>1, <1>3 DEF Decide, TickLocals
  <2> QED
    BY <1>1, <1>3, <2>1 DEF SearchInv, FreshChoice, Searched, StillSearched, OnlyFixed
<1>4. CASE ChooseFull
  BY <1>2, <1>4 DEF ChooseFull
<1>5. CASE ChooseFixed
  BY <1>2, <1>3, <1>5 DEF ChooseFixed
<1>6. CASE ChooseForced
  BY <1>2, <1>6 DEF ChooseForced, UsesForced, UsesFixed
<1>7. CASE ChooseAny
  BY <1>2, <1>7 DEF ChooseAny, UsesFixed
<1>8. CASE ChooseUpgrade
  BY <1>2, <1>3, <1>8 DEF ChooseUpgrade, UsesFixed
<1> QED
  BY <1>4, <1>5, <1>6, <1>7, <1>8 DEF Choose

LEMMA LookAtNextSearchInv == ASSUME IInv, SearchInv, LookAtNext PROVE SearchInv'
<1>1. PICK e \in t.todo : LookAt(e)
  BY DEF LookAtNext
<1>2. t \in TickLocals /\ e \in Endpoint
  BY <1>1 DEF IInv, TypeOK, TickLocals
<1>3. PICK m \in Memory, o \in Outcome, taken \in BOOLEAN :
        /\ Examined(e, m, o, taken)
        /\ m.cfg = ep[e].cfg
        /\ taken => m.last = "ok" /\ ~Cooling(m)
        /\ ~taken => m.last # "ok" \/ Cooling(m) \/ (m.startFailed /\ t.mode # "full")
  BY <1>1, <1>2, LookAtOutcome
<1>4. pc = "look" /\ UNCHANGED <<current, fixed>>
  BY DEF LookAtNext, control
<1>5. /\ SameConfig /\ ep'[e] = m
      /\ \A f \in Endpoint \ {e} : ep'[f] = ep[f]
  BY <1>2, <1>3, Rewrite DEF IInv, TypeOK, Examined
<1>6. /\ t'.todo = IF taken THEN {} ELSE t.todo \ {e}
      /\ t'.sel = IF taken THEN e ELSE None
      /\ t'.mode = t.mode /\ t'.skip = t.skip
      /\ pc' = IF taken THEN "commit" ELSE "look"
  BY <1>2, <1>3 DEF TickLocals, Examined
<1>7. OnlyFixed'
  <2>1. ASSUME fixed # None, Enabled(ep[fixed])'
        PROVE  t.mode # "full" => t.mode = "fixed" /\ t.todo \subseteq {fixed}
    <3>1. fixed \in Endpoint
      BY <2>1 DEF IInv, TypeOK, MaybeEndpoint
    <3>2. Enabled(ep[fixed])
      BY <1>4, <1>5, <2>1, <3>1 DEF SameConfig, Enabled
    <3> QED
      BY <1>4, <2>1, <3>2 DEF SearchInv, OnlyFixed
  <2> QED
    BY <1>1, <1>4, <1>6, <2>1 DEF OnlyFixed
<1>8. Searched'
  <2> SUFFICES ASSUME ~taken, t.mode \in {"any", "full", "upgrade"}
               PROVE  t'.todo \subseteq Scope' /\ \A f \in Scope' \ t'.todo : RuledOut(f)'
    BY <1>6 DEF Searched
  <2>1. EnabledEndpoints' = EnabledEndpoints
    BY <1>5 DEF EnabledEndpoints, SameConfig, Enabled
  <2>2. Scope' = Scope /\ Scope \subseteq Endpoint
    BY <1>4, <1>6, <2>1 DEF Scope, Heavier, EnabledEndpoints
  <2>3. t.todo \subseteq Scope /\ \A f \in Scope \ t.todo : RuledOut(f)
    BY <1>4 DEF SearchInv, Searched
  <2>4. RuledOut(e)'
    BY <1>3, <1>5, <1>6 DEF RuledOut
  <2>5. \A f \in Scope \ t.todo : RuledOut(f)'
    BY <1>1, <1>5, <1>6, <2>2, <2>3 DEF RuledOut
  <2> QED
    BY <1>6, <2>2, <2>3, <2>4, <2>5
<1> QED
  BY <1>6, <1>7, <1>8 DEF SearchInv, FreshChoice, StillSearched

LEMMA LookedAtAllSearchInv == ASSUME IInv, SearchInv, LookedAtAll PROVE SearchInv'
<1>1. /\ pc = "look" /\ t.todo = {} /\ UNCHANGED <<ep, current, fixed>>
      /\ t \in TickLocals
  BY DEF LookedAtAll, control, IInv, TypeOK
<1>2. fixed # None /\ Enabled(ep[fixed]) => t.mode \in {"full", "fixed"}
  BY <1>1 DEF SearchInv, OnlyFixed
<1>3. CASE t.mode = "upgrade"
  <2>1. /\ t'.mode = "upgrade" /\ pc' = "recover"
        /\ t'.todo = EnabledEndpoints \ ({current} \cup Heavier(current))
    BY <1>1, <1>3 DEF LookedAtAll, TickLocals
  <2>2. \A f \in Heavier(current) : RuledOut(f)
    BY <1>1, <1>3 DEF SearchInv, Searched, Scope
  <2>3. StillSearched'
    BY <1>1, <1>3, <2>1, <2>2 DEF StillSearched, RuledOut, Heavier, EnabledEndpoints
  <2> QED
    BY <1>1, <1>2, <1>3, <2>1, <2>3 DEF SearchInv, FreshChoice, Searched, OnlyFixed
<1>4. CASE t.mode # "upgrade"
  <2>1. /\ pc' = "commit"
        /\ t.mode # "forced" => t'.sel = None
    BY <1>1, <1>4 DEF LookedAtAll, Decide, TickLocals
  <2> QED
    BY <1>1, <1>2, <2>1 DEF SearchInv, FreshChoice, Searched, StillSearched, OnlyFixed
<1> QED
  BY <1>3, <1>4

LEMMA RecoverSearchInv == ASSUME IInv, SearchInv, Recover PROVE SearchInv'
<1>1. PICK e \in t.todo : RecoverOne(e)
  BY DEF Recover
<1>2. /\ t \in TickLocals /\ e \in Endpoint
      /\ pc = "recover" /\ pc' = "recover" /\ UNCHANGED <<current, fixed>>
  BY <1>1 DEF IInv, TypeOK, TickLocals, Recover, control
<1>3. PICK m \in Memory : m.cfg = ep[e].cfg /\ ep' = [ep EXCEPT ![e] = m]
  BY <1>1, <1>2, RecoverOneOutcome
<1>4. /\ SameConfig
      /\ \A f \in Endpoint \ {e} : ep'[f] = ep[f]
  BY <1>2, <1>3, Rewrite DEF IInv, TypeOK
<1>5. t'.mode = t.mode /\ t'.todo = t.todo \ {e}
  BY <1>1, <1>2 DEF RecoverOne, TickLocals
<1>6. StillSearched'
  <2> SUFFICES ASSUME t.mode = "upgrade", NEW f \in Heavier(current)'
               PROVE  f \notin t'.todo /\ RuledOut(f)'
    BY <1>5 DEF StillSearched
  <2>1. f \in Endpoint /\ f \in Heavier(current)
    BY <1>2, <1>4 DEF Heavier, EnabledEndpoints, SameConfig, Enabled
  <2>2. f \notin t.todo /\ RuledOut(f)
    BY <1>2, <2>1 DEF SearchInv, StillSearched
  <2> QED
    BY <1>1, <1>4, <1>5, <2>1, <2>2 DEF RuledOut
<1>7. OnlyFixed'
  <2> SUFFICES ASSUME fixed # None, Enabled(ep[fixed])' PROVE t.mode = "hold"
    BY <1>2, <1>5 DEF OnlyFixed
  <2>1. fixed \in Endpoint
    BY DEF IInv, TypeOK, MaybeEndpoint
  <2>2. Enabled(ep[fixed])
    BY <1>2, <1>4, <2>1 DEF SameConfig, Enabled
  <2> QED
    BY <1>2, <2>2 DEF SearchInv, OnlyFixed
<1> QED
  BY <1>2, <1>6, <1>7 DEF SearchInv, FreshChoice, Searched

LEMMA RecoveredSearchInv == ASSUME IInv, SearchInv, Recovered PROVE SearchInv'
<1>1. CASE EndTick
  BY <1>1, FreeSearchInv DEF EndTick
<1>2. CASE t.mode # "hold" /\ Decide(current, t.avail)
  <2>1. pc' = "commit" /\ UNCHANGED <<ep, fixed>>
    BY <1>2 DEF Recovered, Decide, control
  <2>2. ~(fixed # None /\ Enabled(ep[fixed]))
    BY <1>2 DEF SearchInv, OnlyFixed, Recovered
  <2> QED
    BY <2>1, <2>2 DEF SearchInv, FreshChoice, Searched, StillSearched, OnlyFixed
<1> QED
  BY <1>1, <1>2 DEF Recovered

LEMMA SwitchSearchInv == ASSUME IInv, Switch PROVE SearchInv'
<1>1. CASE EndTick
  BY <1>1, FreeSearchInv DEF EndTick
<1>2. CASE /\ t' = [t EXCEPT !.full = FALSE, !.failed = TRUE, !.skip = TRUE,
                             !.prev = t.sel, !.sel = None, !.avail = "none"]
           /\ pc' = "choose"
  <2>1. t'.failed
    BY <1>2 DEF IInv, TypeOK, TickLocals
  <2> QED
    BY <1>2, <2>1 DEF SearchInv, FreshChoice, Searched, StillSearched, OnlyFixed
<1> QED
  BY <1>1, <1>2 DEF Switch

LEMMA TimePassesSearchInv ==
    ASSUME IInv, SearchInv, NEW e \in Endpoint, NEW d \in Deadline, TimePasses(e, d)
    PROVE  SearchInv'
<1>1. ep[e] \in Memory
  BY DEF IInv, TypeOK
<1>2. SameConfig
  BY <1>1, ElapsedType DEF IInv, TypeOK, TimePasses, SameConfig
<1>3. /\ pc \in {"free", "choose", "commit"}
      /\ UNCHANGED <<fixed, pc, t>>
  BY DEF TimePasses, control
<1>4. fixed # None => fixed \in Endpoint
  BY DEF IInv, TypeOK, MaybeEndpoint
<1>5. OnlyFixed'
  BY <1>2, <1>3, <1>4 DEF SearchInv, OnlyFixed, SameConfig, Enabled
<1> QED
  BY <1>3, <1>5 DEF SearchInv, FreshChoice, Searched, StillSearched

LEMMA NextSearchInv == ASSUME IInv, SearchInv, [Next]_vars PROVE SearchInv'
<1>1. CASE UNCHANGED <<ep, current, fixed, pc, t>>
  BY <1>1 DEF SearchInv, FreshChoice, Searched, StillSearched, OnlyFixed, Scope, RuledOut,
              Heavier, EnabledEndpoints
<1> QED
  BY <1>1, StepKinds, FreeSearchInv, HoldSearchInv, WatchSearchInv, CheckSearchInv,
     ChooseSearchInv, LookAtNextSearchInv, LookedAtAllSearchInv, RecoverSearchInv,
     RecoveredSearchInv, SwitchSearchInv, TimePassesSearchInv

(* What a search has found out stays true to its end, in every state.      *)
THEOREM SearchInvariance == Spec => [](IInv /\ SearchInv)
<1>1. Init => IInv /\ SearchInv
  BY InitIInv
  DEF Init, NoTick, SearchInv, FreshChoice, Searched, StillSearched, OnlyFixed
<1>2. IInv /\ SearchInv /\ [Next]_vars => (IInv /\ SearchInv)'
  BY NextIInv, NextSearchInv
<1> QED
  BY <1>1, <1>2, PTL DEF Spec

-----------------------------------------------------------------------------
(* The choice of an endpoint.                                              *)

(* An endpoint is chosen by looking at it, or by turning out to be where   *)
(* the agent is: because it is the fixed one, because the one probed on    *)
(* request does not answer, or because no heavier one does.                *)
LEMMA ChoosingSteps ==
    ASSUME IInv, SearchInv, [Next]_vars, Chooses, t'.mode \in {"any", "full", "upgrade"}
    PROVE  \/ LookAtNext
           \/ Recovered /\ t.mode = "upgrade" /\ t'.mode = "upgrade" /\ t'.sel = current
<1>1. pc # "commit" /\ pc' = "commit" /\ t'.sel # None /\ t \in TickLocals
  BY DEF Chooses, IInv, TypeOK
<1>2. Choose \/ LookAtNext \/ LookedAtAll \/ Recovered
  <2>1. ~(Hold \/ Watch \/ Check \/ Recover)
    BY <1>1 DEF Hold, Watch, Check, Recover
  <2>2. ~(Switch \/ \E e \in Endpoint, d \in Deadline : TimePasses(e, d))
    BY <1>1 DEF Switch, TimePasses
  <2> QED
    BY <1>1, <2>1, <2>2, StepKinds
<1>3. ~Choose
  <2> SUFFICES ASSUME Choose PROVE FALSE
    OBVIOUS
  <2>1. Decide(fixed, "ok") /\ ~t.failed
    BY <1>1
    DEF Choose, ChooseFull, ChooseFixed, ChooseForced, ChooseAny, ChooseUpgrade, Look, Decide,
        TickLocals
  <2>2. t'.mode = "none"
    BY <1>1, <2>1 DEF Choose, SearchInv, FreshChoice, Decide, TickLocals
  <2> QED
    BY <2>2
<1>4. ~LookedAtAll
  BY <1>1 DEF LookedAtAll, Decide, TickLocals
<1>5. ASSUME Recovered
      PROVE  t.mode = "upgrade" /\ t'.mode = "upgrade" /\ t'.sel = current
  BY <1>1, <1>5 DEF Recovered, Decide, EndTick, TickLocals, IInv, TickInv, AtRecover
<1> QED
  BY <1>2, <1>3, <1>4, <1>5

(* The candidate a search takes: it was the foremost of those left, and    *)
(* only its own memory has changed.                                        *)
LEMMA TakenCandidate ==
    ASSUME IInv, LookAtNext, pc' = "commit"
    PROVE  /\ t'.sel \in t.todo /\ Foremost(t'.sel, t.todo, Favourite)
           /\ t'.mode = t.mode /\ t.todo \subseteq Endpoint
           /\ \A f \in Endpoint \ {t'.sel} : ep'[f] = ep[f]
<1>1. PICK e \in t.todo : Foremost(e, t.todo, Favourite) /\ LookAt(e)
  BY DEF LookAtNext
<1>2. t \in TickLocals /\ e \in Endpoint /\ t.todo \subseteq Endpoint
  BY <1>1 DEF IInv, TypeOK, TickLocals
<1>3. PICK m \in Memory, o \in Outcome, taken \in BOOLEAN :
        Examined(e, m, o, taken) /\ m.cfg = ep[e].cfg
  BY <1>1, <1>2, LookAtOutcome
<1>4. t'.sel = e /\ t'.mode = t.mode
  BY <1>2, <1>3 DEF Examined, TickLocals
<1>5. \A f \in Endpoint \ {e} : ep'[f] = ep[f]
  BY <1>2, <1>3, Rewrite DEF Examined, IInv, TypeOK
<1> QED
  BY <1>1, <1>2, <1>4, <1>5

LEMMA SelectionHeaviestStep ==
    ASSUME IInv, SearchInv, [Next]_vars, Chooses, t'.mode \in {"any", "full", "upgrade"},
           NEW f \in Heavier(t'.sel)
    PROVE  \/ t.skip /\ f = current
           \/ ep'[f].startFailed \/ ep'[f].last # "ok" \/ Cooling(ep'[f])
<1>1. f \in Endpoint /\ f \in EnabledEndpoints /\ Weight[f] > Weight[t'.sel]
  BY DEF Heavier, EnabledEndpoints
<1>2. CASE LookAtNext
  <2> DEFINE e == t'.sel
  <2>1. /\ e \in t.todo /\ Foremost(e, t.todo, Favourite)
        /\ t'.mode = t.mode /\ t.todo \subseteq Endpoint
        /\ \A g \in Endpoint \ {e} : ep'[g] = ep[g]
    BY <1>2, TakenCandidate DEF Chooses
  <2>2. Weight[e] \in Int /\ Weight[f] \in Int
    BY <1>1, <2>1, EndpointsAssumption DEF EndpointsAssumption
  <2>3. f \notin t.todo /\ f # e
    BY <1>1, <2>1, <2>2 DEF Foremost, Before
  <2>4. t.todo \subseteq Scope /\ \A g \in Scope \ t.todo : RuledOut(g)
    BY <1>2, <2>1 DEF SearchInv, Searched, LookAtNext
  <2>5. f \in Scope \/ (t.skip /\ f = current)
    <3>1. CASE t.mode = "upgrade"
      <4>1. e \in Heavier(current)
        BY <2>1, <2>4, <3>1 DEF Scope
      <4>2. current \in Endpoint
        BY <1>2, <3>1 DEF IInv, TypeOK, MaybeEndpoint, TickInv, AtCurrent, LookAtNext
      <4>3. Weight[current] \in Int
        BY <4>2, EndpointsAssumption DEF EndpointsAssumption
      <4> QED
        BY <1>1, <2>2, <3>1, <4>1, <4>3 DEF Scope, Heavier
    <3>2. CASE t.mode # "upgrade"
      BY <1>1, <2>1, <3>2 DEF Scope
    <3> QED
      BY <3>1, <3>2
  <2>6. ASSUME f \in Scope
        PROVE  ep'[f].startFailed \/ ep'[f].last # "ok" \/ Cooling(ep'[f])
    BY <1>1, <2>1, <2>3, <2>4, <2>6 DEF RuledOut
  <2> QED
    BY <2>5, <2>6
<1>3. CASE Recovered /\ t.mode = "upgrade" /\ t'.sel = current
  <2>1. RuledOut(f) /\ ep' = ep
    BY <1>3 DEF Recovered, SearchInv, StillSearched
  <2> QED
    BY <2>1 DEF RuledOut
<1> QED
  BY <1>2, <1>3, ChoosingSteps

(* "The highest weight that is available": of the endpoints heavier than   *)
(* the one chosen, every one has something against it that is still true,  *)
(* or is the running one and left out by the search.                       *)
THEOREM HeaviestSelected == Spec => SelectionHeaviest
<1>1. IInv /\ SearchInv /\ [Next]_vars
        => [Chooses /\ t'.mode \in {"any", "full", "upgrade"}
              => \A f \in Heavier(t'.sel) :
                   \/ t.skip /\ f = current
                   \/ ep'[f].startFailed \/ ep'[f].last # "ok" \/ Cooling(ep'[f])]_vars
  BY SelectionHeaviestStep
<1> QED
  BY <1>1, SearchInvariance, PTL DEF Spec, SelectionHeaviest

LEMMA TieKeptStep ==
    ASSUME IInv, SearchInv, [Next]_vars, Chooses, t'.mode = "full", ~t.failed,
           current # None, Enabled(ep[current]), t'.sel # current,
           Weight[t'.sel] = Weight[current]
    PROVE  ep'[current].last # "ok" \/ Cooling(ep'[current])
<1>1. LookAtNext
  BY ChoosingSteps
<1>2. current \in Endpoint
  BY DEF IInv, TypeOK, MaybeEndpoint
<1>3. /\ t'.sel \in t.todo /\ Foremost(t'.sel, t.todo, Favourite)
      /\ t.mode = "full" /\ t.todo \subseteq Endpoint
      /\ ep'[current] = ep[current]
  BY <1>1, <1>2, TakenCandidate DEF Chooses
<1>4. Favourite = current
  BY <1>3 DEF Favourite
<1>5. Weight[current] \in Int
  BY <1>2, EndpointsAssumption DEF EndpointsAssumption
<1>6. current \notin t.todo
  BY <1>3, <1>4, <1>5 DEF Foremost, Before
<1>7. current \in Scope
  BY <1>2, <1>3 DEF Scope, EnabledEndpoints
<1>8. RuledOut(current)
  BY <1>1, <1>3, <1>6, <1>7 DEF SearchInv, Searched, LookAtNext
<1> QED
  BY <1>3, <1>8 DEF RuledOut

(* A full probe keeps the agent among its equals: it looks at the running  *)
(* endpoint before any other of the same weight.                           *)
THEOREM TieIsKept == Spec => TieKept
<1>1. IInv /\ SearchInv /\ [Next]_vars
        => [Chooses /\ t'.mode = "full" /\ ~t.failed /\ current # None
              /\ Enabled(ep[current]) /\ t'.sel # current
              /\ Weight[t'.sel] = Weight[current]
              => ep'[current].last # "ok" \/ Cooling(ep'[current])]_vars
  BY TieKeptStep
<1> QED
  BY <1>1, SearchInvariance, PTL DEF Spec, TieKept

LEMMA FixedObeyedStep ==
    ASSUME IInv, SearchInv, [Next]_vars, TickEnds, fixed # None, Enabled(ep[fixed]),
           t.mode \notin {"hold", "full"}
    PROVE  agent' \in {None, fixed}
<1>1. fixed \in Endpoint
  BY DEF IInv, TypeOK, MaybeEndpoint
<1>2. CASE Recovered /\ EndTick
  BY <1>2 DEF Recovered, SearchInv, OnlyFixed
<1>3. CASE Nothing
  <2>1. CASE agent' = None
    BY <2>1
  <2>2. CASE agent' # None
    <3>1. KeepsSingle /\ current # None /\ agent' = agent
      BY <1>3, <2>2 DEF Nothing, StopAgent, session
    <3>2. fixed \in EnabledEndpoints
      BY <1>1 DEF EnabledEndpoints
    <3> QED
      BY <3>1, <3>2 DEF KeepsSingle, IInv, AgentPaired
  <2> QED
    BY <2>1, <2>2
<1>4. CASE Stay
  BY <1>4 DEF Stay, Changed, session, SearchInv, OnlyFixed, IInv, AgentPaired
<1>5. CASE Switch
  BY <1>5 DEF Switch, TickEnds, Launch, SearchInv, OnlyFixed
<1>6. CASE GiveUp
  BY <1>6 DEF GiveUp, session, IInv, TickInv, AfterFailedLaunch
<1> QED
  BY <1>2, <1>3, <1>4, <1>5, <1>6, EndingSteps

(* A fixed endpoint that is enabled is obeyed through failed launches,     *)
(* fallbacks and the edits between the ticks.                              *)
THEOREM FixedIsObeyed == Spec => FixedObeyed
<1>1. IInv /\ SearchInv /\ [Next]_vars
        => [TickEnds /\ fixed # None /\ Enabled(ep[fixed]) /\ t.mode \notin {"hold", "full"}
              => agent' \in {None, fixed}]_vars
  BY FixedObeyedStep
<1> QED
  BY <1>1, SearchInvariance, PTL DEF Spec, FixedObeyed

LEMMA ForkSurvivesStep ==
    ASSUME IInv, [Next]_vars, nextSession = "fork", nextSession' # "fork"
    PROVE  agent' # None \/ nextSession' = "new" \/ pc = "stopped"
<1>1. CASE Tick
  <2>1. CASE DirectStart
    <3>1. direct \in Endpoint
      BY <2>1 DEF DirectStart, IInv, TypeOK, MaybeEndpoint
    <3> QED
      BY <2>1, <3>1 DEF DirectStart, Launch, LaunchFails, session, Endpoint
  <2>2. CASE Switch
    <3>1. t.sel \in Endpoint
      BY <2>2 DEF Switch, IInv, TypeOK, TickLocals, MaybeEndpoint
    <3> QED
      BY <2>2, <3>1 DEF Switch, Launch, LaunchFails, Endpoint
  <2> QED
    BY <1>1, <2>1, <2>2
    DEF Tick, Hold, Watch, Check, Choose, LookAtNext, LookedAtAll, Recover, Recovered,
        Nothing, Stay, GiveUp, session
<1>2. CASE UserCommand
  BY <1>2
  DEF UserCommand, Command, StartRuntime, StopRuntime, Restart, RestartAgent,
      ForceNewConversation, ForkSession, ForceStartEndpoint, SetFixedEndpoint,
      SetForceProbeEndpoint, SetEndpointEnabled, SetEndpointGuardProxyEnabled,
      ReplaceConfig, ForceCurrentProbe, ConfirmCurrentProbe, ForceFullProbe,
      SetPaused, session
<1>3. CASE Environment
  BY <1>3 DEF Environment, AgentExits, GuardExits, TimePasses, session
<1>4. CASE UNCHANGED vars
  BY <1>4 DEF vars
<1> QED
  BY <1>1, <1>2, <1>3, <1>4 DEF Next

(* No failed launch uses up the fork the user asked for.                   *)
THEOREM ForkKept == Spec => ForkSurvives
<1>1. IInv /\ [Next]_vars
        => [nextSession = "fork" /\ nextSession' # "fork"
              => agent' # None \/ nextSession' = "new" \/ pc = "stopped"]_vars
  BY ForkSurvivesStep
<1> QED
  BY <1>1, Invariance, PTL DEF Spec, ForkSurvives

-----------------------------------------------------------------------------
(* The release of an overdrawn agent.                                      *)

CachedFit == \A e \in EnabledEndpoints : Fit(ep[e])

(* A tick that has not seen a failure works with a current endpoint that   *)
(* is not overdrawn, and none decides on an overdrawn one.                 *)
CurrentFit ==
    pc \notin {"free", "stopped"} /\ t.mode # "hold" /\ ~t.failed /\ current # None =>
        ~Overdrawn(ep[current])

SelectedFit == pc = "commit" /\ t.sel # None => ~Overdrawn(ep[t.sel])

FitInv == CachedFit /\ CurrentFit /\ SelectedFit

LEMMA ElapsedFit ==
    ASSUME NEW m \in Memory, NEW d \in Deadline
    PROVE  Elapsed(m, d).req = m.req /\ (Fit(m) => Fit(Elapsed(m, d)))
<1>1. /\ Elapsed(m, d).req = m.req /\ Elapsed(m, d).last = m.last
      /\ Elapsed(m, d).wait \in {m.wait, "expired"}
  BY DEF Elapsed, Deadline, Memory
<1> QED
  BY <1>1 DEF Fit, Overdrawn, Waiting

(* Rewriting one endpoint so that it is fit while it is enabled.           *)
LEMMA RewriteFit ==
    ASSUME IInv, CachedFit, NEW e \in Endpoint, NEW m \in Memory, Enabled(m) => Fit(m),
           ep' = [ep EXCEPT ![e] = m]
    PROVE  CachedFit'
<1>1. ep'[e] = m /\ \A f \in Endpoint \ {e} : ep'[f] = ep[f]
  BY DEF IInv, TypeOK
<1>2. ASSUME NEW f \in Endpoint, Enabled(ep'[f]) PROVE Fit(ep'[f])
  BY <1>1, <1>2 DEF CachedFit, EnabledEndpoints
<1> QED
  BY <1>2 DEF CachedFit, EnabledEndpoints

LEMMA DriveFit ==
    ASSUME IInv, CachedFit, NEW e \in Endpoint, Drive(e)
    PROVE  CachedFit' /\ (Overdrawn(ep'[e]) => Overdrawn(ep[e]))
<1>1. PICK m \in Driven(e) : ep' = [ep EXCEPT ![e] = m]
  BY DEF Drive
<1>2. m \in Memory /\ m.cfg = ep[e].cfg /\ ep[e] \in Memory
  BY DrivenType DEF IInv, TypeOK
<1>3. m = ep[e] \/ (m.req = 0)
  BY <1>2 DEF Driven, Memory
<1>4. (Fit(ep[e]) => Fit(m)) /\ (Overdrawn(m) => Overdrawn(ep[e]))
  BY <1>3, EndpointsAssumption DEF EndpointsAssumption, Fit, Overdrawn
<1>5. CachedFit'
  BY <1>1, <1>2, <1>4, RewriteFit DEF CachedFit, EnabledEndpoints, Enabled
<1> QED
  BY <1>1, <1>4, <1>5 DEF IInv, TypeOK

(* A signal that goes uncounted leaves the tolerance alone; one that is    *)
(* counted is remembered as the endpoint's last result.                    *)
LEMMA CountedFit ==
    ASSUME NEW m \in Memory, NEW s
    PROVE  /\ SignalOutcome(s) = "none" =>
                /\ Counted(m, s).req = m.req /\ Counted(m, s).last = m.last
                /\ Counted(m, s).wait = m.wait
           /\ s \notin {"failure", "limited"} => Counted(m, s).req = m.req
<1>1. s # "polluted" =>
        Counted(m, s).wait = m.wait /\ Counted(m, s).last = m.last
  BY DEF Counted, Memory
<1>2. s \notin {"failure", "limited"} => Counted(m, s).req = m.req
  BY DEF Counted, MarkPolluted, Memory
<1>3. SignalOutcome(s) = "none" =>
        s \notin {"polluted", "failure", "limited"}
  BY DEF SignalOutcome
<1> QED
  BY <1>1, <1>2, <1>3

LEMMA WatchFit ==
    ASSUME IInv, FitInv, Watch
    PROVE  CachedFit' /\ CurrentFit'
<1>1. PICK o \in Observations :
        /\ ep' = IF current = None THEN ep ELSE [ep EXCEPT ![current] = Remembered(o)]
        /\ t' = [NoTick EXCEPT !.full = fullOnce, !.check = CheckAfter(o),
                               !.failed = Fails(o), !.skip = Evicts(o),
                               !.hold = Exhausted(o), !.over = Override(o)]
  BY DEF Watch
<1>2. current' = current /\ t'.failed = Fails(o)
  BY <1>1 DEF Watch, NoTick
<1>3. CASE current = None
  <2>1. ep' = ep /\ current' = None
    BY <1>1, <1>2, <1>3
  <2> QED
    BY <2>1 DEF FitInv, CachedFit, CurrentFit, EnabledEndpoints
<1>4. CASE current # None
  <2> DEFINE before == IF o.answered THEN [ep[current] EXCEPT !.req = 0] ELSE ep[current]
             told == IF o.alarm THEN MarkGuardPolluted(before) ELSE before
  <2>1. current \in Endpoint /\ ep[current] \in Memory
    BY <1>4 DEF IInv, TypeOK, MaybeEndpoint
  <2>2. /\ before \in Memory /\ before.cfg = ep[current].cfg
        /\ before.last = ep[current].last /\ before.wait = ep[current].wait
        /\ before.req = IF o.answered THEN 0 ELSE ep[current].req
    BY <2>1, CountsFromZero DEF Memory
  <2> HIDE DEF before
  <2>3. told \in Memory /\ told.cfg = ep[current].cfg /\ told.req = before.req
    BY <2>2, MarkGuardPollutedType DEF MarkGuardPolluted, MarkPolluted, Memory
  <2>4. Noted(o) = Counted(told, o.signal)
    BY DEF Noted, before
  <2>5. o.alarm \/ told = before
    OBVIOUS
  <2> HIDE DEF told
  <2>6. Noted(o) \in Memory /\ Noted(o).cfg = ep[current].cfg
    BY <2>1, NotedType
  <2>7. Override(o) \in Outcome \cup {"none"} /\ Override(o) # "ok"
    BY DEF Override, SignalOutcome, Outcome
  <2>8. Remembered(o) \in Memory /\ Remembered(o).cfg = ep[current].cfg
        /\ Remembered(o).req = Noted(o).req
    BY <2>6, <2>7, RememberSyntheticType DEF Remembered, RememberSynthetic, Memory
  <2>9. ASSUME Enabled(Remembered(o)) PROVE Fit(Remembered(o))
    <3>1. Enabled(ep[current]) /\ Fit(ep[current])
      BY <2>1, <2>8, <2>9 DEF Enabled, FitInv, CachedFit, EnabledEndpoints
    <3>2. CASE Override(o) = "none"
      <4>1. SignalOutcome(o.signal) = "none" /\ ~o.alarm
        BY <3>2 DEF Override
      <4>2. /\ Noted(o).req = before.req /\ Noted(o).last = ep[current].last
            /\ Noted(o).wait = ep[current].wait
        BY <2>2, <2>3, <2>4, <2>5, <4>1, CountedFit
      <4>3. Fit(Noted(o))
        BY <2>2, <3>1, <4>2, EndpointsAssumption
        DEF EndpointsAssumption, Fit, Overdrawn, Waiting
      <4> QED
        BY <3>2, <4>3 DEF Remembered
    <3>3. CASE Override(o) # "none"
      <4>1. Remembered(o).last # "ok"
        BY <2>6, <2>7, <3>1, <3>3, RememberSyntheticType DEF Remembered
      <4> QED
        BY <4>1 DEF Fit
    <3> QED
      BY <3>2, <3>3
  <2>10. ep' = [ep EXCEPT ![current] = Remembered(o)]
    BY <1>1, <1>4
  <2>11. CachedFit'
    BY <2>1, <2>8, <2>9, <2>10, RewriteFit DEF FitInv
  <2>12. ASSUME ~Fails(o) PROVE ~Overdrawn(Remembered(o))
    <3>1. ~(Overdrawn(ep[current]) /\ ~o.answered) /\ ~Exceeded(Noted(o), o.signal)
      BY <1>4, <2>12 DEF Fails, Evicts, Exhausted
    <3>2. ~(before.req >= RequestThreshold)
      BY <2>2, <3>1, EndpointsAssumption DEF EndpointsAssumption, Overdrawn
    <3>3. ~(Noted(o).req >= RequestThreshold)
      BY <2>3, <2>4, <3>1, <3>2, CountedFit DEF Exceeded
    <3> QED
      BY <2>8, <3>3 DEF Overdrawn
  <2>13. ep'[current'] = Remembered(o)
    BY <1>2, <2>1, <2>10 DEF IInv, TypeOK
  <2>14. CurrentFit'
    BY <1>2, <2>12, <2>13 DEF CurrentFit
  <2> QED
    BY <2>11, <2>14
<1> QED
  BY <1>3, <1>4

LEMMA HoldFit == ASSUME IInv, FitInv, Hold PROVE FitInv'
<1>1. current # None /\ current \in Endpoint
  BY DEF IInv, TypeOK, MaybeEndpoint, Hold, Holding
<1>2. PICK alarm \in GuardAlarms, m \in Driven(current), dirty \in BOOLEAN :
        LET seen == IF dirty THEN MarkPolluted(RememberSynthetic(m, "polluted")) ELSE m
            told == IF alarm
                    THEN RememberSynthetic(MarkGuardPolluted(seen), "polluted")
                    ELSE seen
        IN ep' = [ep EXCEPT ![current] = told]
  BY DEF Hold
<1> DEFINE seen == IF dirty THEN MarkPolluted(RememberSynthetic(m, "polluted")) ELSE m
           told == IF alarm THEN RememberSynthetic(MarkGuardPolluted(seen), "polluted")
                   ELSE seen
<1>3. m \in Memory /\ m.cfg = ep[current].cfg /\ ep[current] \in Memory
  BY <1>1, DrivenType DEF IInv, TypeOK
<1>4. "polluted" \in Outcome
  BY DEF Outcome
<1>5. Enabled(m) => Fit(m)
  <2>1. m = ep[current] \/ m.req = 0
    BY <1>3 DEF Driven, Memory
  <2>2. Enabled(m) => Fit(ep[current])
    BY <1>1, <1>3 DEF FitInv, CachedFit, EnabledEndpoints, Enabled
  <2> QED
    BY <2>1, <2>2, EndpointsAssumption DEF EndpointsAssumption, Fit, Overdrawn
<1>6. seen \in Memory /\ seen.cfg = m.cfg /\ (seen = m \/ seen.last = "polluted")
  <2> DEFINE k == RememberSynthetic(m, "polluted")
  <2>1. k \in Memory /\ k.cfg = m.cfg /\ k.last = "polluted"
    BY <1>3, <1>4, RememberSyntheticType
  <2> HIDE DEF k
  <2>2. /\ MarkPolluted(k) \in Memory /\ MarkPolluted(k).cfg = m.cfg
        /\ MarkPolluted(k).last = "polluted"
    BY <2>1, MarkPollutedType DEF MarkPolluted, Memory
  <2> QED
    BY <1>3, <2>2 DEF k
<1> HIDE DEF seen
<1>7. told \in Memory /\ told.cfg = m.cfg /\ (told = m \/ told.last = "polluted")
  BY <1>4, <1>6, RememberSyntheticType, MarkGuardPollutedType
<1>8. ep' = [ep EXCEPT ![current] = told]
  BY <1>2 DEF seen
<1> HIDE DEF told
<1>9. CachedFit'
  <2>1. Enabled(told) => Fit(told)
    BY <1>5, <1>7 DEF Enabled, Fit
  <2> QED
    BY <1>1, <1>7, <1>8, <2>1, RewriteFit DEF FitInv
<1>10. pc' = "recover" /\ t'.mode = "hold"
  BY DEF Hold, NoTick
<1> QED
  BY <1>9, <1>10 DEF FitInv, CurrentFit, SelectedFit

LEMMA CheckFit == ASSUME IInv, SearchInv, FitInv, Check PROVE FitInv'
<1> DEFINE m == ep[current]
           purged == IF t.check = "force" \/ HardBlocked(m) THEN m ELSE Purge(current, m)
           known == Known(t.check, m, purged)
<1>1. current # None /\ current \in Endpoint /\ ~t.failed /\ t.mode = "none"
  BY DEF IInv, TypeOK, MaybeEndpoint, TickInv, AtCurrent, SearchInv, FreshChoice, Check
<1>2. m \in Memory /\ ~Overdrawn(m)
  BY <1>1 DEF IInv, TypeOK, FitInv, CurrentFit, Check
<1>3. purged \in Memory /\ purged.cfg = m.cfg /\ (Fit(m) => Fit(purged)) /\ ~Overdrawn(purged)
  BY <1>2, PurgeType, PurgeFit DEF Overdrawn
<1>4. PICK o \in IF known = "none" THEN ProbeOutcomes ELSE {known} :
        ep' = [ep EXCEPT ![current] = IF known = "none" THEN Remember(purged, o) ELSE purged]
  BY DEF Check
<1> HIDE DEF purged
<1>5. known = "none" => o \in Outcome
  BY <1>4, SupervisorAssumption DEF SupervisorAssumption
<1> HIDE DEF known
<1> DEFINE new == IF known = "none" THEN Remember(purged, o) ELSE purged
<1>6. new \in Memory /\ new.cfg = m.cfg /\ (Fit(m) => Fit(new)) /\ ~Overdrawn(new)
  BY <1>3, <1>5, RememberType, RememberFit
<1>7. ep' = [ep EXCEPT ![current] = new]
  BY <1>4
<1> HIDE DEF new
<1>8. CachedFit'
  <2>1. Enabled(new) => Fit(new)
    BY <1>1, <1>6 DEF FitInv, CachedFit, EnabledEndpoints, Enabled
  <2> QED
    BY <1>1, <1>6, <1>7, <2>1, RewriteFit DEF FitInv
<1>9. current' = current /\ ep'[current] = new /\ pc' = "choose"
  BY <1>1, <1>7 DEF Check, IInv, TypeOK
<1> QED
  BY <1>6, <1>8, <1>9 DEF FitInv, CurrentFit, SelectedFit

(* Steps of a tick that leave every memory as it is.                       *)
LEMMA ChooseFit == ASSUME IInv, SearchInv, FitInv, Choose PROVE FitInv'
<1>1. UNCHANGED <<ep, current>> /\ t \in TickLocals /\ pc = "choose"
  BY DEF Choose, IInv, TypeOK
<1>2. CachedFit'
  BY <1>1 DEF FitInv, CachedFit, EnabledEndpoints
<1>3. ~t.failed /\ current # None => ~Overdrawn(ep[current])
  BY <1>1 DEF FitInv, CurrentFit, SearchInv, FreshChoice
<1>4. t'.failed = t.failed
  BY <1>1
  DEF Choose, ChooseFull, ChooseFixed, ChooseForced, ChooseAny, ChooseUpgrade, Look, Decide,
      TickLocals
<1>5. ASSUME pc' = "commit", t'.sel # None
      PROVE  t'.sel = current /\ ~t.failed
  BY <1>1, <1>5
  DEF Choose, ChooseFull, ChooseFixed, ChooseForced, ChooseAny, ChooseUpgrade, Look, Decide,
      TickLocals
<1> QED
  BY <1>1, <1>2, <1>3, <1>4, <1>5 DEF FitInv, CurrentFit, SelectedFit

LEMMA LookedAtAllFit == ASSUME IInv, FitInv, LookedAtAll PROVE FitInv'
<1>1. UNCHANGED <<ep, current>> /\ t \in TickLocals /\ pc = "look" /\ t.mode # "hold"
  BY DEF LookedAtAll, IInv, TypeOK, TickInv, AtLook
<1>2. CachedFit'
  BY <1>1 DEF FitInv, CachedFit, EnabledEndpoints
<1>3. ~t.failed /\ current # None => ~Overdrawn(ep[current])
  BY <1>1 DEF FitInv, CurrentFit
<1>4. t'.failed = t.failed
  BY <1>1 DEF LookedAtAll, Decide, TickLocals
<1>5. ASSUME pc' = "commit", t'.sel # None
      PROVE  t'.sel = current /\ ~t.failed
  BY <1>1, <1>5 DEF LookedAtAll, Decide, TickLocals, IInv, TickInv, AtCurrent
<1> QED
  BY <1>1, <1>2, <1>3, <1>4, <1>5 DEF FitInv, CurrentFit, SelectedFit

LEMMA RecoveredFit == ASSUME IInv, FitInv, Recovered PROVE FitInv'
<1>1. UNCHANGED <<ep, current>> /\ t \in TickLocals /\ pc = "recover"
  BY DEF Recovered, IInv, TypeOK
<1>2. CachedFit'
  BY <1>1 DEF FitInv, CachedFit, EnabledEndpoints
<1>3. CASE EndTick
  BY <1>2, <1>3 DEF EndTick, FitInv, CurrentFit, SelectedFit
<1>4. CASE t.mode # "hold" /\ Decide(current, t.avail)
  <2>1. current # None /\ ~t.failed
    BY <1>1 DEF IInv, TickInv, AtCurrent
  <2>2. ~Overdrawn(ep[current])
    BY <1>1, <1>4, <2>1 DEF FitInv, CurrentFit
  <2>3. t'.sel = current
    BY <1>1, <1>4 DEF Decide, TickLocals
  <2> QED
    BY <1>1, <1>2, <2>2, <2>3 DEF FitInv, CurrentFit, SelectedFit
<1> QED
  BY <1>3, <1>4 DEF Recovered

LEMMA LookAtNextFit == ASSUME IInv, FitInv, LookAtNext PROVE FitInv'
<1>1. PICK e \in t.todo : LookAt(e)
  BY DEF LookAtNext
<1>2. /\ t \in TickLocals /\ e \in Endpoint /\ e \in EnabledEndpoints
      /\ pc = "look" /\ current' = current /\ t.mode # "hold"
  BY <1>1 DEF IInv, TypeOK, TickLocals, TickInv, AtLook, LookAtNext
<1>3. Fit(ep[e])
  BY <1>2 DEF FitInv, CachedFit
<1>4. PICK m \in Memory, o \in Outcome, taken \in BOOLEAN :
        /\ Examined(e, m, o, taken)
        /\ Fit(m) /\ (taken => ~Overdrawn(m))
        /\ ~Overdrawn(ep[e]) => ~Overdrawn(m)
  BY <1>1, <1>2, <1>3, LookAtOutcome
<1>5. ep' = [ep EXCEPT ![e] = m]
  BY <1>4 DEF Examined
<1>6. ep'[e] = m /\ \A f \in Endpoint \ {e} : ep'[f] = ep[f]
  BY <1>2, <1>5 DEF IInv, TypeOK
<1>7. CachedFit'
  BY <1>2, <1>4, <1>5, RewriteFit DEF FitInv
<1>8. /\ t'.failed = t.failed
      /\ pc' = "commit" => taken /\ t'.sel = e
  BY <1>2, <1>4 DEF Examined, TickLocals
<1>9. CurrentFit'
  <2>1. current # None => current \in Endpoint
    BY DEF IInv, TypeOK, MaybeEndpoint
  <2> QED
    BY <1>2, <1>4, <1>6, <1>8, <2>1 DEF FitInv, CurrentFit
<1>10. SelectedFit'
  BY <1>4, <1>6, <1>8 DEF SelectedFit
<1> QED
  BY <1>7, <1>9, <1>10 DEF FitInv

LEMMA RecoverFit == ASSUME IInv, FitInv, Recover PROVE FitInv'
<1>1. PICK e \in t.todo : RecoverOne(e)
  BY DEF Recover
<1>2. /\ t \in TickLocals /\ e \in Endpoint
      /\ pc = "recover" /\ pc' = "recover" /\ current' = current
  BY <1>1 DEF IInv, TypeOK, TickLocals, Recover
<1>3. PICK m \in Memory :
        /\ m.cfg = ep[e].cfg /\ ep' = [ep EXCEPT ![e] = m]
        /\ Fit(ep[e]) => Fit(m)
        /\ ~Overdrawn(ep[e]) => ~Overdrawn(m)
  BY <1>1, <1>2, RecoverOneOutcome
<1>4. ep'[e] = m /\ \A f \in Endpoint \ {e} : ep'[f] = ep[f]
  BY <1>2, <1>3 DEF IInv, TypeOK
<1>5. CachedFit'
  <2>1. Enabled(m) => Fit(m)
    BY <1>2, <1>3 DEF FitInv, CachedFit, EnabledEndpoints, Enabled
  <2> QED
    BY <1>2, <1>3, <2>1, RewriteFit DEF FitInv
<1>6. t'.mode = t.mode /\ t'.failed = t.failed
  BY <1>1, <1>2 DEF RecoverOne, TickLocals
<1>7. CurrentFit'
  <2>1. current # None => current \in Endpoint
    BY DEF IInv, TypeOK, MaybeEndpoint
  <2> QED
    BY <1>2, <1>3, <1>4, <1>6, <2>1 DEF FitInv, CurrentFit
<1> QED
  BY <1>2, <1>5, <1>7 DEF FitInv, SelectedFit

(* A launch, or a failed one, raises no counter.                           *)
LEMMA SwitchFit == ASSUME IInv, FitInv, Switch PROVE FitInv'
<1>1. t.sel \in Endpoint /\ t \in TickLocals
  BY DEF IInv, TypeOK, TickLocals, MaybeEndpoint, Switch
<1>2. CASE Launch(t.sel) /\ Drive(t.sel) /\ EndTick
  BY <1>1, <1>2, DriveFit DEF EndTick, FitInv, CurrentFit, SelectedFit
<1>3. CASE /\ ep' = [ep EXCEPT ![t.sel] = MarkStartupFailure(@)]
           /\ t' = [t EXCEPT !.full = FALSE, !.failed = TRUE, !.skip = TRUE,
                             !.prev = t.sel, !.sel = None, !.avail = "none"]
           /\ pc' = "choose"
  <2> DEFINE m == MarkStartupFailure(ep[t.sel])
  <2>1. ep[t.sel] \in Memory
    BY <1>1 DEF IInv, TypeOK
  <2>2. /\ m \in Memory /\ m.cfg = ep[t.sel].cfg
        /\ m.last = ep[t.sel].last /\ m.wait = ep[t.sel].wait /\ m.req = ep[t.sel].req
    BY <2>1, MarkStartupFailureType DEF MarkStartupFailure, Memory
  <2>3. ep' = [ep EXCEPT ![t.sel] = m]
    BY <1>3
  <2> HIDE DEF m
  <2>4. Enabled(m) => Fit(m)
    BY <1>1, <2>2 DEF FitInv, CachedFit, EnabledEndpoints, Enabled, Fit, Waiting, Overdrawn
  <2>5. CachedFit'
    BY <1>1, <2>2, <2>3, <2>4, RewriteFit DEF FitInv
  <2>6. t'.failed
    BY <1>1, <1>3 DEF TickLocals
  <2> QED
    BY <1>3, <2>5, <2>6 DEF FitInv, CurrentFit, SelectedFit
<1> QED
  BY <1>2, <1>3 DEF Switch

LEMMA TimePassesFit ==
    ASSUME IInv, FitInv, NEW e \in Endpoint, NEW d \in Deadline, TimePasses(e, d)
    PROVE  FitInv'
<1> DEFINE m == Elapsed(ep[e], d)
<1>1. /\ ep[e] \in Memory
      /\ UNCHANGED <<current, pc, t>> /\ ep' = [ep EXCEPT ![e] = m]
  BY DEF IInv, TypeOK, TimePasses
<1>2. m \in Memory /\ m.cfg = ep[e].cfg /\ m.req = ep[e].req /\ (Fit(ep[e]) => Fit(m))
  BY <1>1, ElapsedType, ElapsedFit
<1> HIDE DEF m
<1>3. CachedFit'
  <2>1. Enabled(m) => Fit(m)
    BY <1>2 DEF FitInv, CachedFit, EnabledEndpoints, Enabled
  <2> QED
    BY <1>1, <1>2, <2>1, RewriteFit DEF FitInv
<1>4. \A f \in Endpoint : ep'[f].req = ep[f].req
  BY <1>1, <1>2 DEF IInv, TypeOK
<1>5. t \in TickLocals /\ current \in MaybeEndpoint
  BY DEF IInv, TypeOK
<1> QED
  BY <1>1, <1>3, <1>4, <1>5
  DEF FitInv, CurrentFit, SelectedFit, Overdrawn, TickLocals, MaybeEndpoint

(* Nobody enables an endpoint while it is overdrawn.                       *)
EnabledAfresh == \A e \in Endpoint : ~Enabled(ep[e]) /\ Enabled(ep'[e]) => ~Overdrawn(ep'[e])

(* The commands of the user: set_endpoint_enabled starts the count afresh. *)
(* An edit of the config file does not, hence the assumption.              *)
LEMMA CommandFit ==
    ASSUME IInv, FitInv, EnabledAfresh \/ "config" \notin Commands, UserCommand
    PROVE  FitInv'
<1>1. ASSUME pc' \in {"free", "stopped"}, CachedFit' PROVE FitInv'
  BY <1>1 DEF FitInv, CurrentFit, SelectedFit
<1>2. pc' \in {"free", "stopped"}
  BY CommandSteps
<1>3. CASE UNCHANGED ep
  BY <1>1, <1>2, <1>3 DEF FitInv, CachedFit, EnabledEndpoints
<1>4. CASE StartRuntime
  <2>1. \A e \in Endpoint : ep'[e].last = "unknown"
    BY <1>4 DEF StartRuntime, NewMemory
  <2> QED
    BY <1>1, <1>2, <2>1 DEF CachedFit, EnabledEndpoints, Fit
<1>5. ASSUME NEW e \in Endpoint, NEW on \in BOOLEAN, SetEndpointEnabled(e, on)
      PROVE  CachedFit'
  <2> DEFINE m == [ep[e] EXCEPT !.cfg = IF on THEN "on" ELSE "off", !.wait = "none",
                                !.startFailed = FALSE, !.req = 0, !.trans = 0, !.stall = 0]
             new == IF on THEN m ELSE ClearPollutionRecovery(m)
  <2>1. ep' = [ep EXCEPT ![e] = new]
    BY <1>5 DEF SetEndpointEnabled
  <2>2. new.wait = "none"
    <3>1. ep[e] \in Memory
      BY DEF IInv, TypeOK
    <3>2. m.wait = "none" /\ ClearPollutionRecovery(m).wait = m.wait
      BY <3>1 DEF Memory, ClearPollutionRecovery
    <3> HIDE DEF m
    <3> QED
      BY <3>2
  <2> HIDE DEF new
  <2>3. ep'[e] = new /\ \A f \in Endpoint \ {e} : ep'[f] = ep[f]
    BY <2>1 DEF IInv, TypeOK
  <2>4. \A f \in Endpoint : Enabled(ep'[f]) => Fit(ep'[f])
    BY <2>2, <2>3 DEF FitInv, CachedFit, EnabledEndpoints, Fit, Waiting
  <2> QED
    BY <2>4 DEF CachedFit, EnabledEndpoints
<1>6. ASSUME NEW e \in Endpoint, NEW on \in BOOLEAN, SetEndpointGuardProxyEnabled(e, on)
      PROVE  CachedFit'
  <2> DEFINE m == [ep[e] EXCEPT !.guarded = on]
             new == IF ~on THEN ClearGuardPollution(m)
                    ELSE IF e \in GuardReplaces THEN ClearReplacedDirectPollution(m)
                    ELSE m
  <2>1. ep' = [ep EXCEPT ![e] = new]
    BY <1>6 DEF SetEndpointGuardProxyEnabled
  <2>2. ep[e] \in Memory
    BY DEF IInv, TypeOK
  <2>3. /\ m \in Memory /\ m.cfg = ep[e].cfg
        /\ m.last = ep[e].last /\ m.wait = ep[e].wait /\ m.req = ep[e].req
    BY <2>2 DEF Memory
  <2> HIDE DEF m
  <2>4. /\ new \in Memory /\ new.cfg = m.cfg
        /\ new = m \/ new.wait = "none"
    BY <2>3, ClearGuardPollutionType, ClearReplacedDirectPollutionType
    DEF ClearGuardPollution, ClearReplacedDirectPollution, Memory
  <2> HIDE DEF new
  <2>5. Enabled(new) => Fit(new)
    BY <2>3, <2>4 DEF FitInv, CachedFit, EnabledEndpoints, Enabled, Fit, Waiting, Overdrawn
  <2> QED
    BY <2>1, <2>4, <2>5, RewriteFit DEF FitInv
<1>7. ASSUME NEW e \in Endpoint, NEW cfg \in {"on", "off", "gone"}, NEW guarded \in BOOLEAN,
             ReplaceConfig(e, cfg, guarded)
      PROVE  CachedFit'
  <2> DEFINE m == [ep[e] EXCEPT !.cfg = cfg, !.guarded = guarded]
  <2>1. ep[e] \in Memory
    BY DEF IInv, TypeOK
  <2>2. ep' = [ep EXCEPT ![e] = m]
    BY <1>7 DEF IInv, TypeOK, ReplaceConfig
  <2>3. m \in Memory /\ m.last = ep[e].last /\ m.wait = ep[e].wait /\ m.req = ep[e].req
    BY <2>1, ZenonT(60) DEF Memory
  <2> HIDE DEF m
  <2>4. ep'[e] = m
    BY <2>2 DEF IInv, TypeOK
  <2>5. ASSUME Enabled(m) PROVE Fit(m)
    <3>1. CASE Enabled(ep[e])
      BY <2>3, <3>1 DEF FitInv, CachedFit, EnabledEndpoints, Fit, Waiting, Overdrawn
    <3>2. CASE ~Enabled(ep[e])
      BY <1>7, <2>4, <2>5, <3>2 DEF EnabledAfresh, Fit, ReplaceConfig, Command
    <3> QED
      BY <3>1, <3>2
  <2> QED
    BY <2>2, <2>3, <2>5, RewriteFit DEF FitInv
<1>8. CASE \E e \in Endpoint, on \in BOOLEAN :
             SetEndpointEnabled(e, on) \/ SetEndpointGuardProxyEnabled(e, on)
  BY <1>1, <1>2, <1>5, <1>6, <1>8
<1>9. CASE \E e \in Endpoint, cfg \in {"on", "off", "gone"}, guarded \in BOOLEAN :
             ReplaceConfig(e, cfg, guarded)
  BY <1>1, <1>2, <1>7, <1>9
<1> QED
  BY <1>3, <1>4, <1>8, <1>9
  DEF UserCommand, Command, StopRuntime, Restart, ForceNewConversation, ForkSession,
      ForceStartEndpoint, SetFixedEndpoint, SetForceProbeEndpoint,
      ForceCurrentProbe, ConfirmCurrentProbe, ForceFullProbe, SetPaused

LEMMA NextFit ==
    ASSUME IInv, SearchInv, FitInv, [EnabledAfresh]_vars \/ "config" \notin Commands,
           [Next]_vars
    PROVE  FitInv'
<1>1. ASSUME pc' \in {"free", "stopped"}, CachedFit' PROVE FitInv'
  BY <1>1 DEF FitInv, CurrentFit, SelectedFit
<1>2. CASE DirectStart
  <2>1. direct \in Endpoint
    BY <1>2 DEF DirectStart, IInv, TypeOK, MaybeEndpoint
  <2>2. CachedFit'
    <3>1. CASE UNCHANGED ep
      BY <3>1 DEF FitInv, CachedFit, EnabledEndpoints
    <3>2. CASE Drive(direct)
      BY <2>1, <3>2, DriveFit DEF FitInv
    <3> QED
      BY <1>2, <3>1, <3>2 DEF DirectStart
  <2> QED
    BY <1>1, <1>2, <2>2 DEF DirectStart
<1>3. CASE Watch
  <2>1. pc' # "commit"
    BY <1>3 DEF Watch
  <2> QED
    BY <1>3, <2>1, WatchFit DEF FitInv, SelectedFit
<1>4. CASE Nothing
  <2>1. CachedFit'
    <3>1. CASE UNCHANGED ep
      BY <3>1 DEF FitInv, CachedFit, EnabledEndpoints
    <3>2. CASE current # None /\ Drive(current)
      BY <3>2, DriveFit DEF FitInv, IInv, TypeOK, MaybeEndpoint
    <3> QED
      BY <1>4, <3>1, <3>2 DEF Nothing
  <2> QED
    BY <1>1, <1>4, <2>1 DEF Nothing, EndTick
<1>5. CASE Stay
  <2>1. t.sel \in Endpoint
    BY <1>5 DEF Stay, IInv, TypeOK, TickLocals, MaybeEndpoint
  <2> QED
    BY <1>1, <1>5, <2>1, DriveFit DEF Stay, EndTick, FitInv
<1>6. CASE GiveUp
  BY <1>1, <1>6 DEF GiveUp, EndTick, FitInv, CachedFit, EnabledEndpoints
<1>7. CASE AgentExits \/ GuardExits \/ UNCHANGED vars
  <2>1. UNCHANGED <<ep, current, pc, t>>
    BY <1>7 DEF AgentExits, GuardExits, vars
  <2> QED
    BY <2>1 DEF FitInv, CachedFit, CurrentFit, SelectedFit, EnabledEndpoints
<1>8. CASE UserCommand /\ (EnabledAfresh \/ "config" \notin Commands)
  BY <1>8, CommandFit
<1> QED
  BY <1>2, <1>3, <1>4, <1>5, <1>6, <1>7, <1>8, HoldFit, CheckFit, ChooseFit, LookAtNextFit,
     LookedAtAllFit, RecoverFit, RecoveredFit, SwitchFit, TimePassesFit
  DEF Next, Tick, Environment

LEMMA OverdrawnReleasedStep ==
    ASSUME IInv, FitInv, [Next]_vars, TickEnds, t.mode # "hold", current # None,
           Overdrawn(ep'[current])
    PROVE  agent' # current
<1>1. current \in Endpoint
  BY DEF IInv, TypeOK, MaybeEndpoint
<1>2. CASE Recovered /\ EndTick
  <2>1. Decide(current, t.avail)
    BY <1>2 DEF Recovered
  <2> QED
    BY <1>2, <2>1 DEF EndTick, Decide
<1>3. CASE Nothing
  <2>1. CASE KeepsSingle /\ Drive(current)
    <3>1. ~Overdrawn(ep[current])
      BY <1>3, <2>1 DEF Nothing, KeepsSingle, FitInv, CurrentFit
    <3> QED
      BY <1>1, <2>1, <3>1, DriveFit DEF FitInv
  <2>2. CASE agent' = None
    BY <2>2
  <2> QED
    BY <1>3, <2>1, <2>2 DEF Nothing, StopAgent
<1>4. CASE Stay
  <2>1. t.sel = current /\ Drive(current) /\ ~Overdrawn(ep[current])
    BY <1>4 DEF Stay, Changed, FitInv, SelectedFit
  <2> QED
    BY <1>1, <2>1, DriveFit DEF FitInv
<1>5. CASE Switch
  <2>1. Drive(t.sel) /\ agent' = t.sel /\ ~Overdrawn(ep[t.sel])
    BY <1>5 DEF Switch, TickEnds, Launch, FitInv, SelectedFit
  <2> QED
    BY <1>1, <2>1, DriveFit DEF FitInv
<1>6. CASE GiveUp
  BY <1>6 DEF GiveUp, session, IInv, TickInv, AfterFailedLaunch
<1> QED
  BY <1>2, <1>3, <1>4, <1>5, <1>6, EndingSteps

LEMMA InitFit == Init => FitInv
BY DEF Init, NoTick, NewMemory, FitInv, CachedFit, CurrentFit, SelectedFit, EnabledEndpoints, Fit

(* Unless an edit of the config enables an endpoint that is overdrawn, no  *)
(* tick ends with the agent on an endpoint whose failed requests have used *)
(* up the tolerance, not even on the only endpoint.                        *)
THEOREM OverdrawnIsReleased == Spec /\ [][EnabledAfresh]_vars => OverdrawnReleased
<1>1. Init => FitInv
  BY InitFit
<1>2. IInv /\ SearchInv /\ FitInv /\ [EnabledAfresh]_vars /\ [Next]_vars => FitInv'
  BY NextFit
<1>3. IInv /\ FitInv /\ [Next]_vars
        => [TickEnds /\ t.mode # "hold" /\ current # None /\ Overdrawn(ep'[current])
              => agent' # current]_vars
  BY OverdrawnReleasedStep
<1> QED
  BY <1>1, <1>2, <1>3, SearchInvariance, PTL DEF Spec, OverdrawnReleased

(* In particular it holds where nobody edits the config.                   *)
THEOREM OverdrawnIsReleasedUnedited ==
    ASSUME "config" \notin Commands
    PROVE  Spec => OverdrawnReleased
<1>1. Init => FitInv
  BY InitFit
<1>2. IInv /\ SearchInv /\ FitInv /\ [Next]_vars => FitInv'
  BY NextFit
<1>3. IInv /\ FitInv /\ [Next]_vars
        => [TickEnds /\ t.mode # "hold" /\ current # None /\ Overdrawn(ep'[current])
              => agent' # current]_vars
  BY OverdrawnReleasedStep
<1> QED
  BY <1>1, <1>2, <1>3, SearchInvariance, PTL DEF Spec, OverdrawnReleased

-----------------------------------------------------------------------------
(* The quarantine of a polluted endpoint: how each function that rewrites  *)
(* the memory of an endpoint moves it there.                               *)

(* What the config says of the endpoint is left alone.                     *)
SameSettings(k, m) == k.cfg = m.cfg /\ k.guarded = m.guarded

(* Neither the isolation nor the last answer changes.                      *)
SameWard(k, m) ==
    SameSettings(k, m) /\ Ward(k) = Ward(m) /\ (k.last = "ok" <=> m.last = "ok")

(* k is m after a removal of what has run out or of what its guard covers. *)
TidiedUp(e, k, m) ==
    /\ SameSettings(k, m)
    /\ \/ Ward(k) = Ward(m) /\ (k.last = "ok" <=> m.last = "ok")
       \/ /\ WardState(m) = "served" /\ Ward(k) = Isolation!Free
          /\ k.last = "ok" <=> m.last = "ok"
       \/ /\ Replaces(e, m) /\ WardState(m) # "guard"
          /\ Ward(k) = Isolation!Free /\ k.last = "ok"

(* The clean probes of a memory that is not cooling count for nothing.     *)
LEMMA WardStates ==
    ASSUME NEW m \in Memory
    PROVE  /\ WardState(m) \in {"free", "session", "guard", "served"}
           /\ WardState(m) = "guard" <=> m.gpol = "active"
           /\ WardState(m) = "session" <=> m.gpol # "active" /\ m.pol = "active"
           /\ WardState(m) = "served" <=> ~Cooling(m) /\ (m.pol = "expired" \/ m.gpol = "expired")
           /\ Cooling(m) <=> WardState(m) \in {"session", "guard"}
           /\ ~Cooling(m) => Ward(m) = [state |-> WardState(m), clean |-> 0]
           /\ Cooling(m) => Ward(m) = [state |-> WardState(m), clean |-> m.clean]
BY DEF WardState, Ward, Cooling, Memory, Timer

(* Two memories with the same deadlines and the same count are in the same *)
(* quarantine.                                                             *)
LEMMA WardOfFields ==
    ASSUME NEW m \in Memory, NEW k \in Memory,
           k.pol = m.pol, k.gpol = m.gpol, k.clean = m.clean
    PROVE  Ward(k) = Ward(m)
BY DEF WardState, Ward, Cooling

LEMMA FreeWard ==
    ASSUME NEW m \in Memory, m.pol = "none", m.gpol = "none"
    PROVE  Ward(m) = Isolation!Free
BY DEF WardState, Ward, Cooling, Isolation!Free

LEMMA RememberSyntheticWard ==
    ASSUME NEW m \in Memory, NEW o \in Outcome
    PROVE  /\ SameSettings(RememberSynthetic(m, o), m)
           /\ Ward(RememberSynthetic(m, o)) = Ward(m)
<1>1. RememberSynthetic(m, o) \in Memory
  BY RememberSyntheticType
<1>2. /\ RememberSynthetic(m, o).pol = m.pol /\ RememberSynthetic(m, o).gpol = m.gpol
      /\ RememberSynthetic(m, o).clean = m.clean
      /\ RememberSynthetic(m, o).guarded = m.guarded
      /\ RememberSynthetic(m, o).cfg = m.cfg
  BY DEF RememberSynthetic, Memory
<1> QED
  BY <1>1, <1>2, WardOfFields DEF SameSettings

(* A clean probe counts for the isolation, and ends it or forgets it; one  *)
(* that fails starts the count afresh.                                     *)
LEMMA RecordRecoverySuccessWard ==
    ASSUME NEW m \in Memory
    PROVE  /\ SameSettings(RecordRecoverySuccess(m), m)
           /\ Ward(RecordRecoverySuccess(m)) = Isolation!Better(Ward(m))
<1> DEFINE k == RecordRecoverySuccess(m)
<1>1. k \in Memory
  BY RecordRecoverySuccessType
<1>2. Cooling(m) <=> Ward(m).state \in {"session", "guard"}
  BY WardStates DEF Ward
<1>3. CASE Cooling(m) /\ m.clean + 1 < CleanNeeded
  <2>1. k = [m EXCEPT !.clean = m.clean + 1]
    BY <1>3 DEF RecordRecoverySuccess
  <2>2. /\ k.pol = m.pol /\ k.gpol = m.gpol /\ k.clean = m.clean + 1
        /\ k.cfg = m.cfg /\ k.guarded = m.guarded
    BY <2>1 DEF Memory
  <2> HIDE DEF k
  <2>3. Ward(k) = [Ward(m) EXCEPT !.clean = m.clean + 1]
    BY <1>3, <2>2 DEF Ward, WardState, Cooling
  <2>4. Ward(m).clean = m.clean
    BY <1>3 DEF Ward
  <2> QED
    BY <1>2, <1>3, <2>2, <2>3, <2>4 DEF SameSettings, Isolation!Better, k
<1>4. CASE ~(Cooling(m) /\ m.clean + 1 < CleanNeeded)
  <2>1. k = ClearPollutionRecovery(m)
    BY <1>4 DEF RecordRecoverySuccess
  <2>2. /\ k.pol = "none" /\ k.gpol = "none" /\ k.cfg = m.cfg /\ k.guarded = m.guarded
    BY <2>1 DEF ClearPollutionRecovery, Memory
  <2> HIDE DEF k
  <2>3. Ward(k) = Isolation!Free
    BY <1>1, <2>2, FreeWard DEF k
  <2>4. Cooling(m) => Ward(m).clean = m.clean
    BY DEF Ward
  <2> QED
    BY <1>2, <1>4, <2>2, <2>3, <2>4 DEF SameSettings, Isolation!Better, k
<1> QED
  BY <1>3, <1>4

LEMMA RememberWard ==
    ASSUME NEW m \in Memory, NEW o \in Outcome
    PROVE  /\ SameSettings(Remember(m, o), m)
           /\ Ward(Remember(m, o)) = IF o = "ok" THEN Isolation!Better(Ward(m))
                                     ELSE [Ward(m) EXCEPT !.clean = 0]
<1>1. CASE o = "ok"
  <2> DEFINE k == [m EXCEPT !.req = 0, !.trans = 0]
  <2>1. /\ k \in Memory /\ k.pol = m.pol /\ k.gpol = m.gpol /\ k.clean = m.clean
        /\ k.cfg = m.cfg /\ k.guarded = m.guarded
    BY CountsFromZero DEF Memory
  <2>2. Remember(m, o) = RememberSynthetic(RecordRecoverySuccess(k), o)
    BY <1>1 DEF Remember
  <2> HIDE DEF k
  <2>3. Ward(k) = Ward(m)
    BY <2>1, WardOfFields
  <2>4. /\ RecordRecoverySuccess(k) \in Memory
        /\ SameSettings(RecordRecoverySuccess(k), k)
        /\ Ward(RecordRecoverySuccess(k)) = Isolation!Better(Ward(k))
    BY <2>1, RecordRecoverySuccessType, RecordRecoverySuccessWard
  <2>5. /\ SameSettings(Remember(m, o), RecordRecoverySuccess(k))
        /\ Ward(Remember(m, o)) = Ward(RecordRecoverySuccess(k))
    BY <2>2, <2>4, RememberSyntheticWard
  <2> QED
    BY <1>1, <2>1, <2>3, <2>4, <2>5 DEF SameSettings
<1>2. CASE o # "ok"
  <2> DEFINE k == [m EXCEPT !.clean = 0]
  <2>1. /\ k \in Memory /\ k.pol = m.pol /\ k.gpol = m.gpol /\ k.clean = 0
        /\ k.cfg = m.cfg /\ k.guarded = m.guarded
    BY CountsFromZero DEF Memory
  <2>2. Remember(m, o) = RememberSynthetic(k, o)
    BY <1>2 DEF Remember
  <2> HIDE DEF k
  <2>3. Ward(k) = [Ward(m) EXCEPT !.clean = 0]
    BY <2>1 DEF Ward, WardState, Cooling
  <2>4. SameSettings(Remember(m, o), k) /\ Ward(Remember(m, o)) = Ward(k)
    BY <2>1, <2>2, RememberSyntheticWard
  <2> QED
    BY <1>2, <2>1, <2>3, <2>4 DEF SameSettings
<1> QED
  BY <1>1, <1>2

(* The removals on the way of cooldown_result end no isolation that still  *)
(* holds, but for the one a guard proxy answers for.                       *)
LEMMA PurgeWard ==
    ASSUME NEW m \in Memory, NEW e
    PROVE  TidiedUp(e, Purge(e, m), m)
<1> DEFINE unguarded == [m EXCEPT !.gpol = "none"]
           cleared == IF Replaces(e, m) THEN ClearReplacedDirectPollution(unguarded)
                      ELSE unguarded
<1>1. CASE m.startFailed \/ m.gpol = "active"
  BY <1>1 DEF Purge, TidiedUp, SameSettings
<1>2. CASE ~(m.startFailed \/ m.gpol = "active")
  <2>1. /\ unguarded \in Memory /\ unguarded.gpol = "none" /\ unguarded.pol = m.pol
        /\ unguarded.clean = m.clean /\ unguarded.last = m.last
        /\ unguarded.cfg = m.cfg /\ unguarded.guarded = m.guarded
    BY DEF Memory, Timer
  <2>2. Purge(e, m) = IF cleared.pol = "expired"
                      THEN [cleared EXCEPT !.pol = "none", !.clean = 0] ELSE cleared
    BY <1>2 DEF Purge
  <2> HIDE DEF unguarded
  <2>3. cleared \in Memory
    BY <2>1, ClearReplacedDirectPollutionType
  <2>4. WardState(m) # "guard"
    BY <1>2, WardStates
  <2>5. CASE cleared = unguarded
    <3> HIDE DEF cleared
    <3>1. CASE m.pol = "expired"
      <4>1. /\ Purge(e, m) = [unguarded EXCEPT !.pol = "none", !.clean = 0]
            /\ Purge(e, m) \in Memory
        BY <2>1, <2>2, <2>5, <3>1, PurgeType
      <4>2. /\ Purge(e, m).pol = "none" /\ Purge(e, m).gpol = "none"
            /\ Purge(e, m).last = m.last /\ SameSettings(Purge(e, m), m)
        BY <2>1, <4>1 DEF Memory, SameSettings
      <4>3. Ward(Purge(e, m)) = Isolation!Free
        BY <4>1, <4>2, FreeWard
      <4>4. WardState(m) = "served"
        BY <1>2, <3>1, WardStates DEF Cooling
      <4> QED
        BY <4>2, <4>3, <4>4 DEF TidiedUp
    <3>2. CASE m.pol = "active"
      <4>1. Purge(e, m) = unguarded
        BY <2>1, <2>2, <2>5, <3>2
      <4>2. Ward(unguarded) = Ward(m)
        BY <1>2, <2>1, <3>2 DEF Ward, WardState, Cooling
      <4> QED
        BY <2>1, <4>1, <4>2 DEF TidiedUp, SameSettings
    <3>3. CASE m.pol = "none"
      <4>1. Purge(e, m) = unguarded
        BY <2>1, <2>2, <2>5, <3>3
      <4>2. Ward(unguarded) = Isolation!Free
        BY <2>1, <3>3, FreeWard
      <4>3. WardState(m) = "served" \/ m.gpol = "none"
        BY <1>2, <3>3, WardStates DEF Cooling, Memory, Timer
      <4>4. m.gpol = "none" => Ward(m) = Isolation!Free
        BY <3>3, FreeWard
      <4> QED
        BY <2>1, <4>1, <4>2, <4>3, <4>4 DEF TidiedUp, SameSettings
    <3> QED
      BY <3>1, <3>2, <3>3 DEF Memory, Timer
  <2>6. CASE cleared # unguarded
    <3>1. /\ Replaces(e, m)
          /\ cleared = [unguarded EXCEPT !.pol = "none", !.wait = "none", !.clean = 0,
                                         !.last = "ok"]
      BY <2>6 DEF ClearReplacedDirectPollution
    <3> HIDE DEF cleared
    <3>2. /\ cleared.pol = "none" /\ cleared.gpol = "none" /\ cleared.last = "ok"
          /\ cleared.cfg = m.cfg /\ cleared.guarded = m.guarded
      BY <2>1, <3>1 DEF Memory
    <3>3. Purge(e, m) = cleared
      BY <2>2, <3>2
    <3>4. Ward(cleared) = Isolation!Free
      BY <2>3, <3>2, FreeWard
    <3> QED
      BY <2>4, <3>1, <3>2, <3>3, <3>4 DEF TidiedUp, SameSettings
  <2> QED
    BY <2>5, <2>6
<1> QED
  BY <1>1, <1>2

(* Pollution isolates, and one guard's isolation outlasts the other kind.  *)
LEMMA MarkPollutedWard ==
    ASSUME NEW m \in Memory
    PROVE  /\ SameSettings(MarkPolluted(m), m) /\ MarkPolluted(m).last = m.last
           /\ Ward(MarkPolluted(m)) =
                [state |-> IF WardState(m) = "guard" THEN "guard" ELSE "session", clean |-> 0]
<1>1. /\ MarkPolluted(m).pol = "active" /\ MarkPolluted(m).clean = 0
      /\ MarkPolluted(m).gpol = m.gpol /\ MarkPolluted(m).last = m.last
      /\ SameSettings(MarkPolluted(m), m)
  BY DEF MarkPolluted, Memory, SameSettings
<1> QED
  BY <1>1, WardStates DEF Ward, WardState, Cooling

LEMMA MarkGuardPollutedWard ==
    ASSUME NEW m \in Memory
    PROVE  /\ SameSettings(MarkGuardPolluted(m), m) /\ MarkGuardPolluted(m).last = m.last
           /\ Ward(MarkGuardPolluted(m)) = [state |-> "guard", clean |-> 0]
<1>1. /\ MarkPolluted(m) \in Memory
      /\ MarkPolluted(m).clean = 0 /\ MarkPolluted(m).last = m.last
      /\ SameSettings(MarkPolluted(m), m)
  BY MarkPollutedType, MarkPollutedWard DEF MarkPolluted, Memory
<1>2. /\ MarkGuardPolluted(m).gpol = "active" /\ MarkGuardPolluted(m).clean = 0
      /\ MarkGuardPolluted(m).last = m.last /\ SameSettings(MarkGuardPolluted(m), m)
  BY <1>1 DEF MarkGuardPolluted, Memory, SameSettings
<1> QED
  BY <1>2 DEF Ward, WardState, Cooling

(* A deadline that passes ends an isolation, or leaves the one by the      *)
(* session files.                                                          *)
LEMMA ElapsedWard ==
    ASSUME NEW m \in Memory, NEW d \in Deadline, Pending(m, d)
    PROVE  /\ SameSettings(Elapsed(m, d), m) /\ Elapsed(m, d).last = m.last
           /\ \/ Ward(Elapsed(m, d)) = Ward(m)
              \/ Cooling(m) /\ Ward(Elapsed(m, d)) = [state |-> "served", clean |-> 0]
              \/ /\ WardState(m) = "guard"
                 /\ Ward(Elapsed(m, d)) = [Ward(m) EXCEPT !.state = "session"]
<1> DEFINE k == Elapsed(m, d)
<1>1. SameSettings(k, m) /\ k.last = m.last /\ k \in Memory
  <2>1. k \in Memory /\ k.cfg = m.cfg /\ k.last = m.last
    BY ElapsedType
  <2>2. k.guarded = m.guarded
    BY DEF Elapsed, Deadline, Memory
  <2> QED
    BY <2>1, <2>2 DEF SameSettings
<1>2. CASE d \in {"wait", "startFailed"}
  <2>1. k.pol = m.pol /\ k.gpol = m.gpol /\ k.clean = m.clean
    BY <1>2 DEF Elapsed, Memory
  <2> HIDE DEF k
  <2> QED
    BY <1>1, <2>1, WardOfFields DEF k
<1>3. CASE d = "pol"
  <2>1. k.pol = "expired" /\ k.gpol = m.gpol /\ k.clean = m.clean /\ m.pol = "active"
    BY <1>3 DEF Elapsed, Memory, Pending
  <2> HIDE DEF k
  <2>2. CASE m.gpol = "active"
    BY <1>1, <2>1, <2>2 DEF Ward, WardState, Cooling, k
  <2>3. CASE m.gpol # "active"
    BY <1>1, <2>1, <2>3 DEF Ward, WardState, Cooling, k
  <2> QED
    BY <2>2, <2>3
<1>4. CASE d = "gpol"
  <2>1. k.gpol = "expired" /\ k.pol = m.pol /\ k.clean = m.clean /\ m.gpol = "active"
    BY <1>4 DEF Elapsed, Memory, Pending
  <2> HIDE DEF k
  <2>2. CASE m.pol = "active"
    BY <1>1, <2>1, <2>2 DEF Ward, WardState, Cooling, k
  <2>3. CASE m.pol # "active"
    BY <1>1, <2>1, <2>3 DEF Ward, WardState, Cooling, k
  <2> QED
    BY <2>2, <2>3
<1> QED
  BY <1>2, <1>3, <1>4 DEF Deadline

(* Rewriting the memory of one endpoint moves no other.                    *)
LEMMA WardBecomes ==
    ASSUME ep \in [Endpoint -> Memory], NEW e \in Endpoint, NEW m,
           ep' = [ep EXCEPT ![e] = m]
    PROVE  Isolation!Becomes(e, Ward(m))
<1>1. ep'[e] = m /\ \A f \in Endpoint \ {e} : ep'[f] = ep[f]
  OBVIOUS
<1> QED
  BY <1>1 DEF Isolation!Becomes, Ward

(* What a step that leaves the settings alone does there.                  *)
LEMMA OneWard ==
    ASSUME IInv, NEW e \in Endpoint, NEW m, ep' = [ep EXCEPT ![e] = m],
           SameSettings(m, ep[e])
    PROVE  /\ Isolation!Becomes(e, Ward(m))
           /\ UNCHANGED {f \in Endpoint : ep[f].guarded}
           /\ UNCHANGED EnabledEndpoints
           /\ {f \in Endpoint : ep[f].last = "ok"}' =
                IF m.last = "ok" THEN {f \in Endpoint : ep[f].last = "ok"} \cup {e}
                ELSE {f \in Endpoint : ep[f].last = "ok"} \ {e}
<1>1. ep'[e] = m /\ \A f \in Endpoint \ {e} : ep'[f] = ep[f]
  BY DEF IInv, TypeOK
<1>2. Isolation!Becomes(e, Ward(m))
  BY WardBecomes DEF IInv, TypeOK
<1>3. UNCHANGED {f \in Endpoint : ep[f].guarded} /\ UNCHANGED EnabledEndpoints
  BY <1>1 DEF EnabledEndpoints, Enabled, SameSettings
<1>4. CASE m.last = "ok"
  BY <1>1, <1>2, <1>3, <1>4
<1>5. CASE m.last # "ok"
  BY <1>1, <1>2, <1>3, <1>5
<1> QED
  BY <1>4, <1>5

(* The rest of the world during a step that does not start an agent.       *)
LEMMA MayStopThen ==
    ASSUME \/ UNCHANGED <<agent, alive>>
           \/ agent' = None
           \/ ~alive',
           direct' \in {direct, None}
    PROVE  Isolation!MayStop
BY DEF Isolation!MayStop

(* Nobody moves in or out of the quarantine and the config stays.          *)
Unmoved ==
    /\ UNCHANGED [e \in Endpoint |-> Ward(ep[e])]
    /\ UNCHANGED {e \in Endpoint : ep[e].last = "ok"}
    /\ UNCHANGED EnabledEndpoints
    /\ UNCHANGED {e \in Endpoint : ep[e].guarded}

LEMMA SameWardUnmoved ==
    ASSUME IInv, NEW e \in Endpoint, NEW m, ep' = [ep EXCEPT ![e] = m], SameWard(m, ep[e])
    PROVE  Unmoved
<1>1. ep'[e] = m /\ \A f \in Endpoint \ {e} : ep'[f] = ep[f]
  BY DEF IInv, TypeOK
<1> QED
  BY <1>1 DEF Unmoved, SameWard, SameSettings, EnabledEndpoints, Enabled

LEMMA StopEvent ==
    ASSUME Unmoved \/ UNCHANGED ep, Isolation!MayStop
    PROVE  Isolation!Stop
BY DEF Unmoved, Isolation!Stop, Isolation!config, EnabledEndpoints

(* Looking at an endpoint without asking it.                               *)
LEMMA TidiedEvent ==
    ASSUME IInv, NEW e \in Endpoint, NEW m \in Memory, TidiedUp(e, m, ep[e]),
           ep' = [ep EXCEPT ![e] = m], Isolation!MayStop
    PROVE  Isolation!Stop \/ Isolation!Tidy(e) \/ Isolation!Reinstate(e)
<1> USE DEF TidiedUp
<1>1. CASE Ward(m) = Ward(ep[e]) /\ (m.last = "ok" <=> ep[e].last = "ok")
  BY <1>1, SameWardUnmoved, StopEvent DEF SameWard
<1>2. CASE /\ WardState(ep[e]) = "served" /\ Ward(m) = Isolation!Free
           /\ m.last = "ok" <=> ep[e].last = "ok"
  <2>1. UNCHANGED {f \in Endpoint : ep[f].last = "ok"}
    BY <1>2, OneWard
  <2> QED
    BY <1>2, <2>1, OneWard DEF Isolation!Tidy, Isolation!config, Ward
<1>3. CASE /\ Replaces(e, ep[e]) /\ WardState(ep[e]) # "guard"
           /\ Ward(m) = Isolation!Free /\ m.last = "ok"
  BY <1>3, OneWard
  DEF Isolation!Reinstate, Isolation!Reinstated, Isolation!Covered, Isolation!config, Ward,
      Replaces
<1> QED
  BY <1>1, <1>2, <1>3

(* Asking it.                                                              *)
LEMMA ProbeEvent ==
    ASSUME IInv, NEW e \in Endpoint, NEW m \in Memory, TidiedUp(e, m, ep[e]),
           NEW o \in Outcome, ep' = [ep EXCEPT ![e] = Remember(m, o)],
           Enabled(ep[e]), Isolation!MayStop
    PROVE  Isolation!Probe(e, o = "ok")
<1> DEFINE k == Remember(m, o)
<1>1. /\ SameSettings(k, ep[e]) /\ k.last = o
      /\ Ward(k) = IF o = "ok" THEN Isolation!Better(Ward(m)) ELSE [Ward(m) EXCEPT !.clean = 0]
  BY RememberWard, RememberType DEF TidiedUp, SameSettings
<1>2. Ward(m) \in Isolation!Tidied(e)
  BY DEF TidiedUp, Isolation!Tidied, Isolation!Covered, Ward, Replaces
<1> HIDE DEF k
<1>3. ep' = [ep EXCEPT ![e] = k]
  BY DEF k
<1>4. e \in EnabledEndpoints
  BY DEF EnabledEndpoints
<1>5. PICK x \in Isolation!Tidied(e) :
        Ward(k) = IF o = "ok" THEN Isolation!Better(x) ELSE [x EXCEPT !.clean = 0]
  BY <1>1, <1>2
<1>6. Isolation!Becomes(e, IF o = "ok" THEN Isolation!Better(x) ELSE [x EXCEPT !.clean = 0])
  <2>1. Isolation!Becomes(e, Ward(k))
    BY <1>1, <1>3, OneWard
  <2> QED
    BY <1>5, <2>1 DEF Isolation!Becomes
<1> QED
  BY <1>1, <1>3, <1>4, <1>6, OneWard DEF Isolation!Probe, Isolation!config

(* Pollution is found, by the session files or by the guard proxy.         *)
LEMMA PolluteEvent ==
    ASSUME IInv, NEW e \in Endpoint, NEW m, SameSettings(m, ep[e]),
           NEW by \in {"session", "guard"}, WardState(ep[e]) = "guard" => by = "guard",
           Ward(m) = [state |-> by, clean |-> 0],
           m.last = "ok" => ep[e].last = "ok",
           ep' = [ep EXCEPT ![e] = m], Isolation!MayStop
    PROVE  Isolation!Pollute(e)
<1>1. Isolation!Becomes(e, Ward(m))
  BY OneWard
<1>2. Isolation!Becomes(e, [state |-> by, clean |-> 0])
  BY <1>1 DEF Isolation!Becomes
<1> QED
  BY <1>2, OneWard DEF Isolation!Pollute, Isolation!config, Ward

(* The prompt at the end of a tick moves nobody.                           *)
LEMMA DriveUnmoved ==
    ASSUME IInv, NEW e \in Endpoint, Drive(e)
    PROVE  Unmoved
<1>1. PICK m \in Driven(e) : ep' = [ep EXCEPT ![e] = m]
  BY DEF Drive
<1>2. m \in Memory /\ ep[e] \in Memory
  BY DrivenType DEF IInv, TypeOK
<1>3. /\ m.pol = ep[e].pol /\ m.gpol = ep[e].gpol /\ m.clean = ep[e].clean
      /\ m.cfg = ep[e].cfg /\ m.guarded = ep[e].guarded /\ m.last = ep[e].last
  BY <1>2 DEF Driven, Memory
<1>4. SameWard(m, ep[e])
  BY <1>2, <1>3, WardOfFields DEF SameWard, SameSettings
<1> QED
  BY <1>1, <1>4, SameWardUnmoved

-----------------------------------------------------------------------------
(* Every step of a tick is an event of the quarantine or none.             *)
LEMMA DirectStartEvent ==
    ASSUME IInv, DirectStart
    PROVE  Isolation!QuarantineNext
<1>1. direct \in Endpoint /\ direct' = None
  BY DEF DirectStart, IInv, TypeOK, MaybeEndpoint
<1>2. CASE UNCHANGED <<ep, current, session>>
  BY <1>1, <1>2, MayStopThen, StopEvent DEF session, Isolation!QuarantineNext
<1>3. CASE Launch(direct) /\ Drive(direct)
  <2>1. Unmoved
    BY <1>1, <1>3, DriveUnmoved
  <2>2. (IF alive THEN agent ELSE None)' = direct
    BY <1>3 DEF Launch
  <2>3. Isolation!StartAnyway(direct)
    BY <1>1, <2>1, <2>2 DEF Unmoved, Isolation!StartAnyway, Isolation!config
  <2> QED
    BY <1>1, <2>3 DEF Isolation!QuarantineNext
<1>4. CASE LaunchFails /\ UNCHANGED ep
  BY <1>1, <1>4, MayStopThen, StopEvent
  DEF LaunchFails, StopAgent, Isolation!QuarantineNext
<1> QED
  BY <1>2, <1>3, <1>4 DEF DirectStart

LEMMA HoldEvent ==
    ASSUME IInv, Hold
    PROVE  Isolation!QuarantineNext
<1>1. PICK c \in Endpoint : c = current
  BY DEF IInv, TypeOK, MaybeEndpoint, Hold, Holding
<1>2. PICK alarm \in GuardAlarms, m \in Driven(c), dirty \in BOOLEAN :
        LET seen == IF dirty THEN MarkPolluted(RememberSynthetic(m, "polluted")) ELSE m
            told == IF alarm
                    THEN RememberSynthetic(MarkGuardPolluted(seen), "polluted")
                    ELSE seen
        IN ep' = [ep EXCEPT ![c] = told]
  BY <1>1 DEF Hold
<1> DEFINE k == RememberSynthetic(m, "polluted")
           seen == IF dirty THEN MarkPolluted(k) ELSE m
           marked == MarkGuardPolluted(seen)
           told == IF alarm THEN RememberSynthetic(marked, "polluted") ELSE seen
<1>3. m \in Memory /\ SameWard(m, ep[c])
  <2>1. m \in Memory /\ ep[c] \in Memory
    BY <1>1, DrivenType DEF IInv, TypeOK
  <2>2. /\ m.pol = ep[c].pol /\ m.gpol = ep[c].gpol /\ m.clean = ep[c].clean
        /\ m.cfg = ep[c].cfg /\ m.guarded = ep[c].guarded
        /\ m.last = ep[c].last
    BY <2>1 DEF Driven, Memory
  <2> QED
    BY <2>1, <2>2, WardOfFields DEF SameWard, SameSettings
<1>4. /\ k \in Memory /\ SameSettings(k, m) /\ Ward(k) = Ward(m) /\ k.last = "polluted"
  BY <1>3, RememberSyntheticType, RememberSyntheticWard DEF Outcome
<1>5. WardState(k) = WardState(ep[c])
  BY <1>3, <1>4 DEF Ward, SameWard
<1>6. ep' = [ep EXCEPT ![c] = told]
  BY <1>2
<1> HIDE DEF k
<1>7. /\ seen \in Memory
      /\ dirty => /\ SameSettings(seen, m) /\ seen.last = "polluted"
                  /\ Ward(seen) = [state |-> IF WardState(k) = "guard" THEN "guard" ELSE "session",
                                   clean |-> 0]
      /\ ~dirty => seen = m
  BY <1>3, <1>4, MarkPollutedType, MarkPollutedWard DEF SameSettings
<1> HIDE DEF seen
<1>8. /\ marked \in Memory /\ SameSettings(marked, seen)
      /\ Ward(marked) = [state |-> "guard", clean |-> 0]
  BY <1>7, MarkGuardPollutedType, MarkGuardPollutedWard
<1> HIDE DEF marked
<1>9. /\ alarm => /\ SameSettings(told, marked) /\ Ward(told) = Ward(marked)
                  /\ told.last = "polluted"
      /\ ~alarm => told = seen
  BY <1>8, RememberSyntheticType, RememberSyntheticWard DEF Outcome
<1> HIDE DEF told
<1>10. Isolation!MayStop
  BY MayStopThen DEF Hold, session, control
<1>11. CASE alarm
  <2>1. SameSettings(told, ep[c])
    BY <1>3, <1>7, <1>8, <1>9, <1>11 DEF SameSettings, SameWard
  <2>2. Isolation!Pollute(c)
    BY <1>1, <1>6, <1>8, <1>9, <1>10, <1>11, <2>1, PolluteEvent
  <2> QED
    BY <1>1, <2>2 DEF Isolation!QuarantineNext
<1>12. CASE ~alarm /\ dirty
  <2>1. SameSettings(told, ep[c])
    BY <1>3, <1>7, <1>9, <1>12 DEF SameSettings, SameWard
  <2>2. Isolation!Pollute(c)
    BY <1>1, <1>5, <1>6, <1>7, <1>9, <1>10, <1>12, <2>1, PolluteEvent
  <2> QED
    BY <1>1, <2>2 DEF Isolation!QuarantineNext
<1>13. CASE ~alarm /\ ~dirty
  <2>1. Isolation!Stop
    BY <1>1, <1>3, <1>6, <1>7, <1>9, <1>10, <1>13, SameWardUnmoved, StopEvent
  <2> QED
    BY <2>1 DEF Isolation!QuarantineNext
<1> QED
  BY <1>11, <1>12, <1>13 DEF GuardAlarms

(* What a signal of the agent counts for.                                  *)
LEMMA CountedWard ==
    ASSUME NEW m \in Memory, NEW s
    PROVE  /\ SameSettings(Counted(m, s), m) /\ Counted(m, s).last = m.last
           /\ Ward(Counted(m, s)) =
                IF s = "polluted"
                THEN [state |-> IF WardState(m) = "guard" THEN "guard" ELSE "session",
                      clean |-> 0]
                ELSE Ward(m)
<1> DEFINE req == IF s \in {"failure", "limited"}
                  THEN Cap(m.req + 1, RequestThreshold) ELSE m.req
           trans == IF s = "transient"
                    THEN Cap(m.trans + 1, TransientThreshold) ELSE m.trans
           stall == IF s = "stalled" THEN Cap(m.stall + 1, StallThreshold)
                    ELSE IF s = "quiet" THEN 0 ELSE m.stall
           k == [m EXCEPT !.req = req, !.trans = trans, !.stall = stall]
<1>1. m.req \in RequestCount /\ m.trans \in TransientCount /\ m.stall \in StallCount
  BY DEF Memory
<1>2. req \in RequestCount
  BY <1>1, EndpointsAssumption DEF EndpointsAssumption, Cap, RequestCount
<1>3. trans \in TransientCount
  BY <1>1, EndpointsAssumption DEF EndpointsAssumption, Cap, TransientCount
<1>4. stall \in StallCount
  BY <1>1, EndpointsAssumption DEF EndpointsAssumption, Cap, StallCount
<1>5. Counted(m, s) = IF s = "polluted" THEN MarkPolluted(k) ELSE k
  BY DEF Counted
<1> HIDE DEF req, trans, stall
<1>6. /\ k \in Memory /\ k.cfg = m.cfg /\ k.guarded = m.guarded /\ k.last = m.last
      /\ k.pol = m.pol /\ k.gpol = m.gpol /\ k.clean = m.clean
  BY <1>2, <1>3, <1>4 DEF Memory
<1> HIDE DEF k
<1>7. Ward(k) = Ward(m)
  BY <1>6, WardOfFields
<1>8. WardState(k) = WardState(m)
  BY <1>7 DEF Ward
<1> QED
  BY <1>5, <1>6, <1>7, <1>8, MarkPollutedWard DEF SameSettings

LEMMA WatchEvent ==
    ASSUME IInv, Watch
    PROVE  Isolation!QuarantineNext
<1>1. PICK o \in Observations :
        ep' = IF current = None THEN ep ELSE [ep EXCEPT ![current] = Remembered(o)]
  BY DEF Watch
<1>2. Isolation!MayStop
  BY MayStopThen DEF Watch, session, control
<1>3. CASE current = None
  BY <1>1, <1>2, <1>3, StopEvent DEF Isolation!QuarantineNext
<1>4. CASE current # None
  <2> DEFINE before == IF o.answered THEN [ep[current] EXCEPT !.req = 0] ELSE ep[current]
             told == IF o.alarm THEN MarkGuardPolluted(before) ELSE before
  <2>1. PICK c \in Endpoint : c = current
    BY <1>4 DEF IInv, TypeOK, MaybeEndpoint
  <2>2. ep[c] \in Memory
    BY <2>1 DEF IInv, TypeOK
  <2>3. before \in Memory /\ SameWard(before, ep[c]) /\ before.last = ep[c].last
    <3>1. /\ before \in Memory /\ before.cfg = ep[c].cfg /\ before.guarded = ep[c].guarded
          /\ before.last = ep[c].last /\ before.pol = ep[c].pol /\ before.gpol = ep[c].gpol
          /\ before.clean = ep[c].clean
      BY <2>1, <2>2, CountsFromZero DEF Memory
    <3> HIDE DEF before
    <3> QED
      BY <2>2, <3>1, WardOfFields DEF SameWard, SameSettings
  <2>4. Noted(o) = Counted(told, o.signal)
    BY DEF Noted
  <2> HIDE DEF before
  <2>5. /\ told \in Memory /\ SameSettings(told, ep[c]) /\ told.last = ep[c].last
        /\ o.alarm => Ward(told) = [state |-> "guard", clean |-> 0]
        /\ ~o.alarm => Ward(told) = Ward(ep[c])
    BY <2>3, MarkGuardPollutedType, MarkGuardPollutedWard DEF SameWard, SameSettings
  <2> HIDE DEF told
  <2>6. /\ Noted(o) \in Memory /\ SameSettings(Noted(o), ep[c]) /\ Noted(o).last = ep[c].last
        /\ Ward(Noted(o)) =
             IF o.signal = "polluted"
             THEN [state |-> IF WardState(told) = "guard" THEN "guard" ELSE "session",
                   clean |-> 0]
             ELSE Ward(told)
    BY <2>4, <2>5, CountedType, CountedWard DEF SameSettings
  <2>7. Override(o) \in Outcome \cup {"none"} /\ Override(o) # "ok"
    BY DEF Override, SignalOutcome, Outcome
  <2> DEFINE m == Remembered(o)
  <2>8. /\ SameSettings(m, ep[c]) /\ Ward(m) = Ward(Noted(o))
        /\ IF Override(o) = "none" \/ ~Enabled(ep[c]) THEN m.last = ep[c].last
           ELSE m.last # "ok"
    BY <2>1, <2>6, <2>7, RememberSyntheticType, RememberSyntheticWard
    DEF Remembered, SameSettings
  <2>9. ep' = [ep EXCEPT ![c] = m]
    BY <1>1, <1>4, <2>1
  <2> HIDE DEF m
  <2>10. CASE o.alarm \/ o.signal = "polluted"
    <3>1. PICK by \in {"session", "guard"} :
            /\ WardState(ep[c]) = "guard" => by = "guard"
            /\ Ward(m) = [state |-> by, clean |-> 0]
      <4>1. CASE o.alarm
        <5>1. WardState(told) = "guard"
          BY <2>5, <4>1 DEF Ward
        <5> QED
          BY <2>5, <2>6, <2>8, <4>1, <5>1
      <4>2. CASE ~o.alarm
        <5>1. WardState(told) = WardState(ep[c])
          BY <2>5, <4>2 DEF Ward
        <5> QED
          BY <2>6, <2>8, <2>10, <4>2, <5>1
      <4> QED
        BY <4>1, <4>2
    <3>2. m.last = "ok" => ep[c].last = "ok"
      BY <2>8
    <3>3. Isolation!Pollute(c)
      BY <1>2, <2>8, <2>9, <3>1, <3>2, PolluteEvent
    <3> QED
      BY <3>3 DEF Isolation!QuarantineNext
  <2>11. CASE ~o.alarm /\ o.signal # "polluted"
    <3>1. Ward(m) = Ward(ep[c])
      BY <2>5, <2>6, <2>8, <2>11
    <3>2. CASE Override(o) = "none" \/ ~Enabled(ep[c])
      <4>1. SameWard(m, ep[c])
        BY <2>8, <3>1, <3>2 DEF SameWard
      <4> QED
        BY <1>2, <2>9, <4>1, SameWardUnmoved, StopEvent DEF Isolation!QuarantineNext
    <3>3. CASE Override(o) # "none" /\ Enabled(ep[c])
      <4>1. o.signal \in {"limited", "failure", "transient", "stalled"}
        BY <2>11, <3>3 DEF Override, SignalOutcome
      <4>2. alive /\ agent = c
        <5>1. o.signal \in Observable
          BY DEF Observations
        <5> QED
          BY <2>1, <4>1, <5>1 DEF Observable, IInv, AgentPaired
      <4>3. c \in EnabledEndpoints
        BY <3>3 DEF EnabledEndpoints
      <4>4. Isolation!Becomes(c, Ward(ep[c]))
        BY <2>8, <2>9, <3>1, OneWard DEF Isolation!Becomes
      <4>5. UNCHANGED [e \in Endpoint |-> Ward(ep[e])]
        BY <4>4 DEF Isolation!Becomes
      <4>6. Isolation!Report(c)
        BY <1>2, <2>8, <2>9, <3>3, <4>2, <4>3, <4>5, OneWard
        DEF Isolation!Report, Isolation!config
      <4> QED
        BY <4>6 DEF Isolation!QuarantineNext
    <3> QED
      BY <3>2, <3>3
  <2> QED
    BY <2>10, <2>11
<1> QED
  BY <1>3, <1>4

LEMMA CheckEvent ==
    ASSUME IInv, SearchInv, Check
    PROVE  Isolation!QuarantineNext
<1>1. PICK c \in Endpoint : c = current /\ Enabled(ep[c])
  <2>1. current # None /\ Enabled(ep[current])
    BY DEF IInv, TickInv, AtCurrent, Check, SearchInv, FreshChoice
  <2> QED
    BY <2>1 DEF IInv, TypeOK, MaybeEndpoint
<1> DEFINE purged == IF t.check = "force" \/ HardBlocked(ep[c]) THEN ep[c]
                     ELSE Purge(c, ep[c])
           known == Known(t.check, ep[c], purged)
<1>2. ep[c] \in Memory
  BY DEF IInv, TypeOK
<1>3. purged \in Memory /\ TidiedUp(c, purged, ep[c])
  BY <1>2, PurgeType, PurgeWard DEF TidiedUp, SameSettings
<1>4. PICK o \in IF known = "none" THEN ProbeOutcomes ELSE {known} :
        ep' = [ep EXCEPT ![c] = IF known = "none" THEN Remember(purged, o) ELSE purged]
  BY <1>1 DEF Check
<1>5. Isolation!MayStop
  BY MayStopThen DEF Check, session, control
<1> HIDE DEF purged, known
<1>6. CASE known = "none"
  <2>1. o \in Outcome
    BY <1>4, <1>6, SupervisorAssumption DEF SupervisorAssumption
  <2>2. Isolation!Probe(c, o = "ok")
    BY <1>1, <1>3, <1>4, <1>5, <1>6, <2>1, ProbeEvent
  <2> QED
    BY <2>2 DEF Isolation!QuarantineNext
<1>7. CASE known # "none"
  BY <1>3, <1>4, <1>5, <1>7, TidiedEvent DEF Isolation!QuarantineNext
<1> QED
  BY <1>6, <1>7

LEMMA LookAtNextEvent ==
    ASSUME IInv, LookAtNext
    PROVE  Isolation!QuarantineNext
<1>1. PICK e \in t.todo : LookAt(e)
  BY DEF LookAtNext
<1>2. e \in Endpoint /\ Enabled(ep[e]) /\ ep[e] \in Memory
  BY <1>1 DEF IInv, TypeOK, TickLocals, TickInv, AtLook, LookAtNext, EnabledEndpoints
<1> DEFINE m == IF HardBlocked(ep[e]) \/ IgnoresCooldown THEN ep[e] ELSE Purge(e, ep[e])
<1>3. m \in Memory /\ TidiedUp(e, m, ep[e])
  BY <1>2, PurgeType, PurgeWard DEF TidiedUp, SameSettings
<1>4. \/ ep' = [ep EXCEPT ![e] = m]
      \/ \E o \in ProbeOutcomes : ep' = [ep EXCEPT ![e] = Remember(m, o)]
  BY <1>1 DEF LookAt, Examined
<1>5. Isolation!MayStop
  BY MayStopThen DEF LookAtNext, session, control
<1> HIDE DEF m
<1>6. CASE ep' = [ep EXCEPT ![e] = m]
  BY <1>2, <1>3, <1>5, <1>6, TidiedEvent DEF Isolation!QuarantineNext
<1>7. ASSUME NEW o \in ProbeOutcomes, ep' = [ep EXCEPT ![e] = Remember(m, o)]
      PROVE  Isolation!QuarantineNext
  <2>1. o \in Outcome
    BY SupervisorAssumption DEF SupervisorAssumption
  <2>2. Isolation!Probe(e, o = "ok")
    BY <1>2, <1>3, <1>5, <1>7, <2>1, ProbeEvent
  <2> QED
    BY <1>2, <2>2 DEF Isolation!QuarantineNext
<1> QED
  BY <1>4, <1>6, <1>7

LEMMA RecoverEvent ==
    ASSUME IInv, Recover
    PROVE  Isolation!QuarantineNext
<1>1. PICK e \in t.todo : RecoverOne(e)
  BY DEF Recover
<1>2. e \in Endpoint /\ Enabled(ep[e]) /\ ep[e] \in Memory
  BY <1>1 DEF IInv, TypeOK, TickLocals, TickInv, AtRecover, Recover, EnabledEndpoints
<1> DEFINE m == IF HardBlocked(ep[e]) THEN ep[e] ELSE Purge(e, ep[e])
<1>3. m \in Memory /\ TidiedUp(e, m, ep[e])
  BY <1>2, PurgeType, PurgeWard DEF TidiedUp, SameSettings
<1>4. \/ ep' = [ep EXCEPT ![e] = m]
      \/ \E o \in ProbeOutcomes : ep' = [ep EXCEPT ![e] = Remember(m, o)]
  BY <1>1 DEF RecoverOne
<1>5. Isolation!MayStop
  BY MayStopThen DEF Recover, session, control
<1> HIDE DEF m
<1>6. CASE ep' = [ep EXCEPT ![e] = m]
  BY <1>2, <1>3, <1>5, <1>6, TidiedEvent DEF Isolation!QuarantineNext
<1>7. ASSUME NEW o \in ProbeOutcomes, ep' = [ep EXCEPT ![e] = Remember(m, o)]
      PROVE  Isolation!QuarantineNext
  <2>1. o \in Outcome
    BY SupervisorAssumption DEF SupervisorAssumption
  <2>2. Isolation!Probe(e, o = "ok")
    BY <1>2, <1>3, <1>5, <1>7, <2>1, ProbeEvent
  <2> QED
    BY <1>2, <2>2 DEF Isolation!QuarantineNext
<1> QED
  BY <1>4, <1>6, <1>7

LEMMA EndingEvent ==
    ASSUME IInv, Nothing \/ Stay \/ Switch
    PROVE  Isolation!QuarantineNext
<1>1. direct' = direct
  BY DEF Nothing, Stay, Switch, control
<1>2. CASE Nothing
  <2>1. CASE current # None /\ UNCHANGED <<current, session>> /\ Drive(current)
    <3>1. PICK c \in Endpoint : c = current
      BY <2>1 DEF IInv, TypeOK, MaybeEndpoint
    <3>2. Drive(c)
      BY <2>1, <3>1 DEF Drive, Driven
    <3> QED
      BY <1>1, <2>1, <3>2, DriveUnmoved, MayStopThen, StopEvent
      DEF session, Isolation!QuarantineNext
  <2>2. CASE StopAgent /\ UNCHANGED ep
    BY <1>1, <2>2, MayStopThen, StopEvent DEF StopAgent, Isolation!QuarantineNext
  <2> QED
    BY <1>2, <2>1, <2>2 DEF Nothing
<1>3. ASSUME Stay \/ Switch
      PROVE  \E s \in Endpoint : s = t.sel
  BY <1>3 DEF IInv, TypeOK, TickLocals, MaybeEndpoint, Stay, Switch
<1>4. CASE Stay
  <2>1. PICK s \in Endpoint : s = t.sel
    BY <1>3, <1>4
  <2>2. Drive(s)
    BY <1>4, <2>1 DEF Stay, Drive, Driven
  <2> QED
    BY <1>1, <1>4, <2>2, DriveUnmoved, MayStopThen, StopEvent
    DEF Stay, session, Isolation!QuarantineNext
<1>5. CASE Switch
  <2>1. PICK s \in Endpoint : s = t.sel
    BY <1>3, <1>5
  <2>2. CASE Launch(t.sel) /\ Drive(t.sel)
    <3>1. s # current \/ t.failed
      BY <1>5, <2>1 DEF Switch, Changed, IInv, TickInv, AfterFailedLaunch
    <3>2. Enabled(ep[s]) /\ ep[s].last = "ok" /\ ~Cooling(ep[s])
      BY <1>5, <2>1, <3>1 DEF Switch, IInv, TickInv, AtCommit
    <3>3. ep[s] \in Memory
      BY DEF IInv, TypeOK
    <3>4. s \in EnabledEndpoints /\ ~(Ward(ep[s]).state \in {"session", "guard"})
      BY <3>2, <3>3, WardStates DEF EnabledEndpoints, Ward
    <3>5. Drive(s)
      BY <2>1, <2>2 DEF Drive, Driven
    <3>6. Unmoved
      BY <3>5, DriveUnmoved
    <3>7. (IF alive THEN agent ELSE None)' = s
      BY <2>1, <2>2 DEF Launch
    <3>8. Isolation!Start(s)
      BY <1>1, <3>2, <3>4, <3>6, <3>7
      DEF Unmoved, Isolation!Start, Isolation!Isolated, Isolation!config
    <3> QED
      BY <3>8 DEF Isolation!QuarantineNext
  <2>3. CASE LaunchFails /\ ep' = [ep EXCEPT ![t.sel] = MarkStartupFailure(@)]
    <3> DEFINE m == MarkStartupFailure(ep[s])
    <3>1. /\ m \in Memory /\ ep[s] \in Memory
      BY MarkStartupFailureType DEF IInv, TypeOK
    <3>2. /\ m.pol = ep[s].pol /\ m.gpol = ep[s].gpol /\ m.clean = ep[s].clean
          /\ m.cfg = ep[s].cfg /\ m.guarded = ep[s].guarded /\ m.last = ep[s].last
      BY <3>1 DEF MarkStartupFailure, Memory
    <3>3. ep' = [ep EXCEPT ![s] = m]
      BY <2>1, <2>3
    <3> HIDE DEF m
    <3>4. SameWard(m, ep[s])
      BY <3>1, <3>2, WardOfFields DEF SameWard, SameSettings
    <3> QED
      BY <1>1, <2>3, <3>3, <3>4, SameWardUnmoved, MayStopThen, StopEvent
      DEF LaunchFails, StopAgent, Isolation!QuarantineNext
  <2> QED
    BY <1>5, <2>2, <2>3 DEF Switch
<1> QED
  BY <1>2, <1>4, <1>5

LEMMA TickEvent ==
    ASSUME IInv, SearchInv, Tick
    PROVE  Isolation!QuarantineNext
<1>1. CASE Choose \/ LookedAtAll \/ Recovered \/ GiveUp
  BY <1>1, MayStopThen, StopEvent
  DEF Choose, LookedAtAll, Recovered, GiveUp, session, control, Isolation!QuarantineNext
<1> QED
  BY <1>1, DirectStartEvent, HoldEvent, WatchEvent, CheckEvent, LookAtNextEvent,
     RecoverEvent, EndingEvent DEF Tick

-----------------------------------------------------------------------------
(* So is every command, every deadline and every death.                    *)
LEMMA StartRuntimeEvent ==
    ASSUME IInv, StartRuntime
    PROVE  Isolation!NewRun
<1>1. \A e \in Endpoint : Ward(ep'[e]) = Isolation!Free
  <2> SUFFICES ASSUME NEW e \in Endpoint PROVE Ward(ep'[e]) = Isolation!Free
    OBVIOUS
  <2>1. ep'[e] = NewMemory(ep[e].cfg, ep[e].guarded)
    BY DEF StartRuntime
  <2>2. ep'[e] \in Memory
    BY <2>1, NewMemoryType DEF IInv, TypeOK, Memory
  <2> QED
    BY <2>1, <2>2, FreeWard DEF NewMemory
<1>2. \A e \in Endpoint : /\ ep'[e].last = "unknown"
                          /\ ep'[e].cfg = ep[e].cfg /\ ep'[e].guarded = ep[e].guarded
  BY DEF StartRuntime, NewMemory
<1>3. [e \in Endpoint |-> Ward(ep[e])]' = [e \in Endpoint |-> Isolation!Free]
  BY <1>1 DEF Ward
<1>4. {e \in Endpoint : ep[e].last = "ok"}' = {}
  BY <1>2
<1>5. UNCHANGED <<EnabledEndpoints, {e \in Endpoint : ep[e].guarded}>>
  BY <1>2 DEF EnabledEndpoints, Enabled
<1>6. (IF alive THEN agent ELSE None)' = None /\ direct' \in Endpoint \cup {None}
  BY DEF StartRuntime
<1> QED
  BY <1>3, <1>4, <1>5, <1>6 DEF Isolation!NewRun, Isolation!config

LEMMA SetEndpointEnabledEvent ==
    ASSUME IInv, NEW e \in Endpoint, NEW on \in BOOLEAN, SetEndpointEnabled(e, on)
    PROVE  Isolation!Edit \/ Isolation!Disable(e)
<1> DEFINE m == [ep[e] EXCEPT !.cfg = IF on THEN "on" ELSE "off", !.wait = "none",
                              !.startFailed = FALSE, !.req = 0, !.trans = 0, !.stall = 0]
           k == IF on THEN m ELSE ClearPollutionRecovery(m)
<1>1. m \in Memory /\ ep[e] \in Memory
  <2> DEFINE cfg == IF on THEN "on" ELSE "off"
  <2>1. ep[e] \in Memory /\ cfg \in {"on", "off", "gone"}
    BY DEF IInv, TypeOK
  <2>2. m = [ep[e] EXCEPT !.cfg = cfg, !.wait = "none", !.startFailed = FALSE,
                          !.req = 0, !.trans = 0, !.stall = 0]
    OBVIOUS
  <2> HIDE DEF cfg, m
  <2> QED
    BY <2>1, <2>2, CountsFromZero DEF Memory, Timer
<1>2. /\ m.cfg = IF on THEN "on" ELSE "off"
      /\ m.guarded = ep[e].guarded /\ m.last = ep[e].last
      /\ m.pol = ep[e].pol /\ m.gpol = ep[e].gpol /\ m.clean = ep[e].clean
  BY <1>1 DEF Memory
<1>3. ep' = [ep EXCEPT ![e] = k]
  BY DEF SetEndpointEnabled
<1>4. Isolation!MayStop
  BY MayStopThen DEF SetEndpointEnabled, StopAgent
<1> HIDE DEF m
<1>5. k.cfg = m.cfg /\ k.guarded = ep[e].guarded /\ k.last = ep[e].last
  BY <1>1, <1>2 DEF ClearPollutionRecovery, Memory
<1>6. Ward(k) = IF on THEN Ward(ep[e]) ELSE Isolation!Free
  <2>1. CASE on
    BY <1>1, <1>2, <2>1, WardOfFields
  <2>2. CASE ~on
    <3>1. /\ k \in Memory /\ k.pol = "none" /\ k.gpol = "none"
      BY <1>1, <2>2, ClearPollutionRecoveryType DEF ClearPollutionRecovery, Memory
    <3> HIDE DEF k
    <3> QED
      BY <2>2, <3>1, FreeWard
  <2> QED
    BY <2>1, <2>2
<1> HIDE DEF k
<1>7. ep'[e] = k /\ \A f \in Endpoint \ {e} : ep'[f] = ep[f]
  BY <1>3 DEF IInv, TypeOK
<1>8. UNCHANGED {f \in Endpoint : ep[f].guarded} /\ UNCHANGED {f \in Endpoint : ep[f].last = "ok"}
  BY <1>5, <1>7
<1>9. CASE on
  <2>1. UNCHANGED [f \in Endpoint |-> Ward(ep[f])]
    BY <1>6, <1>7, <1>9 DEF Ward
  <2>2. EnabledEndpoints' \subseteq Endpoint /\ {f \in Endpoint : ep[f].guarded}' \subseteq Endpoint
    BY DEF EnabledEndpoints
  <2> QED
    BY <1>4, <1>8, <2>1, <2>2 DEF Isolation!Edit
<1>10. CASE ~on
  <2>1. Isolation!Becomes(e, Isolation!Free)
    <3>1. Isolation!Becomes(e, Ward(k))
      BY <1>3, WardBecomes DEF IInv, TypeOK
    <3> QED
      BY <1>6, <1>10, <3>1 DEF Isolation!Becomes
  <2>2. EnabledEndpoints' = EnabledEndpoints \ {e}
    BY <1>2, <1>5, <1>7, <1>10 DEF EnabledEndpoints, Enabled
  <2> QED
    BY <1>4, <1>8, <2>1, <2>2 DEF Isolation!Disable
<1> QED
  BY <1>9, <1>10

LEMMA SetEndpointGuardProxyEnabledEvent ==
    ASSUME IInv, NEW e \in Endpoint, NEW on \in BOOLEAN,
           SetEndpointGuardProxyEnabled(e, on)
    PROVE  Isolation!Edit \/ Isolation!Guard(e) \/ Isolation!Unguard(e)
<1> DEFINE m == [ep[e] EXCEPT !.guarded = on]
           k == IF ~on THEN ClearGuardPollution(m)
                ELSE IF e \in GuardReplaces THEN ClearReplacedDirectPollution(m)
                ELSE m
<1>1. ep[e] \in Memory
  BY DEF IInv, TypeOK
<1>2. /\ m \in Memory /\ m.guarded = on /\ m.cfg = ep[e].cfg /\ m.last = ep[e].last
      /\ m.pol = ep[e].pol /\ m.gpol = ep[e].gpol /\ m.clean = ep[e].clean
  BY <1>1 DEF Memory
<1>3. ep' = [ep EXCEPT ![e] = k]
  BY DEF SetEndpointGuardProxyEnabled
<1>4. Isolation!MayStop
  BY MayStopThen DEF SetEndpointGuardProxyEnabled, RestartAgent, StopAgent, session, control
<1>5. Ward(m) = Ward(ep[e])
  BY <1>1, <1>2, WardOfFields
<1> HIDE DEF m
<1>6. k \in Memory /\ k.guarded = on /\ k.cfg = ep[e].cfg
  BY <1>2, ClearGuardPollutionType, ClearReplacedDirectPollutionType
  DEF ClearGuardPollution, ClearReplacedDirectPollution, Memory
<1>7. \/ k = m /\ (~on => m.gpol = "none")
      \/ /\ k.pol = "none" /\ k.gpol = "none" /\ k.last = "ok"
         /\ on => e \in GuardReplaces /\ m.gpol = "none"
  BY <1>2 DEF ClearGuardPollution, ClearReplacedDirectPollution, Memory
<1> HIDE DEF k
<1>8. ep'[e] = k /\ \A f \in Endpoint \ {e} : ep'[f] = ep[f]
  BY <1>3 DEF IInv, TypeOK
<1>9. UNCHANGED EnabledEndpoints
  BY <1>6, <1>8 DEF EnabledEndpoints, Enabled
<1>10. {f \in Endpoint : ep[f].guarded}' =
         IF on THEN {f \in Endpoint : ep[f].guarded} \cup {e}
         ELSE {f \in Endpoint : ep[f].guarded} \ {e}
  <2>1. CASE on
    BY <1>6, <1>8, <2>1
  <2>2. CASE ~on
    BY <1>6, <1>8, <2>2
  <2> QED
    BY <2>1, <2>2
<1>11. CASE k = m /\ (~on => m.gpol = "none")
  <2>1. UNCHANGED [f \in Endpoint |-> Ward(ep[f])]
    <3>1. Isolation!Becomes(e, Ward(k))
      BY <1>3, WardBecomes DEF IInv, TypeOK
    <3> QED
      BY <1>5, <1>11, <3>1 DEF Isolation!Becomes
  <2>2. UNCHANGED {f \in Endpoint : ep[f].last = "ok"}
    BY <1>2, <1>8, <1>11
  <2>3. EnabledEndpoints' \subseteq Endpoint /\ {f \in Endpoint : ep[f].guarded}' \subseteq Endpoint
    BY DEF EnabledEndpoints
  <2> QED
    BY <1>4, <2>1, <2>2, <2>3 DEF Isolation!Edit
<1>12. CASE /\ k.pol = "none" /\ k.gpol = "none" /\ k.last = "ok"
            /\ on => e \in GuardReplaces /\ m.gpol = "none"
  <2>1. Isolation!Becomes(e, Isolation!Free)
    <3>1. Ward(k) = Isolation!Free
      BY <1>6, <1>12, FreeWard
    <3>2. Isolation!Becomes(e, Ward(k))
      BY <1>3, WardBecomes DEF IInv, TypeOK
    <3> QED
      BY <3>1, <3>2 DEF Isolation!Becomes
  <2>2. {f \in Endpoint : ep[f].last = "ok"}' = {f \in Endpoint : ep[f].last = "ok"} \cup {e}
    BY <1>8, <1>12
  <2>3. Isolation!Reinstated(e)
    BY <2>1, <2>2 DEF Isolation!Reinstated
  <2>4. CASE on
    <3>1. WardState(ep[e]) # "guard"
      BY <1>1, <1>2, <1>12, <2>4, WardStates
    <3> QED
      BY <1>4, <1>9, <1>10, <1>12, <2>3, <2>4, <3>1 DEF Isolation!Guard, Ward
  <2>5. CASE ~on
    BY <1>4, <1>9, <1>10, <2>3, <2>5 DEF Isolation!Unguard
  <2> QED
    BY <2>4, <2>5
<1> QED
  BY <1>7, <1>11, <1>12

LEMMA ReplaceConfigEvent ==
    ASSUME IInv, NEW e \in Endpoint, NEW cfg \in {"on", "off", "gone"},
           NEW guarded \in BOOLEAN, ReplaceConfig(e, cfg, guarded)
    PROVE  Isolation!Edit
<1> DEFINE k == [ep[e] EXCEPT !.cfg = cfg, !.guarded = guarded]
<1>1. k \in Memory /\ ep[e] \in Memory
  BY ZenonT(60) DEF IInv, TypeOK, Memory
<1>2. /\ k.pol = ep[e].pol /\ k.gpol = ep[e].gpol /\ k.clean = ep[e].clean
      /\ k.last = ep[e].last
  BY <1>1 DEF Memory
<1>3. ep' = [ep EXCEPT ![e] = k]
  BY DEF IInv, TypeOK, ReplaceConfig
<1> HIDE DEF k
<1>4. Ward(k) = Ward(ep[e])
  BY <1>1, <1>2, WardOfFields
<1>5. ep'[e] = k /\ \A f \in Endpoint \ {e} : ep'[f] = ep[f]
  BY <1>3 DEF IInv, TypeOK
<1>6. UNCHANGED [f \in Endpoint |-> Ward(ep[f])]
  <2>1. Isolation!Becomes(e, Ward(k))
    BY <1>3, WardBecomes DEF IInv, TypeOK
  <2> QED
    BY <1>4, <2>1 DEF Isolation!Becomes
<1>7. UNCHANGED {f \in Endpoint : ep[f].last = "ok"}
  BY <1>2, <1>5
<1>8. Isolation!MayStop
  BY MayStopThen DEF ReplaceConfig, session, control
<1>9. EnabledEndpoints' \subseteq Endpoint /\ {f \in Endpoint : ep[f].guarded}' \subseteq Endpoint
  BY DEF EnabledEndpoints
<1> QED
  BY <1>6, <1>7, <1>8, <1>9 DEF Isolation!Edit

LEMMA CommandEvent ==
    ASSUME IInv, UserCommand
    PROVE  Isolation!QuarantineNext
<1>1. CASE StopRuntime \/ Restart \/ ForceNewConversation \/ ForkSession
  BY <1>1, MayStopThen, StopEvent
  DEF StopRuntime, Restart, RestartAgent, ForceNewConversation, ForkSession, StopAgent,
      control, Isolation!QuarantineNext
<1>2. CASE ForceCurrentProbe \/ ConfirmCurrentProbe \/ ForceFullProbe \/ SetPaused
  BY <1>2, MayStopThen, StopEvent
  DEF ForceCurrentProbe, ConfirmCurrentProbe, ForceFullProbe, SetPaused, session, control,
      Isolation!QuarantineNext
<1>3. CASE \E e \in Endpoint \cup {None} : SetFixedEndpoint(e) \/ SetForceProbeEndpoint(e)
  BY <1>3, MayStopThen, StopEvent
  DEF SetFixedEndpoint, SetForceProbeEndpoint, session, Isolation!QuarantineNext
<1>4. ASSUME NEW e \in Endpoint, ForceStartEndpoint(e)
      PROVE  Isolation!Wish
  BY <1>4 DEF ForceStartEndpoint, session, Isolation!Wish, Isolation!config, EnabledEndpoints
<1> QED
  BY <1>1, <1>2, <1>3, <1>4, StartRuntimeEvent, SetEndpointEnabledEvent,
     SetEndpointGuardProxyEnabledEvent, ReplaceConfigEvent
  DEF UserCommand, Isolation!QuarantineNext

LEMMA TimePassesEvent ==
    ASSUME IInv, NEW e \in Endpoint, NEW d \in Deadline, TimePasses(e, d)
    PROVE  Isolation!QuarantineNext
<1> DEFINE k == Elapsed(ep[e], d)
<1>1. ep[e] \in Memory /\ Pending(ep[e], d) /\ ep' = [ep EXCEPT ![e] = k]
  BY DEF IInv, TypeOK, TimePasses
<1>2. SameSettings(k, ep[e]) /\ k.last = ep[e].last
  BY <1>1, ElapsedWard
<1>3. \/ Ward(k) = Ward(ep[e])
      \/ Cooling(ep[e]) /\ Ward(k) = [state |-> "served", clean |-> 0]
      \/ WardState(ep[e]) = "guard" /\ Ward(k) = [Ward(ep[e]) EXCEPT !.state = "session"]
  BY <1>1, ElapsedWard
<1>4. Isolation!MayStop
  BY MayStopThen DEF TimePasses, session, control
<1> HIDE DEF k
<1>5. CASE Ward(k) = Ward(ep[e])
  BY <1>1, <1>2, <1>4, <1>5, SameWardUnmoved, StopEvent DEF SameWard, Isolation!QuarantineNext
<1>6. CASE \/ Cooling(ep[e]) /\ Ward(k) = [state |-> "served", clean |-> 0]
           \/ WardState(ep[e]) = "guard" /\ Ward(k) = [Ward(ep[e]) EXCEPT !.state = "session"]
  <2>1. UNCHANGED {f \in Endpoint : ep[f].last = "ok"}
    BY <1>1, <1>2, OneWard
  <2>2. UNCHANGED <<EnabledEndpoints, {f \in Endpoint : ep[f].guarded}>>
    BY <1>1, <1>2, OneWard
  <2>3. Isolation!Isolated(e)
    BY <1>1, <1>6, WardStates DEF Isolation!Isolated, Ward
  <2>4. Isolation!Becomes(e, Ward(k))
    BY <1>1, <1>2, OneWard
  <2>5. \/ Isolation!Becomes(e, [state |-> "served", clean |-> 0])
        \/ /\ WardState(ep[e]) = "guard"
           /\ Isolation!Becomes(e, [Ward(ep[e]) EXCEPT !.state = "session"])
    BY <1>6, <2>4 DEF Isolation!Becomes
  <2>6. Isolation!Lapse(e)
    BY <1>4, <2>1, <2>2, <2>3, <2>5
    DEF Isolation!Lapse, Isolation!Becomes, Isolation!config, Ward
  <2> QED
    BY <2>6 DEF Isolation!QuarantineNext
<1> QED
  BY <1>3, <1>5, <1>6

LEMMA QuarantineStep ==
    ASSUME IInv, SearchInv, [Next]_vars
    PROVE  [Isolation!QuarantineNext]_(Isolation!quarantineVars)
<1>1. CASE AgentExits \/ GuardExits
  BY <1>1, MayStopThen, StopEvent
  DEF AgentExits, GuardExits, control, Isolation!QuarantineNext
<1>2. CASE UNCHANGED vars
  BY <1>2 DEF vars, Isolation!quarantineVars, EnabledEndpoints
<1> QED
  BY <1>1, <1>2, TickEvent, CommandEvent, TimePassesEvent DEF Next, Environment

(* A polluted endpoint stays isolated until its time is served, enough     *)
(* clean probes in a row, its guard or the user lets it out, and no agent  *)
(* is started on it meanwhile but by the user's wish: Supervisor           *)
(* implements Quarantine.                                                  *)
THEOREM QuarantineKept == Spec => KeepsQuarantine
<1>1. Init => Isolation!QuarantineInit
  <2> SUFFICES ASSUME Init PROVE Isolation!QuarantineInit
    OBVIOUS
  <2>1. ep \in [Endpoint -> Memory]
    BY InitIInv DEF IInv, TypeOK
  <2>2. \A e \in Endpoint : ep[e].last = "unknown" /\ ep[e].pol = "none" /\ ep[e].gpol = "none"
    BY DEF Init, NewMemory
  <2>3. \A e \in Endpoint : Ward(ep[e]) = Isolation!Free
    BY <2>1, <2>2, FreeWard
  <2> QED
    BY <2>2, <2>3 DEF Init, Isolation!QuarantineInit, EnabledEndpoints
<1>2. IInv /\ SearchInv /\ [Next]_vars
        => [Isolation!QuarantineNext]_(Isolation!quarantineVars)
  BY QuarantineStep
<1> QED
  BY <1>1, <1>2, SearchInvariance, PTL DEF Spec, KeepsQuarantine, Isolation!QuarantineSpec

(* The agent runs on e where it did not before.                            *)
StartsOn(e) == agent' = e /\ alive' /\ ~(agent = e /\ alive)

LEMMA StartStep ==
    ASSUME IInv, [Isolation!QuarantineNext]_(Isolation!quarantineVars),
           NEW e \in Endpoint, StartsOn(e), direct # e
    PROVE  Enabled(ep[e]) /\ ep[e].last = "ok" /\ ~Cooling(ep[e])
<1> DEFINE running == IF alive THEN agent ELSE None
<1>1. running' = e /\ running # e /\ e # None
  BY EndpointsAssumption DEF StartsOn, Endpoint, None
<1>2. ~Isolation!MayStop
  BY <1>1 DEF Isolation!MayStop
<1>3. PICK f \in Endpoint : Isolation!Start(f) \/ Isolation!StartAnyway(f)
  BY <1>1, <1>2 DEF Isolation!QuarantineNext, Isolation!quarantineVars,
     Isolation!Pollute, Isolation!Report, Isolation!Probe, Isolation!Tidy,
     Isolation!Reinstate, Isolation!Lapse, Isolation!Disable, Isolation!Guard,
     Isolation!Unguard, Isolation!Edit, Isolation!NewRun, Isolation!Wish, Isolation!Stop
<1>4. Isolation!Start(e)
  BY <1>1, <1>3 DEF Isolation!Start, Isolation!StartAnyway
<1>5. ep[e] \in Memory
  BY DEF IInv, TypeOK
<1>6. WardState(ep[e]) \notin {"session", "guard"}
  BY <1>4 DEF Isolation!Start, Isolation!Isolated, Ward
<1>7. e \in EnabledEndpoints /\ ep[e].last = "ok"
  BY <1>4 DEF Isolation!Start
<1> QED
  BY <1>5, <1>6, <1>7, WardStates DEF EnabledEndpoints

(* In the supervisor's own terms: an agent only starts on an endpoint that *)
(* is enabled, answered its last probe and is out of pollution cooldown at *)
(* the moment of the start, unless the user asked for a direct start.      *)
THEOREM StartsOutOfQuarantine ==
    Spec => [][\A e \in Endpoint : StartsOn(e) /\ direct # e
                 => Enabled(ep[e]) /\ ep[e].last = "ok" /\ ~Cooling(ep[e])]_vars
<1>1. IInv /\ SearchInv /\ [Next]_vars
        => [\A e \in Endpoint : StartsOn(e) /\ direct # e
              => Enabled(ep[e]) /\ ep[e].last = "ok" /\ ~Cooling(ep[e])]_vars
  BY QuarantineStep, StartStep
<1> QED
  BY <1>1, SearchInvariance, PTL DEF Spec

=============================================================================
