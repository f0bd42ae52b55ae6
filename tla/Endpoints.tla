----------------------------- MODULE Endpoints -----------------------------
(***************************************************************************)
(* What RuntimeCore (watchapi-core/src/runtime.rs) remembers about each    *)
(* endpoint, as one record per endpoint, and the functions of runtime.rs   *)
(* that read or rewrite that memory: the result of the last probe, the     *)
(* pollution cooldowns and their recovery, the startup retry window and    *)
(* the failure counters.                                                   *)
(*                                                                         *)
(* The code keeps one HashMap per field; the maps with a deadline           *)
(* (polluted_until, guard_polluted_until, startup_failed_until,             *)
(* next_probe_at) are abstracted to where the clock stands with respect to *)
(* the deadline.  An entry of polluted_until that has run out but has not  *)
(* been removed differs from an absent one, hence "expired".               *)
(***************************************************************************)
EXTENDS Integers, FiniteSets

CONSTANTS
    N,                   \* number of endpoints; Endpoint i is the i-th of the config
    Weight,              \* [Endpoint -> Int], config weight
    GuardReplaces,       \* endpoints with replace_direct_pollution_detection
    RequestThreshold,    \* endpoint_failure_threshold.max(1)
    TransientThreshold,  \* transient_network_failure_threshold
    StallThreshold,      \* turn_stall_failure_threshold
    RecoveryThreshold    \* endpoint_recovery_threshold

Endpoint == 1 .. N
None == 0

ASSUME EndpointsAssumption ==
    /\ N \in Nat \ {0}
    /\ Weight \in [Endpoint -> Int]
    /\ GuardReplaces \subseteq Endpoint
    /\ RequestThreshold \in Nat \ {0}
    /\ TransientThreshold \in Nat
    /\ StallThreshold \in Nat
    /\ RecoveryThreshold \in Nat

(* What a probe can say of an endpoint. Only "ok" is available; "retry" is *)
(* an unavailable result that carries retry_after_seconds.                 *)
Outcome == {"ok", "bad", "polluted", "quota", "retry"}

Timer == {"none", "active", "expired"}

CleanNeeded == IF RecoveryThreshold > 3 THEN RecoveryThreshold ELSE 3

(* The counters saturate here: every comparison of the code with them has  *)
(* been decided by then.                                                   *)
Cap(n, limit) == IF n > limit THEN limit ELSE n

(* Values of the counters, see Cap.                                        *)
CleanCount == 0 .. CleanNeeded
RequestCount == 0 .. RequestThreshold
TransientCount == 0 .. TransientThreshold
StallCount == 0 .. StallThreshold

Memory ==
    [cfg : {"on", "off", "gone"}, guarded : BOOLEAN,
     last : Outcome \cup {"unknown"}, wait : Timer,
     pol : Timer, gpol : Timer, clean : CleanCount,
     startFailed : BOOLEAN,
     req : RequestCount, trans : TransientCount, stall : StallCount]

NewMemory(cfg, guarded) ==
    [cfg |-> cfg, guarded |-> guarded, last |-> "unknown", wait |-> "none",
     pol |-> "none", gpol |-> "none", clean |-> 0, startFailed |-> FALSE,
     req |-> 0, trans |-> 0, stall |-> 0]

Enabled(m) == m.cfg = "on"

(* now < next_probe_at: no probe is due yet.                              *)
Waiting(m) == m.wait = "active"

Cooling(m) == m.pol = "active" \/ m.gpol = "active"

Replaces(e, m) == m.guarded /\ e \in GuardReplaces

ClearPollutionRecovery(m) == [m EXCEPT !.pol = "none", !.gpol = "none", !.clean = 0]

(* Broken variant: the cooldown is not ended by enough clean probes.       *)
CountsRecoveryForever(m) ==
    IF Cooling(m) THEN [m EXCEPT !.clean = m.clean + 1] ELSE ClearPollutionRecovery(m)

(* record_pollution_recovery_success: the third clean probe in a row ends  *)
(* the cooldown early.                                                     *)
RecordRecoverySuccess(m) ==
    IF Cooling(m) /\ m.clean + 1 < CleanNeeded
    THEN [m EXCEPT !.clean = m.clean + 1]
    ELSE ClearPollutionRecovery(m)

(* A result the code got without asking the endpoint (request_made false). *)
RememberSynthetic(m, o) == [m EXCEPT !.last = o, !.wait = "active"]

(* Broken variant: a bad probe does not end the row of clean ones.         *)
RememberStreak(m, o) ==
    RememberSynthetic(
        IF o = "ok" THEN RecordRecoverySuccess([m EXCEPT !.req = 0, !.trans = 0]) ELSE m,
        o)

(* remember_single_probe_result for a result that came from a request.     *)
Remember(m, o) ==
    RememberSynthetic(
        IF o = "ok"
        THEN RecordRecoverySuccess([m EXCEPT !.req = 0, !.trans = 0])
        ELSE [m EXCEPT !.clean = 0],
        o)

(* A recovery probe is scheduled unless the next probe is already due.     *)
MarkPolluted(m) ==
    [m EXCEPT !.pol = "active", !.clean = 0,
              !.wait = IF m.wait = "none" THEN "active" ELSE m.wait]

MarkGuardPolluted(m) == [MarkPolluted(m) EXCEPT !.gpol = "active"]

MarkStartupFailure(m) == [m EXCEPT !.startFailed = TRUE]

ClearReplacedDirectPollution(m) ==
    IF m.gpol # "none" \/ (m.pol = "none" /\ m.last # "polluted")
    THEN m
    ELSE [m EXCEPT !.pol = "none", !.wait = "none", !.clean = 0, !.last = "ok"]

ClearGuardPollution(m) ==
    IF m.gpol = "none"
    THEN m
    ELSE [m EXCEPT !.pol = "none", !.gpol = "none", !.clean = 0,
                   !.wait = "none", !.last = "ok"]

(* hard_cooldown_result is Some.                                           *)
HardBlocked(m) == Waiting(m) /\ (m.last = "retry" \/ Cooling(m))

HardResult(m) == IF m.last = "retry" THEN "retry" ELSE "polluted"

(* The removals cooldown_result makes on its way: run-out deadlines and    *)
(* direct pollution of an endpoint whose guard answers for it.             *)
Purge(e, m) ==
    IF m.startFailed \/ m.gpol = "active"
    THEN m
    ELSE LET unguarded == [m EXCEPT !.gpol = "none"]
             cleared == IF Replaces(e, m) THEN ClearReplacedDirectPollution(unguarded)
                        ELSE unguarded
         IN IF cleared.pol = "expired"
            THEN [cleared EXCEPT !.pol = "none", !.clean = 0]
            ELSE cleared

(* cooldown_result is Some, for a record Purge has been through.           *)
SoftBlocked(m) ==
    \/ m.startFailed
    \/ Waiting(m) /\ (Cooling(m) \/ m.last \in {"polluted", "quota", "retry"})

SoftResult(m) ==
    CASE m.startFailed -> "bad"
      [] ~m.startFailed /\ Cooling(m) -> "polluted"
      [] OTHER -> m.last

(* Probes that look after endpoints nobody runs on ask only these.         *)
Unhealthy(m) == m.last \notin {"ok", "unknown"}

Deadline == {"wait", "pol", "gpol", "startFailed"}

Pending(m, d) == IF d = "startFailed" THEN m.startFailed ELSE m[d] = "active"

(* The deadline d passes.                                                  *)
Elapsed(m, d) == [m EXCEPT ![d] = IF d = "startFailed" THEN FALSE ELSE "expired"]

(* Broken variant: the lightest endpoint is tried first.                   *)
LightestFirst(e, f, favourite) ==
    Weight[e] < Weight[f] \/ (Weight[e] = Weight[f] /\ e <= f)

(* enabled_by_weight tries the heaviest first and, among equals, the one   *)
(* the config lists first (the sort is stable);                            *)
(* enabled_by_weight_preferring_current_tier puts a favourite, the running *)
(* endpoint, before its equals.                                            *)
Before(e, f, favourite) ==
    \/ Weight[e] > Weight[f]
    \/ Weight[e] = Weight[f] /\ (e = favourite \/ (f # favourite /\ e <= f))

Foremost(e, S, favourite) == \A f \in S : Before(e, f, favourite)
=============================================================================
