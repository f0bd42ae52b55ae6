----------------------------- MODULE MCServices -----------------------------
(* Instances of the proxies, of what belongs to them, and of the monitor   *)
(* of the session log, for TLC.  They share no variable, so each is run by *)
(* itself while the others stay as they are at the start: one instance of  *)
(* each is explored instead of all the ways to interleave them.            *)
EXTENDS GuardProxy, GuardPorts, AggregatePool, SmartProxy, SseTracker, SessionMonitor,
        QualityWriter, TLC

CONSTANTS
    Parts,                 \* the parts that are run
    r1, r2, r3, k1, k2     \* keepers of guard ports and their endpoints

VARIABLE part              \* the part that runs

ASSUME ServicesAssumption ==
    Parts \subseteq {"guard", "ports", "pool", "smart", "sse", "log", "writer"}

TwoOfOne == r1 :> k1 @@ r2 :> k1 @@ r3 :> k2
OneUpstream == [m \in Member |-> CHOOSE u \in Upstream : TRUE]
OneUrl == [k \in SmartKey |-> CHOOSE u \in Url : TRUE]
PoolRoom == [u \in Upstream |-> 1]
PoolRate == [u \in Upstream |-> 1]
UrlRoom == [u \in Url |-> 1]

(* The mode that counts, replaces and fails, and the pool that is shared.  *)
BusyGuards ==
    {[mode |-> "filterAndFail", rewrite |-> TRUE, shared |-> FALSE],
     [mode |-> "observeThenFail", rewrite |-> FALSE, shared |-> TRUE]}

(* A stream of no lines, which nobody reads.                               *)
NoStream ==
    /\ sseLines = <<>> /\ whole = TRUE /\ require = FALSE /\ arrived = 0
    /\ tracker = NewTracker /\ sseEnded = FALSE

ServicesInit ==
    /\ part \in Parts
    /\ GuardInit /\ (part # "guard" => config.rewrite)
    /\ PortsInit /\ PoolInit /\ SmartInit /\ QualityInit
    /\ MonitorInit /\ (part # "log" => driver = "codex" /\ log = <<>>)
    /\ IF part = "sse" THEN SseInit ELSE NoStream

(* The supervisor only looks at the audit of the guard and leaves what the *)
(* clients see alone: RaiseAlarm is left to MCGoesOn.                      *)
NotGuard ==
    <<part, alarms, portVars, poolVars, smartVars, sseVars, monitorVars, qualityVars>>
NotPorts == <<part, guardVars, poolVars, smartVars, sseVars, monitorVars, qualityVars>>
NotPool == <<part, guardVars, portVars, smartVars, sseVars, monitorVars, qualityVars>>
NotSmart == <<part, guardVars, portVars, poolVars, sseVars, monitorVars, qualityVars>>
NotLog == <<part, guardVars, portVars, poolVars, smartVars, sseVars, qualityVars>>
NotStream == <<part, guardVars, portVars, poolVars, smartVars, monitorVars, qualityVars>>
NotWriter == <<part, guardVars, portVars, poolVars, smartVars, sseVars, monitorVars>>

ServicesNext ==
    \/ part = "guard" /\ GuardNext /\ UNCHANGED NotGuard
    \/ part = "ports" /\ PortsNext /\ UNCHANGED NotPorts
    \/ part = "pool" /\ PoolNext /\ UNCHANGED NotPool
    \/ part = "smart" /\ SmartNext /\ UNCHANGED NotSmart
    \/ part = "sse" /\ SseNext /\ UNCHANGED NotStream
    \/ part = "log" /\ MonitorNext /\ UNCHANGED NotLog
    \/ part = "writer" /\ QualityNext /\ UNCHANGED NotWriter

services ==
    <<part, guardVars, portVars, poolVars, smartVars, sseVars, monitorVars, qualityVars>>

ServicesSpec == ServicesInit /\ [][ServicesNext]_services

(* Each variable of the part that runs keeps its type.                     *)
ServicesTypeOK ==
    CASE part = "guard" -> GuardTypeOK [] part = "ports" -> PortsTypeOK
      [] part = "pool" -> PoolTypeOK [] part = "smart" -> SmartTypeOK
      [] part = "sse" -> SseTypeOK [] part = "log" -> MonitorTypeOK
      [] part = "writer" -> QualityTypeOK

=============================================================================
