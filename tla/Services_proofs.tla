-------------------------- MODULE Services_proofs ---------------------------
(***************************************************************************)
(* The parts that MCServices puts side by side: each behaves there as it   *)
(* does by itself, so what is proved of the parts holds of them together.  *)
(***************************************************************************)
EXTENDS MCServices, Guard_proofs, AggregatePool_proofs, SmartProxy_proofs, Readers_proofs,
        QualityWriter_proofs

(* A step of one part leaves the others alone.                             *)
LEMMA StepOfOnePart ==
    ASSUME [ServicesNext]_services
    PROVE  /\ [GuardNext]_guardVars /\ [PortsNext]_portVars /\ [PoolNext]_poolVars
           /\ [SmartNext]_smartVars /\ [SseNext]_sseVars /\ [MonitorNext]_monitorVars
           /\ [QualityNext]_qualityVars /\ part' = part
<1>1. CASE part = "guard" /\ GuardNext /\ UNCHANGED NotGuard
  BY <1>1 DEF NotGuard
<1>2. CASE part = "ports" /\ PortsNext /\ UNCHANGED NotPorts
  BY <1>2 DEF NotPorts
<1>3. CASE part = "pool" /\ PoolNext /\ UNCHANGED NotPool
  BY <1>3 DEF NotPool
<1>4. CASE part = "smart" /\ SmartNext /\ UNCHANGED NotSmart
  BY <1>4 DEF NotSmart
<1>5. CASE part = "sse" /\ SseNext /\ UNCHANGED NotStream
  BY <1>5 DEF NotStream
<1>6. CASE part = "log" /\ MonitorNext /\ UNCHANGED NotLog
  BY <1>6 DEF NotLog
<1>7. CASE part = "writer" /\ QualityNext /\ UNCHANGED NotWriter
  BY <1>7 DEF NotWriter
<1>8. CASE UNCHANGED services
  BY <1>8 DEF services
<1> QED
  BY <1>1, <1>2, <1>3, <1>4, <1>5, <1>6, <1>7, <1>8 DEF ServicesNext

(* Guard, ports, pool, smart proxy, stream, log and writer side by side    *)
(* are behaviours of each of their specifications.                         *)
THEOREM PartsByThemselves ==
    ServicesSpec => /\ GuardSpec /\ PortsSpec /\ PoolSpec /\ SmartSpec /\ MonitorSpec
                    /\ QualitySpec
                    /\ part = "sse" => SseSpec
<1>1. ServicesInit => /\ GuardInit /\ PortsInit /\ PoolInit /\ SmartInit /\ MonitorInit
                      /\ QualityInit
                      /\ part = "sse" => SseInit
  BY DEF ServicesInit
<1>2. [ServicesNext]_services
        => /\ [GuardNext]_guardVars /\ [PortsNext]_portVars /\ [PoolNext]_poolVars
           /\ [SmartNext]_smartVars /\ [SseNext]_sseVars /\ [MonitorNext]_monitorVars
           /\ [QualityNext]_qualityVars
  BY StepOfOnePart
<1> QED
  BY <1>1, <1>2, PTL
     DEF ServicesSpec, GuardSpec, PortsSpec, PoolSpec, SmartSpec, SseSpec, MonitorSpec,
         QualitySpec

(* Every variable of the part that runs keeps its type.                    *)
THEOREM ServicesTypeCorrect == ServicesSpec => []ServicesTypeOK
<1> DEFINE Streaming == part = "sse"
<1>1. ServicesInit => part \in Parts
  BY DEF ServicesInit
<1>2. part \in Parts /\ [ServicesNext]_services => (part \in Parts)'
  BY StepOfOnePart
<1>3. ~Streaming /\ [ServicesNext]_services => ~Streaming'
  BY StepOfOnePart
<1>4. ASSUME GuardTypeOK, PortsTypeOK, PoolTypeOK, SmartTypeOK, MonitorTypeOK,
             QualityTypeOK, Streaming => SseTypeOK, part \in Parts
      PROVE  ServicesTypeOK
  BY <1>4, ServicesAssumption DEF ServicesTypeOK
<1>5. ServicesSpec => [](~Streaming) \/ []SseTypeOK
  <2>1. ServicesSpec => (Streaming => SseSpec)
    BY PartsByThemselves
  <2> HIDE DEF Streaming
  <2> QED
    BY <1>3, <2>1, SpecSseTypeOK, PTL DEF ServicesSpec
<1> HIDE DEF Streaming
<1> QED
  BY <1>1, <1>2, <1>4, <1>5, PartsByThemselves, GuardTypeCorrect, PortsTypeCorrect,
     PoolTypeCorrect, SmartTypeCorrect, SpecMonitorTypeOK, QualityTypeCorrect, PTL DEF ServicesSpec

(* What the run "services" checks holds for any number of clients,         *)
(* runtimes, requests, keys, upstreams and older servers, for streams and  *)
(* logs of any length.                                                     *)
THEOREM ServicesKeepPromises ==
    ServicesSpec =>
        /\ []ClientsCounted /\ []OneHead /\ []FailuresAccounted
        /\ []PortsDistinct /\ []PortKept
        /\ []OneSource /\ []ResponsePreferred /\ []FailoverMoves
        /\ []RejectedMoves /\ []NoCircularWait
        /\ []EndOfNewTurn /\ []CountExact /\ LagsBehind
        /\ part = "sse" => []VerdictExact
BY PartsByThemselves, ClientsAlwaysCounted, HeadsOnce, FailuresAlwaysAccounted,
   PortsAlwaysDistinct, PortsAlwaysKept, SourcesOnce, ResponsesPreferred,
   FailoverAlwaysMoves, RejectedAlwaysMoves, NeverCircularWait, SpecEndOfNewTurn,
   SpecCountExact, SpecVerdictExact, AlwaysLagsBehind, PTL

=============================================================================
