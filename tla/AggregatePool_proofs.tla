------------------------ MODULE AggregatePool_proofs ------------------------
(***************************************************************************)
(* What holds of AggregatePool for any number of requests, keys and        *)
(* upstreams, all limits and attempts.  Sound says of one request what its *)
(* place implies; every step of a request takes it from one sound record   *)
(* to another.  Two relations between the tables complete the invariant:   *)
(* what is avoided is cooling, and what is in flight is counted.           *)
(***************************************************************************)
EXTENDS AggregatePool, FiniteSetTheorems, TLAPS

(* A request that has heard an upstream holds the response, unless it is   *)
(* about to be recorded; a stream passes on one attempt and then stops.    *)
HoldsResponse(x) == ~x.stream /\ x.heard => x.kept = "response"

Sound(x) ==
    /\ x.at \in {"chosen", "sent", "recording"} => x.member \in Member
    /\ x.at \in {"new", "selecting", "chosen", "sent"} => x.sources = 0 /\ HoldsResponse(x)
    /\ x.at = "new" => ~x.heard
    /\ x.at = "recording" =>
         /\ x.outcome \in Possible(x)
         /\ x.sources = (IF x.outcome \in {"ok", "incomplete"} THEN 1 ELSE 0)
         /\ x.outcome \in {"ok", "status", "invalid"} \/ HoldsResponse(x)
    /\ x.sources <= 1
    /\ x.at # "done" => x.result # "error"
    /\ x.at = "done" /\ ~x.stream /\ x.heard => x.result # "error"

RequestsSound == \A r \in Request : Sound(request[r])

(* A key is avoided only while it cools down.                              *)
AvoidedCools == \A r \in Request, m \in Member : <<r, m>> \in avoided => m \in cooling

PoolInv == PoolTypeOK /\ RequestsSound /\ AvoidedCools /\ FailoverMoves

(***************************************************************************)
(* What the operators do to the record of a request.                       *)
(***************************************************************************)
LEMMA FinishedFacts ==
    ASSUME NEW x \in RequestType, NEW result \in {"none", "ok", "error", "response"}
    PROVE  /\ Finished(x, result) \in RequestType
           /\ Finished(x, result).at = "done" /\ Finished(x, result).result = result
           /\ (Finished(x, result).stream <=> x.stream)
           /\ (Finished(x, result).heard <=> x.heard)
           /\ Finished(x, result).sources = x.sources
<1>1. 1 \in 1 .. PoolAttempts
  BY PoolAssumption DEF PoolAssumption
<1> QED BY <1>1 DEF Finished, RequestType

LEMMA NextAttemptFacts ==
    ASSUME NEW x \in RequestType, x.attempt < PoolAttempts
    PROVE  /\ NextAttempt(x) \in RequestType
           /\ NextAttempt(x).at = "selecting" /\ NextAttempt(x).result = x.result
           /\ (NextAttempt(x).stream <=> x.stream) /\ (NextAttempt(x).heard <=> x.heard)
           /\ NextAttempt(x).sources = x.sources /\ NextAttempt(x).kept = x.kept
<1>1. x.attempt + 1 \in 1 .. PoolAttempts
  BY PoolAssumption DEF PoolAssumption, RequestType
<1> QED BY <1>1 DEF NextAttempt, RequestType

LEMMA KeepErrorFacts ==
    ASSUME NEW x \in RequestType
    PROVE  /\ KeepError(x) \in RequestType
           /\ KeepError(x).at = x.at /\ KeepError(x).result = x.result
           /\ (KeepError(x).stream <=> x.stream) /\ (KeepError(x).heard <=> x.heard)
           /\ KeepError(x).sources = x.sources
           /\ x.kept = "response" => KeepError(x).kept = "response"
BY DEF KeepError, RequestType

LEMMA KeepResponseFacts ==
    ASSUME NEW x \in RequestType
    PROVE  /\ KeepResponse(x) \in RequestType
           /\ KeepResponse(x).at = x.at /\ KeepResponse(x).result = x.result
           /\ (KeepResponse(x).stream <=> x.stream) /\ (KeepResponse(x).heard <=> x.heard)
           /\ KeepResponse(x).sources = x.sources
           /\ KeepResponse(x).kept = "response"
BY DEF KeepResponse, RequestType

(* A request that ends with what is left keeps the response it has.        *)
LEMMA LeftoverSound ==
    ASSUME NEW x \in RequestType, x.sources <= 1, HoldsResponse(x)
    PROVE  Leftover(x) \in RequestType /\ Sound(Leftover(x)) /\ Leftover(x).at = "done"
<1>1. CASE x.kept = "response"
  <2>1. Leftover(x) = Finished(x, "response")
    BY <1>1 DEF Leftover
  <2>2. /\ Leftover(x) \in RequestType /\ Leftover(x).at = "done"
        /\ Leftover(x).result = "response" /\ Leftover(x).sources <= 1
    BY <2>1, FinishedFacts
  <2> QED BY <2>2 DEF Sound
<1>2. CASE x.kept # "response"
  <2>1. Leftover(x) = Finished(x, "error")
    BY <1>2 DEF Leftover
  <2>2. /\ Leftover(x) \in RequestType /\ Leftover(x).at = "done"
        /\ Leftover(x).sources <= 1
        /\ (Leftover(x).stream <=> x.stream) /\ (Leftover(x).heard <=> x.heard)
    BY <2>1, FinishedFacts
  <2> QED BY <1>2, <2>2 DEF Sound, HoldsResponse
<1> QED BY <1>1, <1>2

LEMMA GoOnSound ==
    ASSUME NEW x \in RequestType, x.sources = 0, HoldsResponse(x), x.result # "error"
    PROVE  /\ GoOn(x) \in RequestType /\ Sound(GoOn(x))
           /\ GoOn(x).at \in {"selecting", "done"}
<1>1. CASE x.attempt < PoolAttempts
  <2>1. GoOn(x) = NextAttempt(x)
    BY <1>1 DEF GoOn
  <2>2. /\ GoOn(x) \in RequestType /\ GoOn(x).at = "selecting"
        /\ GoOn(x).result # "error" /\ GoOn(x).sources = 0 /\ GoOn(x).kept = x.kept
        /\ (GoOn(x).stream <=> x.stream) /\ (GoOn(x).heard <=> x.heard)
    BY <1>1, <2>1, NextAttemptFacts
  <2> QED BY <2>2 DEF Sound, HoldsResponse
<1>2. CASE ~(x.attempt < PoolAttempts)
  BY <1>2, LeftoverSound DEF GoOn
<1> QED BY <1>1, <1>2

(***************************************************************************)
(* The steps of a request.  Moved: whether it was or is at an upstream.    *)
(***************************************************************************)
Becoming(r, x) ==
    x \in RequestType /\ Sound(x) /\ request' = [request EXCEPT ![r] = x]

LEMMA RequestFacts ==
    ASSUME PoolTypeOK, RequestsSound, NEW r \in Request
    PROVE  request[r] \in RequestType /\ Sound(request[r])
BY DEF PoolTypeOK, RequestsSound

LEMMA ReceiveRequestSound ==
    ASSUME PoolTypeOK, RequestsSound, NEW r \in Request, ReceiveRequest(r)
    PROVE  \E x : Becoming(r, x) /\ x.at = "selecting"
<1>1. PICK stream \in BOOLEAN :
        Becomes(r, [request[r] EXCEPT !.at = "selecting", !.stream = stream])
  BY DEF ReceiveRequest
<1> DEFINE x == [request[r] EXCEPT !.at = "selecting", !.stream = stream]
<1>2. request[r] \in RequestType /\ Sound(request[r]) /\ request[r].at = "new"
  BY RequestFacts DEF ReceiveRequest
<1>3. /\ x \in RequestType /\ x.at = "selecting" /\ x.sources = request[r].sources
      /\ (x.heard <=> request[r].heard) /\ x.result = request[r].result
  BY <1>2 DEF RequestType
<1>4. request' = [request EXCEPT ![r] = x]
  BY <1>1 DEF Becomes
<1> HIDE DEF x
<1>5. Sound(x)
  BY <1>2, <1>3 DEF Sound, HoldsResponse
<1> QED BY <1>3, <1>4, <1>5 DEF Becoming

LEMMA SelectDeploymentSound ==
    ASSUME PoolTypeOK, RequestsSound, NEW r \in Request, SelectDeployment(r)
    PROVE  \E x : Becoming(r, x) /\ x.at = "chosen" /\ x.member \in Member \ cooling
<1>1. PICK m \in Member :
        /\ m \in ExplorationPool
        /\ Becomes(r, [request[r] EXCEPT !.at = "chosen", !.member = m])
  BY DEF SelectDeployment
<1> DEFINE x == [request[r] EXCEPT !.at = "chosen", !.member = m]
<1>2. m \in Member \ cooling
  BY <1>1 DEF ExplorationPool, LeastTried, Eligible
<1>3. request[r] \in RequestType /\ Sound(request[r]) /\ request[r].at = "selecting"
  BY RequestFacts DEF SelectDeployment
<1>4. /\ x \in RequestType /\ x.at = "chosen" /\ x.member = m
      /\ x.sources = request[r].sources /\ x.kept = request[r].kept
      /\ (x.stream <=> request[r].stream) /\ (x.heard <=> request[r].heard)
      /\ x.result = request[r].result
  BY <1>3 DEF RequestType
<1>5. request' = [request EXCEPT ![r] = x]
  BY <1>1 DEF Becomes
<1> HIDE DEF x
<1>6. Sound(x)
  BY <1>3, <1>4 DEF Sound, HoldsResponse
<1> QED BY <1>2, <1>4, <1>5, <1>6 DEF Becoming

LEMMA NoKeySound ==
    ASSUME PoolTypeOK, RequestsSound, NEW r \in Request, NoKey(r)
    PROVE  \E x : Becoming(r, x) /\ x.at \in {"selecting", "done"}
<1> DEFINE x == request[r]
<1>1. /\ x \in RequestType /\ x.sources = 0 /\ HoldsResponse(x)
      /\ x.result # "error"
  BY RequestFacts DEF NoKey, Sound
<1>2. /\ KeepError(x) \in RequestType /\ KeepError(x).sources = 0
      /\ HoldsResponse(KeepError(x)) /\ KeepError(x).result # "error"
  BY <1>1, KeepErrorFacts DEF HoldsResponse
<1>3. CASE request' = [request EXCEPT ![r] = Leftover(x)]
  <2>1. Leftover(x) \in RequestType /\ Sound(Leftover(x)) /\ Leftover(x).at = "done"
    BY <1>1, LeftoverSound
  <2> QED BY <1>3, <2>1 DEF Becoming
<1>4. CASE request' = [request EXCEPT ![r] = GoOn(KeepError(x))]
  BY <1>2, <1>4, GoOnSound DEF Becoming
<1> QED BY <1>3, <1>4 DEF NoKey, Becomes

LEMMA SendUpstreamSound ==
    ASSUME PoolTypeOK, RequestsSound, NEW r \in Request, SendUpstream(r)
    PROVE  \E x : Becoming(r, x) /\ x.at = "sent" /\ x.member = request[r].member
<1> DEFINE x == [request[r] EXCEPT !.at = "sent"]
<1>1. request[r] \in RequestType /\ Sound(request[r]) /\ request[r].at = "chosen"
  BY RequestFacts DEF SendUpstream
<1>2. /\ x \in RequestType /\ x.at = "sent" /\ x.member = request[r].member
      /\ x.sources = request[r].sources /\ x.kept = request[r].kept
      /\ (x.stream <=> request[r].stream) /\ (x.heard <=> request[r].heard)
      /\ x.result = request[r].result
  BY <1>1 DEF RequestType
<1>3. request' = [request EXCEPT ![r] = x]
  BY DEF SendUpstream, Becomes
<1> HIDE DEF x
<1>4. Sound(x)
  BY <1>1, <1>2 DEF Sound, HoldsResponse
<1> QED BY <1>2, <1>3, <1>4 DEF Becoming

LEMMA MalformedRequestSound ==
    ASSUME PoolTypeOK, RequestsSound, NEW r \in Request, MalformedRequest(r)
    PROVE  \E x : Becoming(r, x) /\ x.at \in {"selecting", "done"}
<1> DEFINE x == request[r]
<1>1. /\ x \in RequestType /\ x.sources = 0 /\ HoldsResponse(x)
      /\ x.result # "error"
  BY RequestFacts DEF MalformedRequest, Sound
<1>2. /\ KeepError(x) \in RequestType /\ KeepError(x).sources = 0
      /\ HoldsResponse(KeepError(x)) /\ KeepError(x).result # "error"
  BY <1>1, KeepErrorFacts DEF HoldsResponse
<1> QED BY <1>2, GoOnSound DEF Becoming, MalformedRequest, Becomes

LEMMA MarkFinishedSound ==
    ASSUME PoolTypeOK, RequestsSound, NEW r \in Request, MarkFinished(r)
    PROVE  \E x : Becoming(r, x) /\ x.at = "recording"
<1>1. PICK o \in Outcomes :
        /\ o \in Possible(request[r])
        /\ Becomes(r, [request[r] EXCEPT !.at = "recording", !.outcome = o,
                !.heard = @ \/ (o \in {"ok", "status"}
                                \/ (o = "invalid" /\ ~request[r].stream)),
                !.sources = @ + (IF o \in {"ok", "incomplete"} THEN 1 ELSE 0)])
  BY DEF MarkFinished
<1>2. /\ request[r] \in RequestType /\ request[r].at = "sent"
      /\ request[r].sources = 0 /\ HoldsResponse(request[r])
      /\ request[r].member \in Member /\ request[r].result # "error"
  BY RequestFacts DEF MarkFinished, Sound
<1> DEFINE heard == request[r].heard \/ (o \in {"ok", "status"}
                       \/ (o = "invalid" /\ ~request[r].stream))
           n == IF o \in {"ok", "incomplete"} THEN 1 ELSE 0
           x == [request[r] EXCEPT !.at = "recording", !.outcome = o, !.heard = heard,
                                   !.sources = n]
<1>3. request[r].sources + n = n /\ n \in Nat /\ n <= 1 /\ heard \in BOOLEAN
  BY <1>2 DEF RequestType
<1>4. request' = [request EXCEPT ![r] = x]
  BY <1>1, <1>3 DEF Becomes
<1> HIDE DEF heard, n
<1>5. /\ x \in RequestType /\ x.at = "recording" /\ x.outcome = o
      /\ x.member = request[r].member /\ x.sources = n /\ x.kept = request[r].kept
      /\ (x.stream <=> request[r].stream) /\ (x.heard <=> heard)
      /\ x.result = request[r].result
  BY <1>2, <1>3 DEF RequestType
<1> HIDE DEF x
<1>6. x.outcome \in Possible(x)
  BY <1>1, <1>5 DEF Possible
<1>7. x.outcome \in {"ok", "status", "invalid"} \/ HoldsResponse(x)
  BY <1>2, <1>5 DEF heard, HoldsResponse
<1>8. Sound(x)
  BY <1>2, <1>3, <1>5, <1>6, <1>7 DEF Sound, n
<1> QED BY <1>4, <1>5, <1>8 DEF Becoming

LEMMA RecordSuccessSound ==
    ASSUME PoolTypeOK, RequestsSound, NEW r \in Request, RecordSuccess(r)
    PROVE  \E x : Becoming(r, x) /\ x.at = "done"
<1> DEFINE x == Finished(request[r], "ok")
<1>1. request[r] \in RequestType /\ request[r].sources <= 1
  BY RequestFacts DEF Sound
<1>2. x \in RequestType /\ x.at = "done" /\ x.result = "ok" /\ x.sources <= 1
  BY <1>1, FinishedFacts
<1>3. request' = [request EXCEPT ![r] = x]
  BY DEF RecordSuccess, Becomes
<1> HIDE DEF x
<1> QED BY <1>2, <1>3 DEF Becoming, Sound

(* Whatever has failed, the request holds the response it has heard.       *)
LEMMA RecordFailedSound ==
    ASSUME PoolTypeOK, RequestsSound, NEW r \in Request, RecordFailed(r)
    PROVE  \E x : Becoming(r, x) /\ x.at \in {"selecting", "done"}
<1> DEFINE x == request[r]
<1>1. /\ x \in RequestType /\ Sound(x) /\ x.at = "recording" /\ x.outcome # "ok"
  BY RequestFacts DEF RecordFailed
<1>2. /\ x.outcome \in Possible(x) /\ x.sources <= 1 /\ x.result # "error"
      /\ x.outcome # "incomplete" => x.sources = 0
      /\ x.outcome \in {"status", "invalid"} \/ HoldsResponse(x)
  BY <1>1 DEF Sound
<1>3. /\ Kept(x) \in RequestType /\ Kept(x).sources = x.sources
      /\ Kept(x).result # "error" /\ HoldsResponse(Kept(x))
  <2>1. CASE ~x.stream /\ x.outcome \in {"status", "invalid"}
    BY <1>1, <1>2, <2>1, KeepResponseFacts DEF Kept, HoldsResponse
  <2>2. CASE ~(~x.stream /\ x.outcome \in {"status", "invalid"})
    <3>1. HoldsResponse(x)
      BY <1>2, <2>2 DEF HoldsResponse
    <3> QED BY <1>1, <1>2, <2>2, <3>1, KeepErrorFacts DEF Kept, HoldsResponse
  <2> QED BY <2>1, <2>2
<1>4. CASE Stops(x)
  BY <1>2, <1>3, <1>4, LeftoverSound DEF Becoming, RecordFailed, Becomes
<1>5. CASE ~Stops(x)
  <2>1. x.outcome # "incomplete"
    BY <1>2, <1>5 DEF Stops, Possible
  <2> QED BY <1>2, <1>3, <1>5, <2>1, GoOnSound DEF Becoming, RecordFailed, Becomes
<1> QED BY <1>4, <1>5

(***************************************************************************)
(* The tables.                                                             *)
(***************************************************************************)
LEMMA BecomingFacts ==
    ASSUME PoolTypeOK, RequestsSound, NEW r \in Request, NEW x, Becoming(r, x)
    PROVE  /\ request' \in [Request -> RequestType] /\ RequestsSound'
           /\ \A q \in Request : request'[q] = IF q = r THEN x ELSE request[q]
BY DEF Becoming, PoolTypeOK, RequestsSound

LEMMA CountedType ==
    ASSUME PoolTypeOK, NEW m \in Member
    PROVE  [total EXCEPT ![m] = Counted(m)] \in [Member -> 0 .. Exploration]
<1>1. Counted(m) \in 0 .. Exploration
  BY PoolAssumption DEF PoolAssumption, PoolTypeOK, Counted
<1> QED BY <1>1 DEF PoolTypeOK

(* What a step must show besides the soundness of its request.             *)
TablesKept ==
    /\ cooling' \subseteq Member
    /\ total' \in [Member -> 0 .. Exploration]
    /\ inFlight' \in [Upstream -> Int]
    /\ recent' \in [Upstream -> SUBSET (Request \X (1 .. PoolAttempts))]
    /\ leaked' \in [Upstream -> Nat]
    /\ avoided' \subseteq Request \X Member
    /\ AvoidedCools'

LEMMA TablesSame ==
    ASSUME PoolTypeOK, AvoidedCools, UNCHANGED tables
    PROVE  TablesKept
BY DEF PoolTypeOK, AvoidedCools, tables, TablesKept

(* Where a request goes that has not just been given a key does not        *)
(* matter; the avoided keys only grow by those of its own attempt.         *)
LEMMA PoolStepInv ==
    ASSUME PoolInv, NEW r \in Request, NEW x, Becoming(r, x), TablesKept,
           x.at = "chosen" => <<r, x.member>> \notin avoided',
           \A q \in Request \ {r}, m \in Member :
               <<q, m>> \in avoided' => <<q, m>> \in avoided
    PROVE  PoolInv'
<1>1. PoolTypeOK /\ RequestsSound /\ FailoverMoves
  BY DEF PoolInv
<1>2. /\ request' \in [Request -> RequestType] /\ RequestsSound'
      /\ \A q \in Request : request'[q] = IF q = r THEN x ELSE request[q]
  BY <1>1, BecomingFacts
<1>3. PoolTypeOK'
  BY <1>2 DEF PoolTypeOK, TablesKept
<1>4. FailoverMoves'
  <2> SUFFICES ASSUME NEW q \in Request, request'[q].at = "chosen"
               PROVE  <<q, request'[q].member>> \notin avoided'
    BY DEF FailoverMoves
  <2>1. CASE q = r
    BY <1>2, <2>1
  <2>2. CASE q # r
    <3>1. request'[q] = request[q] /\ request[q].member \in Member
      BY <1>1, <1>2, <2>2 DEF RequestsSound, Sound
    <3> QED BY <1>1, <2>2, <3>1 DEF FailoverMoves
  <2> QED BY <2>1, <2>2
<1> QED BY <1>2, <1>3, <1>4 DEF PoolInv, TablesKept

LEMMA UpstreamOfType == \A m \in Member : UpstreamOf[m] \in Upstream
BY PoolAssumption DEF PoolAssumption

(* The steps that touch no table.                                          *)
LEMMA QuietStepInv ==
    ASSUME PoolInv, NEW r \in Request,
           ReceiveRequest(r) \/ SelectDeployment(r) \/ NoKey(r)
    PROVE  PoolInv'
<1>1. PoolTypeOK /\ RequestsSound /\ AvoidedCools
  BY DEF PoolInv
<1>2. UNCHANGED tables
  BY DEF ReceiveRequest, SelectDeployment, NoKey
<1>3. TablesKept /\ avoided' = avoided
  BY <1>1, <1>2, TablesSame DEF tables
<1>4. CASE SelectDeployment(r)
  <2>1. PICK x : Becoming(r, x) /\ x.at = "chosen" /\ x.member \in Member \ cooling
    BY <1>1, <1>4, SelectDeploymentSound
  <2>2. <<r, x.member>> \notin avoided
    BY <1>1, <2>1 DEF AvoidedCools
  <2> QED BY <1>3, <2>1, <2>2, PoolStepInv
<1>5. CASE ReceiveRequest(r) \/ NoKey(r)
  <2>1. PICK x : Becoming(r, x) /\ x.at \in {"selecting", "done"}
    BY <1>1, <1>5, ReceiveRequestSound, NoKeySound
  <2> QED BY <1>3, <2>1, PoolStepInv
<1> QED BY <1>4, <1>5

LEMMA MarkStartedType ==
    ASSUME PoolTypeOK, RequestsSound, NEW r \in Request, request[r].at = "chosen",
           MarkStarted(r)
    PROVE  /\ UpstreamFor(r) \in Upstream
           /\ inFlight' \in [Upstream -> Int]
           /\ recent' \in [Upstream -> SUBSET (Request \X (1 .. PoolAttempts))]
<1>1. UpstreamFor(r) \in Upstream
  BY UpstreamOfType DEF RequestsSound, Sound, UpstreamFor
<1>2. <<r, request[r].attempt>> \in Request \X (1 .. PoolAttempts)
  BY DEF PoolTypeOK, RequestType
<1> QED BY <1>1, <1>2 DEF MarkStarted, PoolTypeOK

LEMMA StartStepInv ==
    ASSUME PoolInv, NEW r \in Request, SendUpstream(r) \/ MalformedRequest(r)
    PROVE  PoolInv'
<1>1. PoolTypeOK /\ RequestsSound /\ AvoidedCools
  BY DEF PoolInv
<1>2. request[r].at = "chosen" /\ MarkStarted(r) /\ UNCHANGED <<cooling, total, avoided>>
  BY DEF SendUpstream, MalformedRequest
<1>3. UpstreamFor(r) \in Upstream
  BY <1>1, <1>2, MarkStartedType
<1>4. leaked' \in [Upstream -> Nat]
  BY <1>1, <1>3 DEF SendUpstream, MalformedRequest, PoolTypeOK
<1>5. TablesKept
  BY <1>1, <1>2, <1>4, MarkStartedType DEF TablesKept, PoolTypeOK, AvoidedCools
<1>6. PICK x : Becoming(r, x) /\ x.at \in {"sent", "selecting", "done"}
  BY <1>1, SendUpstreamSound, MalformedRequestSound
<1> QED BY <1>2, <1>5, <1>6, PoolStepInv

LEMMA MarkFinishedInv ==
    ASSUME PoolInv, NEW r \in Request, MarkFinished(r)
    PROVE  PoolInv'
<1>1. PoolTypeOK /\ RequestsSound /\ AvoidedCools
  BY DEF PoolInv
<1>2. UpstreamFor(r) \in Upstream
  BY <1>1, UpstreamOfType DEF MarkFinished, RequestsSound, Sound, UpstreamFor
<1>3. inFlight' = [inFlight EXCEPT ![UpstreamFor(r)] = inFlight[UpstreamFor(r)] - 1]
      /\ UNCHANGED <<cooling, total, recent, leaked, avoided>>
  BY DEF MarkFinished, Freed
<1>4. inFlight' \in [Upstream -> Int]
  BY <1>1, <1>2, <1>3 DEF PoolTypeOK
<1>5. TablesKept
  BY <1>1, <1>3, <1>4 DEF TablesKept, PoolTypeOK, AvoidedCools
<1>6. PICK x : Becoming(r, x) /\ x.at = "recording"
  BY <1>1, MarkFinishedSound
<1> QED BY <1>3, <1>5, <1>6, PoolStepInv

(* A key that ends its cooldown is no longer avoided.                      *)
LEMMA ForgivenCools ==
    ASSUME PoolTypeOK, AvoidedCools, NEW m \in Member, cooling' = cooling \ {m},
           avoided' = {a \in avoided : a[2] # m}
    PROVE  AvoidedCools' /\ cooling' \subseteq Member /\ avoided' \subseteq Request \X Member
BY DEF PoolTypeOK, AvoidedCools

LEMMA RecordSuccessInv ==
    ASSUME PoolInv, NEW r \in Request, RecordSuccess(r)
    PROVE  PoolInv'
<1>1. PoolTypeOK /\ RequestsSound /\ AvoidedCools
  BY DEF PoolInv
<1> DEFINE m == request[r].member
<1>2. /\ m \in Member /\ cooling' = cooling \ {m}
      /\ avoided' = {a \in avoided : a[2] # m}
      /\ total' = [total EXCEPT ![m] = Counted(m)]
      /\ UNCHANGED <<inFlight, recent, leaked>>
  BY <1>1 DEF RecordSuccess, RequestsSound, Sound
<1>3. TablesKept
  BY <1>1, <1>2, ForgivenCools, CountedType DEF TablesKept, PoolTypeOK
<1>4. PICK x : Becoming(r, x) /\ x.at = "done"
  BY <1>1, RecordSuccessSound
<1> QED BY <1>2, <1>3, <1>4, PoolStepInv

LEMMA RecordFailedInv ==
    ASSUME PoolInv, NEW r \in Request, RecordFailed(r)
    PROVE  PoolInv'
<1>1. PoolTypeOK /\ RequestsSound /\ AvoidedCools
  BY DEF PoolInv
<1> DEFINE y == request[r]
           m == y.member
           u == UpstreamOf[m]
<1>2. m \in Member /\ u \in Upstream /\ y.outcome \in Outcomes \ {"ok"}
  BY <1>1, UpstreamOfType DEF RecordFailed, RequestsSound, Sound, Possible
<1>3. cooling' = (IF Cools(y) THEN cooling \cup {m} ELSE cooling)
      /\ total' = (IF Cools(y) THEN [total EXCEPT ![m] = Counted(m)] ELSE total)
  BY DEF RecordFailed
<1>4. avoided' = (IF y.outcome \in {"invalid", "local"} THEN avoided
                  ELSE avoided \cup {<<r, m>>})
      /\ UNCHANGED <<inFlight, leaked>>
  BY DEF RecordFailed
<1>5. recent' \in [Upstream -> SUBSET (Request \X (1 .. PoolAttempts))]
  BY <1>1, <1>2 DEF RecordFailed, PoolTypeOK
<1>6. y.outcome \notin {"invalid", "local"} => Cools(y)
  BY <1>2 DEF Outcomes, Cools
<1>7. cooling' \subseteq Member /\ avoided' \subseteq Request \X Member
      /\ total' \in [Member -> 0 .. Exploration]
  BY <1>1, <1>2, <1>3, <1>4, CountedType DEF PoolTypeOK
<1>8. AvoidedCools'
  BY <1>1, <1>3, <1>4, <1>6 DEF AvoidedCools
<1>9. TablesKept
  BY <1>1, <1>4, <1>5, <1>7, <1>8 DEF TablesKept, PoolTypeOK
<1>10. PICK x : Becoming(r, x) /\ x.at \in {"selecting", "done"}
  BY <1>1, RecordFailedSound
<1>11. \A q \in Request \ {r}, k \in Member : <<q, k>> \in avoided' => <<q, k>> \in avoided
  BY <1>4
<1> QED BY <1>9, <1>10, <1>11, PoolStepInv

(* Time passes: cooldowns end, requests are no longer recent.              *)
LEMMA TimeInv ==
    ASSUME PoolInv,
           \/ \E m \in Member : CooldownEnds(m)
           \/ \E u \in Upstream : RateRecovers(u)
           \/ UNCHANGED poolVars
    PROVE  PoolInv'
<1>1. PoolTypeOK /\ RequestsSound /\ AvoidedCools /\ FailoverMoves
  BY DEF PoolInv
<1>2. request' = request
  BY DEF CooldownEnds, RateRecovers, poolVars
<1>3. RequestsSound'
  BY <1>1, <1>2 DEF RequestsSound
<1>4. CASE \E m \in Member : CooldownEnds(m)
  <2>1. PICK m \in Member : CooldownEnds(m)
    BY <1>4
  <2>2. /\ cooling' = cooling \ {m} /\ avoided' = {a \in avoided : a[2] # m}
        /\ UNCHANGED <<total, inFlight, recent, leaked>>
    BY <2>1 DEF CooldownEnds
  <2>3. PoolTypeOK' /\ AvoidedCools'
    BY <1>1, <1>2, <2>2, ForgivenCools DEF PoolTypeOK
  <2>4. FailoverMoves'
    BY <1>1, <1>2, <2>2 DEF FailoverMoves
  <2> QED BY <1>3, <2>3, <2>4 DEF PoolInv
<1>5. CASE \E u \in Upstream : RateRecovers(u)
  <2>1. PICK u \in Upstream : RateRecovers(u)
    BY <1>5
  <2>2. PICK e \in Request \X (1 .. PoolAttempts) :
          recent' = [recent EXCEPT ![u] = recent[u] \ {e}]
    BY <2>1 DEF RateRecovers
  <2>3. UNCHANGED <<cooling, total, inFlight, leaked, avoided>>
    BY <2>1 DEF RateRecovers
  <2>4. PoolTypeOK'
    BY <1>1, <1>2, <2>2, <2>3 DEF PoolTypeOK
  <2> QED BY <1>1, <1>2, <1>3, <2>3, <2>4 DEF PoolInv, AvoidedCools, FailoverMoves
<1>6. CASE UNCHANGED poolVars
  <2>1. PoolTypeOK'
    BY <1>1, <1>6 DEF PoolTypeOK, poolVars
  <2> QED BY <1>1, <1>2, <1>3, <1>6, <2>1 DEF poolVars, PoolInv, AvoidedCools, FailoverMoves
<1> QED BY <1>4, <1>5, <1>6

LEMMA PoolInitInv == PoolInit => PoolInv
<1> SUFFICES ASSUME PoolInit PROVE PoolInv
  OBVIOUS
<1>1. NewRequest \in RequestType
  <2>1. 1 \in 1 .. PoolAttempts
    BY PoolAssumption DEF PoolAssumption
  <2> QED BY <2>1 DEF NewRequest, RequestType
<1>2. Sound(NewRequest) /\ NewRequest.at # "chosen"
  BY DEF Sound, NewRequest, HoldsResponse
<1>3. PoolTypeOK
  BY <1>1, PoolAssumption DEF PoolAssumption, PoolInit, PoolTypeOK
<1>4. RequestsSound /\ AvoidedCools /\ FailoverMoves
  BY <1>2 DEF PoolInit, RequestsSound, AvoidedCools, FailoverMoves
<1> QED BY <1>3, <1>4 DEF PoolInv

LEMMA PoolInvariance == PoolSpec => []PoolInv
<1>1. PoolInv /\ [PoolNext]_poolVars => PoolInv'
  BY QuietStepInv, StartStepInv, MarkFinishedInv, RecordSuccessInv, RecordFailedInv,
     TimeInv
  DEF PoolNext, RequestStep
<1> QED BY <1>1, PoolInitInv, PTL DEF PoolSpec

(***************************************************************************)
(* The places at the upstreams: one request more or less at one upstream.  *)
(***************************************************************************)
LEMMA OutstandingFinite ==
    ASSUME NEW u \in Upstream
    PROVE  IsFiniteSet(OutstandingAt(u)) /\ Cardinality(OutstandingAt(u)) \in Nat
<1>1. IsFiniteSet(OutstandingAt(u))
  BY PoolAssumption, FS_Subset DEF PoolAssumption, OutstandingAt
<1> QED BY <1>1, FS_CardinalityType

(* A step of a request that neither was nor is at an upstream.             *)
LEMMA OutstandingSame ==
    ASSUME PoolTypeOK, RequestsSound, NEW r \in Request, NEW x, Becoming(r, x),
           request[r].at # "sent", x.at # "sent", NEW u \in Upstream
    PROVE  OutstandingAt(u)' = OutstandingAt(u)
BY BecomingFacts DEF OutstandingAt, UpstreamFor

LEMMA QuietInFlight ==
    ASSUME PoolInv, InFlightCounted, NEW r \in Request,
           \/ ReceiveRequest(r) \/ SelectDeployment(r) \/ NoKey(r)
           \/ RecordSuccess(r) \/ RecordFailed(r)
    PROVE  InFlightCounted'
<1>1. PoolTypeOK /\ RequestsSound
  BY DEF PoolInv
<1>2. PICK x : Becoming(r, x) /\ x.at # "sent"
  BY <1>1, ReceiveRequestSound, SelectDeploymentSound, NoKeySound, RecordSuccessSound,
     RecordFailedSound
<1>3. request[r].at # "sent" /\ UNCHANGED <<inFlight, leaked>>
  BY DEF ReceiveRequest, SelectDeployment, NoKey, RecordSuccess, RecordFailed, tables
<1>4. \A u \in Upstream : OutstandingAt(u)' = OutstandingAt(u)
  BY <1>1, <1>2, <1>3, OutstandingSame
<1> QED BY <1>3, <1>4 DEF InFlightCounted

LEMMA SendInFlight ==
    ASSUME PoolInv, InFlightCounted, NEW r \in Request, SendUpstream(r)
    PROVE  InFlightCounted'
<1> DEFINE u == UpstreamFor(r)
<1>1. PoolTypeOK /\ RequestsSound /\ request[r].at = "chosen" /\ MarkStarted(r)
      /\ leaked' = leaked
  BY DEF PoolInv, SendUpstream
<1>2. PICK x : Becoming(r, x) /\ x.at = "sent" /\ x.member = request[r].member
  BY <1>1, SendUpstreamSound
<1>3. u \in Upstream
  BY <1>1, MarkStartedType
<1>4. \A q \in Request : request'[q] = IF q = r THEN x ELSE request[q]
  BY <1>1, <1>2, BecomingFacts
<1>5. \A v \in Upstream : inFlight'[v] = IF v = u THEN inFlight[v] + 1 ELSE inFlight[v]
  BY <1>1, <1>3 DEF MarkStarted, PoolTypeOK
<1> SUFFICES ASSUME NEW v \in Upstream
             PROVE  inFlight'[v] = Cardinality(OutstandingAt(v)') + leaked'[v]
  BY DEF InFlightCounted
<1>6. inFlight[v] = Cardinality(OutstandingAt(v)) + leaked[v] /\ leaked[v] \in Nat
  BY <1>1 DEF InFlightCounted, PoolTypeOK
<1>7. CASE v = u
  <2>1. OutstandingAt(v)' = OutstandingAt(v) \cup {r} /\ r \notin OutstandingAt(v)
    BY <1>1, <1>2, <1>4, <1>7 DEF OutstandingAt, UpstreamFor
  <2>2. Cardinality(OutstandingAt(v)') = Cardinality(OutstandingAt(v)) + 1
    BY <2>1, OutstandingFinite, FS_AddElement
  <2> QED BY <1>1, <1>5, <1>6, <1>7, <2>2, OutstandingFinite
<1>8. CASE v # u
  <2>1. OutstandingAt(v)' = OutstandingAt(v)
    BY <1>1, <1>2, <1>4, <1>8 DEF OutstandingAt, UpstreamFor
  <2> QED BY <1>1, <1>5, <1>6, <1>8, <2>1
<1> QED BY <1>7, <1>8

(* A request that cannot be built takes a place and leaves it taken.       *)
LEMMA MalformedInFlight ==
    ASSUME PoolInv, InFlightCounted, NEW r \in Request, MalformedRequest(r)
    PROVE  InFlightCounted'
<1> DEFINE u == UpstreamFor(r)
<1>1. PoolTypeOK /\ RequestsSound /\ request[r].at = "chosen" /\ MarkStarted(r)
      /\ leaked' = [leaked EXCEPT ![u] = @ + 1]
  BY DEF PoolInv, MalformedRequest
<1>2. PICK x : Becoming(r, x) /\ x.at \in {"selecting", "done"}
  BY <1>1, MalformedRequestSound
<1>3. u \in Upstream
  BY <1>1, MarkStartedType
<1>4. \A v \in Upstream : OutstandingAt(v)' = OutstandingAt(v)
  BY <1>1, <1>2, OutstandingSame
<1>5. \A v \in Upstream : /\ inFlight'[v] = IF v = u THEN inFlight[v] + 1 ELSE inFlight[v]
                          /\ leaked'[v] = IF v = u THEN leaked[v] + 1 ELSE leaked[v]
  BY <1>1, <1>3 DEF MarkStarted, PoolTypeOK
<1> SUFFICES ASSUME NEW v \in Upstream
             PROVE  inFlight'[v] = Cardinality(OutstandingAt(v)') + leaked'[v]
  BY DEF InFlightCounted
<1>6. inFlight[v] = Cardinality(OutstandingAt(v)) + leaked[v] /\ leaked[v] \in Nat
  BY <1>1 DEF InFlightCounted, PoolTypeOK
<1>7. Cardinality(OutstandingAt(v)') = Cardinality(OutstandingAt(v))
  BY <1>4
<1> QED BY <1>5, <1>6, <1>7, OutstandingFinite

LEMMA FinishInFlight ==
    ASSUME PoolInv, InFlightCounted, NEW r \in Request, MarkFinished(r)
    PROVE  InFlightCounted'
<1> DEFINE u == UpstreamFor(r)
<1>1. PoolTypeOK /\ RequestsSound /\ request[r].at = "sent" /\ leaked' = leaked
      /\ inFlight' = [inFlight EXCEPT ![u] = inFlight[u] - 1]
  BY DEF PoolInv, MarkFinished, Freed
<1>2. PICK x : Becoming(r, x) /\ x.at = "recording"
  BY <1>1, MarkFinishedSound
<1>3. u \in Upstream
  BY <1>1, UpstreamOfType DEF RequestsSound, Sound, UpstreamFor
<1>4. \A q \in Request : request'[q] = IF q = r THEN x ELSE request[q]
  BY <1>1, <1>2, BecomingFacts
<1>5. \A v \in Upstream : inFlight'[v] = IF v = u THEN inFlight[v] - 1 ELSE inFlight[v]
  BY <1>1, <1>3 DEF PoolTypeOK
<1> SUFFICES ASSUME NEW v \in Upstream
             PROVE  inFlight'[v] = Cardinality(OutstandingAt(v)') + leaked'[v]
  BY DEF InFlightCounted
<1>6. inFlight[v] = Cardinality(OutstandingAt(v)) + leaked[v] /\ leaked[v] \in Nat
  BY <1>1 DEF InFlightCounted, PoolTypeOK
<1>7. CASE v = u
  <2>1. OutstandingAt(v)' = OutstandingAt(v) \ {r} /\ r \in OutstandingAt(v)
    BY <1>1, <1>2, <1>4, <1>7 DEF OutstandingAt, UpstreamFor
  <2>2. Cardinality(OutstandingAt(v)') = Cardinality(OutstandingAt(v)) - 1
    BY <2>1, OutstandingFinite, FS_RemoveElement
  <2> QED BY <1>1, <1>5, <1>6, <1>7, <2>2, OutstandingFinite
<1>8. CASE v # u
  <2>1. OutstandingAt(v)' = OutstandingAt(v)
    BY <1>1, <1>2, <1>4, <1>8 DEF OutstandingAt, UpstreamFor
  <2> QED BY <1>1, <1>5, <1>6, <1>8, <2>1
<1> QED BY <1>7, <1>8

LEMMA InFlightUntouched ==
    ASSUME InFlightCounted, UNCHANGED <<request, inFlight, leaked>>
    PROVE  InFlightCounted'
BY DEF InFlightCounted, OutstandingAt, UpstreamFor

LEMMA InFlightInit == PoolInit => InFlightCounted
<1> SUFFICES ASSUME PoolInit, NEW u \in Upstream
             PROVE  inFlight[u] = Cardinality(OutstandingAt(u)) + leaked[u]
  BY DEF InFlightCounted
<1>1. OutstandingAt(u) = {}
  BY DEF PoolInit, OutstandingAt, NewRequest
<1>2. inFlight[u] = 0 /\ leaked[u] = 0
  BY DEF PoolInit
<1> QED BY <1>1, <1>2, FS_EmptySet

(***************************************************************************)
(* The theorems.                                                           *)
(***************************************************************************)
(* The requests, the loads of the upstreams and the cooldowns of the       *)
(* aggregate pool keep their types, for every number of them.              *)
THEOREM PoolTypeCorrect == PoolSpec => []PoolTypeOK
<1>1. PoolInv => PoolTypeOK
  BY DEF PoolInv
<1> QED BY <1>1, PoolInvariance, PTL

(* The client hears from one upstream at most.                             *)
THEOREM SourcesOnce == PoolSpec => []OneSource
<1>1. PoolInv => OneSource
  BY DEF PoolInv, RequestsSound, Sound, OneSource
<1> QED BY <1>1, PoolInvariance, PTL

(* A response that is there is not replaced by an error of the pool.       *)
THEOREM ResponsesPreferred == PoolSpec => []ResponsePreferred
<1>1. PoolInv => ResponsePreferred
  BY DEF PoolInv, RequestsSound, Sound, ResponsePreferred
<1> QED BY <1>1, PoolInvariance, PTL

(* A request is not sent back to a key that failed it and cools down.      *)
THEOREM FailoverAlwaysMoves == PoolSpec => []FailoverMoves
<1>1. PoolInv => FailoverMoves
  BY DEF PoolInv
<1> QED BY <1>1, PoolInvariance, PTL

(* The places counted at an upstream are those of the requests it works on *)
(* and of the malformed ones, which IdleMeansFree suffers from.            *)
THEOREM InFlightAlwaysCounted == PoolSpec => []InFlightCounted
<1>1. PoolInv /\ InFlightCounted /\ [PoolNext]_poolVars => InFlightCounted'
  <2> SUFFICES ASSUME PoolInv, InFlightCounted, [PoolNext]_poolVars
               PROVE  InFlightCounted'
    OBVIOUS
  <2>1. ASSUME NEW r \in Request, ReceiveRequest(r) \/ RequestStep(r)
        PROVE  InFlightCounted'
    BY <2>1, QuietInFlight, SendInFlight, MalformedInFlight, FinishInFlight
    DEF RequestStep
  <2>2. CASE UNCHANGED <<request, inFlight, leaked>>
    BY <2>2, InFlightUntouched
  <2> QED BY <2>1, <2>2 DEF PoolNext, CooldownEnds, RateRecovers, poolVars
<1> QED BY <1>1, InFlightInit, PoolInvariance, PTL DEF PoolSpec
=============================================================================
