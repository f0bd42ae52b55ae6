--------------------------- MODULE AggregatePool ----------------------------
(***************************************************************************)
(* The aggregate egress pool (watchapi-core/src/aggregate_egress.rs): many *)
(* keys, each at some upstream, serve one model.  A request picks a key    *)
(* that is not cooling down and whose upstream has room, is sent, and on   *)
(* failure goes on to another key.  Every forwarding thread runs the same  *)
(* steps and shares the tables, whose locks are held for one step only:    *)
(*                                                                         *)
(*  new --> selecting --> chosen --> sent --> recording --> done           *)
(*              ^                                 |                        *)
(*              +------------ failover -----------+                        *)
(*                                                                         *)
(* Whether there is room is asked in one step and the place taken in a     *)
(* later one.                                                              *)
(***************************************************************************)
EXTENDS Integers, FiniteSets

CONSTANTS
    Request,        \* requests of the clients
    Member,         \* deployments: one key of one upstream each
    Upstream,       \* base urls
    UpstreamOf,     \* the upstream of each member
    Room,           \* max_concurrency of each upstream
    Rate,           \* max_qps or max_rpm of each upstream
    PoolAttempts,   \* attempts of forward_with_failover
    Exploration,    \* MIN_KEY_EXPLORATION_REQUESTS
    MayBeMalformed  \* BOOLEAN: a header of a request or key may be illegal

ASSUME PoolAssumption ==
    /\ IsFiniteSet(Request)
    /\ UpstreamOf \in [Member -> Upstream]
    /\ Room \in [Upstream -> Nat] /\ Rate \in [Upstream -> Nat]
    /\ PoolAttempts \in Nat \ {0} /\ Exploration \in Nat
    /\ MayBeMalformed \in BOOLEAN

VARIABLES
    request,      \* the forwarding threads
    cooling,      \* members whose cooldown_until lies ahead
    total,        \* total_requests of each member, up to Exploration
    inFlight,     \* in_flight of each upstream
    recent,       \* recent_request_times of each upstream: who made them
    leaked,       \* history: places taken by requests that were never sent
    avoided       \* history: members that failed a request and cool since

poolVars == <<request, cooling, total, inFlight, recent, leaked, avoided>>
tables == <<cooling, total, inFlight, recent, leaked, avoided>>

Outcomes == {"ok", "status", "transport", "incomplete", "invalid", "local"}

RequestType ==
    [at : {"new", "selecting", "chosen", "sent", "recording", "done"},
     stream : BOOLEAN,
     attempt : 1 .. PoolAttempts,
     member : Member \cup {"none"},
     outcome : Outcomes \cup {"none"},
     kept : {"nothing", "error", "response"},   \* last_error, last_response
     heard : BOOLEAN,        \* history: some upstream has answered
     sources : Nat,          \* history: attempts that have reached the client
     result : {"none", "ok", "error", "response"}]

NewRequest == [at |-> "new", stream |-> FALSE, attempt |-> 1, member |-> "none",
               outcome |-> "none", kept |-> "nothing", heard |-> FALSE, sources |-> 0,
               result |-> "none"]

PoolInit ==
    /\ request = [r \in Request |-> NewRequest]
    /\ cooling = {} /\ total = [m \in Member |-> 0]
    /\ inFlight = [u \in Upstream |-> 0] /\ recent = [u \in Upstream |-> {}]
    /\ leaked = [u \in Upstream |-> 0] /\ avoided = {}

Becomes(r, x) == request' = [request EXCEPT ![r] = x]
UpstreamFor(r) == UpstreamOf[request[r].member]

ReceiveRequest(r) ==
    /\ request[r].at = "new"
    /\ \E stream \in BOOLEAN :
         Becomes(r, [request[r] EXCEPT !.at = "selecting", !.stream = stream])
    /\ UNCHANGED tables

(***************************************************************************)
(* select_deployment.                                                      *)
(***************************************************************************)
(* upstream_available.                                                     *)
HasRoom(u) == inFlight[u] < Room[u] /\ Cardinality(recent[u]) < Rate[u]

Eligible == {m \in Member \ cooling : HasRoom(UpstreamOf[m])}

(* select_quality_exploration_pool: new keys first. Score and rotation     *)
(* decide among the rest.                                                  *)
LeastTried == {m \in Eligible : \A n \in Eligible : total[m] <= total[n]}

ExplorationPool ==
    IF \E m \in LeastTried : total[m] < Exploration THEN LeastTried ELSE Eligible

SelectDeployment(r) ==
    /\ request[r].at = "selecting"
    /\ \E m \in Member :
         /\ m \in ExplorationPool
         /\ Becomes(r, [request[r] EXCEPT !.at = "chosen", !.member = m])
    /\ UNCHANGED tables

(***************************************************************************)
(* forward_with_failover, forward_stream_with_failover: what follows an    *)
(* attempt.                                                                *)
(***************************************************************************)
Finished(x, result) ==
    [x EXCEPT !.at = "done", !.result = result, !.member = "none", !.outcome = "none",
              !.attempt = 1, !.kept = "nothing"]

(* What is left when no attempt has been successful.                       *)
Leftover(x) == Finished(x, IF x.kept = "response" THEN "response" ELSE "error")

NextAttempt(x) ==
    [x EXCEPT !.at = "selecting", !.attempt = @ + 1, !.member = "none", !.outcome = "none"]

GoOnEndless(x) == [NextAttempt(x) EXCEPT !.attempt = x.attempt]

GoOn(x) == IF x.attempt < PoolAttempts THEN NextAttempt(x) ELSE Leftover(x)

(* Broken variant: the latest error is kept.                               *)
KeepLatest(x) == [x EXCEPT !.kept = "error"]

(* An error never replaces a response that is kept.                        *)
KeepError(x) == [x EXCEPT !.kept = IF x.kept = "response" THEN @ ELSE "error"]

(* No key: the end if something is kept, otherwise another attempt.        *)
NoKey(r) ==
    /\ request[r].at = "selecting" /\ Eligible = {}
    /\ LET x == request[r]
           ends == IF x.stream THEN x.kept # "nothing" ELSE x.kept = "response"
       IN Becomes(r, IF ends THEN Leftover(x) ELSE GoOn(KeepError(x)))
    /\ UNCHANGED tables

(***************************************************************************)
(* forward_once_prepared, forward_stream_once_prepared.                    *)
(***************************************************************************)
(* mark_upstream_request_started.                                          *)
MarkStarted(r) ==
    LET u == UpstreamFor(r)
    IN /\ inFlight' = [inFlight EXCEPT ![u] = @ + 1]
       /\ recent' = [recent EXCEPT ![u] = @ \cup {<<r, request[r].attempt>>}]

SendUpstream(r) ==
    /\ request[r].at = "chosen"
    /\ MarkStarted(r)
    /\ Becomes(r, [request[r] EXCEPT !.at = "sent"])
    /\ UNCHANGED <<cooling, total, leaked, avoided>>

(* forward_headers fails: the attempt is over, its place stays taken.      *)
MalformedRequest(r) ==
    /\ MayBeMalformed /\ request[r].at = "chosen"
    /\ MarkStarted(r)
    /\ leaked' = [leaked EXCEPT ![UpstreamFor(r)] = @ + 1]
    /\ Becomes(r, GoOn(KeepError(request[r])))
    /\ UNCHANGED <<cooling, total, avoided>>

(* What may come back. A stream is incomplete when it breaks off after     *)
(* part of it has been passed on; a response is either there or not.       *)
Possible(x) == IF x.stream THEN Outcomes ELSE Outcomes \ {"incomplete"}

(* mark_upstream_request_finished.                                         *)
Freed(u, o) == inFlight[u] - 1

MarkFinished(r) ==
    /\ request[r].at = "sent"
    /\ \E o \in Outcomes :
         /\ o \in Possible(request[r])
         /\ inFlight' = [inFlight EXCEPT ![UpstreamFor(r)] = Freed(UpstreamFor(r), o)]
         /\ Becomes(r, [request[r] EXCEPT !.at = "recording", !.outcome = o,
                !.heard = @ \/ (o \in {"ok", "status"}
                                \/ (o = "invalid" /\ ~request[r].stream)),
                !.sources = @ + (IF o \in {"ok", "incomplete"} THEN 1 ELSE 0)])
    /\ UNCHANGED <<cooling, total, recent, leaked, avoided>>

Counted(m) == IF total[m] < Exploration THEN total[m] + 1 ELSE total[m]

(* record_success.                                                         *)
RecordSuccess(r) ==
    /\ request[r].at = "recording" /\ request[r].outcome = "ok"
    /\ LET m == request[r].member
       IN /\ cooling' = cooling \ {m}
          /\ total' = [total EXCEPT ![m] = Counted(m)]
          /\ avoided' = {a \in avoided : a[2] # m}
    /\ Becomes(r, Finished(request[r], "ok"))
    /\ UNCHANGED <<inFlight, recent, leaked>>

(* Broken variants: a stream that broke off is tried again; a connection   *)
(* that failed does not cool its key down.                                 *)
StopsOnInvalid(x) == x.outcome = "invalid"
CoolsOnStatus(x) == x.outcome = "status"

Stops(x) ==
    \/ x.outcome = "invalid"
    \/ x.stream /\ x.outcome \in {"incomplete", "local"}

Cools(x) == x.outcome \in {"status", "transport", "incomplete"}

KeepResponse(x) == [x EXCEPT !.kept = "response"]

(* A response of the upstream is kept; an error of a stream is an error.   *)
Kept(x) ==
    IF ~x.stream /\ x.outcome \in {"status", "invalid"} THEN KeepResponse(x)
    ELSE KeepError(x)

(* record_failure, record_transport_failure, forget_upstream_recent_       *)
(* request, or nothing when the client is at fault.                        *)
RecordFailed(r) ==
    /\ request[r].at = "recording" /\ request[r].outcome # "ok"
    /\ LET x == request[r]
           m == x.member
       IN /\ IF Cools(x)
             THEN /\ cooling' = cooling \cup {m}
                  /\ total' = [total EXCEPT ![m] = Counted(m)]
             ELSE UNCHANGED <<cooling, total>>
          /\ avoided' = IF x.outcome \in {"invalid", "local"} THEN avoided
                        ELSE avoided \cup {<<r, m>>}
          /\ recent' = IF x.outcome = "invalid"
                       THEN [recent EXCEPT ![UpstreamOf[m]] = @ \ {<<r, x.attempt>>}]
                       ELSE recent
          /\ Becomes(r, IF Stops(x) THEN Leftover(Kept(x)) ELSE GoOn(Kept(x)))
    /\ UNCHANGED <<inFlight, leaked>>

(***************************************************************************)
(* Time.                                                                   *)
(***************************************************************************)
CooldownEnds(m) ==
    /\ m \in cooling
    /\ cooling' = cooling \ {m}
    /\ avoided' = {a \in avoided : a[2] # m}
    /\ UNCHANGED <<request, total, inFlight, recent, leaked>>

RateRecovers(u) ==
    /\ recent[u] # {}
    /\ \E e \in Request \X (1 .. PoolAttempts) :
         e \in recent[u] /\ recent' = [recent EXCEPT ![u] = @ \ {e}]
    /\ UNCHANGED <<request, cooling, total, inFlight, leaked, avoided>>

RequestStep(r) ==
    \/ SelectDeployment(r) \/ NoKey(r) \/ SendUpstream(r) \/ MalformedRequest(r)
    \/ MarkFinished(r) \/ RecordSuccess(r) \/ RecordFailed(r)

PoolNext ==
    \/ \E r \in Request : ReceiveRequest(r) \/ RequestStep(r)
    \/ \E m \in Member : CooldownEnds(m)
    \/ \E u \in Upstream : RateRecovers(u)

PoolSpec == PoolInit /\ [][PoolNext]_poolVars

(* Every request upstream has a timeout.                                   *)
PoolFairness == \A r \in Request : WF_poolVars(RequestStep(r))

(***************************************************************************)
(* Properties.                                                             *)
(***************************************************************************)
PoolTypeOK ==
    /\ request \in [Request -> RequestType]
    /\ cooling \subseteq Member
    /\ total \in [Member -> 0 .. Exploration]
    /\ inFlight \in [Upstream -> Int]
    /\ recent \in [Upstream -> SUBSET (Request \X (1 .. PoolAttempts))]
    /\ leaked \in [Upstream -> Nat]
    /\ avoided \subseteq Request \X Member

OutstandingAt(u) == {r \in Request : request[r].at = "sent" /\ UpstreamFor(r) = u}

(* The places counted at an upstream are those of the requests it works    *)
(* on, whichever way they end, and of the malformed ones                   *)
(* (mark_upstream_request_started and _finished).                          *)
InFlightCounted ==
    \A u \in Upstream : inFlight[u] = Cardinality(OutstandingAt(u)) + leaked[u]

(* The client hears from one upstream at most: an attempt that has reached *)
(* it is the last one (is_incomplete_stream_error).                        *)
OneSource == \A r \in Request : request[r].sources <= 1

(* A request that has got a response is answered with one, not with an     *)
(* error of the pool, whatever the later attempts came to                  *)
(* (forward_with_failover). The errors of streams are errors.              *)
ResponsePreferred ==
    \A r \in Request :
        request[r].heard /\ ~request[r].stream => request[r].result # "error"

(* A request is not sent back to a key that has failed it while that key   *)
(* cools down, whatever the other requests do meanwhile.                   *)
FailoverMoves ==
    \A r \in Request :
        request[r].at = "chosen" => <<r, request[r].member>> \notin avoided

(* When an upstream works on nothing, nothing is counted there: upstream_  *)
(* limit_status reports a full upstream only while it is.                  *)
IdleMeansFree ==
    \A u \in Upstream : OutstandingAt(u) = {} => inFlight[u] = 0

(* A request ends.                                                         *)
RequestsEnd == \A r \in Request : request[r].at = "selecting" ~> request[r].at = "done"
=============================================================================
