----------------------------- MODULE SmartProxy -----------------------------
(***************************************************************************)
(* The smart proxy of the GUI (watchapi-gui/src/litellm_proxy.rs, handle_  *)
(* smart_proxy_client) without an aggregate pool.  Each client thread      *)
(* picks a key, sends the request, writes down what came of it and goes on *)
(* to another key if that may help.  There are two tables, of the keys     *)
(* (deployments) and of their upstreams, each under a lock of its own;     *)
(* choosing a key and showing the tables to the user need both locks, so   *)
(* taking a lock is a step:                                                *)
(*                                                                         *)
(*  new -> selecting -> choosing -> chosen -> sent -> received             *)
(*             ^                                         |                 *)
(*             |<----------- forget ---------------------+                 *)
(*             +--- [upstream] <------- keys <-----------+--> done         *)
(***************************************************************************)
EXTENDS Integers, FiniteSets

CONSTANTS
    SmartRequest,      \* requests, one client thread each
    SmartKey,          \* deployments
    Url,               \* base urls
    UrlOf,             \* the upstream of each key
    SmartRoom,         \* max_concurrency
    SmartAttempts,     \* smart_proxy_attempt_budget
    NoOne              \* nobody holds the lock

ASSUME SmartAssumption ==
    /\ IsFiniteSet(SmartRequest) /\ NoOne \notin SmartRequest \cup {"viewer"}
    /\ "viewer" \notin SmartRequest /\ "none" \notin SmartKey
    /\ UrlOf \in [SmartKey -> Url]
    /\ SmartRoom \in [Url -> Nat]
    /\ SmartAttempts \in Nat \ {0}

VARIABLES
    smart,       \* the client threads
    held,        \* who holds the locks of the two tables
    keyCooling,  \* keys whose cooldown_until lies ahead
    urlCooling,  \* upstreams whose cooldown_until lies ahead
    urlInFlight, \* in_flight
    rejectedBy   \* history: who was rejected by a key that cools since

smartVars == <<smart, held, keyCooling, urlCooling, urlInFlight, rejectedBy>>

(* ok: 2xx, and a stream that has ended as it should.  final: another      *)
(* status that no retry helps.  incomplete: a stream broke off after part  *)
(* of it had been passed on, or ended in an error.  lost: the client hung  *)
(* up, or an error of the upstream looks like that, see should_suppress_   *)
(* local_failure_response.                                                 *)
Outcome == {"ok", "final", "retryable", "encrypted", "transport", "incomplete", "lost"}

SmartPlace == {"new", "selecting", "choosing", "chosen", "sent", "received",
               "keys", "upstream", "done"}

SmartType ==
    [at : SmartPlace, stream : BOOLEAN, stripped : BOOLEAN,
     attempt : 1 .. SmartAttempts, key : SmartKey \cup {"none"},
     outcome : Outcome \cup {"none"}, limited : BOOLEAN,
     kept : {"nothing", "error", "response"},
     passed : Nat,           \* history: attempts of which the client got a part
     result : {"none", "answered", "failed", "gone"}]

Fresh == [at |-> "new", stream |-> FALSE, stripped |-> FALSE,
          attempt |-> 1, key |-> "none", outcome |-> "none", limited |-> FALSE,
          kept |-> "nothing", passed |-> 0, result |-> "none"]

SmartInit ==
    /\ smart = [r \in SmartRequest |-> Fresh]
    /\ held = [upstreams |-> NoOne, deployments |-> NoOne]
    /\ keyCooling = {} /\ urlCooling = {}
    /\ urlInFlight = [u \in Url |-> 0]
    /\ rejectedBy = {}

SmartBecomes(r, x) == smart' = [smart EXCEPT ![r] = x]
UrlFor(r) == UrlOf[smart[r].key]
FreeLock(table) == held[table] = NoOne
keyTable == <<keyCooling, rejectedBy>>
urlTable == <<urlCooling, urlInFlight>>

ReadSmartRequest(r) ==
    /\ smart[r].at = "new"
    /\ \E stream \in BOOLEAN :
         SmartBecomes(r, [smart[r] EXCEPT !.at = "selecting", !.stream = stream])
    /\ UNCHANGED <<held, keyTable, urlTable>>

(***************************************************************************)
(* select_deployment: the lock of the upstreams, then that of the keys.    *)
(***************************************************************************)
(* upstream_available, but for the limits per second and minute.           *)
UrlAvailable(u) == u \notin urlCooling /\ urlInFlight[u] < SmartRoom[u]

(* Scores, totals and a rotation decide among them.                        *)
Selectable == {k \in SmartKey \ keyCooling : UrlAvailable(UrlOf[k])}

LockUpstreams(r) ==
    /\ smart[r].at = "selecting" /\ FreeLock("upstreams")
    /\ held' = [held EXCEPT !.upstreams = r]
    /\ SmartBecomes(r, [smart[r] EXCEPT !.at = "choosing"])
    /\ UNCHANGED <<keyTable, urlTable>>

Unlock(r) == held' = [table \in DOMAIN held |-> IF held[table] = r THEN NoOne ELSE held[table]]

ChooseKey(r) ==
    /\ smart[r].at = "choosing" /\ FreeLock("deployments")
    /\ \E k \in SmartKey :
         /\ k \in Selectable
         /\ SmartBecomes(r, [smart[r] EXCEPT !.at = "chosen", !.key = k])
    /\ Unlock(r)
    /\ UNCHANGED <<keyTable, urlTable>>

(***************************************************************************)
(* The end of a request and of an attempt.                                 *)
(***************************************************************************)
EndsAs(x, result) ==
    [Fresh EXCEPT !.at = "done", !.stream = x.stream, !.passed = x.passed,
                  !.result = result]

LeftoverOf(x) == EndsAs(x, IF x.kept = "response" THEN "answered" ELSE "failed")

(* The limits per second and minute may leave nothing to choose any time.  *)
NothingToChoose(r) ==
    /\ smart[r].at = "choosing" /\ FreeLock("deployments")
    /\ SmartBecomes(r, LeftoverOf(smart[r]))
    /\ Unlock(r)
    /\ UNCHANGED <<keyTable, urlTable>>

HasMoreAttempts(x) == x.attempt < SmartAttempts

TryAgain(x) ==
    [x EXCEPT !.at = "selecting", !.attempt = @ + 1, !.key = "none", !.outcome = "none",
              !.limited = FALSE]

KeepFailure(x) == [x EXCEPT !.kept = IF @ = "response" THEN @ ELSE "error"]

Retryable(x) == x.outcome \in {"retryable", "transport"}

(* What follows an attempt that has been written down.  An error becomes   *)
(* an event of a stream; the status of a response is passed on.            *)
AfterFailure(x) ==
    LET y == IF x.stream \/ x.outcome = "transport" THEN KeepFailure(x)
             ELSE [x EXCEPT !.kept = "response"]
    IN IF Retryable(x) /\ HasMoreAttempts(x) THEN TryAgain(y) ELSE LeftoverOf(y)

AfterAttempt(x) == IF x.outcome = "ok" THEN EndsAs(x, "answered") ELSE AfterFailure(x)

(***************************************************************************)
(* forward_smart_request, forward_smart_stream_request.                    *)
(***************************************************************************)
(* mark_upstream_request_started.                                          *)
StartSmart(r) ==
    /\ smart[r].at = "chosen" /\ FreeLock("upstreams")
    /\ urlInFlight' = [urlInFlight EXCEPT ![UrlFor(r)] = @ + 1]
    /\ SmartBecomes(r, [smart[r] EXCEPT !.at = "sent"])
    /\ UNCHANGED <<held, keyTable, urlCooling>>

(* Only a stream breaks off or is lost. 429, 403 and what reads like a     *)
(* limit of the address cool the whole upstream.                           *)
MayComeBack(x, o, limited) ==
    /\ o \in {"incomplete", "lost"} => x.stream
    /\ o = "encrypted" => ~x.stripped
    /\ limited => o \in {"final", "retryable", "incomplete"}

PlaceLeft(n, o) == n - 1

(* mark_upstream_request_finished, before anybody looks at the outcome.    *)
FinishSmart(r) ==
    /\ smart[r].at = "sent" /\ FreeLock("upstreams")
    /\ \E o \in Outcome, limited \in BOOLEAN :
         LET x == [smart[r] EXCEPT !.outcome = o, !.limited = limited,
                     !.passed = @ + (IF o \in {"ok", "incomplete"} THEN 1 ELSE 0)]
         IN /\ MayComeBack(smart[r], o, limited)
            /\ urlInFlight' = [urlInFlight EXCEPT ![UrlFor(r)] = PlaceLeft(@, o)]
            /\ SmartBecomes(r, IF o = "lost" THEN EndsAs(x, "gone")
                               ELSE [x EXCEPT !.at = "received"])
    /\ UNCHANGED <<held, keyTable, urlCooling>>

(* Rejected for its encrypted content: again without it, and the attempt   *)
(* counts neither for the rate nor for the key.                            *)
ForgetAttempt(r) ==
    LET x == smart[r]
    IN /\ x.at = "received" /\ FreeLock("upstreams")
       /\ x.outcome = "encrypted" /\ HasMoreAttempts(x)
       /\ SmartBecomes(r, TryAgain(KeepFailure([x EXCEPT !.stripped = TRUE])))
       /\ UNCHANGED <<held, keyTable, urlTable>>

(***************************************************************************)
(* update_deployment_result, update_deployment_transport_failure: the lock *)
(* of the keys, and after it has been given back that of the upstreams.    *)
(***************************************************************************)
LockDeployments(r) ==
    /\ smart[r].at = "received" /\ FreeLock("deployments")
    /\ ~(smart[r].outcome = "encrypted" /\ HasMoreAttempts(smart[r]))
    /\ held' = [held EXCEPT !.deployments = r]
    /\ SmartBecomes(r, [smart[r] EXCEPT !.at = "keys"])
    /\ UNCHANGED <<keyTable, urlTable>>

(* Broken variant: only the key that was asked cools down.                 *)
CooledOne(x) == {x.key}

CooledKeys(x) ==
    IF x.limited THEN {k \in SmartKey : UrlOf[k] = UrlOf[x.key]} ELSE {x.key}

(* Broken variant: both locks at once.                                     *)
StillLocked(r) == UNCHANGED held

DropDeployments(r) == Unlock(r)

TouchesUpstream(x) == x.outcome \in {"ok", "transport"} \/ x.limited

UpdateKeys(r) ==
    LET x == smart[r]
        ok == x.outcome = "ok"
        cooled == CooledKeys(x)
    IN /\ x.at = "keys"
       /\ keyCooling' = IF ok THEN keyCooling \ {x.key} ELSE keyCooling \cup cooled
       /\ rejectedBy' = IF ok THEN {e \in rejectedBy : e[2] # x.key}
                        ELSE rejectedBy \cup
                             {<<r, k>> : k \in {j \in SmartKey :
                                  j = x.key \/ (x.limited /\ UrlOf[j] = UrlOf[x.key])}}
       /\ SmartBecomes(r, IF TouchesUpstream(x) THEN [x EXCEPT !.at = "upstream"]
                          ELSE AfterAttempt(x))
       /\ DropDeployments(r)
       /\ UNCHANGED urlTable

(* clear_upstream_cooldown, set_upstream_cooldown.                         *)
UpdateUpstream(r) ==
    LET x == smart[r]
    IN /\ x.at = "upstream" /\ FreeLock("upstreams")
       /\ urlCooling' = IF x.outcome = "ok" THEN urlCooling \ {UrlOf[x.key]}
                        ELSE urlCooling \cup {UrlOf[x.key]}
       /\ SmartBecomes(r, AfterAttempt(x))
       /\ Unlock(r)
       /\ UNCHANGED <<keyTable, urlInFlight>>

(***************************************************************************)
(* snapshot_from_deployments, for the window and for the status page.      *)
(***************************************************************************)
LockForView ==
    /\ FreeLock("upstreams")
    /\ held' = [held EXCEPT !.upstreams = "viewer"]
    /\ UNCHANGED <<smart, keyTable, urlTable>>

View ==
    /\ held.upstreams = "viewer" /\ FreeLock("deployments")
    /\ Unlock("viewer")
    /\ UNCHANGED <<smart, keyTable, urlTable>>

(***************************************************************************)
(* Time.                                                                   *)
(***************************************************************************)
KeyCooldownEnds(k) ==
    /\ k \in keyCooling
    /\ keyCooling' = keyCooling \ {k}
    /\ rejectedBy' = {e \in rejectedBy : e[2] # k}
    /\ UNCHANGED <<smart, held, urlTable>>

UrlCooldownEnds(u) ==
    /\ u \in urlCooling
    /\ urlCooling' = urlCooling \ {u}
    /\ UNCHANGED <<smart, held, keyTable, urlInFlight>>

SmartStep(r) ==
    \/ ReadSmartRequest(r) \/ LockUpstreams(r) \/ ChooseKey(r) \/ NothingToChoose(r)
    \/ StartSmart(r) \/ FinishSmart(r) \/ ForgetAttempt(r) \/ LockDeployments(r)
    \/ UpdateKeys(r) \/ UpdateUpstream(r)

SmartNext ==
    \/ \E r \in SmartRequest : SmartStep(r)
    \/ LockForView \/ View
    \/ \E k \in SmartKey : KeyCooldownEnds(k)
    \/ \E u \in Url : UrlCooldownEnds(u)

SmartSpec == SmartInit /\ [][SmartNext]_smartVars

(***************************************************************************)
(* Properties.                                                             *)
(***************************************************************************)
(* Types.                                                                  *)
SmartTypeOK ==
    /\ smart \in [SmartRequest -> SmartType]
    /\ held \in [upstreams : SmartRequest \cup {"viewer", NoOne},
                 deployments : SmartRequest \cup {NoOne}]
    /\ keyCooling \subseteq SmartKey /\ urlCooling \subseteq Url
    /\ urlInFlight \in [Url -> Int]
    /\ rejectedBy \subseteq SmartRequest \X SmartKey

WantsUpstreams(t) ==
    t \in SmartRequest /\ smart[t].at \in {"selecting", "chosen", "sent", "upstream"}

(* Nobody who holds the keys waits for the upstreams while whoever holds   *)
(* the upstreams waits for the keys (the tests at litellm_proxy.rs:4500    *)
(* and 4538: the update releases deployments before it waits).             *)
NoCircularWait ==
    held.upstreams # NoOne => ~WantsUpstreams(held.deployments)

(* The requests in flight at an upstream are those it works on, however    *)
(* they end: a client that hangs up gives its place back too.              *)
UrlInFlightCounted ==
    \A u \in Url : urlInFlight[u] =
        Cardinality({r \in SmartRequest : smart[r].at = "sent" /\ UrlFor(r) = u})

(* A client gets parts of one upstream answer only: what has reached it is *)
(* not followed by another attempt.                                        *)
OneAnswer == \A r \in SmartRequest : smart[r].passed <= 1

(* A request does not go back to a key that rejected it while that key     *)
(* cools down, nor, after a limit on the address, to another key of that   *)
(* upstream, whatever other requests do between the update of the keys and *)
(* that of the upstream.                                                   *)
RejectedMoves ==
    \A r \in SmartRequest :
        smart[r].at = "chosen" => <<r, smart[r].key>> \notin rejectedBy

=============================================================================
