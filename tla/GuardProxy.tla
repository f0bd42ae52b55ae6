----------------------------- MODULE GuardProxy -----------------------------
(***************************************************************************)
(* GuardProxyServer (watchapi-core/src/guard_proxy.rs): a local HTTP proxy *)
(* between the agent and its endpoint.  An accept thread admits clients up *)
(* to a limit and gives each a thread of its own.  A client thread reads   *)
(* one request, sends it upstream, again if that fails, looks at the       *)
(* answer for pollution and passes it on, rewritten, replaced or cut off.  *)
(* The client threads share the audit; the supervisor reads it in every    *)
(* tick and raises an alarm (runtime.rs).                                  *)
(*                                                                         *)
(*  away -> reading -> sending -> [streaming] -> judging -> [failing]      *)
(*       -> writing -> done        and from most places straight to done   *)
(*                                                                         *)
(* The audit's mutex is held for one update only: counting a risky answer  *)
(* and counting the failure it leads to are two steps.                     *)
(***************************************************************************)
EXTENDS Integers, FiniteSets

CONSTANTS
    Client,           \* connections the agent makes, one request each
    MaxClients,       \* GUARD_MAX_ACTIVE_CLIENTS, 128
    Attempts,         \* guard_attempt_budget(retry_count), 2 to 6
    RiskThreshold,    \* high_risk_failure_threshold.max(1)
    GuardConfig       \* the configurations of this instance

GuardMode == {"observe", "observeThenFail", "filterOnly", "filterAndFail"}

ASSUME GuardAssumption ==
    /\ IsFiniteSet(Client)
    /\ MaxClients \in Nat
    /\ Attempts \in Nat \ {0}
    /\ RiskThreshold \in Nat \ {0}
    /\ GuardConfig \subseteq [mode : GuardMode, rewrite : BOOLEAN, shared : BOOLEAN]

VARIABLES
    config,      \* mode, response_rewrite_enabled, and whether base_url names
                 \* an aggregate pool of this process
    running,     \* the flag the accept thread polls
    accepting,   \* the accept thread has not ended
    active,      \* active_clients
    client,      \* the connections
    audit,       \* the counters of GuardAudit that decide something
    signal,      \* guard_pollution_signal_by_endpoint of the supervisor
    alarms       \* history: how often the supervisor was alarmed

guardVars == <<config, running, accepting, active, client, audit, signal, alarms>>

Place == {"away", "reading", "sending", "streaming", "judging", "failing", "writing",
          "done"}

(* encrypted: the request carries encrypted content that may be stripped.  *)
(* heads: response heads written to the client.  taken: how often upstream *)
(* has answered a request this thread sent itself with success; what the   *)
(* shared pool sends is not counted here.  cut: the answer led to a        *)
(* pollution failure.  gone: the client hung up.                           *)
NewClient == [at |-> "away", stream |-> FALSE, encrypted |-> FALSE, stripped |-> FALSE,
              attempt |-> 1, heads |-> 0, taken |-> 0, cut |-> FALSE, gone |-> FALSE]

ClientType ==
    [at : Place, stream : BOOLEAN, encrypted : BOOLEAN, stripped : BOOLEAN,
     attempt : 1 .. Attempts, heads : Nat, taken : Nat, cut : BOOLEAN, gone : BOOLEAN]

InService(c) == client[c].at \notin {"away", "done"}

NoAudit == [consecutive |-> 0, replacements |-> 0, failures |-> 0]
NoSignal == [replacements |-> 0, failures |-> 0]

GuardInit ==
    /\ config \in GuardConfig
    /\ running = TRUE /\ accepting = TRUE /\ active = 0
    /\ client = [c \in Client |-> NewClient]
    /\ audit = NoAudit /\ signal = NoSignal /\ alarms = 0

(***************************************************************************)
(* The accept thread.                                                      *)
(***************************************************************************)
Moved(c, r) == client' = [client EXCEPT ![c] = r]
WithHead(r) == [r EXCEPT !.heads = @ + 1]

(* The client hung up: what is written to it is lost, nobody is told.      *)
Gone(r) == [r EXCEPT !.gone = TRUE]

(* The answer is there: the attempts are over.                             *)
Settled(r) == [r EXCEPT !.encrypted = FALSE, !.stripped = FALSE, !.attempt = 1]

(* A client thread ends: it drops its ActiveGuardClient.                   *)
Left(c, r) ==
    /\ Moved(c, [Settled(r) EXCEPT !.at = "done", !.stream = FALSE])
    /\ active' = active - 1

Admit(c) ==
    /\ running /\ accepting /\ client[c].at = "away"
    /\ active < MaxClients
    /\ active' = active + 1
    /\ Moved(c, [client[c] EXCEPT !.at = "reading"])
    /\ UNCHANGED <<config, running, accepting, audit, signal, alarms>>

(* 503, from the accept thread itself.                                     *)
TurnAway(c) ==
    /\ running /\ accepting /\ client[c].at = "away"
    /\ active >= MaxClients
    /\ Moved(c, WithHead([client[c] EXCEPT !.at = "done"]))
    /\ UNCHANGED <<config, running, accepting, active, audit, signal, alarms>>

(* accept() fails for another reason than that nobody is there.            *)
AcceptFails ==
    /\ running /\ accepting
    /\ accepting' = FALSE
    /\ UNCHANGED <<config, running, active, client, audit, signal, alarms>>

(* stop(): it joins the accept thread, not the client threads.             *)
StopGuard ==
    /\ running
    /\ running' = FALSE
    /\ UNCHANGED <<config, accepting, active, client, audit, signal, alarms>>

AcceptEnds ==
    /\ ~running /\ accepting
    /\ accepting' = FALSE
    /\ UNCHANGED <<config, running, active, client, audit, signal, alarms>>

(***************************************************************************)
(* A client thread: reading the request and sending it upstream.           *)
(***************************************************************************)
others == <<config, running, accepting, audit, signal, alarms>>

(* Broken variant: a thread that fails forgets to give its place back.     *)
RefuseForgetful(c) ==
    /\ client[c].at = "reading"
    /\ \E answered \in BOOLEAN :
         IF answered
         THEN Left(c, WithHead(client[c]))
         ELSE /\ Moved(c, Gone([client[c] EXCEPT !.at = "done"]))
              /\ UNCHANGED active
    /\ UNCHANGED others

(* Nothing to forward: the status page, 404, 400 for a chunked body, 502   *)
(* for a request that is too large, nothing for a client that left.        *)
Refuse(c) ==
    /\ client[c].at = "reading"
    /\ \E answered \in BOOLEAN :
         Left(c, IF answered THEN WithHead(client[c]) ELSE Gone(client[c]))
    /\ UNCHANGED others

(* A POST. The shared pool writes the head of a stream before it sends.    *)
ReadRequest(c) ==
    /\ client[c].at = "reading"
    /\ \E stream, encrypted \in BOOLEAN :
         LET r == [client[c] EXCEPT !.at = "sending", !.stream = stream,
                                    !.encrypted = encrypted]
         IN Moved(c, IF config.shared /\ stream THEN WithHead(r) ELSE r)
    /\ active' = active /\ UNCHANGED others

(* An url or a header that cannot be built: 502 from the thread's end.     *)
Unsendable(c) ==
    /\ client[c].at = "sending" /\ ~config.shared
    /\ Left(c, WithHead(client[c]))
    /\ UNCHANGED others

(***************************************************************************)
(* forward_with_guard: up to Attempts requests.  A client that waits for   *)
(* a stream hears nothing before upstream has accepted or all has failed.  *)
(***************************************************************************)
(* Broken variant: the budget counts the attempts after the first.         *)
OneMoreAttempt(r) == r.attempt <= Attempts

MoreAttempts(r) == r.attempt < Attempts

(* should_retry_without_encrypted_content: asked to, not yet stripped.     *)
MayStrip(r) == r.encrypted /\ ~r.stripped

Again(r) == [r EXCEPT !.attempt = @ + 1]
Stripped(r) == [r EXCEPT !.stripped = TRUE]
Judged(r) == [r EXCEPT !.at = "judging"]

(* The attempts are used up: an error event in a stream of its own, 502.   *)
Unavailable(c, r) == Left(c, WithHead(r))

Retry(c, r) == Moved(c, r) /\ UNCHANGED active
Judge(c, r) == Moved(c, [Settled(r) EXCEPT !.at = "judging"]) /\ UNCHANGED active

(* A status that no retry helps goes to the client.                        *)
Rejected(c, r) == IF r.stream THEN Unavailable(c, r) ELSE Judge(c, r)

(* 400 because of the encrypted content: once more without it.             *)
RejectedEncrypted(c, r) ==
    IF MayStrip(r) /\ MoreAttempts(r) THEN Retry(c, Again(Stripped(r)))
    ELSE Rejected(c, r)

(* 429 or 5xx. The last one is handed to the client.                       *)
Busy(c, r) == IF MoreAttempts(r) THEN Retry(c, Again(r)) ELSE Rejected(c, r)

TransportFails(c, r) ==
    IF MoreAttempts(r) THEN Retry(c, Again(r)) ELSE Unavailable(c, r)

Taken(r) == [r EXCEPT !.taken = @ + 1]

(* Success. A stream gets its head before its body has arrived.            *)
Accepted(c, r) ==
    IF r.stream
    THEN Moved(c, WithHead([Taken(r) EXCEPT !.at = "streaming"])) /\ UNCHANGED active
    ELSE Judge(c, Taken(r))

Forward(c) ==
    /\ client[c].at = "sending" /\ ~config.shared
    /\ LET r == client[c]
       IN \/ Accepted(c, r)
          \/ RejectedEncrypted(c, r)
          \/ Rejected(c, r)
          \/ Busy(c, r)
          \/ TransportFails(c, r)
    /\ UNCHANGED others

(* The upstream breaks off: an error event ends the stream.                *)
Interrupted(c, r) == Left(c, r)

(* write_guarded_streamed_response_body: the body is collected, heartbeats *)
(* keep the client waiting; one that fails tells that it hung up.          *)
Stream(c) ==
    /\ client[c].at = "streaming"
    /\ LET r == client[c]
       IN Judge(c, r) \/ Interrupted(c, r) \/ Left(c, Gone(r))
    /\ UNCHANGED others

(***************************************************************************)
(* forward_with_shared_aggregate: the attempts are the pool's.  It may     *)
(* send a request again whose success it lost before the first byte, and   *)
(* the guard one whose stream ended in an error about encrypted content:   *)
(* how often upstream has taken it is not known to the client thread.      *)
(***************************************************************************)
(* Broken variant: the error is written as a response of its own.          *)
SharedFailsWithHead(c, r) == Left(c, WithHead(r))

SharedFails(c, r) == Left(c, IF r.stream THEN r ELSE WithHead(r))

(* Rejected for its encrypted content, the request is given to the pool    *)
(* once more. If that fails a stream ends in an error, otherwise the       *)
(* rejection is passed on.                                                 *)
SharedWithout(c, r) ==
    \/ Judge(c, Stripped(r))
    \/ r.stream /\ SharedFails(c, Stripped(r))

(* A stream comes back complete or not at all, another answer whatever its *)
(* status.                                                                 *)
ForwardShared(c) ==
    /\ client[c].at = "sending" /\ config.shared
    /\ LET r == client[c]
       IN \/ Judge(c, r)
          \/ MayStrip(r) /\ SharedWithout(c, r)
          \/ SharedFails(c, r)
          \/ r.stream /\ Left(c, Gone(r))
    /\ UNCHANGED others

(***************************************************************************)
(* guard_json_payload, guard_sse_payload: the verdict on an answer.        *)
(***************************************************************************)
Verdict == [risky : BOOLEAN, failing : BOOLEAN]

Step(c, place) == Moved(c, [client[c] EXCEPT !.at = place])
Cut(c, place) == Moved(c, [client[c] EXCEPT !.at = place, !.cut = TRUE])

Watched(v) == config.mode = "observeThenFail" /\ (v.risky \/ v.failing)
FailsAtOnce(v) == config.mode = "filterAndFail" /\ v.failing
Filtered(v) == config.mode \in {"filterOnly", "filterAndFail"} /\ v.risky /\ ~FailsAtOnce(v)

(* record_observed_guard_risk, record_high_risk_replacement: one more in   *)
(* a row. From the threshold on it is a failure, except when only filtered.*)
CountRisk(c, v) ==
    /\ Watched(v) \/ Filtered(v)
    /\ audit' = [audit EXCEPT !.consecutive = @ + 1,
                    !.replacements = @ + (IF Filtered(v) /\ config.rewrite THEN 1 ELSE 0)]
    /\ IF audit'.consecutive >= RiskThreshold /\ config.mode # "filterOnly"
       THEN Cut(c, "failing")
       ELSE Step(c, "writing")

(* Broken variant: the answer fails without being counted.                 *)
FailUncounted(c, v) == FailsAtOnce(v) /\ Cut(c, "writing") /\ UNCHANGED audit

(* A keyword that fails the answer at once.                                *)
FailAtOnce(c, v) ==
    /\ FailsAtOnce(v)
    /\ audit' = [audit EXCEPT !.failures = @ + 1]
    /\ Cut(c, "writing")

(* reset_high_risk_counter, which a stream that ends too early does not    *)
(* reach.                                                                  *)
PassOn(c, v) ==
    /\ ~Watched(v) /\ ~FailsAtOnce(v) /\ ~Filtered(v)
    /\ \/ audit' = [audit EXCEPT !.consecutive = 0]
       \/ client[c].stream /\ UNCHANGED audit
    /\ Step(c, "writing")

(* An empty or binary body is not looked at.                               *)
PassUnseen(c) == ~client[c].stream /\ Step(c, "writing") /\ UNCHANGED audit

GiveVerdict(c) ==
    /\ client[c].at = "judging"
    /\ \/ \E v \in Verdict : CountRisk(c, v) \/ FailAtOnce(c, v) \/ PassOn(c, v)
       \/ PassUnseen(c)
    /\ UNCHANGED <<config, running, accepting, active, signal, alarms>>

(* record_guard_pollution_failure, after the counter said so.              *)
RecordFailure(c) ==
    /\ client[c].at = "failing"
    /\ audit' = [audit EXCEPT !.failures = @ + 1]
    /\ Step(c, "writing")
    /\ UNCHANGED <<config, running, accepting, active, signal, alarms>>

(* A stream has its head already.                                          *)
Answer(c) ==
    /\ client[c].at = "writing"
    /\ LET r == client[c]
       IN Left(c, IF r.stream THEN r ELSE WithHead(r)) \/ Left(c, Gone(r))
    /\ UNCHANGED others

(***************************************************************************)
(* The supervisor: record_current_guard_pollution_signal.                  *)
(***************************************************************************)
(* Broken variant: failures are overlooked.                                *)
NewReplacements ==
    audit.consecutive >= RiskThreshold /\ audit.replacements > signal.replacements

(* guard_audit_endpoint_pollution_signal.                                  *)
NewPollution ==
    \/ audit.failures > signal.failures
    \/ audit.consecutive >= RiskThreshold /\ audit.replacements > signal.replacements

RaiseAlarm ==
    /\ running /\ NewPollution
    /\ signal' = [replacements |-> audit.replacements, failures |-> audit.failures]
    /\ alarms' = alarms + 1
    /\ UNCHANGED <<config, running, accepting, active, client, audit>>

ClientStep(c) ==
    \/ Refuse(c) \/ ReadRequest(c) \/ Unsendable(c) \/ Forward(c) \/ Stream(c)
    \/ ForwardShared(c) \/ GiveVerdict(c) \/ RecordFailure(c) \/ Answer(c)

GuardNext ==
    \/ \E c \in Client : Admit(c) \/ TurnAway(c) \/ ClientStep(c)
    \/ AcceptFails \/ StopGuard \/ AcceptEnds
    \/ RaiseAlarm

GuardSpec == GuardInit /\ [][GuardNext]_guardVars

(* Reads and requests time out, a client reads its answer or hangs up, the *)
(* accept thread polls its flag, the supervisor ticks.                     *)
GuardFairness ==
    /\ \A c \in Client : WF_guardVars(ClientStep(c))
    /\ WF_guardVars(AcceptEnds)
    /\ WF_guardVars(RaiseAlarm)

(***************************************************************************)
(* Properties.                                                             *)
(***************************************************************************)
(* Types.                                                                  *)
GuardTypeOK ==
    /\ config \in GuardConfig
    /\ running \in BOOLEAN /\ accepting \in BOOLEAN
    /\ active \in Int
    /\ client \in [Client -> ClientType]
    /\ audit \in [consecutive : Nat, replacements : Nat, failures : Nat]
    /\ signal \in [replacements : Nat, failures : Nat]
    /\ alarms \in Nat

(* The counter of the accept thread is the number of client threads, at    *)
(* most the limit, whichever way the clients leave (try_acquire_active_    *)
(* guard_client and Drop of ActiveGuardClient).                            *)
ClientsCounted ==
    /\ active = Cardinality({c \in Client : InService(c)})
    /\ active <= MaxClients

(* A client never gets a second response head, and one that stays gets     *)
(* one: an error after the head of a stream becomes an event of it         *)
(* (forward_with_guard, forward_with_shared_aggregate).                    *)
OneHead ==
    \A c \in Client :
        /\ client[c].heads <= 1
        /\ client[c].at = "done" /\ ~client[c].gone => client[c].heads = 1

(* A request the guard itself sends is not sent again after upstream has   *)
(* answered it with success, whatever becomes of the answer: it may have   *)
(* been paid for. (forward_with_guard; not so of the shared pool.)         *)
TakenOnce == ~config.shared => \A c \in Client : client[c].taken <= 1

(* Each answer withheld or replaced as a failure is counted as one, and    *)
(* nothing else is (record_guard_pollution_failure and its callers).       *)
FailuresAccounted ==
    audit.failures =
        Cardinality({c \in Client : client[c].cut /\ client[c].at # "failing"})

(* The supervisor is not alarmed more often than there were failures and   *)
(* replaced answers: what it was told of is not told again.                *)
AlarmsJustified == alarms <= audit.failures + audit.replacements

(* A pollution failure reaches the supervisor while it keeps the guard.    *)
FailureTold ==
    \A n \in 1 .. Cardinality(Client) :
        audit.failures >= n ~> signal.failures >= n \/ ~running
=============================================================================
