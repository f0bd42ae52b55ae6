---------------------------- MODULE Guard_proofs ----------------------------
(***************************************************************************)
(* What holds of GuardProxy for any number of clients, any limits and all  *)
(* configurations, and of GuardPorts for any number of runtimes, endpoints *)
(* and ports, whatever other programs and processes do.                    *)
(***************************************************************************)
EXTENDS GuardProxy, GuardPorts, FiniteSetTheorems, TLAPS

-----------------------------------------------------------------------------
(* The clients of a guard.  Good says of one client what its place         *)
(* implies; each step of a client thread takes it from one good record to  *)
(* another and counts as it leaves (StepGood).  The counters then follow   *)
(* by counting one client more or less.                                    *)


Started(r) == r.at \notin {"away", "done"}

(* The client has not heard of an answer, and nobody has judged one.       *)
Untouched(r) == r.taken = 0 /\ ~r.cut /\ ~r.gone

(* The heads of a client in service: a stream has its head once it has     *)
(* been accepted, of the shared pool at once.                              *)
Good(r, shared) ==
    /\ r.at \in {"away", "reading"} => r.heads = 0 /\ Untouched(r)
    /\ r.at = "sending" =>
         r.heads = (IF shared /\ r.stream THEN 1 ELSE 0) /\ Untouched(r)
    /\ r.at = "streaming" => r.stream /\ r.heads = 1 /\ r.taken = 1 /\ ~r.cut /\ ~r.gone
    /\ r.at \in {"judging", "failing", "writing"} =>
         r.heads = (IF r.stream THEN 1 ELSE 0) /\ r.taken <= 1 /\ ~r.gone
    /\ r.at = "judging" => ~r.cut
    /\ r.at = "failing" => r.cut
    /\ r.at = "done" => r.heads <= 1 /\ r.taken <= 1 /\ (r.gone \/ r.heads = 1)

Failed(r) == r.cut /\ r.at # "failing"

ClientsGood == \A c \in Client : Good(client[c], config.shared)

GuardInv == GuardTypeOK /\ ClientsGood /\ ClientsCounted /\ FailuresAccounted

(***************************************************************************)
(* What the operators do to the record of a client.                        *)
(***************************************************************************)
LEMMA SettledFacts ==
    ASSUME NEW r \in ClientType
    PROVE  /\ Settled(r) \in ClientType
           /\ Settled(r).at = r.at /\ (Settled(r).stream <=> r.stream)
           /\ Settled(r).heads = r.heads /\ Settled(r).taken = r.taken
           /\ (Settled(r).cut <=> r.cut) /\ (Settled(r).gone <=> r.gone)
<1>1. 1 \in 1 .. Attempts
  BY GuardAssumption DEF GuardAssumption
<1> QED BY <1>1 DEF Settled, ClientType

LEMMA WithHeadFacts ==
    ASSUME NEW r \in ClientType
    PROVE  /\ WithHead(r) \in ClientType
           /\ WithHead(r).at = r.at /\ (WithHead(r).stream <=> r.stream)
           /\ WithHead(r).heads = r.heads + 1 /\ WithHead(r).taken = r.taken
           /\ (WithHead(r).cut <=> r.cut) /\ (WithHead(r).gone <=> r.gone)
BY DEF WithHead, ClientType

LEMMA GoneFacts ==
    ASSUME NEW r \in ClientType
    PROVE  /\ Gone(r) \in ClientType
           /\ Gone(r).at = r.at /\ (Gone(r).stream <=> r.stream)
           /\ Gone(r).heads = r.heads /\ Gone(r).taken = r.taken
           /\ (Gone(r).cut <=> r.cut) /\ Gone(r).gone
BY DEF Gone, ClientType

LEMMA TakenFacts ==
    ASSUME NEW r \in ClientType
    PROVE  /\ Taken(r) \in ClientType
           /\ Taken(r).at = r.at /\ (Taken(r).stream <=> r.stream)
           /\ Taken(r).heads = r.heads /\ Taken(r).taken = r.taken + 1
           /\ (Taken(r).cut <=> r.cut) /\ (Taken(r).gone <=> r.gone)
BY DEF Taken, ClientType

LEMMA StrippedFacts ==
    ASSUME NEW r \in ClientType
    PROVE  /\ Stripped(r) \in ClientType
           /\ Stripped(r).at = r.at /\ (Stripped(r).stream <=> r.stream)
           /\ Stripped(r).heads = r.heads /\ Stripped(r).taken = r.taken
           /\ (Stripped(r).cut <=> r.cut) /\ (Stripped(r).gone <=> r.gone)
           /\ Stripped(r).attempt = r.attempt
BY DEF Stripped, ClientType

LEMMA AgainFacts ==
    ASSUME NEW r \in ClientType, MoreAttempts(r)
    PROVE  /\ Again(r) \in ClientType
           /\ Again(r).at = r.at /\ (Again(r).stream <=> r.stream)
           /\ Again(r).heads = r.heads /\ Again(r).taken = r.taken
           /\ (Again(r).cut <=> r.cut) /\ (Again(r).gone <=> r.gone)
BY GuardAssumption DEF GuardAssumption, Again, MoreAttempts, ClientType

LEMMA PlacedFacts ==
    ASSUME NEW r \in ClientType, NEW p \in Place
    PROVE  LET x == [r EXCEPT !.at = p]
           IN /\ x \in ClientType
              /\ x.at = p /\ (x.stream <=> r.stream) /\ x.heads = r.heads
              /\ x.taken = r.taken /\ (x.cut <=> r.cut) /\ (x.gone <=> r.gone)
BY DEF ClientType

LEMMA CutFacts ==
    ASSUME NEW r \in ClientType, NEW p \in Place
    PROVE  LET x == [r EXCEPT !.at = p, !.cut = TRUE]
           IN /\ x \in ClientType
              /\ x.at = p /\ (x.stream <=> r.stream) /\ x.heads = r.heads
              /\ x.taken = r.taken /\ x.cut = TRUE /\ (x.gone <=> r.gone)
BY DEF ClientType

LEMMA EndedFacts ==
    ASSUME NEW r \in ClientType
    PROVE  LET x == [r EXCEPT !.at = "done", !.stream = FALSE]
           IN /\ x \in ClientType /\ x.at = "done" /\ x.heads = r.heads
              /\ x.taken = r.taken /\ (x.cut <=> r.cut) /\ (x.gone <=> r.gone)
BY DEF ClientType, Place

(***************************************************************************)
(* A step of a client thread, as the counters see it.                      *)
(***************************************************************************)
StepGood(c) ==
    \E r \in ClientType :
        /\ client' = [client EXCEPT ![c] = r]
        /\ Good(r, config.shared) /\ r.at # "away"
        /\ active' = (IF r.at = "done" THEN active - 1 ELSE active)
        /\ Failed(client[c]) => Failed(r)
        /\ audit'.failures =
             (IF Failed(r) /\ ~Failed(client[c]) THEN audit.failures + 1 ELSE audit.failures)

(* The end of a client thread: one head, or the client hung up.            *)
LEMMA LeftGood ==
    ASSUME NEW c \in Client, NEW r \in ClientType, Left(c, r), audit' = audit,
           r.heads <= 1, r.taken <= 1, r.gone \/ r.heads = 1,
           (r.cut <=> client[c].cut), client[c].at # "failing"
    PROVE  StepGood(c)
<1> DEFINE x == [Settled(r) EXCEPT !.at = "done", !.stream = FALSE]
<1>1. Settled(r) \in ClientType
  BY SettledFacts
<1>2. /\ x \in ClientType /\ x.at = "done" /\ x.heads = r.heads
      /\ x.taken = r.taken /\ (x.cut <=> r.cut) /\ (x.gone <=> r.gone)
  BY <1>1, EndedFacts, SettledFacts
<1>3. client' = [client EXCEPT ![c] = x] /\ active' = active - 1
  BY DEF Left, Moved
<1> HIDE DEF x
<1>4. Good(x, config.shared) /\ (Failed(x) <=> Failed(client[c]))
  BY <1>2 DEF Good, Failed
<1> QED BY <1>2, <1>3, <1>4 DEF StepGood

(* A client thread that goes on.                                           *)
LEMMA MovedGood ==
    ASSUME NEW c \in Client, NEW r \in ClientType, Moved(c, r),
           active' = active, audit' = audit, Good(r, config.shared),
           r.at \notin {"away", "done"}, (Failed(r) <=> Failed(client[c]))
    PROVE  StepGood(c)
BY DEF StepGood, Moved

(* The answer is there.                                                    *)
LEMMA JudgeGood ==
    ASSUME NEW c \in Client, NEW r \in ClientType, Judge(c, r), audit' = audit,
           r.heads = (IF r.stream THEN 1 ELSE 0), r.taken <= 1, ~r.gone, ~r.cut,
           ~client[c].cut
    PROVE  StepGood(c)
<1> DEFINE x == [Settled(r) EXCEPT !.at = "judging"]
<1>1. Settled(r) \in ClientType /\ "judging" \in Place
  BY SettledFacts DEF Place
<1>2. /\ x \in ClientType /\ x.at = "judging" /\ (x.stream <=> r.stream)
      /\ x.heads = r.heads /\ x.taken = r.taken /\ (x.cut <=> r.cut) /\ (x.gone <=> r.gone)
  BY <1>1, PlacedFacts, SettledFacts
<1>3. Moved(c, x) /\ active' = active
  BY DEF Judge
<1> HIDE DEF x
<1>4. Good(x, config.shared) /\ ~Failed(x) /\ ~Failed(client[c])
  BY <1>2 DEF Good, Failed
<1> QED BY <1>2, <1>3, <1>4, MovedGood

-----------------------------------------------------------------------------
(* Each action of a client thread is a good step.                          *)

LEMMA RefuseGood ==
    ASSUME GuardTypeOK, ClientsGood, NEW c \in Client, Refuse(c)
    PROVE  StepGood(c)
<1> DEFINE r == client[c]
<1>1. r \in ClientType /\ Good(r, config.shared) /\ r.at = "reading" /\ audit' = audit
  BY DEF GuardTypeOK, ClientsGood, Refuse, others
<1>2. r.heads = 0 /\ Untouched(r)
  BY <1>1 DEF Good
<1>3. CASE Left(c, WithHead(r))
  BY <1>1, <1>2, <1>3, WithHeadFacts, LeftGood DEF Untouched
<1>4. CASE Left(c, Gone(r))
  BY <1>1, <1>2, <1>4, GoneFacts, LeftGood DEF Untouched
<1> QED BY <1>3, <1>4 DEF Refuse

LEMMA ReadRequestGood ==
    ASSUME GuardTypeOK, ClientsGood, NEW c \in Client, ReadRequest(c)
    PROVE  StepGood(c)
<1>1. PICK stream \in BOOLEAN, encrypted \in BOOLEAN :
        LET r == [client[c] EXCEPT !.at = "sending", !.stream = stream,
                                   !.encrypted = encrypted]
        IN Moved(c, IF config.shared /\ stream THEN WithHead(r) ELSE r)
  BY DEF ReadRequest
<1> DEFINE x == [client[c] EXCEPT !.at = "sending", !.stream = stream,
                                  !.encrypted = encrypted]
           y == IF config.shared /\ stream THEN WithHead(x) ELSE x
<1>2. client[c] \in ClientType /\ client[c].heads = 0 /\ Untouched(client[c])
      /\ audit' = audit /\ active' = active
  BY DEF GuardTypeOK, ClientsGood, Good, ReadRequest, others
<1>3. /\ x \in ClientType /\ x.at = "sending" /\ (x.stream <=> stream)
      /\ x.heads = 0 /\ Untouched(x)
  BY <1>2 DEF ClientType, Place, Untouched
<1>4. Moved(c, y)
  BY <1>1
<1> HIDE DEF x
<1>5. /\ y \in ClientType /\ y.at = "sending" /\ (y.stream <=> stream) /\ Untouched(y)
      /\ y.heads = (IF config.shared /\ y.stream THEN 1 ELSE 0)
  <2>1. CASE config.shared /\ stream
    <3>1. y = WithHead(x)
      BY <2>1
    <3>2. /\ y \in ClientType /\ y.at = "sending" /\ (y.stream <=> stream)
          /\ y.heads = 1 /\ y.taken = 0 /\ ~y.cut /\ ~y.gone
      BY <1>3, <3>1, WithHeadFacts DEF Untouched
    <3> QED BY <2>1, <3>2 DEF Untouched
  <2>2. CASE ~(config.shared /\ stream)
    BY <1>3, <2>2
  <2> QED BY <2>1, <2>2
<1> HIDE DEF y
<1>6. Good(y, config.shared) /\ (Failed(y) <=> Failed(client[c]))
  BY <1>2, <1>5 DEF Good, Failed, Untouched
<1> QED BY <1>2, <1>4, <1>5, <1>6, MovedGood

(* A client that waits for the upstream, without the pool and with it.     *)
LEMMA SendingFacts ==
    ASSUME GuardTypeOK, ClientsGood, NEW c \in Client, client[c].at = "sending"
    PROVE  /\ client[c] \in ClientType /\ Untouched(client[c])
           /\ client[c].heads = (IF config.shared /\ client[c].stream THEN 1 ELSE 0)
           /\ config.shared \in BOOLEAN
BY GuardAssumption DEF GuardAssumption, GuardTypeOK, ClientsGood, Good

LEMMA UnsendableGood ==
    ASSUME GuardTypeOK, ClientsGood, NEW c \in Client, Unsendable(c)
    PROVE  StepGood(c)
<1>1. /\ client[c] \in ClientType /\ client[c].heads = 0 /\ Untouched(client[c])
      /\ audit' = audit /\ client[c].at = "sending" /\ Left(c, WithHead(client[c]))
  BY SendingFacts DEF Unsendable, others
<1> QED BY <1>1, WithHeadFacts, LeftGood DEF Untouched

(* Once more.                                                              *)
LEMMA RetryGood ==
    ASSUME NEW c \in Client, NEW r \in ClientType, Retry(c, Again(r)), MoreAttempts(r),
           audit' = audit, r.at = "sending", Untouched(r), ~client[c].cut,
           r.heads = (IF config.shared /\ r.stream THEN 1 ELSE 0)
    PROVE  StepGood(c)
<1>1. /\ Again(r) \in ClientType /\ Again(r).at = "sending"
      /\ (Again(r).stream <=> r.stream) /\ Again(r).heads = r.heads /\ Untouched(Again(r))
  BY AgainFacts DEF Untouched
<1>2. Good(Again(r), config.shared) /\ (Failed(Again(r)) <=> Failed(client[c]))
  BY <1>1 DEF Good, Failed, Untouched
<1> QED BY <1>1, <1>2, MovedGood DEF Retry

LEMMA ForwardGood ==
    ASSUME GuardTypeOK, ClientsGood, NEW c \in Client, Forward(c)
    PROVE  StepGood(c)
<1> DEFINE r == client[c]
<1>1. /\ r \in ClientType /\ r.heads = 0 /\ Untouched(r) /\ audit' = audit
      /\ r.at = "sending" /\ ~config.shared
  BY SendingFacts DEF Forward, others
<1>2. CASE Unavailable(c, r)
  BY <1>1, <1>2, WithHeadFacts, LeftGood DEF Unavailable, Untouched
<1>3. CASE Rejected(c, r)
  BY <1>1, <1>2, <1>3, JudgeGood DEF Rejected, Untouched
<1>4. CASE MoreAttempts(r) /\ Retry(c, Again(r))
  BY <1>1, <1>4, RetryGood DEF Untouched
<1>5. CASE MoreAttempts(r) /\ Retry(c, Again(Stripped(r)))
  <2>1. /\ Stripped(r) \in ClientType /\ MoreAttempts(Stripped(r))
        /\ Stripped(r).at = "sending" /\ Stripped(r).heads = 0 /\ Untouched(Stripped(r))
    BY <1>1, <1>5, StrippedFacts DEF Untouched, MoreAttempts
  <2> QED BY <1>1, <1>5, <2>1, RetryGood DEF Untouched
<1>6. CASE Accepted(c, r)
  <2>1. /\ Taken(r) \in ClientType /\ Taken(r).heads = 0 /\ Taken(r).taken = 1
        /\ (Taken(r).stream <=> r.stream) /\ ~Taken(r).cut /\ ~Taken(r).gone
    BY <1>1, TakenFacts DEF Untouched
  <2>2. CASE ~r.stream
    BY <1>1, <1>6, <2>1, <2>2, JudgeGood DEF Accepted, Untouched
  <2>3. CASE r.stream
    <3> DEFINE x == [Taken(r) EXCEPT !.at = "streaming"]
    <3>1. /\ x \in ClientType /\ x.at = "streaming" /\ x.heads = 0 /\ x.taken = 1
          /\ (x.stream <=> r.stream) /\ ~x.cut /\ ~x.gone
      BY <2>1, PlacedFacts DEF Place
    <3>2. Moved(c, WithHead(x)) /\ active' = active
      BY <1>6, <2>3 DEF Accepted
    <3> HIDE DEF x
    <3>3. /\ WithHead(x) \in ClientType /\ WithHead(x).at = "streaming"
          /\ Good(WithHead(x), config.shared) /\ ~WithHead(x).cut
      BY <2>3, <3>1, WithHeadFacts DEF Good
    <3> QED BY <1>1, <3>2, <3>3, MovedGood DEF Failed, Untouched
  <2> QED BY <2>2, <2>3
<1> QED
  BY <1>2, <1>3, <1>4, <1>5, <1>6
  DEF Forward, RejectedEncrypted, Busy, TransportFails

LEMMA StreamGood ==
    ASSUME GuardTypeOK, ClientsGood, NEW c \in Client, Stream(c)
    PROVE  StepGood(c)
<1> DEFINE r == client[c]
<1>1. /\ r \in ClientType /\ r.at = "streaming" /\ r.stream /\ r.heads = 1
      /\ r.taken = 1 /\ ~r.cut /\ ~r.gone /\ audit' = audit
  BY DEF GuardTypeOK, ClientsGood, Good, Stream, others
<1>2. CASE Judge(c, r)
  BY <1>1, <1>2, JudgeGood
<1>3. CASE Interrupted(c, r)
  BY <1>1, <1>3, LeftGood DEF Interrupted
<1>4. CASE Left(c, Gone(r))
  BY <1>1, <1>4, GoneFacts, LeftGood
<1> QED BY <1>2, <1>3, <1>4 DEF Stream

(* An error of the pool is an event of a stream and a response otherwise.  *)
LEMMA SharedFailsGood ==
    ASSUME NEW c \in Client, NEW r \in ClientType, SharedFails(c, r), audit' = audit,
           r.heads = (IF r.stream THEN 1 ELSE 0), Untouched(r),
           ~client[c].cut, client[c].at # "failing"
    PROVE  StepGood(c)
<1>1. CASE r.stream
  BY <1>1, LeftGood DEF SharedFails, Untouched
<1>2. CASE ~r.stream
  BY <1>2, WithHeadFacts, LeftGood DEF SharedFails, Untouched
<1> QED BY <1>1, <1>2

LEMMA ForwardSharedGood ==
    ASSUME GuardTypeOK, ClientsGood, NEW c \in Client, ForwardShared(c)
    PROVE  StepGood(c)
<1> DEFINE r == client[c]
           s == Stripped(r)
<1>1. /\ r \in ClientType /\ r.heads = (IF r.stream THEN 1 ELSE 0) /\ Untouched(r)
      /\ audit' = audit /\ r.at = "sending" /\ config.shared
  BY SendingFacts DEF ForwardShared, others
<1>2. /\ s \in ClientType /\ s.heads = (IF s.stream THEN 1 ELSE 0) /\ Untouched(s)
      /\ (s.stream <=> r.stream)
  BY <1>1, StrippedFacts DEF Untouched
<1>4. CASE Judge(c, r)
  BY <1>1, <1>4, JudgeGood DEF Untouched
<1> HIDE DEF s
<1>6. CASE Judge(c, s)
  BY <1>1, <1>2, <1>6, JudgeGood DEF Untouched
<1>7. CASE SharedFails(c, r) \/ SharedFails(c, s)
  BY <1>1, <1>2, <1>7, SharedFailsGood DEF Untouched
<1>8. CASE r.stream /\ Left(c, Gone(r))
  BY <1>1, <1>8, GoneFacts, LeftGood DEF Untouched
<1> USE DEF s
<1> QED
  BY <1>4, <1>6, <1>7, <1>8 DEF ForwardShared, SharedWithout

-----------------------------------------------------------------------------
(* The verdict: where an answer fails, the failure is counted at once or   *)
(* by the step that follows.                                               *)

LEMMA AnswerAnswered ==
    ASSUME GuardTypeOK, ClientsGood, NEW c \in Client, Answer(c)
    PROVE  StepGood(c)
<1> DEFINE r == client[c]
<1>1. /\ r \in ClientType /\ r.at = "writing" /\ r.heads = (IF r.stream THEN 1 ELSE 0)
      /\ r.taken <= 1 /\ ~r.gone /\ audit' = audit
  BY DEF GuardTypeOK, ClientsGood, Good, Answer, others
<1>2. CASE Left(c, Gone(r))
  BY <1>1, <1>2, GoneFacts, LeftGood
<1>3. CASE Left(c, IF r.stream THEN r ELSE WithHead(r))
  <2>1. CASE r.stream
    BY <1>1, <1>3, <2>1, LeftGood
  <2>2. CASE ~r.stream
    BY <1>1, <1>3, <2>2, WithHeadFacts, LeftGood
  <2> QED BY <2>1, <2>2
<1> QED BY <1>2, <1>3 DEF Answer

LEMMA JudgingFacts ==
    ASSUME GuardTypeOK, ClientsGood, NEW c \in Client, client[c].at = "judging"
    PROVE  /\ client[c] \in ClientType /\ ~client[c].cut /\ ~client[c].gone
           /\ client[c].heads = (IF client[c].stream THEN 1 ELSE 0)
           /\ client[c].taken <= 1
BY DEF GuardTypeOK, ClientsGood, Good

LEMMA StepToWriting ==
    ASSUME GuardTypeOK, ClientsGood, NEW c \in Client, client[c].at = "judging",
           Step(c, "writing"), active' = active, audit'.failures = audit.failures
    PROVE  StepGood(c)
<1> DEFINE x == [client[c] EXCEPT !.at = "writing"]
<1>0. "writing" \in Place
  BY DEF Place
<1>1. /\ x \in ClientType /\ x.at = "writing" /\ (x.stream <=> client[c].stream)
      /\ x.heads = client[c].heads /\ x.taken = client[c].taken
      /\ ~x.cut /\ ~x.gone
  BY <1>0, JudgingFacts, PlacedFacts
<1>2. client' = [client EXCEPT ![c] = x]
  BY DEF Step, Moved
<1> HIDE DEF x
<1>3. Good(x, config.shared) /\ ~Failed(x) /\ ~Failed(client[c])
  BY <1>1, JudgingFacts DEF Good, Failed
<1> QED BY <1>1, <1>2, <1>3 DEF StepGood

LEMMA CutGood ==
    ASSUME GuardTypeOK, ClientsGood, NEW c \in Client, client[c].at = "judging",
           NEW p \in {"failing", "writing"}, Cut(c, p), active' = active,
           audit'.failures =
             (IF p = "writing" THEN audit.failures + 1 ELSE audit.failures)
    PROVE  StepGood(c)
<1> DEFINE x == [client[c] EXCEPT !.at = p, !.cut = TRUE]
<1>0. p \in Place
  BY DEF Place
<1>1. /\ x \in ClientType /\ x.at = p /\ (x.stream <=> client[c].stream)
      /\ x.heads = client[c].heads /\ x.taken = client[c].taken
      /\ x.cut /\ ~x.gone
  <2>1. client[c] \in ClientType /\ ~client[c].gone
    BY JudgingFacts
  <2> QED BY <1>0, <2>1, CutFacts
<1>2. client' = [client EXCEPT ![c] = x]
  BY DEF Cut, Moved
<1> HIDE DEF x
<1>3. Good(x, config.shared) /\ (Failed(x) <=> p = "writing") /\ ~Failed(client[c])
  BY <1>1, JudgingFacts DEF Good, Failed
<1> QED BY <1>1, <1>2, <1>3 DEF StepGood

LEMMA AuditFields ==
    ASSUME GuardTypeOK
    PROVE  /\ \A n, m : [audit EXCEPT !.consecutive = n, !.replacements = m].failures
                           = audit.failures
           /\ \A n : [audit EXCEPT !.consecutive = n].failures = audit.failures
           /\ \A n : [audit EXCEPT !.failures = n].failures = n
BY DEF GuardTypeOK

LEMMA GiveVerdictGood ==
    ASSUME GuardTypeOK, ClientsGood, NEW c \in Client, GiveVerdict(c)
    PROVE  StepGood(c)
<1>1. client[c].at = "judging" /\ active' = active
  BY DEF GiveVerdict
<1>2. ASSUME NEW v \in Verdict, CountRisk(c, v) PROVE StepGood(c)
  <2>1. audit'.failures = audit.failures
    BY <1>2, AuditFields DEF CountRisk
  <2>2. Cut(c, "failing") \/ Step(c, "writing")
    BY <1>2 DEF CountRisk
  <2> QED BY <1>1, <2>1, <2>2, CutGood, StepToWriting
<1>3. ASSUME NEW v \in Verdict, FailAtOnce(c, v) PROVE StepGood(c)
  <2>1. audit'.failures = audit.failures + 1
    BY <1>3, AuditFields DEF FailAtOnce
  <2> QED BY <1>1, <1>3, <2>1, CutGood DEF FailAtOnce
<1>4. ASSUME NEW v \in Verdict, PassOn(c, v) PROVE StepGood(c)
  <2>1. audit'.failures = audit.failures
    BY <1>4, AuditFields DEF PassOn
  <2> QED BY <1>1, <1>4, <2>1, StepToWriting DEF PassOn
<1>5. CASE PassUnseen(c)
  BY <1>1, <1>5, StepToWriting DEF PassUnseen
<1> QED BY <1>2, <1>3, <1>4, <1>5 DEF GiveVerdict

LEMMA RecordFailureGood ==
    ASSUME GuardTypeOK, ClientsGood, NEW c \in Client, RecordFailure(c)
    PROVE  StepGood(c)
<1> DEFINE x == [client[c] EXCEPT !.at = "writing"]
<1>1. /\ client[c] \in ClientType /\ client[c].at = "failing" /\ client[c].cut
      /\ client[c].heads = (IF client[c].stream THEN 1 ELSE 0)
      /\ client[c].taken <= 1 /\ ~client[c].gone
  BY DEF GuardTypeOK, ClientsGood, Good, RecordFailure
<1>2. /\ x \in ClientType /\ x.at = "writing" /\ (x.stream <=> client[c].stream)
      /\ x.heads = client[c].heads /\ x.taken = client[c].taken
      /\ x.cut /\ ~x.gone
  BY <1>1, PlacedFacts DEF Place
<1>3. client' = [client EXCEPT ![c] = x] /\ active' = active
      /\ audit'.failures = audit.failures + 1
  BY AuditFields DEF RecordFailure, Step, Moved
<1> HIDE DEF x
<1>4. Good(x, config.shared) /\ Failed(x) /\ ~Failed(client[c])
  BY <1>1, <1>2 DEF Good, Failed
<1> QED BY <1>2, <1>3, <1>4 DEF StepGood

LEMMA ClientStepGood ==
    ASSUME GuardTypeOK, ClientsGood, NEW c \in Client, ClientStep(c)
    PROVE  StepGood(c) /\ Started(client[c]) /\ config' = config
BY RefuseGood, ReadRequestGood, UnsendableGood, ForwardGood, StreamGood,
   ForwardSharedGood, GiveVerdictGood, RecordFailureGood, AnswerAnswered
DEF ClientStep, Started, Refuse, ReadRequest, Unsendable, Forward, Stream,
    ForwardShared, GiveVerdict, RecordFailure, Answer, others

(***************************************************************************)
(* Counting.                                                               *)
(***************************************************************************)
InServiceSet == {c \in Client : InService(c)}
FailedSet == {c \in Client : Failed(client[c])}

LEMMA SetsFinite ==
    /\ IsFiniteSet(InServiceSet) /\ Cardinality(InServiceSet) \in Nat
    /\ IsFiniteSet(FailedSet) /\ Cardinality(FailedSet) \in Nat
<1>1. IsFiniteSet(InServiceSet) /\ IsFiniteSet(FailedSet)
  BY GuardAssumption, FS_Subset DEF GuardAssumption, InServiceSet, FailedSet
<1> QED BY <1>1, FS_CardinalityType

LEMMA CountsAsSets ==
    /\ ClientsCounted <=> active = Cardinality(InServiceSet) /\ active <= MaxClients
    /\ FailuresAccounted <=> audit.failures = Cardinality(FailedSet)
BY DEF ClientsCounted, FailuresAccounted, InServiceSet, FailedSet, Failed

(* The client threads leave the other variables alone, but for the audit.  *)
LEMMA ClientStepAudit ==
    ASSUME GuardTypeOK, NEW c \in Client, ClientStep(c)
    PROVE  /\ audit' \in [consecutive : Nat, replacements : Nat, failures : Nat]
           /\ audit'.failures >= audit.failures
           /\ audit'.replacements >= audit.replacements
           /\ UNCHANGED <<config, running, accepting, signal, alarms>>
<1> DEFINE Audit == [consecutive : Nat, replacements : Nat, failures : Nat]
           Grows == /\ audit'.failures >= audit.failures
                    /\ audit'.replacements >= audit.replacements
<1>1. audit \in Audit /\ audit.failures \in Nat /\ audit.replacements \in Nat
  BY DEF GuardTypeOK
<1>2. CASE GiveVerdict(c)
  <2>1. ASSUME NEW v \in Verdict, CountRisk(c, v) PROVE audit' \in Audit /\ Grows
    <3>1. PICK n \in {0, 1} :
            audit' = [audit EXCEPT !.consecutive = @ + 1, !.replacements = @ + n]
      BY <2>1 DEF CountRisk
    <3>2. audit' = [consecutive |-> audit.consecutive + 1,
                    replacements |-> audit.replacements + n, failures |-> audit.failures]
      BY <1>1, <3>1
    <3> QED BY <1>1, <3>2
  <2>2. ASSUME NEW v \in Verdict, FailAtOnce(c, v) PROVE audit' \in Audit /\ Grows
    BY <1>1, <2>2 DEF FailAtOnce
  <2>3. ASSUME NEW v \in Verdict, PassOn(c, v) PROVE audit' \in Audit /\ Grows
    BY <1>1, <2>3 DEF PassOn
  <2> QED BY <1>1, <1>2, <2>1, <2>2, <2>3 DEF GiveVerdict, PassUnseen
<1>3. CASE RecordFailure(c)
  BY <1>1, <1>3 DEF RecordFailure
<1>4. audit' = audit => audit' \in Audit /\ Grows
  BY <1>1
<1>5. UNCHANGED <<config, running, accepting, signal, alarms>>
  BY DEF ClientStep, Refuse, ReadRequest, Unsendable, Forward, Stream, ForwardShared,
         GiveVerdict, RecordFailure, Answer, others
<1> QED
  BY <1>2, <1>3, <1>4, <1>5
  DEF ClientStep, Refuse, ReadRequest, Unsendable, Forward, Stream, ForwardShared,
      Answer, others

LEMMA ClientStepInv ==
    ASSUME GuardInv, NEW c \in Client, ClientStep(c)
    PROVE  GuardInv'
<1>1. /\ GuardTypeOK /\ ClientsGood /\ StepGood(c) /\ Started(client[c])
      /\ config' = config
  BY ClientStepGood DEF GuardInv
<1>2. PICK r \in ClientType :
        /\ client' = [client EXCEPT ![c] = r]
        /\ Good(r, config.shared) /\ r.at # "away"
        /\ active' = (IF r.at = "done" THEN active - 1 ELSE active)
        /\ Failed(client[c]) => Failed(r)
        /\ audit'.failures =
             (IF Failed(r) /\ ~Failed(client[c]) THEN audit.failures + 1
              ELSE audit.failures)
  BY <1>1 DEF StepGood
<1>3. \A d \in Client : client'[d] = IF d = c THEN r ELSE client[d]
  BY <1>1, <1>2 DEF GuardTypeOK
<1>4. client' \in [Client -> ClientType] /\ ClientsGood'
  BY <1>1, <1>2, <1>3 DEF GuardTypeOK, ClientsGood
<1>5. active = Cardinality(InServiceSet) /\ active <= MaxClients
      /\ audit.failures = Cardinality(FailedSet)
  BY CountsAsSets DEF GuardInv
<1>6. GuardTypeOK'
  <2>1. active' \in Int
    BY <1>1, <1>2 DEF GuardTypeOK
  <2> QED BY <1>1, <1>4, <2>1, ClientStepAudit DEF GuardTypeOK
<1>7. ClientsCounted'
  <2>1. CASE r.at = "done"
    <3>1. InServiceSet' = InServiceSet \ {c} /\ c \in InServiceSet
      BY <1>1, <1>3, <2>1 DEF InServiceSet, InService, Started
    <3>2. Cardinality(InServiceSet') = active - 1
      BY <1>5, <3>1, SetsFinite, FS_RemoveElement
    <3> QED BY <1>2, <1>5, <2>1, <3>2, SetsFinite, CountsAsSets, GuardAssumption
            DEF GuardAssumption, ClientsCounted, InServiceSet
  <2>2. CASE r.at # "done"
    <3>1. InServiceSet' = InServiceSet
      BY <1>1, <1>2, <1>3, <2>2 DEF InServiceSet, InService, Started
    <3> QED BY <1>2, <1>5, <2>2, <3>1 DEF ClientsCounted, InServiceSet
  <2> QED BY <2>1, <2>2
<1>8. FailuresAccounted'
  <2>1. CASE Failed(r) /\ ~Failed(client[c])
    <3>1. FailedSet' = FailedSet \cup {c} /\ c \notin FailedSet
      BY <1>3, <2>1 DEF FailedSet, Failed
    <3>2. Cardinality(FailedSet') = audit.failures + 1
      BY <1>5, <3>1, SetsFinite, FS_AddElement
    <3> QED BY <1>2, <2>1, <3>2 DEF FailuresAccounted, FailedSet, Failed
  <2>2. CASE ~(Failed(r) /\ ~Failed(client[c]))
    <3>1. FailedSet' = FailedSet
      BY <1>2, <1>3, <2>2 DEF FailedSet, Failed
    <3> QED BY <1>2, <1>5, <2>2, <3>1 DEF FailuresAccounted, FailedSet, Failed
  <2> QED BY <2>1, <2>2
<1> QED BY <1>4, <1>6, <1>7, <1>8 DEF GuardInv

-----------------------------------------------------------------------------
(* The accept thread and the supervisor.                                   *)

LEMMA AdmitInv ==
    ASSUME GuardInv, NEW c \in Client, Admit(c)
    PROVE  GuardInv'
<1> DEFINE r == [client[c] EXCEPT !.at = "reading"]
<1>0. "reading" \in Place
  BY DEF Place
<1>1. /\ GuardTypeOK /\ ClientsGood /\ client[c] \in ClientType
      /\ client[c].at = "away" /\ client[c].heads = 0 /\ Untouched(client[c])
  BY DEF GuardInv, GuardTypeOK, ClientsGood, Admit, Good
<1>2. /\ r \in ClientType /\ r.at = "reading" /\ r.heads = 0 /\ Untouched(r)
  BY <1>0, <1>1, PlacedFacts DEF Untouched
<1>3. client' = [client EXCEPT ![c] = r]
  BY DEF Admit, Moved
<1> HIDE DEF r
<1>4. \A d \in Client : client'[d] = IF d = c THEN r ELSE client[d]
  BY <1>1, <1>3 DEF GuardTypeOK
<1>5. client' \in [Client -> ClientType] /\ ClientsGood'
  BY <1>1, <1>2, <1>3, <1>4 DEF GuardTypeOK, ClientsGood, Good, Admit
<1>6. GuardTypeOK'
  BY <1>1, <1>5 DEF GuardTypeOK, Admit
<1>7. ClientsCounted'
  <2>1. InServiceSet' = InServiceSet \cup {c} /\ c \notin InServiceSet
    BY <1>1, <1>2, <1>4 DEF InServiceSet, InService
  <2>2. Cardinality(InServiceSet') = Cardinality(InServiceSet) + 1
    BY <2>1, SetsFinite, FS_AddElement
  <2>3. active = Cardinality(InServiceSet) /\ active < MaxClients /\ active' = active + 1
    BY CountsAsSets DEF GuardInv, Admit
  <2> QED BY <2>2, <2>3, SetsFinite, GuardAssumption
          DEF GuardAssumption, ClientsCounted, InServiceSet
<1>8. FailuresAccounted'
  <2>1. FailedSet' = FailedSet
    BY <1>1, <1>2, <1>4 DEF FailedSet, Failed, Untouched
  <2> QED BY <2>1, CountsAsSets DEF GuardInv, Admit, FailuresAccounted, FailedSet, Failed
<1> QED BY <1>5, <1>6, <1>7, <1>8 DEF GuardInv

LEMMA TurnAwayInv ==
    ASSUME GuardInv, NEW c \in Client, TurnAway(c)
    PROVE  GuardInv'
<1> DEFINE x == [client[c] EXCEPT !.at = "done"]
           r == WithHead(x)
<1>0. "done" \in Place
  BY DEF Place
<1>1. /\ GuardTypeOK /\ ClientsGood /\ client[c] \in ClientType
      /\ client[c].at = "away" /\ client[c].heads = 0 /\ Untouched(client[c])
  BY DEF GuardInv, GuardTypeOK, ClientsGood, TurnAway, Good
<1>2. /\ x \in ClientType /\ x.at = "done" /\ x.heads = 0 /\ Untouched(x)
  BY <1>0, <1>1, PlacedFacts DEF Untouched
<1>3. client' = [client EXCEPT ![c] = r]
  BY DEF TurnAway, Moved
<1> HIDE DEF x
<1>4. /\ r \in ClientType /\ r.at = "done" /\ r.heads = 1 /\ Untouched(r)
  BY <1>2, WithHeadFacts DEF Untouched
<1> HIDE DEF r
<1>5. \A d \in Client : client'[d] = IF d = c THEN r ELSE client[d]
  BY <1>1, <1>3 DEF GuardTypeOK
<1>6. Good(r, config.shared)
  BY <1>4 DEF Good, Untouched
<1>7. client' \in [Client -> ClientType] /\ ClientsGood'
  BY <1>1, <1>3, <1>4, <1>5, <1>6 DEF GuardTypeOK, ClientsGood, TurnAway
<1>8. GuardTypeOK'
  BY <1>1, <1>7 DEF GuardTypeOK, TurnAway
<1>9. InServiceSet' = InServiceSet /\ FailedSet' = FailedSet
  BY <1>1, <1>4, <1>5 DEF InServiceSet, InService, FailedSet, Failed, Untouched
<1>10. ClientsCounted'
  BY <1>9, CountsAsSets DEF GuardInv, TurnAway, ClientsCounted, InServiceSet
<1>11. FailuresAccounted'
  BY <1>9, CountsAsSets DEF GuardInv, TurnAway, FailuresAccounted, FailedSet, Failed
<1> QED BY <1>7, <1>8, <1>10, <1>11 DEF GuardInv

(* Whoever leaves the clients, the counter and the audit alone.            *)
LEMMA ClientsSame ==
    ASSUME GuardInv, UNCHANGED <<config, active, client, audit>>, GuardTypeOK'
    PROVE  GuardInv'
BY DEF GuardInv, ClientsGood, ClientsCounted, FailuresAccounted, InService

LEMMA OtherStepInv ==
    ASSUME GuardInv,
           AcceptFails \/ StopGuard \/ AcceptEnds \/ RaiseAlarm \/ UNCHANGED guardVars
    PROVE  GuardInv'
<1>1. GuardTypeOK
  BY DEF GuardInv
<1>2. CASE AcceptFails \/ StopGuard \/ AcceptEnds
  <2>1. GuardTypeOK'
    BY <1>1, <1>2 DEF AcceptFails, StopGuard, AcceptEnds, GuardTypeOK
  <2> QED BY <1>2, <2>1, ClientsSame DEF AcceptFails, StopGuard, AcceptEnds
<1>3. CASE RaiseAlarm
  <2>1. GuardTypeOK'
    BY <1>1, <1>3 DEF RaiseAlarm, GuardTypeOK
  <2> QED BY <1>3, <2>1, ClientsSame DEF RaiseAlarm
<1>4. CASE UNCHANGED guardVars
  <2>1. GuardTypeOK'
    BY <1>1, <1>4 DEF guardVars, GuardTypeOK
  <2> QED BY <1>4, <2>1, ClientsSame DEF guardVars
<1> QED BY <1>2, <1>3, <1>4

LEMMA GuardInitInv == GuardInit => GuardInv
<1> SUFFICES ASSUME GuardInit PROVE GuardInv
  OBVIOUS
<1>1. NewClient \in ClientType
  <2>1. 1 \in 1 .. Attempts
    BY GuardAssumption DEF GuardAssumption
  <2> QED BY <2>1 DEF NewClient, ClientType, Place
<1>2. GuardTypeOK
  BY <1>1 DEF GuardInit, GuardTypeOK, NoAudit, NoSignal
<1>3. \A c \in Client : client[c] = NewClient
  BY DEF GuardInit
<1>4. ClientsGood
  BY <1>3 DEF ClientsGood, Good, Untouched, NewClient
<1>5. InServiceSet = {} /\ FailedSet = {}
  BY <1>3 DEF InServiceSet, InService, FailedSet, Failed, NewClient
<1>6. ClientsCounted /\ FailuresAccounted
  BY <1>5, FS_EmptySet, CountsAsSets, GuardAssumption
  DEF GuardAssumption, GuardInit, NoAudit
<1> QED BY <1>2, <1>4, <1>6 DEF GuardInv

LEMMA GuardInvariance == GuardSpec => []GuardInv
<1>1. GuardInv /\ [GuardNext]_guardVars => GuardInv'
  BY ClientStepInv, AdmitInv, TurnAwayInv, OtherStepInv DEF GuardNext
<1> QED BY <1>1, GuardInitInv, PTL DEF GuardSpec

(***************************************************************************)
(* The alarms.  Each one raises what the supervisor knows of by at least   *)
(* one, and it knows of nothing that was not counted.                      *)
(***************************************************************************)
AlarmInv ==
    /\ alarms <= signal.failures + signal.replacements
    /\ signal.failures <= audit.failures
    /\ signal.replacements <= audit.replacements

LEMMA RaiseAlarmInv ==
    ASSUME GuardTypeOK, AlarmInv, RaiseAlarm
    PROVE  AlarmInv'
<1>1. signal'.failures = audit.failures /\ signal'.replacements = audit.replacements
      /\ audit' = audit /\ alarms' = alarms + 1
  BY DEF RaiseAlarm
<1>2. audit.failures > signal.failures \/ audit.replacements > signal.replacements
  BY DEF RaiseAlarm, NewPollution
<1> QED BY <1>1, <1>2 DEF AlarmInv, GuardTypeOK

LEMMA AlarmsInvariance == GuardSpec => []AlarmInv
<1>1. GuardInit => AlarmInv
  BY DEF GuardInit, AlarmInv, NoAudit, NoSignal
<1>2. GuardInv /\ AlarmInv /\ [GuardNext]_guardVars => AlarmInv'
  <2> SUFFICES ASSUME GuardTypeOK, AlarmInv, [GuardNext]_guardVars PROVE AlarmInv'
    BY DEF GuardInv
  <2>1. ASSUME NEW c \in Client, ClientStep(c) PROVE AlarmInv'
    BY <2>1, ClientStepAudit DEF AlarmInv, GuardTypeOK
  <2>2. CASE UNCHANGED <<audit, signal, alarms>>
    BY <2>2 DEF AlarmInv
  <2> QED
    BY <2>1, <2>2, RaiseAlarmInv
    DEF GuardNext, Admit, TurnAway, AcceptFails, StopGuard, AcceptEnds, guardVars
<1> QED BY <1>1, <1>2, GuardInvariance, PTL DEF GuardSpec

(***************************************************************************)
(* The theorems.                                                           *)
(***************************************************************************)
(* The clients, the counters and the state of the guard keep their types,  *)
(* for every number of clients and every limit.                            *)
THEOREM GuardTypeCorrect == GuardSpec => []GuardTypeOK
<1>1. GuardInv => GuardTypeOK
  BY DEF GuardInv
<1> QED BY <1>1, GuardInvariance, PTL

(* The counter of the accept thread is the number of client threads.       *)
THEOREM ClientsAlwaysCounted == GuardSpec => []ClientsCounted
<1>1. GuardInv => ClientsCounted
  BY DEF GuardInv
<1> QED BY <1>1, GuardInvariance, PTL

(* A client gets one response head, and no second one.                     *)
THEOREM HeadsOnce == GuardSpec => []OneHead
<1>1. GuardInv => OneHead
  <2> SUFFICES ASSUME GuardInv, NEW c \in Client
               PROVE  /\ client[c].heads <= 1
                      /\ client[c].at = "done" /\ ~client[c].gone => client[c].heads = 1
    BY DEF OneHead
  <2>1. client[c] \in ClientType /\ Good(client[c], config.shared)
    BY DEF GuardInv, GuardTypeOK, ClientsGood
  <2>2. client[c].at \in Place
    BY <2>1 DEF ClientType
  <2> QED BY <2>1, <2>2 DEF Good, Place
<1> QED BY <1>1, GuardInvariance, PTL

(* What upstream has answered with success the guard does not send again,  *)
(* as long as it sends its requests itself and not through a shared pool   *)
(* (forward_with_guard).                                                   *)
THEOREM NeverTakenTwice == GuardSpec => []TakenOnce
<1>1. GuardInv => TakenOnce
  <2> SUFFICES ASSUME GuardInv, NEW c \in Client
               PROVE  client[c].taken <= 1
    BY DEF TakenOnce
  <2>1. client[c] \in ClientType /\ Good(client[c], config.shared)
    BY DEF GuardInv, GuardTypeOK, ClientsGood
  <2>2. client[c].at \in Place
    BY <2>1 DEF ClientType
  <2> QED BY <2>1, <2>2 DEF Good, Place, Untouched
<1> QED BY <1>1, GuardInvariance, PTL

(* The failures counted are the answers that failed.                       *)
THEOREM FailuresAlwaysAccounted == GuardSpec => []FailuresAccounted
<1>1. GuardInv => FailuresAccounted
  BY DEF GuardInv
<1> QED BY <1>1, GuardInvariance, PTL

(* The supervisor is not alarmed twice of the same.                        *)
THEOREM AlarmsAlwaysJustified == GuardSpec => []AlarmsJustified
<1>1. GuardTypeOK /\ AlarmInv => AlarmsJustified
  BY DEF GuardTypeOK, AlarmInv, AlarmsJustified
<1> QED BY <1>1, GuardTypeCorrect, AlarmsInvariance, PTL

-----------------------------------------------------------------------------
(* The ports.  The types and PortsDistinct together are inductive;         *)
(* PortKept needs KeptInv, which ties the file to the port in hand and to  *)
(* the one before.                                                         *)


(* A port that is reserved is a port, and nobody else's: the one that is   *)
(* registered already or one that is promised to nobody else.              *)
LEMMA ReservedType ==
    ASSUME PortsTypeOK, NEW k \in Key
    PROVE  Reserved(k) \in Port \cup {NoPort}
<1>1. CASE PortAvailable(registry[k])
  BY <1>1 DEF Reserved, PortAvailable
<1>2. CASE ~PortAvailable(registry[k])
  <2>1. Candidates(k) \in SUBSET Port
    BY DEF Candidates
  <2>2. CASE Candidates(k) = {}
    BY <1>2, <2>2 DEF Reserved, FirstOf
  <2>3. CASE Candidates(k) # {}
    <3>1. \E p \in Candidates(k) : \A q \in Candidates(k) : p <= q
      BY <2>1, <2>3, PortsAssumption DEF PortsAssumption
    <3> QED
      BY <1>2, <2>1, <2>3, <3>1 DEF Reserved, FirstOf
  <2> QED BY <2>2, <2>3
<1> QED BY <1>1, <1>2

LEMMA ReservedSole ==
    ASSUME PortsTypeOK, PortsDistinct, NEW k \in Key, NEW j \in Key, j # k,
           Reserved(k) # NoPort
    PROVE  registry[j] # Reserved(k)
<1>1. CASE PortAvailable(registry[k])
  BY <1>1 DEF Reserved, PortsDistinct
<1>2. CASE ~PortAvailable(registry[k])
  <2>1. Candidates(k) \in SUBSET Port /\ Candidates(k) # {}
    BY <1>2 DEF Candidates, Reserved, FirstOf
  <2>2. \E p \in Candidates(k) : \A q \in Candidates(k) : p <= q
    BY <2>1, PortsAssumption DEF PortsAssumption
  <2>3. Reserved(k) \in Candidates(k)
    BY <1>2, <2>1, <2>2 DEF Reserved, FirstOf
  <2> QED BY <2>3 DEF Candidates, Promised
<1> QED BY <1>1, <1>2

LEMMA ExcuseType == ASSUME PortsTypeOK, NEW r \in Keeper PROVE Excuse(r) \subseteq Keeper
BY DEF PortsTypeOK, Excuse

(***************************************************************************)
(* Each step keeps the types, and no two entries of the registry equal.    *)
(***************************************************************************)
PortsInv == PortsTypeOK /\ PortsDistinct

LEMMA PortsInitInv == PortsInit => PortsInv
BY PortsAssumption
DEF PortsAssumption, PortsInit, PortsInv, PortsTypeOK, PortsDistinct, NoGuard, Stage

LEMMA DistinctSame == PortsDistinct /\ registry' = registry => PortsDistinct'
BY DEF PortsDistinct

(* To forget an entry makes no two of them equal.                          *)
LEMMA DistinctForgotten ==
    ASSUME PortsTypeOK, PortsDistinct, NEW k \in Key,
           registry' = [registry EXCEPT ![k] = NoPort]
    PROVE  PortsDistinct'
BY DEF PortsTypeOK, PortsDistinct

LEMMA ReservePortInv ==
    ASSUME PortsInv, NEW r \in Keeper, ReservePort(r)
    PROVE  PortsInv'
<1> DEFINE k == KeyOf[r]
<1>1. PortsTypeOK /\ PortsDistinct /\ k \in Key /\ Reserved(k) \in Port \cup {NoPort}
  BY ReservedType, PortsAssumption DEF PortsInv, PortsAssumption
<1>2. registry' = Registered(k, Reserved(k))
  BY DEF ReservePort
<1>3. registry' \in [Key -> Port \cup {NoPort}]
  BY <1>1, <1>2 DEF PortsTypeOK, Registered
<1>4. keeper' \in [Keeper -> [at : Stage, port : Port \cup {NoPort}]]
  BY <1>1 DEF ReservePort, PortsTypeOK, Stage
<1>5. PortsTypeOK'
  BY <1>1, <1>3, <1>4, ExcuseType DEF ReservePort, PortsTypeOK
<1>6. PortsDistinct'
  <2>1. CASE Reserved(k) = NoPort
    BY <1>1, <1>2, <2>1, DistinctSame DEF Registered
  <2>2. CASE Reserved(k) # NoPort
    <3>1. \A j \in Key : registry'[j] = IF j = k THEN Reserved(k) ELSE registry[j]
      BY <1>1, <1>2, <2>2 DEF Registered, PortsTypeOK
    <3>2. \A j \in Key : j # k => registry[j] # Reserved(k)
      BY <1>1, <2>2, ReservedSole
    <3> QED
      BY <1>1, <3>1, <3>2 DEF PortsDistinct
  <2> QED BY <2>1, <2>2
<1> QED BY <1>5, <1>6 DEF PortsInv

LEMMA BindFailsInv ==
    ASSUME PortsInv, NEW r \in Keeper, BindFails(r)
    PROVE  PortsInv'
<1>1. PortsTypeOK /\ PortsDistinct /\ KeyOf[r] \in Key
  BY PortsAssumption DEF PortsInv, PortsAssumption
<1>2. registry' = registry \/ registry' = [registry EXCEPT ![KeyOf[r]] = NoPort]
  BY DEF BindFails
<1>3. PortsTypeOK'
  BY <1>1, <1>2, ExcuseType DEF BindFails, PortsTypeOK, Stage
<1>4. PortsDistinct'
  BY <1>1, <1>2, DistinctSame, DistinctForgotten
<1> QED BY <1>3, <1>4 DEF PortsInv

LEMMA EntryLostInv ==
    ASSUME PortsInv, NEW k \in Key, EntryLost(k)
    PROVE  PortsInv'
<1>1. PortsTypeOK'
  BY DEF PortsInv, EntryLost, PortsTypeOK
<1>2. PortsDistinct'
  BY DistinctForgotten DEF PortsInv, EntryLost
<1> QED BY <1>1, <1>2 DEF PortsInv

(* The other steps of a runtime leave the registry alone.                  *)
LEMMA KeeperStepInv ==
    ASSUME PortsInv, NEW r \in Keeper,
           SaveFails(r) \/ BindPort(r) \/ GiveUpBinding(r) \/ ReleasePort(r)
    PROVE  PortsInv'
<1>1. PortsTypeOK /\ PortsDistinct
  BY DEF PortsInv
<1>2. registry' = registry
  BY DEF SaveFails, BindPort, GiveUpBinding, ReleasePort
<1>3. keeper' \in [Keeper -> [at : Stage, port : Port \cup {NoPort}]]
  BY <1>1 DEF SaveFails, BindPort, GiveUpBinding, ReleasePort, NoGuard, PortsTypeOK, Stage
<1>4. lastPort' \in [Keeper -> Port \cup {NoPort}] /\ excused' \subseteq Keeper
  BY <1>1, ExcuseType
  DEF SaveFails, BindPort, GiveUpBinding, ReleasePort, PortsTypeOK
<1>5. foreign' = foreign
  BY DEF SaveFails, BindPort, GiveUpBinding, ReleasePort
<1> QED
  BY <1>1, <1>2, <1>3, <1>4, <1>5, DistinctSame DEF PortsInv, PortsTypeOK

LEMMA ForeignInv ==
    ASSUME PortsInv, NEW p \in Port, ForeignTakes(p) \/ ForeignLeaves(p)
    PROVE  PortsInv'
BY DistinctSame DEF PortsInv, PortsTypeOK, ForeignTakes, ForeignLeaves

LEMMA PortsStutter == PortsInv /\ UNCHANGED portVars => PortsInv'
BY DEF PortsInv, PortsTypeOK, PortsDistinct, portVars

LEMMA PortsInvariance == PortsSpec => []PortsInv
<1>1. PortsInv /\ [PortsNext]_portVars => PortsInv'
  BY ReservePortInv, BindFailsInv, KeeperStepInv, EntryLostInv, ForeignInv, PortsStutter
  DEF PortsNext
<1> QED BY <1>1, PortsInitInv, PTL DEF PortsSpec

(***************************************************************************)
(* A guard comes back on its port.  What the file says of an endpoint with *)
(* one runtime can only be changed by that runtime, and while the port is  *)
(* free that runtime reserves it again: so the file, the history and the   *)
(* port in hand agree until there is an excuse.                            *)
(***************************************************************************)
HoldsPort(r) ==
    /\ registry[KeyOf[r]] = lastPort[r]
    /\ keeper[r].at \in {"binding", "rebinding"} => keeper[r].port = lastPort[r]

KeptInv ==
    \A r \in Keeper : lastPort[r] # NoPort =>
        Sole(r) /\ (r \notin excused => HoldsPort(r))

LEMMA KeptInit == PortsInit => KeptInv
BY DEF PortsInit, KeptInv

(* What neither touches the runtime nor what is said of its endpoint.      *)
LEMMA HoldsSame ==
    ASSUME NEW r \in Keeper, HoldsPort(r), registry'[KeyOf[r]] = registry[KeyOf[r]],
           keeper'[r] = keeper[r], lastPort'[r] = lastPort[r]
    PROVE  HoldsPort(r)'
BY DEF HoldsPort

LEMMA ReservePortKept ==
    ASSUME PortsTypeOK, KeptInv, NEW q \in Keeper, ReservePort(q)
    PROVE  KeptInv'
<1> SUFFICES ASSUME NEW r \in Keeper, lastPort'[r] # NoPort
             PROVE  Sole(r) /\ (r \notin excused' => HoldsPort(r)')
  BY DEF KeptInv, Sole
<1>1. lastPort' = lastPort /\ Sole(r) /\ (r \notin excused => HoldsPort(r))
  BY DEF ReservePort, KeptInv
<1>2. \A p \in Keeper : KeyOf[p] \in Key
  BY PortsAssumption DEF PortsAssumption
<1>3. excused' = Excuse(q) /\ registry' = Registered(KeyOf[q], Reserved(KeyOf[q]))
  BY DEF ReservePort
<1>4. CASE r # q
  <2>1. KeyOf[r] # KeyOf[q]
    BY <1>1, <1>4 DEF Sole
  <2>2. registry'[KeyOf[r]] = registry[KeyOf[r]]
    BY <1>2, <1>3, <2>1 DEF PortsTypeOK, Registered
  <2>3. keeper'[r] = keeper[r]
    BY <1>4 DEF PortsTypeOK, ReservePort
  <2>4. r \notin excused' => r \notin excused
    BY <1>3 DEF Excuse
  <2> QED BY <1>1, <2>2, <2>3, <2>4, HoldsSame
<1>5. CASE r = q
  <2> SUFFICES ASSUME r \notin excused' PROVE HoldsPort(r)'
    BY <1>1
  <2>1. r \notin excused /\ lastPort[r] \notin Bound
    BY <1>3, <1>5 DEF Excuse
  <2>2. registry[KeyOf[r]] = lastPort[r]
    BY <1>1, <2>1 DEF HoldsPort
  <2>3. lastPort[r] \in Port
    BY <1>1 DEF PortsTypeOK
  <2>4. Reserved(KeyOf[r]) = lastPort[r]
    BY <2>1, <2>2, <2>3 DEF Reserved, PortAvailable
  <2>5. registry'[KeyOf[r]] = lastPort[r]
    BY <1>2, <1>3, <1>5, <2>2, <2>4 DEF Registered, PortsTypeOK
  <2>6. keeper'[r].port = lastPort[r]
    BY <1>5, <2>4 DEF ReservePort, PortsTypeOK
  <2> QED BY <1>1, <2>5, <2>6 DEF HoldsPort
<1> QED BY <1>4, <1>5

LEMMA BindPortKept ==
    ASSUME PortsTypeOK, KeptInv, NEW q \in Keeper, BindPort(q)
    PROVE  KeptInv'
<1> SUFFICES ASSUME NEW r \in Keeper, lastPort'[r] # NoPort
             PROVE  Sole(r) /\ (r \notin excused' => HoldsPort(r)')
  BY DEF KeptInv, Sole
<1>1. registry' = registry
  BY DEF BindPort
<1>2. CASE r # q
  <2>1. keeper'[r] = keeper[r] /\ lastPort'[r] = lastPort[r]
    BY <1>2 DEF BindPort, PortsTypeOK
  <2>2. r \notin excused' => r \notin excused
    BY <1>2 DEF BindPort
  <2> QED BY <1>1, <2>1, <2>2, HoldsSame DEF KeptInv
<1>3. CASE r = q
  <2>1. Sole(r)
    BY <1>3 DEF BindPort, KeptInv
  <2>2. lastPort'[r] = keeper[r].port /\ keeper'[r].at = "up"
    BY <1>3, <2>1 DEF BindPort, PortsTypeOK
  <2>3. r \notin excused' => registry[KeyOf[r]] = keeper[r].port
    BY <1>3, <2>1 DEF BindPort
  <2> QED BY <1>1, <2>1, <2>2, <2>3 DEF HoldsPort
<1> QED BY <1>2, <1>3

(* A runtime that cannot bind the port it reserved has the excuse that     *)
(* somebody else holds it.                                                 *)
LEMMA BindFailsKept ==
    ASSUME PortsTypeOK, KeptInv, NEW q \in Keeper, BindFails(q) \/ GiveUpBinding(q)
    PROVE  KeptInv'
<1> SUFFICES ASSUME NEW r \in Keeper, lastPort'[r] # NoPort
             PROVE  Sole(r) /\ (r \notin excused' => HoldsPort(r)')
  BY DEF KeptInv, Sole
<1>1. lastPort' = lastPort /\ excused' = Excuse(q)
      /\ Sole(r) /\ (r \notin excused => HoldsPort(r))
  BY DEF BindFails, GiveUpBinding, KeptInv
<1>2. CASE r # q
  <2>1. KeyOf[r] # KeyOf[q] /\ KeyOf[r] \in Key /\ KeyOf[q] \in Key
    BY <1>1, <1>2, PortsAssumption DEF Sole, PortsAssumption
  <2>2. registry'[KeyOf[r]] = registry[KeyOf[r]]
    BY <2>1 DEF BindFails, GiveUpBinding, PortsTypeOK
  <2>3. keeper'[r] = keeper[r]
    BY <1>2 DEF BindFails, GiveUpBinding, PortsTypeOK
  <2>4. r \notin excused' => r \notin excused
    BY <1>1 DEF Excuse
  <2> QED BY <1>1, <2>2, <2>3, <2>4, HoldsSame
<1>3. CASE r = q
  <2>1. keeper[r].at \in {"binding", "rebinding"} /\ keeper[r].port \in Bound
    BY <1>3 DEF BindFails, GiveUpBinding
  <2>2. r \in excused'
    BY <1>1, <1>3, <2>1 DEF HoldsPort, Excuse
  <2> QED BY <1>1, <2>2
<1> QED BY <1>2, <1>3

LEMMA IdleKept ==
    ASSUME PortsTypeOK, KeptInv, NEW q \in Keeper, SaveFails(q) \/ ReleasePort(q)
    PROVE  KeptInv'
<1>1. registry' = registry /\ lastPort' = lastPort /\ excused' = excused
  BY DEF SaveFails, ReleasePort
<1>2. \A r \in Keeper : keeper'[r] = keeper[r] \/ keeper'[r].at = "down"
  BY DEF SaveFails, ReleasePort, NoGuard, PortsTypeOK
<1> QED BY <1>1, <1>2 DEF KeptInv, HoldsPort, Sole

LEMMA EntryLostKept ==
    ASSUME PortsTypeOK, KeptInv, NEW k \in Key, EntryLost(k)
    PROVE  KeptInv'
<1> SUFFICES ASSUME NEW r \in Keeper, lastPort'[r] # NoPort, r \notin excused'
             PROVE  Sole(r) /\ HoldsPort(r)'
  BY DEF EntryLost, KeptInv, Sole
<1>1. Sole(r) /\ HoldsPort(r) /\ KeyOf[r] # k
  BY DEF EntryLost, KeptInv
<1>2. KeyOf[r] \in Key
  BY PortsAssumption DEF PortsAssumption
<1>3. registry'[KeyOf[r]] = registry[KeyOf[r]]
  BY <1>1, <1>2 DEF EntryLost, PortsTypeOK
<1> QED BY <1>1, <1>3, HoldsSame DEF EntryLost

LEMMA ForeignKept ==
    ASSUME KeptInv, UNCHANGED <<registry, keeper, lastPort, excused>>
    PROVE  KeptInv'
BY DEF KeptInv, HoldsPort, Sole

LEMMA KeptInvariance == PortsSpec => []KeptInv
<1>1. PortsTypeOK /\ KeptInv /\ [PortsNext]_portVars => KeptInv'
  <2> SUFFICES ASSUME PortsTypeOK, KeptInv, [PortsNext]_portVars PROVE KeptInv'
    OBVIOUS
  <2>1. CASE \E r \in Keeper :
               \/ ReservePort(r) \/ SaveFails(r) \/ BindPort(r) \/ BindFails(r)
               \/ GiveUpBinding(r) \/ ReleasePort(r)
    BY <2>1, ReservePortKept, BindPortKept, BindFailsKept, IdleKept
  <2>2. CASE \E p \in Port : ForeignTakes(p) \/ ForeignLeaves(p)
    BY <2>2, ForeignKept DEF ForeignTakes, ForeignLeaves
  <2>3. CASE \E k \in Key : EntryLost(k)
    BY <2>3, EntryLostKept
  <2>4. CASE UNCHANGED portVars
    BY <2>4, ForeignKept DEF portVars
  <2> QED BY <2>1, <2>2, <2>3, <2>4 DEF PortsNext
<1>2. PortsInv => PortsTypeOK
  BY DEF PortsInv
<1> QED BY <1>1, <1>2, KeptInit, PortsInvariance, PTL DEF PortsSpec

(***************************************************************************)
(* The theorems.                                                           *)
(***************************************************************************)
(* The registry file, what each runtime has read of it and the guards that *)
(* listen keep their types, for every set of runtimes and ports.           *)
THEOREM PortsTypeCorrect == PortsSpec => []PortsTypeOK
<1>1. PortsInv => PortsTypeOK
  BY DEF PortsInv
<1> QED BY <1>1, PortsInvariance, PTL

(* No two endpoints are promised the same port, however many runtimes      *)
(* reserve, bind, fail and clear, and whichever entries get lost.          *)
THEOREM PortsAlwaysDistinct == PortsSpec => []PortsDistinct
<1>1. PortsInv => PortsDistinct
  BY DEF PortsInv
<1> QED BY <1>1, PortsInvariance, PTL

(* A guard whose endpoint is nobody else's comes back on its port, unless  *)
(* it is excused.                                                          *)
THEOREM PortsAlwaysKept == PortsSpec => []PortKept
<1>1. KeptInv => PortKept
  BY DEF KeptInv, HoldsPort, PortKept, CanBind
<1> QED BY <1>1, KeptInvariance, PTL
=============================================================================
