------------------------- MODULE SmartProxy_proofs --------------------------
(***************************************************************************)
(* What holds of SmartProxy for any number of requests, keys and upstreams *)
(* and all limits.  Proper says of one request what its place implies;     *)
(* LocksHeld says from its place which lock a thread holds, from which it  *)
(* follows that no two threads wait for each other.                        *)
(***************************************************************************)
EXTENDS SmartProxy, FiniteSetTheorems, TLAPS

(* A part of an answer has reached the client only in the last attempt.    *)
Proper(x) ==
    /\ x.at \in {"chosen", "sent", "received", "keys", "upstream"} => x.key \in SmartKey
    /\ x.at \in {"new", "selecting", "choosing", "chosen", "sent"} => x.passed = 0
    /\ x.at \in {"received", "keys", "upstream"} =>
         /\ x.outcome \in Outcome
         /\ x.passed = (IF x.outcome \in {"ok", "incomplete"} THEN 1 ELSE 0)
    /\ x.passed <= 1

AllProper == \A r \in SmartRequest : Proper(smart[r])

(* A thread that has a lock is where it uses it.                           *)
LocksHeld ==
    \A r \in SmartRequest : held.deployments = r => smart[r].at = "keys"

(* A key that rejected somebody cools down.                                *)
RejectedCools ==
    \A r \in SmartRequest, k \in SmartKey : <<r, k>> \in rejectedBy => k \in keyCooling

SmartInv == SmartTypeOK /\ AllProper /\ LocksHeld /\ RejectedCools /\ RejectedMoves

(***************************************************************************)
(* What the operators do to the record of a request.                       *)
(***************************************************************************)
LEMMA FreshType == Fresh \in SmartType
<1>1. 1 \in 1 .. SmartAttempts
  BY SmartAssumption DEF SmartAssumption
<1> QED BY <1>1 DEF Fresh, SmartType, SmartPlace

LEMMA EndsAsFacts ==
    ASSUME NEW x \in SmartType, NEW result \in {"none", "answered", "failed", "gone"},
           x.passed <= 1
    PROVE  /\ EndsAs(x, result) \in SmartType /\ EndsAs(x, result).at = "done"
           /\ Proper(EndsAs(x, result))
<1>1. /\ EndsAs(x, result) \in SmartType /\ EndsAs(x, result).at = "done"
      /\ EndsAs(x, result).passed = x.passed
  <2>1. /\ Fresh \in SmartType /\ x.stream \in BOOLEAN /\ x.passed \in Nat
        /\ "done" \in SmartPlace
    BY FreshType DEF SmartType, SmartPlace
  <2> QED BY <2>1, ZenonT(60) DEF EndsAs, SmartType
<1> QED BY <1>1 DEF Proper

LEMMA LeftoverOfFacts ==
    ASSUME NEW x \in SmartType, x.passed <= 1
    PROVE  /\ LeftoverOf(x) \in SmartType /\ LeftoverOf(x).at = "done"
           /\ Proper(LeftoverOf(x))
BY EndsAsFacts DEF LeftoverOf

LEMMA TryAgainFacts ==
    ASSUME NEW x \in SmartType, HasMoreAttempts(x), x.passed = 0
    PROVE  /\ TryAgain(x) \in SmartType /\ TryAgain(x).at = "selecting"
           /\ Proper(TryAgain(x))
<1>1. x.attempt + 1 \in 1 .. SmartAttempts
  BY SmartAssumption DEF SmartAssumption, SmartType, HasMoreAttempts
<1>2. TryAgain(x) \in SmartType /\ TryAgain(x).at = "selecting" /\ TryAgain(x).passed = 0
  BY <1>1 DEF TryAgain, SmartType, SmartPlace
<1> QED BY <1>2 DEF Proper

LEMMA KeepFailureFacts ==
    ASSUME NEW x \in SmartType
    PROVE  /\ KeepFailure(x) \in SmartType /\ KeepFailure(x).passed = x.passed
           /\ KeepFailure(x).attempt = x.attempt
BY DEF KeepFailure, SmartType

LEMMA KeptResponseFacts ==
    ASSUME NEW x \in SmartType
    PROVE  LET y == [x EXCEPT !.kept = "response"]
           IN y \in SmartType /\ y.passed = x.passed /\ y.attempt = x.attempt
BY DEF SmartType

LEMMA PlacedSmart ==
    ASSUME NEW x \in SmartType, NEW p \in SmartPlace
    PROVE  LET y == [x EXCEPT !.at = p]
           IN /\ y \in SmartType /\ y.at = p /\ y.key = x.key
              /\ y.outcome = x.outcome /\ y.passed = x.passed
BY DEF SmartType

(* Only an attempt that nothing has reached the client of is tried again.  *)
LEMMA AfterAttemptFacts ==
    ASSUME NEW x \in SmartType, Proper(x), x.at \in {"keys", "upstream"}
    PROVE  /\ AfterAttempt(x) \in SmartType /\ AfterAttempt(x).at \in {"selecting", "done"}
           /\ Proper(AfterAttempt(x))
<1>1. x.passed <= 1 /\ (Retryable(x) => x.passed = 0)
  BY DEF Proper, Retryable
<1>2. CASE x.outcome = "ok"
  BY <1>1, <1>2, EndsAsFacts DEF AfterAttempt
<1>3. CASE x.outcome # "ok"
  <2> DEFINE y == IF x.stream \/ x.outcome = "transport" THEN KeepFailure(x)
                  ELSE [x EXCEPT !.kept = "response"]
  <2>1. y \in SmartType /\ y.passed = x.passed /\ y.attempt = x.attempt
    BY KeepFailureFacts, KeptResponseFacts
  <2>2. AfterAttempt(x) =
          IF Retryable(x) /\ HasMoreAttempts(x) THEN TryAgain(y) ELSE LeftoverOf(y)
    BY <1>3 DEF AfterAttempt, AfterFailure
  <2> HIDE DEF y
  <2>3. CASE Retryable(x) /\ HasMoreAttempts(x)
    <3>1. y.passed = 0 /\ HasMoreAttempts(y)
      BY <1>1, <2>1, <2>3 DEF HasMoreAttempts
    <3> QED BY <2>1, <2>2, <2>3, <3>1, TryAgainFacts
  <2>4. CASE ~(Retryable(x) /\ HasMoreAttempts(x))
    BY <1>1, <2>1, <2>2, <2>4, LeftoverOfFacts
  <2> QED BY <2>3, <2>4
<1> QED BY <1>2, <1>3

(***************************************************************************)
(* The steps of a client thread: what becomes of its record.               *)
(***************************************************************************)
Moving(r, x) ==
    x \in SmartType /\ Proper(x) /\ smart' = [smart EXCEPT ![r] = x]

LEMMA SmartFacts ==
    ASSUME SmartTypeOK, AllProper, NEW r \in SmartRequest
    PROVE  smart[r] \in SmartType /\ Proper(smart[r])
BY DEF SmartTypeOK, AllProper

LEMMA ReadSmartRequestMoves ==
    ASSUME SmartTypeOK, AllProper, NEW r \in SmartRequest, ReadSmartRequest(r)
    PROVE  \E x : Moving(r, x) /\ x.at = "selecting"
<1>1. PICK stream \in BOOLEAN :
        smart' = [smart EXCEPT ![r] = [smart[r] EXCEPT !.at = "selecting",
                                                      !.stream = stream]]
  BY DEF ReadSmartRequest, SmartBecomes
<1> DEFINE x == [smart[r] EXCEPT !.at = "selecting", !.stream = stream]
<1>2. smart[r] \in SmartType /\ smart[r].passed = 0
  BY SmartFacts DEF ReadSmartRequest, Proper
<1>3. x \in SmartType /\ x.at = "selecting" /\ x.passed = 0
  BY <1>2 DEF SmartType, SmartPlace
<1> HIDE DEF x
<1>4. Proper(x)
  BY <1>3 DEF Proper
<1> QED BY <1>1, <1>3, <1>4 DEF Moving, x

LEMMA LockUpstreamsMoves ==
    ASSUME SmartTypeOK, AllProper, NEW r \in SmartRequest, LockUpstreams(r)
    PROVE  \E x : Moving(r, x) /\ x.at = "choosing"
<1> DEFINE x == [smart[r] EXCEPT !.at = "choosing"]
<1>0. "choosing" \in SmartPlace
  BY DEF SmartPlace
<1>1. smart[r] \in SmartType /\ smart[r].passed = 0
  BY SmartFacts DEF LockUpstreams, Proper
<1>2. x \in SmartType /\ x.at = "choosing" /\ x.passed = 0
  BY <1>0, <1>1, PlacedSmart
<1>3. smart' = [smart EXCEPT ![r] = x]
  BY DEF LockUpstreams, SmartBecomes
<1> HIDE DEF x
<1>4. Proper(x)
  BY <1>2 DEF Proper
<1> QED BY <1>2, <1>3, <1>4 DEF Moving

LEMMA ChooseKeyMoves ==
    ASSUME SmartTypeOK, AllProper, NEW r \in SmartRequest, ChooseKey(r)
    PROVE  \E x : Moving(r, x) /\ x.at = "chosen" /\ x.key \in SmartKey \ keyCooling
<1>1. PICK k \in SmartKey :
        /\ k \in Selectable
        /\ smart' = [smart EXCEPT ![r] = [smart[r] EXCEPT !.at = "chosen", !.key = k]]
  BY DEF ChooseKey, SmartBecomes
<1> DEFINE x == [smart[r] EXCEPT !.at = "chosen", !.key = k]
<1>2. smart[r] \in SmartType /\ smart[r].passed = 0 /\ k \notin keyCooling
  BY <1>1, SmartFacts DEF ChooseKey, Proper, Selectable
<1>3. x \in SmartType /\ x.at = "chosen" /\ x.passed = 0 /\ x.key = k
  BY <1>2 DEF SmartType, SmartPlace
<1>4. smart' = [smart EXCEPT ![r] = x]
  BY <1>1
<1> HIDE DEF x
<1>5. Proper(x)
  BY <1>3 DEF Proper
<1> QED BY <1>2, <1>3, <1>4, <1>5 DEF Moving

LEMMA NothingToChooseMoves ==
    ASSUME SmartTypeOK, AllProper, NEW r \in SmartRequest, NothingToChoose(r)
    PROVE  \E x : Moving(r, x) /\ x.at = "done"
<1>1. smart[r] \in SmartType /\ smart[r].passed <= 1
  BY SmartFacts DEF Proper
<1>2. smart' = [smart EXCEPT ![r] = LeftoverOf(smart[r])]
  BY DEF NothingToChoose, SmartBecomes
<1> QED BY <1>1, <1>2, LeftoverOfFacts DEF Moving

LEMMA StartSmartMoves ==
    ASSUME SmartTypeOK, AllProper, NEW r \in SmartRequest, StartSmart(r)
    PROVE  \E x : Moving(r, x) /\ x.at = "sent" /\ x.key = smart[r].key
<1> DEFINE x == [smart[r] EXCEPT !.at = "sent"]
<1>0. "sent" \in SmartPlace
  BY DEF SmartPlace
<1>1. smart[r] \in SmartType /\ smart[r].passed = 0 /\ smart[r].key \in SmartKey
  BY SmartFacts DEF StartSmart, Proper
<1>2. x \in SmartType /\ x.at = "sent" /\ x.passed = 0 /\ x.key = smart[r].key
  BY <1>0, <1>1, PlacedSmart
<1>3. smart' = [smart EXCEPT ![r] = x]
  BY DEF StartSmart, SmartBecomes
<1> HIDE DEF x
<1>4. Proper(x)
  BY <1>1, <1>2 DEF Proper
<1> QED BY <1>2, <1>3, <1>4 DEF Moving

LEMMA FinishSmartMoves ==
    ASSUME SmartTypeOK, AllProper, NEW r \in SmartRequest, FinishSmart(r)
    PROVE  /\ \E x : Moving(r, x) /\ x.at \in {"received", "done"}
           /\ urlInFlight' = [urlInFlight EXCEPT ![UrlFor(r)] = urlInFlight[UrlFor(r)] - 1]
<1>1. PICK o \in Outcome, limited \in BOOLEAN :
        LET x == [smart[r] EXCEPT !.outcome = o, !.limited = limited,
                     !.passed = @ + (IF o \in {"ok", "incomplete"} THEN 1 ELSE 0)]
        IN /\ urlInFlight' = [urlInFlight EXCEPT ![UrlFor(r)] = PlaceLeft(@, o)]
           /\ SmartBecomes(r, IF o = "lost" THEN EndsAs(x, "gone")
                              ELSE [x EXCEPT !.at = "received"])
  BY DEF FinishSmart
<1>2. smart[r] \in SmartType /\ smart[r].passed = 0 /\ smart[r].key \in SmartKey
  BY SmartFacts DEF FinishSmart, Proper
<1> DEFINE n == IF o \in {"ok", "incomplete"} THEN 1 ELSE 0
           y == [smart[r] EXCEPT !.outcome = o, !.limited = limited, !.passed = n]
           x == IF o = "lost" THEN EndsAs(y, "gone") ELSE [y EXCEPT !.at = "received"]
<1>3. smart[r].passed + n = n /\ n \in Nat /\ n <= 1
  BY <1>2
<1>4. smart' = [smart EXCEPT ![r] = x]
  BY <1>1, <1>3 DEF SmartBecomes
<1> HIDE DEF n
<1>5. /\ y \in SmartType /\ y.outcome = o /\ y.key = smart[r].key /\ y.passed = n
  BY <1>2, <1>3 DEF SmartType
<1> HIDE DEF y
<1>6. CASE o = "lost"
  <2>1. x = EndsAs(y, "gone") /\ y.passed <= 1
    BY <1>3, <1>5, <1>6
  <2>2. x \in SmartType /\ Proper(x) /\ x.at = "done"
    BY <1>5, <2>1, EndsAsFacts
  <2> QED BY <1>1, <1>4, <2>2 DEF Moving, PlaceLeft
<1>7. CASE o # "lost"
  <2>0. "received" \in SmartPlace
    BY DEF SmartPlace
  <2>1. /\ x \in SmartType /\ x.at = "received" /\ x.key \in SmartKey
        /\ x.outcome = o /\ x.passed = n
    BY <1>2, <1>5, <1>7, <2>0, PlacedSmart
  <2> HIDE DEF x
  <2>2. Proper(x)
    BY <1>3, <2>1 DEF Proper, n
  <2> QED BY <1>1, <1>4, <2>1, <2>2 DEF Moving, PlaceLeft
<1> QED BY <1>6, <1>7

LEMMA ForgetAttemptMoves ==
    ASSUME SmartTypeOK, AllProper, NEW r \in SmartRequest, ForgetAttempt(r)
    PROVE  \E x : Moving(r, x) /\ x.at = "selecting"
<1> DEFINE y == [smart[r] EXCEPT !.stripped = TRUE]
<1>1. smart[r] \in SmartType /\ smart[r].passed = 0 /\ HasMoreAttempts(smart[r])
  BY SmartFacts DEF ForgetAttempt, Proper
<1>2. y \in SmartType /\ y.passed = 0 /\ y.attempt = smart[r].attempt
  BY <1>1 DEF SmartType
<1>3. smart' = [smart EXCEPT ![r] = TryAgain(KeepFailure(y))]
  BY DEF ForgetAttempt, SmartBecomes
<1> HIDE DEF y
<1>4. KeepFailure(y) \in SmartType /\ KeepFailure(y).passed = 0
      /\ HasMoreAttempts(KeepFailure(y))
  BY <1>1, <1>2, KeepFailureFacts DEF HasMoreAttempts
<1> QED BY <1>3, <1>4, TryAgainFacts DEF Moving

LEMMA LockDeploymentsMoves ==
    ASSUME SmartTypeOK, AllProper, NEW r \in SmartRequest, LockDeployments(r)
    PROVE  \E x : Moving(r, x) /\ x.at = "keys"
<1> DEFINE x == [smart[r] EXCEPT !.at = "keys"]
<1>0. "keys" \in SmartPlace
  BY DEF SmartPlace
<1>1. smart[r] \in SmartType /\ Proper(smart[r]) /\ smart[r].at = "received"
  BY SmartFacts DEF LockDeployments
<1>2. /\ x \in SmartType /\ x.at = "keys" /\ x.passed = smart[r].passed
      /\ x.key = smart[r].key /\ x.outcome = smart[r].outcome
  BY <1>0, <1>1, PlacedSmart
<1>3. smart' = [smart EXCEPT ![r] = x]
  BY DEF LockDeployments, SmartBecomes
<1> HIDE DEF x
<1>4. Proper(x)
  BY <1>1, <1>2 DEF Proper
<1> QED BY <1>2, <1>3, <1>4 DEF Moving

LEMMA UpdateKeysMoves ==
    ASSUME SmartTypeOK, AllProper, NEW r \in SmartRequest, UpdateKeys(r)
    PROVE  \E x : Moving(r, x) /\ x.at \in {"upstream", "selecting", "done"}
<1>1. smart[r] \in SmartType /\ Proper(smart[r]) /\ smart[r].at = "keys"
  BY SmartFacts DEF UpdateKeys
<1>2. CASE TouchesUpstream(smart[r])
  <2> DEFINE x == [smart[r] EXCEPT !.at = "upstream"]
  <2>0. "upstream" \in SmartPlace
    BY DEF SmartPlace
  <2>1. /\ x \in SmartType /\ x.at = "upstream" /\ x.passed = smart[r].passed
        /\ x.key = smart[r].key /\ x.outcome = smart[r].outcome
    BY <1>1, <2>0, PlacedSmart
  <2>2. smart' = [smart EXCEPT ![r] = x]
    BY <1>2 DEF UpdateKeys, SmartBecomes
  <2> HIDE DEF x
  <2>3. Proper(x)
    BY <1>1, <2>1 DEF Proper
  <2> QED BY <2>1, <2>2, <2>3 DEF Moving
<1>3. CASE ~TouchesUpstream(smart[r])
  <2>1. smart' = [smart EXCEPT ![r] = AfterAttempt(smart[r])]
    BY <1>3 DEF UpdateKeys, SmartBecomes
  <2> QED BY <1>1, <2>1, AfterAttemptFacts DEF Moving
<1> QED BY <1>2, <1>3

LEMMA UpdateUpstreamMoves ==
    ASSUME SmartTypeOK, AllProper, NEW r \in SmartRequest, UpdateUpstream(r)
    PROVE  \E x : Moving(r, x) /\ x.at \in {"selecting", "done"}
<1>1. smart[r] \in SmartType /\ Proper(smart[r]) /\ smart[r].at = "upstream"
  BY SmartFacts DEF UpdateUpstream
<1>2. smart' = [smart EXCEPT ![r] = AfterAttempt(smart[r])]
  BY DEF UpdateUpstream, SmartBecomes
<1> QED BY <1>1, <1>2, AfterAttemptFacts DEF Moving

(***************************************************************************)
(* The locks and the tables.                                               *)
(***************************************************************************)
HeldType == [upstreams : SmartRequest \cup {"viewer", NoOne},
             deployments : SmartRequest \cup {NoOne}]

(* To unlock gives back what the thread has and nothing else.              *)
LEMMA UnlockFacts ==
    ASSUME held \in HeldType, NEW t \in SmartRequest \cup {"viewer"}, Unlock(t)
    PROVE  /\ held' \in HeldType
           /\ held'.deployments = (IF held.deployments = t THEN NoOne ELSE held.deployments)
BY SmartAssumption DEF SmartAssumption, HeldType, Unlock

SmartTablesKept ==
    /\ held' \in HeldType
    /\ keyCooling' \subseteq SmartKey /\ urlCooling' \subseteq Url
    /\ urlInFlight' \in [Url -> Int]
    /\ rejectedBy' \subseteq SmartRequest \X SmartKey
    /\ RejectedCools'

(* Nobody else gets the lock of the keys or is rejected.                   *)
OthersKept(r) ==
    /\ \A q \in SmartRequest \ {r} : held'.deployments = q => held.deployments = q
    /\ \A q \in SmartRequest \ {r}, k \in SmartKey :
         <<q, k>> \in rejectedBy' => <<q, k>> \in rejectedBy

LEMMA SmartStepInv ==
    ASSUME SmartInv, NEW r \in SmartRequest, NEW x, Moving(r, x), SmartTablesKept,
           OthersKept(r), held'.deployments = r => x.at = "keys",
           x.at = "chosen" => <<r, x.key>> \notin rejectedBy'
    PROVE  SmartInv'
<1>1. SmartTypeOK /\ AllProper /\ LocksHeld /\ RejectedMoves
  BY DEF SmartInv
<1>2. /\ smart' \in [SmartRequest -> SmartType]
      /\ \A q \in SmartRequest : smart'[q] = IF q = r THEN x ELSE smart[q]
  BY <1>1 DEF Moving, SmartTypeOK
<1>3. SmartTypeOK'
  BY <1>2 DEF SmartTypeOK, SmartTablesKept, HeldType
<1>4. AllProper'
  BY <1>1, <1>2 DEF AllProper, Moving
<1>5. LocksHeld'
  BY <1>1, <1>2 DEF LocksHeld, OthersKept
<1>6. RejectedMoves'
  <2> SUFFICES ASSUME NEW q \in SmartRequest, smart'[q].at = "chosen"
               PROVE  <<q, smart'[q].key>> \notin rejectedBy'
    BY DEF RejectedMoves
  <2>1. CASE q = r
    BY <1>2, <2>1
  <2>2. CASE q # r
    <3>1. smart'[q] = smart[q] /\ smart[q].key \in SmartKey
      BY <1>1, <1>2, <2>2 DEF AllProper, Proper
    <3> QED BY <1>1, <2>2, <3>1 DEF RejectedMoves, OthersKept
  <2> QED BY <2>1, <2>2
<1> QED BY <1>3, <1>4, <1>5, <1>6 DEF SmartInv, SmartTablesKept

LEMMA InvFacts ==
    ASSUME SmartInv
    PROVE  /\ SmartTypeOK /\ AllProper /\ held \in HeldType /\ RejectedCools
           /\ \A r \in SmartRequest : smart[r].at # "keys" => held.deployments # r
           /\ \A r \in SmartRequest : r # NoOne
BY SmartAssumption DEF SmartAssumption, SmartInv, SmartTypeOK, HeldType, LocksHeld

(* The steps that leave the tables alone, but for the locks.               *)
LEMMA StepWithoutTablesInv ==
    ASSUME SmartInv, NEW r \in SmartRequest,
           \/ ReadSmartRequest(r) \/ LockUpstreams(r) \/ NothingToChoose(r)
           \/ ForgetAttempt(r)
    PROVE  SmartInv'
<1>1. PICK x : Moving(r, x) /\ x.at \in {"selecting", "choosing", "done"}
  BY InvFacts, ReadSmartRequestMoves, LockUpstreamsMoves, NothingToChooseMoves,
     ForgetAttemptMoves
<1>2. UNCHANGED <<keyCooling, rejectedBy, urlCooling, urlInFlight>>
  BY DEF ReadSmartRequest, LockUpstreams, NothingToChoose, ForgetAttempt, keyTable,
         urlTable
<1>3. smart[r].at # "keys"
  BY DEF ReadSmartRequest, LockUpstreams, NothingToChoose, ForgetAttempt
<1>4. held' \in HeldType /\ (held'.deployments = held.deployments
                             \/ held'.deployments = NoOne)
  <2>1. CASE LockUpstreams(r)
    BY <2>1, InvFacts DEF LockUpstreams, HeldType
  <2>2. CASE NothingToChoose(r)
    BY <2>2, InvFacts, UnlockFacts DEF NothingToChoose
  <2>3. CASE held' = held
    BY <2>3, InvFacts
  <2> QED BY <2>1, <2>2, <2>3 DEF ReadSmartRequest, ForgetAttempt
<1>5. SmartTablesKept
  BY <1>2, <1>4, InvFacts DEF SmartTablesKept, SmartTypeOK, RejectedCools
<1>6. OthersKept(r) /\ held'.deployments # r
  BY <1>2, <1>3, <1>4, InvFacts DEF OthersKept
<1> QED BY <1>1, <1>5, <1>6, SmartStepInv

LEMMA ChooseKeyInv ==
    ASSUME SmartInv, NEW r \in SmartRequest, ChooseKey(r)
    PROVE  SmartInv'
<1>1. PICK x : Moving(r, x) /\ x.at = "chosen" /\ x.key \in SmartKey \ keyCooling
  BY InvFacts, ChooseKeyMoves
<1>2. /\ UNCHANGED <<keyCooling, rejectedBy, urlCooling, urlInFlight>>
      /\ smart[r].at # "keys" /\ Unlock(r)
  BY DEF ChooseKey, keyTable, urlTable
<1>3. held' \in HeldType /\ (held'.deployments = held.deployments
                             \/ held'.deployments = NoOne)
  BY <1>2, InvFacts, UnlockFacts
<1>4. SmartTablesKept
  BY <1>2, <1>3, InvFacts DEF SmartTablesKept, SmartTypeOK, RejectedCools
<1>5. OthersKept(r) /\ held'.deployments # r
  BY <1>2, <1>3, InvFacts DEF OthersKept
<1>6. <<r, x.key>> \notin rejectedBy'
  BY <1>1, <1>2, InvFacts DEF RejectedCools
<1> QED BY <1>1, <1>4, <1>5, <1>6, SmartStepInv

LEMMA UrlOfType == \A k \in SmartKey : UrlOf[k] \in Url
BY SmartAssumption DEF SmartAssumption

LEMMA UpstreamStepInv ==
    ASSUME SmartInv, NEW r \in SmartRequest,
           StartSmart(r) \/ FinishSmart(r) \/ UpdateUpstream(r)
    PROVE  SmartInv'
<1>1. PICK x : Moving(r, x) /\ x.at \in {"sent", "received", "selecting", "done"}
  BY InvFacts, StartSmartMoves, FinishSmartMoves, UpdateUpstreamMoves
<1>2. UNCHANGED <<keyCooling, rejectedBy>> /\ smart[r].at # "keys"
  BY DEF StartSmart, FinishSmart, UpdateUpstream, keyTable
<1>3. UrlFor(r) \in Url
  BY InvFacts, UrlOfType
  DEF UrlFor, StartSmart, FinishSmart, UpdateUpstream, AllProper, Proper
<1>4. urlInFlight' \in [Url -> Int]
  <2>1. CASE StartSmart(r)
    BY <1>3, <2>1, InvFacts DEF StartSmart, SmartTypeOK
  <2>2. CASE FinishSmart(r)
    BY <1>3, <2>2, InvFacts, FinishSmartMoves DEF SmartTypeOK
  <2>3. CASE UpdateUpstream(r)
    BY <2>3, InvFacts DEF UpdateUpstream, SmartTypeOK
  <2> QED BY <2>1, <2>2, <2>3
<1>5. urlCooling' \subseteq Url
  BY <1>3, InvFacts DEF StartSmart, FinishSmart, UpdateUpstream, SmartTypeOK, UrlFor
<1>6. held' \in HeldType /\ (held'.deployments = held.deployments
                             \/ held'.deployments = NoOne)
  BY InvFacts, UnlockFacts DEF StartSmart, FinishSmart, UpdateUpstream
<1>7. SmartTablesKept
  BY <1>2, <1>4, <1>5, <1>6, InvFacts DEF SmartTablesKept, SmartTypeOK, RejectedCools
<1>8. OthersKept(r) /\ held'.deployments # r
  BY <1>2, <1>6, InvFacts DEF OthersKept
<1> QED BY <1>1, <1>7, <1>8, SmartStepInv

LEMMA LockDeploymentsInv ==
    ASSUME SmartInv, NEW r \in SmartRequest, LockDeployments(r)
    PROVE  SmartInv'
<1>1. PICK x : Moving(r, x) /\ x.at = "keys"
  BY InvFacts, LockDeploymentsMoves
<1>2. UNCHANGED <<keyCooling, rejectedBy, urlCooling, urlInFlight>>
  BY DEF LockDeployments, keyTable, urlTable
<1>3. held' \in HeldType /\ held'.deployments = r
  BY InvFacts DEF LockDeployments, HeldType
<1>4. SmartTablesKept
  BY <1>2, <1>3, InvFacts DEF SmartTablesKept, SmartTypeOK, RejectedCools
<1>5. OthersKept(r)
  BY <1>2, <1>3 DEF OthersKept
<1> QED BY <1>1, <1>4, <1>5, SmartStepInv

(* Whoever is rejected by a key cools it in the same step.                 *)
LEMMA UpdateKeysInv ==
    ASSUME SmartInv, NEW r \in SmartRequest, UpdateKeys(r)
    PROVE  SmartInv'
<1> DEFINE y == smart[r]
           hit == {<<r, k>> : k \in {j \in SmartKey :
                        j = y.key \/ (y.limited /\ UrlOf[j] = UrlOf[y.key])}}
<1>1. PICK x : Moving(r, x) /\ x.at \in {"upstream", "selecting", "done"}
  BY InvFacts, UpdateKeysMoves
<1>2. y.key \in SmartKey /\ y.at = "keys"
  BY InvFacts DEF UpdateKeys, AllProper, Proper
<1>3. keyCooling' = (IF y.outcome = "ok" THEN keyCooling \ {y.key}
                     ELSE keyCooling \cup CooledKeys(y))
      /\ rejectedBy' = (IF y.outcome = "ok" THEN {e \in rejectedBy : e[2] # y.key}
                        ELSE rejectedBy \cup hit)
      /\ UNCHANGED <<urlCooling, urlInFlight>>
  BY DEF UpdateKeys, urlTable
<1>4. CooledKeys(y) \subseteq SmartKey
      /\ \A k \in SmartKey : <<r, k>> \in hit => k \in CooledKeys(y)
  BY <1>2 DEF CooledKeys
<1>5. keyCooling' \subseteq SmartKey /\ rejectedBy' \subseteq SmartRequest \X SmartKey
  BY <1>3, <1>4, InvFacts DEF SmartTypeOK
<1>6. \A q \in SmartRequest \ {r}, k \in SmartKey :
        <<q, k>> \in rejectedBy' => <<q, k>> \in rejectedBy
  BY <1>3
<1>7. RejectedCools'
  <2> SUFFICES ASSUME NEW q \in SmartRequest, NEW k \in SmartKey, <<q, k>> \in rejectedBy'
               PROVE  k \in keyCooling'
    BY DEF RejectedCools
  <2>1. CASE y.outcome = "ok"
    BY <1>3, <2>1, InvFacts DEF RejectedCools
  <2>2. CASE y.outcome # "ok"
    <3>1. <<q, k>> \in rejectedBy \/ (q = r /\ <<r, k>> \in hit)
      BY <1>3, <2>2
    <3> HIDE DEF hit
    <3> QED BY <1>3, <1>4, <2>2, <3>1, InvFacts DEF RejectedCools
  <2> QED BY <2>1, <2>2
<1>8. held' \in HeldType /\ held'.deployments # r
      /\ (held'.deployments = held.deployments \/ held'.deployments = NoOne)
  BY InvFacts, UnlockFacts DEF UpdateKeys, DropDeployments
<1>9. SmartTablesKept
  BY <1>3, <1>5, <1>7, <1>8, InvFacts DEF SmartTablesKept, SmartTypeOK
<1>10. OthersKept(r)
  BY <1>6, <1>8, InvFacts DEF OthersKept
<1> QED BY <1>1, <1>8, <1>9, <1>10, SmartStepInv

-----------------------------------------------------------------------------
(* The window and time.                                                    *)

LEMMA ViewInv ==
    ASSUME SmartInv, LockForView \/ View
    PROVE  SmartInv'
<1>1. UNCHANGED <<smart, keyCooling, rejectedBy, urlCooling, urlInFlight>>
  BY DEF LockForView, View, keyTable, urlTable
<1>2. held' \in HeldType /\ (held'.deployments = held.deployments
                             \/ held'.deployments = NoOne)
  <2>1. CASE LockForView
    BY <2>1, InvFacts DEF LockForView, HeldType
  <2>2. CASE View
    BY <2>2, InvFacts, UnlockFacts DEF View
  <2> QED BY <2>1, <2>2
<1>3. SmartTypeOK'
  BY <1>1, <1>2, InvFacts DEF SmartTypeOK, HeldType
<1>4. LocksHeld'
  BY <1>1, <1>2, InvFacts DEF LocksHeld, SmartInv
<1> QED BY <1>1, <1>3, <1>4 DEF SmartInv, AllProper, RejectedCools, RejectedMoves

LEMMA SmartTimeInv ==
    ASSUME SmartInv,
           \/ \E k \in SmartKey : KeyCooldownEnds(k)
           \/ \E u \in Url : UrlCooldownEnds(u)
           \/ UNCHANGED smartVars
    PROVE  SmartInv'
<1>1. UNCHANGED <<smart, held, urlInFlight>>
  BY DEF KeyCooldownEnds, UrlCooldownEnds, smartVars, urlTable
<1>2. urlCooling' \subseteq Url
  BY InvFacts DEF KeyCooldownEnds, UrlCooldownEnds, smartVars, urlTable, SmartTypeOK
<1>3. AllProper' /\ LocksHeld'
  BY <1>1 DEF SmartInv, AllProper, LocksHeld
<1>4. CASE \E k \in SmartKey : KeyCooldownEnds(k)
  <2>1. PICK k \in SmartKey : keyCooling' = keyCooling \ {k}
                              /\ rejectedBy' = {e \in rejectedBy : e[2] # k}
    BY <1>4 DEF KeyCooldownEnds
  <2>2. SmartTypeOK'
    BY <1>1, <1>2, <2>1, InvFacts DEF SmartTypeOK
  <2>3. RejectedCools' /\ RejectedMoves'
    BY <1>1, <2>1 DEF SmartInv, RejectedCools, RejectedMoves
  <2> QED BY <1>3, <2>2, <2>3 DEF SmartInv
<1>5. CASE UNCHANGED <<keyCooling, rejectedBy>>
  <2>1. SmartTypeOK'
    BY <1>1, <1>2, <1>5, InvFacts DEF SmartTypeOK
  <2> QED BY <1>1, <1>3, <1>5, <2>1 DEF SmartInv, RejectedCools, RejectedMoves
<1> QED BY <1>4, <1>5 DEF UrlCooldownEnds, smartVars, keyTable

LEMMA SmartInitInv == SmartInit => SmartInv
<1> SUFFICES ASSUME SmartInit PROVE SmartInv
  OBVIOUS
<1>1. Proper(Fresh) /\ Fresh.at = "new"
  BY DEF Proper, Fresh
<1>2. SmartTypeOK
  BY FreshType, SmartAssumption DEF SmartAssumption, SmartInit, SmartTypeOK
<1>3. AllProper /\ RejectedCools /\ RejectedMoves
  BY <1>1 DEF SmartInit, AllProper, RejectedCools, RejectedMoves
<1>4. LocksHeld
  BY SmartAssumption DEF SmartAssumption, SmartInit, LocksHeld
<1> QED BY <1>2, <1>3, <1>4 DEF SmartInv

LEMMA SmartInvariance == SmartSpec => []SmartInv
<1>1. SmartInv /\ [SmartNext]_smartVars => SmartInv'
  BY StepWithoutTablesInv, ChooseKeyInv, UpstreamStepInv, LockDeploymentsInv, UpdateKeysInv,
     ViewInv, SmartTimeInv
  DEF SmartNext, SmartStep
<1> QED BY <1>1, SmartInitInv, PTL DEF SmartSpec

(***************************************************************************)
(* The places at the upstreams.                                            *)
(***************************************************************************)
SentTo(u) == {r \in SmartRequest : smart[r].at = "sent" /\ UrlFor(r) = u}

LEMMA SentFinite ==
    ASSUME NEW u \in Url
    PROVE  IsFiniteSet(SentTo(u)) /\ Cardinality(SentTo(u)) \in Nat
<1>1. IsFiniteSet(SentTo(u))
  BY SmartAssumption, FS_Subset DEF SmartAssumption, SentTo
<1> QED BY <1>1, FS_CardinalityType

LEMMA MovingFacts ==
    ASSUME SmartInv, NEW r \in SmartRequest, NEW x, Moving(r, x)
    PROVE  \A q \in SmartRequest : smart'[q] = IF q = r THEN x ELSE smart[q]
BY DEF Moving, SmartInv, SmartTypeOK

LEMMA QuietSent ==
    ASSUME SmartInv, UrlInFlightCounted, NEW r \in SmartRequest, SmartStep(r),
           ~StartSmart(r), ~FinishSmart(r)
    PROVE  UrlInFlightCounted'
<1>1. PICK x : Moving(r, x) /\ x.at # "sent"
  BY InvFacts, ReadSmartRequestMoves, LockUpstreamsMoves, ChooseKeyMoves,
     NothingToChooseMoves, ForgetAttemptMoves, LockDeploymentsMoves, UpdateKeysMoves,
     UpdateUpstreamMoves
  DEF SmartStep
<1>2. smart[r].at # "sent" /\ urlInFlight' = urlInFlight
  BY DEF SmartStep, ReadSmartRequest, LockUpstreams, ChooseKey, NothingToChoose,
         ForgetAttempt, LockDeployments, UpdateKeys, UpdateUpstream, urlTable
<1>3. \A u \in Url : SentTo(u)' = SentTo(u)
  BY <1>1, <1>2, MovingFacts DEF SentTo, UrlFor
<1> QED BY <1>2, <1>3 DEF UrlInFlightCounted, SentTo

LEMMA StartSent ==
    ASSUME SmartInv, UrlInFlightCounted, NEW r \in SmartRequest, StartSmart(r)
    PROVE  UrlInFlightCounted'
<1> DEFINE u == UrlFor(r)
<1>1. PICK x : Moving(r, x) /\ x.at = "sent" /\ x.key = smart[r].key
  BY InvFacts, StartSmartMoves
<1>2. \A q \in SmartRequest : smart'[q] = IF q = r THEN x ELSE smart[q]
  BY <1>1, MovingFacts
<1>3. smart[r].at = "chosen" /\ urlInFlight' = [urlInFlight EXCEPT ![u] = @ + 1]
  BY DEF StartSmart
<1> SUFFICES ASSUME NEW v \in Url
             PROVE  urlInFlight'[v] = Cardinality(SentTo(v)')
  BY DEF UrlInFlightCounted, SentTo
<1>4. urlInFlight[v] = Cardinality(SentTo(v))
  BY DEF UrlInFlightCounted, SentTo
<1>5. urlInFlight'[v] = IF v = u THEN urlInFlight[v] + 1 ELSE urlInFlight[v]
  BY <1>3, InvFacts DEF SmartTypeOK
<1>6. CASE v = u
  <2>1. SentTo(v)' = SentTo(v) \cup {r} /\ r \notin SentTo(v)
    BY <1>1, <1>2, <1>3, <1>6 DEF SentTo, UrlFor
  <2>2. IsFiniteSet(SentTo(v)) /\ Cardinality(SentTo(v)) \in Nat
    BY SentFinite
  <2>3. Cardinality(SentTo(v) \cup {r}) = Cardinality(SentTo(v)) + 1
    BY <2>1, <2>2, FS_AddElement
  <2>4. Cardinality(SentTo(v)') = Cardinality(SentTo(v)) + 1
    BY <2>1, <2>3
  <2> QED BY <1>4, <1>5, <1>6, <2>4
<1>7. CASE v # u
  <2>1. SentTo(v)' = SentTo(v)
    BY <1>1, <1>2, <1>3, <1>7 DEF SentTo, UrlFor
  <2> QED BY <1>4, <1>5, <1>7, <2>1
<1> QED BY <1>6, <1>7

LEMMA FinishSent ==
    ASSUME SmartInv, UrlInFlightCounted, NEW r \in SmartRequest, FinishSmart(r)
    PROVE  UrlInFlightCounted'
<1> DEFINE u == UrlFor(r)
<1>1. PICK x : Moving(r, x) /\ x.at \in {"received", "done"}
  BY InvFacts, FinishSmartMoves
<1>2. \A q \in SmartRequest : smart'[q] = IF q = r THEN x ELSE smart[q]
  BY <1>1, MovingFacts
<1>3. smart[r].at = "sent" /\ urlInFlight' = [urlInFlight EXCEPT ![u] = urlInFlight[u] - 1]
  BY InvFacts, FinishSmartMoves DEF FinishSmart
<1> SUFFICES ASSUME NEW v \in Url
             PROVE  urlInFlight'[v] = Cardinality(SentTo(v)')
  BY DEF UrlInFlightCounted, SentTo
<1>4. urlInFlight[v] = Cardinality(SentTo(v))
  BY DEF UrlInFlightCounted, SentTo
<1>5. urlInFlight'[v] = IF v = u THEN urlInFlight[v] - 1 ELSE urlInFlight[v]
  BY <1>3, InvFacts DEF SmartTypeOK
<1>6. CASE v = u
  <2>1. SentTo(v)' = SentTo(v) \ {r} /\ r \in SentTo(v)
    BY <1>1, <1>2, <1>3, <1>6 DEF SentTo, UrlFor
  <2>2. IsFiniteSet(SentTo(v)) /\ Cardinality(SentTo(v)) \in Nat
    BY SentFinite
  <2>3. Cardinality(SentTo(v) \ {r}) = Cardinality(SentTo(v)) - 1
    BY <2>1, <2>2, FS_RemoveElement
  <2>4. Cardinality(SentTo(v)') = Cardinality(SentTo(v)) - 1
    BY <2>1, <2>3
  <2> QED BY <1>4, <1>5, <1>6, <2>4
<1>7. CASE v # u
  <2>1. SentTo(v)' = SentTo(v)
    BY <1>1, <1>2, <1>3, <1>7 DEF SentTo, UrlFor
  <2> QED BY <1>4, <1>5, <1>7, <2>1
<1> QED BY <1>6, <1>7

LEMMA SentInit == SmartInit => UrlInFlightCounted
<1> SUFFICES ASSUME SmartInit, NEW u \in Url
             PROVE  urlInFlight[u] = Cardinality(SentTo(u))
  BY DEF UrlInFlightCounted, SentTo
<1>1. SentTo(u) = {} /\ urlInFlight[u] = 0
  BY DEF SmartInit, SentTo, Fresh
<1> QED BY <1>1, FS_EmptySet

(***************************************************************************)
(* The theorems.                                                           *)
(***************************************************************************)
(* The record of every request, the two locks, both cooldown tables and    *)
(* the counters of the LiteLLM proxy keep their types, whatever the number *)
(* of requests, keys and upstreams.                                        *)
THEOREM SmartTypeCorrect == SmartSpec => []SmartTypeOK
<1>1. SmartInv => SmartTypeOK
  BY DEF SmartInv
<1> QED BY <1>1, SmartInvariance, PTL

(* No two threads wait for each other's table: whoever holds the keys is   *)
(* about to give them back.                                                *)
THEOREM NeverCircularWait == SmartSpec => []NoCircularWait
<1>1. SmartInv => NoCircularWait
  BY DEF SmartInv, LocksHeld, NoCircularWait, WantsUpstreams
<1> QED BY <1>1, SmartInvariance, PTL

(* A request that the upstream rejected with one key is not sent with that *)
(* key again while the key cools down (update_deployment_result,           *)
(* select_deployment_rotated).                                             *)
THEOREM RejectedAlwaysMoves == SmartSpec => []RejectedMoves
<1>1. SmartInv => RejectedMoves
  BY DEF SmartInv
<1> QED BY <1>1, SmartInvariance, PTL

(* A client of the LiteLLM proxy gets parts of one answer only:            *)
(* handle_smart_proxy_client never passes a second response after it has   *)
(* begun to pass one.                                                      *)
THEOREM AnswersOnce == SmartSpec => []OneAnswer
<1>1. SmartInv => OneAnswer
  BY DEF SmartInv, AllProper, Proper, OneAnswer
<1> QED BY <1>1, SmartInvariance, PTL

(* The requests counted in flight at an upstream are those it works on, on *)
(* every way handle_smart_proxy_client takes out of an attempt.            *)
THEOREM UrlInFlightAlwaysCounted == SmartSpec => []UrlInFlightCounted
<1>1. SmartInv /\ UrlInFlightCounted /\ [SmartNext]_smartVars => UrlInFlightCounted'
  <2> SUFFICES ASSUME SmartInv, UrlInFlightCounted, [SmartNext]_smartVars
               PROVE  UrlInFlightCounted'
    OBVIOUS
  <2>1. ASSUME NEW r \in SmartRequest, SmartStep(r) PROVE UrlInFlightCounted'
    BY <2>1, QuietSent, StartSent, FinishSent
  <2>2. CASE UNCHANGED <<smart, urlInFlight>>
    BY <2>2 DEF UrlInFlightCounted, UrlFor
  <2> QED
    BY <2>1, <2>2
    DEF SmartNext, LockForView, View, KeyCooldownEnds, UrlCooldownEnds, smartVars, urlTable
<1> QED BY <1>1, SentInit, SmartInvariance, PTL DEF SmartSpec
=============================================================================
