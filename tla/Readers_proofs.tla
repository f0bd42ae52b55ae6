-------------------------- MODULE Readers_proofs --------------------------
(***************************************************************************)
(* The two readers of what arrives in pieces, SessionMonitor and           *)
(* SseTracker, for logs and streams of any length that are read at any     *)
(* time and cut anywhere.  What they make of the lines is defined by       *)
(* recursion, so the proofs are inductions over lines, told with sets.     *)
(***************************************************************************)
EXTENDS SessionMonitor, SseTracker, FiniteSetTheorems, WellFoundedInduction, TLAPS

-----------------------------------------------------------------------------
(* Induction over the natural numbers, for sets: the theorems of the       *)
(* library take a predicate, which cannot be given to them here.           *)

LEMMA Least ==
    ASSUME NEW T \in SUBSET Nat, T # {}
    PROVE  \E x \in T : \A y \in T : x <= y
<1> DEFINE R == OpToRel(<, Nat)
<1>1. IsWellFoundedOn(R, Nat)
  BY NatLessThanWellFounded
<1>2. \A x, y \in Nat : x < y => <<x, y>> \in R
  BY DEF OpToRel
<1>3. T \subseteq Nat
  OBVIOUS
<1> HIDE DEF R
<1>4. PICK x \in T : \A y \in T : ~ (<<y, x>> \in R)
  BY <1>1, <1>3, WFMin, Zenon
<1>5. \A y \in T : x \in Nat /\ y \in Nat /\ ~(y < x)
  BY <1>2, <1>3, <1>4
<1> QED
  BY <1>5

LEMMA SetInduction ==
    ASSUME NEW T \in SUBSET Nat, 0 \in T, \A n \in T : n + 1 \in T
    PROVE  T = Nat
<1> SUFFICES ASSUME Nat \ T # {} PROVE FALSE
  OBVIOUS
<1>1. PICK x \in Nat \ T : \A y \in Nat \ T : x <= y
  BY Least
<1>2. x # 0 /\ x - 1 \in Nat
  BY <1>1
<1>3. x - 1 \in T
  BY <1>1, <1>2
<1> QED
  BY <1>1, <1>2, <1>3

(* A function that is defined by recursion over 0 .. n exists.             *)
Steps(n, V) == [(1 .. n) \X V -> V]

Runs(n, V, v, Step) ==
    {f \in [0 .. n -> V] :
        \A k \in 0 .. n : f[k] = IF k = 0 THEN v ELSE Step[<<k, f[k - 1]>>]}

LEMMA Recursion ==
    ASSUME NEW n \in Nat, NEW V, NEW v \in V, NEW Step \in Steps(n, V)
    PROVE  Runs(n, V, v, Step) # {}
<1> DEFINE G(f, d) == \A k \in 0 .. d : f[k] = IF k = 0 THEN v ELSE Step[<<k, f[k - 1]>>]
           T == {d \in Nat : d <= n => \E f \in [0 .. d -> V] : G(f, d)}
<1>1. 0 \in T
  <2> DEFINE f == [k \in 0 .. 0 |-> v]
  <2>1. f \in [0 .. 0 -> V] /\ G(f, 0)
    OBVIOUS
  <2> HIDE DEF G
  <2> QED
    BY <2>1
<1>2. ASSUME NEW d \in T PROVE d + 1 \in T
  <2> SUFFICES ASSUME d + 1 <= n PROVE \E f \in [0 .. d + 1 -> V] : G(f, d + 1)
    OBVIOUS
  <2>1. d \in Nat /\ d <= n /\ d + 1 \in 1 .. n
    OBVIOUS
  <2>2. PICK f \in [0 .. d -> V] : G(f, d)
    <3> HIDE DEF G
    <3> QED
      BY <2>1
  <2> DEFINE last == Step[<<d + 1, f[d]>>]
             h == [k \in 0 .. d + 1 |-> IF k = d + 1 THEN last ELSE f[k]]
  <2>3. last \in V
    BY <2>1, <2>2 DEF Steps
  <2>4. h \in [0 .. d + 1 -> V]
    <3> HIDE DEF last
    <3> QED
      BY <2>1, <2>2, <2>3
  <2>5. ASSUME NEW k \in 0 .. d + 1
        PROVE  h[k] = IF k = 0 THEN v ELSE Step[<<k, h[k - 1]>>]
    <3>1. CASE k = d + 1
      <4>1. h[k] = last /\ k # 0 /\ k - 1 = d /\ h[k - 1] = f[d]
        BY <2>1, <3>1
      <4> QED
        BY <3>1, <4>1
    <3>2. CASE k # d + 1
      <4>1. k \in 0 .. d /\ (k # 0 => k - 1 \in 0 .. d) /\ h[k] = f[k]
            /\ (k # 0 => h[k - 1] = f[k - 1])
        BY <2>1, <3>2
      <4> QED
        BY <2>2, <4>1
    <3> QED
      BY <3>1, <3>2
  <2>6. G(h, d + 1)
    <3> HIDE DEF h
    <3> QED
      BY <2>4, <2>5
  <2> HIDE DEF G, h
  <2> QED
    BY <2>4, <2>6
<1>3. T = Nat
  <2> HIDE DEF T
  <2>1. T \in SUBSET Nat
    BY DEF T
  <2> QED
    BY <1>1, <1>2, <2>1, SetInduction
<1>4. \E f \in [0 .. n -> V] : G(f, n)
  <2> HIDE DEF G
  <2> QED
    BY <1>3
<1> QED
  BY <1>4 DEF Runs

(* What holds of its first value and is kept from each to the next.        *)
LEMMA RecursionKeeps ==
    ASSUME NEW n \in Nat, NEW f, NEW I, f[0] \in I[0],
           \A k \in 1 .. n : f[k - 1] \in I[k - 1] => f[k] \in I[k]
    PROVE  \A k \in 0 .. n : f[k] \in I[k]
<1> DEFINE T == {k \in Nat : k <= n => f[k] \in I[k]}
<1>1. 0 \in T
  OBVIOUS
<1>2. ASSUME NEW k \in T PROVE k + 1 \in T
  <2> SUFFICES ASSUME k + 1 <= n PROVE f[k + 1] \in I[k + 1]
    OBVIOUS
  <2>1. k + 1 \in 1 .. n /\ k + 1 - 1 = k /\ f[k] \in I[k]
    OBVIOUS
  <2> QED
    BY <2>1
<1>3. T = Nat
  <2> HIDE DEF T
  <2>1. T \in SUBSET Nat
    BY DEF T
  <2> QED
    BY <1>1, <1>2, <2>1, SetInduction
<1> QED
  BY <1>3

-----------------------------------------------------------------------------
(* SessionMonitor: reading lines.                                          *)

Monitor ==
    [path : {"none", "there", "gone"}, position : Nat,
     active : SUBSET (0 .. LogTurns), started : BOOLEAN,
     finished : BOOLEAN, waiting : BOOLEAN, messages : Nat, finals : Nat,
     messagesAtWait : Nat \cup {-1}, finalsAtWait : Nat \cup {-1},
     endOf : 0 .. LogTurns]

IsMessage(line) == line.turn > 0 /\ line.kind \in {"message", "final"}

(* What one line does to the monitor.                                      *)
LEMMA ObserveItemEffect ==
    ASSUME NEW m \in Monitor, NEW line \in LogLine
    PROVE  /\ ObserveItem(m, line) \in Monitor
           /\ ObserveItem(m, line).path = m.path
           /\ ObserveItem(m, line).messages =
                 IF IsMessage(line) THEN m.messages + 1 ELSE m.messages
<1>1. /\ line.turn \in 0 .. LogTurns /\ LogTurns \in Nat
      /\ line.kind \in {"started", "message", "final", "end"}
  BY MonitorAssumption DEF LogLine, MonitorAssumption
<1>2. CASE line.turn = 0
  BY <1>1, <1>2 DEF ObserveItem, IsMessage
<1>3. CASE line.turn # 0 /\ line.kind \in {"message", "final"}
  <2>1. ObserveItem(m, line) = CountMessage(m, line)
    BY <1>3 DEF ObserveItem
  <2> DEFINE finals == IF line.kind = "final" THEN m.finals + 1 ELSE m.finals
             messages == m.messages + 1
  <2>2. finals \in Nat /\ messages \in Nat
    BY DEF Monitor
  <2>3. CountMessage(m, line) = [m EXCEPT !.messages = messages, !.finals = finals]
    BY DEF CountMessage
  <2> HIDE DEF finals, messages
  <2>4. /\ CountMessage(m, line) \in Monitor /\ CountMessage(m, line).path = m.path
        /\ CountMessage(m, line).messages = messages
    BY <2>2, <2>3 DEF Monitor
  <2> QED
    BY <1>1, <1>3, <2>1, <2>4 DEF IsMessage, messages
<1>4. CASE line.turn # 0 /\ line.kind = "started"
  <2>1. ObserveItem(m, line) = BeginTurn(m, line)
    BY <1>4 DEF ObserveItem
  <2> DEFINE active == m.active \cup {IF driver = "codex" THEN line.turn ELSE 0}
  <2>2. active \in SUBSET (0 .. LogTurns)
    BY <1>1 DEF Monitor
  <2>3. BeginTurn(m, line) = [m EXCEPT !.active = active, !.started = TRUE]
    BY DEF BeginTurn
  <2> HIDE DEF active
  <2>4. /\ BeginTurn(m, line) \in Monitor /\ BeginTurn(m, line).path = m.path
        /\ BeginTurn(m, line).messages = m.messages
    BY <2>2, <2>3 DEF Monitor
  <2> QED
    BY <1>4, <2>1, <2>4 DEF IsMessage
<1>5. CASE line.turn # 0 /\ line.kind = "end"
  <2>1. ObserveItem(m, line) \in {m, EndTurn(m, line)}
    BY <1>5 DEF ObserveItem
  <2>2. PICK active \in SUBSET (0 .. LogTurns) :
          EndTurn(m, line) = [m EXCEPT !.active = active, !.finished = TRUE,
                                       !.waiting = FALSE, !.endOf = line.turn]
    BY <1>1 DEF EndTurn, Monitor
  <2>3. /\ EndTurn(m, line) \in Monitor /\ EndTurn(m, line).path = m.path
        /\ EndTurn(m, line).messages = m.messages
    BY <1>1, <2>2 DEF Monitor
  <2> QED
    BY <1>5, <2>1, <2>3 DEF IsMessage
<1> QED
  BY <1>1, <1>2, <1>3, <1>4, <1>5

(* What holds before the loop and is kept by each line holds after it.     *)
LEMMA ObserveItemsKeeps ==
    ASSUME NEW m \in Monitor, NEW lines \in Seq(LogLine), NEW I,
           m \in I[0],
           \A k \in 1 .. Len(lines) : \A x \in I[k - 1] \cap Monitor :
              ObserveItem(x, lines[k]) \in I[k]
    PROVE  ObserveItems(m, lines) \in I[Len(lines)] \cap Monitor
<1> DEFINE n == Len(lines)
           G(f) == f = [k \in 0 .. n |-> IF k = 0 THEN m
                                         ELSE ObserveItem(f[k - 1], lines[k])]
           Step == [p \in (1 .. n) \X Monitor |-> ObserveItem(p[2], lines[p[1]])]
           after == CHOOSE f : G(f)
           J == [k \in 0 .. n |-> I[k] \cap Monitor]
<1>1. n \in Nat
  OBVIOUS
<1>2. \A k \in 1 .. n : \A x \in Monitor : ObserveItem(x, lines[k]) \in Monitor
  <2> SUFFICES ASSUME NEW k \in 1 .. n, NEW x \in Monitor
               PROVE  ObserveItem(x, lines[k]) \in Monitor
    OBVIOUS
  <2>1. lines[k] \in LogLine
    OBVIOUS
  <2> QED
    BY <2>1, ObserveItemEffect
<1>3. Step \in Steps(n, Monitor)
  BY <1>2 DEF Steps
<1> HIDE DEF G
<1>4. G(after)
  <2> HIDE DEF Step
  <2>1. PICK f \in Runs(n, Monitor, m, Step) : TRUE
    BY <1>1, <1>3, Recursion
  <2>2. 0 \in 0 .. n /\ \A k \in 1 .. n : k - 1 \in 0 .. n /\ k \in 0 .. n /\ k # 0
    OBVIOUS
  <2>3. f \in [0 .. n -> Monitor] /\ f[0] = m
        /\ \A k \in 1 .. n : f[k - 1] \in Monitor /\ f[k] = Step[<<k, f[k - 1]>>]
    <3> HIDE DEF n
    <3> QED
      BY <1>1, <2>1, <2>2 DEF Runs
  <2>4. \A k \in 1 .. n : f[k] = ObserveItem(f[k - 1], lines[k])
    BY <2>3 DEF Step
  <2>5. G(f)
    BY <2>3, <2>4 DEF G
  <2> QED
    BY <2>5
<1>5. ObserveItems(m, lines) = after[n]
  BY Zenon DEF ObserveItems, G
<1> HIDE DEF after
<1>6. \A k \in 0 .. n : after[k] = IF k = 0 THEN m ELSE ObserveItem(after[k - 1], lines[k])
  BY <1>4 DEF G
<1>7. \A k \in 0 .. n : after[k] \in J[k]
  <2>1. after[0] \in J[0]
    BY <1>1, <1>6
  <2>2. ASSUME NEW k \in 1 .. n, after[k - 1] \in J[k - 1] PROVE after[k] \in J[k]
    <3>1. k - 1 \in 0 .. n /\ k \in 0 .. n /\ k # 0
      OBVIOUS
    <3>2. after[k - 1] \in I[k - 1] \cap Monitor
      BY <2>2, <3>1
    <3>3. after[k] = ObserveItem(after[k - 1], lines[k])
      BY <1>6, <3>1
    <3> QED
      BY <1>2, <3>1, <3>2, <3>3
  <2> HIDE DEF J
  <2> QED
    BY <1>1, <2>1, <2>2, RecursionKeeps
<1> QED
  BY <1>1, <1>5, <1>7

-----------------------------------------------------------------------------
(* SessionMonitor: the lines up to a place, and what is known of them.     *)

(* The turn of line k; before the first line it is none.                   *)
Turn(k) == IF k \in 1 .. Len(log) THEN log[k].turn ELSE 0

(* The messages among the first k lines.                                   *)
MessagesIn(k) == {i \in 1 .. k : IsMessage(log[i])}

(* Turns follow one another, and in the log of Codex a line says where the *)
(* next begins.                                                            *)
LogInv ==
    /\ log = <<>> => ending = "line"
    /\ \A i, j \in 1 .. Len(log) : i < j =>
          /\ log[i].turn <= log[j].turn
          /\ Codex /\ log[j].kind = "started" => log[i].turn < log[j].turn

(* Nothing is read beyond the end of a file that has only grown, and       *)
(* nothing of a file that was not found.                                   *)
Placed(m) ==
    /\ damage = "none" => m.path # "gone"
    /\ m.path = "none" => m.position = 0
    /\ damage # "cut" => m.position <= LogEnd

Counts(m) ==
    damage # "cut" =>
        /\ m.messages >= Cardinality(MessagesIn(LinesUpTo(m.position)))
        /\ damage = "none" => m.messages = Cardinality(MessagesIn(LinesUpTo(m.position)))

(* While a prompt waits, since being the last turn read when it went out:  *)
(* a turn has started only if a line of a later turn was read, and only    *)
(* then is the end of a turn taken for its end.                            *)
OpenAt(m, k, since) ==
    /\ since <= Turn(k)
    /\ m.started => since < Turn(k)
    /\ m.finished => m.started /\ since < m.endOf
    /\ ~m.waiting => m.started

(* After the wait was ended by the log.                                    *)
EndedAt(m, k, since) == since < Turn(k) /\ since < m.endOf

Follows(m, open, ended, since) ==
    Codex /\ damage = "none" =>
        /\ open => OpenAt(m, LinesUpTo(m.position), since)
        /\ ended => EndedAt(m, LinesUpTo(m.position), since)

MonitorInv ==
    /\ MonitorTypeOK /\ LogInv
    /\ Placed(monitor) /\ Counts(monitor)
    /\ Follows(monitor, wait.by = "open", wait.by = "log", wait.since)

(* The text that can be read consists of lines of the log.                 *)
LEMMA LogEndLines ==
    ASSUME log \in Seq(LogLine), ending \in {"part", "text", "line"}
    PROVE  /\ LogEnd \in Int /\ LogEnd <= 2 * Len(log)
           /\ LinesUpTo(LogEnd) <= Len(log)
           /\ ending = "line" => LogEnd = 2 * Len(log)
           /\ log # <<>> => LogEnd >= 0
<1>1. Len(log) \in Nat /\ (log # <<>> => Len(log) > 0)
  OBVIOUS
<1> QED
  BY <1>1 DEF LogEnd, LinesUpTo

LEMMA LinesUpToMonotone ==
    ASSUME NEW a \in Nat, NEW b \in Int, a <= b
    PROVE  /\ LinesUpTo(a) \in Nat /\ LinesUpTo(b) \in Nat
           /\ LinesUpTo(a) <= LinesUpTo(b)
BY DEF LinesUpTo

LEMMA CountedStep ==
    ASSUME NEW k \in Nat
    PROVE  /\ IsFiniteSet(MessagesIn(k)) /\ Cardinality(MessagesIn(k)) \in Nat
           /\ MessagesIn(0) = {} /\ Cardinality(MessagesIn(0)) = 0
           /\ Cardinality(MessagesIn(k + 1)) =
                 IF IsMessage(log[k + 1]) THEN Cardinality(MessagesIn(k)) + 1
                                          ELSE Cardinality(MessagesIn(k))
<1>1. IsFiniteSet(MessagesIn(k))
  <2>1. MessagesIn(k) \subseteq 1 .. k
    BY DEF MessagesIn
  <2> QED
    BY <2>1, FS_Interval, FS_Subset
<1>2. Cardinality(MessagesIn(k)) \in Nat
  BY <1>1, FS_CardinalityType
<1>3. MessagesIn(0) = {}
  BY DEF MessagesIn
<1>4. Cardinality(MessagesIn(0)) = 0
  BY <1>3, FS_EmptySet
<1>5. MessagesIn(k + 1) = IF IsMessage(log[k + 1]) THEN MessagesIn(k) \cup {k + 1} ELSE MessagesIn(k)
  BY DEF MessagesIn
<1>6. k + 1 \notin MessagesIn(k)
  BY DEF MessagesIn
<1>7. Cardinality(MessagesIn(k) \cup {k + 1}) = Cardinality(MessagesIn(k)) + 1
  BY <1>1, <1>6, FS_AddElement
<1> QED
  BY <1>1, <1>2, <1>3, <1>4, <1>5, <1>7

(* What the loop over the unread lines keeps, told by the lines of the log.*)
LEMMA ReadLinesKeeps ==
    ASSUME log \in Seq(LogLine), ending \in {"part", "text", "line"},
           NEW m \in Monitor, CanRead(m), NEW I,
           m \in I[LinesUpTo(m.position)],
           \A k \in LinesUpTo(m.position) + 1 .. LinesUpTo(LogEnd) :
              \A x \in I[k - 1] \cap Monitor : ObserveItem(x, log[k]) \in I[k]
    PROVE  \E x \in I[LinesUpTo(LogEnd)] \cap Monitor :
              ReadLines(m) = [x EXCEPT !.position = LogEnd]
<1> DEFINE a == LinesUpTo(m.position)
           b == LinesUpTo(LogEnd)
           lines == Unread(m)
           J == [k \in 0 .. Len(lines) |-> I[a + k]]
<1>1. m.position \in Nat /\ m.position <= LogEnd
  BY DEF CanRead, Monitor
<1>2. a \in Nat /\ b \in Nat /\ a <= b /\ b <= Len(log)
  BY <1>1, LogEndLines, LinesUpToMonotone
<1>3. /\ lines \in Seq(LogLine) /\ Len(lines) = b - a
      /\ \A k \in 1 .. Len(lines) : lines[k] = log[a + k]
  <2> HIDE DEF a, b
  <2>1. lines = SubSeq(log, a + 1, b)
    BY DEF Unread, a, b
  <2> HIDE DEF lines
  <2> QED
    BY <1>2, <2>1
<1>4. \A k \in a + 1 .. b : \A x \in I[k - 1] \cap Monitor : ObserveItem(x, log[k]) \in I[k]
  OBVIOUS
<1> HIDE DEF a, b, lines
<1>5. m \in J[0]
  BY <1>2, <1>3 DEF a
<1>6. ASSUME NEW k \in 1 .. Len(lines), NEW x \in J[k - 1] \cap Monitor
      PROVE  ObserveItem(x, lines[k]) \in J[k]
  <2>1. a + k \in a + 1 .. b /\ k - 1 \in 0 .. Len(lines) /\ k \in 0 .. Len(lines)
    BY <1>2, <1>3
  <2>2. J[k - 1] = I[a + k - 1] /\ J[k] = I[a + k] /\ lines[k] = log[a + k]
    BY <1>2, <1>3, <2>1
  <2>3. ObserveItem(x, log[a + k]) \in I[a + k]
    <3> HIDE DEF J
    <3>1. x \in I[(a + k) - 1] \cap Monitor
      BY <1>2, <2>1, <2>2
    <3> QED
      BY <1>4, <2>1, <3>1
  <2> QED
    BY <2>2, <2>3
<1>7. J[Len(lines)] = I[b]
  BY <1>2, <1>3
<1> HIDE DEF J
<1>8. ObserveItems(m, lines) \in I[b] \cap Monitor
  BY <1>3, <1>5, <1>6, <1>7, ObserveItemsKeeps
<1>9. ReadLines(m) = [ObserveItems(m, lines) EXCEPT !.position = LogEnd]
  BY DEF ReadLines, lines
<1> QED
  BY <1>8, <1>9 DEF b

(* Reading counts each message between the two places once.                *)
LEMMA ReadLinesCounts ==
    ASSUME log \in Seq(LogLine), ending \in {"part", "text", "line"},
           NEW m \in Monitor, CanRead(m)
    PROVE  /\ ReadLines(m) \in Monitor /\ ReadLines(m).path = m.path
           /\ ReadLines(m).position = LogEnd
           /\ ReadLines(m).messages = m.messages
                 + Cardinality(MessagesIn(LinesUpTo(LogEnd)))
                 - Cardinality(MessagesIn(LinesUpTo(m.position)))
<1> DEFINE a == LinesUpTo(m.position)
           b == LinesUpTo(LogEnd)
           C(k) == Cardinality(MessagesIn(k))
           I == [k \in a .. b |-> {x \in Monitor :
                     x.path = m.path /\ x.messages = m.messages + C(k) - C(a)}]
<1>1. m.position \in Nat /\ m.position <= LogEnd /\ m.messages \in Nat
  BY DEF CanRead, Monitor
<1>2. a \in Nat /\ b \in Nat /\ a <= b /\ b <= Len(log)
  BY <1>1, LogEndLines, LinesUpToMonotone
<1> HIDE DEF a, b
<1>3. \A k \in Nat : C(k) \in Nat
  BY CountedStep
<1>4. m \in I[a]
  <2>1. C(a) \in Nat /\ a \in a .. b
    BY <1>2, <1>3
  <2> HIDE DEF C
  <2>2. m.messages = m.messages + C(a) - C(a)
    BY <1>1, <2>1
  <2> QED
    BY <2>1, <2>2
<1>5. ASSUME NEW k \in a + 1 .. b, NEW x \in I[k - 1] \cap Monitor
      PROVE  ObserveItem(x, log[k]) \in I[k]
  <2>1. k - 1 \in Nat /\ k - 1 \in a .. b /\ k \in a .. b /\ k \in 1 .. Len(log)
        /\ k - 1 + 1 = k
    BY <1>2
  <2>2. log[k] \in LogLine
    BY <2>1
  <2>3. C(k) = IF IsMessage(log[k]) THEN C(k - 1) + 1 ELSE C(k - 1)
    BY <2>1, CountedStep
  <2> HIDE DEF C
  <2>4. x.path = m.path /\ x.messages = m.messages + C(k - 1) - C(a)
    BY <2>1
  <2>5. ObserveItem(x, log[k]) \in Monitor
        /\ ObserveItem(x, log[k]).path = m.path
        /\ ObserveItem(x, log[k]).messages =
              IF IsMessage(log[k]) THEN x.messages + 1 ELSE x.messages
    BY <2>2, <2>4, ObserveItemEffect
  <2>6. ObserveItem(x, log[k]).messages = m.messages + C(k) - C(a)
    <3>1. C(k) \in Nat /\ C(k - 1) \in Nat /\ C(a) \in Nat
      BY <1>2, <1>3, <2>1
    <3> QED
      BY <1>1, <2>3, <2>4, <2>5, <3>1
  <2> QED
    BY <2>1, <2>5, <2>6
<1> HIDE DEF I
<1>6. PICK x \in I[b] \cap Monitor : ReadLines(m) = [x EXCEPT !.position = LogEnd]
  BY <1>4, <1>5, ReadLinesKeeps DEF a, b
<1>7. x.path = m.path /\ x.messages = m.messages + C(b) - C(a)
  BY <1>2 DEF I
<1>8. LogEnd \in Nat
  BY <1>1, LogEndLines
<1> QED
  BY <1>6, <1>7, <1>8 DEF Monitor, a, b

LEMMA TurnSteps ==
    ASSUME LogInv, log \in Seq(LogLine), NEW k \in 1 .. Len(log)
    PROVE  /\ Turn(k) = log[k].turn /\ Turn(k) \in Nat /\ Turn(k - 1) \in Nat
           /\ Turn(k - 1) <= Turn(k)
           /\ Codex /\ log[k].kind = "started" /\ log[k].turn # 0 =>
                 Turn(k - 1) < Turn(k)
<1>1. \A i \in 1 .. Len(log) : log[i].turn \in Nat
  <2>1. \A i \in 1 .. Len(log) : log[i] \in LogLine
    OBVIOUS
  <2> QED
    BY <2>1, MonitorAssumption DEF LogLine, MonitorAssumption
<1>2. CASE k = 1
  BY <1>1, <1>2 DEF Turn
<1>3. CASE k # 1
  <2>1. k - 1 \in 1 .. Len(log) /\ k - 1 < k
    BY <1>3
  <2> QED
    BY <1>1, <2>1 DEF Turn, LogInv
<1> QED
  BY <1>2, <1>3

(* One line keeps what is known of a wait.                                 *)
LEMMA ObserveItemFollows ==
    ASSUME LogInv, Codex, log \in Seq(LogLine), NEW k \in 1 .. Len(log),
           NEW m \in Monitor, NEW since \in Nat
    PROVE  /\ OpenAt(m, k - 1, since) => OpenAt(ObserveItem(m, log[k]), k, since)
           /\ EndedAt(m, k - 1, since) => EndedAt(ObserveItem(m, log[k]), k, since)
<1> DEFINE line == log[k]
<1>1. /\ Turn(k) = line.turn /\ Turn(k) \in Nat /\ Turn(k - 1) \in Nat
      /\ Turn(k - 1) <= Turn(k)
      /\ line.kind = "started" /\ line.turn # 0 => Turn(k - 1) < Turn(k)
  BY TurnSteps
<1>2. line.kind \in {"started", "message", "final", "end"}
  <2>1. line \in LogLine
    OBVIOUS
  <2> QED
    BY <2>1 DEF LogLine
<1> HIDE DEF line
<1>3. CASE line.turn = 0
  <2>1. ObserveItem(m, line) = m
    BY <1>3 DEF ObserveItem
  <2> QED
    BY <1>1, <2>1 DEF OpenAt, EndedAt, line
<1>4. CASE line.turn # 0 /\ line.kind \in {"message", "final"}
  <2>1. ObserveItem(m, line) = CountMessage(m, line)
    BY <1>4 DEF ObserveItem
  <2>2. /\ CountMessage(m, line).started = m.started
        /\ CountMessage(m, line).finished = m.finished
        /\ CountMessage(m, line).waiting = m.waiting
        /\ CountMessage(m, line).endOf = m.endOf
    BY DEF CountMessage, Monitor
  <2> QED
    BY <1>1, <2>1, <2>2 DEF OpenAt, EndedAt, line
<1>5. CASE line.turn # 0 /\ line.kind = "started"
  <2>1. ObserveItem(m, line) = BeginTurn(m, line)
    BY <1>5 DEF ObserveItem
  <2>2. /\ BeginTurn(m, line).started
        /\ BeginTurn(m, line).finished = m.finished
        /\ BeginTurn(m, line).waiting = m.waiting
        /\ BeginTurn(m, line).endOf = m.endOf
    BY DEF BeginTurn, Monitor
  <2> QED
    BY <1>1, <1>5, <2>1, <2>2 DEF OpenAt, EndedAt, line
<1>6. CASE line.turn # 0 /\ line.kind = "end" /\ m.waiting /\ ~m.started
  <2>1. ObserveItem(m, line) = m
    BY <1>6 DEF ObserveItem
  <2> QED
    BY <1>1, <2>1 DEF OpenAt, EndedAt, line
<1>7. CASE line.turn # 0 /\ line.kind = "end" /\ ~(m.waiting /\ ~m.started)
  <2>1. ObserveItem(m, line) = EndTurn(m, line)
    BY <1>7 DEF ObserveItem
  <2>2. /\ EndTurn(m, line).started = m.started
        /\ EndTurn(m, line).finished
        /\ ~EndTurn(m, line).waiting
        /\ EndTurn(m, line).endOf = line.turn
    BY DEF EndTurn, Monitor
  <2> QED
    BY <1>1, <1>7, <2>1, <2>2 DEF OpenAt, EndedAt, line
<1> QED
  BY <1>2, <1>3, <1>4, <1>5, <1>6, <1>7

LEMMA ReadLinesFollows ==
    ASSUME LogInv, Codex, log \in Seq(LogLine), ending \in {"part", "text", "line"},
           NEW m \in Monitor, CanRead(m), NEW since \in Nat
    PROVE  LET a == LinesUpTo(m.position)
               b == LinesUpTo(LogEnd)
           IN  /\ OpenAt(m, a, since) => OpenAt(ReadLines(m), b, since)
               /\ EndedAt(m, a, since) => EndedAt(ReadLines(m), b, since)
<1> DEFINE a == LinesUpTo(m.position)
           b == LinesUpTo(LogEnd)
           I == [k \in a .. b |-> {x \in Monitor :
                     /\ OpenAt(m, a, since) => OpenAt(x, k, since)
                     /\ EndedAt(m, a, since) => EndedAt(x, k, since)}]
<1>1. m.position \in Nat /\ m.position <= LogEnd
  BY DEF CanRead, Monitor
<1>2. a \in Nat /\ b \in Nat /\ a <= b /\ b <= Len(log)
  BY <1>1, LogEndLines, LinesUpToMonotone
<1> HIDE DEF a, b
<1>3. m \in I[a]
  BY <1>2
<1>4. ASSUME NEW k \in a + 1 .. b, NEW x \in I[k - 1] \cap Monitor
      PROVE  ObserveItem(x, log[k]) \in I[k]
  <2>1. k - 1 \in a .. b /\ k \in a .. b /\ k \in 1 .. Len(log)
    BY <1>2
  <2>2. log[k] \in LogLine
    BY <2>1
  <2>3. ObserveItem(x, log[k]) \in Monitor
    BY <2>2, ObserveItemEffect
  <2>4. /\ OpenAt(m, a, since) => OpenAt(x, k - 1, since)
        /\ EndedAt(m, a, since) => EndedAt(x, k - 1, since)
    BY <2>1
  <2> QED
    BY <2>1, <2>3, <2>4, ObserveItemFollows
<1> HIDE DEF I
<1>5. PICK x \in I[b] \cap Monitor : ReadLines(m) = [x EXCEPT !.position = LogEnd]
  BY <1>3, <1>4, ReadLinesKeeps DEF a, b
<1>6. /\ OpenAt(m, a, since) => OpenAt(x, b, since)
      /\ EndedAt(m, a, since) => EndedAt(x, b, since)
  BY <1>2 DEF I
<1>7. /\ ReadLines(m).started = x.started /\ ReadLines(m).finished = x.finished
      /\ ReadLines(m).waiting = x.waiting /\ ReadLines(m).endOf = x.endOf
  BY <1>5 DEF Monitor
<1> QED
  BY <1>6, <1>7 DEF OpenAt, EndedAt, a, b

-----------------------------------------------------------------------------
(* SessionMonitor: a poll.                                                 *)

Known(m) == /\ m \in Monitor /\ Placed(m) /\ Counts(m)
            /\ Follows(m, wait.by = "open", wait.by = "log", wait.since)

LEMMA MonitorType == MonitorTypeOK <=>
    /\ driver \in {"codex", "nameless", "claude"}
    /\ log \in Seq(LogLine) /\ ending \in {"part", "text", "line"}
    /\ damage \in {"none", "moved", "cut"} /\ monitor \in Monitor
    /\ wait \in [by : {"unsent", "open", "log", "other"}, since : 0 .. LogTurns]
BY DEF MonitorTypeOK, Monitor

(* A file that is found is read from its start: unless it was read before, *)
(* at another place, nothing had been counted of it.                       *)
LEMMA OpenedKnown ==
    ASSUME MonitorInv, NEW found \in MayFind
    PROVE  Known(Opened(found))
<1>1. /\ monitor \in Monitor /\ Placed(monitor) /\ Counts(monitor)
      /\ Follows(monitor, wait.by = "open", wait.by = "log", wait.since)
      /\ monitor.path \in {"none", "there", "gone"}
      /\ monitor.position \in Nat /\ monitor.messages \in Nat
      /\ log \in Seq(LogLine) /\ ending \in {"part", "text", "line"}
  BY MonitorType DEF MonitorInv, Monitor
<1>2. found => log # <<>> /\ monitor.path # "there"
  BY DEF MayFind
<1> DEFINE m == AttachSessionFile(monitor, found)
<1>3. Known(m) /\ m \in Monitor
  <2>1. CASE ~found
    BY <1>1, <2>1 DEF AttachSessionFile, Known
  <2>2. CASE found
    <3>1. m = [monitor EXCEPT !.path = "there", !.position = 0]
      BY <2>2 DEF AttachSessionFile
    <3> HIDE DEF m
    <3>2. /\ m \in Monitor /\ m.path = "there" /\ m.position = 0
          /\ m.messages = monitor.messages
          /\ m.started = monitor.started /\ m.finished = monitor.finished
          /\ m.waiting = monitor.waiting /\ m.endOf = monitor.endOf
      BY <1>1, <3>1 DEF Monitor
    <3>3. damage = "none" => monitor.position = 0
      BY <1>1, <1>2, <2>2 DEF Placed
    <3>4. LogEnd >= 0
      BY <1>1, <1>2, <2>2, LogEndLines
    <3>5. Cardinality(MessagesIn(LinesUpTo(0))) = 0
      BY CountedStep DEF LinesUpTo
    <3>6. Placed(m)
      BY <3>2, <3>4 DEF Placed
    <3>7. Counts(m)
      BY <1>1, <3>2, <3>3, <3>5 DEF Counts
    <3>8. Follows(m, wait.by = "open", wait.by = "log", wait.since)
      BY <1>1, <3>2, <3>3 DEF Follows, OpenAt, EndedAt
    <3> QED
      BY <3>2, <3>6, <3>7, <3>8 DEF Known
  <2> QED
    BY <2>1, <2>2
<1> HIDE DEF m
<1>4. CASE m.path = "there" /\ Codex /\ m.position > LogEnd
  <2>1. Opened(found) = [m EXCEPT !.position = 0, !.active = {}]
    BY <1>4 DEF Opened, StartOver, m
  <2>2. damage = "cut"
    <3>1. LogEnd \in Int
      BY <1>1, LogEndLines
    <3> QED
      BY <1>3, <1>4, <3>1 DEF Known, Placed, Monitor
  <2> DEFINE o == Opened(found)
             none == {}
  <2>3. none \in SUBSET (0 .. LogTurns) /\ 0 \in Nat
    OBVIOUS
  <2>4. o = [m EXCEPT !.position = 0, !.active = none]
    BY <2>1
  <2> HIDE DEF o, none
  <2>5. o \in Monitor /\ o.path = m.path /\ o.position = 0
    BY <1>3, <2>3, <2>4 DEF Monitor
  <2>6. o \in Monitor /\ o.path # "none"
    BY <1>4, <2>5
  <2> QED
    BY <2>2, <2>5, <2>6 DEF Known, Placed, Counts, Follows, o
<1>5. CASE ~(m.path = "there" /\ Codex /\ m.position > LogEnd)
  <2>1. Opened(found) = m
    BY <1>5 DEF Opened, StartOver, m
  <2> QED
    BY <1>3, <2>1
<1> QED
  BY <1>4, <1>5

LEMMA ReadKnown ==
    ASSUME MonitorInv, NEW found \in MayFind
    PROVE  Known(ReadLines(Opened(found)))
<1> DEFINE m == Opened(found)
           r == ReadLines(m)
<1>1. Known(m) /\ m \in Monitor
  BY OpenedKnown DEF Known
<1>2. /\ log \in Seq(LogLine) /\ ending \in {"part", "text", "line"} /\ LogInv
      /\ wait.since \in Nat
  BY MonitorType, MonitorAssumption DEF MonitorInv, MonitorAssumption
<1> HIDE DEF m
<1>3. CASE ~CanRead(m)
  <2>1. r = m
    BY <1>3 DEF ReadLines
  <2> QED
    BY <1>1, <2>1 DEF m
<1>4. CASE CanRead(m)
  <2>1. /\ r \in Monitor /\ r.path = m.path /\ r.position = LogEnd
        /\ r.messages = m.messages + Cardinality(MessagesIn(LinesUpTo(LogEnd)))
                         - Cardinality(MessagesIn(LinesUpTo(m.position)))
    BY <1>1, <1>2, <1>4, ReadLinesCounts
  <2>2. Codex /\ wait.by = "open" /\ OpenAt(m, LinesUpTo(m.position), wait.since)
          => OpenAt(r, LinesUpTo(LogEnd), wait.since)
    BY <1>1, <1>2, <1>4, ReadLinesFollows
  <2>3. Codex /\ wait.by = "log" /\ EndedAt(m, LinesUpTo(m.position), wait.since)
          => EndedAt(r, LinesUpTo(LogEnd), wait.since)
    BY <1>1, <1>2, <1>4, ReadLinesFollows
  <2>4. m.path = "there" /\ m.messages \in Nat /\ m.position \in Nat
        /\ LogEnd \in Int /\ m.position <= LogEnd
    BY <1>1, <1>2, <1>4, LogEndLines DEF CanRead, Monitor
  <2>5. /\ Cardinality(MessagesIn(LinesUpTo(LogEnd))) \in Nat
        /\ Cardinality(MessagesIn(LinesUpTo(m.position))) \in Nat
    BY <2>4, LinesUpToMonotone, CountedStep
  <2> HIDE DEF r
  <2>6. Placed(r)
    BY <2>1, <2>4 DEF Placed
  <2>7. Counts(r)
    <3>1. Counts(m)
      BY <1>1 DEF Known
    <3> QED
      BY <2>1, <2>4, <2>5, <3>1 DEF Counts
  <2>8. Follows(r, wait.by = "open", wait.by = "log", wait.since)
    BY <1>1, <2>1, <2>2, <2>3 DEF Known, Follows
  <2>9. Known(r)
    BY <2>1, <2>6, <2>7, <2>8 DEF Known
  <2> QED
    BY <2>9 DEF r, m
<1> QED
  BY <1>3, <1>4

-----------------------------------------------------------------------------
(* SessionMonitor: the steps.                                              *)

Waits == [by : {"unsent", "open", "log", "other"}, since : 0 .. LogTurns]

LEMMA InitMonitorInv == MonitorInit => MonitorInv
<1> SUFFICES ASSUME MonitorInit PROVE MonitorInv
  OBVIOUS
<1>1. /\ driver \in {"codex", "nameless", "claude"} /\ ending = "line" /\ damage = "none"
      /\ monitor = NewMonitor /\ wait = [by |-> "unsent", since |-> 0]
      /\ LogTurns \in Nat
  BY MonitorAssumption DEF MonitorInit, MonitorAssumption
<1>2. log \in Seq(LogLine) /\ Len(log) <= 1
  <2> DEFINE line == [kind |-> IF Codex THEN "started" ELSE "message", turn |-> 0]
  <2>1. line \in LogLine
    BY <1>1 DEF LogLine
  <2>2. log = <<>> \/ log = <<line>>
    BY DEF MonitorInit
  <2> HIDE DEF line
  <2>3. CASE log = <<>>
    BY <2>3
  <2>4. CASE log = <<line>>
    <3>1. <<line>> \in Seq(LogLine)
      BY <2>1
    <3>2. Len(<<line>>) = 1
      OBVIOUS
    <3> QED
      BY <2>4, <3>1, <3>2
  <2> QED
    BY <2>2, <2>3, <2>4
<1>3. monitor \in Monitor
  BY <1>1 DEF NewMonitor, Monitor
<1>4. wait \in Waits
  BY <1>1 DEF Waits
<1>5. MonitorTypeOK
  BY <1>1, <1>2, <1>3, <1>4, MonitorType DEF Waits
<1>6. LogInv
  BY <1>1, <1>2 DEF LogInv
<1>7. monitor.position = 0 /\ monitor.messages = 0 /\ monitor.path = "none"
  BY <1>1 DEF NewMonitor
<1>8. Placed(monitor)
  <2>1. LogEnd = 2 * Len(log) /\ Len(log) \in Nat
    BY <1>1, <1>2 DEF LogEnd
  <2> QED
    BY <1>7, <2>1 DEF Placed
<1>9. Counts(monitor)
  <2>1. LinesUpTo(0) = 0 /\ Cardinality(MessagesIn(0)) = 0
    BY CountedStep DEF LinesUpTo
  <2> QED
    BY <1>7, <2>1 DEF Counts
<1>10. Follows(monitor, wait.by = "open", wait.by = "log", wait.since)
  BY <1>1 DEF Follows
<1> QED
  BY <1>5, <1>6, <1>8, <1>9, <1>10 DEF MonitorInv

(* A step that leaves the log alone.                                       *)
LEMMA MonitorStep ==
    ASSUME MonitorInv, UNCHANGED <<driver, log, ending, damage>>,
           NEW m, m \in Monitor, Placed(m), Counts(m), monitor' = m,
           NEW w \in Waits, wait' = w,
           Follows(m, w.by = "open", w.by = "log", w.since)
    PROVE  MonitorInv'
<1>1. MonitorTypeOK'
  BY MonitorType DEF MonitorInv, MonitorTypeOK, Monitor, Waits
<1>2. LogInv'
  BY DEF MonitorInv, LogInv, Codex
<1>3. Placed(monitor)'
  BY DEF Placed, LogEnd
<1>4. Counts(monitor)'
  BY DEF Counts, MessagesIn, LinesUpTo
<1>5. Follows(monitor, wait.by = "open", wait.by = "log", wait.since)'
  BY DEF Follows, OpenAt, EndedAt, Turn, LinesUpTo, Codex
<1> QED
  BY <1>1, <1>2, <1>3, <1>4, <1>5 DEF MonitorInv

LEMMA MarkTurnCompletedKeeps ==
    ASSUME NEW m \in Monitor
    PROVE  LET n == MarkTurnCompleted(m)
           IN  /\ n \in Monitor
               /\ n.path = m.path /\ n.position = m.position /\ n.messages = m.messages
               /\ n.endOf = m.endOf
<1> DEFINE none == {}
           n == MarkTurnCompleted(m)
<1>1. none \in SUBSET (0 .. LogTurns)
  OBVIOUS
<1>2. CASE Codex
  <2>1. n = [m EXCEPT !.active = none, !.finished = TRUE, !.waiting = FALSE]
    BY <1>2 DEF MarkTurnCompleted
  <2> HIDE DEF none, n
  <2>2. /\ n \in Monitor
        /\ n.path = m.path /\ n.position = m.position /\ n.messages = m.messages
        /\ n.endOf = m.endOf
    BY <1>1, <2>1 DEF Monitor
  <2> QED
    BY <2>2 DEF n
<1>3. CASE ~Codex
  BY <1>3 DEF MarkTurnCompleted
<1> QED
  BY <1>2, <1>3

LEMMA BeginWaitingKeeps ==
    ASSUME NEW m \in Monitor
    PROVE  LET n == BeginWaiting(m)
           IN  /\ n \in Monitor
               /\ n.path = m.path /\ n.position = m.position /\ n.messages = m.messages
               /\ Codex => n.waiting /\ ~n.started /\ ~n.finished
<1> DEFINE none == {}
           messages == m.messages
           finals == m.finals
           n == BeginWaiting(m)
<1>1. none \in SUBSET (0 .. LogTurns) /\ messages \in Nat \cup {-1} /\ finals \in Nat \cup {-1}
  BY DEF Monitor
<1>2. CASE Codex
  <2>1. n = [m EXCEPT !.waiting = TRUE, !.messagesAtWait = messages,
                      !.started = FALSE, !.finished = FALSE, !.active = none]
    BY <1>2 DEF BeginWaiting
  <2> HIDE DEF none, messages, n
  <2>2. /\ n \in Monitor
        /\ n.path = m.path /\ n.position = m.position /\ n.messages = m.messages
        /\ n.waiting /\ ~n.started /\ ~n.finished
    BY <1>1, <2>1 DEF Monitor
  <2> QED
    BY <2>2 DEF n
<1>3. CASE ~Codex
  <2>1. n = [m EXCEPT !.messagesAtWait = messages, !.finalsAtWait = finals]
    BY <1>3 DEF BeginWaiting
  <2> HIDE DEF messages, finals, n
  <2>2. /\ n \in Monitor
        /\ n.path = m.path /\ n.position = m.position /\ n.messages = m.messages
    BY <1>1, <2>1 DEF Monitor
  <2> QED
    BY <1>3, <2>2 DEF n
<1> QED
  BY <1>2, <1>3

(* What does not move the place in the log.                                *)
LEMMA SamePlace ==
    ASSUME NEW m, NEW n, Placed(m), Counts(m),
           n.path = m.path, n.position = m.position, n.messages = m.messages
    PROVE  Placed(n) /\ Counts(n)
BY DEF Placed, Counts

LEMMA WriteLineKeeps == MonitorInv /\ WriteLine => MonitorInv'
<1> SUFFICES ASSUME MonitorInv, WriteLine PROVE MonitorInv'
  OBVIOUS
<1>1. PICK line \in NextLines : log' = Append(log, line)
  BY DEF WriteLine
<1>2. /\ UNCHANGED <<driver, damage, monitor, wait>>
      /\ ending = "line" /\ ending' \in {"part", "text", "line"}
  BY DEF WriteLine
<1>3. /\ driver \in {"codex", "nameless", "claude"} /\ damage \in {"none", "moved", "cut"}
      /\ log \in Seq(LogLine) /\ monitor \in Monitor /\ wait \in Waits
      /\ monitor.position \in Nat /\ LogInv /\ Placed(monitor) /\ Counts(monitor)
      /\ Follows(monitor, wait.by = "open", wait.by = "log", wait.since)
  BY MonitorType DEF MonitorInv, Waits, Monitor
<1>4. line \in LogLine
  BY DEF NextLines
<1>5. /\ log' \in Seq(LogLine) /\ Len(log') = Len(log) + 1 /\ Len(log) \in Nat
      /\ log'[Len(log) + 1] = line
      /\ \A i \in 1 .. Len(log) : log'[i] = log[i]
  BY <1>1, <1>3, <1>4
<1>6. MonitorTypeOK'
  <2>1. monitor' \in Monitor /\ wait' \in Waits
    BY <1>2, <1>3
  <2> QED
    BY <1>2, <1>3, <1>5, <2>1 DEF MonitorTypeOK, Monitor, Waits
<1>7. LogInv'
  <2>1. log' # <<>>
    BY <1>5
  <2>2. ASSUME NEW i \in 1 .. Len(log)
        PROVE  log[i].turn <= line.turn
               /\ (Codex /\ line.kind = "started" => log[i].turn < line.turn)
    <3>1. \A j \in 1 .. Len(log) : log[j] \in LogLine
      BY <1>3
    <3>2. \A j \in 1 .. Len(log) : log[j].turn \in Nat
      BY <3>1, MonitorAssumption DEF LogLine, MonitorAssumption
    <3>3. LastTurn = log[Len(log)].turn /\ Len(log) \in 1 .. Len(log)
      BY <1>3 DEF LastTurn
    <3>4. log[i].turn <= LastTurn
      BY <1>3, <3>2, <3>3 DEF LogInv
    <3>5. \/ line.turn = LastTurn /\ (Codex => line.kind # "started")
          \/ line.turn = LastTurn + 1
      BY DEF NextLines
    <3> QED
      BY <3>2, <3>3, <3>4, <3>5
  <2>3. ASSUME NEW i \in 1 .. Len(log'), NEW j \in 1 .. Len(log'), i < j
        PROVE  log'[i].turn <= log'[j].turn
               /\ (Codex /\ log'[j].kind = "started" => log'[i].turn < log'[j].turn)
    <3>1. i \in 1 .. Len(log) /\ (j \in 1 .. Len(log) \/ j = Len(log) + 1)
      BY <1>5, <2>3
    <3> QED
      BY <1>3, <1>5, <2>2, <2>3, <3>1 DEF LogInv
  <2>4. Codex' = Codex
    BY <1>2 DEF Codex
  <2> QED
    BY <2>1, <2>3, <2>4 DEF LogInv
<1>8. damage # "cut" => LinesUpTo(monitor.position) \in 0 .. Len(log)
                        /\ monitor.position <= 2 * Len(log)
  <2>1. damage # "cut" => monitor.position <= 2 * Len(log)
    BY <1>2, <1>3, <1>5 DEF Placed, LogEnd
  <2> QED
    BY <1>3, <1>5, <2>1 DEF LinesUpTo
<1>9. Placed(monitor)'
  <2>1. LogEnd' >= 2 * Len(log) /\ LogEnd' \in Int
    BY <1>2, <1>5 DEF LogEnd
  <2> QED
    BY <1>2, <1>3, <1>5, <1>8, <2>1 DEF Placed
<1>10. Counts(monitor)'
  <2>1. ASSUME damage # "cut"
        PROVE  MessagesIn(LinesUpTo(monitor.position))' = MessagesIn(LinesUpTo(monitor.position))
    <3>1. LinesUpTo(monitor.position)' = LinesUpTo(monitor.position)
      BY <1>2 DEF LinesUpTo
    <3>2. \A i \in 1 .. LinesUpTo(monitor.position) : log'[i] = log[i]
      BY <1>5, <1>8, <2>1
    <3> QED
      BY <3>1, <3>2 DEF MessagesIn
  <2> QED
    BY <1>2, <1>3, <2>1 DEF Counts
<1>11. Follows(monitor, wait.by = "open", wait.by = "log", wait.since)'
  <2>1. ASSUME damage # "cut"
        PROVE  Turn(LinesUpTo(monitor.position))' = Turn(LinesUpTo(monitor.position))
    <3>1. LinesUpTo(monitor.position)' = LinesUpTo(monitor.position)
      BY <1>2 DEF LinesUpTo
    <3> DEFINE k == LinesUpTo(monitor.position)
    <3>2. k \in 0 .. Len(log)
      BY <1>8, <2>1
    <3> HIDE DEF k
    <3>3. (k \in 1 .. Len(log)) <=> (k \in 1 .. Len(log'))
      BY <1>5, <3>2
    <3> QED
      BY <1>5, <3>1, <3>2, <3>3 DEF Turn, k
  <2> QED
    BY <1>2, <1>3, <2>1 DEF Follows, OpenAt, EndedAt, Codex
<1> QED
  BY <1>6, <1>7, <1>9, <1>10, <1>11 DEF MonitorInv

LEMMA WriteRestKeeps == MonitorInv /\ WriteRest => MonitorInv'
<1> SUFFICES ASSUME MonitorInv, WriteRest PROVE MonitorInv'
  OBVIOUS
<1>1. /\ UNCHANGED <<driver, log, damage, monitor, wait>> /\ ending # "line"
      /\ ending' \in IF ending = "part" THEN {"text", "line"} ELSE {"line"}
  BY DEF WriteRest
<1>2. MonitorTypeOK'
  BY <1>1, MonitorType DEF MonitorInv, MonitorTypeOK, Monitor
<1>3. LogInv'
  BY <1>1 DEF MonitorInv, LogInv, Codex
<1>4. Placed(monitor)'
  <2>1. log \in Seq(LogLine) /\ ending \in {"part", "text", "line"} /\ monitor.position \in Nat
    BY MonitorType DEF MonitorInv, Monitor
  <2>2. LogEnd' >= LogEnd /\ LogEnd' \in Int /\ LogEnd \in Int
    BY <1>1, <2>1 DEF LogEnd
  <2> QED
    BY <1>1, <2>1, <2>2 DEF MonitorInv, Placed
<1>5. Counts(monitor)'
  BY <1>1 DEF MonitorInv, Counts, MessagesIn, LinesUpTo
<1>6. Follows(monitor, wait.by = "open", wait.by = "log", wait.since)'
  BY <1>1 DEF MonitorInv, Follows, OpenAt, EndedAt, Turn, LinesUpTo, Codex
<1> QED
  BY <1>2, <1>3, <1>4, <1>5, <1>6 DEF MonitorInv

LEMMA MoveLogKeeps == MonitorInv /\ MoveLog => MonitorInv'
<1> SUFFICES ASSUME MonitorInv, MoveLog PROVE MonitorInv'
  OBVIOUS
<1>1. /\ UNCHANGED <<driver, log, ending, wait>> /\ damage = "none" /\ damage' = "moved"
      /\ monitor' = [monitor EXCEPT !.path = "gone"]
  BY DEF MoveLog
<1>2. monitor \in Monitor /\ monitor.messages \in Nat
  BY MonitorType DEF MonitorInv, Monitor
<1>3. /\ monitor' \in Monitor /\ monitor'.path = "gone"
      /\ monitor'.position = monitor.position /\ monitor'.messages = monitor.messages
  BY <1>1, <1>2 DEF Monitor
<1>4. MonitorTypeOK'
  <2>1. /\ driver' \in {"codex", "nameless", "claude"} /\ log' \in Seq(LogLine)
        /\ ending' \in {"part", "text", "line"} /\ damage' \in {"none", "moved", "cut"}
        /\ wait' \in Waits
    BY <1>1, MonitorType DEF MonitorInv, Waits
  <2> QED
    BY <1>3, <2>1 DEF MonitorTypeOK, Monitor, Waits
<1>5. LogInv'
  BY <1>1 DEF MonitorInv, LogInv, Codex
<1>6. Placed(monitor)'
  BY <1>1, <1>3 DEF MonitorInv, Placed, LogEnd
<1>7. Counts(monitor)'
  <2>1. MessagesIn(LinesUpTo(monitor.position))' = MessagesIn(LinesUpTo(monitor.position))
    BY <1>1, <1>3 DEF MessagesIn, LinesUpTo
  <2>2. monitor.messages >= Cardinality(MessagesIn(LinesUpTo(monitor.position)))
    BY <1>1 DEF MonitorInv, Counts
  <2> QED
    BY <1>1, <1>3, <2>1, <2>2 DEF Counts
<1>8. Follows(monitor, wait.by = "open", wait.by = "log", wait.since)'
  BY <1>1 DEF Follows
<1> QED
  BY <1>4, <1>5, <1>6, <1>7, <1>8 DEF MonitorInv

LEMMA CutLogKeeps == MonitorInv /\ CutLog => MonitorInv'
<1> SUFFICES ASSUME MonitorInv, CutLog PROVE MonitorInv'
  OBVIOUS
<1>1. /\ UNCHANGED <<driver, monitor, wait>> /\ monitor.position > 0
      /\ log' = <<>> /\ ending' = "line" /\ damage' = "cut"
  BY DEF CutLog
<1>2. MonitorTypeOK'
  BY <1>1, MonitorType DEF MonitorInv, MonitorTypeOK, Monitor
<1>3. LogInv'
  BY <1>1 DEF LogInv
<1>4. Placed(monitor)'
  BY <1>1 DEF MonitorInv, Placed
<1>5. Counts(monitor)' /\ Follows(monitor, wait.by = "open", wait.by = "log", wait.since)'
  BY <1>1 DEF Counts, Follows
<1> QED
  BY <1>2, <1>3, <1>4, <1>5 DEF MonitorInv

LEMMA PollMonitorKeeps == MonitorInv /\ PollMonitor => MonitorInv'
<1> SUFFICES ASSUME MonitorInv, PollMonitor PROVE MonitorInv'
  OBVIOUS
<1>1. PICK found \in MayFind : monitor' = ReadLines(Opened(found))
  BY DEF PollMonitor
<1>2. UNCHANGED <<driver, log, ending, damage, wait>>
  BY DEF PollMonitor
<1> DEFINE r == ReadLines(Opened(found))
<1>3. Known(r)
  BY ReadKnown
<1>4. wait \in Waits
  BY MonitorType DEF MonitorInv, Waits
<1> HIDE DEF r
<1>5. monitor' = r
  BY <1>1 DEF r
<1> QED
  BY <1>2, <1>3, <1>4, <1>5, MonitorStep DEF Known

LEMMA IsIdleKeeps == MonitorInv /\ IsIdle => MonitorInv'
<1> SUFFICES ASSUME MonitorInv, IsIdle PROVE MonitorInv'
  OBVIOUS
<1>1. /\ UNCHANGED <<driver, log, ending, damage>> /\ wait.by = "open" /\ wait \in Waits
  BY MonitorType DEF MonitorInv, IsIdle, Awaiting, Waits
<1> DEFINE Read(found) == ReadLines(Opened(found))
           Ends(found) == {EndedBy(Read(found), Appended(Opened(found)), s, late) :
                              s \in Screen, late \in BOOLEAN}
           Result(x, end) ==
              /\ monitor' = IF end = "silence" THEN MarkTurnCompleted(x) ELSE x
              /\ wait' = IF end = "nothing" THEN wait
                         ELSE IF end = "log" THEN [wait EXCEPT !.by = "log"] ELSE Released
<1>2. \E found \in MayFind : \E end \in Ends(found) : Result(Read(found), end)
  BY DEF IsIdle
<1>3. PICK found \in MayFind : \E end \in Ends(found) : Result(Read(found), end)
  <2> HIDE DEF Read, Ends, Result
  <2> QED
    BY <1>2
<1>4. PICK end \in Ends(found) : Result(Read(found), end)
  <2> HIDE DEF Read, Ends, Result
  <2> QED
    BY <1>3
<1> DEFINE m == Read(found)
<1>5. Known(m)
  BY ReadKnown
<1>6. /\ end \in {"nothing", "log", "ready", "silence"}
      /\ end = "log" => HasCompletedMessage(m)
  <2> DEFINE appended == Appended(Opened(found))
  <2> HIDE DEF Read, m, appended
  <2>1. \E s \in Screen, late \in BOOLEAN : end = EndedBy(m, appended, s, late)
    BY DEF m, appended
  <2> QED
    BY <2>1 DEF EndedBy
<1>7. /\ monitor' = IF end = "silence" THEN MarkTurnCompleted(m) ELSE m
      /\ wait' = IF end = "nothing" THEN wait
                 ELSE IF end = "log" THEN [wait EXCEPT !.by = "log"] ELSE Released
  BY <1>4
<1>8. Released \in Waits /\ Released.by = "other"
  BY MonitorAssumption DEF Released, Waits, MonitorAssumption
<1> HIDE DEF m, Read, Result
<1>9. CASE end = "nothing"
  <2>1. monitor' = m /\ wait' = wait
    BY <1>7, <1>9
  <2> QED
    BY <1>1, <1>5, <2>1, MonitorStep DEF Known
<1>10. CASE end = "log"
  <2> DEFINE w == [wait EXCEPT !.by = "log"]
  <2>1. monitor' = m /\ wait' = w
    BY <1>7, <1>10
  <2>2. w \in Waits /\ w.by = "log" /\ w.since = wait.since
    BY <1>1 DEF Waits
  <2> HIDE DEF w
  <2>3. Codex => m.finished
    BY <1>6, <1>10 DEF HasCompletedMessage, LastTaskFinished
  <2>4. Follows(m, w.by = "open", w.by = "log", w.since)
    BY <1>1, <1>5, <2>2, <2>3 DEF Known, Follows, OpenAt, EndedAt
  <2> QED
    BY <1>1, <1>5, <2>1, <2>2, <2>4, MonitorStep DEF Known
<1>11. CASE end = "ready"
  <2>1. monitor' = m /\ wait' = Released
    BY <1>7, <1>11
  <2>2. Follows(m, Released.by = "open", Released.by = "log", Released.since)
    BY <1>8 DEF Follows
  <2> QED
    BY <1>1, <1>5, <1>8, <2>1, <2>2, MonitorStep DEF Known
<1>12. CASE end = "silence"
  <2> DEFINE n == MarkTurnCompleted(m)
  <2>1. monitor' = n /\ wait' = Released
    BY <1>7, <1>12
  <2>2. n \in Monitor /\ n.path = m.path /\ n.position = m.position /\ n.messages = m.messages
    BY <1>5, MarkTurnCompletedKeeps DEF Known
  <2> HIDE DEF n
  <2>3. Placed(n) /\ Counts(n)
    BY <1>5, <2>2, SamePlace DEF Known
  <2>4. Follows(n, Released.by = "open", Released.by = "log", Released.since)
    BY <1>8 DEF Follows
  <2> QED
    BY <1>1, <1>8, <2>1, <2>2, <2>3, <2>4, MonitorStep
<1> QED
  BY <1>6, <1>9, <1>10, <1>11, <1>12

LEMMA SendPromptKeeps == MonitorInv /\ SendPrompt => MonitorInv'
<1> SUFFICES ASSUME MonitorInv, SendPrompt PROVE MonitorInv'
  OBVIOUS
<1>1. UNCHANGED <<driver, log, ending, damage>>
  BY DEF SendPrompt
<1>2. PICK found \in MayFind :
        /\ monitor' = BeginWaiting(ReadLines(Opened(found)))
        /\ wait' = [by |-> "open", since |-> TurnRead(ReadLines(Opened(found)))]
  BY Zenon DEF SendPrompt
<1> DEFINE m == ReadLines(Opened(found))
           n == BeginWaiting(m)
           w == [by |-> "open", since |-> TurnRead(m)]
<1>3. Known(m)
  BY ReadKnown
<1>4. monitor' = n /\ wait' = w
  BY <1>2
<1> HIDE DEF m
<1>5. TurnRead(m) \in 0 .. LogTurns /\ TurnRead(m) = Turn(LinesUpTo(m.position))
  <2>1. \A k \in 1 .. Len(log) : log[k] \in LogLine
    BY MonitorType DEF MonitorInv
  <2> QED
    BY <2>1, MonitorAssumption DEF TurnRead, Turn, LogLine, MonitorAssumption
<1>6. w \in Waits /\ w.by = "open" /\ w.since = Turn(LinesUpTo(m.position)) /\ w.since \in Nat
  BY <1>5, MonitorAssumption DEF Waits, MonitorAssumption
<1>7. /\ n \in Monitor /\ n.path = m.path /\ n.position = m.position
      /\ n.messages = m.messages
      /\ Codex => n.waiting /\ ~n.started /\ ~n.finished
  BY <1>3, BeginWaitingKeeps DEF Known
<1> HIDE DEF n, w
<1>8. Placed(n) /\ Counts(n)
  BY <1>3, <1>7, SamePlace DEF Known
<1>9. Follows(n, w.by = "open", w.by = "log", w.since)
  BY <1>6, <1>7 DEF Follows, OpenAt
<1> QED
  BY <1>1, <1>4, <1>6, <1>7, <1>8, <1>9, MonitorStep

LEMMA MarkTurnFailedKeeps == MonitorInv /\ MarkTurnFailed => MonitorInv'
<1> SUFFICES ASSUME MonitorInv, MarkTurnFailed PROVE MonitorInv'
  OBVIOUS
<1> DEFINE n == MarkTurnCompleted(monitor)
           w == IF Awaiting THEN Released ELSE wait
<1>1. UNCHANGED <<driver, log, ending, damage>> /\ monitor' = n /\ wait' = w
  BY DEF MarkTurnFailed
<1>2. /\ monitor \in Monitor /\ wait \in Waits /\ Placed(monitor) /\ Counts(monitor)
      /\ Follows(monitor, wait.by = "open", wait.by = "log", wait.since)
  BY MonitorType DEF MonitorInv, Waits
<1>3. /\ n \in Monitor /\ n.path = monitor.path /\ n.position = monitor.position
      /\ n.messages = monitor.messages /\ n.endOf = monitor.endOf
  BY <1>2, MarkTurnCompletedKeeps
<1>4. /\ w \in Waits /\ w.by # "open"
      /\ w.by = "log" => wait.by = "log" /\ w.since = wait.since
  BY <1>2, MonitorAssumption DEF Awaiting, Released, Waits, MonitorAssumption
<1> HIDE DEF n, w
<1>5. Placed(n) /\ Counts(n)
  BY <1>2, <1>3, SamePlace
<1>6. Follows(n, w.by = "open", w.by = "log", w.since)
  BY <1>2, <1>3, <1>4 DEF Follows, EndedAt
<1> QED
  BY <1>1, <1>3, <1>4, <1>5, <1>6, MonitorStep

LEMMA MonitorInvariance == MonitorSpec => []MonitorInv
<1>1. MonitorInv /\ [MonitorNext]_monitorVars => MonitorInv'
  <2> SUFFICES ASSUME MonitorInv, [MonitorNext]_monitorVars PROVE MonitorInv'
    OBVIOUS
  <2>1. CASE UNCHANGED monitorVars
    <3>1. UNCHANGED <<driver, log, ending, damage>> /\ monitor' = monitor /\ wait' = wait
      BY <2>1 DEF monitorVars
    <3>2. monitor \in Monitor /\ wait \in Waits
      BY MonitorType DEF MonitorInv, Waits
    <3> QED
      BY <3>1, <3>2, MonitorStep DEF MonitorInv
  <2> QED
    BY <2>1, WriteLineKeeps, WriteRestKeeps, MoveLogKeeps, CutLogKeeps, PollMonitorKeeps,
       IsIdleKeeps, SendPromptKeeps, MarkTurnFailedKeeps DEF MonitorNext
<1> QED
  BY <1>1, InitMonitorInv, PTL DEF MonitorSpec

-----------------------------------------------------------------------------
(* SessionMonitor: the theorems.                                           *)

(* The log, the monitor and the wait keep their types, for a log of any    *)
(* length.                                                                 *)
THEOREM SpecMonitorTypeOK == MonitorSpec => []MonitorTypeOK
<1>1. MonitorInv => MonitorTypeOK
  BY DEF MonitorInv
<1> QED
  BY <1>1, MonitorInvariance, PTL

(* A wait that the log of Codex ends is ended by a turn that began after   *)
(* the prompt went out, whatever is read when: the reset of what the last  *)
(* turn left (begin_waiting) and the refusal of an end without a start     *)
(* (observe_item) are enough for that.                                     *)
THEOREM SpecEndOfNewTurn == MonitorSpec => []EndOfNewTurn
<1>1. MonitorInv => EndOfNewTurn
  <2> SUFFICES ASSUME MonitorInv, wait.by = "log", Codex, damage = "none"
               PROVE  monitor.endOf > wait.since
    BY DEF EndOfNewTurn
  <2>1. wait.since < monitor.endOf
    BY DEF MonitorInv, Follows, EndedAt
  <2>2. wait.since \in Int /\ monitor.endOf \in Int
    BY MonitorType DEF MonitorInv, Monitor
  <2> QED
    BY <2>1, <2>2
<1> QED
  BY <1>1, MonitorInvariance, PTL

(* The count of messages is exact for a file that only grows, and none is  *)
(* lost when the file is found again at another place, wherever in a line  *)
(* each poll finds the end of the text (poll).                             *)
THEOREM SpecCountExact == MonitorSpec => []CountExact
<1>1. MonitorInv => CountExact
  <2> SUFFICES ASSUME MonitorInv PROVE CountExact
    OBVIOUS
  <2>1. MessagesIn(LinesUpTo(monitor.position)) =
          {i \in 1 .. LinesUpTo(monitor.position) :
              log[i].turn > 0 /\ log[i].kind \in {"message", "final"}}
    BY DEF MessagesIn, IsMessage
  <2> QED
    BY <2>1 DEF MonitorInv, Counts, CountExact
<1> QED
  BY <1>1, MonitorInvariance, PTL

-----------------------------------------------------------------------------
(* SseTracker: what the first lines of a stream say.                       *)

Piece == [line : Line, piece : {1, 2}]

Tracker == [carry : Seq(Piece), terminal : {"pending", "completed", "failed"},
            event : EventName \cup {"none"}, data : Seq(DataText)]

SseOutcome == {"completed", "failed", "none"}

VerdictOf(S) == IF "failed" \in S THEN "failed"
              ELSE IF "completed" \in S THEN "completed" ELSE "pending"

(* What the events that have begun or come to their end by line n say.     *)
Said(n) ==
    {EventOutcome(sseLines[i].text) : i \in {j \in 1 .. Len(sseLines) :
                                               j <= n /\ sseLines[j].field = "event"}}
    \cup {DataOutcome(EventData(e), NameOf(e)) :
            e \in {f \in Events : f[2] <= n /\ EventData(f) # <<>>}}

(* The event at line n began after line b.                                 *)
Begins(b, n) == b \in 0 .. n /\ Blank(b) /\ \A j \in b + 1 .. n : ~Blank(j)

SoFar(t, n) ==
    /\ t.terminal = VerdictOf(Said(n))
    /\ \E b \in 0 .. n : /\ Begins(b, n)
                         /\ t.data = DataAfter(b)[n]
                         /\ t.event = NameOf(<<b, n + 1>>)

(* What is carried after k pieces.                                         *)
Carry(k) ==
    IF IsNewline(k) \/ LineOf(k).field = "blank" THEN <<>>
    ELSE IF k % 3 = 1 THEN <<[line |-> LineOf(k), piece |-> 1]>>
    ELSE Append(<<[line |-> LineOf(k), piece |-> 1]>>, [line |-> LineOf(k), piece |-> 2])

After(k) == {t \in Tracker : SoFar(t, k \div 3) /\ t.carry = Carry(k)}

SseInv ==
    /\ sseLines \in Seq(Line) /\ sseLines # <<>>
    /\ whole \in BOOLEAN /\ require \in BOOLEAN /\ sseEnded \in BOOLEAN
    /\ arrived \in 0 .. StreamLength /\ tracker \in Tracker
    /\ ~sseEnded => tracker \in After(arrived)
    /\ sseEnded => /\ arrived = StreamLength /\ tracker.carry = <<>>
                   /\ tracker.terminal = VerdictOf(Said(Len(sseLines) + 1))

LEMMA LineType ==
    ASSUME NEW l \in Line
    PROVE  /\ l.field \in {"event", "data", "blank", "ignored"}
           /\ l.field = "event" => l.text \in EventName
           /\ l.field = "data" => l.text \in DataText
           /\ l.field = "blank" => l = [field |-> "blank", text |-> ""]
BY DEF Line

LEMMA EventOutcomeType ==
    ASSUME NEW name PROVE EventOutcome(name) \in SseOutcome
BY DEF EventOutcome, SseOutcome

LEMMA DataOutcomeType ==
    ASSUME NEW data, NEW event PROVE DataOutcome(data, event) \in SseOutcome
<1> DEFINE json == Parsed(data)
<1>1. CASE json = "DONE"
  BY <1>1 DEF DataOutcome, SseOutcome
<1>2. CASE json = "invalid"
  BY <1>2 DEF DataOutcome, SseOutcome
<1>3. CASE json \notin {"DONE", "invalid"} /\ EventOutcome(json) # "none"
  BY <1>3 DEF DataOutcome, SseOutcome, EventOutcome
<1>4. CASE json \notin {"DONE", "invalid"} /\ EventOutcome(json) = "none"
  BY <1>4 DEF DataOutcome, SseOutcome, EventOutcome
<1> QED
  BY <1>1, <1>2, <1>3, <1>4

(* A failure is final, and nothing else is.                                *)
LEMMA SetTerminalVerdict ==
    ASSUME NEW t \in Tracker, NEW S, t.terminal = VerdictOf(S), NEW o \in SseOutcome
    PROVE  /\ SetTerminal(t, o) \in Tracker
           /\ SetTerminal(t, o).terminal = VerdictOf(S \cup {o})
           /\ SetTerminal(t, o).carry = t.carry
           /\ SetTerminal(t, o).event = t.event
           /\ SetTerminal(t, o).data = t.data
<1>1. CASE o = "none" \/ t.terminal = "failed"
  <2>1. SetTerminal(t, o) = t
    BY <1>1 DEF SetTerminal
  <2> QED
    BY <1>1, <2>1 DEF VerdictOf
<1>2. CASE o # "none" /\ t.terminal # "failed"
  <2>1. SetTerminal(t, o) = [t EXCEPT !.terminal = o]
    BY <1>2 DEF SetTerminal
  <2>2. /\ SetTerminal(t, o) \in Tracker
        /\ SetTerminal(t, o).terminal = o
        /\ SetTerminal(t, o).carry = t.carry
        /\ SetTerminal(t, o).event = t.event
        /\ SetTerminal(t, o).data = t.data
    BY <1>2, <2>1 DEF Tracker, SseOutcome
  <2>3. VerdictOf(S \cup {o}) = o
    BY <1>2 DEF VerdictOf, SseOutcome
  <2> QED
    BY <2>2, <2>3
<1> QED
  BY <1>1, <1>2

(* The texts of the data lines after line b.                               *)
LEMMA DataAfterStep ==
    ASSUME sseLines \in Seq(Line), NEW b \in Nat
    PROVE  /\ \A i \in 0 .. Len(sseLines) : i <= b => DataAfter(b)[i] = <<>>
           /\ \A i \in 0 .. Len(sseLines) : DataAfter(b)[i] \in Seq(DataText)
           /\ \A i \in 1 .. Len(sseLines) : i > b =>
                 DataAfter(b)[i] = IF sseLines[i].field = "data"
                                   THEN Append(DataAfter(b)[i - 1], sseLines[i].text)
                                   ELSE DataAfter(b)[i - 1]
<1> DEFINE N == Len(sseLines)
           V == Seq(DataText)
           G(f) == f = [i \in 0 .. N |->
                     IF i <= b THEN <<>>
                     ELSE IF sseLines[i].field = "data" THEN Append(f[i - 1], sseLines[i].text)
                     ELSE f[i - 1]]
           Next(i, x) == IF i <= b THEN <<>>
                         ELSE IF sseLines[i].field = "data" THEN Append(x, sseLines[i].text)
                         ELSE x
           Step == [p \in (1 .. N) \X V |-> Next(p[1], p[2])]
<1>1. N \in Nat /\ <<>> \in V
  OBVIOUS
<1>2. ASSUME NEW i \in 1 .. N, NEW x \in V PROVE Next(i, x) \in V
  <2>1. sseLines[i] \in Line
    OBVIOUS
  <2>2. sseLines[i].field = "data" => sseLines[i].text \in DataText
    BY <2>1, LineType
  <2> QED
    BY <2>2
<1>3. Step \in Steps(N, V)
  <2> HIDE DEF Next, V, N
  <2> QED
    BY <1>2 DEF Steps
<1>4. \E f : f \in [0 .. N -> V] /\ G(f)
  <2> HIDE DEF Step, V, N, G
  <2>1. PICK f \in Runs(N, V, <<>>, Step) : TRUE
    BY <1>1, <1>3, Recursion
  <2>2. ASSUME NEW k \in 0 .. N
        PROVE  f[k] = IF k = 0 THEN <<>> ELSE Next(k, f[k - 1])
    <3>1. CASE k = 0
      BY <2>1, <3>1 DEF Runs
    <3>2. CASE k # 0
      <4>1. k \in 1 .. N /\ k - 1 \in 0 .. N
        BY <1>1, <3>2
      <4>2. f[k - 1] \in V
        BY <2>1, <4>1 DEF Runs
      <4>3. Step[<<k, f[k - 1]>>] = Next(k, f[k - 1])
        <5> HIDE DEF Next
        <5> QED
          BY <4>1, <4>2 DEF Step
      <4> QED
        BY <2>1, <3>2, <4>3 DEF Runs
    <3> QED
      BY <3>1, <3>2
  <2>3. ASSUME NEW k \in 0 .. N PROVE f[k] = Next(k, f[k - 1])
    BY <1>1, <2>2, <2>3
  <2>4. f = [i \in 0 .. N |-> Next(i, f[i - 1])]
    <3> HIDE DEF Next
    <3> QED
      BY <2>1, <2>3 DEF Runs
  <2>5. G(f)
    BY <2>4 DEF G
  <2> QED
    BY <2>1, <2>5 DEF Runs
<1>5. G(DataAfter(b))
  <2>1. DataAfter(b) = CHOOSE f : G(f)
    BY Zenon DEF DataAfter
  <2> HIDE DEF G
  <2> QED
    BY <1>4, <2>1
<1> DEFINE data == DataAfter(b)
           I == [i \in 0 .. N |-> V]
<1>6. \A i \in 0 .. N : data[i] = Next(i, data[i - 1])
  BY <1>5
<1> HIDE DEF data, G
<1>7. \A i \in 0 .. N : data[i] \in I[i]
  <2>1. data[0] \in I[0]
    <3>1. 0 \in 0 .. N /\ Next(0, data[0 - 1]) = <<>>
      BY <1>1
    <3>2. data[0] = <<>>
      BY <1>6, <3>1
    <3> HIDE DEF V, N
    <3> QED
      BY <1>1, <3>1, <3>2
  <2>2. ASSUME NEW k \in 1 .. N, data[k - 1] \in I[k - 1] PROVE data[k] \in I[k]
    <3> HIDE DEF Next, V
    <3> QED
      BY <1>2, <1>6, <2>2
  <2> HIDE DEF I, V, N
  <2> QED
    BY <1>1, <2>1, <2>2, RecursionKeeps
<1>8. \A i \in 0 .. N : data[i] \in V
  <2> HIDE DEF V
  <2> QED
    BY <1>7
<1> QED
  BY <1>6, <1>8 DEF data

Names(b, n) == {i \in b + 1 .. n : sseLines[i].field = "event"}
LastOf(S) == CHOOSE i \in S : \A j \in S : j <= i

LEMMA NameIs ==
    ASSUME NEW b \in Nat, NEW n \in Nat
    PROVE  NameOf(<<b, n + 1>>) = IF Names(b, n) = {} THEN "none"
                                  ELSE sseLines[LastOf(Names(b, n))].text
<1> DEFINE e == <<b, n + 1>>
<1>1. e[1] + 1 = b + 1 /\ e[2] - 1 = n
  OBVIOUS
<1> HIDE DEF e
<1>2. NameOf(e) = IF Names(e[1], e[2] - 1) = {} THEN "none"
                  ELSE sseLines[LastOf(Names(e[1], e[2] - 1))].text
  BY Zenon DEF NameOf, Names, LastOf
<1>3. Names(e[1], e[2] - 1) = Names(b, n)
  BY <1>1 DEF Names
<1> QED
  BY <1>2, <1>3 DEF e

(* The name of an event is that of the last event line.                    *)
LEMMA NameStep ==
    ASSUME NEW b \in Nat, NEW n \in Nat, b <= n
    PROVE  /\ NameOf(<<b, b + 1>>) = "none"
           /\ NameOf(<<b, n + 1 + 1>>) = IF sseLines[n + 1].field = "event"
                                         THEN sseLines[n + 1].text
                                         ELSE NameOf(<<b, n + 1>>)
<1>1. Names(b, b) = {}
  BY DEF Names
<1>2. NameOf(<<b, b + 1>>) = "none"
  BY <1>1, NameIs
<1>3. CASE sseLines[n + 1].field = "event"
  <2>1. /\ n + 1 \in Names(b, n + 1)
        /\ \A j \in Names(b, n + 1) : j \in Nat /\ j <= n + 1
    BY <1>3 DEF Names
  <2>2. \E i \in Names(b, n + 1) : \A j \in Names(b, n + 1) : j <= i
    BY <2>1
  <2> DEFINE l == LastOf(Names(b, n + 1))
  <2>3. l \in Names(b, n + 1) /\ \A j \in Names(b, n + 1) : j <= l
    BY <2>2 DEF LastOf
  <2> HIDE DEF l
  <2>4. l = n + 1
    BY <2>1, <2>3
  <2>5. Names(b, n + 1) # {} /\ n + 1 \in Nat
    BY <2>1
  <2>6. NameOf(<<b, n + 1 + 1>>) = sseLines[LastOf(Names(b, n + 1))].text
    BY <2>5, NameIs
  <2> QED
    BY <1>2, <1>3, <2>4, <2>6 DEF l
<1>4. CASE sseLines[n + 1].field # "event"
  <2>1. Names(b, n + 1) = Names(b, n)
    BY <1>4 DEF Names
  <2>2. n + 1 \in Nat
    OBVIOUS
  <2>3. NameOf(<<b, n + 1 + 1>>) = IF Names(b, n + 1) = {} THEN "none"
                                   ELSE sseLines[LastOf(Names(b, n + 1))].text
    BY <2>2, NameIs
  <2>4. NameOf(<<b, n + 1>>) = IF Names(b, n) = {} THEN "none"
                               ELSE sseLines[LastOf(Names(b, n))].text
    BY NameIs
  <2> QED
    BY <1>2, <1>4, <2>1, <2>3, <2>4
<1> QED
  BY <1>3, <1>4

(* What one more line adds to what the lines say.                          *)
LEMMA SaidBlank ==
    ASSUME sseLines \in Seq(Line), NEW n \in 0 .. Len(sseLines), Blank(n + 1),
           NEW b, Begins(b, n)
    PROVE  Said(n + 1) =
              Said(n) \cup IF DataAfter(b)[n] = <<>> THEN {}
                           ELSE {DataOutcome(DataAfter(b)[n], NameOf(<<b, n + 1>>))}
<1> DEFINE e == <<b, n + 1>>
<1>1. b \in 0 .. n
  BY DEF Begins
<1>2. EventData(e) = DataAfter(b)[n]
  <2>1. e[1] = b /\ e[2] - 1 = n
    BY <1>1
  <2> HIDE DEF e
  <2> QED
    BY <2>1, Zenon DEF EventData
<1>3. \A f \in Events : f[2] <= n + 1 <=> f[2] <= n \/ f = e
  <2> SUFFICES ASSUME NEW f \in Events PROVE f[2] <= n + 1 <=> f[2] <= n \/ f = e
    OBVIOUS
  <2>1. /\ f = <<f[1], f[2]>> /\ f[1] \in 0 .. Len(sseLines) /\ f[2] \in 1 .. Len(sseLines) + 1
        /\ f[1] < f[2] /\ Blank(f[1]) /\ \A i \in f[1] + 1 .. f[2] - 1 : ~Blank(i)
    BY DEF Events
  <2>2. ASSUME f[2] = n + 1 PROVE f[1] = b
    <3>1. ~(f[1] < b)
      BY <1>1, <2>1, <2>2 DEF Begins
    <3>2. ~(b < f[1])
      BY <1>1, <2>1, <2>2 DEF Begins
    <3> QED
      BY <1>1, <2>1, <3>1, <3>2
  <2>3. f = e => f[2] = n + 1
    OBVIOUS
  <2> HIDE DEF e
  <2>4. f[2] = n + 1 => f = e
    BY <2>1, <2>2 DEF e
  <2> QED
    BY <2>1, <2>3, <2>4
<1>4. e \in Events
  <2>1. /\ e[1] = b /\ e[2] = n + 1 /\ e \in (0 .. Len(sseLines)) \X (1 .. Len(sseLines) + 1)
        /\ e[2] - 1 = n
    BY <1>1
  <2> HIDE DEF e
  <2> QED
    BY <1>1, <2>1 DEF Begins, Events
<1>5. \A j \in 1 .. Len(sseLines) :
         sseLines[j].field = "event" => (j <= n + 1 <=> j <= n)
  BY DEF Blank
<1> HIDE DEF e
<1>6. CASE DataAfter(b)[n] = <<>>
  <2>1. {f \in Events : f[2] <= n + 1 /\ EventData(f) # <<>>}
          = {f \in Events : f[2] <= n /\ EventData(f) # <<>>}
    BY <1>2, <1>3, <1>6
  <2>2. {j \in 1 .. Len(sseLines) : j <= n + 1 /\ sseLines[j].field = "event"}
          = {j \in 1 .. Len(sseLines) : j <= n /\ sseLines[j].field = "event"}
    BY <1>5
  <2>3. Said(n + 1) = Said(n)
    BY <2>1, <2>2 DEF Said
  <2> QED
    BY <1>6, <2>3
<1>7. CASE DataAfter(b)[n] # <<>>
  <2>1. {f \in Events : f[2] <= n + 1 /\ EventData(f) # <<>>}
          = {f \in Events : f[2] <= n /\ EventData(f) # <<>>} \cup {e}
    BY <1>2, <1>3, <1>4, <1>7
  <2>2. {j \in 1 .. Len(sseLines) : j <= n + 1 /\ sseLines[j].field = "event"}
          = {j \in 1 .. Len(sseLines) : j <= n /\ sseLines[j].field = "event"}
    BY <1>5
  <2>3. Said(n + 1) = Said(n) \cup {DataOutcome(EventData(e), NameOf(e))}
    BY <2>1, <2>2 DEF Said
  <2> QED
    BY <1>2, <1>7, <2>3 DEF e
<1> QED
  BY <1>6, <1>7

LEMMA SaidLine ==
    ASSUME sseLines \in Seq(Line), NEW n \in 0 .. Len(sseLines) - 1, ~Blank(n + 1)
    PROVE  Said(n + 1) =
              Said(n) \cup IF sseLines[n + 1].field = "event"
                           THEN {EventOutcome(sseLines[n + 1].text)} ELSE {}
<1> DEFINE E(k) == {f \in Events : f[2] <= k /\ EventData(f) # <<>>}
           L(k) == {j \in 1 .. Len(sseLines) : j <= k /\ sseLines[j].field = "event"}
<1>1. E(n + 1) = E(n)
  <2>1. \A f \in Events : f[2] \in Nat /\ f[2] # n + 1
    BY DEF Events
  <2> QED
    BY <2>1
<1>2. L(n + 1) = L(n) \cup IF sseLines[n + 1].field = "event" THEN {n + 1} ELSE {}
  OBVIOUS
<1>3. \A k : Said(k) = {EventOutcome(sseLines[i].text) : i \in L(k)}
                       \cup {DataOutcome(EventData(e), NameOf(e)) : e \in E(k)}
  BY DEF Said
<1> HIDE DEF E, L
<1> QED
  BY <1>1, <1>2, <1>3

-----------------------------------------------------------------------------
(* SseTracker: what the tracker makes of them.                             *)

(* A blank line, or the end of the stream, after line n.                   *)
LEMMA DispatchEventVerdict ==
    ASSUME sseLines \in Seq(Line), NEW n \in 0 .. Len(sseLines), Blank(n + 1),
           NEW t \in Tracker, SoFar(t, n)
    PROVE  /\ DispatchEvent(t) \in Tracker
           /\ DispatchEvent(t).terminal = VerdictOf(Said(n + 1))
           /\ DispatchEvent(t).carry = t.carry
           /\ DispatchEvent(t).data = <<>> /\ DispatchEvent(t).event = "none"
<1> DEFINE o == DataOutcome(t.data, t.event)
           told == IF t.data = <<>> THEN t ELSE SetTerminal(t, o)
           none == <<>>
<1>1. PICK b \in 0 .. n : /\ Begins(b, n) /\ t.data = DataAfter(b)[n]
                          /\ t.event = NameOf(<<b, n + 1>>)
  BY DEF SoFar
<1>2. t.terminal = VerdictOf(Said(n))
  BY DEF SoFar
<1>3. Said(n + 1) = Said(n) \cup IF t.data = <<>> THEN {} ELSE {o}
  BY <1>1, SaidBlank
<1>4. o \in SseOutcome
  BY DataOutcomeType
<1> HIDE DEF o
<1>5. told \in Tracker /\ told.carry = t.carry /\ told.terminal = VerdictOf(Said(n + 1))
  <2>1. CASE t.data = <<>>
    BY <1>2, <1>3, <2>1
  <2>2. CASE t.data # <<>>
    <3>1. told = SetTerminal(t, o) /\ Said(n + 1) = Said(n) \cup {o}
      BY <1>3, <2>2
    <3> QED
      BY <1>2, <1>4, <3>1, SetTerminalVerdict
  <2> QED
    BY <2>1, <2>2
<1>6. none \in Seq(DataText)
  OBVIOUS
<1>7. DispatchEvent(t) = [told EXCEPT !.data = none, !.event = "none"]
  BY DEF DispatchEvent, o
<1> HIDE DEF told, none
<1>8. /\ DispatchEvent(t) \in Tracker /\ DispatchEvent(t).terminal = told.terminal
      /\ DispatchEvent(t).carry = told.carry
      /\ DispatchEvent(t).data = none /\ DispatchEvent(t).event = "none"
  BY <1>5, <1>6, <1>7 DEF Tracker
<1> QED
  BY <1>5, <1>8 DEF none

LEMMA ObserveLineVerdict ==
    ASSUME sseLines \in Seq(Line), NEW n \in 0 .. Len(sseLines) - 1,
           NEW t \in Tracker, SoFar(t, n)
    PROVE  LET l == sseLines[n + 1]
           IN  /\ ObserveLine(t, l) \in Tracker
               /\ ObserveLine(t, l).carry = t.carry
               /\ SoFar(ObserveLine(t, l), n + 1)
<1> DEFINE l == sseLines[n + 1]
           r == ObserveLine(t, l)
<1>1. l \in Line /\ n + 1 \in 1 .. Len(sseLines)
  OBVIOUS
<1>2. /\ l.field \in {"event", "data", "blank", "ignored"}
      /\ l.field = "event" => l.text \in EventName
      /\ l.field = "data" => l.text \in DataText
  BY <1>1, LineType
<1>3. Blank(n + 1) <=> l.field = "blank"
  BY <1>1 DEF Blank
<1>4. PICK b \in 0 .. n : /\ Begins(b, n) /\ t.data = DataAfter(b)[n]
                          /\ t.event = NameOf(<<b, n + 1>>)
  BY DEF SoFar
<1>5. t.terminal = VerdictOf(Said(n))
  BY DEF SoFar
<1>6. l.field # "blank" => Begins(b, n + 1) /\ b \in 0 .. n + 1
  BY <1>3, <1>4 DEF Begins
<1>7. DataAfter(b)[n + 1] = IF l.field = "data" THEN Append(t.data, l.text) ELSE t.data
  BY <1>1, <1>4, DataAfterStep
<1>8. NameOf(<<b, n + 1 + 1>>) = IF l.field = "event" THEN l.text ELSE t.event
  <2>1. b \in Nat /\ n \in Nat /\ b <= n
    BY <1>4
  <2>2. NameOf(<<b, n + 1 + 1>>) = IF sseLines[n + 1].field = "event"
                                   THEN sseLines[n + 1].text ELSE NameOf(<<b, n + 1>>)
    BY <2>1, NameStep
  <2> QED
    BY <1>4, <2>2
<1>9. l.field # "blank" =>
        Said(n + 1) = Said(n) \cup IF l.field = "event" THEN {EventOutcome(l.text)} ELSE {}
  BY <1>3, SaidLine
<1> HIDE DEF l
<1>10. CASE l.field = "event"
  <2> DEFINE s == [t EXCEPT !.event = l.text]
             o == EventOutcome(l.text)
  <2>1. r = SetTerminal(s, o)
    BY <1>10 DEF ObserveLine
  <2>2. /\ s \in Tracker /\ s.terminal = t.terminal /\ s.carry = t.carry
        /\ s.data = t.data /\ s.event = l.text
    BY <1>2, <1>10 DEF Tracker
  <2>3. o \in SseOutcome
    BY EventOutcomeType
  <2> HIDE DEF s, o, r
  <2>4. /\ r \in Tracker /\ r.terminal = VerdictOf(Said(n) \cup {o})
        /\ r.carry = s.carry /\ r.event = s.event /\ r.data = s.data
    <3>1. s.terminal = VerdictOf(Said(n))
      BY <1>5, <2>2
    <3> QED
      BY <2>1, <2>2, <2>3, <3>1, SetTerminalVerdict
  <2>5. r.terminal = VerdictOf(Said(n + 1))
    BY <1>9, <1>10, <2>4 DEF o
  <2>6. SoFar(r, n + 1)
    BY <1>6, <1>7, <1>8, <1>10, <2>2, <2>4, <2>5 DEF SoFar
  <2> QED
    BY <2>2, <2>4, <2>6 DEF r, l
<1>11. CASE l.field = "data"
  <2> DEFINE data == Append(t.data, l.text)
  <2>1. r = [t EXCEPT !.data = data]
    BY <1>11 DEF ObserveLine
  <2>2. data \in Seq(DataText)
    BY <1>2, <1>11 DEF Tracker
  <2> HIDE DEF data, r
  <2>3. /\ r \in Tracker /\ r.terminal = t.terminal /\ r.carry = t.carry
        /\ r.data = data /\ r.event = t.event
    BY <2>1, <2>2 DEF Tracker
  <2>4. Said(n + 1) = Said(n)
    BY <1>9, <1>11
  <2>5. SoFar(r, n + 1)
    BY <1>5, <1>6, <1>7, <1>8, <1>11, <2>3, <2>4 DEF SoFar, data
  <2> QED
    BY <2>3, <2>5 DEF r, l
<1>12. CASE l.field = "blank"
  <2>1. r = DispatchEvent(t)
    BY <1>12 DEF ObserveLine
  <2>2. /\ r \in Tracker /\ r.terminal = VerdictOf(Said(n + 1)) /\ r.carry = t.carry
        /\ r.data = <<>> /\ r.event = "none"
    BY <1>1, <1>3, <1>12, <2>1, DispatchEventVerdict
  <2>3. Begins(n + 1, n + 1)
    BY <1>3, <1>12 DEF Begins
  <2>4. DataAfter(n + 1)[n + 1] = <<>>
    BY <1>1, DataAfterStep
  <2>5. NameOf(<<n + 1, n + 1 + 1>>) = "none"
    <3>1. n + 1 \in Nat /\ n + 1 <= n + 1
      OBVIOUS
    <3> QED
      BY <3>1, NameStep
  <2> HIDE DEF r
  <2>6. SoFar(r, n + 1)
    BY <2>2, <2>3, <2>4, <2>5 DEF SoFar
  <2> QED
    BY <2>2, <2>6 DEF r, l
<1>13. CASE l.field = "ignored"
  <2>1. r = t
    BY <1>13 DEF ObserveLine
  <2>2. Said(n + 1) = Said(n)
    BY <1>9, <1>13
  <2>3. SoFar(r, n + 1)
    BY <1>4, <1>5, <1>6, <1>7, <1>8, <1>13, <2>1, <2>2 DEF SoFar
  <2> QED
    BY <2>1, <2>3 DEF l
<1> QED
  BY <1>2, <1>10, <1>11, <1>12, <1>13

(* Whether a line is whole is seen at its newline.                         *)
LEMMA ObservePieceAfter ==
    ASSUME sseLines \in Seq(Line), NEW k \in 1 .. 3 * Len(sseLines), NEW t \in After(k - 1)
    PROVE  ObservePiece(t, k) \in After(k)
<1> DEFINE n == (k - 1) \div 3
           p == (k - 1) % 3
           l == sseLines[n + 1]
           r == ObservePiece(t, k)
<1>1. /\ n \in 0 .. Len(sseLines) - 1 /\ p \in {0, 1, 2}
      /\ k - 1 = 3 * n + p /\ n + 1 \in 1 .. Len(sseLines)
  OBVIOUS
<1>2. t \in Tracker /\ SoFar(t, n) /\ t.carry = Carry(k - 1)
  BY DEF After
<1>3. l \in Line /\ (l.field = "blank" => l = [field |-> "blank", text |-> ""])
  <2>1. l \in Line
    BY <1>1
  <2> HIDE DEF l
  <2> QED
    BY <2>1, LineType
<1> HIDE DEF n, p
<1>4. /\ (k + 2) \div 3 = n + 1
      /\ p = 0 => (k - 1) % 3 = 0 /\ k % 3 = 1 /\ k \div 3 = n
      /\ p = 1 => (k - 1 + 2) \div 3 = n + 1 /\ (k - 1) % 3 = 1 /\ k % 3 = 2 /\ k \div 3 = n
      /\ p = 2 => (k - 1 + 2) \div 3 = n + 1 /\ (k - 1) % 3 = 2 /\ k % 3 = 0
                  /\ k \div 3 = n + 1
  BY <1>1
<1>5. LineOf(k) = l /\ (p # 0 => LineOf(k - 1) = l)
  BY <1>1, <1>4 DEF LineOf
<1> DEFINE first == [line |-> l, piece |-> 1]
           second == [line |-> l, piece |-> 2]
<1>6. t.carry = IF p = 0 \/ l.field = "blank" THEN <<>>
                ELSE IF p = 1 THEN <<first>> ELSE Append(<<first>>, second)
  BY <1>1, <1>2, <1>4, <1>5 DEF Carry, IsNewline
<1> HIDE DEF l
<1>7. first \in Piece /\ second \in Piece
  BY <1>3 DEF Piece
<1>8. CASE p = 2
  <2> DEFINE none == <<>>
             s == [t EXCEPT !.carry = none]
  <2>1. CarriedLine(t.carry) = l
    <3>1. CASE l.field = "blank"
      <4>1. t.carry = <<>>
        BY <1>6, <3>1
      <4> QED
        BY <1>3, <3>1, <4>1 DEF CarriedLine
    <3>2. CASE l.field # "blank"
      <4>1. t.carry = Append(<<first>>, second) /\ <<first>> \in Seq(Piece)
        BY <1>6, <1>7, <1>8, <3>2
      <4>2. t.carry # <<>> /\ Len(t.carry) = 2 /\ t.carry[1] = first
        <5> HIDE DEF first, second
        <5> QED
          BY <1>7, <4>1
      <4> QED
        BY <4>2 DEF CarriedLine, first
    <3> QED
      BY <3>1, <3>2
  <2>2. r = ObserveLine(s, l)
    BY <1>4, <1>8, <2>1 DEF ObservePiece, IsNewline
  <2>3. none \in Seq(Piece)
    OBVIOUS
  <2> HIDE DEF none
  <2>4. /\ s \in Tracker /\ s.terminal = t.terminal /\ s.event = t.event /\ s.data = t.data
        /\ s.carry = none
    BY <1>2, <2>3 DEF Tracker
  <2> HIDE DEF s, r
  <2>5. SoFar(s, n)
    BY <1>2, <2>4 DEF SoFar
  <2>6. r \in Tracker /\ r.carry = none /\ SoFar(r, n + 1)
    BY <1>1, <2>2, <2>4, <2>5, ObserveLineVerdict DEF l
  <2>7. Carry(k) = none
    BY <1>4, <1>8 DEF Carry, IsNewline, none
  <2> QED
    BY <1>4, <1>8, <2>6, <2>7 DEF After, r
<1>9. CASE p # 2 /\ l.field = "blank"
  <2>1. r = t
    BY <1>1, <1>4, <1>5, <1>9 DEF ObservePiece, IsNewline
  <2>2. Carry(k) = <<>> /\ t.carry = <<>>
    BY <1>4, <1>5, <1>6, <1>9 DEF Carry
  <2>3. k \div 3 = n
    BY <1>1, <1>4, <1>9
  <2> QED
    BY <1>2, <2>1, <2>2, <2>3 DEF After
<1>10. CASE p # 2 /\ l.field # "blank"
  <2> DEFINE piece == [line |-> l, piece |-> k % 3]
             carry == Append(t.carry, piece)
  <2>1. r = [t EXCEPT !.carry = carry]
    BY <1>1, <1>4, <1>5, <1>10 DEF ObservePiece, IsNewline
  <2>2. carry = Carry(k)
    <3>1. CASE p = 0
      <4>1. piece = first /\ t.carry = <<>> /\ carry = <<first>>
        BY <1>4, <1>6, <3>1
      <4> QED
        BY <1>4, <1>5, <1>10, <3>1, <4>1 DEF Carry, IsNewline
    <3>2. CASE p = 1
      <4>1. piece = second
        BY <1>4, <3>2
      <4>2. t.carry = <<first>>
        BY <1>6, <1>10, <3>2
      <4>3. Carry(k) = Append(<<first>>, second)
        BY <1>4, <1>5, <1>10, <3>2 DEF Carry, IsNewline
      <4> HIDE DEF first, second, piece
      <4> QED
        BY <4>1, <4>2, <4>3
    <3> QED
      BY <1>1, <1>10, <3>1, <3>2
  <2>3. carry \in Seq(Piece)
    <3>1. piece \in Piece
      BY <1>1, <1>3, <1>4, <1>10 DEF Piece
    <3> HIDE DEF piece
    <3> QED
      BY <1>2, <3>1 DEF Tracker
  <2> HIDE DEF carry, r
  <2>4. /\ r \in Tracker /\ r.terminal = t.terminal /\ r.event = t.event /\ r.data = t.data
        /\ r.carry = carry
    BY <1>2, <2>1, <2>3 DEF Tracker
  <2>5. SoFar(r, n)
    BY <1>2, <2>4 DEF SoFar
  <2>6. k \div 3 = n
    BY <1>1, <1>4, <1>10
  <2> QED
    BY <2>2, <2>4, <2>5, <2>6 DEF After, r
<1> QED
  BY <1>8, <1>9, <1>10

LEMMA ObserveAfter ==
    ASSUME sseLines \in Seq(Line), arrived \in Nat, NEW n \in Nat,
           arrived + n <= 3 * Len(sseLines), NEW t \in After(arrived)
    PROVE  Observe(t, n) \in After(arrived + n)
<1> DEFINE G(f) == f = [k \in 0 .. n |-> IF k = 0 THEN t
                                         ELSE ObservePiece(f[k - 1], arrived + k)]
           I == [k \in 0 .. n |-> After(arrived + k)]
           Next(k, x) == IF x \in After(arrived + k - 1) THEN ObservePiece(x, arrived + k) ELSE x
           Step == [p \in (1 .. n) \X Tracker |-> Next(p[1], p[2])]
<1>1. ASSUME NEW k \in 1 .. n, NEW x \in After(arrived + k - 1)
      PROVE  ObservePiece(x, arrived + k) \in After(arrived + k)
  <2> DEFINE m == arrived + k
  <2>1. m \in 1 .. 3 * Len(sseLines)
    OBVIOUS
  <2> HIDE DEF m
  <2>2. x \in After(m - 1)
    BY DEF m
  <2>3. ObservePiece(x, m) \in After(m)
    BY <2>1, <2>2, ObservePieceAfter
  <2> QED
    BY <2>3 DEF m
<1>2. t \in Tracker /\ \A k, x : x \in After(k) => x \in Tracker
  BY DEF After
<1>3. Step \in Steps(n, Tracker)
  <2>1. ASSUME NEW k \in 1 .. n, NEW x \in Tracker PROVE Next(k, x) \in Tracker
    BY <1>1, <1>2
  <2> HIDE DEF Next
  <2> QED
    BY <2>1 DEF Steps
<1> HIDE DEF Step, G
<1>4. PICK f \in Runs(n, Tracker, t, Step) : TRUE
  BY <1>2, <1>3, Recursion
<1>5. \A k \in 1 .. n : f[k - 1] \in Tracker /\ f[k] = Next(k, f[k - 1])
  <2> SUFFICES ASSUME NEW k \in 1 .. n
               PROVE  f[k - 1] \in Tracker /\ f[k] = Next(k, f[k - 1])
    OBVIOUS
  <2>1. k - 1 \in 0 .. n /\ k \in 0 .. n /\ k # 0
    OBVIOUS
  <2>2. f[k - 1] \in Tracker /\ f[k] = Step[<<k, f[k - 1]>>]
    BY <1>4, <2>1 DEF Runs
  <2> HIDE DEF Next
  <2> QED
    BY <2>2 DEF Step
<1>6. f[0] = t /\ f \in [0 .. n -> Tracker]
  <2>1. 0 \in 0 .. n
    OBVIOUS
  <2> QED
    BY <1>4, <2>1 DEF Runs
<1>7. \A k \in 0 .. n : f[k] \in I[k]
  <2>1. f[0] \in I[0]
    BY <1>6
  <2>2. ASSUME NEW k \in 1 .. n, f[k - 1] \in I[k - 1] PROVE f[k] \in I[k]
    <3>1. k - 1 \in 0 .. n /\ arrived + (k - 1) = arrived + k - 1
      OBVIOUS
    <3>2. f[k - 1] \in After(arrived + k - 1)
      BY <2>2, <3>1
    <3> QED
      BY <1>1, <1>5, <3>2
  <2> HIDE DEF I
  <2> QED
    BY <2>1, <2>2, RecursionKeeps
<1>8. \A k \in 0 .. n : f[k] = IF k = 0 THEN t ELSE ObservePiece(f[k - 1], arrived + k)
  <2> SUFFICES ASSUME NEW k \in 1 .. n PROVE f[k] = ObservePiece(f[k - 1], arrived + k)
    BY <1>6
  <2>1. k - 1 \in 0 .. n /\ arrived + (k - 1) = arrived + k - 1
    OBVIOUS
  <2>2. f[k - 1] \in After(arrived + k - 1)
    BY <1>7, <2>1
  <2> QED
    BY <1>5, <2>2
<1>9. G(f)
  BY <1>6, <1>8 DEF G
<1> DEFINE after == CHOOSE g : G(g)
<1>10. G(after) /\ Observe(t, n) = after[n]
  <2>1. G(after)
    BY <1>9
  <2>2. Observe(t, n) = after[n]
    BY Zenon DEF Observe, G
  <2> QED
    BY <2>1, <2>2
<1> HIDE DEF after
<1>11. \A k \in 0 .. n : after[k] = IF k = 0 THEN t ELSE ObservePiece(after[k - 1], arrived + k)
  BY <1>10 DEF G
<1>12. \A k \in 0 .. n : after[k] \in I[k]
  <2>1. after[0] \in I[0]
    BY <1>11
  <2>2. ASSUME NEW k \in 1 .. n, after[k - 1] \in I[k - 1] PROVE after[k] \in I[k]
    <3>1. k - 1 \in 0 .. n /\ arrived + (k - 1) = arrived + k - 1 /\ k \in 0 .. n
      OBVIOUS
    <3>2. after[k - 1] \in After(arrived + k - 1)
      BY <2>2, <3>1
    <3> QED
      BY <1>1, <1>11, <3>1, <3>2
  <2> HIDE DEF I
  <2> QED
    BY <2>1, <2>2, RecursionKeeps
<1> QED
  BY <1>10, <1>12

LEMMA StreamLengthType ==
    ASSUME sseLines \in Seq(Line), sseLines # <<>>, whole \in BOOLEAN
    PROVE  /\ Len(sseLines) \in Nat /\ Len(sseLines) >= 1
           /\ StreamLength \in Nat /\ StreamLength <= 3 * Len(sseLines)
           /\ whole => StreamLength = 3 * Len(sseLines)
           /\ ~whole => StreamLength = 3 * Len(sseLines) - 1
<1>1. Len(sseLines) \in Nat /\ Len(sseLines) >= 1
  OBVIOUS
<1> QED
  BY <1>1 DEF StreamLength

(* The end of a stream: of a last line without newline, and then of the    *)
(* last event.                                                             *)
LEMMA FinishVerdict ==
    ASSUME sseLines \in Seq(Line), sseLines # <<>>, whole \in BOOLEAN,
           NEW t \in After(StreamLength)
    PROVE  /\ Finish(t) \in Tracker /\ Finish(t).carry = <<>>
           /\ Finish(t).terminal = VerdictOf(Said(Len(sseLines) + 1))
<1> DEFINE N == Len(sseLines)
           l == sseLines[N]
           none == <<>>
           s == [t EXCEPT !.carry = none]
<1>1. /\ N \in Nat /\ N >= 1
      /\ whole => StreamLength = 3 * N
      /\ ~whole => StreamLength = 3 * N - 1
  BY StreamLengthType
<1>2. t \in Tracker /\ SoFar(t, StreamLength \div 3) /\ t.carry = Carry(StreamLength)
  BY DEF After
<1>3. Blank(N + 1)
  BY <1>1 DEF Blank
<1>4. none \in Seq(Piece)
  OBVIOUS
<1>5. l \in Line
  BY <1>1
<1> HIDE DEF N, l
<1>6. CASE whole
  <2>1. StreamLength \div 3 = N /\ StreamLength % 3 = 0
    BY <1>1, <1>6
  <2>2. t.carry = none
    BY <1>2, <2>1 DEF Carry, IsNewline
  <2>3. Finish(t) = DispatchEvent(t)
    BY <2>2 DEF Finish
  <2> QED
    BY <1>1, <1>2, <1>3, <2>1, <2>2, <2>3, DispatchEventVerdict DEF N
<1>7. CASE ~whole
  <2>1. /\ StreamLength \div 3 = N - 1 /\ StreamLength % 3 = 2
        /\ (StreamLength + 2) \div 3 = N
    BY <1>1, <1>7
  <2>2. LineOf(StreamLength) = l
    BY <2>1 DEF LineOf, l
  <2>3. N - 1 \in 0 .. N - 1 /\ N - 1 + 1 = N /\ N - 1 \in 0 .. N
    BY <1>1
  <2>4. CASE l.field = "blank"
    <3>1. t.carry = none
      BY <1>2, <2>2, <2>4 DEF Carry
    <3>2. Finish(t) = DispatchEvent(t)
      BY <3>1 DEF Finish
    <3>3. Blank(N)
      BY <2>4 DEF Blank, l
    <3>4. /\ Finish(t) \in Tracker /\ Finish(t).carry = none
          /\ Finish(t).terminal = VerdictOf(Said(N))
      BY <1>2, <2>1, <2>3, <3>1, <3>2, <3>3, DispatchEventVerdict DEF N
    <3>5. Said(N + 1) = Said(N)
      <4>1. Begins(N, N) /\ N \in 0 .. N
        BY <1>1, <3>3 DEF Begins
      <4>2. DataAfter(N)[N] = <<>>
        BY <1>1, <4>1, DataAfterStep DEF N
      <4>3. Said(N + 1) = Said(N) \cup IF DataAfter(N)[N] = <<>> THEN {}
                           ELSE {DataOutcome(DataAfter(N)[N], NameOf(<<N, N + 1>>))}
        BY <1>3, <4>1, SaidBlank DEF N
      <4> QED
        BY <4>2, <4>3
    <3> QED
      BY <3>4, <3>5 DEF N
  <2>5. CASE l.field # "blank"
    <3> DEFINE first == [line |-> l, piece |-> 1]
               second == [line |-> l, piece |-> 2]
    <3>1. t.carry = Append(<<first>>, second)
      BY <1>2, <2>1, <2>2, <2>5 DEF Carry, IsNewline
    <3>2. first \in Piece /\ second \in Piece /\ first.line = l
      BY <1>5 DEF Piece
    <3>3. t.carry # <<>> /\ Len(t.carry) = 2 /\ t.carry[1] = first
      <4> HIDE DEF first, second
      <4> QED
        BY <3>1, <3>2
    <3>4. CarriedLine(t.carry) = l
      BY <3>2, <3>3 DEF CarriedLine
    <3>5. Finish(t) = DispatchEvent(ObserveLine(s, l))
      BY <3>3, <3>4 DEF Finish
    <3> HIDE DEF none
    <3>6. /\ s \in Tracker /\ s.terminal = t.terminal /\ s.event = t.event
          /\ s.data = t.data /\ s.carry = none
      BY <1>2, <1>4 DEF Tracker
    <3> HIDE DEF s
    <3>7. SoFar(s, N - 1)
      BY <1>2, <2>1, <3>6 DEF SoFar
    <3> DEFINE r == ObserveLine(s, l)
    <3>8. r \in Tracker /\ r.carry = none /\ SoFar(r, N)
      <4>1. /\ ObserveLine(s, sseLines[N - 1 + 1]) \in Tracker
            /\ ObserveLine(s, sseLines[N - 1 + 1]).carry = s.carry
            /\ SoFar(ObserveLine(s, sseLines[N - 1 + 1]), N - 1 + 1)
        BY <2>3, <3>6, <3>7, ObserveLineVerdict DEF N
      <4> QED
        BY <2>3, <3>6, <4>1 DEF l
    <3> HIDE DEF r
    <3>9. N \in 0 .. N
      BY <1>1
    <3>10. /\ DispatchEvent(r) \in Tracker /\ DispatchEvent(r).carry = none
           /\ DispatchEvent(r).terminal = VerdictOf(Said(N + 1))
      BY <1>3, <3>8, <3>9, DispatchEventVerdict DEF N
    <3> QED
      BY <3>5, <3>10 DEF r, N, none
  <2> QED
    BY <2>4, <2>5
<1> QED
  BY <1>6, <1>7

(* All that is said is said by the end.                                    *)
LEMMA SaidAtEnd ==
    ASSUME sseLines \in Seq(Line)
    PROVE  Said(Len(sseLines) + 1) = AllOutcomes
<1> DEFINE N == Len(sseLines)
<1>1. {f \in Events : f[2] <= N + 1 /\ EventData(f) # <<>>}
        = {f \in Events : EventData(f) # <<>>}
  <2>1. \A f \in Events : f[2] <= N + 1
    BY DEF Events
  <2> QED
    BY <2>1
<1>2. {j \in 1 .. N : j <= N + 1 /\ sseLines[j].field = "event"}
        = {j \in 1 .. N : sseLines[j].field = "event"}
  OBVIOUS
<1> QED
  BY <1>1, <1>2 DEF Said, AllOutcomes

-----------------------------------------------------------------------------
(* SseTracker: the steps.                                                  *)

LEMMA InitSseInv == SseInit => SseInv
<1> SUFFICES ASSUME SseInit PROVE SseInv
  OBVIOUS
<1>1. PICK n \in 1 .. MaxLines : sseLines \in [1 .. n -> Line]
  BY DEF SseInit
<1>2. n \in Nat /\ sseLines \in Seq(Line) /\ Len(sseLines) = n /\ sseLines # <<>>
  BY <1>1, SseAssumption DEF SseAssumption
<1>3. /\ whole \in BOOLEAN /\ require \in BOOLEAN /\ arrived = 0 /\ sseEnded = FALSE
      /\ tracker = NewTracker
  BY DEF SseInit
<1>4. arrived \in 0 .. StreamLength
  BY <1>2, <1>3, StreamLengthType
<1> DEFINE none == <<>>
<1>5. none \in Seq(Piece) /\ none \in Seq(DataText)
  OBVIOUS
<1>6. NewTracker = [carry |-> none, terminal |-> "pending", event |-> "none", data |-> none]
  BY DEF NewTracker
<1>7. /\ tracker \in Tracker /\ tracker.carry = none /\ tracker.terminal = "pending"
      /\ tracker.event = "none" /\ tracker.data = none
  <2> HIDE DEF none
  <2> QED
    BY <1>3, <1>5, <1>6 DEF Tracker
<1>8. Said(0) = {}
  <2>1. {j \in 1 .. Len(sseLines) : j <= 0 /\ sseLines[j].field = "event"} = {}
    OBVIOUS
  <2>2. {f \in Events : f[2] <= 0 /\ EventData(f) # <<>>} = {}
    BY DEF Events
  <2> QED
    BY <2>1, <2>2 DEF Said
<1>9. SoFar(tracker, 0)
  <2>1. Begins(0, 0)
    BY DEF Begins, Blank
  <2>2. DataAfter(0)[0] = <<>>
    BY <1>2, DataAfterStep
  <2>3. NameOf(<<0, 0 + 1>>) = "none"
    <3>1. 0 \in Nat /\ 0 <= 0
      OBVIOUS
    <3> QED
      BY <3>1, NameStep, Zenon
  <2>4. VerdictOf({}) = "pending"
    BY DEF VerdictOf
  <2> QED
    <3>1. 0 \in 0 .. 0 /\ tracker.data = DataAfter(0)[0]
          /\ tracker.event = NameOf(<<0, 0 + 1>>)
      BY <1>7, <2>2, <2>3
    <3>2. tracker.terminal = VerdictOf(Said(0))
      BY <1>7, <1>8, <2>4
    <3> QED
      BY <2>1, <3>1, <3>2, Zenon DEF SoFar
<1>10. 0 \div 3 = 0 /\ Carry(0) = <<>>
  BY DEF Carry, IsNewline
<1> QED
  BY <1>2, <1>3, <1>4, <1>7, <1>9, <1>10 DEF SseInv, After

(* What is said of a stream does not change with the place in it.          *)
LEMMA SameStream ==
    ASSUME UNCHANGED <<sseLines, require, whole>>
    PROVE  /\ StreamLength' = StreamLength
           /\ \A n : Said(n)' = Said(n)
           /\ \A k : After(k)' = After(k)
<1>1. StreamLength' = StreamLength
  BY DEF StreamLength
<1>2. ASSUME NEW n PROVE Said(n)' = Said(n)
  BY DEF Said, Events, Blank, EventData, DataAfter, NameOf, DataOutcome
<1>3. ASSUME NEW b PROVE DataAfter(b)' = DataAfter(b)
  BY DEF DataAfter
<1>4. ASSUME NEW e PROVE NameOf(e)' = NameOf(e)
  BY DEF NameOf
<1>5. ASSUME NEW b, NEW n PROVE Begins(b, n)' <=> Begins(b, n)
  BY DEF Begins, Blank
<1>6. ASSUME NEW k PROVE Carry(k)' = Carry(k)
  BY DEF Carry, IsNewline, LineOf
<1>7. ASSUME NEW t, NEW n PROVE SoFar(t, n)' <=> SoFar(t, n)
  BY <1>2, <1>3, <1>4, <1>5 DEF SoFar
<1>8. ASSUME NEW k PROVE After(k)' = After(k)
  BY <1>6, <1>7 DEF After
<1> QED
  BY <1>1, <1>2, <1>8

LEMMA SseStep == SseInv /\ [SseNext]_sseVars => SseInv'
<1> SUFFICES ASSUME SseInv, [SseNext]_sseVars PROVE SseInv'
  OBVIOUS
<1>1. UNCHANGED <<sseLines, require, whole>>
  BY DEF SseNext, ReadChunk, EndStream, sseVars
<1>2. /\ StreamLength' = StreamLength
      /\ \A n : Said(n)' = Said(n)
      /\ \A k : After(k)' = After(k)
  BY <1>1, SameStream
<1>3. /\ sseLines \in Seq(Line) /\ sseLines # <<>> /\ whole \in BOOLEAN
      /\ arrived \in 0 .. StreamLength /\ tracker \in Tracker
      /\ StreamLength \in Nat /\ StreamLength <= 3 * Len(sseLines)
      /\ Len(sseLines) \in Nat
  BY StreamLengthType DEF SseInv
<1>4. CASE UNCHANGED sseVars
  BY <1>1, <1>2, <1>4 DEF SseInv, sseVars
<1>5. CASE ReadChunk
  <2>1. PICK n \in 1 .. MaxChunk :
          /\ arrived + n <= StreamLength
          /\ tracker' = Observe(tracker, n)
          /\ arrived' = arrived + n
          /\ sseEnded' = sseEnded
    BY <1>5 DEF ReadChunk
  <2>2. n \in Nat /\ n > 0 /\ arrived + n <= 3 * Len(sseLines)
    BY <1>3, <2>1, SseAssumption DEF SseAssumption
  <2>3. ~sseEnded
    BY <1>3, <2>1, <2>2 DEF SseInv
  <2>4. tracker' \in After(arrived + n)
    BY <1>3, <2>1, <2>2, <2>3, ObserveAfter DEF SseInv
  <2>5. tracker' \in Tracker
    BY <2>4 DEF After
  <2>6. arrived' \in 0 .. StreamLength
    BY <1>3, <2>1, <2>2
  <2> QED
    BY <1>1, <1>2, <1>3, <2>1, <2>3, <2>4, <2>5, <2>6 DEF SseInv
<1>6. CASE EndStream
  <2>1. /\ arrived = StreamLength /\ ~sseEnded /\ sseEnded' = TRUE /\ arrived' = arrived
        /\ tracker' = Finish(tracker)
    BY <1>6 DEF EndStream
  <2>2. /\ tracker' \in Tracker /\ tracker'.carry = <<>>
        /\ tracker'.terminal = VerdictOf(Said(Len(sseLines) + 1))
    BY <1>3, <2>1, FinishVerdict DEF SseInv
  <2> QED
    BY <1>1, <1>2, <1>3, <2>1, <2>2 DEF SseInv, VerdictOf
<1> QED
  BY <1>4, <1>5, <1>6 DEF SseNext

LEMMA SseInvariance == SseSpec => []SseInv
BY InitSseInv, SseStep, PTL DEF SseSpec

(* The tracker and the stream keep their types, for streams of any length. *)
THEOREM SpecSseTypeOK == SseSpec => []SseTypeOK
<1>1. SseInv => SseTypeOK
  <2> SUFFICES ASSUME SseInv PROVE SseTypeOK
    OBVIOUS
  <2>1. tracker \in Tracker
    BY DEF SseInv
  <2>2. Len(tracker.carry) <= 2
    <3>1. CASE sseEnded
      <4>1. tracker.carry = <<>>
        BY <3>1 DEF SseInv
      <4> QED
        BY <4>1
    <3>2. CASE ~sseEnded
      <4> DEFINE first == [line |-> LineOf(arrived), piece |-> 1]
                 second == [line |-> LineOf(arrived), piece |-> 2]
      <4>1. tracker.carry \in {<<>>, <<first>>, Append(<<first>>, second)}
        BY <3>2 DEF SseInv, After, Carry
      <4> HIDE DEF first, second
      <4>2. CASE tracker.carry = <<>>
        BY <4>2
      <4>3. CASE tracker.carry = <<first>>
        BY <4>3
      <4>4. CASE tracker.carry = Append(<<first>>, second)
        <5>1. <<first>> \in Seq({first, second}) /\ Len(<<first>>) = 1
          OBVIOUS
        <5>2. Len(Append(<<first>>, second)) = 2
          BY <5>1
        <5> QED
          BY <4>4, <5>2
      <4> QED
        BY <4>1, <4>2, <4>3, <4>4
    <3> QED
      BY <3>1, <3>2
  <2> QED
    BY <2>1, <2>2 DEF SseInv, SseTypeOK, Tracker
<1> QED
  BY <1>1, SseInvariance, PTL

(* However a stream of any length is cut into chunks, and with or without  *)
(* its last newline, the tracker comes to what the events say (observe and *)
(* finish of SseTerminalTracker): lines and events are put together again  *)
(* from what is carried, and a failure is never overruled.                 *)
THEOREM SpecVerdictExact == SseSpec => []VerdictExact
<1>1. SseInv => VerdictExact
  BY SaidAtEnd DEF SseInv, VerdictExact, StreamVerdict, VerdictOf
<1> QED
  BY <1>1, SseInvariance, PTL

=============================================================================
