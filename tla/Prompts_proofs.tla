--------------------------- MODULE Prompts_proofs ---------------------------
(***************************************************************************)
(* What holds of Prompts for every set of prompts and goals, whatever the  *)
(* users do and whichever file accesses fail.  One inductive invariant,    *)
(* IInv, carries three safety properties; ManualPromptKept and             *)
(* NoStackedPrompts follow from it step by step, and so does the           *)
(* refinement of PromptDelivery.  Two more, TriggerInv and GoalInv, follow *)
(* the requests of the user to the prompts that answer them.               *)
(***************************************************************************)
EXTENDS Prompts, TLAPS

(* The steps between the reading of the control state and the decision.    *)
Deciding == pc \in {"goal", "clear", "pop", "choose"}

(* The worker has a manual prompt in hand only while it decides on it or   *)
(* puts it back.                                                           *)
HandInv ==
    /\ pc = "requeue" => Manual
    /\ Manual => pc \in {"choose", "requeue"}

(* Pausing takes the trigger back, so a worker that saw the pause sends    *)
(* nothing; one that has not seen it has not yet sent its late prompt.     *)
PauseInv ==
    /\ file.paused => ~file.trigger /\ seen.late <= 1
    /\ Deciding /\ w.cs.paused => ~w.cs.trigger
    /\ Deciding /\ file.paused /\ ~w.cs.paused => seen.late = 0

(* An automatic prompt nothing has followed yet is still awaited.          *)
WaitInv == seen.unanswered => rt.waiting /\ agent.reply = "none"

(* What was typed had been asked for, so a new prompt is not yet typed.    *)
OnceInv == ManualPromptOnce /\ seen.typed \subseteq seen.asked

IInv == TypeOK /\ HandInv /\ OnceInv /\ PauseInv /\ WaitInv

-----------------------------------------------------------------------------
(* Values and what an action that leaves a part alone preserves.           *)

LEMMA NoCommandNot == NoCommand \notin GoalCommand
BY DEF NoCommand, GoalCommand

LEMMA UnreadableType == Unreadable \in Control
BY DEF Unreadable, Control

LEMMA CommandType ==
    ASSUME NEW g \in Goal, NEW a \in {"set", "resume"}
    PROVE  Command(a, g) \in GoalCommand
BY DEF Command, GoalCommand

LEMMA LaunchedType ==
    ASSUME NEW g \in Goal, NEW kind, NEW active \in BOOLEAN,
           NEW continuation \in BOOLEAN, NEW cooling \in BOOLEAN
    PROVE  /\ Launched(g, kind, active, continuation, cooling) \in Runtime
           /\ Launched(g, kind, active, continuation, cooling).waiting = FALSE
<1>1. LaunchGoal(g, kind) \in GoalCommand \cup {NoCommand}
  BY CommandType DEF LaunchGoal
<1>2. LaunchInitial(g, kind) \in {"none", "blank", "text"}
  BY PromptsAssumption DEF PromptsAssumption, LaunchInitial
<1> QED
  BY <1>1, <1>2 DEF Launched, Runtime

LEMMA OnceSame ==
    ASSUME OnceInv, queue' = queue,
           w'.hand = w.hand \/ w'.hand = NoPrompt,
           seen'.asked = seen.asked, seen'.typed = seen.typed
    PROVE  OnceInv'
BY PromptsAssumption
   DEF PromptsAssumption, OnceInv, ManualPromptOnce, Held, Waiting

LEMMA PauseSame ==
    ASSUME PauseInv, file' = file, seen'.late = seen.late,
           Deciding' => Deciding /\ w'.cs = w.cs
    PROVE  PauseInv'
BY DEF PauseInv

(* An action outside the worker: it leaves pc and the locals alone.        *)
LEMMA HandSame ==
    ASSUME HandInv, pc' = pc, w' = w
    PROVE  HandInv'
BY DEF HandInv, Manual

(* Coming to rest the worker has nothing in hand and nothing to decide.    *)
LEMMA RestHand ==
    ASSUME pc' = "rest", w' = Idle
    PROVE  HandInv'
BY DEF HandInv, Manual, Idle

LEMMA IdleType == Idle \in [canSend : BOOLEAN, cs : Control,
                            hand : Prompt \cup {NoPrompt}]
BY UnreadableType DEF Idle

LEMMA FreshType ==
    FreshAgent \in [awaiting : BOOLEAN, view : View, reply : Reply]
BY DEF FreshAgent, View, Reply

LEMMA InitIInv == Init => IInv
<1> SUFFICES ASSUME Init PROVE IInv
  OBVIOUS
<1>1. PICK paused \in BOOLEAN, goalOn \in BOOLEAN, synced \in Goal \cup {NoGoal} :
        /\ file = [Unreadable EXCEPT !.paused = paused, !.goalOn = goalOn,
                                     !.synced = synced]
        /\ uiGoal \in Goal
        /\ \E kind \in {"resumed", "fresh"} :
             /\ rt = Launched(uiGoal, kind, FALSE, FALSE, FALSE)
             /\ seen = [asked |-> {}, typed |-> {}, died |-> {}, late |-> 0,
                        early |-> 0, budget |-> 1, unanswered |-> FALSE,
                        goal |-> IF kind = "fresh" THEN NoGoal ELSE synced]
  BY DEF Init
<1>2. file \in Control /\ ~file.trigger
  BY <1>1 DEF Unreadable, Control
<1>3. rt \in Runtime
  BY <1>1, LaunchedType
<1>4. /\ seen \in History /\ seen.late = 0 /\ ~seen.unanswered
      /\ seen.asked = {} /\ seen.typed = {}
  BY <1>1 DEF History
<1>5. /\ queue = <<>> /\ agent = FreshAgent /\ pc = "rest" /\ w = Idle
  BY DEF Init
<1>6. TypeOK
  <2>1. agent \in [awaiting : BOOLEAN, view : View, reply : Reply]
    BY <1>5, FreshType
  <2>2. queue \in Seq(Prompt) /\ uiGoal \in Goal
    BY <1>1, <1>5
  <2>3. w \in [canSend : BOOLEAN, cs : Control, hand : Prompt \cup {NoPrompt}]
    BY <1>5, IdleType
  <2> QED
    BY <1>2, <1>3, <1>4, <1>5, <2>1, <2>2, <2>3 DEF TypeOK
<1>7. HandInv /\ PauseInv /\ WaitInv
  BY <1>2, <1>4, <1>5 DEF HandInv, Manual, Idle, PauseInv, Deciding, WaitInv
<1>8. OnceInv
  BY <1>4, <1>5, PromptsAssumption
     DEF PromptsAssumption, OnceInv, ManualPromptOnce, Held, Waiting, Idle
<1> QED
  BY <1>6, <1>7, <1>8 DEF IInv

-----------------------------------------------------------------------------
(* The agent, the time and the other writers.                              *)

LEMMA RelaunchIInv == ASSUME IInv, Relaunch PROVE IInv'
<1> USE DEF IInv
<1>1. PICK kind \in {"resumed", "fresh", "fork"}, restarted \in BOOLEAN :
        /\ rt' = Launched(rt.goal, kind, rt.active /\ ~restarted,
                          rt.continuation, rt.cooling)
        /\ seen' = [seen EXCEPT
                      !.unanswered = FALSE,
                      !.budget = IF file.request = NoCommand THEN 1 ELSE 2,
                      !.goal = IF kind = "fresh" THEN NoGoal ELSE @]
  BY DEF Relaunch
<1>2. agent' = FreshAgent /\ UNCHANGED <<file, queue, uiGoal, pc, w>>
  BY DEF Relaunch
<1>3. rt' \in Runtime
  <2>1. /\ rt.goal \in Goal /\ rt.active \in BOOLEAN
        /\ rt.continuation \in BOOLEAN /\ rt.cooling \in BOOLEAN
    BY DEF TypeOK, Runtime
  <2>2. (rt.active /\ ~restarted) \in BOOLEAN
    BY <2>1
  <2> QED
    BY <1>1, <2>1, <2>2, LaunchedType
<1>4. /\ seen' \in History /\ seen'.late = seen.late /\ ~seen'.unanswered
      /\ seen'.asked = seen.asked /\ seen'.typed = seen.typed
  <2>1. /\ (IF file.request = NoCommand THEN 1 ELSE 2) \in Int
        /\ (IF kind = "fresh" THEN NoGoal ELSE seen.goal) \in Goal \cup {NoGoal}
    BY DEF TypeOK, History
  <2>2. seen \in History
    BY DEF TypeOK
  <2> QED
    BY <1>1, <2>1, <2>2 DEF History
<1>5. TypeOK'
  BY <1>2, <1>3, <1>4, FreshType DEF TypeOK
<1>6. OnceInv' /\ HandInv' /\ PauseInv'
  BY <1>2, <1>4, OnceSame, HandSame, PauseSame DEF Deciding
<1> QED
  BY <1>4, <1>5, <1>6 DEF WaitInv

LEMMA CrashIInv == ASSUME IInv, Crash PROVE IInv'
<1> USE DEF IInv
<1>1. PICK paused \in BOOLEAN, kind \in {"resumed", "fresh"} :
        /\ file' = [file EXCEPT !.paused = paused, !.trigger = FALSE]
        /\ rt' = Launched(uiGoal, kind, FALSE, FALSE, FALSE)
        /\ seen' = [seen EXCEPT
                      !.died = @ \cup ({w.hand} \ {NoPrompt}), !.late = 0,
                      !.unanswered = FALSE,
                      !.budget = IF file.request = NoCommand THEN 1 ELSE 2,
                      !.goal = IF kind = "fresh" THEN NoGoal ELSE @]
  BY DEF Crash
<1>2. /\ agent' = FreshAgent /\ pc' = "rest" /\ w' = Idle
      /\ UNCHANGED <<queue, uiGoal>>
  BY DEF Crash
<1>3. file' \in Control /\ ~file'.trigger
  BY <1>1 DEF TypeOK, Control
<1>4. rt' \in Runtime
  BY <1>1, LaunchedType DEF TypeOK
<1>5. /\ seen' \in History /\ seen'.late = 0 /\ ~seen'.unanswered
      /\ seen'.asked = seen.asked /\ seen'.typed = seen.typed
  <2>1. /\ (IF file.request = NoCommand THEN 1 ELSE 2) \in Int
        /\ (IF kind = "fresh" THEN NoGoal ELSE seen.goal) \in Goal \cup {NoGoal}
    BY DEF TypeOK, History
  <2>2. seen \in History
    BY DEF TypeOK
  <2> DEFINE died == seen.died \cup ({w.hand} \ {NoPrompt})
             budget == IF file.request = NoCommand THEN 1 ELSE 2
             goal == IF kind = "fresh" THEN NoGoal ELSE seen.goal
             s0 == [seen EXCEPT !.died = died]
             s1 == [s0 EXCEPT !.late = 0]
             s2 == [s1 EXCEPT !.unanswered = FALSE, !.budget = budget, !.goal = goal]
  <2>3. died \in SUBSET Prompt
    BY <2>2 DEF TypeOK, History
  <2>4. seen' = s2
    BY <1>1
  <2>5. budget \in Int /\ goal \in Goal \cup {NoGoal}
    BY <2>1
  <2> HIDE DEF IInv, died, budget, goal
  <2>6. s0 \in History /\ s0.asked = seen.asked /\ s0.typed = seen.typed
    BY <2>2, <2>3 DEF History
  <2> HIDE DEF s0
  <2>7. s1 \in History /\ s1.late = 0 /\ s1.asked = s0.asked /\ s1.typed = s0.typed
    BY <2>6 DEF History
  <2> HIDE DEF s1
  <2>8. s2 \in History /\ s2.late = s1.late /\ ~s2.unanswered
        /\ s2.asked = s1.asked /\ s2.typed = s1.typed
    BY <2>5, <2>7 DEF History
  <2> HIDE DEF s2
  <2> QED
    BY <2>4, <2>6, <2>7, <2>8
<1>6. TypeOK'
  BY <1>2, <1>3, <1>4, <1>5, IdleType, FreshType DEF TypeOK
<1>7. OnceInv'
  BY <1>2, <1>5, OnceSame DEF Idle
<1>8. HandInv'
  BY <1>2, RestHand
<1>9. PauseInv' /\ WaitInv'
  BY <1>2, <1>3, <1>5 DEF PauseInv, WaitInv, Deciding
<1> QED
  BY <1>6, <1>7, <1>8, <1>9

(* An action that changes the agent only, and what is remembered of it.    *)
LEMMA AgentBecomesIInv ==
    ASSUME IInv, NEW a \in [awaiting : BOOLEAN, view : View, reply : Reply],
           AgentBecomes(a)
    PROVE  IInv'
<1> USE DEF IInv
<1>1. /\ seen' = [seen EXCEPT !.unanswered = @ /\ a.reply = "none"]
      /\ agent' = a /\ UNCHANGED <<file, queue, uiGoal, rt, pc, w>>
  BY DEF AgentBecomes
<1>2. /\ seen' \in History /\ seen'.late = seen.late
      /\ seen'.asked = seen.asked /\ seen'.typed = seen.typed
      /\ seen'.unanswered => seen.unanswered /\ a.reply = "none"
  BY <1>1 DEF TypeOK, History
<1>3. TypeOK'
  BY <1>1, <1>2 DEF TypeOK
<1>4. OnceInv' /\ HandInv' /\ PauseInv'
  BY <1>1, <1>2, OnceSame, HandSame, PauseSame DEF Deciding
<1> QED
  BY <1>1, <1>2, <1>3, <1>4 DEF WaitInv

LEMMA AgentIInv ==
    ASSUME IInv,
           \/ AgentReady \/ AgentEchoes \/ AgentStarts \/ AgentAnswers
           \/ AgentFinishes \/ UserTypes \/ UserSubmits
    PROVE  IInv'
<1> DEFINE T == [awaiting : BOOLEAN, view : View, reply : Reply]
<1>1. agent \in T
  BY DEF IInv, TypeOK
<1>2. /\ [agent EXCEPT !.view = "ready"] \in T
      /\ [agent EXCEPT !.reply = "echo"] \in T
      /\ [agent EXCEPT !.view = "busy", !.reply = "started"] \in T
      /\ [agent EXCEPT !.reply = "answered"] \in T
      /\ [agent EXCEPT !.view = "prefilled",
                       !.reply = IF @ = "none" THEN "echo" ELSE @] \in T
  BY <1>1 DEF View, Reply
<1>3. Submitted \in T
  BY <1>1 DEF Submitted, View, Reply
<1>4. \E a \in T : AgentBecomes(a)
  BY <1>2, <1>3 DEF AgentReady, AgentEchoes, AgentStarts, AgentAnswers,
                    AgentFinishes, UserTypes, UserSubmits
<1> QED
  BY <1>4, AgentBecomesIInv

LEMMA TimePassesIInv == ASSUME IInv, TimePasses PROVE IInv'
<1> USE DEF IInv
<1>1. UNCHANGED <<file, queue, uiGoal, agent, pc, w, seen>>
  BY DEF TimePasses
<1>2. rt' \in Runtime /\ rt'.waiting = rt.waiting
  BY DEF TimePasses, TypeOK, Runtime
<1>3. TypeOK'
  BY <1>1, <1>2 DEF TypeOK
<1>4. OnceInv' /\ HandInv' /\ PauseInv'
  BY <1>1, OnceSame, HandSame, PauseSame DEF Deciding
<1> QED
  BY <1>1, <1>2, <1>3, <1>4 DEF WaitInv

(* Another program writes the control state.                               *)
LEMMA WritesIInv ==
    ASSUME IInv, NEW f \in Control, NEW s \in History, Writes(f, s),
           s.asked = seen.asked, s.typed = seen.typed,
           s.unanswered = seen.unanswered,
           f.paused => ~f.trigger
                       /\ s.late = IF file.paused THEN seen.late ELSE 0
    PROVE  IInv'
<1> USE DEF IInv
<1>1. file' = f /\ seen' = s /\ UNCHANGED <<queue, uiGoal, rt, agent, pc, w>>
  BY DEF Writes
<1>2. TypeOK'
  BY <1>1 DEF TypeOK
<1>3. OnceInv' /\ HandInv'
  BY <1>1, OnceSame, HandSame
<1>4. PauseInv'
  BY <1>1 DEF PauseInv, Deciding
<1> QED
  BY <1>1, <1>2, <1>3, <1>4 DEF WaitInv

LEMMA ControlIInv ==
    ASSUME IInv,
           \/ Pause \/ Resume \/ RequestGoal \/ LeaveGoalMode
           \/ LoseControlState
    PROVE  IInv'
<1> USE DEF IInv
<1>1. /\ file \in Control /\ seen \in History /\ uiGoal \in Goal
      /\ file.paused => ~file.trigger
  BY DEF TypeOK, PauseInv
<1>2. CASE Pause
  <2> DEFINE f == [file EXCEPT !.paused = TRUE, !.trigger = FALSE]
             s == [seen EXCEPT !.late = IF file.paused THEN @ ELSE 0]
  <2>1. f \in Control /\ f.paused /\ ~f.trigger
    BY <1>1 DEF Control
  <2>2. /\ s \in History /\ s.asked = seen.asked /\ s.typed = seen.typed
        /\ s.unanswered = seen.unanswered
        /\ s.late = IF file.paused THEN seen.late ELSE 0
    BY <1>1 DEF History
  <2>3. Writes(f, s)
    BY <1>2 DEF Pause
  <2> HIDE DEF f, s
  <2> QED
    BY <2>1, <2>2, <2>3, WritesIInv
<1>3. CASE Resume
  <2> DEFINE f == [file EXCEPT !.paused = FALSE, !.trigger = TRUE]
             s == [seen EXCEPT !.early = 0, !.late = 0]
  <2>1. f \in Control /\ ~f.paused
    BY <1>1 DEF Control
  <2>2. /\ s \in History /\ s.asked = seen.asked /\ s.typed = seen.typed
        /\ s.unanswered = seen.unanswered
    <3>1. 0 \in 0..2
      OBVIOUS
    <3> QED
      BY <1>1, <3>1 DEF History
  <2>3. Writes(f, s)
    BY <1>3 DEF Resume
  <2> HIDE DEF f, s
  <2> QED
    BY <2>1, <2>2, <2>3, WritesIInv
<1>4. CASE RequestGoal
  <2> DEFINE action == IF ShouldResume(uiGoal, file) THEN "resume" ELSE "set"
             f == [file EXCEPT !.request = Command(action, uiGoal),
                               !.goalOn = TRUE, !.completed = NoGoal]
             s == [seen EXCEPT !.budget = @ + 1]
  <2>1. Command(action, uiGoal) \in GoalCommand
    BY <1>1, CommandType
  <2>2. f \in Control /\ f.paused = file.paused /\ f.trigger = file.trigger
    BY <1>1, <2>1 DEF Control
  <2>3. /\ s \in History /\ s.asked = seen.asked /\ s.typed = seen.typed
        /\ s.unanswered = seen.unanswered /\ s.late = seen.late
    BY <1>1 DEF History
  <2>4. Writes(f, s)
    BY <1>4 DEF RequestGoal
  <2> HIDE DEF f, s
  <2> QED
    BY <1>1, <2>2, <2>3, <2>4, WritesIInv
<1>5. CASE LeaveGoalMode
  <2> DEFINE f == [file EXCEPT !.request = NoCommand, !.goalOn = FALSE,
                               !.completed = NoGoal]
  <2>1. f \in Control /\ f.paused = file.paused /\ f.trigger = file.trigger
    BY <1>1 DEF Control
  <2>2. Writes(f, seen)
    BY <1>5 DEF LeaveGoalMode
  <2> HIDE DEF f
  <2> QED
    BY <1>1, <2>1, <2>2, WritesIInv
<1>6. CASE LoseControlState
  <2> DEFINE s == [seen EXCEPT !.late = IF file.paused THEN @ ELSE 0]
  <2>1. /\ s \in History /\ s.asked = seen.asked /\ s.typed = seen.typed
        /\ s.unanswered = seen.unanswered
        /\ s.late = IF file.paused THEN seen.late ELSE 0
    BY <1>1 DEF History
  <2>2. Unreadable.paused /\ ~Unreadable.trigger
    BY DEF Unreadable
  <2>3. Writes(Unreadable, s)
    BY <1>6 DEF LoseControlState
  <2> HIDE DEF s
  <2> QED
    BY <2>1, <2>2, <2>3, UnreadableType, WritesIInv
<1> QED
  BY <1>2, <1>3, <1>4, <1>5, <1>6

LEMMA ConfigIInv ==
    ASSUME IInv, EditGoal \/ ReplaceConfig \/ NoteTrigger
    PROVE  IInv'
<1> USE DEF IInv
<1>1. UNCHANGED <<file, queue, agent, pc, w, seen>>
  BY DEF EditGoal, ReplaceConfig, NoteTrigger
<1>2. uiGoal' \in Goal /\ rt' \in Runtime /\ rt'.waiting = rt.waiting
  BY ZenonT(60) DEF EditGoal, ReplaceConfig, NoteTrigger, TypeOK, Runtime
<1>3. TypeOK'
  BY <1>1, <1>2 DEF TypeOK
<1>4. OnceInv' /\ HandInv' /\ PauseInv'
  BY <1>1, OnceSame, HandSame, PauseSame DEF Deciding
<1> QED
  BY <1>1, <1>2, <1>3, <1>4 DEF WaitInv

LEMMA NoteFailureIInv == ASSUME IInv, NoteFailure PROVE IInv'
<1> USE DEF IInv
<1>1. /\ UNCHANGED <<file, queue, uiGoal, pc, w>>
      /\ agent' = [agent EXCEPT !.awaiting = FALSE]
      /\ seen' = [seen EXCEPT !.unanswered = FALSE]
  BY DEF NoteFailure
<1>2. rt' \in Runtime
  <2>1. rt \in Runtime
    BY DEF TypeOK
  <2>2. PICK cooling \in {TRUE, rt.cooling} :
          rt' = [rt EXCEPT !.waiting = FALSE, !.cooling = cooling]
    BY DEF NoteFailure
  <2>3. cooling \in BOOLEAN
    BY <2>1 DEF Runtime
  <2> QED
    BY <2>1, <2>2, <2>3 DEF Runtime
<1>3. agent' \in [awaiting : BOOLEAN, view : View, reply : Reply]
  BY <1>1 DEF TypeOK
<1>4. /\ seen' \in History /\ seen'.late = seen.late /\ ~seen'.unanswered
      /\ seen'.asked = seen.asked /\ seen'.typed = seen.typed
  BY <1>1 DEF TypeOK, History
<1>5. TypeOK'
  BY <1>1, <1>2, <1>3, <1>4 DEF TypeOK
<1>6. OnceInv' /\ HandInv' /\ PauseInv'
  BY <1>1, <1>4, OnceSame, HandSame, PauseSame DEF Deciding
<1> QED
  BY <1>4, <1>5, <1>6 DEF WaitInv

(* A new prompt is put at the end of a queue that does not hold it.        *)
LEMMA AppendOnce ==
    ASSUME queue \in Seq(Prompt), NEW p \in Prompt, ~Waiting(p),
           \A i, j \in 1..Len(queue) : queue[i] = queue[j] => i = j,
           queue' = Append(queue, p)
    PROVE  /\ queue' \in Seq(Prompt)
           /\ \A i, j \in 1..Len(queue') : queue'[i] = queue'[j] => i = j
           /\ \A q : Waiting(q)' <=> Waiting(q) \/ q = p
<1>1. /\ queue' \in Seq(Prompt) /\ Len(queue') = Len(queue) + 1
      /\ \A i \in 1..Len(queue) : queue'[i] = queue[i]
      /\ queue'[Len(queue) + 1] = p /\ Len(queue) \in Nat
  OBVIOUS
<1>2. 1..Len(queue') = 1..Len(queue) \cup {Len(queue) + 1}
  BY <1>1
<1>3. \A i, j \in 1..Len(queue') : queue'[i] = queue'[j] => i = j
  BY <1>1, <1>2 DEF Waiting
<1>4. \A q : Waiting(q)' <=> Waiting(q) \/ q = p
  BY <1>1, <1>2 DEF Waiting
<1> QED
  BY <1>1, <1>3, <1>4

LEMMA EnqueueIInv == ASSUME IInv, Enqueue PROVE IInv'
<1> USE DEF IInv
<1>1. PICK p \in Prompt \ seen.asked :
        /\ queue' = Append(queue, p)
        /\ seen' = [seen EXCEPT !.asked = @ \cup {p}]
  BY DEF Enqueue
<1>2. UNCHANGED <<file, uiGoal, rt, agent, pc, w>>
  BY DEF Enqueue
<1>3. /\ seen' \in History /\ seen'.late = seen.late
      /\ seen'.unanswered = seen.unanswered
      /\ seen'.asked = seen.asked \cup {p} /\ seen'.typed = seen.typed
  BY <1>1 DEF TypeOK, History
<1>4. ~Held(p) /\ p \notin seen.typed
  BY <1>1 DEF OnceInv, ManualPromptOnce, TypeOK, History, Held
<1>5. /\ queue' \in Seq(Prompt)
      /\ \A i, j \in 1..Len(queue') : queue'[i] = queue'[j] => i = j
      /\ \A q : Waiting(q)' <=> Waiting(q) \/ q = p
  BY <1>1, <1>4, AppendOnce DEF TypeOK, OnceInv, ManualPromptOnce, Held
<1>6. TypeOK'
  BY <1>2, <1>3, <1>5 DEF TypeOK
<1>7. OnceInv'
  BY <1>2, <1>3, <1>4, <1>5 DEF OnceInv, ManualPromptOnce, Held
<1>8. HandInv' /\ PauseInv'
  BY <1>2, <1>3, HandSame, PauseSame DEF Deciding
<1> QED
  BY <1>2, <1>3, <1>6, <1>7, <1>8 DEF WaitInv

-----------------------------------------------------------------------------
(* maybe_drive_prompt.                                                     *)

LEMMA RetrySubmitIInv == ASSUME IInv, RetrySubmit PROVE IInv'
<1> USE DEF IInv
<1>1. /\ UNCHANGED <<file, queue, uiGoal, pc, w>>
      /\ \/ rt' = rt
            /\ seen' = [seen EXCEPT !.unanswered = @ /\ agent' = agent]
         \/ rt' = [rt EXCEPT !.waiting = FALSE]
            /\ seen' = [seen EXCEPT !.unanswered = FALSE]
  BY DEF RetrySubmit
<1>2. rt' \in Runtime
  <2>1. rt \in Runtime
    BY DEF TypeOK
  <2>2. rt' = rt \/ rt' = [rt EXCEPT !.waiting = FALSE]
    BY <1>1
  <2> QED
    BY <2>1, <2>2 DEF Runtime
<1>3. agent' \in [awaiting : BOOLEAN, view : View, reply : Reply]
  BY DEF RetrySubmit, Submitted, TypeOK, View, Reply
<1>4. /\ seen' \in History /\ seen'.late = seen.late
      /\ seen'.asked = seen.asked /\ seen'.typed = seen.typed
      /\ seen'.unanswered => /\ seen.unanswered
                             /\ agent' = agent /\ rt' = rt
  BY <1>1 DEF TypeOK, History
<1>5. TypeOK'
  BY <1>1, <1>2, <1>3, <1>4 DEF TypeOK
<1>6. OnceInv' /\ HandInv' /\ PauseInv'
  BY <1>1, <1>4, OnceSame, HandSame, PauseSame DEF Deciding
<1> QED
  BY <1>4, <1>5, <1>6 DEF WaitInv

(* The wait is over only if the agent has printed something, or shows a    *)
(* fresh input line: then what was sent is no longer unanswered.           *)
LEMMA CheckIdleIInv == ASSUME IInv, CheckIdle PROVE IInv'
<1> USE DEF IInv
<1>1. PICK banner \in BOOLEAN, quiet \in BOOLEAN, stale \in {FALSE, StaleWorking} :
        LET confirmed == agent.reply = "answered"
            finished == confirmed /\ rt.active
            released == \/ agent.reply # "none"
                        \/ SafelyReleased(banner, stale)
        IN  /\ agent' = [agent EXCEPT !.awaiting = FALSE]
            /\ rt' = [rt EXCEPT !.waiting = @ /\ ~released,
                                !.cooling = @ /\ ~confirmed,
                                !.active = @ /\ ~finished]
            /\ seen' = [seen EXCEPT !.unanswered = @ /\ ~banner /\ ~stale]
            /\ w' = [Idle EXCEPT !.canSend = CanSend(stale)]
            /\ pc' = IF finished THEN "complete" ELSE "read"
  BY DEF CheckIdle
<1>2. UNCHANGED <<file, queue, uiGoal>> /\ pc = "rest"
  BY DEF CheckIdle
<1>3. /\ seen' \in History /\ seen'.late = seen.late
      /\ seen'.asked = seen.asked /\ seen'.typed = seen.typed
      /\ seen'.unanswered => seen.unanswered /\ ~banner /\ ~stale
  BY <1>1 DEF TypeOK, History
<1>4. rt' \in Runtime
  <2>1. PICK waiting \in BOOLEAN, cooling \in BOOLEAN, active \in BOOLEAN :
          rt' = [rt EXCEPT !.waiting = waiting, !.cooling = cooling,
                           !.active = active]
    BY <1>1 DEF SafelyReleased
  <2> QED
    BY <2>1, ZenonT(60) DEF TypeOK, Runtime
<1>5. /\ agent' \in [awaiting : BOOLEAN, view : View, reply : Reply]
      /\ agent'.reply = agent.reply
  BY <1>1 DEF TypeOK
<1>6. /\ w' \in [canSend : BOOLEAN, cs : Control, hand : Prompt \cup {NoPrompt}]
      /\ w'.hand = NoPrompt
  <2>1. CanSend(stale) \in BOOLEAN
    BY DEF CanSend
  <2> QED
    BY <1>1, <2>1, IdleType DEF Idle
<1>7. pc' \in {"complete", "read"}
  BY <1>1
<1>8. TypeOK'
  BY <1>2, <1>3, <1>4, <1>5, <1>6, <1>7 DEF TypeOK
<1>9. OnceInv' /\ HandInv' /\ PauseInv'
  BY <1>2, <1>3, <1>6, <1>7, OnceSame, PauseSame DEF HandInv, Manual, Deciding
<1>10. WaitInv'
  BY <1>1, <1>3, <1>5 DEF WaitInv, SafelyReleased, TypeOK, Runtime
<1> QED
  BY <1>8, <1>9, <1>10

(* The worker changes the control state but neither the pause nor, unless  *)
(* it takes the trigger back, the trigger.                                 *)
LEMMA SavesIInv ==
    ASSUME IInv, NEW f \in Control, file' = file \/ file' = f,
           f.paused = file.paused, f.trigger => file.trigger,
           rt' \in Runtime, rt'.waiting = rt.waiting,
           ~Manual, w' = w \/ (pc' = "rest" /\ w' = Idle),
           pc' \in {"read", "pop", "untrigger", "rest"},
           Deciding' => Deciding,
           UNCHANGED <<queue, uiGoal, agent, seen>>
    PROVE  IInv'
<1> USE DEF IInv
<1>1. w' \in [canSend : BOOLEAN, cs : Control, hand : Prompt \cup {NoPrompt}]
      /\ ~Manual' /\ w'.hand = w.hand
  <2>1. CASE w' = w
    BY <2>1 DEF TypeOK, Manual
  <2>2. CASE w' = Idle
    BY <2>2, IdleType DEF Manual, Idle
  <2> QED
    BY <2>1, <2>2
<1>2. TypeOK'
  BY <1>1 DEF TypeOK
<1>3. OnceInv' /\ HandInv'
  BY <1>1, OnceSame DEF HandInv
<1>4. PauseInv'
  BY DEF PauseInv, Deciding
<1> QED
  BY <1>2, <1>3, <1>4 DEF WaitInv

LEMMA UpdatesIInv ==
    ASSUME IInv,
           DisableGoalMode \/ ClearGoalRequest \/ MarkGoalSynced \/ ClearTrigger
    PROVE  IInv'
<1> USE DEF IInv
<1>1. /\ file \in Control /\ rt \in Runtime /\ rt.goal \in Goal
      /\ w.cs.request \in GoalCommand \cup {NoCommand}
  BY DEF TypeOK, Runtime, Control
<1>2. ~Manual
  BY DEF DisableGoalMode, ClearGoalRequest, MarkGoalSynced, ClearTrigger, HandInv
<1>3. CASE DisableGoalMode
  <2> DEFINE f == [file EXCEPT !.goalOn = FALSE, !.completed = rt.goal,
                               !.request = NoCommand]
  <2>1. f \in Control /\ f.paused = file.paused /\ f.trigger = file.trigger
    BY <1>1 DEF Control
  <2>2. /\ file' = file \/ file' = f
        /\ rt' = rt /\ w' = w /\ pc' = "read"
        /\ UNCHANGED <<queue, uiGoal, agent, seen>>
    BY <1>3 DEF DisableGoalMode, Saves
  <2> HIDE DEF f
  <2> QED
    BY <1>1, <1>2, <2>1, <2>2, SavesIInv DEF Deciding
<1>4. CASE ClearGoalRequest
  <2> DEFINE f == [file EXCEPT !.request = NoCommand]
  <2>1. f \in Control /\ f.paused = file.paused /\ f.trigger = file.trigger
    BY <1>1 DEF Control
  <2>2. /\ file' = file \/ file' = f
        /\ w' = w /\ pc = "clear" /\ pc' = "pop"
        /\ UNCHANGED <<queue, uiGoal, agent, seen>>
    BY <1>4 DEF ClearGoalRequest, Saves
  <2>3. rt' \in Runtime /\ rt'.waiting = rt.waiting
    BY <1>1, <1>4 DEF ClearGoalRequest, Saves, Runtime
  <2> HIDE DEF f
  <2> QED
    BY <1>2, <2>1, <2>2, <2>3, SavesIInv DEF Deciding
<1>5. CASE MarkGoalSynced
  <2> DEFINE f == [file EXCEPT !.synced = rt.goal, !.completed = NoGoal,
                               !.request = NoCommand]
  <2>1. f \in Control /\ f.paused = file.paused /\ f.trigger = file.trigger
    BY <1>1 DEF Control
  <2>2. /\ file' = file \/ file' = f
        /\ rt' = rt
        /\ w' = w \/ (pc' = "rest" /\ w' = Idle)
        /\ pc' \in {"untrigger", "rest"}
        /\ UNCHANGED <<queue, uiGoal, agent, seen>>
    BY <1>5 DEF MarkGoalSynced, Saves, Goes, AfterSend
  <2> HIDE DEF f
  <2> QED
    BY <1>1, <1>2, <2>1, <2>2, SavesIInv DEF Deciding
<1>6. CASE ClearTrigger
  <2> DEFINE f == [file EXCEPT !.trigger = FALSE]
  <2>1. f \in Control /\ f.paused = file.paused /\ ~f.trigger
    BY <1>1 DEF Control
  <2>2. /\ file' = file \/ file' = f
        /\ pc' = "rest" /\ w' = Idle
        /\ UNCHANGED <<queue, uiGoal, agent, seen>>
    BY <1>6 DEF ClearTrigger, Saves, Goes
  <2>3. rt' \in Runtime /\ rt'.waiting = rt.waiting
    BY <1>1, <1>6 DEF ClearTrigger, Saves, Runtime
  <2> HIDE DEF f
  <2> QED
    BY <1>2, <2>1, <2>2, <2>3, SavesIInv DEF Deciding
<1> QED
  BY <1>3, <1>4, <1>5, <1>6

(* What is read is the control state as it is now, or a pause.             *)
LEMMA ReadControlStateIInv == ASSUME IInv, ReadControlState PROVE IInv'
<1> USE DEF IInv
<1> DEFINE Read(cs) ==
        LET stuck == IF rt.requestStuck = cs.request THEN cs.request
                                                     ELSE NoCommand
            explicit == Explicit(cs, stuck)
            wanted == /\ cs.goalOn /\ rt.pendingGoal = NoCommand
                      /\ ~rt.synced \/ explicit # NoCommand
        IN  /\ w' = [w EXCEPT !.cs = cs]
            /\ rt' = [rt EXCEPT
                        !.triggerStuck = @ /\ cs.trigger,
                        !.requestStuck = stuck,
                        !.pendingGoal = IF wanted /\ explicit # NoCommand
                                        THEN explicit ELSE @]
            /\ pc' = IF ~wanted THEN "pop"
                     ELSE IF explicit # NoCommand THEN "clear" ELSE "goal"
<1>1. PICK cs \in {file, Unreadable} : Read(cs)
  <2> DEFINE Seen == {file} \cup (IF "read" \in Faults THEN {Unreadable} ELSE {})
  <2>1. \E cs \in Seen : Read(cs)
    BY DEF ReadControlState
  <2>2. Seen \subseteq {file, Unreadable}
    OBVIOUS
  <2> HIDE DEF Read, Seen
  <2> QED
    BY <2>1, <2>2
<1>2. UNCHANGED <<file, queue, uiGoal, agent, seen>> /\ pc = "read"
  BY DEF ReadControlState
<1>3. /\ cs \in Control /\ cs.trigger \in BOOLEAN
      /\ cs.request \in GoalCommand \cup {NoCommand}
      /\ cs.paused => ~cs.trigger
      /\ cs = file \/ cs.paused
  BY UnreadableType DEF TypeOK, PauseInv, Control, Unreadable
<1>4. rt' \in Runtime /\ rt'.waiting = rt.waiting
  <2> DEFINE M == GoalCommand \cup {NoCommand}
  <2>1. PICK triggerStuck \in BOOLEAN, stuck \in M, command \in M :
          rt' = [rt EXCEPT !.triggerStuck = triggerStuck,
                           !.requestStuck = stuck, !.pendingGoal = command]
    <3>1. rt.pendingGoal \in M /\ rt.triggerStuck \in BOOLEAN
      BY DEF TypeOK, Runtime
    <3>2. \A stuck : Explicit(cs, stuck) \in M
      BY <1>3 DEF Explicit
    <3> QED
      BY <1>1, <1>3, <3>1, <3>2
  <2> QED
    BY <2>1 DEF TypeOK, Runtime
<1>5. /\ w' \in [canSend : BOOLEAN, cs : Control, hand : Prompt \cup {NoPrompt}]
      /\ w'.hand = w.hand /\ w'.cs = cs /\ w.hand = NoPrompt
  BY <1>1, <1>2, <1>3 DEF TypeOK, HandInv, Manual
<1>6. pc' \in {"goal", "clear", "pop"}
  BY <1>1
<1>7. TypeOK'
  BY <1>2, <1>4, <1>5, <1>6 DEF TypeOK
<1>8. OnceInv' /\ HandInv'
  BY <1>2, <1>5, <1>6, OnceSame DEF HandInv, Manual
<1>9. PauseInv'
  BY <1>2, <1>3, <1>5 DEF PauseInv
<1> QED
  BY <1>2, <1>4, <1>7, <1>8, <1>9 DEF WaitInv

LEMMA SyncGoalIInv == ASSUME IInv, SyncGoal PROVE IInv'
<1> USE DEF IInv
<1>1. UNCHANGED <<file, queue, uiGoal, agent, w, seen>> /\ pc = "goal" /\ pc' = "pop"
  BY DEF SyncGoal
<1>2. rt' \in Runtime /\ rt'.waiting = rt.waiting
  <2>1. rt \in Runtime /\ rt.goal \in Goal
    BY DEF TypeOK, Runtime
  <2>2. \A a \in {"set", "resume"} : Command(a, rt.goal) \in GoalCommand
    BY <2>1, CommandType
  <2>3. PICK a \in {"set", "resume"} :
          rt' = rt \/ rt' = [rt EXCEPT !.pendingGoal = Command(a, rt.goal)]
    BY DEF SyncGoal
  <2> QED
    BY <2>1, <2>2, <2>3 DEF Runtime
<1>3. TypeOK'
  BY <1>1, <1>2 DEF TypeOK
<1>4. OnceInv' /\ HandInv' /\ PauseInv'
  BY <1>1, OnceSame, PauseSame DEF HandInv, Manual, Deciding
<1> QED
  BY <1>1, <1>2, <1>3, <1>4 DEF WaitInv

(* Taking the first prompt of a queue that holds each once.                *)
LEMMA PopOnce ==
    ASSUME queue \in Seq(Prompt), queue # <<>>, queue' = Tail(queue),
           \A i, j \in 1..Len(queue) : queue[i] = queue[j] => i = j
    PROVE  /\ queue' \in Seq(Prompt) /\ Head(queue) \in Prompt
           /\ \A i, j \in 1..Len(queue') : queue'[i] = queue'[j] => i = j
           /\ \A q : Waiting(q)' <=> Waiting(q) /\ q # Head(queue)
           /\ Waiting(Head(queue))
<1>1. /\ queue' \in Seq(Prompt) /\ Head(queue) = queue[1]
      /\ Head(queue) \in Prompt
      /\ Len(queue) \in Nat /\ Len(queue) > 0
      /\ Len(queue') = Len(queue) - 1
      /\ \A i \in 1..Len(queue') : queue'[i] = queue[i + 1]
  OBVIOUS
<1>2. \A i, j \in 1..Len(queue') : queue'[i] = queue'[j] => i = j
  <2> SUFFICES ASSUME NEW i \in 1..Len(queue'), NEW j \in 1..Len(queue'),
                      queue'[i] = queue'[j]
               PROVE  i = j
    OBVIOUS
  <2>1. /\ i + 1 \in 1..Len(queue) /\ j + 1 \in 1..Len(queue)
        /\ queue[i + 1] = queue[j + 1]
    BY <1>1
  <2>2. i + 1 = j + 1
    BY <2>1
  <2> QED
    BY <2>2
<1>3. Waiting(Head(queue))
  <2>1. 1 \in 1..Len(queue)
    BY <1>1
  <2> QED
    BY <1>1, <2>1 DEF Waiting
<1>4. ASSUME NEW q, Waiting(q)' PROVE Waiting(q) /\ q # Head(queue)
  <2>1. PICK i \in 1..Len(queue') : queue'[i] = q
    BY <1>4 DEF Waiting
  <2>2. /\ i + 1 \in 1..Len(queue) /\ 1 \in 1..Len(queue) /\ i + 1 # 1
        /\ queue[i + 1] = q
    BY <1>1, <2>1
  <2>3. q # queue[1]
    BY <2>2
  <2> QED
    BY <1>1, <2>2, <2>3 DEF Waiting
<1>5. ASSUME NEW q, Waiting(q), q # Head(queue) PROVE Waiting(q)'
  <2>1. PICK i \in 1..Len(queue) : queue[i] = q
    BY <1>5 DEF Waiting
  <2>2. i # 1
    BY <1>1, <1>5, <2>1
  <2>3. i - 1 \in 1..Len(queue') /\ (i - 1) + 1 = i
    BY <1>1, <2>2
  <2>4. queue'[i - 1] = q
    BY <1>1, <2>1, <2>3
  <2> QED
    BY <2>3, <2>4 DEF Waiting
<1> QED
  BY <1>1, <1>2, <1>3, <1>4, <1>5

LEMMA PopManualPromptIInv == ASSUME IInv, PopManualPrompt PROVE IInv'
<1> USE DEF IInv
<1>1. /\ UNCHANGED <<file, uiGoal, rt, agent, seen>>
      /\ pc = "pop" /\ pc' = "choose" /\ w.hand = NoPrompt
  BY DEF PopManualPrompt, HandInv, Manual
<1>2. CASE UNCHANGED <<w, queue>>
  <2>1. TypeOK'
    BY <1>1, <1>2 DEF TypeOK
  <2>2. OnceInv' /\ HandInv' /\ PauseInv'
    BY <1>1, <1>2, OnceSame, PauseSame DEF HandInv, Manual, Deciding
  <2> QED
    BY <1>1, <2>1, <2>2 DEF WaitInv
<1>3. CASE /\ queue # <<>> /\ queue' = Tail(queue)
           /\ w' = [w EXCEPT !.hand = Head(queue)]
  <2>1. /\ queue' \in Seq(Prompt) /\ Head(queue) \in Prompt
        /\ \A i, j \in 1..Len(queue') : queue'[i] = queue'[j] => i = j
        /\ \A q : Waiting(q)' <=> Waiting(q) /\ q # Head(queue)
        /\ Waiting(Head(queue))
    BY <1>3, PopOnce DEF TypeOK, OnceInv, ManualPromptOnce
  <2>2. /\ w' \in [canSend : BOOLEAN, cs : Control, hand : Prompt \cup {NoPrompt}]
        /\ w'.hand = Head(queue) /\ w'.cs = w.cs
    BY <1>3, <2>1 DEF TypeOK
  <2>3. TypeOK'
    BY <1>1, <2>1, <2>2 DEF TypeOK
  <2>4. OnceInv'
    BY <1>1, <2>1, <2>2 DEF OnceInv, ManualPromptOnce, Held
  <2>5. HandInv' /\ PauseInv'
    BY <1>1, <2>2, PauseSame DEF HandInv, Deciding
  <2> QED
    BY <1>1, <2>3, <2>4, <2>5 DEF WaitInv
<1> QED
  BY <1>2, <1>3 DEF PopManualPrompt

(* Coming to rest, or going on with a prompt that has to be put back.      *)
LEMMA GoesIInv ==
    ASSUME IInv, NEW next \in {"rest", "requeue"}, Goes(next, w),
           next = "requeue" => Manual,
           rt' \in Runtime, rt'.waiting = rt.waiting \/ ~seen'.unanswered,
           seen' \in History, seen'.asked = seen.asked,
           seen'.typed = seen.typed, seen'.late = seen.late,
           seen'.unanswered => seen.unanswered,
           UNCHANGED <<file, queue, uiGoal, agent>>
    PROVE  IInv'
<1> USE DEF IInv
<1>1. pc' = next /\ w' = IF next = "rest" THEN Idle ELSE w
  BY DEF Goes
<1>2. /\ w' \in [canSend : BOOLEAN, cs : Control, hand : Prompt \cup {NoPrompt}]
      /\ w'.hand = w.hand \/ w'.hand = NoPrompt
  BY <1>1, IdleType DEF TypeOK, Idle
<1>3. TypeOK'
  BY <1>1, <1>2 DEF TypeOK
<1>4. OnceInv'
  BY <1>2, OnceSame
<1>5. HandInv'
  <2>1. CASE next = "rest"
    BY <1>1, <2>1, RestHand
  <2>2. CASE next = "requeue"
    BY <1>1, <2>2 DEF HandInv, Manual
  <2> QED
    BY <2>1, <2>2
<1>6. PauseInv'
  BY <1>1, PauseSame DEF Deciding
<1> QED
  BY <1>3, <1>4, <1>5, <1>6 DEF WaitInv

LEMMA StaysIInv ==
    ASSUME IInv,
           \/ HoldBack \/ StayQuiet \/ SkipBlank
           \/ \E kind \in Kinds : SendFails(kind)
    PROVE  IInv'
<1> USE DEF IInv
<1>1. rt \in Runtime /\ seen \in History
  BY DEF TypeOK
<1>2. CASE HoldBack
  BY <1>1, <1>2, GoesIInv DEF HoldBack
<1>3. CASE StayQuiet
  BY <1>1, <1>3, GoesIInv DEF StayQuiet
<1>4. CASE SkipBlank
  <2>1. rt' \in Runtime /\ rt'.waiting = rt.waiting
    BY <1>1, <1>4 DEF SkipBlank, Runtime
  <2> QED
    BY <1>1, <1>4, <2>1, GoesIInv DEF SkipBlank
<1>5. ASSUME NEW kind \in Kinds, SendFails(kind) PROVE IInv'
  <2>1. rt' \in Runtime
    BY <1>1, <1>5 DEF SendFails, Runtime
  <2>2. /\ seen' \in History /\ seen'.late = seen.late /\ ~seen'.unanswered
        /\ seen'.asked = seen.asked /\ seen'.typed = seen.typed
    BY <1>1, <1>5 DEF SendFails, History
  <2>3. kind = "manual" => Manual
    BY <1>5 DEF SendFails, Sends, Chosen
  <2> QED
    BY <1>5, <2>1, <2>2, <2>3, GoesIInv DEF SendFails
<1> QED
  BY <1>2, <1>3, <1>4, <1>5

(* A worker that saw the pause follows a goal command only.                *)
LEMMA PausedSendsGoalOnly ==
    ASSUME PauseInv, NEW kind, Sends(kind), kind \notin {"manual", "goal"}
    PROVE  ~w.cs.paused
<1>1. ~Manual /\ rt.pendingGoal = NoCommand
  BY DEF Sends, Chosen
<1>2. ByTrigger \/ ByContinuation
  BY <1>1 DEF Sends, MaySend, AutomaticRequested, ByGoal
<1> QED
  BY <1>2 DEF ByTrigger, ByContinuation, PauseInv, Deciding, Sends

(* An automatic prompt is sent only when none is awaited.                  *)
LEMMA SendsAnswered ==
    ASSUME WaitInv, NEW kind, Sends(kind), kind # "manual"
    PROVE  ~seen.unanswered
<1>1. ~rt.waiting
  BY DEF Sends, MaySend, Chosen
<1> QED
  BY <1>1 DEF WaitInv

LEMMA SendPromptIInv ==
    ASSUME IInv, NEW kind \in Kinds, SendPrompt(kind)
    PROVE  IInv'
<1> USE DEF IInv
<1>1. /\ Sends(kind) /\ rt' = Delivered(kind) /\ seen' = Remembered(kind)
      /\ agent' = [agent EXCEPT !.awaiting = TRUE, !.reply = "none"]
      /\ Goes(AfterSend(kind), [w EXCEPT !.hand = NoPrompt])
      /\ UNCHANGED <<file, queue, uiGoal>>
  BY DEF SendPrompt
<1>2. pc = "choose" /\ (kind = "manual" <=> Manual)
  BY <1>1 DEF Sends, Chosen
<1>3. pc' \in {"sync", "untrigger", "rest"}
  BY <1>1 DEF Goes, AfterSend
<1>4. /\ w' \in [canSend : BOOLEAN, cs : Control, hand : Prompt \cup {NoPrompt}]
      /\ w'.hand = NoPrompt
  BY <1>1, IdleType DEF TypeOK, Goes, Idle
<1>5. agent' \in [awaiting : BOOLEAN, view : View, reply : Reply]
      /\ agent'.reply = "none"
  BY <1>1 DEF TypeOK, Reply
<1>6. rt' \in Runtime /\ rt'.waiting = (kind # "manual")
  <2> DEFINE C == IF kind = "goal" THEN NoCommand ELSE rt.pendingGoal
             I == IF kind = "initial" THEN "none" ELSE rt.initial
             N == rt.continuation /\ kind # "continuation"
             A == rt.active \/ kind = "goal"
             S == rt.synced \/ kind = "goal"
             E == rt.requeueError /\ kind # "manual"
             M == kind # "manual"
  <2>1. /\ C \in GoalCommand \cup {NoCommand}
        /\ I \in {"none", "blank", "text"}
    BY DEF TypeOK, Runtime
  <2>2. /\ N \in BOOLEAN /\ A \in BOOLEAN /\ S \in BOOLEAN /\ E \in BOOLEAN
        /\ M \in BOOLEAN
    BY DEF TypeOK, Runtime
  <2>3. rt' = [rt EXCEPT !.pendingGoal = C, !.continuation = N, !.initial = I,
                         !.active = A, !.synced = S, !.waiting = M,
                         !.requeueError = E, !.due = FALSE]
    BY <1>1 DEF Delivered
  <2>4. rt \in Runtime
    BY DEF TypeOK
  <2> HIDE DEF C, I, N, A, S, E, M
  <2>5. rt' \in Runtime
    <3> DEFINE r1 == [rt EXCEPT !.pendingGoal = C, !.continuation = N]
               r2 == [r1 EXCEPT !.initial = I, !.active = A]
               r3 == [r2 EXCEPT !.synced = S, !.waiting = M]
               r4 == [r3 EXCEPT !.requeueError = E, !.due = FALSE]
    <3>1. rt' = r4
      BY <2>3
    <3> HIDE DEF r4
    <3>2. r1 \in Runtime
      BY <2>1, <2>2, <2>4 DEF Runtime
    <3> HIDE DEF r1
    <3>3. r2 \in Runtime
      BY <2>1, <2>2, <3>2 DEF Runtime
    <3> HIDE DEF r2
    <3>4. r3 \in Runtime
      BY <2>2, <3>3 DEF Runtime
    <3> HIDE DEF r3
    <3>5. r4 \in Runtime
      BY <2>2, <3>4 DEF Runtime, r4
    <3> QED
      BY <3>1, <3>5
  <2>6. rt'.waiting = M
    BY <2>3, <2>4 DEF Runtime
  <2> QED
    BY <2>5, <2>6 DEF M
<1>7. seen \in History /\ w.hand \in Prompt \cup {NoPrompt}
  BY DEF TypeOK
<1>8. kind = "manual" => w.hand \in Prompt
  BY <1>2, <1>7 DEF Manual
<1>9. /\ seen' \in History /\ seen'.asked = seen.asked
      /\ seen'.typed = IF kind = "manual" THEN seen.typed \cup {w.hand}
                       ELSE seen.typed
      /\ seen'.unanswered = (kind # "manual")
      /\ seen'.late = IF kind \notin {"manual", "goal"} /\ file.paused
                      THEN Capped(seen.late + 1) ELSE seen.late
  <2>1. \A n \in 0..2 : Capped(n + 1) \in 0..2
    BY DEF Capped
  <2>2. PICK late \in 0..2, early \in 0..2, budget \in Int,
             typed \in SUBSET Prompt, goal \in Goal \cup {NoGoal} :
          /\ seen' = [seen EXCEPT
                        !.typed = typed, !.late = late, !.early = early,
                        !.budget = budget, !.unanswered = kind # "manual",
                        !.goal = goal]
          /\ typed = IF kind = "manual" THEN seen.typed \cup {w.hand}
                     ELSE seen.typed
          /\ late = IF kind \notin {"manual", "goal"} /\ file.paused
                    THEN Capped(seen.late + 1) ELSE seen.late
    <3> DEFINE L == IF kind \notin {"manual", "goal"} /\ file.paused
                    THEN Capped(seen.late + 1) ELSE seen.late
               E == IF kind \notin {"manual", "goal"} /\ ~ByContinuation
                    THEN Capped(seen.early + 1) ELSE seen.early
               B == IF kind = "goal" THEN seen.budget - 1 ELSE seen.budget
               T == IF kind = "manual" THEN seen.typed \cup {w.hand}
                    ELSE seen.typed
               G == IF kind = "goal" /\ rt.pendingGoal.action = "set"
                    THEN rt.pendingGoal.goal ELSE seen.goal
    <3>1. L \in 0..2 /\ E \in 0..2 /\ B \in Int /\ T \in SUBSET Prompt
      BY <1>7, <1>8, <2>1 DEF History
    <3>2. G \in Goal \cup {NoGoal}
      BY <1>7 DEF History, TypeOK, Runtime, GoalCommand, NoCommand
    <3>3. seen' = [seen EXCEPT
                     !.typed = T, !.late = L, !.early = E, !.budget = B,
                     !.unanswered = kind # "manual", !.goal = G]
      BY <1>1 DEF Remembered
    <3> HIDE DEF L, E, B, T, G
    <3> QED
      BY <3>1, <3>2, <3>3 DEF L, T
  <2> QED
    BY <1>7, <2>2 DEF History
<1>10. TypeOK'
  BY <1>1, <1>3, <1>4, <1>5, <1>6, <1>9 DEF TypeOK
<1>11. OnceInv'
  BY <1>1, <1>2, <1>4, <1>8, <1>9, PromptsAssumption
     DEF PromptsAssumption, OnceInv, ManualPromptOnce, Held, Waiting
<1>12. HandInv'
  BY <1>3, <1>4 DEF HandInv, Manual
<1>13. PauseInv'
  <2>1. file.paused /\ kind \notin {"manual", "goal"} => seen.late = 0
    BY <1>1, <1>2, PausedSendsGoalOnly DEF PauseInv, Deciding
  <2>2. Capped(0 + 1) = 1
    BY DEF Capped
  <2> QED
    BY <1>1, <1>3, <1>9, <2>1, <2>2 DEF PauseInv, Deciding
<1>14. WaitInv'
  BY <1>5, <1>6, <1>9 DEF WaitInv
<1> QED
  BY <1>10, <1>11, <1>12, <1>13, <1>14

LEMMA RequeueIInv == ASSUME IInv, RequeueManualPrompt PROVE IInv'
<1> USE DEF IInv
<1>1. /\ UNCHANGED <<file, uiGoal, agent, seen>> /\ pc = "requeue"
      /\ pc' = "rest" /\ w' = Idle /\ w'.hand = NoPrompt
  BY DEF RequeueManualPrompt, Goes, Idle
<1>2. rt' \in Runtime /\ rt'.waiting = rt.waiting
  BY ZenonT(60) DEF RequeueManualPrompt, TypeOK, Runtime
<1>3. w.hand \in Prompt /\ ~Waiting(w.hand)
  BY <1>1 DEF HandInv, Manual, TypeOK, OnceInv, ManualPromptOnce
<1>4. queue' \in Seq(Prompt) /\ OnceInv'
  <2>1. CASE queue' = queue
    BY <1>1, <2>1, OnceSame DEF TypeOK
  <2>2. CASE queue' = Append(queue, w.hand)
    <3>1. /\ queue' \in Seq(Prompt)
          /\ \A i, j \in 1..Len(queue') : queue'[i] = queue'[j] => i = j
          /\ \A q : Waiting(q)' <=> Waiting(q) \/ q = w.hand
      BY <1>3, <2>2, AppendOnce DEF TypeOK, OnceInv, ManualPromptOnce
    <3> QED
      BY <1>1, <1>3, <3>1, PromptsAssumption
         DEF PromptsAssumption, OnceInv, ManualPromptOnce, Held
  <2> QED
    BY <2>1, <2>2 DEF RequeueManualPrompt
<1>5. TypeOK'
  BY <1>1, <1>2, <1>4, IdleType DEF TypeOK
<1>6. HandInv' /\ PauseInv'
  BY <1>1, RestHand, PauseSame DEF Deciding
<1> QED
  BY <1>1, <1>2, <1>4, <1>5, <1>6 DEF WaitInv

-----------------------------------------------------------------------------
(* Every step, and the theorems.                                           *)

LEMMA NextIInv == IInv /\ [Next]_vars => IInv'
<1> SUFFICES ASSUME IInv, [Next]_vars PROVE IInv'
  OBVIOUS
<1>1. CASE Agent
  BY <1>1, AgentIInv, TimePassesIInv DEF Agent
<1>2. CASE Others
  BY <1>2, RelaunchIInv, CrashIInv, AgentIInv, ControlIInv, ConfigIInv, EnqueueIInv,
     NoteFailureIInv DEF Others
<1>3. CASE DrivePrompt
  BY <1>3, RetrySubmitIInv, CheckIdleIInv, UpdatesIInv, ReadControlStateIInv,
     SyncGoalIInv, PopManualPromptIInv, StaysIInv, SendPromptIInv, RequeueIInv
     DEF DrivePrompt
<1>4. CASE UNCHANGED vars
  <2>1. /\ UNCHANGED <<file, queue, uiGoal, rt, agent, pc, w, seen>>
    BY <1>4 DEF vars
  <2>2. TypeOK'
    BY <2>1 DEF TypeOK, IInv
  <2>3. OnceInv' /\ HandInv' /\ PauseInv'
    BY <2>1, OnceSame, HandSame, PauseSame DEF IInv, Deciding
  <2> QED
    BY <2>1, <2>2, <2>3 DEF IInv, WaitInv
<1> QED
  BY <1>1, <1>2, <1>3, <1>4 DEF Next

LEMMA SpecIInv == Spec => []IInv
<1>1. Init => IInv
  BY InitIInv
<1>2. IInv /\ [Next]_vars => IInv'
  BY NextIInv
<1> QED
  BY <1>1, <1>2, PTL DEF Spec

(* A step that leaves the queue alone and empties no hand keeps a prompt.  *)
LEMMA HeldSame ==
    ASSUME NEW p \in Prompt, Held(p), queue' = queue, ~Manual \/ w'.hand = w.hand
    PROVE  Held(p)'
BY PromptsAssumption DEF PromptsAssumption, Held, Waiting, Manual

LEMMA StepKept ==
    ASSUME IInv, [Next]_vars, NEW p \in Prompt, Held(p)
    PROVE  Held(p)' \/ p \in seen'.typed \cup seen'.died \/ rt'.requeueError
<1> USE DEF IInv
<1>1. CASE UNCHANGED <<queue, w>>
  BY <1>1, HeldSame
<1>2. CASE Enqueue
  <2>1. PICK q \in Prompt \ seen.asked :
          /\ queue' = Append(queue, q)
          /\ seen' = [seen EXCEPT !.asked = @ \cup {q}]
    BY <1>2 DEF Enqueue
  <2>2. ~Waiting(q)
    BY DEF OnceInv, ManualPromptOnce, Held
  <2>3. \A r : Waiting(r)' <=> Waiting(r) \/ r = q
    BY <2>1, <2>2, AppendOnce DEF TypeOK, OnceInv, ManualPromptOnce
  <2> QED
    BY <1>2, <2>3 DEF Enqueue, Held
<1>3. CASE CheckIdle
  <2>1. ~Manual /\ queue' = queue
    BY <1>3 DEF CheckIdle, HandInv
  <2> QED
    BY <2>1, HeldSame
<1>4. CASE ReadControlState
  <2>1. ~Manual /\ queue' = queue
    BY <1>4 DEF ReadControlState, HandInv
  <2> QED
    BY <2>1, HeldSame
<1>5. CASE MarkGoalSynced \/ ClearTrigger
  <2>1. ~Manual /\ queue' = queue
    BY <1>5 DEF MarkGoalSynced, ClearTrigger, HandInv
  <2> QED
    BY <2>1, HeldSame
<1>6. CASE PopManualPrompt
  <2>1. CASE UNCHANGED <<w, queue>>
    BY <2>1, HeldSame
  <2>2. CASE /\ queue # <<>> /\ queue' = Tail(queue)
             /\ w' = [w EXCEPT !.hand = Head(queue)]
    <3>1. \A q : Waiting(q)' <=> Waiting(q) /\ q # Head(queue)
      BY <2>2, PopOnce DEF TypeOK, OnceInv, ManualPromptOnce
    <3>2. w.hand = NoPrompt /\ w'.hand = Head(queue)
      BY <1>6, <2>2 DEF PopManualPrompt, HandInv, Manual, TypeOK
    <3> QED
      BY <3>1, <3>2, PromptsAssumption DEF PromptsAssumption, Held
  <2> QED
    BY <1>6, <2>1, <2>2 DEF PopManualPrompt
<1>7. CASE HoldBack \/ StayQuiet \/ SkipBlank
  <2>1. queue' = queue /\ (~Manual \/ w' = w)
    BY <1>7 DEF HoldBack, StayQuiet, SkipBlank, Goes, MaySend, Chosen
  <2> QED
    BY <2>1, HeldSame
<1>8. ASSUME NEW kind \in Kinds, SendFails(kind)
      PROVE  Held(p)'
  <2>1. queue' = queue /\ (~Manual \/ w' = w)
    BY <1>8 DEF SendFails, Sends, Chosen, Goes
  <2> QED
    BY <2>1, HeldSame
<1>9. ASSUME NEW kind \in Kinds, SendPrompt(kind)
      PROVE  Held(p)' \/ p \in seen'.typed
  <2>1. CASE kind = "manual" /\ w.hand = p
    BY <1>9, <2>1 DEF SendPrompt, Remembered, TypeOK, History
  <2>2. CASE kind = "manual" /\ w.hand # p
    BY <1>9, <2>2 DEF SendPrompt, Held, Waiting
  <2>3. CASE kind # "manual"
    <3>1. ~Manual /\ queue' = queue
      BY <1>9, <2>3 DEF SendPrompt, Sends, Chosen
    <3> QED
      BY <3>1, HeldSame
  <2> QED
    BY <2>1, <2>2, <2>3
<1>10. CASE RequeueManualPrompt
  <2>1. w.hand \in Prompt /\ ~Waiting(w.hand)
    BY <1>10 DEF RequeueManualPrompt, HandInv, Manual, TypeOK, OnceInv,
                 ManualPromptOnce
  <2>2. CASE queue' = Append(queue, w.hand)
    <3>1. \A q : Waiting(q)' <=> Waiting(q) \/ q = w.hand
      BY <2>1, <2>2, AppendOnce DEF TypeOK, OnceInv, ManualPromptOnce
    <3> QED
      BY <3>1 DEF Held
  <2>3. CASE rt' = [rt EXCEPT !.requeueError = TRUE]
    BY <2>3 DEF TypeOK, Runtime
  <2> QED
    BY <1>10, <2>2, <2>3 DEF RequeueManualPrompt
<1>11. CASE \/ Relaunch \/ AgentReady \/ AgentEchoes \/ AgentStarts
            \/ AgentAnswers \/ AgentFinishes \/ UserTypes \/ UserSubmits
            \/ TimePasses
  BY <1>1, <1>11 DEF Relaunch, AgentReady, AgentEchoes, AgentStarts,
     AgentAnswers, AgentFinishes, UserTypes, UserSubmits, TimePasses,
     AgentBecomes
<1>12. CASE \/ Pause \/ Resume \/ RequestGoal \/ LeaveGoalMode
            \/ LoseControlState \/ EditGoal \/ ReplaceConfig \/ NoteTrigger
            \/ NoteFailure
  BY <1>1, <1>12 DEF Pause, Resume, RequestGoal, LeaveGoalMode,
     LoseControlState, EditGoal, ReplaceConfig, NoteTrigger, NoteFailure, Writes
<1>13. CASE \/ RetrySubmit \/ DisableGoalMode \/ SyncGoal
            \/ ClearGoalRequest \/ UNCHANGED vars
  BY <1>1, <1>13 DEF RetrySubmit, DisableGoalMode, SyncGoal, ClearGoalRequest,
     vars
<1>14. CASE Crash
  <2>1. queue' = queue
        /\ seen'.died = seen.died \cup ({w.hand} \ {NoPrompt})
    BY <1>14 DEF Crash, TypeOK, History
  <2>2. CASE w.hand = p
    BY <2>1, <2>2, PromptsAssumption DEF PromptsAssumption
  <2>3. CASE Waiting(p)
    BY <2>1, <2>3 DEF Held, Waiting
  <2> QED
    BY <2>2, <2>3 DEF Held
<1> QED
  BY <1>2, <1>3, <1>4, <1>5, <1>6, <1>7, <1>8, <1>9, <1>10, <1>11, <1>12, <1>13,
     <1>14
     DEF Next, Agent, Others, DrivePrompt

(* Every variable keeps to the values of the fields it models.             *)
THEOREM SpecTypeOK == Spec => []TypeOK
<1>1. IInv => TypeOK
  BY DEF IInv
<1> QED
  BY <1>1, SpecIInv, PTL

(* However often a manual prompt is popped, held back and requeued, it is  *)
(* in one place at a time and is not typed twice.                          *)
THEOREM SpecManualPromptOnce == Spec => []ManualPromptOnce
<1>1. IInv => ManualPromptOnce
  BY DEF IInv, OnceInv
<1> QED
  BY <1>1, SpecIInv, PTL

(* After the user pauses, at most the automatic prompt under way goes out. *)
THEOREM SpecPauseStops == Spec => []PauseStops
<1>1. IInv => PauseStops
  BY DEF IInv, PauseInv, PauseStops
<1> QED
  BY <1>1, SpecIInv, PTL

(* No automatic prompt is typed on top of another.                         *)
THEOREM SpecNoStackedPrompts == Spec => NoStackedPrompts
<1>1. IInv => (\A kind \in Kinds \ {"manual"} :
                 SendPrompt(kind) => ~seen.unanswered)
  BY SendsAnswered DEF IInv, SendPrompt
<1> QED
  BY <1>1, SpecIInv, PTL DEF NoStackedPrompts

(* A manual prompt leaves queue and worker only by being typed, with an    *)
(* error, or because the program dies.                                     *)
THEOREM SpecManualPromptKept == Spec => ManualPromptKept
<1>1. IInv /\ [Next]_vars =>
        (\A p \in Prompt : Held(p) => \/ Held(p)'
                                      \/ p \in seen'.typed \cup seen'.died
                                      \/ rt'.requeueError)
  BY StepKept
<1> QED
  BY <1>1, SpecIInv, PTL DEF ManualPromptKept, Spec

-----------------------------------------------------------------------------
(* The refinement of PromptDelivery.                                       *)

(* A prompt that died with the program had been asked for and is nowhere.  *)
DiedInv ==
    \A p \in Prompt : p \in seen.died => p \in seen.asked /\ ~Held(p)

WhereNow == [p \in Prompt |-> WhereIs(p)]

(* Nothing happens to a manual prompt.                                     *)
Unmoved ==
    /\ queue' = queue /\ w'.hand = w.hand
    /\ seen'.asked = seen.asked /\ seen'.typed = seen.typed /\ seen'.died = seen.died

(* Only prompt p moves.                                                    *)
OthersStay(p) == \A q \in Prompt \ {p} : WhereIs(q)' = WhereIs(q)

LEMMA UnmovedMaps ==
    ASSUME DiedInv, Unmoved, rt'.requeueError \in {rt.requeueError, FALSE}
    PROVE  DiedInv' /\ [Delivery!DeliveryNext]_(Delivery!deliveryVars)
<1>1. \A p \in Prompt : /\ Waiting(p)' <=> Waiting(p)
                        /\ Held(p)' <=> Held(p)
                        /\ WhereIs(p)' = WhereIs(p)
  BY DEF Unmoved, Waiting, Held, WhereIs
<1>2. DiedInv'
  BY <1>1 DEF DiedInv, Unmoved
<1>3. WhereNow' = WhereNow
  BY <1>1 DEF WhereNow
<1> QED
  BY <1>2, <1>3 DEF WhereNow, Delivery!DeliveryNext, Delivery!Dismiss,
                    Delivery!deliveryVars

(* Prompt p moves, and where to.                                           *)
LEMMA MovesMaps ==
    ASSUME NEW p \in Prompt, NEW a, NEW b, WhereIs(p) = a, WhereIs(p)' = b,
           OthersStay(p)
    PROVE  Delivery!Moves(p, a, b)
<1>1. WhereNow' = [WhereNow EXCEPT ![p] = b]
  BY DEF WhereNow, OthersStay
<1> QED
  BY <1>1 DEF WhereNow, Delivery!Moves

LEMMA EnqueueMaps ==
    ASSUME IInv, DiedInv, Enqueue
    PROVE  DiedInv' /\ Delivery!DeliveryNext
<1> USE DEF IInv
<1>1. PICK p \in Prompt \ seen.asked :
        /\ queue' = Append(queue, p)
        /\ seen' = [seen EXCEPT !.asked = @ \cup {p}]
  BY DEF Enqueue
<1>2. /\ seen'.asked = seen.asked \cup {p} /\ seen'.typed = seen.typed
      /\ seen'.died = seen.died /\ w' = w /\ rt' = rt
  BY <1>1 DEF Enqueue, TypeOK, History
<1>3. ~Waiting(p) /\ w.hand # p /\ p \notin seen.typed /\ p \notin seen.died
  BY <1>1 DEF OnceInv, ManualPromptOnce, Held, DiedInv
<1>4. \A r : Waiting(r)' <=> Waiting(r) \/ r = p
  BY <1>1, <1>3, AppendOnce DEF TypeOK, OnceInv, ManualPromptOnce
<1>5. WhereIs(p) = "unasked" /\ WhereIs(p)' = "waiting" /\ OthersStay(p)
  BY <1>1, <1>2, <1>3, <1>4 DEF WhereIs, OthersStay
<1>6. Delivery!Ask(p)
  BY <1>2, <1>5, MovesMaps DEF Delivery!Ask
<1>7. DiedInv'
  BY <1>2, <1>3, <1>4 DEF DiedInv, Held
<1> QED
  BY <1>6, <1>7 DEF Delivery!DeliveryNext

LEMMA PopMaps ==
    ASSUME IInv, DiedInv, PopManualPrompt
    PROVE  DiedInv' /\ [Delivery!DeliveryNext]_(Delivery!deliveryVars)
<1> USE DEF IInv
<1>1. UNCHANGED <<rt, seen>>
  BY DEF PopManualPrompt
<1>2. CASE UNCHANGED <<w, queue>>
  BY <1>1, <1>2, UnmovedMaps DEF Unmoved
<1>3. CASE /\ queue # <<>> /\ queue' = Tail(queue)
           /\ w' = [w EXCEPT !.hand = Head(queue)]
  <2>1. PICK p \in Prompt :
          /\ p = Head(queue) /\ Waiting(p)
          /\ \A q : Waiting(q)' <=> Waiting(q) /\ q # p
    BY <1>3, PopOnce DEF TypeOK, OnceInv, ManualPromptOnce
  <2>2. w.hand = NoPrompt /\ w'.hand = p
    BY <1>3, <2>1 DEF PopManualPrompt, HandInv, Manual, TypeOK
  <2>3. p \notin seen.typed /\ p \notin seen.died
    BY <2>1 DEF OnceInv, ManualPromptOnce, Held, DiedInv
  <2>4. \A q \in Prompt : w.hand # q
    BY <2>2, PromptsAssumption DEF PromptsAssumption
  <2>5. WhereIs(p) = "waiting" /\ WhereIs(p)' = "held" /\ OthersStay(p)
    BY <1>1, <2>1, <2>2, <2>3, <2>4 DEF WhereIs, OthersStay
  <2>6. \A q \in Prompt : WhereIs(q) # "held"
    BY <2>4 DEF WhereIs
  <2>7. Delivery!Take(p)
    BY <1>1, <2>1, <2>5, <2>6, MovesMaps DEF Delivery!Take
  <2>8. DiedInv'
    BY <1>1, <2>1, <2>2, <2>3, <2>4 DEF DiedInv, Held
  <2> QED
    BY <2>1, <2>7, <2>8 DEF Delivery!DeliveryNext
<1> QED
  BY <1>2, <1>3 DEF PopManualPrompt

LEMMA SendMaps ==
    ASSUME IInv, DiedInv, NEW kind \in Kinds, SendPrompt(kind)
    PROVE  DiedInv' /\ [Delivery!DeliveryNext]_(Delivery!deliveryVars)
<1> USE DEF IInv
<1>1. /\ seen' = Remembered(kind) /\ rt' = Delivered(kind) /\ queue' = queue
      /\ w'.hand = NoPrompt /\ (kind = "manual" <=> Manual)
  BY DEF SendPrompt, Sends, Chosen, Goes, Idle, TypeOK
<1>2. /\ seen'.asked = seen.asked /\ seen'.died = seen.died
      /\ seen'.typed = IF kind = "manual" THEN seen.typed \cup {w.hand}
                       ELSE seen.typed
      /\ rt'.requeueError = (rt.requeueError /\ kind # "manual")
  BY <1>1 DEF Remembered, Delivered, TypeOK, History, Runtime
<1>3. CASE kind # "manual"
  BY <1>1, <1>2, <1>3, UnmovedMaps DEF Unmoved, Manual, TypeOK, Runtime
<1>4. CASE kind = "manual"
  <2>1. PICK p \in Prompt :
          p = w.hand /\ p # NoPrompt /\ ~Waiting(p) /\ p \notin seen.died
    BY <1>1, <1>4 DEF Manual, TypeOK, OnceInv, ManualPromptOnce, DiedInv, Held
  <2>2. \A q : Waiting(q)' <=> Waiting(q)
    BY <1>1 DEF Waiting
  <2>3. WhereIs(p) = "held" /\ WhereIs(p)' = "typed" /\ OthersStay(p)
    BY <1>1, <1>2, <1>4, <2>1, <2>2, PromptsAssumption
       DEF PromptsAssumption, WhereIs, OthersStay
  <2>4. Delivery!Type(p)
    BY <1>2, <1>4, <2>1, <2>3, MovesMaps DEF Delivery!Type
  <2>5. DiedInv'
    BY <1>1, <1>2, <2>1, <2>2, PromptsAssumption
       DEF PromptsAssumption, DiedInv, Held
  <2> QED
    BY <2>1, <2>4, <2>5 DEF Delivery!DeliveryNext
<1> QED
  BY <1>3, <1>4

LEMMA RequeueMaps ==
    ASSUME IInv, DiedInv, RequeueManualPrompt
    PROVE  DiedInv' /\ Delivery!DeliveryNext
<1> USE DEF IInv
<1>1. PICK p \in Prompt :
        /\ p = w.hand /\ p # NoPrompt /\ ~Waiting(p) /\ p \notin seen.died
        /\ p \notin seen.typed /\ p \in seen.asked
  BY DEF RequeueManualPrompt, HandInv, Manual, TypeOK, OnceInv,
         ManualPromptOnce, DiedInv, Held
<1>2. w'.hand = NoPrompt /\ seen' = seen
  BY DEF RequeueManualPrompt, Goes, Idle
<1>3. CASE queue' = Append(queue, w.hand) /\ rt' = [rt EXCEPT !.requeueError = FALSE]
  <2>1. \A q : Waiting(q)' <=> Waiting(q) \/ q = p
    BY <1>1, <1>3, AppendOnce DEF TypeOK, OnceInv, ManualPromptOnce
  <2>2. WhereIs(p) = "held" /\ WhereIs(p)' = "waiting" /\ OthersStay(p)
    BY <1>1, <1>2, <2>1, PromptsAssumption
       DEF PromptsAssumption, WhereIs, OthersStay
  <2>3. rt'.requeueError = FALSE
    BY <1>3 DEF TypeOK, Runtime
  <2>4. Delivery!PutBack(p)
    BY <1>1, <2>2, <2>3, MovesMaps DEF Delivery!PutBack
  <2>5. DiedInv'
    BY <1>1, <1>2, <2>1, PromptsAssumption DEF PromptsAssumption, DiedInv, Held
  <2> QED
    BY <1>1, <2>4, <2>5 DEF Delivery!DeliveryNext
<1>4. CASE UNCHANGED queue /\ rt' = [rt EXCEPT !.requeueError = TRUE]
  <2>1. \A q : Waiting(q)' <=> Waiting(q)
    BY <1>4 DEF Waiting
  <2>2. WhereIs(p) = "held" /\ WhereIs(p)' = "lost" /\ OthersStay(p)
    BY <1>1, <1>2, <2>1, PromptsAssumption
       DEF PromptsAssumption, WhereIs, OthersStay
  <2>3. rt'.requeueError = TRUE
    BY <1>4 DEF TypeOK, Runtime
  <2>4. Delivery!Lose(p)
    BY <1>1, <2>2, <2>3, MovesMaps DEF Delivery!Lose
  <2>5. DiedInv'
    BY <1>1, <1>2, <2>1, PromptsAssumption DEF PromptsAssumption, DiedInv, Held
  <2> QED
    BY <1>1, <2>4, <2>5 DEF Delivery!DeliveryNext
<1> QED
  BY <1>3, <1>4 DEF RequeueManualPrompt

LEMMA CrashMaps ==
    ASSUME IInv, DiedInv, Crash
    PROVE  DiedInv' /\ [Delivery!DeliveryNext]_(Delivery!deliveryVars)
<1> USE DEF IInv
<1>1. /\ seen'.asked = seen.asked /\ seen'.typed = seen.typed
      /\ seen'.died = seen.died \cup ({w.hand} \ {NoPrompt})
      /\ queue' = queue /\ w'.hand = NoPrompt /\ rt'.requeueError = FALSE
  BY DEF Crash, TypeOK, History, Idle, Launched
<1>2. \A q : Waiting(q)' <=> Waiting(q)
  BY <1>1 DEF Waiting
<1>3. CASE w.hand = NoPrompt
  BY <1>1, <1>3, UnmovedMaps DEF Unmoved
<1>4. CASE w.hand # NoPrompt
  <2>1. PICK p \in Prompt :
          /\ p = w.hand /\ ~Waiting(p) /\ p \notin seen.typed
          /\ p \in seen.asked
    BY <1>4 DEF TypeOK, OnceInv, ManualPromptOnce, Held
  <2>2. WhereIs(p) = "held" /\ WhereIs(p)' = "buried" /\ OthersStay(p)
    BY <1>1, <1>2, <1>4, <2>1, PromptsAssumption
       DEF PromptsAssumption, WhereIs, OthersStay
  <2>3. Delivery!Die(p)
    BY <1>1, <2>1, <2>2, MovesMaps DEF Delivery!Die
  <2>4. DiedInv'
    BY <1>1, <1>2, <2>1, PromptsAssumption DEF PromptsAssumption, DiedInv, Held
  <2> QED
    BY <2>1, <2>3, <2>4 DEF Delivery!DeliveryNext
<1> QED
  BY <1>3, <1>4

(* The other actions leave the manual prompts where they are.              *)
LEMMA OthersUnmoved ==
    ASSUME IInv,
           \/ Agent \/ UserTypes \/ UserSubmits \/ Pause \/ Resume
           \/ RequestGoal \/ LeaveGoalMode \/ LoseControlState \/ EditGoal
           \/ ReplaceConfig \/ NoteTrigger \/ NoteFailure \/ Relaunch
    PROVE  Unmoved /\ rt'.requeueError \in {rt.requeueError, FALSE}
<1>1. seen \in History /\ rt \in Runtime
  BY DEF IInv, TypeOK
<1>2. CASE Agent \/ UserTypes \/ UserSubmits
  BY <1>1, <1>2, ZenonT(60) DEF Agent, AgentReady, AgentEchoes, AgentStarts, AgentAnswers,
     AgentFinishes, TimePasses, UserTypes, UserSubmits, AgentBecomes, Unmoved,
     History, Runtime
<1>3. CASE \/ Pause \/ Resume \/ RequestGoal \/ LeaveGoalMode
           \/ LoseControlState
  BY <1>1, <1>3 DEF Pause, Resume, RequestGoal, LeaveGoalMode, LoseControlState,
     Writes, Unmoved, History
<1>4. CASE EditGoal \/ ReplaceConfig \/ NoteTrigger \/ NoteFailure
  BY <1>1, <1>4 DEF EditGoal, ReplaceConfig, NoteTrigger, NoteFailure, Unmoved,
     History, Runtime
<1>5. CASE Relaunch
  BY <1>1, <1>5 DEF Relaunch, Launched, Unmoved, History
<1> QED
  BY <1>2, <1>3, <1>4, <1>5

LEMMA DriveUnmoved ==
    ASSUME IInv,
           \/ RetrySubmit \/ CheckIdle \/ DisableGoalMode \/ ReadControlState
           \/ SyncGoal \/ ClearGoalRequest \/ HoldBack \/ StayQuiet
           \/ SkipBlank \/ MarkGoalSynced \/ ClearTrigger
           \/ \E kind \in Kinds : SendFails(kind)
    PROVE  Unmoved /\ rt'.requeueError \in {rt.requeueError, FALSE}
<1>1. seen \in History /\ rt \in Runtime
  BY DEF IInv, TypeOK
<1>2. /\ w \in [canSend : BOOLEAN, cs : Control, hand : Prompt \cup {NoPrompt}]
      /\ HandInv
  BY DEF IInv, TypeOK
<1>3. CASE RetrySubmit
  BY <1>1, <1>3 DEF RetrySubmit, Unmoved, History, Runtime
<1>4. CASE CheckIdle
  BY <1>1, <1>2, <1>4 DEF CheckIdle, Unmoved, History, Runtime, HandInv, Manual,
     Idle
<1>5. CASE ReadControlState
  BY <1>1, <1>2, <1>5 DEF ReadControlState, Unmoved, Runtime
<1>6. CASE DisableGoalMode \/ SyncGoal \/ ClearGoalRequest
  BY <1>1, <1>2, <1>6 DEF DisableGoalMode, SyncGoal, ClearGoalRequest, Saves,
     Unmoved, Runtime
<1>7. CASE MarkGoalSynced \/ ClearTrigger
  <2>1. w.hand = NoPrompt /\ w'.hand = NoPrompt
    BY <1>2, <1>7 DEF MarkGoalSynced, ClearTrigger, Goes, Idle, HandInv, Manual,
       AfterSend
  <2> QED
    BY <1>1, <1>7, <2>1 DEF MarkGoalSynced, ClearTrigger, Saves, Unmoved, Runtime
<1>8. CASE HoldBack \/ StayQuiet \/ SkipBlank
  <2>1. w'.hand = w.hand
    BY <1>2, <1>8 DEF HoldBack, StayQuiet, SkipBlank, Goes, Idle, MaySend,
       Chosen, Manual
  <2> QED
    BY <1>1, <1>8, <2>1 DEF HoldBack, StayQuiet, SkipBlank, Unmoved, Runtime
<1>9. ASSUME NEW kind \in Kinds, SendFails(kind)
      PROVE  Unmoved /\ rt'.requeueError \in {rt.requeueError, FALSE}
  BY <1>1, <1>2, <1>9 DEF SendFails, Sends, Chosen, Goes, Idle, Unmoved,
     History, Runtime, Manual
<1> QED
  BY <1>3, <1>4, <1>5, <1>6, <1>7, <1>8, <1>9

LEMMA StepMaps ==
    IInv /\ DiedInv /\ [Next]_vars
      => DiedInv' /\ [Delivery!DeliveryNext]_(Delivery!deliveryVars)
<1> SUFFICES ASSUME IInv, DiedInv, [Next]_vars
             PROVE  DiedInv' /\ [Delivery!DeliveryNext]_(Delivery!deliveryVars)
  OBVIOUS
<1>1. CASE UNCHANGED vars
  BY <1>1, UnmovedMaps DEF vars, Unmoved
<1>2. CASE Agent
  BY <1>2, OthersUnmoved, UnmovedMaps
<1>3. CASE Others
  BY <1>3, OthersUnmoved, UnmovedMaps, EnqueueMaps, CrashMaps DEF Others
<1>4. CASE DrivePrompt
  BY <1>4, DriveUnmoved, UnmovedMaps, PopMaps, SendMaps, RequeueMaps
     DEF DrivePrompt
<1> QED
  BY <1>1, <1>2, <1>3, <1>4 DEF Next

(* Queue file, worker and terminal together implement PromptDelivery: each *)
(* manual prompt is typed at most once, and lost only with a message or    *)
(* with the program, whatever fails.                                       *)
THEOREM SpecDeliversOnce == Spec => DeliversOnce
<1>1. Init => DiedInv /\ Delivery!DeliveryInit
  <2> SUFFICES ASSUME Init PROVE DiedInv /\ Delivery!DeliveryInit
    OBVIOUS
  <2>1. /\ queue = <<>> /\ w.hand = NoPrompt
        /\ seen.asked = {} /\ seen.typed = {} /\ seen.died = {}
        /\ rt.requeueError = FALSE
    BY DEF Init, Idle, Launched
  <2>2. \A p \in Prompt : WhereIs(p) = "unasked"
    BY <2>1, PromptsAssumption DEF PromptsAssumption, WhereIs, Waiting
  <2> QED
    BY <2>1, <2>2 DEF DiedInv, Delivery!DeliveryInit
<1> QED
  BY <1>1, SpecIInv, StepMaps, PTL
     DEF Spec, DeliversOnce, Delivery!DeliverySpec


-----------------------------------------------------------------------------
(* Requests to continue at once, and goal commands.                        *)

(* An automatic prompt has gone out early, so the request to continue at   *)
(* once is used up: its mark is being cleared, is known to have survived a *)
(* failed write, or is gone; or the interval between prompts is over       *)
(* anyway.                                                                 *)
TriggerSpent ==
    \/ pc = "untrigger" \/ (pc = "sync" /\ w.cs.trigger)
    \/ rt.triggerStuck \/ rt.due
    \/ ~file.trigger /\ ~w.cs.trigger

TriggerInv ==
    /\ seen.early <= 1
    /\ seen.early = 1 => TriggerSpent
    /\ seen.early = 1 /\ (Deciding \/ pc = "sync") /\ file.trigger => w.cs.trigger

(* The goal commands that may still be due: the one pending or the one a   *)
(* new session is owed, and the one of a request not yet taken.            *)
OwedBySession == IF rt.pendingGoal # NoCommand \/ ~rt.synced THEN 1 ELSE 0

Taken == IF pc = "clear" THEN w.cs.request ELSE rt.requestStuck

OwedByRequest == IF file.request \in {NoCommand, Taken} THEN 0 ELSE 1

GoalInv ==
    /\ OwedBySession + OwedByRequest <= seen.budget
    /\ pc = "goal" => rt.pendingGoal = NoCommand /\ ~rt.synced

(* What an action leaves alone that neither makes, takes nor answers a     *)
(* request; it may take one back.                                          *)
Bystander ==
    /\ seen'.early = seen.early /\ seen'.budget = seen.budget
    /\ file'.trigger => file.trigger
    /\ file'.request \in {file.request, NoCommand}
    /\ rt'.pendingGoal = rt.pendingGoal /\ rt'.synced = rt.synced
    /\ rt'.requestStuck = rt.requestStuck /\ rt'.triggerStuck = rt.triggerStuck
    /\ rt.due => rt'.due
    /\ \/ pc' = pc /\ w' = w
       \/ /\ {pc, pc'} \cap {"clear", "goal", "sync", "untrigger"} = {}
          /\ w'.cs.trigger => w.cs.trigger
          /\ Deciding' => Deciding /\ w'.cs = w.cs

LEMMA BystanderInv ==
    ASSUME TypeOK, TriggerInv, GoalInv, Bystander
    PROVE  TriggerInv' /\ GoalInv'
<1>1. TriggerInv'
  BY DEF Bystander, TriggerInv, TriggerSpent, Deciding
<1>2. OwedBySession \in 0..1 /\ OwedByRequest \in 0..1
  BY DEF OwedBySession, OwedByRequest
<1>3. OwedBySession' = OwedBySession
  BY DEF Bystander, OwedBySession
<1>4. OwedByRequest' = OwedByRequest \/ OwedByRequest' = 0
  BY DEF Bystander, OwedByRequest, Taken
<1>5. seen.budget \in Int
  BY DEF TypeOK, History
<1>6. (OwedBySession + OwedByRequest <= seen.budget)'
  <2>1. OwedBySession + OwedByRequest <= seen.budget /\ seen'.budget = seen.budget
    BY DEF Bystander, GoalInv
  <2> QED
    BY <1>2, <1>3, <1>4, <1>5, <2>1
<1>7. GoalInv'
  BY <1>6 DEF GoalInv, Bystander
<1> QED
  BY <1>1, <1>7

LEMMA AgentBystander ==
    ASSUME TypeOK,
           \/ Agent \/ UserTypes \/ UserSubmits \/ EditGoal \/ ReplaceConfig
           \/ Enqueue \/ NoteTrigger \/ NoteFailure \/ UNCHANGED vars
    PROVE  Bystander
<1>1. rt \in Runtime /\ seen \in History
  BY DEF TypeOK
<1>2. ASSUME NEW a, AgentBecomes(a) PROVE Bystander
  BY <1>1, <1>2 DEF AgentBecomes, Bystander, History
<1>3. CASE \/ AgentReady \/ AgentEchoes \/ AgentStarts \/ AgentAnswers
           \/ AgentFinishes \/ UserTypes \/ UserSubmits
  BY <1>2, <1>3 DEF AgentReady, AgentEchoes, AgentStarts, AgentAnswers,
     AgentFinishes, UserTypes, UserSubmits
<1>4. CASE TimePasses
  BY <1>1, <1>4 DEF TimePasses, Bystander, Runtime
<1>5. CASE EditGoal \/ ReplaceConfig \/ NoteTrigger
  BY <1>1, <1>5 DEF EditGoal, ReplaceConfig, NoteTrigger, Bystander, Runtime
<1>6. CASE Enqueue
  BY <1>1, <1>6 DEF Enqueue, Bystander, History
<1>7. CASE NoteFailure
  BY <1>1, <1>7 DEF NoteFailure, Bystander, History, Runtime
<1>8. CASE UNCHANGED vars
  BY <1>8 DEF vars, Bystander
<1> QED
  BY <1>3, <1>4, <1>5, <1>6, <1>7, <1>8 DEF Agent

LEMMA ControlBystander ==
    ASSUME TypeOK, Pause \/ LeaveGoalMode \/ LoseControlState
    PROVE  Bystander
<1>1. file \in Control /\ seen \in History
  BY DEF TypeOK
<1>2. UNCHANGED <<rt, pc, w>>
  BY DEF Pause, LeaveGoalMode, LoseControlState, Writes
<1>3. seen'.early = seen.early /\ seen'.budget = seen.budget
  BY <1>1 DEF Pause, LeaveGoalMode, LoseControlState, Writes, History
<1>4. /\ file'.trigger => file.trigger
      /\ file'.request \in {file.request, NoCommand}
  <2>1. CASE Pause
    BY <1>1, <2>1 DEF Pause, Writes, Control
  <2>2. CASE LeaveGoalMode
    BY <1>1, <2>2 DEF LeaveGoalMode, Writes, Control
  <2>3. CASE LoseControlState
    BY <2>3 DEF LoseControlState, Writes, Unreadable
  <2> QED
    BY <2>1, <2>2, <2>3
<1> QED
  BY <1>2, <1>3, <1>4 DEF Bystander

LEMMA DriveBystander ==
    ASSUME TypeOK,
           \/ RetrySubmit \/ CheckIdle \/ DisableGoalMode \/ PopManualPrompt
           \/ HoldBack \/ StayQuiet \/ SkipBlank \/ RequeueManualPrompt
           \/ \E kind \in Kinds : SendFails(kind)
    PROVE  Bystander
<1>1. /\ rt \in Runtime /\ seen \in History /\ file \in Control
      /\ w \in [canSend : BOOLEAN, cs : Control, hand : Prompt \cup {NoPrompt}]
  BY DEF TypeOK
<1>2. ~Idle.cs.trigger
  BY DEF Idle, Unreadable
<1>3. CASE RetrySubmit
  BY <1>1, <1>3 DEF RetrySubmit, Bystander, History, Runtime
<1>4. CASE CheckIdle
  <2>1. seen'.early = seen.early /\ seen'.budget = seen.budget
    BY <1>1, <1>4 DEF CheckIdle, History
  <2>2. /\ rt'.pendingGoal = rt.pendingGoal /\ rt'.synced = rt.synced
        /\ rt'.requestStuck = rt.requestStuck
        /\ rt'.triggerStuck = rt.triggerStuck /\ rt'.due = rt.due
    BY <1>1, <1>4 DEF CheckIdle, Runtime
  <2>3. /\ file' = file /\ pc = "rest" /\ pc' \in {"complete", "read"}
        /\ w'.cs = Idle.cs
    BY <1>4 DEF CheckIdle, Idle
  <2> QED
    BY <1>2, <2>1, <2>2, <2>3 DEF Bystander, Deciding
<1>5. CASE DisableGoalMode
  BY <1>1, <1>5 DEF DisableGoalMode, Saves, Bystander, Deciding, Control
<1>6. CASE PopManualPrompt
  BY <1>1, <1>6 DEF PopManualPrompt, Bystander, Deciding
<1>7. CASE HoldBack \/ StayQuiet
  BY <1>2, <1>7 DEF HoldBack, StayQuiet, Goes, Bystander, Deciding
<1>8. CASE SkipBlank
  BY <1>1, <1>2, <1>8 DEF SkipBlank, Goes, Bystander, Deciding, Runtime
<1>9. CASE RequeueManualPrompt
  BY <1>1, <1>2, <1>9 DEF RequeueManualPrompt, Goes, Bystander, Deciding, Runtime
<1>10. ASSUME NEW kind \in Kinds, SendFails(kind) PROVE Bystander
  <2>1. /\ file' = file /\ pc = "choose" /\ pc' \in {"requeue", "rest"}
        /\ w' \in {w, Idle} /\ (pc' = "rest" => w' = Idle)
    BY <1>10 DEF SendFails, Sends, Goes
  <2>2. /\ seen'.early = seen.early /\ seen'.budget = seen.budget
        /\ rt'.pendingGoal = rt.pendingGoal /\ rt'.synced = rt.synced
        /\ rt'.requestStuck = rt.requestStuck
        /\ rt'.triggerStuck = rt.triggerStuck /\ rt'.due = rt.due
    BY <1>1, <1>10 DEF SendFails, Runtime, History
  <2> QED
    BY <1>2, <2>1, <2>2 DEF Bystander, Deciding
<1> QED
  BY <1>3, <1>4, <1>5, <1>6, <1>7, <1>8, <1>9, <1>10

(* A launch forgets what stuck and owes one command, and one more if the   *)
(* file still holds a request.                                             *)
LEMMA LaunchInv ==
    ASSUME IInv, TriggerInv, GoalInv, Relaunch \/ Crash
    PROVE  TriggerInv' /\ GoalInv'
<1>1. /\ seen'.early = seen.early /\ rt'.due
      /\ seen'.budget = IF file.request = NoCommand THEN 1 ELSE 2
      /\ file'.request = file.request
  <2>1. seen \in History /\ file \in Control
    BY DEF IInv, TypeOK
  <2>2. CASE Relaunch
    BY <2>1, <2>2 DEF Relaunch, Launched, History
  <2>3. CASE Crash
    <3>1. seen'.early = seen.early
          /\ seen'.budget = IF file.request = NoCommand THEN 1 ELSE 2
      BY <2>1, <2>3 DEF Crash, History
    <3>2. rt'.due
      <4>1. PICK kind : rt' = Launched(uiGoal, kind, FALSE, FALSE, FALSE)
        BY <2>3 DEF Crash
      <4> QED
        BY <4>1 DEF Launched
    <3>3. PICK paused \in BOOLEAN :
            file' = [file EXCEPT !.paused = paused, !.trigger = FALSE]
      BY <2>3 DEF Crash
    <3>4. file'.request = file.request
      BY <2>1, <3>3 DEF Control
    <3> QED
      BY <3>1, <3>2, <3>4
  <2> QED
    BY <2>2, <2>3
<1>2. pc' = "rest"
  BY DEF Relaunch, Crash
<1>3. TriggerInv'
  BY <1>1, <1>2 DEF TriggerInv, TriggerSpent, Deciding
<1>4. (OwedBySession + OwedByRequest <= seen.budget)'
  BY <1>1 DEF OwedBySession, OwedByRequest
<1>5. GoalInv'
  BY <1>2, <1>4 DEF GoalInv
<1> QED
  BY <1>3, <1>5

LEMMA ResumeInv ==
    ASSUME IInv, TriggerInv, GoalInv, Resume
    PROVE  TriggerInv' /\ GoalInv'
<1>1. /\ seen'.early = 0 /\ seen'.budget = seen.budget
      /\ file'.request = file.request /\ UNCHANGED <<rt, pc, w>>
  BY DEF Resume, Writes, IInv, TypeOK, History, Control
<1>2. TriggerInv'
  BY <1>1 DEF TriggerInv
<1>3. GoalInv'
  BY <1>1 DEF GoalInv, OwedBySession, OwedByRequest, Taken
<1> QED
  BY <1>2, <1>3

LEMMA RequestGoalInv ==
    ASSUME IInv, TriggerInv, GoalInv, RequestGoal
    PROVE  TriggerInv' /\ GoalInv'
<1>1. /\ seen'.early = seen.early /\ seen'.budget = seen.budget + 1
      /\ file'.trigger = file.trigger /\ UNCHANGED <<rt, pc, w>>
  BY DEF RequestGoal, Writes, IInv, TypeOK, History, Control
<1>2. TriggerInv'
  BY <1>1 DEF TriggerInv, TriggerSpent, Deciding
<1>3. /\ OwedByRequest \in 0..1 /\ OwedByRequest' \in 0..1
      /\ OwedBySession \in 0..1 /\ OwedBySession' = OwedBySession
  BY <1>1 DEF OwedByRequest, OwedBySession
<1>4. seen.budget \in Int
  BY DEF IInv, TypeOK, History
<1>5. GoalInv'
  BY <1>1, <1>3, <1>4 DEF GoalInv
<1> QED
  BY <1>2, <1>5

(* The file can be read, or reads as an empty object.                      *)
ControlIsRead(cs) ==
    LET stuck == IF rt.requestStuck = cs.request THEN cs.request ELSE NoCommand
        explicit == Explicit(cs, stuck)
        wanted == /\ cs.goalOn /\ rt.pendingGoal = NoCommand
                  /\ ~rt.synced \/ explicit # NoCommand
    IN  /\ w' = [w EXCEPT !.cs = cs]
        /\ rt' = [rt EXCEPT
                     !.triggerStuck = @ /\ cs.trigger,
                     !.requestStuck = stuck,
                     !.pendingGoal = IF wanted /\ explicit # NoCommand
                                     THEN explicit ELSE @]
        /\ pc' = IF ~wanted THEN "pop"
                 ELSE IF explicit # NoCommand THEN "clear" ELSE "goal"

(* What is read is what the file holds: a mark that was cleared since      *)
(* stops being stuck, and a request not yet taken becomes the pending      *)
(* command.                                                                *)
LEMMA SuccessfulReadInv ==
    ASSUME IInv, TriggerInv, GoalInv, pc = "read", UNCHANGED <<file, seen>>,
           ControlIsRead(file)
    PROVE  TriggerInv' /\ GoalInv'
<1> DEFINE stuck == IF rt.requestStuck = file.request THEN file.request
                                                      ELSE NoCommand
           explicit == Explicit(file, stuck)
           wanted == /\ file.goalOn /\ rt.pendingGoal = NoCommand
                     /\ ~rt.synced \/ explicit # NoCommand
           command == IF wanted /\ explicit # NoCommand THEN explicit
                                                        ELSE rt.pendingGoal
           triggerStuck == rt.triggerStuck /\ file.trigger
<1>1. /\ pc = "read" /\ UNCHANGED <<file, seen>>
      /\ w' = [w EXCEPT !.cs = file]
      /\ rt' = [rt EXCEPT !.triggerStuck = triggerStuck,
                          !.requestStuck = stuck, !.pendingGoal = command]
      /\ pc' = IF ~wanted THEN "pop"
               ELSE IF explicit # NoCommand THEN "clear" ELSE "goal"
  BY DEF ReadControlState, ControlIsRead
<1>2. rt \in Runtime /\ seen.budget \in Int
      /\ w \in [canSend : BOOLEAN, cs : Control, hand : Prompt \cup {NoPrompt}]
  BY DEF IInv, TypeOK, History
<1>3. w'.cs = file
  BY <1>1, <1>2
<1>4. /\ rt'.triggerStuck = triggerStuck /\ rt'.requestStuck = stuck
      /\ rt'.pendingGoal = command
      /\ rt'.synced = rt.synced /\ rt'.due = rt.due
  <2> HIDE DEF stuck, command, triggerStuck
  <2> QED
    BY <1>1, <1>2 DEF Runtime
<1>5. TriggerInv'
  BY <1>1, <1>3, <1>4 DEF TriggerInv, TriggerSpent
<1>6. /\ OwedBySession \in 0..1 /\ OwedByRequest \in 0..1
      /\ OwedBySession + OwedByRequest <= seen.budget
  BY DEF GoalInv, OwedBySession, OwedByRequest
<1>7. CASE wanted /\ explicit # NoCommand
  <2>1. OwedByRequest = 1 /\ explicit = file.request
    BY <1>1, <1>7 DEF Explicit, OwedByRequest, Taken
  <2>2. OwedByRequest' = 0 /\ OwedBySession' = 1
    BY <1>1, <1>3, <1>4, <1>7, <2>1 DEF OwedByRequest, OwedBySession, Taken
  <2> QED
    BY <1>1, <1>2, <1>5, <1>6, <1>7, <2>1, <2>2 DEF GoalInv
<1>8. CASE ~(wanted /\ explicit # NoCommand)
  <2>1. /\ pc' \in {"pop", "goal"} /\ rt'.pendingGoal = rt.pendingGoal
        /\ pc' = "goal" => rt.pendingGoal = NoCommand /\ ~rt.synced
    BY <1>1, <1>4, <1>8
  <2>2. OwedByRequest' = OwedByRequest /\ OwedBySession' = OwedBySession
    BY <1>1, <1>4, <2>1 DEF OwedByRequest, OwedBySession, Taken
  <2> QED
    BY <1>1, <1>4, <1>5, <1>6, <2>1, <2>2 DEF GoalInv
<1> QED
  BY <1>7, <1>8


(* A read that fails must not hide a mark that was followed, or a request  *)
(* that was taken, and is still in the file: it would count again.         *)
HidesNothingAnswered ==
    pc = "read" /\ pc' = "pop" /\ w'.cs # file =>
        /\ file.trigger => seen.early = 0
        /\ file.request # NoCommand => file.request # rt.requestStuck

(* Nothing is asked for, and what stuck is forgotten.                      *)
LEMMA FailedReadInv ==
    ASSUME IInv, TriggerInv, GoalInv, pc = "read", UNCHANGED <<file, seen>>,
           ControlIsRead(Unreadable), HidesNothingAnswered, file # Unreadable
    PROVE  TriggerInv' /\ GoalInv'
<1>1. /\ ~Unreadable.trigger /\ ~Unreadable.goalOn
      /\ Unreadable.request = NoCommand
  BY DEF Unreadable
<1>2. rt \in Runtime /\ seen \in History
      /\ w \in [canSend : BOOLEAN, cs : Control, hand : Prompt \cup {NoPrompt}]
  BY DEF IInv, TypeOK
<1>3. pc' = "pop" /\ w' = [w EXCEPT !.cs = Unreadable] /\ w'.cs = Unreadable
  BY <1>1, <1>2 DEF ControlIsRead
<1>4. /\ file.trigger => seen.early = 0
      /\ file.request # NoCommand => file.request # rt.requestStuck
  BY <1>3 DEF HidesNothingAnswered
<1>5. rt' = [rt EXCEPT !.triggerStuck = FALSE, !.requestStuck = NoCommand]
  BY <1>1, <1>2 DEF ControlIsRead, Runtime
<1>6. /\ ~rt'.triggerStuck /\ rt'.requestStuck = NoCommand
      /\ rt'.pendingGoal = rt.pendingGoal
      /\ rt'.synced = rt.synced /\ rt'.due = rt.due
  BY <1>2, <1>5 DEF Runtime
<1>7. TriggerInv'
  BY <1>1, <1>3, <1>4 DEF TriggerInv, TriggerSpent
<1>8. OwedByRequest' = OwedByRequest /\ OwedBySession' = OwedBySession
  BY <1>3, <1>4, <1>6 DEF OwedByRequest, OwedBySession, Taken
<1>9. GoalInv'
  BY <1>3, <1>8 DEF GoalInv
<1> QED
  BY <1>7, <1>9

LEMMA ReadControlStateInv ==
    ASSUME HidesNothingAnswered \/ "read" \notin Faults,
           IInv, TriggerInv, GoalInv, ReadControlState
    PROVE  TriggerInv' /\ GoalInv'
<1>1. pc = "read" /\ UNCHANGED <<file, seen>>
  BY DEF ReadControlState
<1>2. PICK cs \in {file} \cup (IF "read" \in Faults THEN {Unreadable} ELSE {}) :
        ControlIsRead(cs)
  BY DEF ReadControlState, ControlIsRead
<1>3. CASE cs = file
  BY <1>1, <1>2, <1>3, SuccessfulReadInv
<1>4. CASE cs # file
  BY <1>1, <1>2, <1>4, FailedReadInv
<1> QED
  BY <1>3, <1>4

LEMMA SyncGoalInv ==
    ASSUME IInv, TriggerInv, GoalInv, SyncGoal
    PROVE  TriggerInv' /\ GoalInv'
<1>1. pc = "goal" /\ pc' = "pop" /\ UNCHANGED <<file, w, seen>>
  BY DEF SyncGoal
<1>2. /\ rt'.triggerStuck = rt.triggerStuck /\ rt'.due = rt.due
      /\ rt'.synced = rt.synced /\ rt'.requestStuck = rt.requestStuck
  BY DEF SyncGoal, IInv, TypeOK, Runtime
<1>3. TriggerInv'
  BY <1>1, <1>2 DEF TriggerInv, TriggerSpent, Deciding
<1>4. OwedBySession = 1 /\ OwedBySession' = 1
  BY <1>1, <1>2 DEF GoalInv, OwedBySession
<1>5. OwedByRequest' = OwedByRequest
  BY <1>1, <1>2 DEF OwedByRequest, Taken
<1>6. GoalInv'
  BY <1>1, <1>4, <1>5 DEF GoalInv
<1> QED
  BY <1>3, <1>6

LEMMA ClearGoalRequestInv ==
    ASSUME IInv, TriggerInv, GoalInv, ClearGoalRequest
    PROVE  TriggerInv' /\ GoalInv'
<1>1. /\ pc = "clear" /\ pc' = "pop" /\ UNCHANGED <<w, seen>>
      /\ file'.trigger = file.trigger
      /\ \/ file'.request = NoCommand
         \/ file' = file /\ rt'.requestStuck = w.cs.request
  BY DEF ClearGoalRequest, Saves, IInv, TypeOK, Control, Runtime
<1>2. /\ rt'.triggerStuck = rt.triggerStuck /\ rt'.due = rt.due
      /\ rt'.synced = rt.synced /\ rt'.pendingGoal = rt.pendingGoal
  BY DEF ClearGoalRequest, Saves, IInv, TypeOK, Runtime
<1>3. TriggerInv'
  BY <1>1, <1>2 DEF TriggerInv, TriggerSpent, Deciding
<1>4. OwedBySession' = OwedBySession /\ OwedBySession \in 0..1
  BY <1>2 DEF OwedBySession
<1>5. OwedByRequest' \in {OwedByRequest, 0} /\ OwedByRequest \in 0..1
  BY <1>1 DEF OwedByRequest, Taken
<1>6. seen.budget \in Int
  BY DEF IInv, TypeOK, History
<1>7. GoalInv'
  BY <1>1, <1>4, <1>5, <1>6 DEF GoalInv
<1> QED
  BY <1>3, <1>7

(* The request is dropped or kept; the mark of a trigger comes next.       *)
LEMMA MarkGoalSyncedInv ==
    ASSUME IInv, TriggerInv, GoalInv, MarkGoalSynced
    PROVE  TriggerInv' /\ GoalInv'
<1>1. /\ pc = "sync" /\ UNCHANGED <<rt, seen>>
      /\ pc' = IF w.cs.trigger THEN "untrigger" ELSE "rest"
      /\ w' = IF pc' = "rest" THEN Idle ELSE w
      /\ file'.trigger = file.trigger
      /\ file'.request \in {file.request, NoCommand}
  BY DEF MarkGoalSynced, Goes, AfterSend, Saves, IInv, TypeOK, Control
<1>2. ~Idle.cs.trigger
  BY DEF Idle, Unreadable
<1>3. TriggerInv'
  BY <1>1, <1>2 DEF TriggerInv, TriggerSpent, Deciding
<1>4. OwedBySession' = OwedBySession /\ OwedBySession \in 0..1
  BY <1>1 DEF OwedBySession
<1>5. OwedByRequest' \in {OwedByRequest, 0} /\ OwedByRequest \in 0..1
  BY <1>1 DEF OwedByRequest, Taken
<1>6. seen.budget \in Int
  BY DEF IInv, TypeOK, History
<1>7. GoalInv'
  BY <1>1, <1>4, <1>5, <1>6 DEF GoalInv
<1> QED
  BY <1>3, <1>7

(* The mark is gone, or known to have stayed.                              *)
LEMMA ClearTriggerInv ==
    ASSUME IInv, TriggerInv, GoalInv, ClearTrigger
    PROVE  TriggerInv' /\ GoalInv'
<1>1. /\ pc = "untrigger" /\ pc' = "rest" /\ w' = Idle /\ UNCHANGED seen
      /\ ~file'.trigger \/ rt'.triggerStuck
      /\ file'.request = file.request
  BY DEF ClearTrigger, Goes, Saves, IInv, TypeOK, Control, Runtime
<1>2. /\ rt'.synced = rt.synced /\ rt'.pendingGoal = rt.pendingGoal
      /\ rt'.requestStuck = rt.requestStuck
  BY DEF ClearTrigger, Saves, IInv, TypeOK, Runtime
<1>3. TriggerInv'
  BY <1>1 DEF TriggerInv, TriggerSpent, Deciding, Idle, Unreadable
<1>4. GoalInv'
  BY <1>1, <1>2 DEF GoalInv, OwedBySession, OwedByRequest, Taken
<1> QED
  BY <1>3, <1>4

(* A prompt goes out early only by a mark that is neither used up nor      *)
(* stuck, and then the mark is cleared next.  A goal command that goes out *)
(* was the one the session was owed.                                       *)
LEMMA SendPromptInv ==
    ASSUME IInv, TriggerInv, GoalInv, NEW kind \in Kinds, SendPrompt(kind)
    PROVE  TriggerInv' /\ GoalInv'
<1> DEFINE early == kind \notin {"manual", "goal"} /\ ~ByContinuation
<1>1. /\ pc = "choose" /\ UNCHANGED file /\ Sends(kind)
      /\ pc' = AfterSend(kind)
      /\ w' = IF pc' = "rest" THEN Idle ELSE [w EXCEPT !.hand = NoPrompt]
      /\ rt' = Delivered(kind) /\ seen' = Remembered(kind)
  BY DEF SendPrompt, Sends, Goes
<1>2. /\ rt \in Runtime /\ seen \in History /\ seen.budget \in Int
      /\ seen.early \in 0..2
      /\ w \in [canSend : BOOLEAN, cs : Control, hand : Prompt \cup {NoPrompt}]
  BY DEF IInv, TypeOK, History
<1>3. /\ rt'.pendingGoal = IF kind = "goal" THEN NoCommand ELSE rt.pendingGoal
      /\ rt'.synced = (rt.synced \/ kind = "goal")
      /\ rt'.triggerStuck = rt.triggerStuck /\ rt'.requestStuck = rt.requestStuck
  BY <1>1, <1>2 DEF Delivered, Runtime
<1>4. /\ seen'.budget = IF kind = "goal" THEN seen.budget - 1 ELSE seen.budget
      /\ seen'.early = IF early THEN Capped(seen.early + 1) ELSE seen.early
  BY <1>1, <1>2 DEF Remembered, History
<1>5. w'.cs = w.cs \/ (pc' = "rest" /\ ~w'.cs.trigger)
  BY <1>1, <1>2 DEF Idle, Unreadable
<1>6. kind \in {"goal", "manual"} \/ rt.pendingGoal = NoCommand
  BY <1>1 DEF Sends, Chosen
<1>7. TriggerInv'
  <2>1. CASE early
    <3>1. w.cs.trigger /\ ~rt.triggerStuck
      BY <1>1, <1>6, <2>1 DEF Sends, Chosen, MaySend, AutomaticRequested, ByGoal, ByTrigger
    <3>2. ~rt.due
      BY <1>1, <2>1, <3>1 DEF ByContinuation, IInv, PauseInv, Deciding
    <3>3. seen.early = 0
      BY <1>1, <1>2, <3>1, <3>2 DEF TriggerInv, TriggerSpent
    <3>4. seen'.early = 1 /\ pc' = "untrigger"
      BY <1>1, <1>4, <2>1, <3>1, <3>3 DEF Capped, AfterSend
    <3> QED
      BY <3>4 DEF TriggerInv, TriggerSpent, Deciding
  <2>2. CASE ~early
    <3>1. seen'.early = seen.early
      BY <1>4, <2>2
    <3>2. /\ w.cs.trigger => pc' = "untrigger" \/ (pc' = "sync" /\ w'.cs.trigger)
          /\ pc' \in {"sync", "untrigger", "rest"}
      BY <1>1, <1>5 DEF AfterSend
    <3>3. file.trigger /\ seen.early = 1 => w.cs.trigger
      BY <1>1 DEF TriggerInv, Deciding
    <3>4. ~w.cs.trigger => ~w'.cs.trigger
      BY <1>5
    <3> QED
      BY <1>1, <1>5, <3>1, <3>2, <3>3, <3>4 DEF TriggerInv, TriggerSpent, Deciding
  <2> QED
    BY <2>1, <2>2
<1>8. GoalInv'
  <2>1. OwedByRequest' = OwedByRequest /\ OwedByRequest \in 0..1
    BY <1>1, <1>3 DEF OwedByRequest, Taken, AfterSend
  <2>2. kind = "goal" => rt.pendingGoal # NoCommand
    BY <1>1 DEF Sends, Chosen
  <2>3. OwedBySession' = IF kind = "goal" THEN OwedBySession - 1 ELSE OwedBySession
    <3>1. CASE kind = "goal"
      <4>1. OwedBySession = 1
        BY <2>2, <3>1 DEF OwedBySession
      <4>2. OwedBySession' = 0
        BY <1>3, <3>1 DEF OwedBySession
      <4> QED
        BY <3>1, <4>1, <4>2
    <3>2. CASE kind # "goal"
      <4>1. rt'.pendingGoal = rt.pendingGoal /\ rt'.synced = rt.synced
        BY <1>2, <1>3, <3>2 DEF Runtime
      <4> QED
        BY <3>2, <4>1 DEF OwedBySession
    <3> QED
      BY <3>1, <3>2
  <2>4. OwedBySession \in 0..1 /\ OwedBySession + OwedByRequest <= seen.budget
    BY DEF OwedBySession, GoalInv
  <2>5. (OwedBySession + OwedByRequest <= seen.budget)'
    <3>1. CASE kind = "goal"
      <4>1. OwedBySession' = OwedBySession - 1 /\ seen'.budget = seen.budget - 1
        BY <1>4, <2>3, <3>1
      <4> QED
        BY <1>2, <2>1, <2>4, <4>1
    <3>2. CASE kind # "goal"
      <4>1. OwedBySession' = OwedBySession /\ seen'.budget = seen.budget
        BY <1>4, <2>3, <3>2
      <4> QED
        BY <2>1, <2>4, <4>1
    <3> QED
      BY <3>1, <3>2
  <2>6. pc' # "goal"
    BY <1>1 DEF AfterSend
  <2> QED
    BY <2>5, <2>6 DEF GoalInv
<1> QED
  BY <1>7, <1>8

LEMMA InitRequests == Init => TriggerInv /\ GoalInv
<1> SUFFICES ASSUME Init PROVE TriggerInv /\ GoalInv
  OBVIOUS
<1>1. /\ seen.early = 0 /\ seen.budget = 1 /\ pc = "rest"
      /\ file.request = NoCommand
  BY DEF Init, Unreadable
<1> QED
  BY <1>1 DEF TriggerInv, GoalInv, OwedBySession, OwedByRequest

LEMMA NextRequests ==
    ASSUME IInv, TriggerInv, GoalInv, [Next]_vars,
           [HidesNothingAnswered]_vars \/ "read" \notin Faults
    PROVE  TriggerInv' /\ GoalInv'
<1>1. TypeOK
  BY DEF IInv
<1>2. CASE Agent \/ UNCHANGED vars
  BY <1>1, <1>2, AgentBystander, BystanderInv
<1>3. CASE Others
  BY <1>1, <1>3, AgentBystander, ControlBystander, BystanderInv, LaunchInv,
     ResumeInv, RequestGoalInv DEF Others
<1>4. CASE ReadControlState /\ (HidesNothingAnswered \/ "read" \notin Faults)
  BY <1>4, ReadControlStateInv
<1>5. CASE DrivePrompt /\ ~ReadControlState
  BY <1>1, <1>5, DriveBystander, BystanderInv, SyncGoalInv,
     ClearGoalRequestInv, MarkGoalSyncedInv, ClearTriggerInv, SendPromptInv
     DEF DrivePrompt
<1> QED
  BY <1>2, <1>3, <1>4, <1>5 DEF Next

(* What the counts say.                                                    *)
LEMMA RequestsCounted ==
    ASSUME IInv, TriggerInv, GoalInv
    PROVE  TriggerOnce /\ GoalNotRepeated
<1>1. OwedBySession \in 0..1 /\ OwedByRequest \in 0..1
  BY DEF OwedBySession, OwedByRequest
<1> QED
  BY <1>1 DEF TriggerInv, TriggerOnce, GoalInv, GoalNotRepeated, IInv, TypeOK, History

LEMMA RequestsInvariance ==
    Spec /\ [][HidesNothingAnswered]_vars => [](IInv /\ TriggerInv /\ GoalInv)
<1>1. IInv /\ TriggerInv /\ GoalInv /\ [Next]_vars /\ [HidesNothingAnswered]_vars
        => TriggerInv' /\ GoalInv'
  BY NextRequests
<1> QED
  BY <1>1, InitRequests, InitIInv, NextIInv, PTL DEF Spec

(* One request to continue at once skips the wait between prompts once,    *)
(* although its mark is cleared only after the prompt went out and the     *)
(* write may fail, unless a read that fails hides a mark already followed. *)
THEOREM SpecTriggerOnce == Spec /\ [][HidesNothingAnswered]_vars => []TriggerOnce
<1>1. IInv /\ TriggerInv /\ GoalInv => TriggerOnce
  BY RequestsCounted
<1> QED
  BY <1>1, RequestsInvariance, PTL

(* No /goal command goes out that neither a request of the user nor the    *)
(* start of a session accounts for, although the request is cleared by a   *)
(* second write, which may fail or erase a later one; again unless a read  *)
(* that fails hides a request already taken.                               *)
THEOREM SpecGoalNotRepeated == Spec /\ [][HidesNothingAnswered]_vars => []GoalNotRepeated
<1>1. IInv /\ TriggerInv /\ GoalInv => GoalNotRepeated
  BY RequestsCounted
<1> QED
  BY <1>1, RequestsInvariance, PTL

(* In particular both hold where every read of the control state succeeds, *)
(* whatever else fails.                                                    *)
THEOREM SpecRequestsOnceRead ==
    ASSUME "read" \notin Faults
    PROVE  Spec => []TriggerOnce /\ []GoalNotRepeated
<1>1. IInv /\ TriggerInv /\ GoalInv /\ [Next]_vars => TriggerInv' /\ GoalInv'
  BY NextRequests
<1>2. IInv /\ TriggerInv /\ GoalInv => TriggerOnce /\ GoalNotRepeated
  BY RequestsCounted
<1> QED
  BY <1>1, <1>2, InitRequests, InitIInv, NextIInv, PTL DEF Spec

=============================================================================
