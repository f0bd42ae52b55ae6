------------------------------ MODULE Prompts ------------------------------
(***************************************************************************)
(* maybe_drive_prompt (watchapi-core/src/runtime.rs): at the end of each   *)
(* tick the supervisor decides whether to type a prompt into the agent's   *)
(* terminal, and which.  It shares two files in the temp directory with    *)
(* the GUI and with other programs (watchapi-core/src/control.rs): the     *)
(* control state, where the user pauses, resumes and asks for goals, and   *)
(* the queue of manual prompts.  A lock makes each access to a file atomic *)
(* and nothing makes two accesses atomic, so the function is a sequence of *)
(* steps here, one per access:                                             *)
(*                                                                         *)
(*   rest -> [complete] -> read -> [goal | clear] -> pop -> choose         *)
(*        -> [sync] -> [untrigger] -> rest      or choose -> requeue       *)
(*                                                                         *)
(* The agent has been launched; Relaunch stands for every stop, switch or  *)
(* restart with the launch that follows it, between which no prompt is     *)
(* driven.  What the screen and the session log of the agent show is       *)
(* reduced to what the functions of agent.rs read from them.               *)
(***************************************************************************)
EXTENDS Integers, Sequences

CONSTANTS
    Prompt,            \* prompts another program puts in the manual queue
    Goal,              \* the texts agent_goal may have in the config
    NoPrompt, NoGoal,  \* "none" of each
    Imported,          \* goals whose source is session_import
    SyncOnNewSession,  \* agent_goal.sync_on_new_session
    InitialPrompt,     \* initial_prompt of the endpoint: "blank" or "text"
    Users,             \* what happens around the worker in this instance
    Faults,            \* what may fail: "write", "read", "lost", "send", "crash"
    MaxBudget          \* bound on goal commands that may still be due

ASSUME PromptsAssumption ==
    /\ NoPrompt \notin Prompt /\ NoGoal \notin Goal
    /\ Imported \subseteq Goal
    /\ SyncOnNewSession \in BOOLEAN /\ InitialPrompt \in {"blank", "text"}
    /\ MaxBudget \in Nat

VARIABLES
    file,    \* the control state
    queue,   \* the manual prompts waiting in the queue file
    uiGoal,  \* agent_goal of the config the GUI shows
    rt,      \* the fields of RuntimeCore that drive prompts
    agent,   \* what AgentProcess knows of its terminal and session
    pc,      \* where maybe_drive_prompt is
    w,       \* its local variables
    seen     \* history: what the properties remember; no step reads it

vars == <<file, queue, uiGoal, rt, agent, pc, w, seen>>

GoalCommand == [action : {"set", "resume"}, goal : Goal]
Command(action, g) == [action |-> action, goal |-> g]
NoCommand == [action |-> "none", goal |-> NoGoal]

(* Broken variant: unless the file says so, continuation is not paused.    *)
UnreadableRuns == [paused |-> FALSE, trigger |-> FALSE, goalOn |-> FALSE,
                   request |-> NoCommand, completed |-> NoGoal,
                   synced |-> NoGoal]

(* A missing or unreadable file reads as an empty object: paused.          *)
Unreadable == [paused |-> TRUE, trigger |-> FALSE, goalOn |-> FALSE,
               request |-> NoCommand, completed |-> NoGoal, synced |-> NoGoal]

(* should_resume_goal_runtime and its twin in app.rs, for config goal g.   *)
ShouldResume(g, state) ==
    state.completed # g /\ (state.synced = g \/ g \in Imported)

-----------------------------------------------------------------------------
(* Launching an agent.                                                     *)

FreshAgent == [awaiting |-> FALSE, view |-> "starting", reply |-> "unasked"]

(* goal_prompt_for_new_session                                             *)
LaunchGoal(g, kind) ==
    IF ~file.goalOn \/ kind = "fork" THEN NoCommand
    ELSE IF kind = "resumed"
    THEN IF ShouldResume(g, file) THEN Command("resume", g) ELSE NoCommand
    ELSE IF SyncOnNewSession THEN Command("set", g) ELSE NoCommand

LaunchInitial(g, kind) ==
    IF kind = "fresh" /\ LaunchGoal(g, kind) = NoCommand
    THEN InitialPrompt ELSE "none"

(* What switch_to leaves in RuntimeCore: a trigger found by the monitor of *)
(* the previous agent stays, and a goal turn stays active unless the user  *)
(* restarted the agent.                                                    *)
Launched(g, kind, active, continuation, cooling) ==
    [goal |-> g, pendingGoal |-> LaunchGoal(g, kind),
     continuation |-> continuation, initial |-> LaunchInitial(g, kind),
     waiting |-> FALSE, synced |-> FALSE, active |-> active,
     triggerStuck |-> FALSE, requestStuck |-> NoCommand,
     requeueError |-> FALSE, cooling |-> cooling, due |-> TRUE]

Idle == [canSend |-> FALSE, cs |-> Unreadable, hand |-> NoPrompt]

(* The run starts with startup_control_state_updates; goals and what was   *)
(* synced are left from earlier runs.                                      *)
Init ==
    /\ \E paused, goalOn \in BOOLEAN, synced \in Goal \cup {NoGoal} :
         /\ "goal" \in Users \/ (~goalOn /\ synced = NoGoal)
         /\ file = [Unreadable EXCEPT !.paused = paused, !.goalOn = goalOn,
                                      !.synced = synced]
         /\ uiGoal \in Goal
         /\ \E kind \in {"resumed", "fresh"} :
              /\ rt = Launched(uiGoal, kind, FALSE, FALSE, FALSE)
              /\ seen = [asked |-> {}, typed |-> {}, died |-> {}, late |-> 0, early |-> 0,
                         budget |-> 1, unanswered |-> FALSE,
                         goal |-> IF kind = "fresh" THEN NoGoal ELSE synced]
    /\ queue = <<>> /\ agent = FreshAgent /\ pc = "rest" /\ w = Idle

Relaunch ==
    /\ pc = "rest" /\ "relaunch" \in Users
    /\ \E kind \in {"resumed", "fresh", "fork"}, restarted \in BOOLEAN :
         /\ rt' = Launched(rt.goal, kind, rt.active /\ ~restarted,
                           rt.continuation, rt.cooling)
         /\ seen' = [seen EXCEPT
                       !.unanswered = FALSE,
                       !.budget = IF file.request = NoCommand THEN 1 ELSE 2,
                       !.goal = IF kind = "fresh" THEN NoGoal ELSE @]
    /\ agent' = FreshAgent
    /\ UNCHANGED <<file, queue, uiGoal, pc, w>>

(* The program dies wherever the worker is, its agent with it, and is      *)
(* started again: start_runtime writes startup_control_state_updates.      *)
Crash ==
    /\ "crash" \in Faults
    /\ \E paused \in BOOLEAN, kind \in {"resumed", "fresh"} :
         /\ file' = [file EXCEPT !.paused = paused, !.trigger = FALSE]
         /\ rt' = Launched(uiGoal, kind, FALSE, FALSE, FALSE)
         /\ seen' = [seen EXCEPT
                       !.died = @ \cup ({w.hand} \ {NoPrompt}), !.late = 0,
                       !.unanswered = FALSE,
                       !.budget = IF file.request = NoCommand THEN 1 ELSE 2,
                       !.goal = IF kind = "fresh" THEN NoGoal ELSE @]
    /\ agent' = FreshAgent /\ pc' = "rest" /\ w' = Idle
    /\ UNCHANGED <<queue, uiGoal>>

-----------------------------------------------------------------------------
(* The agent and its terminal.  How long ago something happened is chosen  *)
(* where the code asks: any wait may or may not be over.                   *)

Prompted == agent.reply # "unasked"

AgentBecomes(a) ==
    /\ agent' = a
    /\ seen' = [seen EXCEPT !.unanswered = @ /\ a.reply = "none"]
    /\ UNCHANGED <<file, queue, uiGoal, rt, pc, w>>

AgentReady ==
    agent.view = "starting"
    /\ AgentBecomes([agent EXCEPT !.view = "ready"])

(* The terminal prints something after the prompt, if only its echo.       *)
AgentEchoes ==
    agent.reply = "none"
    /\ AgentBecomes([agent EXCEPT !.reply = "echo"])

AgentStarts ==
    agent.view = "ready" /\ agent.reply \in {"none", "echo"}
    /\ AgentBecomes([agent EXCEPT !.view = "busy", !.reply = "started"])

AgentAnswers ==
    agent.view = "busy" /\ Prompted /\ agent.reply # "answered"
    /\ AgentBecomes([agent EXCEPT !.reply = "answered"])

AgentFinishes ==
    agent.view = "busy"
    /\ AgentBecomes([agent EXCEPT !.view = "ready"])

(* The user types into the terminal; what is typed is sent or deleted.     *)
UserTypes ==
    agent.view = "ready" /\ "type" \in Users
    /\ AgentBecomes([agent EXCEPT !.view = "prefilled",
                                  !.reply = IF @ = "none" THEN "echo" ELSE @])

Submitted == [agent EXCEPT !.view = "busy",
                           !.reply = IF @ \in {"answered", "unasked"}
                                     THEN @ ELSE "started"]

UserSubmits ==
    agent.view = "prefilled"
    /\ \/ AgentBecomes(Submitted)
       \/ AgentBecomes([agent EXCEPT !.view = "ready"])

(* The prompt interval and the endpoint's cooldown run out.                *)
TimePasses ==
    /\ rt' \in {[rt EXCEPT !.due = TRUE], [rt EXCEPT !.cooling = FALSE]}
    /\ rt' # rt
    /\ UNCHANGED <<file, queue, uiGoal, agent, pc, w, seen>>

-----------------------------------------------------------------------------
(* The other writers of the two files.                                     *)

Writes(f, s) ==
    file' = f /\ seen' = s /\ UNCHANGED <<queue, uiGoal, rt, agent, pc, w>>

(* set_auto_pause(true); interrupting or terminating the agent writes the  *)
(* same keys.                                                              *)
Pause ==
    "pause" \in Users
    /\ Writes([file EXCEPT !.paused = TRUE, !.trigger = FALSE],
              [seen EXCEPT !.late = IF file.paused THEN @ ELSE 0])

(* resume_auto_continuation_for_config                                     *)
Resume ==
    "pause" \in Users
    /\ Writes([file EXCEPT !.paused = FALSE, !.trigger = TRUE],
              [seen EXCEPT !.early = 0, !.late = 0])

(* request_current_goal: set or resume the goal the GUI shows.             *)
RequestGoal ==
    LET action == IF ShouldResume(uiGoal, file) THEN "resume" ELSE "set"
    IN  "goal" \in Users /\ seen.budget < MaxBudget
        /\ Writes([file EXCEPT !.request = Command(action, uiGoal),
                               !.goalOn = TRUE, !.completed = NoGoal],
                  [seen EXCEPT !.budget = @ + 1])

(* set_goal_mode_enabled(false)                                            *)
LeaveGoalMode ==
    "goal" \in Users
    /\ Writes([file EXCEPT !.request = NoCommand, !.goalOn = FALSE,
                           !.completed = NoGoal], seen)

(* The files live in the temp directory, which may be cleaned.             *)
LoseControlState ==
    "lost" \in Faults /\ file # Unreadable
    /\ Writes(Unreadable, [seen EXCEPT !.late = IF file.paused THEN @ ELSE 0])

(* An edited goal takes effect with the next change of the provider        *)
(* library, which sends the worker a ReplaceConfigSnapshot as well.        *)
EditGoal ==
    /\ "edit" \in Users
    /\ uiGoal' \in Goal \ {uiGoal}
    /\ UNCHANGED <<file, queue, rt, agent, pc, w, seen>>

ReplaceConfig ==
    /\ pc = "rest" /\ rt.goal # uiGoal
    /\ rt' = [rt EXCEPT !.goal = uiGoal]
    /\ UNCHANGED <<file, queue, uiGoal, agent, pc, w, seen>>

(* enqueue_manual_prompt, called by another program                        *)
Enqueue ==
    /\ \E p \in Prompt \ seen.asked :
         /\ queue' = Append(queue, p)
         /\ seen' = [seen EXCEPT !.asked = @ \cup {p}]
    /\ UNCHANGED <<file, uiGoal, rt, agent, pc, w>>

-----------------------------------------------------------------------------
(* What the rest of the tick does to the prompts before they are driven.   *)

(* The monitor matched a continuation trigger.                             *)
NoteTrigger ==
    /\ pc = "rest" /\ "trigger" \in Users /\ ~rt.continuation
    /\ rt' = [rt EXCEPT !.continuation = TRUE]
    /\ UNCHANGED <<file, queue, uiGoal, agent, pc, w, seen>>

(* A request failed: the turn is over and the endpoint may cool down.      *)
NoteFailure ==
    /\ pc = "rest" /\ "failure" \in Users
    /\ \E cooling \in {TRUE, rt.cooling} :
         rt' = [rt EXCEPT !.waiting = FALSE, !.cooling = cooling]
    /\ agent' = [agent EXCEPT !.awaiting = FALSE]
    /\ seen' = [seen EXCEPT !.unanswered = FALSE]
    /\ UNCHANGED <<file, queue, uiGoal, pc, w>>

-----------------------------------------------------------------------------
(* maybe_drive_prompt                                                      *)

(* Going on to the next step; at rest the local variables are gone.        *)
Goes(next, locals) ==
    pc' = next /\ w' = IF next = "rest" THEN Idle ELSE locals

(* needs_submit_retry, if its wait is over: the prompt, or what the user   *)
(* typed, seems to wait in the input line for Enter.                       *)
NeedsSubmitRetry ==
    \/ agent.view = "prefilled" /\ Prompted
    \/ agent.view = "ready" /\ agent.awaiting /\ agent.reply \in {"none", "echo"}

RetrySubmit ==
    /\ pc = "rest" /\ NeedsSubmitRetry
    /\ \/ /\ agent' \in {Submitted, agent}    \* Enter may find nothing there
          /\ seen' = [seen EXCEPT !.unanswered = @ /\ agent' = agent]
          /\ UNCHANGED rt
       \/ /\ "send" \in Faults
          /\ agent' = [agent EXCEPT !.awaiting = FALSE]
          /\ rt' = [rt EXCEPT !.waiting = FALSE]
          /\ seen' = [seen EXCEPT !.unanswered = FALSE]
    /\ UNCHANGED <<file, queue, uiGoal, pc, w>>

(* A screen that shows both a running turn and the idle prompt for long.   *)
StaleWorking == agent.view = "busy" /\ Prompted

(* is_idle; banner: a ready screen was seen since the prompt was sent;     *)
(* quiet: nothing has been printed for as long as is_idle waits.           *)
IsIdle(banner, quiet) ==
    IF agent.awaiting
    THEN \/ banner /\ agent.view = "ready"
         \/ agent.view # "busy" /\ (quiet \/ agent.reply = "answered")
    ELSE quiet \/ (banner /\ ~Prompted)

(* can_send_prompt, once no turn is awaited                                *)
CanSend(stale) ==
    \/ agent.view = "ready"
    \/ agent.view = "busy" /\ (agent.reply = "answered" \/ stale)

(* auto_wait_safely_released                                               *)
SafelyReleased(banner, stale) ==
    \/ agent.reply = "answered" \/ stale
    \/ banner /\ agent.view = "ready"

CheckIdle ==
    /\ pc = "rest"
    /\ \E banner, quiet \in BOOLEAN, stale \in {FALSE, StaleWorking} :
         /\ IsIdle(banner, quiet)
         /\ LET confirmed == agent.reply = "answered"
                finished == confirmed /\ rt.active
                released == \/ agent.reply # "none"
                            \/ SafelyReleased(banner, stale)
            IN  /\ agent' = [agent EXCEPT !.awaiting = FALSE]
                /\ rt' = [rt EXCEPT !.waiting = @ /\ ~released,
                                    !.cooling = @ /\ ~confirmed,
                                    !.active = @ /\ ~finished]
                /\ seen' = [seen EXCEPT !.unanswered = @ /\ ~banner /\ ~stale]
                /\ w' = [Idle EXCEPT !.canSend = CanSend(stale)]
                /\ pc' = IF finished THEN "complete" ELSE "read"
    /\ UNCHANGED <<file, queue, uiGoal>>

(* A write of the control state by the worker, which may fail; onFailure   *)
(* is what the worker remembers of the failure.                            *)
Saves(update, onSuccess, onFailure) ==
    \/ file' = update /\ rt' = onSuccess
    \/ "write" \in Faults /\ UNCHANGED file /\ rt' = onFailure

(* disable_goal_mode_after_completed_turn                                  *)
DisableGoalMode ==
    /\ pc = "complete" /\ pc' = "read"
    /\ Saves([file EXCEPT !.goalOn = FALSE, !.completed = rt.goal,
                          !.request = NoCommand], rt, rt)
    /\ UNCHANGED <<queue, uiGoal, agent, w, seen>>

(* Broken variant: a request that could not be cleared counts again.       *)
ExplicitAgain(cs, stuck) == cs.request

(* The explicit goal request the worker may still follow.                  *)
Explicit(cs, stuck) ==
    IF cs.request = stuck THEN NoCommand ELSE cs.request

ReadControlState ==
    /\ pc = "read"
    /\ \E cs \in {file} \cup (IF "read" \in Faults THEN {Unreadable} ELSE {}) :
         LET stuck == IF rt.requestStuck = cs.request THEN cs.request
                                                      ELSE NoCommand
             explicit == Explicit(cs, stuck)
             wanted == /\ cs.goalOn /\ rt.pendingGoal = NoCommand
                       /\ ~rt.synced \/ explicit # NoCommand
         IN  /\ w' = [w EXCEPT !.cs = cs]
             /\ rt' = [rt EXCEPT
                         !.triggerStuck = @ /\ cs.trigger,
                         !.requestStuck = stuck,
                         !.pendingGoal = IF wanted /\ explicit # NoCommand
                                         THEN explicit ELSE @]
             /\ pc' = IF ~wanted THEN "pop"
                      ELSE IF explicit # NoCommand THEN "clear" ELSE "goal"
    /\ UNCHANGED <<file, queue, uiGoal, agent, seen>>

(* goal_prompt_for_active_session reads the control state once more.       *)
SyncGoal ==
    /\ pc = "goal" /\ pc' = "pop"
    /\ LET action == IF ShouldResume(rt.goal, w.cs) THEN "resume" ELSE "set"
       IN  \/ /\ file.goalOn
              /\ rt' = [rt EXCEPT !.pendingGoal = Command(action, rt.goal)]
           \/ /\ ~file.goalOn \/ "read" \in Faults
              /\ UNCHANGED rt
    /\ UNCHANGED <<file, queue, uiGoal, agent, w, seen>>

(* clear_goal_request_control_state: clears whatever request is there now. *)
ClearGoalRequest ==
    /\ pc = "clear" /\ pc' = "pop"
    /\ Saves([file EXCEPT !.request = NoCommand],
             [rt EXCEPT !.requestStuck = NoCommand],
             [rt EXCEPT !.requestStuck = w.cs.request])
    /\ UNCHANGED <<queue, uiGoal, agent, w, seen>>

(* Broken variant: the prompt is used although it is still in the file.    *)
PopIgnoringErrors ==
    /\ pc = "pop" /\ pc' = "choose"
    /\ \/ /\ queue # <<>>
          /\ w' = [w EXCEPT !.hand = Head(queue)]
          /\ queue' = Tail(queue) \/ ("write" \in Faults /\ queue' = queue)
       \/ queue = <<>> /\ UNCHANGED <<w, queue>>
    /\ UNCHANGED <<file, uiGoal, rt, agent, seen>>

(* pop_manual_prompt: a rewrite of the queue that fails pops nothing.      *)
PopManualPrompt ==
    /\ pc = "pop" /\ pc' = "choose"
    /\ \/ /\ queue # <<>>
          /\ w' = [w EXCEPT !.hand = Head(queue)] /\ queue' = Tail(queue)
       \/ /\ queue = <<>> \/ "write" \in Faults
          /\ UNCHANGED <<w, queue>>
    /\ UNCHANGED <<file, uiGoal, rt, agent, seen>>

(* Broken variant: a mark that could not be cleared counts again.          *)
ByTriggerAgain == w.cs.trigger

ByTrigger == w.cs.trigger /\ ~rt.triggerStuck

ByGoal == w.cs.goalOn /\ rt.pendingGoal # NoCommand

(* Broken variant: the interval between prompts is not watched.            *)
ByPendingPrompt == ~w.cs.paused /\ (rt.continuation \/ rt.initial # "none")

ByContinuation ==
    ~w.cs.paused /\ (rt.continuation \/ rt.initial # "none" \/ rt.due)

AutomaticRequested == ByTrigger \/ ByGoal \/ ByContinuation

Manual == w.hand # NoPrompt

(* Broken variants: the manual prompt is forgotten; nothing is requeued as *)
(* if it were a prompt.                                                    *)
HoldBackForgetful ==
    /\ pc = "choose" /\ ~w.canSend
    /\ Goes("rest", w)
    /\ UNCHANGED <<file, queue, uiGoal, rt, agent, seen>>

HoldBackAnyway ==
    /\ pc = "choose" /\ ~w.canSend
    /\ Goes("requeue", w)
    /\ UNCHANGED <<file, queue, uiGoal, rt, agent, seen>>

(* The terminal is not ready: the manual prompt goes back to the queue.    *)
HoldBack ==
    /\ pc = "choose" /\ ~w.canSend
    /\ Goes(IF Manual THEN "requeue" ELSE "rest", w)
    /\ UNCHANGED <<file, queue, uiGoal, rt, agent, seen>>

(* Broken variants: the answer to the last prompt is not awaited; a manual *)
(* prompt is subject to the pause too.                                     *)
MaySendUnanswered ==
    w.canSend /\ (Manual \/ (AutomaticRequested /\ ~rt.cooling))

MaySendUnpaused ==
    w.canSend /\ AutomaticRequested
    /\ (Manual \/ (~rt.cooling /\ ~rt.waiting))

MaySend ==
    w.canSend /\ (Manual \/ (AutomaticRequested /\ ~rt.cooling /\ ~rt.waiting))

StayQuiet ==
    /\ pc = "choose" /\ w.canSend /\ ~MaySend
    /\ Goes("rest", w)
    /\ UNCHANGED <<file, queue, uiGoal, rt, agent, seen>>

(* The order of preference: goal command, continuation trigger, initial    *)
(* prompt, and then the goal's fallback prompt or the automatic prompt.    *)
Chosen ==
    IF Manual THEN "manual"
    ELSE IF rt.pendingGoal # NoCommand THEN "goal"
    ELSE IF rt.continuation THEN "continuation"
    ELSE IF rt.initial # "none" THEN "initial" ELSE "auto"

SkipBlank ==
    /\ pc = "choose" /\ MaySend
    /\ Chosen = "initial" /\ rt.initial = "blank"
    /\ rt' = [rt EXCEPT !.initial = "none"] /\ Goes("rest", w)
    /\ UNCHANGED <<file, queue, uiGoal, agent, seen>>

Sends(kind) ==
    /\ pc = "choose" /\ MaySend
    /\ kind = Chosen /\ ~(kind = "initial" /\ rt.initial = "blank")

AfterSend(kind) ==
    IF kind = "goal" THEN "sync" ELSE IF w.cs.trigger THEN "untrigger" ELSE "rest"

(* What RuntimeCore remembers of a prompt that went out.                   *)
Delivered(kind) ==
    [rt EXCEPT !.pendingGoal = IF kind = "goal" THEN NoCommand ELSE @,
               !.continuation = @ /\ kind # "continuation",
               !.initial = IF kind = "initial" THEN "none" ELSE @,
               !.active = @ \/ kind = "goal", !.synced = @ \/ kind = "goal",
               !.waiting = kind # "manual",
               !.requeueError = @ /\ kind # "manual", !.due = FALSE]

Capped(n) == IF n > 2 THEN 2 ELSE n

Remembered(kind) ==
    LET auto == kind \notin {"manual", "goal"}
        late == auto /\ file.paused
        early == auto /\ ~ByContinuation
        command == rt.pendingGoal
    IN  [seen EXCEPT
           !.typed = IF kind = "manual" THEN @ \cup {w.hand} ELSE @,
           !.late = IF late THEN Capped(@ + 1) ELSE @,
           !.early = IF early THEN Capped(@ + 1) ELSE @,
           !.budget = IF kind = "goal" THEN @ - 1 ELSE @,
           !.unanswered = kind # "manual",
           !.goal = IF kind = "goal" /\ command.action = "set"
                    THEN command.goal ELSE @]

(* AgentProcess::send_prompt, which checks once more that it may send.     *)
SendPrompt(kind) ==
    /\ Sends(kind)
    /\ \E stale \in {FALSE, StaleWorking} : CanSend(stale)
    /\ agent' = [agent EXCEPT !.awaiting = TRUE, !.reply = "none"]
    /\ rt' = Delivered(kind) /\ seen' = Remembered(kind)
    /\ Goes(AfterSend(kind), [w EXCEPT !.hand = NoPrompt])
    /\ UNCHANGED <<file, queue, uiGoal>>

(* A prompt that could not be sent stays pending; a manual one goes back   *)
(* to the queue.                                                           *)
SendFails(kind) ==
    /\ Sends(kind)
    /\ "send" \in Faults \/ ~CanSend(FALSE)
    /\ rt' = [rt EXCEPT !.waiting = FALSE]
    /\ seen' = [seen EXCEPT !.unanswered = FALSE]
    /\ Goes(IF kind = "manual" THEN "requeue" ELSE "rest", w)
    /\ UNCHANGED <<file, queue, uiGoal, agent>>

(* mark_goal_synced: records the config's goal, whatever was sent.         *)
MarkGoalSynced ==
    /\ pc = "sync" /\ Goes(AfterSend("auto"), w)
    /\ Saves([file EXCEPT !.synced = rt.goal, !.completed = NoGoal,
                          !.request = NoCommand], rt, rt)
    /\ UNCHANGED <<queue, uiGoal, agent, seen>>

ClearTrigger ==
    /\ pc = "untrigger" /\ Goes("rest", w)
    /\ Saves([file EXCEPT !.trigger = FALSE],
             [rt EXCEPT !.triggerStuck = FALSE],
             [rt EXCEPT !.triggerStuck = TRUE])
    /\ UNCHANGED <<queue, uiGoal, agent, seen>>

(* requeue_manual_prompt appends; if that fails the prompt is gone and the *)
(* error is shown.                                                         *)
RequeueManualPrompt ==
    /\ pc = "requeue" /\ Goes("rest", w)
    /\ \/ /\ queue' = Append(queue, w.hand)
          /\ rt' = [rt EXCEPT !.requeueError = FALSE]
       \/ /\ "write" \in Faults /\ UNCHANGED queue
          /\ rt' = [rt EXCEPT !.requeueError = TRUE]
    /\ UNCHANGED <<file, uiGoal, agent, seen>>

-----------------------------------------------------------------------------

Kinds == {"manual", "goal", "continuation", "initial", "auto"}

Agent ==
    \/ AgentReady \/ AgentEchoes \/ AgentStarts \/ AgentAnswers
    \/ AgentFinishes \/ TimePasses

Others ==
    \/ Relaunch \/ Crash \/ UserTypes \/ UserSubmits \/ Pause \/ Resume
    \/ RequestGoal \/ LeaveGoalMode \/ LoseControlState \/ EditGoal
    \/ ReplaceConfig \/ Enqueue \/ NoteTrigger \/ NoteFailure

DrivePrompt ==
    \/ RetrySubmit \/ CheckIdle \/ DisableGoalMode \/ ReadControlState
    \/ SyncGoal \/ ClearGoalRequest \/ PopManualPrompt \/ HoldBack
    \/ StayQuiet \/ SkipBlank \/ MarkGoalSynced \/ ClearTrigger
    \/ RequeueManualPrompt
    \/ \E kind \in Kinds : SendPrompt(kind) \/ SendFails(kind)

Next == Agent \/ Others \/ DrivePrompt

Spec == Init /\ [][Next]_vars

-----------------------------------------------------------------------------
(* Properties                                                              *)

Waiting(p) == \E i \in 1..Len(queue) : queue[i] = p
Held(p) == Waiting(p) \/ w.hand = p

Control == [paused : BOOLEAN, trigger : BOOLEAN, goalOn : BOOLEAN,
            request : GoalCommand \cup {NoCommand},
            completed : Goal \cup {NoGoal}, synced : Goal \cup {NoGoal}]
Runtime == [goal : Goal, pendingGoal : GoalCommand \cup {NoCommand},
            continuation : BOOLEAN, initial : {"none", "blank", "text"},
            waiting : BOOLEAN, synced : BOOLEAN, active : BOOLEAN,
            triggerStuck : BOOLEAN,
            requestStuck : GoalCommand \cup {NoCommand},
            requeueError : BOOLEAN, cooling : BOOLEAN, due : BOOLEAN]
View == {"starting", "ready", "busy", "prefilled"}
Reply == {"unasked", "none", "echo", "started", "answered"}
History == [asked : SUBSET Prompt, typed : SUBSET Prompt,
            died : SUBSET Prompt, late : 0..2, early : 0..2,
            budget : Int, unanswered : BOOLEAN,
            goal : Goal \cup {NoGoal}]

(* Each variable holds what the fields it models can hold.                 *)
TypeOK ==
    /\ file \in Control /\ queue \in Seq(Prompt) /\ uiGoal \in Goal
    /\ rt \in Runtime
    /\ agent \in [awaiting : BOOLEAN, view : View, reply : Reply]
    /\ pc \in {"rest", "complete", "read", "goal", "clear", "pop", "choose",
               "requeue", "sync", "untrigger"}
    /\ w \in [canSend : BOOLEAN, cs : Control, hand : Prompt \cup {NoPrompt}]
    /\ seen \in History

(* A manual prompt is in one place at a time: queued once, or in the       *)
(* worker's hand, or typed; so it is never typed twice, however often it   *)
(* was popped, held back and requeued.                                     *)
ManualPromptOnce ==
    /\ \A i, j \in 1..Len(queue) : queue[i] = queue[j] => i = j
    /\ \A p \in Prompt :
         /\ Held(p) => p \in seen.asked /\ p \notin seen.typed
         /\ ~(Waiting(p) /\ w.hand = p)

(* A manual prompt leaves queue and worker only by being typed; when it is *)
(* lost, because the queue file cannot be written, the error is shown, or  *)
(* the program has died with the prompt in hand.                           *)
ManualPromptKept ==
    [][\A p \in Prompt : Held(p) => \/ Held(p)'
                                    \/ p \in seen'.typed \cup seen'.died
                                    \/ rt'.requeueError]_vars

WhereIs(p) ==
    IF w.hand = p THEN "held"
    ELSE IF p \in seen.typed THEN "typed"
    ELSE IF p \in seen.died THEN "buried"
    ELSE IF Waiting(p) THEN "waiting"
    ELSE IF p \in seen.asked THEN "lost" ELSE "unasked"

Delivery == INSTANCE PromptDelivery
    WITH where <- [p \in Prompt |-> WhereIs(p)], told <- rt.requeueError

(* Queue file, worker and terminal together deliver each manual prompt as  *)
(* PromptDelivery promises, whichever accesses fail and wherever the       *)
(* program dies.                                                           *)
DeliversOnce == Delivery!DeliverySpec

(* While the user has continuation paused, at most one automatic prompt    *)
(* goes out, the one that was under way, also when the control state gets  *)
(* lost or cannot be read.                                                 *)
PauseStops == file.paused => seen.late <= 1

(* One request to continue at once skips the wait between prompts once,    *)
(* although its mark is cleared only after the prompt went out and the     *)
(* write that clears it may fail.                                          *)
TriggerOnce == seen.early <= 1

(* Of the /goal commands each answers a request of the user or the start   *)
(* of a session: none is repeated because the request it came from could   *)
(* not be cleared or another one was taken in between.                     *)
GoalNotRepeated == seen.budget >= 0

(* No automatic prompt is typed on top of another: since the last one the  *)
(* agent has printed something or shown a fresh input line, a manual       *)
(* prompt went out, the turn was given up, or the agent is a new one.      *)
NoStackedPrompts ==
    [][\A kind \in Kinds \ {"manual"} :
         SendPrompt(kind) => ~seen.unanswered]_vars

-----------------------------------------------------------------------------
(* Liveness: the worker ticks for ever, time passes, and the agent becomes *)
(* ready, takes up what is typed and comes to the end of each turn.        *)

LiveSpec ==
    /\ Spec
    /\ WF_vars(DrivePrompt) /\ WF_vars(TimePasses)
    /\ WF_vars(AgentReady) /\ WF_vars(AgentStarts)
    /\ WF_vars(AgentAnswers) /\ WF_vars(AgentFinishes)

(* Unless the user pauses, automatic prompts keep going out: no request is *)
(* needed for it, and none that gets lost stops it.                        *)
ContinuationGoesOn ==
    []<>(file.paused) \/ []<><<\E kind \in Kinds : SendPrompt(kind)>>_vars

(* A queued manual prompt is typed in the end, also while continuation is  *)
(* paused.                                                                 *)
ManualPromptTyped == \A p \in Prompt : (p \in seen.asked) ~> (p \in seen.typed)

-----------------------------------------------------------------------------
(* What the tests say and the code does not keep.                          *)

(* A goal that was changed is not resumed as if it were the one last       *)
(* synced (runtime.rs:5461).                                               *)
ChangedGoalNotResumed ==
    [][SendPrompt("goal") /\ rt.pendingGoal.action = "resume" =>
         seen.goal \in {NoGoal, rt.pendingGoal.goal}]_vars

=============================================================================
