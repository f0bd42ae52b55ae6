# A TLA+ model of WatchApi

WatchApi keeps a coding agent (Codex, Claude Code, OpenCode) running on the
heaviest of several OpenAI-compatible endpoints that works.  It probes the
endpoints, moves the agent when one fails or answers polluted text, and moves it
back when a heavier one recovers.  This directory models that program in TLA+,
checks the model with TLC and proves its main invariants with TLAPS.  Every
definition is translated from the Rust source; `PROJECT.json` names the lines.

## The system

| component | source | state | operations |
|---|---|---|---|
| supervisor `RuntimeCore` | `watchapi-core/src/runtime.rs` | current endpoint, agent, guard proxy, per-endpoint memory (last result, next probe, cooldowns, failure counters), one-shot requests | `tick`, `stop`, `restart_agent`, `replace_config_snapshot`, endpoint and session commands |
| worker thread | `watchapi-gui/src/app.rs` (`spawn_runtime_worker`) | a channel of commands, the mutex around `RuntimeCore` | a tick every probe interval, commands in between |
| CLI | `watchapi-cli/src/main.rs` | a running flag | tick, sleep, stop |
| control channel | `control.rs`, `atomic_write.rs` | a JSON state file and a JSONL prompt queue per config | read, update keys, append and pop a prompt |
| health tracker, selector | `health.rs`, `selector.rs` | success and failure streaks per endpoint | `update`, `reset`; what rows and events show |
| probe | `probe.rs`, `http_probe.rs` | none | one result per request |
| agent process | `agent.rs` | terminal, turn state, monitor flags, session binding | `start`, `stop`, `send_prompt`, `is_idle`, `retry_submit` |
| terminal session | `terminal.rs`, `terminal_emulator.rs` | input queue, output ring, screen | write, resize, drain |
| guard proxy | `guard_proxy.rs` | accept thread, client counter, audit counters | admit clients, forward with retries, judge, rewrite or fail, audit |
| guard port registry | `runtime.rs` 3247-3359 | a JSON file of ports that the runtimes share | reserve, bind, clear, reserve again |
| aggregate egress pool | `aggregate_egress.rs` | keys and upstreams with cooldowns, requests in flight, rates; a file of key qualities and its writer thread | select, forward, fail over, record, persist, flush |
| smart proxy of the LiteLLM manager | `litellm_proxy.rs` | two tables under two locks, keys and their upstreams | select, forward, write down, show |
| sessions, Codex homes | `sessions.rs`, `codex_files.rs`, `agent.rs` | bindings, isolated homes, backups | discover, bind, merge back, restore |
| text and data | `config.rs`, `pollution.rs`, `cooldown.rs`, `tokens.rs` | none | parsing and matching |
| other GUI parts | `app.rs`, `remote_bridge.rs`, `tray.rs` | windows, a relay | |

How they interact.  The GUI puts commands into a channel; a worker thread takes
them between two ticks and calls `RuntimeCore` under a mutex that `tick()` holds
from its first line to its last.  `tick()` is async: it awaits one probe after
the other, and launching an agent takes seconds.  Meanwhile the agent process
and the guard proxy's accept thread run on and may die; the agent's monitor
raises flags (pollution, request failure, network failure, completion) that a
later tick consumes.  The user's wishes `fixed_endpoint`, `force_probe_endpoint`
and `auto_paused` live in the control file that GUI, CLI and `RuntimeCore` share
and every tick reads again.  At the end of a tick `maybe_drive_prompt` decides
whether to type something into the agent's terminal: a manual prompt from the
queue file, a goal command, a prompt a trigger asked for, the initial prompt or
the automatic one.  It reads and writes the two control files several times on
the way, each time under a lock of its own.

Between the agent and its endpoint sit up to two proxies.  The guard proxy takes
the agent's requests, one thread per client, and judges the answers; the
supervisor reads its audit in every tick.  The guard either sends a request to
the endpoint itself or hands it to the aggregate pool, which picks one of many
keys, sends the request and goes on to another key if that fails.  The GUI's
LiteLLM manager has a proxy of the same kind, with locks of its own, which also
serves other programs.  All of them share the code that tells how a stream of
events ended, and two of them the writer that keeps the qualities of the keys in
a file.

What is hard.  A switch stops the old agent before it knows whether the new one
starts, and the fallback after a failure runs inside the same tick.  Several
deadlines per endpoint (next probe, two pollution cooldowns, a startup retry
window) decide together whether a cached result may be used.  Commands and
config edits arrive between any two ticks.  The proxies have threads that share
tables but hold a lock for one step only, so what a thread has looked at may be
different when it acts; every path out of a request has to give back what it took;
and a client that has heard something must not hear something else.  Files are
written while the program may die.  The properties below are about these points; `PROJECT.json` lists each hazard at its line.

What makes each component correct: the supervisor's agent is where it should be
or nowhere, never on a quarantined endpoint after a failure, and comes back; the
prompt queue loses nothing silently and repeats nothing, a pause stops and a
request starts what it is meant to; the guard counts its clients on every path,
gives each one response and loses no failure; a guard keeps its port; a pool
prefers a response to an error, does not go back to a key that has failed and
gives every place back; threads take their locks in an order that cannot block;
a verdict on a stream does not depend on how it was cut; the file of qualities
follows what was recorded, whatever fails.

## Modules

* **`Endpoints`** - what `RuntimeCore` remembers of an endpoint, as one record
  per endpoint, and the functions of `runtime.rs` that read or rewrite it
  (`remember_single_probe_result`, `mark_endpoint_polluted`, `cooldown_result`,
  `hard_cooldown_result`, ...), as operators on that record.  A deadline is
  `"none"`, `"active"` or `"expired"`; the real clock is left out.  A run-out
  entry differs from an absent one because the code only removes it when
  `cooldown_result` passes by (`Purge`), and `schedule_pollution_recovery_probe`
  treats them differently.
* **`Supervisor`** - `tick()`, the commands and the environment.  A tick is a
  sequence of steps, because agent and guard may die and deadlines may pass
  between them:

      free -> check -> choose -> look ... look -> recover ... -> commit -> free

  | step | code |
  |---|---|
  | `DirectStart` | `direct_endpoint_once`, 242-266 |
  | `Hold` | the paused branch, 276-324 |
  | `Watch` | what the agent, its guard and its session tell, 326-419 |
  | `Check` | a requested probe of the running endpoint, 421-470 |
  | `Choose...` | `select_endpoint_with_options`, 1272-1400 |
  | `LookAtNext`, `LookedAtAll` | `find_first_available`, 1467-1529 |
  | `Recover`, `Recovered` | `probe_due_unhealthy_endpoints`, 1402-1465 |
  | `Nothing`, `Stay`, `Switch`, `GiveUp` | the end of `tick()`, 482-558 |

  `t` holds the local variables of the tick.  Commands are one action each and
  need `pc = "free"`, as the mutex demands.  `AgentExits`, `GuardExits` and
  `TimePasses` are the environment.  The control file is `fixed`, `forced` and
  `paused`; saving it always succeeds here.  `Commands` selects the commands of
  an instance.
* **`Quarantine`** - what the pollution cooldown promises, without ticks, searches
  and timers: who isolated an endpoint (its session files or its guard), how many
  clean probes in a row it has had, and the only ways out: its time is served,
  enough clean probes, the guard proxy takes over or gives up, disabling, a new
  run.  An agent starts on an endpoint that works and is not isolated, or on the
  one the user asked for (`StartAnyway`, the direct start).  `Supervisor`
  implements it (`KeepsQuarantine`): `Ward` reads `polluted_until`,
  `guard_polluted_until` and `pollution_recovery_successes` together, a cached
  result counts as working when it is `ok`, and only a live agent counts as
  running.  Many steps of a tick map to nothing at all, each of the others to one
  abstract step about one endpoint.
* **`Prompts`** - `maybe_drive_prompt`, the two control files and everything that
  writes them or that the function reads: the user in the GUI, the user at the
  terminal, the program that queues prompts, the agent.  One call of the
  function is a sequence of steps, one per access to a file or to the agent:

      rest -> [complete] -> read -> [goal | clear] -> pop -> choose
           -> [sync] -> [untrigger] -> rest      or choose -> requeue -> rest

  | step | code |
  |---|---|
  | `RetrySubmit`, `CheckIdle` | `needs_submit_retry`, `is_idle`, what the answer releases, `runtime.rs` 1705-1755 |
  | `DisableGoalMode` | the goal's turn is over, 1751-1754 |
  | `ReadControlState`, `ClearGoalRequest`, `SyncGoal` | 1756-1808 |
  | `PopManualPrompt` | `control.rs` 58-103 |
  | `HoldBack`, `StayQuiet`, `SkipBlank` | the returns between 1823 and 1871 |
  | `SendPrompt`, `MarkGoalSynced`, `ClearTrigger` | 1884-1917 |
  | `SendFails`, `RequeueManualPrompt` | 1918-1954 |

  `file` is the control state, `queue` the prompt queue, `rt` the fields of
  `RuntimeCore`, `w` the local variables, `agent` what `AgentProcess` reads from
  screen and session log: a `view` (starting, ready, busy, prefilled) and how far
  the `reply` to the last prompt has come.  `seen` is a history variable that
  only properties read.  `Users` and `Faults` select what happens around the
  worker in an instance.  `Relaunch` is what `Supervisor` does between two calls.
* **`PromptDelivery`** - what somebody who queues a manual prompt may rely on, and
  nothing else: a prompt waits, is taken by one worker, is then typed once or put
  back, and is lost only with an error that is shown or with the program.
  `Prompts` implements it (`DeliversOnce`).  A crash (`Crash` in `Prompts`) may
  come between any two steps; the files stay, everything else is new.
* **`GuardProxy`** - the accept thread, the client threads, the audit they share
  and the supervisor's reading of it.  One action per step between two points
  where others can come in:

      away -> reading -> sending -> [streaming] -> judging -> [failing]
           -> writing -> done            and from most places straight to done

  A client's record says what has been done to it (`heads`, `taken`, `cut`,
  `gone`); `config` is the mode of the guard, chosen at the start.  Whether an
  answer is risky is a choice; what follows from it in each mode is not.  `taken`
  counts the successes of the requests the thread sends itself.  What the shared
  pool sends for it is the pool's business and not counted (see below).
  `RaiseAlarm` is what the tick does with the audit; `Supervisor` abstracts it to
  a signal.
* **`GuardPorts`** - the registry of guard ports.  Each runtime reserves a port
  under the lock, binds it after the lock was given back, and if somebody was
  faster forgets the port and reserves another one.  Other programs take ports,
  entries get lost, saves fail.
* **`AggregatePool`** - the tables of the pool and the threads that forward:

      new -> selecting -> chosen -> sent -> recording -> done
                 ^                                |
                 +---------- failover ------------+

  A key either cools down or not; the time until then, its score and the rotation
  are left out: any key the code could rank first may be chosen.
* **`SmartProxy`** - the same task with two tables under two locks.  Taking a lock
  is a step, because choosing, writing down a result and showing the tables need
  both, in different ways.
* **`SseTracker`** - the end of a stream of events, as the three proxies detect it
  with the same code: pieces of lines in, chunks that end anywhere, a verdict out.
  Piece `k` of a stream is the first half of a line, its second half or a newline;
  `arrived` is the number of those that have come.  The tracker only knows what it
  carries.  The reference definition (`StreamVerdict`) looks at the whole stream at
  once.
* **`SessionMonitor`** - the wait for an answer.  The agent writes its session log in
  pieces that may end in the middle of a line or before its newline; the monitor
  reads what there is at every poll; the agent process decides from the log, the
  screen and the time whether the turn is over.

  | step | code |
  |---|---|
  | `WriteLine`, `WriteRest`, `MoveLog`, `CutLog` | the agent and its file, external |
  | `AttachSessionFile`, `StartOver`, `ReadLines` | `poll` of the two monitors, `sessions.rs` |
  | `ObserveItem`, `BeginWaiting`, `MarkTurnCompleted` | what a line or the agent process does to the turn state, `sessions.rs` |
  | `IsIdle`, `SendPrompt`, `MarkTurnFailed` | the functions of these names in `agent.rs` |

  `driver` is Codex with names of turns in its log, Codex without, or Claude.  What
  the screen shows is an input, chosen at every poll.  `Prompts` keeps of all this
  how far the `reply` has come.
* **`QualityWriter`** - the channel, the thread that takes writes out of it, its
  store, the file, flushes with a timeout, the last save when the sender is gone,
  a crash at any moment and a restart.  A restart waits for nothing but the last
  flush: `from_config` starts a new writer, which loads the file when it gets to
  it, while the client threads of the server before and its writer live on.  The
  variables are those of the newest server; `older` holds up to `MaxOlder` others
  with what is left of them: their qualities, their channel, their writer.  An
  older writer's flushes are told by what they may do, a save or none, without
  their tries.  **`LaggingStore`** is the abstract promise: the file is what the
  first so many writes make of it, and their number never falls, as long as no
  other writer is left (`others`); one that is left may put its own store in the
  place of the file (`Overwrite`), and the next save makes up for it.

  | step | code |
  |---|---|
  | `Persist`, `AskFlush`, `FlushTimeout` | `persist`, `flush_with_timeout`, `aggregate_egress.rs` |
  | `Load`, `TakeCommand`, `Drained`, `FlushPending`, `Disconnected`, `LastSave` | the thread of `QualityWriteHandle::new`, `flush_quality_pending` |
  | `Close`, `StartServer` | `stop_with_quality_flush` and the end of the last client thread; `from_config` and `start`, `litellm_proxy.rs` |
  | `OlderPersists`, `OlderCloses`, `OlderTakes`, `OlderSaves`, `OlderGoesOn`, `OlderEnds` | the same threads of a server that was stopped |

* **`MCSupervisor`**, **`MCPrompts`** - TLC's instances; the weights.
  **`MCServices`** and **`MCGoesOn`** put parts that share no variable next to each
  other.  `part` says which of them runs while the others stay as they are at the
  start: this explores each part completely and none of the interleavings between
  them, in which nothing could depend on another part.  The supervisor's look at
  the guard's audit, which changes nothing a client sees, is only in `MCGoesOn`.
* **`Supervisor_proofs`**, **`Prompts_proofs`**, **`Guard_proofs`** (`GuardProxy` and
  `GuardPorts`), **`AggregatePool_proofs`**, **`SmartProxy_proofs`**,
  **`QualityWriter_proofs`**, **`Readers_proofs`** (`SessionMonitor` and `SseTracker`),
  **`Services_proofs`** (the parts of `MCServices` together) - the TLAPS proofs.

`Supervisor` and `Prompts` describe one worker from two sides.  They share the
control file: `auto_paused` is `paused` in one and `file.paused` in the other.
A tick of `Supervisor` ends in one call of `maybe_drive_prompt`, which starts and
stops no agent and chooses no endpoint; `Supervisor` keeps of it that failure
counters may be cleared (`Driven`), `Prompts` keeps of the tick that failures and
triggers are noted and agents relaunched.  In the same way `Supervisor` keeps of the
guard that it may die and that the agent or the guard may report pollution;
`GuardProxy` says when the guard does.  `GuardProxy` keeps of the pool that it
answers, fails, or rejects a request for its encrypted content.

Definitions commented "Broken variant" are plausible mistakes, each next to the
definition it replaces.  No specification uses them; each breaks the property
it is meant for, which shows that the property depends on the code.

### Abstractions

* A probe result is one of five outcomes; `retry` stands for every result with
  `retry_after_seconds`.  Models-only and full probes differ in what they send,
  not in the results they may have.
* Counters saturate at the threshold they are compared with.
* The monitor reports at most one signal per tick.  The code looks at its flags
  in a fixed order and only acts on the first; a flag left over is reported in a
  later tick.
* A deadline may pass between two ticks, before a selection and before a
  commit, for as long as `SlowTicks` allows.  A pass over the endpoints reads
  the clock once (`now`), and what it does to one endpoint does not touch the
  others, so a deadline that passes during it could as well have passed before
  or after.
* In `Supervisor`, what `maybe_drive_prompt` sends is left out; that it clears
  failure counters when the session shows an answer is in (`Driven`).
* In `Prompts` no clock runs: where the code compares an elapsed time, either
  answer is possible (`quiet`, `banner`, `stale`), except for the two deadlines
  whose order with other events matters (`due`, `cooling`).
* Goals are compared by revision, signature and text in the code, prompts have
  texts; both are values here.  The goal's fallback prompt and the automatic
  prompt are one kind, `auto`: nothing but the wording differs.
* `request_current_goal` reads the control state and writes it in one action; the
  action `set` or `resume` it chooses is then that of the state it writes to.
* In the proxies a request is what matters of it: whether it asks for a stream,
  whether it carries encrypted content.  An upstream answers with one of a few
  outcomes (`Outcomes`, `Outcome`), each the class of statuses and errors that the
  code treats alike.  Rates per second and minute are one counter that falls by
  itself.
* Cooldowns of keys and upstreams end at any time after they began.
* The quality of a key is the number of outcomes it has counted, at most
  `MaxQuality`: one number tells any two states of a key apart.
* `send_prompt` either types the prompt or fails before anything is typed.
  OpenCode's paste and Enter are two writes, of which only the second may fail;
  that is not modelled.

## Runs

Every run of `Supervisor` is small but leaves nothing of the tick out.  Two endpoints are enough
for every branch of the selection (the running one and another one, heavier,
lighter or equal); thresholds of 1, and of 2 for failed requests in `single`
(a counter on its way to the threshold), reach every comparison; the recovery count is always 3, because the code never
takes less.

| run | instance | shows |
|---|---|---|
| `switching` | 2 endpoints, the first guarded; pollution; `fork`, `new`, `restart`, `stop`, `config`, `pause`; launches may fail | `TypeOK`, `AgentPaired`, `SelectionUsable`, `SelectionHeaviest`, `ForkSurvives`, `NoStrayAgent` |
| `commands` | 2 equal endpoints; pollution; `fix`, `full`, `prefer`; launches may fail | `FixedObeyed` |
| `single` | 1 endpoint, all outcomes and signals, six commands | `PollutionEvicts`, `OverdrawnReleased`, and that `Supervisor` implements `Quarantine` (`KeepsQuarantine`) |
| `liveness` | 2 endpoints that answer their probes; pollution; launches may fail; quick ticks | `AgentRegained`, `HeaviestRegained`, `TickFinishes` |
| `prompting` | 1 prompt, 2 goals; pause, triggers, failures, relaunches, edits, a user who types; reads, writes and sends may fail, the file may get lost, the program may die | `TypeOK`, `ManualPromptOnce`, `PauseStops`, `NoStackedPrompts`, and that `Prompts` implements `PromptDelivery` (`DeliversOnce`) |
| `goal_mode` | 1 goal; goal requests, pause and resume, relaunches; writes and sends may fail | `GoalNotRepeated`, `TriggerOnce` |
| `goes_on` | prompts: 2 prompts, pause and resume; guard: 2 clients in two modes; pool: 2 requests, 1 key; writer: 2 keys, 2 writes each, saves fail, the program dies, no older server | `ContinuationGoesOn`, `ManualPromptTyped`, `FailureTold`, `RequestsEnd`, `FlushKeeps` |
| `services` | guard: 3 clients, 2 places; ports: 3 runtimes, 2 endpoints, 2 ports; pool: 2 requests, 2 keys, 1 upstream with 1 place; smart proxy: the same; tracker: all streams of up to 3 lines; log: 3 kinds of log, up to 4 lines and 2 turns; writer: 2 keys, 1 outcome each, 1 older server, saves fail, restarts, the program dies | `ServicesTypeOK`; guard `ClientsCounted`, `OneHead`, `FailuresAccounted`; ports `PortsDistinct`, `PortKept`; pool `OneSource`, `ResponsePreferred`, `FailoverMoves`; smart proxy `RejectedMoves`, `NoCircularWait`; tracker `VerdictExact`; log `EndOfNewTurn`, `CountExact`; and that `QualityWriter` implements `LaggingStore` (`LagsBehind`) |
| `stranded` | 1 endpoint, launches may fail | violates `KeepsAgentRunning` |
| `dead_guard` | 1 guarded endpoint | violates `GuardRestored` |
| `changed_goal` | 2 goals; goal requests, edits, relaunches | violates `ChangedGoalNotResumed` |
| `leaked_slots` | the pool of `services` | violates `IdleMeansFree` |

One manual prompt is enough for a duplicate (it would be queued twice, or queued
and typed); two of them in `goes_on` show the orders of queueing and requeueing,
in which one could keep the other from being typed.  One goal gives requests to
set and to resume; two are needed only where an old and a new goal can be confused,
in `changed_goal`.  `MaxBudget` bounds the goal requests that may be open at the
same time (2, or 3 in `changed_goal`); a third open request only overwrites the
second in the file.  `late` and `early` count to 2, one more than the properties
allow.

Three clients of a guard with two places fill it, turn one away and reuse a place;
two attempts are enough for a retry and for the last failure; `RiskThreshold` 2
tells the answer before the threshold from the one that reaches it.  Three
runtimes on two endpoints give an endpoint that two runtimes share and one that
only one has, and two ports are too few as soon as another program holds one.
Two requests at one upstream with one place compete for it, and two keys give a
failover a place to go; a third request or key adds no new pair.  Three lines are
an event, its data and the blank line, or data in two lines that are JSON only
together; chunks of up to `MaxChunk` pieces end at every place of a line.  A batch
of 2 writes, 2 tries and 2 writes per key reach a save that is due, one that is
not, a flush behind and before writes, and the last failure of each kind.  One
older server is enough for a save over the newer file before the new writer has
loaded it, between its saves and after its last one; with it one outcome per key is
what TLC can explore, which leaves the order of two writes to one key beside an
older server to the proof.  The server is not started a third time while two
writers live (`MaxOlder`).

A log of 4 lines and 2 turns has room for a turn that starts, says something and
ends late, when silence, the screen or a failure has already released the wait and
the next prompt is out, and for the start of the turn that this prompt begins; 5
lines were checked once and show the same.  `EndOfNewTurn` is about Codex only:
Claude's log does not say which prompt a message answers, so a last message that
comes late counts for the new prompt.  `CountExact` excepts files that were cut,
and a file that was moved and found again is read again, as in the code.  A file is
cut once, to nothing, after some of it was read, and then followed for half as many
lines (`MaxLength`).

Fairness (`FairSpec`).  The worker thread ticks for ever and a tick only awaits
requests with a timeout, hence weak fairness of `Tick`; a stopped runtime is
started again (weak fairness of `StartRuntime`, the user's doing in the GUI);
every deadline passes.  The last needs strong fairness, because some deadlines
may only pass between two ticks, and ticks follow each other.  Nothing is
assumed of commands, of the agent or of the guard.

Launches may fail in `liveness`, so `AgentRegained` and `HeaviestRegained` except
the behaviours in which they fail for ever (`LaunchesKeepFailing`): again and again
`switch_to` is called for an endpoint, by the commit of a tick or for the user,
and fails (`LaunchTriedInVain`).  A supervisor that ticks for ever without trying a
launch is not excused.  `TickFinishes` needs no such condition.

`LiveSpec` of `Prompts` assumes the same of the worker (weak fairness of
`DrivePrompt`, which is part of every tick) and of time, and of the agent that it
becomes ready, takes up what is typed, answers and ends its turns.  Without the
last, `ContinuationGoesOn` is false, as it should be: an agent that works for ever
is left alone.  Nothing is assumed of the user.

`GoesOnSpec` adds the other parts' threads.  `GuardFairness`: a client thread takes
its next step and the supervisor reads the audit, both while the guard runs; every
request upstream has a timeout, so a thread does not wait for ever.
`PoolFairness`: the same for the threads of the pool.  Weak fairness is enough,
as a thread's next step stays possible until it is taken.  Nothing is assumed of
the writer, of which only safety is checked, of clients, of upstreams or of the end
of cooldowns: `RequestsEnd` also holds when nothing ever recovers, because the
attempts are counted.

### Where the code does not do what is said of it

* `stranded` - a launch that fails without an alternative returns through `?`
  (`runtime.rs` 552-553) with `current_endpoint` set and no agent.  The next tick
  finds no agent to have failed and the current endpoint unchanged, so it starts
  nothing: the agent never comes back by itself.  The properties of `liveness`
  therefore except this state (`Stranded`) and nothing else.
* Pollution seen while continuation is paused starts the cooldown (`runtime.rs`
  298-303) but the agent stays; after resuming nobody looks at the cooldown of the
  running endpoint (1360-1366).  This is why `PollutionEvicts` asks for a failure
  the tick has seen.
* `dead_guard` - a dead guard proxy makes the tick fail the running endpoint, but
  when the same endpoint is selected from a cached result and the agent process
  is alive the switch is called off (522-530), in this tick and all later ones.
* A config edit can break `OverdrawnReleased`: an endpoint whose failure counter
  filled up while it was disabled or absent, started directly and enabled again,
  keeps its agent with a cached `ok`.  The property is checked without such edits.
* `changed_goal` - `mark_goal_synced` records the goal of the config, not the one
  that was sent; if the config was replaced in between, the next start resumes a
  goal the agent never got.
* `leaked_slots` - a request whose headers cannot be built leaves through `?`
  (`aggregate_egress.rs` 870 and 1038) after its place at the upstream was counted
  and never gives it back; an upstream with such a place is never idle again, and
  with as many as it may serve is never chosen again.
* A goal command that is pending is sent although continuation is paused
  (`runtime.rs` 1817-1822); no text promises otherwise.  `PauseStops` bounds what
  goes out after a pause, goal commands excepted.
* The file of qualities may fall back through a restart: a client thread of the
  stopped server keeps its writer alive, and that one may save its older store over
  what the new one has saved (`litellm_proxy.rs` 1328 and 1360-1376).  Nothing
  promises otherwise; the new writer's store is whole, so its next save brings
  back all it knows.  `LagsBehind` says this and no more.  A smart proxy that
  forwards through the pool has a second writer for the same file; no request
  reaches it there, so it never has anything to save.
* The pool may send a request again although a key has answered it with success:
  if the body or the stream breaks before its first byte (`aggregate_egress.rs`
  1805-1807, 1864 and 1006-1013), and the guard gives it a stream once more that
  ended in an error about encrypted content (`guard_proxy.rs` 598-613).
  `TakenOnce` is therefore claimed of the guard without the shared pool only.
* Room at an upstream is looked for under one lock and taken under a later one
  (`aggregate_egress.rs` 1219, `litellm_proxy.rs` 2212): two requests may pass for
  one place.  Both models let them.
* A read of the control state that fails looks like a request that is gone and
  clears what was remembered of a write that failed, so `TriggerOnce` and
  `GoalNotRepeated` do not hold with failing reads; they are checked without them,
  and proved for reads that fail at other moments (see Proofs).
* A goal request made while the worker clears an older one is erased with it, and
  the reply to any prompt after a switch may complete a goal (`goal_turn_active`
  survives `switch_to`).
  Both are in the model; no property speaks of them.
* With ticks slower than the startup retry window (`SlowTicks`) nothing bounds
  the fallback loop; `liveness` excludes them.

## Proofs

`Supervisor_proofs` proves, for every number of endpoints, all weights,
thresholds, signals, commands and config edits, from `EndpointsAssumption` and
`SupervisorAssumption` (the types of the constants) alone:

* `TypeCorrect`: `Spec => []TypeOK`;
* `AgentPairing`: `Spec => []AgentPaired`;
* `SelectionIsUsable`: `Spec => []SelectionUsable`;
* `AgentNeverStray`: `Spec => NoStrayAgent`;
* `PollutionAlwaysEvicts`: `Spec => PollutionEvicts`;
* `HeaviestSelected`, `TieIsKept`, `FixedIsObeyed`, `ForkKept`: the action
  properties `SelectionHeaviest`, `TieKept`, `FixedObeyed`, `ForkSurvives`;
* `OverdrawnIsReleased`: `Spec /\ [][EnabledAfresh]_vars => OverdrawnReleased`,
  and `OverdrawnIsReleasedUnedited`: `Spec => OverdrawnReleased`, if
  `"config" \notin Commands`;
* `QuarantineKept`: `Spec => KeepsQuarantine`, the refinement of `Quarantine`; from it
  `StartsOutOfQuarantine`, which says of the moment of the launch what
  `SelectionUsable` says of the choice.

`Invariance` is the base: `IInv == TypeOK /\ AgentPaired /\ TickInv` is inductive.
`SelectionUsable` is about every selection that leads to a start: another endpoint
than the current one, or the current one after it failed.  It is not inductive by
itself: what is known when the choice is committed has to be carried through the
steps of the tick.  `TickInv` says, for each place of `pc`, what the local variables
mean there: which endpoints are still candidates, that the current endpoint is
enabled where the code has just looked it up, that a selection other than the
current endpoint was found clean, and that after a failed launch no agent runs.
Nothing else may change an endpoint's config in the middle of a tick, which is where
the mutex enters the proof.  `AgentNeverStray` and `PollutionAlwaysEvicts` follow
from `IInv` and one look at each action that ends a tick.  The module begins with
the lemmas on the memory of an endpoint: which operators keep its type, and which
keep `cfg`.

What a search chooses depends on what it has passed over.  `SearchInv` carries
that: every endpoint in the scope of the search that was looked at and not taken is
`RuledOut` (did not answer, cools down or failed to start; a full search overrides
the last), in `look` those no longer in `todo`, in `recover` after a search for an
upgrade all that are heavier than the current one.  That stays true because a pass
over the endpoints reads the clock once, so no deadline passes during it, and
because the recovery probes leave out the endpoints the search has looked at.  `OnlyFixed`
is the same for a fixed endpoint: from the first choice to the last fallback no
other one is a candidate.

`FitInv` is about failed requests: an enabled endpoint whose cached result may
still be used is not overdrawn.  Only an edit of the config can break it, by
enabling an endpoint whose counter filled up while it was disabled or absent; with
such edits `OverdrawnReleased` is false (see above).  `EnabledAfresh` excludes
exactly these and no other: the endpoint a step enables is not overdrawn.  All other
edits are allowed, and the command that enables an endpoint needs no exception,
because it resets the counter (`set_endpoint_enabled`).

The refinement (`QuarantineStep`) has one lemma per action.  Its core are facts on
one endpoint's record: what each operator of `Endpoints` does to `Ward` and to the
cached result (`PurgeWard`, `RememberWard`, ...).  They turn a change of one record
into one abstract step on one endpoint, whatever the others do (`WardBecomes`); a
step that changes no ward, no result and no flag is a `Stop`, an agent's death
included.  What the agent starts on comes from `TickInv`: between the end of the
search and the launch the selection stays enabled, clean and out of cooldown:
nothing but `Watch` and a probe marks an endpoint, commands wait for the mutex, and
the recovery probes only touch endpoints that the search has not taken.  For that,
`TickInv` also says that those still to be probed are enabled.  Two deadlines run
for an endpoint that its guard isolated, and each may pass first; that is why
`Lapse` has two forms.

`Prompts_proofs` proves, for all sets of prompts and goals, whatever the users do
and whichever accesses fail, from `PromptsAssumption` alone:

* `SpecTypeOK`, `SpecManualPromptOnce`, `SpecPauseStops`: `Spec => []...`;
* `SpecManualPromptKept`, `SpecNoStackedPrompts`: the two action properties;
* `SpecDeliversOnce`: every step is a step of `PromptDelivery` or leaves the
  prompts alone;
* `SpecTriggerOnce`, `SpecGoalNotRepeated`: `[]...` for every behaviour of `Spec`
  with `[][HidesNothingAnswered]_vars`; `SpecRequestsOnceRead`: `Spec => ...`, if
  `"read" \notin Faults`.

The inductive invariant is `IInv == TypeOK /\ HandInv /\ OnceInv /\ PauseInv /\
WaitInv`.  `HandInv` says between which steps the worker holds a manual prompt.
`OnceInv` adds to `ManualPromptOnce` that what was typed had been asked for.
`PauseStops` counts a prompt that is late; it is inductive only with what makes
the worker's old reading of the file harmless (`PauseInv`): pausing takes
`trigger_now` back in the same write, so a worker that has seen the pause has no
other reason left to send than a goal command, and a worker that has not seen it
has not sent its one late prompt yet.  `WaitInv` ties the history of
`NoStackedPrompts` to `waiting_for_assistant_progress`.

A request is used up before it is cleared, and the write that clears it may fail.
`TriggerInv` says where the worker stands after a prompt went out early: it is about
to clear the mark, remembers that it could not (`triggerStuck`), the mark is gone,
or the wait between prompts is over anyway.  `GoalInv` counts the goal commands that
may still be due, one for what is pending or owed to a new session and one for a
request in the file that was not taken, and bounds them by what the user asked for.
A read that fails looks like a file without mark and request: the worker forgets
what stuck and answers it again later, and TLC finds that behaviour as soon as
`"read"` joins `Faults`. `HidesNothingAnswered` excludes just that: a read may fail
at any time but while the file holds a mark that was followed, or the request that
was taken and could not be cleared.  Looking only at `triggerStuck` would not do: a
relaunch forgets it while the mark stays, a failed read then lets a manual prompt
out without clearing the mark, and the next read follows it again.  With the
hypothesis as an action constraint, TLC finds no violation in `goal_mode` with
failing reads and crashes added.

`Guard_proofs`, for any number of clients, places, attempts and risky answers
before a failure: `ClientsAlwaysCounted`, `HeadsOnce`, `NeverTakenTwice`,
`FailuresAlwaysAccounted`, `AlarmsAlwaysJustified`.  `Good` says of one client what
has been done to it at each place; it is what makes `OneHead` inductive, because
whether the head has been written depends on the path.  `StepGood` says what a step
of one client may do to the shared counters, so the two counting invariants follow
once for all steps, with the facts on the cardinality of finite sets of the
library.  Alarms need only that the supervisor's copy never runs ahead of the
audit (`AlarmsJustified` is proved and no longer part of a run).  `NeverTakenTwice`
is about the guard without the shared pool, whose sends a client thread does not
see.

`Guard_proofs` on ports: `PortsAlwaysDistinct` and `PortsAlwaysKept`.  The second needs
that the registry still has the entry while the guard is down or between the lock
and the bind (`KeptInv`): it is the others that must not take it, hence the
assumption about runtimes that share an endpoint (`Sole`).  The lowest free port
exists by an assumption on `Port` that holds of numbers.

`AggregatePool_proofs`: `SourcesOnce`, `ResponsesPreferred`, `FailoverAlwaysMoves`,
`InFlightAlwaysCounted`.  `Sound` follows one request through its attempts: what is
kept, and that nothing has reached the client before the last.  `AvoidedCools` ties
the keys a request avoids to the table that all requests share.

`SmartProxy_proofs`: `NeverCircularWait`, `RejectedAlwaysMoves`, `AnswersOnce`,
`UrlInFlightAlwaysCounted`.  `LocksHeld` is the reason for the first: a thread holds
the keys alone only where its next step gives them back.  `RejectedCools` plays the
part of `AvoidedCools`.  `UrlInFlightCounted` is proved only.

`QualityWriter_proofs`: `UnsavedAlwaysPending`, `FlushAlwaysKeeps`,
`AlwaysLagsBehind`.  `Sent` describes the channel: the writes the thread has not
taken, in order, with a flush among them at one known place.  With the store being
what the writes taken so far make of it (`MadeOf`), each save is a `Save` of
`LaggingStore`; what a restart forgets is what the abstract store forgets.  The
steps of older servers keep all this (`OlderStepInv`), because they change nothing
of the newest one but the file: `UnsavedPending` and the store then speak of a file
that an older writer has not saved over since (`over`), and a thread that has not
loaded the file yet has nothing to compare with it (`NotLoaded`).

`Readers_proofs`, for logs and streams of any length: `SpecMonitorTypeOK`,
`SpecEndOfNewTurn`, `SpecCountExact`; `SpecSseTypeOK`, `SpecVerdictExact`.  What a
poll makes of the lines it reads and what a stream says are recursive functions, so
these are inductions over lines.  The library's theorems on induction and recursion
take a predicate, which the provers cannot instantiate; the module therefore proves
its own with sets in the place of predicates (`Least`, `SetInduction`), that a
recursive function exists (`Recursion`), and that what holds of its first value and
is kept by each step holds of its last (`RecursionKeeps`).

* `MonitorInv` ties what the monitor has counted to the lines before its place in
  the log (`Counts`, told with `LinesUpTo`), and the state of a wait to the turns
  that were read since it began (`Follows`): `started` only after a line of a later
  turn, `finished` only after `started`.  These are the two things `EndOfNewTurn`
  needs of the code, the reset in `begin_waiting` and the refusal of an end without
  a start in `observe_item`; without either the invariant is not kept.
* `SseInv` says of the tracker after every number of pieces what it carries
  (`Carry`), which event it is in (`DataAfter`, `NameOf`) and that its verdict is that
  of the events so far (`Said`).  A chunk is then so many pieces, and where it ends
  does not matter.  The proof needed the alternatives of `DataOutcome` in the order
  of the code, as an `IF` chain; they overlap.

`Services_proofs` is about the parts that `MCServices` puts side by side.  A step of
one part leaves the others alone, so each of them behaves as it does by itself
(`PartsByThemselves`); the tracker only where it runs, because the others start it
without a stream.  Hence `ServicesTypeCorrect`, `ServicesSpec => []ServicesTypeOK`,
and `ServicesKeepPromises`: everything that the run `services` checks.  That
`Parts` has no other members is `ServicesAssumption`.

Each of these holds for all values of the constants under the assumption its
component's module states (`GuardAssumption`, ...), which are types, that the sets
of clients and requests are finite, and that numbers of attempts are positive.

Proved only, no longer part of a run: `TieKept`, `AlarmsJustified`, `TakenOnce`,
`UrlInFlightCounted`, `UnsavedPending`.  Model-checked only: liveness
(`AgentRegained`, `HeaviestRegained`, `TickFinishes`, `ContinuationGoesOn`,
`ManualPromptTyped`, `FailureTold`, `RequestsEnd`), which is out of the prover's
reach, and the four properties that the code violates.

## Not modelled

* Text: the formats of config, sessions, usage and pollution, rows, labels, windows,
  the terminal emulator, what a guard's verdict is based on, rewriting and
  redaction.  They keep no state that the properties are about.
* HTTP itself and the pseudo terminal: an answer, an error or a byte stream is a
  choice of the environment.
* Times as numbers: probe intervals, backoff, lengths of cooldowns, the score of a
  key.  What is left of them is their order and that they pass.
* The pool's Clash nodes and fingerprints, and the LiteLLM manager's route files:
  they choose how a request is sent, not what becomes of it.
* Two processes that rewrite one prompt queue or one state file at the same time:
  the lock of `control.rs` does not reach them, nothing in the code orders them, and
  every property of the queue fails as soon as they do.
* The health tracker and the selector, which only decide what rows and events show;
  session discovery and bindings, isolated Codex homes, the stall detection, the
  submit retry behind the screen, OpenCode's monitor and its two writes, the remote
  bridge, the GUI's own timers, token accounting.

## Plan

Done: the supervisor, the quarantine it keeps, its prompts and the delivery they
promise; the guard proxy, its ports, the pool, the smart proxy, the stream tracker,
the session monitor, the writer of qualities and the store it implements; the
proofs above.

1. `SessionMonitor`: the stall detection, the submit retry and the two writes of
   OpenCode; `Prompts`' `reply` as its abstraction.
2. `Sessions`, `CodexHome`: bindings and forks; backup and restore across crashes.
3. `Health`: streaks and thresholds of the health tracker, with its selector.
4. GUI threads: automatic restart, the remote bridge.
5. Token accounting: the deltas of cumulative counters across sessions.

The runs are shared: a new property joins the instance that reaches its hazard, and
a part that shares nothing joins `MCServices` or `MCGoesOn`.
