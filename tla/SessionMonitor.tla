--------------------------- MODULE SessionMonitor ---------------------------
(* The wait for an agent's answer: the session log that Codex or Claude    *)
(* writes, the monitor that reads it line by line at every poll, and the   *)
(* decisions of the agent process that rest on both the log and the        *)
(* screen: whether the agent is idle again and may get the next prompt.    *)
(* A place in the log is counted in half lines: line i is the text         *)
(* 2i - 1 and the newline 2i, as a line whose text is complete is read     *)
(* before its newline is there.                                            *)
EXTENDS Integers, Sequences, FiniteSets

CONSTANTS LogLines, LogTurns    \* bounds of the lines and turns of a log

ASSUME MonitorAssumption == LogLines \in Nat \ {0} /\ LogTurns \in Nat \ {0}

VARIABLES
    driver,     \* which agent runs, and whether its log names the turns
    log,        \* the lines of the session file, the last maybe unfinished
    ending,     \* how the last line ends
    damage,     \* what happened to the file (history)
    monitor,    \* CodexSessionMonitor or ClaudeSessionMonitor
    wait        \* whether a prompt waits for its turn, or what ended the wait,
                \* and the last turn in the log when the prompt went out (history)

monitorVars == <<driver, log, ending, damage, monitor, wait>>

Codex == driver # "claude"

(* A line of turn 0 is older than the launch.                              *)
LogLine == [kind : {"started", "message", "final", "end"}, turn : 0 .. LogTurns]

(* What a poll finds on the screen, an input of the agent process: "ready" *)
(* is a prompt painted after the last one was sent, "stale" a screen that  *)
(* says the agent works, offers the prompt and has not moved for long,     *)
(* "filled" one with text in the input.                                    *)
Screen == {"ready", "busy", "stale", "filled", "plain"}
LooksBusy(screen) == screen \in {"busy", "stale"}

(***************************************************************************)
(* The start: a fresh or a resumed session that nobody has read.           *)
(***************************************************************************)
NewMonitor ==
    [path |-> "none", position |-> 0, active |-> {}, started |-> FALSE,
     finished |-> FALSE, waiting |-> FALSE, messages |-> 0, finals |-> 0,
     messagesAtWait |-> -1, finalsAtWait |-> -1, endOf |-> 0]

MonitorInit ==
    /\ driver \in {"codex", "nameless", "claude"}
    /\ log \in {<<>>, <<[kind |-> IF Codex THEN "started" ELSE "message", turn |-> 0]>>}
    /\ ending = "line" /\ damage = "none"
    /\ monitor = NewMonitor
    /\ wait = [by |-> "unsent", since |-> 0]

(***************************************************************************)
(* The agent writes its log and finishes its lines.                        *)
(***************************************************************************)
LastTurn == IF log = <<>> THEN 0 ELSE log[Len(log)].turn

Running == LastTurn > 0 /\ log[Len(log)].kind \notin {"end", "final"}

(* Turns follow one another; one that breaks off leaves no end.            *)
NextLines ==
    {line \in LogLine :
        IF line.turn = LastTurn
        THEN Running /\ line.kind \in IF Codex THEN {"message", "end"} ELSE {"message", "final"}
        ELSE /\ line.turn = LastTurn + 1
             /\ line.kind \in IF Codex THEN {"started"} ELSE {"message", "final"}}

(* Bound: of a file that starts anew only half as much is followed.        *)
MaxLength == IF damage = "cut" THEN LogLines \div 2 ELSE LogLines

WriteLine ==
    /\ ending = "line" /\ Len(log) < MaxLength
    /\ \E line \in NextLines : log' = Append(log, line)
    /\ ending' \in {"part", "text", "line"}
    /\ UNCHANGED <<driver, damage, monitor, wait>>

WriteRest ==
    /\ ending # "line"
    /\ ending' \in IF ending = "part" THEN {"text", "line"} ELSE {"line"}
    /\ UNCHANGED <<driver, log, damage, monitor, wait>>

(* The file is moved away, to be found at another place.                   *)
MoveLog ==
    /\ monitor.path = "there" /\ damage = "none"
    /\ monitor' = [monitor EXCEPT !.path = "gone"] /\ damage' = "moved"
    /\ UNCHANGED <<driver, log, ending, wait>>

(* The file, read already, is written again from nothing.                  *)
CutLog ==
    /\ damage = "none" /\ monitor.position > 0
    /\ log' = <<>> /\ ending' = "line" /\ damage' = "cut"
    /\ UNCHANGED <<driver, monitor, wait>>

(***************************************************************************)
(* Reading the log.                                                        *)
(***************************************************************************)
(* Where the text that can be read ends.                                   *)
LogEnd == 2 * Len(log) - (CASE ending = "line" -> 0 [] ending = "text" -> 1
                            [] ending = "part" -> 2)

LinesUpTo(position) == (position + 1) \div 2

CountMessage(m, line) ==
    [m EXCEPT !.messages = @ + 1, !.finals = IF line.kind = "final" THEN @ + 1 ELSE @]

(* A log without names of turns knows one turn, "__unknown__".             *)
BeginTurn(m, line) ==
    [m EXCEPT !.active = @ \cup {IF driver = "codex" THEN line.turn ELSE 0},
              !.started = TRUE]

EndTurn(m, line) ==
    [m EXCEPT !.active = IF driver = "codex" THEN @ \ {line.turn} ELSE {},
              !.finished = TRUE, !.waiting = FALSE, !.endOf = line.turn]

(* The end of a turn that began before the wait does not count.            *)
ObserveItem(m, line) ==
    CASE line.turn = 0 -> m
      [] line.turn # 0 /\ line.kind \in {"message", "final"} -> CountMessage(m, line)
      [] line.turn # 0 /\ line.kind = "started" -> BeginTurn(m, line)
      [] line.turn # 0 /\ line.kind = "end" ->
            IF m.waiting /\ ~m.started THEN m ELSE EndTurn(m, line)

AttachSessionFile(m, found) ==
    IF found THEN [m EXCEPT !.path = "there", !.position = 0] ELSE m

(* Only the monitor of Codex notices that the file has become shorter.     *)
StartOver(m) ==
    IF Codex /\ m.position > LogEnd THEN [m EXCEPT !.position = 0, !.active = {}] ELSE m

CanRead(m) == m.path = "there" /\ m.position <= LogEnd

Unread(m) == SubSeq(log, LinesUpTo(m.position) + 1, LinesUpTo(LogEnd))

(* The loop over the lines: one after the other changes the monitor.       *)
ObserveItems(m, lines) ==
    LET after[n \in 0 .. Len(lines)] ==
            IF n = 0 THEN m ELSE ObserveItem(after[n - 1], lines[n])
    IN  after[Len(lines)]

(* Broken variant: goes past a line that is not complete.                  *)
ReadLinesSkipping(m) ==
    IF CanRead(m)
    THEN [ObserveItems(m, Unread(m)) EXCEPT !.position = 2 * Len(log)]
    ELSE m

ReadLines(m) ==
    IF CanRead(m)
    THEN [ObserveItems(m, Unread(m)) EXCEPT !.position = LogEnd]
    ELSE m

(* A file that is not there is not read.                                   *)
Opened(found) ==
    LET m == AttachSessionFile(monitor, found)
    IN  IF m.path = "there" THEN StartOver(m) ELSE m

(* Codex: any bytes count, also those of a line that is not complete, which*)
(* are read again at every poll; Claude: lines that were read.             *)
Appended(m) ==
    /\ CanRead(m)
    /\ IF Codex THEN LogEnd # m.position \/ ending = "part" ELSE Unread(m) # <<>>

(* The turn of the last line that was read.                                *)
TurnRead(m) ==
    IF LinesUpTo(m.position) \in 1 .. Len(log) THEN log[LinesUpTo(m.position)].turn ELSE 0

MessageSince(m) == IF m.messagesAtWait < 0 THEN Codex ELSE m.messages > m.messagesAtWait
FinalSince(m) == m.finalsAtWait >= 0 /\ m.finals > m.finalsAtWait

HasInflightTurn(m) ==
    IF Codex THEN m.active # {}
    ELSE MessageSince(m) /\ ~FinalSince(m)

LastTaskFinished(m) == IF Codex THEN m.finished ELSE FinalSince(m)

HasCompletedMessage(m) == LastTaskFinished(m) /\ ~HasInflightTurn(m) /\ MessageSince(m)

MarkTurnCompleted(m) ==
    IF Codex THEN [m EXCEPT !.active = {}, !.finished = TRUE, !.waiting = FALSE] ELSE m

(* Broken variant: keeps what the last turn left.                          *)
BeginWaitingOn(m) ==
    IF Codex
    THEN [m EXCEPT !.waiting = TRUE, !.messagesAtWait = m.messages, !.active = {}]
    ELSE [m EXCEPT !.messagesAtWait = m.messages, !.finalsAtWait = m.finals]

BeginWaiting(m) ==
    IF Codex
    THEN [m EXCEPT !.waiting = TRUE, !.messagesAtWait = m.messages, !.started = FALSE,
                   !.finished = FALSE, !.active = {}]
    ELSE [m EXCEPT !.messagesAtWait = m.messages, !.finalsAtWait = m.finals]

(***************************************************************************)
(* The agent process.                                                      *)
(***************************************************************************)
(* Only a file that is not open is looked for, and may be there.           *)
MayFind ==
    {found \in BOOLEAN : found => log # <<>> /\ monitor.path # "there"}

Awaiting == wait.by = "open"
Released == [by |-> "other", since |-> 0]

(* Whoever else asks the agent something polls it first.                   *)
PollMonitor ==
    /\ \E found \in MayFind : monitor' = ReadLines(Opened(found))
    /\ UNCHANGED <<driver, log, ending, damage, wait>>

(* is_idle, for a prompt that is out: the prompt is on the screen again,   *)
(* the log says so, or nothing has moved for the time of the fallback.     *)
(* "late": the grace after the prompt, or that time, is over.              *)
EndedBy(m, appended, screen, late) ==
    IF screen = "ready" /\ late THEN "ready"
    ELSE IF LooksBusy(screen) THEN "nothing"
    ELSE IF HasCompletedMessage(m) THEN "log"
    ELSE IF late /\ ~appended THEN "silence"
    ELSE "nothing"

IsIdle ==
    /\ Awaiting
    /\ \E found \in MayFind :
          LET m == ReadLines(Opened(found))
              appended == Appended(Opened(found))
          IN  \E end \in {EndedBy(m, appended, s, late) : s \in Screen, late \in BOOLEAN} :
                 /\ monitor' = IF end = "silence" THEN MarkTurnCompleted(m) ELSE m
                 /\ wait' = IF end = "nothing" THEN wait
                            ELSE IF end = "log" THEN [wait EXCEPT !.by = "log"] ELSE Released
    /\ UNCHANGED <<driver, log, ending, damage>>

StaleWorking(screen, late) ==
    Codex /\ screen = "stale" /\ wait.by # "unsent" /\ late

(* Codex has shown its prompt since the launch or the last prompt, or had  *)
(* twelve seconds to do so.                                                *)
StartupReady(screen, late) == Codex => screen = "ready" \/ late

TakesPrompt(m, screen, late) ==
    /\ screen # "filled" /\ StartupReady(screen, late)
    /\ LooksBusy(screen) => StaleWorking(screen, late) \/ HasCompletedMessage(m)

(* A prompt goes out; whoever is refused has only polled.                  *)
SendPrompt ==
    /\ ~Awaiting
    /\ \E found \in MayFind :
          LET m == ReadLines(Opened(found))
          IN  /\ {s \in Screen : \E late \in BOOLEAN : TakesPrompt(m, s, late)} # {}
              /\ monitor' = BeginWaiting(m)
              /\ wait' = [by |-> "open", since |-> TurnRead(m)]
    /\ UNCHANGED <<driver, log, ending, damage>>

(* The runtime found the endpoint failing in the middle of the turn.       *)
MarkTurnFailed ==
    /\ monitor' = MarkTurnCompleted(monitor)
    /\ wait' = IF Awaiting THEN Released ELSE wait
    /\ UNCHANGED <<driver, log, ending, damage>>

MonitorNext ==
    \/ WriteLine \/ WriteRest \/ MoveLog \/ CutLog
    \/ PollMonitor \/ IsIdle \/ SendPrompt \/ MarkTurnFailed

MonitorSpec == MonitorInit /\ [][MonitorNext]_monitorVars

(***************************************************************************)
(* Properties.                                                             *)
(***************************************************************************)
MonitorTypeOK ==
    /\ driver \in {"codex", "nameless", "claude"}
    /\ log \in Seq(LogLine) /\ ending \in {"part", "text", "line"}
    /\ damage \in {"none", "moved", "cut"}
    /\ monitor \in [path : {"none", "there", "gone"}, position : Nat,
                    active : SUBSET (0 .. LogTurns), started : BOOLEAN,
                    finished : BOOLEAN, waiting : BOOLEAN, messages : Nat, finals : Nat,
                    messagesAtWait : Nat \cup {-1}, finalsAtWait : Nat \cup {-1},
                    endOf : 0 .. LogTurns]
    /\ wait \in [by : {"unsent", "open", "log", "other"}, since : 0 .. LogTurns]

(* A wait that the log of Codex ends is ended by a turn whose start was    *)
(* read after the prompt went out: the end of an earlier turn that comes   *)
(* late, after a wait that silence, the screen or a failure has ended, does*)
(* not count (observe_item).  A log read from the start again is excepted. *)
EndOfNewTurn ==
    wait.by = "log" /\ Codex /\ damage = "none" => monitor.endOf > wait.since

(* Every message up to the position is counted once, whenever the polls    *)
(* come: in the middle of a line, between a line and its newline, after    *)
(* several lines (the tests at sessions.rs:3710 and 3754).  A file that is *)
(* found again is read again; one that got shorter loses lines.            *)
CountExact ==
    LET Messages == {i \in 1 .. LinesUpTo(monitor.position) :
                        log[i].turn > 0 /\ log[i].kind \in {"message", "final"}}
    IN  damage # "cut" =>
            /\ monitor.messages >= Cardinality(Messages)
            /\ damage = "none" => monitor.messages = Cardinality(Messages)

=============================================================================
