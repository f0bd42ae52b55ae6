----------------------------- MODULE SseTracker -----------------------------
(***************************************************************************)
(* SseTerminalTracker (watchapi-gui/src/litellm_proxy.rs 2521-2700; the    *)
(* same code is in aggregate_egress.rs and guard_proxy.rs): did a stream   *)
(* of server-sent events come to its proper end?  The proxy passes on what *)
(* it reads from the upstream, in chunks that end anywhere, in the middle  *)
(* of a line or of an event, and the tracker looks at the same chunks.     *)
(***************************************************************************)
EXTENDS Integers, Sequences

CONSTANTS
    MaxLines,      \* bound: lines of a stream
    MaxChunk       \* bound: pieces read at once

ASSUME SseAssumption == MaxLines \in Nat /\ MaxChunk \in Nat \ {0}

(* completed and failed stand for response.completed and for response.     *)
(* failed, response.incomplete and error.  open and close are the lines of *)
(* a failure whose JSON has two lines.  A comment, or a field other than   *)
(* event and data, is "ignored".                                           *)
EventName == {"completed", "failed", "progress"}
DataText == {"DONE", "completed", "failed", "finish", "plain", "open", "close"}
Line == [field : {"event"}, text : EventName] \cup [field : {"data"}, text : DataText]
          \cup [field : {"blank", "ignored"}, text : {""}]

VARIABLES
    sseLines,      \* the lines of the stream
    whole,         \* the last line has its newline
    require,       \* responses_api_stream_requires_completed
    arrived,       \* how many pieces of the stream have arrived
    tracker,       \* the tracker
    sseEnded       \* finish() was called

sseVars == <<sseLines, whole, require, arrived, tracker, sseEnded>>

(* Piece k of the stream: a line has two, so that a chunk may end in it,   *)
(* and its newline, which the last line may lack.  Those of a blank line   *)
(* are empty.                                                              *)
StreamLength == 3 * Len(sseLines) - (IF whole THEN 0 ELSE 1)
IsNewline(k) == k % 3 = 0
LineOf(k) == sseLines[(k + 2) \div 3]

NewTracker == [carry |-> <<>>, terminal |-> "pending", event |-> "none", data |-> <<>>]

SseInit ==
    /\ sseLines \in UNION {[1 .. n -> Line] : n \in 1 .. MaxLines}
    /\ whole \in BOOLEAN /\ require \in BOOLEAN
    /\ arrived = 0 /\ tracker = NewTracker /\ sseEnded = FALSE

(***************************************************************************)
(* What an event, or its data, says.                                       *)
(***************************************************************************)
EventOutcome(name) == IF name \in {"completed", "failed"} THEN name ELSE "none"

(* The lines of the data, joined, as JSON.                                 *)
Parsed(data) ==
    CASE Len(data) = 1 /\ data[1] \notin {"open", "close"} -> data[1]
      [] data = <<"open", "close">> -> "failed"
      [] OTHER -> "invalid"

DataOutcome(data, event) ==
    LET json == Parsed(data)
    IN  IF json = "DONE" THEN IF require THEN "none" ELSE "completed"
        ELSE IF json = "invalid" THEN "none"
        ELSE IF EventOutcome(json) # "none" THEN json
        ELSE IF EventOutcome(event) # "none" THEN event
        ELSE IF json = "finish" /\ ~require THEN "completed"
        ELSE "none"

(* Broken variant: the latest outcome counts.                              *)
SetLatest(t, outcome) == IF outcome = "none" THEN t ELSE [t EXCEPT !.terminal = outcome]

(* set_terminal: a failure is final.                                       *)
SetTerminal(t, outcome) ==
    IF outcome = "none" \/ t.terminal = "failed" THEN t ELSE [t EXCEPT !.terminal = outcome]

(***************************************************************************)
(* The tracker.                                                            *)
(***************************************************************************)
(* dispatch_event.                                                         *)
DispatchEvent(t) ==
    LET told == IF t.data = <<>> THEN t ELSE SetTerminal(t, DataOutcome(t.data, t.event))
    IN [told EXCEPT !.data = <<>>, !.event = "none"]

ObserveLine(t, l) ==
    CASE l.field = "event" ->
            SetTerminal([t EXCEPT !.event = l.text], EventOutcome(l.text))
      [] l.field = "data" -> [t EXCEPT !.data = Append(@, l.text)]
      [] l.field = "blank" -> DispatchEvent(t)
      [] OTHER -> t

(* Both pieces make the line; a piece alone is nothing that is known.      *)
CarriedLine(carry) ==
    IF carry = <<>> THEN [field |-> "blank", text |-> ""]
    ELSE IF Len(carry) = 2 THEN carry[1].line
    ELSE [field |-> "ignored", text |-> ""]

ObservePiece(t, k) ==
    IF IsNewline(k) THEN ObserveLine([t EXCEPT !.carry = <<>>], CarriedLine(t.carry))
    ELSE IF LineOf(k).field = "blank" THEN t
    ELSE [t EXCEPT !.carry = Append(@, [line |-> LineOf(k), piece |-> k % 3])]

(* observe: each line of what is carried and of the chunk, the n pieces    *)
(* after those that have arrived.                                          *)
Observe(t, n) ==
    LET after[k \in 0 .. n] ==
            IF k = 0 THEN t ELSE ObservePiece(after[k - 1], arrived + k)
    IN  after[n]

ReadChunk ==
    \E n \in 1 .. MaxChunk :
        /\ arrived + n <= StreamLength
        /\ tracker' = Observe(tracker, n)
        /\ arrived' = arrived + n
        /\ UNCHANGED <<sseLines, whole, require, sseEnded>>

(* finish: a last line without newline, a last event without blank line.   *)
Finish(t) ==
    DispatchEvent(IF t.carry = <<>> THEN t
                  ELSE ObserveLine([t EXCEPT !.carry = <<>>], CarriedLine(t.carry)))

EndStream ==
    /\ arrived = StreamLength /\ ~sseEnded
    /\ tracker' = Finish(tracker)
    /\ sseEnded' = TRUE
    /\ UNCHANGED <<sseLines, whole, require, arrived>>

SseNext == ReadChunk \/ EndStream

SseSpec == SseInit /\ [][SseNext]_sseVars

(***************************************************************************)
(* Properties.                                                             *)
(***************************************************************************)
(* Types.                                                                  *)
SseTypeOK ==
    /\ sseLines \in Seq(Line) /\ whole \in BOOLEAN /\ require \in BOOLEAN
    /\ arrived \in 0 .. StreamLength
    /\ tracker.terminal \in {"pending", "completed", "failed"}
    /\ tracker.event \in EventName \cup {"none"}
    /\ tracker.data \in Seq(DataText)
    /\ Len(tracker.carry) <= 2
    /\ sseEnded \in BOOLEAN

(* An event reaches from one blank line to the next, or to an end.         *)
Blank(i) == i \notin 1 .. Len(sseLines) \/ sseLines[i].field = "blank"
Events == {e \in (0 .. Len(sseLines)) \X (1 .. Len(sseLines) + 1) :
              /\ e[1] < e[2] /\ Blank(e[1]) /\ Blank(e[2])
              /\ \A i \in e[1] + 1 .. e[2] - 1 : ~Blank(i)}

(* The texts of the data lines after line b, up to line i.                 *)
DataAfter(b) ==
    LET data[i \in 0 .. Len(sseLines)] ==
            IF i <= b THEN <<>>
            ELSE IF sseLines[i].field = "data" THEN Append(data[i - 1], sseLines[i].text)
            ELSE data[i - 1]
    IN  data
EventData(e) == DataAfter(e[1])[e[2] - 1]

(* An event without a name has none; of several the last counts.           *)
NameOf(e) ==
    LET names == {i \in e[1] + 1 .. e[2] - 1 : sseLines[i].field = "event"}
    IN  IF names = {} THEN "none"
        ELSE sseLines[CHOOSE i \in names : \A j \in names : j <= i].text

AllOutcomes ==
    {EventOutcome(sseLines[i].text) : i \in {j \in 1 .. Len(sseLines) :
                                               sseLines[j].field = "event"}}
    \cup {DataOutcome(EventData(e), NameOf(e)) : e \in {f \in Events : EventData(f) # <<>>}}

StreamVerdict == IF "failed" \in AllOutcomes THEN "failed"
           ELSE IF "completed" \in AllOutcomes THEN "completed" ELSE "pending"

(* However the stream is cut into chunks, and with or without its last     *)
(* newline, the tracker comes to what the events say: failed if any of     *)
(* them says so, otherwise completed if one does.                          *)
VerdictExact == sseEnded => tracker.terminal = StreamVerdict

=============================================================================
