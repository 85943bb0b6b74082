---------------------------- MODULE PythonOutput ----------------------------
(***************************************************************************)
(* What a script prints, from limitedBuffer in src/python_ide.go through   *)
(* the event stream to the output pane of src/static/python_ide.js.  The   *)
(* network cuts the stream where it likes or loses it, the buffer cuts     *)
(* what it is given at its limit, either in the middle of a character, and *)
(* Ctrl-Enter starts a script while another one runs.                      *)
(*                                                                         *)
(* Byte i that script r writes is <<r, i, kind>>.  A character is a blank  *)
(* of one byte, or two bytes: a lead and a trail.                          *)
(***************************************************************************)
EXTENDS Integers, Sequences

CONSTANTS Runs,   \* executions of the page
          Page,   \* the author of the page's own text
          Texts,  \* what scripts print: sequences of kinds of bytes
          Limit   \* maxPythonOutputBytes

ASSUME OutputConstants ==
    /\ Page \notin Runs
    /\ Texts \subseteq Seq({"blank", "lead", "trail"})
    /\ Limit \in Nat
\* The properties are about UTF-8: whole characters, but for one that is cut at
\* the end.  Of other bytes the decoder makes replacements.
ASSUME TextsAreCharacters == \A t \in Texts : \A i \in DOMAIN t :
    /\ t[i] = "lead" /\ i < Len(t) => t[i + 1] = "trail"
    /\ t[i] = "trail" => i > 1 /\ t[i - 1] = "lead"

VARIABLES
    server,     \* per run: "off", "running" or "ended"
    text,       \* per run: what its script would print
    written,    \* per run: how many bytes it has written
    data,       \* per run: buffer.data
    truncated,  \* per run: buffer.truncated
    wire,       \* per run: the lines of the stream that are under way
    at,         \* per run: where execute() of the page is
    pending,    \* per run: the lines consumeSSE has read and not dispatched
    output,     \* output.textContent
    decoder,    \* the bytes outputDecoder holds back
    runState,   \* what the page says of the run
    overlapped  \* was a script started while another one ran?

buffer == <<text, written, data, truncated>>
pane   == <<output, decoder, runState>>
outputVars   == <<server, buffer, wire, at, pending, pane, overlapped>>

\* Text of the page itself, as bytes of no run.
Replacement == <<Page, 1, "page">>   \* U+FFFD
Connecting  == <<Page, 2, "page">>
Message     == <<Page, 3, "page">>   \* of an error
Marker      == <<Page, 4, "page">>   \* "[output truncated]"
Completed   == <<Page, 5, "page">>

OutputInit ==
    /\ server = [r \in Runs |-> "off"]
    /\ text = [r \in Runs |-> <<>>]
    /\ written = [r \in Runs |-> 0]
    /\ data = [r \in Runs |-> <<>>]
    /\ truncated = [r \in Runs |-> FALSE]
    /\ wire = [r \in Runs |-> <<>>]
    /\ at = [r \in Runs |-> "idle"]
    /\ pending = [r \in Runs |-> <<>>]
    /\ output = <<>>
    /\ decoder = <<>>
    /\ runState = "idle"
    /\ overlapped = FALSE

Byte(r, i) == <<r, i, text[r][i]>>
Kind(b) == b[3]
IsBlank(b) == Kind(b) = "blank"

-----------------------------------------------------------------------------
(* The server *)

EndOfLine == [line |-> "end"]

\* writePythonSSE: an event, the end of its last line, and an empty line.
Event(name, bytes, flags) ==
    << [line |-> "event", event |-> name, bytes |-> bytes, flags |-> flags],
       EndOfLine, EndOfLine >>

SendLines(r, lines) == wire' = [wire EXCEPT ![r] = @ \o lines]

\* streamPythonResult begins, unless the request is refused (RunRefused).
StartStream(r) ==
    /\ at[r] = "connecting"
    /\ server[r] = "off"
    /\ server' = [server EXCEPT ![r] = "running"]
    /\ \E t \in Texts : text' = [text EXCEPT ![r] = t]
    /\ SendLines(r, Event("start", <<>>, {}))
    /\ UNCHANGED <<written, data, truncated, at, pending, pane, overlapped>>

\* limitedBuffer.Write of the next n bytes.
Chunk(r, n) == [i \in 1..n |-> Byte(r, written[r] + i)]
Kept(r, n) ==
    LET remaining == Limit - Len(data[r])
    IN SubSeq(Chunk(r, n), 1, IF remaining > n THEN n ELSE remaining)

Cut(r, n) == Len(Kept(r, n)) < n

Write(r, n) ==
    /\ server[r] = "running"
    /\ written[r] + n <= Len(text[r])
    /\ data' = [data EXCEPT ![r] = @ \o Kept(r, n)]
    /\ IF Kept(r, n) = <<>> THEN UNCHANGED wire
       ELSE SendLines(r, Event("output", Kept(r, n), {}))
    /\ truncated' = [truncated EXCEPT ![r] = @ \/ Cut(r, n)]
    /\ written' = [written EXCEPT ![r] = @ + n]
    /\ UNCHANGED <<server, text, at, pending, pane, overlapped>>

\* executePythonWithOutput returns: an error if the script failed and left
\* nothing but blanks, or could not be started at all.
Error(r, ok) ==
    IF ok \/ \E i \in DOMAIN data[r] : ~IsBlank(data[r][i]) THEN <<>>
    ELSE Event("error", <<>>, {})

EndStream(r, ok) ==
    /\ server[r] = "running"
    /\ server' = [server EXCEPT ![r] = "ended"]
    /\ SendLines(r, Error(r, ok) \o
               Event("done", <<>>, (IF ok THEN {"ok"} ELSE {}) \cup
                                   (IF truncated[r] THEN {"truncated"} ELSE {})))
    /\ UNCHANGED <<buffer, at, pending, pane, overlapped>>

-----------------------------------------------------------------------------
(* The page *)

\* A block of lines is complete when two line ends follow each other.
Boundaries(r) ==
    {i \in 1..Len(pending[r]) - 1 :
        pending[r][i] = EndOfLine /\ pending[r][i + 1] = EndOfLine}
\* A task of the page is never interrupted by another one.
Quiet == \A r \in Runs : Boundaries(r) = {}

\* execute(): the button is disabled while a script runs, Ctrl-Enter is not.
Execute(r) ==
    /\ Quiet
    /\ at[r] = "idle"
    /\ at' = [at EXCEPT ![r] = "connecting"]
    /\ overlapped' = IF \A other \in Runs : at[other] = "idle" THEN FALSE
                     ELSE TRUE
    /\ output' = <<Connecting>>
    /\ runState' = "running"
    /\ UNCHANGED <<server, buffer, wire, pending, decoder>>

\* Two scripts run already, the session is over, or the fetch fails.
RunRefused(r) ==
    /\ Quiet
    /\ at[r] = "connecting"
    /\ server[r] = "off"
    /\ at' = [at EXCEPT ![r] = "idle"]
    /\ output' = <<Message>>
    /\ runState' = "error"
    /\ UNCHANGED <<server, buffer, wire, pending, decoder, overlapped>>

\* reader.read(): the next lines, as many as the network delivers.
Read(r, n) ==
    /\ Quiet
    /\ at[r] # "idle"
    /\ n <= Len(wire[r])
    /\ pending' = [pending EXCEPT ![r] = @ \o SubSeq(wire[r], 1, n)]
    /\ wire' = [wire EXCEPT ![r] = SubSeq(@, n + 1, Len(@))]
    /\ UNCHANGED <<server, buffer, at, pane, overlapped>>

\* TextDecoder: all bytes but an unfinished character, which is held back, or
\* replaced at the end.
Decoded(bytes, final) ==
    LET lead(i)  == i \in DOMAIN bytes /\ Kind(bytes[i]) = "lead"
        trail(i) == i \in DOMAIN bytes /\ Kind(bytes[i]) = "trail"
        last     == Len(bytes) - (IF lead(Len(bytes)) /\ ~final THEN 1 ELSE 0)
    IN [i \in 1..last |->
           IF (lead(i) /\ ~trail(i + 1)) \/ (trail(i) /\ ~lead(i - 1))
           THEN Replacement ELSE bytes[i]]
HeldBack(bytes) ==
    LET n == Len(bytes)
    IN IF n > 0 /\ Kind(bytes[n]) = "lead" THEN <<bytes[n]>> ELSE <<>>

FaultyDispatchStart(r) ==  \* keeps the decoder of the last run
    /\ at' = [at EXCEPT ![r] = "showing"]
    /\ output' = <<>>
    /\ runState' = "running"
    /\ UNCHANGED decoder
DispatchStart(r) ==
    /\ at' = [at EXCEPT ![r] = "showing"]
    /\ output' = <<>>
    /\ runState' = "running"
    /\ decoder' = <<>>

DispatchOutput(bytes) ==
    /\ output' = output \o Decoded(decoder \o bytes, FALSE)
    /\ decoder' = HeldBack(decoder \o bytes)
    /\ UNCHANGED <<at, runState>>

DispatchError ==
    /\ output' = Append(output, Message)
    /\ runState' = "error"
    /\ UNCHANGED <<at, decoder>>

DispatchDone(r, flags) ==
    LET shown == output \o Decoded(decoder, TRUE)
                     \o (IF "truncated" \in flags THEN <<Marker>> ELSE <<>>)
    IN /\ output' = IF "ok" \in flags /\ shown = <<>> THEN <<Completed>>
                    ELSE shown
       /\ decoder' = <<>>
       /\ runState' = IF "ok" \in flags THEN "success" ELSE "error"
       /\ at' = [at EXCEPT ![r] = "finished"]

\* dispatchSSE of the first complete block of pending.
Dispatch(r) ==
    /\ Boundaries(r) # {}
    /\ LET boundary == CHOOSE i \in Boundaries(r) :
                           \A j \in Boundaries(r) : i <= j
           block    == pending[r][1]
       IN /\ CASE block.event = "start"  -> DispatchStart(r)
               [] block.event = "output" -> DispatchOutput(block.bytes)
               [] block.event = "error"  -> DispatchError
               [] block.event = "done"   -> DispatchDone(r, block.flags)
          /\ pending' = [pending EXCEPT ![r] =
                           SubSeq(@, boundary + 2, Len(@))]
    /\ UNCHANGED <<server, buffer, wire, overlapped>>

\* execute() is over, and what the run kept is garbage.
Over(r) ==
    /\ at' = [at EXCEPT ![r] = "idle"]
    /\ server' = [server EXCEPT ![r] = "off"]
    /\ text' = [text EXCEPT ![r] = <<>>]
    /\ written' = [written EXCEPT ![r] = 0]
    /\ data' = [data EXCEPT ![r] = <<>>]
    /\ truncated' = [truncated EXCEPT ![r] = FALSE]
    /\ wire' = [wire EXCEPT ![r] = <<>>]
    /\ pending' = [pending EXCEPT ![r] = <<>>]

\* The stream is over, and so is execute().
StreamOver(r) ==
    /\ Quiet
    /\ at[r] # "idle"
    /\ server[r] = "ended"
    /\ wire[r] = <<>>
    /\ Over(r)
    /\ UNCHANGED <<pane, overlapped>>

\* The connection is lost: read() rejects, and the server ends the script.
StreamLost(r) ==
    /\ Quiet
    /\ at[r] # "idle"
    /\ server[r] # "off"
    /\ Over(r)
    /\ output' = <<Message>>
    /\ runState' = "error"
    /\ UNCHANGED <<decoder, overlapped>>

-----------------------------------------------------------------------------

OutputNext ==
    \E r \in Runs :
        \/ Execute(r)
        \/ RunRefused(r)
        \/ StartStream(r)
        \/ \E n \in 1..Len(text[r]) : Write(r, n)
        \/ \E ok \in BOOLEAN : EndStream(r, ok)
        \/ \E n \in 1..Len(wire[r]) : Read(r, n)
        \/ Dispatch(r)
        \/ StreamOver(r)
        \/ StreamLost(r)

OutputSpec == OutputInit /\ [][OutputNext]_outputVars

-----------------------------------------------------------------------------
(* Properties.  They speak of runs that have the pane to themselves: started *)
(* while another one runs, a script mixes its output with the other's.     *)

Alone(r, label) == at[r] = label /\ ~overlapped
AsMany(a, b) == IF a < b THEN a ELSE b

\* While a script runs the pane shows the first bytes it wrote, in order and
\* nothing else, wherever buffer and network cut them and whatever became of
\* the run before; an error message may follow.
ShowsWhatWasWritten ==
    \A r \in Runs : Alone(r, "showing") =>
        \A i \in DOMAIN output :
            \/ i <= written[r] /\ output[i] = Byte(r, i)
            \/ output[i] = Message /\ i = Len(output)

\* When a run is finished the pane has everything up to the limit, half a
\* character replaced, and says that output was truncated exactly if some was.
FinishedShowsAll ==
    \A r \in Runs : Alone(r, "finished") =>
        LET kept == AsMany(written[r], Limit)
        IN /\ Len(output) >= kept
           /\ \A i \in 1..kept :
                  \/ output[i] = Byte(r, i)
                  \/ i = kept /\ output[i] = Replacement
                              /\ text[r][i] = "lead"
           /\ (\E i \in DOMAIN output : output[i] = Marker)
                  <=> written[r] > Limit

\* The message of a failed run stands alone: after it nothing of the script's
\* output comes out of the decoder, and a script that said why it failed has
\* no message.
MessageOnlyIfSilent ==
    \A r \in Runs : Alone(r, "showing") \/ Alone(r, "finished") =>
        \A i \in DOMAIN output : output[i] = Message =>
            \A j \in DOMAIN output \ {i} :
                output[j] = Marker \/ (j < i /\ Kind(output[j]) = "blank")

\* What the user reads is what the script wrote: while it is read, when it is
\* finished, and when it failed.
PaneIsFaithful == ShowsWhatWasWritten /\ FinishedShowsAll /\ MessageOnlyIfSilent
=============================================================================
