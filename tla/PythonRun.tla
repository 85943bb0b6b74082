------------------------------ MODULE PythonRun ------------------------------
(***************************************************************************)
(* The runs of Python scripts in src/python_ide.go: the slots that bound   *)
(* them, the script's process and its output, the two pipes over which the *)
(* script asks the server for preset queries, and the goroutine that       *)
(* answers.  The script's threads go through OrbyClient.result of the      *)
(* prelude; apart from that a script does what it likes: it may end with   *)
(* threads in a request, fork processes that keep its files open, write    *)
(* nonsense to the pipe, or run for ever.  A browser may stay connected    *)
(* and stop reading: the response has no write deadline (line 327), so     *)
(* whoever writes to it then waits.                                        *)
(*                                                                         *)
(* What the output says and how it is streamed is in PythonOutput; a       *)
(* script that gives up waiting for an answer is not modelled.             *)
(***************************************************************************)
EXTENDS Integers, Sequences, FiniteSets

CONSTANTS Runs,      \* goroutines of runPythonRequest
          Threads,   \* threads of a script
          MaxRuns,   \* capacity of server.pythonRuns
          None

ASSUME RunConstants == /\ IsFiniteSet(Runs)
                       /\ MaxRuns \in Nat \ {0}
                       /\ None \notin Threads \cup Nat

VARIABLES
    pc,          \* where each request is
    pythonRuns,  \* tokens in the channel server.pythonRuns
    aborted,     \* has the browser left?
    status,      \* the status of the response, decided when Wait returns
    stalled,     \* are the socket's buffers full, and nobody reads?
    script,      \* the script's process
    background,  \* does a forked process keep the script's files open?
    copier,      \* the goroutine of os/exec that copies the output
    printed,     \* is there output in its pipe that is not copied yet?
    cut,         \* has Wait closed that pipe under the copier?
    thread,      \* where each thread is in OrbyClient.result
    lock,        \* the thread that has _bridge_lock
    requests,    \* the request pipe: the threads that asked
    responses,   \* the response pipe: the threads the answers are for
    open,        \* are the server's ends of the pipes open?
    bridge,      \* where servePythonBridge is
    serving      \* the request it serves

server  == <<pc, pythonRuns, aborted, status, stalled>>
process == <<script, background, copier, printed, cut>>
prelude == <<thread, lock>>
pipes   == <<requests, responses, open>>
bridges == <<bridge, serving>>
vars    == <<server, process, prelude, pipes, bridges>>

Init ==
    /\ pc = [r \in Runs |-> "idle"]
    /\ pythonRuns = 0
    /\ aborted = [r \in Runs |-> FALSE]
    /\ status = [r \in Runs |-> None]
    /\ stalled = [r \in Runs |-> FALSE]
    /\ script = [r \in Runs |-> "none"]
    /\ background = [r \in Runs |-> FALSE]
    /\ copier = [r \in Runs |-> "none"]
    /\ printed = [r \in Runs |-> FALSE]
    /\ cut = [r \in Runs |-> FALSE]
    /\ thread = [r \in Runs |-> [t \in Threads |-> "idle"]]
    /\ lock = [r \in Runs |-> None]
    /\ requests = [r \in Runs |-> <<>>]
    /\ responses = [r \in Runs |-> <<>>]
    /\ open = [r \in Runs |-> FALSE]
    /\ bridge = [r \in Runs |-> "none"]
    /\ serving = [r \in Runs |-> None]

Goto(r, label) == pc' = [pc EXCEPT ![r] = label]
Ended(r) == script[r] \in {"succeeded", "failed"}

\* A write to the response returns: what it writes is taken, or refused because
\* the browser has left.
Writable(r) == ~stalled[r] \/ aborted[r]

-----------------------------------------------------------------------------
(* runPythonRequest *)

\* select on the channel: a slot is free.
TakeSlot(r) ==
    /\ pc[r] = "idle"
    /\ pythonRuns < MaxRuns
    /\ pythonRuns' = pythonRuns + 1
    /\ Goto(r, "start")
    /\ UNCHANGED <<aborted, status, stalled, process, prelude, pipes, bridges>>

\* Every slot is taken: 429, at once.
TooManyRuns(r) ==
    /\ pc[r] = "idle"
    /\ pythonRuns = MaxRuns
    /\ status' = [status EXCEPT ![r] = 429]
    /\ Goto(r, "refused")
    /\ UNCHANGED <<pythonRuns, aborted, stalled, process, prelude, pipes,
                   bridges>>

\* No interpreter, no directory, no pipe or no process.
FaultyCannotStart(r) ==    \* ends the request without the deferred receive
    /\ pc[r] = "start"
    /\ status' = [status EXCEPT ![r] = 500]
    /\ Goto(r, "refused")
    /\ UNCHANGED <<pythonRuns, aborted, stalled, process, prelude, pipes,
                   bridges>>
CannotStart(r) ==
    /\ pc[r] = "start"
    /\ status' = [status EXCEPT ![r] = 500]
    /\ Goto(r, "answer")
    /\ UNCHANGED <<pythonRuns, aborted, stalled, process, prelude, pipes,
                   bridges>>

\* command.Start, and the goroutine of the bridge.
StartScript(r) ==
    /\ pc[r] = "start"
    /\ script' = [script EXCEPT ![r] = "running"]
    /\ copier' = [copier EXCEPT ![r] = "copying"]
    /\ open' = [open EXCEPT ![r] = TRUE]
    /\ bridge' = [bridge EXCEPT ![r] = "decode"]
    /\ Goto(r, "wait")
    /\ UNCHANGED <<pythonRuns, aborted, status, stalled, background, printed, cut,
                   prelude, requests, responses, serving>>

Abort(r) ==
    /\ pc[r] # "idle"
    /\ aborted' = [aborted EXCEPT ![r] = TRUE]
    /\ UNCHANGED <<pc, pythonRuns, status, stalled, process, prelude, pipes,
                   bridges>>

\* The browser stays, and does not read what it is sent; it may go on later.
Stall(r) ==
    /\ script[r] # "none"
    /\ stalled' = [stalled EXCEPT ![r] = TRUE]
    /\ UNCHANGED <<pc, pythonRuns, aborted, status, process, prelude, pipes,
                   bridges>>

Resume(r) ==
    /\ stalled[r]
    /\ stalled' = [stalled EXCEPT ![r] = FALSE]
    /\ UNCHANGED <<pc, pythonRuns, aborted, status, process, prelude, pipes,
                   bridges>>

\* The context is cancelled: command.Cancel kills the process group, which
\* some forked process may have left.
FaultyKill(r) ==           \* while nothing is being asked
    /\ pc[r] = "wait"
    /\ aborted[r]
    /\ script[r] = "running"
    /\ \A t \in Threads : thread[r][t] = "idle"
    /\ script' = [script EXCEPT ![r] = "failed"]
    /\ UNCHANGED <<server, background, copier, printed, cut, prelude, pipes,
                   bridges>>
Kill(r) ==
    /\ pc[r] = "wait"
    /\ aborted[r]
    /\ script[r] = "running"
    /\ script' = [script EXCEPT ![r] = "failed"]
    /\ \/ background' = [background EXCEPT ![r] = FALSE]
       \/ UNCHANGED background
    /\ UNCHANGED <<server, copier, printed, cut, prelude, pipes, bridges>>

\* Somebody still has the output open, or the copier is writing to the browser:
\* after WaitDelay, Wait closes its end of the output pipe.  It goes on waiting
\* for the copier.
WaitDelay(r) ==
    /\ pc[r] = "wait"
    /\ Ended(r)
    /\ copier[r] # "done"
    /\ ~cut[r]
    /\ cut' = [cut EXCEPT ![r] = TRUE]
    /\ UNCHANGED <<server, script, background, copier, printed, prelude, pipes,
                   bridges>>

\* command.Wait returns: the process has ended and the copier is done.  A
\* context cancelled as the process ends may or may not become an error.
FaultyWaited(r) ==         \* exec.ErrWaitDelay is no error
    /\ pc[r] = "wait"
    /\ Ended(r)
    /\ copier[r] = "done"
    /\ status' = [status EXCEPT ![r] = IF script[r] = "succeeded" THEN 200 ELSE 422]
    /\ Goto(r, "close")
    /\ UNCHANGED <<pythonRuns, aborted, stalled, process, prelude, pipes,
                   bridges>>
Waited(r) ==
    /\ pc[r] = "wait"
    /\ Ended(r)
    /\ copier[r] = "done"
    /\ \/ /\ script[r] = "succeeded"
          /\ ~cut[r]
          /\ status' = [status EXCEPT ![r] = 200]
       \/ /\ script[r] = "failed" \/ cut[r] \/ aborted[r]
          /\ status' = [status EXCEPT ![r] = 422]
    /\ Goto(r, "close")
    /\ UNCHANGED <<pythonRuns, aborted, stalled, process, prelude, pipes,
                   bridges>>

FaultyClosePipes(r) ==     \* waits for the bridge with its pipes open
    /\ pc[r] = "close"
    /\ Goto(r, "bridge")
    /\ UNCHANGED <<pythonRuns, aborted, status, stalled, process, prelude, pipes,
                   bridges>>
ClosePipes(r) ==
    /\ pc[r] = "close"
    /\ open' = [open EXCEPT ![r] = FALSE]
    /\ Goto(r, "bridge")
    /\ UNCHANGED <<pythonRuns, aborted, status, stalled, process, prelude,
                   requests, responses, bridges>>

\* <-bridgeDone
FaultyBridgeDone(r) ==     \* does not wait
    /\ pc[r] = "bridge"
    /\ Goto(r, "answer")
    /\ UNCHANGED <<pythonRuns, aborted, status, stalled, process, prelude, pipes,
                   bridges>>
BridgeDone(r) ==
    /\ pc[r] = "bridge"
    /\ bridge[r] = "done"
    /\ Goto(r, "answer")
    /\ UNCHANGED <<pythonRuns, aborted, status, stalled, process, prelude, pipes,
                   bridges>>

\* The last events are written, or the answer of a run that is not streamed; the
\* deferred receive gives the slot back.
Answer(r) ==
    /\ pc[r] \in {"answer", "refused"}
    /\ Writable(r)
    /\ pythonRuns' = IF pc[r] = "answer" THEN pythonRuns - 1 ELSE pythonRuns
    /\ Goto(r, "idle")
    /\ aborted' = [aborted EXCEPT ![r] = FALSE]
    /\ status' = [status EXCEPT ![r] = None]
    /\ stalled' = [stalled EXCEPT ![r] = FALSE]
    /\ script' = [script EXCEPT ![r] = "none"]
    /\ background' = [background EXCEPT ![r] = FALSE]
    /\ copier' = [copier EXCEPT ![r] = "none"]
    /\ printed' = [printed EXCEPT ![r] = FALSE]
    /\ cut' = [cut EXCEPT ![r] = FALSE]
    /\ thread' = [thread EXCEPT ![r] = [t \in Threads |-> "idle"]]
    /\ lock' = [lock EXCEPT ![r] = None]
    /\ requests' = [requests EXCEPT ![r] = <<>>]
    /\ responses' = [responses EXCEPT ![r] = <<>>]
    /\ bridge' = [bridge EXCEPT ![r] = "none"]
    /\ UNCHANGED <<open, serving>>

-----------------------------------------------------------------------------
(* The script *)

Step(r, t, label) == thread' = [thread EXCEPT ![r][t] = label]

FaultyLockBridge(r, t) ==  \* no lock around a request and its answer
    /\ script[r] = "running"
    /\ thread[r][t] = "idle"
    /\ Step(r, t, "write")
    /\ UNCHANGED <<server, process, lock, pipes, bridges>>
LockBridge(r, t) ==
    /\ script[r] = "running"
    /\ thread[r][t] = "idle"
    /\ lock[r] = None
    /\ lock' = [lock EXCEPT ![r] = t]
    /\ Step(r, t, "write")
    /\ UNCHANGED <<server, process, pipes, bridges>>

WriteRequest(r, t) ==
    /\ script[r] = "running"
    /\ thread[r][t] = "write"
    /\ requests' = [requests EXCEPT ![r] = Append(@, t)]
    /\ Step(r, t, "read")
    /\ UNCHANGED <<server, process, lock, responses, open, bridges>>

ReadResponse(r, t) ==
    /\ script[r] = "running"
    /\ thread[r][t] = "read"
    /\ responses[r] # <<>>
    /\ responses' = [responses EXCEPT ![r] = Tail(@)]
    /\ Step(r, t, "idle")
    /\ lock' = [lock EXCEPT ![r] = None]
    /\ UNCHANGED <<server, process, requests, open, bridges>>

\* The main thread ends, whatever the others do.
ScriptEnds(r, how) ==
    /\ script[r] = "running"
    /\ script' = [script EXCEPT ![r] = how]
    /\ UNCHANGED <<server, background, copier, printed, cut, prelude, pipes,
                   bridges>>

Fork(r) ==
    /\ script[r] = "running"
    /\ background' = [background EXCEPT ![r] = TRUE]
    /\ UNCHANGED <<server, script, copier, printed, cut, prelude, pipes, bridges>>

BackgroundEnds(r) ==
    /\ background[r]
    /\ background' = [background EXCEPT ![r] = FALSE]
    /\ UNCHANGED <<server, script, copier, printed, cut, prelude, pipes, bridges>>

-----------------------------------------------------------------------------
(* The output *)

\* The script or a process that it forked writes to its output.
Prints(r) ==
    /\ script[r] = "running" \/ background[r]
    /\ ~cut[r]
    /\ printed' = [printed EXCEPT ![r] = TRUE]
    /\ UNCHANGED <<server, script, background, copier, cut, prelude, pipes,
                   bridges>>

\* limitedBuffer.Write, called by the copier: what it keeps is streamed at once,
\* unless the limit is reached or the run is not streamed.
Copy(r) ==
    /\ copier[r] = "copying"
    /\ printed[r]
    /\ ~cut[r]
    /\ printed' = [printed EXCEPT ![r] = FALSE]
    /\ \/ copier' = [copier EXCEPT ![r] = "writing"]
       \/ UNCHANGED copier
    /\ UNCHANGED <<server, script, background, cut, prelude, pipes, bridges>>

\* writePythonSSE returns, with or without an error.
Written(r) ==
    /\ copier[r] = "writing"
    /\ Writable(r)
    /\ copier' = [copier EXCEPT ![r] = "copying"]
    /\ UNCHANGED <<server, script, background, printed, cut, prelude, pipes,
                   bridges>>

\* The copier's read fails: the pipe is closed, or empty and nobody has its
\* other end open any more.
OutputEnds(r) ==
    /\ copier[r] = "copying"
    /\ cut[r] \/ (Ended(r) /\ ~background[r] /\ ~printed[r])
    /\ copier' = [copier EXCEPT ![r] = "done"]
    /\ UNCHANGED <<server, script, background, printed, cut, prelude, pipes,
                   bridges>>

-----------------------------------------------------------------------------
(* servePythonBridge and runPresetForPython *)

ToBridge(r, label) == bridge' = [bridge EXCEPT ![r] = label]

\* A request that the decoder has in its buffer is served even if the pipe has
\* been closed since.
Decode(r) ==
    /\ bridge[r] = "decode"
    /\ requests[r] # <<>>
    /\ requests' = [requests EXCEPT ![r] = Tail(@)]
    /\ serving' = [serving EXCEPT ![r] = Head(requests[r])]
    /\ ToBridge(r, "acquire")
    /\ UNCHANGED <<server, process, prelude, responses, open>>

\* Decode fails: the pipe was closed, or nobody can write to it any more.
DecodeFails(r) ==
    /\ bridge[r] = "decode"
    /\ \/ ~open[r]
       \/ requests[r] = <<>> /\ Ended(r) /\ ~background[r]
    /\ ToBridge(r, "done")
    /\ UNCHANGED <<server, process, prelude, pipes, serving>>

\* maxBridgeBytes are used up, what was read is no request, or the answer
\* cannot be encoded: the bridge ends under a script that may be waiting.
GiveUp(r) ==
    /\ bridge[r] \in {"decode", "encode"}
    /\ open[r]
    /\ ToBridge(r, "done")
    /\ serving' = [serving EXCEPT ![r] = None]
    /\ UNCHANGED <<server, process, prelude, pipes>>

\* Acquire under the lease "python-ide", then Run on the client.
Acquired(r) ==
    /\ bridge[r] = "acquire"
    /\ ToBridge(r, "query")
    /\ UNCHANGED <<server, process, prelude, pipes, serving>>

\* Unknown preset, bad address, or no client: the answer is an error.
NotAcquired(r) ==
    /\ bridge[r] = "acquire"
    /\ ToBridge(r, "encode")
    /\ UNCHANGED <<server, process, prelude, pipes, serving>>

\* Run returns, and the deferred release lets the client go.
QueryEnds(r) ==
    /\ bridge[r] = "query"
    /\ ToBridge(r, "encode")
    /\ UNCHANGED <<server, process, prelude, pipes, serving>>

Encode(r) ==
    /\ bridge[r] = "encode"
    /\ open[r]
    /\ responses' = [responses EXCEPT ![r] = Append(@, serving[r])]
    /\ serving' = [serving EXCEPT ![r] = None]
    /\ ToBridge(r, "decode")
    /\ UNCHANGED <<server, process, prelude, requests, open>>

\* Closed, or a pipe that nobody reads.
EncodeFails(r) ==
    /\ bridge[r] = "encode"
    /\ ~open[r] \/ (Ended(r) /\ ~background[r])
    /\ serving' = [serving EXCEPT ![r] = None]
    /\ ToBridge(r, "done")
    /\ UNCHANGED <<server, process, prelude, pipes>>

-----------------------------------------------------------------------------

ServerStep(r) ==
    \/ CannotStart(r)
    \/ StartScript(r)
    \/ Kill(r)
    \/ Waited(r)
    \/ WaitDelay(r)
    \/ ClosePipes(r)
    \/ BridgeDone(r)
    \/ Answer(r)

BridgeStep(r) ==
    \/ Decode(r)
    \/ DecodeFails(r)
    \/ Acquired(r)
    \/ NotAcquired(r)
    \/ QueryEnds(r)
    \/ Encode(r)
    \/ EncodeFails(r)

CopierStep(r) ==
    \/ Copy(r)
    \/ Written(r)
    \/ OutputEnds(r)

Next ==
    \E r \in Runs :
        \/ TakeSlot(r)
        \/ TooManyRuns(r)
        \/ Abort(r)
        \/ Stall(r)
        \/ Resume(r)
        \/ ServerStep(r)
        \/ BridgeStep(r)
        \/ GiveUp(r)
        \/ \E t \in Threads : \/ LockBridge(r, t)
                              \/ WriteRequest(r, t)
                              \/ ReadResponse(r, t)
        \/ \E how \in {"succeeded", "failed"} : ScriptEnds(r, how)
        \/ Fork(r)
        \/ BackgroundEnds(r)
        \/ Prints(r)
        \/ CopierStep(r)

Spec == Init /\ [][Next]_vars

\* The server's goroutines get the processor and presets' queries return; a
\* thread whose answer is there reads it.  Scripts, and what they fork, need
\* not end, and browsers need not read.
FairSpec ==
    /\ Spec
    /\ \A r \in Runs : /\ WF_vars(ServerStep(r))
                       /\ WF_vars(BridgeStep(r))
                       /\ WF_vars(CopierStep(r))
                       /\ \A t \in Threads : WF_vars(ReadResponse(r, t))

-----------------------------------------------------------------------------
(* Properties *)

HasSlot(r) == pc[r] \notin {"idle", "refused"}

\* Slots are neither lost nor given back twice, however a run ends: the channel
\* holds one token for each run between its select and its return.
SlotsMatchRuns == pythonRuns = Cardinality({r \in Runs : HasSlot(r)})

\* When the response is completed nothing of the run is left at work in the
\* server: the script is dead, no output will be written to a response that is
\* over, and the bridge has let its pooled client go.
NothingOutlivesRun ==
    \A r \in Runs : pc[r] \in {"answer", "idle"} =>
        /\ script[r] # "running"
        /\ copier[r] \in {"none", "done"}
        /\ bridge[r] \in {"none", "done"}
        /\ ~open[r]

\* A thread reads the answer to its own request, although answers do not say
\* which request they are for: at most one request of a script is in the pipes
\* or being served.
AnswersMatch ==
    \A r \in Runs :
        /\ Len(requests[r]) + Len(responses[r])
               + (IF serving[r] = None THEN 0 ELSE 1) <= 1
        /\ \A t \in Threads :
               thread[r][t] = "read" /\ responses[r] # <<>> => Head(responses[r]) = t

\* A run succeeds only with all of the script's output: what was printed before
\* its end, by it or what it forked, has been copied.
SuccessIsComplete == \A r \in Runs : status[r] = 200 => ~printed[r] /\ ~background[r]

\* Once the script's process has ended the run is over and its slot is free,
\* though forked processes keep its files open, and whatever the bridge does:
\* only a browser that has stopped reading can hold it up.
EndedScriptEndsRun == \A r \in Runs : Ended(r) ~> (pc[r] = "idle" \/ stalled[r])

\* A browser that leaves ends the run of a script that never ends, one that
\* waits for a bridge that has given up included, even if that browser had
\* stopped reading before.
AbortEndsRun == \A r \in Runs : aborted[r] ~> pc[r] = "idle"
=============================================================================
