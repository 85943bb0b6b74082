--------------------------- MODULE PythonRun_proofs ---------------------------
(***************************************************************************)
(* Proofs that Python runs keep their slots, leave nothing behind and give *)
(* threads their own answers, for any number of requests, threads and      *)
(* slots.                                                                  *)
(***************************************************************************)
EXTENDS PythonRun, FiniteSetTheorems, SequenceTheorems, TLAPS

-----------------------------------------------------------------------------
(* The inductive invariant *)

TypeOK ==
    /\ pc \in [Runs -> {"idle", "refused", "start", "wait", "close", "bridge", "answer"}]
    /\ pythonRuns \in 0..MaxRuns
    /\ aborted \in [Runs -> BOOLEAN]
    /\ status \in [Runs -> {None, 200, 422, 429, 500}]
    /\ stalled \in [Runs -> BOOLEAN]
    /\ script \in [Runs -> {"none", "running", "succeeded", "failed"}]
    /\ background \in [Runs -> BOOLEAN]
    /\ copier \in [Runs -> {"none", "copying", "writing", "done"}]
    /\ printed \in [Runs -> BOOLEAN]
    /\ cut \in [Runs -> BOOLEAN]
    /\ thread \in [Runs -> [Threads -> {"idle", "write", "read"}]]
    /\ lock \in [Runs -> Threads \cup {None}]
    /\ requests \in [Runs -> Seq(Threads)]
    /\ responses \in [Runs -> Seq(Threads)]
    /\ open \in [Runs -> BOOLEAN]
    /\ bridge \in [Runs -> {"none", "decode", "acquire", "query", "encode", "done"}]
    /\ serving \in [Runs -> Threads \cup {None}]

\* What is at work in the server in each phase of a request: the process and
\* its output live from command.Start to Wait, the pipes are open until they
\* are closed after Wait, and the bridge may outlive them until it is awaited.
Phase(r) ==
    /\ pc[r] \in {"idle", "refused", "start"} =>
           script[r] = "none" /\ copier[r] = "none" /\ bridge[r] = "none"
    /\ pc[r] = "wait" =>
           script[r] # "none" /\ copier[r] # "none" /\ bridge[r] # "none"
    /\ pc[r] \in {"close", "bridge"} =>
           Ended(r) /\ copier[r] = "done" /\ bridge[r] # "none"
    /\ pc[r] = "answer" =>
           /\ script[r] = "none" \/ Ended(r)
           /\ copier[r] \in {"none", "done"}
           /\ bridge[r] \in {"none", "done"}
    /\ open[r] <=> pc[r] \in {"wait", "close"}

\* A copier that was not cut off has come to the end of the output, and only
\* then does a run succeed.
Copied(r) ==
    /\ copier[r] = "done" /\ ~cut[r] => Ended(r) /\ ~background[r] /\ ~printed[r]
    /\ status[r] = 200 =>
           pc[r] \in {"close", "bridge", "answer"} /\ copier[r] = "done" /\ ~cut[r]

\* The pipes and the bridge hold nothing.
Empty(r) == requests[r] = <<>> /\ responses[r] = <<>> /\ serving[r] = None

\* The one request of a script is on its way there, being served, or on its way
\* back; all three name the thread that has the lock.
Carried(r) ==
    \/ requests[r] = <<lock[r]>> /\ responses[r] = <<>> /\ serving[r] = None
    \/ requests[r] = <<>> /\ responses[r] = <<lock[r]>> /\ serving[r] = None
    \/ requests[r] = <<>> /\ responses[r] = <<>> /\ serving[r] = lock[r]

\* A thread is in a request exactly if it has the lock, and something is under
\* way only while that thread waits for it.
Locked(r) ==
    /\ \A t \in Threads : thread[r][t] # "idle" <=> t = lock[r]
    /\ \/ Empty(r)
       \/ lock[r] \in Threads /\ thread[r][lock[r]] = "read" /\ Carried(r)
    /\ serving[r] # None <=> bridge[r] \in {"acquire", "query", "encode"}
    /\ pc[r] \in {"idle", "refused", "start"} => Empty(r) /\ lock[r] = None

RunInv == \A r \in Runs : Phase(r) /\ Locked(r) /\ Copied(r)

IInv == TypeOK /\ SlotsMatchRuns /\ RunInv

-----------------------------------------------------------------------------
(* Facts that the steps rest on *)

\* A pipe that holds one thing.
LEMMA OneInPipe ==
    ASSUME NEW t \in Threads
    PROVE  /\ <<t>> \in Seq(Threads) /\ <<t>> # <<>>
           /\ Head(<<t>>) = t /\ Tail(<<t>>) = <<>>
           /\ Append(<<>>, t) = <<t>>
OBVIOUS

\* What reaches the server was asked by the thread with the lock, and nothing
\* else is under way then.
LEMMA OneUnderWay ==
    ASSUME TypeOK, RunInv, NEW r \in Runs
    PROVE  /\ requests[r] # <<>> =>
                /\ lock[r] \in Threads /\ thread[r][lock[r]] = "read"
                /\ requests[r] = <<lock[r]>>
                /\ responses[r] = <<>> /\ serving[r] = None
           /\ responses[r] # <<>> =>
                /\ lock[r] \in Threads /\ thread[r][lock[r]] = "read"
                /\ responses[r] = <<lock[r]>>
                /\ requests[r] = <<>> /\ serving[r] = None
           /\ serving[r] # None =>
                /\ lock[r] \in Threads /\ thread[r][lock[r]] = "read"
                /\ serving[r] = lock[r]
                /\ requests[r] = <<>> /\ responses[r] = <<>>
BY RunConstants DEF TypeOK, RunInv, Locked, Empty, Carried

\* A run with a slot has put its token into the channel.
LEMMA SlotIsToken ==
    ASSUME TypeOK, SlotsMatchRuns, NEW r \in Runs, HasSlot(r)
    PROVE  pythonRuns > 0
<1> DEFINE Holders == {q \in Runs : HasSlot(q)}
<1>1. IsFiniteSet(Holders)
  BY RunConstants, FS_Subset
<1>2. Holders # {} /\ Cardinality(Holders) = pythonRuns
  BY DEF SlotsMatchRuns
<1> HIDE DEF Holders
<1>3. Cardinality(Holders) # 0
  BY <1>1, <1>2, FS_EmptySet
<1>4. QED
  BY <1>2, <1>3, RunConstants DEF TypeOK

-----------------------------------------------------------------------------
(* The steps *)

\* A token is given back only if there is one, and what is put into a pipe is a
\* thread.
LEMMA StepTyped ==
    TypeOK /\ SlotsMatchRuns /\ RunInv /\ [Next]_vars => TypeOK'
<1> SUFFICES ASSUME TypeOK /\ SlotsMatchRuns /\ RunInv, [Next]_vars
             PROVE  TypeOK'
  OBVIOUS
<1> USE RunConstants DEF TypeOK, server, process, prelude, pipes, bridges,
        Goto, Step, ToBridge, Ended
<1>1. ASSUME NEW r \in Runs, TakeSlot(r)
      PROVE  TypeOK'
  <2>1. pythonRuns + 1 \in 0..MaxRuns
    BY <1>1 DEF TakeSlot
  <2>2. QED
    BY <1>1, <2>1 DEF TakeSlot
<1>2. ASSUME NEW r \in Runs, TooManyRuns(r)
      PROVE  TypeOK'
  BY <1>2 DEF TooManyRuns
<1>3. ASSUME NEW r \in Runs, CannotStart(r)
      PROVE  TypeOK'
  BY <1>3 DEF CannotStart
<1>4. ASSUME NEW r \in Runs, StartScript(r)
      PROVE  TypeOK'
  BY <1>4 DEF StartScript
<1>5. ASSUME NEW r \in Runs, Abort(r)
      PROVE  TypeOK'
  BY <1>5 DEF Abort
<1>6. ASSUME NEW r \in Runs, Kill(r)
      PROVE  TypeOK'
  <2>1. CASE background' = [background EXCEPT ![r] = FALSE]
    BY <1>6, <2>1 DEF Kill
  <2>2. CASE UNCHANGED background
    BY <1>6, <2>2 DEF Kill
  <2>3. QED
    BY <1>6, <2>1, <2>2 DEF Kill
<1>7. ASSUME NEW r \in Runs, Waited(r)
      PROVE  TypeOK'
  <2>1. CASE status' = [status EXCEPT ![r] = 200]
    BY <1>7, <2>1 DEF Waited
  <2>2. CASE status' = [status EXCEPT ![r] = 422]
    BY <1>7, <2>2 DEF Waited
  <2>3. QED
    BY <1>7, <2>1, <2>2 DEF Waited
<1>8. ASSUME NEW r \in Runs, WaitDelay(r)
      PROVE  TypeOK'
  BY <1>8 DEF WaitDelay
<1>9. ASSUME NEW r \in Runs, ClosePipes(r)
      PROVE  TypeOK'
  BY <1>9 DEF ClosePipes
<1>10. ASSUME NEW r \in Runs, BridgeDone(r)
      PROVE  TypeOK'
  BY <1>10 DEF BridgeDone
<1>11. ASSUME NEW r \in Runs, Answer(r)
      PROVE  TypeOK'
  <2>1. pc[r] = "answer" => pythonRuns > 0
    BY SlotIsToken DEF HasSlot
  <2>2. QED
    BY <1>11, <2>1 DEF Answer
<1>12. ASSUME NEW r \in Runs, Decode(r)
      PROVE  TypeOK'
  <2>1. Head(requests[r]) \in Threads /\ Tail(requests[r]) \in Seq(Threads)
    BY <1>12 DEF Decode
  <2>2. QED
    BY <1>12, <2>1 DEF Decode
<1>13. ASSUME NEW r \in Runs, DecodeFails(r)
      PROVE  TypeOK'
  BY <1>13 DEF DecodeFails
<1>14. ASSUME NEW r \in Runs, Acquired(r)
      PROVE  TypeOK'
  BY <1>14 DEF Acquired
<1>15. ASSUME NEW r \in Runs, NotAcquired(r)
      PROVE  TypeOK'
  BY <1>15 DEF NotAcquired
<1>16. ASSUME NEW r \in Runs, QueryEnds(r)
      PROVE  TypeOK'
  BY <1>16 DEF QueryEnds
<1>17. ASSUME NEW r \in Runs, Encode(r)
      PROVE  TypeOK'
  <2>1. serving[r] \in Threads /\ responses[r] \in Seq(Threads)
    BY <1>17 DEF Encode, RunInv, Locked
  <2>2. Append(responses[r], serving[r]) \in Seq(Threads)
    BY <2>1
  <2>3. QED
    BY <1>17, <2>2 DEF Encode
<1>18. ASSUME NEW r \in Runs, EncodeFails(r)
      PROVE  TypeOK'
  BY <1>18 DEF EncodeFails
<1>19. ASSUME NEW r \in Runs, GiveUp(r)
      PROVE  TypeOK'
  BY <1>19 DEF GiveUp
<1>20. ASSUME NEW r \in Runs, Fork(r)
      PROVE  TypeOK'
  BY <1>20 DEF Fork
<1>21. ASSUME NEW r \in Runs, BackgroundEnds(r)
      PROVE  TypeOK'
  BY <1>21 DEF BackgroundEnds
<1>22. ASSUME NEW r \in Runs, OutputEnds(r)
      PROVE  TypeOK'
  BY <1>22 DEF OutputEnds
<1>23. ASSUME NEW r \in Runs, NEW t \in Threads, LockBridge(r, t)
      PROVE  TypeOK'
  BY <1>23 DEF LockBridge
<1>24. ASSUME NEW r \in Runs, NEW t \in Threads, WriteRequest(r, t)
      PROVE  TypeOK'
  BY <1>24 DEF WriteRequest
<1>25. ASSUME NEW r \in Runs, NEW t \in Threads, ReadResponse(r, t)
      PROVE  TypeOK'
  BY <1>25 DEF ReadResponse
<1>26. ASSUME NEW r \in Runs, NEW how \in {"succeeded", "failed"},
             ScriptEnds(r, how)
      PROVE  TypeOK'
  BY <1>26 DEF ScriptEnds
<1>27. ASSUME NEW r \in Runs, Stall(r)
      PROVE  TypeOK'
  BY <1>27 DEF Stall
<1>28. ASSUME NEW r \in Runs, Resume(r)
      PROVE  TypeOK'
  BY <1>28 DEF Resume
<1>29. ASSUME NEW r \in Runs, Prints(r)
      PROVE  TypeOK'
  BY <1>29 DEF Prints
<1>30. ASSUME NEW r \in Runs, Copy(r)
      PROVE  TypeOK'
  BY <1>30 DEF Copy
<1>31. ASSUME NEW r \in Runs, Written(r)
      PROVE  TypeOK'
  BY <1>31 DEF Written
<1>32. CASE UNCHANGED vars
  BY <1>32 DEF vars
<1> HIDE DEF TypeOK
<1>33. QED
  BY <1>1, <1>2, <1>3, <1>4, <1>5, <1>6, <1>7, <1>8, <1>9, <1>10, <1>11,
     <1>12, <1>13, <1>14, <1>15, <1>16, <1>17, <1>18, <1>19, <1>20,
     <1>21, <1>22, <1>23, <1>24, <1>25, <1>26, <1>27, <1>28, <1>29,
     <1>30, <1>31, <1>32 DEF Next, ServerStep, BridgeStep, CopierStep

\* What is at work changes with the phase of the request.
LEMMA StepPhase ==
    TypeOK /\ RunInv /\ [Next]_vars => (\A q \in Runs : Phase(q))'
<1> SUFFICES ASSUME TypeOK /\ RunInv, [Next]_vars
             PROVE  (\A q \in Runs : Phase(q))'
  OBVIOUS
<1> USE RunConstants DEF TypeOK, RunInv, Phase, Locked, server, process,
        prelude, pipes, bridges, Goto, Step, ToBridge, Ended
<1>1. ASSUME NEW r \in Runs, TakeSlot(r)
      PROVE  (\A q \in Runs : Phase(q))'
  BY <1>1 DEF TakeSlot
<1>2. ASSUME NEW r \in Runs, TooManyRuns(r)
      PROVE  (\A q \in Runs : Phase(q))'
  BY <1>2 DEF TooManyRuns
<1>3. ASSUME NEW r \in Runs, CannotStart(r)
      PROVE  (\A q \in Runs : Phase(q))'
  BY <1>3 DEF CannotStart
<1>4. ASSUME NEW r \in Runs, StartScript(r)
      PROVE  (\A q \in Runs : Phase(q))'
  BY <1>4 DEF StartScript
<1>5. ASSUME NEW r \in Runs, Abort(r)
      PROVE  (\A q \in Runs : Phase(q))'
  BY <1>5 DEF Abort
<1>6. ASSUME NEW r \in Runs, Kill(r)
      PROVE  (\A q \in Runs : Phase(q))'
  BY <1>6 DEF Kill
<1>7. ASSUME NEW r \in Runs, Waited(r)
      PROVE  (\A q \in Runs : Phase(q))'
  BY <1>7 DEF Waited
<1>8. ASSUME NEW r \in Runs, WaitDelay(r)
      PROVE  (\A q \in Runs : Phase(q))'
  BY <1>8 DEF WaitDelay
<1>9. ASSUME NEW r \in Runs, ClosePipes(r)
      PROVE  (\A q \in Runs : Phase(q))'
  BY <1>9 DEF ClosePipes
<1>10. ASSUME NEW r \in Runs, BridgeDone(r)
      PROVE  (\A q \in Runs : Phase(q))'
  BY <1>10 DEF BridgeDone
<1>11. ASSUME NEW r \in Runs, Answer(r)
      PROVE  (\A q \in Runs : Phase(q))'
  BY <1>11 DEF Answer
<1>12. ASSUME NEW r \in Runs, Decode(r)
      PROVE  (\A q \in Runs : Phase(q))'
  BY <1>12 DEF Decode
<1>13. ASSUME NEW r \in Runs, DecodeFails(r)
      PROVE  (\A q \in Runs : Phase(q))'
  BY <1>13 DEF DecodeFails
<1>14. ASSUME NEW r \in Runs, Acquired(r)
      PROVE  (\A q \in Runs : Phase(q))'
  BY <1>14 DEF Acquired
<1>15. ASSUME NEW r \in Runs, NotAcquired(r)
      PROVE  (\A q \in Runs : Phase(q))'
  BY <1>15 DEF NotAcquired
<1>16. ASSUME NEW r \in Runs, QueryEnds(r)
      PROVE  (\A q \in Runs : Phase(q))'
  BY <1>16 DEF QueryEnds
<1>17. ASSUME NEW r \in Runs, Encode(r)
      PROVE  (\A q \in Runs : Phase(q))'
  BY <1>17 DEF Encode
<1>18. ASSUME NEW r \in Runs, EncodeFails(r)
      PROVE  (\A q \in Runs : Phase(q))'
  BY <1>18 DEF EncodeFails
<1>19. ASSUME NEW r \in Runs, GiveUp(r)
      PROVE  (\A q \in Runs : Phase(q))'
  BY <1>19 DEF GiveUp
<1>20. ASSUME NEW r \in Runs, Fork(r)
      PROVE  (\A q \in Runs : Phase(q))'
  BY <1>20 DEF Fork
<1>21. ASSUME NEW r \in Runs, BackgroundEnds(r)
      PROVE  (\A q \in Runs : Phase(q))'
  BY <1>21 DEF BackgroundEnds
<1>22. ASSUME NEW r \in Runs, OutputEnds(r)
      PROVE  (\A q \in Runs : Phase(q))'
  BY <1>22 DEF OutputEnds
<1>23. ASSUME NEW r \in Runs, NEW t \in Threads, LockBridge(r, t)
      PROVE  (\A q \in Runs : Phase(q))'
  BY <1>23 DEF LockBridge
<1>24. ASSUME NEW r \in Runs, NEW t \in Threads, WriteRequest(r, t)
      PROVE  (\A q \in Runs : Phase(q))'
  BY <1>24 DEF WriteRequest
<1>25. ASSUME NEW r \in Runs, NEW t \in Threads, ReadResponse(r, t)
      PROVE  (\A q \in Runs : Phase(q))'
  BY <1>25 DEF ReadResponse
<1>26. ASSUME NEW r \in Runs, NEW how \in {"succeeded", "failed"},
             ScriptEnds(r, how)
      PROVE  (\A q \in Runs : Phase(q))'
  BY <1>26 DEF ScriptEnds
<1>27. ASSUME NEW r \in Runs, Stall(r)
      PROVE  (\A q \in Runs : Phase(q))'
  BY <1>27 DEF Stall
<1>28. ASSUME NEW r \in Runs, Resume(r)
      PROVE  (\A q \in Runs : Phase(q))'
  BY <1>28 DEF Resume
<1>29. ASSUME NEW r \in Runs, Prints(r)
      PROVE  (\A q \in Runs : Phase(q))'
  BY <1>29 DEF Prints
<1>30. ASSUME NEW r \in Runs, Copy(r)
      PROVE  (\A q \in Runs : Phase(q))'
  BY <1>30 DEF Copy
<1>31. ASSUME NEW r \in Runs, Written(r)
      PROVE  (\A q \in Runs : Phase(q))'
  BY <1>31 DEF Written
<1>32. CASE UNCHANGED vars
  BY <1>32 DEF vars
<1>33. QED
  BY <1>1, <1>2, <1>3, <1>4, <1>5, <1>6, <1>7, <1>8, <1>9, <1>10, <1>11,
     <1>12, <1>13, <1>14, <1>15, <1>16, <1>17, <1>18, <1>19, <1>20,
     <1>21, <1>22, <1>23, <1>24, <1>25, <1>26, <1>27, <1>28, <1>29,
     <1>30, <1>31, <1>32 DEF Next, ServerStep, BridgeStep, CopierStep

\* The lock follows a request through the pipes and the bridge.
LEMMA StepLocked ==
    TypeOK /\ RunInv /\ [Next]_vars => (\A q \in Runs : Locked(q))'
<1> SUFFICES ASSUME TypeOK /\ RunInv, [Next]_vars
             PROVE  (\A q \in Runs : Locked(q))'
  OBVIOUS
<1> USE RunConstants DEF TypeOK, RunInv, Phase, Locked, Empty, Carried,
        server, process, prelude, pipes, bridges, Goto, Step, ToBridge,
        Ended
<1>1. ASSUME NEW r \in Runs, TakeSlot(r)
      PROVE  (\A q \in Runs : Locked(q))'
  BY <1>1 DEF TakeSlot
<1>2. ASSUME NEW r \in Runs, TooManyRuns(r)
      PROVE  (\A q \in Runs : Locked(q))'
  BY <1>2 DEF TooManyRuns
<1>3. ASSUME NEW r \in Runs, CannotStart(r)
      PROVE  (\A q \in Runs : Locked(q))'
  BY <1>3 DEF CannotStart
<1>4. ASSUME NEW r \in Runs, StartScript(r)
      PROVE  (\A q \in Runs : Locked(q))'
  BY <1>4 DEF StartScript
<1>5. ASSUME NEW r \in Runs, Abort(r)
      PROVE  (\A q \in Runs : Locked(q))'
  BY <1>5 DEF Abort
<1>6. ASSUME NEW r \in Runs, Kill(r)
      PROVE  (\A q \in Runs : Locked(q))'
  BY <1>6 DEF Kill
<1>7. ASSUME NEW r \in Runs, Waited(r)
      PROVE  (\A q \in Runs : Locked(q))'
  BY <1>7 DEF Waited
<1>8. ASSUME NEW r \in Runs, WaitDelay(r)
      PROVE  (\A q \in Runs : Locked(q))'
  BY <1>8 DEF WaitDelay
<1>9. ASSUME NEW r \in Runs, ClosePipes(r)
      PROVE  (\A q \in Runs : Locked(q))'
  BY <1>9 DEF ClosePipes
<1>10. ASSUME NEW r \in Runs, BridgeDone(r)
      PROVE  (\A q \in Runs : Locked(q))'
  BY <1>10 DEF BridgeDone
<1>11. ASSUME NEW r \in Runs, Answer(r)
      PROVE  (\A q \in Runs : Locked(q))'
  BY <1>11 DEF Answer
<1>12. ASSUME NEW r \in Runs, Decode(r)
      PROVE  (\A q \in Runs : Locked(q))'
  <2>1. /\ lock[r] \in Threads /\ thread[r][lock[r]] = "read"
        /\ requests[r] = <<lock[r]>> /\ responses[r] = <<>>
    BY <1>12, OneUnderWay DEF Decode
  <2>2. Head(requests[r]) = lock[r] /\ Tail(requests[r]) = <<>>
    BY <2>1, OneInPipe
  <2>3. QED
    BY <1>12, <2>1, <2>2 DEF Decode
<1>13. ASSUME NEW r \in Runs, DecodeFails(r)
      PROVE  (\A q \in Runs : Locked(q))'
  BY <1>13 DEF DecodeFails
<1>14. ASSUME NEW r \in Runs, Acquired(r)
      PROVE  (\A q \in Runs : Locked(q))'
  BY <1>14 DEF Acquired
<1>15. ASSUME NEW r \in Runs, NotAcquired(r)
      PROVE  (\A q \in Runs : Locked(q))'
  BY <1>15 DEF NotAcquired
<1>16. ASSUME NEW r \in Runs, QueryEnds(r)
      PROVE  (\A q \in Runs : Locked(q))'
  BY <1>16 DEF QueryEnds
<1>17. ASSUME NEW r \in Runs, Encode(r)
      PROVE  (\A q \in Runs : Locked(q))'
  <2>1. serving[r] # None
    BY <1>17 DEF Encode
  <2>2. /\ lock[r] \in Threads /\ thread[r][lock[r]] = "read"
        /\ serving[r] = lock[r] /\ requests[r] = <<>> /\ responses[r] = <<>>
    BY <2>1, OneUnderWay
  <2>3. Append(responses[r], serving[r]) = <<lock[r]>>
    BY <2>2, OneInPipe
  <2>4. QED
    BY <1>17, <2>2, <2>3 DEF Encode
<1>18. ASSUME NEW r \in Runs, EncodeFails(r)
      PROVE  (\A q \in Runs : Locked(q))'
  BY <1>18 DEF EncodeFails
<1>19. ASSUME NEW r \in Runs, GiveUp(r)
      PROVE  (\A q \in Runs : Locked(q))'
  BY <1>19 DEF GiveUp
<1>20. ASSUME NEW r \in Runs, Fork(r)
      PROVE  (\A q \in Runs : Locked(q))'
  BY <1>20 DEF Fork
<1>21. ASSUME NEW r \in Runs, BackgroundEnds(r)
      PROVE  (\A q \in Runs : Locked(q))'
  BY <1>21 DEF BackgroundEnds
<1>22. ASSUME NEW r \in Runs, OutputEnds(r)
      PROVE  (\A q \in Runs : Locked(q))'
  BY <1>22 DEF OutputEnds
<1>23. ASSUME NEW r \in Runs, NEW t \in Threads, LockBridge(r, t)
      PROVE  (\A q \in Runs : Locked(q))'
  BY <1>23 DEF LockBridge
<1>24. ASSUME NEW r \in Runs, NEW t \in Threads, WriteRequest(r, t)
      PROVE  (\A q \in Runs : Locked(q))'
  <2>1. t = lock[r] /\ Empty(r)
    BY <1>24 DEF WriteRequest
  <2>2. Append(requests[r], t) = <<t>>
    BY <2>1, OneInPipe
  <2>3. QED
    BY <1>24, <2>1, <2>2 DEF WriteRequest
<1>25. ASSUME NEW r \in Runs, NEW t \in Threads, ReadResponse(r, t)
      PROVE  (\A q \in Runs : Locked(q))'
  <2>1. /\ lock[r] = t
        /\ responses[r] = <<t>> /\ requests[r] = <<>> /\ serving[r] = None
    BY <1>25, OneUnderWay DEF ReadResponse
  <2>2. Tail(responses[r]) = <<>>
    BY <2>1, OneInPipe
  <2>3. QED
    BY <1>25, <2>1, <2>2 DEF ReadResponse
<1>26. ASSUME NEW r \in Runs, NEW how \in {"succeeded", "failed"},
             ScriptEnds(r, how)
      PROVE  (\A q \in Runs : Locked(q))'
  BY <1>26 DEF ScriptEnds
<1>27. ASSUME NEW r \in Runs, Stall(r)
      PROVE  (\A q \in Runs : Locked(q))'
  BY <1>27 DEF Stall
<1>28. ASSUME NEW r \in Runs, Resume(r)
      PROVE  (\A q \in Runs : Locked(q))'
  BY <1>28 DEF Resume
<1>29. ASSUME NEW r \in Runs, Prints(r)
      PROVE  (\A q \in Runs : Locked(q))'
  BY <1>29 DEF Prints
<1>30. ASSUME NEW r \in Runs, Copy(r)
      PROVE  (\A q \in Runs : Locked(q))'
  BY <1>30 DEF Copy
<1>31. ASSUME NEW r \in Runs, Written(r)
      PROVE  (\A q \in Runs : Locked(q))'
  BY <1>31 DEF Written
<1>32. CASE UNCHANGED vars
  BY <1>32 DEF vars
<1> HIDE DEF TypeOK, RunInv, Phase, Locked, Empty, Carried
<1>33. QED
  BY <1>1, <1>2, <1>3, <1>4, <1>5, <1>6, <1>7, <1>8, <1>9, <1>10, <1>11,
     <1>12, <1>13, <1>14, <1>15, <1>16, <1>17, <1>18, <1>19, <1>20,
     <1>21, <1>22, <1>23, <1>24, <1>25, <1>26, <1>27, <1>28, <1>29,
     <1>30, <1>31, <1>32 DEF Next, ServerStep, BridgeStep, CopierStep

\* The tokens in the channel are counted by who holds them.  Only the select and
\* the deferred receive change either, both together.
LEMMA StepSlots == TypeOK /\ SlotsMatchRuns /\ [Next]_vars => SlotsMatchRuns'
<1> SUFFICES ASSUME TypeOK, SlotsMatchRuns, [Next]_vars
             PROVE  SlotsMatchRuns'
  OBVIOUS
<1> DEFINE Holders == {q \in Runs : HasSlot(q)}
<1>1. /\ IsFiniteSet(Holders)
      /\ Cardinality(Holders) = pythonRuns
      /\ pythonRuns \in Nat
  BY RunConstants, FS_Subset DEF SlotsMatchRuns, TypeOK
<1>2. ASSUME Holders' = Holders, pythonRuns' = pythonRuns
      PROVE  SlotsMatchRuns'
  BY <1>1, <1>2 DEF SlotsMatchRuns
<1>3. ASSUME NEW r \in Runs, TakeSlot(r)
      PROVE  SlotsMatchRuns'
  <2>1. r \notin Holders /\ Holders' = Holders \cup {r}
    BY <1>3 DEF TakeSlot, Goto, HasSlot, TypeOK
  <2> HIDE DEF Holders
  <2>2. Cardinality(Holders') = Cardinality(Holders) + 1
    BY <1>1, <2>1, FS_AddElement
  <2>3. Cardinality(Holders') = pythonRuns'
    BY <1>1, <1>3, <2>2 DEF TakeSlot
  <2>4. QED
    BY <2>3 DEF SlotsMatchRuns, Holders
<1>4. ASSUME NEW r \in Runs, Answer(r)
      PROVE  SlotsMatchRuns'
  <2>1. CASE pc[r] = "refused"
    <3>1. Holders' = Holders /\ pythonRuns' = pythonRuns
      BY <1>4, <2>1 DEF Answer, Goto, HasSlot, TypeOK
    <3>2. QED
      BY <1>2, <3>1
  <2>2. CASE pc[r] = "answer"
    <3>1. r \in Holders /\ Holders' = Holders \ {r}
      BY <1>4, <2>2 DEF Answer, Goto, HasSlot, TypeOK
    <3> HIDE DEF Holders
    <3>2. Cardinality(Holders') = Cardinality(Holders) - 1
      BY <1>1, <3>1, FS_RemoveElement
    <3>3. Cardinality(Holders') = pythonRuns'
      BY <1>1, <1>4, <2>2, <3>2 DEF Answer
    <3>4. QED
      BY <3>3 DEF SlotsMatchRuns, Holders
  <2>3. QED
    BY <1>4, <2>1, <2>2 DEF Answer
<1>5. ASSUME NEW r \in Runs,
             \/ TooManyRuns(r) \/ CannotStart(r) \/ StartScript(r) \/ Waited(r)
             \/ ClosePipes(r) \/ BridgeDone(r)
      PROVE  SlotsMatchRuns'
  <2>1. Holders' = Holders /\ pythonRuns' = pythonRuns
    BY <1>5 DEF TooManyRuns, CannotStart, StartScript, Waited, ClosePipes,
                BridgeDone, Goto, HasSlot, TypeOK
  <2>2. QED
    BY <1>2, <2>1
<1>6. ASSUME UNCHANGED <<pc, pythonRuns>>
      PROVE  SlotsMatchRuns'
  BY <1>2, <1>6 DEF HasSlot
<1>7. ASSUME NEW r \in Runs,
             \/ Abort(r) \/ Stall(r) \/ Resume(r) \/ Kill(r) \/ WaitDelay(r)
             \/ BridgeStep(r) \/ GiveUp(r)
             \/ \E t \in Threads :
                    LockBridge(r, t) \/ WriteRequest(r, t) \/ ReadResponse(r, t)
             \/ \E how \in {"succeeded", "failed"} : ScriptEnds(r, how)
             \/ Fork(r) \/ BackgroundEnds(r) \/ Prints(r) \/ CopierStep(r)
      PROVE  UNCHANGED <<pc, pythonRuns>>
  BY <1>7 DEF Abort, Stall, Resume, Kill, WaitDelay, BridgeStep, Decode,
              DecodeFails, Acquired, NotAcquired, QueryEnds, Encode, EncodeFails,
              GiveUp, LockBridge, WriteRequest, ReadResponse, ScriptEnds, Fork,
              BackgroundEnds, Prints, CopierStep, Copy, Written, OutputEnds, server
<1>8. CASE UNCHANGED vars
  BY <1>6, <1>8 DEF vars, server
<1>9. QED
  BY <1>3, <1>4, <1>5, <1>6, <1>7, <1>8 DEF Next, ServerStep

\* Nothing is printed, and nobody is left to print, once the copier has come to
\* the end of the output; only Wait decides that a run has succeeded.
LEMMA StepCopied ==
    TypeOK /\ RunInv /\ [Next]_vars => (\A q \in Runs : Copied(q))'
<1> SUFFICES ASSUME TypeOK /\ RunInv, [Next]_vars
             PROVE  (\A q \in Runs : Copied(q))'
  OBVIOUS
<1> DEFINE Output(q) ==
               <<pc[q], status[q], script[q], background[q], copier[q],
                 printed[q], cut[q]>>
<1>1. ASSUME NEW q \in Runs, Output(q)' = Output(q)
      PROVE  Copied(q)'
  BY <1>1 DEF RunInv, Copied, Ended
<1>2. ASSUME NEW r \in Runs,
             \/ TakeSlot(r) \/ TooManyRuns(r) \/ ServerStep(r)
             \/ \E how \in {"succeeded", "failed"} : ScriptEnds(r, how)
             \/ Fork(r) \/ BackgroundEnds(r) \/ Prints(r) \/ CopierStep(r)
      PROVE  (\A q \in Runs : Copied(q))'
  <2> SUFFICES ASSUME NEW q \in Runs
               PROVE  Copied(q)'
    OBVIOUS
  <2>1. CASE q # r
    <3>1. Output(q)' = Output(q)
      BY <1>2, <2>1 DEF TypeOK, TakeSlot, TooManyRuns, ServerStep, CannotStart,
            StartScript, Kill, WaitDelay, Waited, ClosePipes, BridgeDone, Answer,
            ScriptEnds, Fork, BackgroundEnds, Prints, CopierStep, Copy, Written,
            OutputEnds, Goto, server, process
    <3>2. QED
      BY <1>1, <3>1
  <2>2. CASE q = r
    <3> USE <2>2, RunConstants DEF TypeOK, RunInv, Phase, Copied, Ended, Goto,
            server, process
    <3>1. CASE TakeSlot(r) \/ TooManyRuns(r) \/ CannotStart(r) \/ StartScript(r)
      BY <3>1 DEF TakeSlot, TooManyRuns, CannotStart, StartScript
    <3>2. CASE Kill(r) \/ WaitDelay(r) \/ Waited(r)
      BY <3>2 DEF Kill, WaitDelay, Waited
    <3>3. CASE ClosePipes(r) \/ BridgeDone(r)
      BY <3>3 DEF ClosePipes, BridgeDone
    <3>4. CASE \/ \E how \in {"succeeded", "failed"} : ScriptEnds(r, how)
               \/ Fork(r) \/ BackgroundEnds(r) \/ Prints(r)
      <4>1. UNCHANGED <<pc, status, copier, cut>>
        BY <3>4 DEF ScriptEnds, Fork, BackgroundEnds, Prints
      <4>2. copier[r] = "done" /\ ~cut[r] =>
                Ended(r)' /\ ~background'[r] /\ ~printed'[r]
        BY <3>4 DEF ScriptEnds, Fork, BackgroundEnds, Prints
      <4>3. QED
        BY <4>1, <4>2
    <3>5. CASE CopierStep(r)
      BY <3>5 DEF CopierStep, Copy, Written, OutputEnds
    <3>6. CASE Answer(r)
      <4>1. copier'[r] = "none" /\ status'[r] = None
        BY <3>6 DEF Answer
      <4>2. QED
        BY <4>1
    <3>7. QED
      BY <1>2, <3>1, <3>2, <3>3, <3>4, <3>5, <3>6 DEF ServerStep
  <2>3. QED
    BY <2>1, <2>2
<1>3. ASSUME UNCHANGED <<pc, status, process>>
      PROVE  (\A q \in Runs : Copied(q))'
  BY <1>1, <1>3 DEF process
<1>4. ASSUME NEW r \in Runs,
             \/ Abort(r) \/ Stall(r) \/ Resume(r) \/ BridgeStep(r) \/ GiveUp(r)
             \/ \E t \in Threads :
                    LockBridge(r, t) \/ WriteRequest(r, t) \/ ReadResponse(r, t)
      PROVE  UNCHANGED <<pc, status, process>>
  BY <1>4 DEF Abort, Stall, Resume, BridgeStep, Decode, DecodeFails, Acquired,
              NotAcquired, QueryEnds, Encode, EncodeFails, GiveUp, LockBridge,
              WriteRequest, ReadResponse, server
<1>5. CASE UNCHANGED vars
  BY <1>3, <1>5 DEF vars, server
<1>6. QED
  BY <1>2, <1>3, <1>4, <1>5 DEF Next

-----------------------------------------------------------------------------
(* The theorems *)

LEMMA InitIInv == Init => IInv
<1> SUFFICES ASSUME Init
             PROVE  IInv
  OBVIOUS
<1> USE RunConstants DEF Init
<1>1. TypeOK
  BY DEF TypeOK
<1>2. SlotsMatchRuns
  <2>1. {r \in Runs : HasSlot(r)} = {}
    BY DEF HasSlot
  <2>2. QED
    BY <2>1, FS_EmptySet DEF SlotsMatchRuns
<1>3. RunInv
  BY DEF RunInv, Phase, Locked, Copied, Empty, Ended
<1>4. QED
  BY <1>1, <1>2, <1>3 DEF IInv

LEMMA Invariance == Spec => []IInv
<1>1. IInv /\ [Next]_vars => IInv'
  BY StepTyped, StepSlots, StepPhase, StepLocked, StepCopied DEF IInv, RunInv
<1>2. QED
  BY InitIInv, <1>1, PTL DEF Spec

\* However runs end, server.pythonRuns holds one token for each run that has a
\* slot: no slot is lost, and none given back twice.
THEOREM SlotsAreExact == Spec => []SlotsMatchRuns
<1>1. IInv => SlotsMatchRuns
  BY DEF IInv
<1>2. QED
  BY <1>1, Invariance, PTL

\* At most MaxRuns scripts run at once, whatever is refused, killed or aborted.
THEOREM RunsAreBounded ==
    Spec => [](Cardinality({r \in Runs : script[r] = "running"}) <= MaxRuns)
<1>1. ASSUME IInv
      PROVE  Cardinality({r \in Runs : script[r] = "running"}) <= MaxRuns
  <2> DEFINE Running == {r \in Runs : script[r] = "running"}
             Holders == {r \in Runs : HasSlot(r)}
  <2>1. Running \subseteq Holders
    BY <1>1 DEF IInv, TypeOK, RunInv, Phase, Ended, HasSlot
  <2>2. IsFiniteSet(Holders)
    BY RunConstants, FS_Subset
  <2>3. Cardinality(Holders) \in 0..MaxRuns
    BY <1>1 DEF IInv, TypeOK, SlotsMatchRuns
  <2> HIDE DEF Running, Holders
  <2>4. Cardinality(Running) \in Nat /\ Cardinality(Running) <= Cardinality(Holders)
    BY <2>1, <2>2, FS_Subset, FS_CardinalityType
  <2>5. QED
    BY <2>3, <2>4, RunConstants DEF Running
<1>2. QED
  BY <1>1, Invariance, PTL

\* When the response is complete, the script is dead, its output is copied, the
\* pipes are closed and the bridge has let its pooled client go.
THEOREM NothingIsLeft == Spec => []NothingOutlivesRun
<1>1. IInv => NothingOutlivesRun
  BY DEF IInv, TypeOK, RunInv, Phase, Ended, NothingOutlivesRun
<1>2. QED
  BY <1>1, Invariance, PTL

\* A run that succeeds has copied everything that was printed, and nobody can
\* print any more.
THEOREM SuccessHasAllOutput == Spec => []SuccessIsComplete
<1>1. IInv => SuccessIsComplete
  BY DEF IInv, RunInv, Copied, SuccessIsComplete
<1>2. QED
  BY <1>1, Invariance, PTL

\* A thread reads the answer to its own request.
THEOREM AnswersAreOwn == Spec => []AnswersMatch
<1>1. ASSUME IInv
      PROVE  AnswersMatch
  <2> SUFFICES ASSUME NEW r \in Runs
               PROVE  /\ Len(requests[r]) + Len(responses[r])
                             + (IF serving[r] = None THEN 0 ELSE 1) <= 1
                      /\ \A t \in Threads :
                             thread[r][t] = "read" /\ responses[r] # <<>> =>
                                 Head(responses[r]) = t
    BY DEF AnswersMatch
  <2>1. CASE Empty(r)
    BY <2>1 DEF Empty
  <2>2. CASE lock[r] \in Threads /\ Carried(r)
    <3>1. \A t \in Threads : thread[r][t] = "read" => t = lock[r]
      BY <1>1 DEF IInv, RunInv, Locked
    <3>2. Len(<<lock[r]>>) = 1 /\ Head(<<lock[r]>>) = lock[r] /\ Len(<<>>) = 0
      OBVIOUS
    <3>3. CASE /\ requests[r] = <<lock[r]>> /\ responses[r] = <<>>
               /\ serving[r] = None
      BY <3>2, <3>3
    <3>4. CASE /\ requests[r] = <<>> /\ responses[r] = <<lock[r]>>
               /\ serving[r] = None
      BY <3>1, <3>2, <3>4
    <3>5. CASE /\ requests[r] = <<>> /\ responses[r] = <<>>
               /\ serving[r] = lock[r]
      BY <3>2, <3>5
    <3>6. QED
      BY <2>2, <3>3, <3>4, <3>5 DEF Carried
  <2>3. QED
    BY <1>1, <2>1, <2>2 DEF IInv, RunInv, Locked
<1>2. QED
  BY <1>1, Invariance, PTL
=============================================================================
