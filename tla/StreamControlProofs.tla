------------------------ MODULE StreamControlProofs ------------------------
(***************************************************************************)
(* Proofs about StreamControl, for any registration modes, togglable       *)
(* streams and bounds.  The properties are those the run stream_control    *)
(* checks.                                                                 *)
(***************************************************************************)
EXTENDS StreamControl, TLAPS

StartPCs == {"start", "create", "attempt", "retry", "thread", "finish"}

\* What a step may be, by the part of the code it belongs to.
Serve    == ServeStart \/ ServeLocked \/ ServeProfile \/ ServeToggled
Launch   == StartReset \/ StartCreate \/ StartAttempt \/ StartRetry \/ StartThread
              \/ StartFinish
Halt(t)  == StopStreams(t) \/ StopPipeline(t)
Join(t)  == StopColor(t) \/ JoinColor(t)
Handler  == SetupBuffers \/ ApplyMode \/ Rollback \/ ToggleHalt \/ ToggleProfiles
Diag     == DiagCheck \/ DiagTryLock \/ DiagAnnounce \/ DiagUpdate
Teardown == CleanBegin \/ CleanWait \/ CleanUpdater \/ CleanLock \/ CleanFree

LEMMA Steps ==
    ASSUME Next
    PROVE  \/ Serve \/ TakeLock \/ Answer \/ Launch
           \/ (\E t \in Callers : Halt(t) \/ Join(t)) \/ Handler \/ Diag
           \/ Teardown \/ Frame \/ Color
BY DEF Next, Exec, Clean, Serve, Launch, Halt, Join, Handler, Diag, Teardown, Callers

-----------------------------------------------------------------------------
(* Where the threads are, and for which request *)

PcOK ==
    /\ pc \in [Callers -> ExecPCs \cup CleanPCs]
    /\ pc["exec"] \in ExecPCs /\ pc["clean"] \in CleanPCs

LEMMA PcStep ==
    ASSUME PcOK, [Next]_vars
    PROVE  PcOK'
<1> USE DEF PcOK, Callers, ExecPCs, CleanPCs, At, Goto
<1>1. CASE Serve
  BY <1>1 DEF Serve, ServeStart, ServeLocked, ServeProfile, ServeToggled, Accept, Reply
<1>2. CASE TakeLock \/ Answer
  BY <1>2 DEF TakeLock, Answer, Reply
<1>3. CASE Launch
  <2>1. CASE StartReset \/ StartThread \/ StartFinish
    BY <2>1 DEF StartReset, StartThread, StartFinish, Starting, StartThrows, StartReturns,
       Reply
  <2>2. CASE StartCreate \/ StartRetry
    BY <2>2 DEF StartCreate, StartRetry, Starting, StartThrows, Reply
  <2>3. CASE StartAttempt
    BY <2>3 DEF StartAttempt, Starting, StartThrows, Reply
  <2> QED
    BY <1>3, <2>1, <2>2, <2>3 DEF Launch
<1>4. ASSUME NEW t \in Callers, Halt(t) \/ Join(t) PROVE PcOK'
  BY <1>4 DEF Halt, Join, StopStreams, StopPipeline, StopColor, JoinColor, AfterStop,
     AfterJoin, Reply
<1>5. CASE Handler
  BY <1>5 DEF Handler, SetupBuffers, ApplyMode, Rollback, ToggleHalt, ToggleProfiles, Reply
<1>6. CASE Diag
  BY <1>6 DEF Diag, DiagCheck, DiagTryLock, DiagAnnounce, DiagUpdate, Accept
<1>7. CASE Teardown
  BY <1>7 DEF Teardown, CleanBegin, CleanWait, CleanUpdater, CleanLock, CleanFree
<1>8. CASE Frame \/ Color
  BY <1>8 DEF Frame, FrameArrive, FramePush, Color, ColorCheck, ColorTake, ColorSleep,
     ColorSpurious, ColorDone, ColorKeeps
<1>9. CASE UNCHANGED vars
  BY <1>9 DEF vars
<1> QED
  BY <1>1, <1>2, <1>3, <1>4, <1>5, <1>6, <1>7, <1>8, <1>9, Steps

\* The request that exec serves fits where it is: each handler calls the
\* functions it does and no others.
JobInv ==
    /\ pc["exec"] = "idle" => job = Idle
    /\ pc["exec"] # "idle" => job \in Jobs \ {Idle}
    /\ pc["exec"] = "lock" => job.kind \in {"stop", "register", "profile", "toggle"}
    /\ pc["exec"] \in StartPCs
         => job.kind \in {"start", "profile", "register", "rollback", "toggle"}
    /\ pc["exec"] \in {"stop", "stopping"} => job.kind \in {"stop", "register", "profile"}
    /\ pc["exec"] \in {"join", "joining", "setup"} => job.kind = "profile"
    /\ pc["exec"] \in {"apply", "rollback"} => job.kind = "register"
    /\ pc["exec"] \in {"halt", "toggle"} => job.kind = "toggle"
    /\ pc["exec"] \in {"tryLock", "announce", "update"} => job.kind = "diag"
    /\ pc["exec"] = "answer" => job.kind # "diag"

\* exec is not disturbed by a step of the others
ExecStays == pc'["exec"] = pc["exec"] /\ UNCHANGED <<job, was>>

LEMMA KindArg ==
    ASSUME NEW j \in Jobs
    PROVE  /\ j.kind \in {"register", "rollback"}
                => j.arg \in Modes /\ [j EXCEPT !.kind = "rollback"] \in Jobs \ {Idle}
                   /\ [j EXCEPT !.kind = "rollback"].kind = "rollback"
                   /\ [j EXCEPT !.kind = "rollback"].arg = j.arg
           /\ j.kind = "toggle" => j.arg \in Togglable
           /\ j.kind # "none" <=> j # Idle
BY DEF Jobs, Idle

\* What startStreams may do to the rest, wherever it is.
LEMMA LaunchMoves ==
    ASSUME PcOK, Launch
    PROVE  /\ pc["exec"] \in StartPCs /\ pc'["clean"] = pc["clean"]
           /\ pc'["exec"] \in (StartPCs \ {"start"}) \cup {"answer", "rollback"}
           /\ pc'["exec"] = "rollback" => job.kind = "register"
           /\ ~crashed /\ (late \/ (lock # "exec" /\ pc["clean"] # "idle") => late')
           /\ UNCHANGED <<lock, running, mode, buffer, stop, queue, frame, updater,
                          diagRunning, job, was, requests, frames>>
<1> USE DEF PcOK, Callers, At, Goto, Starting, StartPCs
<1>1. UNCHANGED <<lock, running, mode, buffer, stop, queue, frame, updater,
                  diagRunning, job, was, requests, frames>>
  BY DEF Launch, StartReset, StartCreate, StartAttempt, StartRetry, StartThread,
     StartFinish, StartKeeps, diagVars
<1>0. /\ ~crashed /\ (late \/ (lock # "exec" /\ pc["clean"] # "idle") => late')
  BY Zenon DEF Launch, StartReset, StartCreate, StartAttempt, StartRetry, StartThread,
     StartFinish
<1>2. CASE StartReset \/ StartThread
  BY <1>0, <1>1, <1>2 DEF StartReset, StartThread
<1>3. ASSUME StartThrows, pc["exec"] \in StartPCs
      PROVE  /\ pc'["exec"] \in {"answer", "rollback"} /\ pc'["clean"] = pc["clean"]
             /\ pc'["exec"] = "rollback" => job.kind = "register"
  BY <1>3 DEF StartThrows, Reply
<1>4. CASE StartCreate
  BY <1>0, <1>1, <1>3, <1>4 DEF StartCreate
<1>5. CASE StartAttempt
  BY <1>0, <1>1, <1>3, <1>5 DEF StartAttempt
<1>6. CASE StartRetry
  BY <1>0, <1>1, <1>3, <1>6 DEF StartRetry
<1>7. CASE StartFinish
  BY <1>0, <1>1, <1>3, <1>7 DEF StartFinish, StartReturns, Reply
<1> QED
  BY <1>0, <1>2, <1>4, <1>5, <1>6, <1>7 DEF Launch

LEMMA RollbackJob ==
    ASSUME JobInv, Rollback
    PROVE  job' \in Jobs \ {Idle} /\ job'.kind = "rollback" /\ job'.arg = job.arg
BY KindArg DEF JobInv, Rollback, At

LEMMA JobStep ==
    ASSUME PcOK, JobInv, [Next]_vars
    PROVE  JobInv'
<1> USE DEF PcOK, JobInv, Callers, ExecPCs, CleanPCs, StartPCs, At, Goto
<1>1. CASE Serve
  <2> DEFINE Known(j) == j \in Jobs \ {Idle} /\ j.kind # "diag"
  <2>a. /\ Known([kind |-> "start", arg |-> "none"])
        /\ Known([kind |-> "stop", arg |-> "none"])
        /\ Known([kind |-> "profile", arg |-> "none"])
        /\ \A m \in Modes : Known([kind |-> "register", arg |-> m])
        /\ \A r \in Togglable : Known([kind |-> "toggle", arg |-> r])
    BY DEF Jobs, Idle
  <2> HIDE DEF Known
  <2>b. Known(job')
    BY <1>1, <2>a DEF Serve, ServeStart, ServeLocked, ServeProfile, ServeToggled, Accept
  <2>1. job' \in Jobs \ {Idle} /\ job'.kind # "diag"
    BY <2>b DEF Known
  <2>2. CASE ServeStart \/ ServeLocked
    BY <2>1, <2>2 DEF ServeStart, ServeLocked, Accept
  <2>3. CASE ServeProfile
    <3>1. pc'["exec"] \in {"lock", "answer"} /\ job'.kind = "profile"
      BY <2>3 DEF ServeProfile, Accept, Reply
    <3> QED
      BY <2>1, <3>1
  <2>4. CASE ServeToggled
    <3>1. pc'["exec"] = "answer"
      BY <2>4 DEF ServeToggled, Reply
    <3> QED
      BY <2>1, <3>1
  <2> QED
    BY <1>1, <2>2, <2>3, <2>4 DEF Serve
<1>2. CASE TakeLock
  BY <1>2 DEF TakeLock, Reply
<1>3. CASE Answer
  BY <1>3 DEF Answer
<1>4. CASE Launch
  BY <1>4, LaunchMoves
<1>5. ASSUME NEW t \in Callers, Halt(t) \/ Join(t) PROVE JobInv'
  BY <1>5 DEF Halt, Join, StopStreams, StopPipeline, StopColor, JoinColor, AfterStop,
     AfterJoin, Reply, jobVars
<1>6. CASE Handler
  <2>1. CASE Rollback
    BY <2>1, RollbackJob DEF Rollback, Reply
  <2>2. CASE SetupBuffers \/ ApplyMode
    BY <2>2 DEF SetupBuffers, ApplyMode, Reply
  <2>3. CASE ToggleHalt \/ ToggleProfiles
    BY <2>3 DEF ToggleHalt, ToggleProfiles, Reply
  <2> QED
    BY <1>6, <2>1, <2>2, <2>3 DEF Handler
<1>7. CASE Diag
  BY <1>7 DEF Diag, DiagCheck, DiagTryLock, DiagAnnounce, DiagUpdate, Accept, jobVars,
     Jobs, Idle
<1>8. CASE Teardown
  BY <1>8 DEF Teardown, CleanBegin, CleanWait, CleanUpdater, CleanLock, CleanFree, jobVars
<1>9. CASE Frame \/ Color
  BY <1>9 DEF Frame, FrameArrive, FramePush, Color, ColorCheck, ColorTake, ColorSleep,
     ColorSpurious, ColorDone, ColorKeeps, jobVars
<1>10. CASE UNCHANGED vars
  BY <1>10 DEF vars, jobVars
<1> QED
  BY <1>1, <1>2, <1>3, <1>4, <1>5, <1>6, <1>7, <1>8, <1>9, <1>10, Steps

-----------------------------------------------------------------------------
(* The invariants *)

\* Who holds device_lock_ (the mutex itself, and which handlers lock it).
LockInv ==
    /\ pc["exec"] \in {"stop", "stopping", "join", "joining", "setup", "apply", "rollback",
                       "halt", "toggle", "announce", "update"} => lock = "exec"
    /\ pc["exec"] \in StartPCs /\ job.kind # "start" => lock = "exec"
    /\ pc["exec"] = "answer" /\ job.kind \in {"register", "rollback"} => lock = "exec"
    /\ pc["exec"] \in {"idle", "lock", "tryLock"} => lock # "exec"
    /\ pc["exec"] # "idle" /\ job.kind = "start" => lock # "exec"
    /\ lock = "clean" <=> pc["clean"] \in {"join", "joining", "stop", "stopping", "free"}

\* A color thread works on a frame that is in the queue.
CountInv ==
    /\ {queue, requests, frames, faults} \subseteq Nat
    /\ color = "busy" => queue > 0

\* The color thread, its handle and its buffer, in the face of clean().
ColorInv ==
    /\ running <=> pc["clean"] = "idle"
    /\ handle <=> color # "none"
    /\ color = "busy" => pc["clean"] \notin {"stop", "stopping", "free", "done"}
    /\ buffer = "null" => pc["clean"] = "done"
    /\ pc["clean"] \in {"stop", "stopping", "free"} => late \/ ~handle

\* What is left of the pipeline where it is used.
PipeInv ==
    /\ pc["exec"] = "create" => pipe = "none"
    /\ pipe = "none" => pc["exec"] = "create" \/ faults > 0
    /\ pc["exec"] = "stopping" => pipe # "none"
    /\ pc["clean"] = "stopping" => pipe # "none" \/ late
    /\ OnlyKnownRaces

\* A pipeline runs under a lowered pipeline_started_ only for a moment, or
\* after an SDK call has thrown.
FrameInv ==
    /\ frame # "idle" => pipe = "running" \/ faults > 0
    /\ pipe = "running" /\ ~started
         => \/ faults > 0 \/ pc["clean"] = "stopping"
            \/ pc["exec"] \in {"thread", "finish", "stopping"}
    /\ pc["exec"] = "apply" => pipe # "running" \/ faults > 0
    /\ pc["exec"] = "rollback" => faults > 0

\* A registration request from its first change of the streams to its answer.
RegInv ==
    /\ pc["exec"] \in StartPCs /\ job.kind = "rollback" => mode = was.mode
    /\ pc["exec"] \in StartPCs /\ job.kind = "register" => mode = job.arg /\ was.started
    /\ pc["exec"] \in {"stop", "stopping", "apply"} /\ started => was.started
    /\ RegistrationIsAtomic

\* While the node is not torn down, only the executor ends the color thread.
ServedInv ==
    /\ stop => pc["exec"] = "joining" \/ pc["clean"] = "joining"
    /\ color = "done" => ~running \/ stop
    /\ running /\ "color" \in enabled /\ ~handle /\ started /\ pipe = "running"
         => pc["exec"] = "thread"
    /\ running /\ "color" \in enabled /\ pc["exec"] = "finish" => handle
    /\ running /\ pc["exec"] = "toggle" => pipe # "running"
    /\ running /\ pc["exec"] \in {"join", "joining", "setup"} => ~started \/ pipe = "none"
    /\ running /\ pc["exec"] = "stopping" => ~started

\* pipeline_started_ beside the pipeline, for a handler that began honestly.
HonestInv ==
    /\ pc["exec"] = "stopping" => ~started
    /\ pc["clean"] = "stopping" => ~started \/ late
    /\ pc["exec"] = "stop" /\ was.honest => Honest
    /\ pc["exec"] \in StartPCs \cup {"join", "joining", "setup", "apply", "rollback"}
         /\ job.kind \notin {"start", "toggle"} /\ was.honest => ~started
    /\ pc["exec"] \in {"thread", "finish"}
         => pipe = "running" \/ (lock # "exec" /\ pc["clean"] # "idle")
    /\ StartedIsHonest

LEMMA LockStep ==
    ASSUME PcOK, JobInv, LockInv, [Next]_vars
    PROVE  LockInv'
<1> USE DEF PcOK, Callers, ExecPCs, CleanPCs, StartPCs, At, Goto, JobInv, LockInv, vars,
   streamVars, colorVars, diagVars, jobVars, bounds
<1>1. CASE Serve
  BY <1>1 DEF Serve, ServeStart, ServeLocked, ServeProfile, ServeToggled, Accept, Reply,
     Unmoved
<1>2. CASE TakeLock
  BY <1>2 DEF TakeLock, LockFree, Reply
<1>3. CASE Answer
  BY <1>3 DEF Answer
<1>4. CASE Launch
  BY <1>4, LaunchMoves
<1>5. CASE \E t \in Callers : Halt(t)
  BY <1>5 DEF Halt, StopStreams, StopPipeline, AfterStop, Reply
<1>6. CASE \E t \in Callers : Join(t)
  BY <1>6 DEF Join, StopColor, JoinColor, AfterJoin, Notified, Sleeping, Exited
<1>7. CASE Handler
  <2>1. CASE Rollback
    BY <2>1, RollbackJob DEF Rollback, Reply
  <2>2. CASE SetupBuffers \/ ApplyMode
    BY <2>2 DEF SetupBuffers, ApplyMode, Reply
  <2>3. CASE ToggleHalt \/ ToggleProfiles
    BY <2>3 DEF ToggleHalt, ToggleProfiles, Reply
  <2> QED
    BY <1>7, <2>1, <2>2, <2>3 DEF Handler
<1>8. CASE Diag
  BY <1>8 DEF Diag, DiagCheck, DiagTryLock, DiagAnnounce, DiagUpdate, Accept, LockFree, Unmoved
<1>9. CASE Teardown
  BY <1>9 DEF Teardown, CleanBegin, CleanWait, CleanUpdater, CleanLock, CleanFree, LockFree
<1>10. CASE Frame
  BY <1>10 DEF Frame, FrameArrive, FramePush, QueueFree, Notified
<1>11. CASE Color
  BY <1>11 DEF Color, ColorCheck, ColorTake, ColorSleep, ColorSpurious, ColorDone, ColorKeeps
<1>12. CASE UNCHANGED vars
  BY <1>12
<1> QED
  BY <1>1, <1>2, <1>3, <1>4, <1>5, <1>6, <1>7, <1>8, <1>9, <1>10, <1>11, <1>12, Steps

\* The types, part by part: the Booleans, the values, what a handler saved.
BoolInv ==
    /\ running \in BOOLEAN /\ started \in BOOLEAN /\ interleave \in BOOLEAN
    /\ handle \in BOOLEAN /\ stop \in BOOLEAN
    /\ updater \in BOOLEAN /\ diagRunning \in BOOLEAN
    /\ late \in BOOLEAN /\ crashed \in BOOLEAN
ValueInv ==
    /\ lock \in Callers \cup {"none"} /\ enabled \subseteq Streams /\ mode \in Modes
    /\ pipe \in {"none", "idle", "running"} /\ buffer \in {"null", "sized", "skipped"}
    /\ color \in {"check", "lock"} \cup Sleeping \cup InQueueLock \cup Exited
    /\ frame \in {"idle", "in"} /\ answer \in {"none", "ok", "failed"}
WasInv == was \in [started : BOOLEAN, mode : Modes, interleave : BOOLEAN,
                   enabled : SUBSET Streams, honest : BOOLEAN]

LEMMA BoolStep ==
    ASSUME BoolInv, WasInv, [Next]_vars
    PROVE  BoolInv'
<1> USE DEF BoolInv, vars, streamVars, colorVars, diagVars, jobVars, bounds
<1>1. CASE Serve
  BY <1>1, Zenon DEF Serve, ServeStart, ServeLocked, ServeProfile, ServeToggled, Accept,
     Reply, Unmoved
<1>2. CASE TakeLock
  BY <1>2, Zenon DEF TakeLock, LockFree, Reply
<1>3. CASE Answer
  BY <1>3, Zenon DEF Answer
<1>4. CASE Launch
  <2>1. UNCHANGED <<running, stop, updater, diagRunning>>
    BY <1>4, Zenon DEF Launch, StartReset, StartCreate, StartAttempt, StartRetry,
       StartThread, StartFinish, StartKeeps
  <2>2. late' \in BOOLEAN
    <3>1. (late \/ (lock # "exec" /\ pc["clean"] # "idle")) \in BOOLEAN
      OBVIOUS
    <3> QED
      BY <1>4, <3>1, Zenon DEF Launch, StartReset, StartCreate, StartAttempt, StartRetry,
         StartThread, StartFinish, Starting
  <2>3. crashed' \in BOOLEAN
    <3>1. (pc["clean"] = "stopping") \in BOOLEAN
      OBVIOUS
    <3> QED
      BY <1>4, <3>1, Zenon DEF Launch, StartReset, StartCreate, StartAttempt, StartRetry,
         StartThread, StartFinish
  <2>4. started' \in BOOLEAN /\ interleave' \in BOOLEAN
    BY <1>4, Zenon DEF Launch, StartReset, StartCreate, StartAttempt, StartRetry,
       StartThread, StartFinish
  <2>5. handle' \in BOOLEAN
    BY <1>4, Zenon DEF Launch, StartReset, StartCreate, StartAttempt, StartRetry,
       StartThread, StartFinish
  <2> QED
    BY <2>1, <2>2, <2>3, <2>4, <2>5, Zenon
<1>5. CASE \E t \in Callers : Halt(t)
  <2>1. PICK t \in Callers : Halt(t)
    BY <1>5
  <2>2. (t = "exec" /\ job.kind = "profile" /\ was.interleave) \in BOOLEAN
    OBVIOUS
  <2>3. interleave' \in BOOLEAN /\ started' \in BOOLEAN
    BY <2>1, <2>2, Zenon DEF Halt, StopStreams, StopPipeline, InterleaveAfter
  <2>4. crashed' \in BOOLEAN
    BY <2>1, Zenon DEF Halt, StopStreams, StopPipeline
  <2> QED
    BY <2>1, <2>3, <2>4, Zenon DEF Halt, StopStreams, StopPipeline
<1>6. CASE \E t \in Callers : Join(t)
  BY <1>6, Zenon DEF Join, StopColor, JoinColor, AfterJoin, Notified, Sleeping, Exited
<1>7. CASE Handler
  <2>1. CASE SetupBuffers \/ ApplyMode
    BY <2>1, Zenon DEF SetupBuffers, ApplyMode
  <2>2. CASE Rollback
    BY <2>2, Zenon DEF Rollback
  <2>3. CASE ToggleHalt
    BY <2>3, Zenon DEF ToggleHalt
  <2>4. CASE ToggleProfiles
    BY <2>4, Zenon DEF ToggleProfiles
  <2> QED
    BY <1>7, <2>1, <2>2, <2>3, <2>4 DEF Handler
<1>8. CASE Diag
  BY <1>8, Zenon DEF Diag, DiagCheck, DiagTryLock, DiagAnnounce, DiagUpdate, Accept,
     LockFree, Unmoved
<1>9. CASE Teardown
  BY <1>9, Zenon DEF Teardown, CleanBegin, CleanWait, CleanUpdater, CleanLock,
     CleanFree, LockFree
<1>10. CASE Frame
  BY <1>10, Zenon DEF Frame, FrameArrive, FramePush, QueueFree, Notified
<1>11. CASE Color
  BY <1>11, Zenon DEF Color, ColorCheck, ColorTake, ColorSleep, ColorSpurious,
     ColorDone, ColorKeeps
<1>12. CASE UNCHANGED vars
  BY <1>12, Zenon
<1> QED
  BY <1>1, <1>2, <1>3, <1>4, <1>5, <1>6, <1>7, <1>8, <1>9, <1>10, <1>11, <1>12, Steps

LEMMA ValueStep ==
    ASSUME ValueInv, WasInv, JobInv, [Next]_vars
    PROVE  ValueInv'
<1> USE DEF ValueInv, Allocated, Callers, Sleeping, InQueueLock, Exited, vars,
   streamVars, colorVars, diagVars, jobVars, bounds
<1>1. CASE Serve
  BY <1>1 DEF Serve, ServeStart, ServeLocked, ServeProfile, ServeToggled, Accept, Reply,
     Unmoved
<1>2. CASE TakeLock
  BY <1>2 DEF TakeLock, LockFree, Reply
<1>3. CASE Answer
  BY <1>3 DEF Answer
<1>4. CASE Launch
  BY <1>4 DEF Launch, StartReset, StartCreate, StartAttempt, StartRetry, StartThread,
     StartFinish, Starting, StartThrows, StartReturns, Reply, StartKeeps, Works, Throws
<1>5. CASE \E t \in Callers : Halt(t)
  BY <1>5 DEF Halt, StopStreams, StopPipeline, AfterStop, Reply, Works, Throws
<1>6. CASE \E t \in Callers : Join(t)
  BY <1>6 DEF Join, StopColor, JoinColor, AfterJoin, Notified, Sleeping, Exited
<1>7. CASE Handler
  <2>1. CASE SetupBuffers
    BY <2>1 DEF SetupBuffers, Reply
  <2>2. CASE ApplyMode
    <3>1. job.arg \in Modes
      BY <2>2, KindArg DEF ApplyMode, At, JobInv
    <3> QED
      BY <2>2, <3>1 DEF ApplyMode, Reply
  <2>3. CASE Rollback
    <3>1. was.mode \in Modes
      BY DEF WasInv
    <3> QED
      BY <2>3, <3>1 DEF Rollback, Reply
  <2>4. CASE ToggleHalt
    BY <2>4 DEF ToggleHalt, Reply
  <2>5. CASE ToggleProfiles
    <3>1. job.arg \in Streams
      BY <2>5, KindArg, TogglableAssumption DEF ToggleProfiles, At, JobInv
    <3> QED
      BY <2>5, <3>1 DEF ToggleProfiles, Reply
  <2> QED
    BY <1>7, <2>1, <2>2, <2>3, <2>4, <2>5 DEF Handler
<1>8. CASE Diag
  BY <1>8 DEF Diag, DiagCheck, DiagTryLock, DiagAnnounce, DiagUpdate, Accept, LockFree,
     Unmoved
<1>9. CASE Teardown
  BY <1>9 DEF Teardown, CleanBegin, CleanWait, CleanUpdater, CleanLock, CleanFree, LockFree
<1>10. CASE Frame
  BY <1>10 DEF Frame, FrameArrive, FramePush, QueueFree, Notified
<1>11. CASE Color
  BY <1>11 DEF Color, ColorCheck, ColorTake, ColorSleep, ColorSpurious, ColorDone,
     ColorKeeps
<1>12. CASE UNCHANGED vars
  BY <1>12
<1> QED
  BY <1>1, <1>2, <1>3, <1>4, <1>5, <1>6, <1>7, <1>8, <1>9, <1>10, <1>11, <1>12, Steps

LEMMA NowTyped ==
    ASSUME ValueInv, BoolInv
    PROVE  Now \in [started : BOOLEAN, mode : Modes, interleave : BOOLEAN,
                    enabled : SUBSET Streams, honest : BOOLEAN]
<1>1. Honest \in BOOLEAN
  BY DEF Honest
<1> QED
  BY <1>1 DEF Now, ValueInv, BoolInv

LEMMA WasStep ==
    ASSUME ValueInv, BoolInv, WasInv, [Next]_vars
    PROVE  WasInv'
<1> USE DEF WasInv, vars, streamVars, colorVars, diagVars, jobVars, bounds
<1>1. CASE Serve
  BY <1>1, NowTyped DEF Serve, ServeStart, ServeLocked, ServeProfile, ServeToggled,
     Accept, Reply, Unmoved
<1>2. CASE TakeLock
  BY <1>2, NowTyped DEF TakeLock, LockFree, Reply
<1>3. CASE Answer
  BY <1>3, NowTyped DEF Answer
<1>4. CASE Launch
  BY <1>4, NowTyped DEF Launch, StartReset, StartCreate, StartAttempt, StartRetry,
     StartThread, StartFinish, Starting, StartThrows, StartReturns, Reply, StartKeeps,
     Works, Throws
<1>5. CASE \E t \in Callers : Halt(t)
  BY <1>5, NowTyped DEF Halt, StopStreams, StopPipeline, AfterStop, Reply, Works, Throws
<1>6. CASE \E t \in Callers : Join(t)
  BY <1>6, NowTyped DEF Join, StopColor, JoinColor, AfterJoin, Notified, Sleeping,
     Exited
<1>7. CASE Handler
  BY <1>7, NowTyped DEF Handler, SetupBuffers, ApplyMode, Rollback, ToggleHalt,
     ToggleProfiles, Reply, Works, Throws
<1>8. CASE Diag
  BY <1>8, NowTyped DEF Diag, DiagCheck, DiagTryLock, DiagAnnounce, DiagUpdate, Accept,
     LockFree, Unmoved
<1>9. CASE Teardown
  BY <1>9, NowTyped DEF Teardown, CleanBegin, CleanWait, CleanUpdater, CleanLock,
     CleanFree,
     LockFree
<1>10. CASE Frame
  BY <1>10, NowTyped DEF Frame, FrameArrive, FramePush, QueueFree, Notified
<1>11. CASE Color
  BY <1>11, NowTyped DEF Color, ColorCheck, ColorTake, ColorSleep, ColorSpurious,
     ColorDone, ColorKeeps
<1>12. CASE UNCHANGED vars
  BY <1>12, NowTyped
<1> QED
  BY <1>1, <1>2, <1>3, <1>4, <1>5, <1>6, <1>7, <1>8, <1>9, <1>10, <1>11, <1>12, Steps

LEMMA CountStep ==
    ASSUME CountInv, [Next]_vars
    PROVE  CountInv'
<1> USE DEF CountInv, InQueueLock, vars, streamVars, colorVars, diagVars, jobVars,
   bounds
<1>1. CASE Serve
  BY <1>1 DEF Serve, ServeStart, ServeLocked, ServeProfile,
     ServeToggled, Accept, Reply, Unmoved
<1>2. CASE TakeLock
  BY <1>2 DEF TakeLock, LockFree, Reply
<1>3. CASE Answer
  BY <1>3 DEF Answer
<1>4. CASE Launch
  <2>1. faults' \in Nat
    <3>1. Works \/ Throws
      BY <1>4, Zenon DEF Launch, StartReset, StartCreate, StartAttempt, StartRetry,
         StartThread, StartFinish
    <3> QED
      BY <3>1 DEF Works, Throws
  <2>2. color' = "busy" => color = "busy"
    BY <1>4 DEF Launch, StartReset, StartCreate, StartAttempt, StartRetry, StartThread,
       StartFinish
  <2>3. UNCHANGED <<queue, requests, frames>>
    BY <1>4, Zenon DEF Launch, StartReset, StartCreate, StartAttempt, StartRetry,
       StartThread, StartFinish, StartKeeps
  <2> QED
    BY <2>1, <2>2, <2>3
<1>5. CASE \E t \in Callers : Halt(t)
  BY <1>5 DEF Halt, StopStreams, StopPipeline, AfterStop, Reply,
     Works, Throws
<1>6. CASE \E t \in Callers : Join(t)
  BY <1>6 DEF Join, StopColor, JoinColor, AfterJoin, Notified,
     Sleeping, Exited
<1>7. CASE Handler
  <2>1. CASE SetupBuffers \/ ApplyMode
    BY <2>1 DEF SetupBuffers, QueueFree, ApplyMode, Works, Throws
  <2>2. CASE Rollback
    BY <2>2 DEF Rollback, Works, Throws
  <2>3. CASE ToggleHalt \/ ToggleProfiles
    BY <2>3 DEF ToggleHalt, ToggleProfiles, Works, Throws
  <2> QED
    BY <1>7, <2>1, <2>2, <2>3 DEF Handler
<1>8. CASE Diag
  BY <1>8 DEF Diag, DiagCheck, DiagTryLock, DiagAnnounce, DiagUpdate,
     Accept, LockFree, Unmoved
<1>9. CASE Teardown
  BY <1>9 DEF Teardown, CleanBegin, CleanWait, CleanUpdater, CleanLock,
     CleanFree, LockFree
<1>10. CASE Frame
  BY <1>10 DEF Frame, FrameArrive, FramePush, QueueFree, Notified
<1>11. CASE Color
  BY <1>11 DEF Color, ColorCheck, ColorTake, ColorSleep,
     ColorSpurious, ColorDone, ColorKeeps
<1>12. CASE UNCHANGED vars
  BY <1>12
<1> QED
  BY <1>1, <1>2, <1>3, <1>4, <1>5, <1>6, <1>7, <1>8, <1>9, <1>10, <1>11, <1>12, Steps

LEMMA ColorStep ==
    ASSUME PcOK, JobInv, LockInv, BoolInv, ColorInv, [Next]_vars
    PROVE  ColorInv'
<1> USE DEF PcOK, Callers, StartPCs, At, Goto, LockInv, ColorInv, BoolInv, vars,
   streamVars, colorVars, diagVars, jobVars, bounds
<1>1. CASE Serve
  BY <1>1 DEF Serve, ServeStart, ServeLocked, ServeProfile, ServeToggled, Accept, Reply,
     Unmoved
<1>2. CASE TakeLock
  BY <1>2 DEF TakeLock, LockFree, Reply
<1>3. CASE Answer
  BY <1>3 DEF Answer
<1>4. CASE Launch
  <2>1. CASE StartReset
    BY <1>4, <2>1, LaunchMoves DEF StartReset, Starting
  <2>2. CASE StartCreate
    BY <1>4, <2>2, LaunchMoves DEF StartCreate, Starting, StartThrows, Reply, Works,
       Throws
  <2>3. CASE StartAttempt
    BY <1>4, <2>3, LaunchMoves DEF StartAttempt, Starting, StartThrows, Reply, Works,
       Throws
  <2>4. CASE StartRetry
    BY <1>4, <2>4, LaunchMoves DEF StartRetry, Starting, StartThrows, Reply, Works,
       Throws
  <2>5. CASE StartThread
    BY <1>4, <2>5, LaunchMoves DEF StartThread, Starting, Works
  <2>6. CASE StartFinish
    BY <1>4, <2>6, LaunchMoves DEF StartFinish, Starting, StartThrows, StartReturns,
       Reply, Works, Throws
  <2> QED
    BY <1>4, <2>1, <2>2, <2>3, <2>4, <2>5, <2>6 DEF Launch
<1>5. CASE \E t \in Callers : Halt(t)
  BY <1>5 DEF Halt, StopStreams, StopPipeline, AfterStop, Reply, Works, Throws
<1>6. CASE \E t \in Callers : Join(t)
  BY <1>6 DEF Join, StopColor, JoinColor, AfterJoin, Notified, Sleeping, Exited
<1>7. CASE Handler
  <2>1. CASE SetupBuffers
    BY <2>1 DEF SetupBuffers, Allocated, Reply, Works, Throws
  <2>2. CASE ApplyMode
    BY <2>2 DEF ApplyMode, Reply, Works, Throws
  <2>3. CASE Rollback
    BY <2>3, RollbackJob DEF Rollback, Reply
  <2>4. CASE ToggleHalt
    BY <2>4 DEF ToggleHalt, Reply, Works, Throws
  <2>5. CASE ToggleProfiles
    BY <2>5 DEF ToggleProfiles, Reply, Works, Throws
  <2> QED
    BY <1>7, <2>1, <2>2, <2>3, <2>4, <2>5 DEF Handler
<1>8. CASE Diag
  BY <1>8 DEF Diag, DiagCheck, DiagTryLock, DiagAnnounce, DiagUpdate, Accept, LockFree,
     Unmoved
<1>9. CASE Teardown
  BY <1>9 DEF Teardown, CleanBegin, CleanWait, CleanUpdater, CleanLock, CleanFree, LockFree
<1>10. CASE Frame
  BY <1>10 DEF Frame, FrameArrive, FramePush, QueueFree, InQueueLock, Notified, Sleeping
<1>11. CASE Color
  BY <1>11 DEF Color, ColorCheck, ColorTake, ColorSleep, ColorSpurious, ColorDone,
     ColorKeeps, Sleeping
<1>12. CASE UNCHANGED vars
  BY <1>12
<1> QED
  BY <1>1, <1>2, <1>3, <1>4, <1>5, <1>6, <1>7, <1>8, <1>9, <1>10, <1>11, <1>12, Steps

LEMMA PipeStep ==
    ASSUME PcOK, JobInv, LockInv, CountInv, PipeInv, [Next]_vars
    PROVE  PipeInv'
<1> USE DEF PcOK, Callers, StartPCs, At, Goto, LockInv, CountInv, JobInv, PipeInv,
   OnlyKnownRaces, vars, streamVars, colorVars, diagVars, jobVars, bounds
<1>1. CASE Serve
  BY <1>1 DEF Serve, ServeStart, ServeLocked, ServeProfile, ServeToggled, Accept, Reply,
     Unmoved
<1>2. CASE TakeLock
  BY <1>2 DEF TakeLock, LockFree, Reply
<1>3. CASE Answer
  BY <1>3 DEF Answer
<1>4. CASE Launch
  <2>1. CASE StartReset
    BY <1>4, <2>1, LaunchMoves DEF StartReset, Starting
  <2>2. CASE StartCreate
    BY <1>4, <2>2, LaunchMoves DEF StartCreate, Starting, StartThrows, Reply, Works,
       Throws
  <2>3. CASE StartAttempt
    BY <1>4, <2>3, LaunchMoves DEF StartAttempt, Starting, StartThrows, Reply, Works,
       Throws
  <2>4. CASE StartRetry
    BY <1>4, <2>4, LaunchMoves DEF StartRetry, Starting, StartThrows, Reply, Works,
       Throws
  <2>5. CASE StartThread
    BY <1>4, <2>5, LaunchMoves DEF StartThread, Starting, Works
  <2>6. CASE StartFinish
    BY <1>4, <2>6, LaunchMoves DEF StartFinish, Starting, StartThrows, StartReturns,
       Reply, Works, Throws
  <2> QED
    BY <1>4, <2>1, <2>2, <2>3, <2>4, <2>5, <2>6 DEF Launch
<1>5. CASE \E t \in Callers : Halt(t)
  BY <1>5 DEF Halt, StopStreams, StopPipeline, AfterStop, Reply, Works, Throws
<1>6. CASE \E t \in Callers : Join(t)
  BY <1>6 DEF Join, StopColor, JoinColor, AfterJoin, Notified, Sleeping, Exited
<1>7. CASE Handler
  BY <1>7 DEF Handler, SetupBuffers, ApplyMode, Rollback, ToggleHalt, ToggleProfiles,
     Reply, Works, Throws
<1>8. CASE Diag
  BY <1>8 DEF Diag, DiagCheck, DiagTryLock, DiagAnnounce, DiagUpdate, Accept, LockFree,
     Unmoved
<1>9. CASE Teardown
  BY <1>9 DEF Teardown, CleanBegin, CleanWait, CleanUpdater, CleanLock, CleanFree, LockFree
<1>10. CASE Frame
  BY <1>10 DEF Frame, FrameArrive, FramePush, QueueFree, Notified
<1>11. CASE Color
  BY <1>11 DEF Color, ColorCheck, ColorTake, ColorSleep, ColorSpurious, ColorDone,
     ColorKeeps
<1>12. CASE UNCHANGED vars
  BY <1>12
<1> QED
  BY <1>1, <1>2, <1>3, <1>4, <1>5, <1>6, <1>7, <1>8, <1>9, <1>10, <1>11, <1>12, Steps

LEMMA FrameStep ==
    ASSUME PcOK, JobInv, LockInv, CountInv, ColorInv, FrameInv, PipeInv, [Next]_vars
    PROVE  FrameInv'
<1> USE DEF PcOK, Callers, StartPCs, At, Goto, LockInv, CountInv, PipeInv, FrameInv,
   vars, streamVars, colorVars, diagVars, jobVars, bounds
<1>1. CASE Serve
  BY <1>1 DEF Serve, ServeStart, ServeLocked, ServeProfile, ServeToggled, Accept, Reply,
     Unmoved
<1>2. CASE TakeLock
  BY <1>2 DEF TakeLock, LockFree, Reply
<1>3. CASE Answer
  BY <1>3 DEF Answer
<1>4. CASE Launch
  <2>1. CASE StartReset
    BY <1>4, <2>1, LaunchMoves DEF StartReset, Starting
  <2>2. CASE StartCreate
    BY <1>4, <2>2, LaunchMoves DEF StartCreate, Starting, StartThrows, Reply, Works,
       Throws
  <2>3. CASE StartAttempt
    BY <1>4, <2>3, LaunchMoves DEF StartAttempt, Starting, StartThrows, Reply, Works,
       Throws
  <2>4. CASE StartRetry
    BY <1>4, <2>4, LaunchMoves DEF StartRetry, Starting, StartThrows, Reply, Works,
       Throws
  <2>5. CASE StartThread
    BY <1>4, <2>5, LaunchMoves DEF StartThread, Starting, Works
  <2>6. CASE StartFinish
    BY <1>4, <2>6, LaunchMoves DEF StartFinish, Starting, StartThrows, StartReturns,
       Reply, Works, Throws
  <2> QED
    BY <1>4, <2>1, <2>2, <2>3, <2>4, <2>5, <2>6 DEF Launch
<1>5. CASE \E t \in Callers : Halt(t)
  BY <1>5 DEF Halt, StopStreams, StopPipeline, AfterStop, Reply, Works, Throws
<1>6. CASE \E t \in Callers : Join(t)
  BY <1>6 DEF Join, StopColor, JoinColor, AfterJoin, Notified, Sleeping, Exited
<1>7. CASE Handler
  BY <1>7 DEF Handler, SetupBuffers, ApplyMode, Rollback, ToggleHalt, ToggleProfiles,
     Reply, Works, Throws
<1>8. CASE Diag
  BY <1>8 DEF Diag, DiagCheck, DiagTryLock, DiagAnnounce, DiagUpdate, Accept, LockFree,
     Unmoved
<1>9. CASE Teardown
  BY <1>9 DEF Teardown, CleanBegin, CleanWait, CleanUpdater, CleanLock, CleanFree, LockFree
<1>10. CASE Frame
  BY <1>10 DEF Frame, FrameArrive, FramePush, QueueFree, Notified
<1>11. CASE Color
  BY <1>11 DEF Color, ColorCheck, ColorTake, ColorSleep, ColorSpurious, ColorDone,
     ColorKeeps
<1>12. CASE UNCHANGED vars
  BY <1>12
<1> QED
  BY <1>1, <1>2, <1>3, <1>4, <1>5, <1>6, <1>7, <1>8, <1>9, <1>10, <1>11, <1>12, Steps

LEMMA RegStep ==
    ASSUME PcOK, JobInv, LockInv, BoolInv, WasInv, RegInv, [Next]_vars
    PROVE  RegInv'
<1> USE DEF PcOK, Callers, StartPCs, At, Goto, LockInv, JobInv, RegInv,
   RegistrationIsAtomic, Now, vars, streamVars, colorVars, diagVars, jobVars, bounds
<1>1. CASE Serve
  BY <1>1 DEF Serve, ServeStart, ServeLocked, ServeProfile, ServeToggled, Accept, Reply,
     Unmoved
<1>2. CASE TakeLock
  BY <1>2 DEF TakeLock, LockFree, Reply
<1>3. CASE Answer
  BY <1>3 DEF Answer
<1>4. CASE Launch
  BY <1>4 DEF Launch, StartReset, StartCreate, StartAttempt, StartRetry, StartThread,
     StartFinish, Starting, StartThrows, StartReturns, Reply, StartKeeps, Works, Throws
<1>5. CASE \E t \in Callers : Halt(t)
  BY <1>5 DEF Halt, StopStreams, StopPipeline, AfterStop, Reply, Works, Throws
<1>6. CASE \E t \in Callers : Join(t)
  BY <1>6 DEF Join, StopColor, JoinColor, AfterJoin, Notified, Sleeping, Exited
<1>7. CASE Handler
  <2>1. CASE SetupBuffers
    BY <2>1 DEF SetupBuffers, Allocated, Reply, Works, Throws
  <2>2. CASE ApplyMode
    <3>1. ~was.started => ~started
      BY <2>2 DEF ApplyMode
    <3>2. ~was.started => started = was.started
      BY <3>1 DEF BoolInv, WasInv
    <3> QED
      BY <2>2, <3>2 DEF ApplyMode, Reply
  <2>3. CASE Rollback
    BY <2>3, RollbackJob DEF Rollback, Reply
  <2>4. CASE ToggleHalt
    BY <2>4 DEF ToggleHalt, Reply, Works, Throws
  <2>5. CASE ToggleProfiles
    BY <2>5 DEF ToggleProfiles, Reply, Works, Throws
  <2> QED
    BY <1>7, <2>1, <2>2, <2>3, <2>4, <2>5 DEF Handler
<1>8. CASE Diag
  BY <1>8 DEF Diag, DiagCheck, DiagTryLock, DiagAnnounce, DiagUpdate, Accept, LockFree,
     Unmoved
<1>9. CASE Teardown
  BY <1>9 DEF Teardown, CleanBegin, CleanWait, CleanUpdater, CleanLock, CleanFree, LockFree
<1>10. CASE Frame
  BY <1>10 DEF Frame, FrameArrive, FramePush, QueueFree, Notified
<1>11. CASE Color
  BY <1>11 DEF Color, ColorCheck, ColorTake, ColorSleep, ColorSpurious, ColorDone,
     ColorKeeps
<1>12. CASE UNCHANGED vars
  BY <1>12
<1> QED
  BY <1>1, <1>2, <1>3, <1>4, <1>5, <1>6, <1>7, <1>8, <1>9, <1>10, <1>11, <1>12, Steps

LEMMA ServedStep ==
    ASSUME PcOK, JobInv, LockInv, BoolInv, ColorInv, PipeInv, ServedInv, [Next]_vars
    PROVE  ServedInv'
<1> USE DEF PcOK, Callers, StartPCs, At, Goto, LockInv, ColorInv, ServedInv, PipeInv,
   vars, streamVars, colorVars, diagVars, jobVars, bounds
<1>1. CASE Serve
  BY <1>1 DEF Serve, ServeStart, ServeLocked, ServeProfile, ServeToggled, Accept, Reply,
     Unmoved
<1>2. CASE TakeLock
  BY <1>2 DEF TakeLock, LockFree, Reply
<1>3. CASE Answer
  BY <1>3 DEF Answer
<1>4. CASE Launch
  <2>1. CASE StartReset
    BY <1>4, <2>1, LaunchMoves DEF StartReset, Starting
  <2>2. CASE StartCreate
    BY <1>4, <2>2, LaunchMoves DEF StartCreate, Starting, StartThrows, Reply, Works,
       Throws
  <2>3. CASE StartAttempt
    BY <1>4, <2>3, LaunchMoves DEF StartAttempt, Starting, StartThrows, Reply, Works,
       Throws
  <2>4. CASE StartRetry
    BY <1>4, <2>4, LaunchMoves DEF StartRetry, Starting, StartThrows, Reply, Works,
       Throws
  <2>5. CASE StartThread
    BY <1>4, <2>5, LaunchMoves DEF StartThread, Starting, Works
  <2>6. CASE StartFinish
    BY <1>4, <2>6, LaunchMoves DEF StartFinish, Starting, StartThrows, StartReturns,
       Reply, Works, Throws
  <2> QED
    BY <1>4, <2>1, <2>2, <2>3, <2>4, <2>5, <2>6 DEF Launch
<1>5. CASE \E t \in Callers : Halt(t)
  BY <1>5 DEF Halt, StopStreams, StopPipeline, AfterStop, Reply, Works, Throws
<1>6. CASE \E t \in Callers : Join(t)
  BY <1>6 DEF Join, StopColor, JoinColor, AfterJoin, Notified, Sleeping, Exited
<1>7. CASE Handler
  BY <1>7 DEF Handler, SetupBuffers, ApplyMode, Rollback, ToggleHalt, ToggleProfiles,
     Reply, Works, Throws
<1>8. CASE Diag
  BY <1>8 DEF Diag, DiagCheck, DiagTryLock, DiagAnnounce, DiagUpdate, Accept, LockFree,
     Unmoved
<1>9. CASE Teardown
  BY <1>9 DEF Teardown, CleanBegin, CleanWait, CleanUpdater, CleanLock, CleanFree, LockFree
<1>10. CASE Frame
  BY <1>10 DEF Frame, FrameArrive, FramePush, QueueFree, Notified
<1>11. CASE Color
  BY <1>11 DEF Color, ColorCheck, ColorTake, ColorSleep, ColorSpurious, ColorDone,
     ColorKeeps
<1>12. CASE UNCHANGED vars
  BY <1>12
<1> QED
  BY <1>1, <1>2, <1>3, <1>4, <1>5, <1>6, <1>7, <1>8, <1>9, <1>10, <1>11, <1>12, Steps

LEMMA HonestStep ==
    ASSUME PcOK, JobInv, LockInv, PipeInv, HonestInv, [Next]_vars
    PROVE  HonestInv'
<1> USE DEF PcOK, Callers, StartPCs, At, Goto, LockInv, JobInv, PipeInv, HonestInv,
   StartedIsHonest, Honest, Now, vars, streamVars, colorVars, diagVars, jobVars, bounds
<1>1. CASE Serve
  <2>1. CASE ServeStart
    BY <2>1 DEF ServeStart, Accept, Unmoved
  <2>2. CASE ServeLocked
    BY <2>2 DEF ServeLocked, Accept, Unmoved
  <2>3. CASE ServeProfile
    BY <2>3 DEF ServeProfile, Accept, Reply, Unmoved
  <2>4. CASE ServeToggled
    BY <2>4 DEF ServeToggled, Accept, Reply, Unmoved
  <2> QED
    BY <1>1, <2>1, <2>2, <2>3, <2>4 DEF Serve
<1>2. CASE TakeLock
  BY <1>2 DEF TakeLock, LockFree, Reply
<1>3. CASE Answer
  BY <1>3 DEF Answer
<1>4. CASE Launch
  <2>1. CASE StartReset
    BY <1>4, <2>1, LaunchMoves DEF StartReset, Starting
  <2>2. CASE StartCreate
    BY <1>4, <2>2, LaunchMoves DEF StartCreate, Starting, StartThrows, Reply, Works,
       Throws
  <2>3. CASE StartAttempt
    BY <1>4, <2>3, LaunchMoves DEF StartAttempt, Starting, StartThrows, Reply, Works,
       Throws
  <2>4. CASE StartRetry
    BY <1>4, <2>4, LaunchMoves DEF StartRetry, Starting, StartThrows, Reply, Works,
       Throws
  <2>5. CASE StartThread
    BY <1>4, <2>5, LaunchMoves DEF StartThread, Starting, Works
  <2>6. CASE StartFinish
    BY <1>4, <2>6, LaunchMoves DEF StartFinish, Starting, StartThrows, StartReturns,
       Reply, Works, Throws
  <2> QED
    BY <1>4, <2>1, <2>2, <2>3, <2>4, <2>5, <2>6 DEF Launch
<1>5. CASE \E t \in Callers : Halt(t)
  BY <1>5 DEF Halt, StopStreams, StopPipeline, AfterStop, Reply, Works, Throws
<1>6. CASE \E t \in Callers : Join(t)
  BY <1>6 DEF Join, StopColor, JoinColor, AfterJoin, Notified, Sleeping, Exited
<1>7. CASE Handler
  BY <1>7 DEF Handler, SetupBuffers, ApplyMode, Rollback, ToggleHalt, ToggleProfiles,
     Reply, Works, Throws
<1>8. CASE Diag
  BY <1>8 DEF Diag, DiagCheck, DiagTryLock, DiagAnnounce, DiagUpdate, Accept, LockFree,
     Unmoved
<1>9. CASE Teardown
  BY <1>9 DEF Teardown, CleanBegin, CleanWait, CleanUpdater, CleanLock, CleanFree, LockFree
<1>10. CASE Frame
  BY <1>10 DEF Frame, FrameArrive, FramePush, QueueFree, Notified
<1>11. CASE Color
  BY <1>11 DEF Color, ColorCheck, ColorTake, ColorSleep, ColorSpurious, ColorDone,
     ColorKeeps
<1>12. CASE UNCHANGED vars
  BY <1>12
<1> QED
  BY <1>1, <1>2, <1>3, <1>4, <1>5, <1>6, <1>7, <1>8, <1>9, <1>10, <1>11, <1>12, Steps

-----------------------------------------------------------------------------
(* The inductive invariant and the theorems *)

IInv == /\ PcOK /\ JobInv /\ LockInv /\ BoolInv /\ ValueInv /\ WasInv /\ CountInv
        /\ ColorInv /\ PipeInv /\ FrameInv /\ RegInv /\ ServedInv /\ HonestInv

LEMMA InitInv == Init => IInv
<1> SUFFICES ASSUME Init PROVE IInv
  OBVIOUS
<1> USE DEF Init, Callers
<1>1. pc["exec"] = "idle" /\ pc["clean"] = "idle" /\ PcOK
  BY DEF PcOK, ExecPCs, CleanPCs
<1>2. ("color" \in enabled) \in BOOLEAN
  OBVIOUS
<1>3. BoolInv
  BY <1>2, Zenon DEF BoolInv
<1>4. ValueInv
  BY DEF ValueInv, Allocated, Sleeping, InQueueLock, Exited
<1>5. WasInv
  BY <1>3, <1>4, NowTyped DEF WasInv
<1>6. JobInv /\ LockInv
  BY <1>1 DEF JobInv, LockInv, StartPCs
<1>7. CountInv /\ ColorInv
  <2>1. color # "busy" /\ buffer # "null" /\ CountInv
    BY DEF CountInv, Allocated
  <2>2. handle <=> color # "none"
    <3>1. CASE "color" \in enabled
      BY <3>1
    <3>2. CASE "color" \notin enabled
      BY <3>2
    <3> QED
      BY <3>1, <3>2
  <2> QED
    BY <1>1, <2>1, <2>2 DEF ColorInv
<1>8. PipeInv /\ FrameInv
  BY <1>1 DEF PipeInv, FrameInv, OnlyKnownRaces
<1>9. RegInv /\ ServedInv
  BY <1>1 DEF RegInv, ServedInv, RegistrationIsAtomic, StartPCs
<1>10. HonestInv
  BY <1>1 DEF HonestInv, StartedIsHonest, StartPCs
<1> QED
  BY <1>1, <1>3, <1>4, <1>5, <1>6, <1>7, <1>8, <1>9, <1>10 DEF IInv

LEMMA StepInv ==
    ASSUME IInv, [Next]_vars
    PROVE  IInv'
<1>1. PcOK' /\ JobInv' /\ LockInv'
  BY PcStep, JobStep, LockStep DEF IInv
<1>2. BoolInv' /\ ValueInv' /\ WasInv' /\ CountInv'
  BY BoolStep, ValueStep, WasStep, CountStep DEF IInv
<1>3. ColorInv' /\ PipeInv' /\ FrameInv'
  BY ColorStep, PipeStep, FrameStep DEF IInv
<1>4. RegInv' /\ ServedInv' /\ HonestInv'
  BY RegStep, ServedStep, HonestStep DEF IInv
<1> QED
  BY <1>1, <1>2, <1>3, <1>4 DEF IInv

\* What the proofs below start from: the inductive invariant always holds.
LEMMA Always == Spec => []IInv
BY InitInv, StepInv, PTL DEF Spec

\* The variables keep their types.
THEOREM TypeCorrect == Spec => []TypeOK
<1>1. IInv => TypeOK
  <2> SUFFICES ASSUME IInv PROVE TypeOK
    OBVIOUS
  <2>1. job \in Jobs
    BY DEF IInv, JobInv, Jobs
  <2> QED
    BY <2>1 DEF IInv, TypeOK, PcOK, BoolInv, ValueInv, WasInv, CountInv
<1> QED
  BY <1>1, Always, PTL

\* The color thread never decodes into a buffer that applyStreamProfiles or
\* clean() has freed.
THEOREM BufferCorrect == Spec => []DecodesIntoBuffer
<1>1. IInv => DecodesIntoBuffer
  BY DEF IInv, ColorInv, DecodesIntoBuffer
<1> QED
  BY <1>1, Always, PTL

\* Running streams with COLOR enabled have a thread that takes their frames.
THEOREM ServedCorrect == Spec => []ColorIsServed
<1>1. IInv => ColorIsServed
  BY DEF IInv, ColorInv, ServedInv, ColorIsServed
<1> QED
  BY <1>1, Always, PTL

\* No request leaves pipeline_started_ up over a pipeline that does not run,
\* but for the failures that are named.
THEOREM HonestCorrect == Spec => []StartedIsHonest
<1>1. IInv => StartedIsHonest
  BY DEF IInv, HonestInv
<1> QED
  BY <1>1, Always, PTL

\* A registration request is done or undone as a whole.
THEOREM RegistrationCorrect == Spec => []RegistrationIsAtomic
<1>1. IInv => RegistrationIsAtomic
  BY DEF IInv, RegInv
<1> QED
  BY <1>1, Always, PTL

\* The process dies of the named races only.
THEOREM RacesCorrect == Spec => []OnlyKnownRaces
<1>1. IInv => OnlyKnownRaces
  BY DEF IInv, PipeInv
<1> QED
  BY <1>1, Always, PTL

\* The align filter is replaced under a running frame callback only after an SDK
\* call has thrown: the handler replaces it with the pipeline stopped, or after a
\* failure.
THEOREM FilterCorrect == Spec => FilterSwappedStopped
<1>1. IInv => (ApplyMode \/ Rollback => frame = "idle" \/ faults > 0)
  BY DEF IInv, FrameInv, ApplyMode, Rollback, At
<1>2. IInv => [ApplyMode \/ Rollback => frame = "idle" \/ faults > 0]_vars
  BY <1>1
<1> QED
  BY <1>2, Always, PTL DEF Spec, FilterSwappedStopped

\* clean() returns with the color thread joined, unless a startStreams without
\* the lock was beside it.
THEOREM CleanCorrect == Spec => CleanJoinsColor
<1>1. IInv => (pc["clean"] = "free" => late \/ (~handle /\ color \in Exited))
  BY DEF IInv, ColorInv, Exited
<1>2. IInv => [pc["clean"] = "free" /\ pc'["clean"] = "done" =>
                 late \/ (~handle /\ color \in Exited)]_vars
  BY <1>1
<1> QED
  BY <1>2, Always, PTL DEF CleanJoinsColor

-----------------------------------------------------------------------------
(* Nobody is left asleep, and nobody waits in a ring *)

\* The color thread goes to sleep with an empty queue. A stop that is asked for
\* while it sleeps wakes it up, and stays up until the thread has been joined.
WakeInv ==
    /\ color \in {"doze"} \cup Sleeping => queue = 0
    /\ color = "asleep" => ~stop
    /\ \A t \in Callers : pc[t] = "joining" => stop
    /\ diagRunning => pc["exec"] = "update"

LEMMA WakeStep ==
    ASSUME IInv, WakeInv, [Next]_vars
    PROVE  WakeInv'
<1> USE DEF Callers, At, Goto, WakeInv, Sleeping, vars, streamVars, colorVars,
   diagVars, jobVars, bounds
<1>0. PcOK /\ JobInv /\ LockInv /\ CountInv
  BY DEF IInv
<1> USE <1>0 DEF PcOK
<1>1. CASE Serve
  BY <1>1 DEF Serve, ServeStart, ServeLocked, ServeProfile, ServeToggled, Accept, Reply,
     Unmoved
<1>2. CASE TakeLock
  BY <1>2 DEF TakeLock, Reply
<1>3. CASE Answer
  BY <1>3 DEF Answer
<1>4. CASE Launch
  <2>1. color' \in {color, "check"}
    BY <1>4 DEF Launch, StartReset, StartCreate, StartAttempt, StartRetry, StartThread,
       StartFinish
  <2> QED
    BY <1>4, <2>1, LaunchMoves DEF StartPCs
<1>5. CASE \E t \in Callers : Halt(t)
  BY <1>5 DEF Halt, StopStreams, StopPipeline, AfterStop, Reply
<1>6. ASSUME NEW t \in Callers, StopColor(t) PROVE WakeInv'
  BY <1>6 DEF StopColor, AfterJoin, Notified
<1>7. ASSUME NEW t \in Callers, JoinColor(t) PROVE WakeInv'
  <2>1. \A u \in Callers : pc[u] = "joining" => u = t
    BY <1>7 DEF JoinColor, LockInv
  <2> QED
    BY <1>7, <2>1 DEF JoinColor, AfterJoin
<1>8. CASE Handler
  BY <1>8 DEF Handler, SetupBuffers, ApplyMode, Rollback, ToggleHalt, ToggleProfiles,
     Reply, Works, Throws
<1>9. CASE Diag
  BY <1>9 DEF Diag, DiagCheck, DiagTryLock, DiagAnnounce, DiagUpdate, Accept, Unmoved
<1>10. CASE Teardown
  BY <1>10 DEF Teardown, CleanBegin, CleanWait, CleanUpdater, CleanLock, CleanFree
<1>11. CASE Frame
  BY <1>11 DEF Frame, FrameArrive, FramePush, QueueFree, InQueueLock, Notified
<1>12. CASE Color
  BY <1>12 DEF Color, ColorCheck, ColorTake, ColorSleep, ColorSpurious, ColorDone,
     ColorKeeps, CountInv
<1>13. CASE UNCHANGED vars
  BY <1>13
<1> QED
  BY <1>1, <1>2, <1>3, <1>4, <1>5, <1>6, <1>7, <1>8, <1>9, <1>10, <1>11, <1>12, <1>13,
     Steps DEF Join

\* The color thread sleeps only while it has nothing to do, and as long as it
\* has not slept over a stop, one of the four threads goes on whenever a handler
\* or clean() waits. The wait for device_lock_ leads to its holder, the wait of
\* the holder to the color thread or the frame callback, and that of the
\* callback to the color thread, which never waits with the queue's mutex.
THEOREM MoveOnCorrect == Spec => []StreamsMoveOn
<1>1. Init => WakeInv
  BY DEF Init, WakeInv, Sleeping, Callers
<1>2. ASSUME IInv, WakeInv PROVE StreamsMoveOn
  <2> USE DEF Waits, Proceeds, ColorProceeds, Callers
  <2>1. PcOK /\ LockInv /\ ValueInv
    BY <1>2 DEF IInv
  <2>2. ASSUME color # "overslept", NEW t \in Callers, Waits(t), pc[t] # "lock"
        PROVE  ColorProceeds \/ FrameProceeds \/ Proceeds("exec")
    <3>1. CASE pc[t] = "joining" /\ color \notin Exited
      BY <1>2, <2>1, <2>2, <3>1 DEF WakeInv, ValueInv, Sleeping
    <3>2. CASE frame # "idle"
      BY <3>2 DEF FrameProceeds, QueueFree
    <3>3. CASE ~QueueFree
      BY <3>3 DEF QueueFree
    <3>4. CASE pc[t] = "wait" /\ diagRunning
      BY <1>2, <3>4 DEF WakeInv
    <3> QED
      BY <2>2, <3>1, <3>2, <3>3, <3>4
  <2>3. ASSUME color # "overslept", lock # "none"
        PROVE  ColorProceeds \/ FrameProceeds \/ \E t \in Callers : Proceeds(t)
    <3>1. lock \in Callers /\ pc[lock] \notin {"idle", "lock", "done"}
      BY <2>1, <2>3 DEF LockInv, ValueInv, PcOK, ExecPCs
    <3>2. CASE Waits(lock)
      BY <2>2, <2>3, <3>1, <3>2
    <3> QED
      BY <3>1, <3>2
  <2>4. color = "asleep" => queue = 0 /\ ~stop
    BY <1>2 DEF WakeInv, Sleeping
  <2>5. ASSUME color # "overslept", NEW t \in Callers, Waits(t)
        PROVE  ColorProceeds \/ FrameProceeds \/ \E u \in Callers : Proceeds(u)
    BY <2>2, <2>3, <2>5
  <2> QED
    BY <2>4, <2>5, Zenon DEF StreamsMoveOn
<1> QED
  BY <1>1, <1>2, WakeStep, Always, PTL DEF Spec

-----------------------------------------------------------------------------
(* StreamControl implements StreamService *)

\* What a handler has done to the streams behind the lock, request by request.
Toggled(E) == (E \ {job.arg}) \cup ({job.arg} \ E)
NoIr(E) == {E, E \ {"ir"}}

StopInv ==
    job.kind = "stop" =>
      /\ mode = was.mode /\ enabled = was.enabled
      /\ interleave = was.interleave \/ interleave = FALSE
      /\ \/ started = FALSE
         \/ started = was.started /\ interleave = was.interleave

ProfileInv ==
    job.kind = "profile" =>
      /\ mode = was.mode /\ interleave = was.interleave

RestartInv ==
    job.kind \in {"profile", "register", "rollback"} =>
      /\ started => was.started
      /\ enabled \in IF was.started THEN NoIr(was.enabled) ELSE {was.enabled}
      /\ pc["exec"] \in StartPCs \cup {"stopping"} => was.started

RegisterInv ==
    job.kind \in {"register", "rollback"} =>
      /\ interleave = was.interleave \/ (interleave = FALSE /\ was.started)
      /\ job.kind = "register" /\ ~(pc["exec"] = "answer" /\ answer # "ok")
           /\ job.arg # "off" => {"color", "depth"} \subseteq was.enabled
      /\ pc["exec"] = "answer" /\ answer # "ok" => mode = was.mode

ToggleInv ==
    job.kind = "toggle" =>
      /\ mode = was.mode /\ interleave = was.interleave
      /\ \/ /\ pc["exec"] \notin StartPCs
            /\ enabled = was.enabled /\ started = was.started
         \/ /\ pc["exec"] \in StartPCs \cup {"answer"} \/ (pc["exec"] = "toggle" /\ crashed)
            /\ enabled \in NoIr(Toggled(was.enabled))
            /\ started = was.started \/ started = TRUE

ServiceInv ==
    lock = "exec" => StopInv /\ ProfileInv /\ RestartInv /\ RegisterInv /\ ToggleInv

LEMMA InterleaveAfterExec ==
    ASSUME WasInv
    PROVE  InterleaveAfter("exec") = IF job.kind = "profile" THEN was.interleave ELSE FALSE
<1>1. was.interleave \in BOOLEAN
  BY DEF WasInv
<1> QED
  BY <1>1 DEF InterleaveAfter

LEMMA StopStep ==
    ASSUME IInv, ServiceInv, lock' = "exec", [Next]_vars
    PROVE  StopInv'
<1> USE DEF IInv, PcOK, Callers, StartPCs, At, Goto, LockInv, JobInv, BoolInv,
   HonestInv, ServiceInv, StopInv, Now, NoIr, Toggled, vars, streamVars, colorVars,
   diagVars, jobVars, bounds
<1>1. CASE Serve
  BY <1>1, InterleaveAfterExec DEF Serve, ServeStart, ServeLocked, ServeProfile,
     ServeToggled, Accept, Reply, Unmoved
<1>2. CASE TakeLock
  BY <1>2, InterleaveAfterExec DEF TakeLock, LockFree, Reply
<1>3. CASE Answer
  BY <1>3, InterleaveAfterExec DEF Answer
<1>4. CASE Launch
  BY <1>4, InterleaveAfterExec DEF Launch, StartReset, StartCreate, StartAttempt,
     StartRetry, StartThread, StartFinish, Starting, StartThrows, StartReturns, Reply,
     StartKeeps, Works, Throws
<1>5. CASE \E t \in Callers : Halt(t)
  BY <1>5, InterleaveAfterExec DEF Halt, StopStreams, StopPipeline, AfterStop, Reply,
     Works, Throws
<1>6. CASE \E t \in Callers : Join(t)
  BY <1>6, InterleaveAfterExec DEF Join, StopColor, JoinColor, AfterJoin, Notified,
     Sleeping, Exited
<1>7. CASE Handler
  <2>1. CASE SetupBuffers
    BY <2>1 DEF SetupBuffers, Reply
  <2>2. CASE ApplyMode
    BY <2>2 DEF ApplyMode, Reply
  <2>3. CASE Rollback
    BY <2>3, RollbackJob DEF Rollback, Reply
  <2>4. CASE ToggleHalt
    BY <2>4 DEF ToggleHalt, Reply
  <2>5. CASE ToggleProfiles
    BY <2>5 DEF ToggleProfiles, Reply
  <2> QED
    BY <1>7, <2>1, <2>2, <2>3, <2>4, <2>5 DEF Handler
<1>8. CASE Diag
  BY <1>8, InterleaveAfterExec DEF Diag, DiagCheck, DiagTryLock, DiagAnnounce,
     DiagUpdate, Accept, LockFree, Unmoved
<1>9. CASE Teardown
  BY <1>9, InterleaveAfterExec DEF Teardown, CleanBegin, CleanWait, CleanUpdater, CleanLock,
     CleanFree, LockFree
<1>10. CASE Frame
  BY <1>10, InterleaveAfterExec DEF Frame, FrameArrive, FramePush, QueueFree, Notified
<1>11. CASE Color
  BY <1>11, InterleaveAfterExec DEF Color, ColorCheck, ColorTake, ColorSleep,
     ColorSpurious, ColorDone, ColorKeeps
<1>12. CASE UNCHANGED vars
  BY <1>12, InterleaveAfterExec
<1> QED
  BY <1>1, <1>2, <1>3, <1>4, <1>5, <1>6, <1>7, <1>8, <1>9, <1>10, <1>11, <1>12, Steps

LEMMA ProfileStep ==
    ASSUME IInv, ServiceInv, lock' = "exec", [Next]_vars
    PROVE  ProfileInv'
<1> USE DEF IInv, PcOK, Callers, StartPCs, At, Goto, LockInv, JobInv, BoolInv,
   HonestInv, ServiceInv, ProfileInv, Now, NoIr, Toggled, vars, streamVars, colorVars,
   diagVars, jobVars, bounds
<1>1. CASE Serve
  BY <1>1, InterleaveAfterExec DEF Serve, ServeStart, ServeLocked, ServeProfile,
     ServeToggled, Accept, Reply, Unmoved
<1>2. CASE TakeLock
  BY <1>2, InterleaveAfterExec DEF TakeLock, LockFree, Reply
<1>3. CASE Answer
  BY <1>3, InterleaveAfterExec DEF Answer
<1>4. CASE Launch
  BY <1>4, InterleaveAfterExec DEF Launch, StartReset, StartCreate, StartAttempt,
     StartRetry, StartThread, StartFinish, Starting, StartThrows, StartReturns, Reply,
     StartKeeps, Works, Throws
<1>5. CASE \E t \in Callers : Halt(t)
  BY <1>5, InterleaveAfterExec DEF Halt, StopStreams, StopPipeline, AfterStop, Reply,
     Works, Throws
<1>6. CASE \E t \in Callers : Join(t)
  BY <1>6, InterleaveAfterExec DEF Join, StopColor, JoinColor, AfterJoin, Notified,
     Sleeping, Exited
<1>7. CASE Handler
  <2>1. CASE SetupBuffers
    BY <2>1 DEF SetupBuffers, Reply
  <2>2. CASE ApplyMode
    BY <2>2 DEF ApplyMode, Reply
  <2>3. CASE Rollback
    BY <2>3, RollbackJob DEF Rollback, Reply
  <2>4. CASE ToggleHalt
    BY <2>4 DEF ToggleHalt, Reply
  <2>5. CASE ToggleProfiles
    BY <2>5 DEF ToggleProfiles, Reply
  <2> QED
    BY <1>7, <2>1, <2>2, <2>3, <2>4, <2>5 DEF Handler
<1>8. CASE Diag
  BY <1>8, InterleaveAfterExec DEF Diag, DiagCheck, DiagTryLock, DiagAnnounce,
     DiagUpdate, Accept, LockFree, Unmoved
<1>9. CASE Teardown
  BY <1>9, InterleaveAfterExec DEF Teardown, CleanBegin, CleanWait, CleanUpdater, CleanLock,
     CleanFree, LockFree
<1>10. CASE Frame
  BY <1>10, InterleaveAfterExec DEF Frame, FrameArrive, FramePush, QueueFree, Notified
<1>11. CASE Color
  BY <1>11, InterleaveAfterExec DEF Color, ColorCheck, ColorTake, ColorSleep,
     ColorSpurious, ColorDone, ColorKeeps
<1>12. CASE UNCHANGED vars
  BY <1>12, InterleaveAfterExec
<1> QED
  BY <1>1, <1>2, <1>3, <1>4, <1>5, <1>6, <1>7, <1>8, <1>9, <1>10, <1>11, <1>12, Steps

LEMMA RestartStep ==
    ASSUME IInv, ServiceInv, lock' = "exec", [Next]_vars
    PROVE  RestartInv'
<1> USE DEF IInv, PcOK, Callers, StartPCs, At, Goto, LockInv, JobInv, BoolInv,
   HonestInv, ServiceInv, RestartInv, Now, NoIr, Toggled, RegInv, vars, streamVars,
   colorVars, diagVars, jobVars, bounds
<1>1. CASE Serve
  BY <1>1, InterleaveAfterExec DEF Serve, ServeStart, ServeLocked, ServeProfile,
     ServeToggled, Accept, Reply, Unmoved
<1>2. CASE TakeLock
  BY <1>2, InterleaveAfterExec DEF TakeLock, LockFree, Reply
<1>3. CASE Answer
  BY <1>3, InterleaveAfterExec DEF Answer
<1>4. CASE Launch
  BY <1>4, InterleaveAfterExec DEF Launch, StartReset, StartCreate, StartAttempt,
     StartRetry, StartThread, StartFinish, Starting, StartThrows, StartReturns, Reply,
     StartKeeps, Works, Throws
<1>5. CASE \E t \in Callers : Halt(t)
  BY <1>5, InterleaveAfterExec DEF Halt, StopStreams, StopPipeline, AfterStop, Reply,
     Works, Throws
<1>6. CASE \E t \in Callers : Join(t)
  BY <1>6, InterleaveAfterExec DEF Join, StopColor, JoinColor, AfterJoin, Notified,
     Sleeping, Exited
<1>7. CASE Handler
  BY <1>7, InterleaveAfterExec DEF Handler, SetupBuffers, ApplyMode, Rollback,
     ToggleHalt, ToggleProfiles, Reply, Works, Throws
<1>8. CASE Diag
  BY <1>8, InterleaveAfterExec DEF Diag, DiagCheck, DiagTryLock, DiagAnnounce,
     DiagUpdate, Accept, LockFree, Unmoved
<1>9. CASE Teardown
  BY <1>9, InterleaveAfterExec DEF Teardown, CleanBegin, CleanWait, CleanUpdater, CleanLock,
     CleanFree, LockFree
<1>10. CASE Frame
  BY <1>10, InterleaveAfterExec DEF Frame, FrameArrive, FramePush, QueueFree, Notified
<1>11. CASE Color
  BY <1>11, InterleaveAfterExec DEF Color, ColorCheck, ColorTake, ColorSleep,
     ColorSpurious, ColorDone, ColorKeeps
<1>12. CASE UNCHANGED vars
  BY <1>12, InterleaveAfterExec
<1> QED
  BY <1>1, <1>2, <1>3, <1>4, <1>5, <1>6, <1>7, <1>8, <1>9, <1>10, <1>11, <1>12, Steps

LEMMA RegisterStep ==
    ASSUME IInv, ServiceInv, lock' = "exec", [Next]_vars
    PROVE  RegisterInv'
<1> USE DEF IInv, PcOK, Callers, StartPCs, At, Goto, LockInv, JobInv, BoolInv,
   HonestInv, ServiceInv, RegisterInv, Now, NoIr, Toggled, RegInv, vars, streamVars,
   colorVars, diagVars, jobVars, bounds
<1>1. CASE Serve
  BY <1>1, InterleaveAfterExec DEF Serve, ServeStart, ServeLocked, ServeProfile,
     ServeToggled, Accept, Reply, Unmoved
<1>2. CASE TakeLock
  BY <1>2, InterleaveAfterExec DEF TakeLock, LockFree, Reply
<1>3. CASE Answer
  BY <1>3, InterleaveAfterExec DEF Answer
<1>4. CASE Launch
  BY <1>4, InterleaveAfterExec DEF Launch, StartReset, StartCreate, StartAttempt,
     StartRetry, StartThread, StartFinish, Starting, StartThrows, StartReturns, Reply,
     StartKeeps, Works, Throws
<1>5. CASE \E t \in Callers : Halt(t)
  <2>1. PICK t \in Callers : Halt(t)
    BY <1>5
  <2>2. t = "exec"
    BY <2>1 DEF Halt, StopStreams, StopPipeline
  <2>3. CASE StopStreams("exec")
    BY <2>3 DEF StopStreams, AfterStop, Reply
  <2>4. CASE StopPipeline("exec")
    BY <2>4, InterleaveAfterExec DEF StopPipeline, AfterStop, Reply, RestartInv
  <2> QED
    BY <2>1, <2>2, <2>3, <2>4 DEF Halt
<1>6. CASE \E t \in Callers : Join(t)
  BY <1>6, InterleaveAfterExec DEF Join, StopColor, JoinColor, AfterJoin, Notified,
     Sleeping, Exited
<1>7. CASE Handler
  <2>1. CASE SetupBuffers
    BY <2>1 DEF SetupBuffers, Reply
  <2>2. CASE ApplyMode
    BY <2>2 DEF ApplyMode, Reply
  <2>3. CASE Rollback
    BY <2>3, RollbackJob DEF Rollback, Reply
  <2>4. CASE ToggleHalt
    BY <2>4 DEF ToggleHalt, Reply
  <2>5. CASE ToggleProfiles
    BY <2>5 DEF ToggleProfiles, Reply
  <2> QED
    BY <1>7, <2>1, <2>2, <2>3, <2>4, <2>5 DEF Handler
<1>8. CASE Diag
  BY <1>8, InterleaveAfterExec DEF Diag, DiagCheck, DiagTryLock, DiagAnnounce,
     DiagUpdate, Accept, LockFree, Unmoved
<1>9. CASE Teardown
  BY <1>9, InterleaveAfterExec DEF Teardown, CleanBegin, CleanWait, CleanUpdater, CleanLock,
     CleanFree, LockFree
<1>10. CASE Frame
  BY <1>10, InterleaveAfterExec DEF Frame, FrameArrive, FramePush, QueueFree, Notified
<1>11. CASE Color
  BY <1>11, InterleaveAfterExec DEF Color, ColorCheck, ColorTake, ColorSleep,
     ColorSpurious, ColorDone, ColorKeeps
<1>12. CASE UNCHANGED vars
  BY <1>12, InterleaveAfterExec
<1> QED
  BY <1>1, <1>2, <1>3, <1>4, <1>5, <1>6, <1>7, <1>8, <1>9, <1>10, <1>11, <1>12, Steps

LEMMA ToggleStep ==
    ASSUME IInv, ServiceInv, lock' = "exec", [Next]_vars
    PROVE  ToggleInv'
<1> USE DEF IInv, PcOK, Callers, StartPCs, At, Goto, LockInv, JobInv, BoolInv,
   HonestInv, ServiceInv, ToggleInv, Now, NoIr, Toggled, vars, streamVars, colorVars,
   diagVars, jobVars, bounds
<1>1. CASE Serve
  BY <1>1, InterleaveAfterExec DEF Serve, ServeStart, ServeLocked, ServeProfile,
     ServeToggled, Accept, Reply, Unmoved
<1>2. CASE TakeLock
  BY <1>2, InterleaveAfterExec DEF TakeLock, LockFree, Reply
<1>3. CASE Answer
  BY <1>3, InterleaveAfterExec DEF Answer
<1>4. CASE Launch
  BY <1>4, InterleaveAfterExec DEF Launch, StartReset, StartCreate, StartAttempt,
     StartRetry, StartThread, StartFinish, Starting, StartThrows, StartReturns, Reply,
     StartKeeps, Works, Throws
<1>5. CASE \E t \in Callers : Halt(t)
  BY <1>5, InterleaveAfterExec DEF Halt, StopStreams, StopPipeline, AfterStop, Reply,
     Works, Throws
<1>6. CASE \E t \in Callers : Join(t)
  BY <1>6, InterleaveAfterExec DEF Join, StopColor, JoinColor, AfterJoin, Notified,
     Sleeping, Exited
<1>7. CASE Handler
  <2>1. CASE SetupBuffers
    BY <2>1 DEF SetupBuffers, Reply
  <2>2. CASE ApplyMode
    BY <2>2 DEF ApplyMode, Reply
  <2>3. CASE Rollback
    BY <2>3, RollbackJob DEF Rollback, Reply
  <2>4. CASE ToggleHalt
    BY <2>4 DEF ToggleHalt, Reply
  <2>5. CASE ToggleProfiles
    BY <2>5 DEF ToggleProfiles, Reply
  <2> QED
    BY <1>7, <2>1, <2>2, <2>3, <2>4, <2>5 DEF Handler
<1>8. CASE Diag
  BY <1>8, InterleaveAfterExec DEF Diag, DiagCheck, DiagTryLock, DiagAnnounce,
     DiagUpdate, Accept, LockFree, Unmoved
<1>9. CASE Teardown
  BY <1>9, InterleaveAfterExec DEF Teardown, CleanBegin, CleanWait, CleanUpdater, CleanLock,
     CleanFree, LockFree
<1>10. CASE Frame
  BY <1>10, InterleaveAfterExec DEF Frame, FrameArrive, FramePush, QueueFree, Notified
<1>11. CASE Color
  BY <1>11, InterleaveAfterExec DEF Color, ColorCheck, ColorTake, ColorSleep,
     ColorSpurious, ColorDone, ColorKeeps
<1>12. CASE UNCHANGED vars
  BY <1>12, InterleaveAfterExec
<1> QED
  BY <1>1, <1>2, <1>3, <1>4, <1>5, <1>6, <1>7, <1>8, <1>9, <1>10, <1>11, <1>12, Steps

LEMMA ServiceStep ==
    ASSUME IInv, ServiceInv, [Next]_vars
    PROVE  ServiceInv'
BY StopStep, ProfileStep, RestartStep, RegisterStep, ToggleStep DEF ServiceInv

\* The request as the clients see it.
Asked == CASE job.kind = "diag" -> Idle
           [] job.kind = "rollback" -> [job EXCEPT !.kind = "register"]
           [] OTHER -> job

\* The streams are seen as they are while exec does not hold the lock, and as
\* they were when it took it while it does.
Held == lock = "exec" /\ job.kind # "diag"

LEMMA Seen ==
    ASSUME Asked' = Asked,
           \/ ~Held /\ ~Held' /\ UNCHANGED <<started, mode, enabled, interleave>>
           \/ Held /\ Held' /\ UNCHANGED was
           \/ /\ ~Held /\ Held'
              /\ was'.started = started /\ was'.mode = mode /\ was'.enabled = enabled
              /\ was'.interleave = interleave
    PROVE  UNCHANGED Promise!vars
BY DEF Promise!vars, Promise!streams, Shown, Held, Asked

LEMMA AskStep ==
    ASSUME IInv, Serve \/ Diag
    PROVE  [Promise!Next]_Promise!vars
<1> USE DEF IInv, LockInv, JobInv, At, Goto, PcOK, Callers
<1>1. CASE DiagCheck
  <2>1. Asked = Idle /\ Asked' = Idle /\ ~Held /\ ~Held'
    BY <1>1 DEF DiagCheck, Accept, Asked, Held, Idle
  <2> QED
    BY <1>1, <2>1, Seen DEF DiagCheck, Unmoved, streamVars
<1>2. CASE DiagTryLock \/ DiagAnnounce \/ DiagUpdate
  <2>1. Asked = Idle /\ Asked' = Idle /\ ~Held /\ ~Held'
    BY <1>2 DEF DiagTryLock, DiagAnnounce, DiagUpdate, jobVars, Asked, Held, Idle
  <2> QED
    BY <1>2, <2>1, Seen DEF DiagTryLock, DiagAnnounce, DiagUpdate, streamVars
<1>3. CASE Serve
  <2>1. Asked = Idle /\ ~Held /\ ~Held'
    BY <1>3 DEF Serve, ServeStart, ServeLocked, ServeProfile, ServeToggled, Accept,
       Unmoved, Asked, Held, Idle
  <2>2. Asked' \in Promise!Requests
    BY <1>3 DEF Serve, ServeStart, ServeLocked, ServeProfile, ServeToggled, Accept,
       Asked, Promise!Requests
  <2>3. UNCHANGED <<started, mode, enabled, interleave>>
    BY <1>3 DEF Serve, ServeStart, ServeLocked, ServeProfile, ServeToggled, Unmoved,
       streamVars
  <2>4. Promise!Ask
    BY <2>1, <2>2, <2>3 DEF Promise!Ask, Promise!None, Promise!streams, Shown, Held,
       Asked, Idle
  <2> QED
    BY <2>4 DEF Promise!Next
<1> QED
  BY <1>1, <1>2, <1>3 DEF Diag

LEMMA RollbackAsked ==
    ASSUME JobInv, Rollback
    PROVE  Asked' = Asked
<1>1. job \in [kind : {"register", "rollback"}, arg : Modes] /\ job.kind = "register"
  BY DEF JobInv, Rollback, At, Jobs, Idle
<1>2. /\ job' = [kind |-> "rollback", arg |-> job.arg]
      /\ job = [kind |-> "register", arg |-> job.arg]
  BY <1>1 DEF Rollback
<1>3. [job' EXCEPT !.kind = "register"] = [kind |-> "register", arg |-> job.arg]
  BY <1>2
<1> QED
  BY <1>1, <1>2, <1>3 DEF Asked

\* While exec holds the lock for a request, nothing of what it does is seen.
LEMMA HiddenStep ==
    ASSUME IInv, TakeLock \/ Handler \/ Halt("exec") \/ Join("exec")
    PROVE  UNCHANGED Promise!vars
<1> USE DEF IInv, LockInv, JobInv, At, Goto, PcOK, Callers, Held
<1>1. CASE TakeLock
  <2>1. ~Held /\ Held' /\ Asked' = Asked
    BY <1>1 DEF TakeLock, LockFree, Asked
  <2> QED
    BY <1>1, <2>1, Seen DEF TakeLock, Now
<1>2. CASE Rollback
  <2>1. Held /\ Held'
    BY <1>2, RollbackJob DEF Rollback
  <2> QED
    BY <1>2, <2>1, RollbackAsked, Seen DEF Rollback
<1>3. CASE SetupBuffers \/ ApplyMode \/ ToggleHalt \/ ToggleProfiles
  <2>1. Held /\ Held' /\ UNCHANGED <<job, was>>
    BY <1>3 DEF SetupBuffers, ApplyMode, ToggleHalt, ToggleProfiles
  <2> QED
    BY <2>1, Seen DEF Asked
<1>4. CASE Halt("exec") \/ Join("exec")
  <2>1. Held /\ Held' /\ UNCHANGED <<job, was>>
    BY <1>4 DEF Halt, Join, StopStreams, StopPipeline, StopColor, JoinColor, jobVars
  <2> QED
    BY <2>1, Seen DEF Asked
<1> QED
  BY <1>1, <1>2, <1>3, <1>4 DEF Handler

LEMMA LaunchStep ==
    ASSUME IInv, Launch
    PROVE  [Promise!Next]_Promise!vars
<1> USE DEF IInv, LockInv, JobInv
<1>1. CASE job.kind # "start"
  <2>1. Held /\ Held' /\ UNCHANGED <<job, was>>
    BY <1>1, LaunchMoves DEF Held, StartPCs
  <2> QED
    BY <2>1, Seen DEF Asked
<1>2. CASE job.kind = "start"
  <2>1. ~Held /\ ~Held' /\ Asked.kind = "start" /\ UNCHANGED <<job, mode>>
    BY <1>2, LaunchMoves DEF Held, StartPCs, Asked
  <2>2. UNCHANGED interleave
    BY Zenon DEF Launch, StartReset, StartCreate, StartAttempt, StartRetry, StartThread,
       StartFinish
  <2>3. \/ started' = TRUE /\ UNCHANGED enabled
        \/ enabled' \in {enabled, enabled \ {"ir"}} /\ UNCHANGED started
    <3>1. CASE StartFinish
      BY <3>1 DEF StartFinish
    <3>2. CASE StartAttempt
      BY <3>2 DEF StartAttempt
    <3>3. CASE StartReset \/ StartCreate \/ StartRetry \/ StartThread
      BY <3>3 DEF StartReset, StartCreate, StartRetry, StartThread
    <3> QED
      BY <3>1, <3>2, <3>3 DEF Launch
  <2>4. Promise!Start
    BY <2>1, <2>2, <2>3 DEF Promise!Start, Promise!WithoutIr, Shown, Held, Asked
  <2> QED
    BY <2>4 DEF Promise!Next
<1> QED
  BY <1>1, <1>2

LEMMA CleanStep ==
    ASSUME IInv, Teardown \/ Halt("clean") \/ Join("clean")
    PROVE  [Promise!Next]_Promise!vars
<1> USE DEF IInv, LockInv, JobInv, At, Goto, PcOK, Callers
<1>1. UNCHANGED <<job, was>> /\ Asked' = Asked
  BY DEF Teardown, CleanBegin, CleanWait, CleanUpdater, CleanLock,
     CleanFree, Halt, Join, StopStreams,
     StopPipeline, StopColor, JoinColor, jobVars, Asked
<1>2. CASE Teardown
  <2>1. /\ UNCHANGED <<started, mode, enabled, interleave>>
        /\ lock' = lock \/ (lock # "exec" /\ lock' # "exec")
    BY <1>2 DEF Teardown, CleanBegin, CleanWait, CleanUpdater, CleanLock,
       CleanFree, LockFree,
       streamVars
  <2> QED
    BY <1>1, <2>1, Seen DEF Held
<1>3. CASE Halt("clean") \/ Join("clean")
  <2>1. ~Held /\ ~Held'
    BY <1>3 DEF Halt, Join, StopStreams, StopPipeline, StopColor, JoinColor, Held
  <2>2. /\ started' = FALSE \/ UNCHANGED started
        /\ interleave' \in {interleave, FALSE}
        /\ UNCHANGED <<mode, enabled>>
    BY <1>3 DEF Halt, Join, StopStreams, StopPipeline, StopColor, JoinColor, streamVars,
       InterleaveAfter
  <2>3. Promise!Shutdown
    BY <1>1, <2>1, <2>2 DEF Promise!Shutdown, Shown, Held, Asked
  <2> QED
    BY <2>3 DEF Promise!Next
<1> QED
  BY <1>2, <1>3

\* Answering shows the clients what the handler has done.
LEMMA AnswerStep ==
    ASSUME IInv, ServiceInv, Answer
    PROVE  Promise!Next
<1> USE DEF IInv
<1>1. /\ pc["exec"] = "answer" /\ job \in Jobs \ {Idle} /\ job.kind # "diag"
      /\ UNCHANGED <<started, mode, enabled, interleave>>
  BY DEF Answer, At, JobInv, streamVars
<1>2. ~Held' /\ Asked' = Promise!None
  BY DEF Answer, Held, Asked, Idle, Promise!None
<1>3. CASE ~Held
  <2>1. lock # "exec" /\ job.kind \in {"start", "stop", "profile", "toggle"} /\ Asked = job
    BY <1>1, <1>3 DEF LockInv, Held, Jobs, Idle, Asked
  <2> DEFINE Same == /\ Shown(started, was.started)' = Shown(started, was.started)
                     /\ Shown(mode, was.mode)' = Shown(mode, was.mode)
                     /\ Shown(enabled, was.enabled)' = Shown(enabled, was.enabled)
                     /\ Shown(interleave, was.interleave)' = Shown(interleave, was.interleave)
  <2>2. Same
    BY <1>1, <1>2, <1>3 DEF Shown, Held
  <2>3. CASE job.kind = "start"
    <3>1. Promise!StartAnswered
      BY <1>2, <2>1, <2>2, <2>3 DEF Promise!StartAnswered, Promise!Answered,
         Promise!streams, Asked
    <3> QED
      BY <3>1 DEF Promise!Next
  <2>4. CASE job.kind = "stop"
    <3>1. Promise!StopAnswered
      BY <1>2, <2>1, <2>2, <2>4 DEF Promise!StopAnswered, Promise!Answered, Asked
    <3> QED
      BY <3>1 DEF Promise!Next
  <2>5. CASE job.kind = "profile"
    <3>1. Promise!ProfileAnswered
      BY <1>2, <2>1, <2>2, <2>5 DEF Promise!ProfileAnswered, Promise!Answered,
         Promise!Restart, Promise!WithoutIr, Asked
    <3> QED
      BY <3>1 DEF Promise!Next
  <2>6. CASE job.kind = "toggle"
    <3>1. Promise!ToggleAnswered
      BY <1>2, <2>1, <2>2, <2>6 DEF Promise!ToggleAnswered, Promise!Answered, Asked
    <3> QED
      BY <3>1 DEF Promise!Next
  <2> QED
    BY <2>1, <2>3, <2>4, <2>5, <2>6
<1>4. CASE Held
  <2> DEFINE Before == /\ Shown(started, was.started) = was.started
                       /\ Shown(mode, was.mode) = was.mode
                       /\ Shown(enabled, was.enabled) = was.enabled
                       /\ Shown(interleave, was.interleave) = was.interleave
             After   == /\ Shown(started, was.started)' = started
                       /\ Shown(mode, was.mode)' = mode
                       /\ Shown(enabled, was.enabled)' = enabled
                       /\ Shown(interleave, was.interleave)' = interleave
  <2>1. Before /\ After
    BY <1>1, <1>2, <1>4 DEF Shown, Held
  <2>2. lock = "exec" /\ job.kind \in {"stop", "profile", "register", "rollback", "toggle"}
    BY <1>1, <1>4 DEF LockInv, Held, Jobs, Idle
  <2>3. /\ started \in BOOLEAN /\ interleave \in BOOLEAN
        /\ was.started \in BOOLEAN /\ was.interleave \in BOOLEAN
    BY DEF BoolInv, WasInv
  <2>4. StopInv /\ ProfileInv /\ RestartInv /\ RegisterInv /\ ToggleInv
    BY <2>2 DEF ServiceInv
  <2> HIDE DEF Before, After
  <2>5. CASE job.kind = "stop"
    <3>1. Promise!StopAnswered
      BY <1>2, <2>1, <2>4, <2>5 DEF Promise!StopAnswered, Promise!Answered, Asked,
         StopInv, Before, After
    <3> QED
      BY <3>1 DEF Promise!Next
  <2>6. CASE job.kind = "profile"
    <3>1. started \in {was.started, FALSE}
      BY <2>3, <2>4, <2>6 DEF RestartInv
    <3>2. Promise!ProfileAnswered
      BY <1>2, <2>1, <2>4, <2>6, <3>1 DEF Promise!ProfileAnswered, Promise!Answered,
         Promise!Restart, Promise!WithoutIr, Asked, ProfileInv, RestartInv, NoIr, Before,
         After
    <3> QED
      BY <3>2 DEF Promise!Next
  <2>7. CASE job.kind \in {"register", "rollback"}
    <3>1. started \in {was.started, FALSE}
      BY <2>3, <2>4, <2>7 DEF RestartInv
    <3>2. interleave \in {was.interleave, was.interleave /\ ~was.started}
      BY <2>3, <2>4, <2>7 DEF RegisterInv
    <3>3. \/ mode = was.mode
          \/ /\ mode = job.arg /\ started = was.started
             /\ job.arg # "off" => {"color", "depth"} \subseteq was.enabled
      BY <1>1, <2>4, <2>7 DEF RegisterInv, RegInv, RegistrationIsAtomic
    <3>4. Asked.kind = "register" /\ Asked.arg = job.arg
      BY <1>1, <2>7, KindArg DEF Asked, Jobs, Idle
    <3>5. Promise!RegisterAnswered
      BY <1>2, <2>1, <2>4, <2>7, <3>1, <3>2, <3>3, <3>4 DEF Promise!RegisterAnswered,
         Promise!Answered, Promise!Restart, Promise!WithoutIr, Asked, RestartInv, NoIr,
         Before, After
    <3> QED
      BY <3>5 DEF Promise!Next
  <2>8. CASE job.kind = "toggle"
    <3>1. Promise!ToggleAnswered
      BY <1>2, <2>1, <2>4, <2>8 DEF Promise!ToggleAnswered, Promise!Answered,
         Promise!WithoutIr, Asked, ToggleInv, Toggled, NoIr, Before, After
    <3> QED
      BY <3>1 DEF Promise!Next
  <2> QED
    BY <2>2, <2>5, <2>6, <2>7, <2>8
<1> QED
  BY <1>3, <1>4

LEMMA RestStep ==
    ASSUME Frame \/ Color \/ UNCHANGED vars
    PROVE  UNCHANGED Promise!vars
<1>1. UNCHANGED <<lock, streamVars, jobVars>>
  BY Zenon DEF Frame, FrameArrive, FramePush, Color, ColorCheck, ColorTake, ColorSleep,
     ColorSpurious, ColorDone, ColorKeeps, vars
<1>2. /\ Asked' = Asked /\ (Held <=> Held')
      /\ UNCHANGED <<started, mode, enabled, interleave, was>>
  BY <1>1 DEF Asked, Held, streamVars, jobVars
<1> QED
  BY <1>2, Seen

\* What the clients of a node see is what StreamService promises them.
THEOREM PromiseKept == Spec => ServicePromise
<1>1. Init => Promise!Init
  <2> SUFFICES ASSUME Init PROVE Promise!Init
    OBVIOUS
  <2>1. ~Held /\ Asked = Idle
    BY DEF Init, Held, Asked, Idle
  <2> QED
    BY <2>1 DEF Init, Promise!Init, Promise!None, Shown, Held, Asked, Idle, Streams
<1>2. Init => ServiceInv
  BY DEF Init, ServiceInv
<1>3. ASSUME IInv, ServiceInv, [Next]_vars
      PROVE  [Promise!Next]_Promise!vars
  <2>1. CASE Serve \/ Diag
    BY <1>3, <2>1, AskStep
  <2>2. CASE TakeLock \/ Handler
    BY <1>3, <2>2, HiddenStep
  <2>3. CASE Answer
    BY <1>3, <2>3, AnswerStep
  <2>4. CASE Launch
    BY <1>3, <2>4, LaunchStep
  <2>5. CASE \E t \in Callers : Halt(t) \/ Join(t)
    BY <1>3, <2>5, HiddenStep, CleanStep DEF Callers
  <2>6. CASE Teardown
    BY <1>3, <2>6, CleanStep
  <2>7. CASE Frame \/ Color \/ UNCHANGED vars
    BY <2>7, RestStep
  <2> QED
    BY <1>3, <2>1, <2>2, <2>3, <2>4, <2>5, <2>6, <2>7, Steps
<1>4. Spec => []ServiceInv
  BY <1>2, Always, ServiceStep, PTL DEF Spec
<1> QED
  BY <1>1, <1>3, <1>4, Always, PTL DEF Spec, ServicePromise, Promise!Spec
=============================================================================
