--------------------------- MODULE StreamControl ---------------------------
(***************************************************************************)
(* The streams of one OBCameraNode while it serves its clients and is torn *)
(* down (orbbec_camera/src/ob_camera_node.cpp and ros_service.cpp).        *)
(*                                                                         *)
(*   exec   the executor thread: the services that start, stop or change   *)
(*          the streams, and the diagnostics timer                         *)
(*   clean  the driver's reset thread inside clean()                       *)
(*   frame  the SDK's thread inside onNewFrameSetCallback                  *)
(*   color  colorFrameThread_, which converts and publishes color frames   *)
(*                                                                         *)
(* The node is modelled from the end of the first startStreams(); of the   *)
(* three color streams, which are handled alike, COLOR stands for all. A   *)
(* step is one access to state another thread can see.                     *)
(***************************************************************************)
EXTENDS Naturals

CONSTANTS
    Modes,         \* image registration modes, "off" among them
    Togglable,     \* the streams whose toggle service the clients call
    MaxRequests,   \* bound on the requests and timer ticks
    MaxFrames,     \* bound on the frame sets the SDK delivers
    MaxFaults      \* bound on the SDK calls that throw

Streams == {"color", "depth", "ir"}

ASSUME ModesAssumption == "off" \in Modes
ASSUME TogglableAssumption == Togglable \subseteq Streams
ASSUME BoundsAssumption == {MaxRequests, MaxFrames, MaxFaults} \subseteq Nat

VARIABLES
    pc,           \* where exec and clean are
    lock,         \* holder of device_lock_
    running,      \* is_running_ and is_camera_node_initialized_
    enabled,      \* the streams with enable_stream_ set
    started,      \* pipeline_started_
    pipe,         \* pipeline_
    mode,         \* depth_registration_, align_mode_, align_target_stream_
    interleave,   \* interleave_frame_enable_
    buffer,       \* rgb_buffer_: "null", allocated, or "skipped": freed and
                  \* not allocated again because COLOR was switched off
    color,        \* where the color thread is
    handle,       \* colorFrameThread_ is not null
    stop,         \* stop_color_frame_threads_
    queue,        \* length of color_frame_queue_
    frame,        \* where the SDK's frame callback is
    updater,      \* diagnostic_updater_ is not null
    diagRunning,  \* diagnostic_running_
    job,          \* the request exec serves and its argument
    was,          \* what the handler saved when it began
    answer,       \* response->success
    late,         \* startStreams ran without device_lock_ beside or after clean()
    crashed,      \* the process died, of a null or dangling pointer or because
                  \* setupProfiles ended it
    requests, frames, faults

streamVars == <<enabled, started, pipe, mode, interleave, buffer>>
colorVars  == <<color, handle, stop, queue>>
diagVars   == <<updater, diagRunning>>
jobVars    == <<job, was, answer>>
bounds     == <<requests, frames, faults>>
vars == <<pc, lock, running, streamVars, colorVars, frame, diagVars, jobVars,
          late, crashed, bounds>>

Callers == {"exec", "clean"}
Idle    == [kind |-> "none", arg |-> "none"]
Jobs    == {Idle} \cup
           [kind : {"start", "stop", "profile", "diag"}, arg : {"none"}] \cup
           [kind : {"register", "rollback"}, arg : Modes] \cup
           [kind : {"toggle"}, arg : Togglable]

\* the color thread is inside the block that holds color_frame_queue_lock_
InQueueLock == {"doze", "busy"}
Sleeping    == {"asleep", "overslept"}
Exited      == {"none", "left", "done"}
QueueFree   == color \notin InQueueLock

\* get_streams_enable says that the streams run only if they do
Honest == started => pipe = "running"
Now    == [started |-> started, mode |-> mode, interleave |-> interleave,
           enabled |-> enabled, honest |-> Honest]

\* setupImageBuffers
Allocated == IF "color" \in enabled THEN "sized" ELSE "skipped"

Init ==
    /\ pc = [t \in Callers |-> "idle"] /\ lock = "none" /\ running = TRUE
    /\ enabled \in SUBSET Streams /\ started = TRUE /\ pipe = "running"
    /\ mode \in Modes /\ (mode # "off" => {"color", "depth"} \subseteq enabled)
    /\ interleave = TRUE
    /\ buffer = Allocated
    /\ handle = ("color" \in enabled)
    /\ color = IF "color" \in enabled THEN "check" ELSE "none"
    /\ stop = FALSE /\ queue = 0 /\ frame = "idle"
    /\ updater = TRUE /\ diagRunning = FALSE
    /\ job = Idle /\ was = Now /\ answer = "none"
    /\ late = FALSE /\ crashed = FALSE
    /\ requests = 0 /\ frames = 0 /\ faults = 0

\* Mutant: device_lock_ is never held against anybody.
LockFree_Always == TRUE

\* device_lock_ can be taken
LockFree == lock = "none"

At(t, l)   == ~crashed /\ pc[t] = l
Goto(t, l) == pc' = [pc EXCEPT ![t] = l]
Works == UNCHANGED faults
Throws == faults < MaxFaults /\ faults' = faults + 1

-----------------------------------------------------------------------------
(* Requests: arrival, the device lock, the answer *)

Reply(a) == answer' = a /\ Goto("exec", "answer")

Accept(j) ==
    /\ At("exec", "idle") /\ requests < MaxRequests
    /\ requests' = requests + 1 /\ job' = j

Unmoved == UNCHANGED <<lock, running, streamVars, colorVars, frame, diagVars,
                       late, crashed, frames, faults>>

\* setStreamsEnableCallback(true) calls startStreams without device_lock_
ServeStart ==
    /\ Accept([kind |-> "start", arg |-> "none"])
    /\ was' = Now /\ Goto("exec", "start") /\ UNCHANGED answer /\ Unmoved

\* stopStreams, setImageRegistrationModeCallback and toggleSensor lock first
ServeLocked ==
    /\ \/ Accept([kind |-> "stop", arg |-> "none"])
       \/ \E m \in Modes : Accept([kind |-> "register", arg |-> m])
       \/ \E s \in Togglable : Accept([kind |-> "toggle", arg |-> s])
    /\ Goto("exec", "lock") /\ UNCHANGED <<was, answer>> /\ Unmoved

\* validateStreamProfileRequest: the streams must be enabled and the profile
\* must exist and be new; what is asked of it beyond that is not modelled
ServeProfile ==
    /\ Accept([kind |-> "profile", arg |-> "none"])
    /\ was' = Now
    /\ \/ enabled # {} /\ Goto("exec", "lock") /\ UNCHANGED answer
       \/ Reply("failed")
    /\ Unmoved

\* toggleSensorCallback when the stream already is as the client wants it
ServeToggled ==
    /\ \E s \in Togglable : Accept([kind |-> "toggle", arg |-> s])
    /\ was' = Now /\ Reply("ok") /\ Unmoved

\* the handler under device_lock_, up to its first change of the streams
TakeLock ==
    /\ At("exec", "lock") /\ LockFree
    /\ lock' = "exec" /\ was' = Now
    /\ CASE job.kind = "register" ->
              IF job.arg # "off" /\ ~({"color", "depth"} \subseteq enabled)
                THEN Reply("failed")
                ELSE /\ Goto("exec", IF started THEN "stop" ELSE "apply")
                     /\ UNCHANGED answer
         [] job.kind = "profile" ->
              /\ Goto("exec", IF started THEN "stop" ELSE "join")
              /\ UNCHANGED answer
         [] job.kind = "toggle" -> Goto("exec", "halt") /\ UNCHANGED answer
         [] OTHER -> Goto("exec", "stop") /\ UNCHANGED answer
    /\ UNCHANGED <<running, streamVars, colorVars, frame, diagVars, job, late,
                   crashed, bounds>>

\* the handler returns: lock_guard is released and the response is sent
Answer ==
    /\ At("exec", "answer") /\ Goto("exec", "idle")
    /\ lock' = IF lock = "exec" THEN "none" ELSE lock
    /\ job' = Idle
    /\ UNCHANGED <<running, streamVars, colorVars, frame, diagVars, was,
                   answer, late, crashed, bounds>>

-----------------------------------------------------------------------------
(* startStreams, which only exec calls *)

\* an exception leaves startStreams: only the registration mode handles it
StartThrows ==
    IF job.kind = "register" THEN Goto("exec", "rollback") /\ UNCHANGED answer
    ELSE Reply("failed")
StartReturns ==
    Reply(IF job.kind = "rollback" THEN "failed" ELSE "ok")

Starting(l) ==
    At("exec", l) /\ late' = (late \/ (lock # "exec" /\ pc["clean"] # "idle"))
StartKeeps  == UNCHANGED <<lock, running, mode, buffer, stop, queue, frame,
                           diagVars, job, was, requests, frames>>

\* pipeline_.reset() waits for the frame callback of a running pipeline; what
\* it does to a clean() inside pipeline_->stop() is undefined
StartReset ==
    /\ Starting("start") /\ frame = "idle" /\ pipe' = "none"
    /\ crashed' \in {FALSE, pc["clean"] = "stopping"}
    /\ Goto("exec", "create") /\ Works /\ StartKeeps
    /\ UNCHANGED <<enabled, started, interleave, color, handle, answer>>

\* when ob::Pipeline cannot be made there is none
StartCreate ==
    /\ Starting("create")
    /\ \/ Works /\ pipe' = "idle" /\ Goto("exec", "attempt") /\ UNCHANGED answer
       \/ Throws /\ StartThrows /\ UNCHANGED pipe
    /\ StartKeeps
    /\ UNCHANGED <<enabled, started, interleave, color, handle, crashed>>

\* an ob::Error switches the infrared stream off and is followed by a second
\* attempt, any other exception is passed on
StartAttempt ==
    /\ Starting("attempt")
    /\ \/ /\ Works /\ pipe' = "running" /\ Goto("exec", "thread")
          /\ UNCHANGED <<enabled, answer>>
       \/ /\ Throws /\ enabled' = enabled \ {"ir"} /\ Goto("exec", "retry")
          /\ UNCHANGED <<pipe, answer>>
       \/ Throws /\ StartThrows /\ UNCHANGED <<pipe, enabled>>
    /\ StartKeeps /\ UNCHANGED <<started, interleave, color, handle, crashed>>

StartRetry ==
    /\ Starting("retry")
    /\ \/ /\ Works /\ pipe' = "running" /\ Goto("exec", "thread")
          /\ UNCHANGED answer
       \/ Throws /\ StartThrows /\ UNCHANGED pipe
    /\ StartKeeps
    /\ UNCHANGED <<enabled, started, interleave, color, handle, crashed>>

StartThread ==
    /\ Starting("thread") /\ Goto("exec", "finish")
    /\ IF "color" \in enabled /\ ~handle
         THEN handle' = TRUE /\ color' = "check"
         ELSE UNCHANGED <<handle, color>>
    /\ Works /\ StartKeeps
    /\ UNCHANGED <<enabled, started, pipe, interleave, answer, crashed>>

\* programming the interleave may still throw, now with a running pipeline
StartFinish ==
    /\ Starting("finish")
    /\ \/ Works /\ started' = TRUE /\ StartReturns
       \/ Throws /\ StartThrows /\ UNCHANGED started
    /\ StartKeeps
    /\ UNCHANGED <<enabled, pipe, interleave, color, handle, crashed>>

-----------------------------------------------------------------------------
(* stopStreams, stopColorFrameThreads and clean(): exec or clean *)

\* where the caller goes on; exec's handler decides by the request it serves
AfterStop(t) ==
    \/ t = "clean" /\ Goto(t, "free") /\ UNCHANGED answer
    \/ /\ t = "exec" /\ job.kind = "register" /\ Goto(t, "apply")
       /\ UNCHANGED answer
    \/ /\ t = "exec" /\ job.kind = "profile" /\ Goto(t, "join")
       /\ UNCHANGED answer
    \/ t = "exec" /\ job.kind \notin {"register", "profile"} /\ Reply("ok")
AfterJoin(t) == Goto(t, IF t = "clean" THEN "stop" ELSE "setup")

\* Mutant: pipeline_started_ is left up.
StopStreams_FlagKept(t) ==
    /\ At(t, "stop")
    /\ IF started /\ pipe # "none" THEN Goto(t, "stopping") /\ UNCHANGED answer
       ELSE AfterStop(t)
    /\ UNCHANGED <<lock, running, streamVars, colorVars, frame, diagVars, job,
                   was, late, crashed, bounds>>

\* Mutant: the streams are taken to be stopped.
StopStreams_Skipped(t) ==
    /\ At(t, "stop") /\ AfterStop(t)
    /\ UNCHANGED <<lock, running, streamVars, colorVars, frame, diagVars, job,
                   was, late, crashed, bounds>>

StopStreams(t) ==
    /\ At(t, "stop")
    /\ IF started /\ pipe # "none"
         THEN started' = FALSE /\ Goto(t, "stopping") /\ UNCHANGED answer
         ELSE UNCHANGED started /\ AfterStop(t)
    /\ UNCHANGED <<lock, running, enabled, pipe, mode, interleave, buffer,
                   colorVars, frame, diagVars, job, was, late, crashed,
                   bounds>>

\* Mutant: applyStreamProfiles forgets the interleaving that stopping ends.
InterleaveAfter_Lost(t) == FALSE

\* applyStreamProfiles, alone of the callers, puts interleave_frame_enable_
\* back, before it does anything else
InterleaveAfter(t) == t = "exec" /\ job.kind = "profile" /\ was.interleave

\* pipeline_->stop() waits for the frame callback; when it throws, the
\* pipeline may or may not go on
StopPipeline(t) ==
    /\ At(t, "stopping")
    /\ IF pipe = "none"
         THEN crashed' = TRUE /\ UNCHANGED <<pc, answer, pipe, interleave,
                                             faults>>
         ELSE /\ \/ /\ frame = "idle" /\ Works /\ pipe' = "idle"
                    /\ interleave' = InterleaveAfter(t)
                 \/ Throws /\ pipe' \in {pipe, "idle"} /\ UNCHANGED interleave
              /\ AfterStop(t) /\ UNCHANGED crashed
    /\ UNCHANGED <<lock, running, enabled, started, mode, buffer, colorVars,
                   frame, diagVars, job, was, late, requests, frames>>

\* Mutant: nobody is notified.
Notified_Nobody == color

\* notify_one or notify_all of color_frame_queue_cv_
Notified == IF color \in Sleeping THEN "lock" ELSE color

\* stopColorFrameThreads raises its flag and notifies, neither under the mutex
\* of the condition variable, so it misses a thread that is about to sleep
StopColor(t) ==
    /\ At(t, "join")
    /\ IF handle THEN stop' = TRUE /\ color' = Notified /\ Goto(t, "joining")
       ELSE UNCHANGED <<stop, color>> /\ AfterJoin(t)
    /\ UNCHANGED <<lock, running, streamVars, handle, queue, frame, diagVars,
                   jobVars, late, crashed, bounds>>

\* Mutant: the thread is detached, not joined.
JoinColor_Detached(t) ==
    /\ At(t, "joining")
    /\ handle' = FALSE /\ stop' = FALSE /\ AfterJoin(t)
    /\ UNCHANGED <<lock, running, streamVars, color, queue, frame, diagVars,
                   jobVars, late, crashed, bounds>>

\* Mutant: the handle of the joined thread is kept.
JoinColor_HandleKept(t) ==
    /\ At(t, "joining") /\ color \in Exited
    /\ stop' = FALSE /\ color' = "none" /\ AfterJoin(t)
    /\ UNCHANGED <<lock, running, streamVars, handle, queue, frame, diagVars,
                   jobVars, late, crashed, bounds>>

JoinColor(t) ==
    /\ At(t, "joining") /\ color \in Exited
    /\ handle' = FALSE /\ stop' = FALSE /\ color' = "none" /\ AfterJoin(t)
    /\ UNCHANGED <<lock, running, streamVars, queue, frame, diagVars, jobVars,
                   late, crashed, bounds>>

-----------------------------------------------------------------------------
(* The rest of the handlers *)

\* applyStreamProfiles with its color thread gone: clearColorFrameQueues, the
\* new profiles, setupImageBuffers; none of it is undone when it throws
SetupBuffers ==
    /\ At("exec", "setup") /\ QueueFree
    /\ queue' = 0
    /\ \/ /\ Works /\ buffer' = Allocated
          /\ IF was.started THEN Goto("exec", "start") /\ UNCHANGED answer
             ELSE Reply("ok")
       \/ Throws /\ Reply("failed") /\ UNCHANGED buffer
    /\ UNCHANGED <<lock, running, enabled, started, pipe, mode, interleave,
                   color, handle, stop, frame, diagVars, job, was, late,
                   crashed, requests, frames>>

\* apply_image_registration_mode, whose syncSoftwareAlignment may throw
ApplyMode ==
    /\ At("exec", "apply") /\ mode' = job.arg
    /\ \/ /\ Works
          /\ IF was.started THEN Goto("exec", "start") /\ UNCHANGED answer
             ELSE Reply("ok")
       \/ Throws /\ Goto("exec", "rollback") /\ UNCHANGED answer
    /\ UNCHANGED <<lock, running, enabled, started, pipe, interleave, buffer,
                   colorVars, frame, diagVars, job, was, late, crashed,
                   requests, frames>>

\* Mutant: the old registration mode is not put back.
Rollback_ModeKept ==
    /\ At("exec", "rollback")
    /\ job' = [job EXCEPT !.kind = "rollback"]
    /\ IF was.started /\ ~started
         THEN Goto("exec", "start") /\ UNCHANGED answer
         ELSE Reply("failed")
    /\ UNCHANGED <<lock, running, streamVars, colorVars, frame, diagVars, was,
                   late, crashed, bounds>>

\* rollback_after_error: restore_old_mode, whose syncSoftwareAlignment may
\* throw, and the streams again if they ran and do not
Rollback ==
    /\ At("exec", "rollback")
    /\ job' = [job EXCEPT !.kind = "rollback"]
    /\ mode' = was.mode
    /\ \/ /\ was.started /\ ~started /\ Works
          /\ Goto("exec", "start") /\ UNCHANGED answer
       \/ ~(was.started /\ ~started) /\ Works /\ Reply("failed")
       \/ Throws /\ Reply("failed")
    /\ UNCHANGED <<lock, running, enabled, started, pipe, interleave, buffer,
                   colorVars, frame, diagVars, was, late, crashed, requests,
                   frames>>

\* toggleSensor stops the pipeline itself, whether there is one or not, and
\* leaves pipeline_started_ alone
ToggleHalt ==
    /\ At("exec", "halt")
    /\ IF pipe = "none"
         THEN crashed' = TRUE /\ UNCHANGED <<pc, answer, pipe, faults>>
         ELSE /\ \/ /\ frame = "idle" /\ Works /\ pipe' = "idle"
                    /\ Goto("exec", "toggle") /\ UNCHANGED answer
                 \/ Throws /\ pipe' \in {pipe, "idle"} /\ Reply("failed")
              /\ UNCHANGED crashed
    /\ UNCHANGED <<lock, running, enabled, started, mode, interleave, buffer,
                   colorVars, frame, diagVars, job, was, late, requests,
                   frames>>

\* and then setupProfiles for the streams now enabled: an ob::Error while it
\* selects a profile, a stream without a sensor and a sensor without profiles
\* end the process, any other exception is answered
ToggleProfiles ==
    /\ At("exec", "toggle")
    /\ enabled' = (enabled \ {job.arg}) \cup ({job.arg} \ enabled)
    /\ \/ Works /\ Goto("exec", "start") /\ UNCHANGED <<answer, crashed>>
       \/ Throws /\ Reply("failed") /\ UNCHANGED crashed
       \/ Throws /\ crashed' = TRUE /\ UNCHANGED <<pc, answer>>
    /\ UNCHANGED <<lock, running, started, pipe, mode, interleave, buffer,
                   colorVars, frame, diagVars, job, was, late, requests,
                   frames>>

\* the diagnostics timer: check, try_lock, announce, update
DiagCheck ==
    /\ Accept([kind |-> "diag", arg |-> "none"]) /\ running /\ updater
    /\ Goto("exec", "tryLock") /\ UNCHANGED <<was, answer>> /\ Unmoved

DiagTryLock ==
    /\ At("exec", "tryLock")
    /\ IF LockFree
         THEN lock' = "exec" /\ Goto("exec", "announce") /\ UNCHANGED job
         ELSE Goto("exec", "idle") /\ job' = Idle /\ UNCHANGED lock
    /\ UNCHANGED <<running, streamVars, colorVars, frame, diagVars, was,
                   answer, late, crashed, bounds>>

DiagAnnounce ==
    /\ At("exec", "announce") /\ diagRunning' = TRUE /\ Goto("exec", "update")
    /\ UNCHANGED <<lock, running, streamVars, colorVars, frame, updater,
                   jobVars, late, crashed, bounds>>

DiagUpdate ==
    /\ At("exec", "update")
    /\ IF ~updater THEN crashed' = TRUE /\ UNCHANGED <<lock, diagRunning, job, pc>>
       ELSE /\ lock' = "none" /\ diagRunning' = FALSE /\ job' = Idle
            /\ Goto("exec", "idle") /\ UNCHANGED crashed
    /\ UNCHANGED <<running, streamVars, colorVars, frame, updater, was,
                   answer, late, bounds>>

-----------------------------------------------------------------------------
(* clean(), on the driver's reset thread *)

CleanBegin ==
    /\ At("clean", "idle") /\ running' = FALSE /\ Goto("clean", "wait")
    /\ UNCHANGED <<lock, streamVars, colorVars, frame, diagVars, jobVars, late,
                   crashed, bounds>>

\* waits on diagnostic_cv_, whose flag is lowered under the mutex
CleanWait ==
    /\ At("clean", "wait") /\ ~diagRunning /\ Goto("clean", "reset")
    /\ UNCHANGED <<lock, running, streamVars, colorVars, frame, diagVars,
                   jobVars, late, crashed, bounds>>

\* a tick that has checked before and announces itself only now is not waited
\* for
CleanUpdater ==
    /\ At("clean", "reset") /\ updater' = FALSE /\ Goto("clean", "lock")
    /\ UNCHANGED <<lock, running, streamVars, colorVars, frame, diagRunning,
                   jobVars, late, crashed, bounds>>

CleanLock ==
    /\ At("clean", "lock") /\ LockFree /\ lock' = "clean"
    /\ Goto("clean", "join")
    /\ UNCHANGED <<running, streamVars, colorVars, frame, diagVars, jobVars,
                   late, crashed, bounds>>

CleanFree ==
    /\ At("clean", "free") /\ buffer' = "null" /\ lock' = "none"
    /\ Goto("clean", "done")
    /\ UNCHANGED <<running, enabled, started, pipe, mode, interleave,
                   colorVars, frame, diagVars, jobVars, late, crashed, bounds>>

-----------------------------------------------------------------------------
(* The SDK's frame callback and the color thread *)

\* the callback reads is_running_ first; frames of a node that is being torn
\* down are dropped there
FrameArrive ==
    /\ ~crashed /\ frame = "idle" /\ pipe = "running" /\ frames < MaxFrames
    /\ frames' = frames + 1
    /\ frame' = IF running THEN "in" ELSE "idle"
    /\ UNCHANGED <<pc, lock, running, streamVars, colorVars, diagVars, jobVars,
                   late, crashed, requests, faults>>

\* it filters and aligns, and hands a color frame on under the queue's mutex
FramePush ==
    /\ ~crashed /\ frame = "in" /\ frame' = "idle"
    /\ IF "color" \in enabled
         THEN QueueFree /\ queue' = queue + 1 /\ color' = Notified
         ELSE UNCHANGED <<queue, color>>
    /\ UNCHANGED <<pc, lock, running, streamVars, handle, stop, diagVars,
                   jobVars, late, crashed, bounds>>

ColorKeeps == UNCHANGED <<pc, lock, running, streamVars, handle, stop, frame,
                          diagVars, jobVars, late, crashed, bounds>>

\* the loop's condition
ColorCheck ==
    /\ ~crashed /\ color = "check"
    /\ color' = IF ~running \/ stop THEN "done"
                ELSE IF "color" \in enabled THEN "lock" ELSE "left"
    /\ UNCHANGED queue /\ ColorKeeps

\* Mutant: the wait has no predicate, any wake-up will do.
ColorTake_NoPredicate ==
    /\ ~crashed /\ color = "lock"
    /\ color' \in {"doze", IF ~running \/ stop THEN "done" ELSE "busy"}
    /\ UNCHANGED queue /\ ColorKeeps

\* with the mutex in hand: the predicate of the wait, and the test after it
ColorTake ==
    /\ ~crashed /\ color = "lock"
    /\ color' = IF ~running \/ stop THEN "done"
                ELSE IF queue > 0 THEN "busy" ELSE "doze"
    /\ UNCHANGED queue /\ ColorKeeps

\* it releases the mutex and sleeps in one step; "overslept" marks the sleep
\* of a thread that stopColorFrameThreads has already notified
ColorSleep ==
    /\ ~crashed /\ color = "doze"
    /\ color' = IF stop THEN "overslept" ELSE "asleep"
    /\ UNCHANGED queue /\ ColorKeeps

ColorSpurious ==
    /\ ~crashed /\ color \in Sleeping /\ color' = "lock"
    /\ UNCHANGED queue /\ ColorKeeps

\* decoded into rgb_buffer_ and published, then popped
ColorDone ==
    /\ ~crashed /\ color = "busy" /\ color' = "check" /\ queue' = queue - 1
    /\ ColorKeeps

Exec ==
    \/ ServeStart \/ ServeLocked \/ ServeProfile \/ ServeToggled \/ TakeLock
    \/ Answer
    \/ StartReset \/ StartCreate \/ StartAttempt \/ StartRetry \/ StartThread
    \/ StartFinish
    \/ StopStreams("exec") \/ StopPipeline("exec") \/ StopColor("exec")
    \/ JoinColor("exec")
    \/ SetupBuffers \/ ApplyMode \/ Rollback \/ ToggleHalt \/ ToggleProfiles
    \/ DiagCheck \/ DiagTryLock \/ DiagAnnounce \/ DiagUpdate
Clean ==
    \/ CleanBegin \/ CleanWait \/ CleanUpdater \/ CleanLock \/ CleanFree
    \/ StopStreams("clean") \/ StopPipeline("clean") \/ StopColor("clean")
    \/ JoinColor("clean")
Frame == FrameArrive \/ FramePush
Color == ColorCheck \/ ColorTake \/ ColorSleep \/ ColorSpurious \/ ColorDone

Next == Exec \/ Clean \/ Frame \/ Color
Spec == Init /\ [][Next]_vars

\* every thread goes on with what it has begun while it can; nobody owes the
\* node a request, a clean() or a frame. The color thread may wake up
\* spuriously for ever, so the frame callback needs a mutex that is not kept
\* from it for ever
FairSpec ==
    /\ Spec
    /\ WF_vars(pc["exec"] # "idle" /\ Exec)
    /\ WF_vars(pc["clean"] # "idle" /\ Clean) /\ SF_vars(FramePush)
    /\ WF_vars(ColorCheck) /\ WF_vars(ColorTake) /\ WF_vars(ColorSleep)
    /\ WF_vars(ColorDone)

-----------------------------------------------------------------------------
(* Properties *)

ExecPCs  == {"idle", "lock", "answer", "start", "create", "attempt", "retry",
             "thread", "finish", "stop", "stopping", "join", "joining",
             "setup", "apply", "rollback", "halt", "toggle", "tryLock",
             "announce", "update"}
CleanPCs == {"idle", "wait", "reset", "lock", "join", "joining", "stop", "stopping",
             "free", "done"}

\* the variables keep their types, and whoever joins a color thread still has
\* its handle (stopColorFrameThreads)
TypeOK ==
    /\ pc \in [Callers -> ExecPCs \cup CleanPCs]
    /\ pc["exec"] \in ExecPCs /\ pc["clean"] \in CleanPCs
    /\ lock \in Callers \cup {"none"}
    /\ enabled \subseteq Streams /\ mode \in Modes
    /\ pipe \in {"none", "idle", "running"}
    /\ buffer \in {"null", "sized", "skipped"}
    /\ color \in {"check", "lock"} \cup Sleeping \cup InQueueLock \cup Exited
    /\ frame \in {"idle", "in"} /\ queue \in Nat
    /\ {running, started, interleave, handle, stop, updater, diagRunning,
        late, crashed} \subseteq BOOLEAN
    /\ job \in Jobs /\ answer \in {"none", "ok", "failed"}
    /\ was \in [started : BOOLEAN, mode : Modes, interleave : BOOLEAN,
                enabled : SUBSET Streams, honest : BOOLEAN]
    /\ {requests, frames, faults} \subseteq Nat

\* the color thread decodes into a buffer that neither applyStreamProfiles nor
\* clean() has freed under it, although neither takes the queue's mutex to
\* free it: both have joined the thread, and a thread that startStreams makes
\* beside clean() finds is_running_ false
DecodesIntoBuffer == color = "busy" => buffer # "null"

\* while no request is served and the node is not torn down, running streams
\* with COLOR enabled have a thread that takes their color frames; the one
\* exception is a thread that left because COLOR was toggled off under it,
\* whose handle keeps startStreams from making another
ColorIsServed ==
    pc["exec"] = "idle" /\ running /\ started /\ pipe = "running"
        /\ "color" \in enabled
    => handle /\ color \notin {"none", "done"}

\* get_streams_enable: no request leaves pipeline_started_ set over a pipeline
\* that does not run, but for a toggle or a start that answers with a failure
\* and a start that races clean()
StartedIsHonest ==
    pc["exec"] = "answer" /\ was.honest /\ ~late
        /\ (answer = "ok" \/ job.kind \notin {"toggle", "start"})
    => Honest

\* setImageRegistrationModeCallback: a failed request has its old mode back
\* ("Rolled back to"), a successful one the new mode and the streams as before
RegistrationIsAtomic ==
    pc["exec"] = "answer" =>
        /\ job.kind = "rollback" => mode = was.mode /\ answer = "failed"
        /\ job.kind = "register" /\ answer = "ok" =>
              mode = job.arg /\ started = was.started

\* of what is modelled here the process dies in four ways only: of a
\* startStreams that takes no lock beside or after clean(), in a tick of the
\* diagnostics timer that clean() did not wait for, in a toggle after ob::Pipeline
\* could not be made, and in the setupProfiles of a toggle, which ends the
\* process itself. The handlers that hold device_lock_ never meet a pipeline
\* that clean() is stopping
OnlyKnownRaces ==
    crashed =>
        \/ late
        \/ pc["exec"] = "update" /\ ~updater
        \/ pc["exec"] = "halt" /\ pipe = "none" /\ faults > 0
        \/ pc["exec"] = "toggle" /\ faults > 0

\* what exec and clean() wait for: device_lock_, the color thread they join,
\* the frame callback that a stop or reset of the pipeline waits for, the
\* mutex of the queue, a diagnostics update
Waits(t) ==
    \/ pc[t] = "lock" /\ lock # "none"
    \/ pc[t] = "joining" /\ color \notin Exited
    \/ pc[t] \in {"start", "stopping", "halt"} /\ frame # "idle"
    \/ pc[t] = "setup" /\ ~QueueFree
    \/ pc[t] = "wait" /\ diagRunning
Proceeds(t) == pc[t] \notin {"idle", "done"} /\ ~Waits(t)
FrameProceeds == frame # "idle" /\ ("color" \in enabled => QueueFree)
ColorProceeds == color \in {"check", "lock"} \cup InQueueLock

\* the wake-ups reach the color thread and nobody waits in a ring: the thread
\* sleeps only while there is neither a frame to take nor a stop to obey, and
\* whatever a handler or clean() waits for, one of the four threads goes on.
\* The one exception is a thread that slept over the notification of a stop
StreamsMoveOn ==
    /\ color = "asleep" => queue = 0 /\ ~stop
    /\ ~crashed /\ color # "overslept" /\ (\E t \in Callers : Waits(t))
         => ColorProceeds \/ FrameProceeds \/ \E t \in Callers : Proceeds(t)

\* the align filter, which apply_image_registration_mode resets without any
\* lock of the frame callback's, is never replaced under a running callback,
\* not even for the mode that is set already, unless an SDK call has thrown: then
\* pipeline_started_ may be down over a pipeline that runs, and stopStreams has
\* nothing to stop
FilterSwappedStopped ==
    [][ApplyMode \/ Rollback => frame = "idle" \/ faults > 0]_vars

\* clean() returns with the color thread joined, unless a startStreams without
\* the lock has made another in the meantime
CleanJoinsColor ==
    [][pc["clean"] = "free" /\ pc'["clean"] = "done" =>
          late \/ (~handle /\ color \in Exited)]_vars

\* a client finds the streams as StreamService promises: what a handler does
\* under device_lock_ shows when it returns
Shown(now, before) == IF lock = "exec" /\ job.kind # "diag" THEN before ELSE now
Promise == INSTANCE StreamService WITH
    request    <- CASE job.kind = "diag" -> Idle
                    [] job.kind = "rollback" -> [job EXCEPT !.kind = "register"]
                    [] OTHER -> job,
    streaming  <- Shown(started, was.started),
    mode       <- Shown(mode, was.mode),
    enabled    <- Shown(enabled, was.enabled),
    interleave <- Shown(interleave, was.interleave)
ServicePromise == Promise!Spec

\* every request is answered and clean() returns; the notification a
\* color thread misses between its predicate and its sleep is the only thing
\* that can keep them, whatever the SDK throws
EveryoneReturns ==
    /\ (pc["exec"] # "idle") ~>
          (pc["exec"] = "idle" \/ color = "overslept" \/ crashed)
    /\ (pc["clean"] # "idle") ~>
          (pc["clean"] = "done" \/ color = "overslept" \/ crashed)

\* a color thread that is there takes every frame it is handed
QueueDrains ==
    queue > 0 ~> (queue = 0 \/ ~running \/ color \in Exited \/ crashed)
=============================================================================
