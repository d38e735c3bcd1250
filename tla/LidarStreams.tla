---------------------------- MODULE LidarStreams ----------------------------
(***************************************************************************)
(* One OBLidarNode from the end of its constructor to the end of its       *)
(* destructor (orbbec_camera/src/ob_lidar_node.cpp).                       *)
(*                                                                         *)
(*   owner  the driver's threads that start the node, reboot the device    *)
(*          and destroy the node; the driver runs them one after another   *)
(*          (where it fails to is the subject of DeviceLifecycle)          *)
(*   frame  the SDK's thread inside onNewFrameSetCallback                  *)
(*   imu    the SDK's thread inside onNewIMUFrameCallback                  *)
(*   tf     tf_thread_, which publishes the transforms                     *)
(*                                                                         *)
(* The format is one whose frames are merged; a frame of another format is *)
(* published as it is, as when publish_n_pkts_ is 1.                       *)
(***************************************************************************)
EXTENDS Naturals

CONSTANTS
    MaxPkts,      \* bound on publish_n_pkts_, 12000 in the code
    MaxFrames,    \* bound on the callbacks of either pipeline
    MaxFaults     \* bound on the calls that throw

ASSUME BoundsAssumption == {MaxPkts, MaxFrames, MaxFaults} \subseteq Nat

VARIABLES
    owner,        \* where the owner is
    last,         \* clean() was called by the destructor
    running,      \* is_running_
    pipe,         \* of "lidar", pipeline_, and "imu", imuPipeline_: "none",
                  \* "idle" or "running"
    on,           \* pipeline_started_ and imu_sync_output_start_
    imuEnabled,   \* enable_imu_
    publishTf,    \* publish_tf_ and tf_publish_rate_ > 0
    ok,           \* rclcpp::ok()
    n,            \* publish_n_pkts_
    frame, imu,   \* where the callbacks are
    tfPublished,  \* tf_published_
    tf,           \* tf_thread_: "none", "loop", "over" or "joined"
    buffer,       \* length of frame_buffer_
    failed,       \* merges that threw since frame_buffer_ was empty
    lateTf,       \* tf_thread_ was made after clean() had begun
    loose,        \* pipelines whose stop() threw
    dead,         \* the process was terminated or works on destroyed members
    frames, faults

config  == <<imuEnabled, publishTf, n>>
streams == <<pipe, on, loose>>
tfVars  == <<tfPublished, tf, lateTf>>
cloud   == <<buffer, failed>>
vars == <<owner, last, running, ok, config, streams, frame, imu, tfVars, cloud,
          dead, frames, faults>>

Pipes == {"lidar", "imu"}

Init ==
    /\ owner = "create" /\ last = FALSE /\ running = TRUE /\ ok = TRUE
    /\ pipe = [p \in Pipes |-> "none"] /\ on = [p \in Pipes |-> FALSE]
    /\ imuEnabled \in BOOLEAN /\ publishTf \in BOOLEAN /\ n \in 1 .. MaxPkts
    /\ frame = "idle" /\ imu = "idle" /\ tfPublished = FALSE /\ tf = "none"
    /\ buffer = 0 /\ failed = 0 /\ lateTf = FALSE /\ loose = {}
    /\ dead = FALSE /\ frames = 0 /\ faults = 0

Destroyed == owner \in {"members", "gone"}
At(l)     == ~dead /\ owner = l
Works     == UNCHANGED faults
Throws    == faults < MaxFaults /\ faults' = faults + 1

-----------------------------------------------------------------------------
(* The owner: startStreams, startIMU *)

OwnerKeeps == UNCHANGED <<ok, config, frame, imu, cloud, frames>>
StartKeeps == OwnerKeeps /\ UNCHANGED <<last, running, tfVars, loose, dead>>

\* startStreams makes a pipeline, startIMU another one when it is asked for
Create(p, make, then) ==
    /\ At(make) /\ StartKeeps /\ UNCHANGED on
    /\ \/ /\ Works /\ owner' = then /\ pipe' = [pipe EXCEPT ![p] = "idle"]
       \/ Throws /\ owner' = "failed" /\ UNCHANGED pipe

\* a start that throws an ob::Error is repeated once, for the lidar only
Start(p, start, then) ==
    /\ At(start) /\ StartKeeps /\ UNCHANGED on
    /\ \/ Works /\ owner' = then /\ pipe' = [pipe EXCEPT ![p] = "running"]
       \/ /\ Throws /\ UNCHANGED pipe
          /\ owner' \in {"failed"} \cup {l \in {"retry"} : start = "attempt"}

\* Mutant: startIMU does not ask whether the IMU is wanted.
Started_ImuToo(p, started, then) ==
    /\ At(started) /\ StartKeeps /\ UNCHANGED pipe /\ Works
    /\ on' = [on EXCEPT ![p] = TRUE]
    /\ owner' = IF p = "lidar" THEN "imuCreate" ELSE then

\* the flag is raised when frames may have come already
Started(p, started, then) ==
    /\ At(started) /\ StartKeeps /\ UNCHANGED pipe /\ Works
    /\ on' = [on EXCEPT ![p] = TRUE] /\ owner' = then

StartStreams ==
    \/ Create("lidar", "create", "attempt") \/ Start("lidar", "attempt", "started")
    \/ Start("lidar", "retry", "started")
    \/ Started("lidar", "started", IF imuEnabled THEN "imuCreate" ELSE "up")
StartIMU ==
    \/ Create("imu", "imuCreate", "imuStart") \/ Start("imu", "imuStart", "imuStarted")
    \/ Started("imu", "imuStarted", "up")

-----------------------------------------------------------------------------
(* The owner: rebootDevice, ~OBLidarNode, clean *)

\* rebootDevice calls clean() for a node that is up; whatever became of the
\* node, the destructor calls it, perhaps for the second time
Clean(d) ==
    /\ At("up") \/ (d /\ At("failed"))
    /\ ~d => ~last /\ running
    /\ last' = d /\ running' = FALSE /\ owner' = "join"
    /\ OwnerKeeps /\ UNCHANGED <<streams, tfVars, dead, faults>>

\* Mutant: the transforms' thread is left to end by itself.
JoinTf_Skipped ==
    /\ At("join") /\ owner' = "stop" /\ UNCHANGED <<tf, tfPublished, lateTf>>
    /\ OwnerKeeps /\ UNCHANGED <<last, running, streams, dead, faults>>

\* a thread that is there is joined; tf_cv_ is not notified, but the thread
\* looks up when its wait times out
JoinTf ==
    /\ At("join") /\ tf # "loop" /\ owner' = "stop"
    /\ tf' = (IF tf = "over" THEN "joined" ELSE tf)
    /\ UNCHANGED <<tfPublished, lateTf>>
    /\ OwnerKeeps /\ UNCHANGED <<last, running, streams, dead, faults>>

Quiet(p) == IF p = "lidar" THEN frame = "idle" ELSE imu = "idle"

\* Mutant: stopping does not wait for the callback.
StopPipe_Hasty(p) ==
    \/ Works /\ pipe' = [pipe EXCEPT ![p] = "idle"] /\ UNCHANGED loose
    \/ /\ Throws /\ loose' = loose \cup {p}
       /\ pipe' \in {pipe, [pipe EXCEPT ![p] = "idle"]}

\* ob::Pipeline::stop() waits for the callback; when it throws, the pipeline
\* may or may not go on
StopPipe(p) ==
    \/ Quiet(p) /\ Works /\ pipe' = [pipe EXCEPT ![p] = "idle"] /\ UNCHANGED loose
    \/ /\ Throws /\ loose' = loose \cup {p}
       /\ pipe' \in {pipe, [pipe EXCEPT ![p] = "idle"]}

\* stopStreams leaves pipeline_started_ up, so the destructor stops a stopped
\* pipeline again; stopIMU lowers its flag when the pipeline has stopped
StopStreams ==
    /\ At("stop") /\ owner' = "stopImu" /\ UNCHANGED on
    /\ IF on["lidar"] THEN StopPipe("lidar") ELSE UNCHANGED <<pipe, loose, faults>>
    /\ OwnerKeeps /\ UNCHANGED <<last, running, tfVars, dead>>
StopIMU ==
    /\ At("stopImu") /\ owner' = (IF last THEN "destroy" ELSE "up")
    /\ IF on["imu"]
         THEN /\ StopPipe("imu")
              /\ on' = [on EXCEPT !["imu"] = @ /\ faults' # faults]
         ELSE UNCHANGED <<pipe, loose, faults, on>>
    /\ OwnerKeeps /\ UNCHANGED <<last, running, tfVars, dead>>

\* the members are destroyed, publishers, buffer and threads before the
\* pipelines; destroying a thread that was not joined ends the process
DestroyMembers ==
    /\ At("destroy") /\ owner' = "members"
    /\ dead' = (tf \in {"loop", "over"})
    /\ OwnerKeeps /\ UNCHANGED <<last, running, streams, tfVars, faults>>
DestroyPipes ==
    /\ At("members") /\ frame = "idle" /\ imu = "idle" /\ owner' = "gone"
    /\ pipe' = [p \in Pipes |-> "none"] /\ UNCHANGED <<on, loose>>
    /\ OwnerKeeps /\ UNCHANGED <<last, running, tfVars, dead, faults>>

Owner ==
    \/ StartStreams \/ StartIMU \/ (\E d \in BOOLEAN : Clean(d)) \/ JoinTf
    \/ StopStreams \/ StopIMU \/ DestroyMembers \/ DestroyPipes

-----------------------------------------------------------------------------
(* The callbacks and the transforms' thread *)

CallbackKeeps == UNCHANGED <<owner, last, running, ok, config, streams>>

\* onNewFrameSetCallback looks at is_running_ first
FrameArrive ==
    /\ ~dead /\ frame = "idle" /\ pipe["lidar"] = "running"
    /\ frames < MaxFrames /\ frames' = frames + 1
    /\ frame' = IF running THEN "in" ELSE "idle"
    /\ CallbackKeeps /\ UNCHANGED <<imu, tfVars, cloud, dead, faults>>

\* publishStaticTransforms, which may throw, and tf_published_
PublishTf ==
    /\ tfPublished' = TRUE
    /\ tf' = (IF publishTf THEN "loop" ELSE tf)
    /\ lateTf' = (lateTf \/ (publishTf /\ ~running))

\* the first frame publishes the transforms, unless there is an IMU to do it
FrameTf ==
    /\ ~dead /\ ~Destroyed /\ frame = "in"
    /\ IF tfPublished \/ imuEnabled
         THEN frame' = "merge" /\ Works /\ UNCHANGED tfVars
         ELSE \/ Works /\ PublishTf /\ frame' = "merge"
              \/ Throws /\ frame' = "idle" /\ UNCHANGED tfVars
    /\ CallbackKeeps /\ UNCHANGED <<imu, cloud, dead, frames>>

\* Mutant: the frames that were merged stay in the buffer.
Merged_Kept == buffer' = buffer + 1 /\ UNCHANGED failed

\* frame_buffer_ is cleared when its frames are published
Merged == buffer' = 0 /\ failed' = 0

\* under frame_buffer_mutex_; when merging throws, the frames stay where they
\* are, and the next frame joins them
FrameMerge ==
    /\ ~dead /\ ~Destroyed /\ frame = "merge" /\ frame' = "idle"
    /\ IF n = 1 THEN Works /\ UNCHANGED cloud
       ELSE IF buffer + 1 < n
         THEN Works /\ buffer' = buffer + 1 /\ UNCHANGED failed
         ELSE \/ Works /\ Merged
              \/ Throws /\ buffer' = buffer + 1 /\ failed' = failed + 1
    /\ CallbackKeeps /\ UNCHANGED <<imu, tfVars, dead, frames>>

\* onNewIMUFrameCallback does not look at is_running_
ImuArrive ==
    /\ ~dead /\ ~Destroyed /\ imu = "idle" /\ pipe["imu"] = "running"
    /\ frames < MaxFrames /\ frames' = frames + 1
    /\ imu' = "in"
    /\ CallbackKeeps /\ UNCHANGED <<frame, tfVars, cloud, dead, faults>>
ImuTf ==
    /\ ~dead /\ ~Destroyed /\ imu = "in" /\ imu' = "idle"
    /\ IF tfPublished THEN Works /\ UNCHANGED tfVars
       ELSE (Works /\ PublishTf) \/ (Throws /\ UNCHANGED tfVars)
    /\ CallbackKeeps /\ UNCHANGED <<frame, cloud, dead, frames>>

\* a callback that goes on when the members are destroyed
Dangle ==
    /\ ~dead /\ Destroyed /\ (frame # "idle" \/ imu # "idle")
    /\ dead' = TRUE
    /\ CallbackKeeps /\ UNCHANGED <<frame, imu, tfVars, cloud, frames, faults>>

\* rclcpp::shutdown
Shutdown ==
    /\ ~dead /\ ok /\ ok' = FALSE
    /\ UNCHANGED <<owner, last, running, config, streams, frame, imu, tfVars,
                   cloud, dead, frames, faults>>

\* publishDynamicTransforms leaves its loop
TfEnds ==
    /\ ~dead /\ tf = "loop" /\ (~ok \/ ~running) /\ tf' = "over"
    /\ CallbackKeeps
    /\ UNCHANGED <<frame, imu, tfPublished, lateTf, cloud, dead, frames, faults>>

Callbacks ==
    \/ FrameArrive \/ FrameTf \/ FrameMerge \/ ImuArrive \/ ImuTf \/ Dangle \/ Shutdown
    \/ TfEnds

Next == Owner \/ Callbacks
Spec == Init /\ [][Next]_vars

-----------------------------------------------------------------------------
(* Properties *)

OwnerPCs == {"create", "attempt", "retry", "started", "imuCreate", "imuStart",
             "imuStarted", "up", "failed", "join", "stop", "stopImu",
             "destroy", "members", "gone"}

\* the variables keep their types, and there is no pipeline for an IMU that
\* was not asked for
TypeOK ==
    /\ owner \in OwnerPCs /\ last \in BOOLEAN /\ running \in BOOLEAN
    /\ ok \in BOOLEAN
    /\ pipe["imu"] # "none" => imuEnabled
    /\ pipe \in [Pipes -> {"none", "idle", "running"}]
    /\ on \in [Pipes -> BOOLEAN] /\ loose \subseteq Pipes
    /\ imuEnabled \in BOOLEAN /\ publishTf \in BOOLEAN /\ n \in 1 .. MaxPkts
    /\ frame \in {"idle", "in", "merge"} /\ imu \in {"idle", "in"}
    /\ tfPublished \in BOOLEAN /\ tf \in {"none", "loop", "over", "joined"}
    /\ lateTf \in BOOLEAN /\ dead \in BOOLEAN
    /\ buffer \in Nat /\ failed \in Nat /\ frames \in Nat /\ faults \in Nat

\* no callback is inside a node whose members are being destroyed, although
\* the pipelines are destroyed last, but for a pipeline whose stop() threw,
\* which clean() logs and forgets
CallbacksOutlived ==
    Destroyed => /\ frame # "idle" => "lidar" \in loose
                 /\ imu # "idle" => "imu" \in loose

\* the process is terminated for a thread that was not joined only when a
\* callback that came before clean() was the first to publish the transforms,
\* or an IMU callback, which clean() keeps out no earlier than its last step
TfThreadJoined ==
    Destroyed /\ tf \in {"loop", "over"} => lateTf

\* frame_buffer_ stays below publish_n_pkts_, but for a frame for each merge
\* that threw: those frames are published late, in a cloud that is too long
BufferBounded ==
    buffer < n + failed
=============================================================================
