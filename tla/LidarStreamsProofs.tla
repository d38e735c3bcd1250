------------------------- MODULE LidarStreamsProofs -------------------------
(***************************************************************************)
(* Proofs about LidarStreams, for any bounds.  The properties are those    *)
(* that the run lidar_streams checks.                                      *)
(***************************************************************************)
EXTENDS LidarStreams, TLAPS

\* What a step may be: the actions of Next.
LEMMA Steps ==
    ASSUME Next
    PROVE  \/ StartStreams \/ StartIMU
           \/ (\E d \in BOOLEAN : Clean(d)) \/ JoinTf \/ StopStreams \/ StopIMU
           \/ DestroyMembers \/ DestroyPipes
           \/ FrameArrive \/ FrameTf \/ FrameMerge \/ ImuArrive \/ ImuTf
           \/ Dangle \/ Shutdown \/ TfEnds
BY DEF Next, Owner, Callbacks

-----------------------------------------------------------------------------
(* Types *)

\* startIMU has not returned early
ImuAsked ==
    owner \in {"imuCreate", "imuStart", "imuStarted"} \/ on["imu"] => imuEnabled

\* TypeOK in parts that few actions disturb
Flags ==
    /\ last \in BOOLEAN /\ running \in BOOLEAN /\ ok \in BOOLEAN
    /\ imuEnabled \in BOOLEAN /\ publishTf \in BOOLEAN
    /\ tfPublished \in BOOLEAN /\ lateTf \in BOOLEAN /\ dead \in BOOLEAN
Counts == n \in 1 .. MaxPkts /\ {buffer, failed, frames, faults} \subseteq Nat
Places ==
    /\ owner \in OwnerPCs /\ frame \in {"idle", "in", "merge"}
    /\ imu \in {"idle", "in"} /\ tf \in {"none", "loop", "over", "joined"}
Pipelines ==
    /\ pipe \in [Pipes -> {"none", "idle", "running"}]
    /\ on \in [Pipes -> BOOLEAN] /\ loose \subseteq Pipes
    /\ pipe["imu"] # "none" => imuEnabled
    /\ ImuAsked

TypeInv == Flags /\ Counts /\ Places /\ Pipelines

LEMMA TypeParts == TypeInv <=> TypeOK /\ ImuAsked
BY DEF TypeInv, TypeOK, Flags, Counts, Places, Pipelines

LEMMA TypeInit == Init => TypeInv
<1> SUFFICES ASSUME Init PROVE TypeInv
  OBVIOUS
<1>1. Flags
  BY Zenon DEF Init, Flags
<1>2. Counts
  BY DEF Init, Counts
<1>3. Places
  BY DEF Init, Places, OwnerPCs
<1>4. Pipelines
  BY DEF Init, Pipelines, Pipes, ImuAsked
<1> QED
  BY <1>1, <1>2, <1>3, <1>4 DEF TypeInv

LEMMA TypeStart ==
    ASSUME TypeInv,
           NEW p \in Pipes, NEW a \in OwnerPCs, NEW b \in OwnerPCs,
           b \in {"imuCreate", "imuStart", "imuStarted"} => imuEnabled,
           p = "imu" => imuEnabled,
           Create(p, a, b) \/ Start(p, a, b) \/ Started(p, a, b)
    PROVE  TypeInv'
<1>1. Flags'
  BY DEF TypeInv, Flags, Create, Start, Started, StartKeeps, OwnerKeeps, config,
         tfVars
<1>2. Counts'
  BY DEF TypeInv, Counts, Create, Start, Started, StartKeeps, OwnerKeeps, config,
         cloud, Works, Throws
<1>3. Places'
  BY DEF TypeInv, Places, OwnerPCs, Create, Start, Started, StartKeeps, OwnerKeeps,
         tfVars
<1>4. Pipelines'
  BY DEF TypeInv, Pipelines, Pipes, ImuAsked, Create, Start, Started, StartKeeps,
         OwnerKeeps, config
<1> QED
  BY <1>1, <1>2, <1>3, <1>4 DEF TypeInv

LEMMA TypeClean ==
    ASSUME TypeInv, NEW d \in BOOLEAN, Clean(d)
    PROVE  TypeInv'
<1>1. Flags'
  <2>1. last' \in BOOLEAN /\ running' \in BOOLEAN
    BY Zenon DEF Clean
  <2> QED
    BY <2>1 DEF TypeInv, Flags, Clean, OwnerKeeps, config, tfVars
<1>2. Counts'
  BY DEF TypeInv, Counts, Clean, OwnerKeeps, config, cloud
<1>3. Places'
  BY DEF TypeInv, Places, OwnerPCs, Clean, OwnerKeeps, tfVars
<1>4. Pipelines'
  <2>1. owner' = "join" /\ imuEnabled' = imuEnabled /\ UNCHANGED <<pipe, on, loose>>
    BY Zenon DEF Clean, OwnerKeeps, config, streams
  <2> QED
    BY <2>1 DEF TypeInv, Pipelines, ImuAsked
<1> QED
  BY <1>1, <1>2, <1>3, <1>4 DEF TypeInv

LEMMA TypeStop ==
    ASSUME TypeInv, JoinTf \/ StopStreams \/ StopIMU \/ DestroyMembers \/ DestroyPipes
    PROVE  TypeInv'
<1>1. dead' \in BOOLEAN
  <2>1. CASE DestroyMembers
    <3>1. dead' = (tf \in {"loop", "over"})
      BY <2>1, Zenon DEF DestroyMembers
    <3>2. (tf \in {"loop", "over"}) \in BOOLEAN
      OBVIOUS
    <3> QED
      BY <3>1, <3>2, Zenon
  <2>2. CASE JoinTf \/ StopStreams \/ StopIMU \/ DestroyPipes
    BY <2>2 DEF TypeInv, Flags, JoinTf, StopStreams, StopIMU, DestroyPipes
  <2> QED
    BY <2>1, <2>2
<1>2. Flags'
  BY <1>1 DEF TypeInv, Flags, JoinTf, StopStreams, StopIMU, DestroyMembers,
         DestroyPipes, OwnerKeeps, config, tfVars
<1>3. Counts'
  BY DEF TypeInv, Counts, JoinTf, StopStreams, StopIMU, DestroyMembers,
         DestroyPipes, StopPipe, OwnerKeeps, config, cloud, Works, Throws
<1>4. Places'
  BY DEF TypeInv, Places, OwnerPCs, JoinTf, StopStreams, StopIMU, DestroyMembers,
         DestroyPipes, OwnerKeeps, tfVars
<1>5. Pipelines'
  <2>1. CASE StopStreams \/ StopIMU
    <3>1. imuEnabled' = imuEnabled
      BY <2>1 DEF StopStreams, StopIMU, OwnerKeeps, config
    <3>2. loose' \subseteq Pipes /\ pipe' \in [Pipes -> {"none", "idle", "running"}]
      BY <2>1 DEF TypeInv, Pipelines, Pipes, StopStreams, StopIMU, StopPipe
    <3>3. on' \in [Pipes -> BOOLEAN]
      BY <2>1 DEF TypeInv, Pipelines, Pipes, StopStreams, StopIMU
    <3>4. (pipe["imu"] # "none" => imuEnabled)'
      BY <2>1, <3>1 DEF TypeInv, Pipelines, Pipes, ImuAsked, StopStreams, StopIMU, StopPipe
    <3>5. ImuAsked'
      BY <2>1, <3>1 DEF TypeInv, Pipelines, Pipes, ImuAsked, StopStreams, StopIMU
    <3> QED
      BY <3>2, <3>3, <3>4, <3>5 DEF Pipelines
  <2>2. CASE JoinTf \/ DestroyMembers \/ DestroyPipes
    BY <2>2 DEF TypeInv, Pipelines, Pipes, ImuAsked, JoinTf, DestroyMembers,
       DestroyPipes, OwnerKeeps, config, streams
  <2> QED
    BY <2>1, <2>2
<1> QED
  BY <1>2, <1>3, <1>4, <1>5 DEF TypeInv

LEMMA TypeCallbacks ==
    ASSUME TypeInv,
           \/ FrameArrive \/ FrameTf \/ FrameMerge \/ ImuArrive \/ ImuTf
           \/ Dangle \/ Shutdown \/ TfEnds
    PROVE  TypeInv'
<1>1. tfPublished' \in BOOLEAN /\ lateTf' \in BOOLEAN
  BY Zenon DEF TypeInv, Flags, FrameArrive, FrameTf, FrameMerge, ImuArrive,
         ImuTf, Dangle, Shutdown, TfEnds, PublishTf, CallbackKeeps, tfVars
<1>2. ok' \in BOOLEAN /\ dead' \in BOOLEAN
  BY Zenon DEF TypeInv, Flags, FrameArrive, FrameTf, FrameMerge, ImuArrive,
         ImuTf, Dangle, Shutdown, TfEnds, CallbackKeeps
<1>3. Flags'
  BY <1>1, <1>2 DEF TypeInv, Flags, FrameArrive, FrameTf, FrameMerge, ImuArrive,
         ImuTf, Dangle, Shutdown, TfEnds, CallbackKeeps, config
<1>4. Counts'
  BY DEF TypeInv, Counts, FrameArrive, FrameTf, FrameMerge, Merged, ImuArrive,
         ImuTf, Dangle, Shutdown, TfEnds, CallbackKeeps, config, cloud, Works, Throws
<1>5. Places'
  BY DEF TypeInv, Places, FrameArrive, FrameTf, FrameMerge, ImuArrive, ImuTf,
         Dangle, Shutdown, TfEnds, PublishTf, CallbackKeeps, tfVars
<1>6. Pipelines'
  BY DEF TypeInv, Pipelines, ImuAsked, FrameArrive, FrameTf, FrameMerge, ImuArrive,
         ImuTf, Dangle, Shutdown, TfEnds, CallbackKeeps, config, streams
<1> QED
  BY <1>3, <1>4, <1>5, <1>6 DEF TypeInv

LEMMA TypeStep == TypeInv /\ [Next]_vars => TypeInv'
<1> SUFFICES ASSUME TypeInv, [Next]_vars PROVE TypeInv'
  OBVIOUS
<1>1. CASE Next
  <2>1. CASE StartStreams \/ StartIMU
    <3>1. CASE StartIMU
      <4>1. imuEnabled
        BY <3>1 DEF TypeInv, Pipelines, ImuAsked, StartIMU, Create, Start, Started, At
      <4> QED
        BY <3>1, <4>1, TypeStart DEF StartIMU, Pipes, OwnerPCs
    <3>2. CASE Started("lidar", "started", IF imuEnabled THEN "imuCreate" ELSE "up")
      <4>1. CASE imuEnabled
        BY <3>2, <4>1, TypeStart DEF Pipes, OwnerPCs
      <4>2. CASE ~imuEnabled
        BY <3>2, <4>2, TypeStart DEF Pipes, OwnerPCs
      <4> QED
        BY <4>1, <4>2
    <3>3. CASE \/ Create("lidar", "create", "attempt")
               \/ Start("lidar", "attempt", "started")
               \/ Start("lidar", "retry", "started")
      BY <3>3, TypeStart DEF Pipes, OwnerPCs
    <3> QED
      BY <2>1, <3>1, <3>2, <3>3 DEF StartStreams
  <2>2. CASE \E d \in BOOLEAN : Clean(d)
    BY <2>2, TypeClean
  <2>3. CASE JoinTf \/ StopStreams \/ StopIMU \/ DestroyMembers \/ DestroyPipes
    BY <2>3, TypeStop
  <2>4. CASE \/ FrameArrive \/ FrameTf \/ FrameMerge \/ ImuArrive \/ ImuTf
             \/ Dangle \/ Shutdown \/ TfEnds
    BY <2>4, TypeCallbacks
  <2> QED
    BY <1>1, <2>1, <2>2, <2>3, <2>4, Steps
<1>2. CASE UNCHANGED vars
  BY <1>2 DEF vars, config, streams, tfVars, cloud, TypeInv, Flags, Counts, Places,
     Pipelines, ImuAsked
<1> QED
  BY <1>1, <1>2

\* Every variable keeps its type, for any number of packets, frames and faults,
\* and startIMU makes no pipeline that was not asked for.
THEOREM TypeCorrect == Spec => []TypeOK
<1>1. Init => TypeInv
  BY TypeInit
<1>2. TypeInv /\ [Next]_vars => TypeInv'
  BY TypeStep
<1>3. TypeInv => TypeOK
  BY TypeParts
<1> QED
  BY <1>1, <1>2, <1>3, PTL DEF Spec

LEMMA TypeAlways == Spec => []TypeInv
BY TypeInit, TypeStep, PTL DEF Spec

-----------------------------------------------------------------------------
(* Callbacks and destruction *)

StartedOf(p) == IF p = "lidar" THEN "started" ELSE "imuStarted"

\* where a pipeline has been stopped, or its stop() has thrown, since clean() began
Stopped(p) == {"destroy", "members", "gone"} \cup {l \in {"stopImu"} : p = "lidar"}

\* where a pipeline has not been made
Unmade(p) ==
    {"create"} \cup {l \in {"attempt", "retry", "started", "imuCreate"} : p = "imu"}

\* A callback is inside only while its pipeline runs; a pipeline runs only
\* where its flag is up, or is about to be; clean() leaves none running.  In
\* each case but for the pipelines whose stop() threw.
PipeInv ==
    \A p \in Pipes :
        /\ ~Quiet(p) => pipe[p] = "running" \/ p \in loose
        /\ pipe[p] = "running" => on[p] \/ p \in loose \/ owner = StartedOf(p)
        /\ owner \in Stopped(p) => pipe[p] # "running" \/ p \in loose
        /\ owner \in Unmade(p) => pipe[p] = "none"

LEMMA PipeInit == Init => PipeInv
BY DEF Init, PipeInv, Pipes, Quiet, Stopped, Unmade

LEMMA PipeOwner ==
    ASSUME TypeInv, PipeInv,
           \/ (\E d \in BOOLEAN : Clean(d)) \/ JoinTf \/ StopStreams \/ StopIMU
           \/ DestroyMembers \/ DestroyPipes
    PROVE  PipeInv'
<1>1. UNCHANGED <<frame, imu>>
  BY DEF Clean, JoinTf, StopStreams, StopIMU, DestroyMembers, DestroyPipes, OwnerKeeps
<1>2. CASE (\E d \in BOOLEAN : Clean(d)) \/ JoinTf \/ DestroyMembers
  BY <1>1, <1>2 DEF PipeInv, Pipes, Quiet, Stopped,
     Unmade, StartedOf, Clean, JoinTf,
     DestroyMembers, At, streams
<1>3. CASE StopStreams
  BY <1>1, <1>3 DEF TypeInv, Pipelines, PipeInv, Pipes, Quiet, Stopped,
     Unmade, StartedOf, StopStreams, StopPipe, At
<1>4. CASE StopIMU
  BY <1>1, <1>4 DEF TypeInv, Pipelines, PipeInv, Pipes, Quiet, Stopped,
     Unmade, StartedOf, StopIMU, StopPipe, At, Works, Throws
<1>5. CASE DestroyPipes
  BY <1>1, <1>5 DEF PipeInv, Pipes, Quiet, Stopped,
     Unmade, StartedOf, DestroyPipes, At
<1> QED
  BY <1>2, <1>3, <1>4, <1>5

LEMMA PipeStart ==
    ASSUME TypeInv, PipeInv,
           StartStreams \/ StartIMU
    PROVE  PipeInv'
<1>1. UNCHANGED <<frame, imu, loose>>
  BY DEF StartStreams, StartIMU, Create, Start, Started, StartKeeps, OwnerKeeps
<1>2. CASE Create("lidar", "create", "attempt") \/ Create("imu", "imuCreate", "imuStart")
  BY <1>1, <1>2 DEF TypeInv, Pipelines, PipeInv, Pipes, Quiet, Stopped,
     Unmade, StartedOf, Create, At
<1>3. CASE \/ Start("lidar", "attempt", "started") \/ Start("lidar", "retry", "started")
           \/ Start("imu", "imuStart", "imuStarted")
  BY <1>1, <1>3 DEF TypeInv, Pipelines, PipeInv, Pipes, Quiet, Stopped,
     Unmade, StartedOf, Start, At
<1>4. CASE \/ Started("lidar", "started", IF imuEnabled THEN "imuCreate" ELSE "up")
           \/ Started("imu", "imuStarted", "up")
  <2>1. CASE Started("imu", "imuStarted", "up")
    BY <1>1, <2>1 DEF TypeInv, Pipelines, PipeInv, Pipes, Quiet, Stopped,
     Unmade, StartedOf, Started, At
  <2>2. CASE Started("lidar", "started", IF imuEnabled THEN "imuCreate" ELSE "up")
    <3>1. /\ owner = "started" /\ owner' \in {"imuCreate", "up"} /\ pipe' = pipe
          /\ on' = [on EXCEPT !["lidar"] = TRUE]
      BY <2>2 DEF Started, At
    <3>2. pipe["imu"] = "none"
      BY <3>1 DEF PipeInv, Pipes, Unmade
    <3> QED
      BY <1>1, <3>1, <3>2 DEF TypeInv, Pipelines, PipeInv, Pipes, Quiet, Stopped,
     Unmade, StartedOf
  <2> QED
    BY <1>4, <2>1, <2>2
<1> QED
  BY <1>2, <1>3, <1>4 DEF StartStreams, StartIMU

LEMMA PipeCallbacks ==
    ASSUME PipeInv,
           \/ FrameArrive \/ FrameTf \/ FrameMerge \/ ImuArrive \/ ImuTf
           \/ Dangle \/ Shutdown \/ TfEnds
    PROVE  PipeInv'
BY DEF PipeInv, Pipes, Quiet, Stopped,
     Unmade, StartedOf, FrameArrive, FrameTf, FrameMerge,
   ImuArrive, ImuTf, Dangle, Shutdown, TfEnds, CallbackKeeps, streams

LEMMA PipeStep == TypeInv /\ PipeInv /\ [Next]_vars => PipeInv'
<1> SUFFICES ASSUME TypeInv, PipeInv, [Next]_vars PROVE PipeInv'
  OBVIOUS
<1>1. CASE Next
  <2>1. CASE StartStreams \/ StartIMU
    BY <2>1, PipeStart
  <2>2. CASE \/ (\E d \in BOOLEAN : Clean(d)) \/ JoinTf \/ StopStreams \/ StopIMU
             \/ DestroyMembers \/ DestroyPipes
    BY <2>2, PipeOwner
  <2>3. CASE \/ FrameArrive \/ FrameTf \/ FrameMerge \/ ImuArrive \/ ImuTf
             \/ Dangle \/ Shutdown \/ TfEnds
    BY <2>3, PipeCallbacks
  <2> QED
    BY <1>1, <2>1, <2>2, <2>3, Steps
<1>2. CASE UNCHANGED vars
  BY <1>2 DEF vars, streams, PipeInv, Quiet, Stopped, Unmade, StartedOf
<1> QED
  BY <1>1, <1>2

\* No callback is inside a node whose members are destroyed, but for one of a
\* pipeline whose stop() threw: clean() stops each pipeline whose flag is up,
\* and a pipeline whose flag is down does not run by then.
THEOREM CallbacksCorrect == Spec => []CallbacksOutlived
<1>1. PipeInv => CallbacksOutlived
  BY DEF PipeInv, CallbacksOutlived, Destroyed, Pipes, Quiet, Stopped, Unmade
<1> QED
  BY <1>1, PipeInit, PipeStep, TypeAlways, PTL DEF Spec

-----------------------------------------------------------------------------
(* The thread of the transforms *)

\* from the join of tf_thread_ to the end, a thread that is not joined was made late
TfInv ==
    /\ owner \in {"join", "stop", "stopImu", "destroy", "members", "gone"} => ~running
    /\ owner \in {"stop", "stopImu", "destroy", "members", "gone"}
         => (tf \in {"loop", "over"} => lateTf)

LEMMA TfStep == TypeInv /\ TfInv /\ [Next]_vars => TfInv'
<1> SUFFICES ASSUME TypeInv, TfInv, [Next]_vars PROVE TfInv'
  OBVIOUS
<1>1. CASE StartStreams \/ StartIMU
  BY <1>1 DEF TfInv, StartStreams, StartIMU, Create, Start, Started
<1>2. CASE \/ (\E d \in BOOLEAN : Clean(d)) \/ JoinTf \/ StopStreams \/ StopIMU
           \/ DestroyMembers \/ DestroyPipes
  BY <1>2 DEF TfInv, Clean, JoinTf, StopStreams, StopIMU, DestroyMembers,
     DestroyPipes, At, tfVars
<1>3. CASE \/ FrameArrive \/ FrameMerge \/ ImuArrive \/ Dangle \/ Shutdown \/ TfEnds
  BY <1>3 DEF TfInv, FrameArrive, FrameMerge, ImuArrive, Dangle, Shutdown, TfEnds,
     CallbackKeeps, tfVars
<1>4. CASE FrameTf \/ ImuTf
  <2>1. UNCHANGED <<owner, running>>
    BY <1>4 DEF FrameTf, ImuTf, CallbackKeeps
  <2>2. UNCHANGED <<tf, lateTf>> \/ PublishTf
    BY <1>4, Zenon DEF FrameTf, ImuTf, tfVars
  <2> QED
    BY <2>1, <2>2 DEF TfInv, PublishTf
<1>5. CASE UNCHANGED vars
  BY <1>5 DEF vars, tfVars, TfInv
<1> QED
  BY <1>1, <1>2, <1>3, <1>4, <1>5, Steps

\* When the members are destroyed, tf_thread_ is joined unless a callback made
\* it after clean() had begun.
THEOREM TfCorrect == Spec => []TfThreadJoined
<1>1. Init => TfInv
  BY DEF Init, TfInv
<1>2. TfInv => TfThreadJoined
  BY DEF TfInv, TfThreadJoined, Destroyed
<1> QED
  BY <1>1, <1>2, TfStep, TypeAlways, PTL DEF Spec

-----------------------------------------------------------------------------
(* The buffer of merged frames *)

LEMMA BufferStep == TypeInv /\ BufferBounded /\ [Next]_vars => BufferBounded'
<1> SUFFICES ASSUME TypeInv, BufferBounded, [Next]_vars PROVE BufferBounded'
  OBVIOUS
<1>1. n \in Nat /\ n > 0 /\ buffer \in Nat /\ failed \in Nat
  BY BoundsAssumption DEF TypeInv, Counts
<1>2. CASE FrameMerge
  BY <1>1, <1>2 DEF BufferBounded, FrameMerge, Merged, CallbackKeeps, config, cloud
<1>3. CASE UNCHANGED <<n, buffer, failed>>
  BY <1>3 DEF BufferBounded
<1>4. FrameMerge \/ UNCHANGED <<n, buffer, failed>>
  BY Steps DEF StartStreams, StartIMU, Create, Start, Started, StartKeeps, OwnerKeeps,
     Clean, JoinTf, StopStreams, StopIMU, DestroyMembers, DestroyPipes, FrameArrive,
     FrameTf, ImuArrive, ImuTf,
     Dangle, Shutdown, TfEnds, CallbackKeeps, config, cloud, vars
<1> QED
  BY <1>2, <1>3, <1>4

\* The buffer exceeds publish_n_pkts_ - 1 by no more than the merges that threw.
THEOREM BufferCorrect == Spec => []BufferBounded
<1>1. Init => BufferBounded
  BY BoundsAssumption DEF Init, BufferBounded
<1> QED
  BY <1>1, BufferStep, TypeAlways, PTL DEF Spec

=============================================================================
