----------------------- MODULE DeviceLifecycleProofs -----------------------
(***************************************************************************)
(* Theorems about DeviceLifecycle for any cameras, connection mode and     *)
(* bounds.                                                                 *)
(***************************************************************************)
EXTENDS DeviceLifecycle, TLAPS

\* The control points each thread may be at are control points.
LEMMA PCsOfIsPCs == \A t \in Threads : PCsOf(t) \subseteq PCs
  BY DEF Threads, PCsOf, PCs

\* A thread that moves to one of its control points keeps pc well typed.
LEMMA GotoTyped ==
    ASSUME PcOK, NEW t \in Threads, NEW l \in PCsOf(t), Goto(t, l)
    PROVE  PcOK'
  BY PCsOfIsPCs DEF PcOK, Goto

\* The control points of the two threads that connect.
LEMMA ConnectorPCs ==
    ASSUME NEW t \in Connectors
    PROVE  /\ t \in Threads
           /\ EnterPCs \cup ConnectPCs \subseteq PCsOf(t)
  BY DEF Connectors, Threads, PCsOf

\* Returning, a connecting thread goes to a control point of its own loop.
LEMMA ReturnTyped ==
    ASSUME PcOK, NEW t \in Connectors, Return(t)
    PROVE  PcOK'
  <1>1. t \in Threads
    BY ConnectorPCs
  <1>2. (IF t = "query" THEN "q_top" ELSE "k_idle") \in PCsOf(t)
    BY DEF Connectors, PCsOf, QueryPCs, SdkPCs
  <1> QED
    BY <1>1, <1>2, GotoTyped DEF Return

\* The initial values have their types.
LEMMA InitTypeOK == Init => TypeOK
PROOF
  <1> SUFFICES ASSUME Init PROVE TypeOK
    OBVIOUS
  <1>1. PcOK
    BY DEF Init, PcOK, PCsOf, Threads, PCs, QueryPCs, SdkPCs, ResetPCs, ExecPCs
  <1>2. /\ events \in Seq(Event) /\ Len(events) <= MaxEvents
        /\ faults \in 0..MaxFaults /\ ev \in Event
    BY BoundAssumption DEF Init, Event, NoEvent
  <1>3. upgrade \in BOOLEAN
    BY ModeAssumption DEF Init
  <1> QED
    BY <1>1, <1>2, <1>3 DEF Init, TypeOK, Holders, Free, Connectors, NodeStates,
       Recordings

\* A step of a connecting thread ends at one of its control points.
LEMMA ConnectPcOK ==
    ASSUME PcOK, NEW t \in Connectors, Connect(t)
    PROVE  PcOK'
PROOF
  <1>1. ASSUME NEW l \in EnterPCs \cup ConnectPCs, Goto(t, l) PROVE PcOK'
    BY <1>1, ConnectorPCs, GotoTyped
  <1>2. CASE UNCHANGED pc
    BY <1>2 DEF PcOK
  <1> USE <1>1, <1>2, ReturnTyped
      DEF EnterPCs, ConnectPCs, SelectPCs, InitPCs, ExitPCs
  <1>3. CASE StartEnter(t)
    BY <1>3 DEF StartEnter, Move
  <1>4. CASE StartCas(t)
    BY <1>4 DEF StartCas
  <1>5. CASE StartDrop(t)
    BY <1>5 DEF StartDrop
  <1>6. CASE StartTryLock(t)
    BY <1>6 DEF StartTryLock
  <1>7. CASE StartSelect(t)
    BY <1>7 DEF StartSelect, Adopt
  <1>8. CASE NetCreate(t)
    BY <1>8 DEF NetCreate, Adopt
  <1>9. CASE BuildNode(t)
    BY <1>9 DEF BuildNode, Fail
  <1>10. CASE MarkConnected(t)
    BY <1>10 DEF MarkConnected
  <1>11. CASE FirmwareFails(t)
    BY <1>11 DEF FirmwareFails
  <1>12. CASE FirmwareDone(t)
    BY <1>12 DEF FirmwareDone
  <1>13. CASE StartImu(t)
    BY <1>13 DEF StartImu
  <1>14. CASE StartStreams(t)
    BY <1>14 DEF StartStreams, Fail
  <1>15. CASE Settle(t)
    BY <1>15 DEF Settle, Move
  <1>16. CASE UseAfterReset(t)
    BY <1>16 DEF UseAfterReset, Crash
  <1>17. CASE RecordBag(t)
    BY <1>17 DEF RecordBag, AfterInit
  <1>18. CASE StartAfter(t)
    BY <1>18 DEF StartAfter
  <1>19. CASE StartFlag(t)
    BY <1>19 DEF StartFlag
  <1>20. CASE StartNotify(t)
    BY <1>20 DEF StartNotify
  <1>21. CASE StartUnlock(t)
    BY <1>21 DEF StartUnlock
  <1>22. CASE StartGuard(t)
    BY <1>22 DEF StartGuard
  <1>23. CASE KeepBag(t)
    BY <1>23 DEF KeepBag, AfterInit
  <1> QED
    BY <1>3, <1>4, <1>5, <1>6, <1>7, <1>8, <1>9, <1>10, <1>11, <1>12, <1>13,
       <1>14, <1>15, <1>16, <1>17, <1>18, <1>19, <1>20, <1>21, <1>22, <1>23
       DEF Connect

\* A camera that vanishes leaves a well-typed world and handle.
LEMMA VanishTyped ==
    ASSUME TypeOK, NEW d \in Devices, Vanish(d), EventRoom
    PROVE  /\ present' \subseteq Devices /\ devLive' \in BOOLEAN
           /\ devLive' => devLive
           /\ events' \in Seq(Event) /\ Len(events') <= MaxEvents
PROOF
  <1>1. devLive' \in BOOLEAN
    BY Zenon DEF Vanish
  <1>2. [removed |-> {d}, added |-> {}] \in Event
    BY DEF Event
  <1> QED
    BY <1>1, <1>2, BoundAssumption DEF TypeOK, Vanish, EventRoom

\* A step of a connecting thread leaves every variable within its type.
LEMMA ConnectTypeOK ==
    ASSUME TypeOK, NEW t \in Connectors, Connect(t)
    PROVE  TypeOK'
PROOF
  <1>1. PcOK'
    BY ConnectPcOK DEF TypeOK
  <1> USE <1>1, DevicesAssumption, BoundAssumption
      DEF TypeOK, data, rest, world, fw, objs, handle, locks, flags,
          Connectors, Threads, Holders, Free, NodeStates, Recordings
  <1>2. CASE StartEnter(t)
    BY <1>2 DEF StartEnter, Move
  <1>3. CASE StartCas(t)
    <2>1. connecting' \in BOOLEAN
      BY <1>3, Zenon DEF StartCas
    <2> QED
      BY <1>3, <2>1 DEF StartCas
  <1>4. CASE StartDrop(t)
    <2>1. devLive' \in BOOLEAN
      BY <1>4, Zenon DEF StartDrop
    <2> QED
      BY <1>4, <2>1 DEF StartDrop
  <1>5. CASE StartTryLock(t)
    BY <1>5 DEF StartTryLock
  <1>6. CASE StartSelect(t)
    <2>1. connected' \in BOOLEAN /\ devLive' \in BOOLEAN
      BY <1>6, Zenon DEF StartSelect, Adopt
    <2> QED
      BY <1>6, <2>1 DEF StartSelect, Adopt
  <1>7. CASE NetCreate(t)
    <2>1. devLive' \in BOOLEAN /\ crashed' \in BOOLEAN
      BY <1>7, Zenon DEF NetCreate, Adopt
    <2> QED
      BY <1>7, <2>1 DEF NetCreate, Adopt
  <1>8. CASE BuildNode(t)
    <2>1. connected' \in BOOLEAN
      BY <1>8, Zenon DEF BuildNode, SdkFails, Fail
    <2> QED
      BY <1>8, <2>1 DEF BuildNode, SdkFails, Fail
  <1>9. CASE MarkConnected(t)
    BY <1>9 DEF MarkConnected
  <1>10. CASE FirmwareFails(t)
    <2>1. fwSuccess' \in BOOLEAN
      BY <1>10, Zenon DEF FirmwareFails, SdkFails
    <2> QED
      BY <1>10, <2>1 DEF FirmwareFails, SdkFails
  <1>11. CASE FirmwareDone(t)
    <2>1. /\ connected' \in BOOLEAN /\ syncTimer' \in BOOLEAN
          /\ upgrade' \in BOOLEAN /\ delayStream' \in BOOLEAN
          /\ fwSuccess' \in BOOLEAN
      BY <1>11, Zenon DEF FirmwareDone
    <2>2. device \in Devices /\ Vanish(device) /\ EventRoom
      BY <1>11 DEF FirmwareDone
    <2>3. /\ present' \subseteq Devices /\ devLive' \in BOOLEAN
          /\ devLive' => devLive
          /\ events' \in Seq(Event) /\ Len(events') <= MaxEvents
      BY <2>2, VanishTyped
    <2>4. \/ faults' = faults
          \/ faults < MaxFaults /\ faults' = faults + 1
      BY <1>11, Zenon DEF FirmwareDone
    <2>5. UNCHANGED <<alive, connecting, resetFlag, locks, waiting, device,
                      node, serial, recording, cooled, ev, list, crashed>>
      BY <1>11, Zenon DEF FirmwareDone
    <2> QED
      BY <2>1, <2>2, <2>3, <2>4, <2>5
  <1>12. CASE StartImu(t)
    <2>1. delayStream' \in BOOLEAN
      BY <1>12, Zenon DEF StartImu
    <2> QED
      BY <1>12, <2>1 DEF StartImu
  <1>13. CASE StartStreams(t)
    <2>1. connected' \in BOOLEAN
      BY <1>13, Zenon DEF StartStreams, SdkFails, Fail
    <2> QED
      BY <1>13, <2>1 DEF StartStreams, SdkFails, Fail
  <1>14. CASE Settle(t)
    BY <1>14 DEF Settle, Move
  <1>15. CASE UseAfterReset(t)
    BY <1>15 DEF UseAfterReset, Crash
  <1>16. CASE RecordBag(t)
    BY <1>16 DEF RecordBag
  <1>17. CASE StartAfter(t)
    <2>1. connected' \in BOOLEAN /\ fwSuccess' \in BOOLEAN
      BY <1>17, Zenon DEF StartAfter
    <2> QED
      BY <1>17, <2>1 DEF StartAfter
  <1>18. CASE StartFlag(t)
    BY <1>18 DEF StartFlag
  <1>19. CASE StartNotify(t)
    BY <1>19 DEF StartNotify, NotifyAll
  <1>20. CASE StartUnlock(t)
    BY <1>20 DEF StartUnlock
  <1>21. CASE StartGuard(t)
    <2>1. connecting' \in BOOLEAN
      BY <1>21, Zenon DEF StartGuard
    <2> QED
      BY <1>21, <2>1 DEF StartGuard
  <1>22. CASE KeepBag(t)
    BY <1>22 DEF KeepBag
  <1> QED
    BY <1>2, <1>3, <1>4, <1>5, <1>6, <1>7, <1>8, <1>9, <1>10, <1>11, <1>12,
       <1>13, <1>14, <1>15, <1>16, <1>17, <1>18, <1>19, <1>20, <1>21, <1>22
       DEF Connect

\* A step of the query thread ends at a control point of its thread.
LEMMA QueryPcOK ==
    ASSUME PcOK, Query
    PROVE  PcOK'
PROOF
  <1>1. ASSUME NEW l \in PCsOf("query"), Goto("query", l) PROVE PcOK'
    BY <1>1, GotoTyped DEF Threads
  <1>2. CASE UNCHANGED pc
    BY <1>2 DEF PcOK
  <1> QED
    BY <1>1, <1>2
       DEF Query, QueryTop, QueryWake, QueryCheck, QueryTry, QueryPCs,
           EnterPCs, AwaitReset, Wake, Move, PCsOf

\* A step of the query thread leaves every variable within its type.
LEMMA QueryTypeOK ==
    ASSUME TypeOK, Query
    PROVE  TypeOK'
PROOF
  <1>1. PcOK'
    BY QueryPcOK DEF TypeOK
  <1> USE <1>1, DevicesAssumption, BoundAssumption
      DEF TypeOK, data, rest, world, fw, objs, handle, locks, flags,
          Connectors, Threads, Holders, Free, NodeStates, Recordings
  <1>2. CASE QueryTop
    <2>1. waiting' = waiting \/ waiting' = waiting \cup {"query"}
      BY <1>2, Zenon DEF QueryTop, AwaitReset, Move
    <2>2. UNCHANGED <<flags, locks, objs, fw, rest>>
      BY <1>2 DEF QueryTop, AwaitReset, Move
    <2>3. waiting' \subseteq Connectors
      BY <2>1
    <2> QED
      BY <2>2, <2>3
  <1>3. CASE QueryWake
    <2>1. waiting' = waiting \/ waiting' = waiting \cup {"query"}
      BY <1>3, Zenon DEF QueryWake, Wake
    <2>2. UNCHANGED <<flags, locks, objs, fw, rest>>
      BY <1>3 DEF QueryWake, Wake
    <2>3. waiting' \subseteq Connectors
      BY <2>1
    <2> QED
      BY <2>2, <2>3
  <1>4. CASE QueryCheck
    BY <1>4 DEF QueryCheck, Move
  <1>5. CASE QueryTry
    BY <1>5 DEF QueryTry
  <1> QED
    BY <1>2, <1>3, <1>4, <1>5
       DEF Query

\* A step of the SDK thread ends at a control point of its thread.
LEMMA SdkPcOK ==
    ASSUME PcOK, Sdk
    PROVE  PcOK'
PROOF
  <1>1. ASSUME NEW l \in PCsOf("sdk"), Goto("sdk", l) PROVE PcOK'
    BY <1>1, GotoTyped DEF Threads
  <1>2. CASE UNCHANGED pc
    BY <1>2 DEF PcOK
  <1> QED
    BY <1>1, <1>2
       DEF Sdk, SdkDeliver, SdkDisconnected, SdkLock, SdkMatch,
           SdkConnected, SdkWake, SdkAdded, SdkPCs, EnterPCs, AwaitReset,
           Wake, Move, PCsOf

\* A step of the SDK thread leaves every variable within its type.
LEMMA SdkTypeOK ==
    ASSUME TypeOK, Sdk
    PROVE  TypeOK'
PROOF
  <1>1. PcOK'
    BY SdkPcOK DEF TypeOK
  <1> USE <1>1, DevicesAssumption, BoundAssumption
      DEF TypeOK, data, rest, world, fw, objs, handle, locks, flags,
          Connectors, Threads, Holders, Free, NodeStates, Recordings
  <1>2. CASE SdkDeliver
    BY <1>2 DEF SdkDeliver
  <1>3. CASE SdkDisconnected
    BY <1>3 DEF SdkDisconnected, Move
  <1>4. CASE SdkLock
    BY <1>4 DEF SdkLock
  <1>5. CASE SdkMatch
    <2>1. /\ waiting' = waiting \/ waiting' = {}
          /\ delayStream' \in BOOLEAN /\ resetFlag' \in BOOLEAN
      BY <1>5, Zenon DEF SdkMatch, NotifyAll
    <2>2. /\ resetMutex' = Free
          /\ UNCHANGED <<alive, connected, connecting, deviceLock, procLock,
                         objs, upgrade, fwSuccess, rest>>
      BY <1>5 DEF SdkMatch, NotifyAll
    <2>3. waiting' \subseteq Connectors
      BY <2>1
    <2>4. delayStream' \in BOOLEAN /\ resetFlag' \in BOOLEAN
      BY <2>1, Zenon
    <2> QED
      BY <2>2, <2>3, <2>4
  <1>6. CASE SdkConnected
    BY <1>6 DEF SdkConnected, AwaitReset
  <1>7. CASE SdkWake
    <2>1. waiting' = waiting \/ waiting' = waiting \cup {"sdk"}
      BY <1>7, Zenon DEF SdkWake, Wake
    <2>2. UNCHANGED <<flags, locks, objs, fw, rest>>
      BY <1>7 DEF SdkWake, Wake
    <2>3. waiting' \subseteq Connectors
      BY <2>1
    <2> QED
      BY <2>2, <2>3
  <1>8. CASE SdkAdded
    <2>1. list' = list \/ list' = [list EXCEPT !["sdk"] = ev.added]
      BY <1>8, Zenon DEF SdkAdded
    <2>2. UNCHANGED <<flags, locks, waiting, objs, fw, cooled, world, ev,
                      crashed>>
      BY <1>8 DEF SdkAdded
    <2>3. ev.added \subseteq Devices
      BY DEF Event
    <2>4. list' \in [Connectors -> SUBSET Devices]
      BY <2>1, <2>3
    <2> QED
      BY <2>2, <2>4
  <1> QED
    BY <1>2, <1>3, <1>4, <1>5, <1>6, <1>7, <1>8
       DEF Sdk

\* A step of the reset thread ends at a control point of its thread.
LEMMA ResetPcOK ==
    ASSUME PcOK, Reset
    PROVE  PcOK'
PROOF
  <1>1. ASSUME NEW l \in PCsOf("reset"), Goto("reset", l) PROVE PcOK'
    BY <1>1, GotoTyped DEF Threads
  <1>2. CASE UNCHANGED pc
    BY <1>2 DEF PcOK
  <1> QED
    BY <1>1, <1>2
       DEF Reset, ResetExit, ResetBegin, ResetLock, ResetRecording, ResetNode,
           ResetHandle, ResetNotify, ResetPCs, Move, PCsOf

\* A step of the reset thread leaves every variable within its type.
LEMMA ResetTypeOK ==
    ASSUME TypeOK, Reset
    PROVE  TypeOK'
PROOF
  <1>1. PcOK'
    BY ResetPcOK DEF TypeOK
  <1> USE <1>1, DevicesAssumption, BoundAssumption
      DEF TypeOK, data, rest, world, fw, objs, handle, locks, flags,
          Connectors, Threads, Holders, Free, NodeStates, Recordings
  <1>2. CASE ResetExit
    BY <1>2 DEF ResetExit, Move
  <1>3. CASE ResetBegin
    <2>1. syncTimer' \in BOOLEAN
      BY <1>3, Zenon DEF ResetBegin
    <2> QED
      BY <1>3, <2>1 DEF ResetBegin
  <1>4. CASE ResetLock
    <2>1. connected' \in BOOLEAN /\ connecting' \in BOOLEAN
      BY <1>4, Zenon DEF ResetLock
    <2> QED
      BY <1>4, <2>1 DEF ResetLock
  <1>5. CASE ResetNode
    BY <1>5 DEF ResetNode
  <1>6. CASE ResetHandle
    <2>1. /\ devLive' \in BOOLEAN /\ resetFlag' \in BOOLEAN
          /\ cooled' \in BOOLEAN
      BY <1>6, Zenon DEF ResetHandle
    <2> QED
      BY <1>6, <2>1 DEF ResetHandle
  <1>7. CASE ResetNotify
    BY <1>7 DEF ResetNotify, NotifyAll
  <1>8. CASE ResetRecording
    BY <1>8 DEF ResetRecording
  <1> QED
    BY <1>2, <1>3, <1>4, <1>5, <1>6, <1>7, <1>8
       DEF Reset

\* A step of the timers ends at a control point of its thread.
LEMMA TimersPcOK ==
    ASSUME PcOK, Timers
    PROVE  PcOK'
PROOF
  <1>1. ASSUME NEW l \in PCsOf("exec"), Goto("exec", l) PROVE PcOK'
    BY <1>1, GotoTyped DEF Threads
  <1>2. CASE UNCHANGED pc
    BY <1>2 DEF PcOK
  <1> QED
    BY <1>1, <1>2
       DEF Timers, CheckConnect, CheckConnectNode, StatusBegin,
           StatusTryLock, StatusEnd, SyncBegin, SyncCheck, SyncTryLock,
           SyncEnd, SyncAfterDrop, Crash, ExecPCs, Move, PCsOf

\* A step of the timers leaves every variable within its type.
LEMMA TimersTypeOK ==
    ASSUME TypeOK, Timers
    PROVE  TypeOK'
PROOF
  <1>1. PcOK'
    BY TimersPcOK DEF TypeOK
  <1> USE <1>1, DevicesAssumption, BoundAssumption
      DEF TypeOK, data, rest, world, fw, objs, handle, locks, flags,
          Connectors, Threads, Holders, Free, NodeStates, Recordings
  <1>2. CASE CheckConnect
    BY <1>2 DEF CheckConnect, Move
  <1>3. CASE CheckConnectNode
    <2>1. connected' \in BOOLEAN
      BY <1>3, Zenon DEF CheckConnectNode
    <2> QED
      BY <1>3, <2>1 DEF CheckConnectNode
  <1>4. CASE StatusBegin
    BY <1>4 DEF StatusBegin, Move
  <1>5. CASE StatusTryLock
    BY <1>5 DEF StatusTryLock
  <1>6. CASE StatusEnd
    BY <1>6 DEF StatusEnd
  <1>7. CASE SyncBegin
    BY <1>7 DEF SyncBegin, Move
  <1>8. CASE SyncCheck
    BY <1>8 DEF SyncCheck, Move
  <1>9. CASE SyncTryLock
    BY <1>9 DEF SyncTryLock
  <1>10. CASE SyncEnd
    BY <1>10 DEF SyncEnd
  <1>11. CASE SyncAfterDrop
    BY <1>11 DEF SyncAfterDrop, Crash
  <1> QED
    BY <1>2, <1>3, <1>4, <1>5, <1>6, <1>7, <1>8, <1>9, <1>10, <1>11
       DEF Timers

\* A step of the reboot service ends at a control point of its thread.
LEMMA RebootPcOK ==
    ASSUME PcOK, Reboot
    PROVE  PcOK'
PROOF
  <1>1. ASSUME NEW l \in PCsOf("exec"), Goto("exec", l) PROVE PcOK'
    BY <1>1, GotoTyped DEF Threads
  <1>2. CASE UNCHANGED pc
    BY <1>2 DEF PcOK
  <1> QED
    BY <1>1, <1>2
       DEF Reboot, RebootCall, RebootProcLock, RebootFlag, RebootRefused,
           RebootAccepted, RebootNode, RebootUnlock, RebootNotify, ExecPCs,
           RebootPCs, Move, PCsOf

\* A step of the reboot service leaves every variable within its type.
LEMMA RebootTypeOK ==
    ASSUME TypeOK, Reboot
    PROVE  TypeOK'
PROOF
  <1>1. PcOK'
    BY RebootPcOK DEF TypeOK
  <1> USE <1>1, DevicesAssumption, BoundAssumption
      DEF TypeOK, data, rest, world, fw, objs, handle, locks, flags,
          Connectors, Threads, Holders, Free, NodeStates, Recordings
  <1>2. CASE RebootCall
    BY <1>2 DEF RebootCall, Move
  <1>3. CASE RebootProcLock
    BY <1>3 DEF RebootProcLock
  <1>4. CASE RebootFlag
    BY <1>4 DEF RebootFlag
  <1>5. CASE RebootRefused
    <2>1. resetFlag' \in BOOLEAN
      BY <1>5, Zenon DEF RebootRefused
    <2> QED
      BY <1>5, <2>1 DEF RebootRefused
  <1>6. CASE RebootAccepted
    BY <1>6 DEF RebootAccepted
  <1>7. CASE RebootNode
    <2>1. CASE devLive /\ EventRoom /\ Vanish(device)
      <3>1. device \in Devices
        BY <2>1
      <3>2. /\ present' \subseteq Devices /\ devLive' \in BOOLEAN
            /\ devLive' => devLive
            /\ events' \in Seq(Event) /\ Len(events') <= MaxEvents
        BY <2>1, <3>1, VanishTyped
      <3> QED
        BY <1>7, <3>1, <3>2 DEF RebootNode
    <2>2. CASE ~devLive /\ UNCHANGED <<present, devLive, events>>
      BY <1>7, <2>2 DEF RebootNode
    <2> QED
      BY <1>7, <2>1, <2>2 DEF RebootNode
  <1>8. CASE RebootUnlock
    BY <1>8 DEF RebootUnlock
  <1>9. CASE RebootNotify
    <2>1. waiting' = waiting \/ waiting' = {}
      BY <1>9, Zenon DEF RebootNotify, NotifyAll
    <2>2. UNCHANGED <<flags, locks, objs, fw, rest>>
      BY <1>9 DEF RebootNotify, NotifyAll
    <2>3. waiting' \subseteq Connectors
      BY <2>1
    <2> QED
      BY <2>2, <2>3
  <1> QED
    BY <1>2, <1>3, <1>4, <1>5, <1>6, <1>7, <1>8, <1>9
       DEF Reboot

\* A step of the destructor ends at a control point of its thread.
LEMMA DestructorPcOK ==
    ASSUME PcOK, Destructor
    PROVE  PcOK'
PROOF
  <1>1. ASSUME NEW l \in PCsOf("exec"), Goto("exec", l) PROVE PcOK'
    BY <1>1, GotoTyped DEF Threads
  <1>2. CASE UNCHANGED pc
    BY <1>2 DEF PcOK
  <1> QED
    BY <1>1, <1>2
       DEF Destructor, Unload, UnloadRecording, UnloadClean, UnloadJoinQuery,
           UnloadJoinReset, UnloadUnregister, ExecPCs, RebootPCs, Move,
           PCsOf

\* A step of the destructor leaves every variable within its type.
LEMMA DestructorTypeOK ==
    ASSUME TypeOK, Destructor
    PROVE  TypeOK'
PROOF
  <1>1. PcOK'
    BY DestructorPcOK DEF TypeOK
  <1> USE <1>1, DevicesAssumption, BoundAssumption
      DEF TypeOK, data, rest, world, fw, objs, handle, locks, flags,
          Connectors, Threads, Holders, Free, NodeStates, Recordings
  <1>2. CASE Unload
    <2>1. alive' \in BOOLEAN
      BY <1>2, Zenon DEF Unload
    <2> QED
      BY <1>2, <2>1 DEF Unload
  <1>3. CASE UnloadClean
    <2>1. syncTimer' \in BOOLEAN
      BY <1>3, Zenon DEF UnloadClean
    <2> QED
      BY <1>3, <2>1 DEF UnloadClean
  <1>4. CASE UnloadJoinQuery
    BY <1>4 DEF UnloadJoinQuery, NotifyAll
  <1>5. CASE UnloadJoinReset
    BY <1>5 DEF UnloadJoinReset, Move
  <1>6. CASE UnloadUnregister
    <2>1. devLive' \in BOOLEAN
      BY <1>6, Zenon DEF UnloadUnregister
    <2> QED
      BY <1>6, <2>1 DEF UnloadUnregister
  <1>7. CASE UnloadRecording
    BY <1>7 DEF UnloadRecording
  <1> QED
    BY <1>2, <1>3, <1>4, <1>5, <1>6, <1>7
       DEF Destructor

\* Cameras come and go, time passes, other processes take the shared lock and
\* a recording is switched on or off: no variable leaves its type.
LEMMA EnvironmentTypeOK ==
    ASSUME TypeOK, Environment \/ SetBagRecording
    PROVE  TypeOK'
PROOF
  <1>1. PcOK'
    BY DEF TypeOK, PcOK, Environment, Unplug, Plug, CoolDown, OtherLocks,
           OtherUnlocks, SetBagRecording
  <1> USE <1>1, DevicesAssumption, BoundAssumption
      DEF TypeOK, data, rest, world, fw, objs, handle, locks, flags,
          Connectors, Threads, Holders, Free, NodeStates, Recordings
  <1>2. ASSUME NEW d \in Devices, Unplug(d) PROVE TypeOK'
    <2>1. /\ present' \subseteq Devices /\ devLive' \in BOOLEAN
          /\ devLive' => devLive
          /\ events' \in Seq(Event) /\ Len(events') <= MaxEvents
      BY <1>2, VanishTyped DEF Unplug
    <2> QED
      BY <1>2, <2>1 DEF Unplug
  <1>3. ASSUME NEW d \in Devices, Plug(d) PROVE TypeOK'
    <2>1. [removed |-> {}, added |-> {d}] \in Event
      BY DEF Event
    <2>2. events' \in Seq(Event) /\ Len(events') <= MaxEvents
      BY <1>3, <2>1 DEF Plug, EventRoom
    <2>3. present' \subseteq Devices
      BY <1>3 DEF Plug
    <2> QED
      BY <1>3, <2>2, <2>3 DEF Plug
  <1>4. CASE CoolDown
    BY <1>4 DEF CoolDown
  <1>5. CASE OtherLocks
    BY <1>5 DEF OtherLocks
  <1>6. CASE OtherUnlocks
    BY <1>6 DEF OtherUnlocks
  <1>7. CASE SetBagRecording
    BY <1>7 DEF SetBagRecording
  <1> QED
    BY <1>2, <1>3, <1>4, <1>5, <1>6, <1>7 DEF Environment

\* The type invariant is inductive.
LEMMA StepTypeOK == TypeOK /\ [Next]_vars => TypeOK'
PROOF
  <1> SUFFICES ASSUME TypeOK, [Next]_vars PROVE TypeOK'
    OBVIOUS
  <1>1. CASE UNCHANGED vars
    BY <1>1 DEF TypeOK, PcOK, vars, data, rest, world, fw, objs, locks, flags
  <1>2. CASE Next
    BY <1>2, QueryTypeOK, SdkTypeOK, ResetTypeOK, TimersTypeOK, RebootTypeOK,
       DestructorTypeOK, ConnectTypeOK, EnvironmentTypeOK
       DEF Next, Environment
  <1> QED
    BY <1>1, <1>2

\* Every variable keeps its type: the threads of ob_camera_node_driver.cpp
\* stay at their control points, no lock has a holder the driver does not
\* know, and a live handle in device_ is a handle to a camera.
THEOREM TypeCorrect == Spec => []TypeOK
  BY InitTypeOK, StepTypeOK, PTL DEF Spec

-----------------------------------------------------------------------------
(* The process-shared lock                                                 *)

\* InitHoldsProcLock, strengthened: the reboot service owns the lock from its
\* timed lock to its unlock, and without a net_device_ip_ no thread is in
\* connectNetDevice, which takes no lock.
ProcLockInv ==
    ~NetMode =>
        /\ \A t \in Connectors : pc[t] \in LockedPCs => procLock = t
        /\ \A t \in Connectors : pc[t] \notin {"n_cas", "n_create"}
        /\ pc["exec"] \in {"b_flag", "b_lock", "b_reboot", "b_unlock"}
             => procLock = "exec"

\* A connecting thread enters the locked part of startDevice by taking the
\* lock, stays in it, and leaves it by releasing the lock.
LEMMA ConnectProcLockInv ==
    ASSUME PcOK, ProcLockInv, NEW t \in Connectors, Connect(t)
    PROVE  ProcLockInv'
PROOF
  <1> SUFFICES ASSUME ~NetMode
               PROVE  /\ \A u \in Connectors : pc'[u] \in LockedPCs => procLock' = u
                      /\ \A u \in Connectors : pc'[u] \notin {"n_cas", "n_create"}
                      /\ pc'["exec"] \in {"b_flag", "b_lock", "b_reboot", "b_unlock"}
                           => procLock' = "exec"
    BY DEF ProcLockInv
  <1> USE DEF PcOK, ProcLockInv, LockedPCs, InitPCs, Connectors, Threads, At,
              Goto, Move, Return, locks, data, Free
  <1>1. CASE StartEnter(t)
    BY <1>1 DEF StartEnter
  <1>2. CASE StartCas(t)
    BY <1>2 DEF StartCas
  <1>3. CASE StartDrop(t)
    BY <1>3 DEF StartDrop
  <1>4. CASE StartTryLock(t)
    BY <1>4 DEF StartTryLock
  <1>5. CASE StartSelect(t)
    BY <1>5 DEF StartSelect, Adopt
  <1>6. CASE NetCreate(t)
    BY <1>6 DEF NetCreate, Adopt
  <1>7. CASE BuildNode(t)
    BY <1>7 DEF BuildNode, Fail
  <1>8. CASE MarkConnected(t)
    BY <1>8 DEF MarkConnected
  <1>9. CASE FirmwareFails(t)
    BY <1>9 DEF FirmwareFails
  <1>10. CASE FirmwareDone(t)
    BY <1>10 DEF FirmwareDone
  <1>11. CASE StartImu(t)
    BY <1>11 DEF StartImu
  <1>12. CASE StartStreams(t)
    BY <1>12 DEF StartStreams, Fail
  <1>13. CASE Settle(t)
    BY <1>13 DEF Settle
  <1>14. CASE UseAfterReset(t)
    BY <1>14 DEF UseAfterReset, Crash
  <1>15. CASE RecordBag(t)
    BY <1>15 DEF RecordBag, AfterInit
  <1>16. CASE StartAfter(t)
    BY <1>16 DEF StartAfter
  <1>17. CASE StartFlag(t)
    BY <1>17 DEF StartFlag
  <1>18. CASE StartNotify(t)
    BY <1>18 DEF StartNotify
  <1>19. CASE StartUnlock(t)
    BY <1>19 DEF StartUnlock
  <1>20. CASE StartGuard(t)
    BY <1>20 DEF StartGuard
  <1>21. CASE KeepBag(t)
    BY <1>21 DEF KeepBag, AfterInit
  <1> QED
    BY <1>1, <1>2, <1>3, <1>4, <1>5, <1>6, <1>7, <1>8, <1>9, <1>10, <1>11,
       <1>12, <1>13, <1>14, <1>15, <1>16, <1>17, <1>18, <1>19, <1>20, <1>21
       DEF Connect

\* Nobody else touches the lock while a thread holds it.
LEMMA StepProcLockInv ==
    ASSUME PcOK, ProcLockInv, [Next]_vars
    PROVE  ProcLockInv'
PROOF
  <1> USE DEF PcOK, ProcLockInv, LockedPCs, InitPCs, Connectors, Threads, At,
              Goto, Move, locks, data, Free
  <1>1. CASE UNCHANGED vars
    BY <1>1 DEF vars
  <1>2. CASE Query
    BY <1>2 DEF Query, QueryTop, QueryWake, QueryCheck, QueryTry, AwaitReset,
                Wake
  <1>3. CASE Sdk
    BY <1>3 DEF Sdk, SdkDeliver, SdkDisconnected, SdkLock, SdkMatch,
                SdkConnected, SdkWake, SdkAdded, AwaitReset, Wake
  <1>4. CASE Reset
    BY <1>4 DEF Reset, ResetExit, ResetBegin, ResetLock, ResetRecording,
                ResetNode, ResetHandle, ResetNotify
  <1>5. CASE Timers
    BY <1>5 DEF Timers, CheckConnect, CheckConnectNode, StatusBegin,
                StatusTryLock, StatusEnd, SyncBegin, SyncCheck, SyncTryLock,
                SyncEnd, SyncAfterDrop, Crash, Called
  <1>6. CASE Reboot
    BY <1>6 DEF Reboot, RebootCall, RebootProcLock, RebootFlag, RebootRefused,
                RebootAccepted, RebootNode, RebootUnlock, RebootNotify
  <1>7. CASE Destructor \/ SetBagRecording
    BY <1>7 DEF Destructor, Unload, UnloadRecording, UnloadClean,
                UnloadJoinQuery, UnloadJoinReset, UnloadUnregister,
                SetBagRecording
  <1>8. CASE \E t \in Connectors : Connect(t)
    BY <1>8, ConnectProcLockInv
  <1>9. CASE Environment
    BY <1>9 DEF Environment, Unplug, Plug, CoolDown, OtherLocks, OtherUnlocks
  <1> QED
    BY <1>1, <1>2, <1>3, <1>4, <1>5, <1>6, <1>7, <1>8, <1>9
       DEF Next, Environment

\* Whatever becomes of device_connecting_, a thread of startDevice that selects
\* or initializes a camera owns the process-shared lock: the trylock is never
\* passed over and no other thread or process unlocks it.
THEOREM ProcLockCorrect == Spec => []InitHoldsProcLock
PROOF
  <1>1. Init => ProcLockInv
    BY DEF Init, ProcLockInv, Connectors, LockedPCs, InitPCs
  <1>2. TypeOK /\ ProcLockInv /\ [Next]_vars => ProcLockInv'
    BY StepProcLockInv DEF TypeOK
  <1>3. ProcLockInv => InitHoldsProcLock
    BY DEF ProcLockInv, InitHoldsProcLock
  <1> QED
    BY <1>1, <1>2, <1>3, TypeCorrect, PTL DEF Spec

-----------------------------------------------------------------------------
(* The node under the reboot service                                       *)

\* device_lock_ is held by the reset thread while it destroys the node and the
\* handle, and by the executor inside the service or the time-sync timer.
DeviceLockInv ==
    /\ pc["reset"] \in {"r_record", "r_node", "r_device"}
         => deviceLock = "reset"
    /\ pc["exec"] \in {"x_inSync", "b_reboot"} => deviceLock = "exec"

\* device_lock_ is taken when free and released by its holder.
LEMMA StepDeviceLockInv ==
    ASSUME PcOK, DeviceLockInv, [Next]_vars
    PROVE  DeviceLockInv'
PROOF
  <1> USE DEF PcOK, DeviceLockInv, Connectors, Threads, At, Goto, Move, locks,
              data, Free
  <1>1. CASE UNCHANGED vars
    BY <1>1 DEF vars
  <1>2. CASE Query
    BY <1>2 DEF Query, QueryTop, QueryWake, QueryCheck, QueryTry, AwaitReset,
                Wake
  <1>3. CASE Sdk
    BY <1>3 DEF Sdk, SdkDeliver, SdkDisconnected, SdkLock, SdkMatch,
                SdkConnected, SdkWake, SdkAdded, AwaitReset, Wake, NotifyAll
  <1>4. CASE Reset
    BY <1>4 DEF Reset, ResetExit, ResetBegin, ResetLock, ResetRecording,
                ResetNode, ResetHandle, ResetNotify, NotifyAll
  <1>5. CASE Timers
    BY <1>5 DEF Timers, CheckConnect, CheckConnectNode, StatusBegin,
                StatusTryLock, StatusEnd, SyncBegin, SyncCheck, SyncTryLock,
                SyncEnd, SyncAfterDrop, Crash, Called
  <1>6. CASE Reboot
    BY <1>6 DEF Reboot, RebootCall, RebootProcLock, RebootFlag, RebootRefused,
                RebootAccepted, RebootNode, RebootUnlock, RebootNotify,
                NotifyAll, Called
  <1>7. CASE Destructor \/ SetBagRecording
    BY <1>7 DEF Destructor, Unload, UnloadRecording, UnloadClean,
                UnloadJoinQuery, UnloadJoinReset, UnloadUnregister,
                SetBagRecording, NotifyAll, Called
  <1>8. CASE \E t \in Connectors : Connect(t)
    <2> PICK t \in Connectors : Connect(t)
      BY <1>8
    <2> QED
      BY DEF Connect, StartEnter, StartCas, StartDrop, StartTryLock,
             StartSelect, NetCreate, BuildNode, MarkConnected, FirmwareFails,
             FirmwareDone, StartImu, StartStreams, Settle, UseAfterReset,
             RecordBag, KeepBag, AfterInit, StartAfter, StartFlag, StartNotify,
             StartUnlock, StartGuard, Adopt, Fail, Crash, Return, NotifyAll
  <1>9. CASE Environment
    BY <1>9 DEF Environment, Unplug, Plug, CoolDown, OtherLocks, OtherUnlocks
  <1> QED
    BY <1>1, <1>2, <1>3, <1>4, <1>5, <1>6, <1>7, <1>8, <1>9
       DEF Next, Environment

\* reset_device_mutex_ is held by the reset thread while it works, by the SDK
\* thread in onDeviceDisconnected, and by the executor inside the reboot service
\* or the status timer.
ResetMutexInv ==
    /\ pc["reset"] \in {"r_lock", "r_record", "r_node", "r_device"}
         => resetMutex = "reset"
    /\ pc["sdk"] = "k_match" => resetMutex = "sdk"
    /\ pc["exec"] \in {"b_lock", "b_reboot", "x_inStatus"}
         => resetMutex = "exec"

\* reset_device_mutex_ is taken when free and released by its holder.
LEMMA StepResetMutexInv ==
    ASSUME PcOK, ResetMutexInv, [Next]_vars
    PROVE  ResetMutexInv'
PROOF
  <1> USE DEF PcOK, ResetMutexInv, Connectors, Threads, At, Goto, Move, locks,
              data, Free
  <1>1. CASE UNCHANGED vars
    BY <1>1 DEF vars
  <1>2. CASE Query
    BY <1>2 DEF Query, QueryTop, QueryWake, QueryCheck, QueryTry, AwaitReset,
                Wake
  <1>3. CASE Sdk
    BY <1>3 DEF Sdk, SdkDeliver, SdkDisconnected, SdkLock, SdkMatch,
                SdkConnected, SdkWake, SdkAdded, AwaitReset, Wake, NotifyAll
  <1>4. CASE Reset
    BY <1>4 DEF Reset, ResetExit, ResetBegin, ResetLock, ResetRecording,
                ResetNode, ResetHandle, ResetNotify, NotifyAll
  <1>5. CASE Timers
    BY <1>5 DEF Timers, CheckConnect, CheckConnectNode, StatusBegin,
                StatusTryLock, StatusEnd, SyncBegin, SyncCheck, SyncTryLock,
                SyncEnd, SyncAfterDrop, Crash, Called
  <1>6. CASE Reboot
    BY <1>6 DEF Reboot, RebootCall, RebootProcLock, RebootFlag, RebootRefused,
                RebootAccepted, RebootNode, RebootUnlock, RebootNotify,
                NotifyAll, Called
  <1>7. CASE Destructor \/ SetBagRecording
    BY <1>7 DEF Destructor, Unload, UnloadRecording, UnloadClean,
                UnloadJoinQuery, UnloadJoinReset, UnloadUnregister,
                SetBagRecording, NotifyAll, Called
  <1>8. CASE \E t \in Connectors : Connect(t)
    <2> PICK t \in Connectors : Connect(t)
      BY <1>8
    <2> QED
      BY DEF Connect, StartEnter, StartCas, StartDrop, StartTryLock,
             StartSelect, NetCreate, BuildNode, MarkConnected, FirmwareFails,
             FirmwareDone, StartImu, StartStreams, Settle, UseAfterReset,
             RecordBag, KeepBag, AfterInit, StartAfter, StartFlag, StartNotify,
             StartUnlock, StartGuard, Adopt, Fail, Crash, Return, NotifyAll
  <1>9. CASE Environment
    BY <1>9 DEF Environment, Unplug, Plug, CoolDown, OtherLocks, OtherUnlocks
  <1> QED
    BY <1>1, <1>2, <1>3, <1>4, <1>5, <1>6, <1>7, <1>8, <1>9
       DEF Next, Environment

\* A camera that is addressed by IP is never announced to the driver.
NetWorldInv ==
    NetMode => /\ ev.added = {}
               /\ \A i \in 1 .. Len(events) : events[i].added = {}

\* Only a camera that vanishes adds an event, and that event adds no camera.
LEMMA StepNetWorldInv ==
    ASSUME TypeOK, NetWorldInv, [Next]_vars
    PROVE  NetWorldInv'
PROOF
  <1> SUFFICES ASSUME NetMode PROVE NetWorldInv'
    BY DEF NetWorldInv
  <1>1. CASE UNCHANGED <<ev, events>>
    BY <1>1 DEF NetWorldInv
  <1>2. ASSUME NEW d, Vanish(d), UNCHANGED ev PROVE NetWorldInv'
    <2> DEFINE e == [removed |-> {d}, added |-> {}]
    <2>1. events' = Append(events, e) /\ e.added = {} /\ ev' = ev
      BY <1>2 DEF Vanish
    <2>2. events \in Seq(Event)
      BY DEF TypeOK
    <2> HIDE DEF e
    <2> QED
      BY <2>1, <2>2 DEF NetWorldInv
  <1>3. CASE SdkDeliver
    <2>1. /\ events # <<>> /\ events \in Seq(Event)
          /\ ev' = Head(events) /\ events' = Tail(events)
      BY <1>3 DEF SdkDeliver, TypeOK
    <2> QED
      BY <2>1 DEF NetWorldInv
  <1>4. CASE RebootNode
    BY <1>1, <1>2, <1>4 DEF RebootNode
  <1>5. ASSUME NEW t \in Connectors, FirmwareDone(t) PROVE NetWorldInv'
    BY <1>2, <1>5 DEF FirmwareDone
  <1>6. ASSUME NEW d \in Devices, Unplug(d) PROVE NetWorldInv'
    BY <1>2, <1>6 DEF Unplug
  <1>7. CASE UNCHANGED vars
    BY <1>1, <1>7 DEF vars, data, rest, world
  <1>8. CASE Query \/ Reset \/ Timers \/ SetBagRecording \/ Destructor
    BY <1>1, <1>8
       DEF Query, QueryTop, QueryWake, QueryCheck, QueryTry, AwaitReset, Wake,
           Reset, ResetExit, ResetBegin, ResetLock, ResetRecording, ResetNode,
           ResetHandle, ResetNotify, Timers, CheckConnect, CheckConnectNode,
           StatusBegin, StatusTryLock, StatusEnd, SyncBegin, SyncCheck,
           SyncTryLock, SyncEnd, SyncAfterDrop, Crash, SetBagRecording,
           Destructor, Unload, UnloadRecording, UnloadClean, UnloadJoinQuery,
           UnloadJoinReset, UnloadUnregister, Move, data, rest, world
  <1>9. CASE Sdk
    BY <1>1, <1>3, <1>9
       DEF Sdk, SdkDisconnected, SdkLock, SdkMatch, SdkConnected, SdkWake,
           SdkAdded, AwaitReset, Wake, Move, data, rest, world
  <1>10. CASE Reboot
    BY <1>1, <1>4, <1>10
       DEF Reboot, RebootCall, RebootProcLock, RebootFlag, RebootRefused,
           RebootAccepted, RebootUnlock, RebootNotify, Move, data, rest, world
  <1>11. ASSUME NEW t \in Connectors, Connect(t) PROVE NetWorldInv'
    BY <1>1, <1>5, <1>11
       DEF Connect, StartEnter, StartCas, StartDrop, StartTryLock, StartSelect,
           NetCreate, BuildNode, MarkConnected, FirmwareFails, StartImu,
           StartStreams, Settle, UseAfterReset, Crash, RecordBag, KeepBag,
           AfterInit, StartAfter, StartFlag, StartNotify, StartUnlock,
           StartGuard, Move, data, rest, world
  <1>12. CASE Environment
    BY <1>1, <1>6, <1>12
       DEF Environment, Plug, CoolDown, OtherLocks, OtherUnlocks, data, rest,
           world
  <1> QED
    BY <1>7, <1>8, <1>9, <1>10, <1>11, <1>12 DEF Next

\* So the SDK thread never connects, and the query thread, which does, does so
\* without a connection. The service needs a connection: while it runs, the
\* query thread has one or is past the construction of the node.
NetInv ==
    NetMode =>
        /\ pc["sdk"] \in SdkPCs
        /\ pc["query"] \in QueryPCs \cup {"n_cas", "n_create", "s_guard"}
                           \cup InitPCs
        /\ pc["query"] \in {"n_cas", "n_create", "i_build", "i_mark"}
             => ~connected
        /\ pc["exec"] = "b_reboot" =>
             /\ pc["query"] \notin {"n_cas", "n_create", "i_build", "i_mark"}
             /\ pc["query"] \in {"q_check", "q_try"} => connected

\* While the service runs it keeps reset_device_mutex_, so the query thread
\* does not get past the head of its loop and no reset ends the connection.
LEMMA StepNetInv ==
    ASSUME TypeOK, NetWorldInv, ResetMutexInv, NetInv, [Next]_vars
    PROVE  NetInv'
PROOF
  <1> SUFFICES ASSUME NetMode PROVE NetInv'
    BY DEF NetInv
  <1> USE DEF TypeOK, PcOK, NetWorldInv, ResetMutexInv, NetInv, QueryPCs,
              SdkPCs, InitPCs, Connectors, Threads, At, Goto, Move, flags,
              locks, data, Free
  <1>1. CASE UNCHANGED vars
    BY <1>1 DEF vars
  <1>2. CASE Query
    BY <1>2 DEF Query, QueryTop, QueryWake, QueryCheck, QueryTry, AwaitReset,
                Wake
  <1>3. CASE Sdk
    BY <1>3 DEF Sdk, SdkDeliver, SdkDisconnected, SdkLock, SdkMatch,
                SdkConnected, SdkWake, SdkAdded, AwaitReset, Wake, NotifyAll
  <1>4. CASE Reset
    BY <1>4 DEF Reset, ResetExit, ResetBegin, ResetLock, ResetRecording,
                ResetNode, ResetHandle, ResetNotify, NotifyAll
  <1>5. CASE Timers
    BY <1>5 DEF Timers, CheckConnect, CheckConnectNode, StatusBegin,
                StatusTryLock, StatusEnd, SyncBegin, SyncCheck, SyncTryLock,
                SyncEnd, SyncAfterDrop, Crash, Called
  <1>6. CASE Reboot
    BY <1>6 DEF Reboot, RebootCall, RebootProcLock, RebootFlag, RebootRefused,
                RebootAccepted, RebootNode, RebootUnlock, RebootNotify,
                NotifyAll, Called
  <1>7. CASE Destructor \/ SetBagRecording
    BY <1>7 DEF Destructor, Unload, UnloadRecording, UnloadClean,
                UnloadJoinQuery, UnloadJoinReset, UnloadUnregister,
                SetBagRecording, NotifyAll, Called
  <1>8. CASE \E t \in Connectors : Connect(t)
    <2> PICK t \in Connectors : Connect(t)
      BY <1>8
    <2> QED
      BY DEF Connect, StartEnter, StartCas, StartDrop, StartTryLock,
             StartSelect, NetCreate, BuildNode, MarkConnected, FirmwareFails,
             FirmwareDone, StartImu, StartStreams, Settle, UseAfterReset,
             RecordBag, KeepBag, AfterInit, StartAfter, StartFlag, StartNotify,
             StartUnlock, StartGuard, Adopt, Fail, Crash, Return, NotifyAll
  <1>9. CASE Environment
    BY <1>9 DEF Environment, Unplug, Plug, CoolDown, OtherLocks, OtherUnlocks
  <1> QED
    BY <1>1, <1>2, <1>3, <1>4, <1>5, <1>6, <1>7, <1>8, <1>9
       DEF Next, Environment

\* A step changes the node under the service only by destroying it in
\* resetDevice, by replacing it in initializeDevice, or by finishing the
\* service. The first needs device_lock_; the second needs the process lock,
\* or, with a net_device_ip_, a driver that is not connected.
LEMMA StepRebootKeepsNode ==
    ASSUME TypeOK, ProcLockInv, DeviceLockInv, NetInv, RebootKeepsNode,
           [Next]_vars
    PROVE  RebootKeepsNode'
PROOF
  <1> USE DEF TypeOK, PcOK, RebootKeepsNode, ProcLockInv, DeviceLockInv,
              NetInv, LockedPCs, InitPCs, QueryPCs, SdkPCs, Connectors,
              Threads, At, Goto, Move, objs, data
  <1>1. CASE UNCHANGED vars
    BY <1>1 DEF vars
  <1>2. CASE Query
    BY <1>2 DEF Query, QueryTop, QueryWake, QueryCheck, QueryTry, AwaitReset,
                Wake
  <1>3. CASE Sdk
    BY <1>3 DEF Sdk, SdkDeliver, SdkDisconnected, SdkLock, SdkMatch,
                SdkConnected, SdkWake, SdkAdded, AwaitReset, Wake, NotifyAll
  <1>4. CASE Reset
    BY <1>4 DEF Reset, ResetExit, ResetBegin, ResetLock, ResetRecording,
                ResetNode, ResetHandle, ResetNotify, NotifyAll
  <1>5. CASE Timers
    BY <1>5 DEF Timers, CheckConnect, CheckConnectNode, StatusBegin,
                StatusTryLock, StatusEnd, SyncBegin, SyncCheck, SyncTryLock,
                SyncEnd, SyncAfterDrop, Crash, Called
  <1>6. CASE Reboot
    BY <1>6 DEF Reboot, RebootCall, RebootProcLock, RebootFlag, RebootRefused,
                RebootAccepted, RebootNode, RebootUnlock, RebootNotify,
                NotifyAll, Called
  <1>7. CASE Destructor \/ SetBagRecording
    BY <1>7 DEF Destructor, Unload, UnloadRecording, UnloadClean,
                UnloadJoinQuery, UnloadJoinReset, UnloadUnregister,
                SetBagRecording, NotifyAll, Called
  <1>8. CASE \E t \in Connectors : Connect(t)
    <2> PICK t \in Connectors : Connect(t)
      BY <1>8
    <2> QED
      BY DEF Connect, StartEnter, StartCas, StartDrop, StartTryLock,
             StartSelect, NetCreate, BuildNode, MarkConnected, FirmwareFails,
             FirmwareDone, StartImu, StartStreams, Settle, UseAfterReset,
             RecordBag, KeepBag, AfterInit, StartAfter, StartFlag, StartNotify,
             StartUnlock, StartGuard, Adopt, Fail, Crash, Return, NotifyAll
  <1>9. CASE Environment
    BY <1>9 DEF Environment, Unplug, Plug, CoolDown, OtherLocks, OtherUnlocks
  <1> QED
    BY <1>1, <1>2, <1>3, <1>4, <1>5, <1>6, <1>7, <1>8, <1>9
       DEF Next, Environment

\* While OBCameraNode::rebootDevice runs, ob_camera_node_ is not destroyed:
\* resetDevice is kept out by device_lock_, startDevice by the process lock,
\* and connectNetDevice by the connection the service has checked.
THEOREM RebootCorrect == Spec => []RebootKeepsNode
PROOF
  <1> DEFINE IInv == /\ ProcLockInv /\ DeviceLockInv /\ ResetMutexInv
                     /\ NetWorldInv /\ NetInv /\ RebootKeepsNode
  <1>1. Init => IInv
    BY DEF Init, ProcLockInv, DeviceLockInv, ResetMutexInv, NetWorldInv,
           NetInv, RebootKeepsNode, At, Connectors, LockedPCs, InitPCs,
           QueryPCs, SdkPCs, NoEvent
  <1>2. TypeOK /\ IInv /\ [Next]_vars => IInv'
    BY StepProcLockInv, StepDeviceLockInv, StepResetMutexInv, StepNetWorldInv,
       StepNetInv, StepRebootKeepsNode DEF TypeOK
  <1> QED
    BY <1>1, <1>2, TypeCorrect, PTL DEF Spec

-----------------------------------------------------------------------------
(* The three locks together                                                *)

\* Where the holder of each lock is: ProcLockInv, DeviceLockInv and
\* ResetMutexInv read from the lock to the thread, so that no thread keeps a
\* lock at a point where it has no more use for it. With a net_device_ip_ the
\* connecting threads never hold the process lock.
HolderInv ==
    /\ procLock \in Connectors => ~NetMode /\ pc[procLock] \in LockedPCs
    /\ procLock = "exec" <=> pc["exec"] \in LockedRebootPCs
    /\ procLock # "reset"
    /\ resetMutex \in {Free, "sdk", "reset", "exec"}
    /\ resetMutex = "sdk" => pc["sdk"] = "k_match"
    /\ resetMutex = "reset"
         => pc["reset"] \in {"r_lock", "r_record", "r_node", "r_device"}
    /\ resetMutex = "exec" => pc["exec"] \in {"b_lock", "b_reboot", "x_inStatus"}
    /\ deviceLock \in {Free, "reset", "exec"}
    /\ deviceLock = "reset"
         => pc["reset"] \in {"r_record", "r_node", "r_device"}
    /\ deviceLock = "exec" => pc["exec"] \in {"b_reboot", "x_inSync"}

\* A connecting thread moves between LockedPCs and the rest of its points only
\* with the process lock.
LEMMA ConnectHolderInv ==
    ASSUME TypeOK, ProcLockInv, NetInv, HolderInv,
           NEW t \in Connectors, Connect(t)
    PROVE  HolderInv'
PROOF
  <1> USE DEF TypeOK, PcOK, ProcLockInv, NetInv, HolderInv, LockedPCs,
              LockedRebootPCs, InitPCs, QueryPCs, SdkPCs, Connectors, Threads,
              At, Goto, Move, Return, locks, data, Free
  <1>1. CASE StartEnter(t)
    BY <1>1 DEF StartEnter
  <1>2. CASE StartCas(t)
    BY <1>2 DEF StartCas
  <1>3. CASE StartDrop(t)
    BY <1>3 DEF StartDrop
  <1>4. CASE StartTryLock(t)
    BY <1>4 DEF StartTryLock
  <1>5. CASE StartSelect(t)
    BY <1>5 DEF StartSelect, Adopt
  <1>6. CASE NetCreate(t)
    BY <1>6 DEF NetCreate, Adopt
  <1>7. CASE BuildNode(t)
    BY <1>7 DEF BuildNode, Fail
  <1>8. CASE MarkConnected(t)
    BY <1>8 DEF MarkConnected
  <1>9. CASE FirmwareFails(t)
    BY <1>9 DEF FirmwareFails
  <1>10. CASE FirmwareDone(t)
    BY <1>10 DEF FirmwareDone
  <1>11. CASE StartImu(t)
    BY <1>11 DEF StartImu
  <1>12. CASE StartStreams(t)
    BY <1>12 DEF StartStreams, Fail
  <1>13. CASE Settle(t)
    BY <1>13 DEF Settle
  <1>14. CASE UseAfterReset(t)
    BY <1>14 DEF UseAfterReset, Crash
  <1>15. CASE RecordBag(t)
    BY <1>15 DEF RecordBag, AfterInit
  <1>16. CASE StartAfter(t)
    BY <1>16 DEF StartAfter
  <1>17. CASE StartFlag(t)
    BY <1>17 DEF StartFlag
  <1>18. CASE StartNotify(t)
    BY <1>18 DEF StartNotify
  <1>19. CASE StartUnlock(t)
    BY <1>19 DEF StartUnlock
  <1>20. CASE StartGuard(t)
    BY <1>20 DEF StartGuard
  <1>21. CASE KeepBag(t)
    BY <1>21 DEF KeepBag, AfterInit
  <1> QED
    BY <1>1, <1>2, <1>3, <1>4, <1>5, <1>6, <1>7, <1>8, <1>9, <1>10, <1>11,
       <1>12, <1>13, <1>14, <1>15, <1>16, <1>17, <1>18, <1>19, <1>20, <1>21
       DEF Connect

\* Each lock is taken when it is free and given back by its holder.
LEMMA StepHolderInv ==
    ASSUME TypeOK, ProcLockInv, DeviceLockInv, ResetMutexInv, NetInv,
           HolderInv, [Next]_vars
    PROVE  HolderInv'
PROOF
  <1> USE DEF TypeOK, PcOK, DeviceLockInv, ResetMutexInv, HolderInv,
              LockedPCs, LockedRebootPCs, InitPCs, Connectors, Threads, At,
              Goto, Move, locks, data, Free
  <1>1. CASE UNCHANGED vars
    BY <1>1 DEF vars
  <1>2. CASE Query
    BY <1>2 DEF Query, QueryTop, QueryWake, QueryCheck, QueryTry, AwaitReset,
                Wake
  <1>3. CASE Sdk
    BY <1>3 DEF Sdk, SdkDeliver, SdkDisconnected, SdkLock, SdkMatch,
                SdkConnected, SdkWake, SdkAdded, AwaitReset, Wake, NotifyAll
  <1>4. CASE Reset
    BY <1>4 DEF Reset, ResetExit, ResetBegin, ResetLock, ResetRecording,
                ResetNode, ResetHandle, ResetNotify, NotifyAll
  <1>5. CASE Timers
    BY <1>5 DEF Timers, CheckConnect, CheckConnectNode, StatusBegin,
                StatusTryLock, StatusEnd, SyncBegin, SyncCheck, SyncTryLock,
                SyncEnd, SyncAfterDrop, Crash, Called
  <1>6. CASE Reboot
    BY <1>6 DEF Reboot, RebootCall, RebootProcLock, RebootFlag, RebootRefused,
                RebootAccepted, RebootNode, RebootUnlock, RebootNotify,
                NotifyAll, Called
  <1>7. CASE Destructor \/ SetBagRecording
    BY <1>7 DEF Destructor, Unload, UnloadRecording, UnloadClean,
                UnloadJoinQuery, UnloadJoinReset, UnloadUnregister,
                SetBagRecording, NotifyAll, Called
  <1>8. CASE \E t \in Connectors : Connect(t)
    BY <1>8, ConnectHolderInv
  <1>9. CASE Environment
    BY <1>9 DEF Environment, Unplug, Plug, CoolDown, OtherLocks, OtherUnlocks
  <1> QED
    BY <1>1, <1>2, <1>3, <1>4, <1>5, <1>6, <1>7, <1>8, <1>9
       DEF Next, Environment

\* who sleeps in reset_device_cond_.wait is at one of the two waits
SleepInv == \A t \in waiting : pc[t] = IF t = "query" THEN "q_wait" ELSE "k_wait"

LEMMA StepSleepInv ==
    ASSUME TypeOK, SleepInv, [Next]_vars
    PROVE  SleepInv'
PROOF
  <1> USE DEF TypeOK, PcOK, SleepInv, Connectors, Threads, At, Goto, Move, data
  <1>1. CASE UNCHANGED vars
    BY <1>1 DEF vars
  <1>2. CASE Query
    <2>1. waiting' = waiting \/ waiting' = waiting \cup {"query"}
      BY <1>2, Zenon DEF Query, QueryTop, QueryWake, QueryCheck, QueryTry,
                         AwaitReset, Wake
    <2>2. "query" \in waiting' => pc'["query"] = "q_wait"
      BY <1>2 DEF Query, QueryTop, QueryWake, QueryCheck, QueryTry, AwaitReset,
                  Wake
    <2>3. pc'["sdk"] = pc["sdk"]
      BY <1>2 DEF Query, QueryTop, QueryWake, QueryCheck, QueryTry, AwaitReset,
                  Wake
    <2> QED
      BY <2>1, <2>2, <2>3
  <1>3. CASE Sdk
    <2>1. waiting' = waiting \/ waiting' = waiting \cup {"sdk"} \/ waiting' = {}
      BY <1>3, Zenon DEF Sdk, SdkDeliver, SdkDisconnected, SdkLock, SdkMatch,
                         SdkConnected, SdkWake, SdkAdded, AwaitReset, Wake,
                         NotifyAll
    <2>2. "sdk" \in waiting' => pc'["sdk"] = "k_wait"
      BY <1>3 DEF Sdk, SdkDeliver, SdkDisconnected, SdkLock, SdkMatch,
                  SdkConnected, SdkWake, SdkAdded, AwaitReset, Wake, NotifyAll
    <2>3. pc'["query"] = pc["query"]
      BY <1>3 DEF Sdk, SdkDeliver, SdkDisconnected, SdkLock, SdkMatch,
                  SdkConnected, SdkWake, SdkAdded, AwaitReset, Wake, NotifyAll
    <2> QED
      BY <2>1, <2>2, <2>3
  <1>4. CASE Reset
    BY <1>4 DEF Reset, ResetExit, ResetBegin, ResetLock, ResetRecording,
                ResetNode, ResetHandle, ResetNotify, NotifyAll
  <1>5. CASE Timers
    BY <1>5 DEF Timers, CheckConnect, CheckConnectNode, StatusBegin,
                StatusTryLock, StatusEnd, SyncBegin, SyncCheck, SyncTryLock,
                SyncEnd, SyncAfterDrop, Crash, Called
  <1>6. CASE Reboot
    BY <1>6 DEF Reboot, RebootCall, RebootProcLock, RebootFlag, RebootRefused,
                RebootAccepted, RebootNode, RebootUnlock, RebootNotify,
                NotifyAll, Called
  <1>7. CASE Destructor \/ SetBagRecording
    BY <1>7 DEF Destructor, Unload, UnloadRecording, UnloadClean,
                UnloadJoinQuery, UnloadJoinReset, UnloadUnregister,
                SetBagRecording, NotifyAll, Called
  <1>8. CASE \E t \in Connectors : Connect(t)
    <2> PICK t \in Connectors : Connect(t)
      BY <1>8
    <2> QED
      BY DEF Connect, StartEnter, StartCas, StartDrop, StartTryLock,
             StartSelect, NetCreate, BuildNode, MarkConnected, FirmwareFails,
             FirmwareDone, StartImu, StartStreams, Settle, UseAfterReset,
             RecordBag, KeepBag, AfterInit, StartAfter, StartFlag, StartNotify,
             StartUnlock, StartGuard, Adopt, Fail, Crash, Return, NotifyAll
  <1>9. CASE Environment
    BY <1>9 DEF Environment, Unplug, Plug, CoolDown, OtherLocks, OtherUnlocks
  <1> QED
    BY <1>1, <1>2, <1>3, <1>4, <1>5, <1>6, <1>7, <1>8, <1>9
       DEF Next, Environment

\* the invariants of the locks
LocksInv == /\ ProcLockInv /\ DeviceLockInv /\ ResetMutexInv
            /\ NetWorldInv /\ NetInv /\ HolderInv /\ SleepInv

LEMMA LocksInvariant == Spec => []LocksInv
PROOF
  <1>1. Init => LocksInv
    BY DEF Init, LocksInv, ProcLockInv, DeviceLockInv, ResetMutexInv,
           NetWorldInv, NetInv, HolderInv, SleepInv, At, Connectors, LockedPCs,
           LockedRebootPCs, InitPCs, QueryPCs, SdkPCs, NoEvent, Free
  <1>2. TypeOK /\ LocksInv /\ [Next]_vars => LocksInv'
    BY StepProcLockInv, StepDeviceLockInv, StepResetMutexInv, StepNetWorldInv,
       StepNetInv, StepHolderInv, StepSleepInv DEF TypeOK, LocksInv
  <1> QED
    BY <1>1, <1>2, TypeCorrect, PTL DEF Spec

\* The locks are taken in the order *orb_device_lock_, reset_device_mutex_,
\* device_lock_: the thread that holds the last of those that are held waits
\* for none. So the driver's threads never deadlock on them, whatever the
\* cameras, the services and the number of faults.
THEOREM LocksCorrect == Spec => []LocksMoveOn
PROOF
  <1>1. ASSUME TypeOK, LocksInv PROVE LocksMoveOn
    <2> DEFINE owners == {t \in Threads : t \in {procLock, resetMutex, deviceLock}}
    <2> USE <1>1 DEF TypeOK, LocksInv, HolderInv, SleepInv, Blocked, Wants,
                     LockedPCs, LockedRebootPCs, InitPCs, Connectors, Threads,
                     Free
    <2>1. ASSUME deviceLock # Free PROVE \E t \in owners : ~Blocked(t)
      <3>1. deviceLock \in owners /\ ~Blocked(deviceLock)
        BY <2>1
      <3> QED BY <3>1
    <2>2. ASSUME deviceLock = Free, resetMutex # Free
          PROVE  \E t \in owners : ~Blocked(t)
      <3>1. resetMutex \in owners /\ ~Blocked(resetMutex)
        BY <2>2
      <3> QED BY <3>1
    <2>3. ASSUME deviceLock = Free, resetMutex = Free, procLock \in Threads
          PROVE  \E t \in owners : ~Blocked(t)
      <3>1. procLock \in owners /\ ~Blocked(procLock)
        BY <2>3
      <3> QED BY <3>1
    <2> QED BY <2>1, <2>2, <2>3 DEF LocksMoveOn
  <1> QED
    BY <1>1, LocksInvariant, TypeCorrect, PTL

\* the holder that procLock names is the one thread that is inside
HolderIsInside == LockHolders = {procLock} \ {Free}

\* Nobody takes the lock from another: it becomes free or was.
LEMMA ProcLockMoves ==
    ASSUME TypeOK, [Next]_vars
    PROVE  procLock' = procLock \/ procLock = Free \/ procLock' = Free
PROOF
  <1> USE DEF Move, locks, data
  <1>1. CASE UNCHANGED vars
    BY <1>1 DEF vars
  <1>2. CASE Query
    BY <1>2 DEF Query, QueryTop, QueryWake, QueryCheck, QueryTry, AwaitReset,
                Wake
  <1>3. CASE Sdk
    BY <1>3 DEF Sdk, SdkDeliver, SdkDisconnected, SdkLock, SdkMatch,
                SdkConnected, SdkWake, SdkAdded, AwaitReset, Wake, NotifyAll
  <1>4. CASE Reset
    BY <1>4 DEF Reset, ResetExit, ResetBegin, ResetLock, ResetRecording,
                ResetNode, ResetHandle, ResetNotify, NotifyAll
  <1>5. CASE Timers
    BY <1>5 DEF Timers, CheckConnect, CheckConnectNode, StatusBegin,
                StatusTryLock, StatusEnd, SyncBegin, SyncCheck, SyncTryLock,
                SyncEnd, SyncAfterDrop, Crash, Called
  <1>6. CASE Reboot
    BY <1>6 DEF Reboot, RebootCall, RebootProcLock, RebootFlag, RebootRefused,
                RebootAccepted, RebootNode, RebootUnlock, RebootNotify,
                NotifyAll, Called
  <1>7. CASE Destructor \/ SetBagRecording
    BY <1>7 DEF Destructor, Unload, UnloadRecording, UnloadClean,
                UnloadJoinQuery, UnloadJoinReset, UnloadUnregister,
                SetBagRecording, NotifyAll, Called
  <1>8. CASE \E t \in Connectors : Connect(t)
    <2> PICK t \in Connectors : Connect(t)
      BY <1>8
    <2> QED
      BY DEF Connect, StartEnter, StartCas, StartDrop, StartTryLock,
             StartSelect, NetCreate, BuildNode, MarkConnected, FirmwareFails,
             FirmwareDone, StartImu, StartStreams, Settle, UseAfterReset,
             RecordBag, KeepBag, AfterInit, StartAfter, StartFlag, StartNotify,
             StartUnlock, StartGuard, Adopt, Fail, Crash, Return, NotifyAll
  <1>9. CASE Environment
    BY <1>9 DEF Environment, Unplug, Plug, CoolDown, OtherLocks, OtherUnlocks
  <1> QED
    BY <1>1, <1>2, <1>3, <1>4, <1>5, <1>6, <1>7, <1>8, <1>9
       DEF Next, Environment

\* On *orb_device_lock_ the threads of this process, and those of others, do
\* what SharedLock says: whoever goes in finds nobody inside, and whoever
\* leaves was inside. The points between trylock and unlock are the mutex's
\* own state, seen from the code.
THEOREM LockPromiseKept == Spec => KeepsLockPromise
PROOF
  <1>1. TypeOK /\ LocksInv => HolderIsInside
    BY DEF TypeOK, LocksInv, ProcLockInv, HolderInv, HolderIsInside,
           LockHolders, Holders, Connectors, Threads, Free
  <1>2. Init => Lock!Init
    BY DEF Init, Lock!Init, LockHolders, LockedPCs, InitPCs, LockedRebootPCs,
           Connectors, Free
  <1>3. ASSUME TypeOK, TypeOK', HolderIsInside, HolderIsInside', [Next]_vars
        PROVE  [Lock!Next]_Lock!lock
    <2> DEFINE Users == Connectors \cup {"exec", "other"}
               owners == [m \in {"orb"} |-> LockHolders]
    <2>1. LockHolders \subseteq Users /\ LockHolders' \subseteq Users
      BY DEF LockHolders
    <2>2. CASE procLock' = procLock
      BY <1>3, <2>2 DEF HolderIsInside, Lock!lock
    <2>3. ASSUME procLock = Free, procLock' # Free PROVE Lock!Next
      <3>1. /\ LockHolders = {} /\ LockHolders' = {procLock'}
            /\ procLock' \in Users
        BY <1>3, <2>1, <2>3 DEF HolderIsInside
      <3>2. Lock!Take("orb", procLock')
        BY <3>1 DEF Lock!Take
      <3> QED BY <3>1, <3>2 DEF Lock!Next
    <2>4. ASSUME procLock # Free, procLock' = Free PROVE Lock!Next
      <3>1. /\ LockHolders = {procLock} /\ LockHolders' = {}
            /\ procLock \in Users
        BY <1>3, <2>1, <2>4 DEF HolderIsInside
      <3>2. Lock!Release("orb", procLock)
        BY <3>1 DEF Lock!Release
      <3> QED BY <3>1, <3>2 DEF Lock!Next
    <2> QED BY <1>3, <2>2, <2>3, <2>4, ProcLockMoves
  <1> QED
    BY <1>1, <1>2, <1>3, LocksInvariant, TypeCorrect, PTL
       DEF Spec, KeepsLockPromise, Lock!Spec

-----------------------------------------------------------------------------
(* reset_device_cond_                                                      *)

\* Without calls of the reboot service the executor is never inside it.
WakeInv == pc["exec"] \notin RebootPCs /\ WaitersWillBeWoken

\* A thread goes to sleep only under a raised flag, and the flag is lowered
\* only by the reset thread on its way to notify_all.
LEMMA StepWakeInv ==
    ASSUME "reboot" \notin Services, TypeOK, WakeInv, [Next]_vars
    PROVE  WakeInv'
PROOF
  <1> USE DEF TypeOK, PcOK, WakeInv, WaitersWillBeWoken, RebootPCs, Connectors,
              Threads, At, Goto, Move, flags, data
  <1>1. CASE UNCHANGED vars
    BY <1>1 DEF vars
  <1>2. CASE Query
    BY <1>2 DEF Query, QueryTop, QueryWake, QueryCheck, QueryTry, AwaitReset,
                Wake
  <1>3. CASE Sdk
    BY <1>3 DEF Sdk, SdkDeliver, SdkDisconnected, SdkLock, SdkMatch,
                SdkConnected, SdkWake, SdkAdded, AwaitReset, Wake, NotifyAll
  <1>4. CASE Reset
    BY <1>4 DEF Reset, ResetExit, ResetBegin, ResetLock, ResetRecording,
                ResetNode, ResetHandle, ResetNotify, NotifyAll
  <1>5. CASE Timers
    BY <1>5 DEF Timers, CheckConnect, CheckConnectNode, StatusBegin,
                StatusTryLock, StatusEnd, SyncBegin, SyncCheck, SyncTryLock,
                SyncEnd, SyncAfterDrop, Crash, Called
  <1>6. CASE Reboot
    BY <1>6 DEF Reboot, RebootCall, RebootProcLock, RebootFlag, RebootRefused,
                RebootAccepted, RebootNode, RebootUnlock, RebootNotify,
                NotifyAll, Called
  <1>7. CASE Destructor \/ SetBagRecording
    BY <1>7 DEF Destructor, Unload, UnloadRecording, UnloadClean,
                UnloadJoinQuery, UnloadJoinReset, UnloadUnregister,
                SetBagRecording, NotifyAll, Called
  <1>8. CASE \E t \in Connectors : Connect(t)
    <2> PICK t \in Connectors : Connect(t)
      BY <1>8
    <2> QED
      BY DEF Connect, StartEnter, StartCas, StartDrop, StartTryLock,
             StartSelect, NetCreate, BuildNode, MarkConnected, FirmwareFails,
             FirmwareDone, StartImu, StartStreams, Settle, UseAfterReset,
             RecordBag, KeepBag, AfterInit, StartAfter, StartFlag, StartNotify,
             StartUnlock, StartGuard, Adopt, Fail, Crash, Return, NotifyAll
  <1>9. CASE Environment
    BY <1>9 DEF Environment, Unplug, Plug, CoolDown, OtherLocks, OtherUnlocks
  <1> QED
    BY <1>1, <1>2, <1>3, <1>4, <1>5, <1>6, <1>7, <1>8, <1>9
       DEF Next, Environment

\* No wake-up is lost as long as no client calls the reboot service, whose
\* refusal lowers the flag without a notification: a thread that sleeps in
\* reset_device_cond_.wait will find the flag raised or be notified.
THEOREM WakeUpsCorrect ==
    ASSUME "reboot" \notin Services PROVE Spec => []WaitersWillBeWoken
PROOF
  <1>1. Init => WakeInv
    BY DEF Init, WakeInv, WaitersWillBeWoken, RebootPCs
  <1>2. TypeOK /\ WakeInv /\ [Next]_vars => WakeInv'
    BY StepWakeInv
  <1>3. WakeInv => WaitersWillBeWoken
    BY DEF WakeInv
  <1> QED
    BY <1>1, <1>2, <1>3, TypeCorrect, PTL DEF Spec

-----------------------------------------------------------------------------
(* The serial number and the recording                                     *)

\* Between selectDevice and the point where initializeDevice records its
\* serial number, device_ is the camera the driver is bound to, if it is bound.
SerialInv ==
    \A t \in Connectors :
        pc[t] \in {"i_build", "i_mark"} /\ device # NoDev
            => serial \in {NoDev, device}

\* selectDevice lets only the wanted camera into initializeDevice.
LEMMA StepSerialInv ==
    ASSUME TypeOK, ~NetMode, ProcLockInv, SerialInv, [Next]_vars
    PROVE  SerialInv'
PROOF
  <1> USE DEF TypeOK, PcOK, ProcLockInv, SerialInv, Connectors, Threads, At,
              Goto, Move, objs, handle, data, Wanted
  <1>1. CASE UNCHANGED vars
    BY <1>1 DEF vars
  <1>2. CASE Query
    BY <1>2 DEF Query, QueryTop, QueryWake, QueryCheck, QueryTry, AwaitReset,
                Wake
  <1>3. CASE Sdk
    BY <1>3 DEF Sdk, SdkDeliver, SdkDisconnected, SdkLock, SdkMatch,
                SdkConnected, SdkWake, SdkAdded, AwaitReset, Wake, NotifyAll
  <1>4. CASE Reset
    BY <1>4 DEF Reset, ResetExit, ResetBegin, ResetLock, ResetRecording,
                ResetNode, ResetHandle, ResetNotify, NotifyAll
  <1>5. CASE Timers
    BY <1>5 DEF Timers, CheckConnect, CheckConnectNode, StatusBegin,
                StatusTryLock, StatusEnd, SyncBegin, SyncCheck, SyncTryLock,
                SyncEnd, SyncAfterDrop, Crash, Called
  <1>6. CASE Reboot
    BY <1>6 DEF Reboot, RebootCall, RebootProcLock, RebootFlag, RebootRefused,
                RebootAccepted, RebootNode, RebootUnlock, RebootNotify,
                NotifyAll, Called
  <1>7. CASE Destructor \/ SetBagRecording
    BY <1>7 DEF Destructor, Unload, UnloadRecording, UnloadClean,
                UnloadJoinQuery, UnloadJoinReset, UnloadUnregister,
                SetBagRecording, NotifyAll, Called
  <1>8. CASE \E t \in Connectors : Connect(t)
    <2> PICK t \in Connectors : Connect(t)
      BY <1>8
    <2> QED
      BY DEF Connect, StartEnter, StartCas, StartDrop, StartTryLock,
             StartSelect, NetCreate, BuildNode, MarkConnected, FirmwareFails,
             FirmwareDone, StartImu, StartStreams, Settle, UseAfterReset,
             RecordBag, KeepBag, AfterInit, StartAfter, StartFlag, StartNotify,
             StartUnlock, StartGuard, Adopt, Fail, Crash, Return, NotifyAll
  <1>9. CASE Environment
    BY <1>9 DEF Environment, Unplug, Plug, CoolDown, OtherLocks, OtherUnlocks
  <1> QED
    BY <1>1, <1>2, <1>3, <1>4, <1>5, <1>6, <1>7, <1>8, <1>9
       DEF Next, Environment

\* Only initializeDevice assigns serial_number_, and it assigns the same one.
LEMMA StepSerialIsSticky ==
    ASSUME TypeOK, SerialInv, [Next]_vars, serial # NoDev
    PROVE  serial' = serial
PROOF
  <1> USE DEF SerialInv, At, Move, objs, data
  <1>1. CASE UNCHANGED vars
    BY <1>1 DEF vars
  <1>2. CASE Query
    BY <1>2 DEF Query, QueryTop, QueryWake, QueryCheck, QueryTry, AwaitReset,
                Wake
  <1>3. CASE Sdk
    BY <1>3 DEF Sdk, SdkDeliver, SdkDisconnected, SdkLock, SdkMatch,
                SdkConnected, SdkWake, SdkAdded, AwaitReset, Wake, NotifyAll
  <1>4. CASE Reset
    BY <1>4 DEF Reset, ResetExit, ResetBegin, ResetLock, ResetRecording,
                ResetNode, ResetHandle, ResetNotify, NotifyAll
  <1>5. CASE Timers
    BY <1>5 DEF Timers, CheckConnect, CheckConnectNode, StatusBegin,
                StatusTryLock, StatusEnd, SyncBegin, SyncCheck, SyncTryLock,
                SyncEnd, SyncAfterDrop, Crash, Called
  <1>6. CASE Reboot
    BY <1>6 DEF Reboot, RebootCall, RebootProcLock, RebootFlag, RebootRefused,
                RebootAccepted, RebootNode, RebootUnlock, RebootNotify,
                NotifyAll, Called
  <1>7. CASE Destructor \/ SetBagRecording
    BY <1>7 DEF Destructor, Unload, UnloadRecording, UnloadClean,
                UnloadJoinQuery, UnloadJoinReset, UnloadUnregister,
                SetBagRecording, NotifyAll, Called
  <1>8. CASE \E t \in Connectors : Connect(t)
    <2> PICK t \in Connectors : Connect(t)
      BY <1>8
    <2> QED
      BY DEF Connect, StartEnter, StartCas, StartDrop, StartTryLock,
             StartSelect, NetCreate, BuildNode, MarkConnected, FirmwareFails,
             FirmwareDone, StartImu, StartStreams, Settle, UseAfterReset,
             RecordBag, KeepBag, AfterInit, StartAfter, StartFlag, StartNotify,
             StartUnlock, StartGuard, Adopt, Fail, Crash, Return, NotifyAll
  <1>9. CASE Environment
    BY <1>9 DEF Environment, Unplug, Plug, CoolDown, OtherLocks, OtherUnlocks
  <1> QED
    BY <1>1, <1>2, <1>3, <1>4, <1>5, <1>6, <1>7, <1>8, <1>9
       DEF Next, Environment

\* A driver without a net_device_ip_ that has been bound to a camera by its
\* serial number stays bound to it: selectDevice lets no other camera into
\* initializeDevice, whatever order cameras and threads come in.
THEOREM SerialCorrect == ASSUME ~NetMode PROVE Spec => SerialIsSticky
PROOF
  <1> DEFINE IInv == ProcLockInv /\ SerialInv
  <1>1. Init => IInv
    BY DEF Init, ProcLockInv, SerialInv, Connectors, LockedPCs, InitPCs
  <1>2. TypeOK /\ IInv /\ [Next]_vars => IInv'
    BY StepProcLockInv, StepSerialInv DEF TypeOK
  <1>3. TypeOK /\ IInv /\ [Next]_vars
          => [serial # NoDev => serial' = serial]_vars
    BY StepSerialIsSticky
  <1> QED
    BY <1>1, <1>2, <1>3, TypeCorrect, PTL DEF Spec, SerialIsSticky

\* Nobody but a connecting thread, whose bag is "late", puts a bag into
\* record_device_ between the two steps of a teardown: the service waits for
\* device_lock_, and it runs on the thread of the destructor.
RecordingInv == InTeardown => recording # "open"

\* A bag is opened by the service and by connecting threads, and it is closed
\* on the way into a teardown.
LEMMA StepRecordingInv ==
    ASSUME TypeOK, DeviceLockInv, RecordingInv, [Next]_vars
    PROVE  RecordingInv'
PROOF
  <1> USE DEF TypeOK, PcOK, DeviceLockInv, RecordingInv, InTeardown,
              Connectors, Threads, At, Goto, Move, objs, data, Free
  <1>1. CASE UNCHANGED vars
    BY <1>1 DEF vars
  <1>2. CASE Query
    BY <1>2 DEF Query, QueryTop, QueryWake, QueryCheck, QueryTry, AwaitReset,
                Wake
  <1>3. CASE Sdk
    BY <1>3 DEF Sdk, SdkDeliver, SdkDisconnected, SdkLock, SdkMatch,
                SdkConnected, SdkWake, SdkAdded, AwaitReset, Wake, NotifyAll
  <1>4. CASE Reset
    BY <1>4 DEF Reset, ResetExit, ResetBegin, ResetLock, ResetRecording,
                ResetNode, ResetHandle, ResetNotify, NotifyAll
  <1>5. CASE Timers
    BY <1>5 DEF Timers, CheckConnect, CheckConnectNode, StatusBegin,
                StatusTryLock, StatusEnd, SyncBegin, SyncCheck, SyncTryLock,
                SyncEnd, SyncAfterDrop, Crash, Called
  <1>6. CASE Reboot
    BY <1>6 DEF Reboot, RebootCall, RebootProcLock, RebootFlag, RebootRefused,
                RebootAccepted, RebootNode, RebootUnlock, RebootNotify,
                NotifyAll, Called
  <1>7. CASE Destructor \/ SetBagRecording
    BY <1>7 DEF Destructor, Unload, UnloadRecording, UnloadClean,
                UnloadJoinQuery, UnloadJoinReset, UnloadUnregister,
                SetBagRecording, NotifyAll, Called
  <1>8. CASE \E t \in Connectors : Connect(t)
    <2> PICK t \in Connectors : Connect(t)
      BY <1>8
    <2> QED
      BY DEF Connect, StartEnter, StartCas, StartDrop, StartTryLock,
             StartSelect, NetCreate, BuildNode, MarkConnected, FirmwareFails,
             FirmwareDone, StartImu, StartStreams, Settle, UseAfterReset,
             RecordBag, KeepBag, AfterInit, StartAfter, StartFlag, StartNotify,
             StartUnlock, StartGuard, Adopt, Fail, Crash, Return, NotifyAll
  <1>9. CASE Environment
    BY <1>9 DEF Environment, Unplug, Plug, CoolDown, OtherLocks, OtherUnlocks
  <1> QED
    BY <1>1, <1>2, <1>3, <1>4, <1>5, <1>6, <1>7, <1>8, <1>9
       DEF Next, Environment

\* A step that stops or destroys the node opens no bag.
LEMMA StepRecordingFinalizedFirst ==
    ASSUME RecordingInv, [Next]_vars, InTeardown
    PROVE  node' = node \/ recording' # "open"
PROOF
  <1> USE DEF RecordingInv, At, Move, objs, data
  <1>1. CASE UNCHANGED vars
    BY <1>1 DEF vars
  <1>2. CASE Query
    BY <1>2 DEF Query, QueryTop, QueryWake, QueryCheck, QueryTry, AwaitReset,
                Wake
  <1>3. CASE Sdk
    BY <1>3 DEF Sdk, SdkDeliver, SdkDisconnected, SdkLock, SdkMatch,
                SdkConnected, SdkWake, SdkAdded, AwaitReset, Wake, NotifyAll
  <1>4. CASE Reset
    BY <1>4 DEF Reset, ResetExit, ResetBegin, ResetLock, ResetRecording,
                ResetNode, ResetHandle, ResetNotify, NotifyAll
  <1>5. CASE Timers
    BY <1>5 DEF Timers, CheckConnect, CheckConnectNode, StatusBegin,
                StatusTryLock, StatusEnd, SyncBegin, SyncCheck, SyncTryLock,
                SyncEnd, SyncAfterDrop, Crash, Called
  <1>6. CASE Reboot
    BY <1>6 DEF Reboot, RebootCall, RebootProcLock, RebootFlag, RebootRefused,
                RebootAccepted, RebootNode, RebootUnlock, RebootNotify,
                NotifyAll, Called
  <1>7. CASE Destructor \/ SetBagRecording
    BY <1>7 DEF Destructor, Unload, UnloadRecording, UnloadClean,
                UnloadJoinQuery, UnloadJoinReset, UnloadUnregister,
                SetBagRecording, NotifyAll, Called
  <1>8. CASE \E t \in Connectors : Connect(t)
    <2> PICK t \in Connectors : Connect(t)
      BY <1>8
    <2> QED
      BY DEF Connect, StartEnter, StartCas, StartDrop, StartTryLock,
             StartSelect, NetCreate, BuildNode, MarkConnected, FirmwareFails,
             FirmwareDone, StartImu, StartStreams, Settle, UseAfterReset,
             RecordBag, KeepBag, AfterInit, StartAfter, StartFlag, StartNotify,
             StartUnlock, StartGuard, Adopt, Fail, Crash, Return, NotifyAll
  <1>9. CASE Environment
    BY <1>9 DEF Environment, Unplug, Plug, CoolDown, OtherLocks, OtherUnlocks
  <1> QED
    BY <1>1, <1>2, <1>3, <1>4, <1>5, <1>6, <1>7, <1>8, <1>9
       DEF Next, Environment

\* Whoever opens a bag, in whatever mode and with whatever services: a pipeline
\* that resetDevice or the destructor ends while it streams feeds no bag but
\* one that a connecting thread opened in the middle of that teardown.
THEOREM RecordingCorrect == Spec => RecordingFinalizedFirst
PROOF
  <1> DEFINE IInv == DeviceLockInv /\ RecordingInv
  <1>1. Init => IInv
    BY DEF Init, DeviceLockInv, RecordingInv, InTeardown
  <1>2. TypeOK /\ IInv /\ [Next]_vars => IInv'
    BY StepDeviceLockInv, StepRecordingInv DEF TypeOK
  <1>3. TypeOK /\ IInv /\ [Next]_vars
          => [node = "streaming" /\ InTeardown
                => node' = "streaming" \/ recording' # "open"]_vars
    BY StepRecordingFinalizedFirst
  <1> QED
    BY <1>1, <1>2, <1>3, TypeCorrect, PTL DEF Spec, RecordingFinalizedFirst
=============================================================================
