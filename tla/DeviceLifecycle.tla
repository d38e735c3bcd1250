-------------------------- MODULE DeviceLifecycle --------------------------
(***************************************************************************)
(* The connection life cycle of one OBCameraNodeDriver: the threads that   *)
(* connect, lose, reset, reboot and tear down the single camera a driver   *)
(* process owns (orbbec_camera/src/ob_camera_node_driver.cpp).             *)
(*                                                                         *)
(*   query   queryDevice(), the polling thread that connects               *)
(*   sdk     the SDK thread that delivers device-changed callbacks         *)
(*   reset   resetDevice(), the thread that tears a lost device down       *)
(*   exec    the executor thread: timers, services and, because a          *)
(*           component is unloaded by a service, the destructor            *)
(*                                                                         *)
(* A step is one access to state another thread can see, or a critical     *)
(* section that is entered and left without blocking.                      *)
(***************************************************************************)
EXTENDS Naturals, Sequences, FiniteSets

CONSTANTS
    Devices,      \* the physical cameras
    NoDev,        \* a null device pointer or an empty serial number
    NetMode,      \* net_device_ip_ is set: connectNetDevice, not startDevice
    AutoRecord,   \* bag_record_filename_ is set
    Upgrade,      \* upgrade_firmware_ is set when the driver starts
    Services,     \* which timers are on and what the clients call
    MaxFaults,    \* bound on unplugs, SDK errors and foreign lock holders
    MaxEvents     \* bound on the undelivered device-changed callbacks

ServiceNames == {"check", "timers", "reboot", "bag", "unload"}

ASSUME DevicesAssumption == Devices # {} /\ NoDev \notin Devices
ASSUME ModeAssumption == {NetMode, AutoRecord, Upgrade} \subseteq BOOLEAN
ASSUME ServicesAssumption == Services \subseteq ServiceNames
ASSUME BoundAssumption == MaxFaults \in Nat /\ MaxEvents \in Nat

VARIABLES
    alive,        \* is_alive_
    connected,    \* device_connected_
    connecting,   \* device_connecting_
    resetFlag,    \* reset_device_flag_
    resetMutex,   \* holder of reset_device_mutex_
    deviceLock,   \* holder of device_lock_
    procLock,     \* holder of the process-shared *orb_device_lock_
    waiting,      \* threads blocked in reset_device_cond_.wait
    device,       \* device_
    devLive,      \* the handle in device_ still reaches its camera
    node,         \* ob_camera_node_ and what it is doing
    serial,       \* serial_number_
    recording,    \* record_device_: none, open, or opened late in a teardown
    syncTimer,    \* sync_host_time_timer_ is not null
    delayStream,  \* delay_stream_start_after_reconnect_
    upgrade,      \* upgrade_firmware_ is not empty
    fwSuccess,    \* firmware_update_success_
    cooled,       \* 10 s have passed since the last reset completed
    present,      \* cameras that are plugged in and have booted
    events,       \* device-changed callbacks not delivered yet
    ev,           \* the callback the SDK thread is running
    list,         \* the device list a connecting thread works from
    faults,       \* faults injected so far
    crashed,      \* the process died of a bad pointer or a stray exception
    pc            \* where each thread is

flags  == <<alive, connected, connecting, resetFlag>>
locks  == <<resetMutex, deviceLock, procLock>>
handle == <<device, devLive>>
objs   == <<device, devLive, node, serial, recording, syncTimer>>
fw     == <<delayStream, upgrade, fwSuccess>>
world  == <<present, events, faults>>
rest   == <<cooled, world, ev, list, crashed>>
data   == <<flags, locks, waiting, objs, fw, rest>>
vars   == <<data, pc>>

Threads    == {"query", "sdk", "reset", "exec"}
Connectors == {"query", "sdk"}
Free       == "free"
Holders    == Threads \cup {Free, "other"}

QueryPCs == {"q_top", "q_wait", "q_check", "q_try", "q_done"}
SdkPCs   == {"k_idle", "k_disc", "k_lock", "k_match", "k_conn", "k_wait",
             "k_added"}
\* inside startDevice / connectNetDevice, after the guard is in place
SelectPCs == {"s_drop", "s_lock", "s_select", "n_create"}
InitPCs   == {"i_build", "i_mark", "i_firmware", "i_start", "i_streams",
              "i_settle", "i_bag", "i_record"}
ExitPCs   == {"s_after", "s_flag", "s_notify", "s_unlock", "s_guard"}
ConnectPCs == SelectPCs \cup InitPCs \cup ExitPCs
EnterPCs   == {"s_enter", "s_cas", "n_cas"}
ResetPCs  == {"r_wait", "r_lock", "r_record", "r_node", "r_device", "r_notify",
              "r_done"}
RebootPCs == {"b_proc", "b_flag", "b_lock", "b_reboot", "b_unlock",
              "b_notify"}
ExecPCs   == {"x_idle", "x_check", "x_status", "x_inStatus", "x_sync",
              "x_syncLock", "x_inSync", "d_record", "d_clean", "d_query",
              "d_reset", "d_unregister", "d_done"} \cup RebootPCs

\* the part of startDevice that runs under the process-shared lock
LockedPCs  == InitPCs \cup {"s_select", "s_after", "s_flag", "s_notify",
                            "s_unlock"}
\* and the part of rebootDeviceCallback
LockedRebootPCs == {"b_flag", "b_lock", "b_reboot", "b_unlock"}
PCs == QueryPCs \cup SdkPCs \cup EnterPCs \cup ConnectPCs \cup ResetPCs
         \cup ExecPCs
PCsOf(t) == CASE t = "query" -> QueryPCs \cup EnterPCs \cup ConnectPCs
              [] t = "sdk"   -> SdkPCs \cup EnterPCs \cup ConnectPCs
              [] t = "reset" -> ResetPCs
              [] t = "exec"  -> ExecPCs

NodeStates == {"none", "built", "streaming", "cleaned"}
Recordings == {"none", "open", "late"}
Event      == [removed : SUBSET Devices, added : SUBSET Devices]
NoEvent    == [removed |-> {}, added |-> {}]

PcOK ==
    /\ pc \in [Threads -> PCs]
    /\ \A t \in Threads : pc[t] \in PCsOf(t)

TypeOK ==
    /\ alive \in BOOLEAN /\ connected \in BOOLEAN /\ connecting \in BOOLEAN
    /\ resetFlag \in BOOLEAN
    /\ resetMutex \in Holders /\ deviceLock \in Holders
    /\ procLock \in Holders
    /\ waiting \subseteq Connectors
    /\ device \in Devices \cup {NoDev} /\ devLive \in BOOLEAN
    /\ devLive => device # NoDev
    /\ node \in NodeStates
    /\ serial \in Devices \cup {NoDev}
    /\ recording \in Recordings /\ syncTimer \in BOOLEAN
    /\ delayStream \in BOOLEAN /\ upgrade \in BOOLEAN
    /\ fwSuccess \in BOOLEAN /\ cooled \in BOOLEAN
    /\ present \subseteq Devices
    /\ events \in Seq(Event) /\ Len(events) <= MaxEvents
    /\ ev \in Event
    /\ list \in [Connectors -> SUBSET Devices]
    /\ faults \in 0..MaxFaults
    /\ crashed \in BOOLEAN
    /\ PcOK

-----------------------------------------------------------------------------
(* init(): the flags and threads as the constructor leaves them.           *)

Init ==
    /\ alive = TRUE /\ connected = FALSE /\ connecting = FALSE
    /\ resetFlag = FALSE
    /\ resetMutex = Free /\ deviceLock = Free /\ procLock = Free
    /\ waiting = {}
    /\ device = NoDev /\ devLive = FALSE /\ node = "none"
    /\ serial = NoDev /\ recording = "none" /\ syncTimer = FALSE
    /\ delayStream = FALSE /\ upgrade = Upgrade /\ fwSuccess = FALSE
    /\ cooled = TRUE
    /\ present \in SUBSET Devices /\ events = <<>> /\ faults = 0
    /\ ev = NoEvent
    /\ list = [t \in Connectors |-> {}]
    /\ crashed = FALSE
    /\ pc = [query |-> "q_top", sdk |-> "k_idle",
             reset |-> "r_wait", exec |-> "x_idle"]

\* Thread t is at l, and the process lives.
At(t, l)   == ~crashed /\ pc[t] = l
Goto(t, l) == pc' = [pc EXCEPT ![t] = l]
Move(t, l) == Goto(t, l) /\ UNCHANGED data

\* Mutant: the SDK thread carries on as if it were the query thread.
Return_ToQueryLoop(t) == Goto(t, "q_top")

\* Where a connecting thread returns to.
Return(t) == Goto(t, IF t = "query" THEN "q_top" ELSE "k_idle")

\* A dereference of a pointer another thread reset: the process dies.
Crash == /\ crashed' = TRUE
         /\ UNCHANGED <<flags, locks, waiting, objs, fw, cooled, world, ev,
                        list, pc>>

\* The camera drops off the bus: handles to it stop working and the SDK
\* queues a device-changed callback.
Vanish(d) == /\ present' = present \ {d}
             /\ devLive' = (devLive /\ device # d)
             /\ events' = Append(events, [removed |-> {d}, added |-> {}])

EventRoom == Len(events) < MaxEvents

\* An SDK call on the handle may fail: always when the camera is gone, and
\* as an injected fault when it is not.
SdkFails == IF devLive
              THEN faults < MaxFaults /\ faults' = faults + 1
              ELSE faults' = faults

-----------------------------------------------------------------------------
(* reset_device_cond_.wait under reset_device_mutex_, on two threads.      *)

AwaitReset(t, wait, go, stop) ==
    /\ resetMutex = Free
    /\ waiting' = IF resetFlag /\ alive THEN waiting \cup {t} ELSE waiting
    /\ Goto(t, IF ~resetFlag THEN go ELSE IF alive THEN wait ELSE stop)
    /\ UNCHANGED <<flags, locks, objs, fw, rest>>

\* Notified, the thread gets the mutex back and evaluates the predicate.
Wake(t, go, stop) ==
    /\ t \notin waiting /\ resetMutex = Free
    /\ IF resetFlag /\ alive
         THEN waiting' = waiting \cup {t} /\ UNCHANGED pc
         ELSE Goto(t, IF alive THEN go ELSE stop) /\ UNCHANGED waiting
    /\ UNCHANGED <<flags, locks, objs, fw, rest>>

NotifyAll == waiting' = {}

-----------------------------------------------------------------------------
(* queryDevice()                                                           *)

QueryTop ==
    /\ At("query", "q_top")
    /\ \/ ~alive /\ Move("query", "q_done")
       \/ alive /\ AwaitReset("query", "q_wait", "q_check", "q_done")

QueryWake == At("query", "q_wait") /\ Wake("query", "q_check", "q_done")

QueryCheck ==
    /\ At("query", "q_check")
    /\ Move("query", IF connecting THEN "q_top" ELSE "q_try")

QueryTry ==
    /\ At("query", "q_try")
    /\ \/ /\ connected \/ ~cooled \/ (~NetMode /\ present = {})
          /\ Goto("query", "q_top")
          /\ UNCHANGED list
       \/ /\ ~connected /\ cooled /\ NetMode
          /\ Goto("query", "n_cas")
          /\ UNCHANGED list
       \/ /\ ~connected /\ cooled /\ ~NetMode /\ present # {}
          /\ list' = [list EXCEPT !["query"] = present]
          /\ Goto("query", "s_enter")
    /\ UNCHANGED <<flags, locks, waiting, objs, fw, cooled, world, ev,
                   crashed>>

-----------------------------------------------------------------------------
(* startDevice() and connectNetDevice(), on the query or the SDK thread    *)

StartEnter(t) ==
    /\ At(t, "s_enter")
    /\ IF connected THEN Return(t) ELSE Goto(t, "s_cas")
    /\ UNCHANGED data

\* device_connecting_.compare_exchange_strong(false, true)
StartCas(t) ==
    /\ At(t, "s_cas") \/ At(t, "n_cas")
    /\ \/ /\ connecting
          /\ Return(t)
          /\ UNCHANGED connecting
       \/ /\ ~connecting
          /\ connecting' = TRUE
          /\ Goto(t, IF pc[t] = "s_cas" THEN "s_drop" ELSE "n_create")
    /\ UNCHANGED <<alive, connected, resetFlag, locks, waiting, objs, fw,
                   rest>>

\* device_.reset(), before any lock is held
StartDrop(t) ==
    /\ At(t, "s_drop")
    /\ device' = NoDev /\ devLive' = FALSE
    /\ Goto(t, "s_lock")
    /\ UNCHANGED <<flags, locks, waiting, node, serial, recording, syncTimer,
                   fw, rest>>

\* Mutant: after five failed attempts the thread goes on without the lock.
StartTryLock_Ignored(t) ==
    /\ At(t, "s_lock")
    /\ procLock' = IF procLock = Free THEN t ELSE procLock
    /\ Goto(t, "s_select")
    /\ UNCHANGED <<flags, resetMutex, deviceLock, waiting, objs, fw, rest>>

\* five pthread_mutex_trylock, 100 ms apart
StartTryLock(t) ==
    /\ At(t, "s_lock")
    /\ \/ /\ procLock = Free
          /\ procLock' = t
          /\ Goto(t, "s_select")
       \/ /\ procLock # Free
          /\ Goto(t, "s_guard")
          /\ UNCHANGED procLock
    /\ UNCHANGED <<flags, resetMutex, deviceLock, waiting, objs, fw, rest>>

\* the head of initializeDevice: device_ = device, the old node is destroyed
Adopt(t, d) ==
    /\ device' = d /\ devLive' = TRUE /\ node' = "none"
    /\ Goto(t, "i_build")

\* Mutant: the first device in the list, whatever the serial number.
Wanted_First(d) == d \in Devices

\* selectDevice: by serial number once one is known, else the first device
Wanted(d) == serial \in {NoDev, d}

StartSelect(t) ==
    /\ At(t, "s_select")
    /\ serial # NoDev => deviceLock = Free
    /\ \/ \E d \in list[t] :
            /\ Wanted(d) /\ d \in present
            /\ Adopt(t, d)
            /\ UNCHANGED connected
       \/ /\ serial \notin list[t] \cap present   \* no match: nullptr
          /\ serial # NoDev
          /\ connected' = FALSE
          /\ Goto(t, "s_unlock")
          /\ UNCHANGED <<handle, node>>
       \/ /\ serial = NoDev                       \* getDevice(0) throws
          /\ ~(list[t] \subseteq present)
          /\ connected' = FALSE
          /\ Goto(t, "s_flag")
          /\ UNCHANGED <<handle, node>>
    /\ UNCHANGED <<alive, connecting, resetFlag, locks, waiting, serial,
                   recording, syncTimer, fw, rest>>

\* createNetDevice, then the head of initializeDevice. No try block is around
\* the call: a null result is an early return, an exception the end.
NetCreate(t) ==
    /\ At(t, "n_create")
    /\ \/ \E d \in present : Adopt(t, d)
          /\ UNCHANGED crashed
       \/ /\ present = {}
          /\ \/ Goto(t, "s_guard") /\ UNCHANGED crashed
             \/ crashed' = TRUE /\ UNCHANGED pc
          /\ UNCHANGED <<handle, node>>
    /\ UNCHANGED <<flags, locks, waiting, serial, recording, syncTimer, fw,
                   cooled, world, ev, list>>

\* The catch blocks: startDevice asks for a reset, connectNetDevice does not.
Fail(t) == /\ connected' = FALSE
           /\ Goto(t, IF NetMode THEN "s_guard" ELSE "s_flag")

\* the rest of initializeDevice follows ------------------------------------
\* up to three attempts to construct the OBCameraNode
BuildNode(t) ==
    /\ At(t, "i_build") /\ device # NoDev
    /\ \/ /\ devLive
          /\ node' = "built"
          /\ Goto(t, "i_mark")
          /\ UNCHANGED <<connected, faults>>
       \/ /\ SdkFails
          /\ Fail(t)
          /\ UNCHANGED node
    /\ UNCHANGED <<alive, connecting, resetFlag, locks, waiting, handle,
                   serial, recording, syncTimer, fw, cooled, present, events,
                   ev, list, crashed>>

\* device_connected_ = true, serial number and uid, the time-sync timer
MarkConnected(t) ==
    /\ At(t, "i_mark") /\ device # NoDev
    /\ connected' = TRUE
    /\ serial' = device
    /\ syncTimer' = TRUE
    /\ Goto(t, "i_firmware")
    /\ UNCHANGED <<alive, connecting, resetFlag, locks, waiting, handle, node,
                   recording, fw, rest>>

\* The update failed: initializeDevice goes on to the streams.
FirmwareFails(t) ==
    /\ At(t, "i_firmware") /\ upgrade
    /\ IF node = "none" THEN UNCHANGED faults ELSE SdkFails
    /\ fwSuccess' = FALSE
    /\ Goto(t, "i_start")
    /\ UNCHANGED <<flags, locks, waiting, objs, delayStream, upgrade, cooled,
                   present, events, ev, list, crashed>>

\* updateFirmware runs firmwareUpdateCallback, which reboots the camera;
\* STAT_DONE_REBOOT_AND_REUPDATE keeps the path for a second round.
FirmwareDone(t) ==
    /\ At(t, "i_firmware") /\ upgrade /\ node # "none" /\ devLive /\ EventRoom
    /\ Vanish(device)
    /\ syncTimer' = FALSE
    /\ delayStream' = TRUE
    /\ connected' = FALSE
    /\ fwSuccess' = TRUE
    /\ \/ upgrade' = FALSE /\ UNCHANGED faults
       \/ /\ faults < MaxFaults
          /\ faults' = faults + 1 /\ UNCHANGED upgrade
    /\ Goto(t, IF NetMode THEN "s_guard" ELSE "s_after")
    /\ UNCHANGED <<alive, connecting, resetFlag, locks, waiting, device, node,
                   serial, recording, cooled, ev, list, crashed>>

\* the delay flag is consumed, then startIMU if the node is there
StartImu(t) ==
    /\ At(t, "i_start") \/ (At(t, "i_firmware") /\ ~upgrade)
    /\ delayStream' = FALSE
    /\ Goto(t, IF node = "none" THEN "i_bag" ELSE "i_streams")
    /\ UNCHANGED <<flags, locks, waiting, objs, upgrade, fwSuccess, rest>>

StartStreams(t) ==
    /\ At(t, "i_streams") /\ node # "none"
    /\ \/ /\ devLive
          /\ node' = "streaming"
          /\ Goto(t, "i_settle")
          /\ UNCHANGED <<connected, faults>>
       \/ /\ SdkFails
          /\ Fail(t)
          /\ UNCHANGED node
    /\ UNCHANGED <<alive, connecting, resetFlag, locks, waiting, handle,
                   serial, recording, syncTimer, fw, cooled, present, events,
                   ev, list, crashed>>

\* startStreams sleeps a second after the pipeline runs, then returns
Settle(t) ==
    /\ At(t, "i_settle") /\ node # "none"
    /\ Move(t, "i_bag")

\* A null device_ or a destroyed node is used: undefined, the process dies.
UseAfterReset(t) ==
    /\ ~crashed
    /\ \/ pc[t] \in {"i_build", "i_mark"} /\ device = NoDev
       \/ pc[t] \in {"i_streams", "i_settle"} /\ node = "none"
    /\ Crash

\* Between closing the bag and tearing the node down, reset and destructor
\* leave room for a connecting thread, which takes neither of their locks.
InTeardown == pc["reset"] = "r_node" \/ pc["exec"] = "d_clean"
AfterInit  == IF NetMode THEN "s_guard" ELSE "s_after"

\* Without a bag in record_device_, one is opened; the SDK may refuse.
RecordBag(t) ==
    /\ At(t, "i_bag")
    /\ \/ /\ AutoRecord /\ recording = "none" /\ device # NoDev
          /\ Goto(t, "i_record")
       \/ Goto(t, AfterInit)
    /\ UNCHANGED data

\* and assigned to record_device_
KeepBag(t) ==
    /\ At(t, "i_record")
    /\ recording' = IF InTeardown THEN "late" ELSE "open"
    /\ Goto(t, AfterInit)
    /\ UNCHANGED <<flags, locks, waiting, handle, node, serial, syncTimer, fw,
                   rest>>

\* Mutant: the rebooted camera is not handed to the reset thread.
StartAfter_NoReset(t) ==
    /\ At(t, "s_after")
    /\ fwSuccess' = FALSE
    /\ connected' = (connected /\ ~fwSuccess)
    /\ Goto(t, "s_unlock")
    /\ UNCHANGED <<alive, connecting, resetFlag, locks, waiting, objs,
                   delayStream, upgrade, rest>>

\* A finished firmware update drops the connection and asks for a reset.
StartAfter(t) ==
    /\ At(t, "s_after")
    /\ fwSuccess' = FALSE
    /\ connected' = (connected /\ ~fwSuccess)
    /\ Goto(t, IF fwSuccess THEN "s_flag" ELSE "s_unlock")
    /\ UNCHANGED <<alive, connecting, resetFlag, locks, waiting, objs,
                   delayStream, upgrade, rest>>

StartFlag(t) ==
    /\ At(t, "s_flag") /\ resetMutex = Free
    /\ resetFlag' = TRUE
    /\ Goto(t, "s_notify")
    /\ UNCHANGED <<alive, connected, connecting, locks, waiting, objs, fw,
                   rest>>

StartNotify(t) ==
    /\ At(t, "s_notify")
    /\ NotifyAll
    /\ Goto(t, "s_unlock")
    /\ UNCHANGED <<flags, locks, objs, fw, rest>>

\* lock_holder is destroyed first, connecting_guard second
StartUnlock(t) ==
    /\ At(t, "s_unlock")
    /\ procLock' = Free
    /\ Goto(t, "s_guard")
    /\ UNCHANGED <<flags, resetMutex, deviceLock, waiting, objs, fw, rest>>

\* Mutant: an early return skips the guard.
StartGuard_Skipped(t) ==
    /\ At(t, "s_guard")
    /\ Return(t)
    /\ UNCHANGED data

StartGuard(t) ==
    /\ At(t, "s_guard")
    /\ connecting' = FALSE
    /\ Return(t)
    /\ UNCHANGED <<alive, connected, resetFlag, locks, waiting, objs, fw,
                   rest>>

Connect(t) ==
    \/ StartEnter(t) \/ StartCas(t) \/ StartDrop(t) \/ StartTryLock(t)
    \/ StartSelect(t) \/ NetCreate(t) \/ BuildNode(t) \/ MarkConnected(t)
    \/ FirmwareFails(t) \/ FirmwareDone(t)
    \/ StartImu(t) \/ StartStreams(t) \/ Settle(t) \/ UseAfterReset(t)
    \/ RecordBag(t) \/ KeepBag(t) \/ StartAfter(t) \/ StartFlag(t)
    \/ StartNotify(t) \/ StartUnlock(t) \/ StartGuard(t)

-----------------------------------------------------------------------------
(* the device-changed callback: onDeviceDisconnected(removed_list), then   *)
(* onDeviceConnected(added_list)                                           *)

SdkDeliver ==
    /\ At("sdk", "k_idle") /\ events # <<>>
    /\ pc["exec"] # "d_done"                   \* still registered
    /\ ev' = Head(events) /\ events' = Tail(events)
    /\ Goto("sdk", "k_disc")
    /\ UNCHANGED <<flags, locks, waiting, objs, fw, cooled, present, faults,
                   list, crashed>>

\* an empty list, or a connection in progress: the event is ignored
SdkDisconnected ==
    /\ At("sdk", "k_disc")
    /\ Move("sdk", IF ev.removed = {} \/ connecting THEN "k_conn" ELSE "k_lock")

SdkLock ==
    /\ At("sdk", "k_lock") /\ resetMutex = Free
    /\ resetMutex' = "sdk"
    /\ Goto("sdk", "k_match")
    /\ UNCHANGED <<flags, deviceLock, procLock, waiting, objs, fw, rest>>

\* Mutant: the guard is still there when onDeviceConnected is called.
SdkMatch_GuardKept ==
    /\ At("sdk", "k_match") /\ deviceLock = Free
    /\ \/ /\ connected /\ serial \in ev.removed
          /\ delayStream' = TRUE /\ resetFlag' = TRUE
          /\ NotifyAll
       \/ /\ ~(connected /\ serial \in ev.removed)
          /\ UNCHANGED <<delayStream, resetFlag, waiting>>
    /\ Goto("sdk", "k_conn")
    /\ UNCHANGED <<alive, connected, connecting, locks, objs, upgrade,
                   fwSuccess, rest>>

\* under both locks: is it our camera that went away?
SdkMatch ==
    /\ At("sdk", "k_match") /\ deviceLock = Free
    /\ \/ /\ connected /\ serial \in ev.removed
          /\ delayStream' = TRUE /\ resetFlag' = TRUE
          /\ NotifyAll
       \/ /\ ~(connected /\ serial \in ev.removed)
          /\ UNCHANGED <<delayStream, resetFlag, waiting>>
    /\ resetMutex' = Free
    /\ Goto("sdk", "k_conn")
    /\ UNCHANGED <<alive, connected, connecting, deviceLock, procLock, objs,
                   upgrade, fwSuccess, rest>>

SdkConnected ==
    At("sdk", "k_conn") /\ AwaitReset("sdk", "k_wait", "k_added", "k_idle")

SdkWake == At("sdk", "k_wait") /\ Wake("sdk", "k_added", "k_idle")

SdkAdded ==
    /\ At("sdk", "k_added")
    /\ \/ /\ ev.added # {} /\ ~connected /\ ~connecting /\ device = NoDev
          /\ list' = [list EXCEPT !["sdk"] = ev.added]
          /\ Goto("sdk", "s_enter")
       \/ /\ ~(ev.added # {} /\ ~connected /\ ~connecting /\ device = NoDev)
          /\ Goto("sdk", "k_idle")
          /\ UNCHANGED list
    /\ UNCHANGED <<flags, locks, waiting, objs, fw, cooled, world, ev,
                   crashed>>

Sdk == \/ SdkDeliver \/ SdkDisconnected \/ SdkLock \/ SdkMatch
       \/ SdkConnected \/ SdkWake \/ SdkAdded

-----------------------------------------------------------------------------
(* resetDevice(): its wait is timed, so it looks again by itself           *)

ResetExit ==
    /\ At("reset", "r_wait") /\ resetMutex = Free /\ ~alive
    /\ Move("reset", "r_done")

\* Mutant: only a connected device is reset.
ResetBegin_IfConnected ==
    /\ At("reset", "r_wait") /\ resetMutex = Free /\ alive /\ resetFlag
    /\ connected
    /\ resetMutex' = "reset"
    /\ syncTimer' = FALSE
    /\ Goto("reset", "r_lock")
    /\ UNCHANGED <<flags, deviceLock, procLock, waiting, handle, node, serial,
                   recording, fw, rest>>

ResetBegin ==
    /\ At("reset", "r_wait") /\ resetMutex = Free /\ alive /\ resetFlag
    /\ resetMutex' = "reset"
    /\ syncTimer' = FALSE
    /\ Goto("reset", "r_lock")
    /\ UNCHANGED <<flags, deviceLock, procLock, waiting, handle, node, serial,
                   recording, fw, rest>>

ResetLock ==
    /\ At("reset", "r_lock") /\ deviceLock = Free
    /\ deviceLock' = "reset"
    /\ connected' = FALSE /\ connecting' = FALSE
    /\ Goto("reset", "r_record")
    /\ UNCHANGED <<alive, resetFlag, resetMutex, procLock, waiting, objs, fw,
                   rest>>

\* Mutant: the recording is left to whoever starts the next one.
ResetRecording_Skipped ==
    /\ At("reset", "r_record")
    /\ Goto("reset", "r_node")
    /\ UNCHANGED data

\* the recording is finalized
ResetRecording ==
    /\ At("reset", "r_record")
    /\ recording' = "none"
    /\ Goto("reset", "r_node")
    /\ UNCHANGED <<flags, locks, waiting, handle, node, serial, syncTimer, fw,
                   rest>>

\* and the node destroyed
ResetNode ==
    /\ At("reset", "r_node")
    /\ node' = "none"
    /\ Goto("reset", "r_device")
    /\ UNCHANGED <<flags, locks, waiting, handle, serial, recording, syncTimer,
                   fw, rest>>

ResetHandle ==
    /\ At("reset", "r_device")
    /\ device' = NoDev /\ devLive' = FALSE
    /\ resetFlag' = FALSE
    /\ cooled' = FALSE
    /\ resetMutex' = Free /\ deviceLock' = Free
    /\ Goto("reset", "r_notify")
    /\ UNCHANGED <<alive, connected, connecting, procLock, waiting, node,
                   serial, recording, syncTimer, fw, world, ev, list, crashed>>

\* Mutant: notify_one where notify_all is needed.
ResetNotify_One ==
    /\ At("reset", "r_notify")
    /\ IF waiting = {} THEN UNCHANGED waiting
       ELSE \E t \in waiting : waiting' = waiting \ {t}
    /\ Goto("reset", "r_wait")
    /\ UNCHANGED <<flags, locks, objs, fw, rest>>

ResetNotify ==
    /\ At("reset", "r_notify")
    /\ NotifyAll
    /\ Goto("reset", "r_wait")
    /\ UNCHANGED <<flags, locks, objs, fw, rest>>

Reset == \/ ResetExit \/ ResetBegin \/ ResetLock \/ ResetRecording
         \/ ResetNode \/ ResetHandle \/ ResetNotify

-----------------------------------------------------------------------------
(* the executor thread: timers                                             *)

Called(s) == At("exec", "x_idle") /\ s \in Services

\* checkConnectTimer: reads device_connected_ first, the pointers second
CheckConnect ==
    /\ Called("check") /\ connected
    /\ Move("exec", "x_check")

CheckConnectNode ==
    /\ At("exec", "x_check")
    /\ connected' = (connected /\ node # "none")
    /\ Goto("exec", "x_idle")
    /\ UNCHANGED <<alive, connecting, resetFlag, locks, waiting, objs, fw,
                   rest>>

\* deviceStatusTimer
StatusBegin ==
    /\ Called("timers") /\ connected /\ ~connecting
    /\ Move("exec", "x_status")

StatusTryLock ==
    /\ At("exec", "x_status")
    /\ \/ /\ resetMutex = Free /\ ~resetFlag
          /\ resetMutex' = "exec"
          /\ Goto("exec", "x_inStatus")
       \/ /\ resetMutex # Free \/ resetFlag
          /\ Goto("exec", "x_idle")
          /\ UNCHANGED resetMutex
    /\ UNCHANGED <<flags, deviceLock, procLock, waiting, objs, fw, rest>>

StatusEnd ==
    /\ At("exec", "x_inStatus")
    /\ resetMutex' = Free
    /\ Goto("exec", "x_idle")
    /\ UNCHANGED <<flags, deviceLock, procLock, waiting, objs, fw, rest>>

\* the lambda of sync_host_time_timer_: the reset check and the device lock
\* are two separate try-locks
SyncBegin ==
    /\ Called("timers") /\ syncTimer
    /\ device # NoDev /\ connected /\ ~connecting
    /\ Move("exec", "x_sync")

SyncCheck ==
    /\ At("exec", "x_sync")
    /\ Move("exec", IF resetMutex = Free /\ ~resetFlag
                      THEN "x_syncLock" ELSE "x_idle")

SyncTryLock ==
    /\ At("exec", "x_syncLock")
    /\ \/ /\ deviceLock = Free /\ device # NoDev
          /\ deviceLock' = "exec"
          /\ Goto("exec", "x_inSync")
       \/ /\ ~(deviceLock = Free /\ device # NoDev)
          /\ Goto("exec", "x_idle")
          /\ UNCHANGED deviceLock
    /\ UNCHANGED <<flags, resetMutex, procLock, waiting, objs, fw, rest>>

SyncEnd ==
    /\ At("exec", "x_inSync") /\ device # NoDev
    /\ deviceLock' = Free
    /\ Goto("exec", "x_idle")
    /\ UNCHANGED <<flags, resetMutex, procLock, waiting, objs, fw, rest>>

\* timerSyncWithHost on a device_ that startDevice dropped meanwhile
SyncAfterDrop ==
    /\ At("exec", "x_inSync") /\ device = NoDev
    /\ Crash

Timers == \/ CheckConnect \/ CheckConnectNode \/ StatusBegin \/ StatusTryLock
          \/ StatusEnd \/ SyncBegin \/ SyncCheck \/ SyncTryLock \/ SyncEnd
          \/ SyncAfterDrop

-----------------------------------------------------------------------------
(* the executor thread: setBagRecordingCallback and rebootDeviceCallback   *)

SetBagRecording ==
    /\ Called("bag") /\ deviceLock = Free /\ device # NoDev
    /\ recording' \in {"none", "open"}
    /\ UNCHANGED <<flags, locks, waiting, handle, node, serial, syncTimer, fw,
                   rest, pc>>

RebootCall ==
    /\ Called("reboot")
    /\ Move("exec", "b_proc")

\* pthread_mutex_timedlock, 15 s
RebootProcLock ==
    /\ At("exec", "b_proc")
    /\ \/ /\ procLock = Free
          /\ procLock' = "exec"
          /\ Goto("exec", "b_flag")
       \/ /\ procLock # Free
          /\ Goto("exec", "x_idle")
          /\ UNCHANGED procLock
    /\ UNCHANGED <<flags, resetMutex, deviceLock, waiting, objs, fw, rest>>

RebootFlag ==
    /\ At("exec", "b_flag") /\ resetMutex = Free
    /\ resetMutex' = "exec"
    /\ resetFlag' = TRUE
    /\ Goto("exec", "b_lock")
    /\ UNCHANGED <<alive, connected, connecting, deviceLock, procLock, waiting,
                   objs, fw, rest>>

RebootRefused ==
    /\ At("exec", "b_lock") /\ deviceLock = Free
    /\ ~connected \/ node = "none"
    /\ resetFlag' = FALSE
    /\ resetMutex' = Free
    /\ Goto("exec", "b_unlock")
    /\ UNCHANGED <<alive, connected, connecting, deviceLock, procLock, waiting,
                   objs, fw, rest>>

\* Mutant: a connected driver is taken to have a node.
RebootAccepted_Unchecked ==
    /\ At("exec", "b_lock") /\ deviceLock = Free
    /\ connected
    /\ deviceLock' = "exec"
    /\ delayStream' = TRUE
    /\ Goto("exec", "b_reboot")
    /\ UNCHANGED <<flags, resetMutex, procLock, waiting, objs, upgrade,
                   fwSuccess, rest>>

RebootAccepted ==
    /\ At("exec", "b_lock") /\ deviceLock = Free
    /\ connected /\ node # "none"
    /\ deviceLock' = "exec"
    /\ delayStream' = TRUE
    /\ Goto("exec", "b_reboot")
    /\ UNCHANGED <<flags, resetMutex, procLock, waiting, objs, upgrade,
                   fwSuccess, rest>>

\* OBCameraNode::rebootDevice: clean(), then device_->reboot()
RebootNode ==
    /\ At("exec", "b_reboot")
    /\ node' = IF node = "none" THEN "none" ELSE "cleaned"
    /\ \/ devLive /\ EventRoom /\ Vanish(device)
       \/ ~devLive /\ UNCHANGED <<present, devLive, events>>
    /\ resetMutex' = Free /\ deviceLock' = Free
    /\ Goto("exec", "b_unlock")
    /\ UNCHANGED <<flags, procLock, waiting, device, serial, recording,
                   syncTimer, fw, cooled, faults, ev, list, crashed>>

RebootUnlock ==
    /\ At("exec", "b_unlock")
    /\ procLock' = Free
    /\ Goto("exec", "b_notify")
    /\ UNCHANGED <<flags, resetMutex, deviceLock, waiting, objs, fw, rest>>

RebootNotify ==
    /\ At("exec", "b_notify")
    /\ IF resetFlag THEN NotifyAll ELSE UNCHANGED waiting
    /\ Goto("exec", "x_idle")
    /\ UNCHANGED <<flags, locks, objs, fw, rest>>

Reboot == \/ RebootCall \/ RebootProcLock \/ RebootFlag \/ RebootRefused
          \/ RebootAccepted \/ RebootNode \/ RebootUnlock \/ RebootNotify

-----------------------------------------------------------------------------
(* the executor thread: ~OBCameraNodeDriver when the component is unloaded *)

Unload ==
    /\ Called("unload")
    /\ alive' = FALSE
    /\ Goto("exec", "d_record")
    /\ UNCHANGED <<connected, connecting, resetFlag, locks, waiting, objs, fw,
                   rest>>

\* the recording is finalized
UnloadRecording ==
    /\ At("exec", "d_record")
    /\ recording' = "none"
    /\ Goto("exec", "d_clean")
    /\ UNCHANGED <<flags, locks, waiting, handle, node, serial, syncTimer, fw,
                   rest>>

\* the node cleaned, the timers cancelled
UnloadClean ==
    /\ At("exec", "d_clean")
    /\ node' = IF node = "none" THEN "none" ELSE "cleaned"
    /\ syncTimer' = FALSE
    /\ Goto("exec", "d_query")
    /\ UNCHANGED <<flags, locks, waiting, handle, serial, recording, fw, rest>>

\* the query thread is joined first, then the waiters are notified
UnloadJoinQuery ==
    /\ At("exec", "d_query") /\ At("query", "q_done")
    /\ NotifyAll
    /\ Goto("exec", "d_reset")
    /\ UNCHANGED <<flags, locks, objs, fw, rest>>

UnloadJoinReset ==
    /\ At("exec", "d_reset") /\ At("reset", "r_done")
    /\ Move("exec", "d_unregister")

\* unregisterDeviceChangedCallback returns when no callback is running; the
\* members are destroyed after it
UnloadUnregister ==
    /\ At("exec", "d_unregister") /\ At("sdk", "k_idle")
    /\ node' = "none" /\ device' = NoDev /\ devLive' = FALSE
    /\ recording' = "none"
    /\ Goto("exec", "d_done")
    /\ UNCHANGED <<flags, locks, waiting, serial, syncTimer, fw, rest>>

Destructor == \/ Unload \/ UnloadRecording \/ UnloadClean
              \/ UnloadJoinQuery \/ UnloadJoinReset \/ UnloadUnregister

-----------------------------------------------------------------------------
(* the world: cameras, time and other driver processes                     *)

Unplug(d) ==
    /\ d \in present /\ faults < MaxFaults /\ EventRoom
    /\ Vanish(d)
    /\ faults' = faults + 1
    /\ UNCHANGED <<flags, locks, waiting, device, node, serial, recording,
                   syncTimer, fw, cooled, ev, list, crashed, pc>>

\* plugged in again, or back from a reboot; a camera addressed by IP is not
\* enumerated
Plug(d) ==
    /\ d \notin present /\ EventRoom
    /\ present' = present \cup {d}
    /\ events' = IF NetMode THEN events
                 ELSE Append(events, [removed |-> {}, added |-> {d}])
    /\ UNCHANGED <<flags, locks, waiting, objs, fw, cooled, faults, ev, list,
                   crashed, pc>>

CoolDown ==
    /\ ~cooled
    /\ cooled' = TRUE
    /\ UNCHANGED <<flags, locks, waiting, objs, fw, world, ev, list, crashed,
                   pc>>

OtherLocks ==
    /\ procLock = Free /\ faults < MaxFaults
    /\ procLock' = "other" /\ faults' = faults + 1
    /\ UNCHANGED <<flags, resetMutex, deviceLock, waiting, objs, fw, cooled,
                   present, events, ev, list, crashed, pc>>

OtherUnlocks ==
    /\ procLock = "other"
    /\ procLock' = Free
    /\ UNCHANGED <<flags, resetMutex, deviceLock, waiting, objs, fw, rest, pc>>

Environment == \/ \E d \in Devices : Unplug(d) \/ Plug(d)
               \/ CoolDown \/ OtherLocks \/ OtherUnlocks

Query == QueryTop \/ QueryWake \/ QueryCheck \/ QueryTry

Next == \/ Query \/ Sdk \/ Reset \/ Timers \/ SetBagRecording \/ Reboot
        \/ Destructor
        \/ \E t \in Connectors : Connect(t)
        \/ Environment

Spec == Init /\ [][Next]_vars

\* The executor finishes a callback it has begun; whether a client calls a
\* service is the client's choice.
Exec == pc["exec"] # "x_idle" /\ (Timers \/ Reboot \/ Destructor)

\* Every thread keeps running; sleeps and timed waits end, other processes
\* release the shared lock, and a camera that is off comes back. The reset
\* thread gets its mutex in the end even when other threads keep taking it.
Fairness ==
    /\ WF_vars(Query \/ Connect("query"))
    /\ WF_vars(Sdk \/ Connect("sdk"))
    /\ SF_vars(Reset)
    /\ WF_vars(Exec)
    /\ WF_vars(CoolDown)
    /\ WF_vars(OtherUnlocks)
    /\ \A d \in Devices : WF_vars(Plug(d))

FairSpec == Spec /\ Fairness

-----------------------------------------------------------------------------
(* Properties                                                              *)

\* Between the trylock of startDevice and the release of lock_holder the
\* thread owns the process-shared lock: whatever becomes of
\* device_connecting_, no two threads of any driver process are selecting or
\* initializing a camera at the same time.
InitHoldsProcLock ==
    ~NetMode => \A t \in Connectors : pc[t] \in LockedPCs => procLock = t

\* *orb_device_lock_ as SharedLock sees it: the threads of this process between
\* taking it and giving it back, or one of another process. ProcessLock keeps
\* the same promise over all processes; this module assumes that nobody starts
\* a driver or is killed meanwhile, so that the mutex stays sound.
LockHolders ==
    {t \in Connectors : ~NetMode /\ pc[t] \in LockedPCs}
    \cup {t \in {"exec"} : pc[t] \in LockedRebootPCs}
    \cup ({procLock} \cap {"other"})
Lock == INSTANCE SharedLock WITH
            Users <- Connectors \cup {"exec", "other"}, Mutexes <- {"orb"},
            owners <- [m \in {"orb"} |-> LockHolders],
            fate <- [m \in {"orb"} |-> "sound"]

\* startDevice and rebootDeviceCallback use the lock as SharedLock allows: they
\* go in only when nobody is inside, and only who is inside gives it back.
KeepsLockPromise == Lock!Spec

\* A thread that cannot go on by itself: it wants a lock that is taken, sleeps
\* in reset_device_cond_.wait, joins another thread, waits for a call or is done.
Wants(t, lock, points) == lock # Free /\ pc[t] \in points
Blocked(t) ==
    \/ Wants(t, resetMutex, {"q_top", "q_wait", "k_lock", "k_conn", "k_wait",
                             "s_flag", "r_wait", "b_flag"})
    \/ Wants(t, deviceLock, {"s_select", "k_match", "r_lock", "b_lock"})
    \/ t \in waiting
    \/ pc[t] \in {"q_done", "k_idle", "r_done", "x_idle", "d_query", "d_reset",
                  "d_unregister", "d_done"}

\* No deadlock among the driver's three locks: as long as threads hold some of
\* them, one of these threads can go on. No thread sleeps, waits to be called
\* or ends with a lock, and no ring of threads wait for each other's.
LocksMoveOn ==
    LET owners == {t \in Threads : t \in {procLock, resetMutex, deviceLock}}
    IN  owners # {} => \E t \in owners : ~Blocked(t)

\* No wake-up is lost: while a thread sleeps in reset_device_cond_.wait, the
\* flag it waits for is still up or the reset thread is about to notify it.
WaitersWillBeWoken ==
    waiting # {} => resetFlag \/ pc["reset"] = "r_notify"

\* The reboot service dereferences ob_camera_node_ while it runs: neither a
\* reset nor a reconnection destroys the node under it.
RebootKeepsNode == pc["exec"] = "b_reboot" => node # "none"

\* Once bound to a serial number the driver never adopts another camera,
\* whatever is plugged in while it is disconnected.
SerialIsSticky == [][serial # NoDev => serial' = serial]_vars

\* The flag raised for the reset thread comes down again, unless the driver
\* is being unloaded.
ResetIsServed == resetFlag ~> ~resetFlag \/ ~alive \/ crashed

\* A driver without a connection connects again, as cameras come back.
AlwaysReconnects == ~connected ~> connected \/ ~alive \/ crashed

\* The comments of resetDevice and of the time-sync timer say other threads do
\* not reach a device or node that is being torn down.
NoUseAfterReset == ~crashed

\* The destructor's comment: a recording is finalized before the pipeline is
\* torn down. When a node that streams goes while resetDevice or the destructor
\* tears down, the last bag is closed and the service has opened no other; only
\* a connecting thread still in initializeDevice may have: its bag is "late".
\* The reboot service and a second connection promise nothing about the bag.
RecordingFinalizedFirst ==
    [][node = "streaming" /\ InTeardown
         => node' = "streaming" \/ recording' # "open"]_vars

\* A camera that was unplugged does not stay "connected".
LossIsNoticed == connected /\ ~devLive ~> ~connected \/ devLive \/ ~alive \/ crashed

\* The destructor ends: the threads it joins stop.
UnloadCompletes == ~alive ~> pc["exec"] = "d_done" \/ crashed

\* firmwareUpdateCallback's comment: after a firmware update the reset thread
\* handles the cleanup of the rebooted camera.
FirmwareIsReset == fwSuccess ~> pc["reset"] = "r_node" \/ ~alive \/ crashed
=============================================================================
