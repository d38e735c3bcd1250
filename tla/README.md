# TLA+ models of the Orbbec ROS 2 camera driver

The repository wraps the closed Orbbec SDK in ROS 2 components
(`src/orbbec_camera`). The driver of one camera is a process of many threads:
threads of its own, the SDK's callback threads, the executor that runs timers
and services, and other driver processes on the same machine. They share flags,
pointers and locks, and the camera may leave at any moment. This directory
models that coordination, checks it with TLC and proves the main results with
TLAPS. Paths below are relative to `src/orbbec_camera/`.

## Inventory

Line counts in parentheses. "Properties" is what makes the part correct.

**Device lifecycle** - `src/ob_camera_node_driver.cpp` (1854).
State: `is_alive_`, `device_connected_`, `device_connecting_`,
`reset_device_flag_`; `device_`, `ob_camera_node_`, `serial_number_`,
`record_device_`, `sync_host_time_timer_`, the firmware flags; the locks
`device_lock_`, `reset_device_mutex_` (with `reset_device_cond_`) and the
process-shared `orb_device_lock_` in shared memory.
Operations: `queryDevice` (polling thread), `onDeviceConnected` /
`onDeviceDisconnected` (SDK thread), `resetDevice` (reset thread), the timers
`checkConnectTimer`, `deviceStatusTimer` and the time-sync timer, the services
`setBagRecording` and `rebootDevice`, and the destructor (executor thread).
Interactions: creates and destroys the camera node; every thread reads flags and
takes locks in its own order.
Hard: flags tested without the lock that guards what they say; a condition
variable with several waiters and several setters; long initialization while the
device may go; another process owning the shared lock.
Properties: nothing is used after it was torn down; a lost device is noticed and
reconnected; the driver keeps its camera; recordings end before their pipeline;
unloading ends.

**Camera node, streams and frames** - `src/ob_camera_node.cpp` (8192).
State: `pipeline_started_`, `is_running_`, `enable_stream_`, profiles, the colour
queues and threads, `interleave_frame_enable_`, the diagnostics timer and its
flag. Operations: `startStreams`, `stopStreams`, `applyStreamProfiles`, `clean`,
`rebootDevice`, `onNewFrameSetCallback`, `onNewColorFrameCallback`,
`onNewFrameCallback`, IMU callbacks, the diagnostics callback.
Interactions: called by the driver, by services and by SDK threads; calls the
logger.
Hard: `stopColorFrameThreads` (3826) sets its flag without the queue's mutex and
joins; a colour thread that ended while its stream was off is not replaced (4038); `clean` (804) races frames, timers and diagnostics; the colour queue has
no bound; a failed restart leaves the streams off.
Properties: a stop is not lost; queued frames do not outlive a reconfiguration;
after a service fails the old state is back; nothing runs on a cleaned node.

**Depth filters** - `src/ob_camera_node.cpp` (374-681, 3168-3420, 5021-5253,
7487-8192). State: `depth_filter_list_`, a member per filter for its switch and
each parameter, `enhanced_depth_filter_` with its switch and threshold, the
status last published. Operations: the set-up, `setFilterCallback`,
`processEnhancedDepthFilter`, `publishDepthFiltersStatus`.
Hard: the service is offered in the middle of the set-up; the threshold of a
request is visible before it is known to be accepted; positional parameters are
judged after the filter has been switched. Properties: the status tells the
truth, a rejected request changes nothing, an enabled filter works.

**Process lock** - the shared mutex `orb_device_lock_` of
`src/ob_camera_node_driver.cpp`. State: a POSIX shared memory object and the mutex
in it. Operations: mapping and initializing it (`init`), `trylock` in
`startDevice`, `timedlock` in `rebootDeviceCallback`, unlinking in the destructor.
Hard: each process initializes the mutex it finds and unlinks the name it used;
a killed process leaves it locked. Properties: exclusion, and no leak.

**Services** - `src/ros_service.cpp` (2281). State: the node's. Operations:
toggling sensors, `setStreamsEnable`, `setImageRegistrationMode` (with rollback),
`setStreamProfile`, properties. Hard: partial failure; `toggleSensor` stops the
pipeline without clearing `pipeline_started_`; the registration mode restarts the
streams without restoring `interleave_frame_enable_`. `setStreamsEnable`
starts the streams without `device_lock_`, and every service is there before the
first `startStreams` of the connecting thread. Properties: rollback
restores; flag and pipeline agree.

**Frame timestamp logger** - `src/frame_timestamp_csv_logger.cpp` (604). State:
`pending_rows_`, two maps from frame index to row, `completed_rows_`,
`shutdown_requested_`, the writer thread. Operations: `recordFrameSet`,
`recordPreImagePublish`, `recordImagePublishSkipped`, `shutdown`,
`writerThreadMain`. Interactions: SDK frame thread, colour thread, `clean`.
Hard: rows change hands between two mutexes; shutdown races all of it. Properties:
no row dropped or doubled, times in the right row, shutdown returns.

**Synchronized IMU publisher** - `src/synced_imu_publisher.cpp` (69). A queue
between a callback and a publisher with pause and resume; `resume` calls a method
that takes the mutex it holds. The class has no user in the node.

**Frame rate and delay status** - `include/orbbec_camera/fps_delay_status.hpp`,
`fps_counter.hpp`. Counters and time windows, ticked by frame threads and read by
the diagnostics timer. Hard: zero intervals, empty windows.

**Lidar node** - `src/ob_lidar_node.cpp` (1387). A smaller camera node: streams,
point clouds, IMU. `stopStreams` does not clear `pipeline_started_`.

**Parameters** - `src/dynamic_params.cpp`, `src/ros_param_backend.cpp`. Maps from
names to callbacks, one ROS callback that applies them. Hard: a rejected value
among several.

**Utilities and decoders** - `src/utils.cpp`, `src/image_publisher.cpp`,
`src/d2c_viewer.cpp`, `src/*_decoder.cpp`. Conversions and wrappers of codecs.

**Tools, examples, launch files, scripts, SDK, vendored headers, message and
description packages.** No driver logic of their own.

## Modules

| module | models |
| --- | --- |
| `DeviceLifecycle` | the threads, timers, services and locks of the driver |
| `MCDeviceLifecycle` | camera symmetry for TLC |
| `DeviceLifecycleProofs` | its theorems |
| `StreamControl` | start, stop, profiles, registration mode, toggles and `clean`; the colour thread, its queue and condition variable; the frame callback; the diagnostics timer |
| `StreamService` | abstract: what a client of these services may rely on; `StreamControl` refines it |
| `StreamControlProofs` | its theorems, the refinement among them |
| `SharedLock` | abstract: a mutex that processes share, which may lose its owner or be initialized under it; `ProcessLock` and `DeviceLifecycle` refine it |
| `ProcessLock`, `MCProcessLock` | several driver processes on the shared mutex |
| `ProcessLockProofs` | its theorems |
| `DepthFilters` | `set_filter`, the enhanced depth filter, the status topic and the set-up |
| `DepthFiltersProofs` | its theorems |
| `LidarStreams` | the streams of the lidar node, its callbacks, its transform thread and its destruction |
| `LidarStreamsProofs` | its theorems |
| `RowLog` | abstract: what the log promises those who fill it and read the file; `FrameTimestampCsvLogger` refines it |
| `FrameTimestampCsvLogger` | the logger and the threads that call it |
| `FrameTimestampCsvLoggerProofs` | its theorems |

`DeviceLifecycle` looks at one process from the driver's side: its process lock is
free, its own or another's. `ProcessLock` is the other side, several processes and
what each does to the lock the others rely on. `SharedLock` is the contract between
the two. `ProcessLock` implements it for every mutex there is, including what
becomes of one whose owner is killed ("orphaned") or under whose owner a process
starts ("void"). `DeviceLifecycle` implements it as one user of one mutex that stays
"sound": it assumes that no process starts or is killed while the lock is in use,
and does not say what its threads do after that. The node is four states in
`DeviceLifecycle`; `StreamControl` opens the time between the end of the first
`startStreams` and `clean()`, `DepthFilters` the set-up before and the filters
throughout.

### DeviceLifecycle

One instance is one driver process and the cameras it could own. A step is one
access to state another thread sees, or a critical section that does not block.
`pc[t]` is where a thread is; the prefix tells the function:

| prefix | thread | code (`src/ob_camera_node_driver.cpp`) |
| --- | --- | --- |
| `q_` | query | `queryDevice` 537-590 |
| `k_` | sdk | `onDeviceConnected`, `onDeviceDisconnected` 442-509 |
| `s_`, `n_`, `i_` | query or sdk | `startDevice` 1504-1615, `connectNetDevice` 1434-1503, `initializeDevice` 1163-1432 |
| `r_` | reset | `resetDevice` 592-686 |
| `x_` | exec | the timers, 527-535, 688-849, 1224-1275 |
| `b_` | exec | `rebootDeviceCallback` 900-957 |
| `d_` | exec | `~OBCameraNodeDriver` 199-277 |

The comments at the VARIABLES name the member each variable stands for. Locks
hold the name of their owner. `waiting` is the set of threads asleep in
`reset_device_cond_.wait`; a notification removes them. `node` is
`ob_camera_node_`: none, built, streaming, or cleaned by `clean()`. A camera that
leaves or boots appends an event that the SDK thread delivers. A dereference of a
pointer another thread has reset, and what `createNetDevice` throws outside any try
block (1485), set `crashed`; no thread moves after it.

`recording` is `record_device_`, none or open. `resetDevice` and the destructor close
it in one step and end the node in the next (`r_record`, `r_node`; `d_record`,
`d_clean`), and a connecting thread, which takes neither of their locks, opens a bag
and assigns it in two steps of its own (`i_bag`, `i_record`). A bag it assigns between
the two steps of a teardown is "late" rather than open: the code cannot tell them
apart, `RecordingFinalizedFirst` has to.

Choices and their reasons:

- One executor thread: the component container is single-threaded, so timers,
  services and the destructor exclude each other.
- Condition variables wake only on notification; a spurious wake-up re-reads the
  predicate and would hide a lost one.
- The SDK announces a departure and an arrival once each and runs one callback at
  a time. A camera addressed by IP (`NetMode`) is not enumerated and so never
  announced as added.
- `device_type` is camera. Not modelled: playback, force-IP configuration,
  presets, selection by USB port, the device-count thread, the SDK calls of
  parameter setup (each may fail; `SdkFails` stands for one that does).

### FrameTimestampCsvLogger

A row is its `row_id`, which is also the name of the frame set it was opened for.
`RecordFrameSet` is the SDK frame thread, `ColorFinished` and `ColorPop` the
colour thread, `Closer` `shutdown()` as `clean()` calls it, `Writer`
`writerThreadMain`. A row goes from `pending` by way of `inHand` (a thread that
has left one mutex and not entered the other) or `toFlush` (shutdown) to
`completed`, then `batch`, then `written`. The condition variable has the points
deciding, sleepy and asleep, because `shutdown_requested_` is raised without its
mutex. `Restart` is `applyStreamProfiles`: indices start over, the colour queue
is cleared and the colour thread joined. `stage` assumes that `Pipeline::stop`
returns after the last callback.

`RowLog` knows neither threads nor indices nor the two mutexes: a row is open,
ready, queued or in the file. The mapping calls a row ready while it is in a
thread's hand or in `toFlush`, and queued while it is in `completed` or `batch`.
`excused` are the rows that were not queued when `shutdown()` raised the flag: of
the others, `End` (the writer leaves) promises that they are in the file.

Left out: the destruction of the logger right after `shutdown()` while callers
may be inside it (a race of the code at `src/ob_camera_node.cpp:816`, listed as a
hazard), the arithmetic of deltas and drops, the mode without a file, and
`recordStandaloneFrameArrival`, which has no caller. `setImageRegistrationMode`
restarts the streams without clearing the colour queue; whether the frame indices
then start over is up to the SDK, and the mutant `Restart_QueueKept` shows what
happens if they do.

### StreamControl and StreamService

Threads: `pc["exec"]` is the executor inside a request handler or the diagnostics
timer, `pc["clean"]` the reset thread inside `clean()`, `frame` the SDK thread in
`onNewFrameSetCallback`, `color` the colour thread. `handle` and `color` are apart
because a thread that has returned leaves its `shared_ptr<std::thread>` set.

| labels | code |
| --- | --- |
| `lock`, `answer` | the handlers in `src/ros_service.cpp` 685-861, 1913-1958 |
| `start` ... `finish` | `startStreams` 4014-4094 |
| `stop`, `stopping` | `stopStreams` 4189-4234 |
| `join`, `joining` | `stopColorFrameThreads` 3826-3850 |
| `setup` | `applyStreamProfiles` 3736-3824 |
| `apply`, `rollback` | `setImageRegistrationModeCallback` 750-818 |
| `halt`, `toggle` | `toggleSensor` 1939-1958 |
| `tryLock`, `announce`, `update` | the diagnostics timer 4916-4949 |
| `wait`, `reset`, `free` | `clean` 804-918; `wait` is for the diagnostics timer, `reset` takes its updater away |

The colour thread's mutex is held at `doze` and `busy`. Between `doze` (predicate
false) and `asleep` it releases the mutex and sleeps in one step; `overslept` is a
sleep that `stopColorFrameThreads` notified too early. `late` remembers that
`setStreamsEnable(true)` ran `startStreams`, which it does without `device_lock_`,
while `clean()` was under way. What an SDK call that throws leaves behind is
nondeterministic where the code cannot know it (`StopPipeline`).

`StreamService` has no threads and no pipeline: a request takes effect when it is
answered. The mapping shows the streams as a handler found them for as long as it
holds `device_lock_`, and as they are otherwise. What the abstract specification
has to admit is what a client should know: a start that fails once gives up
infrared; a registration mode that restarts the streams loses interleaving, a
profile does not; a toggle starts streams that were stopped; and a failed toggle
keeps what it did.

A `setupProfiles` that ends the process sets `crashed` like a bad pointer: what other
threads still do during `exit` is not followed. The rollback of a registration mode may
itself throw and start no streams; the filter is then replaced all the same, and
`FilterSwappedStopped` looks at each such step, also one that sets the same mode again.

Left out: the construction of the node, the IMU streams, the services and timers
that touch no stream, what happens to a frame beyond the queue, a stream that
`setupProfiles` switches off because its profile is null (3495-3512), and the CHECKs on
the contents of a frame.

### ProcessLock

`seg[p]` is the shared memory object a process has mapped, `name` the one that
bears the name; objects are numbered as they are made. `MapLock` and `InitMutex`
are apart, as another process can run between them; `Leave` is the destructor, also
that of a process which plays a bag file back and never mapped the lock, and `Kill` a
process that dies anywhere. `locked[s]` is the mutex. The sets `voided`,
`orphans` and the flag `unlinked` are history, for the properties only.

### DepthFilters

Every filter behaves in one of the seven ways the header names, so a run chooses
some. `dev` is what the filter object or the device holds, `cache` the node's
members, `shown` the last status. A request has a form (named parameters,
positional, or both) and a parameter, abstracted to a value, one that is refused,
and one that is skipped. A request for a filter is one step, since all of it runs
under `depth_filter_mutex_` or touches the device only; the enhanced filter's is
four, since its threshold and switch are atomics that the frame thread reads at
any time and `enhanced_depth_filter_mutex_` is taken twice.

`publishDepthFiltersStatus` is four steps: it reads the filters (`StatusRead`), stores
what it read in the node's members (`StatusStore`), builds the message from them
(`StatusBuild`) and publishes it (`StatusPublish`). It takes no lock, and `report` has
one such report of the set-up thread and one of the executor, which serves requests as
soon as the set-up has offered the service. `torn` are the filters the last message need
not show right, `stray` says that the enhanced filter may hold a refused threshold,
and `crossed` are the filters requested while the set-up was reporting: its message may
be older and come last. The properties name these exceptions, and that there is no other.

Left out: `setupFilters` also switches filters off and sets their launch parameters one
by one (3216-3221), which is one step here, and the settings a configuration file adds
between the profiles and the status (4807-4808).

### LidarStreams

`owner` is where the driver's thread is, which starts the node, reboots its camera
and destroys it; whether it is one thread at a time is the question of
`DeviceLifecycle`.

| `owner` | code (`src/ob_lidar_node.cpp`) |
| --- | --- |
| `create`, `attempt`, `retry`, `started` | `startStreams` 428-451 |
| `imuCreate`, `imuStart`, `imuStarted` | `startIMU` 453-502 |
| `join`, `stop`, `stopImu` | `clean` 76-88, `stopStreams`, `stopIMU` 504-538 |
| `destroy`, `members`, `gone` | the members in reverse order, the pipelines last |

`clean()` may run twice, for `rebootDevice` and for the destructor (`last`).
`stopStreams` leaves `pipeline_started_` up, so the second run stops a stopped
pipeline; `StopPipe` lets it succeed or throw. `frame` and `imu` are the SDK's
callbacks, which check what the code checks: the IMU callback not even
`is_running_`. `dead` is `std::terminate` or a callback on destroyed members.
`failed`, `lateTf` and `loose` are history, for the properties only. An exception that
leaves a callback (`publishStaticTransforms` has no try around it, 624) ends that
callback: what the SDK then does is outside the repository, and so is a callback that a
pipeline which did not stop delivers after the destruction.

## Runs

Passing runs:

| run | instance | shows |
| --- | --- | --- |
| `two_cameras` | two interchangeable cameras, both timer groups | the driver uses the process lock as `SharedLock` allows; no thread that holds a lock waits for good; a bound driver keeps its camera |
| `net` | a camera by IP, firmware update, recording, the reboot service, unloading, one fault | the service's node is not destroyed under it; reset and destructor end a pipeline with no bag open but a late one |
| `live` | one camera, firmware update of one or two rounds, one fault, fairness | types; no wake-up of `reset_device_cond_` is lost; requests to the reset thread are served; an updated camera is torn down; the driver reconnects |
| `stream_control` | two requests of any kind or diagnostics ticks, one frame set, two SDK calls that throw, `clean()` at any point | buffers are not freed under the colour thread; running streams have their thread; `pipeline_started_` is honest; a registration mode is all or nothing; in which four ways the process dies; nobody waits in a ring and no wake-up is lost but one; and `StreamService` |
| `stream_live` | one request, two frame sets, one fault, fairness | requests and `clean()` return unless the colour thread overslept; a colour thread empties its queue |
| `process_lock` | three interchangeable processes, two objects | sharing, no leak, and that every mutex is a `SharedLock` |
| `depth_filters` | two requests, one frame, one fault, the set-up | the status, the answers, the rollback and the threshold of a frame |
| `lidar_streams` | merging one to three frames, five callbacks, three calls that throw, with and without an IMU | which callbacks can outlive the members they use, which transform threads are not joined, how far the frame buffer grows |
| `csv_logger` | two frame sets, one restart, fairness of the writer | the logger is a `RowLog`, which drops and doubles no row; `shutdown()` returns |

Runs that find a disagreement between the code and a statement of the repository:

| run | property | what happens |
| --- | --- | --- |
| `use_after_reset` | `NoUseAfterReset` | a connecting thread checks `reset_device_flag_` once; a reset that begins afterwards destroys the node and the device it goes on to use. The time-sync timer loses its device to `startDevice` in the same way |
| `loss_unnoticed` | `LossIsNoticed` | a departure announced while `device_connecting_` is set is dropped and never looked for again |
| `unload_hangs` | `UnloadCompletes` | the reset thread leaves with the flag up, the query thread sleeps, and the destructor joins it before its `notify_all` |

Facts the models show without a run of their own. `resetDevice` clears
`device_connecting_` for whoever set it (626), so two threads can be inside
`startDevice`; the process lock is what keeps them apart, hence
`KeepsLockPromise` and, in the proofs, `InitHoldsProcLock`. A reboot request that
is refused lowers `reset_device_flag_` (930) even if another thread raised it, so a
pending reset is skipped and sleepers are not woken: `WaitersWillBeWoken` is stated and proved without the
reboot service. The logger's writer can see `shutdown_requested_` with an empty
queue before `shutdown()` has queued the rows it flushes, and leave: those rows
are lost, and `LogPromise` says that no others are.

- Recordings are cut off in three ways. A connecting thread still in
  `initializeDevice` can put a bag into `record_device_` after the reset thread or the
  destructor has closed the last one and before it ends the node
  (`RecordingFinalizedFirst` fails without its exception, over USB and without a
  reboot). `rebootDevice` (938) calls `clean()` with the bag open. And a second
  connection destroys a node that streams (1172) whatever it records: over USB, that of
  a thread that passed the check at 1505 before the first had connected; by IP, that of
  the query thread once the reset thread has lowered `device_connected_`.
- In a `NetMode` instance with firmware updates, `FirmwareIsReset` fails:
  `connectNetDevice` does not look at `firmware_update_success_` as `startDevice` does.
- `stopColorFrameThreads` can miss the colour thread between its predicate and its
  sleep, and then waits for it with `device_lock_` held (`EveryoneReturns` without
  its exception fails).
- The process dies in four ways (`OnlyKnownRaces`): a `startStreams` without the lock
  runs beside or after `clean()`; a diagnostics tick announces itself after its check
  and uses the updater `clean()` has reset; a toggle after a failed start calls `stop()`
  on no pipeline; and `setupProfiles`, called by a toggle (1943), calls `exit(-1)` or
  fails a CHECK when the SDK throws or no profile matches (3478-3493).
- A process that starts while another holds the lock gives the lock away
  (`Void` of `SharedLock`); after any process has left, later ones use another
  mutex than the ones still there (`OneMutex` needs `unlinked`).
- The set-up can make the enhanced filter with the threshold of a request that is
  then refused; the threshold that comes back may be one the filter would have
  failed the set-up for (`EnabledWorks` needs `stray`).

- `OBLidarNode::clean` joins the transform thread before it stops the streams; a
  first frame in flight, or an IMU callback, makes it afterwards, and the destructor
  of the joinable thread ends the process (`TfThreadJoined` needs `lateTf`).
- The merged lidar cloud carries the time of its first frame (873), where the comment
  above it says 'the timestamp of the latest frame'.

### Bounds

`MaxFaults` bounds unplugging, SDK errors and foreign holders of the shared lock;
one is enough to interrupt any step of a connection, and the reboot service and
the firmware update add departures of their own. `MaxEvents` bounds undelivered
events: an event that does not fit is delayed, so two let a departure and a return
meet one connection. One camera suffices except where the choice among cameras is
the question; two show the rest, as all others are alike. `MaxRows = 2` and
`MaxRestarts = 1` let a frame of before a restart meet a frame with the same index
after it, and leave a row in each of two places.

`StreamControl` needs two requests: one to leave a state and one to meet it; two
faults, so that a rollback can fail too; one frame set, as the callback and the
colour thread handle one at a time (`stream_live` has two). Three colour streams are
one, toggles are of COLOR, whose thread makes it the hardest.
`ProcessLock` has three processes, of which two hold or want the lock and one
starts or leaves, and two objects, before and after an unlinking.
`DepthFilters` has one filter of the list and one property, a good and a bad
parameter, and two requests, so that one can hide what the other left.
`LidarStreams` merges up to three frames, so that a merge can throw with a buffer
that is neither empty nor of length one, and has three faults: a start, a merge and a
stop that throw in one behaviour. Deadlock checking is off: an
unloaded driver and a closed logger stop, and a crashed process does too.

### Fairness

Threads keep running: weak fairness of each thread's steps, of sleeps and timed
waits, of another process's release of the shared lock and of a camera's return.
The reset thread has strong fairness, because it waits for mutexes others take
again and again, and a waiting thread gets a mutex in the end. The executor is
only fair once it is inside a callback: clients need not call. Nothing makes
cameras fail. The logger assumes the writer and the closer run and
`wait_for` times out; `ShutdownReturns` fails without that timeout.
`StreamControl` assumes that a handler that has begun and `clean()` go on while they
can, and that the colour thread runs. The frame callback has strong fairness for
its push, because it needs a mutex that a colour thread which wakes up spuriously
takes for ever. Requests, `clean()`, frames and spurious wake-ups are not fair.

## Proofs

`DeviceLifecycleProofs`, for any set of cameras, any bounds and services; the
constants have their ASSUMEs only.

- `TypeCorrect`: `TypeOK` is inductive. One lemma per group of actions.
- `ProcLockCorrect`: `InitHoldsProcLock` speaks of the connecting threads over USB.
  It is inductive with `ProcLockInv`, which adds that the reboot service owns the
  lock between its own steps and that no thread is in `connectNetDevice`.
- `LocksCorrect`: `LocksMoveOn`, that of the threads holding some of the three locks
  one can go on. The invariants above lead from a point to the lock held there;
  `HolderInv` leads from the lock to the points where its owner can be (so that
  nobody keeps a lock at a point that has no use for it), and `SleepInv` says who
  can be asleep in `reset_device_cond_.wait`. The argument is the order in which the
  locks are taken: an owner of `device_lock_` wants nothing, an owner of
  `reset_device_mutex_` only `device_lock_`, an owner of the process lock only these
  two, and no owner is at a wait, a join or an idle point.
- `LockPromiseKept`: the driver implements `SharedLock`. `LockHolders` has at most one
  element by `ProcLockInv` and `HolderInv` (`HolderIsInside`); a step changes it only
  as `procLock` changes (`ProcLockMoves`), from free to one owner and back.
- `RebootCorrect`: needs that `device_lock_` and `reset_device_mutex_` are owned by
  whoever is at a point that owns them (`DeviceLockInv`, `ResetMutexInv`),
  `ProcLockInv`, and for a camera by IP `NetWorldInv` (no arrivals are announced)
  and `NetInv` (the only connecting thread is not connecting while the service,
  which has checked the connection, runs).
- `WakeUpsCorrect`, without the reboot service: `WakeInv`.
- `SerialCorrect`, over USB: `SerialInv`, that the selected camera is the bound
  one until its number is recorded, with `ProcLockInv`, without which another
  thread could change `device_` in between.
- `RecordingCorrect`, in any mode and with any services: `RecordingInv`, that between
  the two steps of a teardown no bag is open but a late one. `DeviceLockInv` is why:
  the recording service needs `device_lock_`, which the reset thread holds there.

`FrameTimestampCsvLoggerProofs`, for any number of frame sets and restarts.

- `TypeCorrect`.
- `RowCorrect` and `LateCorrect`: `RowsInv` adds to `RowInOnePlace` that a batch is
  held only while it is written and a flush only while it is queued (otherwise the
  swap would overwrite rows), and that once the flag is up nothing is pending and
  everything not queued is late.
- `OwnFrameCorrect`: `FlightInv`, that the index of a frame some thread still
  handles was given out since the last restart and leads to its own row or to none.
- `LogCorrect`: the logger implements `RowLog`. `LogInv` joins the two above with
  `StampInv` (a stream with a time is final, so it takes no second one, and a row
  that has not been opened has no times) and `ClosedInv` (`shutdown()` has returned
  only after the writer). `OwnRow` is the heart: a thread that finishes a frame of a
  set in flight finds that set's row or returns. Then one lemma per kind of step:
  `CompleteRefines`, `QueueRefines`, `WriterRefines`, `CloserRefines`. Raising the
  flag, taking the pending rows and dropping the mappings is one step because
  `state_mutex_` is held; the writer's check is the step after which rows that come
  late are lost.

`ProcessLockProofs`, for any number of processes, tries and objects.

- `TypeCorrect`.
- `ExclusionCorrect`, from `HeldIsLocked`: a mutex with a holder is locked unless it
  was initialized under a holder once. `Exclusion` itself is not inductive: without
  it a second thread could lock the mutex of a first.
- `OneMutexCorrect`, from `MappedIsNamed`: until a process leaves, what is mapped
  bears the name.
- `NoLeakCorrect`, inductive with the types.
- `LockCorrect`: every mutex is a `SharedLock`. Most steps concern one mutex: `LockStep`
  reduces them to what happens to its owners and its fate (`Only` says that the others
  keep theirs), with one lemma each for entering, giving back, being killed and
  initializing. `HeldIsLocked` and the exclusion it gives (`InsideAlone`) show that
  whoever enters or leaves a sound mutex does so alone, `OrphanIsLocked` that nobody
  enters an orphaned one.

`LidarStreamsProofs`, for any bounds.

- `TypeCorrect`, with `ImuAsked`: whoever starts the IMU has not returned early.
- `CallbacksCorrect`, from `PipeInv`: a callback is inside only while its pipeline
  runs, a pipeline runs only where its flag is up or about to be, and `clean()` leaves
  none running. `CallbacksOutlived` alone says nothing before the destruction.
- `TfCorrect`, from `TfInv`, the same statement from the join on.
- `BufferCorrect`, inductive with the types.

`StreamControlProofs`, for any registration modes, togglable streams and bounds. `IInv`
has thirteen parts, each with a lemma that a step keeps it, one case per group of
actions: `PcOK` and `JobInv` (which request may be where), `LockInv` (who holds
`device_lock_` where), the types, and what each theorem needs.

- `TypeCorrect`, with `CountInv`: a colour thread works on a frame that is queued.
- `BufferCorrect` and `CleanCorrect`, from `ColorInv`: no lock is the reason. A thread
  that starts once `clean()` has joined finds `is_running_` false before it decodes.
- `RacesCorrect`, from `PipeInv`: whoever holds `device_lock_` at a stop has a
  pipeline, and only a start beside `clean()` could take it away. What is left are the
  four ways of `OnlyKnownRaces`.
- `FilterCorrect`, from `FrameInv`: a pipeline runs under a lowered
  `pipeline_started_` only inside a start or a stop, or after an SDK call has thrown.
- `RegistrationCorrect`, from `RegInv`, what was saved and what is set on the way.
- `ServedCorrect`, from `ServedInv`: until `clean()`, only the executor ends the thread,
  and it makes another before it raises `pipeline_started_`.
- `HonestCorrect`, from `HonestInv`: a handler that began honestly has the flag down
  from its stop to the end of its start.
- `MoveOnCorrect`, from `WakeInv`, on top of `IInv`: the colour thread goes to sleep
  with an empty queue, whoever joins it has the stop flag up, and only an update in
  progress keeps `clean()` waiting. `StreamsMoveOn` follows the waits: from
  `device_lock_` to its holder, from the holder to the colour thread or the frame
  callback, from there to the colour thread, which moves on wherever it holds the
  queue's mutex. It is the part of `EveryoneReturns` and `QueueDrains` that needs no
  fairness, and has the same exception (`overslept`).
- `PromiseKept`, from `ServiceInv`, which says per request how far the streams may be
  from what the handler saved. The steps under the lock stutter (`HiddenStep`), the
  answer shows them (`AnswerStep`), `clean()` and the start without the lock are seen
  as they happen.

`DepthFiltersProofs`, for any filters, thresholds and bounds.

- `TypeCorrect`, part by part.
- `RejectedCorrect`, from `ReqInv`: what a request on its way has set, and what it
  found.
- `AnswerCorrect`, from `AnswerInv`, the same about the last answer until the next
  request.
- `EnabledCorrect` and `LeftoverCorrect`, from `EnhancedInv`, which speaks of
  `Settled`, the threshold that holds if the pending request is refused; what the
  filter holds at the moment may be on its way out.
- `FrameCorrect`, from `FrameInv`: between the frame's two reads only a request can
  change the filter, and then the frame is not alone.
- `StatusCorrect`, from `StatusInv`, in four parts. `MembersInv`: the members agree with
  the device wherever nothing is torn. `ReportOK`: a report on its way holds what the
  device had, but for filters it could not read or that were requested since.
  `ReportingInv`: whose report may be under way when. `ShownRight`: what the last
  message says, but for the request in flight, which is about to report itself. The
  set-up's message is trusted for the filters nobody has requested beside it.

`InitHoldsProcLock`, `Exclusion`, `RowInOnePlace`, `OnlyLateRowsAreLost` and
`PublishedOwnFrame` are proved and have no run of their own: the runs check the
refinements they lead to, `KeepsLockPromise`, `LockPromise` and `LogPromise`.

Only model-checked: everything temporal under fairness (`ResetIsServed`,
`AlwaysReconnects`, `FirmwareIsReset`, `ShutdownReturns`, `EveryoneReturns`,
`QueueDrains`), which is out of the prover's reach. The properties of the second table of runs do
not hold and have no theorem.

## Not modelled

- **Lidar node, the rest**: reading parameters and profiles, which runs before any
  thread, and the conversion of scans and points. Two things there cannot be told
  with the small integers of TLC: `offset_time` (`src/ob_lidar_node.cpp` 918) is a
  double of nanoseconds cast to 32 bits, which hold 4.3 s of merged frames, and its
  interval divides by `lidar_rate`, 0 by default.
- **Camera node, the rest**: the IMU streams, the set-up of device properties, the
  conversion of frames. **Services, the rest**: those that read or write one property
  of the device and keep no state.
- **Synchronized IMU publisher**: no object of the class is made.
- **Parameters**: the nodes pass no callback to `setParam`, so a parameter that
  changes at run time calls nothing.
- **Frame rate and delay status**: sums, minima and maxima under one mutex.
- **Conversions, decoders**: pure functions of a frame and wrappers of codecs.
- **Tools, examples, launch files, the SDK and vendored headers**: programs that run
  once, configuration, and code of others.

## Plan

1. The IMU streams of the camera node, beside its frame streams in `StreamControl`.
