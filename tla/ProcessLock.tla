---------------------------- MODULE ProcessLock ----------------------------
(***************************************************************************)
(* The lock that the driver processes of one host share: a pthread mutex   *)
(* in the POSIX shared memory "orbbec_device_lock"                         *)
(* (orbbec_camera/src/ob_camera_node_driver.cpp). Every process that       *)
(* starts initializes the mutex it finds under that name, every process    *)
(* that leaves unlinks the name, and a process may be killed at any time.  *)
(* In each process two threads take the lock: the one that runs            *)
(* startDevice and the executor, which serves reboot_device.               *)
(***************************************************************************)
EXTENDS Naturals

CONSTANTS
    Procs,             \* the driver processes; one that ended may be started again
    MaxTryLockCount,   \* max_try_lock_count, 5 in the code
    MaxSegments,       \* bound on the shared memory objects made under the name
    MaxEnds            \* bound on the processes that leave or are killed

ASSUME BoundsAssumption == {MaxTryLockCount, MaxSegments, MaxEnds} \subseteq Nat

VARIABLES
    stage,    \* of a process: "off", "mapped" (it has mapped the lock and not
              \* initialized it yet) or "up"
    seg,      \* the object a process has mapped
    pc,       \* of a thread: "idle", "try" (startDevice), "wait" (reboot), "in"
    tries,    \* try_lock_count
    name,     \* the object that bears the name, 0 if there is none
    made,     \* the objects made so far
    locked,   \* the mutex in each object is locked
    ends,     \* processes that have left or were killed
    voided,   \* objects whose mutex was initialized while it was held
    orphans,  \* objects whose mutex was held by a process that was killed
    unlinked  \* a process has left

vars == <<stage, seg, pc, tries, name, made, locked, ends, voided, orphans,
          unlinked>>
ghosts == <<voided, orphans, unlinked>>

Segments == 1 .. MaxSegments
Threads  == Procs \X {"connect", "reboot"}

Init ==
    /\ stage = [p \in Procs |-> "off"] /\ seg = [p \in Procs |-> 0]
    /\ pc = [t \in Threads |-> "idle"] /\ tries = [p \in Procs |-> 0]
    /\ name = 0 /\ made = 0 /\ locked = [s \in Segments |-> FALSE]
    /\ ends = 0 /\ voided = {} /\ orphans = {} /\ unlinked = FALSE

Up(p)     == stage[p] = "up"
Mutex(t)  == seg[t[1]]
Held(s)   == \E t \in Threads : pc[t] = "in" /\ Mutex(t) = s
Goto(t, l) == pc' = [pc EXCEPT ![t] = l]

-----------------------------------------------------------------------------
(* A process starts and ends *)

\* Mutant: the object is created exclusively, so nobody else can map it.
MapLock_Exclusive(p) ==
    /\ stage[p] = "off" /\ stage' = [stage EXCEPT ![p] = "mapped"]
    /\ made < MaxSegments /\ made' = made + 1 /\ name' = made'
    /\ seg' = [seg EXCEPT ![p] = made']
    /\ UNCHANGED <<pc, tries, locked, ends, ghosts>>

\* init: shm_open with O_CREAT, ftruncate, mmap
MapLock(p) ==
    /\ stage[p] = "off" /\ stage' = [stage EXCEPT ![p] = "mapped"]
    /\ IF name # 0
         THEN seg' = [seg EXCEPT ![p] = name] /\ UNCHANGED <<name, made>>
         ELSE /\ made < MaxSegments /\ made' = made + 1 /\ name' = made'
              /\ seg' = [seg EXCEPT ![p] = made']
    /\ UNCHANGED <<pc, tries, locked, ends, ghosts>>

\* pthread_mutex_init, whether the mutex is in use or not
InitMutex(p) ==
    /\ stage[p] = "mapped" /\ stage' = [stage EXCEPT ![p] = "up"]
    /\ locked' = [locked EXCEPT ![seg[p]] = FALSE]
    /\ voided' = voided \cup {s \in {seg[p]} : Held(s)}
    /\ orphans' = orphans \ {seg[p]}
    /\ UNCHANGED <<seg, pc, tries, name, made, ends, unlinked>>

\* Mutant: the destructor does not join the connecting thread.
Leave_NotJoined(p) ==
    /\ Up(p) /\ pc[<<p, "reboot">>] = "idle"
    /\ ends < MaxEnds /\ ends' = ends + 1
    /\ stage' = [stage EXCEPT ![p] = "off"] /\ seg' = [seg EXCEPT ![p] = 0]
    /\ name' = 0 /\ unlinked' = TRUE
    /\ UNCHANGED <<pc, tries, made, locked, voided, orphans>>

\* the destructor joins the connecting thread and runs on the executor; it
\* unlinks the name, whatever it stands for by now. So does a process that plays
\* a bag file back, which returns from init before it would map the lock
Leave(p) ==
    /\ stage[p] \in {"up", "off"}
    /\ pc[<<p, "connect">>] = "idle" /\ pc[<<p, "reboot">>] = "idle"
    /\ ends < MaxEnds /\ ends' = ends + 1
    /\ stage' = [stage EXCEPT ![p] = "off"] /\ seg' = [seg EXCEPT ![p] = 0]
    /\ name' = 0 /\ unlinked' = TRUE
    /\ UNCHANGED <<pc, tries, made, locked, voided, orphans>>

\* the mutex is not robust: what the process held stays locked
Kill(p) ==
    /\ stage[p] # "off" /\ ends < MaxEnds /\ ends' = ends + 1
    /\ stage' = [stage EXCEPT ![p] = "off"] /\ seg' = [seg EXCEPT ![p] = 0]
    /\ pc' = [t \in Threads |-> IF t[1] = p THEN "idle" ELSE pc[t]]
    /\ orphans' = orphans \cup
         {Mutex(t) : t \in {u \in Threads : u[1] = p /\ pc[u] = "in"}}
    /\ UNCHANGED <<tries, name, made, locked, voided, unlinked>>

-----------------------------------------------------------------------------
(* A thread takes and releases the lock *)

Keeps == UNCHANGED <<stage, seg, name, made, ends, ghosts>>

\* startDevice begins to try
StartTry(p) ==
    /\ Up(p) /\ pc[<<p, "connect">>] = "idle" /\ Goto(<<p, "connect">>, "try")
    /\ tries' = [tries EXCEPT ![p] = 0] /\ UNCHANGED locked /\ Keeps

Acquire(t) ==
    /\ ~locked[Mutex(t)] /\ locked' = [locked EXCEPT ![Mutex(t)] = TRUE]
    /\ Goto(t, "in")

\* pthread_mutex_trylock
TryLock(p) ==
    /\ pc[<<p, "connect">>] = "try" /\ tries[p] < MaxTryLockCount
    /\ \/ Acquire(<<p, "connect">>) /\ UNCHANGED tries
       \/ /\ locked[seg[p]] /\ tries' = [tries EXCEPT ![p] = @ + 1]
          /\ UNCHANGED <<pc, locked>>
    /\ Keeps

\* after the last try, without the lock; the query thread will call again
GiveUp(p) ==
    /\ pc[<<p, "connect">>] = "try" /\ tries[p] = MaxTryLockCount
    /\ Goto(<<p, "connect">>, "idle") /\ UNCHANGED <<tries, locked>> /\ Keeps

\* rebootDeviceCallback waits for at most 15 seconds
RebootWait(p) ==
    /\ Up(p) /\ pc[<<p, "reboot">>] = "idle" /\ Goto(<<p, "reboot">>, "wait")
    /\ UNCHANGED <<tries, locked>> /\ Keeps
RebootLock(p) ==
    /\ pc[<<p, "reboot">>] = "wait" /\ Acquire(<<p, "reboot">>)
    /\ UNCHANGED tries /\ Keeps

\* Mutant: the guard is made before the result of the timed lock is looked at.
RebootTimeout_Unlocks(p) ==
    /\ pc[<<p, "reboot">>] = "wait" /\ locked[seg[p]]
    /\ Goto(<<p, "reboot">>, "idle")
    /\ locked' = [locked EXCEPT ![seg[p]] = FALSE] /\ UNCHANGED tries /\ Keeps

RebootTimeout(p) ==
    /\ pc[<<p, "reboot">>] = "wait" /\ locked[seg[p]]
    /\ Goto(<<p, "reboot">>, "idle") /\ UNCHANGED <<tries, locked>> /\ Keeps

\* Mutant: a thread returns without its guard.
Unlock_Forgotten(t) ==
    /\ pc[t] = "in" /\ Goto(t, "idle") /\ UNCHANGED <<tries, locked>> /\ Keeps

\* lock_holder and process_lock_guard: a mutex that was initialized under its
\* holder, and perhaps locked by another since, is unlocked like any other
Unlock(t) ==
    /\ pc[t] = "in" /\ Goto(t, "idle")
    /\ locked' = [locked EXCEPT ![Mutex(t)] = FALSE]
    /\ UNCHANGED tries /\ Keeps

Process(p) ==
    \/ MapLock(p) \/ InitMutex(p) \/ Leave(p) \/ Kill(p)
    \/ StartTry(p) \/ TryLock(p) \/ GiveUp(p)
    \/ RebootWait(p) \/ RebootLock(p) \/ RebootTimeout(p)

Next == (\E p \in Procs : Process(p)) \/ \E t \in Threads : Unlock(t)

Spec == Init /\ [][Next]_vars

-----------------------------------------------------------------------------
(* Properties *)

\* the variables keep their types; a process that is not off has a mutex, and
\* only threads of a process that is up are at work
TypeOK ==
    /\ stage \in [Procs -> {"off", "mapped", "up"}]
    /\ seg \in [Procs -> 0 .. MaxSegments]
    /\ pc \in [Threads -> {"idle", "try", "wait", "in"}]
    /\ tries \in [Procs -> 0 .. MaxTryLockCount]
    /\ name \in 0 .. made /\ made \in 0 .. MaxSegments /\ ends \in Nat
    /\ locked \in [Segments -> BOOLEAN]
    /\ voided \subseteq Segments /\ orphans \subseteq Segments
    /\ unlinked \in BOOLEAN
    /\ \A p \in Procs : stage[p] # "off" => seg[p] \in 1 .. made
    /\ \A t \in Threads : pc[t] # "idle" => stage[t[1]] = "up"

\* the lock excludes: two threads that select, initialize or reboot a camera
\* at the same time use different mutexes, or one that InitMutex took from
\* under its holder
Exclusion ==
    \A t, u \in Threads :
        t # u /\ pc[t] = "in" /\ pc[u] = "in" /\ Mutex(t) = Mutex(u)
        => Mutex(t) \in voided

\* the processes share one mutex until one of them leaves: the destructor
\* unlinks the name under the others, who never look it up again
OneMutex ==
    ~unlinked =>
        \A p, q \in Procs :
            stage[p] # "off" /\ stage[q] # "off" => seg[p] = seg[q]

\* no path through startDevice or rebootDeviceCallback leaks the lock: a mutex
\* that stays locked is held by a live thread or was held by a killed one, and
\* the next process that starts frees it
NoLeak ==
    \A s \in Segments : locked[s] => Held(s) \/ s \in orphans

\* the mutexes as SharedLock sees them: the threads that are inside, and what
\* became of each
Owners == [s \in Segments |-> {t \in Threads : pc[t] = "in" /\ Mutex(t) = s}]
Fate   == [s \in Segments |-> IF s \in voided THEN "void"
                               ELSE IF s \in orphans THEN "orphaned" ELSE "sound"]
Lock   == INSTANCE SharedLock WITH
              Users <- Threads, Mutexes <- Segments, owners <- Owners, fate <- Fate

\* every object under the name is a lock as SharedLock specifies it, whatever
\* processes start, leave or are killed
LockPromise == Lock!Spec
=============================================================================
