----------------------------- MODULE SharedLock -----------------------------
(***************************************************************************)
(* What the threads of the driver processes may rely on when they use      *)
(* *orb_device_lock_: a mutex has one owner at a time, only its owner      *)
(* gives it back, and an owner that is killed takes it along until the     *)
(* next process starts.  A process that starts while the mutex is in use   *)
(* voids it.                                                               *)
(*                                                                         *)
(* ProcessLock implements this specification for the mutexes of all        *)
(* processes, DeviceLifecycle for the one mutex that its process uses:     *)
(* what the first guarantees is what the second assumes of the others.     *)
(***************************************************************************)
CONSTANTS
    Users,    \* the threads that take the lock, in whatever process
    Mutexes

VARIABLES
    owners,   \* of a mutex: the users between taking it and giving it back
    fate      \* of a mutex: "sound", "orphaned" (its owner was killed) or
              \* "void"

lock == <<owners, fate>>

Init == /\ owners = [m \in Mutexes |-> {}]
        /\ fate = [m \in Mutexes |-> "sound"]

Take(m, u) ==
    /\ fate[m] = "sound" /\ owners[m] = {}
    /\ owners' = [owners EXCEPT ![m] = {u}] /\ UNCHANGED fate

Release(m, u) ==
    /\ fate[m] = "sound" /\ u \in owners[m]
    /\ owners' = [owners EXCEPT ![m] = @ \ {u}] /\ UNCHANGED fate

\* the owner is killed
Die(m, u) ==
    /\ fate[m] = "sound" /\ u \in owners[m]
    /\ owners' = [owners EXCEPT ![m] = @ \ {u}]
    /\ fate' = [fate EXCEPT ![m] = "orphaned"]

\* a process starts and initializes the mutex
Repair(m) ==
    /\ fate[m] = "orphaned"
    /\ fate' = [fate EXCEPT ![m] = "sound"] /\ UNCHANGED owners
Void(m) ==
    /\ owners[m] # {}
    /\ fate' = [fate EXCEPT ![m] = "void"] /\ UNCHANGED owners

\* of a mutex that was initialized under its owner nothing is promised
Anarchy(m) ==
    /\ fate[m] = "void" /\ UNCHANGED fate
    /\ \E S \in SUBSET Users : owners' = [owners EXCEPT ![m] = S]

Next ==
    \E m \in Mutexes :
        \/ \E u \in Users : Take(m, u) \/ Release(m, u) \/ Die(m, u)
        \/ Repair(m) \/ Void(m) \/ Anarchy(m)

Spec == Init /\ [][Next]_lock
=============================================================================
