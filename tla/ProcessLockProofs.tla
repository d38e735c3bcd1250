------------------------- MODULE ProcessLockProofs -------------------------
(***************************************************************************)
(* What the shared lock excludes, for every set of processes and every     *)
(* value of the bounds: type correctness first, then each invariant of     *)
(* ProcessLock by one lemma on the steps and a temporal theorem.           *)
(***************************************************************************)
EXTENDS ProcessLock, TLAPS

-----------------------------------------------------------------------------
(* Types *)

LEMMA TypeInit == Init => TypeOK
  <1>1. /\ 0 \in 0 .. MaxSegments /\ 0 \in 0 .. MaxTryLockCount
        /\ 0 \in 0 .. 0 /\ 0 \in Nat
    BY BoundsAssumption
  <1> SUFFICES ASSUME Init PROVE TypeOK
    OBVIOUS
  <1>2. \A p \in Procs : stage[p] = "off"
    BY DEF Init
  <1>3. \A t \in Threads : pc[t] = "idle"
    BY DEF Init
  <1>4. name \in 0 .. made /\ made \in 0 .. MaxSegments /\ ends \in Nat
    BY <1>1, Zenon DEF Init
  <1>5. /\ stage \in [Procs -> {"off", "mapped", "up"}]
        /\ pc \in [Threads -> {"idle", "try", "wait", "in"}]
        /\ seg \in [Procs -> 0 .. MaxSegments]
        /\ tries \in [Procs -> 0 .. MaxTryLockCount]
        /\ locked \in [Segments -> BOOLEAN]
    BY <1>1 DEF Init
  <1>6. unlinked \in BOOLEAN /\ voided = {} /\ orphans = {}
    BY Zenon DEF Init
  <1>7. QED BY <1>2, <1>3, <1>4, <1>5, <1>6 DEF TypeOK

\* a thread at work belongs to a process that is up and has mapped a mutex
LEMMA WorkingThread ==
    ASSUME TypeOK, NEW t \in Threads, pc[t] # "idle"
    PROVE  t[1] \in Procs /\ stage[t[1]] = "up" /\ Mutex(t) \in Segments
  <1>1. t[1] \in Procs /\ stage[t[1]] = "up"
    BY DEF TypeOK, Threads
  <1>2. seg[t[1]] \in 1 .. made /\ made \in 0 .. MaxSegments
    BY <1>1 DEF TypeOK
  <1>3. 1 .. made \subseteq 1 .. MaxSegments
    BY <1>2, BoundsAssumption
  <1>4. QED BY <1>1, <1>2, <1>3 DEF Mutex, Segments

\* every step of a process or of a thread keeps the types
LEMMA TypeStep ==
    ASSUME TypeOK, [Next]_vars
    PROVE  TypeOK'
  <1> USE BoundsAssumption DEF TypeOK, Segments, Threads
  <1>1. ASSUME NEW p \in Procs, MapLock(p) PROVE TypeOK'
    <2>1. CASE name # 0
      <3>1. name \in 1 .. made /\ name \in 0 .. MaxSegments
        BY <2>1
      <3>2. /\ UNCHANGED <<pc, tries, name, made, locked, ends, voided,
                           orphans, unlinked>>
            /\ stage' = [stage EXCEPT ![p] = "mapped"]
            /\ seg' = [seg EXCEPT ![p] = name] /\ stage[p] = "off"
        BY <1>1, <2>1 DEF MapLock, ghosts
      <3>3. QED BY <3>1, <3>2
    <2>2. CASE name = 0
      <3>1. /\ UNCHANGED <<pc, tries, locked, ends, voided, orphans, unlinked>>
            /\ stage' = [stage EXCEPT ![p] = "mapped"] /\ stage[p] = "off"
            /\ seg' = [seg EXCEPT ![p] = made + 1]
            /\ made < MaxSegments /\ made' = made + 1 /\ name' = made + 1
        BY <1>1, <2>2 DEF MapLock, ghosts
      <3>2. /\ made' \in 0 .. MaxSegments /\ name' \in 0 .. made'
            /\ made + 1 \in 0 .. MaxSegments /\ made + 1 \in 1 .. made'
            /\ \A i \in 1 .. made : i \in 1 .. made'
        BY <3>1
      <3>3. \A q \in Procs : stage'[q] # "off" => seg'[q] \in 1 .. made'
        BY <3>1, <3>2
      <3>4. \A t \in Threads : pc'[t] # "idle" => stage'[t[1]] = "up"
        BY <3>1
      <3>5. QED BY <3>1, <3>2, <3>3, <3>4
    <2>3. QED BY <2>1, <2>2
  <1>2. ASSUME NEW p \in Procs, InitMutex(p) PROVE TypeOK'
    <2>1. seg[p] \in Segments
      BY <1>2 DEF InitMutex
    <2>2. voided' \subseteq Segments /\ orphans' \subseteq Segments
      BY <1>2, <2>1 DEF InitMutex
    <2>3. /\ locked' = [locked EXCEPT ![seg[p]] = FALSE]
          /\ stage' = [stage EXCEPT ![p] = "up"] /\ stage[p] = "mapped"
          /\ UNCHANGED <<seg, pc, tries, name, made, ends, unlinked>>
      BY <1>2 DEF InitMutex
    <2>4. locked' \in [Segments -> BOOLEAN]
      BY <2>1, <2>3
    <2>5. \A t \in Threads : pc'[t] # "idle" => stage'[t[1]] = "up"
      BY <2>3
    <2>6. QED BY <2>2, <2>3, <2>4, <2>5
  <1>3. ASSUME NEW p \in Procs, Leave(p) PROVE TypeOK'
    <2>1. /\ stage' = [stage EXCEPT ![p] = "off"]
          /\ seg' = [seg EXCEPT ![p] = 0] /\ name' = 0 /\ ends' = ends + 1
          /\ UNCHANGED <<pc, tries, made, locked, voided, orphans>>
          /\ pc[<<p, "connect">>] = "idle" /\ pc[<<p, "reboot">>] = "idle"
      BY <1>3 DEF Leave
    <2>2. unlinked' \in BOOLEAN
      BY <1>3, Zenon DEF Leave
    <2>3. \A t \in Threads : pc'[t] # "idle" => stage'[t[1]] = "up"
      <3>1. \A t \in Threads : t[1] = p => t \in {<<p, "connect">>, <<p, "reboot">>}
        OBVIOUS
      <3>2. QED BY <2>1, <3>1
    <2>4. name' \in 0 .. made' /\ ends' \in Nat /\ 0 \in 0 .. MaxSegments
      BY <2>1
    <2>5. QED BY <2>1, <2>2, <2>3, <2>4
  <1>4. ASSUME NEW p \in Procs, Kill(p) PROVE TypeOK'
    <2>1. /\ stage' = [stage EXCEPT ![p] = "off"]
          /\ seg' = [seg EXCEPT ![p] = 0] /\ ends' = ends + 1
          /\ pc' = [t \in Threads |-> IF t[1] = p THEN "idle" ELSE pc[t]]
          /\ UNCHANGED <<tries, name, made, locked, voided, unlinked>>
      BY <1>4, Zenon DEF Kill
    <2>2. orphans' \subseteq Segments
      <3>1. orphans' = orphans \cup
              {Mutex(t) : t \in {u \in Threads : u[1] = p /\ pc[u] = "in"}}
        BY <1>4, Zenon DEF Kill
      <3>2. \A t \in {u \in Threads : u[1] = p /\ pc[u] = "in"} :
              Mutex(t) \in Segments
        BY WorkingThread
      <3>3. ASSUME NEW s \in orphans' PROVE s \in Segments
        <4>1. CASE s \in orphans
          BY <4>1, Zenon
        <4>2. CASE s \in {Mutex(t) : t \in {u \in Threads :
                                      u[1] = p /\ pc[u] = "in"}}
          BY <4>2, <3>2, Zenon
        <4>3. QED BY <3>1, <3>3, <4>1, <4>2, Zenon
      <3>4. QED BY <3>3, Zenon
    <2>3. pc' \in [Threads -> {"idle", "try", "wait", "in"}]
      BY <2>1
    <2>4. \A t \in Threads : pc'[t] # "idle" => stage'[t[1]] = "up"
      BY <2>1
    <2>5. \A q \in Procs : stage'[q] # "off" => seg'[q] \in 1 .. made
      BY <2>1
    <2>6. 0 \in 0 .. MaxSegments /\ ends' \in Nat
      BY <2>1
    <2>7. QED BY <2>1, <2>2, <2>3, <2>4, <2>5, <2>6
  <1>5. ASSUME NEW p \in Procs, StartTry(p) PROVE TypeOK'
    BY <1>5, SMTT(30) DEF StartTry, Keeps, ghosts, Goto, Up
  <1>6. ASSUME NEW p \in Procs, TryLock(p) PROVE TypeOK'
    <2>1. <<p, "connect">> \in Threads /\ seg[p] \in Segments
      <3>1. <<p, "connect">> \in Threads /\ <<p, "connect">>[1] = p
        OBVIOUS
      <3>2. pc[<<p, "connect">>] = "try"
        BY <1>6, Zenon DEF TryLock
      <3>3. Mutex(<<p, "connect">>) \in Segments
        BY <3>1, <3>2, WorkingThread
      <3>4. QED BY <3>1, <3>3 DEF Mutex
    <2>2. CASE Acquire(<<p, "connect">>) /\ UNCHANGED tries
      BY <1>6, <2>1, <2>2, SMTT(30) DEF TryLock, Acquire, Keeps, ghosts, Goto, Mutex
    <2>3. CASE tries' = [tries EXCEPT ![p] = @ + 1] /\ UNCHANGED <<pc, locked>>
      BY <1>6, <2>3, SMTT(30) DEF TryLock, Keeps, ghosts
    <2>4. QED BY <1>6, <2>2, <2>3, Zenon DEF TryLock
  <1>7. ASSUME NEW p \in Procs, GiveUp(p) PROVE TypeOK'
    BY <1>7, SMTT(30) DEF GiveUp, Keeps, ghosts, Goto
  <1>8. ASSUME NEW p \in Procs, RebootWait(p) PROVE TypeOK'
    BY <1>8, SMTT(30) DEF RebootWait, Keeps, ghosts, Goto, Up
  <1>9. ASSUME NEW p \in Procs, RebootLock(p) PROVE TypeOK'
    BY <1>9, SMTT(30) DEF RebootLock, Acquire, Keeps, ghosts, Goto, Mutex
  <1>10. ASSUME NEW p \in Procs, RebootTimeout(p) PROVE TypeOK'
    BY <1>10, SMTT(30) DEF RebootTimeout, Keeps, ghosts, Goto
  <1>11. ASSUME NEW t \in Threads, Unlock(t) PROVE TypeOK'
    BY <1>11, SMTT(30) DEF Unlock, Keeps, ghosts, Goto, Mutex
  <1>12. CASE UNCHANGED vars
    BY <1>12, Zenon DEF vars, ghosts
  <1>13. QED
    BY <1>1, <1>2, <1>3, <1>4, <1>5, <1>6, <1>7, <1>8, <1>9, <1>10, <1>11,
       <1>12, Zenon DEF Next, Process

\* in every behaviour of every number of processes the variables keep their
\* types, and only threads of a process that is up are at work
THEOREM TypeCorrect == Spec => []TypeOK
  <1>1. Init => TypeOK
    BY TypeInit
  <1>2. TypeOK /\ [Next]_vars => TypeOK'
    BY TypeStep
  <1>3. QED BY <1>1, <1>2, PTL DEF Spec

-----------------------------------------------------------------------------
(* What a step does to the threads inside and to the mutexes *)

\* a step that moves no thread in or out and touches no mutex
Quiet ==
    /\ \A t \in Threads : pc'[t] = "in" <=> pc[t] = "in"
    /\ \A t \in Threads : pc[t] = "in" => seg'[t[1]] = seg[t[1]]
    /\ UNCHANGED <<locked, voided, orphans>>

Enters(t) == pc[t] \in {"try", "wait"} /\ Acquire(t) /\ Keeps

LEMMA QuietStep ==
    ASSUME TypeOK, NEW p \in Procs,
           \/ MapLock(p) \/ Leave(p) \/ StartTry(p) \/ GiveUp(p)
           \/ RebootWait(p) \/ RebootTimeout(p)
    PROVE  Quiet
  <1>1. pc \in [Threads -> {"idle", "try", "wait", "in"}]
    BY DEF TypeOK
  <1>2. /\ <<p, "connect">> \in Threads /\ <<p, "reboot">> \in Threads
        /\ \A t \in Threads : t[1] \in Procs
                /\ (t[1] = p => t \in {<<p, "connect">>, <<p, "reboot">>})
    BY DEF Threads
  <1>3. seg \in [Procs -> 0 .. MaxSegments]
    BY DEF TypeOK
  <1>4. ASSUME MapLock(p) PROVE Quiet
    <2>1. /\ stage[p] = "off" /\ UNCHANGED <<pc, locked, voided, orphans>>
          /\ \E s : seg' = [seg EXCEPT ![p] = s]
      BY <1>4 DEF MapLock, ghosts
    <2>2. \A t \in Threads : pc[t] = "in" => t[1] # p
      BY <2>1, WorkingThread
    <2>3. QED BY <2>1, <2>2, <1>2, <1>3 DEF Quiet
  <1>5. ASSUME Leave(p) PROVE Quiet
    <2>1. /\ UNCHANGED <<pc, locked, voided, orphans>>
          /\ seg' = [seg EXCEPT ![p] = 0]
          /\ pc[<<p, "connect">>] = "idle" /\ pc[<<p, "reboot">>] = "idle"
      BY <1>5 DEF Leave
    <2>2. \A t \in Threads : pc[t] = "in" => t[1] # p
      BY <2>1, <1>2
    <2>3. QED BY <2>1, <2>2, <1>2, <1>3 DEF Quiet
  <1>6. ASSUME NEW t \in Threads, NEW l \in {"idle", "try", "wait"},
               pc[t] # "in", Goto(t, l), UNCHANGED locked, Keeps
        PROVE  Quiet
    BY <1>1, <1>6 DEF Quiet, Goto, Keeps, ghosts
  <1>7. ASSUME StartTry(p) PROVE Quiet
    BY <1>7, <1>6, <1>2 DEF StartTry
  <1>8. ASSUME GiveUp(p) PROVE Quiet
    BY <1>8, <1>6, <1>2 DEF GiveUp
  <1>9. ASSUME RebootWait(p) PROVE Quiet
    BY <1>9, <1>6, <1>2 DEF RebootWait
  <1>10. ASSUME RebootTimeout(p) PROVE Quiet
    BY <1>10, <1>6, <1>2 DEF RebootTimeout
  <1>11. QED BY <1>4, <1>5, <1>7, <1>8, <1>9, <1>10

\* every step is quiet, initializes a mutex, kills a process, or moves one
\* thread in or out
LEMMA StepKinds ==
    ASSUME TypeOK, [Next]_vars
    PROVE  \/ Quiet
           \/ \E p \in Procs : InitMutex(p) \/ Kill(p)
           \/ \E t \in Threads : Enters(t) \/ Unlock(t)
  <1>1. ASSUME NEW p \in Procs, TryLock(p)
        PROVE  Quiet \/ \E t \in Threads : Enters(t)
    <2>1. <<p, "connect">> \in Threads
      BY DEF Threads
    <2>2. CASE Acquire(<<p, "connect">>)
      BY <1>1, <2>1, <2>2 DEF TryLock, Enters
    <2>3. CASE UNCHANGED <<pc, locked>>
      BY <1>1, <2>3 DEF TryLock, Quiet, Keeps, ghosts
    <2>4. QED BY <1>1, <2>2, <2>3, Zenon DEF TryLock
  <1>2. ASSUME NEW p \in Procs, RebootLock(p)
        PROVE  \E t \in Threads : Enters(t)
    <2>1. <<p, "reboot">> \in Threads
      BY DEF Threads
    <2>2. QED BY <1>2, <2>1 DEF RebootLock, Enters
  <1>3. CASE UNCHANGED vars
    BY <1>3 DEF vars, ghosts, Quiet
  <1>4. QED
    BY <1>1, <1>2, <1>3, QuietStep, Zenon DEF Next, Process

-----------------------------------------------------------------------------
(* Exclusion *)

\* the mutex of a thread inside is locked, unless it was taken from under it
HeldIsLocked ==
    \A t \in Threads : pc[t] = "in" => locked[Mutex(t)] \/ Mutex(t) \in voided

LEMMA ExclusionStep ==
    ASSUME TypeOK, [Next]_vars, HeldIsLocked, Exclusion
    PROVE  HeldIsLocked' /\ Exclusion'
  <1>1. /\ pc \in [Threads -> {"idle", "try", "wait", "in"}]
        /\ locked \in [Segments -> BOOLEAN]
        /\ \A t \in Threads : pc[t] # "idle" => Mutex(t) \in Segments
    BY WorkingThread DEF TypeOK
  <1>2. CASE Quiet
    <2>1. /\ \A t \in Threads : pc'[t] = "in" =>
                 /\ pc[t] = "in" /\ Mutex(t)' = Mutex(t)
          /\ UNCHANGED <<locked, voided>>
      BY <1>2 DEF Quiet, Mutex
    <2>2. QED BY <2>1 DEF HeldIsLocked, Exclusion
  <1>3. ASSUME NEW p \in Procs, InitMutex(p)
        PROVE  HeldIsLocked' /\ Exclusion'
    <2>1. /\ pc' = pc /\ seg' = seg /\ voided \subseteq voided'
          /\ locked' = [locked EXCEPT ![seg[p]] = FALSE]
          /\ Held(seg[p]) => seg[p] \in voided'
      BY <1>3 DEF InitMutex
    <2>2. \A t \in Threads : Mutex(t)' = Mutex(t)
      BY <2>1 DEF Mutex
    <2>3. Exclusion'
      BY <2>1, <2>2 DEF Exclusion
    <2>4. ASSUME NEW t \in Threads, pc'[t] = "in"
          PROVE  locked'[Mutex(t)'] \/ Mutex(t)' \in voided'
      <3>1. CASE Mutex(t) = seg[p]
        BY <2>1, <2>2, <2>4, <3>1 DEF Held
      <3>2. CASE Mutex(t) # seg[p]
        BY <1>1, <2>1, <2>2, <2>4, <3>2 DEF HeldIsLocked
      <3>3. QED BY <3>1, <3>2
    <2>5. QED BY <2>3, <2>4 DEF HeldIsLocked
  <1>4. ASSUME NEW p \in Procs, Kill(p)
        PROVE  HeldIsLocked' /\ Exclusion'
    <2>1. /\ pc' = [t \in Threads |-> IF t[1] = p THEN "idle" ELSE pc[t]]
          /\ seg' = [seg EXCEPT ![p] = 0] /\ UNCHANGED <<locked, voided>>
      BY <1>4, Zenon DEF Kill
    <2>2. \A t \in Threads : pc'[t] = "in" => pc[t] = "in" /\ Mutex(t)' = Mutex(t)
      BY <2>1 DEF Mutex, Threads, TypeOK
    <2>3. QED BY <2>1, <2>2 DEF HeldIsLocked, Exclusion
  <1>5. ASSUME NEW t \in Threads, Enters(t)
        PROVE  HeldIsLocked' /\ Exclusion'
    <2>1. /\ ~locked[Mutex(t)] /\ locked' = [locked EXCEPT ![Mutex(t)] = TRUE]
          /\ pc' = [pc EXCEPT ![t] = "in"] /\ UNCHANGED <<seg, voided>>
      BY <1>5 DEF Enters, Acquire, Goto, Keeps, ghosts
    <2>2. Mutex(t) \in Segments
      BY <1>1, <1>5 DEF Enters
    <2>3. \A u \in Threads : Mutex(u)' = Mutex(u)
      BY <2>1 DEF Mutex
    <2>4. \A u \in Threads : pc'[u] = "in" /\ u # t => pc[u] = "in"
      BY <2>1, <1>1
    <2>5. HeldIsLocked'
      BY <1>1, <2>1, <2>2, <2>3, <2>4 DEF HeldIsLocked
    <2>6. \A u \in Threads : pc[u] = "in" /\ Mutex(u) = Mutex(t)
                             => Mutex(t) \in voided
      BY <2>1 DEF HeldIsLocked
    <2>7. Exclusion'
      BY <2>1, <2>3, <2>4, <2>6 DEF Exclusion
    <2>8. QED BY <2>5, <2>7
  <1>6. ASSUME NEW t \in Threads, Unlock(t)
        PROVE  HeldIsLocked' /\ Exclusion'
    <2>1. /\ pc[t] = "in" /\ pc' = [pc EXCEPT ![t] = "idle"]
          /\ locked' = [locked EXCEPT ![Mutex(t)] = FALSE]
          /\ UNCHANGED <<seg, voided>>
      BY <1>6 DEF Unlock, Goto, Keeps, ghosts
    <2>2. \A u \in Threads : Mutex(u)' = Mutex(u)
      BY <2>1 DEF Mutex
    <2>3. \A u \in Threads : pc'[u] = "in" => pc[u] = "in" /\ u # t
      BY <2>1, <1>1
    <2>4. Exclusion'
      BY <2>1, <2>2, <2>3 DEF Exclusion
    <2>5. ASSUME NEW u \in Threads, pc'[u] = "in"
          PROVE  locked'[Mutex(u)'] \/ Mutex(u)' \in voided'
      <3>1. CASE Mutex(u) = Mutex(t)
        BY <2>1, <2>2, <2>3, <2>5, <3>1 DEF Exclusion
      <3>2. CASE Mutex(u) # Mutex(t)
        BY <1>1, <2>1, <2>2, <2>3, <2>5, <3>2 DEF HeldIsLocked
      <3>3. QED BY <3>1, <3>2
    <2>6. QED BY <2>4, <2>5 DEF HeldIsLocked
  <1>7. QED BY <1>2, <1>3, <1>4, <1>5, <1>6, StepKinds, Zenon

\* two threads inside use different mutexes or one that a starting process
\* initialized under its holder: that is the only way the exclusion is lost
THEOREM ExclusionCorrect == Spec => []Exclusion
  <1>1. Init => HeldIsLocked /\ Exclusion
    BY DEF Init, HeldIsLocked, Exclusion
  <1>2. TypeOK /\ HeldIsLocked /\ Exclusion /\ [Next]_vars
        => HeldIsLocked' /\ Exclusion'
    BY ExclusionStep
  <1>3. QED BY <1>1, <1>2, TypeCorrect, PTL DEF Spec

-----------------------------------------------------------------------------
(* One mutex for all *)

\* until a process leaves, whoever is up has mapped what the name stands for
MappedIsNamed == ~unlinked => \A p \in Procs : stage[p] # "off" => seg[p] = name

LEMMA MappedIsNamedStep ==
    ASSUME TypeOK, [Next]_vars, MappedIsNamed
    PROVE  MappedIsNamed'
  <1>1. stage \in [Procs -> {"off", "mapped", "up"}]
    BY DEF TypeOK
  <1>2. seg \in [Procs -> 0 .. MaxSegments]
    BY DEF TypeOK
  <1>3. \A p \in Procs : stage[p] # "off" => seg[p] # 0
    BY DEF TypeOK
  <1>4. ASSUME NEW p \in Procs, MapLock(p) PROVE MappedIsNamed'
    <2>1. unlinked' = unlinked /\ stage' = [stage EXCEPT ![p] = "mapped"]
      BY <1>4 DEF MapLock, ghosts
    <2>2. CASE name # 0
      <3>1. name' = name /\ seg' = [seg EXCEPT ![p] = name]
        BY <1>4, <2>2 DEF MapLock
      <3>2. QED BY <2>1, <3>1, <1>1, <1>2 DEF MappedIsNamed
    <2>3. CASE name = 0
      <3>1. seg' = [seg EXCEPT ![p] = name']
        BY <1>4, <2>3 DEF MapLock
      <3>2. ~unlinked => \A q \in Procs : stage[q] = "off"
        BY <1>3, <2>3 DEF MappedIsNamed
      <3>3. QED BY <2>1, <3>1, <3>2, <1>1, <1>2 DEF MappedIsNamed
    <2>4. QED BY <2>2, <2>3
  <1>5. ASSUME NEW p \in Procs, InitMutex(p) PROVE MappedIsNamed'
    <2>1. /\ stage[p] = "mapped" /\ stage' = [stage EXCEPT ![p] = "up"]
          /\ UNCHANGED <<seg, name, unlinked>>
      BY <1>5, Zenon DEF InitMutex
    <2>2. QED BY <2>1, <1>1 DEF MappedIsNamed
  <1>6. ASSUME NEW p \in Procs, Leave(p) PROVE MappedIsNamed'
    <2>1. unlinked' = TRUE
      BY <1>6, Zenon DEF Leave
    <2>2. QED BY <2>1 DEF MappedIsNamed
  <1>7. ASSUME NEW p \in Procs, Kill(p) PROVE MappedIsNamed'
    <2>1. /\ stage' = [stage EXCEPT ![p] = "off"]
          /\ seg' = [seg EXCEPT ![p] = 0] /\ UNCHANGED <<name, unlinked>>
      BY <1>7, Zenon DEF Kill
    <2>2. QED BY <2>1, <1>1, <1>2 DEF MappedIsNamed
  <1>8. CASE UNCHANGED <<stage, seg, name, unlinked>>
    BY <1>8 DEF MappedIsNamed
  <1>9. ASSUME NEW p \in Procs,
               \/ StartTry(p) \/ TryLock(p) \/ GiveUp(p)
               \/ RebootWait(p) \/ RebootLock(p) \/ RebootTimeout(p)
        PROVE  Keeps
    BY <1>9, Zenon DEF StartTry, TryLock, GiveUp, RebootWait, RebootLock,
                       RebootTimeout
  <1>10. ASSUME NEW t \in Threads, Unlock(t) PROVE Keeps
    BY <1>10, Zenon DEF Unlock
  <1>11. Keeps \/ UNCHANGED vars => UNCHANGED <<stage, seg, name, unlinked>>
    BY Zenon DEF Keeps, vars, ghosts
  <1>12. QED
    BY <1>4, <1>5, <1>6, <1>7, <1>8, <1>9, <1>10, <1>11, Zenon DEF Next, Process

\* the processes share one mutex until one of them leaves
THEOREM OneMutexCorrect == Spec => []OneMutex
  <1>1. Init => MappedIsNamed
    BY DEF Init, MappedIsNamed
  <1>2. TypeOK /\ MappedIsNamed /\ [Next]_vars => MappedIsNamed'
    BY MappedIsNamedStep
  <1>3. MappedIsNamed => OneMutex
    BY DEF MappedIsNamed, OneMutex
  <1>4. QED BY <1>1, <1>2, <1>3, TypeCorrect, PTL DEF Spec

-----------------------------------------------------------------------------
(* Nothing leaks *)

LEMMA NoLeakStep ==
    ASSUME TypeOK, [Next]_vars, NoLeak
    PROVE  NoLeak'
  <1>1. /\ pc \in [Threads -> {"idle", "try", "wait", "in"}]
        /\ locked \in [Segments -> BOOLEAN]
        /\ seg \in [Procs -> 0 .. MaxSegments]
    BY DEF TypeOK
  <1>2. CASE Quiet
    <2>1. /\ \A t \in Threads : pc[t] = "in" =>
                 /\ pc'[t] = "in" /\ Mutex(t)' = Mutex(t)
          /\ UNCHANGED <<locked, orphans>>
      BY <1>2 DEF Quiet, Mutex
    <2>2. QED BY <2>1 DEF NoLeak, Held
  <1>3. ASSUME NEW p \in Procs, InitMutex(p) PROVE NoLeak'
    <2>1. /\ pc' = pc /\ seg' = seg /\ orphans' = orphans \ {seg[p]}
          /\ locked' = [locked EXCEPT ![seg[p]] = FALSE]
      BY <1>3 DEF InitMutex
    <2>2. \A s \in Segments : Held(s)' = Held(s)
      BY <2>1 DEF Held, Mutex
    <2>3. QED BY <1>1, <2>1, <2>2 DEF NoLeak
  <1>4. ASSUME NEW p \in Procs, Kill(p) PROVE NoLeak'
    <2>1. /\ pc' = [t \in Threads |-> IF t[1] = p THEN "idle" ELSE pc[t]]
          /\ seg' = [seg EXCEPT ![p] = 0] /\ locked' = locked
          /\ orphans' = orphans \cup
               {Mutex(t) : t \in {u \in Threads : u[1] = p /\ pc[u] = "in"}}
      BY <1>4, Zenon DEF Kill
    <2>2. ASSUME NEW s \in Segments, NEW t \in Threads, pc[t] = "in", Mutex(t) = s
          PROVE  Held(s)' \/ s \in orphans'
      <3>1. CASE t[1] = p
        BY <2>1, <2>2, <3>1, Zenon
      <3>2. CASE t[1] # p
        <4>1. pc'[t] = "in"
          BY <2>1, <2>2, <3>2
        <4>2. Mutex(t)' = s
          BY <2>1, <2>2, <3>2, <1>1 DEF Mutex, Threads
        <4>3. QED BY <4>1, <4>2 DEF Held
      <3>3. QED BY <3>1, <3>2
    <2>3. QED BY <2>1, <2>2 DEF NoLeak, Held
  <1>5. ASSUME NEW t \in Threads, Enters(t) PROVE NoLeak'
    <2>1. /\ locked' = [locked EXCEPT ![Mutex(t)] = TRUE]
          /\ pc' = [pc EXCEPT ![t] = "in"] /\ UNCHANGED <<seg, orphans>>
      BY <1>5 DEF Enters, Acquire, Goto, Keeps, ghosts
    <2>2. /\ \A u \in Threads : Mutex(u)' = Mutex(u)
          /\ \A u \in Threads : pc[u] = "in" => pc'[u] = "in"
          /\ pc'[t] = "in"
      BY <2>1, <1>1 DEF Mutex
    <2>3. QED BY <1>1, <2>1, <2>2 DEF NoLeak, Held
  <1>6. ASSUME NEW t \in Threads, Unlock(t) PROVE NoLeak'
    <2>1. /\ locked' = [locked EXCEPT ![Mutex(t)] = FALSE]
          /\ pc' = [pc EXCEPT ![t] = "idle"] /\ UNCHANGED <<seg, orphans>>
      BY <1>6 DEF Unlock, Goto, Keeps, ghosts
    <2>2. /\ \A u \in Threads : Mutex(u)' = Mutex(u)
          /\ \A u \in Threads : pc[u] = "in" /\ u # t => pc'[u] = "in"
      BY <2>1, <1>1 DEF Mutex
    <2>3. QED BY <1>1, <2>1, <2>2 DEF NoLeak, Held
  <1>7. QED BY <1>2, <1>3, <1>4, <1>5, <1>6, StepKinds, Zenon

\* a mutex that stays locked is held by a live thread or was held by a killed
\* one, whatever the processes do
THEOREM NoLeakCorrect == Spec => []NoLeak
  <1>1. Init => NoLeak
    BY DEF Init, NoLeak
  <1>2. TypeOK /\ NoLeak /\ [Next]_vars => NoLeak'
    BY NoLeakStep
  <1>3. QED BY <1>1, <1>2, TypeCorrect, PTL DEF Spec

-----------------------------------------------------------------------------
(* The refinement *)

\* a mutex that a killed process has left locked stays locked, and nobody is
\* inside, until it is initialized
OrphanIsLocked ==
    \A s \in orphans \ voided : s \in Segments /\ locked[s] /\ ~Held(s)

\* a step at mutex s, as the owners and the fate of s see it
Only(s) == \A r \in Segments \ {s} : Owners'[r] = Owners[r] /\ Fate'[r] = Fate[r]

LEMMA LockStep ==
    ASSUME NEW s \in Segments, Only(s),
           \/ Owners'[s] = Owners[s] /\ Fate'[s] = Fate[s]
           \/ \E t \in Threads : /\ Fate[s] = "sound" /\ Owners[s] = {}
                                 /\ Owners'[s] = {t} /\ Fate'[s] = "sound"
           \/ \E t \in Threads : /\ Fate[s] = "sound" /\ t \in Owners[s]
                                 /\ Owners'[s] = Owners[s] \ {t}
                                 /\ Fate'[s] \in {"sound", "orphaned"}
           \/ /\ Owners'[s] = Owners[s]
              /\ \/ Fate[s] = "orphaned" /\ Fate'[s] = "sound"
                 \/ Owners[s] # {} /\ Fate'[s] = "void"
           \/ Fate[s] = "void" /\ Fate'[s] = "void"
    PROVE  [Lock!Next]_Lock!lock
  <1>1. /\ Owners = [r \in Segments |-> Owners[r]] /\ Fate = [r \in Segments |-> Fate[r]]
        /\ Owners' = [r \in Segments |-> Owners'[r]] /\ Fate' = [r \in Segments |-> Fate'[r]]
    BY DEF Owners, Fate
  <1>2. \A r \in Segments \ {s} : Owners'[r] = Owners[r] /\ Fate'[r] = Fate[r]
    BY DEF Only
  <1>3. /\ \A S : Owners'[s] = S => Owners' = [Owners EXCEPT ![s] = S]
        /\ \A f : Fate'[s] = f => Fate' = [Fate EXCEPT ![s] = f]
        /\ Fate'[s] = Fate[s] => Fate' = Fate
        /\ Owners'[s] = Owners[s] => Owners' = Owners
    BY <1>1, <1>2
  <1>4. CASE Owners'[s] = Owners[s] /\ Fate'[s] = Fate[s]
    BY <1>3, <1>4 DEF Lock!lock
  <1>5. ASSUME NEW t \in Threads, Fate[s] = "sound", Owners[s] = {},
               Owners'[s] = {t}, Fate'[s] = "sound"
        PROVE  Lock!Next
    <2>1. Lock!Take(s, t)
      BY <1>3, <1>5 DEF Lock!Take
    <2> QED BY <2>1 DEF Lock!Next
  <1>6. ASSUME NEW t \in Threads, Fate[s] = "sound", t \in Owners[s],
               Owners'[s] = Owners[s] \ {t}, Fate'[s] \in {"sound", "orphaned"}
        PROVE  Lock!Next
    <2>1. Lock!Release(s, t) \/ Lock!Die(s, t)
      BY <1>3, <1>6 DEF Lock!Release, Lock!Die
    <2> QED BY <2>1 DEF Lock!Next
  <1>7. CASE /\ Owners'[s] = Owners[s]
             /\ \/ Fate[s] = "orphaned" /\ Fate'[s] = "sound"
                \/ Owners[s] # {} /\ Fate'[s] = "void"
    <2>1. Lock!Repair(s) \/ Lock!Void(s)
      BY <1>3, <1>7 DEF Lock!Repair, Lock!Void
    <2> QED BY <2>1 DEF Lock!Next
  <1>8. CASE Fate[s] = "void" /\ Fate'[s] = "void"
    <2>1. Owners'[s] \in SUBSET Threads
      BY DEF Owners
    <2>2. Lock!Anarchy(s)
      BY <1>3, <1>8, <2>1 DEF Lock!Anarchy
    <2> QED BY <2>2 DEF Lock!Next
  <1> QED BY <1>4, <1>5, <1>6, <1>7, <1>8

\* a thread that is inside a sound mutex is its only owner, and no orphan
LEMMA InsideAlone ==
    ASSUME Exclusion, OrphanIsLocked,
           NEW t \in Threads, pc[t] = "in", Mutex(t) \in Segments,
           Mutex(t) \notin voided
    PROVE  Owners[Mutex(t)] = {t} /\ Fate[Mutex(t)] = "sound"
  <1>1. \A u \in Threads : pc[u] = "in" /\ Mutex(u) = Mutex(t) => u = t
    BY DEF Exclusion
  <1>2. Mutex(t) \notin orphans
    BY DEF OrphanIsLocked, Held
  <1> QED BY <1>1, <1>2 DEF Owners, Fate

LEMMA InitRefines ==
    ASSUME TypeOK, NEW p \in Procs, InitMutex(p)
    PROVE  [Lock!Next]_Lock!lock
  <1>1. seg[p] \in Segments
    <2>1. stage[p] = "mapped" /\ made \in 0 .. MaxSegments
      BY DEF InitMutex, TypeOK
    <2>2. seg[p] \in 1 .. made
      BY <2>1 DEF TypeOK
    <2> QED BY <2>1, <2>2, BoundsAssumption DEF Segments
  <1>2. /\ UNCHANGED <<pc, seg>> /\ orphans' = orphans \ {seg[p]}
        /\ voided' = voided \cup {s \in {seg[p]} : Held(s)}
    BY DEF InitMutex
  <1>3. Owners' = Owners
    BY <1>2 DEF Owners, Mutex
  <1>4. Only(seg[p])
    BY <1>2, <1>3 DEF Only, Fate
  <1>5. CASE Held(seg[p])
    <2>1. Owners[seg[p]] # {}
      BY <1>1, <1>5 DEF Owners, Held
    <2>2. Fate'[seg[p]] = "void"
      BY <1>1, <1>2, <1>5 DEF Fate
    <2> QED BY <1>1, <1>3, <1>4, <2>1, <2>2, LockStep
  <1>6. CASE ~Held(seg[p])
    <2>1. \/ Fate'[seg[p]] = Fate[seg[p]]
          \/ Fate[seg[p]] = "orphaned" /\ Fate'[seg[p]] = "sound"
      BY <1>1, <1>2, <1>6 DEF Fate
    <2> QED BY <1>1, <1>3, <1>4, <2>1, LockStep
  <1> QED BY <1>5, <1>6

LEMMA EnterRefines ==
    ASSUME TypeOK, HeldIsLocked, OrphanIsLocked, NEW t \in Threads, Enters(t)
    PROVE  [Lock!Next]_Lock!lock
  <1> DEFINE s == Mutex(t)
  <1>1. s \in Segments /\ pc \in [Threads -> {"idle", "try", "wait", "in"}]
    BY WorkingThread DEF Enters, TypeOK
  <1>2. /\ ~locked[s] /\ pc' = [pc EXCEPT ![t] = "in"]
        /\ UNCHANGED <<seg, voided, orphans>>
    BY DEF Enters, Acquire, Goto, Keeps, ghosts
  <1>3. Fate' = Fate /\ Owners'[s] = Owners[s] \cup {t}
    BY <1>1, <1>2 DEF Fate, Owners, Mutex
  <1>4. Only(s)
    BY <1>1, <1>2, <1>3 DEF Only, Owners, Mutex
  <1>5. CASE s \in voided
    <2>1. Fate[s] = "void"
      BY <1>1, <1>5 DEF Fate
    <2> QED BY <1>1, <1>3, <1>4, <2>1, LockStep
  <1>6. CASE s \notin voided
    <2>1. s \notin orphans
      BY <1>2, <1>6 DEF OrphanIsLocked
    <2>2. Fate[s] = "sound"
      BY <1>1, <1>6, <2>1 DEF Fate
    <2>3. Owners[s] = {}
      BY <1>1, <1>2, <1>6 DEF Owners, HeldIsLocked
    <2> QED BY <1>1, <1>3, <1>4, <2>2, <2>3, LockStep
  <1> QED BY <1>5, <1>6

LEMMA UnlockRefines ==
    ASSUME TypeOK, Exclusion, OrphanIsLocked, NEW t \in Threads, Unlock(t)
    PROVE  [Lock!Next]_Lock!lock
  <1> DEFINE s == Mutex(t)
  <1>1. s \in Segments /\ pc \in [Threads -> {"idle", "try", "wait", "in"}]
    BY WorkingThread DEF Unlock, TypeOK
  <1>2. /\ pc[t] = "in" /\ pc' = [pc EXCEPT ![t] = "idle"]
        /\ UNCHANGED <<seg, voided, orphans>>
    BY DEF Unlock, Goto, Keeps, ghosts
  <1>3. Fate' = Fate /\ Owners'[s] = Owners[s] \ {t}
    BY <1>1, <1>2 DEF Fate, Owners, Mutex
  <1>4. Only(s)
    BY <1>1, <1>2, <1>3 DEF Only, Owners, Mutex
  <1>5. CASE s \in voided
    <2>1. Fate[s] = "void"
      BY <1>1, <1>5 DEF Fate
    <2> QED BY <1>1, <1>3, <1>4, <2>1, LockStep
  <1>6. CASE s \notin voided
    <2>1. Owners[s] = {t} /\ Fate[s] = "sound"
      BY <1>1, <1>2, <1>6, InsideAlone
    <2> QED BY <1>1, <1>3, <1>4, <2>1, LockStep
  <1> QED BY <1>5, <1>6

\* the threads of a process use one mutex, so that one mutex loses its owner
LEMMA KillRefines ==
    ASSUME TypeOK, Exclusion, OrphanIsLocked, NEW p \in Procs, Kill(p)
    PROVE  [Lock!Next]_Lock!lock
  <1> DEFINE s == seg[p]
             Dying == {u \in Threads : u[1] = p /\ pc[u] = "in"}
  <1>1. /\ pc' = [t \in Threads |-> IF t[1] = p THEN "idle" ELSE pc[t]]
        /\ seg' = [seg EXCEPT ![p] = 0] /\ voided' = voided
        /\ orphans' = orphans \cup {Mutex(t) : t \in Dying}
    BY Zenon DEF Kill
  <1>2. /\ pc \in [Threads -> {"idle", "try", "wait", "in"}]
        /\ seg \in [Procs -> 0 .. MaxSegments]
        /\ \A t \in Threads : t[1] \in Procs
    BY DEF TypeOK, Threads
  <1>3. \A t \in Threads : pc'[t] = "in" <=> pc[t] = "in" /\ t[1] # p
    BY <1>1
  <1>4. \A t \in Threads : t[1] # p => Mutex(t)' = Mutex(t)
    BY <1>1, <1>2 DEF Mutex
  <1>5. \A t \in Dying : Mutex(t) = s
    BY DEF Mutex
  <1>6. \A r \in Segments : Owners'[r] = Owners[r] \ Dying
    BY <1>3, <1>4 DEF Owners
  <1>7. CASE Dying = {}
    <2>1. orphans' = orphans
      BY <1>1, <1>7
    <2>2. Owners' = Owners /\ Fate' = Fate
      BY <1>1, <1>6, <1>7, <2>1 DEF Owners, Fate
    <2> QED BY <2>2 DEF Lock!lock
  <1>8. ASSUME NEW t \in Dying PROVE [Lock!Next]_Lock!lock
    <2>1. t \in Threads /\ pc[t] = "in" /\ s = Mutex(t) /\ s \in Segments
      BY <1>5, <1>8, WorkingThread
    <2>2. orphans' = orphans \cup {s}
      BY <1>1, <1>5, <1>8
    <2>3. Only(s)
      <3>1. \A r \in Segments \ {s} : Owners[r] \cap Dying = {}
        BY <1>5 DEF Owners
      <3> QED BY <1>1, <1>6, <2>2, <3>1 DEF Only, Fate
    <2>4. CASE s \in voided
      <3>1. Fate[s] = "void" /\ Fate'[s] = "void"
        BY <1>1, <2>1, <2>4 DEF Fate
      <3> QED BY <2>1, <2>3, <3>1, LockStep
    <2>5. CASE s \notin voided
      <3>1. Owners[s] = {t} /\ Fate[s] = "sound"
        BY <2>1, <2>5, InsideAlone
      <3>2. Owners'[s] = Owners[s] \ {t}
        BY <1>6, <1>8, <2>1, <3>1
      <3>3. Fate'[s] = "orphaned"
        BY <1>1, <2>1, <2>2, <2>5 DEF Fate
      <3> QED BY <2>1, <2>3, <3>1, <3>2, <3>3, LockStep
    <2> QED BY <2>4, <2>5
  <1> QED BY <1>7, <1>8

LEMMA OrphanStep ==
    ASSUME TypeOK, [Next]_vars, HeldIsLocked, Exclusion, OrphanIsLocked
    PROVE  OrphanIsLocked'
  <1>1. /\ pc \in [Threads -> {"idle", "try", "wait", "in"}]
        /\ locked \in [Segments -> BOOLEAN]
        /\ seg \in [Procs -> 0 .. MaxSegments]
        /\ \A t \in Threads : t[1] \in Procs
    BY DEF TypeOK, Threads
  <1>2. CASE Quiet
    <2>1. /\ \A t \in Threads : pc'[t] = "in" => pc[t] = "in" /\ Mutex(t)' = Mutex(t)
          /\ UNCHANGED <<locked, voided, orphans>>
      BY <1>2 DEF Quiet, Mutex
    <2> QED BY <2>1 DEF OrphanIsLocked, Held
  <1>3. ASSUME NEW p \in Procs, InitMutex(p) PROVE OrphanIsLocked'
    <2>1. /\ UNCHANGED <<pc, seg>> /\ orphans' = orphans \ {seg[p]}
          /\ locked' = [locked EXCEPT ![seg[p]] = FALSE] /\ voided \subseteq voided'
      BY <1>3 DEF InitMutex
    <2>2. \A s : Held(s)' = Held(s)
      BY <2>1 DEF Held, Mutex
    <2> QED BY <1>1, <2>1, <2>2 DEF OrphanIsLocked
  <1>4. ASSUME NEW p \in Procs, Kill(p) PROVE OrphanIsLocked'
    <2>1. /\ pc' = [t \in Threads |-> IF t[1] = p THEN "idle" ELSE pc[t]]
          /\ seg' = [seg EXCEPT ![p] = 0] /\ UNCHANGED <<locked, voided>>
          /\ orphans' = orphans \cup
               {Mutex(t) : t \in {u \in Threads : u[1] = p /\ pc[u] = "in"}}
      BY <1>4, Zenon DEF Kill
    <2>2. \A t \in Threads : pc'[t] = "in" =>
            t[1] # p /\ pc[t] = "in" /\ Mutex(t)' = Mutex(t)
      BY <1>1, <2>1 DEF Mutex
    <2>3. ASSUME NEW s \in orphans \ voided
          PROVE  s \in Segments /\ locked'[s] /\ ~Held(s)'
      BY <2>1, <2>2, <2>3 DEF OrphanIsLocked, Held
    <2>4. ASSUME NEW s, s \notin voided,
                 NEW t \in Threads, t[1] = p, pc[t] = "in", Mutex(t) = s
          PROVE  s \in Segments /\ locked'[s] /\ ~Held(s)'
      <3>1. s \in Segments /\ locked[s]
        BY <2>4, WorkingThread DEF HeldIsLocked
      <3>2. \A u \in Threads : pc[u] = "in" /\ Mutex(u) = s => u = t
        BY <2>4 DEF Exclusion
      <3>3. ~Held(s)'
        BY <2>2, <2>4, <3>2 DEF Held
      <3> QED BY <2>1, <3>1, <3>3
    <2> QED BY <2>1, <2>3, <2>4 DEF OrphanIsLocked
  <1>5. ASSUME NEW t \in Threads, Enters(t) PROVE OrphanIsLocked'
    <2>1. /\ ~locked[Mutex(t)] /\ locked' = [locked EXCEPT ![Mutex(t)] = TRUE]
          /\ pc' = [pc EXCEPT ![t] = "in"] /\ UNCHANGED <<seg, voided, orphans>>
      BY <1>5 DEF Enters, Acquire, Goto, Keeps, ghosts
    <2>2. /\ \A u \in Threads : Mutex(u)' = Mutex(u)
          /\ \A u \in Threads : pc'[u] = "in" /\ u # t => pc[u] = "in"
      BY <2>1, <1>1 DEF Mutex
    <2> QED BY <1>1, <2>1, <2>2 DEF OrphanIsLocked, Held
  <1>6. ASSUME NEW t \in Threads, Unlock(t) PROVE OrphanIsLocked'
    <2>1. /\ pc[t] = "in" /\ pc' = [pc EXCEPT ![t] = "idle"]
          /\ locked' = [locked EXCEPT ![Mutex(t)] = FALSE]
          /\ UNCHANGED <<seg, voided, orphans>>
      BY <1>6 DEF Unlock, Goto, Keeps, ghosts
    <2>2. /\ \A u \in Threads : Mutex(u)' = Mutex(u)
          /\ \A u \in Threads : pc'[u] = "in" => pc[u] = "in"
      BY <2>1, <1>1 DEF Mutex
    <2> QED BY <1>1, <2>1, <2>2 DEF OrphanIsLocked, Held
  <1> QED BY <1>2, <1>3, <1>4, <1>5, <1>6, StepKinds, Zenon

\* the mutexes of the processes are locks as SharedLock specifies them
THEOREM LockCorrect == Spec => LockPromise
  <1>1. Init => Lock!Init
    BY DEF Init, Lock!Init, Owners, Fate
  <1>2. Init => HeldIsLocked /\ Exclusion /\ OrphanIsLocked
    BY DEF Init, HeldIsLocked, Exclusion, OrphanIsLocked
  <1>3. TypeOK /\ HeldIsLocked /\ Exclusion /\ OrphanIsLocked /\ [Next]_vars
        => HeldIsLocked' /\ Exclusion' /\ OrphanIsLocked'
    BY ExclusionStep, OrphanStep
  <1>4. ASSUME TypeOK, HeldIsLocked, Exclusion, OrphanIsLocked, [Next]_vars
        PROVE  [Lock!Next]_Lock!lock
    <2>1. Quiet => UNCHANGED Lock!lock
      BY DEF Quiet, Lock!lock, Owners, Fate, Mutex
    <2> QED
      BY <1>4, <2>1, StepKinds, InitRefines, KillRefines, EnterRefines, UnlockRefines
  <1> QED
    BY <1>1, <1>2, <1>3, <1>4, TypeCorrect, PTL DEF Spec, LockPromise, Lock!Spec
=============================================================================
