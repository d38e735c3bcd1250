------------------- MODULE FrameTimestampCsvLoggerProofs -------------------
(* Theorems about FrameTimestampCsvLogger, for any number of frame sets and
   restarts.                                                                *)
EXTENDS FrameTimestampCsvLogger, TLAPS

-----------------------------------------------------------------------------
(* Types. *)

\* The variables are typed and ids are fresh at the start.
LEMMA InitTypeOK == Init => TypeOK
<1> SUFFICES ASSUME Init PROVE TypeOK
  OBVIOUS
<1>1. shutdown \in BOOLEAN
  BY Zenon DEF Init
<1>2. 0 \in 0..MaxRows /\ 1 \in 1..(MaxRows + 1) /\ 0 \in 0..MaxRestarts
  BY BoundsAssumption
<1>3. /\ frame \in [RowIds -> [Streams -> 0..MaxRows]]
      /\ stamp \in [RowIds -> [Streams -> 0..MaxRows]]
      /\ rowOf \in [Streams -> [RowIds -> 0..MaxRows]]
  BY <1>2 DEF Init, NoRow
<1>4. /\ inHand \in [Streams -> 0..MaxRows]
      /\ index \in [Streams -> 0..MaxRows] /\ \A s \in Streams : index[s] < nextRow
      /\ final \in [RowIds -> SUBSET Streams]
  BY <1>2 DEF Init, NoRow
<1> QED BY <1>1, <1>2, <1>3, <1>4 DEF Init, TypeOK, NoRow, WriterPoints, CloserPoints, StagePoints

\* What finishing the frame of stream s of set r does, when its index leads to row.
CompletesRow(s, r, row) ==
  /\ ~shutdown
  /\ frame[r][s] # 0 /\ rowOf[s][frame[r][s]] = row
  /\ row \in pending /\ s \notin final[row]
  /\ inHand[s] = NoRow
  /\ final' = [final EXCEPT ![row] = @ \cup {s}]
  /\ stamp' = stamp \/ stamp' = [stamp EXCEPT ![row][s] = r]
  /\ \/ /\ pending' = pending \ {row}
        /\ rowOf' = ErasedMappings(row)
        /\ inHand' = [inHand EXCEPT ![s] = row]
     \/ UNCHANGED <<pending, rowOf, inHand>>
  /\ UNCHANGED <<nextRow, frame, completed, writer, batch, written, current, stage, colorSets,
                 index, restarts, shutdown, closer, toFlush, late>>

\* The effect of completeImagePublishInternal in terms of the row it finds.
LEMMA CompleteImageEffect ==
  ASSUME TypeOK, NEW s \in Streams, NEW r \in RowIds, NEW p \in BOOLEAN, CompleteImage(s, r, p)
  PROVE  \E row \in RowIds : CompletesRow(s, r, row)
<1> DEFINE row == rowOf[s][frame[r][s]]
<1>0. frame \in [RowIds -> [Streams -> 0..MaxRows]] /\ rowOf \in [Streams -> [RowIds -> 0..MaxRows]]
  BY DEF TypeOK
<1>1. row \in RowIds
  <2>1. frame[r][s] # 0 /\ row # NoRow
    BY Zenon DEF CompleteImage
  <2>2. frame[r][s] \in RowIds
    BY <1>0, <2>1 DEF RowIds
  <2>3. row \in 0..MaxRows
    BY <1>0, <2>2
  <2> HIDE DEF row
  <2> QED BY <2>1, <2>3 DEF NoRow, RowIds
<1>2. CompletesRow(s, r, row)
  <2>1. /\ ~shutdown
        /\ frame[r][s] # 0 /\ row \in pending /\ s \notin final[row]
        /\ inHand[s] = NoRow
        /\ final' = [final EXCEPT ![row] = @ \cup {s}]
    BY DEF CompleteImage
  <2>2. stamp' = stamp \/ stamp' = [stamp EXCEPT ![row][s] = r]
    BY DEF CompleteImage
  <2>3. \/ /\ pending' = pending \ {row}
           /\ rowOf' = ErasedMappings(row)
           /\ inHand' = [inHand EXCEPT ![s] = row]
        \/ UNCHANGED <<pending, rowOf, inHand>>
    BY DEF CompleteImage
  <2>4. UNCHANGED <<nextRow, frame, completed, writer, batch, written, current, stage, colorSets,
                    index, restarts, shutdown, closer, toFlush, late>>
    BY DEF CompleteImage, queueVars, nodeVars, closeVars
  <2> QED BY <2>1, <2>2, <2>3, <2>4 DEF CompletesRow
<1> QED BY <1>1, <1>2

\* The threads that record and finish frames keep the types.
LEMMA FramesTypeOK ==
  TypeOK /\ (FrameThread \/ ColorThread \/ Restart \/ \E s \in Streams : HandOver(s)) => TypeOK'
<1> SUFFICES ASSUME TypeOK PROVE (FrameThread \/ ColorThread \/ Restart \/ \E s \in Streams : HandOver(s)) => TypeOK'
  OBVIOUS
<1> USE BoundsAssumption DEF TypeOK, rowVars, queueVars, nodeVars, closeVars
<1>1. ASSUME NEW S \in SUBSET Streams, RecordFrameSet(S) PROVE TypeOK'
  <2>1. nextRow \in RowIds /\ nextRow' \in 1..(MaxRows + 1)
    BY <1>1 DEF RecordFrameSet, RowIds
  <2>2. \A s \in Streams : index[s] \in 0..MaxRows /\ index[s] + 1 \in 0..MaxRows /\ index[s] + 1 <= nextRow
    <3>1. nextRow \in Nat /\ nextRow <= MaxRows /\ \A s \in Streams : index[s] \in 0..MaxRows /\ index[s] < nextRow
      BY <2>1 DEF RowIds
    <3> HIDE DEF TypeOK
    <3> QED BY <3>1
  <2>3. index' \in [Streams -> 0..MaxRows] /\ \A s \in Streams : index'[s] < nextRow'
    <3>1. index' = [s \in Streams |-> IF s \in S THEN index[s] + 1 ELSE index[s]] /\ nextRow' = nextRow + 1
      BY <1>1 DEF RecordFrameSet
    <3> HIDE DEF TypeOK
    <3>2. \A s \in Streams : index'[s] \in 0..MaxRows /\ index'[s] <= nextRow
      <4> TAKE s \in Streams
      <4>1. index'[s] = index[s] + 1 \/ index'[s] = index[s]
        BY <3>1
      <4> QED BY <4>1, <2>1, <2>2 DEF RowIds
    <3> QED BY <3>1, <3>2, <2>1 DEF RowIds
  <2>4. frame' \in [RowIds -> [Streams -> 0..MaxRows]]
    <3> DEFINE f == [s \in Streams |-> IF s \in S THEN index[s] + 1 ELSE 0]
    <3>1. f \in [Streams -> 0..MaxRows]
      BY <2>2
    <3>2. frame' = [frame EXCEPT ![nextRow] = f]
      BY <1>1 DEF RecordFrameSet
    <3> HIDE DEF f
    <3> QED BY <2>1, <3>1, <3>2
  <2>5. rowOf' \in [Streams -> [RowIds -> 0..MaxRows]]
    <3>1. nextRow \in 0..MaxRows
      BY <2>1 DEF RowIds
    <3>2. \A s \in Streams, i \in RowIds : rowOf[s][i] \in 0..MaxRows
      OBVIOUS
    <3> QED BY <1>1, <3>1, <3>2 DEF RecordFrameSet
  <2>6. final' \in [RowIds -> SUBSET Streams] /\ pending' \subseteq RowIds /\ current' \in 0..MaxRows
    BY <1>1, <2>1 DEF RecordFrameSet, RowIds
  <2>7. current' # NoRow /\ stage' \in StagePoints
    BY <1>1, <2>1 DEF RecordFrameSet, StagePoints, NoRow, RowIds
  <2>8. UNCHANGED <<stamp, colorSets, restarts, completed, writer, batch, written, shutdown, closer, toFlush, late, inHand>>
    BY <1>1 DEF RecordFrameSet
  <2> QED BY <2>1, <2>3, <2>4, <2>5, <2>6, <2>7, <2>8
<1>2. ASSUME PassOn \/ FrameSetDone PROVE TypeOK'
  <2>1. CASE PassOn
    <3>1. current \in RowIds
      BY <2>1 DEF PassOn, NoRow, RowIds
    <3> QED BY <2>1, <3>1 DEF PassOn, StagePoints
  <2>2. CASE FrameSetDone
    BY <1>2, <2>2 DEF FrameSetDone, StagePoints, NoRow
  <2> QED BY <1>2, <2>1, <2>2
<1>3. ASSUME NEW s \in Streams, NEW r \in RowIds, NEW p \in BOOLEAN, CompleteImage(s, r, p) PROVE TypeOK'
  <2>1. PICK row \in RowIds : CompletesRow(s, r, row)
    BY <1>3, CompleteImageEffect
  <2>2. ErasedMappings(row) \in [Streams -> [RowIds -> 0..MaxRows]]
    BY <2>1 DEF ErasedMappings, NoRow
  <2>3. inHand' \in [Streams -> 0..MaxRows] /\ pending' \subseteq RowIds
    <3>1. row \in 0..MaxRows
      BY DEF RowIds
    <3>2. inHand' = [inHand EXCEPT ![s] = row] \/ inHand' = inHand
      BY <2>1, Zenon DEF CompletesRow
    <3>3. inHand' \in [Streams -> 0..MaxRows]
      BY <3>1, <3>2
    <3> QED BY <2>1, <3>3 DEF CompletesRow
  <2>4. rowOf' \in [Streams -> [RowIds -> 0..MaxRows]]
    BY <2>1, <2>2 DEF CompletesRow
  <2>5. stamp' \in [RowIds -> [Streams -> 0..MaxRows]]
    <3>1. r \in 0..MaxRows
      BY DEF RowIds
    <3> QED BY <2>1, <3>1 DEF CompletesRow
  <2>6. final' \in [RowIds -> SUBSET Streams]
    <3>1. final[row] \cup {s} \in SUBSET Streams
      OBVIOUS
    <3> QED BY <2>1, <3>1 DEF CompletesRow
  <2> QED BY <2>1, <2>3, <2>4, <2>5, <2>6 DEF CompletesRow
<1>4. ASSUME NEW r \in RowIds, ColorPop(r) PROVE TypeOK'
  BY <1>4 DEF ColorPop
<1>5. ASSUME NEW s \in Streams, HandOver(s) PROVE TypeOK'
  <2>1. completed' \subseteq RowIds
    <3>1. inHand[s] \in RowIds
      BY <1>5 DEF HandOver, NoRow, RowIds
    <3> QED BY <1>5, <3>1 DEF HandOver, Enqueue
  <2>2. inHand' \in [Streams -> 0..MaxRows]
    BY <1>5 DEF HandOver, NoRow
  <2>3. writer' \in WriterPoints
    BY <1>5 DEF HandOver, Enqueue, Notified, WriterPoints
  <2> QED BY <1>5, <2>1, <2>2, <2>3 DEF HandOver, Enqueue
<1>6. ASSUME Restart PROVE TypeOK'
  BY <1>6 DEF Restart
<1>7. "color" \in Streams /\ "depth" \in Streams /\ (stage = "passed" => current \in RowIds)
  BY DEF Streams, NoRow, RowIds
<1> QED BY <1>1, <1>2, <1>3, <1>4, <1>5, <1>6, <1>7
  DEF FrameThread, ColorThread, DepthFinished, ColorFinished

\* So do the writer and the shutdown.
LEMMA WriterTypeOK == TypeOK /\ (Writer \/ Closer) => TypeOK'
<1> SUFFICES ASSUME TypeOK PROVE Writer \/ Closer => TypeOK'
  OBVIOUS
<1> USE DEF TypeOK, rowVars, queueVars, nodeVars, closeVars
<1>1. ASSUME Writer PROVE TypeOK'
  BY <1>1 DEF Writer, WriterProceeds, WriterDozes, WriterSleeps, WriterTimeout, WriterWrites,
              WriterChecks, Swap, WriterPoints
<1>2. ASSUME CloseBegin PROVE TypeOK'
  <2>1. shutdown' \in BOOLEAN
    BY <1>2, Zenon DEF CloseBegin
  <2>2. final' \in [RowIds -> SUBSET Streams] /\ rowOf' \in [Streams -> [RowIds -> 0..MaxRows]]
    BY <1>2, BoundsAssumption DEF CloseBegin, NoRow
  <2> QED BY <1>2, <2>1, <2>2 DEF CloseBegin, Held, CloserPoints
<1>3. ASSUME NEW r \in RowIds, CloseEnqueue(r) PROVE TypeOK'
  BY <1>3 DEF CloseEnqueue, Enqueue, Notified, WriterPoints
<1>4. ASSUME CloseNotify \/ CloseJoin PROVE TypeOK'
  BY <1>4 DEF CloseNotify, CloseJoin, Notified, WriterPoints, CloserPoints
<1> QED BY <1>1, <1>2, <1>3, <1>4 DEF Closer

\* Every step keeps the types.
LEMMA StepTypeOK == TypeOK /\ [Next]_vars => TypeOK'
<1>1. TypeOK /\ UNCHANGED vars => TypeOK'
  BY DEF TypeOK, vars, rowVars, queueVars, nodeVars, closeVars
<1> QED BY <1>1, FramesTypeOK, WriterTypeOK DEF Next

(* The variables of the logger and of its callers keep their types, and no
   row_id is used twice.                                                     *)
THEOREM TypeCorrect == Spec => []TypeOK
  BY InitTypeOK, StepTypeOK, PTL DEF Spec

-----------------------------------------------------------------------------
(* Rows on their way to the file.  What the steps of the writer and of
   shutdown() rely on: a batch is only held while it is written, and a flush
   only while it is queued.                                                  *)
StagesInv ==
  /\ writer # "writing" => batch = {}
  /\ closer # "flushing" => toFlush = {}
  /\ shutdown <=> closer # "open"

(* Once the flag is up no row is pending, and what has not been queued is late;
   the writer leaves only then, and only with nothing but late rows behind.  *)
LateInv ==
  /\ shutdown => pending = {} /\ toFlush \cup Held \subseteq late
  /\ writer = "exited" => shutdown /\ completed \subseteq late

RowsInv == TypeOK /\ StagesInv /\ RowInOnePlace /\ LateInv

\* Who holds a row after a thread took one, or let go of it.
LEMMA HeldChanges ==
  ASSUME inHand \in [Streams -> 0..MaxRows], NEW s \in Streams
  PROVE  /\ \A r \in RowIds : inHand[s] = NoRow /\ inHand' = [inHand EXCEPT ![s] = r]
                                => Held' = Held \cup {r}
         /\ inHand[s] # NoRow /\ inHand' = [inHand EXCEPT ![s] = NoRow]
              /\ (inHand["color"] # NoRow => inHand["color"] # inHand["depth"])
                                => Held' = Held \ {inHand[s]}
         /\ inHand[s] # NoRow => inHand[s] \in Held
<1>1. s = "color" \/ s = "depth"
  BY DEF Streams
<1>2. Held = {r \in RowIds : inHand["color"] = r \/ inHand["depth"] = r}
  BY DEF Held, Streams
<1>3. Held' = {r \in RowIds : inHand'["color"] = r \/ inHand'["depth"] = r}
  BY DEF Held, Streams
<1>4. \A r \in RowIds : r # NoRow
  BY DEF RowIds, NoRow
<1>5. ASSUME NEW r \in RowIds, inHand[s] = NoRow, inHand' = [inHand EXCEPT ![s] = r]
      PROVE  Held' = Held \cup {r}
  <2>1. CASE s = "color"
    BY <1>2, <1>3, <1>4, <1>5, <2>1 DEF Streams
  <2>2. CASE s = "depth"
    BY <1>2, <1>3, <1>4, <1>5, <2>2 DEF Streams
  <2> QED BY <1>1, <2>1, <2>2
<1>6. ASSUME inHand[s] # NoRow, inHand' = [inHand EXCEPT ![s] = NoRow],
             inHand["color"] # NoRow => inHand["color"] # inHand["depth"]
      PROVE  Held' = Held \ {inHand[s]}
  <2>1. CASE s = "color"
    BY <1>2, <1>3, <1>4, <1>6, <2>1 DEF Streams
  <2>2. CASE s = "depth"
    BY <1>2, <1>3, <1>4, <1>6, <2>2 DEF Streams
  <2> QED BY <1>1, <2>1, <2>2
<1>7. inHand[s] # NoRow => inHand[s] \in RowIds
  BY DEF RowIds, NoRow
<1> QED BY <1>5, <1>6, <1>7 DEF Held

\* The invariant holds at the start.
LEMMA InitRowsInv == Init => RowsInv
<1> SUFFICES ASSUME Init PROVE RowsInv
  OBVIOUS
<1>1. Held = {}
  BY DEF Init, Held, RowIds, NoRow
<1>2. TypeOK
  BY InitTypeOK
<1>3. 1..(nextRow - 1) = {} /\ inHand["color"] = NoRow
  BY DEF Init, Streams
<1>4. StagesInv /\ LateInv
  BY <1>1 DEF Init, StagesInv, LateInv
<1> QED BY <1>1, <1>2, <1>3, <1>4 DEF Init, RowsInv, RowInOnePlace

\* The threads that record and finish frames keep it.
LEMMA FramesRowsInv ==
  RowsInv /\ (FrameThread \/ ColorThread \/ Restart \/ \E s \in Streams : HandOver(s)) => RowsInv'
<1> SUFFICES ASSUME RowsInv PROVE (FrameThread \/ ColorThread \/ Restart \/ \E s \in Streams : HandOver(s)) => RowsInv'
  OBVIOUS
<1> DEFINE Inv == StagesInv /\ RowInOnePlace /\ LateInv
<1>0. TypeOK /\ Inv
  BY DEF RowsInv
<1>1. ASSUME NEW S \in SUBSET Streams, RecordFrameSet(S) PROVE Inv'
  <2>1. Held' = Held
    BY <1>1 DEF RecordFrameSet, Held
  <2>2. nextRow \notin 1..(nextRow - 1) /\ 1..(nextRow' - 1) = 1..(nextRow - 1) \cup {nextRow}
    <3>1. nextRow \in Nat /\ nextRow >= 1
      BY <1>0 DEF TypeOK
    <3>2. nextRow' = nextRow + 1
      BY <1>1 DEF RecordFrameSet
    <3> QED BY <3>1, <3>2
  <2> QED BY <1>0, <1>1, <2>1, <2>2 DEF RecordFrameSet, StagesInv, RowInOnePlace, LateInv, queueVars, closeVars
<1>2. ASSUME PassOn \/ FrameSetDone \/ Restart \/ \E r \in RowIds : ColorPop(r) PROVE Inv'
  <2>1. UNCHANGED <<rowVars, queueVars, closeVars, inHand>>
    BY <1>2 DEF PassOn, FrameSetDone, Restart, ColorPop
  <2>2. Held' = Held
    BY <2>1 DEF Held
  <2> QED BY <1>0, <2>1, <2>2 DEF StagesInv, RowInOnePlace, LateInv, rowVars, queueVars, closeVars
<1>3. ASSUME NEW s \in Streams, NEW r \in RowIds, NEW p \in BOOLEAN, CompleteImage(s, r, p) PROVE Inv'
  <2>1. PICK row \in RowIds : CompletesRow(s, r, row)
    BY <1>0, <1>3, CompleteImageEffect
  <2>2. CASE UNCHANGED <<pending, rowOf, inHand>>
    <3>1. Held' = Held
      BY <2>2 DEF Held
    <3> QED BY <1>0, <2>1, <2>2, <3>1 DEF CompletesRow, StagesInv, RowInOnePlace, LateInv
  <2>3. CASE pending' = pending \ {row} /\ inHand' = [inHand EXCEPT ![s] = row]
    <3>1. Held' = Held \cup {row} /\ row \notin Held
      BY <1>0, <2>1, <2>3, HeldChanges DEF CompletesRow, RowInOnePlace, TypeOK
    <3>2. inHand'["color"] # NoRow => inHand'["color"] # inHand'["depth"]
      BY <1>0, <2>1, <2>3, <3>1 DEF CompletesRow, RowInOnePlace, Held, Streams, TypeOK, NoRow, RowIds
    <3> QED BY <1>0, <2>1, <2>3, <3>1, <3>2 DEF CompletesRow, StagesInv, RowInOnePlace, LateInv
  <2> QED BY <2>1, <2>2, <2>3 DEF CompletesRow
<1>4. ASSUME NEW s \in Streams, HandOver(s) PROVE Inv'
  <2>1. Held' = Held \ {inHand[s]} /\ inHand[s] \in Held
    BY <1>0, <1>4, HeldChanges DEF HandOver, RowInOnePlace, TypeOK
  <2>2. inHand'["color"] # NoRow => inHand'["color"] # inHand'["depth"]
    BY <1>0, <1>4 DEF HandOver, RowInOnePlace, Streams, TypeOK, NoRow
  <2>3. completed' = completed \cup {inHand[s]} /\ (writer' = writer \/ writer' = "deciding")
    BY <1>4 DEF HandOver, Enqueue, Notified
  <2>4. writer = "exited" <=> writer' = "exited"
    BY <1>4 DEF HandOver, Enqueue, Notified
  <2>5. writer = "writing" <=> writer' = "writing"
    BY <1>4 DEF HandOver, Enqueue, Notified
  <2>6. UNCHANGED <<batch, written, nextRow, pending, shutdown, closer, toFlush, late>>
    BY <1>4 DEF HandOver, Enqueue, rowVars, closeVars
  <2> QED BY <1>0, <2>1, <2>2, <2>3, <2>4, <2>5, <2>6 DEF StagesInv, RowInOnePlace, LateInv
<1>5. "color" \in Streams /\ "depth" \in Streams /\ (stage = "passed" => current \in RowIds)
  BY <1>0 DEF Streams, NoRow, RowIds, TypeOK
<1>6. FrameThread \/ ColorThread \/ Restart \/ (\E s \in Streams : HandOver(s)) => Inv'
  BY <1>1, <1>2, <1>3, <1>4, <1>5 DEF FrameThread, ColorThread, DepthFinished, ColorFinished
<1> QED BY <1>6, <1>0, FramesTypeOK DEF RowsInv

\* So do the writer and the shutdown.
LEMMA WriterRowsInv == RowsInv /\ (Writer \/ Closer) => RowsInv'
<1> SUFFICES ASSUME RowsInv PROVE Writer \/ Closer => RowsInv'
  OBVIOUS
<1> DEFINE Inv == StagesInv /\ RowInOnePlace /\ LateInv
<1>0. TypeOK /\ Inv
  BY DEF RowsInv
<1>1. ASSUME Writer PROVE Inv'
  <2>1. Held' = Held
    BY <1>1 DEF Writer, WriterProceeds, WriterDozes, WriterSleeps, WriterTimeout, WriterWrites,
                WriterChecks, Swap, Held
  <2> QED BY <1>0, <1>1, <2>1
    DEF Writer, WriterProceeds, WriterDozes, WriterSleeps, WriterTimeout, WriterWrites, WriterChecks,
        Swap, StagesInv, RowInOnePlace, LateInv, rowVars, closeVars
<1>2. ASSUME CloseBegin PROVE Inv'
  <2>1. Held' = Held
    BY <1>2 DEF CloseBegin, Held
  <2> QED BY <1>0, <1>2, <2>1 DEF CloseBegin, StagesInv, RowInOnePlace, LateInv, queueVars
<1>3. ASSUME NEW r \in RowIds, CloseEnqueue(r) PROVE Inv'
  <2>1. Held' = Held
    BY <1>3 DEF CloseEnqueue, Held
  <2> QED BY <1>0, <1>3, <2>1
    DEF CloseEnqueue, Enqueue, Notified, StagesInv, RowInOnePlace, LateInv, rowVars
<1>4. ASSUME CloseNotify \/ CloseJoin PROVE Inv'
  <2>1. Held' = Held
    BY <1>4 DEF CloseNotify, CloseJoin, Held
  <2> QED BY <1>0, <1>4, <2>1
    DEF CloseNotify, CloseJoin, Notified, StagesInv, RowInOnePlace, LateInv, rowVars, queueVars
<1>5. Writer \/ Closer => Inv'
  BY <1>1, <1>2, <1>3, <1>4 DEF Closer
<1> QED BY <1>5, <1>0, WriterTypeOK DEF RowsInv

\* Every step keeps it.
LEMMA StepRowsInv == RowsInv /\ [Next]_vars => RowsInv'
<1>1. RowsInv /\ UNCHANGED vars => RowsInv'
  BY StepTypeOK DEF RowsInv, StagesInv, RowInOnePlace, LateInv, Held, vars, rowVars, queueVars, nodeVars, closeVars
<1> QED BY <1>1, FramesRowsInv, WriterRowsInv DEF Next

(* No row is dropped on the way and none is queued twice, although rows change
   hands between the two mutexes without either.                             *)
THEOREM RowCorrect == Spec => []RowInOnePlace
<1>1. RowsInv => RowInOnePlace
  BY DEF RowsInv
<1> QED BY InitRowsInv, StepRowsInv, <1>1, PTL DEF Spec

(* What is missing from the file after shutdown() was not yet queued when it
   raised the flag.                                                          *)
THEOREM LateCorrect == Spec => []OnlyLateRowsAreLost
<1>1. RowsInv => OnlyLateRowsAreLost
  BY DEF RowsInv, StagesInv, LateInv, OnlyLateRowsAreLost
<1> QED BY InitRowsInv, StepRowsInv, <1>1, PTL DEF Spec

-----------------------------------------------------------------------------
(* Publish times.  The sets some thread still handles, and what their frames'
   indices lead to: an index in flight was given out since the last restart, so
   no other set can have taken it over; if its mapping exists it is its own.   *)
InFlight == colorSets \cup {r \in RowIds : stage # "idle" /\ r = current}

FlightInv ==
  \A r \in InFlight : r < nextRow /\ \A s \in Streams :
    /\ frame[r][s] <= index[s]
    /\ \A i \in RowIds : frame[r][s] = i => rowOf[s][i] \in {NoRow, r}

OwnInv == TypeOK /\ FlightInv /\ PublishedOwnFrame

\* A new set takes an index that no set in flight has, and the next row.
LEMMA RecordOwnInv ==
  ASSUME OwnInv, NEW S \in SUBSET Streams, RecordFrameSet(S)
  PROVE  FlightInv' /\ PublishedOwnFrame'
<1>1. /\ nextRow \in RowIds /\ nextRow' = nextRow + 1 /\ nextRow \in Nat
      /\ frame \in [RowIds -> [Streams -> 0..MaxRows]]
      /\ index \in [Streams -> 0..MaxRows]
      /\ colorSets \subseteq RowIds
  BY DEF OwnInv, TypeOK, RecordFrameSet, RowIds
<1>2. /\ \A s \in Streams : index'[s] = IF s \in S THEN index[s] + 1 ELSE index[s]
      /\ \A s \in Streams : frame'[nextRow][s] = IF s \in S THEN index[s] + 1 ELSE 0
      /\ \A r \in RowIds : r # nextRow => frame'[r] = frame[r]
      /\ \A s \in Streams, i \in RowIds : rowOf'[s][i] = IF s \in S /\ i = index[s] + 1 THEN nextRow ELSE rowOf[s][i]
      /\ current' = nextRow /\ stage = "idle" /\ stage' = "recorded"
      /\ colorSets' = colorSets
  BY <1>1 DEF RecordFrameSet
<1>3. InFlight' = InFlight \cup {nextRow}
  BY <1>1, <1>2 DEF InFlight
<1>4. ASSUME NEW r \in InFlight, NEW s \in Streams
      PROVE  /\ r < nextRow' /\ frame'[r][s] <= index'[s]
             /\ \A i \in RowIds : frame'[r][s] = i => rowOf'[s][i] \in {NoRow, r}
  <2>1. /\ r < nextRow /\ frame[r][s] <= index[s]
        /\ \A i \in RowIds : frame[r][s] = i => rowOf[s][i] \in {NoRow, r}
    BY DEF OwnInv, FlightInv
  <2>2. r \in RowIds /\ r # nextRow
    BY <1>1, <2>1 DEF InFlight, RowIds
  <2>3. frame'[r][s] = frame[r][s] /\ frame[r][s] \in Nat /\ index[s] \in Nat /\ r \in Nat
    BY <1>1, <1>2, <2>2 DEF RowIds
  <2>4. frame'[r][s] <= index'[s] /\ frame[r][s] # index[s] + 1
    BY <1>2, <2>1, <2>3
  <2>5. r < nextRow'
    BY <1>1, <2>1, <2>3
  <2> QED BY <1>2, <2>1, <2>3, <2>4, <2>5
<1>5. ASSUME NEW s \in Streams
      PROVE  /\ nextRow < nextRow' /\ frame'[nextRow][s] <= index'[s]
             /\ \A i \in RowIds : frame'[nextRow][s] = i => rowOf'[s][i] \in {NoRow, nextRow}
  <2>1. index[s] \in Nat
    BY <1>1
  <2>2. nextRow < nextRow' /\ frame'[nextRow][s] <= index'[s]
    BY <1>1, <1>2, <2>1
  <2>3. \A i \in RowIds : i # 0
    BY DEF RowIds
  <2> QED BY <1>2, <2>2, <2>3
<1>6. FlightInv'
  BY <1>3, <1>4, <1>5, <1>1 DEF FlightInv, Streams
<1>7. PublishedOwnFrame'
  BY DEF OwnInv, PublishedOwnFrame, RecordFrameSet
<1> QED BY <1>6, <1>7

\* The row an index in flight leads to is the row of its set.
LEMMA OwnRow ==
  ASSUME OwnInv, NEW s \in Streams, NEW r \in InFlight, NEW p \in BOOLEAN, CompleteImage(s, r, p)
  PROVE  r \in RowIds /\ CompletesRow(s, r, r)
<1>1. r \in RowIds
  BY DEF OwnInv, TypeOK, InFlight
<1>2. PICK row \in RowIds : CompletesRow(s, r, row)
  BY <1>1, CompleteImageEffect DEF OwnInv
<1>3. frame[r][s] \in RowIds
  <2>1. frame \in [RowIds -> [Streams -> 0..MaxRows]]
    BY DEF OwnInv, TypeOK
  <2>2. frame[r][s] # 0
    BY <1>2 DEF CompletesRow
  <2> QED BY <1>1, <2>1, <2>2 DEF RowIds
<1>4. row = r
  BY <1>2, <1>3 DEF OwnInv, FlightInv, CompletesRow, RowIds, NoRow
<1> QED BY <1>1, <1>2, <1>4

\* So the time goes into that row, and no mapping of another set is made.
LEMMA CompleteOwnInv ==
  ASSUME OwnInv, NEW s \in Streams, NEW r \in InFlight, NEW p \in BOOLEAN, CompleteImage(s, r, p)
  PROVE  FlightInv' /\ PublishedOwnFrame'
<1>1. r \in RowIds /\ CompletesRow(s, r, r)
  BY OwnRow
<1>5. PublishedOwnFrame'
  <2>1. stamp \in [RowIds -> [Streams -> 0..MaxRows]] /\ (stamp' = stamp \/ stamp' = [stamp EXCEPT ![r][s] = r])
    BY <1>1 DEF OwnInv, TypeOK, CompletesRow
  <2> QED BY <2>1 DEF OwnInv, PublishedOwnFrame
<1>6. \A x \in Streams, i \in RowIds : rowOf'[x][i] \in {NoRow, rowOf[x][i]}
  BY <1>1 DEF CompletesRow, ErasedMappings
<1>7. InFlight' = InFlight /\ UNCHANGED <<nextRow, frame, index>>
  BY <1>1 DEF CompletesRow, InFlight
<1>8. FlightInv'
  BY <1>6, <1>7 DEF OwnInv, FlightInv
<1> QED BY <1>5, <1>8

\* The invariant holds at the start and every step keeps it.
LEMMA InitOwnInv == Init => OwnInv
<1> SUFFICES ASSUME Init PROVE OwnInv
  OBVIOUS
<1>1. InFlight = {}
  BY DEF Init, InFlight
<1>2. PublishedOwnFrame
  BY DEF Init, PublishedOwnFrame
<1> QED BY <1>1, <1>2, InitTypeOK DEF OwnInv, FlightInv

LEMMA StepOwnInv == OwnInv /\ [Next]_vars => OwnInv'
<1> SUFFICES ASSUME OwnInv, [Next]_vars PROVE FlightInv' /\ PublishedOwnFrame'
  BY StepTypeOK DEF OwnInv
<1>0. TypeOK /\ FlightInv /\ PublishedOwnFrame
  BY DEF OwnInv
<1>1. ASSUME UNCHANGED <<nextRow, frame, index, stamp, rowOf>>, InFlight' \subseteq InFlight
      PROVE  FlightInv' /\ PublishedOwnFrame'
  <2>1. FlightInv'
    BY <1>0, <1>1 DEF FlightInv
  <2>2. PublishedOwnFrame'
    BY <1>0, <1>1 DEF PublishedOwnFrame
  <2> QED BY <2>1, <2>2
<1>2. CASE \E S \in SUBSET Streams \ {{}} : RecordFrameSet(S)
  BY <1>2, RecordOwnInv
<1>3. CASE PassOn \/ FrameSetDone
  <2>1. InFlight' \subseteq InFlight
    BY <1>0, <1>3 DEF PassOn, FrameSetDone, InFlight, TypeOK, RowIds, NoRow
  <2>2. UNCHANGED <<nextRow, frame, index, stamp, rowOf>>
    BY <1>3 DEF PassOn, FrameSetDone, rowVars
  <2> QED BY <1>1, <2>1, <2>2
<1>4. CASE \E p \in BOOLEAN : DepthFinished(p)
  <2>1. stage = "passed" => current \in InFlight
    BY <1>0 DEF InFlight, TypeOK, RowIds, NoRow
  <2> QED BY <1>4, <2>1, CompleteOwnInv DEF DepthFinished, Streams
<1>5. CASE \E r \in RowIds, p \in BOOLEAN : ColorFinished(r, p)
  <2>1. \A r \in RowIds : r \in colorSets => r \in InFlight
    BY DEF InFlight
  <2> QED BY <1>5, <2>1, CompleteOwnInv DEF ColorFinished, Streams
<1>6. CASE \E r \in RowIds : ColorPop(r)
  <2>1. InFlight' \subseteq InFlight /\ UNCHANGED <<nextRow, frame, index, stamp, rowOf>>
    BY <1>6 DEF ColorPop, InFlight, rowVars
  <2> QED BY <1>1, <2>1
<1>7. CASE Restart
  <2>1. InFlight' = {}
    BY <1>7 DEF Restart, InFlight
  <2> QED BY <1>0, <1>7, <2>1 DEF Restart, FlightInv, PublishedOwnFrame, rowVars
<1>8. CASE CloseBegin
  <2>1. InFlight' = InFlight /\ UNCHANGED <<nextRow, frame, index, stamp>>
    BY <1>8 DEF CloseBegin, InFlight, nodeVars
  <2>2. \A s \in Streams, i \in RowIds : rowOf'[s][i] = NoRow
    BY <1>8 DEF CloseBegin
  <2> QED BY <1>0, <2>1, <2>2 DEF FlightInv, PublishedOwnFrame
<1>9. CASE Writer \/ CloseNotify \/ CloseJoin \/ (\E r \in RowIds : CloseEnqueue(r))
             \/ (\E s \in Streams : HandOver(s)) \/ UNCHANGED vars
  <2>1. UNCHANGED <<rowVars, nodeVars>>
    BY <1>9 DEF Writer, WriterProceeds, WriterDozes, WriterSleeps, WriterTimeout, WriterWrites,
                WriterChecks, Swap, CloseNotify, CloseJoin, CloseEnqueue, HandOver, vars
  <2>2. InFlight' = InFlight /\ UNCHANGED <<nextRow, frame, index, stamp, rowOf>>
    BY <2>1 DEF InFlight, rowVars, nodeVars
  <2> QED BY <1>1, <2>2
<1> QED BY <1>2, <1>3, <1>4, <1>5, <1>6, <1>7, <1>8, <1>9 DEF Next, FrameThread, ColorThread, Closer

(* The publish time in a row was taken for the frame of that row, whatever is
   dropped and however often the indices start over.                         *)
THEOREM OwnFrameCorrect == Spec => []PublishedOwnFrame
<1>1. OwnInv => PublishedOwnFrame
  BY DEF OwnInv
<1> QED BY InitOwnInv, StepOwnInv, <1>1, PTL DEF Spec

-----------------------------------------------------------------------------
(* The promise.  A time is recorded once: a stream with a time is final in its
   row, and a row that has not been opened has no times.                     *)
StampInv ==
  \A r \in RowIds, s \in Streams : stamp[r][s] # NoRow => r < nextRow /\ s \in final[r]

\* shutdown() has returned only when the writer has left.
ClosedInv == closer = "closed" => writer = "exited"

LogInv == RowsInv /\ OwnInv /\ StampInv /\ ClosedInv

\* The steps that only move a frame set along between the two threads.
Between == PassOn \/ FrameSetDone \/ Restart \/ \E r \in RowIds : ColorPop(r)

\* The steps of the module, with the frames a thread finishes taken from InFlight.
LEMMA StepKinds ==
  ASSUME TypeOK, Next
  PROVE  \/ \E S \in SUBSET Streams : RecordFrameSet(S)
         \/ \E s \in Streams, r \in InFlight, p \in BOOLEAN : CompleteImage(s, r, p)
         \/ Between \/ (\E s \in Streams : HandOver(s)) \/ Writer \/ Closer
<1>1. stage = "passed" => current \in InFlight
  BY DEF InFlight, TypeOK, RowIds, NoRow
<1>2. colorSets \subseteq InFlight
  BY DEF InFlight
<1>3. "color" \in Streams /\ "depth" \in Streams
  BY DEF Streams
<1>4. (\E p \in BOOLEAN : DepthFinished(p)) \/ (\E r \in RowIds, p \in BOOLEAN : ColorFinished(r, p))
        => \E s \in Streams, r \in InFlight, p \in BOOLEAN : CompleteImage(s, r, p)
  BY <1>1, <1>2, <1>3 DEF DepthFinished, ColorFinished
<1> QED BY <1>4 DEF Next, FrameThread, ColorThread, Between

LEMMA StepStampInv ==
  ASSUME LogInv, [Next]_vars
  PROVE  StampInv'
<1>1. /\ stamp \in [RowIds -> [Streams -> 0..MaxRows]]
      /\ final \in [RowIds -> SUBSET Streams] /\ nextRow \in Nat
      /\ RowIds \subseteq Nat
  BY DEF LogInv, RowsInv, TypeOK, RowIds
<1>2. StampInv /\ TypeOK /\ OwnInv /\ RowInOnePlace
  BY DEF LogInv, RowsInv
<1>3. CASE UNCHANGED <<stamp, nextRow, final>>
  BY <1>2, <1>3 DEF StampInv
<1>4. ASSUME NEW S \in SUBSET Streams, RecordFrameSet(S) PROVE StampInv'
  <2>1. /\ nextRow' = nextRow + 1 /\ stamp' = stamp
        /\ \A r \in RowIds : r # nextRow => final'[r] = final[r]
    BY <1>1, <1>4 DEF RecordFrameSet
  <2>2. ASSUME NEW r \in RowIds, NEW s \in Streams, stamp'[r][s] # NoRow
        PROVE  r < nextRow' /\ s \in final'[r]
    <3>1. r < nextRow /\ s \in final[r] /\ r \in Nat
      BY <1>1, <1>2, <2>1, <2>2 DEF StampInv
    <3> QED BY <1>1, <2>1, <3>1
  <2> QED BY <2>2 DEF StampInv
<1>5. ASSUME NEW s \in Streams, NEW r \in InFlight, NEW p \in BOOLEAN, CompleteImage(s, r, p)
      PROVE  StampInv'
  <2>1. r \in RowIds /\ CompletesRow(s, r, r)
    BY <1>2, <1>5, OwnRow
  <2>2. r < nextRow
    <3>1. r \in 1..(nextRow - 1)
      BY <1>2, <2>1 DEF RowInOnePlace, CompletesRow
    <3> QED BY <1>1, <3>1
  <2>3. /\ nextRow' = nextRow /\ final' = [final EXCEPT ![r] = @ \cup {s}]
        /\ stamp' = stamp \/ stamp' = [stamp EXCEPT ![r][s] = r]
    BY <2>1 DEF CompletesRow
  <2>4. \A q \in RowIds, u \in Streams : stamp'[q][u] = stamp[q][u] \/ (q = r /\ u = s)
    BY <1>1, <2>3
  <2>5. s \in final'[r] /\ \A q \in RowIds : final[q] \subseteq final'[q]
    BY <1>1, <2>1, <2>3
  <2> QED BY <1>2, <2>1, <2>2, <2>3, <2>4, <2>5 DEF StampInv
<1>6. CASE CloseBegin
  <2>1. /\ stamp' = stamp /\ nextRow' = nextRow
        /\ \A r \in RowIds : final[r] \subseteq final'[r]
    BY <1>1, <1>6 DEF CloseBegin
  <2> QED BY <1>2, <2>1 DEF StampInv
<1>7. Between \/ (\E s \in Streams : HandOver(s)) \/ Writer \/ UNCHANGED vars
        => UNCHANGED <<stamp, nextRow, final>>
  BY DEF Between, PassOn, FrameSetDone, Restart, ColorPop, HandOver, Writer, WriterProceeds,
         WriterDozes, WriterSleeps, WriterTimeout, WriterWrites, WriterChecks, Swap, vars, rowVars
<1>8. Closer => CloseBegin \/ UNCHANGED <<stamp, nextRow, final>>
  BY DEF Closer, CloseEnqueue, CloseNotify, CloseJoin, rowVars
<1> QED BY <1>2, <1>3, <1>4, <1>5, <1>6, <1>7, <1>8, StepKinds

LEMMA StepClosedInv == ClosedInv /\ [Next]_vars => ClosedInv'
<1> SUFFICES ASSUME ClosedInv, [Next]_vars PROVE ClosedInv'
  OBVIOUS
<1>1. CASE UNCHANGED <<closer, writer>>
  BY <1>1 DEF ClosedInv
<1>2. FrameThread \/ ColorThread \/ Restart \/ UNCHANGED vars => UNCHANGED <<closer, writer>>
  BY DEF FrameThread, ColorThread, RecordFrameSet, PassOn, DepthFinished, FrameSetDone,
         ColorFinished, CompleteImage, ColorPop, Restart, vars, queueVars, closeVars
<1>3. CASE \E s \in Streams : HandOver(s)
  BY <1>3 DEF HandOver, Enqueue, Notified, closeVars, ClosedInv
<1>4. CASE Writer
  BY <1>4 DEF Writer, WriterProceeds, WriterDozes, WriterSleeps, WriterTimeout, WriterWrites,
              WriterChecks, Swap, closeVars, ClosedInv
<1>5. CASE Closer
  BY <1>5 DEF Closer, CloseBegin, CloseEnqueue, CloseNotify, CloseJoin, Enqueue, Notified,
              queueVars, ClosedInv
<1> QED BY <1>1, <1>2, <1>3, <1>4, <1>5 DEF Next

\* A thread that finishes a frame publishes it, into the row of its own set.
LEMMA CompleteRefines ==
  ASSUME LogInv, NEW s \in Streams, NEW r \in InFlight, NEW p \in BOOLEAN, CompleteImage(s, r, p)
  PROVE  Log!Publish(r, s)
<1>1. r \in RowIds /\ CompletesRow(s, r, r)
  BY OwnRow DEF LogInv
<1>2. Phase = "open" /\ Phase' = "open"
  <2>1. closer = "open" /\ closer' = closer
    BY <1>1 DEF CompletesRow, LogInv, RowsInv, StagesInv
  <2> QED BY <2>1 DEF Phase
<1>3. stamp[r][s] = NoRow
  BY <1>1 DEF LogInv, StampInv, CompletesRow
<1>4. \/ UNCHANGED stamp
      \/ stamp[r][s] = NoRow /\ stamp' = [stamp EXCEPT ![r][s] = r]
  BY <1>1, <1>3 DEF CompletesRow
<1>5. /\ \/ pending' = pending \ {r} /\ Held' = Held \cup {r}
         \/ UNCHANGED pending /\ Held' = Held
      /\ toFlush' = toFlush
  <2>1. CASE UNCHANGED <<pending, rowOf, inHand>>
    BY <1>1, <2>1 DEF Held, CompletesRow
  <2>2. CASE pending' = pending \ {r} /\ inHand' = [inHand EXCEPT ![s] = r]
    BY <1>1, <2>2, HeldChanges DEF CompletesRow, LogInv, RowsInv, TypeOK
  <2> QED BY <1>1, <2>1, <2>2 DEF CompletesRow
<1>6. Log!MoveOn(r) \/ UNCHANGED <<pending, toFlush \cup Held>>
  BY <1>5 DEF Log!MoveOn
<1> QED BY <1>1, <1>2, <1>4, <1>6 DEF Log!Publish, CompletesRow

\* A row in a thread's hand, or in shutdown()'s, is queued.
LEMMA QueueRefines ==
  ASSUME LogInv, NEW r \in RowIds, Enqueue(r), r \in toFlush \cup Held,
         (toFlush \cup Held)' = (toFlush \cup Held) \ {r},
         UNCHANGED <<pending, stamp, closer, late>>
  PROVE  Log!Queue(r)
<1>1. completed' = completed \cup {r} /\ UNCHANGED <<batch, written>>
  BY DEF Enqueue
<1>2. Phase' = Phase
  BY DEF Enqueue, Notified, Phase
<1> QED BY <1>1, <1>2 DEF Log!Queue

LEMMA WriterRefines ==
  ASSUME LogInv, Writer
  PROVE  [Log!Next]_Log!log
<1> USE DEF rowVars, closeVars
<1>1. (toFlush \cup Held)' = toFlush \cup Held /\ UNCHANGED <<pending, stamp, closer, late>>
  BY DEF Writer, WriterProceeds, WriterDozes, WriterSleeps, WriterTimeout, WriterWrites,
         WriterChecks, Swap, Held
<1>2. CASE WriterWrites
  <2>1. /\ written' = written \cup batch /\ batch' = {} /\ completed' = completed
        /\ writer = "writing" /\ writer' = "checking"
    BY <1>2 DEF WriterWrites
  <2>2. (completed \cup batch)' = (completed \cup batch) \ batch
    BY <2>1 DEF LogInv, RowsInv, RowInOnePlace
  <2>3. Phase \in {"open", "closing"} /\ Phase' = Phase
    BY <1>1, <2>1 DEF Phase
  <2>4. Log!Write(batch)
    BY <1>1, <2>1, <2>2, <2>3 DEF Log!Write
  <2> QED BY <2>4 DEF Log!Next
<1>3. CASE WriterChecks /\ writer' = "exited"
  <2>1. completed = {} /\ batch = {} /\ UNCHANGED <<completed, batch, written>>
    BY <1>3 DEF WriterChecks, LogInv, RowsInv, StagesInv
  <2>2. closer # "open" /\ closer # "closed" /\ writer # "exited"
    BY <1>3 DEF WriterChecks, LogInv, RowsInv, StagesInv, ClosedInv
  <2>3. Phase = "closing" /\ Phase' = "ended"
    BY <1>1, <1>3, <2>2 DEF Phase
  <2>4. Log!End
    BY <1>1, <2>1, <2>3 DEF Log!End, Log!places
  <2> QED BY <2>4 DEF Log!Next
<1>4. CASE ~WriterWrites /\ ~(WriterChecks /\ writer' = "exited")
  <2>1. (completed \cup batch)' = completed \cup batch /\ written' = written
    BY <1>4 DEF Writer, WriterProceeds, WriterDozes, WriterSleeps, WriterTimeout, WriterChecks,
                Swap, LogInv, RowsInv, StagesInv
  <2>2. writer # "exited" /\ writer' # "exited"
    BY <1>4 DEF Writer, WriterProceeds, WriterDozes, WriterSleeps, WriterTimeout, WriterChecks,
                Swap
  <2>3. Phase' = Phase
    BY <1>1, <2>2, Zenon DEF Phase
  <2> QED BY <1>1, <2>1, <2>3 DEF Log!log, Log!places
<1> QED BY <1>2, <1>3, <1>4

LEMMA CloserRefines ==
  ASSUME LogInv, Closer
  PROVE  [Log!Next]_Log!log
<1> USE DEF rowVars, queueVars
<1>1. CASE CloseBegin
  <2>1. Held' = Held /\ toFlush = {} /\ writer # "exited"
    BY <1>1 DEF CloseBegin, Held, LogInv, RowsInv, StagesInv, LateInv
  <2>2. Phase = "open" /\ Phase' = "closing"
    BY <1>1, <2>1 DEF CloseBegin, Phase
  <2>3. /\ late' = pending \cup (toFlush \cup Held) /\ pending' = {}
        /\ (toFlush \cup Held)' = (toFlush \cup Held) \cup pending
        /\ UNCHANGED <<completed \cup batch, written, stamp>>
    BY <1>1, <2>1 DEF CloseBegin
  <2>4. Log!Close
    BY <2>2, <2>3 DEF Log!Close
  <2> QED BY <2>4 DEF Log!Next
<1>2. ASSUME NEW r \in RowIds, CloseEnqueue(r) PROVE Log!Next
  <2>1. /\ Enqueue(r) /\ r \in toFlush /\ toFlush' = toFlush \ {r}
        /\ UNCHANGED <<pending, stamp, closer, late, inHand>>
    BY <1>2 DEF CloseEnqueue
  <2>2. Held' = Held /\ r \notin Held
    BY <2>1 DEF Held, LogInv, RowsInv, RowInOnePlace
  <2>3. Log!Queue(r)
    BY <2>1, <2>2, QueueRefines
  <2> QED BY <2>3 DEF Log!Next
<1>3. CASE CloseNotify
  <2>1. Phase' = Phase
    BY <1>3 DEF CloseNotify, Notified, Phase
  <2> QED BY <1>3, <2>1 DEF CloseNotify, Held, Log!log, Log!places
<1>4. CASE CloseJoin
  <2>1. Phase = "ended" /\ Phase' = "closed"
    BY <1>4 DEF CloseJoin, Phase
  <2>2. Log!Return
    BY <1>4, <2>1 DEF CloseJoin, Held, Log!Return, Log!places
  <2> QED BY <2>2 DEF Log!Next
<1> QED BY <1>1, <1>2, <1>3, <1>4 DEF Closer

LEMMA StepRefines ==
  ASSUME LogInv, [Next]_vars
  PROVE  [Log!Next]_Log!log
<1>1. ASSUME NEW S \in SUBSET Streams, RecordFrameSet(S) PROVE Log!Next
  <2>1. /\ nextRow \in RowIds /\ pending' = pending \cup {nextRow} /\ closer = "open"
        /\ UNCHANGED <<toFlush, inHand, completed, batch, written, stamp, late, closer>>
    BY <1>1 DEF RecordFrameSet, queueVars, closeVars, LogInv, RowsInv, StagesInv, TypeOK, RowIds
  <2>2. nextRow \notin pending \cup (toFlush \cup Held) \cup (completed \cup batch) \cup written
    <3>1. nextRow \notin 1..(nextRow - 1)
      BY DEF LogInv, RowsInv, TypeOK
    <3> QED BY <3>1 DEF LogInv, RowsInv, RowInOnePlace
  <2>3. Held' = Held /\ Phase = "open" /\ Phase' = "open"
    BY <2>1 DEF Held, Phase
  <2>4. Log!Open(nextRow)
    BY <2>1, <2>2, <2>3 DEF Log!Open
  <2> QED BY <2>1, <2>4 DEF Log!Next
<1>2. ASSUME NEW s \in Streams, NEW r \in InFlight, NEW p \in BOOLEAN, CompleteImage(s, r, p)
      PROVE  Log!Next
  <2>1. r \in RowIds
    BY <1>2, OwnRow DEF LogInv
  <2> QED BY <1>2, <2>1, CompleteRefines DEF Log!Next
<1>3. ASSUME NEW s \in Streams, HandOver(s) PROVE Log!Next
  <2>1. /\ Enqueue(inHand[s]) /\ UNCHANGED <<pending, stamp, closer, late, toFlush>>
        /\ inHand[s] # NoRow /\ inHand' = [inHand EXCEPT ![s] = NoRow]
    BY <1>3 DEF HandOver, rowVars, closeVars
  <2>2. inHand[s] \in Held /\ Held' = Held \ {inHand[s]}
    BY <2>1, HeldChanges DEF LogInv, RowsInv, RowInOnePlace, TypeOK
  <2>3. inHand[s] \in RowIds /\ inHand[s] \notin toFlush
    BY <2>2 DEF Held, LogInv, RowsInv, RowInOnePlace
  <2>4. Log!Queue(inHand[s])
    BY <2>1, <2>2, <2>3, QueueRefines
  <2> QED BY <2>3, <2>4 DEF Log!Next
<1>4. CASE Between \/ UNCHANGED vars
  <2>1. UNCHANGED <<rowVars, queueVars, closeVars, inHand>>
    BY <1>4 DEF Between, PassOn, FrameSetDone, Restart, ColorPop, vars
  <2> QED BY <2>1 DEF rowVars, queueVars, closeVars, Held, Phase, Log!log, Log!places
<1> QED BY <1>1, <1>2, <1>3, <1>4, WriterRefines, CloserRefines, StepKinds
        DEF LogInv, RowsInv

(* The logger keeps RowLog's promise, for any number of frame sets and restarts:
   a row holds its own frames' times, each taken once, does not change after it
   is ready, and reaches the file unless it was not queued when shutdown()
   raised the flag.                                                          *)
THEOREM LogCorrect == Spec => LogPromise
<1>1. Init => LogInv
  <2>1. Init => StampInv /\ ClosedInv
    BY DEF Init, StampInv, ClosedInv
  <2> QED BY <2>1, InitRowsInv, InitOwnInv DEF LogInv
<1>2. LogInv /\ [Next]_vars => LogInv'
  BY StepRowsInv, StepOwnInv, StepStampInv, StepClosedInv DEF LogInv
<1>3. Init => Log!Init
  <2>1. Init => Held = {}
    BY DEF Init, Held, RowIds, NoRow
  <2> QED BY <2>1 DEF Init, Phase, Log!Init
<1> QED BY <1>1, <1>2, <1>3, StepRefines, PTL DEF Spec, LogPromise, Log!Spec

=============================================================================
