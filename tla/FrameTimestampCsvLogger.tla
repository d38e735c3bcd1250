---------------------- MODULE FrameTimestampCsvLogger ----------------------
(* The frame timestamp logger of a camera node and the threads that call it.

   A row is opened when a frame set arrives and closed when each of its colour
   and depth frames has been published or skipped.  The SDK's frame thread
   records the set and finishes the depth frame; the colour thread finishes the
   colour frame later; clean() shuts the logger down while both still run; the
   writer thread moves closed rows to the file.  state_mutex_ protects the rows
   and completed_rows_mutex_ the queue of closed rows: a row passes between the
   two in the hands of a thread that holds neither.

   Abstractions.  A row is its row_id, and so is the frame set it was opened
   for; times are left out, except which set's frame a publish time was taken
   for.  completed_rows_, a batch and the file are sets: no property depends on
   their order.  The CSV file opens (csv_enabled_), so the writer thread runs.
   recordStandaloneFrameArrival has no caller.  The destruction of the logger
   after shutdown() is left out.                                            *)
EXTENDS Naturals, FiniteSets

CONSTANTS
  MaxRows,      \* bound: frame sets that arrive
  MaxRestarts   \* bound: restarts of the pipeline

ASSUME BoundsAssumption == MaxRows \in Nat /\ MaxRestarts \in Nat

Streams == {"color", "depth"}
RowIds == 1..MaxRows
NoRow == 0

VARIABLES
  nextRow,    \* next_row_id_
  frame,      \* frame[r][s]: the index of the frame of stream s in row r, 0 if none
  final,      \* final[r]: the streams of row r that are final
  stamp,      \* stamp[r][s]: the set whose frame's publish time the row holds
  pending,    \* the keys of pending_rows_
  rowOf,      \* rowOf[s][i]: color_ and depth_frame_index_to_row_id_
  completed,  \* completed_rows_
  shutdown,   \* shutdown_requested_
  inHand,     \* inHand[s]: ready_row of the thread that finishes stream s
  toFlush,    \* rows_to_flush of shutdown()
  batch,      \* rows_to_write of the writer
  written,    \* the rows in the file
  writer,     \* control point of writerThreadMain
  closer,     \* control point of shutdown()
  current,    \* the frame set in onNewFrameSetCallback
  stage,      \* control point of onNewFrameSetCallback
  colorSets,  \* color_frame_queue_
  index,      \* index[s]: the index of the last frame of stream s
  restarts,   \* restarts of the pipeline so far
  late        \* history: the rows that were not in the queue when shutdown began

rowVars == <<nextRow, frame, final, stamp, pending, rowOf>>
queueVars == <<completed, writer, batch, written>>
nodeVars == <<current, stage, colorSets, index, restarts>>
closeVars == <<shutdown, closer, toFlush, late>>
vars == <<rowVars, queueVars, nodeVars, closeVars, inHand>>

WriterPoints == {"deciding", "sleepy", "asleep", "writing", "checking", "exited"}
CloserPoints == {"open", "flushing", "joining", "closed"}
StagePoints == {"idle", "recorded", "passed"}

\* The rows in the hands of a thread, on their way to the queue.
Held == {r \in RowIds : \E s \in Streams : inHand[s] = r}

\* Every variable keeps its type, and a row_id is used once.
TypeOK ==
  /\ nextRow \in 1..(MaxRows + 1)
  /\ frame \in [RowIds -> [Streams -> 0..MaxRows]]
  /\ final \in [RowIds -> SUBSET Streams]
  /\ stamp \in [RowIds -> [Streams -> 0..MaxRows]]
  /\ pending \subseteq RowIds /\ toFlush \subseteq RowIds /\ late \subseteq RowIds
  /\ completed \subseteq RowIds /\ batch \subseteq RowIds /\ written \subseteq RowIds
  /\ rowOf \in [Streams -> [RowIds -> 0..MaxRows]]
  /\ shutdown \in BOOLEAN
  /\ inHand \in [Streams -> 0..MaxRows]
  /\ writer \in WriterPoints /\ closer \in CloserPoints /\ stage \in StagePoints
  /\ current \in 0..MaxRows /\ (stage # "idle" => current # NoRow)
  /\ colorSets \subseteq RowIds
  /\ index \in [Streams -> 0..MaxRows] /\ \A s \in Streams : index[s] < nextRow
  /\ restarts \in 0..MaxRestarts

Init ==
  /\ nextRow = 1
  /\ frame = [r \in RowIds |-> [s \in Streams |-> 0]]
  /\ final = [r \in RowIds |-> {}]
  /\ stamp = [r \in RowIds |-> [s \in Streams |-> NoRow]]
  /\ pending = {} /\ toFlush = {} /\ late = {}
  /\ completed = {} /\ batch = {} /\ written = {}
  /\ rowOf = [s \in Streams |-> [i \in RowIds |-> NoRow]]
  /\ shutdown = FALSE
  /\ inHand = [s \in Streams |-> NoRow]
  /\ writer = "deciding" /\ closer = "open" /\ stage = "idle"
  /\ current = NoRow
  /\ colorSets = {}
  /\ index = [s \in Streams |-> 0]
  /\ restarts = 0

-----------------------------------------------------------------------------
(* The two mutexes.  Only shutdown() keeps state_mutex_ over more than one of
   the steps below, and only a writer about to sleep keeps completed_rows_mutex_. *)
StateMutexFree == closer # "flushing"
QueueMutexFree == writer # "sleepy"

\* notify_one and notify_all: the writer is the only thread that waits.
Notified == IF writer = "asleep" THEN "deciding" ELSE writer

\* enqueueCompletedRow
Enqueue(r) ==
  /\ QueueMutexFree
  /\ completed' = completed \cup {r}
  /\ writer' = Notified
  /\ UNCHANGED <<batch, written>>

\* The mappings without those of row r (eraseFrameIndexMappingLocked).
ErasedMappings(r) ==
  [s \in Streams |-> [i \in RowIds |-> IF frame[r][s] = i THEN NoRow ELSE rowOf[s][i]]]

\* Mutant: next_row_id_ is used and not advanced.
RecordFrameSet_IdKept(S) ==
  /\ stage = "idle" /\ inHand["depth"] = NoRow
  /\ StateMutexFree /\ ~shutdown
  /\ nextRow <= MaxRows
  /\ nextRow' = nextRow
  /\ index' = [s \in Streams |-> IF s \in S THEN index[s] + 1 ELSE index[s]]
  /\ frame' = [frame EXCEPT ![nextRow] =
                 [s \in Streams |-> IF s \in S THEN index[s] + 1 ELSE 0]]
  /\ final' = [final EXCEPT ![nextRow] = Streams \ S]
  /\ rowOf' = [s \in Streams |->
                 [i \in RowIds |-> IF s \in S /\ i = index[s] + 1
                                   THEN nextRow ELSE rowOf[s][i]]]
  /\ pending' = pending \cup {nextRow}
  /\ current' = nextRow /\ stage' = "recorded"
  /\ UNCHANGED <<stamp, colorSets, restarts, queueVars, closeVars, inHand>>

(* recordFrameSet for a set with a frame of each stream of S: the streams that
   are not tracked are final at once, so a row is never ready on arrival.  After
   shutdown the call returns without effect.                                *)
RecordFrameSet(S) ==
  /\ stage = "idle" /\ inHand["depth"] = NoRow
  /\ StateMutexFree /\ ~shutdown
  /\ nextRow <= MaxRows
  /\ nextRow' = nextRow + 1
  /\ index' = [s \in Streams |-> IF s \in S THEN index[s] + 1 ELSE index[s]]
  /\ frame' = [frame EXCEPT ![nextRow] =
                 [s \in Streams |-> IF s \in S THEN index[s] + 1 ELSE 0]]
  /\ final' = [final EXCEPT ![nextRow] = Streams \ S]
  /\ rowOf' = [s \in Streams |->
                 [i \in RowIds |-> IF s \in S /\ i = index[s] + 1
                                   THEN nextRow ELSE rowOf[s][i]]]
  /\ pending' = pending \cup {nextRow}
  /\ current' = nextRow /\ stage' = "recorded"
  /\ UNCHANGED <<stamp, colorSets, restarts, queueVars, closeVars, inHand>>

\* onNewFrameSetCallback hands the set to the colour thread, if it has colour.
PassOn ==
  /\ stage = "recorded"
  /\ stage' = "passed"
  /\ colorSets' = IF frame[current]["color"] # 0
                  THEN colorSets \cup {current} ELSE colorSets
  /\ UNCHANGED <<current, index, restarts, rowVars, queueVars, closeVars, inHand>>

\* The set is done with: in full, or given up on (alignment failed, a throw).
FrameSetDone ==
  /\ stage # "idle" /\ inHand["depth"] = NoRow
  /\ stage' = "idle" /\ current' = NoRow
  /\ UNCHANGED <<colorSets, index, restarts, rowVars, queueVars, closeVars, inHand>>

\* completeImagePublishInternal for the frame of stream s in set r.
CompleteImage(s, r, published) ==
  LET row == rowOf[s][frame[r][s]] IN
  /\ StateMutexFree /\ ~shutdown
  /\ inHand[s] = NoRow
  /\ frame[r][s] # 0 /\ row # NoRow
  /\ row \in pending /\ s \notin final[row]
  /\ final' = [final EXCEPT ![row] = @ \cup {s}]
  /\ stamp' = IF published THEN [stamp EXCEPT ![row][s] = r] ELSE stamp
  /\ IF Streams \subseteq final[row] \cup {s}
     THEN /\ pending' = pending \ {row}
          /\ rowOf' = ErasedMappings(row)
          /\ inHand' = [inHand EXCEPT ![s] = row]
     ELSE UNCHANGED <<pending, rowOf, inHand>>
  /\ UNCHANGED <<nextRow, frame, queueVars, nodeVars, closeVars>>

\* recordPreImagePublish and recordImagePublishSkipped of the depth frame.
DepthFinished(published) ==
  /\ stage = "passed"
  /\ CompleteImage("depth", current, published)

\* The same of a colour frame, which may get both calls, one after the other.
ColorFinished(r, published) ==
  /\ r \in colorSets
  /\ CompleteImage("color", r, published)

\* The colour thread pops the set, also after a return without a call.
ColorPop(r) ==
  /\ r \in colorSets /\ inHand["color"] = NoRow
  /\ colorSets' = colorSets \ {r}
  /\ UNCHANGED <<current, stage, index, restarts, rowVars, queueVars, closeVars, inHand>>

\* A thread that closed a row queues it, no longer under state_mutex_.
HandOver(s) ==
  /\ inHand[s] # NoRow
  /\ Enqueue(inHand[s])
  /\ inHand' = [inHand EXCEPT ![s] = NoRow]
  /\ UNCHANGED <<rowVars, nodeVars, closeVars>>

\* Mutant: the frame sets queued before the restart are kept.
Restart_QueueKept ==
  /\ restarts < MaxRestarts
  /\ stage = "idle" /\ \A s \in Streams : inHand[s] = NoRow
  /\ restarts' = restarts + 1
  /\ index' = [s \in Streams |-> 0]
  /\ UNCHANGED <<current, stage, colorSets, rowVars, queueVars, closeVars, inHand>>

(* applyStreamProfiles stops the pipeline and the colour thread, drops what is
   queued and starts again; the indices start over.  The rows and the mappings
   of frames that were dropped stay.                                        *)
Restart ==
  /\ restarts < MaxRestarts
  /\ stage = "idle" /\ \A s \in Streams : inHand[s] = NoRow
  /\ restarts' = restarts + 1
  /\ colorSets' = {}
  /\ index' = [s \in Streams |-> 0]
  /\ UNCHANGED <<current, stage, rowVars, queueVars, closeVars, inHand>>

-----------------------------------------------------------------------------
(* writerThreadMain. *)
Swap ==
  /\ batch' = completed /\ completed' = {}
  /\ writer' = "writing"
  /\ UNCHANGED <<written, rowVars, nodeVars, closeVars, inHand>>

\* The predicate of wait_for, read under completed_rows_mutex_ ...
WriterProceeds ==
  /\ writer = "deciding"
  /\ shutdown \/ completed # {}
  /\ Swap

\* ... and found false; shutdown_requested_ may change before the writer sleeps.
WriterDozes ==
  /\ writer = "deciding"
  /\ ~shutdown /\ completed = {}
  /\ writer' = "sleepy"
  /\ UNCHANGED <<completed, batch, written, rowVars, nodeVars, closeVars, inHand>>

WriterSleeps ==
  /\ writer = "sleepy"
  /\ writer' = "asleep"
  /\ UNCHANGED <<completed, batch, written, rowVars, nodeVars, closeVars, inHand>>

\* Mutant: a plain wait, which no timeout ends.
WriterTimeout_Never == FALSE

\* kFlushInterval is over: wait_for returns whatever its predicate says.
WriterTimeout ==
  /\ writer = "asleep"
  /\ Swap

WriterWrites ==
  /\ writer = "writing"
  /\ written' = written \cup batch /\ batch' = {}
  /\ writer' = "checking"
  /\ UNCHANGED <<completed, rowVars, nodeVars, closeVars, inHand>>

\* The loop ends when the flag is up and nothing is queued at this moment.
WriterChecks ==
  /\ writer = "checking"
  /\ writer' = IF shutdown /\ completed = {} THEN "exited" ELSE "deciding"
  /\ UNCHANGED <<completed, batch, written, rowVars, nodeVars, closeVars, inHand>>

Writer == WriterProceeds \/ WriterDozes \/ WriterSleeps \/ WriterTimeout
            \/ WriterWrites \/ WriterChecks

-----------------------------------------------------------------------------
(* shutdown(), called by clean(). *)

\* It raises the flag and takes every pending row, under state_mutex_ ...
CloseBegin ==
  /\ closer = "open"
  /\ closer' = "flushing"
  /\ shutdown' = TRUE
  /\ toFlush' = pending
  /\ pending' = {}
  /\ final' = [r \in RowIds |-> IF r \in pending THEN Streams ELSE final[r]]
  /\ rowOf' = [s \in Streams |-> [i \in RowIds |-> NoRow]]
  /\ late' = pending \cup Held
  /\ UNCHANGED <<nextRow, frame, stamp, queueVars, nodeVars, inHand>>

\* ... and queues them one at a time, in the order of their ids.
CloseEnqueue(r) ==
  /\ closer = "flushing"
  /\ r \in toFlush /\ \A q \in toFlush : r <= q
  /\ Enqueue(r)
  /\ toFlush' = toFlush \ {r}
  /\ UNCHANGED <<closer, shutdown, late, rowVars, nodeVars, inHand>>

\* notify_all, whether or not the writer has gone to sleep yet.
CloseNotify ==
  /\ closer = "flushing" /\ toFlush = {}
  /\ closer' = "joining"
  /\ writer' = Notified
  /\ UNCHANGED <<shutdown, toFlush, late, completed, batch, written, rowVars, nodeVars, inHand>>

CloseJoin ==
  /\ closer = "joining" /\ writer = "exited"
  /\ closer' = "closed"
  /\ UNCHANGED <<shutdown, toFlush, late, rowVars, queueVars, nodeVars, inHand>>

Closer == CloseBegin \/ (\E r \in RowIds : CloseEnqueue(r)) \/ CloseNotify \/ CloseJoin

-----------------------------------------------------------------------------
FrameThread ==
  \/ \E S \in SUBSET Streams \ {{}} : RecordFrameSet(S)
  \/ PassOn
  \/ \E published \in BOOLEAN : DepthFinished(published)
  \/ FrameSetDone

ColorThread ==
  \E r \in RowIds :
    \/ \E published \in BOOLEAN : ColorFinished(r, published)
    \/ ColorPop(r)

Next ==
  \/ FrameThread
  \/ ColorThread
  \/ \E s \in Streams : HandOver(s)
  \/ Restart
  \/ Writer
  \/ Closer

Spec == Init /\ [][Next]_vars

(* The writer and the thread in shutdown() keep running and a timed wait ends;
   nothing else is assumed, neither frames nor that shutdown() is called.    *)
FairSpec ==
  /\ Spec
  /\ WF_vars(WriterProceeds) /\ WF_vars(WriterSleeps) /\ WF_vars(WriterTimeout)
  /\ WF_vars(WriterWrites) /\ WF_vars(WriterChecks)
  /\ WF_vars(\E r \in RowIds : CloseEnqueue(r))
  /\ WF_vars(CloseNotify) /\ WF_vars(CloseJoin)

-----------------------------------------------------------------------------
(* A row is at exactly one place: no thread drops it and none queues it twice,
   although it changes hands without a lock.                                 *)
RowInOnePlace ==
  /\ 1..(nextRow - 1) = pending \cup toFlush \cup Held \cup completed \cup batch \cup written
  /\ pending \cap (toFlush \cup Held \cup completed \cup batch \cup written) = {}
  /\ toFlush \cap (Held \cup completed \cup batch \cup written) = {}
  /\ Held \cap (completed \cup batch \cup written) = {}
  /\ completed \cap (batch \cup written) = {}
  /\ batch \cap written = {}
  /\ inHand["color"] # NoRow => inHand["color"] # inHand["depth"]

(* The publish time in a row is that of the row's own frame, although frames
   are looked up by an index that starts over with the pipeline and dropped
   frames leave their mappings behind.                                       *)
PublishedOwnFrame ==
  \A r \in RowIds, s \in Streams : stamp[r][s] \in {NoRow, r}

(* When the writer has left, every row that was queued before the shutdown is
   in the file: only rows still pending, or in a thread's hands, at the moment
   shutdown() raised the flag can be missing.                                *)
OnlyLateRowsAreLost ==
  writer = "exited" => completed \cup batch \subseteq late

(* The log as RowLog specifies it, although rows change hands between the two
   mutexes, indices start over under the rows that wait, and shutdown() comes at
   any moment: a row has its own frames' times, does not change once it is ready,
   and reaches the file unless it was not queued when shutdown() raised the flag. *)
Phase == IF closer = "open" THEN "open" ELSE
         IF writer # "exited" THEN "closing" ELSE
         IF closer # "closed" THEN "ended" ELSE "closed"
Log == INSTANCE RowLog WITH
         Rows <- RowIds, NoTime <- NoRow, open <- pending, ready <- toFlush \cup Held,
         queued <- completed \cup batch, file <- written, times <- stamp,
         phase <- Phase, excused <- late
LogPromise == Log!Spec

(* shutdown() returns, although it raises the flag without the mutex the writer
   reads it under, so that its notification may find nobody.                 *)
ShutdownReturns == closer = "flushing" ~> closer = "closed"

=============================================================================
