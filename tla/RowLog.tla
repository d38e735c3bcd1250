------------------------------ MODULE RowLog ------------------------------
(* What the frame timestamp log promises the node that fills it and whoever
   reads the file.  A row is open while publish times are added, ready when no
   more will be, queued, and at last in the file; it moves one way, and only an
   open row changes.  When the log is closed the open rows become ready as they
   are.  A row that was queued by then is in the file in the end, one that was
   not may be missing: it is excused.                                        *)
CONSTANTS
  Rows,       \* a row is named for the frame set it was opened for
  Streams,    \* whose publish times it has
  NoTime      \* no publish time

VARIABLES
  open, ready, queued, file,   \* the rows, by how far they have come
  times,      \* times[r][s]: the frame set whose publish time row r has for s
  phase,      \* "open", "closing", "ended" (nothing is written any more), "closed"
  excused     \* the rows that were not queued when the log was closed

places == <<open, ready, queued, file>>
log == <<places, times, phase, excused>>

Init ==
  /\ open = {} /\ ready = {} /\ queued = {} /\ file = {} /\ excused = {}
  /\ times = [r \in Rows |-> [s \in Streams |-> NoTime]]
  /\ phase = "open"

Open(r) ==
  /\ phase = "open" /\ r \notin open \cup ready \cup queued \cup file
  /\ open' = open \cup {r}
  /\ UNCHANGED <<ready, queued, file, times, phase, excused>>

MoveOn(r) == open' = open \ {r} /\ ready' = ready \cup {r}

\* a frame of the row's own set is published or skipped: it may be the last one
Publish(r, s) ==
  /\ phase = "open" /\ r \in open
  /\ \/ UNCHANGED times
     \/ times[r][s] = NoTime /\ times' = [times EXCEPT ![r][s] = r]
  /\ MoveOn(r) \/ UNCHANGED <<open, ready>>
  /\ UNCHANGED <<queued, file, phase, excused>>

Queue(r) ==
  /\ r \in ready
  /\ ready' = ready \ {r} /\ queued' = queued \cup {r}
  /\ UNCHANGED <<open, file, times, phase, excused>>

Write(R) ==
  /\ phase \in {"open", "closing"} /\ R \subseteq queued
  /\ queued' = queued \ R /\ file' = file \cup R
  /\ UNCHANGED <<open, ready, times, phase, excused>>

Close ==
  /\ phase = "open" /\ phase' = "closing"
  /\ excused' = open \cup ready
  /\ open' = {} /\ ready' = ready \cup open
  /\ UNCHANGED <<queued, file, times>>

\* everything that is queued at this moment has been written
End ==
  /\ phase = "closing" /\ queued = {} /\ phase' = "ended"
  /\ UNCHANGED <<places, times, excused>>

Return ==
  /\ phase = "ended" /\ phase' = "closed"
  /\ UNCHANGED <<places, times, excused>>

Next ==
  \/ \E r \in Rows : Open(r) \/ Queue(r) \/ \E s \in Streams : Publish(r, s)
  \/ \E R \in SUBSET queued : Write(R)
  \/ Close \/ End \/ Return

Spec == Init /\ [][Next]_log
=============================================================================
