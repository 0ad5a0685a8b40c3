--------------------------- MODULE AbstractRwLock ---------------------------
(***************************************************************************)
(* What tb-rwlock.c promises: readers share the lock, a writer has it      *)
(* alone, and writers come first, in that nobody begins to read while a    *)
(* writer is queued.  Which of the queued writers is next, and whether one *)
(* that has just come overtakes them, is left open.                        *)
(***************************************************************************)
CONSTANT Threads

VARIABLES
  reading, writing,  (* the threads between a successful lock and its unlock *)
  queue              (* the writers that found the lock taken                *)

vars == <<reading, writing, queue>>

Init == reading = {} /\ writing = {} /\ queue = {}

Free == reading = {} /\ writing = {}

Outside(t) == t \notin reading \cup writing \cup queue

Read(t) ==
  /\ Outside(t)
  /\ writing = {} /\ queue = {}
  /\ reading' = reading \cup {t}
  /\ UNCHANGED <<writing, queue>>

Queue(t) ==
  /\ Outside(t)
  /\ ~Free
  /\ queue' = queue \cup {t}
  /\ UNCHANGED <<reading, writing>>

Write(t) ==
  /\ Free
  /\ writing' = {t}
  /\ queue' = queue \ {t}
  /\ UNCHANGED reading

Release(t) ==
  /\ t \in reading \cup writing
  /\ reading' = reading \ {t}
  /\ writing' = writing \ {t}
  /\ UNCHANGED queue

Next == \E t \in Threads : Read(t) \/ Queue(t) \/ Write(t) \/ Release(t)

Spec == Init /\ [][Next]_vars
=============================================================================
