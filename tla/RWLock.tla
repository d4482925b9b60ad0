---------------------------------- MODULE RWLock ----------------------------------
(***************************************************************************)
(* sync.RWMutex: one writer, or any number of readers.  A writer announces *)
(* itself and waits for the readers there are, while new ones wait for it. *)
(***************************************************************************)
VARIABLES
  writer,    \* the goroutines holding the lock for writing
  readers,   \* those holding it for reading
  waiting    \* the goroutine that announced itself and waits to write

Init == writer = {} /\ readers = {} /\ waiting = {}

(* Lock(), in two steps; other writers wait before the first.              *)
Announce(p) ==
  /\ writer = {}
  /\ waiting = {}
  /\ waiting' = {p}
  /\ UNCHANGED <<writer, readers>>

Lock(p) ==
  /\ p \in waiting
  /\ writer = {}
  /\ readers = {}
  /\ writer' = {p}
  /\ waiting' = waiting \ {p}
  /\ UNCHANGED readers

Unlock(p) == writer' = writer \ {p} /\ UNCHANGED <<readers, waiting>>

RLock(p) ==
  /\ writer = {}
  /\ waiting = {}
  /\ readers' = readers \cup {p}
  /\ UNCHANGED <<writer, waiting>>

RUnlock(p) == readers' = readers \ {p} /\ UNCHANGED <<writer, waiting>>

================================================================================
