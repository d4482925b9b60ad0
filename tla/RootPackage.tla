-------------------------------- MODULE RootPackage --------------------------------
(***************************************************************************)
(* The state the root package shares between goroutines: DefaultRegistry   *)
(* and the logger slot Log, under goroutines that register backends, open  *)
(* decoders, log, change the level and replace the logger at once.         *)
(***************************************************************************)
EXTENDS Registry

CONSTANT MaxCalls   \* bound on the calls the goroutines begin

ASSUME MaxCallsAssumption == MaxCalls \in Nat

VARIABLE calls

vars == <<pc, arg, slotVars, registryVars, calls>>

Init ==
  /\ pc = [p \in Procs |-> "idle"]
  /\ arg = [p \in Procs |-> Nil]
  /\ SlotInit
  /\ RegistryInit
  /\ calls = 0

BeginSlotCall(p) ==
  /\ \/ \E r \in {LevelDebug, LevelInfo} : StartSlotCall(p, "logf", r)
     \/ \E v \in Levels : StartSlotCall(p, "setlevel", v)
     \/ \E l \in Loggers \cup {Nil} : StartSlotCall(p, "swap", l)
  /\ UNCHANGED registryVars

BeginRegistryCall(p) ==
  \E d \in Drivers \cup {NoDriver} :
    StartRegistryCall(p, "register", d) \/ StartRegistryCall(p, "open", d)

Call(p) ==
  /\ calls < MaxCalls
  /\ calls' = calls + 1
  /\ BeginSlotCall(p) \/ BeginRegistryCall(p)

SlotStep(p) ==
  /\ \/ TakeLock(p, "logf", "read")
     \/ TakeLogger(p, "read", "emit")
     \/ Emit(p)
     \/ TakeLock(p, "setlevel", "readlevel")
     \/ TakeLogger(p, "readlevel", "level")
     \/ ApplyLevel(p)
     \/ SwapAnnounce(p)
     \/ SwapLock(p)
     \/ Swap(p)
  /\ UNCHANGED registryVars

RegistryStep(p) ==
  \/ RejectBackend(p)
  \/ RegisterAnnounce(p)
  \/ RegisterLock(p)
  \/ RegisterExists(p)
  \/ RegisterAbsent(p)
  \/ RegisterInsert(p)
  \/ RegisterUnlock(p)
  \/ OpenLock(p)
  \/ OpenLookup(p)
  \/ OpenMissing(p)
  \/ OpenBackend(p)

(* What a goroutine inside a call does next.                               *)
Step(p) == (SlotStep(p) \/ RegistryStep(p)) /\ UNCHANGED calls

(* The program makes no further call once MaxCalls are used up.            *)
Done ==
  /\ calls = MaxCalls
  /\ \A p \in Procs : pc[p] = "idle"
  /\ UNCHANGED vars

Next == Done \/ \E p \in Procs : Call(p) \/ Step(p)

(* A goroutine inside a call is scheduled, and a lock that stays free      *)
(* while it waits is given to it.                                          *)
Spec == Init /\ [][Next]_vars /\ \A p \in Procs : WF_vars(Step(p))

----------------------------------------------------------------------------

SlotPlaces ==
  {"logf", "read", "emit", "setlevel", "readlevel", "level", "swap", "swapping", "write"}

RegistryPlaces ==
  {"register", "registering", "check", "insert", "unlock", "open", "lookup", "found"}

FieldsOK ==
  /\ pc \in [Procs -> SlotPlaces \cup RegistryPlaces \cup {"idle"}]
  /\ arg \in [Procs -> Levels \cup Loggers \cup Drivers \cup {NoDriver, Nil}]
  /\ current \in AllLoggers
  /\ level \in [AllLoggers -> Levels]
  /\ taken \in [Procs -> AllLoggers \cup {Nil}]
  /\ printed \in [AllLoggers -> SUBSET (Procs \X Levels)]
  /\ seen \in [Procs -> SUBSET AllLoggers]
  /\ backends \in [Drivers -> Procs \cup {Nil}]
  /\ found \in [Procs -> Procs \cup {Nil}]
  /\ known \in [Procs -> SUBSET Drivers]
  /\ calls \in 0..MaxCalls

LocksHeld ==
  /\ slotWriter \cup slotReaders \cup slotWaiting \subseteq Procs
  /\ regWriter \cup regReaders \cup regWaiting \subseteq Procs
  /\ \A p \in Procs :
       /\ p \in slotWriter  <=> pc[p] = "write"
       /\ p \in slotWaiting <=> pc[p] = "swapping"
       /\ p \in slotReaders <=> pc[p] \in {"read", "readlevel"}
       /\ p \in regWriter   <=> pc[p] \in {"check", "insert", "unlock"}
       /\ p \in regWaiting  <=> pc[p] = "registering"
       /\ p \in regReaders  <=> pc[p] = "lookup"

(* Registry and LoggerSlot: the types of their fields and of the locals of *)
(* a call.  A goroutine holds a lock exactly where the code stands between *)
(* taking it and releasing it.                                             *)
TypeOK == FieldsOK /\ LocksHeld

(* Register: of goroutines that register the same driver at once one wins  *)
(* and the others get ErrBackendExists; a registered backend is never      *)
(* replaced, whatever runs between the look at the map and the insertion.  *)
NeverReplaced ==
  [][\A d \in Drivers : backends[d] # Nil => backends'[d] = backends[d]]_backends

(* Open: ErrBackendNotFound is returned only for a driver that was not     *)
(* registered when the call began.                                         *)
OpenFindsRegistered ==
  \A p \in Procs : pc[p] = "found" /\ found[p] = Nil => arg[p] \notin known[p]

(* LoggerSlot.Logf: a record reaches a logger that was current at some     *)
(* time during its call, although the slot is unlocked before the logger   *)
(* is used: SetLogger never makes records of later calls reach the old one.*)
PrintedWhereCurrent ==
  [][\A l \in AllLoggers : \A record \in printed'[l] \ printed[l] : l \in seen[record[1]]]_printed

(* Every call of the registry and of the slot returns: no path leaves a    *)
(* lock held, and none asks for a lock while it holds one another waits    *)
(* for, where a reader waits for the writers that wait.                    *)
CallsReturn == \A p \in Procs : pc[p] # "idle" ~> pc[p] = "idle"

================================================================================
