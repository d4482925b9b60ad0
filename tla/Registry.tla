---------------------------------- MODULE Registry ----------------------------------
(***************************************************************************)
(* Registry of dblog.go: Register and Open of goroutines that share one    *)
(* registry, DefaultRegistry as a rule.  Both log through the package's    *)
(* LoggerSlot once they have released the lock of the registry.            *)
(***************************************************************************)
EXTENDS LoggerSlot

CONSTANTS
  Drivers,     \* driver names, the empty name not among them
  NoDriver     \* what a nil backend or one with an empty name has

ASSUME NoDriverAssumption == NoDriver \notin Drivers

VARIABLES
  regWriter,   \* r.mu
  regReaders,
  regWaiting,
  backends,    \* r.backends: the goroutine that registered each driver
  found,       \* the local variable backend of Open
  known        \* history: what was registered when each call began

registryVars == <<regWriter, regReaders, regWaiting, backends, found, known>>

RegLock ==
  INSTANCE RWLock WITH writer <- regWriter, readers <- regReaders, waiting <- regWaiting

RegistryInit ==
  /\ RegLock!Init
  /\ backends = [d \in Drivers |-> Nil]
  /\ found = [p \in Procs |-> Nil]
  /\ known = [p \in Procs |-> {}]

Registered == {d \in Drivers : backends[d] # Nil}

(* A call of Register or Open.                                             *)
StartRegistryCall(p, first, d) ==
  /\ pc[p] = "idle"
  /\ Goto(p, first)
  /\ arg' = [arg EXCEPT ![p] = d]
  /\ known' = [known EXCEPT ![p] = Registered]
  /\ UNCHANGED <<slotVars, regWriter, regReaders, regWaiting, backends, found>>

(* Log.Logf(LevelDebug, ...), the last step of a call that goes well.      *)
StartLog(p) ==
  /\ Goto(p, "logf")
  /\ arg' = [arg EXCEPT ![p] = LevelDebug]
  /\ seen' = [seen EXCEPT ![p] = {CurrentLogger}]

(* ErrInvalidBackend, before the lock is asked for.                        *)
RejectBackend(p) ==
  /\ pc[p] = "register"
  /\ arg[p] = NoDriver
  /\ Goto(p, "idle")
  /\ UNCHANGED <<arg, slotVars, regWriter, regReaders, regWaiting, backends, found, known>>

RegisterAnnounce(p) ==
  /\ pc[p] = "register"
  /\ arg[p] # NoDriver
  /\ RegLock!Announce(p)
  /\ Goto(p, "registering")
  /\ UNCHANGED <<arg, slotVars, backends, found, known>>

RegisterLock(p) ==
  /\ pc[p] = "registering"
  /\ RegLock!Lock(p)
  /\ Goto(p, "check")
  /\ UNCHANGED <<arg, slotVars, backends, found, known>>

(* A plausible mistake in RegisterExists: the lock stays held.             *)
RegisterExistsLocked(p) ==
  /\ pc[p] = "check"
  /\ backends[arg[p]] # Nil
  /\ Goto(p, "idle")
  /\ UNCHANGED <<arg, slotVars, regWriter, regReaders, regWaiting, backends, found, known>>

(* ErrBackendExists                                                        *)
RegisterExists(p) ==
  /\ pc[p] = "check"
  /\ backends[arg[p]] # Nil
  /\ RegLock!Unlock(p)
  /\ Goto(p, "idle")
  /\ UNCHANGED <<arg, slotVars, backends, found, known>>

(* A plausible mistake in RegisterAbsent: the lock is released between the *)
(* look at the map and the insertion.                                      *)
RegisterAbsentUnlocked(p) ==
  /\ pc[p] = "check"
  /\ backends[arg[p]] = Nil
  /\ RegLock!Unlock(p)
  /\ Goto(p, "insert")
  /\ UNCHANGED <<arg, slotVars, backends, found, known>>

RegisterAbsent(p) ==
  /\ pc[p] = "check"
  /\ backends[arg[p]] = Nil
  /\ Goto(p, "insert")
  /\ UNCHANGED <<arg, slotVars, registryVars>>

(* The insertion, the unlock and the call of Log.Logf(LevelDebug, ...).    *)
RegisterInsert(p) ==
  /\ pc[p] = "insert"
  /\ backends' = [backends EXCEPT ![arg[p]] = p]
  /\ Goto(p, "unlock")
  /\ UNCHANGED <<arg, slotVars, regWriter, regReaders, regWaiting, found, known>>

RegisterUnlock(p) ==
  /\ pc[p] = "unlock"
  /\ RegLock!Unlock(p)
  /\ StartLog(p)
  /\ UNCHANGED <<slotWriter, slotReaders, slotWaiting, current, level, taken, printed,
                 backends, found, known>>

OpenLock(p) ==
  /\ pc[p] = "open"
  /\ RegLock!RLock(p)
  /\ Goto(p, "lookup")
  /\ UNCHANGED <<arg, slotVars, backends, found, known>>

(* A plausible mistake in OpenLookup: the driver is looked up unlocked     *)
(* and what was found by an earlier call is kept.                          *)
OpenLookupStale(p) ==
  /\ pc[p] = "lookup"
  /\ RegLock!RUnlock(p)
  /\ Goto(p, "found")
  /\ UNCHANGED <<arg, slotVars, backends, found, known>>

OpenLookup(p) ==
  /\ pc[p] = "lookup"
  /\ found' = [found EXCEPT ![p] = IF arg[p] = NoDriver THEN Nil ELSE backends[arg[p]]]
  /\ RegLock!RUnlock(p)
  /\ Goto(p, "found")
  /\ UNCHANGED <<arg, slotVars, backends, known>>

(* ErrBackendNotFound                                                      *)
OpenMissing(p) ==
  /\ pc[p] = "found"
  /\ found[p] = Nil
  /\ Goto(p, "idle")
  /\ UNCHANGED <<arg, slotVars, regWriter, regReaders, regWaiting, backends, found, known>>

(* backend.Open runs without any lock, after the debug record.             *)
OpenBackend(p) ==
  /\ pc[p] = "found"
  /\ found[p] # Nil
  /\ StartLog(p)
  /\ UNCHANGED <<slotWriter, slotReaders, slotWaiting, current, level, taken, printed,
                 regWriter, regReaders, regWaiting, backends, found, known>>

================================================================================
