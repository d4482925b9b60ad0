---------------------------- MODULE Registries_proofs ----------------------------
(***************************************************************************)
(* Theorems about the two registries of the program.  Of RootPackage: its  *)
(* types, the promises of the registry of backends and those of the logger *)
(* slot, for any goroutines, drivers, loggers and calls.  Of EventRegistry: *)
(* its types, BodiesStay and PluginsWhole, for every set of types, bodies, *)
(* plugins and decoders.                                                   *)
(***************************************************************************)
EXTENDS RootPackage, EventRegistry, TLAPS


(* What the argument and the logger of a call are where they are used.     *)
ArgInv ==
  \A p \in Procs :
    /\ pc[p] \in {"logf", "read", "emit", "setlevel", "readlevel", "level"} => arg[p] \in Levels
    /\ pc[p] \in {"swap", "swapping", "write"} => arg[p] \in Loggers \cup {Nil}
    /\ pc[p] \in {"register", "open", "lookup", "found"} => arg[p] \in Drivers \cup {NoDriver}
    /\ pc[p] \in {"registering", "check", "insert", "unlock"} => arg[p] \in Drivers
    /\ pc[p] \in {"emit", "level"} => taken[p] \in AllLoggers

(* r.mu: one goroutine is past Lock() and before Unlock().                 *)
WriterInv == \A p, q \in regWriter : p = q

(* A goroutine about to insert a driver still sees that it is absent.      *)
AbsentInv == \A p \in Procs : pc[p] = "insert" => backends[arg[p]] = Nil

(* What was registered when a call began is registered now.                *)
KnownInv == \A p \in Procs : known[p] \subseteq Registered

(* The logger a call of Logf takes or has taken was current since it began. *)
SeenInv ==
  \A p \in Procs :
    /\ pc[p] \in {"logf", "read"} => CurrentLogger \in seen[p]
    /\ pc[p] = "emit" => taken[p] \in seen[p]

IInv ==
  /\ TypeOK
  /\ ArgInv
  /\ WriterInv
  /\ AbsentInv
  /\ KnownInv
  /\ SeenInv
  /\ OpenFindsRegistered

LEMMA InitIInv == Init => IInv
<1> SUFFICES ASSUME Init PROVE IInv
  OBVIOUS
<1>. USE MaxCallsAssumption DEF Init, SlotInit, RegistryInit, SlotLock!Init, RegLock!Init
<1>1. FieldsOK
  BY DEF FieldsOK, AllLoggers, Levels, LevelInfo, LevelDebug, LevelOff
<1>2. LocksHeld
  BY DEF LocksHeld
<1>3. ArgInv /\ AbsentInv /\ SeenInv /\ OpenFindsRegistered
  BY DEF ArgInv, AbsentInv, SeenInv, OpenFindsRegistered
<1>4. WriterInv /\ KnownInv
  BY DEF WriterInv, KnownInv
<1>. QED
  BY <1>1, <1>2, <1>3, <1>4 DEF IInv, TypeOK

-------------------------------------------------------------------------------------

(* A call of Logf, SetLevel or SetLogger begins with the argument it is    *)
(* given: the invariant is kept.                                           *)
LEMMA SlotCallIInv ==
  ASSUME IInv, NEW p \in Procs, NEW first \in {"logf", "setlevel", "swap"},
         NEW a \in Levels \cup Loggers \cup {Nil},
         first \in {"logf", "setlevel"} => a \in Levels,
         first = "swap" => a \in Loggers \cup {Nil},
         StartSlotCall(p, first, a), UNCHANGED registryVars, calls' \in 0..MaxCalls
  PROVE  IInv'
<1>. USE DEF Goto
<1>1. FieldsOK'
  BY DEF IInv, TypeOK, FieldsOK, StartSlotCall, registryVars,
     SlotPlaces, RegistryPlaces, CurrentLogger, AllLoggers
<1>2. LocksHeld'
  BY DEF IInv, TypeOK, FieldsOK, LocksHeld, StartSlotCall, registryVars
<1>3. ArgInv' /\ AbsentInv' /\ SeenInv'
  BY DEF IInv, TypeOK, FieldsOK, ArgInv, AbsentInv, SeenInv, StartSlotCall,
     registryVars, CurrentLogger
<1>4. WriterInv' /\ KnownInv' /\ OpenFindsRegistered'
  BY DEF IInv, TypeOK, FieldsOK, WriterInv, KnownInv, Registered,
     OpenFindsRegistered, StartSlotCall, registryVars
<1>. QED
  BY <1>1, <1>2, <1>3, <1>4 DEF IInv, TypeOK

(* A call of Register or Open begins and notes what is registered: the     *)
(* invariant is kept.                                                      *)
LEMMA RegistryCallIInv ==
  ASSUME IInv, NEW p \in Procs, NEW first \in {"register", "open"},
         NEW d \in Drivers \cup {NoDriver},
         StartRegistryCall(p, first, d), calls' \in 0..MaxCalls
  PROVE  IInv'
<1>. USE DEF Goto
<1>1. FieldsOK'
  BY DEF IInv, TypeOK, FieldsOK, StartRegistryCall, slotVars, Registered,
     SlotPlaces, RegistryPlaces
<1>2. LocksHeld'
  BY DEF IInv, TypeOK, FieldsOK, LocksHeld, StartRegistryCall, slotVars
<1>3. ArgInv' /\ AbsentInv' /\ SeenInv'
  BY DEF IInv, TypeOK, FieldsOK, ArgInv, AbsentInv, SeenInv, StartRegistryCall,
     slotVars, CurrentLogger
<1>4. WriterInv' /\ KnownInv' /\ OpenFindsRegistered'
  BY DEF IInv, TypeOK, FieldsOK, WriterInv, KnownInv, Registered,
     OpenFindsRegistered, StartRegistryCall, slotVars
<1>. QED
  BY <1>1, <1>2, <1>3, <1>4 DEF IInv, TypeOK

(* Whichever call begins, the invariant is kept.                           *)
LEMMA CallIInv == ASSUME IInv, NEW p \in Procs, Call(p) PROVE IInv'
<1>1. calls' \in 0..MaxCalls
  BY MaxCallsAssumption DEF IInv, TypeOK, FieldsOK, Call
<1>2. CASE BeginSlotCall(p)
  <2>1. UNCHANGED registryVars
    BY <1>2 DEF BeginSlotCall
  <2>2. CASE \E r \in {LevelDebug, LevelInfo} : StartSlotCall(p, "logf", r)
    <3>1. {LevelDebug, LevelInfo} \subseteq Levels
      BY DEF Levels, LevelDebug, LevelInfo, LevelOff
    <3>. QED
      BY <1>1, <2>1, <2>2, <3>1, SlotCallIInv
  <2>3. CASE \E v \in Levels : StartSlotCall(p, "setlevel", v)
    BY <1>1, <2>1, <2>3, SlotCallIInv
  <2>4. CASE \E l \in Loggers \cup {Nil} : StartSlotCall(p, "swap", l)
    BY <1>1, <2>1, <2>4, SlotCallIInv
  <2>. QED
    BY <1>2, <2>2, <2>3, <2>4 DEF BeginSlotCall
<1>3. CASE BeginRegistryCall(p)
  BY <1>1, <1>3, RegistryCallIInv DEF BeginRegistryCall
<1>. QED
  BY <1>2, <1>3 DEF Call

-------------------------------------------------------------------------------------

(* GetLogger gets the lock of the slot for reading: the invariant is kept.  *)
LEMMA TakeLockIInv ==
  ASSUME IInv, NEW p \in Procs, NEW first, NEW next,
         <<first, next>> \in {<<"logf", "read">>, <<"setlevel", "readlevel">>},
         TakeLock(p, first, next), UNCHANGED <<registryVars, calls>>
  PROVE  IInv'
<1>1. FieldsOK'
  BY DEF IInv, TypeOK, FieldsOK, SlotPlaces, RegistryPlaces, TakeLock, Goto,
     registryVars
<1>2. LocksHeld'
  BY DEF IInv, TypeOK, FieldsOK, LocksHeld, TakeLock, Goto, registryVars,
     SlotLock!RLock
<1>3. ArgInv' /\ AbsentInv'
  BY DEF IInv, TypeOK, FieldsOK, ArgInv, AbsentInv, TakeLock, Goto, registryVars
<1>4. SeenInv'
  BY DEF IInv, TypeOK, FieldsOK, SeenInv, CurrentLogger, TakeLock, Goto,
     registryVars
<1>5. WriterInv' /\ KnownInv' /\ OpenFindsRegistered'
  BY DEF IInv, TypeOK, FieldsOK, WriterInv, KnownInv, Registered,
     OpenFindsRegistered, TakeLock, Goto, registryVars, SlotLock!RLock
<1>. QED
  BY <1>1, <1>2, <1>3, <1>4, <1>5 DEF IInv, TypeOK

(* GetLogger returns the current logger, which the call has seen.          *)
LEMMA TakeLoggerIInv ==
  ASSUME IInv, NEW p \in Procs, NEW first, NEW next,
         <<first, next>> \in {<<"read", "emit">>, <<"readlevel", "level">>},
         TakeLogger(p, first, next), UNCHANGED <<registryVars, calls>>
  PROVE  IInv'
<1>1. FieldsOK'
  BY DEF IInv, TypeOK, FieldsOK, SlotPlaces, RegistryPlaces, TakeLogger, Goto,
     registryVars, CurrentLogger, AllLoggers
<1>2. LocksHeld'
  BY DEF IInv, TypeOK, FieldsOK, LocksHeld, TakeLogger, Goto, registryVars,
     SlotLock!RUnlock
<1>3. ArgInv' /\ AbsentInv'
  BY DEF IInv, TypeOK, FieldsOK, ArgInv, AbsentInv, TakeLogger, Goto, registryVars,
     CurrentLogger, AllLoggers
<1>4. SeenInv'
  BY DEF IInv, TypeOK, FieldsOK, SeenInv, CurrentLogger, TakeLogger, Goto,
     registryVars
<1>5. WriterInv' /\ KnownInv' /\ OpenFindsRegistered'
  BY DEF IInv, TypeOK, FieldsOK, WriterInv, KnownInv, Registered,
     OpenFindsRegistered, TakeLogger, Goto, registryVars
<1>. QED
  BY <1>1, <1>2, <1>3, <1>4, <1>5 DEF IInv, TypeOK

(* Logf writes its record with the logger it took.                         *)
LEMMA EmitIInv ==
  ASSUME IInv, NEW p \in Procs, Emit(p), UNCHANGED <<registryVars, calls>>
  PROVE  IInv'
<1>1. FieldsOK'
  BY DEF IInv, TypeOK, FieldsOK, SlotPlaces, RegistryPlaces, Emit, Goto,
     registryVars, ArgInv, AllLoggers
<1>2. LocksHeld'
  BY DEF IInv, TypeOK, FieldsOK, LocksHeld, Emit, Goto, registryVars
<1>3. ArgInv' /\ AbsentInv'
  BY DEF IInv, TypeOK, FieldsOK, ArgInv, AbsentInv, Emit, Goto, registryVars
<1>4. SeenInv'
  BY DEF IInv, TypeOK, FieldsOK, SeenInv, CurrentLogger, Emit, Goto, registryVars
<1>5. WriterInv' /\ KnownInv' /\ OpenFindsRegistered'
  BY DEF IInv, TypeOK, FieldsOK, WriterInv, KnownInv, Registered,
     OpenFindsRegistered, Emit, Goto, registryVars
<1>. QED
  BY <1>1, <1>2, <1>3, <1>4, <1>5 DEF IInv, TypeOK

(* SetLevel changes the level of the logger it took.                       *)
LEMMA ApplyLevelIInv ==
  ASSUME IInv, NEW p \in Procs, ApplyLevel(p), UNCHANGED <<registryVars, calls>>
  PROVE  IInv'
<1>1. FieldsOK'
  BY DEF IInv, TypeOK, FieldsOK, SlotPlaces, RegistryPlaces, ApplyLevel, Goto,
     registryVars, ArgInv
<1>2. LocksHeld'
  BY DEF IInv, TypeOK, FieldsOK, LocksHeld, ApplyLevel, Goto, registryVars
<1>3. ArgInv' /\ AbsentInv'
  BY DEF IInv, TypeOK, FieldsOK, ArgInv, AbsentInv, ApplyLevel, Goto, registryVars
<1>4. SeenInv'
  BY DEF IInv, TypeOK, FieldsOK, SeenInv, CurrentLogger, ApplyLevel, Goto,
     registryVars
<1>5. WriterInv' /\ KnownInv' /\ OpenFindsRegistered'
  BY DEF IInv, TypeOK, FieldsOK, WriterInv, KnownInv, Registered,
     OpenFindsRegistered, ApplyLevel, Goto, registryVars
<1>. QED
  BY <1>1, <1>2, <1>3, <1>4, <1>5 DEF IInv, TypeOK

(* SetLogger waits for the readers of the slot.                            *)
LEMMA SwapAnnounceIInv ==
  ASSUME IInv, NEW p \in Procs, SwapAnnounce(p), UNCHANGED <<registryVars, calls>>
  PROVE  IInv'
<1>1. FieldsOK'
  BY DEF IInv, TypeOK, FieldsOK, SlotPlaces, RegistryPlaces, SwapAnnounce, Goto, registryVars
<1>2. LocksHeld'
  BY DEF IInv, TypeOK, FieldsOK, LocksHeld, SwapAnnounce, Goto, registryVars, SlotLock!Announce
<1>3. ArgInv' /\ AbsentInv'
  BY DEF IInv, TypeOK, FieldsOK, ArgInv, AbsentInv, SwapAnnounce, Goto, registryVars
<1>4. SeenInv'
  BY DEF IInv, TypeOK, FieldsOK, SeenInv, CurrentLogger, SwapAnnounce, Goto, registryVars
<1>5. WriterInv' /\ KnownInv' /\ OpenFindsRegistered'
  BY DEF IInv, TypeOK, FieldsOK, WriterInv, KnownInv, Registered,
     OpenFindsRegistered, SwapAnnounce, Goto, registryVars, SlotLock!Announce
<1>. QED
  BY <1>1, <1>2, <1>3, <1>4, <1>5 DEF IInv, TypeOK

(* SetLogger gets the lock of the slot: nobody else holds it.              *)
LEMMA SwapLockIInv ==
  ASSUME IInv, NEW p \in Procs, SwapLock(p), UNCHANGED <<registryVars, calls>>
  PROVE  IInv'
<1>1. FieldsOK'
  BY DEF IInv, TypeOK, FieldsOK, SlotPlaces, RegistryPlaces, SwapLock, Goto,
     registryVars
<1>2. LocksHeld'
  BY DEF IInv, TypeOK, FieldsOK, LocksHeld, SwapLock, Goto, registryVars,
     SlotLock!Lock
<1>3. ArgInv' /\ AbsentInv'
  BY DEF IInv, TypeOK, FieldsOK, ArgInv, AbsentInv, SwapLock, Goto, registryVars
<1>4. SeenInv'
  BY DEF IInv, TypeOK, FieldsOK, SeenInv, CurrentLogger, SwapLock, Goto,
     registryVars
<1>5. WriterInv' /\ KnownInv' /\ OpenFindsRegistered'
  BY DEF IInv, TypeOK, FieldsOK, WriterInv, KnownInv, Registered,
     OpenFindsRegistered, SwapLock, Goto, registryVars
<1>. QED
  BY <1>1, <1>2, <1>3, <1>4, <1>5 DEF IInv, TypeOK

(* SetLogger stores a logger, which every call that has begun has seen.    *)
LEMMA SwapIInv ==
  ASSUME IInv, NEW p \in Procs, Swap(p), UNCHANGED <<registryVars, calls>>
  PROVE  IInv'
<1>1. FieldsOK'
  BY DEF IInv, TypeOK, FieldsOK, SlotPlaces, RegistryPlaces, Swap, Goto,
     registryVars, ArgInv, AllLoggers, Observe, CurrentLogger
<1>2. LocksHeld'
  BY DEF IInv, TypeOK, FieldsOK, LocksHeld, Swap, Goto, registryVars,
     SlotLock!Unlock
<1>3. ArgInv' /\ AbsentInv'
  BY DEF IInv, TypeOK, FieldsOK, ArgInv, AbsentInv, Swap, Goto, registryVars
<1>4. SeenInv'
  BY DEF IInv, TypeOK, FieldsOK, SeenInv, CurrentLogger, Swap, Goto, registryVars,
     Observe
<1>5. WriterInv' /\ KnownInv' /\ OpenFindsRegistered'
  BY DEF IInv, TypeOK, FieldsOK, WriterInv, KnownInv, Registered,
     OpenFindsRegistered, Swap, Goto, registryVars
<1>. QED
  BY <1>1, <1>2, <1>3, <1>4, <1>5 DEF IInv, TypeOK

-------------------------------------------------------------------------------------

(* Register returns ErrInvalidBackend without having locked anything.      *)
LEMMA RejectBackendIInv ==
  ASSUME IInv, NEW p \in Procs, RejectBackend(p), UNCHANGED calls
  PROVE  IInv'
<1>1. FieldsOK'
  BY DEF IInv, TypeOK, FieldsOK, SlotPlaces, RegistryPlaces, RejectBackend, Goto,
     slotVars
<1>2. LocksHeld'
  BY DEF IInv, TypeOK, FieldsOK, LocksHeld, RejectBackend, Goto, slotVars
<1>3. ArgInv' /\ AbsentInv'
  BY DEF IInv, TypeOK, FieldsOK, ArgInv, AbsentInv, RejectBackend, Goto, slotVars
<1>4. SeenInv'
  BY DEF IInv, TypeOK, FieldsOK, SeenInv, CurrentLogger, RejectBackend, Goto,
     slotVars
<1>5. WriterInv' /\ KnownInv' /\ OpenFindsRegistered'
  BY DEF IInv, TypeOK, FieldsOK, WriterInv, KnownInv, Registered,
     OpenFindsRegistered, RejectBackend, Goto, slotVars
<1>. QED
  BY <1>1, <1>2, <1>3, <1>4, <1>5 DEF IInv, TypeOK

(* Register waits for the readers of the registry, its driver being named. *)
LEMMA RegisterAnnounceIInv ==
  ASSUME IInv, NEW p \in Procs, RegisterAnnounce(p), UNCHANGED calls
  PROVE  IInv'
<1>1. FieldsOK'
  BY DEF IInv, TypeOK, FieldsOK, SlotPlaces, RegistryPlaces, RegisterAnnounce, Goto, slotVars
<1>2. LocksHeld'
  BY DEF IInv, TypeOK, FieldsOK, LocksHeld, RegisterAnnounce, Goto, slotVars, RegLock!Announce
<1>3. ArgInv' /\ AbsentInv'
  BY DEF IInv, TypeOK, FieldsOK, ArgInv, AbsentInv, RegisterAnnounce, Goto, slotVars
<1>4. SeenInv'
  BY DEF IInv, TypeOK, FieldsOK, SeenInv, CurrentLogger, RegisterAnnounce, Goto, slotVars
<1>5. WriterInv' /\ KnownInv' /\ OpenFindsRegistered'
  BY DEF IInv, TypeOK, FieldsOK, WriterInv, KnownInv, Registered,
     OpenFindsRegistered, RegisterAnnounce, Goto, slotVars, RegLock!Announce
<1>. QED
  BY <1>1, <1>2, <1>3, <1>4, <1>5 DEF IInv, TypeOK

(* Register gets the lock of the registry: nobody else holds it.           *)
LEMMA RegisterLockIInv ==
  ASSUME IInv, NEW p \in Procs, RegisterLock(p), UNCHANGED calls
  PROVE  IInv'
<1>1. FieldsOK'
  BY DEF IInv, TypeOK, FieldsOK, SlotPlaces, RegistryPlaces, RegisterLock, Goto,
     slotVars
<1>2. LocksHeld'
  BY DEF IInv, TypeOK, FieldsOK, LocksHeld, RegisterLock, Goto, slotVars,
     RegLock!Lock
<1>3. ArgInv' /\ AbsentInv'
  BY DEF IInv, TypeOK, FieldsOK, ArgInv, AbsentInv, RegisterLock, Goto, slotVars
<1>4. SeenInv'
  BY DEF IInv, TypeOK, FieldsOK, SeenInv, CurrentLogger, RegisterLock, Goto,
     slotVars
<1>5. WriterInv' /\ KnownInv' /\ OpenFindsRegistered'
  BY DEF IInv, TypeOK, FieldsOK, WriterInv, KnownInv, Registered,
     OpenFindsRegistered, RegisterLock, Goto, slotVars, RegLock!Lock
<1>. QED
  BY <1>1, <1>2, <1>3, <1>4, <1>5 DEF IInv, TypeOK

(* Register returns ErrBackendExists and releases the lock.                *)
LEMMA RegisterExistsIInv ==
  ASSUME IInv, NEW p \in Procs, RegisterExists(p), UNCHANGED calls
  PROVE  IInv'
<1>1. FieldsOK'
  BY DEF IInv, TypeOK, FieldsOK, SlotPlaces, RegistryPlaces, RegisterExists, Goto,
     slotVars
<1>2. LocksHeld'
  BY DEF IInv, TypeOK, FieldsOK, LocksHeld, RegisterExists, Goto, slotVars,
     RegLock!Unlock
<1>3. ArgInv' /\ AbsentInv'
  BY DEF IInv, TypeOK, FieldsOK, ArgInv, AbsentInv, RegisterExists, Goto, slotVars
<1>4. SeenInv'
  BY DEF IInv, TypeOK, FieldsOK, SeenInv, CurrentLogger, RegisterExists, Goto,
     slotVars
<1>5. WriterInv' /\ KnownInv' /\ OpenFindsRegistered'
  BY DEF IInv, TypeOK, FieldsOK, WriterInv, KnownInv, Registered,
     OpenFindsRegistered, RegisterExists, Goto, slotVars, RegLock!Unlock
<1>. QED
  BY <1>1, <1>2, <1>3, <1>4, <1>5 DEF IInv, TypeOK

(* Register has found the driver absent.                                   *)
LEMMA RegisterAbsentIInv ==
  ASSUME IInv, NEW p \in Procs, RegisterAbsent(p), UNCHANGED calls
  PROVE  IInv'
<1>1. FieldsOK'
  BY DEF IInv, TypeOK, FieldsOK, SlotPlaces, RegistryPlaces, RegisterAbsent, Goto,
     slotVars, registryVars
<1>2. LocksHeld'
  BY DEF IInv, TypeOK, FieldsOK, LocksHeld, RegisterAbsent, Goto, slotVars,
     registryVars
<1>3. ArgInv' /\ AbsentInv'
  BY DEF IInv, TypeOK, FieldsOK, ArgInv, AbsentInv, RegisterAbsent, Goto, slotVars,
     registryVars
<1>4. SeenInv'
  BY DEF IInv, TypeOK, FieldsOK, SeenInv, CurrentLogger, RegisterAbsent, Goto,
     slotVars, registryVars
<1>5. WriterInv' /\ KnownInv' /\ OpenFindsRegistered'
  BY DEF IInv, TypeOK, FieldsOK, WriterInv, KnownInv, Registered,
     OpenFindsRegistered, RegisterAbsent, Goto, slotVars, registryVars
<1>. QED
  BY <1>1, <1>2, <1>3, <1>4, <1>5 DEF IInv, TypeOK

(* Register inserts the backend: no other goroutine is between its look    *)
(* at the map and its insertion, because both would hold the lock.         *)
LEMMA RegisterInsertIInv ==
  ASSUME IInv, NEW p \in Procs, RegisterInsert(p), UNCHANGED calls
  PROVE  IInv'
<1>1. FieldsOK'
  BY DEF IInv, TypeOK, FieldsOK, SlotPlaces, RegistryPlaces, RegisterInsert, Goto,
     slotVars
<1>2. LocksHeld'
  BY DEF IInv, TypeOK, FieldsOK, LocksHeld, RegisterInsert, Goto, slotVars
<1>3. ArgInv' /\ AbsentInv'
  BY DEF IInv, TypeOK, FieldsOK, ArgInv, AbsentInv, RegisterInsert, Goto, slotVars,
     LocksHeld, WriterInv
<1>4. SeenInv'
  BY DEF IInv, TypeOK, FieldsOK, SeenInv, CurrentLogger, RegisterInsert, Goto,
     slotVars
<1>5. WriterInv' /\ KnownInv' /\ OpenFindsRegistered'
  BY ProcsAssumption DEF IInv, TypeOK, FieldsOK, WriterInv, KnownInv, Registered,
     OpenFindsRegistered, RegisterInsert, Goto, slotVars, ArgInv
<1>. QED
  BY <1>1, <1>2, <1>3, <1>4, <1>5 DEF IInv, TypeOK

(* Register releases the lock and calls Log.Logf.                          *)
LEMMA RegisterUnlockIInv ==
  ASSUME IInv, NEW p \in Procs, RegisterUnlock(p), UNCHANGED calls
  PROVE  IInv'
<1>1. FieldsOK'
  BY DEF IInv, TypeOK, FieldsOK, SlotPlaces, RegistryPlaces, RegisterUnlock, Goto,
     slotVars, Levels, LevelDebug, LevelInfo, LevelOff, CurrentLogger,
     AllLoggers, StartLog
<1>2. LocksHeld'
  BY DEF IInv, TypeOK, FieldsOK, LocksHeld, RegisterUnlock, Goto, slotVars,
     RegLock!Unlock, StartLog
<1>3. ArgInv' /\ AbsentInv'
  BY DEF IInv, TypeOK, FieldsOK, ArgInv, AbsentInv, RegisterUnlock, Goto, slotVars,
     Levels, LevelDebug, LevelInfo, LevelOff, StartLog
<1>4. SeenInv'
  BY DEF IInv, TypeOK, FieldsOK, SeenInv, CurrentLogger, RegisterUnlock, Goto,
     slotVars, StartLog
<1>5. WriterInv' /\ KnownInv' /\ OpenFindsRegistered'
  BY DEF IInv, TypeOK, FieldsOK, WriterInv, KnownInv, Registered,
     OpenFindsRegistered, RegisterUnlock, Goto, slotVars, RegLock!Unlock,
     StartLog
<1>. QED
  BY <1>1, <1>2, <1>3, <1>4, <1>5 DEF IInv, TypeOK

(* Open gets the lock of the registry for reading.                         *)
LEMMA OpenLockIInv ==
  ASSUME IInv, NEW p \in Procs, OpenLock(p), UNCHANGED calls
  PROVE  IInv'
<1>1. FieldsOK'
  BY DEF IInv, TypeOK, FieldsOK, SlotPlaces, RegistryPlaces, OpenLock, Goto,
     slotVars
<1>2. LocksHeld'
  BY DEF IInv, TypeOK, FieldsOK, LocksHeld, OpenLock, Goto, slotVars, RegLock!RLock
<1>3. ArgInv' /\ AbsentInv'
  BY DEF IInv, TypeOK, FieldsOK, ArgInv, AbsentInv, OpenLock, Goto, slotVars
<1>4. SeenInv'
  BY DEF IInv, TypeOK, FieldsOK, SeenInv, CurrentLogger, OpenLock, Goto, slotVars
<1>5. WriterInv' /\ KnownInv' /\ OpenFindsRegistered'
  BY DEF IInv, TypeOK, FieldsOK, WriterInv, KnownInv, Registered,
     OpenFindsRegistered, OpenLock, Goto, slotVars, RegLock!RLock
<1>. QED
  BY <1>1, <1>2, <1>3, <1>4, <1>5 DEF IInv, TypeOK

(* Open looks the driver up: what the map lacks now, it lacked when the    *)
(* call began.                                                             *)
LEMMA OpenLookupIInv ==
  ASSUME IInv, NEW p \in Procs, OpenLookup(p), UNCHANGED calls
  PROVE  IInv'
<1>1. FieldsOK'
  BY DEF IInv, TypeOK, FieldsOK, SlotPlaces, RegistryPlaces, OpenLookup, Goto,
     slotVars, ArgInv
<1>2. LocksHeld'
  BY DEF IInv, TypeOK, FieldsOK, LocksHeld, OpenLookup, Goto, slotVars,
     RegLock!RUnlock
<1>3. ArgInv' /\ AbsentInv'
  BY DEF IInv, TypeOK, FieldsOK, ArgInv, AbsentInv, OpenLookup, Goto, slotVars
<1>4. SeenInv'
  BY DEF IInv, TypeOK, FieldsOK, SeenInv, CurrentLogger, OpenLookup, Goto, slotVars
<1>5. WriterInv' /\ KnownInv' /\ OpenFindsRegistered'
  BY NoDriverAssumption DEF IInv, TypeOK, FieldsOK, WriterInv, KnownInv, Registered,
     OpenFindsRegistered, OpenLookup, Goto, slotVars, RegLock!RUnlock
<1>. QED
  BY <1>1, <1>2, <1>3, <1>4, <1>5 DEF IInv, TypeOK

(* Open returns ErrBackendNotFound.                                        *)
LEMMA OpenMissingIInv ==
  ASSUME IInv, NEW p \in Procs, OpenMissing(p), UNCHANGED calls
  PROVE  IInv'
<1>1. FieldsOK'
  BY DEF IInv, TypeOK, FieldsOK, SlotPlaces, RegistryPlaces, OpenMissing, Goto,
     slotVars
<1>2. LocksHeld'
  BY DEF IInv, TypeOK, FieldsOK, LocksHeld, OpenMissing, Goto, slotVars
<1>3. ArgInv' /\ AbsentInv'
  BY DEF IInv, TypeOK, FieldsOK, ArgInv, AbsentInv, OpenMissing, Goto, slotVars
<1>4. SeenInv'
  BY DEF IInv, TypeOK, FieldsOK, SeenInv, CurrentLogger, OpenMissing, Goto, slotVars
<1>5. WriterInv' /\ KnownInv' /\ OpenFindsRegistered'
  BY DEF IInv, TypeOK, FieldsOK, WriterInv, KnownInv, Registered,
     OpenFindsRegistered, OpenMissing, Goto, slotVars
<1>. QED
  BY <1>1, <1>2, <1>3, <1>4, <1>5 DEF IInv, TypeOK

(* Open calls Log.Logf before it hands over to the backend.                *)
LEMMA OpenBackendIInv ==
  ASSUME IInv, NEW p \in Procs, OpenBackend(p), UNCHANGED calls
  PROVE  IInv'
<1>1. FieldsOK'
  BY DEF IInv, TypeOK, FieldsOK, SlotPlaces, RegistryPlaces, OpenBackend, Goto,
     slotVars, Levels, LevelDebug, LevelInfo, LevelOff, CurrentLogger,
     AllLoggers, StartLog
<1>2. LocksHeld'
  BY DEF IInv, TypeOK, FieldsOK, LocksHeld, OpenBackend, Goto, slotVars, StartLog
<1>3. ArgInv' /\ AbsentInv'
  BY DEF IInv, TypeOK, FieldsOK, ArgInv, AbsentInv, OpenBackend, Goto, slotVars,
     Levels, LevelDebug, LevelInfo, LevelOff, StartLog
<1>4. SeenInv'
  BY DEF IInv, TypeOK, FieldsOK, SeenInv, CurrentLogger, OpenBackend, Goto, slotVars,
     StartLog
<1>5. WriterInv' /\ KnownInv' /\ OpenFindsRegistered'
  BY DEF IInv, TypeOK, FieldsOK, WriterInv, KnownInv, Registered,
     OpenFindsRegistered, OpenBackend, Goto, slotVars, StartLog
<1>. QED
  BY <1>1, <1>2, <1>3, <1>4, <1>5 DEF IInv, TypeOK

-------------------------------------------------------------------------------------

(* A goroutine inside a call takes a step: the invariant is kept.          *)
LEMMA ProcStepIInv == ASSUME IInv, NEW p \in Procs, Step(p) PROVE IInv'
<1>. UNCHANGED calls
  BY DEF Step
<1>1. CASE SlotStep(p)
  <2>1. UNCHANGED registryVars
    BY <1>1 DEF SlotStep
  <2>2. CASE TakeLock(p, "logf", "read") \/ TakeLock(p, "setlevel", "readlevel")
    BY <2>1, <2>2, TakeLockIInv
  <2>3. CASE TakeLogger(p, "read", "emit") \/ TakeLogger(p, "readlevel", "level")
    BY <2>1, <2>3, TakeLoggerIInv
  <2>4. CASE Emit(p)
    BY <2>1, <2>4, EmitIInv
  <2>5. CASE ApplyLevel(p)
    BY <2>1, <2>5, ApplyLevelIInv
  <2>6. CASE SwapAnnounce(p) \/ SwapLock(p)
    BY <2>1, <2>6, SwapAnnounceIInv, SwapLockIInv
  <2>7. CASE Swap(p)
    BY <2>1, <2>7, SwapIInv
  <2>. QED
    BY <1>1, <2>2, <2>3, <2>4, <2>5, <2>6, <2>7 DEF SlotStep
<1>2. CASE RegistryStep(p)
  BY <1>2, RejectBackendIInv, RegisterAnnounceIInv, RegisterLockIInv, RegisterExistsIInv, RegisterAbsentIInv,
     RegisterInsertIInv, RegisterUnlockIInv, OpenLockIInv, OpenLookupIInv,
     OpenMissingIInv, OpenBackendIInv
     DEF RegistryStep
<1>. QED
  BY <1>1, <1>2 DEF Step

(* Nothing changes: the invariant is kept.                                 *)
LEMMA StutterIInv == IInv /\ UNCHANGED vars => IInv'
<1> SUFFICES ASSUME IInv, UNCHANGED vars PROVE IInv'
  OBVIOUS
<1>. USE DEF vars, slotVars, registryVars
<1>1. TypeOK'
  BY DEF IInv, TypeOK, FieldsOK, LocksHeld
<1>2. ArgInv' /\ WriterInv' /\ AbsentInv'
  BY DEF IInv, ArgInv, WriterInv, AbsentInv
<1>3. KnownInv' /\ SeenInv' /\ OpenFindsRegistered'
  BY DEF IInv, KnownInv, Registered, SeenInv, CurrentLogger, OpenFindsRegistered
<1>. QED
  BY <1>1, <1>2, <1>3 DEF IInv

(* Every step of the specification keeps the invariant.                    *)
LEMMA NextIInv == IInv /\ [Next]_vars => IInv'
  BY CallIInv, ProcStepIInv, StutterIInv DEF Next, Done

(* The invariant holds throughout.                                         *)
THEOREM Invariance == Spec => []IInv
<1>. QED
  BY InitIInv, NextIInv, PTL DEF Spec

(* Registry and LoggerSlot: the locks are held exactly where the code      *)
(* stands between taking and releasing them, the fallback is never lost    *)
(* and every local has its type.                                           *)
THEOREM TypeCorrect == Spec => []TypeOK
<1>1. IInv => TypeOK
  BY DEF IInv
<1>. QED
  BY <1>1, Invariance, PTL

(* Open returns ErrBackendNotFound only for a driver that was not          *)
(* registered when the call began.                                         *)
THEOREM OpenFindsRegisteredHolds == Spec => []OpenFindsRegistered
<1>1. IInv => OpenFindsRegistered
  BY DEF IInv
<1>. QED
  BY <1>1, Invariance, PTL

-------------------------------------------------------------------------------------

(* A step that changes the registry is an insertion, and it fills a place  *)
(* that was empty.                                                         *)
LEMMA BackendsStep ==
  ASSUME IInv, [Next]_vars, NEW d \in Drivers, backends[d] # Nil
  PROVE  backends'[d] = backends[d]
<1>1. CASE \E p \in Procs : RegisterInsert(p)
  BY <1>1 DEF IInv, TypeOK, FieldsOK, ArgInv, AbsentInv, RegisterInsert
<1>2. CASE ~ \E p \in Procs : RegisterInsert(p)
  <2>1. UNCHANGED backends
    BY <1>2 DEF Next, Done, vars, Call, BeginSlotCall, BeginRegistryCall, StartRegistryCall,
       Step, SlotStep, RegistryStep, registryVars, RejectBackend, RegisterAnnounce, RegisterLock, RegisterExists,
       RegisterAbsent, RegisterUnlock, OpenLock, OpenLookup, OpenMissing, OpenBackend
  <2>. QED
    BY <2>1
<1>. QED
  BY <1>1, <1>2

(* Register: a registered backend is never replaced, however the calls of  *)
(* the goroutines interleave.                                              *)
THEOREM NeverReplacedHolds == Spec => NeverReplaced
<1>1. IInv /\ [Next]_vars =>
        [\A d \in Drivers : backends[d] # Nil => backends'[d] = backends[d]]_backends
  BY BackendsStep
<1>. QED
  BY <1>1, Invariance, PTL DEF Spec, NeverReplaced

(* A step that writes a record is Emit, with the logger its call has       *)
(* taken.                                                                  *)
LEMMA PrintedStep ==
  ASSUME IInv, [Next]_vars, NEW l \in AllLoggers, NEW record \in printed'[l] \ printed[l]
  PROVE  l \in seen[record[1]]
<1>1. CASE \E p \in Procs : Emit(p)
  <2>1. PICK p \in Procs : Emit(p)
    BY <1>1
  <2>2. l = taken[p] /\ record = <<p, arg[p]>>
    BY <2>1 DEF IInv, TypeOK, FieldsOK, Emit
  <2>3. taken[p] \in seen[p]
    BY <2>1 DEF IInv, SeenInv, Emit
  <2>. QED
    BY <2>2, <2>3
<1>2. CASE ~ \E p \in Procs : Emit(p)
  <2>1. UNCHANGED printed
    BY <1>2 DEF Next, Done, vars, Call, BeginSlotCall, BeginRegistryCall, StartSlotCall,
       StartRegistryCall, Step, SlotStep, RegistryStep, slotVars, TakeLock, TakeLogger,
       ApplyLevel, SwapAnnounce, SwapLock, Swap, RejectBackend, RegisterAnnounce, RegisterLock, RegisterExists,
       RegisterAbsent, RegisterInsert, RegisterUnlock, OpenLock, OpenLookup, OpenMissing,
       OpenBackend
  <2>. QED
    BY <2>1
<1>. QED
  BY <1>1, <1>2

(* LoggerSlot.Logf: a record reaches a logger that was current at some     *)
(* time during its call.                                                   *)
THEOREM PrintedWhereCurrentHolds == Spec => PrintedWhereCurrent
<1>1. IInv /\ [Next]_vars =>
        [\A l \in AllLoggers : \A record \in printed'[l] \ printed[l] : l \in seen[record[1]]]_printed
  BY PrintedStep
<1>. QED
  BY <1>1, Invariance, PTL DEF Spec, PrintedWhereCurrent


--------------------------------------------------------------------------------
(***************************************************************************)
(* The registry of event bodies.                                           *)
(***************************************************************************)


(* A decoder refers to no registry but its own, decodes, applies plugins   *)
(* or has applied them only once it is open, and applies them once.        *)
RefInv(d) ==
  /\ registryOf[d] \in {None, d}
  /\ status[d] = "applying" \/ applied[d] \/ last[d] # <<>> => registryOf[d] # None
  /\ status[d] = "applying" => ~applied[d]

StayInv(d) ==
  registryOf[d] # None =>
    /\ BodiesFrom(d)
    /\ last[d] # <<>> => Lookup(d)[last[d][1]] = last[d][2]

AppliedInv(d) ==
  applied[d] => \A p \in Elements(plugins[d]) : PluginIn(d, p, appliedTo[d])

(* The bodies the loops over plugins have been at are in place.            *)
TurnInv(d) ==
  status[d] = "applying" =>
    \A i \in DOMAIN plugins[d] : description[d] \in Accepts[plugins[d][i]] =>
      \A j \in DOMAIN BodiesOf[plugins[d][i]] :
        i < turn[d][1] \/ (i = turn[d][1] /\ j < turn[d][2])
          => Whole(Lookup(d), BodiesOf[plugins[d][i]][j])

DecoderInv(d) == RefInv(d) /\ StayInv(d) /\ AppliedInv(d) /\ TurnInv(d)

WholeInv == \A id \in Decoders \cup {Default} : AllWhole(registries[id])

EventIInv == EventTypeOK /\ WholeInv /\ \A d \in Decoders : DecoderInv(d)

USE BodiesAssumption, PluginsAssumption

----------------------------------------------------------------------------------
(* Registering a body whose types are free keeps a registry a registry of  *)
(* whole bodies and takes nothing away from it.                            *)
LEMMA WithLemma ==
  ASSUME NEW r \in Registry, NEW b \in Bodies, Free(r, b), AllWhole(r)
  PROVE  /\ With(r, b) \in Registry
         /\ AllWhole(With(r, b))
         /\ Whole(With(r, b), b)
         /\ \A c \in Bodies : Whole(r, c) => Whole(With(r, b), c)
         /\ \A t \in Types : r[t] # None => With(r, b)[t] = r[t]
         /\ \A t \in Types : With(r, b)[t] \in {r[t], b}
  <1>1. \A c \in Bodies : TypesOf[c] \subseteq Types
    OBVIOUS
  <1>2. With(r, b) \in Registry
    BY DEF With, Registry
  <1>3. \A t \in Types : r[t] # None => With(r, b)[t] = r[t]
    BY DEF With, Registry, Free
  <1>4. Whole(With(r, b), b)
    BY <1>1 DEF With, Whole
  <1>5. \A c \in Bodies : Whole(r, c) => Whole(With(r, b), c)
    BY <1>1, <1>3 DEF Whole
  <1>6. ASSUME NEW t \in Types, With(r, b)[t] # None
        PROVE  Whole(With(r, b), With(r, b)[t])
    <2>1. CASE t \in TypesOf[b]
      BY <2>1, <1>4 DEF With
    <2>2. CASE t \notin TypesOf[b]
      BY <2>2, <1>5, <1>6 DEF With, AllWhole, Registry
    <2>. QED BY <2>1, <2>2
  <1>. QED BY <1>2, <1>3, <1>4, <1>5, <1>6 DEF AllWhole, With

(* The bodies the init functions register have disjoint types.             *)
LEMMA InitialLemma == Initial \in Registry /\ AllWhole(Initial) /\ Empty \in Registry /\ AllWhole(Empty)
  <1>1. ASSUME NEW t \in Types, NEW b \in BuiltIn, t \in TypesOf[b]
        PROVE  Initial[t] = b
    BY <1>1 DEF Initial
  <1>2. ASSUME NEW t \in Types
        PROVE  Initial[t] = None \/ (Initial[t] \in BuiltIn /\ t \in TypesOf[Initial[t]])
    <2>1. CASE \E b \in BuiltIn : t \in TypesOf[b]
      <3>1. PICK b \in BuiltIn : t \in TypesOf[b]
        BY <2>1
      <3>. QED BY <3>1, <1>1
    <2>2. CASE ~\E b \in BuiltIn : t \in TypesOf[b]
      BY <2>2 DEF Initial
    <2>. QED BY <2>1, <2>2
  <1>3. Initial \in Registry
    BY <1>2 DEF Initial, Registry
  <1>4. AllWhole(Initial)
    BY <1>1, <1>2 DEF AllWhole, Whole
  <1>. QED BY <1>3, <1>4 DEF Empty, Registry, AllWhole

LEMMA InitLemma == EventInit => EventIInv
  <1>. SUFFICES ASSUME EventInit PROVE EventIInv
    OBVIOUS
  <1>1. EventTypeOK
    BY InitialLemma DEF EventInit, EventTypeOK
  <1>2. WholeInv
    BY InitialLemma DEF EventInit, WholeInv
  <1>3. ASSUME NEW d \in Decoders PROVE DecoderInv(d)
    BY DEF EventInit, DecoderInv, RefInv, StayInv, AppliedInv, TurnInv
  <1>. QED BY <1>1, <1>2, <1>3 DEF EventIInv

(* A step that leaves the registry of an open decoder alone keeps what the *)
(* invariant says of its bodies.                                           *)
Kept(d) ==
  /\ registryOf'[d] = registryOf[d] /\ registries'[d] = registries[d]
  /\ origin'[d] = origin[d] /\ plugins'[d] = plugins[d]

LEMMA KeptLemma ==
  ASSUME NEW d \in Decoders, DecoderInv(d), registryOf[d] # None, Kept(d)
  PROVE  /\ BodiesFrom(d)'
         /\ Lookup(d)' = Lookup(d)
         /\ (applied'[d] = applied[d] /\ appliedTo'[d] = appliedTo[d]) => AppliedInv(d)'
  <1>. USE DEF DecoderInv, RefInv, Kept
  <1>1. registries'[registryOf'[d]] = registries[registryOf[d]]
    OBVIOUS
  <1>2. Own(d)' = Own(d)
    BY DEF Own, Elements
  <1>3. BodiesFrom(d)'
    BY <1>1, <1>2 DEF StayInv, BodiesFrom, Lookup
  <1>4. ASSUME applied'[d] = applied[d] /\ appliedTo'[d] = appliedTo[d] PROVE AppliedInv(d)'
    <2>. SUFFICES ASSUME applied[d], NEW p \in Elements(plugins[d]) PROVE PluginIn(d, p, appliedTo[d])'
      BY <1>4 DEF AppliedInv, Elements
    <2>1. PluginIn(d, p, appliedTo[d])
      BY DEF AppliedInv
    <2>. QED BY <1>1, <1>4, <2>1 DEF PluginIn, Lookup, Whole
  <1>. QED BY <1>1, <1>3, <1>4 DEF Lookup

(* One that leaves the decoder alone as well keeps all of it.              *)
Unmoved(d) ==
  /\ registryOf'[d] = registryOf[d] /\ origin'[d] = origin[d] /\ plugins'[d] = plugins[d]
  /\ description'[d] = description[d] /\ turn'[d] = turn[d] /\ status'[d] = status[d]
  /\ applied'[d] = applied[d] /\ appliedTo'[d] = appliedTo[d] /\ last'[d] = last[d]
  /\ registryOf[d] # None => registries'[d] = registries[d]

LEMMA UnmovedLemma ==
  ASSUME NEW d \in Decoders, DecoderInv(d), Unmoved(d)
  PROVE  DecoderInv(d)'
  <1>1. RefInv(d)'
    BY DEF DecoderInv, Unmoved, RefInv
  <1>2. CASE registryOf[d] = None
    BY <1>1, <1>2 DEF DecoderInv, Unmoved, RefInv, StayInv, AppliedInv, TurnInv
  <1>3. CASE registryOf[d] # None
    <2>1. Lookup(d)' = Lookup(d) /\ BodiesFrom(d)' /\ AppliedInv(d)'
      BY <1>3, KeptLemma DEF Kept, Unmoved
    <2>2. StayInv(d)'
      BY <2>1 DEF DecoderInv, Unmoved, StayInv
    <2>3. TurnInv(d)'
      BY <1>3 DEF DecoderInv, RefInv, Unmoved, TurnInv, Lookup, Whole
    <2>. QED BY <1>1, <2>1, <2>2, <2>3 DEF DecoderInv
  <1>. QED BY <1>2, <1>3

----------------------------------------------------------------------------------
(* One lemma for each action.                                              *)
LEMMA RegisterDefaultLemma ==
  ASSUME EventIInv, NEW b \in Bodies, RegisterDefault(b) PROVE EventIInv'
  <1>1. /\ With(registries[Default], b) \in Registry
        /\ AllWhole(With(registries[Default], b))
    BY WithLemma DEF EventIInv, EventTypeOK, WholeInv, RegisterDefault
  <1>2. EventTypeOK'
    BY <1>1 DEF EventIInv, EventTypeOK, RegisterDefault
  <1>3. WholeInv'
    <2>. SUFFICES ASSUME NEW id \in Decoders \cup {Default} PROVE AllWhole(registries'[id])
      BY DEF WholeInv, AllWhole, Whole
    <2>1. registries'[id] = IF id = Default THEN With(registries[Default], b) ELSE registries[id]
      BY DEF EventIInv, EventTypeOK, RegisterDefault
    <2>. QED BY <1>1, <2>1 DEF EventIInv, WholeInv
  <1>4. ASSUME NEW d \in Decoders PROVE DecoderInv(d)'
    <2>1. Unmoved(d)
      BY DEF EventIInv, EventTypeOK, RegisterDefault, Unmoved
    <2>. QED BY <2>1, UnmovedLemma DEF EventIInv
  <1>. QED BY <1>2, <1>3, <1>4 DEF EventIInv

LEMMA OpenLemma ==
  ASSUME EventIInv, NEW d \in Decoders, Open(d) PROVE EventIInv'
  <1>1. PICK list \in PluginLists : plugins' = [plugins EXCEPT ![d] = list]
    BY DEF Open
  <1>2. EventTypeOK'
    BY <1>1 DEF EventIInv, EventTypeOK, Open
  <1>3. WholeInv'
    <2>. SUFFICES ASSUME NEW id \in Decoders \cup {Default} PROVE AllWhole(registries'[id])
      BY DEF WholeInv, AllWhole, Whole
    <2>1. registries'[id] = IF id = d THEN registries[Default] ELSE registries[id]
      BY DEF EventIInv, EventTypeOK, Open
    <2>. QED BY <2>1 DEF EventIInv, WholeInv
  <1>4. DecoderInv(d)'
    <2>1. /\ registryOf'[d] = d /\ registries'[d] = registries[Default] /\ origin'[d] = registries[Default]
          /\ registries[Default] \in Registry
      BY DEF EventIInv, EventTypeOK, Open
    <2>2. status'[d] # "applying" /\ ~applied'[d] /\ last'[d] = <<>>
      BY DEF EventIInv, DecoderInv, RefInv, Open
    <2>3. BodiesFrom(d)'
      BY <2>1 DEF BodiesFrom, Lookup, Registry
    <2>. QED BY <2>1, <2>2, <2>3 DEF DecoderInv, RefInv, StayInv, AppliedInv, TurnInv
  <1>5. ASSUME NEW e \in Decoders, e # d PROVE DecoderInv(e)'
    <2>1. Unmoved(e)
      BY <1>1, <1>5 DEF EventIInv, EventTypeOK, Open, Unmoved
    <2>. QED BY <2>1, UnmovedLemma DEF EventIInv
  <1>. QED BY <1>2, <1>3, <1>4, <1>5 DEF EventIInv

LEMMA DecodeBodyLemma ==
  ASSUME EventIInv, NEW d \in Decoders, NEW t \in Types, DecodeBody(d, t) PROVE EventIInv'
  <1>1. Lookup(d)[t] \in Bodies
    BY DEF EventIInv, EventTypeOK, DecodeBody, DecoderInv, RefInv, Lookup, Registry
  <1>2. EventTypeOK'
    BY <1>1 DEF EventIInv, EventTypeOK, DecodeBody
  <1>3. WholeInv'
    BY DEF EventIInv, WholeInv, DecodeBody, AllWhole, Whole
  <1>4. DecoderInv(d)'
    <2>1. RefInv(d)'
      BY DEF EventIInv, EventTypeOK, DecoderInv, RefInv, DecodeBody
    <2>2. BodiesFrom(d)' /\ Lookup(d)' = Lookup(d) /\ AppliedInv(d)'
      BY KeptLemma DEF EventIInv, Kept, DecodeBody
    <2>3. StayInv(d)'
      <3>1. last'[d] = <<t, Lookup(d)[t]>> /\ registryOf[d] # None
        BY DEF EventIInv, EventTypeOK, DecodeBody
      <3>. QED BY <3>1, <2>2 DEF StayInv, Lookup
    <2>4. TurnInv(d)'
      BY DEF EventIInv, EventTypeOK, TurnInv, DecodeBody
    <2>. QED BY <2>1, <2>2, <2>3, <2>4 DEF DecoderInv
  <1>5. ASSUME NEW e \in Decoders, e # d PROVE DecoderInv(e)'
    <2>1. Unmoved(e)
      BY <1>5 DEF EventIInv, EventTypeOK, DecodeBody, Unmoved
    <2>. QED BY <2>1, UnmovedLemma DEF EventIInv
  <1>. QED BY <1>2, <1>3, <1>4, <1>5 DEF EventIInv

LEMMA DecodeDescriptionLemma ==
  ASSUME EventIInv, NEW d \in Decoders, NEW dialect \in Dialects, DecodeDescription(d, dialect)
  PROVE  EventIInv'
  <1>1. EventTypeOK'
    BY DEF EventIInv, EventTypeOK, DecodeDescription
  <1>2. WholeInv'
    BY DEF EventIInv, WholeInv, DecodeDescription, AllWhole, Whole
  <1>3. DecoderInv(d)'
    <2>1. RefInv(d)'
      BY DEF EventIInv, EventTypeOK, DecoderInv, RefInv, DecodeDescription
    <2>2. BodiesFrom(d)' /\ Lookup(d)' = Lookup(d) /\ AppliedInv(d)'
      BY KeptLemma DEF EventIInv, Kept, DecodeDescription
    <2>3. StayInv(d)'
      BY <2>2 DEF EventIInv, DecoderInv, StayInv, DecodeDescription
    <2>4. TurnInv(d)'
      <3>. SUFFICES ASSUME NEW i \in DOMAIN plugins[d], NEW j \in DOMAIN BodiesOf[plugins[d][i]]
                    PROVE  ~(i < 1 \/ (i = 1 /\ j < 1))
        BY DEF EventIInv, EventTypeOK, TurnInv, DecodeDescription
      <3>1. plugins[d] \in Seq(Plugins)
        BY DEF EventIInv, EventTypeOK
      <3>2. BodiesOf[plugins[d][i]] \in Seq(Bodies)
        BY <3>1
      <3>. QED BY <3>1, <3>2
    <2>. QED BY <2>1, <2>2, <2>3, <2>4 DEF DecoderInv
  <1>4. ASSUME NEW e \in Decoders, e # d PROVE DecoderInv(e)'
    <2>1. Unmoved(e)
      BY <1>4 DEF EventIInv, EventTypeOK, DecodeDescription, Unmoved
    <2>. QED BY <2>1, UnmovedLemma DEF EventIInv
  <1>. QED BY <1>1, <1>2, <1>3, <1>4 DEF EventIInv

(* The steps of the loops over plugins that leave the registry alone.      *)
LEMMA LoopLemma ==
  ASSUME EventIInv, NEW d \in Decoders, RefuseBody(d) \/ NextPlugin(d) \/ FinishPlugins(d)
  PROVE  EventIInv'
  <1>. USE DEF RefuseBody, NextPlugin, FinishPlugins
  <1>1. EventTypeOK'
    <2>1. CASE RefuseBody(d)
      BY <2>1 DEF EventIInv, EventTypeOK
    <2>2. CASE NextPlugin(d)
      BY <2>2 DEF EventIInv, EventTypeOK
    <2>3. CASE FinishPlugins(d)
      BY <2>3 DEF EventIInv, EventTypeOK
    <2>. QED BY <2>1, <2>2, <2>3
  <1>2. WholeInv'
    <2>1. registries' = registries
      OBVIOUS
    <2>. QED BY <2>1 DEF EventIInv, WholeInv, AllWhole, Whole
  <1>3. DecoderInv(d)'
    <2>1. RefInv(d)'
      BY DEF EventIInv, EventTypeOK, DecoderInv, RefInv
    <2>2. registryOf[d] # None /\ BodiesFrom(d)' /\ Lookup(d)' = Lookup(d)
      BY KeptLemma DEF EventIInv, DecoderInv, RefInv, Kept
    <2>3. StayInv(d)'
      BY <2>2 DEF EventIInv, DecoderInv, StayInv
    <2>4. AppliedInv(d)'
      <3>1. CASE RefuseBody(d) \/ NextPlugin(d)
        BY <2>2, <3>1, KeptLemma DEF EventIInv, Kept
      <3>2. CASE FinishPlugins(d)
        <4>. SUFFICES ASSUME NEW i \in DOMAIN plugins[d], description[d] \in Accepts[plugins[d][i]],
                             NEW j \in DOMAIN BodiesOf[plugins[d][i]]
                      PROVE  Whole(Lookup(d), BodiesOf[plugins[d][i]][j])'
          BY <3>2 DEF EventIInv, EventTypeOK, AppliedInv, PluginIn, Elements
        <4>1. i < turn[d][1]
          BY <3>2 DEF EventIInv, EventTypeOK, PluginsLeft
        <4>2. Whole(Lookup(d), BodiesOf[plugins[d][i]][j])
          BY <3>2, <4>1 DEF EventIInv, DecoderInv, TurnInv
        <4>. QED BY <2>2, <4>2 DEF Whole
      <3>. QED BY <3>1, <3>2
    <2>5. TurnInv(d)'
      <3>1. CASE NextPlugin(d)
        <4>. SUFFICES ASSUME NEW i \in DOMAIN plugins[d], description[d] \in Accepts[plugins[d][i]],
                             NEW j \in DOMAIN BodiesOf[plugins[d][i]],
                             i < turn[d][1] + 1 \/ (i = turn[d][1] + 1 /\ j < 1)
                      PROVE  Whole(Lookup(d), BodiesOf[plugins[d][i]][j])'
          BY <3>1 DEF EventIInv, EventTypeOK, TurnInv
        <4>1. plugins[d] \in Seq(Plugins) /\ BodiesOf[plugins[d][i]] \in Seq(Bodies)
          BY DEF EventIInv, EventTypeOK
        <4>2. i < turn[d][1] \/ (i = turn[d][1] /\ j < turn[d][2])
          BY <3>1, <4>1 DEF EventIInv, EventTypeOK, BodiesLeft, PluginsLeft, Plugin
        <4>3. Whole(Lookup(d), BodiesOf[plugins[d][i]][j])
          BY <3>1, <4>2 DEF EventIInv, DecoderInv, TurnInv
        <4>. QED BY <2>2, <4>3 DEF Whole
      <3>2. CASE RefuseBody(d) \/ FinishPlugins(d)
        BY <3>2 DEF EventIInv, EventTypeOK, TurnInv
      <3>. QED BY <3>1, <3>2
    <2>. QED BY <2>1, <2>3, <2>4, <2>5 DEF DecoderInv
  <1>4. ASSUME NEW e \in Decoders, e # d PROVE DecoderInv(e)'
    <2>1. Unmoved(e)
      BY <1>4 DEF EventIInv, EventTypeOK, Unmoved
    <2>. QED BY <2>1, UnmovedLemma DEF EventIInv
  <1>. QED BY <1>1, <1>2, <1>3, <1>4 DEF EventIInv

LEMMA RegisterBodyLemma ==
  ASSUME EventIInv, NEW d \in Decoders, RegisterBody(d) PROVE EventIInv'
  <1>. DEFINE new == With(registries[d], Body(d))
  <1>1. /\ registryOf[d] = d /\ registries[d] \in Registry /\ AllWhole(registries[d])
        /\ registries' = [registries EXCEPT ![d] = new]
        /\ Free(registries[d], Body(d))
    BY DEF EventIInv, EventTypeOK, WholeInv, DecoderInv, RefInv, RegisterBody, Lookup
  <1>2. /\ Plugin(d) \in Plugins /\ turn[d][1] \in DOMAIN plugins[d]
        /\ turn[d][2] \in Nat
        /\ Body(d) \in Bodies /\ Body(d) \in Own(d)
        /\ plugins[d] \in Seq(Plugins)
    <2>1. plugins[d] \in Seq(Plugins)
      <3>1. plugins[d] \in PluginLists \cup {<<>>}
        BY DEF EventIInv, EventTypeOK
      <3>2. <<>> \in Seq(Plugins)
        OBVIOUS
      <3>. QED BY <3>1, <3>2, Zenon
    <2>2. turn[d][1] \in Nat \ {0} /\ turn[d][2] \in Nat \ {0}
      BY DEF EventIInv, EventTypeOK
    <2>3. turn[d][1] \in DOMAIN plugins[d] /\ Plugin(d) \in Elements(plugins[d])
      BY <2>1, <2>2 DEF RegisterBody, BodiesLeft, PluginsLeft, Plugin, Elements
    <2>4. Plugin(d) \in Plugins /\ BodiesOf[Plugin(d)] \in Seq(Bodies)
      BY <2>1, <2>3 DEF Plugin
    <2>5. Body(d) \in Bodies /\ Body(d) \in Elements(BodiesOf[Plugin(d)])
      BY <2>1, <2>2, <2>4 DEF RegisterBody, BodiesLeft, Body, Elements
    <2>. QED BY <2>1, <2>2, <2>3, <2>4, <2>5 DEF Own
  <1>3. /\ new \in Registry /\ AllWhole(new) /\ Whole(new, Body(d))
        /\ \A c \in Bodies : Whole(registries[d], c) => Whole(new, c)
        /\ \A t \in Types : registries[d][t] # None => new[t] = registries[d][t]
        /\ \A t \in Types : new[t] \in {registries[d][t], Body(d)}
    BY <1>1, <1>2, WithLemma
  <1>. HIDE DEF new
  <1>4. EventTypeOK'
    BY <1>1, <1>3 DEF EventIInv, EventTypeOK, RegisterBody
  <1>5. WholeInv'
    <2>. SUFFICES ASSUME NEW id \in Decoders \cup {Default} PROVE AllWhole(registries'[id])
      BY DEF WholeInv, AllWhole, Whole
    <2>1. registries'[id] = IF id = d THEN new ELSE registries[id]
      BY <1>1 DEF EventIInv, EventTypeOK
    <2>. QED BY <1>3, <2>1 DEF EventIInv, WholeInv
  <1>6. DecoderInv(d)'
    <2>1. Lookup(d) = registries[d] /\ registries'[registryOf'[d]] = new /\ registryOf'[d] = d
      BY <1>1 DEF EventIInv, EventTypeOK, RegisterBody, Lookup
    <2>2. RefInv(d)'
      BY DEF EventIInv, EventTypeOK, DecoderInv, RefInv, RegisterBody
    <2>3. Own(d)' = Own(d)
      BY DEF Own, Elements, RegisterBody
    <2>4. BodiesFrom(d)'
      <3>. SUFFICES ASSUME NEW t \in Types
                    PROVE  IF origin[d][t] # None THEN new[t] = origin[d][t] ELSE new[t] \in Own(d) \cup {None}
        BY <2>1, <2>3 DEF BodiesFrom, Lookup, RegisterBody
      <3>1. d # None
        BY DEF EventIInv, DecoderInv, RefInv, RegisterBody
      <3>2. IF origin[d][t] # None THEN registries[d][t] = origin[d][t]
                                   ELSE registries[d][t] \in Own(d) \cup {None}
        BY <1>1, <2>1, <3>1 DEF EventIInv, DecoderInv, StayInv, BodiesFrom
      <3>. QED BY <1>2, <1>3, <3>2
    <2>5. StayInv(d)'
      <3>1. last[d] \in {<<>>} \cup (Types \X Bodies) /\ last' = last
        BY DEF EventIInv, EventTypeOK, RegisterBody
      <3>2. last[d] # <<>> => registries[d][last[d][1]] = last[d][2]
        BY <1>1, <2>1 DEF EventIInv, DecoderInv, RefInv, StayInv, RegisterBody
      <3>3. last[d] # <<>> => new[last[d][1]] = last[d][2]
        BY <1>3, <3>1, <3>2
      <3>. QED BY <2>1, <2>4, <3>1, <3>3 DEF StayInv, Lookup
    <2>6. ~applied'[d]
      BY DEF EventIInv, DecoderInv, RefInv, RegisterBody
    <2>7. TurnInv(d)'
      <3>. SUFFICES ASSUME NEW i \in DOMAIN plugins[d], description[d] \in Accepts[plugins[d][i]],
                           NEW j \in DOMAIN BodiesOf[plugins[d][i]],
                           i < turn[d][1] \/ (i = turn[d][1] /\ j < turn[d][2] + 1)
                    PROVE  Whole(new, BodiesOf[plugins[d][i]][j])
        BY <2>1 DEF EventIInv, EventTypeOK, TurnInv, RegisterBody, Lookup, Whole
      <3>1. BodiesOf[plugins[d][i]][j] \in Bodies /\ j \in Nat
        BY <1>2
      <3>2. CASE i < turn[d][1] \/ (i = turn[d][1] /\ j < turn[d][2])
        <4>1. Whole(Lookup(d), BodiesOf[plugins[d][i]][j])
          BY <3>2 DEF EventIInv, DecoderInv, TurnInv, RegisterBody
        <4>. QED BY <1>3, <2>1, <3>1, <4>1
      <3>3. CASE i = turn[d][1] /\ j = turn[d][2]
        BY <1>3, <3>3 DEF Body, Plugin
      <3>. QED BY <1>2, <3>1, <3>2, <3>3
    <2>. QED BY <2>2, <2>5, <2>6, <2>7 DEF DecoderInv, AppliedInv
  <1>7. ASSUME NEW e \in Decoders, e # d PROVE DecoderInv(e)'
    <2>1. Unmoved(e)
      BY <1>1, <1>7 DEF EventIInv, EventTypeOK, RegisterBody, Unmoved
    <2>. QED BY <2>1, UnmovedLemma DEF EventIInv
  <1>. QED BY <1>4, <1>5, <1>6, <1>7 DEF EventIInv

----------------------------------------------------------------------------------
(* The invariant holds in every state.                                     *)
THEOREM EventInvariance == EventSpec => []EventIInv
  <1>1. EventInit => EventIInv
    BY InitLemma
  <1>2. EventIInv /\ [EventNext]_eventVars => EventIInv'
    <2>. SUFFICES ASSUME EventIInv, [EventNext]_eventVars PROVE EventIInv'
      OBVIOUS
    <2>1. CASE UNCHANGED eventVars
      <3>1. \A d \in Decoders : Unmoved(d)
        BY <2>1 DEF eventVars, Unmoved
      <3>. QED BY <2>1, <3>1, UnmovedLemma DEF eventVars, EventIInv, EventTypeOK, WholeInv, AllWhole, Whole
    <2>2. CASE \E b \in Bodies : RegisterDefault(b)
      BY <2>2, RegisterDefaultLemma
    <2>3. CASE \E d \in Decoders : Open(d)
      BY <2>3, OpenLemma
    <2>4. CASE \E d \in Decoders, t \in Types : DecodeBody(d, t)
      BY <2>4, DecodeBodyLemma
    <2>5. CASE \E d \in Decoders, dialect \in Dialects : DecodeDescription(d, dialect)
      BY <2>5, DecodeDescriptionLemma
    <2>6. CASE \E d \in Decoders : RegisterBody(d)
      BY <2>6, RegisterBodyLemma
    <2>7. CASE \E d \in Decoders : RefuseBody(d) \/ NextPlugin(d) \/ FinishPlugins(d)
      BY <2>7, LoopLemma
    <2>. QED BY <2>1, <2>2, <2>3, <2>4, <2>5, <2>6, <2>7 DEF EventNext
  <1>. QED BY <1>1, <1>2, PTL DEF EventSpec

(* Type correctness of the model.                                          *)
THEOREM EventTypeCorrect == EventSpec => []EventTypeOK
  <1>1. EventIInv => EventTypeOK
    BY DEF EventIInv
  <1>. QED BY <1>1, EventInvariance, PTL

(* A decoder keeps the bodies it was opened with, whatever others register *)
(* and however many format descriptions it reads.                          *)
THEOREM BodiesStayHolds == EventSpec => []BodiesStay
  <1>1. EventIInv => BodiesStay
    BY DEF EventIInv, DecoderInv, StayInv, BodiesStay
  <1>. QED BY <1>1, EventInvariance, PTL

(* No body is registered in part, and plugins that count as applied are.   *)
THEOREM PluginsWholeHolds == EventSpec => []PluginsWhole
  <1>1. EventIInv => PluginsWhole
    BY DEF EventIInv, EventTypeOK, WholeInv, DecoderInv, AppliedInv, PluginsWhole
  <1>. QED BY <1>1, EventInvariance, PTL

=================================================================================
