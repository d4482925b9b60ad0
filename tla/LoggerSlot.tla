-------------------------------- MODULE LoggerSlot --------------------------------
(***************************************************************************)
(* LoggerSlot and StdLogger of logger.go: a replaceable logger behind a    *)
(* lock.  Every method takes the current logger under the lock and uses it *)
(* after the lock is released, so that it may have been replaced by then.  *)
(***************************************************************************)
EXTENDS Naturals, FiniteSets

CONSTANTS
  Procs,      \* goroutines
  Loggers,    \* loggers the program may install
  Fallback,   \* the StdLogger that NewLoggerSlot made
  Nil         \* a nil logger, and where nothing has been stored yet

VARIABLES
  pc,          \* where each goroutine stands, "idle" between calls
  arg,         \* the argument of its call
  slotWriter,  \* slot.mu
  slotReaders,
  slotWaiting,
  current,     \* slot.logger
  level,       \* the level of each logger
  taken,       \* the logger each goroutine got from GetLogger
  printed,     \* the records each logger wrote, by the level they have
  seen         \* history: the loggers current since each call of Logf began

slotVars == <<slotWriter, slotReaders, slotWaiting, current, level, taken, printed, seen>>

SlotLock ==
  INSTANCE RWLock WITH writer <- slotWriter, readers <- slotReaders, waiting <- slotWaiting

AllLoggers == Loggers \cup {Fallback}

(* LevelDebug < LevelInfo < LevelOff; warnings and errors lie in between.  *)
LevelDebug == 0
LevelInfo  == 1
LevelOff   == 2
Levels     == LevelDebug..LevelOff

ASSUME ProcsAssumption == Nil \notin Procs

SlotInit ==
  /\ SlotLock!Init
  /\ current = Fallback
  /\ level = [l \in AllLoggers |-> LevelInfo]
  /\ taken = [p \in Procs |-> Nil]
  /\ printed = [l \in AllLoggers |-> {}]
  /\ seen = [p \in Procs |-> {}]

Goto(p, there) == pc' = [pc EXCEPT ![p] = there]

(* What is current from now on, every call that has begun has seen.        *)
Observe(l) == seen' = [p \in Procs |-> seen[p] \cup {l}]

(* The slot as GetLogger sees it.                                          *)
CurrentLogger == IF current = Nil THEN Fallback ELSE current

(* GetLogger, in two steps: the lock, and the read before it is released.  *)
(* Logf goes from "logf" through "read" to "emit", SetLevel from           *)
(* "setlevel" through "readlevel" to "level".                              *)
TakeLock(p, first, next) ==
  /\ pc[p] = first
  /\ SlotLock!RLock(p)
  /\ Goto(p, next)
  /\ UNCHANGED <<arg, current, level, taken, printed, seen>>

TakeLogger(p, first, next) ==
  /\ pc[p] = first
  /\ taken' = [taken EXCEPT ![p] = CurrentLogger]
  /\ SlotLock!RUnlock(p)
  /\ Goto(p, next)
  /\ UNCHANGED <<arg, current, level, printed, seen>>

(* StdLogger.Enabled                                                       *)
RecordEnabled(l, record) == level[l] # LevelOff /\ record # LevelOff /\ record >= level[l]

(* The calls: Logf, SetLevel and SetLogger.                                *)
StartSlotCall(p, first, a) ==
  /\ pc[p] = "idle"
  /\ Goto(p, first)
  /\ arg' = [arg EXCEPT ![p] = a]
  /\ seen' = [seen EXCEPT ![p] = {CurrentLogger}]
  /\ UNCHANGED <<slotWriter, slotReaders, slotWaiting, current, level, taken, printed>>

(* A plausible mistake in Emit: the record goes to the fallback.           *)
EmitToFallback(p) ==
  /\ pc[p] = "emit"
  /\ printed' = IF RecordEnabled(taken[p], arg[p])
                THEN [printed EXCEPT ![Fallback] = @ \cup {<<p, arg[p]>>}]
                ELSE printed
  /\ Goto(p, "idle")
  /\ UNCHANGED <<arg, slotWriter, slotReaders, slotWaiting, current, level, taken, seen>>

(* logger.Logf, with a logger that need not be the current one any more.   *)
Emit(p) ==
  /\ pc[p] = "emit"
  /\ printed' = IF RecordEnabled(taken[p], arg[p])
                THEN [printed EXCEPT ![taken[p]] = @ \cup {<<p, arg[p]>>}]
                ELSE printed
  /\ Goto(p, "idle")
  /\ UNCHANGED <<arg, slotWriter, slotReaders, slotWaiting, current, level, taken, seen>>

(* slot.SetLevel: on the logger taken, current or not.                     *)
ApplyLevel(p) ==
  /\ pc[p] = "level"
  /\ level' = [level EXCEPT ![taken[p]] = arg[p]]
  /\ Goto(p, "idle")
  /\ UNCHANGED <<arg, slotWriter, slotReaders, slotWaiting, current, taken, printed, seen>>

(* A plausible mistake in Swap: nil is stored as it is.                    *)
SwapNil(p) ==
  /\ pc[p] = "write"
  /\ current' = arg[p]
  /\ Observe(CurrentLogger')
  /\ SlotLock!Unlock(p)
  /\ Goto(p, "idle")
  /\ UNCHANGED <<arg, level, taken, printed>>

(* SetLogger: the lock is asked for and taken, then nil stands for the     *)
(* fallback.                                                               *)
SwapAnnounce(p) ==
  /\ pc[p] = "swap"
  /\ SlotLock!Announce(p)
  /\ Goto(p, "swapping")
  /\ UNCHANGED <<arg, current, level, taken, printed, seen>>

SwapLock(p) ==
  /\ pc[p] = "swapping"
  /\ SlotLock!Lock(p)
  /\ Goto(p, "write")
  /\ UNCHANGED <<arg, current, level, taken, printed, seen>>

Swap(p) ==
  /\ pc[p] = "write"
  /\ current' = IF arg[p] = Nil THEN Fallback ELSE arg[p]
  /\ Observe(CurrentLogger')
  /\ SlotLock!Unlock(p)
  /\ Goto(p, "idle")
  /\ UNCHANGED <<arg, level, taken, printed>>

================================================================================
