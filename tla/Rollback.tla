--------------------------------- MODULE Rollback ---------------------------------
(***************************************************************************)
(* The rollback of a bounded window, as doc/RECOVERY.md describes it: the  *)
(* steps RecoveryPlan derives from a window of the log are persisted with  *)
(* their positions and replayed from the last to the first, each removed   *)
(* once it is replayed.  The log is of a MySQL or PostgreSQL table, a      *)
(* MongoDB collection or a few Redis keys.                                 *)
(***************************************************************************)
EXTENDS MySQLRows, PostgresChange, MongoDocument, RedisCommand

CONSTANTS
  Drivers,      \* the backends whose logs are looked at
  MaxWrites,    \* bound on the window
  MaxCrashes    \* bound on the crashes of the rollback

VARIABLES
  product,    \* whose log it is, and the setting of its images
  store,      \* the table, collection or keys
  log,        \* the window: events, and as history the keys they changed
  trail,      \* history: the stores before the first event and after each
  pending,    \* positions of the steps still to be replayed
  state,      \* "writing", "rolling" or "refused"
  replayed,   \* the step was replayed and is not removed yet
  undone,     \* history: position of the last step that was replayed
  crashes

vars == <<product, store, log, trail, pending, state, replayed, undone, crashes>>

ASSUME BoundsAssumption == MaxWrites \in Nat /\ MaxCrashes \in Nat
ASSUME DriversAssumption == Drivers \subseteq {"mysql", "postgres", "mongo", "redis"}

Products ==
       {"mysql"} \X RowImages
  \cup {"postgres"} \X Identities
  \cup {"mongo"} \X Captures
  \cup {<<"redis", "commands">>}

Driver == product[1]
Setting == product[2]

Writes ==
  CASE Driver = "mysql"    -> MySQLWrites(store, Setting)
    [] Driver = "postgres" -> PostgresWrites(store, Setting)
    [] Driver = "mongo"    -> MongoWrites(store, Setting)
    [] Driver = "redis"    -> RedisWrites(store)

ReverseOf(event) ==
  CASE Driver = "mysql"    -> ReverseEvent(event)
    [] Driver = "postgres" -> ReverseChange(event)
    [] Driver = "mongo"    -> ReverseDocument(event)
    [] Driver = "redis"    -> ReverseCommand(event)

Replayed(operation) ==
  CASE Driver = "mysql"    -> ReplayRows(operation, store)
    [] Driver = "postgres" -> ExecuteSQL(operation, store)
    [] Driver = "mongo"    -> ExecuteCommand(operation, store)
    [] Driver = "redis"    -> Execute(operation, store)

AllStores == IF Driver = "redis" THEN Stores ELSE Tables

Init ==
  /\ product \in Products
  /\ Driver \in Drivers
  /\ store \in AllStores
  /\ log = <<>>
  /\ pending = {}
  /\ state = "writing"
  /\ trail = <<store>>
  /\ replayed = FALSE
  /\ undone = 0
  /\ crashes = 0

(* A client of the database changes it.                                    *)
Write ==
  /\ state = "writing"
  /\ Len(log) < MaxWrites
  /\ \E w \in Writes :
       /\ store' = w.after
       /\ log' = Append(log, [event |-> w.event, keys |-> w.keys, unsafe |-> w.unsafe])
       /\ trail' = Append(trail, w.after)
  /\ UNCHANGED <<product, pending, state, replayed, undone, crashes>>

(* RecoveryPlan over the window: a step for every event that has one.      *)
Plan ==
  /\ state = "writing"
  /\ state' = "rolling"
  /\ pending' = {i \in DOMAIN log : ReverseOf(log[i].event) # {}}
  /\ undone' = Len(log) + 1
  /\ UNCHANGED <<product, store, log, trail, replayed, crashes>>

Step == Max(pending)

Operations == ReverseOf(log[Step].event)

ReplayStep ==
  /\ state = "rolling"
  /\ pending # {}
  /\ ~replayed
  /\ \E operation \in Operations : store' \in Replayed(operation)
  /\ replayed' = TRUE
  /\ undone' = Step
  /\ UNCHANGED <<product, log, trail, pending, state, crashes>>

RemoveStep ==
  /\ replayed
  /\ pending' = pending \ {Step}
  /\ replayed' = FALSE
  /\ UNCHANGED <<product, store, log, trail, state, undone, crashes>>

(* The replay returns an error and the loop panics, as it would again.     *)
RefuseStep ==
  /\ state = "rolling"
  /\ pending # {}
  /\ ~replayed
  /\ \A operation \in Operations : Replayed(operation) = {}
  /\ state' = "refused"
  /\ UNCHANGED <<product, store, log, trail, pending, replayed, undone, crashes>>

(* The process dies between the replay and the removal of a step.          *)
Crash ==
  /\ replayed
  /\ crashes < MaxCrashes
  /\ replayed' = FALSE
  /\ crashes' = crashes + 1
  /\ UNCHANGED <<product, store, log, trail, pending, state, undone>>

Next == Write \/ Plan \/ ReplayStep \/ RemoveStep \/ RefuseStep \/ Crash

Spec == Init /\ [][Next]_vars

----------------------------------------------------------------------------------

(* A replay leaves a table a table, with whole rows and unique keys.       *)
TypeOK ==
  /\ product \in Products
  /\ store \in AllStores
  /\ trail \in [1..(Len(log) + 1) -> AllStores]
  /\ pending \subseteq DOMAIN log
  /\ state \in {"writing", "rolling", "refused"}
  /\ replayed \in BOOLEAN
  /\ undone \in 0..(Len(log) + 1)
  /\ crashes \in 0..MaxCrashes

(* Writes without a step, and those whose step cannot be safe.             *)
Lost == {i \in DOMAIN log : log[i].unsafe \/ ReverseOf(log[i].event) = {}}

AllKeys == IF Driver = "redis" THEN {"list", "num", "hash"} ELSE Keys

(* Keys one write touched are linked, and so are those linked with them.   *)
Closed(keys) == \A i \in DOMAIN log : log[i].keys \cap keys # {} => log[i].keys \subseteq keys

(* Keys a lost write touched, directly or by way of other writes.          *)
Tainted ==
  {k \in AllKeys : \A keys \in SUBSET AllKeys :
     Closed(keys) /\ (\A i \in Lost : log[i].keys \subseteq keys) => k \in keys}

At(s, k) == IF Driver = "redis" THEN s[k] ELSE {r \in s : r.key = k}

Untainted == AllKeys \ Tainted

(* The steps of a window, replayed from the last to the first, take every  *)
(* key back through the states it had, unless a write without a safe step  *)
(* touched it or one it is linked with; over rows and documents also when  *)
(* a crash makes the rollback replay a step again.                         *)
MatchesHistory ==
  (state # "writing" /\ (Driver = "redis" => crashes = 0)) =>
    \A k \in Untainted : At(store, k) = At(trail[undone], k)

(* A rollback gets stuck only if a crash made it repeat a step, or a write *)
(* without a safe step touched what the refused one is linked with.        *)
RefusedForCause ==
  state = "refused" => crashes > 0 \/ log[Step].keys \cap Tainted # {}

==================================================================================
