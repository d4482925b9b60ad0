------------------------------- MODULE RedisCommand -------------------------------
(***************************************************************************)
(* The compensating commands of redis/decode/events/types/command.go, and  *)
(* the keys whose changes they undo: a list, a counter and a counter in a  *)
(* hash.  A counter that is not there is 0.  Floating point increments     *)
(* share the code of HINCRBY and are left out.                             *)
(***************************************************************************)
EXTENDS Integers, Sequences, SequencesExt, FiniteSets

CONSTANTS
  Elements,  \* elements of the list
  MaxList,   \* bound on its length
  Width      \* integers go from -Width to Width - 1

ASSUME WidthAssumption == Width \in Nat \ {0} /\ MaxList \in Nat

Lowest  == -Width
Highest == Width - 1
Ints    == Lowest..Highest

Stores == [list : SeqOf(Elements, MaxList), num : Ints, hash : Ints]

(* An integer as the text of an argument.                                  *)
Text(n) == [negative |-> n < 0, digits |-> IF n < 0 THEN -n ELSE n]

(* Redis takes the text of an integer in range, and not "-0".              *)
IsInteger(text) ==
  IF text.negative THEN text.digits \in 1..Width ELSE text.digits \in 0..Highest

NumberOf(text) == IF text.negative THEN -text.digits ELSE text.digits

Push(name, values)  == [name |-> name, values |-> values, count |-> 0, delta |-> Text(0)]
Pop(name, count)    == [name |-> name, values |-> <<>>, count |-> count, delta |-> Text(0)]
Count(name, delta)  == [name |-> name, values |-> <<>>, count |-> 0, delta |-> delta]

(* negateNumericDelta works on the text.                                   *)
Negate(delta) == [delta EXCEPT !.negative = ~@]

(* Command.Reverse                                                         *)
ReverseCommand(c) ==
  CASE c.name = "lpush"   -> IF c.values = <<>> THEN {} ELSE {Pop("lpop", Len(c.values))}
    [] c.name = "rpush"   -> IF c.values = <<>> THEN {} ELSE {Pop("rpop", Len(c.values))}
    [] c.name = "incr"    -> {Count("decr", c.delta)}
    [] c.name = "decr"    -> {Count("incr", c.delta)}
    [] c.name = "incrby"  -> {Count("decrby", c.delta)}
    [] c.name = "decrby"  -> {Count("incrby", c.delta)}
    [] c.name = "hincrby" -> {Count("hincrby", Negate(c.delta))}
    [] OTHER -> {}

(* What a command adds to a counter.  DECRBY cannot negate the lowest.     *)
Added(c) ==
  CASE c.name = "incr" -> {1}
    [] c.name = "decr" -> {-1}
    [] c.name \in {"incrby", "hincrby"} -> {NumberOf(t) : t \in {u \in {c.delta} : IsInteger(u)}}
    [] c.name = "decrby" ->
         {-NumberOf(t) : t \in {u \in {c.delta} : IsInteger(u) /\ NumberOf(u) # Lowest}}

(* The counter after a command: none when Redis refuses it.                *)
Counted(c, n) == {m \in {n + d : d \in Added(c)} : m \in Ints}

Least(m, n) == IF m < n THEN m ELSE n

(* Redis executes a command: no store when it refuses.                     *)
Execute(c, s) ==
  CASE c.name = "lpush" -> {[s EXCEPT !.list = Reverse(c.values) \o @]}
    [] c.name = "rpush" -> {[s EXCEPT !.list = @ \o c.values]}
    [] c.name = "lpop"  -> {[s EXCEPT !.list = SubSeq(@, Least(c.count, Len(@)) + 1, Len(@))]}
    [] c.name = "rpop"  -> {[s EXCEPT !.list = SubSeq(@, 1, Len(@) - Least(c.count, Len(@)))]}
    [] c.name = "set"   -> {[s EXCEPT !.num = NumberOf(c.delta)]}
    [] c.name = "hincrby" -> {[s EXCEPT !.hash = n] : n \in Counted(c, s.hash)}
    [] OTHER -> {[s EXCEPT !.num = n] : n \in Counted(c, s.num)}

KeyOf(c) ==
  CASE c.name \in {"lpush", "rpush", "lpop", "rpop"} -> "list"
    [] c.name = "hincrby" -> "hash"
    [] OTHER -> "num"

Commands ==
       {Push(name, values) : name \in {"lpush", "rpush"}, values \in SeqOf(Elements, 2) \ {<<>>}}
  \cup {Pop("lpop", 1)}
  \cup {Count(name, Text(1)) : name \in {"incr", "decr"}}
  \cup {Count(name, Text(n)) : name \in {"set", "incrby", "decrby", "hincrby"}, n \in Ints}

(* The opposite of these is no command: DECRBY of the lowest integer, and  *)
(* HINCRBY of one whose text cannot be negated.                            *)
HasNoOpposite(c) ==
  \/ c.name = "incrby" /\ NumberOf(c.delta) = Lowest
  \/ c.name = "hincrby" /\ NumberOf(c.delta) \in {0, Lowest}

RedisWrites(s) ==
  UNION {{[ event |-> c, after |-> after, keys |-> {KeyOf(c)}, unsafe |-> HasNoOpposite(c) ]
          : after \in Execute(c, s) \cap Stores} : c \in Commands}

==================================================================================
