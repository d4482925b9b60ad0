------------------------------ MODULE EventRegistry ------------------------------
(***************************************************************************)
(* mysql/decode/events/types/base_event_factory.go and its use by the      *)
(* MySQL decoders: which body decodes an event of a type.  The package     *)
(* fills a default registry, each decoder works on a copy of it, and the   *)
(* plugins of a decoder add their bodies to the copy when a format         *)
(* description says what wrote the log.  Decoders run in goroutines of     *)
(* their own; the program may add bodies to the default registry between   *)
(* opening them.                                                           *)
(***************************************************************************)
EXTENDS Integers, Sequences

CONSTANTS
  Types,          \* event types, the format description aside
  Bodies,         \* implementations of EventBody
  TypesOf,        \* GetEventType() of each
  BuiltIn,        \* bodies the package registers in its init functions
  Extra,          \* bodies the program registers with types.Register
  Plugins,
  BodiesOf,       \* the bodies a plugin registers, in its order
  Dialects,       \* what MySQLVersion of a format description may tell
  Accepts,        \* dialects each plugin matches
  PluginLists,    \* Option.EventPlugins a decoder may be given
  Decoders,
  Default,        \* defaultEventRegistry
  None            \* no body, or no dialect yet

ASSUME BodiesAssumption ==
  /\ None \notin Bodies \cup Dialects
  /\ TypesOf \in [Bodies -> SUBSET Types]
  /\ BuiltIn \subseteq Bodies /\ Extra \subseteq Bodies
  /\ \A b, c \in BuiltIn : b # c => TypesOf[b] \cap TypesOf[c] = {}

ASSUME PluginsAssumption ==
  /\ BodiesOf \in [Plugins -> Seq(Bodies)]
  /\ Accepts \in [Plugins -> SUBSET Dialects]
  /\ PluginLists \subseteq Seq(Plugins)
  /\ Default \notin Decoders

VARIABLES
  registries,   \* the maps "decoders" of the registries there are
  registryOf,   \* the registry a decoder refers to; its own name stands for
                \* the one allocated for it, None for a decoder not opened
  origin,       \* history: the default registry when the decoder was opened
  plugins,      \* Option.EventPlugins of each decoder
  description,  \* the dialect of the last format description
  turn,         \* where applyEventPlugins stands: a plugin and one of its bodies
  status,       \* "reading", "applying" or "failed"
  applied,      \* pluginsApplied
  appliedTo,    \* history: the dialect they were applied for
  last          \* history: the last event decoded, with the body it was given to

eventVars == <<registries, registryOf, origin, plugins, description, turn, status,
               applied, appliedTo, last>>

Registry == [Types -> Bodies \cup {None}]

(* The init functions of the package.                                      *)
Initial == [t \in Types |-> IF \E b \in BuiltIn : t \in TypesOf[b]
                            THEN CHOOSE b \in BuiltIn : t \in TypesOf[b]
                            ELSE None]

Empty == [t \in Types |-> None]

EventInit ==
  /\ registries = [id \in Decoders \cup {Default} |-> IF id = Default THEN Initial ELSE Empty]
  /\ registryOf = [d \in Decoders |-> None]
  /\ origin = [d \in Decoders |-> Empty]
  /\ plugins = [d \in Decoders |-> <<>>]
  /\ description = [d \in Decoders |-> None]
  /\ turn = [d \in Decoders |-> <<1, 1>>]
  /\ status = [d \in Decoders |-> "reading"]
  /\ applied = [d \in Decoders |-> FALSE]
  /\ appliedTo = [d \in Decoders |-> None]
  /\ last = [d \in Decoders |-> <<>>]

(* EventRegistry.Register: all types of a body are free, or none is taken. *)
Free(r, b) == \A t \in TypesOf[b] : r[t] = None

With(r, b) == [t \in Types |-> IF t \in TypesOf[b] THEN b ELSE r[t]]

(* types.Register, called by the program.                                  *)
RegisterDefault(b) ==
  /\ b \in Extra
  /\ Free(registries[Default], b)
  /\ registries' = [registries EXCEPT ![Default] = With(@, b)]
  /\ UNCHANGED <<registryOf, origin, plugins, description, turn, status, applied, appliedTo, last>>

(* A plausible mistake in Open: the default registry is not cloned.        *)
OpenShared(d) ==
  /\ registryOf[d] = None
  /\ registryOf' = [registryOf EXCEPT ![d] = Default]
  /\ origin' = [origin EXCEPT ![d] = registries[Default]]
  /\ \E list \in PluginLists : plugins' = [plugins EXCEPT ![d] = list]
  /\ UNCHANGED <<registries, description, turn, status, applied, appliedTo, last>>

(* A decoder is created: NewEventContext clones the default registry.      *)
Open(d) ==
  /\ registryOf[d] = None
  /\ registryOf' = [registryOf EXCEPT ![d] = d]
  /\ registries' = [registries EXCEPT ![d] = registries[Default]]
  /\ origin' = [origin EXCEPT ![d] = registries[Default]]
  /\ \E list \in PluginLists : plugins' = [plugins EXCEPT ![d] = list]
  /\ UNCHANGED <<description, turn, status, applied, appliedTo, last>>

Lookup(d) == registries[registryOf[d]]

(* DecodeEvent of a type the registry has a body for; any other type is    *)
(* refused or kept as a MetadataEvent, and nothing is remembered of it.    *)
DecodeBody(d, t) ==
  /\ registryOf[d] # None
  /\ status[d] # "applying"
  /\ Lookup(d)[t] # None
  /\ last' = [last EXCEPT ![d] = <<t, Lookup(d)[t]>>]
  /\ status' = [status EXCEPT ![d] = "reading"]
  /\ UNCHANGED <<registries, registryOf, origin, plugins, description, turn, applied, appliedTo>>

(* A plausible mistake in DecodeDescription: the plugins count as applied  *)
(* before they are.                                                        *)
DecodeDescriptionEarly(d, dialect) ==
  /\ registryOf[d] # None
  /\ status[d] # "applying"
  /\ description' = [description EXCEPT ![d] = dialect]
  /\ turn' = [turn EXCEPT ![d] = <<1, 1>>]
  /\ status' = [status EXCEPT ![d] = IF applied[d] \/ plugins[d] = <<>> THEN "reading" ELSE "applying"]
  /\ applied' = [applied EXCEPT ![d] = TRUE]
  /\ appliedTo' = [appliedTo EXCEPT ![d] = dialect]
  /\ UNCHANGED <<registries, registryOf, origin, plugins, last>>

(* DecodeEvent of a format description, up to applyEventPlugins, which     *)
(* returns at once when the plugins are applied or there are none.         *)
DecodeDescription(d, dialect) ==
  /\ registryOf[d] # None
  /\ status[d] # "applying"
  /\ description' = [description EXCEPT ![d] = dialect]
  /\ turn' = [turn EXCEPT ![d] = <<1, 1>>]
  /\ status' = [status EXCEPT ![d] = IF applied[d] \/ plugins[d] = <<>> THEN "reading" ELSE "applying"]
  /\ UNCHANGED <<registries, registryOf, origin, plugins, applied, appliedTo, last>>

(* The loop over the plugins, and in a plugin's Register over its bodies.  *)
PluginsLeft(d) == turn[d][1] <= Len(plugins[d])

Plugin(d) == plugins[d][turn[d][1]]

BodiesLeft(d) ==
  /\ PluginsLeft(d)
  /\ description[d] \in Accepts[Plugin(d)]
  /\ turn[d][2] <= Len(BodiesOf[Plugin(d)])

Body(d) == BodiesOf[Plugin(d)][turn[d][2]]

RegisterBody(d) ==
  /\ status[d] = "applying"
  /\ BodiesLeft(d)
  /\ Free(Lookup(d), Body(d))
  /\ registries' = [registries EXCEPT ![registryOf[d]] = With(@, Body(d))]
  /\ turn' = [turn EXCEPT ![d] = <<@[1], @[2] + 1>>]
  /\ UNCHANGED <<registryOf, origin, plugins, description, status, applied, appliedTo, last>>

(* ErrEventTypeRegistered ends the loops and is what Events() yields; the  *)
(* bodies registered so far stay.  The caller may go on after it.          *)
RefuseBody(d) ==
  /\ status[d] = "applying"
  /\ BodiesLeft(d)
  /\ ~Free(Lookup(d), Body(d))
  /\ status' = [status EXCEPT ![d] = "failed"]
  /\ UNCHANGED <<registries, registryOf, origin, plugins, description, turn, applied, appliedTo, last>>

(* A plugin that does not match, or whose bodies are all registered.       *)
NextPlugin(d) ==
  /\ status[d] = "applying"
  /\ PluginsLeft(d)
  /\ ~BodiesLeft(d)
  /\ turn' = [turn EXCEPT ![d] = <<@[1] + 1, 1>>]
  /\ UNCHANGED <<registries, registryOf, origin, plugins, description, status, applied, appliedTo, last>>

FinishPlugins(d) ==
  /\ status[d] = "applying"
  /\ ~PluginsLeft(d)
  /\ applied' = [applied EXCEPT ![d] = TRUE]
  /\ appliedTo' = [appliedTo EXCEPT ![d] = description[d]]
  /\ status' = [status EXCEPT ![d] = "reading"]
  /\ UNCHANGED <<registries, registryOf, origin, plugins, description, turn, last>>

EventNext ==
  \/ \E b \in Bodies : RegisterDefault(b)
  \/ \E d \in Decoders :
       \/ Open(d)
       \/ \E t \in Types : DecodeBody(d, t)
       \/ \E dialect \in Dialects : DecodeDescription(d, dialect)
       \/ RegisterBody(d) \/ RefuseBody(d) \/ NextPlugin(d) \/ FinishPlugins(d)

EventSpec == EventInit /\ [][EventNext]_eventVars

----------------------------------------------------------------------------------
EventTypeOK ==
  /\ registries \in [Decoders \cup {Default} -> Registry]
  /\ registryOf \in [Decoders -> Decoders \cup {None, Default}]
  /\ origin \in [Decoders -> Registry]
  /\ plugins \in [Decoders -> PluginLists \cup {<<>>}]
  /\ description \in [Decoders -> Dialects \cup {None}]
  /\ turn \in [Decoders -> (Nat \ {0}) \X (Nat \ {0})]
  /\ status \in [Decoders -> {"reading", "applying", "failed"}]
  /\ applied \in [Decoders -> BOOLEAN]
  /\ appliedTo \in [Decoders -> Dialects \cup {None}]
  /\ last \in [Decoders -> {<<>>} \cup (Types \X Bodies)]

Elements(seq) == {seq[i] : i \in DOMAIN seq}

(* Bodies the plugins of a decoder may add to its registry.                *)
Own(d) == UNION {Elements(BodiesOf[p]) : p \in Elements(plugins[d])}

BodiesFrom(d) ==
  \A t \in Types : IF origin[d][t] # None THEN Lookup(d)[t] = origin[d][t]
                                          ELSE Lookup(d)[t] \in Own(d) \cup {None}

(* What decodes an event depends on the decoder it is read with and on     *)
(* nothing that happens later: the body is the one the default registry    *)
(* had when the decoder was opened, else one of the decoder's own plugins, *)
(* and events of a type go to the same body for good, over any number of   *)
(* format descriptions and whatever others register.                       *)
BodiesStay ==
  \A d \in Decoders : registryOf[d] # None =>
    /\ BodiesFrom(d)
    /\ last[d] # <<>> => Lookup(d)[last[d][1]] = last[d][2]

Whole(r, b) == \A t \in TypesOf[b] : r[t] = b

AllWhole(r) == \A t \in Types : r[t] # None => Whole(r, r[t])

PluginIn(d, p, dialect) ==
  dialect \in Accepts[p] => \A b \in Elements(BodiesOf[p]) : Whole(Lookup(d), b)

(* A body has all of its types in a registry or none of them, also when a  *)
(* plugin failed half way; and a decoder takes its plugins for applied     *)
(* only when each one that accepts the log has all of its bodies in place. *)
PluginsWhole ==
  /\ \A id \in DOMAIN registries : AllWhole(registries[id])
  /\ \A d \in Decoders : applied[d] =>
       \A p \in Elements(plugins[d]) : PluginIn(d, p, appliedTo[d])

=================================================================================
