\* Of the backends three goroutines, three calls among them, one driver; of
\* the events two decoders with three lists of plugins, logs of two dialects.
SPECIFICATION RegistriesSpec
CONSTANTS
  Procs = {p1, p2, p3}
  Drivers = {d1}
  NoDriver = NoDriver
  Loggers = {l1}
  Fallback = l0
  Nil = Nil
  MaxCalls = 3
  Types = {"ROTATE", "ANNOTATE", "WRITE", "DELETE", "CUSTOM"}
  Bodies <- MCBodies
  TypesOf <- MCTypesOf
  BuiltIn = {"rotate"}
  Extra = {"clash"}
  Plugins <- MCPlugins
  BodiesOf <- MCBodiesOf
  Dialects = {"MariaDB", "MySQL"}
  Accepts <- MCAccepts
  PluginLists <- MCPluginLists
  Decoders = {decoder1, decoder2}
  Default = default
  None = none
INVARIANTS
  TypeOK
  OpenFindsRegistered
  BodiesStay
  PluginsWhole
PROPERTIES
  NeverReplaced
  PrintedWhereCurrent
  CallsReturn
