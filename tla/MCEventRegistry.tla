------------------------------ MODULE MCEventRegistry -----------------------------
(***************************************************************************)
(* The MariaDB plugin with one body of one type and one of two, a plugin   *)
(* of the program that matches every log and one whose body takes a type   *)
(* of the MariaDB plugin.                                                  *)
(***************************************************************************)
EXTENDS EventRegistry

MCTypesOf == [ rotate     |-> {"ROTATE"},
               annotate   |-> {"ANNOTATE"},
               compressed |-> {"WRITE", "DELETE"},
               custom     |-> {"CUSTOM"},
               clash      |-> {"DELETE"} ]

MCBodies == DOMAIN MCTypesOf

MCBodiesOf == [ mariadb |-> <<"annotate", "compressed">>,
                ours    |-> <<"custom">>,
                theirs  |-> <<"clash">> ]

MCPlugins == DOMAIN MCBodiesOf

MCAccepts == [ mariadb |-> {"MariaDB"}, ours |-> {"MariaDB", "MySQL"}, theirs |-> {"MariaDB", "MySQL"} ]

(* The default, and what WithEventPlugins appends to it.                   *)
MCPluginLists == {<<"mariadb">>, <<"mariadb", "ours">>, <<"mariadb", "theirs">>}

=================================================================================
