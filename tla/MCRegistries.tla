------------------------------- MODULE MCRegistries -------------------------------
(***************************************************************************)
(* The two registries of the program, checked in one run: RootPackage and  *)
(* EventRegistry share no variable and neither calls the other, so that a  *)
(* behaviour is one of the first beside an untouched second or the other   *)
(* way round.                                                              *)
(***************************************************************************)
EXTENDS RootPackage, MCEventRegistry

VARIABLE part   \* the registry whose calls this behaviour makes

RegistriesInit == Init /\ EventInit /\ part \in {"backends", "events"}

RegistriesNext ==
  \/ part = "backends" /\ Next /\ UNCHANGED <<eventVars, part>>
  \/ part = "events" /\ EventNext /\ UNCHANGED <<vars, part>>

(* RootPackage's fairness: a goroutine inside a call is scheduled.         *)
RegistriesSpec ==
  /\ RegistriesInit
  /\ [][RegistriesNext]_<<vars, eventVars, part>>
  /\ \A p \in Procs : WF_vars(Step(p))

===================================================================================
