----------------------------- MODULE MCServices -----------------------------
(* Four services that share no state, checked in one run: a behaviour is   *)
(* one of the desktop runtime, of the lookup cache, of panel sessions or   *)
(* of the local labs.                                                      *)
EXTENDS RuntimeInstall, LookupCache, PanelSession, MCLocalLabs

CONSTANTS a, b, c, k1, k2
HomeDef == [t \in {a, b, c} |-> IF t = c THEN "worker" ELSE "panel"]
AskedDef == [t \in {a, b, c} |-> IF t = b THEN {k2} ELSE {k1}]

VARIABLE service
vars == <<service, runtimeVars, lookupVars, sessionVars, labVars>>

Init == /\ service \in {"runtime", "cache", "session", "labs"}
        /\ RuntimeInit /\ LookupInit /\ SessionInit /\ LabsInit
Next ==
  \/ service = "runtime" /\ RuntimeNext /\ UNCHANGED <<service, lookupVars, sessionVars, labVars>>
  \/ service = "cache" /\ LookupNext /\ UNCHANGED <<service, runtimeVars, sessionVars, labVars>>
  \/ service = "session" /\ SessionNext /\ UNCHANGED <<service, runtimeVars, lookupVars, labVars>>
  \/ service = "labs" /\ LabsNext /\ OneLab /\ UNCHANGED <<service, runtimeVars, lookupVars, sessionVars>>
Spec == Init /\ [][Next]_vars
FairSpec == Spec /\ (service = "labs" => LabsFairness)
=============================================================================
