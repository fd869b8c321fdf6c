----------------------- MODULE MCStatefulSetRestarter ------------------------
(***************************************************************************)
(* Instances of StatefulSetRestarter for TLC: a ConfigMap and a Secret,    *)
(* or a ConfigMap alone.                                                   *)
(***************************************************************************)
EXTENDS StatefulSetRestarter

CONSTANTS cm, secret

KindMap == [o \in Objects |-> IF o = cm THEN "ConfigMap" ELSE "Secret"]
Ref(o, s) == [obj |-> o, site |-> s]

\* Both objects are used, one as a volume and one in the environment.
BothUsed == {{Ref(cm, "volume"), Ref(secret, "envFrom")}}
\* A single ConfigMap, in the environment or inside a projected volume.
CmEnv == {{Ref(cm, "env")}}
CmProjected == {{Ref(cm, "projected")}}

NothingIgnored == {{}}
CmMayBeIgnored == {{}, {cm}}

\* A scenario: changes of the ConfigMap and of the Secret, incarnations, and edits,
\* lost watches, unanswered patches and crashes.
Budget(cms, secrets, uids, edits, relists, timeouts, restarts) ==
    [log |-> [o \in Objects |-> IF o = cm THEN cms ELSE secrets], uid |-> uids,
     used |-> [d \in Disturbances |-> CASE d = "edit" -> edits [] d = "relist" -> relists
                                        [] d = "timeout" -> timeouts [] d = "restart" -> restarts]]

\* Deletions and re-creations with a late patch or a crash; two objects and a relist;
\* a late patch around a crash.
SafetyBudgets == {Budget(2, 0, 2, 0, 0, 1, 0), Budget(2, 0, 2, 0, 0, 0, 1),
                  Budget(2, 1, 1, 0, 1, 0, 0), Budget(2, 0, 1, 0, 0, 1, 1)}
\* An edit, alone or around a failing patch; a failing patch; a relist and a crash.
LivenessBudgets == {Budget(2, 0, 1, 1, 0, 0, 0), Budget(1, 0, 1, 1, 0, 1, 0),
                    Budget(2, 0, 1, 0, 0, 1, 0), Budget(2, 0, 1, 0, 1, 0, 1)}
OneChange == {Budget(1, 0, 1, 0, 0, 0, 0)}
OneRestart == {Budget(1, 0, 1, 0, 0, 0, 1)}
==============================================================================
