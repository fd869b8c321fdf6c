---------------------------- MODULE MCAutoRetry ----------------------------
(***************************************************************************)
(* Command lines for TLC: the defaults; parallel retries only; serial      *)
(* retries only, with namespaces deleted.  Bounds: a run that is resumed   *)
(* and rerun, with one failure; one that is resumed, with a log that names *)
(* no namespace; and two full runs with a resume of one of them.           *)
(***************************************************************************)
EXTENDS AutoRetry

DefaultConfig == {[parallel |-> 1, serial |-> 2, delete |-> FALSE]}

AllConfigs == DefaultConfig \cup
    {[parallel |-> 2, serial |-> 0, delete |-> FALSE],
     [parallel |-> 0, serial |-> 1, delete |-> TRUE]}

Budget(resumes, reruns, fullRuns, errors, nameless) ==
    [d \in Disturbances |-> CASE d = "resume" -> resumes [] d = "rerun" -> reruns
                              [] d = "full" -> fullRuns [] d = "error" -> errors
                              [] d = "nameless" -> nameless]

OneResume == {Budget(1, 0, 0, 0, 0)}

SomeBudgets == {Budget(1, 1, 0, 1, 0), Budget(1, 0, 0, 0, 1), Budget(1, 0, 1, 0, 0)}
=============================================================================
