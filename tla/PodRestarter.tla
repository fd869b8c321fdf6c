---------------------------- MODULE PodRestarter -----------------------------
(***************************************************************************)
(* restart_controller/pod.rs: a controller that evicts a pod once one of   *)
(* its restarter.stackable.tech/expires-at.* annotations lies in the past, *)
(* and until then has itself called again at the earliest of them.         *)
(*                                                                         *)
(* A pod is known to the controller by its name: the workload controller   *)
(* replaces an evicted pod by a new one of the same name.  Times are       *)
(* natural numbers; an annotation that is not an RFC 3339 time is Bad.     *)
(*                                                                         *)
(* External: the API server (watch, eviction, PodDisruptionBudget), the    *)
(* kube-runtime Controller (reflector store, one reconcile per object at a *)
(* time, a scheduler that keeps the earliest time asked for) and the       *)
(* workload controller.                                                    *)
(***************************************************************************)
EXTENDS Integers, FiniteSets

CONSTANTS
    Pods,           \* pod names, all under one PodDisruptionBudget
    Expiries,       \* the sets of expires-at values a pod may carry
    Bad,            \* an unparsable value
    None,           \* no pod, nothing scheduled
    RetryDelay,     \* error_policy: 5 s
    MinAvailable,   \* of the PodDisruptionBudget
    MaxTime,        \* bound: the clock stops here
    MaxDisturbances,\* bound: deletions and edits by users, lost answers, restarts
    EditsAllowed    \* bound: whether users change expiry annotations

ASSUME ConstantsAssumption ==
    /\ None \notin Nat /\ Bad \notin Nat
    /\ Expiries \subseteq SUBSET ({Bad} \cup Nat)
    /\ IsFiniteSet(Pods) /\ MinAvailable \in Nat
    /\ RetryDelay \in Nat /\ MaxTime \in Nat /\ MaxDisturbances \in Nat
    /\ EditsAllowed \in BOOLEAN

VARIABLES
    now,        \* the clock
    pod,        \* pod[p]: the pod of name p in the API server, or None
    news,       \* news[p]: the watch has not delivered the last change of p
    store,      \* store[p]: the pod in the reflector store, or None
    due,        \* due[p]: when p is to be reconciled, or None
    evicting,   \* evicting[p]: reconcile awaits the answer of an eviction of p
    late,       \* pods with an eviction under way that nobody awaits any more
    disturbances

vars == <<now, pod, news, store, due, evicting, late, disturbances>>

Pod == [expires : Expiries, deleting : BOOLEAN]

TypeOK ==
    /\ now \in 0..MaxTime
    /\ pod \in [Pods -> {None} \cup Pod]
    /\ news \in [Pods -> BOOLEAN]
    /\ store \in [Pods -> {None} \cup Pod]
    /\ due \in [Pods -> {None} \cup 0..MaxTime]
    /\ evicting \in [Pods -> BOOLEAN]
    /\ late \subseteq Pods
    /\ disturbances \in 0..MaxDisturbances

\* The controller starts beside pods that exist already.
Init ==
    /\ now = 0
    /\ pod \in [Pods -> {[expires |-> e, deleting |-> FALSE] : e \in Expiries}]
    /\ news = [p \in Pods |-> TRUE]
    /\ store = [p \in Pods |-> None]
    /\ due = [p \in Pods |-> None]
    /\ evicting = [p \in Pods |-> FALSE]
    /\ late = {}
    /\ disturbances = 0
------------------------------------------------------------------------------
(***************************************************************************)
(* The scheduler and the clock.  Times after the end of the clock are      *)
(* brought forward to it.                                                  *)
(***************************************************************************)
Tick ==
    /\ now < MaxTime
    /\ now' = now + 1
    /\ UNCHANGED <<pod, news, store, due, evicting, late, disturbances>>

After(d) == IF now + d > MaxTime THEN MaxTime ELSE now + d

\* A request for p at time t; an earlier one that is pending stays.
Schedule(p, t) ==
    due' = [due EXCEPT ![p] = IF @ # None /\ @ <= t THEN @ ELSE t]

\* A watch event: the store follows, and an applied object is reconciled at once.
PodEvent(p) ==
    /\ news[p]
    /\ news' = [news EXCEPT ![p] = FALSE]
    /\ store' = [store EXCEPT ![p] = pod[p]]
    /\ IF pod[p] = None THEN due' = due ELSE Schedule(p, now)
    /\ UNCHANGED <<now, pod, evicting, late, disturbances>>
------------------------------------------------------------------------------
(***************************************************************************)
(* reconcile.                                                              *)
(***************************************************************************)
\* The runner takes the due request of p, unless a reconcile of p is running.
Starts(p) == due[p] # None /\ due[p] <= now /\ ~evicting[p]

\* t is the soonest of the expiries e: min_by_key over the parsed annotations.
Earliest(t, e) == t \in e /\ \A u \in e : t <= u

\* What reconcile leaves alone.
reconcileFrame == <<now, pod, news, store, late, disturbances>>

\* The pod is gone from the store, is being deleted or has no expiry annotation:
\* Action::await_change.
ReconcileIgnored(p) ==
    /\ Starts(p)
    /\ store[p] # None => store[p].deleting \/ store[p].expires = {}
    /\ due' = [due EXCEPT ![p] = None]
    /\ UNCHANGED <<evicting, reconcileFrame>>

\* "Prefer propagating errors": one unparsable annotation fails the reconcile.
ReconcileUnparsable(p) ==
    /\ Starts(p)
    /\ store[p] # None /\ ~store[p].deleting
    /\ Bad \in store[p].expires
    /\ due' = [due EXCEPT ![p] = After(RetryDelay)]
    /\ UNCHANGED <<evicting, reconcileFrame>>

\* Mutant: the remaining time, whatever its sign, is taken for the time of the next check.
ReconcileValidUnsigned(p) ==
    /\ Starts(p)
    /\ store[p] # None /\ ~store[p].deleting
    /\ Bad \notin store[p].expires
    /\ \E t \in store[p].expires :
          /\ Earliest(t, store[p].expires)
          /\ due' = [due EXCEPT ![p] = t - now]
    /\ UNCHANGED <<evicting, reconcileFrame>>

\* Mutant: max_by_key, the pod is checked again at its latest expiry.
ReconcileValidLatest(p) ==
    /\ Starts(p)
    /\ store[p] # None /\ ~store[p].deleting
    /\ Bad \notin store[p].expires
    /\ \E t \in store[p].expires :
          /\ \A u \in store[p].expires : u <= t
          /\ t - now >= 0
          /\ due' = [due EXCEPT ![p] = After(t - now)]
    /\ UNCHANGED <<evicting, reconcileFrame>>

\* Pod still valid: Action::requeue(time_until_pod_expires).
ReconcileValid(p) ==
    /\ Starts(p)
    /\ store[p] # None /\ ~store[p].deleting
    /\ Bad \notin store[p].expires
    /\ \E t \in store[p].expires :
          /\ Earliest(t, store[p].expires)
          /\ t - now >= 0
          /\ due' = [due EXCEPT ![p] = After(t - now)]
    /\ UNCHANGED <<evicting, reconcileFrame>>

\* Mutant: the sign of the remaining time is lost.
ReconcileExpiredAbs(p) ==
    /\ Starts(p)
    /\ store[p] # None /\ ~store[p].deleting
    /\ Bad \notin store[p].expires
    /\ \E t \in store[p].expires : Earliest(t, store[p].expires) /\ t - now # 0
    /\ due' = [due EXCEPT ![p] = None]
    /\ evicting' = [evicting EXCEPT ![p] = TRUE]
    /\ UNCHANGED reconcileFrame

\* The pod has expired: reconcile sends an eviction of that name and awaits the answer.
ReconcileExpired(p) ==
    /\ Starts(p)
    /\ store[p] # None /\ ~store[p].deleting
    /\ Bad \notin store[p].expires
    /\ \E t \in store[p].expires : Earliest(t, store[p].expires) /\ t - now < 0
    /\ due' = [due EXCEPT ![p] = None]
    /\ evicting' = [evicting EXCEPT ![p] = TRUE]
    /\ UNCHANGED reconcileFrame

\* The PodDisruptionBudget allows one more of the healthy pods to go.
Running(p) == pod[p] # None /\ ~pod[p].deleting
Healthy == {p \in Pods : Running(p)}
DisruptionAllowed == Cardinality(Healthy) > MinAvailable

\* A pod is marked for deletion.
MarkDeleting(p) ==
    /\ pod' = [pod EXCEPT ![p].deleting = TRUE]
    /\ news' = [news EXCEPT ![p] = TRUE]

\* Mutant: the pod is deleted, whatever its disruption budget says.
EvictedByDeletion(p) ==
    /\ evicting[p]
    /\ pod[p] # None
    /\ MarkDeleting(p)
    /\ evicting' = [evicting EXCEPT ![p] = FALSE]
    /\ UNCHANGED <<now, store, due, late, disturbances>>

\* The API server evicts the pod of that name: Action::await_change.
Evicted(p) ==
    /\ evicting[p]
    /\ pod[p] # None
    /\ ~pod[p].deleting => DisruptionAllowed
    /\ MarkDeleting(p)
    /\ evicting' = [evicting EXCEPT ![p] = FALSE]
    /\ UNCHANGED <<now, store, due, late, disturbances>>

\* Mutant: a refused eviction is not tried again.
EvictRefusedForGood(p) ==
    /\ evicting[p]
    /\ pod[p] # None => ~pod[p].deleting /\ ~DisruptionAllowed
    /\ evicting' = [evicting EXCEPT ![p] = FALSE]
    /\ UNCHANGED <<now, pod, news, store, due, late, disturbances>>

\* 404, or 429 by the PodDisruptionBudget: error_policy asks again after 5 s.
EvictRefused(p) ==
    /\ evicting[p]
    /\ pod[p] # None => ~pod[p].deleting /\ ~DisruptionAllowed
    /\ evicting' = [evicting EXCEPT ![p] = FALSE]
    /\ Schedule(p, After(RetryDelay))
    /\ UNCHANGED <<now, pod, news, store, late, disturbances>>

\* No answer comes: error_policy asks again after 5 s, whatever became of the eviction.
EvictUnanswered(p) ==
    /\ evicting[p] /\ disturbances < MaxDisturbances
    /\ evicting' = [evicting EXCEPT ![p] = FALSE]
    /\ late' = late \cup {p}
    /\ Schedule(p, After(RetryDelay))
    /\ disturbances' = disturbances + 1
    /\ UNCHANGED <<now, pod, news, store>>

\* The operator restarts: its store and its timers are gone, and the first list delivers
\* every pod anew.  An eviction it had sent is still under way.
OperatorRestart ==
    /\ disturbances < MaxDisturbances
    /\ news' = [p \in Pods |-> TRUE]
    /\ store' = [p \in Pods |-> None]
    /\ due' = [p \in Pods |-> None]
    /\ evicting' = [p \in Pods |-> FALSE]
    /\ late' = late \cup {p \in Pods : evicting[p]}
    /\ disturbances' = disturbances + 1
    /\ UNCHANGED <<now, pod>>

\* The API server carries out an eviction that nobody awaits, or refuses it.
LateEviction(p) ==
    /\ p \in late
    /\ late' = late \ {p}
    /\ \/ pod[p] # None /\ DisruptionAllowed /\ MarkDeleting(p)
       \/ UNCHANGED <<pod, news>>
    /\ UNCHANGED <<now, store, due, evicting, disturbances>>
------------------------------------------------------------------------------
(***************************************************************************)
(* The cluster around the controller.                                      *)
(***************************************************************************)
\* A pod that is being deleted disappears.
PodGone(p) ==
    /\ pod[p] # None /\ pod[p].deleting
    /\ pod' = [pod EXCEPT ![p] = None]
    /\ news' = [news EXCEPT ![p] = TRUE]
    /\ UNCHANGED <<now, store, due, evicting, late, disturbances>>

\* The workload controller makes a new pod of that name, which has not expired.
PodReplaced(p, e) ==
    /\ pod[p] = None
    /\ \A t \in e \ {Bad} : t >= now
    /\ pod' = [pod EXCEPT ![p] = [expires |-> e, deleting |-> FALSE]]
    /\ news' = [news EXCEPT ![p] = TRUE]
    /\ UNCHANGED <<now, store, due, evicting, late, disturbances>>

\* Any other change of a pod is an event too: its status, or the condition that the
\* eviction itself puts on the pod before it is deleted.
PodTouched(p) ==
    /\ pod[p] # None
    /\ ~news[p]
    /\ news' = [news EXCEPT ![p] = TRUE]
    /\ UNCHANGED <<now, pod, store, due, evicting, late, disturbances>>

\* A user deletes the pod...
UserDeletes(p) ==
    /\ pod[p] # None /\ disturbances < MaxDisturbances
    /\ ~pod[p].deleting
    /\ MarkDeleting(p)
    /\ disturbances' = disturbances + 1
    /\ UNCHANGED <<now, store, due, evicting, late>>

\* ... or changes its annotations.
UserAnnotates(p, e) ==
    /\ EditsAllowed
    /\ pod[p] # None /\ disturbances < MaxDisturbances
    /\ pod[p].expires # e
    /\ pod' = [pod EXCEPT ![p].expires = e]
    /\ news' = [news EXCEPT ![p] = TRUE]
    /\ disturbances' = disturbances + 1
    /\ UNCHANGED <<now, store, due, evicting, late>>

Reconcile(p) == \/ ReconcileIgnored(p) \/ ReconcileUnparsable(p)
                \/ ReconcileValid(p) \/ ReconcileExpired(p)

Next ==
    \/ Tick \/ OperatorRestart
    \/ \E p \in Pods : \/ PodEvent(p) \/ Reconcile(p)
                       \/ Evicted(p) \/ EvictRefused(p) \/ EvictUnanswered(p)
                       \/ LateEviction(p) \/ PodGone(p) \/ PodTouched(p) \/ UserDeletes(p)
    \/ \E p \in Pods, e \in Expiries : PodReplaced(p, e) \/ UserAnnotates(p, e)

Spec == Init /\ [][Next]_vars

(***************************************************************************)
(* Fairness: the clock runs, events are delivered, due reconciles run,     *)
(* evictions are answered, deletions finish and pods are replaced.         *)
(* Nothing makes users act, answers get lost or the operator restart, and  *)
(* a request that nobody awaits need not arrive.                           *)
(***************************************************************************)
Fairness ==
    /\ WF_vars(Tick)
    /\ \A p \in Pods : /\ WF_vars(PodEvent(p)) /\ WF_vars(Reconcile(p))
                       /\ WF_vars(Evicted(p)) /\ WF_vars(EvictRefused(p))
                       /\ WF_vars(PodGone(p)) /\ WF_vars(\E e \in Expiries : PodReplaced(p, e))

FairSpec == Spec /\ Fairness
------------------------------------------------------------------------------
HasExpired(p) == Running(p) /\ \E t \in pod[p].expires \ {Bad} : t < now

\* No expiry is forgotten: as long as a pod with expiry annotations runs, a watch event
\* of it is on its way, an eviction awaits its answer, or a reconcile is scheduled, and
\* that not later than the pod's first expiry (or the next retry).
ExpiryIsScheduled ==
    \A p \in Pods : Running(p) /\ pod[p].expires # {} /\ ~news[p] /\ ~evicting[p] =>
        /\ due[p] # None
        /\ Bad \notin pod[p].expires =>
             \A t \in pod[p].expires : due[p] <= t \/ due[p] <= After(RetryDelay)

\* An eviction, awaited or not, takes the running pod of name p away.
EvictionTakes(p) ==
    /\ Running(p) /\ ~Running(p)'
    /\ (evicting[p] /\ ~evicting'[p]) \/ p \in late \ late'

\* "this process should respect PodDisruptionBudget constraints": the controller itself
\* never takes the number of healthy pods below the budget, with evictions of a lost
\* connection or of the operator's earlier life among its own.
BudgetRespected ==
    [][ \A p \in Pods : EvictionTakes(p) => Cardinality(Healthy') >= MinAvailable ]_vars

\* Evictions come from expiry alone: a pod is evicted only if one of its own expiry
\* annotations lies in the past at that moment.
OnlyExpiredEvicted ==
    [][ \A p \in Pods : EvictionTakes(p) => HasExpired(p) ]_vars

\* What the code does ensure of it: an eviction is decided for an expired pod, or for one
\* whose last change the watch has still to deliver.  Once a replacement is in the store,
\* no event, retry or timer left over from its predecessor starts an eviction of it, in
\* whatever order events, retries, edits and restarts come.
EvictionsDecidedOnExpired ==
    [][ \A p \in Pods : ~evicting[p] /\ evicting'[p] => HasExpired(p) \/ news[p] ]_vars

\* Every pod that expires is eventually evicted, or gone, or given other annotations,
\* though the disruption budget may refuse for a while.
ExpiredIsEvicted ==
    \A p \in Pods : LET expired == HasExpired(p) /\ Bad \notin pod[p].expires
                    IN  expired ~> ~expired
==============================================================================
