------------------------- MODULE PodRestarterProofs --------------------------
(***************************************************************************)
(* For any pods, annotations, clock and disruption budget, and any number  *)
(* of restarts, lost answers and edits: no expiry is forgotten and the     *)
(* controller respects the disruption budget.  An eviction is decided for  *)
(* an expired pod, or for one whose last change is still to be delivered.  *)
(***************************************************************************)
EXTENDS PodRestarter, FiniteSetTheorems, TLAPS

\* A store without undelivered news is up to date.
StoreInv == \A p \in Pods : ~news[p] => store[p] = pod[p]

\* The inductive invariant.
IInv == TypeOK /\ StoreInv /\ ExpiryIsScheduled

\* A delay from now ends within the clock, and not after the delay.
LEMMA AfterType ==
    ASSUME TypeOK, NEW d \in Nat
    PROVE  After(d) \in 0..MaxTime /\ After(d) >= now /\ After(d) <= now + d
BY ConstantsAssumption DEF TypeOK, After

\* Expiries of a pod are natural numbers unless they are unparsable.
LEMMA ExpiryType ==
    ASSUME NEW e \in Expiries, NEW t \in e, t # Bad
    PROVE  t \in Nat
BY ConstantsAssumption

\* The controller's initial state satisfies the invariant.
LEMMA InitIInv == Init => IInv
<1> SUFFICES ASSUME Init PROVE IInv
    OBVIOUS
<1>1. pod \in [Pods -> {None} \cup Pod]
      <2>1. {[expires |-> e, deleting |-> FALSE] : e \in Expiries} \subseteq Pod
            <3>1. ASSUME NEW e \in Expiries PROVE [expires |-> e, deleting |-> FALSE] \in Pod
                  BY DEF Pod
            <3> QED
                BY <3>1
      <2> QED
          BY <2>1 DEF Init
<1>2. now \in 0..MaxTime /\ disturbances \in 0..MaxDisturbances
      BY ConstantsAssumption DEF Init
<1>3. TypeOK
      BY <1>1, <1>2 DEF Init, TypeOK
<1> QED
    BY <1>3 DEF Init, IInv, StoreInv, ExpiryIsScheduled

\* Marking a pod for deletion keeps it a pod.
LEMMA MarkDeletingType ==
    ASSUME TypeOK, NEW p \in Pods, pod[p] # None, MarkDeleting(p)
    PROVE  pod' \in [Pods -> {None} \cup Pod] /\ news' \in [Pods -> BOOLEAN]
<1>1. pod[p] \in Pod
      BY DEF TypeOK
<1>2. [pod[p] EXCEPT !.deleting = TRUE] \in Pod
      BY <1>1 DEF Pod
<1>3. pod' = [pod EXCEPT ![p] = [pod[p] EXCEPT !.deleting = TRUE]]
      BY DEF MarkDeleting, TypeOK
<1> QED
    BY <1>2, <1>3 DEF MarkDeleting, TypeOK

\* Every action keeps the variables within their types.
LEMMA NextTypeOK == TypeOK /\ [Next]_vars => TypeOK'
<1> SUFFICES ASSUME TypeOK, [Next]_vars PROVE TypeOK'
    OBVIOUS
<1> USE ConstantsAssumption DEF TypeOK
<1>1. CASE Tick
      BY <1>1 DEF Tick
<1>2. CASE OperatorRestart
      BY <1>2 DEF OperatorRestart
<1>3. ASSUME NEW p \in Pods, PodEvent(p) PROVE TypeOK'
      BY <1>3 DEF PodEvent, Schedule
<1>4. ASSUME NEW p \in Pods, ReconcileIgnored(p) PROVE TypeOK'
      BY <1>4 DEF ReconcileIgnored, reconcileFrame
<1>5. ASSUME NEW p \in Pods, ReconcileUnparsable(p) PROVE TypeOK'
      BY <1>5, AfterType DEF ReconcileUnparsable, reconcileFrame
<1>6. ASSUME NEW p \in Pods, ReconcileValid(p) PROVE TypeOK'
      <2>1. PICK t \in store[p].expires : t - now >= 0 /\ due' = [due EXCEPT ![p] = After(t - now)]
            BY <1>6 DEF ReconcileValid
      <2>2. t \in Nat
            BY <1>6, ExpiryType DEF ReconcileValid, Pod
      <2>3. After(t - now) \in 0..MaxTime
            BY <2>1, <2>2, AfterType
      <2> QED
          BY <1>6, <2>1, <2>3 DEF ReconcileValid, reconcileFrame
<1>7. ASSUME NEW p \in Pods, ReconcileExpired(p) PROVE TypeOK'
      BY <1>7 DEF ReconcileExpired, reconcileFrame
<1>8. ASSUME NEW p \in Pods, Evicted(p) PROVE TypeOK'
      BY <1>8, MarkDeletingType DEF Evicted
<1>9. ASSUME NEW p \in Pods, EvictRefused(p) PROVE TypeOK'
      BY <1>9, AfterType DEF EvictRefused, Schedule
<1>10. ASSUME NEW p \in Pods, EvictUnanswered(p) PROVE TypeOK'
      <2>2. due' \in [Pods -> {None} \cup 0..MaxTime]
            BY <1>10, AfterType DEF EvictUnanswered, Schedule
      <2>3. disturbances' \in 0..MaxDisturbances
            BY <1>10 DEF EvictUnanswered
      <2> QED
          BY <1>10, <2>2, <2>3 DEF EvictUnanswered
<1>11. ASSUME NEW p \in Pods, PodGone(p) PROVE TypeOK'
      BY <1>11 DEF PodGone
<1>12. ASSUME NEW p \in Pods, UserDeletes(p) PROVE TypeOK'
      <2>1. disturbances' \in 0..MaxDisturbances
            BY <1>12 DEF UserDeletes
      <2> QED
          BY <1>12, <2>1, MarkDeletingType DEF UserDeletes
<1>13. ASSUME NEW p \in Pods, NEW e \in Expiries, PodReplaced(p, e) PROVE TypeOK'
      BY <1>13 DEF PodReplaced, Pod
<1>14. ASSUME NEW p \in Pods, NEW e \in Expiries, UserAnnotates(p, e) PROVE TypeOK'
      BY <1>14 DEF UserAnnotates, Pod
<1>15. ASSUME NEW p \in Pods, LateEviction(p) PROVE TypeOK'
      <2>1. pod' \in [Pods -> {None} \cup Pod] /\ news' \in [Pods -> BOOLEAN]
            BY <1>15, MarkDeletingType DEF LateEviction
      <2> QED
          BY <1>15, <2>1 DEF LateEviction
<1>16. ASSUME NEW p \in Pods, PodTouched(p) PROVE TypeOK'
      BY <1>16 DEF PodTouched
<1>17. CASE UNCHANGED vars
      BY <1>17 DEF vars
<1> QED
    BY <1>1, <1>2, <1>3, <1>4, <1>5, <1>6, <1>7, <1>8, <1>9, <1>10, <1>11, <1>12, <1>13,
       <1>14, <1>15, <1>16, <1>17 DEF Next, Reconcile

\* The store of a pod without news keeps following it.
LEMMA NextStoreInv == TypeOK /\ StoreInv /\ [Next]_vars => StoreInv'
<1> SUFFICES ASSUME TypeOK, StoreInv, [Next]_vars PROVE StoreInv'
    OBVIOUS
<1> USE DEF TypeOK, StoreInv
<1>1. CASE Tick \/ OperatorRestart \/ UNCHANGED vars
      BY <1>1 DEF Tick, OperatorRestart, vars
<1>2. ASSUME NEW p \in Pods, PodEvent(p) PROVE StoreInv'
      BY <1>2 DEF PodEvent
<1>3. ASSUME NEW p \in Pods, Reconcile(p) PROVE StoreInv'
      BY <1>3 DEF Reconcile, ReconcileIgnored, ReconcileUnparsable, ReconcileValid,
                  ReconcileExpired, reconcileFrame
<1>4. ASSUME NEW p \in Pods,
             Evicted(p) \/ EvictRefused(p) \/ EvictUnanswered(p) \/ LateEviction(p)
      PROVE StoreInv'
      BY <1>4 DEF Evicted, EvictRefused, EvictUnanswered, LateEviction, MarkDeleting
<1>5. ASSUME NEW p \in Pods, PodGone(p) \/ PodTouched(p) \/ UserDeletes(p) PROVE StoreInv'
      BY <1>5 DEF PodGone, PodTouched, UserDeletes, MarkDeleting
<1>6. ASSUME NEW p \in Pods, NEW e \in Expiries, PodReplaced(p, e) \/ UserAnnotates(p, e)
      PROVE StoreInv'
      BY <1>6 DEF PodReplaced, UserAnnotates
<1> QED
    BY <1>1, <1>2, <1>3, <1>4, <1>5, <1>6 DEF Next
\* What is asked for one pod at time t keeps the pod's schedule if t is soon enough.
LEMMA NextExpiryIsScheduled == IInv /\ [Next]_vars => ExpiryIsScheduled'
<1> SUFFICES ASSUME IInv, [Next]_vars,
                    NEW q \in Pods, Running(q)', pod'[q].expires # {}, ~news'[q], ~evicting'[q]
             PROVE  /\ due'[q] # None
                    /\ Bad \notin pod'[q].expires =>
                         \A t \in pod'[q].expires : due'[q] <= t \/ due'[q] <= After(RetryDelay)'
    BY DEF ExpiryIsScheduled, Running, After
<1>0. TypeOK /\ TypeOK' /\ StoreInv /\ ExpiryIsScheduled
      BY NextTypeOK DEF IInv
<1> DEFINE Soon(d) == d # None /\ (Bad \notin pod[q].expires =>
                         \A t \in pod[q].expires : d <= t \/ d <= After(RetryDelay))
<1>1. ASSUME pod' = pod, ~news[q], ~evicting[q] PROVE Soon(due[q])
      BY <1>0, <1>1 DEF ExpiryIsScheduled, Running
<1>2. ASSUME pod' = pod, now' = now, Soon(due'[q])
      PROVE  /\ due'[q] # None
             /\ Bad \notin pod'[q].expires =>
                  \A t \in pod'[q].expires : due'[q] <= t \/ due'[q] <= After(RetryDelay)'
      BY <1>2 DEF After
<1>3. ASSUME UNCHANGED <<now, pod, news, evicting>>, due'[q] = due[q] PROVE Soon(due'[q])
      BY <1>1, <1>3
<1>4. CASE Tick
      <2>1. /\ pod' = pod /\ due' = due /\ news' = news /\ evicting' = evicting
            /\ now' = now + 1
            BY <1>4 DEF Tick
      <2>2. Soon(due[q]) /\ due[q] \in 0..MaxTime
            BY <1>0, <1>1, <2>1 DEF TypeOK
      <2>3. After(RetryDelay) <= After(RetryDelay)' /\ After(RetryDelay) \in Int
            BY <1>0, <2>1, ConstantsAssumption DEF After, TypeOK
      <2>4. After(RetryDelay)' \in Int
            BY <1>0, <2>1, ConstantsAssumption DEF After, TypeOK
      <2> QED
          BY <2>1, <2>2, <2>3, <2>4
<1>5. CASE OperatorRestart
      BY <1>5 DEF OperatorRestart
<1>6. ASSUME NEW p \in Pods, PodEvent(p) PROVE pod' = pod /\ now' = now /\ Soon(due'[q])
      <2>1. pod' = pod /\ now' = now /\ evicting' = evicting
            BY <1>6 DEF PodEvent
      <2>2. CASE p = q
            <3>1. pod[q] # None
                  BY <2>1 DEF Running
            <3>2. due'[q] \in 0..MaxTime /\ due'[q] <= now
                  BY <1>0, <1>6, <2>2, <3>1, ConstantsAssumption DEF PodEvent, Schedule, TypeOK
            <3>3. After(RetryDelay) \in 0..MaxTime /\ After(RetryDelay) >= now
                  BY <1>0, AfterType, ConstantsAssumption
            <3>4. due'[q] # None /\ due'[q] <= After(RetryDelay)
                  BY <1>0, <3>2, <3>3, ConstantsAssumption DEF TypeOK
            <3> QED
                BY <2>1, <3>4
      <2>3. CASE p # q
            <3>1. due'[q] = due[q] /\ news'[q] = news[q]
                  BY <1>0, <1>6, <2>3 DEF PodEvent, Schedule, TypeOK
            <3> QED
                BY <1>1, <2>1, <3>1
      <2> QED
          BY <2>2, <2>3
<1>7. ASSUME NEW p \in Pods, Reconcile(p) PROVE pod' = pod /\ now' = now /\ Soon(due'[q])
      <2>1. pod' = pod /\ now' = now /\ news' = news /\ store' = store
            BY <1>7 DEF Reconcile, ReconcileIgnored, ReconcileUnparsable, ReconcileValid,
                        ReconcileExpired, reconcileFrame
      <2>2. store[q] = pod[q] /\ pod[q] # None /\ ~pod[q].deleting /\ pod[q].expires # {}
            BY <1>0, <2>1 DEF StoreInv, Running
      <2>3. CASE p # q
            <3>1. due'[q] = due[q] /\ evicting'[q] = evicting[q]
                  BY <1>0, <1>7, <2>3
                     DEF Reconcile, ReconcileIgnored, ReconcileUnparsable, ReconcileValid,
                         ReconcileExpired, reconcileFrame, TypeOK
            <3> QED
                BY <1>1, <2>1, <3>1
      <2>4. CASE p = q /\ ReconcileIgnored(p)
            BY <2>2, <2>4 DEF ReconcileIgnored
      <2>5. CASE p = q /\ ReconcileUnparsable(p)
            <3>1. Bad \in pod[q].expires /\ due'[q] = After(RetryDelay)
                  BY <1>0, <2>2, <2>5 DEF ReconcileUnparsable, TypeOK
            <3>2. After(RetryDelay) # None
                  BY <1>0, AfterType, ConstantsAssumption
            <3> QED
                BY <2>1, <3>1, <3>2
      <2>6. CASE p = q /\ ReconcileValid(p)
            <3>1. PICK t \in pod[q].expires : /\ \A u \in pod[q].expires : t <= u
                                              /\ t - now >= 0
                                              /\ due'[q] = After(t - now)
                  BY <1>0, <2>2, <2>6 DEF ReconcileValid, Earliest, TypeOK
            <3>2. Bad \notin pod[q].expires /\ pod[q].expires \in Expiries
                  BY <1>0, <2>2, <2>6 DEF ReconcileValid, TypeOK, Pod
            <3>3. pod[q].expires \subseteq Nat /\ now \in Nat
                  BY <1>0, <3>2, ExpiryType, ConstantsAssumption DEF TypeOK
            <3>4. After(t - now) \in 0..MaxTime /\ After(t - now) <= now + (t - now)
                  BY <1>0, <3>1, <3>3, AfterType
            <3>5. \A u \in pod[q].expires : due'[q] <= u
                  BY <3>1, <3>3, <3>4, ConstantsAssumption
            <3>6. due'[q] # None
                  BY <3>1, <3>4, ConstantsAssumption
            <3> QED
                BY <2>1, <3>5, <3>6
      <2>7. CASE p = q /\ ReconcileExpired(p)
            BY <1>0, <2>7 DEF ReconcileExpired, TypeOK
      <2> QED
          BY <1>7, <2>3, <2>4, <2>5, <2>6, <2>7 DEF Reconcile
<1>8. ASSUME NEW p \in Pods, p # q,
             \/ Evicted(p) \/ EvictRefused(p) \/ EvictUnanswered(p) \/ LateEviction(p)
             \/ PodGone(p) \/ PodTouched(p) \/ UserDeletes(p)
      PROVE /\ now' = now /\ pod'[q] = pod[q] /\ news'[q] = news[q]
            /\ evicting'[q] = evicting[q] /\ due'[q] = due[q]
      BY <1>0, <1>8 DEF Evicted, EvictRefused, EvictUnanswered, LateEviction, PodGone,
                        PodTouched, UserDeletes, MarkDeleting, Schedule, TypeOK
<1>9. ASSUME NEW p \in Pods, p # q, NEW e \in Expiries, PodReplaced(p, e) \/ UserAnnotates(p, e)
      PROVE /\ now' = now /\ pod'[q] = pod[q] /\ news'[q] = news[q]
            /\ evicting'[q] = evicting[q] /\ due'[q] = due[q]
      BY <1>0, <1>9 DEF PodReplaced, UserAnnotates, TypeOK
<1>10. ASSUME /\ now' = now /\ pod'[q] = pod[q] /\ news'[q] = news[q]
              /\ evicting'[q] = evicting[q] /\ due'[q] = due[q]
       PROVE  /\ due'[q] # None
              /\ Bad \notin pod'[q].expires =>
                   \A t \in pod'[q].expires : due'[q] <= t \/ due'[q] <= After(RetryDelay)'
      BY <1>0, <1>10 DEF ExpiryIsScheduled, Running, After
<1>11. CASE Evicted(q) \/ PodGone(q) \/ PodTouched(q) \/ UserDeletes(q)
      BY <1>0, <1>11 DEF Evicted, PodGone, PodTouched, UserDeletes, MarkDeleting, TypeOK
<1>12. ASSUME NEW e \in Expiries, PodReplaced(q, e) \/ UserAnnotates(q, e) PROVE FALSE
      BY <1>0, <1>12 DEF PodReplaced, UserAnnotates, TypeOK
<1>13. CASE EvictRefused(q) \/ EvictUnanswered(q)
      <2>1. pod' = pod /\ now' = now
            BY <1>13 DEF EvictRefused, EvictUnanswered
      <2>2. After(RetryDelay) \in 0..MaxTime
            BY <1>0, AfterType, ConstantsAssumption
      <2>3. due'[q] # None /\ due'[q] <= After(RetryDelay)
            BY <1>0, <1>13, <2>2, ConstantsAssumption
               DEF EvictRefused, EvictUnanswered, Schedule, TypeOK
      <2> QED
          BY <1>2, <2>1, <2>3
<1>14. CASE UNCHANGED vars
      BY <1>2, <1>3, <1>14 DEF vars
<1>15. CASE LateEviction(q)
      <2>1. UNCHANGED <<now, pod, news, evicting, due>>
            BY <1>0, <1>15 DEF LateEviction, MarkDeleting, TypeOK
      <2> QED
          BY <1>2, <1>3, <2>1
<1> HIDE DEF Soon
<1> QED
    BY <1>2, <1>4, <1>5, <1>6, <1>7, <1>8, <1>9, <1>10, <1>11, <1>12, <1>13, <1>14,
       <1>15 DEF Next

\* The inductive invariant holds in every reachable state.
LEMMA IInvHolds == Spec => []IInv
<1>1. IInv /\ [Next]_vars => IInv'
      BY NextTypeOK, NextStoreInv, NextExpiryIsScheduled DEF IInv
<1> QED
    BY InitIInv, <1>1, PTL DEF Spec
------------------------------------------------------------------------------
\* Every variable of the pod restarter keeps its type.
THEOREM TypeCorrect == Spec => []TypeOK
<1>1. IInv => TypeOK
      BY DEF IInv
<1> QED
    BY IInvHolds, <1>1, PTL

\* The pod restarter never forgets an expiry: ExpiryIsScheduled always holds.
THEOREM ExpiryIsScheduledHolds == Spec => []ExpiryIsScheduled
<1>1. IInv => ExpiryIsScheduled
      BY DEF IInv
<1> QED
    BY IInvHolds, <1>1, PTL

\* The pod restarter's evictions respect the disruption budget.
THEOREM BudgetRespectedHolds == Spec => BudgetRespected
<1> DEFINE Respect == \A p \in Pods : EvictionTakes(p) => Cardinality(Healthy') >= MinAvailable
<1>1. ASSUME TypeOK, [Next]_vars PROVE [Respect]_vars
      <2> SUFFICES ASSUME NEW p \in Pods, EvictionTakes(p)
                   PROVE Cardinality(Healthy') >= MinAvailable
          OBVIOUS
      <2>1. ASSUME pod[p] # None, DisruptionAllowed, MarkDeleting(p)
            PROVE Cardinality(Healthy') >= MinAvailable
            <3>1. Healthy' = Healthy \ {p} /\ p \in Healthy
                  BY <1>1, <2>1 DEF Healthy, Running, EvictionTakes, MarkDeleting, TypeOK, Pod
            <3>2. IsFiniteSet(Healthy)
                  BY ConstantsAssumption, FS_Subset DEF Healthy
            <3>3. Cardinality(Healthy') = Cardinality(Healthy) - 1 /\ Cardinality(Healthy) \in Nat
                  BY <3>1, <3>2, FS_RemoveElement, FS_CardinalityType
            <3> QED
                BY <2>1, <3>3, ConstantsAssumption DEF DisruptionAllowed
      <2>2. Evicted(p) \/ LateEviction(p)
            BY <1>1 DEF Next, Tick, OperatorRestart, PodEvent, Reconcile, ReconcileIgnored,
                ReconcileUnparsable, ReconcileValid, ReconcileExpired, reconcileFrame, Evicted,
                EvictRefused, EvictUnanswered, LateEviction, MarkDeleting, PodGone, PodTouched,
                UserDeletes, PodReplaced, UserAnnotates, vars, TypeOK, Running, EvictionTakes
      <2> QED
          BY <2>1, <2>2 DEF Evicted, LateEviction, Running, EvictionTakes
<1> QED
    BY TypeCorrect, <1>1, PTL DEF Spec, BudgetRespected

\* The pod restarter decides an eviction for an expired pod, or for one whose last change
\* is still to be delivered.
THEOREM EvictionsDecidedOnExpiredHolds == Spec => EvictionsDecidedOnExpired
<1> DEFINE Decided == \A p \in Pods : ~evicting[p] /\ evicting'[p] => HasExpired(p) \/ news[p]
<1>1. ASSUME TypeOK, StoreInv, [Next]_vars PROVE [Decided]_vars
      <2> SUFFICES ASSUME NEW p \in Pods, ~evicting[p], evicting'[p], ~news[p]
                   PROVE  HasExpired(p)
          OBVIOUS
      <2>1. ReconcileExpired(p)
            BY <1>1 DEF Next, Tick, OperatorRestart, PodEvent, Reconcile, ReconcileIgnored,
                ReconcileUnparsable, ReconcileValid, ReconcileExpired, reconcileFrame, Evicted,
                EvictRefused, EvictUnanswered, LateEviction, PodGone, PodTouched, UserDeletes,
                PodReplaced, UserAnnotates, vars, TypeOK
      <2>2. store[p] = pod[p] /\ pod[p] # None /\ ~pod[p].deleting
            BY <1>1, <2>1 DEF StoreInv, ReconcileExpired
      <2>3. PICK t \in pod[p].expires : t - now < 0
            BY <2>1, <2>2 DEF ReconcileExpired
      <2>4. pod[p].expires \in Expiries /\ t # Bad
            BY <1>1, <2>1, <2>2 DEF ReconcileExpired, TypeOK, Pod
      <2>5. t \in Nat /\ now \in Nat
            BY <1>1, <2>4, ExpiryType, ConstantsAssumption DEF TypeOK
      <2> QED
          BY <2>2, <2>3, <2>4, <2>5 DEF HasExpired, Running
<1>2. IInv => TypeOK /\ StoreInv
      BY DEF IInv
<1> QED
    BY IInvHolds, <1>1, <1>2, PTL DEF Spec, EvictionsDecidedOnExpired
==============================================================================
