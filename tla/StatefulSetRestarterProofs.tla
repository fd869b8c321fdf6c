--------------------- MODULE StatefulSetRestarterProofs ----------------------
(***************************************************************************)
(* For any set of ConfigMaps, Secrets and manifests, any number of         *)
(* changes, incarnations, relists, late requests and crashes: annotations  *)
(* name versions that existed and never go back, pods honour them, a patch *)
(* touches only the incarnation it was computed for, a controller at rest  *)
(* has followed every event, and one that has not restarted leaves correct *)
(* annotations alone.                                                      *)
(***************************************************************************)
EXTENDS StatefulSetRestarter, SequenceTheorems, TLAPS

\* The annotations ann name versions their objects had while they were watched.
Real(ann) == \A o \in Objects :
    IsVersion(ann[o]) => /\ ann[o] \in 1..Len(log[o])
                         /\ log[o][ann[o]] = "live"

\* A store never runs ahead of the API server.
StoreInv == \A o \in Objects : pos[o] <= Len(log[o])

\* Annotations are real wherever they are kept: in the StatefulSet, in a running
\* reconcile, in a request still under way and in an admission.
RealInv == /\ sts # None => Real(sts.ann)
           /\ job # None => Real(job.ann)
           /\ late # None => Real(late.ann)
           /\ adm # None => Real(adm.ann)

\* A pod has loaded at least what the template it was made from is annotated with.
PodInv == pod # None => \A o \in Objects :
    IsVersion(pod.tmpl[2][o]) => pod.cfg[o] >= pod.tmpl[2][o]

\* The inductive invariant.
IInv == TypeOK /\ StoreInv /\ RealInv /\ PodInv

USE DEF AnnValues

\* An annotation value is None, ChangesIgnored or a version.
LEMMA Versions == \A a \in AnnValues : IsVersion(a) <=> a \in Nat
BY ConstantsAssumption DEF IsVersion

\* Counting a disturbance keeps the counters natural numbers.
LEMMA DisturbTyped ==
    ASSUME TypeOK, NEW d \in Disturbances, Disturb(d)
    PROVE  used' \in [Disturbances -> Nat]
BY DEF TypeOK, Disturb

\* An empty annotation set is well typed and real.
LEMMA NoAnnotationsReal == NoAnnotations \in [Objects -> AnnValues] /\ Real(NoAnnotations)
BY ConstantsAssumption DEF NoAnnotations, Real, IsVersion

\* What a store lookup adds to a computation is real: half a call of
\* get_updated_restarter_annotations keeps it so.
LEMMA AnnotatedReal ==
    ASSUME TypeOK, StoreInv, NEW j \in Job, Real(j.ann), NEW k \in Kinds
    PROVE  Annotated(j, k) \in Job /\ Real(Annotated(j, k).ann)
<1> DEFINE ann == [o \in Objects |-> IF o \in FindPodRefs(j.tmpl, k)
                                     THEN Annotation(o, j.ign) ELSE j.ann[o]]
<1>1. ASSUME NEW o \in Objects
      PROVE /\ Annotation(o, j.ign) \in AnnValues
            /\ IsVersion(Annotation(o, j.ign)) =>
                 /\ Annotation(o, j.ign) \in 1..Len(log[o])
                 /\ log[o][Annotation(o, j.ign)] = "live"
      BY ConstantsAssumption DEF TypeOK, StoreInv, Annotation, Stored, ObjState, IsVersion
<1>2. ann \in [Objects -> AnnValues]
      BY <1>1 DEF Job
<1>3. Real(ann)
      BY <1>1 DEF Real
<1>4. Annotated(j, k) = [j EXCEPT !.ann = ann,
                                  !.step = IF k = "ConfigMap" THEN "secrets" ELSE "patch"]
      BY DEF Annotated
<1> HIDE DEF ann
<1> QED
    BY <1>2, <1>3, <1>4 DEF Job

\* A fresh call is well typed and real.
LEMMA CallReal ==
    ASSUME NEW u \in {None} \cup Nat, NEW m, m.tmpl \in Templates, m.ign \in IgnoreSets, m.on \in Labelled
    PROVE  Call(u, m) \in Job /\ Real(Call(u, m).ann)
BY NoAnnotationsReal DEF Call, Job

\* Appending to the log of an object keeps what is real.
LEMMA RealKept ==
    ASSUME TypeOK, NEW o \in Objects, NEW s \in {"live", "hidden", "gone"}, ChangeObject(o, s),
           NEW ann \in [Objects -> AnnValues], Real(ann)
    PROVE  Real(ann)'
<1>1. ASSUME NEW p \in Objects, NEW i \in 1..Len(log[p])
      PROVE i \in 1..Len(log'[p]) /\ log'[p][i] = log[p][i]
      BY DEF TypeOK, ChangeObject
<1> QED
    BY <1>1 DEF Real
------------------------------------------------------------------------------
\* The operator and the cluster start in a state of the inductive invariant.
LEMMA InitIInv == Init => IInv
<1> SUFFICES ASSUME Init PROVE IInv
    OBVIOUS
<1>1. TypeOK
      <2>1. log \in [Objects -> Seq({"live", "hidden", "gone"})]
            BY DEF Init
      <2>2. used \in [Disturbances -> Nat]
            BY DEF Init
      <2> QED
          BY <2>1, <2>2 DEF Init, TypeOK, Kinds
<1>2. StoreInv
      <2> SUFFICES ASSUME NEW o \in Objects PROVE pos[o] <= Len(log[o])
          BY DEF StoreInv
      <2>1. pos[o] = 0 /\ log[o] \in Seq({"live", "hidden", "gone"})
            BY <1>1 DEF Init, TypeOK
      <2>2. Len(log[o]) \in Nat
            BY <2>1, LenProperties
      <2> QED
          BY <2>1, <2>2
<1> QED
    BY <1>1, <1>2 DEF Init, IInv, RealInv, PodInv

\* Every action keeps the variables within their types.
LEMMA NextTypeOK == IInv /\ [Next]_vars => TypeOK'
<1> SUFFICES ASSUME IInv, [Next]_vars PROVE TypeOK'
    OBVIOUS
<1>0. TypeOK /\ StoreInv /\ RealInv
      BY DEF IInv
<1> USE <1>0, ConstantsAssumption DEF TypeOK, apiVars, storeVars
<1>1. ASSUME NEW o \in Objects, NEW s \in {"live", "hidden", "gone"}, ChangeObject(o, s)
      PROVE TypeOK'
      BY <1>1 DEF ChangeObject
<1>2. ASSUME NEW o \in Objects, WatchEvent(o) PROVE TypeOK'
      BY <1>2 DEF WatchEvent, TriggerAll
<1>3. ASSUME NEW m \in Manifest, RequestCreate(m) PROVE TypeOK'
      <2>1. Call(None, m) \in Job
            BY CallReal DEF Manifest
      <2>2. adm' \in Job
            BY <1>3, <2>1 DEF RequestCreate, Job
      <2> QED
          BY <1>3, <2>2 DEF RequestCreate
<1>4. ASSUME NEW m \in Manifest, EditSts(m) PROVE TypeOK'
      <2>1. used' \in [Disturbances -> Nat]
            BY <1>4, DisturbTyped DEF EditSts, Disturbances
      <2>2. sts' \in StatefulSet
            BY <1>4 DEF EditSts, Manifest, StoreSts, StatefulSet
      <2> QED
          BY <1>4, <2>1, <2>2 DEF EditSts, StoreSts
<1>5. CASE WebhookUnanswered
      <2>1. adm \in Job /\ NoAnnotations \in [Objects -> AnnValues]
            BY <1>5, NoAnnotationsReal DEF WebhookUnanswered
      <2>2. adm' \in Job
            BY <1>5, <2>1 DEF WebhookUnanswered, Job
      <2> QED
          BY <1>5, <2>2 DEF WebhookUnanswered
<1>6. CASE PersistSts
      <2>1. sts' \in {None} \cup StatefulSet /\ uid' \in Nat /\ stsNews' \in BOOLEAN
            <3>1. CASE sts = None
                  BY <1>6, <3>1 DEF PersistSts, StoreSts, Job, StatefulSet
            <3>2. CASE sts # None
                  BY <1>6, <3>2 DEF PersistSts
            <3> QED
                BY <3>1, <3>2
      <2> QED
          BY <1>6, <2>1 DEF PersistSts
<1>7. CASE DeleteSts
      BY <1>7 DEF DeleteSts, StoreSts
<1>8. CASE RollPod
      BY <1>8 DEF RollPod, Template, StatefulSet
<1>9. ASSUME NEW k \in Kinds, WatchStart(k) \/ ListPage(k) \/ InitDone(k) PROVE TypeOK'
      <2>1. CASE WatchStart(k)
            BY <2>1 DEF WatchStart
      <2>2. CASE ListPage(k)
            BY <2>2 DEF ListPage, TriggerAll
      <2>3. CASE InitDone(k)
            BY <2>3, LenProperties DEF InitDone, TriggerAll
      <2> QED
          BY <1>9, <2>1, <2>2, <2>3
<1>19. ASSUME NEW k \in Kinds, WatchLost(k) PROVE TypeOK'
      <2>1. used' \in [Disturbances -> Nat]
            BY <1>19, DisturbTyped DEF WatchLost, Disturbances
      <2> QED
          BY <1>19, <2>1 DEF WatchLost
<1>10. ASSUME NEW k \in Kinds, ReconcileReads(k) \/ WebhookReads(k) PROVE TypeOK'
      BY <1>10, AnnotatedReal DEF ReconcileReads, WebhookReads, CanRead, RealInv
<1>11. CASE StsEvent
      BY <1>11 DEF StsEvent, Selected
<1>12. CASE StartReconcile
      BY <1>12, CallReal DEF StartReconcile, StatefulSet
<1>13. CASE PatchApplied
      BY <1>13 DEF PatchApplied, StoreSts, Patched, Patches, Job, StatefulSet
<1>14. CASE PatchRefused
      BY <1>14 DEF PatchRefused
<1>15. CASE PatchTimeout
      <2>1. used' \in [Disturbances -> Nat]
            BY <1>15, DisturbTyped DEF PatchTimeout, Disturbances
      <2> QED
          BY <1>15, <2>1 DEF PatchTimeout
<1>16. CASE LatePatch
      <2>1. CASE Patches(late) /\ StoreSts(Patched(late))
            <3>1. sts \in StatefulSet /\ late \in Job
                  BY <1>16, <2>1 DEF LatePatch, Patches
            <3>2. sts' \in StatefulSet /\ stsNews' \in BOOLEAN
                  BY <2>1, <3>1 DEF StoreSts, Patched, Job, StatefulSet
            <3> QED
                BY <1>16, <3>2 DEF LatePatch
      <2>2. CASE UNCHANGED <<sts, stsNews>>
            BY <1>16, <2>2 DEF LatePatch
      <2> QED
          BY <1>16, <2>1, <2>2 DEF LatePatch
<1>17. CASE OperatorRestart
      <2>1. adm' \in {None} \cup Job
            BY <1>17, NoAnnotationsReal DEF OperatorRestart, Job
      <2>2. used' \in [Disturbances -> Nat]
            BY <1>17, DisturbTyped DEF OperatorRestart, Disturbances
      <2> QED
          BY <1>17, <2>1, <2>2 DEF OperatorRestart
<1>18. CASE UNCHANGED vars
      BY <1>18 DEF vars
<1> QED
    BY <1>1, <1>2, <1>3, <1>4, <1>5, <1>6, <1>7, <1>8, <1>9, <1>10, <1>11, <1>12, <1>13,
       <1>14, <1>15, <1>16, <1>17, <1>18, <1>19 DEF Next

\* No action lets a store run ahead of the API server.
LEMMA NextStoreInv == IInv /\ [Next]_vars => StoreInv'
<1> SUFFICES ASSUME IInv, [Next]_vars PROVE StoreInv'
    OBVIOUS
<1> USE DEF IInv, TypeOK, StoreInv, apiVars, storeVars
<1>1. ASSUME NEW o \in Objects, NEW s \in {"live", "hidden", "gone"}, ChangeObject(o, s)
      PROVE StoreInv'
      BY <1>1 DEF ChangeObject
<1>2. ASSUME NEW o \in Objects, WatchEvent(o) PROVE StoreInv'
      BY <1>2 DEF WatchEvent
<1>3. ASSUME NEW k \in Kinds, InitDone(k) PROVE StoreInv'
      BY <1>3 DEF InitDone
<1>4. CASE OperatorRestart
      BY <1>4 DEF OperatorRestart
<1>5. ASSUME NEW m \in Manifest, RequestCreate(m) \/ EditSts(m) PROVE StoreInv'
      BY <1>5 DEF RequestCreate, EditSts
<1>6. ASSUME NEW k \in Kinds,
             WatchStart(k) \/ ListPage(k) \/ WatchLost(k) \/ ReconcileReads(k) \/ WebhookReads(k)
      PROVE StoreInv'
      BY <1>6 DEF WatchStart, ListPage, WatchLost, ReconcileReads, WebhookReads
<1>7. CASE WebhookUnanswered \/ PersistSts \/ DeleteSts \/ RollPod \/ StsEvent
      BY <1>7 DEF WebhookUnanswered, PersistSts, DeleteSts, RollPod, StsEvent
<1>8. CASE StartReconcile \/ PatchApplied \/ PatchRefused \/ PatchTimeout \/ LatePatch
      BY <1>8 DEF StartReconcile, PatchApplied, PatchRefused, PatchTimeout, LatePatch
<1>9. CASE UNCHANGED vars
      BY <1>9 DEF vars
<1> QED
    BY <1>1, <1>2, <1>3, <1>4, <1>5, <1>6, <1>7, <1>8, <1>9 DEF Next

\* Annotations stay real as they pass from the stores through reconciles, requests and
\* admissions into the StatefulSet, while the objects move on.
LEMMA NextRealInv == IInv /\ [Next]_vars => RealInv'
<1> SUFFICES ASSUME IInv, [Next]_vars PROVE RealInv'
    OBVIOUS
<1>0. TypeOK /\ StoreInv /\ RealInv
      BY DEF IInv
<1>1. ASSUME NEW o \in Objects, NEW s \in {"live", "hidden", "gone"}, ChangeObject(o, s)
      PROVE RealInv'
      <2>1. UNCHANGED <<sts, job, late, adm>>
            BY <1>1 DEF ChangeObject
      <2>2. sts # None => Real(sts.ann)'
            BY <1>0, <1>1, <2>1, RealKept DEF RealInv, TypeOK, StatefulSet
      <2>3. job # None => Real(job.ann)'
            BY <1>0, <1>1, <2>1, RealKept DEF RealInv, TypeOK, Job
      <2>4. late # None => Real(late.ann)'
            BY <1>0, <1>1, <2>1, RealKept DEF RealInv, TypeOK, Job
      <2>5. adm # None => Real(adm.ann)'
            BY <1>0, <1>1, <2>1, RealKept DEF RealInv, TypeOK, Job
      <2> QED
          BY <2>1, <2>2, <2>3, <2>4, <2>5 DEF RealInv
<1>2. ASSUME log' = log, UNCHANGED <<sts, job, late, adm>> PROVE RealInv'
      BY <1>0, <1>2 DEF RealInv, Real
<1>3. ASSUME NEW k \in Kinds, ReconcileReads(k) PROVE RealInv'
      <2>1. job # None /\ Real(Annotated(job, k).ann)
            BY <1>0, <1>3, AnnotatedReal DEF ReconcileReads, CanRead, RealInv, TypeOK
      <2> QED
          BY <1>0, <1>3, <2>1 DEF ReconcileReads, RealInv, Real, apiVars
<1>4. ASSUME NEW k \in Kinds, WebhookReads(k) PROVE RealInv'
      <2>1. adm # None /\ Real(Annotated(adm, k).ann)
            BY <1>0, <1>4, AnnotatedReal DEF WebhookReads, CanRead, RealInv, TypeOK
      <2> QED
          BY <1>0, <1>4, <2>1 DEF WebhookReads, RealInv, Real, apiVars
<1>5. ASSUME NEW m \in Manifest, RequestCreate(m) PROVE RealInv'
      <2>1. Call(None, m) \in Job /\ Real(Call(None, m).ann)
            BY CallReal DEF Manifest
      <2>2. adm'.ann = Call(None, m).ann
            BY <1>5, <2>1 DEF RequestCreate, Job
      <2> QED
          BY <1>0, <1>5, <2>1, <2>2 DEF RequestCreate, RealInv, Real, apiVars
<1>6. ASSUME NEW m \in Manifest, EditSts(m) PROVE RealInv'
      <2>1. sts # None /\ sts'.ann = sts.ann
            BY <1>0, <1>6 DEF EditSts, StoreSts, TypeOK, StatefulSet
      <2> QED
          BY <1>0, <1>6, <2>1 DEF EditSts, RealInv, Real
<1>7. CASE WebhookUnanswered
      <2>1. adm'.ann = NoAnnotations
            BY <1>0, <1>7 DEF WebhookUnanswered, TypeOK, Job
      <2> QED
          BY <1>0, <1>7, <2>1, NoAnnotationsReal DEF WebhookUnanswered, RealInv, Real, apiVars
<1>8. CASE PersistSts
      <2>1. sts' = sts \/ sts'.ann = adm.ann
            BY <1>8 DEF PersistSts, StoreSts
      <2> QED
          BY <1>0, <1>8, <2>1 DEF PersistSts, RealInv, Real
<1>9. CASE StartReconcile
      <2>1. job' = None \/ Real(job'.ann)
            <3>1. CASE stsStore = None
                  BY <1>9, <3>1 DEF StartReconcile
            <3>2. CASE stsStore # None
                  <4>1. Real(Call(stsStore.uid, stsStore).ann)
                        BY <1>0, <3>2, CallReal DEF TypeOK, StatefulSet
                  <4> QED
                      BY <1>9, <3>2, <4>1 DEF StartReconcile, Real, apiVars
            <3> QED
                BY <3>1, <3>2
      <2> QED
          BY <1>0, <1>9, <2>1 DEF StartReconcile, RealInv, Real, apiVars
<1>10. CASE PatchApplied
      <2>1. sts'.ann = job.ann
            BY <1>0, <1>10 DEF PatchApplied, Patches, StoreSts, Patched, TypeOK, StatefulSet
      <2> QED
          BY <1>0, <1>10, <2>1 DEF PatchApplied, RealInv, Real
<1>11. CASE LatePatch
      <2>1. sts' = sts \/ sts'.ann = late.ann
            BY <1>0, <1>11 DEF LatePatch, Patches, StoreSts, Patched, TypeOK, StatefulSet
      <2> QED
          BY <1>0, <1>11, <2>1 DEF LatePatch, RealInv, Real
<1>12. CASE PatchRefused \/ PatchTimeout \/ DeleteSts
      BY <1>0, <1>12 DEF PatchRefused, PatchTimeout, DeleteSts, StoreSts, RealInv, Real, apiVars
<1>13. CASE OperatorRestart
      <2>1. adm' = adm \/ adm'.ann = NoAnnotations
            BY <1>0, <1>13 DEF OperatorRestart, TypeOK, Job
      <2>2. late' = late \/ (job # None /\ late' = job)
            BY <1>13 DEF OperatorRestart
      <2> QED
          BY <1>0, <1>13, <2>1, <2>2, NoAnnotationsReal DEF OperatorRestart, RealInv, Real
<1>14. ASSUME NEW k \in Kinds, WatchStart(k) \/ ListPage(k) \/ InitDone(k) \/ WatchLost(k)
       PROVE RealInv'
      BY <1>2, <1>14 DEF WatchStart, ListPage, InitDone, WatchLost, apiVars
<1>15. ASSUME NEW o \in Objects, WatchEvent(o) PROVE RealInv'
      BY <1>2, <1>15 DEF WatchEvent, apiVars
<1>16. CASE RollPod \/ StsEvent \/ UNCHANGED vars
      BY <1>2, <1>16 DEF RollPod, StsEvent, vars, apiVars
<1> QED
    BY <1>1, <1>3, <1>4, <1>5, <1>6, <1>7, <1>8, <1>9, <1>10, <1>11, <1>12, <1>13, <1>14,
       <1>15, <1>16 DEF Next

\* A pod loads the current versions when it starts, which no annotation exceeds.
LEMMA NextPodInv == IInv /\ [Next]_vars => PodInv'
<1> SUFFICES ASSUME IInv, [Next]_vars PROVE PodInv'
    OBVIOUS
<1>1. CASE RollPod
      <2>1. /\ sts \in StatefulSet /\ Real(sts.ann)
            /\ pod' = [tmpl |-> <<sts.tmpl, sts.ann>>, cfg |-> [o \in Objects |-> Len(log[o])]]
            BY <1>1 DEF RollPod, Template, IInv, TypeOK, RealInv
      <2>2. ASSUME NEW o \in Objects, IsVersion(sts.ann[o]) PROVE Len(log[o]) >= sts.ann[o]
            BY <2>1, <2>2 DEF Real, IInv, TypeOK
      <2> QED
          BY <2>1, <2>2 DEF PodInv
<1>2. CASE pod' = None \/ pod' = pod
      BY <1>2 DEF IInv, PodInv
<1>3. ASSUME NEW o \in Objects, NEW s \in {"live", "hidden", "gone"},
             ChangeObject(o, s) \/ WatchEvent(o)
      PROVE pod' = pod
      BY <1>3 DEF ChangeObject, WatchEvent, apiVars
<1>4. ASSUME NEW m \in Manifest, RequestCreate(m) \/ EditSts(m) PROVE pod' = pod
      BY <1>4 DEF RequestCreate, EditSts, apiVars
<1>5. ASSUME NEW k \in Kinds, WatchStart(k) \/ ListPage(k) \/ InitDone(k) \/ WatchLost(k)
                              \/ ReconcileReads(k) \/ WebhookReads(k)
      PROVE pod' = pod
      BY <1>5 DEF WatchStart, ListPage, InitDone, WatchLost, ReconcileReads, WebhookReads, apiVars
<1>6. CASE WebhookUnanswered \/ PersistSts \/ DeleteSts \/ StsEvent \/ StartReconcile
      BY <1>2, <1>6
         DEF WebhookUnanswered, PersistSts, DeleteSts, StsEvent, StartReconcile, apiVars
<1>7. CASE PatchApplied \/ PatchRefused \/ PatchTimeout \/ LatePatch \/ OperatorRestart
      BY <1>2, <1>7
         DEF PatchApplied, PatchRefused, PatchTimeout, LatePatch, OperatorRestart, apiVars
<1>8. CASE UNCHANGED vars
      BY <1>2, <1>8 DEF vars, apiVars
<1> QED
    BY <1>1, <1>2, <1>3, <1>4, <1>5, <1>6, <1>7, <1>8 DEF Next

\* The inductive invariant holds in every reachable state.
LEMMA IInvHolds == Spec => []IInv
<1>1. IInv /\ [Next]_vars => IInv'
      BY NextTypeOK, NextStoreInv, NextRealInv, NextPodInv DEF IInv
<1> QED
    BY InitIInv, <1>1, PTL DEF Spec
------------------------------------------------------------------------------
\* Every variable of the restarter and its cluster keeps its type.
THEOREM TypeCorrect == Spec => []TypeOK
<1>1. IInv => TypeOK
      BY DEF IInv
<1> QED
    BY IInvHolds, <1>1, PTL

\* The annotations that reconcile and the webhook write always name versions that
\* existed and were not labelled "ignore".
THEOREM AnnotationsRealHolds == Spec => []AnnotationsAreReal
<1>1. IInv => AnnotationsAreReal
      BY DEF IInv, RealInv, Real, AnnotationsAreReal
<1> QED
    BY IInvHolds, <1>1, PTL

\* A pod of the current template has loaded what the template is annotated with.
THEOREM PodsHonourHolds == Spec => []PodsHonourAnnotation
<1>1. IInv => PodsHonourAnnotation
      BY DEF IInv, PodInv, PodsHonourAnnotation, Template
<1> QED
    BY IInvHolds, <1>1, PTL

\* A patch reaches only the incarnation it was computed for: reconcile sends the uid it
\* observed.
THEOREM NoForeignPatchHolds == Spec => NoForeignPatch
<1> DEFINE Own ==
       /\ sts = None /\ sts' # None => adm # None /\ sts'.uid > uid
       /\ sts # None /\ sts' # None /\ sts'.uid = sts.uid /\ sts'.ann # sts.ann =>
            \/ job # None /\ job.uid = sts.uid /\ job' = None
            \/ late # None /\ late.uid = sts.uid /\ late' = None
<1>1. ASSUME TypeOK, [Next]_vars PROVE [Own]_vars
      <2> USE <1>1 DEF TypeOK, apiVars
      <2>1. ASSUME sts' = sts PROVE Own
            BY <2>1
      <2>2. CASE PersistSts
            <3>1. CASE sts = None
                  BY <2>2, <3>1 DEF PersistSts, StoreSts
            <3>2. CASE sts # None
                  BY <2>1, <2>2, <3>2 DEF PersistSts
            <3> QED
                BY <3>1, <3>2
      <2>3. ASSUME NEW m \in Manifest, EditSts(m) PROVE Own
            <3>1. sts \in StatefulSet /\ sts'.ann = sts.ann
                  BY <2>3 DEF EditSts, StoreSts, StatefulSet
            <3> QED
                BY <2>3, <3>1, ConstantsAssumption DEF EditSts, StatefulSet
      <2>4. CASE DeleteSts
            BY <2>4 DEF DeleteSts, StoreSts
      <2>5. CASE PatchApplied
            BY <2>5 DEF PatchApplied, Patches
      <2>6. CASE LatePatch
            BY <2>1, <2>6 DEF LatePatch, Patches
      <2>7. ASSUME NEW m \in Manifest, RequestCreate(m) PROVE Own
            BY <2>1, <2>7 DEF RequestCreate
      <2>8. ASSUME NEW o \in Objects, NEW s \in {"live", "hidden", "gone"},
                   ChangeObject(o, s) \/ WatchEvent(o)
            PROVE Own
            BY <2>1, <2>8 DEF ChangeObject, WatchEvent
      <2>9. ASSUME NEW k \in Kinds, WatchStart(k) \/ ListPage(k) \/ InitDone(k)
                        \/ WatchLost(k) \/ ReconcileReads(k) \/ WebhookReads(k)
            PROVE Own
            BY <2>1, <2>9
               DEF WatchStart, ListPage, InitDone, WatchLost, ReconcileReads, WebhookReads
      <2>10. CASE WebhookUnanswered \/ RollPod \/ StsEvent \/ StartReconcile \/ PatchRefused
                  \/ PatchTimeout \/ OperatorRestart
            BY <2>1, <2>10 DEF WebhookUnanswered, RollPod, StsEvent, StartReconcile,
                               PatchRefused, PatchTimeout, OperatorRestart
      <2> HIDE DEF Own
      <2> QED
          BY <2>2, <2>3, <2>4, <2>5, <2>6, <2>7, <2>8, <2>9, <2>10 DEF Next
<1> QED
    BY TypeCorrect, <1>1, PTL DEF Spec, NoForeignPatch
------------------------------------------------------------------------------
\* The store of StatefulSets holds what the watch has reported, and only requests that
\* match the object selector reach the webhook.
LabelInv == /\ ~stsNews => stsStore = Selected(sts)
            /\ adm # None /\ adm.step # "patch" => adm.on

\* The label is respected in every reachable state.
LEMMA LabelInvHolds == Spec => []LabelInv
<1>1. Init => LabelInv
      BY DEF Init, LabelInv, Selected
<1>2. ASSUME TypeOK, LabelInv, [Next]_vars PROVE LabelInv'
      <2> USE <1>2 DEF LabelInv, TypeOK, apiVars, storeVars
      <2>1. ASSUME UNCHANGED <<sts, stsNews, stsStore, adm>> PROVE LabelInv'
            BY <2>1 DEF Selected
      <2>2. ASSUME StoreSts(sts'), UNCHANGED <<stsStore, adm>> PROVE LabelInv'
            BY <2>2 DEF StoreSts
      <2>3. ASSUME NEW m \in Manifest, RequestCreate(m) PROVE LabelInv'
            <3>1. Call(None, m) \in Job /\ Call(None, m).on = m.on
                  BY CallReal DEF Manifest, Call
            <3>2. adm'.step # "patch" => adm'.on
                  BY <2>3, <3>1 DEF RequestCreate, Job
            <3> QED
                BY <2>3, <3>2 DEF RequestCreate
      <2>4. ASSUME NEW m \in Manifest, EditSts(m) PROVE LabelInv'
            BY <2>2, <2>4 DEF EditSts, StoreSts
      <2>5. CASE WebhookUnanswered
            BY <2>5 DEF WebhookUnanswered, Job
      <2>6. CASE PersistSts
            <3>1. StoreSts(sts') \/ UNCHANGED <<sts, stsNews>>
                  BY <2>6 DEF PersistSts, StoreSts
            <3>2. ~stsNews' => UNCHANGED <<sts, stsNews>>
                  BY <3>1 DEF StoreSts
            <3>3. adm' = None /\ stsStore' = stsStore
                  BY <2>6 DEF PersistSts
            <3> QED
                BY <3>2, <3>3 DEF Selected
      <2>7. CASE DeleteSts
            BY <2>2, <2>7 DEF DeleteSts, StoreSts
      <2>8. ASSUME NEW k \in Kinds, WebhookReads(k) PROVE LabelInv'
            <3>1. /\ adm \in Job /\ adm.step # "patch"
                  /\ adm'.on = adm.on
                  BY <2>8 DEF WebhookReads, CanRead, Annotated, Job, Kinds
            <3>2. adm.on
                  BY <2>8, <3>1 DEF WebhookReads, CanRead
            <3>3. (~stsNews => stsStore = Selected(sts))'
                  BY <2>8 DEF WebhookReads, Selected
            <3> QED
                BY <3>1, <3>2, <3>3
      <2>9. CASE StsEvent
            BY <2>9 DEF StsEvent, Selected
      <2>10. CASE PatchApplied
            BY <2>2, <2>10 DEF PatchApplied, StoreSts
      <2>11. CASE LatePatch
            BY <2>1, <2>2, <2>11 DEF LatePatch, StoreSts
      <2>12. CASE OperatorRestart
            BY <2>12 DEF OperatorRestart, Selected, Job
      <2>13. ASSUME NEW o \in Objects, NEW s \in {"live", "hidden", "gone"},
                    ChangeObject(o, s) \/ WatchEvent(o)
            PROVE LabelInv'
            BY <2>1, <2>13 DEF ChangeObject, WatchEvent
      <2>14. ASSUME NEW k \in Kinds, WatchStart(k) \/ ListPage(k) \/ InitDone(k)
                        \/ WatchLost(k) \/ ReconcileReads(k)
            PROVE LabelInv'
            BY <2>1, <2>14 DEF WatchStart, ListPage, InitDone, WatchLost, ReconcileReads
      <2>15. CASE RollPod \/ StartReconcile \/ PatchRefused \/ PatchTimeout \/ UNCHANGED vars
            BY <2>1, <2>15 DEF RollPod, StartReconcile, PatchRefused, PatchTimeout, vars
      <2> QED
          BY <2>3, <2>4, <2>5, <2>6, <2>7, <2>8, <2>9, <2>10, <2>11, <2>12, <2>13, <2>14, <2>15
             DEF Next
<1> QED
    BY <1>1, <1>2, TypeCorrect, PTL DEF Spec

\* No reconcile begins for a StatefulSet whose missing label has been reported, and none
\* is annotated on admission: the selectors of start and of the webhook.
THEOREM OptOutHolds == Spec => OptOutHonoured
<1> DEFINE Honoured ==
       /\ sts # None /\ ~stsNews /\ job = None /\ job' # None => sts.on
       /\ adm # None /\ adm' # None /\ adm'.ann # adm.ann => adm.on
<1>1. ASSUME TypeOK, LabelInv, [Next]_vars PROVE [Honoured]_vars
      <2> USE <1>1 DEF TypeOK, apiVars
      <2>1. ASSUME (job' = None \/ job # None) /\ (adm' = adm \/ adm' = None) PROVE Honoured
            BY <2>1
      <2>2. CASE StartReconcile
            BY <2>2 DEF StartReconcile, LabelInv, Selected
      <2>3. ASSUME NEW k \in Kinds, WebhookReads(k) PROVE Honoured
            BY <2>3 DEF WebhookReads, CanRead, LabelInv
      <2>4. CASE WebhookUnanswered
            BY <2>4 DEF WebhookUnanswered, LabelInv
      <2>5. CASE OperatorRestart
            BY <2>5 DEF OperatorRestart, LabelInv
      <2>6. ASSUME NEW m \in Manifest, RequestCreate(m) \/ EditSts(m) PROVE Honoured
            BY <2>6 DEF RequestCreate, EditSts
      <2>7. ASSUME NEW o \in Objects, NEW s \in {"live", "hidden", "gone"},
                   ChangeObject(o, s) \/ WatchEvent(o)
            PROVE Honoured
            BY <2>1, <2>7 DEF ChangeObject, WatchEvent
      <2>8. ASSUME NEW k \in Kinds, WatchStart(k) \/ ListPage(k) \/ InitDone(k)
                        \/ WatchLost(k) \/ ReconcileReads(k)
            PROVE Honoured
            BY <2>1, <2>8 DEF WatchStart, ListPage, InitDone, WatchLost, ReconcileReads, CanRead
      <2>9. CASE PersistSts \/ DeleteSts \/ RollPod \/ StsEvent \/ PatchApplied \/ PatchRefused
                 \/ PatchTimeout \/ LatePatch
            BY <2>1, <2>9 DEF PersistSts, DeleteSts, RollPod, StsEvent, PatchApplied,
                              PatchRefused, PatchTimeout, LatePatch
      <2> HIDE DEF Honoured
      <2> QED
          BY <2>2, <2>3, <2>4, <2>5, <2>6, <2>7, <2>8, <2>9 DEF Next
<1> QED
    BY TypeCorrect, LabelInvHolds, <1>1, PTL DEF Spec, OptOutHonoured
------------------------------------------------------------------------------
\* The store has caught up with the annotations ann, or has not been listed yet.
Seen(ann) == \A o \in Objects : IsVersion(ann[o]) =>
    pos[o] >= ann[o] \/ (pos[o] = 0 /\ phase[KindOf[o]] # "watching")

\* The store is never behind what was read from it before, but for a fresh process.
SeenInv == /\ sts # None => Seen(sts.ann)
           /\ job # None => Seen(job.ann)
           /\ late # None => Seen(late.ann)
           /\ adm # None => Seen(adm.ann)

\* The versions of a are not newer than those of b.
NotNewer(a, b) == \A o \in Objects : IsVersion(a[o]) /\ IsVersion(b[o]) => a[o] <= b[o]

\* What a running reconcile has read is not older than what is, or may still be, written.
JobInv == job # None =>
    /\ late # None => NotNewer(late.ann, job.ann)
    /\ sts # None /\ sts.uid = job.uid => NotNewer(sts.ann, job.ann)

\* Only uids that were given out are in use.
UidInv == /\ sts # None => sts.uid <= uid
          /\ stsStore # None => stsStore.uid <= uid
          /\ job # None => job.uid \in Nat /\ job.uid <= uid

\* With IInv, the inductive invariant behind AnnotationMonotone.
OrderInv == SeenInv /\ JobInv /\ UidInv

\* Annotations that are well typed, real and seen by the stores.
Known(ann) == ann \in [Objects -> AnnValues] /\ Real(ann) /\ Seen(ann)

\* What the stores have seen before a step they have seen after it.
SeenAfter(ann) == \A o \in Objects : IsVersion(ann[o]) =>
    pos'[o] >= ann[o] \/ (pos'[o] = 0 /\ phase'[KindOf[o]] # "watching")

\* A store only moves forward; a fresh process starts from an empty one, and a list
\* brings it to the current versions.
LEMMA StoresAdvance ==
    ASSUME IInv, [Next]_vars
    PROVE  \A ann : Known(ann) => SeenAfter(ann)
<1> SUFFICES ASSUME NEW ann, Known(ann), NEW o \in Objects, IsVersion(ann[o])
             PROVE  pos'[o] >= ann[o] \/ (pos'[o] = 0 /\ phase'[KindOf[o]] # "watching")
    BY DEF SeenAfter
<1>0. /\ ann[o] \in Nat /\ pos[o] \in Nat /\ KindOf[o] \in Kinds
      /\ ann[o] <= Len(log[o]) /\ Len(log[o]) \in Nat
      /\ pos \in [Objects -> Nat] /\ phase \in [Kinds -> {"off", "listing", "watching"}]
      /\ pos[o] >= ann[o] \/ (pos[o] = 0 /\ phase[KindOf[o]] # "watching")
      BY Versions, ConstantsAssumption DEF Known, Real, Seen, IInv, TypeOK
<1>1. ASSUME UNCHANGED <<pos, phase>>
      PROVE pos'[o] >= ann[o] \/ (pos'[o] = 0 /\ phase'[KindOf[o]] # "watching")
      BY <1>0, <1>1
<1> USE DEF apiVars, storeVars
<1>2. ASSUME NEW p \in Objects, WatchEvent(p)
      PROVE pos'[o] >= ann[o] \/ (pos'[o] = 0 /\ phase'[KindOf[o]] # "watching")
      <2>1. phase' = phase /\ (p = o => phase[KindOf[o]] = "watching")
            BY <1>2 DEF WatchEvent
      <2>2. pos'[o] = IF p = o THEN pos[o] + 1 ELSE pos[o]
            BY <1>0, <1>2 DEF WatchEvent
      <2> QED
          BY <1>0, <2>1, <2>2
<1>3. ASSUME NEW k \in Kinds, InitDone(k)
      PROVE pos'[o] >= ann[o] \/ (pos'[o] = 0 /\ phase'[KindOf[o]] # "watching")
      <2>1. CASE KindOf[o] = k
            BY <1>0, <1>3, <2>1 DEF InitDone
      <2>2. CASE KindOf[o] # k
            <3>1. pos'[o] = pos[o] /\ phase'[KindOf[o]] = phase[KindOf[o]]
                  BY <1>0, <1>3, <2>2 DEF InitDone
            <3> QED
                BY <1>0, <3>1
      <2> QED
          BY <2>1, <2>2
<1>4. ASSUME NEW k \in Kinds, WatchStart(k) \/ WatchLost(k)
      PROVE pos'[o] >= ann[o] \/ (pos'[o] = 0 /\ phase'[KindOf[o]] # "watching")
      BY <1>0, <1>4 DEF WatchStart, WatchLost
<1>5. CASE OperatorRestart
      BY <1>0, <1>5 DEF OperatorRestart
<1>6. ASSUME NEW p \in Objects, NEW s \in {"live", "hidden", "gone"}, ChangeObject(p, s)
      PROVE UNCHANGED <<pos, phase>>
      BY <1>6 DEF ChangeObject
<1>7. ASSUME NEW m \in Manifest, RequestCreate(m) \/ EditSts(m) PROVE UNCHANGED <<pos, phase>>
      BY <1>7 DEF RequestCreate, EditSts
<1>8. ASSUME NEW k \in Kinds, ListPage(k) \/ ReconcileReads(k) \/ WebhookReads(k)
      PROVE UNCHANGED <<pos, phase>>
      BY <1>8 DEF ListPage, ReconcileReads, WebhookReads
<1>9. CASE WebhookUnanswered \/ PersistSts \/ DeleteSts \/ RollPod \/ StsEvent
      BY <1>1, <1>9 DEF WebhookUnanswered, PersistSts, DeleteSts, RollPod, StsEvent
<1>10. CASE StartReconcile \/ PatchApplied \/ PatchRefused \/ PatchTimeout \/ LatePatch
      BY <1>1, <1>10 DEF StartReconcile, PatchApplied, PatchRefused, PatchTimeout, LatePatch
<1>11. CASE UNCHANGED vars
      BY <1>1, <1>11 DEF vars
<1> QED
    BY <1>1, <1>2, <1>3, <1>4, <1>5, <1>6, <1>7, <1>8, <1>9, <1>10, <1>11 DEF Next

\* All annotations kept anywhere are known, and so are those of a fresh call.
LEMMA KnownBefore ==
    ASSUME IInv, SeenInv
    PROVE  /\ sts # None => Known(sts.ann)
           /\ job # None => Known(job.ann)
           /\ late # None => Known(late.ann)
           /\ adm # None => Known(adm.ann)
           /\ Known(NoAnnotations)
<1>1. Seen(NoAnnotations)
      BY DEF Seen, NoAnnotations, IsVersion
<1> QED
    BY <1>1, NoAnnotationsReal
       DEF IInv, TypeOK, RealInv, SeenInv, Known, StatefulSet, Job

\* What half a call of get_updated_restarter_annotations adds is in the store.
LEMMA AnnotatedKnown ==
    ASSUME IInv, NEW j \in Job, Known(j.ann), NEW k \in Kinds
    PROVE  Known(Annotated(j, k).ann)
<1>1. Annotated(j, k) \in Job /\ Real(Annotated(j, k).ann)
      BY AnnotatedReal DEF IInv, Known
<1>2. ASSUME NEW o \in Objects, IsVersion(Annotated(j, k).ann[o])
      PROVE Annotated(j, k).ann[o] \in {pos[o], j.ann[o]}
      BY <1>2 DEF Annotated, Annotation, Stored, Job, IsVersion
<1>3. Seen(Annotated(j, k).ann)
      <2> SUFFICES ASSUME NEW o \in Objects, IsVersion(Annotated(j, k).ann[o])
                   PROVE \/ pos[o] >= Annotated(j, k).ann[o]
                         \/ pos[o] = 0 /\ phase[KindOf[o]] # "watching"
          BY DEF Seen
      <2>1. pos[o] \in Nat
            BY DEF IInv, TypeOK
      <2> QED
          BY <1>2, <2>1 DEF Known, Seen
<1> QED
    BY <1>1, <1>3 DEF Known, Job

\* a are annotations that are kept somewhere: in the StatefulSet, in a running reconcile,
\* in a request still under way or in an admission.
Held(a) == \/ sts # None /\ a = sts.ann
           \/ job # None /\ a = job.ann
           \/ late # None /\ a = late.ann
           \/ adm # None /\ a = adm.ann

\* a is what the call j knows after its next look into a store.
Reads(a, j) == \E k \in Kinds : CanRead(j, k) /\ a = Annotated(j, k).ann

\* Annotations are passed on as they are; new ones come from the stores only.
LEMMA HeldNext ==
    ASSUME TypeOK, [Next]_vars
    PROVE  \A a : Held(a)' => \/ Held(a) \/ a = NoAnnotations
                              \/ Reads(a, job) \/ Reads(a, adm)
<1> DEFINE From == \A a : Held(a)' => \/ Held(a) \/ a = NoAnnotations
                                      \/ Reads(a, job) \/ Reads(a, adm)
<1> SUFFICES From
    OBVIOUS
<1> USE DEF Held, apiVars
<1>1. ASSUME UNCHANGED <<sts, job, late, adm>> PROVE From
      BY <1>1
<1>2. ASSUME NEW k \in Kinds, ReconcileReads(k) PROVE From
      BY <1>2 DEF ReconcileReads, Reads
<1>3. ASSUME NEW k \in Kinds, WebhookReads(k) PROVE From
      BY <1>3 DEF WebhookReads, Reads
<1>4. ASSUME NEW m \in Manifest, RequestCreate(m) PROVE From
      <2>1. adm'.ann = NoAnnotations
            BY <1>4, CallReal DEF RequestCreate, Manifest, Call, Job
      <2> QED
          BY <1>4, <2>1 DEF RequestCreate
<1>5. ASSUME NEW m \in Manifest, EditSts(m) PROVE From
      <2>1. sts # None /\ sts'.ann = sts.ann
            BY <1>5 DEF EditSts, StoreSts, TypeOK, StatefulSet
      <2> QED
          BY <1>5, <2>1 DEF EditSts
<1>6. CASE WebhookUnanswered
      <2>1. adm'.ann = NoAnnotations
            BY <1>6 DEF WebhookUnanswered, TypeOK, Job
      <2> QED
          BY <1>6, <2>1 DEF WebhookUnanswered
<1>7. CASE PersistSts
      <2>1. sts' = sts \/ sts'.ann = adm.ann
            BY <1>7 DEF PersistSts, StoreSts
      <2> QED
          BY <1>7, <2>1 DEF PersistSts
<1>8. CASE StartReconcile
      <2>1. job' = None \/ job'.ann = NoAnnotations
            BY <1>8 DEF StartReconcile, Call
      <2> QED
          BY <1>8, <2>1 DEF StartReconcile
<1>9. CASE PatchApplied
      <2>1. sts'.ann = job.ann
            BY <1>9 DEF PatchApplied, Patches, StoreSts, Patched, TypeOK, StatefulSet
      <2> QED
          BY <1>9, <2>1 DEF PatchApplied
<1>10. CASE LatePatch
      <2>1. sts' = sts \/ sts'.ann = late.ann
            BY <1>10 DEF LatePatch, Patches, StoreSts, Patched, TypeOK, StatefulSet
      <2> QED
          BY <1>10, <2>1 DEF LatePatch
<1>11. CASE PatchRefused \/ PatchTimeout \/ DeleteSts
      BY <1>11 DEF PatchRefused, PatchTimeout, DeleteSts, StoreSts
<1>12. CASE OperatorRestart
      <2>1. adm' = adm \/ adm'.ann = NoAnnotations
            BY <1>12 DEF OperatorRestart, TypeOK, Job
      <2>2. late' = late \/ (job # None /\ late' = job)
            BY <1>12 DEF OperatorRestart
      <2> QED
          BY <1>12, <2>1, <2>2 DEF OperatorRestart
<1>13. ASSUME NEW o \in Objects, NEW s \in {"live", "hidden", "gone"},
              ChangeObject(o, s) \/ WatchEvent(o)
      PROVE From
      BY <1>1, <1>13 DEF ChangeObject, WatchEvent
<1>14. ASSUME NEW k \in Kinds, WatchStart(k) \/ ListPage(k) \/ InitDone(k) \/ WatchLost(k)
      PROVE From
      BY <1>1, <1>14 DEF WatchStart, ListPage, InitDone, WatchLost
<1>15. CASE RollPod \/ StsEvent \/ UNCHANGED vars
      BY <1>1, <1>15 DEF RollPod, StsEvent, vars
<1> HIDE DEF From
<1> QED
    BY <1>2, <1>3, <1>4, <1>5, <1>6, <1>7, <1>8, <1>9, <1>10, <1>11, <1>12, <1>13, <1>14, <1>15
       DEF Next

\* No action writes annotations that the stores have not seen.
LEMMA NextSeenInv == IInv /\ SeenInv /\ [Next]_vars => SeenInv'
<1> SUFFICES ASSUME IInv, SeenInv, [Next]_vars PROVE SeenInv'
    OBVIOUS
<1>1. TypeOK
      BY DEF IInv
<1>2. ASSUME NEW a, Held(a)' PROVE Known(a)
      <2>1. CASE Held(a) \/ a = NoAnnotations
            BY <2>1, KnownBefore DEF Held
      <2>2. CASE Reads(a, job)
            BY <1>1, <2>2, AnnotatedKnown, KnownBefore DEF Reads, CanRead, TypeOK
      <2>3. CASE Reads(a, adm)
            BY <1>1, <2>3, AnnotatedKnown, KnownBefore DEF Reads, CanRead, TypeOK
      <2> QED
          BY <1>1, <1>2, <2>1, <2>2, <2>3, HeldNext
<1>3. \A a : Held(a)' => SeenAfter(a)
      BY <1>2, StoresAdvance
<1> QED
    BY <1>3 DEF SeenInv, Seen, SeenAfter, Held

\* uids are given out once, and only the API server gives them out.
LEMMA NextUidInv == TypeOK /\ UidInv /\ [Next]_vars => UidInv'
<1> SUFFICES ASSUME TypeOK, UidInv, [Next]_vars PROVE UidInv'
    OBVIOUS
<1> USE DEF TypeOK, UidInv, apiVars, storeVars
<1>1. ASSUME UNCHANGED <<sts, uid, stsStore>>, job' = None \/ job' = job PROVE UidInv'
      BY <1>1
<1>2. ASSUME NEW m \in Manifest, EditSts(m) PROVE UidInv'
      BY <1>2 DEF EditSts, StoreSts, StatefulSet
<1>3. CASE PersistSts
      <2>1. (sts' = sts /\ uid' = uid) \/ (sts'.uid = uid + 1 /\ uid' = uid + 1)
            <3>1. CASE sts = None
                  BY <1>3, <3>1 DEF PersistSts, StoreSts
            <3>2. CASE sts # None
                  BY <1>3, <3>2 DEF PersistSts
            <3> QED
                BY <3>1, <3>2
      <2>2. UNCHANGED <<stsStore, job>>
            BY <1>3 DEF PersistSts
      <2> QED
          BY <2>1, <2>2 DEF StatefulSet
<1>4. CASE DeleteSts
      BY <1>4 DEF DeleteSts, StoreSts
<1>5. CASE StsEvent
      BY <1>5 DEF StsEvent, Selected
<1>6. CASE StartReconcile
      BY <1>6 DEF StartReconcile, Call, StatefulSet
<1>7. ASSUME NEW k \in Kinds, ReconcileReads(k) PROVE UidInv'
      <2>1. job # None /\ job'.uid = job.uid
            BY <1>7 DEF ReconcileReads, CanRead, Annotated, Job
      <2> QED
          BY <1>7, <2>1 DEF ReconcileReads
<1>8. CASE PatchApplied
      BY <1>8 DEF PatchApplied, Patches, StoreSts, Patched, StatefulSet
<1>9. CASE LatePatch
      BY <1>9 DEF LatePatch, Patches, StoreSts, Patched, StatefulSet
<1>10. CASE OperatorRestart
      BY <1>10 DEF OperatorRestart
<1>11. ASSUME NEW m \in Manifest, RequestCreate(m) PROVE UidInv'
      BY <1>1, <1>11 DEF RequestCreate
<1>12. ASSUME NEW o \in Objects, NEW s \in {"live", "hidden", "gone"},
              ChangeObject(o, s) \/ WatchEvent(o)
      PROVE UidInv'
      BY <1>1, <1>12 DEF ChangeObject, WatchEvent
<1>13. ASSUME NEW k \in Kinds, WatchStart(k) \/ ListPage(k) \/ InitDone(k) \/ WatchLost(k)
                               \/ WebhookReads(k)
      PROVE UidInv'
      BY <1>1, <1>13 DEF WatchStart, ListPage, InitDone, WatchLost, WebhookReads
<1>14. CASE WebhookUnanswered \/ RollPod \/ PatchRefused \/ PatchTimeout \/ UNCHANGED vars
      BY <1>1, <1>14 DEF WebhookUnanswered, RollPod, PatchRefused, PatchTimeout, vars
<1> QED
    BY <1>2, <1>3, <1>4, <1>5, <1>6, <1>7, <1>8, <1>9, <1>10, <1>11, <1>12, <1>13, <1>14
       DEF Next

\* Nothing older than what is already written, or under way, is read from a store.
LEMMA NextJobInv == IInv /\ OrderInv /\ [Next]_vars => JobInv'
<1> SUFFICES ASSUME IInv, OrderInv, [Next]_vars PROVE JobInv'
    OBVIOUS
<1>0. TypeOK /\ SeenInv /\ JobInv /\ UidInv
      BY DEF IInv, OrderInv
<1> USE <1>0 DEF JobInv, apiVars
<1>1. ASSUME UNCHANGED <<sts, job, late>> PROVE JobInv'
      BY <1>1 DEF NotNewer
<1>2. ASSUME job' = None PROVE JobInv'
      BY <1>2
<1>3. ASSUME NEW k \in Kinds, ReconcileReads(k) PROVE JobInv'
      <2>1. /\ job \in Job /\ job' = Annotated(job, k) /\ job'.uid = job.uid
            /\ UNCHANGED <<sts, late>>
            BY <1>3 DEF ReconcileReads, CanRead, Annotated, TypeOK, Job
      <2>2. ASSUME NEW o \in Objects, IsVersion(job'.ann[o])
            PROVE \/ job'.ann[o] = pos[o] /\ pos[o] # 0
                  \/ job'.ann[o] = job.ann[o]
            BY <2>1, <2>2 DEF Annotated, Annotation, Stored, ObjState, Job, IsVersion
      <2>3. ASSUME NEW ann \in [Objects -> AnnValues], Seen(ann), NotNewer(ann, job.ann)
            PROVE NotNewer(ann, job'.ann)
            <3> SUFFICES ASSUME NEW o \in Objects, IsVersion(ann[o]), IsVersion(job'.ann[o])
                         PROVE ann[o] <= job'.ann[o]
                BY DEF NotNewer
            <3>1. ann[o] \in Nat /\ pos[o] \in Nat
                  BY Versions DEF TypeOK
            <3> QED
                BY <2>2, <2>3, <3>1 DEF Seen, NotNewer
      <2>4. /\ late # None => late.ann \in [Objects -> AnnValues] /\ Seen(late.ann)
            /\ sts # None => sts.ann \in [Objects -> AnnValues] /\ Seen(sts.ann)
            BY DEF TypeOK, SeenInv, Job, StatefulSet
      <2>5. job # None
            BY <1>3 DEF ReconcileReads, CanRead
      <2>6. late # None => NotNewer(late.ann, job'.ann)
            BY <2>3, <2>4, <2>5
      <2>7. sts # None /\ sts.uid = job'.uid => NotNewer(sts.ann, job'.ann)
            BY <2>1, <2>3, <2>4, <2>5
      <2> QED
          BY <2>1, <2>6, <2>7 DEF NotNewer
<1>4. ASSUME NEW m \in Manifest, EditSts(m) PROVE JobInv'
      <2>1. sts # None /\ sts'.ann = sts.ann /\ sts'.uid = sts.uid
            BY <1>4 DEF EditSts, StoreSts, TypeOK, StatefulSet
      <2> QED
          BY <1>4, <2>1 DEF EditSts, NotNewer
<1>5. CASE PersistSts
      <2>1. UNCHANGED <<job, late>>
            BY <1>5 DEF PersistSts
      <2>2. sts' = sts \/ sts'.uid = uid + 1
            BY <1>5 DEF PersistSts, StoreSts
      <2>3. job # None => job.uid # uid + 1
            BY DEF UidInv, TypeOK
      <2> QED
          BY <2>1, <2>2, <2>3 DEF NotNewer
<1>6. CASE DeleteSts
      BY <1>6 DEF DeleteSts, StoreSts, NotNewer
<1>7. CASE StartReconcile
      <2>1. job' = None \/ job'.ann = NoAnnotations
            BY <1>7 DEF StartReconcile, Call
      <2> QED
          BY <2>1 DEF NotNewer, NoAnnotations, IsVersion
<1>8. CASE PatchApplied \/ PatchRefused \/ PatchTimeout \/ OperatorRestart
      BY <1>2, <1>8 DEF PatchApplied, PatchRefused, PatchTimeout, OperatorRestart
<1>9. CASE LatePatch
      <2>1. late # None /\ late' = None /\ job' = job
            BY <1>9 DEF LatePatch
      <2>2. sts' = sts \/ sts'.ann = late.ann
            BY <1>9 DEF LatePatch, Patches, StoreSts, Patched, TypeOK, StatefulSet
      <2> QED
          BY <2>1, <2>2 DEF NotNewer
<1>10. ASSUME NEW m \in Manifest, RequestCreate(m) PROVE JobInv'
      BY <1>1, <1>10 DEF RequestCreate
<1>11. ASSUME NEW o \in Objects, NEW s \in {"live", "hidden", "gone"},
              ChangeObject(o, s) \/ WatchEvent(o)
      PROVE JobInv'
      BY <1>1, <1>11 DEF ChangeObject, WatchEvent
<1>12. ASSUME NEW k \in Kinds, WatchStart(k) \/ ListPage(k) \/ InitDone(k) \/ WatchLost(k)
                               \/ WebhookReads(k)
      PROVE JobInv'
      BY <1>1, <1>12 DEF WatchStart, ListPage, InitDone, WatchLost, WebhookReads
<1>13. CASE WebhookUnanswered \/ RollPod \/ StsEvent \/ UNCHANGED vars
      BY <1>1, <1>13 DEF WebhookUnanswered, RollPod, StsEvent, vars
<1> QED
    BY <1>3, <1>4, <1>5, <1>6, <1>7, <1>8, <1>9, <1>10, <1>11, <1>12, <1>13 DEF Next

\* The order of reads and writes is an invariant.
LEMMA OrderInvHolds == Spec => []OrderInv
<1>1. Init => OrderInv
      BY DEF Init, OrderInv, SeenInv, JobInv, UidInv
<1>2. IInv /\ OrderInv /\ [Next]_vars => OrderInv'
      BY NextSeenInv, NextJobInv, NextUidInv DEF OrderInv, IInv
<1> QED
    BY <1>1, <1>2, IInvHolds, PTL DEF Spec

\* No reconcile takes an annotation back to an older version, through any number of
\* relists, failed patches, re-creations and operator restarts: a store never falls
\* behind what was read from it, and a fresh one is empty until it has been listed.
THEOREM AnnotationMonotoneHolds == Spec => AnnotationMonotone
<1> DEFINE Forward ==
       sts # None /\ sts' # None /\ sts'.uid = sts.uid /\ ~LateStep =>
          \A o \in Objects : IsVersion(sts.ann[o]) /\ IsVersion(sts'.ann[o])
                                => sts'.ann[o] >= sts.ann[o]
<1>1. ASSUME TypeOK, OrderInv, [Next]_vars PROVE [Forward]_vars
      <2> USE <1>1 DEF TypeOK, apiVars
      <2>1. ASSUME sts # None, sts'.ann = sts.ann PROVE Forward
            <3> SUFFICES ASSUME NEW o \in Objects, IsVersion(sts.ann[o])
                         PROVE sts.ann[o] >= sts.ann[o]
                BY <2>1
            <3>1. sts.ann[o] \in Nat
                  BY <2>1, Versions DEF StatefulSet
            <3> QED
                BY <3>1
      <2>2. ASSUME sts' = sts PROVE Forward
            BY <2>1, <2>2
      <2>3. CASE PatchApplied
            <3>1. /\ job # None /\ sts # None /\ sts.uid = job.uid
                  /\ sts'.ann = job.ann
                  BY <2>3 DEF PatchApplied, Patches, StoreSts, Patched, StatefulSet
            <3>2. ASSUME NEW o \in Objects, IsVersion(sts.ann[o]), IsVersion(job.ann[o])
                  PROVE job.ann[o] >= sts.ann[o]
                  <4>1. sts.ann[o] \in Nat /\ job.ann[o] \in Nat
                        BY <3>1, <3>2, Versions DEF StatefulSet, Job
                  <4> QED
                      BY <3>1, <3>2, <4>1 DEF OrderInv, JobInv, NotNewer
            <3> QED
                BY <3>1, <3>2
      <2>4. ASSUME NEW m \in Manifest, EditSts(m) PROVE Forward
            BY <2>1, <2>4 DEF EditSts, StoreSts, StatefulSet
      <2>5. CASE PersistSts
            BY <2>2, <2>5 DEF PersistSts
      <2>6. CASE DeleteSts
            BY <2>6 DEF DeleteSts, StoreSts
      <2>7. CASE LatePatch
            BY <2>7 DEF LatePatch, LateStep
      <2>8. ASSUME NEW m \in Manifest, RequestCreate(m) PROVE Forward
            BY <2>2, <2>8 DEF RequestCreate
      <2>9. ASSUME NEW o \in Objects, NEW s \in {"live", "hidden", "gone"},
                   ChangeObject(o, s) \/ WatchEvent(o)
            PROVE Forward
            BY <2>2, <2>9 DEF ChangeObject, WatchEvent
      <2>10. ASSUME NEW k \in Kinds, WatchStart(k) \/ ListPage(k) \/ InitDone(k)
                        \/ WatchLost(k) \/ ReconcileReads(k) \/ WebhookReads(k)
            PROVE Forward
            BY <2>2, <2>10
               DEF WatchStart, ListPage, InitDone, WatchLost, ReconcileReads, WebhookReads
      <2>11. CASE WebhookUnanswered \/ RollPod \/ StsEvent \/ StartReconcile \/ PatchRefused
                  \/ PatchTimeout \/ OperatorRestart
            BY <2>2, <2>11 DEF WebhookUnanswered, RollPod, StsEvent, StartReconcile,
                               PatchRefused, PatchTimeout, OperatorRestart
      <2> HIDE DEF Forward
      <2> QED
          BY <2>3, <2>4, <2>5, <2>6, <2>7, <2>8, <2>9, <2>10, <2>11 DEF Next
<1> QED
    BY TypeCorrect, OrderInvHolds, <1>1, PTL DEF Spec, AnnotationMonotone
------------------------------------------------------------------------------
(***************************************************************************)
(* Nothing is forgotten: while nothing is reported or scheduled, what is   *)
(* written, or about to be, matches the stores.                            *)
(***************************************************************************)
\* The kinds of objects that the call j has looked up already.
ReadKinds(j) == {k \in Kinds : IF k = "ConfigMap" THEN j.step # "cms" ELSE j.step = "patch"}

\* Object o is referenced by the pod spec and followed by the controller.
Refers(tmpl, o) == o \in FindPodRefs(tmpl, KindOf[o])

\* The versions in the stores, and the annotation value made from them.
StoredNow == [o \in Objects |-> Stored(o)]
ValueOf(st, ign, o) == IF st[o] # None /\ o \notin ign THEN st[o] ELSE ChangesIgnored

\* The annotations of s, for its references of the given kinds, are those of the stores
\* (unless exact, an object that left its store may still be named), and there are no
\* others.
Matches(s, kinds, st, exact) == \A o \in Objects :
    IF Refers(s.tmpl, o) /\ KindOf[o] \in kinds
    THEN exact \/ o \in s.ign \/ st[o] # None => s.ann[o] = ValueOf(st, s.ign, o)
    ELSE s.ann[o] = None

\* No watch was lost, so that every object left its store by an event of its own.
NoRelist == used["relist"] = 0

\* While nothing is reported or scheduled, a running reconcile works on the StatefulSet
\* as it is and has read what the stores hold, and without one the StatefulSet carries it.
RestInv ==
    sts # None /\ sts.on /\ ~stsNews /\ ~queue =>
        IF job = None THEN Matches(sts, Kinds, StoredNow, NoRelist)
        ELSE /\ job.uid = sts.uid /\ job.tmpl = sts.tmpl /\ job.ign = sts.ign
             /\ Matches(job, ReadKinds(job), StoredNow, NoRelist)

\* A store is empty until its first list is complete.
FirstListInv == NoRelist => \A o \in Objects : phase[KindOf[o]] # "watching" => pos[o] = 0

\* A pod has not loaded what does not exist yet.
CfgInv == pod # None => \A o \in Objects : pod.cfg[o] <= Len(log[o])

\* find_pod_refs finds an object under its own kind only.
LEMMA RefKind ==
    ASSUME NEW tmpl \in Templates, NEW o \in Objects, NEW k \in Kinds
    PROVE  o \in FindPodRefs(tmpl, k) <=> Refers(tmpl, o) /\ KindOf[o] = k
<1>1. ASSUME o \in FindPodRefs(tmpl, k) PROVE KindOf[o] = k
      BY <1>1 DEF FindPodRefs
<1> QED
    BY <1>1 DEF Refers

\* Every reference outside projected volumes is found by find_pod_refs.
LEMMA ReferencesRefer ==
    ASSUME NEW tmpl \in Templates, NEW o \in References(tmpl)
    PROVE  o \in Objects /\ Refers(tmpl, o)
<1>1. PICK r \in tmpl : r.site # "projected" /\ o = r.obj
      BY DEF References
<1>2. r \in [obj : Objects, site : Sites]
      BY ConstantsAssumption
<1>3. r.site \in {"volume", "env", "envFrom"} /\ o \in Objects
      BY <1>1, <1>2 DEF Sites
<1> QED
    BY <1>1, <1>3 DEF Refers, FindPodRefs

\* What one half of get_updated_restarter_annotations does to a call.
LEMMA AnnotatedIs ==
    ASSUME NEW j \in Job, NEW k \in Kinds,
           j.step = (IF k = "ConfigMap" THEN "cms" ELSE "secrets")
    PROVE  LET a == Annotated(j, k)
           IN  /\ a.uid = j.uid /\ a.tmpl = j.tmpl /\ a.ign = j.ign
               /\ ReadKinds(a) = ReadKinds(j) \cup {k}
               /\ \A o \in Objects : a.ann[o] = IF Refers(j.tmpl, o) /\ KindOf[o] = k
                                               THEN ValueOf(StoredNow, j.ign, o) ELSE j.ann[o]
<1> DEFINE a == Annotated(j, k)
<1>1. /\ a.uid = j.uid /\ a.tmpl = j.tmpl /\ a.ign = j.ign
      /\ a.step = IF k = "ConfigMap" THEN "secrets" ELSE "patch"
      /\ a.ann = [o \in Objects |-> IF o \in FindPodRefs(j.tmpl, k)
                                    THEN Annotation(o, j.ign) ELSE j.ann[o]]
      BY DEF Annotated, Job
<1>2. ReadKinds(a) = ReadKinds(j) \cup {k}
      BY <1>1 DEF ReadKinds, Kinds
<1>3. ASSUME NEW o \in Objects
      PROVE  a.ann[o] = IF Refers(j.tmpl, o) /\ KindOf[o] = k
                        THEN ValueOf(StoredNow, j.ign, o) ELSE j.ann[o]
      <2>1. o \in FindPodRefs(j.tmpl, k) <=> Refers(j.tmpl, o) /\ KindOf[o] = k
            BY RefKind DEF Job
      <2>2. Annotation(o, j.ign) = ValueOf(StoredNow, j.ign, o)
            BY DEF Annotation, ValueOf, StoredNow
      <2> QED
          BY <1>1, <2>1, <2>2
<1> QED
    BY <1>1, <1>2, <1>3

\* Objects that leave the stores take no annotation with them.
LEMMA MatchesShrinks ==
    ASSUME NEW s, NEW kinds, NEW st1, NEW st2, NEW ex1, NEW ex2, Matches(s, kinds, st1, ex1),
           ex2 => ex1, \A o \in Objects : st2[o] = st1[o] \/ (~ex2 /\ st2[o] = None)
    PROVE  Matches(s, kinds, st2, ex2)
<1> SUFFICES ASSUME NEW o \in Objects
             PROVE  IF Refers(s.tmpl, o) /\ KindOf[o] \in kinds
                    THEN ex2 \/ o \in s.ign \/ st2[o] # None => s.ann[o] = ValueOf(st2, s.ign, o)
                    ELSE s.ann[o] = None
    BY Zenon DEF Matches
<1>1. IF Refers(s.tmpl, o) /\ KindOf[o] \in kinds
      THEN ex1 \/ o \in s.ign \/ st1[o] # None => s.ann[o] = ValueOf(st1, s.ign, o)
      ELSE s.ann[o] = None
      BY Zenon DEF Matches
<1>2. ASSUME ex2 \/ o \in s.ign \/ st2[o] # None
      PROVE  /\ ex1 \/ o \in s.ign \/ st1[o] # None
             /\ ValueOf(st2, s.ign, o) = ValueOf(st1, s.ign, o)
      BY <1>2 DEF ValueOf
<1> QED
    BY <1>1, <1>2

\* A step keeps the stores, but that objects may leave them once a watch was lost.
StoresKept == /\ NoRelist' => NoRelist
              /\ \A o \in Objects : StoredNow'[o] = StoredNow[o]
                                      \/ (~NoRelist' /\ StoredNow'[o] = None)

\* A step that leaves the StatefulSet, the reconcile and the stores alone keeps what is
\* at rest.
LEMMA RestKept ==
    ASSUME RestInv, UNCHANGED <<sts, stsNews, job>>, queue => queue', StoresKept
    PROVE  RestInv'
<1> SUFFICES ASSUME sts # None, sts.on, ~stsNews, ~queue
             PROVE  IF job = None THEN Matches(sts, Kinds, StoredNow', NoRelist')
                    ELSE /\ job.uid = sts.uid /\ job.tmpl = sts.tmpl /\ job.ign = sts.ign
                         /\ Matches(job, ReadKinds(job), StoredNow', NoRelist')
    BY DEF RestInv
<1>1. CASE job = None
      BY <1>1, MatchesShrinks DEF RestInv, StoresKept
<1>2. CASE job # None
      BY <1>2, MatchesShrinks DEF RestInv, StoresKept
<1> QED
    BY <1>1, <1>2

\* A watch that is lost is counted for good.
LEMMA RelistCounted ==
    ASSUME TypeOK, [Next]_vars
    PROVE  NoRelist' => NoRelist
<1>1. used \in [Disturbances -> Nat]
      BY DEF TypeOK
<1>2. ASSUME NEW d \in Disturbances, Disturb(d) PROVE NoRelist' => NoRelist
      BY <1>1, <1>2 DEF Disturb, Disturbances, NoRelist
<1>3. ASSUME used' = used PROVE NoRelist' => NoRelist
      BY <1>3 DEF NoRelist
<1>4. used' = used \/ \E d \in Disturbances : Disturb(d)
      BY DEF Next, vars, ChangeObject, WatchEvent, RequestCreate, EditSts, WebhookUnanswered,
          PersistSts, DeleteSts, RollPod, WatchStart, ListPage, InitDone, WatchLost,
          ReconcileReads, WebhookReads, StsEvent, StartReconcile, PatchApplied, PatchRefused,
          PatchTimeout, LatePatch, OperatorRestart, Disturbances
<1> QED
    BY <1>2, <1>3, <1>4

\* Only a list that follows a lost watch replaces a store that is not empty.
LEMMA NextFirstListInv == TypeOK /\ FirstListInv /\ [Next]_vars => FirstListInv'
<1> SUFFICES ASSUME TypeOK, FirstListInv, [Next]_vars, NoRelist',
                    NEW o \in Objects, phase'[KindOf[o]] # "watching"
             PROVE  pos'[o] = 0
    BY DEF FirstListInv
<1>1. NoRelist /\ KindOf[o] \in Kinds
      BY RelistCounted, ConstantsAssumption
<1>2. phase[KindOf[o]] # "watching" => pos[o] = 0
      BY <1>1 DEF FirstListInv
<1> USE DEF storeVars
<1>3. ASSUME UNCHANGED <<phase, pos>> PROVE pos'[o] = 0
      BY <1>2, <1>3
<1>4. ASSUME NEW p \in Objects, WatchEvent(p) PROVE pos'[o] = 0
      BY <1>2, <1>4 DEF WatchEvent, TypeOK
<1>5. ASSUME NEW k \in Kinds, WatchStart(k) \/ InitDone(k) PROVE pos'[o] = 0
      BY <1>1, <1>2, <1>5 DEF WatchStart, InitDone, TypeOK
<1>6. ASSUME NEW k \in Kinds, WatchLost(k) PROVE FALSE
      <2>1. used'["relist"] = used["relist"] + 1 /\ used["relist"] \in Nat
            BY <1>6 DEF WatchLost, Disturb, Disturbances, TypeOK
      <2> QED
          BY <1>1, <2>1 DEF NoRelist
<1>7. CASE OperatorRestart
      BY <1>7 DEF OperatorRestart
<1>8. ASSUME NEW p \in Objects, NEW s \in {"live", "hidden", "gone"}, ChangeObject(p, s)
      PROVE pos'[o] = 0
      BY <1>3, <1>8 DEF ChangeObject
<1>9. ASSUME NEW m \in Manifest, RequestCreate(m) \/ EditSts(m) PROVE pos'[o] = 0
      BY <1>3, <1>9 DEF RequestCreate, EditSts
<1>10. ASSUME NEW k \in Kinds, ListPage(k) \/ ReconcileReads(k) \/ WebhookReads(k)
      PROVE pos'[o] = 0
      BY <1>3, <1>10 DEF ListPage, ReconcileReads, WebhookReads
<1>11. CASE WebhookUnanswered \/ PersistSts \/ DeleteSts \/ RollPod \/ StsEvent
      BY <1>3, <1>11 DEF WebhookUnanswered, PersistSts, DeleteSts, RollPod, StsEvent
<1>12. CASE StartReconcile \/ PatchApplied \/ PatchRefused \/ PatchTimeout \/ LatePatch
      BY <1>3, <1>12 DEF StartReconcile, PatchApplied, PatchRefused, PatchTimeout, LatePatch
<1>13. CASE UNCHANGED vars
      BY <1>3, <1>13 DEF vars
<1> QED
    BY <1>4, <1>5, <1>6, <1>7, <1>8, <1>9, <1>10, <1>11, <1>12, <1>13 DEF Next

\* Every action of the system either leaves something to do or keeps the match.
LEMMA NextRestInv == IInv /\ LabelInv /\ FirstListInv /\ RestInv /\ [Next]_vars => RestInv'
<1> SUFFICES ASSUME IInv, LabelInv, FirstListInv, RestInv, [Next]_vars PROVE RestInv'
    OBVIOUS
<1>0. TypeOK /\ TypeOK' /\ StoreInv /\ (NoRelist' => NoRelist)
      BY NextTypeOK, RelistCounted DEF IInv
<1> USE DEF apiVars, storeVars
<1>1. ASSUME UNCHANGED <<log, pos>> PROVE StoresKept
      BY <1>0, <1>1 DEF StoresKept, StoredNow, Stored, ObjState
<1>2. ASSUME UNCHANGED <<log, pos, sts, stsNews, job, queue>> PROVE RestInv'
      BY <1>1, <1>2, RestKept
<1>3. ASSUME sts' = None \/ ~sts'.on \/ stsNews' \/ queue' PROVE RestInv'
      BY <1>3 DEF RestInv
<1>4. ASSUME NEW o \in Objects, NEW s \in {"live", "hidden", "gone"}, ChangeObject(o, s)
      PROVE  RestInv'
      <2>1. ASSUME NEW p \in Objects PROVE Stored(p)' = Stored(p)
            <3>1. log[p] \in Seq({"live", "hidden", "gone"}) /\ pos[p] \in 0..Len(log[p])
                  BY <1>0 DEF TypeOK, StoreInv
            <3>2. log'[p] = IF p = o THEN Append(log[p], s) ELSE log[p]
                  BY <1>0, <1>4 DEF ChangeObject, TypeOK
            <3>3. pos[p] # 0 => log'[p][pos[p]] = log[p][pos[p]]
                  BY <3>1, <3>2
            <3>4. pos' = pos
                  BY <1>4 DEF ChangeObject
            <3> QED
                BY <3>3, <3>4 DEF Stored, ObjState
      <2>2. StoresKept
            BY <1>0, <2>1 DEF StoresKept, StoredNow
      <2>3. UNCHANGED <<sts, stsNews, job, queue>>
            BY <1>4 DEF ChangeObject
      <2> QED
          BY <2>2, <2>3, RestKept
<1>5. ASSUME sts # None, sts.on, ~stsNews PROVE stsStore = sts
      BY <1>5 DEF LabelInv, Selected
<1>6. ASSUME NEW touched, TriggerAll(touched), UNCHANGED <<sts, stsNews, job>>,
             ~touched => StoresKept
      PROVE  RestInv'
      <2>1. CASE sts # None /\ sts.on /\ ~stsNews /\ touched
            <3>1. queue'
                  BY <1>5, <1>6, <2>1 DEF TriggerAll
            <3> QED
                BY <1>3, <3>1
      <2>2. CASE ~touched
            BY <1>6, <2>2, RestKept DEF TriggerAll
      <2>3. CASE sts = None \/ ~sts.on \/ stsNews
            BY <1>3, <1>6, <2>3
      <2> QED
          BY <2>1, <2>2, <2>3
<1>7. ASSUME NEW o \in Objects, WatchEvent(o) PROVE RestInv'
      <2> DEFINE touched == "live" \in {ObjState(o, pos[o]), ObjState(o, pos[o] + 1)}
      <2>1. ASSUME ~touched, NEW p \in Objects PROVE Stored(p)' = Stored(p)
            <3>1. log' = log /\ pos'[p] = IF p = o THEN pos[p] + 1 ELSE pos[p]
                  BY <1>0, <1>7 DEF WatchEvent, TypeOK
            <3>2. CASE p # o
                  BY <3>1, <3>2 DEF Stored, ObjState
            <3>3. CASE p = o
                  <4>1. ObjState(o, pos[o]) # "live" /\ ObjState(o, pos[o] + 1) # "live"
                        BY <2>1
                  <4> QED
                      BY <3>1, <3>3, <4>1 DEF Stored, ObjState
            <3> QED
                BY <3>2, <3>3
      <2>3. ~touched => StoresKept
            BY <1>0, <2>1 DEF StoresKept, StoredNow
      <2>2. TriggerAll(touched) /\ UNCHANGED <<sts, stsNews, job>>
            BY <1>7 DEF WatchEvent
      <2> HIDE DEF touched
      <2> QED
          BY <1>6, <2>2, <2>3
<1>8. ASSUME NEW k \in Kinds, InitDone(k) PROVE RestInv'
      <2> DEFINE touched == \E o \in Objects : KindOf[o] = k /\ Live(o)
      <2>1. ASSUME ~touched, NEW p \in Objects
            PROVE  Stored(p)' = Stored(p) \/ (~NoRelist' /\ Stored(p)' = None)
            <3>1. log' = log /\ pos'[p] = IF KindOf[p] = k THEN Len(log[p]) ELSE pos[p]
                  BY <1>8 DEF InitDone
            <3>2. CASE KindOf[p] # k
                  BY <3>1, <3>2 DEF Stored, ObjState
            <3>3. CASE KindOf[p] = k
                  <4>1. ObjState(p, Len(log[p])) # "live"
                        BY <2>1, <3>3 DEF Live
                  <4>2. Stored(p)' = None
                        BY <3>1, <3>3, <4>1 DEF Stored, ObjState
                  <4>3. NoRelist' => Stored(p) = None
                        BY <1>0, <1>8, <3>3 DEF InitDone, FirstListInv, Stored, ObjState
                  <4> QED
                      BY <4>2, <4>3
            <3> QED
                BY <3>2, <3>3
      <2>3. ~touched => StoresKept
            BY <1>0, <2>1 DEF StoresKept, StoredNow
      <2>2. TriggerAll(touched) /\ UNCHANGED <<sts, stsNews, job>>
            BY <1>8 DEF InitDone
      <2> HIDE DEF touched
      <2> QED
          BY <1>6, <2>2, <2>3
<1>9. ASSUME NEW k \in Kinds, ListPage(k) PROVE RestInv'
      <2>1. (queue => queue') /\ UNCHANGED <<log, pos, sts, stsNews, job>>
            BY <1>9 DEF ListPage, TriggerAll
      <2> QED
          BY <1>1, <2>1, RestKept
<1>10. ASSUME NEW k \in Kinds, WatchStart(k) \/ WatchLost(k) \/ WebhookReads(k) PROVE RestInv'
      BY <1>2, <1>10 DEF WatchStart, WatchLost, WebhookReads
<1>11. ASSUME NEW m \in Manifest, RequestCreate(m) PROVE RestInv'
      BY <1>2, <1>11 DEF RequestCreate
<1>12. ASSUME NEW m \in Manifest, EditSts(m) PROVE RestInv'
      BY <1>3, <1>12 DEF EditSts, StoreSts
<1>13. CASE WebhookUnanswered \/ RollPod \/ UNCHANGED vars
      BY <1>2, <1>13 DEF WebhookUnanswered, RollPod, vars
<1>14. CASE PersistSts
      <2>1. CASE sts = None
            BY <1>3, <1>14, <2>1 DEF PersistSts, StoreSts
      <2>2. CASE sts # None
            BY <1>2, <1>14, <2>2 DEF PersistSts
      <2> QED
          BY <2>1, <2>2
<1>15. CASE DeleteSts
      BY <1>3, <1>15 DEF DeleteSts, StoreSts
<1>16. CASE StsEvent
      <2>1. CASE sts # None /\ sts.on
            BY <1>3, <1>16, <2>1 DEF StsEvent, Selected
      <2>2. CASE sts = None \/ ~sts.on
            BY <1>3, <1>16, <2>2 DEF StsEvent
      <2> QED
          BY <2>1, <2>2
<1>17. CASE StartReconcile
      <2>1. CASE sts # None /\ sts.on /\ ~stsNews
            <3>1. stsStore = sts /\ sts \in StatefulSet /\ UNCHANGED <<sts, stsNews>>
                  BY <1>0, <1>5, <1>17, <2>1 DEF StartReconcile, TypeOK
            <3>2. job' = Call(sts.uid, sts)
                  BY <1>17, <2>1, <3>1 DEF StartReconcile
            <3>3. job' \in Job
                  BY <3>1, <3>2, CallReal DEF StatefulSet
            <3>4. /\ job' # None /\ job'.uid = sts.uid /\ job'.tmpl = sts.tmpl
                  /\ job'.ign = sts.ign /\ job'.ann = NoAnnotations /\ job'.step = "cms"
                  BY <3>2, <3>3, NoneAssumption DEF Call
            <3>5. ReadKinds(job') = {}
                  BY <3>4 DEF ReadKinds, Kinds
            <3>6. Matches(job', ReadKinds(job'), StoredNow', NoRelist')
                  BY <3>4, <3>5 DEF Matches, NoAnnotations
            <3> QED
                BY <3>1, <3>4, <3>6 DEF RestInv
      <2>2. CASE sts = None \/ ~sts.on \/ stsNews
            BY <1>3, <1>17, <2>2 DEF StartReconcile
      <2> QED
          BY <2>1, <2>2
<1>18. ASSUME NEW k \in Kinds, ReconcileReads(k) PROVE RestInv'
      <2>1. /\ job # None /\ job \in Job /\ job' = Annotated(job, k) /\ job' # None
            /\ job.step = (IF k = "ConfigMap" THEN "cms" ELSE "secrets")
            /\ UNCHANGED <<log, pos, sts, stsNews, queue, used>>
            <3>1. Annotated(job, k) \in Job
                  BY <1>18, AnnotatedReal DEF ReconcileReads, CanRead, IInv, RealInv, TypeOK
            <3> QED
                BY <1>0, <1>18, <3>1, NoneAssumption DEF ReconcileReads, CanRead, TypeOK
      <2> SUFFICES ASSUME sts # None, sts.on, ~stsNews, ~queue
                   PROVE  /\ job'.uid = sts.uid /\ job'.tmpl = sts.tmpl /\ job'.ign = sts.ign
                          /\ Matches(job', ReadKinds(job'), StoredNow', NoRelist')
          BY <2>1 DEF RestInv
      <2>2. /\ job.uid = sts.uid /\ job.tmpl = sts.tmpl /\ job.ign = sts.ign
            /\ Matches(job, ReadKinds(job), StoredNow, NoRelist)
            BY <2>1 DEF RestInv
      <2>3. StoredNow' = StoredNow /\ NoRelist' = NoRelist
            BY <2>1 DEF StoredNow, Stored, ObjState, NoRelist
      <2>4. /\ job'.uid = job.uid /\ job'.tmpl = job.tmpl /\ job'.ign = job.ign
            /\ ReadKinds(job') = ReadKinds(job) \cup {k}
            /\ \A o \in Objects : job'.ann[o] = IF Refers(job.tmpl, o) /\ KindOf[o] = k
                                   THEN ValueOf(StoredNow, job.ign, o) ELSE job.ann[o]
            BY <2>1, AnnotatedIs
      <2>5. Matches(job', ReadKinds(job'), StoredNow, NoRelist)
            BY <2>2, <2>4 DEF Matches
      <2> QED
          BY <2>2, <2>3, <2>4, <2>5
<1>19. CASE PatchApplied
      <2>1. /\ job # None /\ job.step = "patch" /\ job' = None /\ sts # None
            /\ stsNews' = (stsNews \/ sts' # sts) /\ UNCHANGED <<log, pos, queue, used>>
            /\ sts' = [sts EXCEPT !.ann = job.ann]
            BY <1>19 DEF PatchApplied, Patches, StoreSts, Patched
      <2>2. CASE sts' # sts
            BY <1>3, <2>1, <2>2
      <2>3. CASE sts' = sts
            <3>1. sts.ann = job.ann
                  BY <1>0, <2>1, <2>3 DEF TypeOK, StatefulSet
            <3>2. ReadKinds(job) = Kinds
                  BY <2>1 DEF ReadKinds
            <3>3. StoredNow' = StoredNow /\ NoRelist' = NoRelist
                  BY <2>1 DEF StoredNow, Stored, ObjState, NoRelist
            <3>4. ASSUME sts.on, ~stsNews, ~queue PROVE Matches(sts, Kinds, StoredNow, NoRelist)
                  BY <2>1, <3>1, <3>2, <3>4 DEF RestInv, Matches
            <3> QED
                BY <2>1, <2>3, <3>3, <3>4 DEF RestInv
      <2> QED
          BY <2>2, <2>3
<1>20. CASE PatchRefused \/ PatchTimeout
      BY <1>3, <1>20 DEF PatchRefused, PatchTimeout
<1>21. CASE LatePatch
      <2>1. /\ stsNews' = (stsNews \/ sts' # sts) /\ UNCHANGED <<log, pos, queue, job>>
            BY <1>0, <1>21 DEF LatePatch, StoreSts, TypeOK
      <2>2. CASE sts' = sts
            BY <1>0, <1>2, <2>1, <2>2 DEF TypeOK
      <2> QED
          BY <1>3, <2>1, <2>2
<1>22. CASE OperatorRestart
      BY <1>3, <1>22 DEF OperatorRestart
<1> QED
    BY <1>4, <1>7, <1>8, <1>9, <1>10, <1>11, <1>12, <1>13, <1>14, <1>15, <1>16, <1>17, <1>18,
       <1>19, <1>20, <1>21, <1>22 DEF Next

\* Pods load versions that exist, and objects only move on.
LEMMA NextCfgInv == IInv /\ CfgInv /\ [Next]_vars => CfgInv'
<1> SUFFICES ASSUME IInv, CfgInv, [Next]_vars PROVE CfgInv'
    OBVIOUS
<1>0. TypeOK
      BY DEF IInv
<1>1. ASSUME NEW o \in Objects, NEW s \in {"live", "hidden", "gone"}, ChangeObject(o, s)
      PROVE CfgInv'
      <2> SUFFICES ASSUME pod # None, NEW p \in Objects PROVE pod.cfg[p] <= Len(log'[p])
          BY <1>1 DEF ChangeObject, CfgInv
      <2>1. pod.cfg[p] \in Nat /\ log[p] \in Seq({"live", "hidden", "gone"})
            BY <1>0 DEF TypeOK
      <2>2. log'[p] = IF p = o THEN Append(log[p], s) ELSE log[p]
            BY <1>0, <1>1 DEF ChangeObject, TypeOK
      <2>3. pod.cfg[p] <= Len(log[p])
            BY DEF CfgInv
      <2> QED
          BY <2>1, <2>2, <2>3
<1>2. CASE RollPod
      <2>1. log' = log /\ pod'.cfg = [o \in Objects |-> Len(log[o])]
            BY <1>2 DEF RollPod
      <2>2. \A o \in Objects : Len(log[o]) \in Nat
            BY <1>0 DEF TypeOK
      <2> QED
          BY <2>1, <2>2 DEF CfgInv
<1>3. ASSUME log' = log, pod' = None \/ pod' = pod PROVE CfgInv'
      BY <1>3 DEF CfgInv
<1> USE DEF apiVars
<1>4. ASSUME NEW o \in Objects, WatchEvent(o) PROVE CfgInv'
      BY <1>3, <1>4 DEF WatchEvent
<1>5. ASSUME NEW m \in Manifest, RequestCreate(m) \/ EditSts(m) PROVE CfgInv'
      BY <1>3, <1>5 DEF RequestCreate, EditSts
<1>6. ASSUME NEW k \in Kinds, WatchStart(k) \/ ListPage(k) \/ InitDone(k) \/ WatchLost(k)
                              \/ ReconcileReads(k) \/ WebhookReads(k)
      PROVE CfgInv'
      BY <1>3, <1>6 DEF WatchStart, ListPage, InitDone, WatchLost, ReconcileReads, WebhookReads
<1>7. CASE WebhookUnanswered \/ PersistSts \/ DeleteSts \/ StsEvent \/ StartReconcile
      BY <1>3, <1>7 DEF WebhookUnanswered, PersistSts, DeleteSts, StsEvent, StartReconcile
<1>8. CASE PatchApplied \/ PatchRefused \/ PatchTimeout \/ LatePatch \/ OperatorRestart
      BY <1>3, <1>8 DEF PatchApplied, PatchRefused, PatchTimeout, LatePatch, OperatorRestart
<1>9. CASE UNCHANGED vars
      BY <1>3, <1>9 DEF vars
<1> QED
    BY <1>1, <1>2, <1>4, <1>5, <1>6, <1>7, <1>8, <1>9 DEF Next

\* When the operator rests, every change that has reached its stores has reached the
\* annotations and the pods of that template: no trigger is lost between the watches, the
\* queue and the reconcile that was running.
THEOREM RestIsCurrentHolds == Spec => []RestIsCurrent
<1>1. Init => FirstListInv /\ RestInv /\ CfgInv
      BY DEF Init, FirstListInv, RestInv, CfgInv
<1>2. Spec => [](RestInv /\ CfgInv)
      BY <1>1, IInvHolds, TypeCorrect, LabelInvHolds, NextFirstListInv, NextRestInv, NextCfgInv,
         PTL DEF Spec
<1>3. ASSUME IInv, RestInv, CfgInv PROVE RestIsCurrent
      <2> SUFFICES ASSUME AtRest
                   PROVE  /\ \A o \in Followed : pos[o] = Len(log[o]) =>
                               /\ sts.ann[o] = Len(log[o])
                               /\ pod # None /\ pod.tmpl = Template(sts) => pod.cfg[o] = Len(log[o])
                          /\ \A o \in sts.ign : ~IsVersion(sts.ann[o])
                          /\ used["relist"] = 0 =>
                               \A o \in References(sts.tmpl) :
                                   Stored(o) = None => sts.ann[o] = ChangesIgnored
          BY DEF RestIsCurrent
      <2>1. /\ sts \in StatefulSet /\ Matches(sts, Kinds, StoredNow, NoRelist)
            /\ sts.tmpl \in Templates /\ sts.ign \in IgnoreSets
            BY <1>3 DEF AtRest, RestInv, IInv, TypeOK, StatefulSet
      <2>2. \A o \in Objects : KindOf[o] \in Kinds
            BY ConstantsAssumption
      <2>3. ASSUME NEW o \in Followed, pos[o] = Len(log[o]) PROVE sts.ann[o] = Len(log[o])
            <3>1. o \in Objects /\ Refers(sts.tmpl, o) /\ o \notin sts.ign /\ Live(o)
                  BY <2>1, ReferencesRefer DEF Followed
            <3>2. Stored(o) = Len(log[o]) /\ Stored(o) # None
                  BY <1>3, <2>3, <3>1, ConstantsAssumption DEF Live, Stored, IInv, TypeOK
            <3>3. StoredNow[o] = Len(log[o]) /\ StoredNow[o] # None
                  BY <3>1, <3>2 DEF StoredNow
            <3> QED
                BY <2>1, <2>2, <3>1, <3>3 DEF Matches, ValueOf
      <2>4. ASSUME NEW o \in Followed, pos[o] = Len(log[o]), pod # None, pod.tmpl = Template(sts)
            PROVE  pod.cfg[o] = Len(log[o])
            <3>1. o \in Objects
                  BY <2>1, ReferencesRefer DEF Followed
            <3>2. Len(log[o]) \in Nat /\ pod.cfg[o] \in Nat
                  BY <1>3, <2>4, <3>1 DEF IInv, TypeOK
            <3>3. pod.tmpl[2][o] = Len(log[o]) /\ IsVersion(pod.tmpl[2][o])
                  BY <2>3, <2>4, <3>2, ConstantsAssumption DEF Template, IsVersion
            <3> QED
                BY <1>3, <2>4, <3>1, <3>2, <3>3 DEF IInv, PodInv, CfgInv
      <2>5. ASSUME NEW o \in sts.ign PROVE ~IsVersion(sts.ann[o])
            <3>1. o \in Objects
                  BY <2>1, ConstantsAssumption
            <3>2. sts.ann[o] \in {None, ChangesIgnored}
                  BY <2>1, <2>2, <3>1 DEF Matches, ValueOf
            <3> QED
                BY <3>2 DEF IsVersion
      <2>6. ASSUME NoRelist, NEW o \in References(sts.tmpl), Stored(o) = None
            PROVE  sts.ann[o] = ChangesIgnored
            <3>1. o \in Objects /\ Refers(sts.tmpl, o)
                  BY <2>1, ReferencesRefer
            <3>2. StoredNow[o] = None
                  BY <2>6, <3>1 DEF StoredNow
            <3> QED
                BY <2>1, <2>2, <2>6, <3>1, <3>2 DEF Matches, ValueOf
      <2> QED
          BY <2>3, <2>4, <2>5, <2>6 DEF NoRelist
<1> QED
    BY <1>2, <1>3, IInvHolds, PTL
------------------------------------------------------------------------------
(***************************************************************************)
(* Nothing correct is overwritten: until the operator restarts, its stores *)
(* are not behind what was ever read from them.                            *)
(***************************************************************************)
\* The stores hold the versions of ann, or later ones.
CaughtUp(ann) == \A o \in Objects : IsVersion(ann[o]) => pos[o] >= ann[o]

\* Where ann is current for the histories l, the call j has read the same.
ReadsCurrent(j, ann, l) == \A o \in Objects :
    Refers(j.tmpl, o) /\ KindOf[o] \in ReadKinds(j) /\ o \notin j.ign
        /\ ann[o] = Len(l[o]) => j.ann[o] = ann[o]

\* Before the first restart the stores have caught up with all annotations, and a running
\* reconcile agrees with every current version that is written or under way.
FreshInv ==
    used["restart"] = 0 =>
        /\ sts # None => CaughtUp(sts.ann)
        /\ job # None => CaughtUp(job.ann)
        /\ late # None => CaughtUp(late.ann)
        /\ adm # None => CaughtUp(adm.ann)
        /\ job # None /\ late # None => ReadsCurrent(job, late.ann, log)
        /\ job # None /\ sts # None /\ sts.uid = job.uid => ReadsCurrent(job, sts.ann, log)

\* Without a restart a store only moves forward.
LEMMA PosForward ==
    ASSUME IInv, [Next]_vars, used'["restart"] = 0
    PROVE  used["restart"] = 0 /\ \A o \in Objects : pos'[o] \in Nat /\ pos'[o] >= pos[o]
<1>0. /\ TypeOK /\ StoreInv /\ pos \in [Objects -> Nat] /\ used \in [Disturbances -> Nat]
      /\ \A o \in Objects : Len(log[o]) \in Nat /\ pos[o] <= Len(log[o])
      BY DEF IInv, TypeOK, StoreInv
<1> DEFINE Forward == used["restart"] = 0 /\ \A o \in Objects : pos'[o] \in Nat /\ pos'[o] >= pos[o]
<1> SUFFICES Forward
    OBVIOUS
<1> USE DEF storeVars
<1>1. ASSUME UNCHANGED <<pos, used>> PROVE Forward
      BY <1>0, <1>1
<1>2. ASSUME NEW d \in Disturbances \ {"restart"}, Disturb(d), pos' = pos PROVE Forward
      <2>1. used'["restart"] = used["restart"]
            BY <1>0, <1>2 DEF Disturb, Disturbances
      <2> QED
          BY <1>0, <1>2, <2>1
<1>3. CASE OperatorRestart
      <2>1. used'["restart"] = used["restart"] + 1
            BY <1>0, <1>3 DEF OperatorRestart, Disturb, Disturbances
      <2>2. used["restart"] \in Nat
            BY <1>0 DEF Disturbances
      <2> QED
          BY <2>1, <2>2
<1>4. ASSUME NEW o \in Objects, WatchEvent(o) PROVE Forward
      BY <1>0, <1>4 DEF WatchEvent
<1>5. ASSUME NEW k \in Kinds, InitDone(k) PROVE Forward
      BY <1>0, <1>5 DEF InitDone
<1>6. ASSUME NEW k \in Kinds, WatchLost(k) PROVE Forward
      BY <1>2, <1>6 DEF WatchLost, Disturbances
<1>7. ASSUME NEW m \in Manifest, EditSts(m) PROVE Forward
      BY <1>2, <1>7 DEF EditSts, Disturbances
<1>8. CASE PatchTimeout
      BY <1>2, <1>8 DEF PatchTimeout, Disturbances
<1>9. ASSUME NEW o \in Objects, NEW s \in {"live", "hidden", "gone"}, ChangeObject(o, s)
      PROVE Forward
      BY <1>1, <1>9 DEF ChangeObject
<1>10. ASSUME NEW m \in Manifest, RequestCreate(m) PROVE Forward
      BY <1>1, <1>10 DEF RequestCreate
<1>11. ASSUME NEW k \in Kinds, WatchStart(k) \/ ListPage(k) \/ ReconcileReads(k) \/ WebhookReads(k)
      PROVE Forward
      BY <1>1, <1>11 DEF WatchStart, ListPage, ReconcileReads, WebhookReads
<1>12. CASE WebhookUnanswered \/ PersistSts \/ DeleteSts \/ RollPod \/ StsEvent \/ StartReconcile
      BY <1>1, <1>12
         DEF WebhookUnanswered, PersistSts, DeleteSts, RollPod, StsEvent, StartReconcile
<1>13. CASE PatchApplied \/ PatchRefused \/ LatePatch \/ UNCHANGED vars
      BY <1>1, <1>13 DEF PatchApplied, PatchRefused, LatePatch, vars
<1> HIDE DEF Forward
<1> QED
    BY <1>3, <1>4, <1>5, <1>6, <1>7, <1>8, <1>9, <1>10, <1>11, <1>12, <1>13 DEF Next

\* Before the first restart, the stores have caught up with whatever is written.
LEMMA NextCaughtUp ==
    ASSUME IInv, FreshInv, [Next]_vars, used'["restart"] = 0
    PROVE  \A a : Held(a)' => CaughtUp(a)'
<1> SUFFICES ASSUME NEW a, Held(a)', NEW o \in Objects, IsVersion(a[o]) PROVE pos'[o] >= a[o]
    BY DEF CaughtUp
<1>1. TypeOK /\ used["restart"] = 0 /\ pos[o] \in Nat /\ pos'[o] \in Nat /\ pos'[o] >= pos[o]
      BY PosForward DEF IInv, TypeOK
<1>2. ASSUME NEW b \in [Objects -> AnnValues], CaughtUp(b), IsVersion(b[o])
      PROVE  b[o] \in Nat /\ pos[o] >= b[o]
      BY <1>2, Versions DEF CaughtUp
<1>3. ASSUME NEW j, j # None, j \in {None} \cup Job, CaughtUp(j.ann), NEW k \in Kinds,
             a = Annotated(j, k).ann
      PROVE  a[o] \in Nat /\ pos[o] >= a[o]
      <2>1. a[o] = Annotation(o, j.ign) \/ a[o] = j.ann[o]
            BY <1>3 DEF Annotated, Job
      <2>2. CASE a[o] = j.ann[o]
            BY <1>2, <1>3, <2>2 DEF Job
      <2>3. CASE a[o] = Annotation(o, j.ign)
            BY <1>1, <2>3 DEF Annotation, Stored, IsVersion
      <2> QED
          BY <2>1, <2>2, <2>3
<1>4. CASE Held(a)
      <2>1. a \in [Objects -> AnnValues] /\ CaughtUp(a)
            BY <1>1, <1>4 DEF Held, FreshInv, TypeOK, StatefulSet, Job
      <2> QED
          BY <1>1, <1>2, <2>1
<1>5. a # NoAnnotations
      BY DEF NoAnnotations, IsVersion
<1>6. CASE Reads(a, job)
      BY <1>1, <1>3, <1>6 DEF Reads, CanRead, FreshInv, TypeOK
<1>7. CASE Reads(a, adm)
      BY <1>1, <1>3, <1>7 DEF Reads, CanRead, FreshInv, TypeOK
<1> QED
    BY <1>1, <1>4, <1>5, <1>6, <1>7, HeldNext

\* Real annotations are no longer current once their object has changed.
LEMMA CurrentNoMore ==
    ASSUME TypeOK, NEW p \in Objects, NEW s \in {"live", "hidden", "gone"}, ChangeObject(p, s),
           NEW j, NEW ann \in [Objects -> AnnValues], Real(ann), ReadsCurrent(j, ann, log)
    PROVE  ReadsCurrent(j, ann, log')
<1> SUFFICES ASSUME NEW o \in Objects, Refers(j.tmpl, o), KindOf[o] \in ReadKinds(j),
                    o \notin j.ign, ann[o] = Len(log'[o])
             PROVE  j.ann[o] = ann[o]
    BY DEF ReadsCurrent
<1>1. log[o] \in Seq({"live", "hidden", "gone"}) /\ Len(log[o]) \in Nat
      BY DEF TypeOK
<1>2. log'[o] = IF o = p THEN Append(log[o], s) ELSE log[o]
      BY DEF ChangeObject, TypeOK
<1>3. CASE o = p
      <2>1. Len(log'[o]) = Len(log[o]) + 1
            BY <1>1, <1>2, <1>3
      <2>2. ann[o] \in 1..Len(log[o])
            BY <1>1, <2>1, Versions DEF Real
      <2> QED
          BY <1>1, <2>1, <2>2
<1>4. CASE o # p
      BY <1>2, <1>4 DEF ReadsCurrent
<1> QED
    BY <1>3, <1>4

\* A look into a store that has caught up finds every version that is current.
LEMMA ReadsTheCurrent ==
    ASSUME IInv, NEW j \in Job, NEW k \in Kinds, CanRead(j, k),
           NEW ann \in [Objects -> AnnValues], Real(ann), CaughtUp(ann), ReadsCurrent(j, ann, log)
    PROVE  ReadsCurrent(Annotated(j, k), ann, log)
<1> DEFINE a == Annotated(j, k)
<1>1. /\ a.tmpl = j.tmpl /\ a.ign = j.ign
      /\ ReadKinds(a) = ReadKinds(j) \cup {k}
      /\ \A o \in Objects : a.ann[o] = IF Refers(j.tmpl, o) /\ KindOf[o] = k
                                      THEN ValueOf(StoredNow, j.ign, o) ELSE j.ann[o]
      BY AnnotatedIs DEF CanRead
<1> HIDE DEF a
<1> SUFFICES ASSUME NEW o \in Objects, Refers(j.tmpl, o), KindOf[o] \in ReadKinds(j) \cup {k},
                    o \notin j.ign, ann[o] = Len(log[o])
             PROVE  a.ann[o] = ann[o]
    BY <1>1 DEF ReadsCurrent, a
<1>2. CASE KindOf[o] = k
      <2>1. Len(log[o]) \in Nat /\ pos[o] \in Nat /\ pos[o] <= Len(log[o])
            BY DEF IInv, TypeOK, StoreInv
      <2>2. IsVersion(ann[o])
            BY <2>1, Versions
      <2>3. pos[o] = ann[o] /\ pos[o] \in 1..Len(log[o]) /\ log[o][pos[o]] = "live"
            BY <2>1, <2>2 DEF CaughtUp, Real
      <2>4. Stored(o) = ann[o] /\ Stored(o) # None
            BY <2>1, <2>2, <2>3 DEF Stored, ObjState, IsVersion
      <2>5. ValueOf(StoredNow, j.ign, o) = ann[o]
            BY <2>4 DEF ValueOf, StoredNow
      <2> QED
          BY <1>1, <1>2, <2>5
<1>3. CASE KindOf[o] # k
      BY <1>1, <1>3 DEF ReadsCurrent
<1> QED
    BY <1>2, <1>3

\* No action makes a running reconcile disagree with what is current and written.
LEMMA NextFreshInv == IInv /\ UidInv /\ FreshInv /\ [Next]_vars => FreshInv'
<1> SUFFICES ASSUME IInv, UidInv, FreshInv, [Next]_vars, used'["restart"] = 0
             PROVE  /\ job' # None /\ late' # None => ReadsCurrent(job', late'.ann, log')
                    /\ job' # None /\ sts' # None /\ sts'.uid = job'.uid
                         => ReadsCurrent(job', sts'.ann, log')
    BY NextCaughtUp DEF FreshInv, Held
<1> DEFINE Goal == /\ job' # None /\ late' # None => ReadsCurrent(job', late'.ann, log')
                   /\ job' # None /\ sts' # None /\ sts'.uid = job'.uid
                        => ReadsCurrent(job', sts'.ann, log')
<1> SUFFICES Goal
    OBVIOUS
<1>0. TypeOK /\ RealInv
      BY DEF IInv
<1>1. /\ sts # None => CaughtUp(sts.ann)
      /\ late # None => CaughtUp(late.ann)
      /\ job # None /\ late # None => ReadsCurrent(job, late.ann, log)
      /\ job # None /\ sts # None /\ sts.uid = job.uid => ReadsCurrent(job, sts.ann, log)
      BY PosForward DEF FreshInv
<1>2. /\ sts # None => sts.ann \in [Objects -> AnnValues] /\ Real(sts.ann)
      /\ late # None => late.ann \in [Objects -> AnnValues] /\ Real(late.ann)
      BY <1>0 DEF TypeOK, RealInv, StatefulSet, Job
<1> USE DEF apiVars, storeVars
<1>3. ASSUME UNCHANGED <<log, sts, job, late>> PROVE Goal
      BY <1>1, <1>3
<1>4. ASSUME job' = None PROVE Goal
      BY <1>4
<1>5. ASSUME NEW o \in Objects, NEW s \in {"live", "hidden", "gone"}, ChangeObject(o, s)
      PROVE Goal
      <2>1. UNCHANGED <<sts, job, late>>
            BY <1>5 DEF ChangeObject
      <2> QED
          BY <1>0, <1>1, <1>2, <1>5, <2>1, CurrentNoMore
<1>6. ASSUME NEW k \in Kinds, ReconcileReads(k) PROVE Goal
      <2>1. /\ job # None /\ job \in Job /\ CanRead(job, k)
            /\ job' = Annotated(job, k) /\ UNCHANGED <<log, sts, late>>
            BY <1>0, <1>6 DEF ReconcileReads, CanRead, TypeOK
      <2>2. job'.uid = job.uid
            BY <2>1 DEF Annotated, Job
      <2> QED
          BY <1>1, <1>2, <2>1, <2>2, ReadsTheCurrent
<1>7. CASE StartReconcile
      <2>1. job' = None \/ job'.step = "cms"
            BY <1>7 DEF StartReconcile, Call
      <2>2. job' = None \/ ReadKinds(job') = {}
            BY <2>1 DEF ReadKinds, Kinds
      <2> QED
          BY <2>2 DEF ReadsCurrent
<1>8. ASSUME NEW m \in Manifest, EditSts(m) PROVE Goal
      <2>1. /\ sts # None /\ sts'.ann = sts.ann /\ sts'.uid = sts.uid
            /\ UNCHANGED <<log, job, late>>
            BY <1>0, <1>8 DEF EditSts, StoreSts, TypeOK, StatefulSet
      <2> QED
          BY <1>1, <2>1
<1>9. CASE PersistSts
      <2>1. UNCHANGED <<log, job, late>> /\ (sts' = sts \/ sts'.uid = uid + 1)
            BY <1>9 DEF PersistSts, StoreSts
      <2>2. job # None => job.uid # uid + 1
            BY <1>0 DEF UidInv, TypeOK
      <2> QED
          BY <1>1, <2>1, <2>2
<1>10. CASE DeleteSts
      BY <1>1, <1>10 DEF DeleteSts, StoreSts
<1>11. CASE LatePatch
      <2>1. /\ late # None /\ late' = None /\ UNCHANGED <<log, job>>
            /\ sts' = sts \/ sts'.ann = late.ann
            BY <1>0, <1>11 DEF LatePatch, Patches, StoreSts, Patched, TypeOK, StatefulSet
      <2> QED
          BY <1>1, <2>1
<1>12. CASE PatchApplied \/ PatchRefused \/ PatchTimeout \/ OperatorRestart
      BY <1>4, <1>12 DEF PatchApplied, PatchRefused, PatchTimeout, OperatorRestart
<1>13. ASSUME NEW o \in Objects, WatchEvent(o) PROVE Goal
      BY <1>3, <1>13 DEF WatchEvent
<1>14. ASSUME NEW m \in Manifest, RequestCreate(m) PROVE Goal
      BY <1>3, <1>14 DEF RequestCreate
<1>15. ASSUME NEW k \in Kinds, WatchStart(k) \/ ListPage(k) \/ InitDone(k) \/ WatchLost(k)
                               \/ WebhookReads(k)
      PROVE Goal
      BY <1>3, <1>15 DEF WatchStart, ListPage, InitDone, WatchLost, WebhookReads
<1>16. CASE WebhookUnanswered \/ RollPod \/ StsEvent \/ UNCHANGED vars
      BY <1>3, <1>16 DEF WebhookUnanswered, RollPod, StsEvent, vars
<1> HIDE DEF Goal
<1> QED
    BY <1>5, <1>6, <1>7, <1>8, <1>9, <1>10, <1>11, <1>12, <1>13, <1>14, <1>15, <1>16 DEF Next

\* A running operator rolls no pods without need: through lost watches, failed patches,
\* late requests, deletions and re-creations, a reconcile of the manifest in place finds
\* every annotation that is current as it is.
THEOREM UpToDateUntilRestartHolds == Spec => UpToDateUntilRestart
<1>1. Init => FreshInv
      BY DEF Init, FreshInv
<1>2. OrderInv => UidInv
      BY DEF OrderInv
<1>3. Spec => []FreshInv
      BY <1>1, <1>2, IInvHolds, OrderInvHolds, NextFreshInv, PTL DEF Spec
<1> DEFINE Keeps == used["restart"] = 0 /\ ~LateStep /\ ~OutdatedJob => KeepsUpToDate
<1>4. ASSUME TypeOK, FreshInv, [Next]_vars PROVE [Keeps]_vars
      <2> USE DEF apiVars
      <2>1. ASSUME sts' = sts \/ sts' = None \/ sts'.ann = sts.ann \/ sts = None PROVE Keeps
            BY <2>1 DEF KeepsUpToDate
      <2>2. CASE PatchApplied
            <3> SUFFICES ASSUME used["restart"] = 0, ~OutdatedJob,
                                NEW o \in References(sts.tmpl) \ sts.ign, sts.ann[o] = Len(log[o])
                         PROVE  sts'.ann[o] = sts.ann[o]
                BY DEF KeepsUpToDate
            <3>1. /\ job # None /\ sts # None /\ sts \in StatefulSet /\ sts.uid = job.uid
                  /\ job.step = "patch" /\ sts'.ann = job.ann
                  BY <1>4, <2>2 DEF PatchApplied, Patches, StoreSts, Patched, TypeOK, StatefulSet
            <3>2. job.tmpl = sts.tmpl /\ job.ign = sts.ign
                  BY <3>1 DEF OutdatedJob
            <3>3. o \in Objects /\ Refers(job.tmpl, o)
                  BY <3>1, <3>2, ReferencesRefer DEF StatefulSet
            <3>4. KindOf[o] \in ReadKinds(job)
                  BY <3>1, <3>3, ConstantsAssumption DEF ReadKinds
            <3>5. ReadsCurrent(job, sts.ann, log)
                  BY <1>4, <3>1 DEF FreshInv
            <3> QED
                BY <3>1, <3>2, <3>3, <3>4, <3>5 DEF ReadsCurrent
      <2>3. ASSUME NEW m \in Manifest, EditSts(m) PROVE Keeps
            BY <1>4, <2>1, <2>3 DEF EditSts, StoreSts, TypeOK, StatefulSet
      <2>4. CASE PersistSts
            BY <2>1, <2>4 DEF PersistSts
      <2>5. CASE DeleteSts
            BY <2>1, <2>5 DEF DeleteSts, StoreSts
      <2>6. CASE LatePatch
            BY <2>6 DEF LatePatch, LateStep
      <2>7. ASSUME NEW m \in Manifest, RequestCreate(m) PROVE Keeps
            BY <2>1, <2>7 DEF RequestCreate
      <2>8. ASSUME NEW o \in Objects, NEW s \in {"live", "hidden", "gone"},
                   ChangeObject(o, s) \/ WatchEvent(o)
            PROVE Keeps
            BY <2>1, <2>8 DEF ChangeObject, WatchEvent
      <2>9. ASSUME NEW k \in Kinds, WatchStart(k) \/ ListPage(k) \/ InitDone(k)
                        \/ WatchLost(k) \/ ReconcileReads(k) \/ WebhookReads(k)
            PROVE Keeps
            BY <2>1, <2>9
               DEF WatchStart, ListPage, InitDone, WatchLost, ReconcileReads, WebhookReads
      <2>10. CASE WebhookUnanswered \/ RollPod \/ StsEvent \/ StartReconcile \/ PatchRefused
                  \/ PatchTimeout \/ OperatorRestart
            BY <2>1, <2>10 DEF WebhookUnanswered, RollPod, StsEvent, StartReconcile,
                               PatchRefused, PatchTimeout, OperatorRestart
      <2> HIDE DEF Keeps
      <2> QED
          BY <1>4, <2>2, <2>3, <2>4, <2>5, <2>6, <2>7, <2>8, <2>9, <2>10 DEF Next
<1> QED
    BY TypeCorrect, <1>3, <1>4, PTL DEF Spec, UpToDateUntilRestart
==============================================================================
