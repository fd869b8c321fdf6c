------------------------ MODULE StatefulSetRestarter -------------------------
(***************************************************************************)
(* restart_controller/statefulset.rs and webhooks/restarter_mutate_sts.rs: *)
(* the controller keeps, in the pod template of a StatefulSet, one         *)
(* annotation per ConfigMap or Secret that the template references; the    *)
(* value is the version of the object, so that a change of the object      *)
(* changes the template and the pods are rolled.  The admission webhook    *)
(* sets the same annotations when the StatefulSet is created, from the     *)
(* same reflector stores.                                                  *)
(*                                                                         *)
(* One StatefulSet name is followed through deletions and re-creations     *)
(* (uid).  The history of a ConfigMap or Secret is a sequence of states;   *)
(* an index into it stands for the pair uid/resourceVersion, which is      *)
(* never reused.  A reflector store lags behind: pos[o] is the index of    *)
(* the last event of o that it has applied.                                *)
(*                                                                         *)
(* External: the API server (watches, server-side apply, admission), the   *)
(* watcher, reflector and applier of kube-runtime, and the StatefulSet     *)
(* controller that rolls the pods.                                         *)
(***************************************************************************)
EXTENDS Integers, Sequences

CONSTANTS
    Objects,        \* ConfigMaps and Secrets
    KindOf,         \* KindOf[o] \in Kinds
    Templates,      \* pod specs: sets of [obj, site] references
    IgnoreSets,     \* sets of objects named by ignore-* annotations
    None,           \* absent object, job or annotation
    ChangesIgnored, \* the annotation value "changes-ignored"
    Labelled,       \* what "restarter.stackable.tech/enabled=true" may be: a set of BOOLEANs
    Budgets         \* bounds: what users and failures may do, see Within

Kinds == {"ConfigMap", "Secret"}
Sites == {"volume", "env", "envFrom", "projected"}
\* What disturbs the system and is counted: edits of the StatefulSet by its owner, lost
\* watches, patch requests without an answer and crashes of the operator.
Disturbances == {"edit", "relist", "timeout", "restart"}

ASSUME ConstantsAssumption ==
    /\ KindOf \in [Objects -> Kinds]
    /\ Templates \subseteq SUBSET [obj : Objects, site : Sites]
    /\ IgnoreSets \subseteq SUBSET Objects
    /\ None \notin Nat /\ ChangesIgnored \notin Nat /\ None # ChangesIgnored
    /\ Labelled \subseteq BOOLEAN
    /\ Budgets \subseteq [log : [Objects -> Nat], uid : Nat, used : [Disturbances -> Nat]]

VARIABLES
    log,        \* log[o]: the states object o went through, in the API server
    sts,        \* the StatefulSet in the API server, or None
    stsNews,    \* the StatefulSet has changes its watch has not delivered
    uid,        \* uids given out so far
    pod,        \* its pod: the template it was made from, the versions it loaded
    phase,      \* phase[k]: the metadata watcher of kind k
    pos,        \* pos[o]: the last event of o the reflector store has applied
    stsStore,   \* the StatefulSet in its reflector store, or None
    queue,      \* a reconcile of the StatefulSet is scheduled
    job,        \* the running reconcile, or None
    late,       \* a patch request whose answer was not awaited, or None
    adm,        \* the CREATE request of the StatefulSet being admitted, or None
    used        \* used[d]: how often disturbance d has happened

apiVars == <<log, sts, stsNews, uid, pod>>
storeVars == <<phase, pos, stsStore>>
vars == <<apiVars, storeVars, queue, job, late, adm, used>>
------------------------------------------------------------------------------
\* Values of an annotation of the template.
AnnValues == {None, ChangesIgnored} \cup Nat
NoAnnotations == [o \in Objects |-> None]
IsVersion(a) == a \notin {None, ChangesIgnored}

\* What the controller reads of a StatefulSet, and the StatefulSet itself.
Manifest == [tmpl : Templates, ign : IgnoreSets, on : Labelled]
StatefulSet == [uid : Nat, tmpl : Templates, ign : IgnoreSets, on : Labelled,
                ann : [Objects -> AnnValues]]

\* A computation of get_updated_restarter_annotations for a StatefulSet; the uid is
\* None while the StatefulSet is being admitted.
Job == [uid : {None} \cup Nat, tmpl : Templates, ign : IgnoreSets, on : Labelled,
        ann : [Objects -> AnnValues], step : {"cms", "secrets", "patch"}]

\* The absence of an object or of a computation is neither.
ASSUME NoneAssumption == None \notin StatefulSet \cup Job

\* Mutant: the annotations are put beside the pod template, not into it.
TemplateWithoutAnnotations(s) == s.tmpl

\* The pod template, whose change makes the StatefulSet controller roll the pods.
Template(s) == <<s.tmpl, s.ann>>

TypeOK ==
    /\ log \in [Objects -> Seq({"live", "hidden", "gone"})]
    /\ sts \in {None} \cup StatefulSet
    /\ uid \in Nat
    /\ pod \in {None} \cup [tmpl : Templates \X [Objects -> AnnValues], cfg : [Objects -> Nat]]
    /\ phase \in [Kinds -> {"off", "listing", "watching"}]
    /\ pos \in [Objects -> Nat]
    /\ stsNews \in BOOLEAN
    /\ stsStore \in {None} \cup StatefulSet
    /\ queue \in BOOLEAN
    /\ job \in {None} \cup Job
    /\ late \in {None} \cup Job
    /\ adm \in {None} \cup Job
    /\ used \in [Disturbances -> Nat]

\* The operator starts: stores empty, DelayedInits unset.  Objects that exist already
\* are those created before the first WatchStart.
Init ==
    /\ log = [o \in Objects |-> <<>>]
    /\ sts = None /\ stsNews = FALSE /\ uid = 0 /\ pod = None
    /\ phase = [k \in Kinds |-> "off"]
    /\ pos = [o \in Objects |-> 0]
    /\ stsStore = None
    /\ queue = FALSE
    /\ job = None /\ late = None /\ adm = None
    /\ used = [d \in Disturbances |-> 0]
------------------------------------------------------------------------------
(***************************************************************************)
(* Objects and stores.                                                     *)
(***************************************************************************)
ObjState(o, i) == IF i = 0 THEN "gone" ELSE log[o][i]
Live(o) == ObjState(o, Len(log[o])) = "live"

\* Mutant: the label selector "restarter.stackable.tech/ignore != true" is dropped.
StoredIgnoringLabel(o) == IF ObjState(o, pos[o]) # "gone" THEN pos[o] ELSE None

\* cms.get(&cm_ref): an object labelled ignore=true is not in the watched set.
Stored(o) == IF ObjState(o, pos[o]) = "live" THEN pos[o] ELSE None

\* find_pod_refs: plain volumes, and env and envFrom of all (init) containers.
FindPodRefs(tmpl, k) ==
    {r.obj : r \in {x \in tmpl : x.site \in {"volume", "env", "envFrom"} /\ KindOf[x.obj] = k}}

\* Mutant: only the object's uid is recorded, not its resource version.
UidAnnotation(o, ign) == IF Stored(o) # None /\ o \notin ign THEN 1 ELSE ChangesIgnored

\* The annotation value: "{uid}/{resource_version}" or "changes-ignored".
Annotation(o, ign) == IF Stored(o) # None /\ o \notin ign THEN Stored(o) ELSE ChangesIgnored

\* One half of get_updated_restarter_annotations: await the DelayedInit of kind k, then
\* look every referenced object up in its store.
Annotated(j, k) ==
    [j EXCEPT !.ann = [o \in Objects |-> IF o \in FindPodRefs(j.tmpl, k)
                                         THEN Annotation(o, j.ign) ELSE j.ann[o]],
              !.step = IF k = "ConfigMap" THEN "secrets" ELSE "patch"]
CanRead(j, k) ==
    /\ j # None
    /\ j.step = (IF k = "ConfigMap" THEN "cms" ELSE "secrets")
    /\ phase[k] # "off"

\* A fresh call of get_updated_restarter_annotations.
Call(u, m) == [uid |-> u, tmpl |-> m.tmpl, ign |-> m.ign, on |-> m.on,
               ann |-> NoAnnotations, step |-> "cms"]
------------------------------------------------------------------------------
(***************************************************************************)
(* The world around the operator.                                          *)
(***************************************************************************)
\* Incarnations of the StatefulSet, with the one that is being admitted.
Incarnations == uid + (IF adm = None THEN 0 ELSE 1)

\* Bound: histories l, u incarnations and disturbances x are covered by one of the
\* budgets.  A budget is a scenario, and an instance checks the union of its scenarios.
Within(l, u, x) == \E b \in Budgets : /\ \A o \in Objects : Len(l[o]) <= b.log[o]
                                      /\ u <= b.uid
                                      /\ \A d \in Disturbances : x[d] <= b.used[d]

\* Disturbance d happens, within the bounds.
Disturb(d) == /\ used' = [used EXCEPT ![d] = @ + 1]
              /\ Within(log, Incarnations, used')

\* Somebody creates, updates, relabels or deletes a ConfigMap or Secret.
ChangeObject(o, s) ==
    /\ s = "gone" => ObjState(o, Len(log[o])) # "gone"
    /\ log' = [log EXCEPT ![o] = Append(@, s)]
    /\ Within(log', Incarnations, used)
    /\ UNCHANGED <<sts, stsNews, uid, pod, storeVars, queue, job, late, adm, used>>

\* A write to the StatefulSet; one that changes nothing makes no watch event.
StoreSts(s) == /\ sts' = s
               /\ stsNews' = (stsNews \/ s # sts)

\* The owner sends a CREATE for the StatefulSet, which the API server hands to the
\* admission webhook if it carries the label of the object selector.
RequestCreate(m) ==
    /\ adm = None /\ Within(log, uid + 1, used)
    /\ adm' = [Call(None, m) EXCEPT !.step = IF m.on THEN "cms" ELSE "patch"]
    /\ UNCHANGED <<apiVars, storeVars, queue, job, late, used>>

\* failurePolicy Ignore: no answer in time, so the object goes on as it was sent.
WebhookUnanswered ==
    /\ adm # None /\ adm.step # "patch"
    /\ adm' = [adm EXCEPT !.ann = NoAnnotations, !.step = "patch"]
    /\ UNCHANGED <<apiVars, storeVars, queue, job, late, used>>

\* The API server stores the admitted StatefulSet, or finds one of that name.
PersistSts ==
    /\ adm # None /\ adm.step = "patch"
    /\ adm' = None
    /\ \/ /\ sts = None
          /\ uid' = uid + 1
          /\ StoreSts([uid |-> uid + 1, tmpl |-> adm.tmpl, ign |-> adm.ign, on |-> adm.on,
                       ann |-> adm.ann])
       \/ /\ sts # None
          /\ UNCHANGED <<sts, stsNews, uid>>
    /\ UNCHANGED <<log, pod, storeVars, queue, job, late, used>>

\* The owner applies a new manifest; updates are not sent to the webhook.
EditSts(m) ==
    /\ sts # None
    /\ StoreSts([sts EXCEPT !.tmpl = m.tmpl, !.ign = m.ign, !.on = m.on])
    /\ sts' # sts
    /\ Disturb("edit")
    /\ UNCHANGED <<log, uid, pod, storeVars, queue, job, late, adm>>

\* The StatefulSet is deleted, and its pod with it.
DeleteSts ==
    /\ sts # None /\ Within(log, uid + 1, used)
    /\ StoreSts(None)
    /\ pod' = None
    /\ UNCHANGED <<log, uid, storeVars, queue, job, late, adm, used>>

\* The StatefulSet controller replaces a pod made from another template; the new pod
\* loads its configuration as it starts.
RollPod ==
    /\ sts # None
    /\ pod # None => pod.tmpl # Template(sts)
    /\ pod' = [tmpl |-> Template(sts), cfg |-> [o \in Objects |-> Len(log[o])]]
    /\ UNCHANGED <<log, sts, stsNews, uid, storeVars, queue, job, late, adm, used>>
------------------------------------------------------------------------------
(***************************************************************************)
(* start: the watches and the reconcile queue.                             *)
(***************************************************************************)
\* Mutant: no request is made while a reconcile is running.
TriggerAllUnlessRunning(touched) ==
    queue' = (queue \/ (touched /\ stsStore # None /\ job = None))

\* trigger_all: a request for every StatefulSet in the store.
TriggerAll(touched) == queue' = (queue \/ (touched /\ stsStore # None))

\* The watcher's first item (Init) makes `inspect` initialise the DelayedInit with the
\* still empty store.
WatchStart(k) ==
    /\ phase[k] = "off"
    /\ phase' = [phase EXCEPT ![k] = "listing"]
    /\ UNCHANGED <<apiVars, pos, stsStore, queue, job, late, adm, used>>

\* A page of the list: its objects are only buffered, but they trigger reconciles.
ListPage(k) ==
    /\ phase[k] = "listing"
    /\ TriggerAll(\E o \in Objects : KindOf[o] = k /\ Live(o))
    /\ UNCHANGED <<apiVars, storeVars, job, late, adm, used>>

\* Mutant: the list may be served from a cache of the API server that lags behind.
InitDoneFromCache(k) ==
    /\ phase[k] = "listing"
    /\ phase' = [phase EXCEPT ![k] = "watching"]
    /\ pos' = [o \in Objects |-> IF KindOf[o] = k /\ log[o] # <<>> THEN Len(log[o]) - 1 ELSE pos[o]]
    /\ TriggerAll(\E o \in Objects : KindOf[o] = k /\ Live(o))
    /\ UNCHANGED <<apiVars, stsStore, job, late, adm, used>>

\* The last page and InitDone, which swaps the buffer into the store.
InitDone(k) ==
    /\ phase[k] = "listing"
    /\ phase' = [phase EXCEPT ![k] = "watching"]
    /\ pos' = [o \in Objects |-> IF KindOf[o] = k THEN Len(log[o]) ELSE pos[o]]
    /\ TriggerAll(\E o \in Objects : KindOf[o] = k /\ Live(o))
    /\ UNCHANGED <<apiVars, stsStore, job, late, adm, used>>

\* Mutant: only applied objects are passed on, not deleted ones.
WatchEventApplied(o) ==
    /\ phase[KindOf[o]] = "watching"
    /\ pos[o] < Len(log[o])
    /\ pos' = [pos EXCEPT ![o] = @ + 1]
    /\ TriggerAll(ObjState(o, pos[o] + 1) = "live")
    /\ UNCHANGED <<apiVars, phase, stsStore, job, late, adm, used>>

\* The next watch event of o reaches the store; touched_objects reports it if it is an
\* object of the watched set that appeared, changed or left.
WatchEvent(o) ==
    /\ phase[KindOf[o]] = "watching"
    /\ pos[o] < Len(log[o])
    /\ pos' = [pos EXCEPT ![o] = @ + 1]
    /\ TriggerAll("live" \in {ObjState(o, pos[o]), ObjState(o, pos[o] + 1)})
    /\ UNCHANGED <<apiVars, phase, stsStore, job, late, adm, used>>

\* Mutant: a lost watch empties the store.
WatchLostClears(k) ==
    /\ phase[k] = "watching"
    /\ phase' = [phase EXCEPT ![k] = "listing"]
    /\ pos' = [o \in Objects |-> IF KindOf[o] = k THEN 0 ELSE pos[o]]
    /\ Disturb("relist")
    /\ UNCHANGED <<apiVars, stsStore, queue, job, late, adm>>

\* The watch is lost and the watcher lists again; the old store stays in use.
WatchLost(k) ==
    /\ phase[k] = "watching"
    /\ phase' = [phase EXCEPT ![k] = "listing"]
    /\ Disturb("relist")
    /\ UNCHANGED <<apiVars, pos, stsStore, queue, job, late, adm>>

\* Mutant: the watch has no label selector.
SelectedUnlabelled(s) == s

\* The label selector "restarter.stackable.tech/enabled=true" of the watch: for the store,
\* a StatefulSet without the label does not exist.
Selected(s) == IF s # None /\ s.on THEN s ELSE None

\* trigger_self on the StatefulSet reflector, for its first list and for every applied
\* object; a deletion only empties the store.
StsEvent ==
    /\ stsNews
    /\ stsNews' = FALSE
    /\ stsStore' = Selected(sts)
    /\ queue' = (queue \/ stsStore' # None)
    /\ UNCHANGED <<log, sts, uid, pod, phase, pos, job, late, adm, used>>

\* The applier starts a reconcile when no other one of the same object runs (and the
\* StatefulSet store has been listed, which is what first fills the queue); a request
\* for an object no longer in the store is dropped.
StartReconcile ==
    /\ queue /\ job = None
    /\ queue' = FALSE
    /\ job' = IF stsStore = None THEN None ELSE Call(stsStore.uid, stsStore)
    /\ UNCHANGED <<apiVars, storeVars, late, adm, used>>

\* get_updated_restarter_annotations, called by reconcile...
ReconcileReads(k) ==
    /\ CanRead(job, k)
    /\ job' = Annotated(job, k)
    /\ UNCHANGED <<apiVars, storeVars, queue, late, adm, used>>

\* ... and by add_sts_restarter_annotations_handler.
WebhookReads(k) ==
    /\ CanRead(adm, k)
    /\ adm' = Annotated(adm, k)
    /\ UNCHANGED <<apiVars, storeVars, queue, job, late, used>>

\* Mutant: the patch carries no uid.
PatchesByName(p) == sts # None

\* The patch carries the uid that was observed: the API server refuses it for another
\* incarnation and never creates an object from it.
Patches(p) == sts # None /\ sts.uid = p.uid

\* Mutant: the object is replaced by what was sent, not patched.
Replaced(p) == p

\* The forced server-side apply of the template annotations.
Patched(p) == [sts EXCEPT !.ann = p.ann]

\* Mutant: a successful reconcile is repeated after a while.
PatchAppliedRequeues ==
    /\ job # None /\ job.step = "patch"
    /\ Patches(job)
    /\ StoreSts(Patched(job))
    /\ job' = None
    /\ queue' = TRUE
    /\ UNCHANGED <<log, uid, pod, storeVars, late, adm, used>>

\* reconcile: the patch succeeds; Action::await_change.
PatchApplied ==
    /\ job # None /\ job.step = "patch"
    /\ Patches(job)
    /\ StoreSts(Patched(job))
    /\ job' = None
    /\ UNCHANGED <<log, uid, pod, storeVars, queue, late, adm, used>>

\* reconcile: not found or conflict; error_policy requeues after 5 s.
PatchRefused ==
    /\ job # None /\ job.step = "patch"
    /\ ~Patches(job)
    /\ job' = None
    /\ queue' = TRUE
    /\ UNCHANGED <<apiVars, storeVars, late, adm, used>>

\* Mutant: a failed patch is not retried.
PatchTimeoutForgotten ==
    /\ job # None /\ job.step = "patch"
    /\ late = None
    /\ late' = job
    /\ job' = None
    /\ Disturb("timeout")
    /\ UNCHANGED <<apiVars, storeVars, queue, adm>>

\* reconcile: the request fails without an answer (it may still be on its way);
\* error_policy requeues after 5 s.
PatchTimeout ==
    /\ job # None /\ job.step = "patch"
    /\ late = None
    /\ late' = job
    /\ job' = None
    /\ queue' = TRUE
    /\ Disturb("timeout")
    /\ UNCHANGED <<apiVars, storeVars, adm>>

\* The request whose answer nobody awaits is applied after all, or is lost.
LatePatch ==
    /\ late # None
    /\ late' = None
    /\ \/ Patches(late) /\ StoreSts(Patched(late))
       \/ UNCHANGED <<sts, stsNews>>
    /\ UNCHANGED <<log, uid, pod, storeVars, queue, job, adm, used>>

\* The operator process dies and starts again: everything in memory is lost, a request
\* under way may still arrive, and an admission under way goes unanswered.
OperatorRestart ==
    /\ Disturb("restart")
    /\ phase' = [k \in Kinds |-> "off"]
    /\ pos' = [o \in Objects |-> 0]
    /\ stsStore' = None
    /\ stsNews' = (sts # None)
    /\ queue' = FALSE
    /\ job' = None
    /\ late' = IF job # None /\ job.step = "patch" /\ late = None THEN job ELSE late
    /\ adm' = IF adm # None /\ adm.step # "patch"
              THEN [adm EXCEPT !.ann = NoAnnotations, !.step = "patch"] ELSE adm
    /\ UNCHANGED <<log, sts, uid, pod>>

Next ==
    \/ \E o \in Objects : \/ \E s \in {"live", "hidden", "gone"} : ChangeObject(o, s)
                          \/ WatchEvent(o)
    \/ \E m \in Manifest : RequestCreate(m) \/ EditSts(m)
    \/ WebhookUnanswered \/ PersistSts \/ DeleteSts \/ RollPod
    \/ \E k \in Kinds : \/ WatchStart(k) \/ ListPage(k) \/ InitDone(k) \/ WatchLost(k)
                        \/ ReconcileReads(k) \/ WebhookReads(k)
    \/ StsEvent \/ StartReconcile
    \/ PatchApplied \/ PatchRefused \/ PatchTimeout \/ LatePatch
    \/ OperatorRestart

Spec == Init /\ [][Next]_vars

(***************************************************************************)
(* Fairness: the watches deliver, the operator's task keeps running its    *)
(* reconciles, requests are answered or lost, and the StatefulSet          *)
(* controller rolls.  Nothing makes users act, watches break or the        *)
(* operator crash.                                                         *)
(***************************************************************************)
Fairness ==
    /\ \A o \in Objects : WF_vars(WatchEvent(o))
    /\ \A k \in Kinds : /\ WF_vars(WatchStart(k)) /\ WF_vars(InitDone(k))
                        /\ WF_vars(ReconcileReads(k))
    /\ WF_vars(StsEvent) /\ WF_vars(StartReconcile)
    /\ WF_vars(PatchApplied) /\ WF_vars(PatchRefused) /\ WF_vars(LatePatch)
    /\ WF_vars(PersistSts) /\ WF_vars(RollPod)

FairSpec == Spec /\ Fairness
------------------------------------------------------------------------------
(***************************************************************************)
(* Properties.                                                             *)
(***************************************************************************)
\* The objects a pod spec refers to as a volume or in an environment.
References(tmpl) == {r.obj : r \in {x \in tmpl : x.site # "projected"}}

\* Every annotation ever written to the template names a version the object really
\* had, and had while it was not labelled "ignore": whatever stale store, crash or
\* late request it came from.
AnnotationsAreReal ==
    sts # None => \A o \in Objects :
        IsVersion(sts.ann[o]) => /\ sts.ann[o] \in 1..Len(log[o])
                              /\ log[o][sts.ann[o]] = "live"

\* A pod of the current template has loaded at least the version the template is
\* annotated with: a change that reached the annotation has reached the pod.
PodsHonourAnnotation ==
    sts # None /\ pod # None /\ pod.tmpl = Template(sts) =>
        \A o \in Objects : IsVersion(sts.ann[o]) => pod.cfg[o] >= sts.ann[o]

\* A reconcile of a deleted StatefulSet neither recreates it nor writes into the one
\* that took its name, however late its patch arrives: the patch carries the uid.
NoForeignPatch ==
    [][ /\ sts = None /\ sts' # None => adm # None /\ sts'.uid > uid
        /\ sts # None /\ sts' # None /\ sts'.uid = sts.uid /\ sts'.ann # sts.ann =>
             \/ job # None /\ job.uid = sts.uid /\ job' = None
             \/ late # None /\ late.uid = sts.uid /\ late' = None ]_vars

\* A request that nobody awaits any more is applied.
LateStep == late # None /\ late' = None

\* The annotation of one incarnation never moves back to an older version, through
\* relists, retries and restarts (requests that arrive late excepted: they carry what
\* was current when they were sent).
AnnotationMonotone ==
    [][ sts # None /\ sts' # None /\ sts'.uid = sts.uid /\ ~LateStep =>
          \A o \in Objects : IsVersion(sts.ann[o]) /\ IsVersion(sts'.ann[o])
                                => sts'.ann[o] >= sts.ann[o] ]_vars

\* A step leaves every annotation alone that names the current version of an object
\* which the StatefulSet references and does not ignore.
KeepsUpToDate ==
    sts # None /\ sts' # None /\ sts'.uid = sts.uid =>
        \A o \in References(sts.tmpl) \ sts.ign :
            sts.ann[o] = Len(log[o]) => sts'.ann[o] = sts.ann[o]

\* No unneeded restart: a correct annotation is never rewritten.
UpToDateAnnotationStays == [][KeepsUpToDate]_vars

\* The running reconcile began before the owner's last edit of the manifest.
OutdatedJob ==
    sts # None /\ job # None /\ (job.tmpl # sts.tmpl \/ job.ign # sts.ign)

\* No unneeded restart as long as the operator keeps running, no request arrives late and
\* the reconcile works on the manifest in place: deletions and re-creations, lost watches,
\* retries and changes of other objects do not make it overwrite what is correct.
UpToDateUntilRestart ==
    [][used["restart"] = 0 /\ ~LateStep /\ ~OutdatedJob => KeepsUpToDate]_vars

\* Opting out works: once the watch has reported that the StatefulSet has no label
\* enabled=true, no reconcile of it begins, whatever is still queued, and an admission
\* of one without it is not annotated.
OptOutHonoured ==
    [][ /\ sts # None /\ ~stsNews /\ job = None /\ job' # None => sts.on
        /\ adm # None /\ adm' # None /\ adm'.ann # adm.ann => adm.on ]_vars

\* The objects the StatefulSet should follow: referenced and not ignored.
Followed == {o \in References(sts.tmpl) \ sts.ign : Live(o)}

\* The operator has nothing to do: the last state of the StatefulSet was delivered, no
\* reconcile of it runs and none is scheduled.
AtRest == sts # None /\ sts.on /\ ~stsNews /\ ~queue /\ job = None

\* No change is forgotten: when the operator rests, the annotation of every followed
\* object whose last event has reached the store names its current version, the pods of
\* that template have loaded it, ignored objects carry no version, and neither do
\* references that are not in the store (unless they left it while a watch was lost).
\* Whatever happened while a reconcile was under way has left something to do.
RestIsCurrent ==
    AtRest =>
        /\ \A o \in Followed : pos[o] = Len(log[o]) =>
             /\ sts.ann[o] = Len(log[o])
             /\ pod # None /\ pod.tmpl = Template(sts) => pod.cfg[o] = Len(log[o])
        /\ \A o \in sts.ign : ~IsVersion(sts.ann[o])
        /\ used["relist"] = 0 =>
             \A o \in References(sts.tmpl) : Stored(o) = None => sts.ann[o] = ChangesIgnored

\* Once users stop changing things, the annotations of all followed objects name their
\* current versions for good, and ignored objects carry no version.
Converges ==
    <>[](sts # None /\ sts.on =>
            /\ \A o \in Followed : sts.ann[o] = Len(log[o])
            /\ \A o \in sts.ign : ~IsVersion(sts.ann[o]))

\* ... the pods have loaded them ...
PodsEventuallyCurrent ==
    <>[](sts # None /\ sts.on => pod # None /\ \A o \in Followed : pod.cfg[o] = Len(log[o]))

\* ... a referenced object that was deleted or labelled "ignore" is no longer named by
\* its last version, unless that happened while its watch was lost ...
DeletionsFollowed ==
    <>[](sts # None /\ sts.on /\ used["relist"] = 0 =>
            \A o \in References(sts.tmpl) : Live(o) \/ sts.ann[o] = ChangesIgnored)

\* ... and the operator comes to rest: its own patches do not keep triggering it.
EventuallyQuiet == <>[](job = None /\ ~queue)

\* "any referenced configuration object (ConfigMap or Secret)": a pod is rolled for
\* every object its template refers to in any way.
AllReferencesFollowed ==
    <>[](sts # None /\ sts.on => \A r \in sts.tmpl :
            Live(r.obj) /\ r.obj \notin sts.ign => sts.ann[r.obj] = Len(log[r.obj]))
==============================================================================
