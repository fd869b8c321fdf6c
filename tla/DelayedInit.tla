----------------------------- MODULE DelayedInit -----------------------------
(***************************************************************************)
(* utils/delayed_init.rs: a oneshot channel whose value is memoized behind *)
(* an RwLock, so that any number of `get` futures can wait for it.         *)
(*                                                                         *)
(* A getter is one `get` future.  A task is what owns a Waker: a spawned   *)
(* tokio task, or a stream such as kube's applier that polls many futures  *)
(* with one waker.  A poll is synchronous, so a task is inside at most one *)
(* poll at a time, and whenever a task is woken it polls all of its        *)
(* unfinished getters.                                                     *)
(*                                                                         *)
(* External: the futures oneshot channel.  It stores the value, raises     *)
(* `complete`, then takes the ONE registered waker and wakes it; every     *)
(* pending poll of the receiver overwrites that waker.                     *)
(***************************************************************************)
CONSTANTS Getters,      \* get futures
          Tasks,        \* owners of wakers
          TaskOf,       \* TaskOf[g]: the task that polls getter g
          Values,       \* values the Initializer may send
          InitDropped,  \* the error returned when the Initializer is dropped
          None,         \* absent value
          Waiting       \* ReceiverState::Waiting

Results == Values \cup {InitDropped}

ASSUME ConstantsAssumption ==
    /\ TaskOf \in [Getters -> Tasks]
    /\ None \notin Results \cup Getters \cup Tasks
    /\ Waiting \notin Results
    /\ InitDropped \notin Values

VARIABLES
    state,      \* ReceiverState: Waiting, or the memoized result
    readers,    \* getters holding the RwLock for reading
    writer,     \* the getter holding it for writing, or None
    pc,         \* where each getter is in `poll`
    value,      \* the local `value` of the slow path
    returned,   \* the last result each getter returned
    scheduled,  \* getters their task still has to poll
    data,       \* oneshot: the value in the slot
    tx,         \* oneshot: how far the Sender has got
    rx_task     \* oneshot: the registered waker

lockVars == <<readers, writer>>
chanVars == <<data, tx, rx_task>>
vars == <<state, lockVars, pc, value, returned, scheduled, chanVars>>

\* A getter inside `poll`.
InPoll == {"read", "upgrade", "write", "memoize"}

\* The sender has raised the channel's `complete` flag.
Complete == tx \in {"completed", "gone"}

TypeOK ==
    /\ state \in Results \cup {Waiting}
    /\ readers \subseteq Getters
    /\ writer \in Getters \cup {None}
    /\ pc \in [Getters -> InPoll \cup {"idle", "pending", "done"}]
    /\ value \in [Getters -> Results \cup {None}]
    /\ returned \in [Getters -> Results \cup {None}]
    /\ scheduled \subseteq Getters
    /\ data \in Values \cup {None}
    /\ tx \in {"live", "stored", "completed", "gone"}
    /\ rx_task \in Tasks \cup {None}

\* DelayedInit::new: an empty channel, its receiver in the Waiting state.
Init ==
    /\ state = Waiting
    /\ readers = {}
    /\ writer = None
    /\ pc = [g \in Getters |-> "idle"]
    /\ value = [g \in Getters |-> None]
    /\ returned = [g \in Getters |-> None]
    /\ scheduled = {}
    /\ data = None
    /\ tx = "live"
    /\ rx_task = None
------------------------------------------------------------------------------
\* Waking a task makes it poll every getter it has not finished yet.
Unfinished(t) == {g \in Getters : TaskOf[g] = t /\ pc[g] \notin {"idle", "done"}}

\* `poll` returns Poll::Ready(r).
ReturnReady(g, r) ==
    /\ pc' = [pc EXCEPT ![g] = "done"]
    /\ returned' = [returned EXCEPT ![g] = r]

\* A caller calls get, for the first time or again.
Get(g) ==
    /\ pc[g] \in {"idle", "done"}
    /\ pc' = [pc EXCEPT ![g] = "pending"]
    /\ scheduled' = scheduled \cup {g}
    /\ UNCHANGED <<state, lockVars, value, returned, chanVars>>

\* The caller drops the future between two polls (a webhook request times out).
Cancel(g) ==
    /\ pc[g] = "pending"
    /\ pc' = [pc EXCEPT ![g] = "idle"]
    /\ scheduled' = scheduled \ {g}
    /\ UNCHANGED <<state, lockVars, value, returned, chanVars>>

\* poll: the task enters the getter's poll and takes the optimistic read lock.
ReadLock(g) ==
    /\ g \in scheduled
    /\ pc[g] = "pending"
    /\ \A h \in Getters : TaskOf[h] = TaskOf[g] => pc[h] \notin InPoll
    /\ writer = None
    /\ readers' = readers \cup {g}
    /\ pc' = [pc EXCEPT ![g] = "read"]
    /\ scheduled' = scheduled \ {g}
    /\ UNCHANGED <<state, writer, value, returned, chanVars>>

\* poll: "using fast path, value is already ready".
FastPath(g) ==
    /\ pc[g] = "read"
    /\ state # Waiting
    /\ readers' = readers \ {g}
    /\ ReturnReady(g, state)
    /\ UNCHANGED <<state, writer, value, scheduled, chanVars>>

\* Mutant: the read guard still lives when the write lock is asked for.
DropReadLockTooLate(g) ==
    /\ pc[g] = "read"
    /\ state = Waiting
    /\ pc' = [pc EXCEPT ![g] = "upgrade"]
    /\ UNCHANGED <<state, lockVars, value, returned, scheduled, chanVars>>

\* poll: drop(read_lock) before asking for the write lock.
DropReadLock(g) ==
    /\ pc[g] = "read"
    /\ state = Waiting
    /\ readers' = readers \ {g}
    /\ pc' = [pc EXCEPT ![g] = "upgrade"]
    /\ UNCHANGED <<state, writer, value, returned, scheduled, chanVars>>

\* poll: self.0.state.write().
WriteLock(g) ==
    /\ pc[g] = "upgrade"
    /\ readers = {} /\ writer = None
    /\ writer' = g
    /\ pc' = [pc EXCEPT ![g] = "write"]
    /\ UNCHANGED <<state, readers, value, returned, scheduled, chanVars>>

\* Mutant: the getter that finds the value under the write lock waits to be polled again.
AlreadyReadyPending(g) ==
    /\ pc[g] = "write"
    /\ state # Waiting
    /\ writer' = None
    /\ pc' = [pc EXCEPT ![g] = "pending"]
    /\ UNCHANGED <<state, readers, value, returned, scheduled, chanVars>>

\* poll: another getter memoized the value while this one had no lock.
AlreadyReady(g) ==
    /\ pc[g] = "write"
    /\ state # Waiting
    /\ writer' = None
    /\ ReturnReady(g, state)
    /\ UNCHANGED <<state, readers, value, scheduled, chanVars>>

\* Mutant: the slow path trusts the check it made under the read lock.
PollRxReadyUnchecked(g) ==
    /\ pc[g] = "write"
    /\ Complete
    /\ value' = [value EXCEPT ![g] = IF data = None THEN InitDropped ELSE data]
    /\ data' = None
    /\ pc' = [pc EXCEPT ![g] = "memoize"]
    /\ UNCHANGED <<state, lockVars, returned, scheduled, tx, rx_task>>

\* Mutant: the cancellation of the channel is not turned into InitDropped.
PollRxReadyUnmapped(g) ==
    /\ pc[g] = "write"
    /\ state = Waiting
    /\ Complete
    /\ value' = [value EXCEPT ![g] = data]
    /\ data' = None
    /\ pc' = [pc EXCEPT ![g] = "memoize"]
    /\ UNCHANGED <<state, lockVars, returned, scheduled, tx, rx_task>>

\* poll: rx.poll_unpin(cx) is Ready; the oneshot slot is emptied.
PollRxReady(g) ==
    /\ pc[g] = "write"
    /\ state = Waiting
    /\ Complete
    /\ value' = [value EXCEPT ![g] = IF data = None THEN InitDropped ELSE data]
    /\ data' = None
    /\ pc' = [pc EXCEPT ![g] = "memoize"]
    /\ UNCHANGED <<state, lockVars, returned, scheduled, tx, rx_task>>

\* Mutant: the getter spins on the channel instead of returning Pending.
PollRxPendingSpins(g) ==
    /\ pc[g] = "write"
    /\ state = Waiting
    /\ ~Complete
    /\ rx_task' = TaskOf[g]
    /\ writer' = None
    /\ pc' = [pc EXCEPT ![g] = "upgrade"]
    /\ UNCHANGED <<state, readers, value, returned, scheduled, data, tx>>

\* poll: rx.poll_unpin(cx) is Pending; the task's waker replaces any other.
PollRxPending(g) ==
    /\ pc[g] = "write"
    /\ state = Waiting
    /\ ~Complete
    /\ rx_task' = TaskOf[g]
    /\ writer' = None
    /\ pc' = [pc EXCEPT ![g] = "pending"]
    /\ UNCHANGED <<state, readers, value, returned, scheduled, data, tx>>

\* Mutant: the value is returned but not retained.
MemoizeForgotten(g) ==
    /\ pc[g] = "memoize"
    /\ value' = [value EXCEPT ![g] = None]
    /\ writer' = None
    /\ ReturnReady(g, value[g])
    /\ UNCHANGED <<state, readers, scheduled, chanVars>>

\* poll: *state = ReceiverState::Ready(value.clone()).
Memoize(g) ==
    /\ pc[g] = "memoize"
    /\ state' = value[g]
    /\ value' = [value EXCEPT ![g] = None]
    /\ writer' = None
    /\ ReturnReady(g, value[g])
    /\ UNCHANGED <<readers, scheduled, chanVars>>

\* Initializer::init(v): Sender::send stores the value...
InitValue(v) ==
    /\ tx = "live"
    /\ data' = v
    /\ tx' = "stored"
    /\ UNCHANGED <<state, lockVars, pc, value, returned, scheduled, rx_task>>

\* ... and the Sender, consumed by `init` or dropped unused, is dropped.
SenderComplete ==
    /\ tx \in {"live", "stored"}
    /\ tx' = "completed"
    /\ UNCHANGED <<state, lockVars, pc, value, returned, scheduled, data, rx_task>>

\* Dropping the Sender wakes the registered waker, if any.
SenderWake ==
    /\ tx = "completed"
    /\ tx' = "gone"
    /\ rx_task' = None
    /\ scheduled' = scheduled \cup (IF rx_task = None THEN {} ELSE Unfinished(rx_task))
    /\ UNCHANGED <<state, lockVars, pc, value, returned, data>>

\* A task is woken for a reason of its own (another branch of a select or join).
SpuriousWake(t) ==
    /\ ~(Unfinished(t) \subseteq scheduled)
    /\ scheduled' = scheduled \cup Unfinished(t)
    /\ UNCHANGED <<state, lockVars, pc, value, returned, chanVars>>

\* One step of DelayedInitGet::poll for getter g.
PollStep(g) == \/ ReadLock(g) \/ FastPath(g) \/ DropReadLock(g) \/ WriteLock(g)
               \/ AlreadyReady(g) \/ PollRxReady(g) \/ PollRxPending(g) \/ Memoize(g)

Next ==
    \/ \E g \in Getters : Get(g) \/ Cancel(g) \/ PollStep(g)
    \/ \E v \in Values : InitValue(v)
    \/ SenderComplete
    \/ SenderWake
    \/ \E t \in Tasks : SpuriousWake(t)

Spec == Init /\ [][Next]_vars
------------------------------------------------------------------------------
(***************************************************************************)
(* Fairness.  The runtime keeps running a woken task, and a task inside a  *)
(* poll keeps running; std's RwLock refuses new readers while a writer     *)
(* waits, so a waiting writer is not starved (strong fairness); a Sender   *)
(* that has stored its value finishes being dropped.  Nothing makes the    *)
(* writer send, a caller call, cancel or wake spuriously.                  *)
(***************************************************************************)
Fairness ==
    /\ \A g \in Getters : /\ WF_vars(FastPath(g)) /\ WF_vars(DropReadLock(g))
                          /\ WF_vars(AlreadyReady(g)) /\ WF_vars(PollRxReady(g))
                          /\ WF_vars(PollRxPending(g)) /\ WF_vars(Memoize(g))
                          /\ SF_vars(ReadLock(g)) /\ SF_vars(WriteLock(g))
    /\ WF_vars(tx = "stored" /\ SenderComplete)
    /\ WF_vars(SenderWake)

FairSpec == Spec /\ Fairness
------------------------------------------------------------------------------
\* Whatever the interleaving of polls, wakes, cancellations and the sender, all
\* getters return the same result, and one that asks again gets it again: the
\* guarantee in the doc comment of `get`.
Agreement ==
    \A g, h \in Getters :
        returned[g] # None /\ returned[h] # None => returned[g] = returned[h]

\* The cell seen by callers: the memoized result, else the value its taker holds
\* under the write lock, else what a complete channel holds.
Cell ==
    IF state # Waiting THEN state
    ELSE IF writer # None /\ pc[writer] = "memoize" THEN value[writer]
    ELSE IF Complete THEN IF data = None THEN InitDropped ELSE data
    ELSE None

Abstract == INSTANCE WriteOnce WITH cell <- Cell, got <- returned

\* DelayedInit implements a write-once cell.
ImplementsWriteOnce == Abstract!Spec

\* Getter g has a step of `poll` to take that waits for nobody: it runs inside the
\* poll, or the lock it asks for next can be had.
CanStep(g) ==
    \/ pc[g] \in InPoll \ {"upgrade"}
    \/ pc[g] = "upgrade" /\ readers = {} /\ writer = None
    \/ /\ pc[g] = "pending" /\ g \in scheduled /\ writer = None
       /\ \A h \in Getters : TaskOf[h] = TaskOf[g] => pc[h] \notin InPoll

\* The getters never all wait for each other on the RwLock: while one of them is inside
\* a poll or about to enter it, one can step.  So nobody asks for the write lock with
\* the read lock in hand (`drop(read_lock)`), and no lock outlives its poll.
NoDeadlock ==
    (\E g \in Getters : pc[g] \in InPoll \/ (pc[g] = "pending" /\ g \in scheduled))
        => \E g \in Getters : CanStep(g)

\* A poll never blocks forever on the RwLock: the read lock is released before the
\* write lock is asked for, and no lock is held across polls.
PollTerminates ==
    \A g \in Getters : pc[g] \in InPoll ~> pc[g] \notin InPoll

\* The getters of the task whose waker is registered when the sender is done return,
\* unless their callers drop them: no wake-up is lost within one task, as for the
\* reconciles of one applier.
RegisteredTaskReturns ==
    \A g \in Getters :
        (pc[g] = "pending" /\ tx = "completed" /\ rx_task = TaskOf[g]) ~> (pc[g] \in {"done", "idle"})

\* "Wait for the value to be available and then return it": a getter that waits when
\* the sender is done returns, unless its caller drops it.
EveryGetReturns ==
    \A g \in Getters : (pc[g] = "pending" /\ Complete) ~> (pc[g] \in {"done", "idle"})
==============================================================================
