-------------------------- MODULE DelayedInitProofs --------------------------
(***************************************************************************)
(* For any number of getters, tasks and values: DelayedInit is type        *)
(* correct, its getters agree and never all wait for each other, and it    *)
(* implements the write-once cell of WriteOnce.                            *)
(***************************************************************************)
EXTENDS DelayedInit, TLAPS

\* The write lock is held by exactly the getter inside the slow path.
WriterInv == \A g \in Getters : writer = g <=> pc[g] \in {"write", "memoize"}

\* The read lock is held by exactly the getters that look at the state under it.
ReaderInv == readers = {g \in Getters : pc[g] = "read"}

\* Between the taking of the oneshot's value and its memoizing, the value is held
\* by the taker alone.
TakerInv == \A g \in Getters :
    pc[g] = "memoize" => state = Waiting /\ Complete /\ value[g] \in Results

\* A memoized result is the only one ever returned, and comes from a complete channel.
MemoInv == /\ state = Waiting => \A g \in Getters : returned[g] = None
           /\ state # Waiting => Complete /\ \A g \in Getters : returned[g] \in {None, state}

\* The inductive invariant.
IInv == TypeOK /\ WriterInv /\ ReaderInv /\ TakerInv /\ MemoInv

\* The initial state of DelayedInit::new satisfies the inductive invariant.
LEMMA InitIInv == Init => IInv
BY ConstantsAssumption
   DEF Init, IInv, TypeOK, WriterInv, ReaderInv, TakerInv, MemoInv, InPoll, Results

\* Every step of a poll, of the sender and of the callers keeps the invariant.
LEMMA NextIInv == IInv /\ [Next]_vars => IInv'
<1> SUFFICES ASSUME IInv, [Next]_vars PROVE IInv'
    OBVIOUS
<1> USE ConstantsAssumption
        DEF IInv, TypeOK, WriterInv, ReaderInv, TakerInv, MemoInv, InPoll, Complete,
            lockVars, chanVars
<1>1. ASSUME NEW g \in Getters, Get(g) PROVE IInv'
      BY <1>1 DEF Get
<1>2. ASSUME NEW g \in Getters, Cancel(g) PROVE IInv'
      BY <1>2 DEF Cancel
<1>3. ASSUME NEW g \in Getters, ReadLock(g) PROVE IInv'
      BY <1>3 DEF ReadLock
<1>4. ASSUME NEW g \in Getters, FastPath(g) PROVE IInv'
      BY <1>4 DEF FastPath, ReturnReady
<1>5. ASSUME NEW g \in Getters, DropReadLock(g) PROVE IInv'
      BY <1>5 DEF DropReadLock
<1>6. ASSUME NEW g \in Getters, WriteLock(g) PROVE IInv'
      BY <1>6 DEF WriteLock
<1>7. ASSUME NEW g \in Getters, AlreadyReady(g) PROVE IInv'
      BY <1>7 DEF AlreadyReady, ReturnReady
<1>8. ASSUME NEW g \in Getters, PollRxReady(g) PROVE IInv'
      BY <1>8 DEF PollRxReady, Results
<1>9. ASSUME NEW g \in Getters, PollRxPending(g) PROVE IInv'
      BY <1>9 DEF PollRxPending
<1>10. ASSUME NEW g \in Getters, Memoize(g) PROVE IInv'
      BY <1>10 DEF Memoize, ReturnReady
<1>11. ASSUME NEW v \in Values, InitValue(v) PROVE IInv'
      BY <1>11 DEF InitValue
<1>12. CASE SenderComplete
      BY <1>12 DEF SenderComplete
<1>13. CASE SenderWake
      BY <1>13 DEF SenderWake, Unfinished
<1>14. ASSUME NEW t \in Tasks, SpuriousWake(t) PROVE IInv'
      BY <1>14 DEF SpuriousWake, Unfinished
<1>15. CASE UNCHANGED vars
      BY <1>15 DEF vars
<1> QED
    BY <1>1, <1>2, <1>3, <1>4, <1>5, <1>6, <1>7, <1>8, <1>9, <1>10, <1>11, <1>12,
       <1>13, <1>14, <1>15 DEF Next, PollStep

\* The inductive invariant holds in every reachable state.
LEMMA IInvHolds == Spec => []IInv
BY InitIInv, NextIInv, PTL DEF Spec

\* The poll of delayed_init.rs keeps every variable within its type.
THEOREM TypeCorrect == Spec => []TypeOK
<1>1. IInv => TypeOK
      BY DEF IInv
<1> QED
    BY IInvHolds, <1>1, PTL

\* Every two results that get returns are equal: Agreement, for any number of
\* getters, tasks and values.
THEOREM AgreementHolds == Spec => []Agreement
<1>1. IInv => Agreement
      BY ConstantsAssumption DEF IInv, MemoInv, Agreement
<1> QED
    BY IInvHolds, <1>1, PTL

\* The getters never all wait for each other: NoDeadlock.  A holder of the RwLock is
\* inside a poll and waits for nothing, so when all getters inside a poll wait for the
\* write lock, nobody holds it.
THEOREM NoDeadlockHolds == Spec => []NoDeadlock
<1>1. IInv => NoDeadlock
      <2> SUFFICES ASSUME IInv, NEW g \in Getters,
                          pc[g] \in InPoll \/ (pc[g] = "pending" /\ g \in scheduled)
                   PROVE  \E h \in Getters : CanStep(h)
          BY DEF NoDeadlock
      <2>1. CASE \E h \in Getters : pc[h] \in InPoll \ {"upgrade"}
            BY <2>1 DEF CanStep
      <2>2. CASE \A h \in Getters : pc[h] \notin InPoll \ {"upgrade"}
            <3>1. readers = {} /\ writer = None
                  BY <2>2 DEF IInv, TypeOK, WriterInv, ReaderInv, InPoll
            <3>2. CASE \E h \in Getters : pc[h] = "upgrade"
                  BY <3>1, <3>2 DEF CanStep
            <3>3. CASE \A h \in Getters : pc[h] # "upgrade"
                  BY <2>2, <3>1, <3>3 DEF CanStep, InPoll
            <3> QED
                BY <3>2, <3>3
      <2> QED
          BY <2>1, <2>2
<1> QED
    BY IInvHolds, <1>1, PTL
------------------------------------------------------------------------------
\* DelayedInit::new maps to the empty cell.
LEMMA InitRefines == Init => Abstract!Init
BY ConstantsAssumption DEF Init, Abstract!Init, Cell, Complete

\* Every step maps to the filling of the cell, to a return, or to a stutter.
LEMMA NextRefines ==
    IInv /\ [Next]_vars => [Abstract!Next]_(<<Cell, returned>>)
<1> SUFFICES ASSUME IInv, [Next]_vars PROVE [Abstract!Next]_(<<Cell, returned>>)
    OBVIOUS
<1> USE ConstantsAssumption
        DEF IInv, TypeOK, WriterInv, ReaderInv, TakerInv, MemoInv, InPoll, Complete,
            lockVars, chanVars
<1>a. ASSUME NEW g \in Getters, Get(g) \/ Cancel(g) \/ ReadLock(g) \/ DropReadLock(g)
      PROVE UNCHANGED <<Cell, returned>>
      BY <1>a DEF Get, Cancel, ReadLock, DropReadLock, Cell
<1>b. ASSUME NEW g \in Getters, WriteLock(g) \/ PollRxPending(g)
      PROVE UNCHANGED <<Cell, returned>>
      BY <1>b DEF WriteLock, PollRxPending, Cell
<1>c. ASSUME NEW g \in Getters, PollRxReady(g) PROVE UNCHANGED <<Cell, returned>>
      BY <1>c DEF PollRxReady, Cell, Results
<1>d. ASSUME NEW g \in Getters, FastPath(g) \/ AlreadyReady(g) PROVE Abstract!Return(g)
      BY <1>d DEF FastPath, AlreadyReady, ReturnReady, Abstract!Return, Cell
<1>e. ASSUME NEW g \in Getters, Memoize(g) PROVE Abstract!Return(g)
      <2>1. writer = g /\ state = Waiting /\ value[g] \in Results /\ g # None
            BY <1>e DEF Memoize, Results
      <2>2. Cell = value[g]
            BY <1>e, <2>1 DEF Memoize, Cell
      <2>3. Cell' = value[g]
            BY <1>e, <2>1 DEF Memoize, Cell
      <2>4. returned' = [returned EXCEPT ![g] = value[g]] /\ value[g] # None
            BY <1>e, <2>1 DEF Memoize, ReturnReady
      <2> QED
          BY <2>2, <2>3, <2>4 DEF Abstract!Return
<1>f. ASSUME NEW v \in Values, InitValue(v) PROVE UNCHANGED <<Cell, returned>>
      BY <1>f DEF InitValue, Cell
<1>g. CASE SenderComplete
      <2> DEFINE r == IF data = None THEN InitDropped ELSE data
      <2>1. r \in Results
            BY DEF Results
      <2>2. Abstract!Fill(r)
            BY <1>g DEF SenderComplete, Abstract!Fill, Cell
      <2> QED
          BY <2>1, <2>2 DEF Abstract!Next
<1>h. CASE SenderWake
      BY <1>h DEF SenderWake, Cell
<1>i. ASSUME NEW t \in Tasks, SpuriousWake(t) PROVE UNCHANGED <<Cell, returned>>
      BY <1>i DEF SpuriousWake, Cell
<1>j. CASE UNCHANGED vars
      BY <1>j DEF vars, Cell
<1> QED
    BY <1>a, <1>b, <1>c, <1>d, <1>e, <1>f, <1>g, <1>h, <1>i, <1>j
       DEF Next, PollStep, Abstract!Next

\* DelayedInit implements WriteOnce: callers see a cell that is filled once, with the
\* sent value or with InitDropped, and never changes afterwards.
THEOREM Refinement == Spec => ImplementsWriteOnce
BY InitRefines, NextRefines, IInvHolds, PTL DEF Spec, ImplementsWriteOnce, Abstract!Spec
==============================================================================
