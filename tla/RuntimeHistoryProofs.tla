------------------------ MODULE RuntimeHistoryProofs -------------------------
(***************************************************************************)
(* For any tests, workers, lengths and numbers of processes: the shared    *)
(* history keeps the newest runs, stays bounded, is saved by a test that   *)
(* runs alone and can save, and loses results only when a new test joins   *)
(* in or the output directory is gone.                                     *)
(***************************************************************************)
EXTENDS RuntimeHistory, SequenceTheorems, FiniteSetTheorems, TLAPS

\* Threads exist only during an attempt, for its tests, and have an entry to update; the
\* copy of a thread is empty until it iterates.
BatchInv ==
    /\ up # "ready" => todo = {} /\ batch = {} /\ \A t \in Tests : pc[t] = "idle"
    /\ up # "down" => starts > 0
    /\ todo \subseteq batch
    /\ \A t \in Tests : pc[t] # "idle" => t \in batch \ todo /\ mem[t] # None
    /\ \A t \in Tests : pc[t] \in {"idle", "append", "trim"} => snap[t] = NoHistory

\* In an attempt of one test the dictionary and the file belong to its thread.
LoneInv == \A t \in Tests : batch = {t} =>
    /\ dropped \subseteq unsaved
    /\ pc[t] = "iterate" => /\ size[t] = Cardinality(Keys(mem))
                            /\ \A u \in Keys(snap[t]) : snap[t][u] = mem[u]
    /\ pc[t] = "write" => clean[t] /\ snap[t] = mem
    /\ todo = {} /\ pc[t] = "idle" => file = mem \/ t \in unsaved

\* In an attempt of known tests the dictionary keeps its keys.
KnownInv == newcomers = {} =>
    /\ dropped \subseteq unsaved
    /\ batch \subseteq Keys(mem)
    /\ \A t \in Tests : pc[t] = "iterate" => size[t] = Cardinality(Keys(mem))

\* Lengths of the lists: in memory, one more only between growing and cutting.
BoundInv ==
    ~mixed => \A t \in Tests :
        /\ mem[t] # None => Len(mem[t]) <= MAX_RUNTIME_HISTORY + starts
        /\ mem[t] # None /\ pc[t] # "trim" => Len(mem[t]) < MAX_RUNTIME_HISTORY + starts
        /\ file # Unreadable /\ file[t] # None => Len(file[t]) <= MAX_RUNTIME_HISTORY + starts
        /\ \A u \in Tests : snap[u][t] # None => Len(snap[u][t]) <= MAX_RUNTIME_HISTORY + starts

\* The inductive invariant.
IInv == TypeOK /\ BatchInv /\ LoneInv /\ KnownInv /\ NewestRunsKept /\ BoundInv

USE DEF History, attemptVars, NoAttempt

\* The empty history.
LEMMA NoHistoryTyped == NoHistory \in History
BY DEF NoHistory

\* The maximum is positive.
LEMMA Maximum == MAX_RUNTIME_HISTORY \in Nat /\ MAX_RUNTIME_HISTORY > 0
BY ConstantsAssumption

\* A list of runtimes is not None.
LEMMA ListNotNone == \A s \in Seq(Nat) : s # None
BY ConstantsAssumption

\* A dictionary has a size.
LEMMA SizeTyped == ASSUME NEW h PROVE Cardinality(Keys(h)) \in Nat
<1>1. IsFiniteSet(Keys(h))
      BY ConstantsAssumption, FS_Subset DEF Keys
<1> QED
    BY <1>1, FS_CardinalityType

\* Cutting a list leaves its end, and no more than the maximum.
LEMMA RecentLast ==
    ASSUME NEW s \in Seq(Nat)
    PROVE  /\ RecentRuntimes(s) \in Seq(Nat)
           /\ Len(RecentRuntimes(s)) <= MAX_RUNTIME_HISTORY
           /\ \A k \in 0..(MAX_RUNTIME_HISTORY - 1) : Len(s) > k =>
                /\ Len(RecentRuntimes(s)) > k
                /\ RecentRuntimes(s)[Len(RecentRuntimes(s)) - k] = s[Len(s) - k]
<1> DEFINE M == MAX_RUNTIME_HISTORY
<1>0. M \in Nat /\ M > 0 /\ Len(s) \in Nat
      BY ConstantsAssumption, LenProperties
<1>1. CASE Len(s) <= M
      BY <1>0, <1>1 DEF RecentRuntimes
<1>2. CASE Len(s) > M
      <2> DEFINE c == SubSeq(s, Len(s) - M + 1, Len(s))
      <2>1. RecentRuntimes(s) = c
            BY <1>0, <1>2 DEF RecentRuntimes
      <2>2. /\ c \in Seq(Nat) /\ Len(c) = M
            /\ \A i \in 1..M : c[i] = s[Len(s) - M + i]
            BY <1>0, <1>2, SubSeqProperties
      <2> HIDE DEF c
      <2>3. ASSUME NEW k \in 0..(M - 1) PROVE Len(c) > k /\ c[Len(c) - k] = s[Len(s) - k]
            <3>1. M - k \in 1..M /\ Len(s) - M + (M - k) = Len(s) - k
                  BY <1>0
            <3> QED
                BY <1>0, <2>2, <3>1
      <2> QED
          BY <1>0, <2>1, <2>2, <2>3
<1> QED
    BY <1>0, <1>1, <1>2

\* What loading makes of a file.
LEMMA LoadedTyped ==
    ASSUME TypeOK
    PROVE  /\ Loaded \in History
           /\ \A t \in Tests : Loaded[t] # None => file # Unreadable /\ Loaded[t] = file[t]
BY DEF TypeOK, Loaded, NoHistory

\* The first process has not started: nothing is known.
LEMMA InitIInv == Init => IInv
<1> SUFFICES ASSUME Init PROVE IInv
    OBVIOUS
<1>1. TypeOK
      BY NoHistoryTyped DEF Init, TypeOK
<1>2. BatchInv /\ LoneInv /\ KnownInv /\ NewestRunsKept
      BY DEF Init, BatchInv, LoneInv, KnownInv, NewestRunsKept
<1>3. BoundInv
      BY DEF Init, BoundInv, NoHistory
<1> QED
    BY <1>1, <1>2, <1>3 DEF IInv

\* Every action keeps the variables within their types.
LEMMA NextTypeOK == IInv /\ [Next]_vars => TypeOK'
<1> SUFFICES ASSUME IInv, [Next]_vars PROVE TypeOK'
    OBVIOUS
<1>0. TypeOK /\ BatchInv
      BY DEF IInv
<1> USE <1>0, NoHistoryTyped DEF TypeOK, threadVars, ghostVars
<1>1. CASE Load
      BY <1>1, LoadedTyped DEF Load
<1>2. CASE LoadSaved
      BY <1>2 DEF LoadSaved
<1>3. CASE Exit
      BY <1>3 DEF Exit
<1>4. ASSUME NEW T \in SUBSET Tests, Attempt(T) PROVE TypeOK'
      BY <1>4 DEF Attempt
<1>5. ASSUME NEW t \in Tests, NEW long \in BOOLEAN, Update(t, long) PROVE TypeOK'
      <2>1. mem' \in History
            <3>1. <<>> \in Seq(Nat)
                  BY EmptySeq
            <3> QED
                BY <1>5, <3>1 DEF Update
      <2> QED
          <3>1. size' \in [Tests -> Nat]
                <4>1. size' = size \/ size' = [size EXCEPT ![t] = Cardinality(Keys(mem'))]
                      BY <1>5 DEF Update, Iterate
                <4>2. Cardinality(Keys(mem')) \in Nat
                      BY SizeTyped
                <4> QED
                    BY <4>1, <4>2
          <3>2. snap' = snap /\ pc' \in [Tests -> {"idle", "append", "trim", "iterate", "write"}]
                BY <1>5 DEF Update, Iterate
          <3> QED
              BY <1>5, <2>1, <3>1, <3>2 DEF Update
<1>6. ASSUME NEW t \in Tests, AppendRuntime(t) PROVE TypeOK'
      <2>1. mem[t] \in Seq(Nat) /\ count[t] + 1 \in Nat
            BY <1>6 DEF AppendRuntime, BatchInv
      <2>2. Append(mem[t], count[t] + 1) \in Seq(Nat)
            BY <2>1, AppendProperties
      <2> QED
          BY <1>6, <2>1, <2>2 DEF AppendRuntime
<1>7. ASSUME NEW t \in Tests, TrimRuntimes(t) PROVE TypeOK'
      <2>1. mem[t] \in Seq(Nat)
            BY <1>7 DEF TrimRuntimes, BatchInv
      <2>2. RecentRuntimes(mem[t]) \in Seq(Nat)
            BY <2>1, RecentLast
      <2> QED
          BY <1>7, <2>2, SizeTyped DEF TrimRuntimes, Iterate
<1>8. ASSUME NEW t \in Tests, NEW u \in Tests, CopyEntry(t, u) PROVE TypeOK'
      BY <1>8 DEF CopyEntry
<1>9. ASSUME NEW t \in Tests, IterationFails(t) PROVE TypeOK'
      BY <1>9 DEF IterationFails, Returns
<1>10. ASSUME NEW t \in Tests, OpenFile(t) PROVE TypeOK'
      BY <1>10 DEF OpenFile, Interferes
<1>11. ASSUME NEW t \in Tests, WriteFile(t) \/ WriteFails(t) PROVE TypeOK'
      <2>1. file' \in {Unreadable} \cup History /\ mixed' \in BOOLEAN
            BY <1>11, ConstantsAssumption DEF WriteFile, WriteFails, Mixes
      <2>2. /\ pc' = [pc EXCEPT ![t] = "idle"] /\ size' = [size EXCEPT ![t] = 0]
            /\ snap' = [snap EXCEPT ![t] = NoHistory]
            BY <1>11 DEF WriteFile, WriteFails, Returns
      <2>3. clean' \in [Tests -> BOOLEAN] /\ unsaved' \subseteq Tests
            BY <1>11 DEF WriteFile, WriteFails, Interferes
      <2>4. UNCHANGED <<up, mem, todo, batch, newcomers, dropped, count, first, starts>>
            BY <1>11 DEF WriteFile, WriteFails
      <2> QED
          BY <2>1, <2>2, <2>3, <2>4
<1>12. ASSUME NEW t \in Tests, OpenFails(t) PROVE TypeOK'
      BY <1>12 DEF OpenFails, Returns
<1>13. CASE UNCHANGED vars
      BY <1>13 DEF vars
<1> QED
    BY <1>1, <1>2, <1>3, <1>4, <1>5, <1>6, <1>7, <1>8, <1>9, <1>10, <1>11, <1>12, <1>13 DEF Next

\* The threads of an attempt are those of its tests.
LEMMA NextBatchInv == IInv /\ [Next]_vars => BatchInv'
<1> SUFFICES ASSUME IInv, [Next]_vars PROVE BatchInv'
    OBVIOUS
<1>0. TypeOK /\ BatchInv
      BY DEF IInv
<1> USE <1>0 DEF TypeOK, BatchInv, threadVars, ghostVars
<1>1. CASE Load
      BY <1>1 DEF Load
<1>2. CASE LoadSaved
      BY <1>2 DEF LoadSaved
<1>3. CASE Exit
      BY <1>3 DEF Exit
<1>4. ASSUME NEW T \in SUBSET Tests, Attempt(T) PROVE BatchInv'
      BY <1>4 DEF Attempt, Active
<1>5. ASSUME NEW t \in Tests, NEW long \in BOOLEAN, Update(t, long) PROVE BatchInv'
      <2>1. \A u \in Tests : mem[u] # None => mem'[u] # None
            BY <1>5, ConstantsAssumption, EmptySeq DEF Update
      <2>2. mem'[t] # None
            BY <1>5, ConstantsAssumption, EmptySeq DEF Update
      <2>3. pc[t] = "idle" /\ snap' = snap /\ up = "ready" /\ up' = up
            BY <1>5 DEF Update, Iterate
      <2>4. pc' \in {[pc EXCEPT ![t] = "append"], [pc EXCEPT ![t] = "iterate"]}
            BY <1>5 DEF Update, Iterate
      <2> QED
          BY <1>5, <2>1, <2>2, <2>3, <2>4 DEF Update
<1>6. ASSUME NEW t \in Tests, AppendRuntime(t) PROVE BatchInv'
      <2>1. Append(mem[t], count[t] + 1) # None
            <3>1. mem[t] \in Seq(Nat) /\ count[t] + 1 \in Nat
                  BY <1>6 DEF AppendRuntime
            <3>2. Append(mem[t], count[t] + 1) \in Seq(Nat)
                  BY <3>1, AppendProperties
            <3> QED
                BY <3>2, ConstantsAssumption
      <2> QED
          BY <1>6, <2>1 DEF AppendRuntime
<1>7. ASSUME NEW t \in Tests, TrimRuntimes(t) PROVE BatchInv'
      <2>1. RecentRuntimes(mem[t]) # None
            BY <1>7, ConstantsAssumption, RecentLast DEF TrimRuntimes
      <2> QED
          BY <1>7, <2>1 DEF TrimRuntimes, Iterate
<1>8. ASSUME NEW t \in Tests, NEW u \in Tests, CopyEntry(t, u) PROVE BatchInv'
      BY <1>8 DEF CopyEntry, Iterates
<1>9. ASSUME NEW t \in Tests, IterationFails(t) PROVE BatchInv'
      BY <1>9 DEF IterationFails, Returns
<1>10. ASSUME NEW t \in Tests, OpenFile(t) PROVE BatchInv'
      BY <1>10 DEF OpenFile, Iterates
<1>11. ASSUME NEW t \in Tests, OpenFails(t) \/ WriteFile(t) \/ WriteFails(t) PROVE BatchInv'
      BY <1>11 DEF OpenFails, WriteFile, WriteFails, Returns
<1>12. CASE UNCHANGED vars
      BY <1>12 DEF vars
<1> QED
    BY <1>1, <1>2, <1>3, <1>4, <1>5, <1>6, <1>7, <1>8, <1>9, <1>10, <1>11, <1>12 DEF Next

\* Growing and cutting a list keeps the keys of the dictionary, and so does an update of
\* a test that has an entry.
LEMMA KeysKept ==
    ASSUME IInv, NEW t \in Tests,
           \/ AppendRuntime(t) \/ TrimRuntimes(t)
           \/ mem[t] # None /\ \E long \in BOOLEAN : Update(t, long)
    PROVE  Keys(mem') = Keys(mem)
<1>0. TypeOK /\ BatchInv
      BY DEF IInv
<1>1. CASE AppendRuntime(t)
      <2>1. mem[t] \in Seq(Nat) /\ count[t] + 1 \in Nat
            BY <1>0, <1>1 DEF AppendRuntime, TypeOK, BatchInv
      <2>2. Append(mem[t], count[t] + 1) # None /\ mem[t] # None
            <3>1. Append(mem[t], count[t] + 1) \in Seq(Nat)
                  BY <2>1, AppendProperties
            <3> QED
                BY <2>1, <3>1, ListNotNone
      <2> QED
          BY <1>0, <1>1, <2>2 DEF AppendRuntime, Keys, TypeOK
<1>2. CASE TrimRuntimes(t)
      <2>1. mem[t] \in Seq(Nat)
            BY <1>0, <1>2 DEF TrimRuntimes, TypeOK, BatchInv
      <2>2. RecentRuntimes(mem[t]) # None /\ mem[t] # None
            BY <2>1, ConstantsAssumption, RecentLast
      <2> QED
          BY <1>0, <1>2, <2>2 DEF TrimRuntimes, Keys, TypeOK
<1>3. CASE mem[t] # None /\ \E long \in BOOLEAN : Update(t, long)
      <2>1. mem' = mem
            BY <1>0, <1>3 DEF Update, TypeOK
      <2> QED
          BY <2>1
<1> QED
    BY <1>1, <1>2, <1>3

\* Without a newcomer the dictionary never changes its size, and nothing is dropped.
LEMMA NextKnownInv == IInv /\ [Next]_vars => KnownInv'
<1> SUFFICES ASSUME IInv, [Next]_vars PROVE KnownInv'
    OBVIOUS
<1>0. TypeOK /\ BatchInv /\ KnownInv
      BY DEF IInv
<1> USE <1>0 DEF TypeOK, KnownInv, threadVars, ghostVars
<1>1. CASE Load
      BY <1>1 DEF Load, BatchInv
<1>2. CASE LoadSaved
      BY <1>2 DEF LoadSaved
<1>3. CASE Exit
      BY <1>3 DEF Exit
<1>4. ASSUME NEW T \in SUBSET Tests, Attempt(T) PROVE KnownInv'
      BY <1>4 DEF Attempt, Active
<1>5. ASSUME NEW t \in Tests, NEW long \in BOOLEAN, Update(t, long) PROVE KnownInv'
      <2> SUFFICES ASSUME newcomers = {} PROVE KnownInv'
          BY <1>5 DEF Update
      <2>1. Keys(mem') = Keys(mem)
            <3>1. mem[t] # None
                  BY <1>5 DEF Update, BatchInv, Keys
            <3> QED
                BY <1>5, <3>1, KeysKept
      <2>2. \A u \in Tests : pc'[u] = "iterate" => size'[u] = Cardinality(Keys(mem'))
            <3>1. CASE ~long
                  <4>1. /\ pc' = [pc EXCEPT ![t] = "iterate"]
                        /\ size' = [size EXCEPT ![t] = Cardinality(Keys(mem'))]
                        BY <1>5, <3>1 DEF Update, Iterate
                  <4> QED
                      BY <2>1, <4>1
            <3>2. CASE long
                  BY <1>5, <2>1, <3>2 DEF Update
            <3> QED
                BY <3>1, <3>2
      <2> QED
          BY <1>5, <2>1, <2>2 DEF Update
<1>6. ASSUME NEW t \in Tests, AppendRuntime(t) PROVE KnownInv'
      <2>1. Keys(mem') = Keys(mem)
            BY <1>6, KeysKept
      <2> QED
          BY <1>6, <2>1 DEF AppendRuntime
<1>7. ASSUME NEW t \in Tests, TrimRuntimes(t) PROVE KnownInv'
      <2>1. Keys(mem') = Keys(mem)
            BY <1>7, KeysKept
      <2>2. /\ pc' = [pc EXCEPT ![t] = "iterate"]
            /\ size' = [size EXCEPT ![t] = Cardinality(Keys(mem'))]
            BY <1>7 DEF TrimRuntimes, Iterate
      <2> QED
          BY <1>7, <2>1, <2>2 DEF TrimRuntimes
<1>8. ASSUME NEW t \in Tests, NEW u \in Tests, CopyEntry(t, u) PROVE KnownInv'
      BY <1>8 DEF CopyEntry
<1>9. ASSUME NEW t \in Tests, IterationFails(t) PROVE KnownInv'
      BY <1>9 DEF IterationFails, Returns
<1>10. ASSUME NEW t \in Tests, OpenFile(t) PROVE KnownInv'
      BY <1>10 DEF OpenFile
<1>11. ASSUME NEW t \in Tests, OpenFails(t) \/ WriteFile(t) \/ WriteFails(t) PROVE KnownInv'
      BY <1>11 DEF OpenFails, WriteFile, WriteFails, Returns
<1>12. CASE UNCHANGED vars
      BY <1>12 DEF vars
<1> QED
    BY <1>1, <1>2, <1>3, <1>4, <1>5, <1>6, <1>7, <1>8, <1>9, <1>10, <1>11, <1>12 DEF Next

\* The newest runs stay at the end of the list.
LEMMA NextNewest == IInv /\ [Next]_vars => NewestRunsKept'
<1> SUFFICES ASSUME IInv, [Next]_vars PROVE NewestRunsKept'
    OBVIOUS
<1>0. TypeOK /\ BatchInv /\ NewestRunsKept
      BY DEF IInv
<1> USE <1>0 DEF TypeOK, NewestRunsKept, threadVars, ghostVars
<1>1. CASE Load
      <2>1. ASSUME NEW t \in Tests, NEW k \in 0..(MAX_RUNTIME_HISTORY - 1)
            PROVE ~(count'[t] - k > first'[t])
            BY <1>1, ConstantsAssumption DEF Load
      <2> QED
          BY <1>1, <2>1 DEF Load
<1>2. ASSUME UNCHANGED <<up, mem, count, first>> PROVE NewestRunsKept'
      BY <1>2
<1>3. CASE Exit
      BY <1>3 DEF Exit
<1>4. ASSUME NEW t \in Tests, NEW long \in BOOLEAN, Update(t, long) PROVE NewestRunsKept'
      <2>1. \A u \in Tests : mem[u] # None => mem'[u] = mem[u]
            BY <1>4 DEF Update
      <2> QED
          BY <1>4, <2>1 DEF Update
<1>5. ASSUME NEW t \in Tests, AppendRuntime(t) PROVE NewestRunsKept'
      <2>1. up = "ready" /\ mem[t] \in Seq(Nat) /\ count[t] \in Nat /\ first[t] \in Nat
            BY <1>5 DEF AppendRuntime, BatchInv
      <2>2. /\ mem'[t] = Append(mem[t], count[t] + 1) /\ count'[t] = count[t] + 1
            /\ first' = first /\ up' = up
            /\ \A u \in Tests \ {t} : mem'[u] = mem[u] /\ count'[u] = count[u]
            BY <1>5 DEF AppendRuntime
      <2>3. /\ mem'[t] \in Seq(Nat) /\ Len(mem'[t]) = Len(mem[t]) + 1 /\ Len(mem[t]) \in Nat
            /\ mem'[t][Len(mem[t]) + 1] = count[t] + 1
            /\ \A i \in 1..Len(mem[t]) : mem'[t][i] = mem[t][i]
            BY <2>1, <2>2, AppendProperties, LenProperties
      <2>4. ASSUME NEW k \in 0..(MAX_RUNTIME_HISTORY - 1), count'[t] - k > first'[t]
            PROVE mem'[t] # None /\ Len(mem'[t]) > k /\ mem'[t][Len(mem'[t]) - k] = count'[t] - k
            <3>1. CASE k = 0
                  <4>1. mem'[t] # None
                        BY <2>3, ListNotNone
                  <4>2. Len(mem'[t]) - k = Len(mem[t]) + 1 /\ count'[t] - k = count[t] + 1
                        BY <2>1, <2>2, <2>3, <3>1
                  <4> QED
                      BY <2>3, <3>1, <4>1, <4>2
            <3>2. CASE k # 0
                  <4>1. k - 1 \in 0..(MAX_RUNTIME_HISTORY - 1) /\ count[t] - (k - 1) > first[t]
                        BY <2>1, <2>2, <2>4, <3>2, Maximum
                  <4>2. /\ Len(mem[t]) > k - 1
                        /\ mem[t][Len(mem[t]) - (k - 1)] = count[t] - (k - 1)
                        BY <2>1, <4>1
                  <4>3. Len(mem[t]) - (k - 1) \in 1..Len(mem[t])
                        BY <2>3, <3>2, <4>2
                  <4>4. mem'[t][Len(mem'[t]) - k] = mem[t][Len(mem[t]) - (k - 1)]
                        <5>1. Len(mem'[t]) - k = Len(mem[t]) - (k - 1)
                              BY <2>3
                        <5> QED
                            BY <2>3, <4>3, <5>1
                  <4>5. mem'[t] # None
                        BY <2>3, ListNotNone
                  <4>6. Len(mem'[t]) > k /\ count[t] - (k - 1) = count'[t] - k
                        <5> HIDE <1>0 DEF NewestRunsKept, TypeOK
                        <5>1. k \in Int
                              BY <2>4, Maximum
                        <5>2. Len(mem'[t]) = Len(mem[t]) + 1 /\ Len(mem[t]) \in Nat
                              BY <2>3
                        <5>3. count'[t] = count[t] + 1 /\ count[t] \in Nat
                              BY <2>1, <2>2
                        <5>4. Len(mem[t]) > k - 1
                              BY <4>2
                        <5> QED
                            BY <5>1, <5>2, <5>3, <5>4
                  <4> HIDE <1>0 DEF NewestRunsKept, TypeOK
                  <4> QED
                      BY <4>2, <4>4, <4>5, <4>6
            <3> HIDE <1>0 DEF NewestRunsKept, TypeOK
            <3> QED
                BY <3>1, <3>2
      <2> QED
          BY <2>1, <2>2, <2>4
<1>6. ASSUME NEW t \in Tests, TrimRuntimes(t) PROVE NewestRunsKept'
      <2>1. mem[t] \in Seq(Nat)
            BY <1>6 DEF TrimRuntimes, BatchInv
      <2>2. mem'[t] = RecentRuntimes(mem[t]) /\ \A u \in Tests \ {t} : mem'[u] = mem[u]
            BY <1>6 DEF TrimRuntimes
      <2>3. UNCHANGED <<up, count, first>>
            BY <1>6 DEF TrimRuntimes
      <2>4. mem'[t] # None
            BY <2>1, <2>2, RecentLast, ConstantsAssumption
      <2>5. \A k \in 0..(MAX_RUNTIME_HISTORY - 1) : Len(mem[t]) > k =>
                /\ Len(mem'[t]) > k /\ mem'[t][Len(mem'[t]) - k] = mem[t][Len(mem[t]) - k]
            BY <2>1, <2>2, RecentLast
      <2> QED
          BY <2>2, <2>3, <2>4, <2>5
<1>7. CASE LoadSaved
      BY <1>7 DEF LoadSaved
<1>8. ASSUME NEW T \in SUBSET Tests, Attempt(T) PROVE NewestRunsKept'
      BY <1>2, <1>8 DEF Attempt
<1>9. ASSUME NEW t \in Tests, NEW u \in Tests,
             \/ CopyEntry(t, u) \/ IterationFails(t) \/ OpenFile(t) \/ OpenFails(t)
             \/ WriteFile(t) \/ WriteFails(t)
      PROVE NewestRunsKept'
      BY <1>2, <1>9 DEF CopyEntry, IterationFails, OpenFile, OpenFails, WriteFile, WriteFails
<1>10. CASE UNCHANGED vars
      BY <1>2, <1>10 DEF vars
<1> QED
    BY <1>1, <1>3, <1>4, <1>5, <1>6, <1>7, <1>8, <1>9, <1>10 DEF Next

\* Lists grow by one at most before they are cut.
LEMMA NextBoundInv == IInv /\ [Next]_vars => BoundInv'
<1> SUFFICES ASSUME IInv, [Next]_vars, ~mixed' PROVE BoundInv'
    BY DEF BoundInv
<1>0. TypeOK /\ BatchInv /\ BoundInv
      BY DEF IInv
<1>m. ~mixed
      BY <1>0 DEF Next, Load, LoadSaved, Exit, Attempt, Update, AppendRuntime, TrimRuntimes,
             CopyEntry, IterationFails, OpenFile, OpenFails, WriteFile, WriteFails, Mixes,
             ghostVars, vars, TypeOK
<1> DEFINE M == MAX_RUNTIME_HISTORY
<1>a. M \in Nat /\ M > 0
      BY Maximum
<1>b. \A s \in Seq(Nat) : Len(s) \in Nat
      BY LenProperties
<1> HIDE DEF M
<1> USE <1>0, <1>a, <1>m DEF TypeOK, threadVars, ghostVars
<1>1. CASE Load
      <2>1. starts' = starts + 1 /\ mem' = Loaded /\ UNCHANGED <<pc, snap>>
            BY <1>1 DEF Load
      <2>2. file' = Unreadable \/ file' = file
            BY <1>1 DEF Load
      <2>3. ASSUME NEW t \in Tests, mem'[t] # None PROVE Len(mem'[t]) <= M + starts
            <3>1. file # Unreadable /\ mem'[t] = file[t] /\ file[t] # None
                  BY <2>1, <2>3, LoadedTyped
            <3> QED
                BY <3>1 DEF BoundInv, M
      <2>4. ASSUME NEW t \in Tests, mem'[t] # None
            PROVE mem'[t] \in Seq(Nat)
            BY <2>1, <2>4, LoadedTyped
      <2>5. ASSUME NEW t \in Tests, mem'[t] # None
            PROVE Len(mem'[t]) < M + starts'
            <3>1. Len(mem'[t]) \in Nat /\ Len(mem'[t]) <= M + starts /\ starts \in Nat
                  BY <1>b, <2>3, <2>4, <2>5
            <3> QED
                BY <2>1, <3>1
      <2>6. ASSUME NEW t \in Tests, file' # Unreadable, file'[t] # None
            PROVE Len(file'[t]) <= M + starts'
            <3>1. file' = file /\ Len(file[t]) \in Nat /\ Len(file[t]) <= M + starts
                  BY <1>b, <2>2, <2>6 DEF BoundInv, M
            <3> QED
                BY <2>1, <3>1
      <2>7. ASSUME NEW t \in Tests, NEW u \in Tests, snap'[u][t] # None
            PROVE Len(snap'[u][t]) <= M + starts'
            <3>1. snap' = snap /\ Len(snap[u][t]) \in Nat /\ Len(snap[u][t]) <= M + starts
                  BY <1>b, <2>1, <2>7 DEF BoundInv, M
            <3> QED
                BY <2>1, <3>1
      <2> QED
          BY <2>1, <2>3, <2>5, <2>6, <2>7 DEF BoundInv, M
<1>2. CASE LoadSaved
      BY <1>2 DEF LoadSaved, BoundInv
<1>3. CASE Exit
      BY <1>3 DEF Exit, BoundInv, NoHistory
<1>4. ASSUME NEW T \in SUBSET Tests, Attempt(T) PROVE BoundInv'
      BY <1>4 DEF Attempt, BoundInv
<1>5. ASSUME NEW t \in Tests, NEW long \in BOOLEAN, Update(t, long) PROVE BoundInv'
      <2>1. starts \in Nat /\ starts > 0 /\ pc[t] = "idle"
            BY <1>5 DEF Update, BatchInv
      <2>2. UNCHANGED <<file, snap, starts>>
            BY <1>5 DEF Update, Iterate
      <2>3. \A u \in Tests : pc'[u] = "trim" <=> pc[u] = "trim"
            <3>1. pc' = [pc EXCEPT ![t] = "append"] \/ pc' = [pc EXCEPT ![t] = "iterate"]
                  BY <1>5 DEF Update, Iterate
            <3> QED
                BY <2>1, <3>1
      <2>4. ASSUME NEW u \in Tests PROVE mem'[u] = mem[u] \/ (mem'[u] = <<>> /\ pc'[u] # "trim")
            BY <1>5, <2>1, <2>3 DEF Update
      <2>5. Len(<<>>) < M + starts
            BY <2>1
      <2> QED
          BY <2>2, <2>3, <2>4, <2>5 DEF BoundInv, M
<1>6. ASSUME NEW t \in Tests, AppendRuntime(t) PROVE BoundInv'
      <2>1. mem[t] \in Seq(Nat) /\ mem[t] # None /\ count[t] + 1 \in Nat /\ pc[t] # "trim"
            BY <1>6 DEF AppendRuntime, BatchInv
      <2>2. /\ mem' = [mem EXCEPT ![t] = Append(mem[t], count[t] + 1)]
            /\ pc' = [pc EXCEPT ![t] = "trim"]
            /\ UNCHANGED <<file, snap, starts>>
            BY <1>6 DEF AppendRuntime
      <2>3. Len(Append(mem[t], count[t] + 1)) = Len(mem[t]) + 1 /\ Len(mem[t]) \in Nat
            BY <2>1, AppendProperties, LenProperties
      <2>4. Len(mem[t]) < M + starts
            BY <2>1 DEF BoundInv, M
      <2>5. Len(mem'[t]) <= M + starts
            BY <2>2, <2>3, <2>4
      <2>6. \A u \in Tests \ {t} : mem'[u] = mem[u] /\ pc'[u] = pc[u]
            BY <2>2
      <2>7. pc'[t] = "trim"
            BY <2>2
      <2> QED
          BY <2>2, <2>5, <2>6, <2>7 DEF BoundInv, M
<1>7. ASSUME NEW t \in Tests, TrimRuntimes(t) PROVE BoundInv'
      <2>1. mem[t] \in Seq(Nat) /\ starts \in Nat /\ starts > 0
            BY <1>7 DEF TrimRuntimes, BatchInv
      <2>2. /\ mem' = [mem EXCEPT ![t] = RecentRuntimes(mem[t])]
            /\ pc' = [pc EXCEPT ![t] = "iterate"]
            /\ UNCHANGED <<file, snap, starts>>
            BY <1>7 DEF TrimRuntimes, Iterate
      <2>3. Len(mem'[t]) < M + starts
            <3>1. Len(RecentRuntimes(mem[t])) <= M /\ Len(RecentRuntimes(mem[t])) \in Nat
                  BY <1>b, <2>1, RecentLast DEF M
            <3> QED
                BY <2>1, <2>2, <3>1
      <2> QED
          BY <2>2, <2>3 DEF BoundInv, M
<1>8. ASSUME NEW t \in Tests, NEW u \in Tests, CopyEntry(t, u) PROVE BoundInv'
      BY <1>8 DEF CopyEntry, BoundInv
<1>9. ASSUME NEW t \in Tests, IterationFails(t) PROVE BoundInv'
      BY <1>9 DEF IterationFails, Returns, BoundInv, NoHistory
<1>10. ASSUME NEW t \in Tests, OpenFile(t) PROVE BoundInv'
      BY <1>10 DEF OpenFile, Iterates, BoundInv
<1>11. ASSUME NEW t \in Tests, OpenFails(t) \/ WriteFile(t) \/ WriteFails(t) PROVE BoundInv'
      <2>1. file' = Unreadable \/ file' = file \/ file' = snap[t]
            BY <1>11 DEF OpenFails, WriteFile, WriteFails, Mixes
      <2>2. Returns(t) /\ UNCHANGED <<mem, starts>> /\ pc[t] # "trim"
            BY <1>11 DEF OpenFails, Iterates, WriteFile, WriteFails
      <2>3. \A v \in Tests : pc'[v] = "trim" <=> pc[v] = "trim"
            BY <2>2 DEF Returns
      <2>4. \A u, v \in Tests : snap'[u][v] = None \/ snap'[u] = snap[u]
            BY <2>2 DEF Returns, NoHistory
      <2> QED
          BY <2>1, <2>2, <2>3, <2>4 DEF BoundInv
<1>12. CASE UNCHANGED vars
      BY <1>12 DEF vars, BoundInv
<1> QED
    BY <1>1, <1>2, <1>3, <1>4, <1>5, <1>6, <1>7, <1>8, <1>9, <1>10, <1>11, <1>12 DEF Next

\* A thread that is alone copies the whole dictionary and writes it.
LEMMA NextLoneInv == IInv /\ [Next]_vars => LoneInv'
<1> SUFFICES ASSUME IInv, [Next]_vars PROVE LoneInv'
    OBVIOUS
<1>0. TypeOK /\ BatchInv /\ LoneInv
      BY DEF IInv
<1> USE <1>0 DEF TypeOK, threadVars, ghostVars
<1>1. CASE Load \/ Exit
      BY <1>1 DEF Load, Exit, LoneInv
<1>2. CASE LoadSaved
      BY <1>2 DEF LoadSaved, LoneInv, BatchInv
<1>3. ASSUME NEW T \in SUBSET Tests, Attempt(T) PROVE LoneInv'
      BY <1>3 DEF Attempt, Active, LoneInv
\* A step of thread t in an attempt of the single test v is a step of v.
<1>4. ASSUME NEW t \in Tests, NEW v \in Tests, batch = {v}, pc[t] # "idle" \/ t \in todo
      PROVE t = v /\ (pc[v] # "idle" => todo = {}) /\ (v \in todo => pc[v] = "idle")
      BY <1>4 DEF BatchInv
<1>5. ASSUME NEW t \in Tests, NEW long \in BOOLEAN, Update(t, long) PROVE LoneInv'
      <2> SUFFICES ASSUME NEW v \in Tests, batch' = {v}
                   PROVE /\ dropped' \subseteq unsaved'
                         /\ pc'[v] = "iterate" =>
                               /\ size'[v] = Cardinality(Keys(mem'))
                               /\ \A u \in Keys(snap'[v]) : snap'[v][u] = mem'[u]
                         /\ pc'[v] # "write"
                         /\ pc'[v] # "idle"
          BY DEF LoneInv
      <2>1. /\ batch = {v} /\ t = v /\ pc[v] = "idle" /\ dropped \subseteq unsaved
            /\ UNCHANGED <<dropped, unsaved, snap>>
            BY <1>4, <1>5 DEF Update, Iterate, LoneInv
      <2>2. snap[v] = NoHistory
            BY <2>1 DEF BatchInv
      <2>3. Keys(NoHistory) = {}
            BY DEF Keys, NoHistory
      <2>4. CASE long
            BY <1>5, <2>1, <2>4 DEF Update
      <2>5. CASE ~long
            <3>1. /\ pc' = [pc EXCEPT ![v] = "iterate"]
                  /\ size' = [size EXCEPT ![v] = Cardinality(Keys(mem'))]
                  BY <1>5, <2>1, <2>5 DEF Update, Iterate
            <3> QED
                BY <2>1, <2>2, <2>3, <3>1
      <2> QED
          BY <2>4, <2>5
<1>6. ASSUME NEW t \in Tests, AppendRuntime(t) PROVE LoneInv'
      <2>1. ASSUME NEW v \in Tests, batch = {v} PROVE pc'[v] = "trim" /\ dropped \subseteq unsaved
            BY <1>4, <1>6, <2>1 DEF AppendRuntime, LoneInv
      <2> QED
          BY <1>6, <2>1 DEF AppendRuntime, LoneInv
<1>7. ASSUME NEW t \in Tests, TrimRuntimes(t) PROVE LoneInv'
      <2>1. ASSUME NEW v \in Tests, batch = {v}
            PROVE /\ pc'[v] = "iterate" /\ dropped \subseteq unsaved /\ snap'[v] = NoHistory
                  /\ size'[v] = Cardinality(Keys(mem'))
            BY <1>4, <1>7, <2>1 DEF TrimRuntimes, Iterate, LoneInv, BatchInv
      <2>2. Keys(NoHistory) = {}
            BY DEF Keys, NoHistory
      <2>3. UNCHANGED <<batch, dropped, unsaved>>
            BY <1>7 DEF TrimRuntimes
      <2> QED
          BY <2>1, <2>2, <2>3 DEF LoneInv
<1>8. ASSUME NEW t \in Tests, NEW u \in Tests, CopyEntry(t, u) PROVE LoneInv'
      <2>1. UNCHANGED <<batch, dropped, unsaved, mem, pc, size, todo, file, clean>>
            BY <1>8 DEF CopyEntry
      <2>2. ASSUME NEW v \in Tests, batch = {v}
            PROVE /\ pc[v] = "iterate"
                  /\ \A w \in Keys(snap'[v]) : snap'[v][w] = mem[w]
            <3>1. t = v /\ pc[v] = "iterate"
                  BY <1>4, <1>8, <2>2 DEF CopyEntry, Iterates
            <3>2. snap' = [snap EXCEPT ![v][u] = mem[u]]
                  BY <1>8, <3>1 DEF CopyEntry
            <3> QED
                BY <2>2, <3>1, <3>2 DEF LoneInv, Keys
      <2> QED
          BY <2>1, <2>2 DEF LoneInv
<1>9. ASSUME NEW t \in Tests, IterationFails(t) PROVE LoneInv'
      <2>1. ASSUME NEW v \in Tests, batch = {v} PROVE FALSE
            BY <1>4, <1>9, <2>1 DEF IterationFails, LoneInv
      <2> QED
          BY <1>9, <2>1 DEF IterationFails, LoneInv
<1>10. ASSUME NEW t \in Tests, OpenFile(t) PROVE LoneInv'
      <2>1. ASSUME NEW v \in Tests, batch = {v}
            PROVE pc'[v] = "write" /\ clean'[v] /\ snap[v] = mem /\ dropped \subseteq unsaved
            <3>1. /\ t = v /\ pc[v] = "iterate" /\ Keys(snap[v]) = Keys(mem)
                  /\ dropped \subseteq unsaved
                  BY <1>4, <1>10, <2>1 DEF OpenFile, Iterates, LoneInv
            <3>2. ASSUME NEW u \in Tests PROVE snap[v][u] = mem[u]
                  <4>1. CASE u \in Keys(mem)
                        BY <2>1, <3>1, <4>1 DEF LoneInv
                  <4>2. CASE u \notin Keys(mem)
                        BY <3>1, <4>2 DEF Keys
                  <4> QED
                      BY <4>1, <4>2
            <3>3. snap[v] = mem
                  BY <3>2
            <3> QED
                BY <1>10, <3>1, <3>3 DEF OpenFile, Interferes
      <2> QED
          BY <1>10, <2>1 DEF OpenFile, LoneInv
<1>11. ASSUME NEW t \in Tests, WriteFile(t) PROVE LoneInv'
      <2>1. ASSUME NEW v \in Tests, batch = {v}
            PROVE pc'[v] = "idle" /\ file' = mem /\ dropped \subseteq unsaved
            <3>1. /\ t = v /\ pc[v] = "write" /\ clean[v] /\ snap[v] = mem
                  /\ dropped \subseteq unsaved
                  BY <1>4, <1>11, <2>1 DEF WriteFile, LoneInv
            <3> QED
                BY <1>11, <3>1 DEF WriteFile, Returns, Mixes
      <2>2. UNCHANGED <<batch, dropped, unsaved, mem>>
            BY <1>11 DEF WriteFile
      <2> QED
          BY <2>1, <2>2 DEF LoneInv
<1>12. ASSUME NEW t \in Tests, OpenFails(t) \/ WriteFails(t) PROVE LoneInv'
      <2>1. ASSUME NEW v \in Tests, batch = {v}
            PROVE pc'[v] = "idle" /\ v \in unsaved' /\ dropped' \subseteq unsaved'
            <3>1. t = v /\ dropped \subseteq unsaved
                  BY <1>4, <1>12, <2>1 DEF OpenFails, Iterates, WriteFails, LoneInv
            <3>2. Returns(v) /\ unsaved' = unsaved \cup {v} /\ dropped' \subseteq dropped \cup {v}
                  BY <1>12, <3>1 DEF OpenFails, WriteFails
            <3> QED
                BY <3>1, <3>2 DEF Returns
      <2>2. UNCHANGED batch
            BY <1>12 DEF OpenFails, WriteFails
      <2> QED
          BY <2>1, <2>2 DEF LoneInv
<1>13. CASE UNCHANGED vars
      BY <1>13 DEF vars, LoneInv
<1> QED
    BY <1>1, <1>2, <1>3, <1>5, <1>6, <1>7, <1>8, <1>9, <1>10, <1>11, <1>12, <1>13 DEF Next

\* The inductive invariant holds in every reachable state.
LEMMA IInvHolds == Spec => []IInv
<1>1. IInv /\ [Next]_vars => IInv'
      BY NextTypeOK, NextBatchInv, NextLoneInv, NextKnownInv, NextNewest, NextBoundInv DEF IInv
<1> QED
    BY InitIInv, <1>1, PTL DEF Spec
------------------------------------------------------------------------------
\* The history, the file and the threads keep their types.
THEOREM TypeCorrect == Spec => []TypeOK
<1>1. IInv => TypeOK
      BY DEF IInv
<1> QED
    BY IInvHolds, <1>1, PTL

\* add_runtime keeps the newest runs of a process, whatever the other threads do.
THEOREM NewestRunsKeptHolds == Spec => []NewestRunsKept
<1>1. IInv => NewestRunsKept
      BY DEF IInv
<1> QED
    BY IInvHolds, <1>1, PTL

\* The lists of add_runtime stay bounded in memory and in the file.
THEOREM BoundedHistoryHolds == Spec => []BoundedHistory
<1>1. IInv => BoundedHistory
      BY DEF IInv, BoundInv, BoundedHistory
<1> QED
    BY IInvHolds, <1>1, PTL

\* save_runtime_history saves everything when its test ran alone, unless the save failed.
THEOREM LoneUpdateIsSavedHolds == Spec => []LoneUpdateIsSaved
<1>1. IInv => LoneUpdateIsSaved
      BY DEF IInv, LoneInv, LoneUpdateIsSaved
<1> QED
    BY IInvHolds, <1>1, PTL

\* Only a test without an entry in runtime_history makes the iteration of another thread
\* fail, and only a directory that is gone loses a result otherwise.
THEOREM DroppedOnlyByNewTestHolds == Spec => []DroppedOnlyByNewTest
<1>1. IInv => DroppedOnlyByNewTest
      BY DEF IInv, LoneInv, KnownInv, DroppedOnlyByNewTest
<1> QED
    BY IInvHolds, <1>1, PTL
==============================================================================
