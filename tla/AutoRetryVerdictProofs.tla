----------------------- MODULE AutoRetryVerdictProofs ------------------------
(***************************************************************************)
(* What the report says of the retries, for every suite, command line and  *)
(* bound: verdicts and attempts.                                           *)
(***************************************************************************)
EXTENDS AutoRetryProofs

\* The failed tests that have not passed a retry, and the attempts made on a test.
Left == runner.failed \ PassedInRun
Attempts(t) == allRuns[runner.run][t]

\* What the counters of the file say has been done has been done.
DiskCount ==
    ~Unreadable => /\ disk.pdone <= args.parallel
                   /\ \A t \in disk.failed \ passed[disk.run] :
                        allRuns[disk.run][t] >= disk.pdone + disk.sdone[t]

\* A process that retries: the parallel attempts still to come, and those of the file it
\* started from, make up all that were asked for ...
ParallelCount ==
    /\ phase = "initial" => runner.pdone = 0 /\ \A t \in Tests : runner.sdone[t] = 0
    /\ Knows => runner.pdone <= args.parallel
    /\ phase = "retry" => \A t \in Left : Attempts(t) >= runner.pdone + runner.sdone[t]
    /\ phase = "parallel" =>
         /\ limit <= args.parallel
         /\ \A t \in Left : Attempts(t) + limit + (IF t \in pending THEN 1 ELSE 0)
                              >= args.parallel + runner.sdone[t] + attempt

\* ... and so do the serial ones.
SerialCount ==
    /\ phase \in {"select", "serial", "saving", "report"} => \A t \in Left :
         /\ Attempts(t) >= args.parallel + runner.sdone[t]
         /\ t \in pending \/ (t = current /\ phase \in {"serial", "saving"})
              \/ Attempts(t) >= args.parallel + args.serial
    /\ phase \in {"serial", "saving"} =>
         /\ limit <= args.serial
         /\ current \in Left => Attempts(current) + limit + (IF phase = "serial" THEN 1 ELSE 0)
                                  >= args.parallel + args.serial + attempt
    /\ phase = "saving" => results[current] # <<>>
    /\ phase = "report" => pending = {}
    /\ phase = "reported" =>
         \A t \in Left : Attempts(t) >= args.parallel + args.serial

CountInv == DiskCount /\ ParallelCount /\ SerialCount

\* The counters are natural numbers.
LEMMA CountTypes ==
    ASSUME RetryInv
    PROVE  /\ args.parallel \in Nat /\ args.serial \in Nat
           /\ runner.pdone \in Nat /\ runner.failed \subseteq Tests
           /\ attempt \in Nat /\ limit \in Nat
           /\ \A t \in Tests : runner.sdone[t] \in Nat
           /\ Knows => runner.run \in FullRuns /\ \A t \in Tests : Attempts(t) \in Nat
           /\ ~Unreadable => /\ disk.run \in FullRuns /\ disk.pdone \in Nat
                             /\ disk.failed \subseteq Tests
                             /\ \A t \in Tests : disk.sdone[t] \in Nat
<1>1. TypeOK /\ RunInv
      BY DEF RetryInv
<1>2. args.parallel \in Nat /\ args.serial \in Nat
      BY <1>1, AutoRetryAssumption DEF TypeOK
<1>3. /\ runner.pdone \in Nat /\ runner.failed \subseteq Tests
      /\ \A t \in Tests : runner.sdone[t] \in Nat
      BY <1>1 DEF TypeOK, Runners
<1>4. Knows => runner.run \in FullRuns /\ \A t \in Tests : Attempts(t) \in Nat
      BY <1>1 DEF TypeOK, RunInv, Attempts
<1>5. ~Unreadable => disk \in Runners /\ disk.run \in FullRuns
      BY <1>1 DEF TypeOK, RunInv, Unreadable
<1> QED
    BY <1>1, <1>2, <1>3, <1>4, <1>5 DEF TypeOK, Runners

\* The history only grows, so a file that is left alone stays right.
LEMMA DiskCountKept ==
    ASSUME RetryInv, DiskCount, UNCHANGED <<args, disk>>,
           \A n \in FullRuns : passed[n] \subseteq passed'[n],
           \A n \in FullRuns : \A t \in Tests :
             allRuns[n][t] \in Nat /\ allRuns'[n][t] \in Nat /\ allRuns[n][t] <= allRuns'[n][t]
    PROVE  DiskCount'
<1> SUFFICES ASSUME ~Unreadable, NEW t \in disk.failed \ passed'[disk.run]
             PROVE  allRuns'[disk.run][t] >= disk.pdone + disk.sdone[t]
    BY DEF DiskCount, Unreadable
<1>1. /\ disk.run \in FullRuns /\ disk.failed \subseteq Tests /\ disk.pdone \in Nat
      /\ \A u \in Tests : disk.sdone[u] \in Nat
      BY CountTypes
<1>2. t \in disk.failed \ passed[disk.run] /\ t \in Tests
      BY <1>1
<1>3. allRuns[disk.run][t] >= disk.pdone + disk.sdone[t]
      BY <1>2 DEF DiskCount
<1>4. /\ allRuns[disk.run][t] \in Nat /\ allRuns'[disk.run][t] \in Nat
      /\ allRuns[disk.run][t] <= allRuns'[disk.run][t]
      BY <1>1, <1>2
<1> QED
    BY <1>1, <1>2, <1>3, <1>4

\* A step that leaves the history alone.
LEMMA DiskCountSame ==
    ASSUME RetryInv, DiskCount, UNCHANGED <<args, disk, passed, allRuns>>
    PROVE  DiskCount'
BY DEF DiskCount, Unreadable

\* A test that has run has had one more attempt, the others have not.
LEMMA RanCount ==
    ASSUME RetryInv, Knows, runner'.run = runner.run, NEW t \in Tests, Ran(t),
           NEW success \in BOOLEAN, Passes(t, success)
    PROVE  /\ \A u \in Tests : Attempts(u)' = IF u = t THEN Attempts(u) + 1 ELSE Attempts(u)
           /\ runner'.failed = runner.failed => Left' \subseteq Left
           /\ DiskCount /\ UNCHANGED <<args, disk>> => DiskCount'
<1>1. runner.run \in FullRuns /\ TypeOK
      BY DEF RetryInv, RunInv
<1>2. /\ \A n \in FullRuns : \A u \in Tests :
           allRuns'[n][u] = IF n = runner.run /\ u = t THEN allRuns[n][u] + 1 ELSE allRuns[n][u]
      /\ allRuns' \in [FullRuns -> [Tests -> Nat]]
      BY <1>1, RanType
<1>3. \A n \in FullRuns : passed[n] \subseteq passed'[n]
      BY <1>1, PassesType
<1>4. \A n \in FullRuns : \A u \in Tests :
        allRuns[n][u] \in Nat /\ allRuns'[n][u] \in Nat /\ allRuns[n][u] <= allRuns'[n][u]
      <2> SUFFICES ASSUME NEW n \in FullRuns, NEW u \in Tests
                   PROVE  /\ allRuns[n][u] \in Nat /\ allRuns'[n][u] \in Nat
                          /\ allRuns[n][u] <= allRuns'[n][u]
          OBVIOUS
      <2>1. allRuns \in [FullRuns -> [Tests -> Nat]]
            BY <1>1 DEF TypeOK
      <2>2. allRuns[n][u] \in Nat /\ allRuns'[n][u] \in Nat
            BY <1>2, <2>1
      <2>3. allRuns'[n][u] = allRuns[n][u] \/ allRuns'[n][u] = allRuns[n][u] + 1
            BY <1>2
      <2> QED
          BY <2>2, <2>3
<1>5. \A u \in Tests : Attempts(u)' = IF u = t THEN Attempts(u) + 1 ELSE Attempts(u)
      BY <1>1, <1>2 DEF Attempts
<1>6. runner'.failed = runner.failed => Left' \subseteq Left
      BY <1>1, <1>3 DEF Left, PassedInRun
<1> QED
    BY <1>3, <1>4, <1>5, <1>6, DiskCountKept

\* A test that has not passed is retried.
LEMMA LeftIsRetried == ASSUME RetryInv, Knows, phase # "reported" PROVE Left \subseteq TestsToRetry
<1> SUFFICES ASSUME NEW t \in Left PROVE t \in TestsToRetry
    OBVIOUS
<1>1. t \in runner.failed /\ t \in Tests /\ ~HasPassed(t)
      BY CountTypes DEF RetryInv, PassInv, Left
<1>2. runner.summaries[t] = None
      BY <1>1 DEF RetryInv, SummaryInv, NoSummaries
<1> QED
    BY <1>1, <1>2 DEF TestsToRetry, AlreadyPassed

LEMMA InitCountInv == Init => CountInv
BY DEF Init, NewRunner, CountInv, DiskCount, ParallelCount, SerialCount, Knows, Unreadable

\* A parallel attempt on a test ends, with or without a result.
LEMMA CompletedCount ==
    ASSUME RetryInv, CountInv, phase = "parallel", phase' = "parallel",
           NEW t \in pending, Completed(t), NEW success \in BOOLEAN, Passes(t, success),
           UNCHANGED <<args, attempt, limit, disk>>
    PROVE  CountInv'
<1>1. /\ Knows /\ t \in Tests /\ runner.run \in FullRuns /\ TypeOK
      BY CountTypes DEF Knows, RetryInv, TypeOK
<1>2. /\ runner'.failed = runner.failed /\ runner'.run = runner.run
      BY <1>1, CompletedType
<1>3. /\ runner'.sdone = runner.sdone
      /\ runner'.pdone = runner.pdone \/ runner'.pdone = attempt
      BY <1>1 DEF Completed, TypeOK, Runners
<1>4. /\ \A u \in Tests : Attempts(u)' = IF u = t THEN Attempts(u) + 1 ELSE Attempts(u)
      /\ Left' \subseteq Left
      /\ DiskCount'
      BY <1>1, <1>2, RanCount DEF Completed, CountInv
<1>5. limit <= args.parallel /\ runner'.pdone <= args.parallel
      BY <1>1, <1>3, CountTypes DEF CountInv, ParallelCount, TypeOK
<1>6. ASSUME NEW u \in Left'
      PROVE  Attempts(u)' + limit + (IF u \in pending' THEN 1 ELSE 0)
               >= args.parallel + runner'.sdone[u] + attempt
      <2>1. u \in Left /\ u \in Tests /\ Attempts(u) \in Nat /\ runner.sdone[u] \in Nat
            BY <1>1, <1>4, CountTypes DEF Left
      <2>2. Attempts(u) + limit + (IF u \in pending THEN 1 ELSE 0)
               >= args.parallel + runner.sdone[u] + attempt
            BY <2>1 DEF CountInv, ParallelCount
      <2>3. pending' = pending \ {t}
            BY DEF Completed
      <2>4. CASE u = t
            BY <1>3, <1>4, <2>1, <2>2, <2>3, <2>4, CountTypes
      <2>5. CASE u # t
            BY <1>3, <1>4, <2>1, <2>2, <2>3, <2>5, CountTypes
      <2> QED
          BY <2>4, <2>5
<1> QED
    BY <1>4, <1>5, <1>6 DEF CountInv, ParallelCount, SerialCount

\* Every step keeps the counters right.
LEMMA NextCountInv == RetryInv /\ CountInv /\ [Next]_vars => CountInv'
<1> SUFFICES ASSUME RetryInv, CountInv, [Next]_vars PROVE CountInv'
    OBVIOUS
<1>0. TypeOK /\ DiskCount /\ ParallelCount /\ SerialCount
      BY DEF RetryInv, CountInv
<1> USE <1>0 DEF process, history
<1>1. CASE InitialEnds
      BY <1>1, DiskCountSame
         DEF InitialEnds, CountInv, ParallelCount, SerialCount, Knows
<1>2. ASSUME NEW F \in SUBSET Tests, InitialFails(F) PROVE CountInv'
      <2>1. /\ runner'.failed = F /\ runner'.run = runner.run /\ runner'.pdone = 0
            /\ \A t \in Tests : runner'.sdone[t] = 0
            BY <1>2 DEF InitialFails, TypeOK, Runners, ParallelCount
      <2>2. \A t \in F : Attempts(t)' \in Nat
            BY <1>2, <2>1 DEF InitialFails, RetryInv, RunInv, TypeOK, Attempts
      <2>3. DiskCount'
            BY <1>2, DiskCountSame DEF InitialFails
      <2> QED
          BY <1>2, <2>1, <2>2, <2>3, CountTypes
             DEF InitialFails, CountInv, ParallelCount, SerialCount, Left
<1>3. CASE ParallelBegin
      <2>1. DiskCount' /\ Knows
            BY <1>3, DiskCountSame DEF ParallelBegin, Knows
      <2>2. UNCHANGED <<Left, runner>> /\ \A t \in Tests : Attempts(t)' = Attempts(t)
            BY <1>3 DEF ParallelBegin, Left, PassedInRun, Attempts
      <2>3. limit' \in Nat /\ limit' <= args.parallel /\ limit' + runner.pdone >= args.parallel
            BY <1>3, CountTypes DEF ParallelBegin
      <2>4. ASSUME NEW t \in Left
            PROVE  Attempts(t) + limit' + (IF t \in pending' THEN 1 ELSE 0)
                     >= args.parallel + runner.sdone[t] + 0
            <3>1. t \in Tests /\ Attempts(t) >= runner.pdone + runner.sdone[t]
                  BY <1>3, CountTypes DEF ParallelBegin, ParallelCount, Left
            <3> QED
                BY <2>1, <2>3, <3>1, CountTypes
      <2>5. \A t \in Left' : t \in Left /\ t \in Tests
            BY <2>2, CountTypes DEF Left
      <2>6. ParallelCount'
            BY <1>3, <2>1, <2>2, <2>3, <2>4, <2>5 DEF ParallelBegin, ParallelCount
      <2> QED
          BY <1>3, <2>1, <2>6 DEF ParallelBegin, CountInv, SerialCount
<1>4. CASE ParallelAttempt
      <2>1. DiskCount' /\ Knows
            BY <1>4, DiskCountSame DEF ParallelAttempt, Knows
      <2>2. /\ UNCHANGED <<Left, runner, limit, args>> /\ attempt' = attempt + 1
            /\ \A t \in Tests : Attempts(t)' = Attempts(t)
            BY <1>4 DEF ParallelAttempt, Left, PassedInRun, Attempts
      <2>3. ASSUME NEW t \in Left'
            PROVE  (Attempts(t) + limit + (IF t \in pending THEN 1 ELSE 0)
                     >= args.parallel + runner.sdone[t] + attempt)'
            <3>1. t \in Left /\ t \in Tests /\ t \in pending' /\ t \notin pending
                  BY <1>4, <2>1, <2>2, LeftIsRetried, CountTypes DEF ParallelAttempt, Left
            <3>2. Attempts(t) + limit >= args.parallel + runner.sdone[t] + attempt
                  <4>1. Attempts(t) + limit + 0 >= args.parallel + runner.sdone[t] + attempt
                        BY <1>4, <3>1 DEF ParallelAttempt, ParallelCount
                  <4> QED
                      BY <2>1, <3>1, <4>1, CountTypes
            <3> QED
                BY <2>1, <2>2, <3>1, <3>2, CountTypes
      <2>4. ParallelCount'
            BY <1>4, <2>1, <2>2, <2>3 DEF ParallelAttempt, ParallelCount
      <2> QED
          BY <1>4, <2>1, <2>4 DEF ParallelAttempt, CountInv, SerialCount
<1>5. ASSUME NEW t \in Tests, NEW r \in Results, ParallelResult(t, r) PROVE CountInv'
      BY <1>5, CompletedCount DEF ParallelResult, Results
<1>6. ASSUME NEW t \in Tests, ParallelError(t) PROVE CountInv'
      BY <1>6, CompletedCount DEF ParallelError
<1>7. CASE SerialBegin
      <2>1. DiskCount' /\ Knows
            BY <1>7, DiskCountSame DEF SerialBegin, Knows
      <2>2. UNCHANGED <<Left, runner, args>> /\ \A t \in Tests : Attempts(t)' = Attempts(t)
            BY <1>7 DEF SerialBegin, Left, PassedInRun, Attempts
      <2>3. ASSUME NEW t \in Left
            PROVE  /\ t \in Tests /\ Attempts(t) >= args.parallel + runner.sdone[t]
                   /\ t \in pending' \/ Attempts(t) >= args.parallel + args.serial
            <3>1. t \in Tests /\ t \in TestsToRetry
                  BY <1>7, <2>1, LeftIsRetried, CountTypes DEF SerialBegin, Left
            <3>2. attempt = limit /\ t \notin pending
                  BY <1>7, <3>1 DEF SerialBegin
            <3>3. Attempts(t) + limit + 0 >= args.parallel + runner.sdone[t] + attempt
                  BY <1>7, <3>2 DEF SerialBegin, ParallelCount
            <3>4. Attempts(t) >= args.parallel + runner.sdone[t]
                  BY <2>1, <3>1, <3>2, <3>3, CountTypes
            <3>5. args.serial > 0 \/ Attempts(t) >= args.parallel + args.serial
                  BY <2>1, <3>1, <3>4, CountTypes
            <3> QED
                BY <1>7, <3>1, <3>4, <3>5 DEF SerialBegin
      <2>4. SerialCount'
            BY <1>7, <2>2, <2>3 DEF SerialBegin, SerialCount
      <2> QED
          BY <1>7, <2>1, <2>2, <2>4 DEF SerialBegin, CountInv, ParallelCount, Knows
<1>8. ASSUME NEW t \in Tests, SerialSelect(t) PROVE CountInv'
      <2>1. DiskCount' /\ Knows
            BY <1>8, DiskCountSame DEF SerialSelect, Knows
      <2>2. UNCHANGED <<Left, runner, args>> /\ \A u \in Tests : Attempts(u)' = Attempts(u)
            BY <1>8 DEF SerialSelect, Left, PassedInRun, Attempts
      <2>3. \A u \in Left : /\ u \in Tests /\ Attempts(u) >= args.parallel + runner.sdone[u]
                            /\ u \in pending \/ Attempts(u) >= args.parallel + args.serial
            BY <1>8, CountTypes DEF SerialSelect, SerialCount, Left
      <2>4. CASE Remaining(t) > 0
            <3>1. /\ phase' = "serial" /\ current' = t /\ attempt' = 1 /\ limit' = Remaining(t)
                  /\ pending' = pending \ {t}
                  BY <1>8, <2>4 DEF SerialSelect
            <3>2. Remaining(t) <= args.serial /\ Remaining(t) + runner.sdone[t] = args.serial
                  BY <2>4, CountTypes DEF Remaining
            <3>3. t \in Left => Attempts(t) + Remaining(t) + 1 >= args.parallel + args.serial + 1
                  BY <2>1, <2>3, <3>2, CountTypes DEF Remaining
            <3>4. SerialCount'
                  BY <2>2, <2>3, <3>1, <3>2, <3>3 DEF SerialCount
            <3> QED
                BY <2>1, <2>2, <3>1, <3>4 DEF CountInv, ParallelCount, Knows
      <2>5. CASE ~(Remaining(t) > 0)
            <3>1. phase = "select" /\ phase' = "select" /\ pending' = pending \ {t}
                  BY <1>8, <2>5 DEF SerialSelect
            <3>2. runner.sdone[t] >= args.serial
                  BY <2>5, CountTypes DEF Remaining
            <3>3. t \in Left => Attempts(t) >= args.parallel + args.serial
                  BY <2>1, <2>3, <3>2, CountTypes
            <3>4. SerialCount'
                  BY <2>2, <2>3, <3>1, <3>3 DEF SerialCount
            <3> QED
                BY <2>1, <2>2, <3>1, <3>4 DEF CountInv, ParallelCount, Knows
      <2> QED
          BY <2>4, <2>5
<1>9. ASSUME NEW r \in Results, SerialResult(r) PROVE CountInv'
      <2>1. Knows /\ current \in Tests /\ r.success \in BOOLEAN
            BY <1>9 DEF SerialResult, Knows, Results, RetryInv, CurrentInv
      <2>2. /\ \A u \in Tests : Attempts(u)' = IF u = current THEN Attempts(u) + 1 ELSE Attempts(u)
            /\ Left' \subseteq Left
            BY <1>9, <2>1, RanCount DEF SerialResult
      <2>3. DiskCount'
            <3>1. CASE disk' = Corrupt
                  BY <3>1 DEF DiskCount, Unreadable
            <3>2. CASE disk' = disk
                  BY <1>9, <2>1, <3>2, RanCount DEF SerialResult, CountInv
            <3> QED
                BY <1>9, <3>1, <3>2 DEF SerialResult, SaveBegins
      <2>4. \A u \in Left' : /\ u \in Left /\ u \in Tests /\ Attempts(u) \in Nat
                             /\ Attempts(u)' \in Nat /\ Attempts(u)' >= Attempts(u)
            BY <2>1, <2>2, CountTypes DEF Left
      <2>5. \A u \in Left' :
              /\ Attempts(u)' >= args.parallel + runner.sdone[u]
              /\ u \in pending \/ u = current \/ Attempts(u)' >= args.parallel + args.serial
            <3> SUFFICES ASSUME NEW u \in Left'
                         PROVE  /\ Attempts(u)' >= args.parallel + runner.sdone[u]
                                /\ \/ u \in pending \/ u = current
                                   \/ Attempts(u)' >= args.parallel + args.serial
                OBVIOUS
            <3>1. /\ Attempts(u) >= args.parallel + runner.sdone[u]
                  /\ u \in pending \/ u = current \/ Attempts(u) >= args.parallel + args.serial
                  BY <1>9, <2>4 DEF SerialResult, SerialCount
            <3> QED
                BY <2>4, <3>1, CountTypes
      <2>6. /\ limit <= args.serial
            /\ current \in Left' => Attempts(current)' + limit + 0 >= args.parallel + args.serial + attempt
            <3>1. current \in Left => Attempts(current) + limit + 1 >= args.parallel + args.serial + attempt
                  BY <1>9 DEF SerialResult, SerialCount
            <3>2. Attempts(current) \in Nat /\ Attempts(current)' = Attempts(current) + 1
                  BY <1>9, <2>1, <2>2, CountTypes DEF SerialResult
            <3> QED
                BY <1>9, <2>2, <3>1, <3>2, CountTypes DEF SerialResult, SerialCount
      <2>7. results'[current] # <<>>
            <3>1. results[current] \in Seq(Results) /\ results'[current] = Append(results[current], r)
                  BY <1>9, <2>1 DEF SerialResult, TypeOK
            <3> QED
                BY <3>1
      <2>8. SerialCount'
            BY <1>9, <2>5, <2>6, <2>7 DEF SerialResult, SerialCount
      <2> QED
          BY <1>9, <2>1, <2>3, <2>8 DEF SerialResult, CountInv, ParallelCount
<1>10. ASSUME NEW ok \in BOOLEAN, SerialSaved(ok) PROVE CountInv'
      <2>1. Knows /\ Knows' /\ current \in Tests /\ phase = "saving"
            BY <1>10 DEF SerialSaved, Knows, RetryInv, CurrentInv
      <2>2. /\ runner'.failed = runner.failed /\ runner'.run = runner.run
            /\ runner'.pdone = runner.pdone
            /\ \A u \in Tests : runner'.sdone[u] = IF u = current THEN attempt ELSE runner.sdone[u]
            BY <1>10, <2>1 DEF SerialSaved, TypeOK, Runners
      <2>3. /\ UNCHANGED <<Left, args, passed, allRuns, pending>>
            /\ \A u \in Tests : Attempts(u)' = Attempts(u)
            BY <1>10, <2>2 DEF SerialSaved, Left, PassedInRun, Attempts
      <2>4. \A u \in Left : /\ u \in Tests /\ Attempts(u) \in Nat
                            /\ Attempts(u) >= args.parallel + runner.sdone[u]
                            /\ \/ u \in pending \/ u = current
                               \/ Attempts(u) >= args.parallel + args.serial
            BY <2>1, CountTypes DEF SerialCount, Left
      <2>5. /\ limit <= args.serial
            /\ current \in Left => Attempts(current) + limit + 0 >= args.parallel + args.serial + attempt
            BY <2>1 DEF SerialCount
      <2>6. DiskCount'
            <3>1. ASSUME NEW u \in Left PROVE Attempts(u) >= runner.pdone + runner.sdone[u]
                  <4>1. runner.pdone <= args.parallel
                        BY <2>1 DEF ParallelCount
                  <4> QED
                      BY <2>4, <4>1, CountTypes
            <3>2. disk' = runner => DiskCount'
                  BY <2>1, <2>3, <3>1 DEF DiskCount, ParallelCount, Left, PassedInRun, Attempts
            <3>3. disk' = disk => DiskCount'
                  BY <2>3, DiskCountSame
            <3> QED
                BY <1>10, <3>2, <3>3 DEF SerialSaved, SaveEnds, StateData
      <2>7. \A u \in Left : Attempts(u) >= args.parallel + runner'.sdone[u]
            <3>1. current \in Left => Attempts(current) >= args.parallel + attempt
                  BY <2>1, <2>4, <2>5, CountTypes
            <3> QED
                BY <2>2, <2>4, <3>1
      <2>8. ParallelCount'
            BY <1>10, <2>1, <2>2, <2>3 DEF SerialSaved, ParallelCount
      <2>9. CASE results[current][Len(results[current])].success \/ attempt = limit
            <3>1. phase' = "select"
                  BY <1>10, <2>9 DEF SerialSaved
            <3>2. current \in Left => Attempts(current) >= args.parallel + args.serial
                  <4>1. current \in Left => attempt = limit
                        <5>1. results[current] \in Seq(Results)
                              BY <2>1 DEF TypeOK
                        <5>2. Len(results[current]) \in 1..Len(results[current])
                              BY <2>1, <5>1 DEF SerialCount
                        <5> QED
                            BY <2>1, <2>9, <5>2 DEF RetryInv, PassInv, HasPassed, Left
                  <4> QED
                      BY <2>4, <2>5, <4>1, CountTypes
            <3>3. SerialCount'
                  BY <2>3, <2>4, <2>7, <3>1, <3>2 DEF SerialCount
            <3> QED
                BY <2>6, <2>8, <3>3 DEF CountInv
      <2>10. CASE ~(results[current][Len(results[current])].success \/ attempt = limit)
            <3>1. /\ phase' = "serial" /\ current' = current /\ limit' = limit
                  /\ attempt' = attempt + 1
                  BY <1>10, <2>10 DEF SerialSaved
            <3>2. current \in Left => Attempts(current) + limit + 1 >= args.parallel + args.serial + (attempt + 1)
                  BY <2>4, <2>5, CountTypes
            <3>3. SerialCount'
                  BY <2>1, <2>3, <2>4, <2>5, <2>7, <3>1, <3>2 DEF SerialCount
            <3> QED
                BY <2>6, <2>8, <3>3 DEF CountInv
      <2> QED
          BY <2>9, <2>10
<1>11. CASE SerialDone
      <2>1. DiskCount' /\ UNCHANGED Left /\ \A u \in Tests : Attempts(u)' = Attempts(u)
            BY <1>11, DiskCountSame DEF SerialDone, Left, PassedInRun, Attempts
      <2>2. \A u \in Left : u \in Tests
            BY CountTypes DEF Left
      <2> QED
          BY <1>11, <2>1, <2>2 DEF SerialDone, CountInv, ParallelCount, SerialCount, Knows
<1>12. CASE Report
      <2>1. /\ runner'.failed = runner.failed /\ runner'.run = runner.run
            /\ runner'.pdone = runner.pdone
            BY <1>12 DEF Report, TypeOK, Runners
      <2>2. DiskCount' /\ UNCHANGED Left /\ \A u \in Tests : Attempts(u)' = Attempts(u)
            BY <1>12, <2>1, DiskCountSame DEF Report, Left, PassedInRun, Attempts
      <2>3. \A u \in Left : u \in Tests
            BY CountTypes DEF Left
      <2>4. pending = {}
            BY <1>12 DEF Report, SerialCount
      <2> QED
          BY <1>12, <2>1, <2>2, <2>3, <2>4 DEF Report, CountInv, ParallelCount, SerialCount, Knows
<1>13. CASE Crash
      BY <1>13, DiskCountSame DEF Crash, CountInv, ParallelCount, SerialCount, Knows
<1>14. CASE Resume
      <2>1. DiskCount' /\ UNCHANGED <<args, disk, passed, allRuns>>
            BY <1>14, DiskCountSame DEF Resume
      <2>2. phase' = "rejected" \/ (phase' = "retry" /\ runner' = disk /\ ~Unreadable)
            BY <1>14 DEF Resume
      <2> QED
          BY <2>1, <2>2 DEF CountInv, DiskCount, ParallelCount, SerialCount, Knows, Left,
                            PassedInRun, Attempts
<1>15. CASE Rerun
      <2>1. DiskCount' /\ UNCHANGED <<args, disk, passed, allRuns>>
            BY <1>15, DiskCountSame DEF Rerun
      <2>2. \/ phase' = "early"
            \/ /\ phase' = "retry" /\ ~Unreadable
               /\ runner'.failed = disk.failed /\ runner'.run = disk.run
               /\ runner'.pdone = 0 /\ \A t \in Tests : runner'.sdone[t] = 0
            BY <1>15 DEF Rerun, NewRunner
      <2>3. phase' = "retry" => \A t \in Left' : t \in Tests /\ Attempts(t)' \in Nat
            BY <2>1, <2>2, CountTypes DEF Left, Attempts, TypeOK
      <2> QED
          BY <2>1, <2>2, <2>3, CountTypes DEF CountInv, ParallelCount, SerialCount, Knows, Left
<1>16. CASE FullRun
      <2>1. DiskCount'
            BY <1>16, DiskCountSame DEF FullRun
      <2>2. phase' = "initial" /\ runner'.pdone = 0 /\ \A t \in Tests : runner'.sdone[t] = 0
            BY <1>16 DEF FullRun, NewRunner
      <2> QED
          BY <2>1, <2>2 DEF CountInv, ParallelCount, SerialCount, Knows
<1>17. CASE UNCHANGED vars
      <2>1. UNCHANGED <<Left, runner, args, phase, results, attempt, limit, pending, current>>
            BY <1>17 DEF vars, Left, PassedInRun
      <2>2. \A t : Attempts(t)' = Attempts(t)
            BY <1>17 DEF vars, Attempts
      <2>3. DiskCount'
            BY <1>17, DiskCountSame DEF vars
      <2> QED
          BY <2>1, <2>2, <2>3 DEF CountInv, ParallelCount, SerialCount, Knows
<1> QED
    BY <1>1, <1>2, <1>3, <1>4, <1>5, <1>6, <1>7, <1>8, <1>9, <1>10, <1>11, <1>12,
       <1>13, <1>14, <1>15, <1>16, <1>17 DEF Next, Run

LEMMA CountInvHolds == Spec => []CountInv
BY InitCountInv, NextCountInv, RetryInvHolds, PTL DEF Spec

------------------------------------------------------------------------------
\* There are no verdicts but in a report, which has one for each failed test.
Verdict(t) == [status |-> FinalStatus(t), namespace |-> FinalNamespace(t)]

VerdictInv == phase = "reported" =>
    \A t \in Tests : runner.summaries[t] = IF t \in runner.failed THEN Verdict(t) ELSE None

LEMMA NextVerdictInv == RetryInv /\ VerdictInv /\ [Next]_vars => VerdictInv'
<1> SUFFICES ASSUME RetryInv, VerdictInv, [Next]_vars, phase' = "reported" PROVE VerdictInv'
    BY DEF VerdictInv
<1>1. CASE Report
      <2>1. /\ runner.summaries = NoSummaries /\ runner \in Runners
            BY <1>1 DEF Report, RetryInv, SummaryInv, TypeOK
      <2>2. \A t \in Tests :
              runner'.summaries[t] = IF t \in runner.failed THEN Verdict(t) ELSE None
            BY <1>1, <2>1 DEF Report, NoSummaries, Runners, Verdict
      <2>3. runner'.failed = runner.failed /\ \A t \in Tests : Verdict(t)' = Verdict(t)
            BY <1>1, <2>1 DEF Report, Runners, Verdict, FinalStatus, FinalNamespace, HasPassed
      <2> QED
          BY <2>2, <2>3 DEF VerdictInv
<1>2. CASE UNCHANGED vars
      <2>1. /\ phase = "reported" /\ UNCHANGED runner
            /\ \A t \in Tests : Verdict(t)' = Verdict(t)
            BY <1>2 DEF vars, process, Verdict, FinalStatus, FinalNamespace, HasPassed
      <2> QED
          BY <2>1 DEF VerdictInv
<1> QED
    BY <1>1, <1>2
       DEF Next, Run, InitialEnds, InitialFails, ParallelBegin, ParallelAttempt, ParallelResult,
           ParallelError, SerialBegin, SerialSelect, SerialResult, SerialSaved, SerialDone,
           Crash, Resume, Rerun, FullRun

LEMMA VerdictInvHolds == Spec => []VerdictInv
<1>1. Init => VerdictInv
      BY DEF Init, VerdictInv
<1> QED
    BY <1>1, NextVerdictInv, RetryInvHolds, PTL DEF Spec

\* What a verdict says.
LEMMA ReportedIff ==
    ASSUME RetryInv, VerdictInv, NEW t \in Tests, NEW status
    PROVE  Reported(t, status) <=>
             phase = "reported" /\ t \in runner.failed /\ FinalStatus(t) = status
<1>1. CASE phase # "reported"
      BY <1>1 DEF RetryInv, SummaryInv, NoSummaries, Reported
<1>2. CASE phase = "reported"
      <2>1. Verdict(t) \in Summaries /\ Verdict(t).status = FinalStatus(t)
            BY DEF Verdict, FinalStatus, FinalNamespace, Summaries
      <2>2. Verdict(t) # None
            BY <2>1, AutoRetryAssumption
      <2> QED
          BY <1>2, <2>1, <2>2 DEF VerdictInv, Reported
<1> QED
    BY <1>1, <1>2

\* A test that is reported failed and never passed has had all its retries, whatever was
\* lost, resumed or rerun, and whichever state file an earlier run has left.
THEOREM FailedWasFullyRetriedHolds == Spec => []FailedWasFullyRetried
<1>1. RetryInv /\ CountInv /\ VerdictInv => FailedWasFullyRetried
      BY ReportedIff DEF FailedWasFullyRetried, CountInv, SerialCount, Left, Attempts
<1> QED
    BY <1>1, RetryInvHolds, CountInvHolds, VerdictInvHolds, PTL
------------------------------------------------------------------------------
\* When nothing is lost, what has passed is in the results, and is not retried.
RecordInv ==
    Undisturbed /\ Knows =>
      /\ \A t \in PassedInRun : HasPassed(t)
      /\ phase \in {"retry", "parallel", "select", "serial", "saving"} =>
           pending \cap PassedInRun = {}
      /\ phase = "serial" => current \notin PassedInRun
      /\ phase \in {"serial", "saving"} => current \notin pending
      /\ phase = "saving" /\ current \in PassedInRun =>
           results[current][Len(results[current])].success

\* Disturbances are not forgotten.
LEMMA UndisturbedBefore ==
    ASSUME RetryInv, [Next]_vars, Undisturbed'
    PROVE  Undisturbed /\ ~Resume /\ ~Rerun /\ \A t \in Tests : ~ParallelError(t)
<1>0. used \in [Disturbances -> Nat] /\ {"resume", "rerun", "error"} \subseteq Disturbances
      BY DEF RetryInv, TypeOK, Disturbances
<1>1. ASSUME NEW d \in Disturbances, Disturb(d)
      PROVE  Undisturbed /\ d \notin {"resume", "rerun", "error"}
      BY <1>0, <1>1 DEF Disturb, Undisturbed
<1>2. ~Resume /\ ~Rerun /\ \A t \in Tests : ~ParallelError(t)
      BY <1>1 DEF Resume, Rerun, ParallelError, Disturbances
<1>3. used' = used \/ \E d \in Disturbances : Disturb(d)
      BY DEF Next, Run, vars, InitialEnds, InitialFails, ParallelBegin, ParallelAttempt,
             ParallelResult, ParallelError, TestRun, SerialBegin, SerialSelect, SerialResult,
             SerialSaved, SaveEnds, SerialDone, Report, Crash, Resume, Rerun, FullRun,
             Disturbances
<1>4. Undisturbed
      BY <1>1, <1>3 DEF Undisturbed
<1> QED
    BY <1>2, <1>4

\* A test that has passed its run is the one that ran, with its result recorded.
LEMMA RecordedPass ==
    ASSUME RetryInv, Knows, runner'.run = runner.run, NEW c \in Tests, NEW r \in Results,
           results' = [results EXCEPT ![c] = Append(@, r)], Passes(c, r.success),
           \A t \in PassedInRun : HasPassed(t)
    PROVE  /\ \A t \in PassedInRun' : HasPassed(t)'
           /\ PassedInRun' \subseteq PassedInRun \cup {c}
           /\ PassedInRun' = PassedInRun \/ results'[c][Len(results'[c])].success
<1>1. r.success \in BOOLEAN /\ runner.run \in FullRuns /\ TypeOK
      BY DEF Results, RetryInv, RunInv
<1>2. PassedInRun' = IF r.success THEN PassedInRun \cup {c} ELSE PassedInRun
      BY <1>1, PassesType DEF PassedInRun
<1>3. PassedInRun \subseteq Tests
      BY <1>1 DEF PassedInRun, TypeOK
<1>4. \A t \in Tests : HasPassed(t) => HasPassed(t)'
      <2> SUFFICES ASSUME NEW t \in Tests, NEW i \in 1..Len(results[t]), results[t][i].success
                   PROVE  HasPassed(t)'
          BY DEF HasPassed
      <2>1. results[t] \in Seq(Results)
            BY <1>1 DEF TypeOK
      <2>2. results'[t] = IF t = c THEN Append(results[t], r) ELSE results[t]
            BY <1>1 DEF TypeOK
      <2>3. i \in 1..Len(results'[t]) /\ results'[t][i] = results[t][i]
            BY <2>1, <2>2
      <2> QED
          BY <2>3 DEF HasPassed
<1>5. r.success => HasPassed(c)'
      <2>1. results[c] \in Seq(Results) /\ results'[c] = Append(results[c], r)
            BY <1>1 DEF TypeOK
      <2>2. Len(results'[c]) \in 1..Len(results'[c]) /\ results'[c][Len(results'[c])] = r
            BY <2>1
      <2> QED
          BY <2>2 DEF HasPassed
<1>6. results'[c][Len(results'[c])] = r
      <2>1. results[c] \in Seq(Results) /\ results'[c] = Append(results[c], r)
            BY <1>1 DEF TypeOK
      <2> QED
          BY <2>1
<1> QED
    BY <1>2, <1>3, <1>4, <1>5, <1>6

LEMMA NextRecordInv == RetryInv /\ RecordInv /\ [Next]_vars => RecordInv'
<1> SUFFICES ASSUME RetryInv, RecordInv, [Next]_vars, Undisturbed', Knows' PROVE RecordInv'
    BY DEF RecordInv
<1>0. Undisturbed /\ ~Resume /\ ~Rerun /\ \A t \in Tests : ~ParallelError(t)
      BY UndisturbedBefore
<1> USE DEF process, history
<1>1. ASSUME NEW F \in SUBSET Tests, InitialFails(F) PROVE RecordInv'
      <2>1. PassedInRun' = {} /\ phase' = "retry"
            BY <1>1 DEF InitialFails, RetryInv, RunInv, TypeOK, Runners, PassedInRun
      <2> QED
          BY <2>1 DEF RecordInv
<1>2. ASSUME Knows, UNCHANGED <<runner, results, passed>>
      PROVE  UNCHANGED PassedInRun /\ \A t \in PassedInRun' : HasPassed(t)'
      BY <1>0, <1>2 DEF RecordInv, PassedInRun, HasPassed
<1>3. CASE ParallelBegin \/ SerialDone \/ UNCHANGED vars
      <2>1. Knows /\ UNCHANGED <<runner, results, passed, pending, current>>
            BY <1>3 DEF ParallelBegin, SerialDone, Knows, vars
      <2>2. (phase' = "parallel" /\ phase = "retry") \/ phase' = "report" \/ phase' = phase
            BY <1>3 DEF ParallelBegin, SerialDone, vars
      <2> QED
          BY <1>0, <1>2, <2>1, <2>2 DEF RecordInv
<1>4. CASE ParallelAttempt \/ SerialBegin
      <2>1. Knows /\ UNCHANGED <<runner, results, passed>> /\ phase' \in {"parallel", "select"}
            BY <1>4 DEF ParallelAttempt, SerialBegin, Knows
      <2>2. pending' \subseteq TestsToRetry
            BY <1>4 DEF ParallelAttempt, SerialBegin
      <2>3. TestsToRetry \cap PassedInRun = {}
            BY <1>0, <2>1 DEF RecordInv, TestsToRetry
      <2> QED
          BY <1>2, <2>1, <2>2, <2>3 DEF RecordInv
<1>5. ASSUME NEW t \in Tests, NEW r \in Results, ParallelResult(t, r) PROVE RecordInv'
      <2>1. /\ Knows /\ runner.run \in FullRuns /\ TypeOK /\ phase = "parallel"
            /\ phase' = "parallel"
            BY <1>5 DEF ParallelResult, Knows, RetryInv, RunInv
      <2>2. runner'.run = runner.run
            BY <1>5, <2>1, CompletedType DEF ParallelResult
      <2>3. /\ \A u \in PassedInRun' : HasPassed(u)'
            /\ PassedInRun' \subseteq PassedInRun \cup {t}
            BY <1>0, <1>5, <2>1, <2>2, RecordedPass DEF ParallelResult, RecordInv
      <2>4. pending' = pending \ {t}
            BY <1>5 DEF ParallelResult, Completed
      <2> QED
          BY <1>0, <2>1, <2>3, <2>4 DEF RecordInv
<1>6. ASSUME NEW t \in Tests, SerialSelect(t) PROVE RecordInv'
      <2>1. /\ Knows /\ UNCHANGED <<runner, results, passed>> /\ phase = "select"
            /\ t \in pending /\ pending' = pending \ {t}
            /\ phase' = "select" \/ (phase' = "serial" /\ current' = t)
            BY <1>6 DEF SerialSelect, Knows
      <2>2. pending \cap PassedInRun = {}
            BY <1>0, <2>1 DEF RecordInv
      <2> QED
          BY <1>2, <2>1, <2>2 DEF RecordInv
<1>7. ASSUME NEW r \in Results, SerialResult(r) PROVE RecordInv'
      <2>1. /\ Knows /\ current \in Tests /\ phase = "serial" /\ phase' = "saving"
            /\ UNCHANGED <<runner, pending, current>>
            BY <1>7 DEF SerialResult, Knows, RetryInv, CurrentInv
      <2>2. /\ \A u \in PassedInRun' : HasPassed(u)'
            /\ PassedInRun' \subseteq PassedInRun \cup {current}
            /\ PassedInRun' = PassedInRun \/ results'[current][Len(results'[current])].success
            BY <1>0, <1>7, <2>1, RecordedPass DEF SerialResult, RecordInv
      <2> QED
          BY <1>0, <2>1, <2>2 DEF RecordInv
<1>8. ASSUME NEW ok \in BOOLEAN, SerialSaved(ok) PROVE RecordInv'
      <2>1. /\ Knows /\ current \in Tests /\ phase = "saving"
            /\ UNCHANGED <<results, pending, passed>>
            BY <1>8 DEF SerialSaved, Knows, RetryInv, CurrentInv
      <2>2. runner'.run = runner.run
            BY <1>8 DEF SerialSaved, RetryInv, TypeOK, Runners
      <2>3. UNCHANGED PassedInRun /\ \A t \in PassedInRun' : HasPassed(t)'
            BY <1>0, <2>1, <2>2 DEF RecordInv, PassedInRun, HasPassed
      <2>4. phase' = "select" \/ (phase' = "serial" /\ current' = current)
            BY <1>8 DEF SerialSaved
      <2>5. phase' = "serial" => current \notin PassedInRun
            BY <1>0, <1>8, <2>1 DEF SerialSaved, RecordInv
      <2> QED
          BY <1>0, <2>1, <2>3, <2>4, <2>5 DEF RecordInv
<1>9. CASE Report
      <2>1. Knows /\ UNCHANGED <<results, passed>> /\ phase' = "reported"
            BY <1>9 DEF Report, Knows
      <2>2. runner'.run = runner.run
            BY <1>9 DEF Report, RetryInv, TypeOK, Runners
      <2> QED
          BY <1>0, <2>1, <2>2 DEF RecordInv, PassedInRun, HasPassed
<1>10. ~InitialEnds /\ ~Crash /\ ~FullRun
      BY DEF InitialEnds, Crash, FullRun, Knows
<1> QED
    BY <1>0, <1>1, <1>3, <1>4, <1>5, <1>6, <1>7, <1>8, <1>9, <1>10 DEF Next, Run

LEMMA RecordInvHolds == Spec => []RecordInv
<1>1. Init => RecordInv
      BY DEF Init, RecordInv, Knows
<1> QED
    BY <1>1, NextRecordInv, RetryInvHolds, PTL DEF Spec

\* The report calls exactly those tests failed that have not passed a retry, when nothing
\* was lost.
THEOREM VerdictsAreRightHolds == Spec => []VerdictsAreRight
<1>1. RetryInv /\ VerdictInv /\ RecordInv => VerdictsAreRight
      <2> SUFFICES ASSUME RetryInv, VerdictInv, RecordInv, phase = "reported", Undisturbed,
                          NEW t \in runner.failed
                   PROVE  Reported(t, "failed") <=> t \notin PassedInRun
          BY DEF VerdictsAreRight
      <2>1. t \in Tests /\ Knows
            BY CountTypes DEF Knows
      <2>2. HasPassed(t) <=> t \in PassedInRun
            BY <2>1 DEF RecordInv, RetryInv, PassInv
      <2>3. Reported(t, "failed") <=> FinalStatus(t) = "failed"
            BY <2>1, ReportedIff
      <2> QED
          BY <2>2, <2>3 DEF FinalStatus
<1> QED
    BY <1>1, RetryInvHolds, VerdictInvHolds, RecordInvHolds, PTL

\* A test that has passed is not run again, when nothing was lost.
THEOREM NoRetryAfterPassHolds == Spec => NoRetryAfterPass
<1>1. RetryInv /\ RecordInv /\ [Next]_vars =>
        [Undisturbed => \A n \in FullRuns : \A t \in passed[n] : allRuns'[n][t] = allRuns[n][t]]_vars
      <2> SUFFICES ASSUME RetryInv, RecordInv, Next, Undisturbed,
                          NEW n \in FullRuns, NEW t \in passed[n]
                   PROVE  allRuns'[n][t] = allRuns[n][t]
          OBVIOUS
      <2>1. t \in Tests /\ TypeOK
            BY DEF RetryInv, TypeOK
      <2>2. ASSUME NEW c \in Tests, Knows, Ran(c), c \notin PassedInRun
            PROVE  allRuns'[n][t] = allRuns[n][t]
            <3>1. runner.run \in FullRuns
                  BY <2>2 DEF RetryInv, RunInv
            <3>2. n # runner.run \/ t # c
                  BY <2>2 DEF PassedInRun
            <3> QED
                BY <2>1, <2>2, <3>1, <3>2, RanType
      <2>3. ASSUME NEW c \in Tests, phase = "parallel", c \in pending, Completed(c)
            PROVE  allRuns'[n][t] = allRuns[n][t]
            BY <2>2, <2>3 DEF RecordInv, Knows, Completed
      <2>4. ASSUME NEW r \in Results, SerialResult(r) PROVE allRuns'[n][t] = allRuns[n][t]
            BY <2>2, <2>4 DEF RecordInv, Knows, SerialResult, RetryInv, CurrentInv
      <2> QED
          BY <2>3, <2>4
             DEF Next, Run, history, InitialEnds, InitialFails, ParallelBegin, ParallelAttempt,
                 ParallelResult, ParallelError, SerialBegin, SerialSelect, SerialSaved,
                 SerialDone, Report, Crash, Resume, Rerun, FullRun
<1> QED
    BY <1>1, RetryInvHolds, RecordInvHolds, PTL DEF Spec, NoRetryAfterPass
==============================================================================
