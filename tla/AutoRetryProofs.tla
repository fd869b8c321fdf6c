--------------------------- MODULE AutoRetryProofs ---------------------------
(***************************************************************************)
(* For every suite, command line and number of crashes, resumes, reruns    *)
(* and lost results: AutoRetry is type correct, a process that ends its    *)
(* retries with exit code 0 has seen every failed test pass, and the retry *)
(* loops are bounded.                                                      *)
(***************************************************************************)
EXTENDS AutoRetry, FiniteSetTheorems, TLAPS

NoSummaries == [t \in Tests |-> None]

\* The phases in which a process knows the failed tests of the initial run.
Knows == phase \in {"retry", "parallel", "select", "serial", "saving", "report", "reported"}

\* A serial retry is a retry of some test.
CurrentInv == phase \in {"serial", "saving"} => current \in Tests

\* The full run that was started last.
Latest == used["full"] + 1

\* The process and the state file belong to full runs that have been started; the process
\* of an initial run works on the latest, of which the file and the history know nothing.
RunInv ==
    /\ Latest \in FullRuns
    /\ Knows => runner.run \in FullRuns
    /\ runner.run <= Latest
    /\ ~Unreadable => disk.run \in FullRuns /\ disk.run <= Latest
    /\ phase = "initial" => /\ runner.run = Latest /\ passed[Latest] = {}
                            /\ ~Unreadable => disk.run # Latest
    /\ \A n \in FullRuns : n > Latest => passed[n] = {}

\* A success among the results of the live process is a pass of that test, in its run.
PassInv == \A t \in Tests : HasPassed(t) => t \in PassedInRun

\* A process that retries has the failed tests of the initial run, all of them.
FailedInv == Knows => runner.failed = initial[runner.run]

\* So has a state file that can be read, and it has no verdicts.
DiskInv == ~Unreadable => disk.failed = initial[disk.run] /\ disk.summaries = NoSummaries

\* There are no verdicts before the report ...
SummaryInv == phase # "reported" => runner.summaries = NoSummaries

\* ... and the report calls a test failed, or it has passed.
ReportInv == phase = "reported" =>
                 \A t \in runner.failed : Reported(t, "failed") \/ t \in PassedInRun

\* The inductive invariant.
RetryInv == /\ TypeOK /\ CurrentInv /\ RunInv /\ PassInv /\ FailedInv /\ DiskInv
            /\ SummaryInv /\ ReportInv

\* The numbers of the full runs.
LEMMA FullRunsType == FullRuns \subseteq Nat \ {0} /\ 1 \in FullRuns
BY AutoRetryAssumption DEF FullRuns, Disturbances

\* A full run within the bounds has a number.
LEMMA FullRunNumber ==
    ASSUME TypeOK, Disturb("full")
    PROVE  used'["full"] = Latest /\ Latest + 1 \in FullRuns
<1>1. used'["full"] = used["full"] + 1 /\ used["full"] \in Nat
      BY DEF TypeOK, Disturb, Disturbances
<1>2. PICK b \in Budgets : used'["full"] <= b["full"] /\ b["full"] \in Nat
      BY AutoRetryAssumption DEF Disturb, Within, Disturbances
<1> QED
    BY <1>1, <1>2 DEF FullRuns, Latest

\* A disturbance is counted, and only a full run counts as one.
LEMMA DisturbType ==
    ASSUME TypeOK, NEW d \in Disturbances, Disturb(d)
    PROVE  used' \in [Disturbances -> Nat] /\ (d # "full" => Latest' = Latest)
BY DEF TypeOK, Disturb, Latest, Disturbances

\* A test run, and a save, are not a full run.
LEMMA TestRunType ==
    ASSUME TypeOK, NEW r, TestRun(r)
    PROVE  used' \in [Disturbances -> Nat] /\ Latest' = Latest
BY DisturbType DEF TypeOK, TestRun, Latest, Disturbances

\* The history of a run grows, and the others are left alone.
LEMMA RanType ==
    ASSUME TypeOK, runner.run \in FullRuns, NEW t \in Tests, Ran(t)
    PROVE  /\ allRuns' \in [FullRuns -> [Tests -> Nat]]
           /\ \A n \in FullRuns : \A u \in Tests :
                allRuns'[n][u] = IF n = runner.run /\ u = t THEN allRuns[n][u] + 1
                                                            ELSE allRuns[n][u]
BY DEF TypeOK, Ran

LEMMA PassesType ==
    ASSUME TypeOK, runner.run \in FullRuns, NEW t \in Tests, NEW success \in BOOLEAN,
           Passes(t, success)
    PROVE  /\ passed' \in [FullRuns -> SUBSET Tests]
           /\ \A n \in FullRuns : n # runner.run => passed'[n] = passed[n]
           /\ passed'[runner.run] = IF success THEN passed[runner.run] \cup {t}
                                               ELSE passed[runner.run]
BY DEF TypeOK, Passes

\* The first process starts in a state of the invariant.
LEMMA InitRetryInv == Init => RetryInv
<1> SUFFICES ASSUME Init PROVE RetryInv
    OBVIOUS
<1>1. runner \in Runners /\ runner.summaries = NoSummaries /\ runner.run = 1
      BY FullRunsType DEF Init, NewRunner, Runners, NoSummaries
<1>2. TypeOK
      BY <1>1, AutoRetryAssumption, FullRunsType DEF Init, TypeOK
<1>3. PassInv
      BY DEF Init, PassInv, HasPassed
<1>4. Latest = 1
      BY DEF Init, Latest, Disturbances
<1>5. RunInv
      BY <1>1, <1>4, FullRunsType DEF Init, RunInv, Knows, Unreadable
<1> QED
    BY <1>1, <1>2, <1>3, <1>5
       DEF Init, RetryInv, CurrentInv, FailedInv, DiskInv, SummaryInv, ReportInv, Knows, Unreadable

\* A result appended to those of a test makes it pass only by its own success.
LEMMA AppendPass ==
    ASSUME TypeOK, PassInv, runner.run \in FullRuns, runner'.run = runner.run,
           NEW c \in Tests, NEW r \in Results,
           results' = [results EXCEPT ![c] = Append(@, r)], Passes(c, r.success)
    PROVE  PassInv' /\ results' \in [Tests -> Seq(Results)]
<1>1. results' \in [Tests -> Seq(Results)]
      BY DEF TypeOK
<1>2. r.success \in BOOLEAN
      BY DEF Results
<1>3. passed[runner.run] \subseteq PassedInRun' /\ (r.success => c \in PassedInRun')
      <2>1. passed'[runner.run] = IF r.success THEN passed[runner.run] \cup {c}
                                                 ELSE passed[runner.run]
            BY <1>2, PassesType
      <2>2. PassedInRun' = passed'[runner.run]
            BY DEF PassedInRun
      <2> QED
          BY <2>1, <2>2
<1>4. ASSUME NEW t \in Tests, NEW i \in 1..Len(results'[t]), results'[t][i].success
      PROVE t \in PassedInRun'
      <2>1. CASE t # c
            BY <1>3, <1>4, <2>1 DEF TypeOK, PassInv, HasPassed, PassedInRun
      <2>2. CASE t = c
            <3>1. results[c] \in Seq(Results) /\ results'[c] = Append(results[c], r)
                  BY DEF TypeOK
            <3>2. CASE i = Len(results[c]) + 1
                  BY <1>3, <1>4, <2>2, <3>1, <3>2
            <3>3. CASE i # Len(results[c]) + 1
                  <4>1. i \in 1..Len(results[c]) /\ results'[c][i] = results[c][i]
                        BY <2>2, <3>1, <3>3
                  <4> QED
                      BY <1>3, <1>4, <2>2, <4>1 DEF PassInv, HasPassed, PassedInRun
            <3> QED
                BY <3>2, <3>3
      <2> QED
          BY <2>1, <2>2
<1> QED
    BY <1>1, <1>4 DEF PassInv, HasPassed

\* A process that starts, or dies, has no results.
LEMMA IdlePass ==
    ASSUME Idle
    PROVE  /\ PassInv'
           /\ results' \in [Tests -> Seq(Results)]
           /\ attempt' = 0 /\ limit' = 0 /\ pending' = {} /\ current' = None
<1>1. \A t \in Tests : results'[t] = <<>>
      BY DEF Idle
<1>2. PassInv'
      BY <1>1 DEF PassInv, HasPassed
<1> QED
    BY <1>2 DEF Idle

\* A new process knows nothing.
LEMMA NewRunnerType ==
    NewRunner \in Runners /\ NewRunner.summaries = NoSummaries /\ NewRunner.run = 0
BY DEF NewRunner, Runners, NoSummaries

\* The end of a future counts the attempt and changes nothing else of the runner.
LEMMA CompletedType ==
    ASSUME TypeOK, runner.run \in FullRuns, NEW t \in Tests, Completed(t)
    PROVE  /\ pending' \subseteq Tests
           /\ allRuns' \in [FullRuns -> [Tests -> Nat]]
           /\ runner' \in Runners /\ runner'.failed = runner.failed
           /\ runner'.summaries = runner.summaries /\ runner'.run = runner.run
<1>1. pending' \subseteq Tests
      BY DEF TypeOK, Completed
<1>2. allRuns' \in [FullRuns -> [Tests -> Nat]]
      BY RanType DEF Completed
<1>3. runner \in Runners /\ attempt \in Nat
      BY DEF TypeOK
<1>4. /\ runner' \in Runners /\ runner'.failed = runner.failed
      /\ runner'.summaries = runner.summaries /\ runner'.run = runner.run
      BY <1>3 DEF Completed, Runners
<1> QED
    BY <1>1, <1>2, <1>4

\* The tests to retry are tests of the suite.
LEMMA TestsToRetryType == TypeOK => TestsToRetry \subseteq Tests
BY DEF TypeOK, TestsToRetry, Runners

\* A save writes what the process knows, and touches nothing else.
LEMMA SavedDisk ==
    ASSUME RetryInv, phase = "saving", NEW ok \in BOOLEAN, SaveEnds(ok), initial' = initial
    PROVE  /\ disk' \in Runners \cup {None, Corrupt}
           /\ used' \in [Disturbances -> Nat] /\ Latest' = Latest
           /\ ~Unreadable' => /\ disk'.run \in FullRuns /\ disk'.run <= Latest'
                              /\ disk'.failed = initial'[disk'.run]
                              /\ disk'.summaries = NoSummaries
<1>1. used' \in [Disturbances -> Nat] /\ Latest' = Latest
      BY DisturbType DEF RetryInv, SaveEnds, TypeOK, Latest, Disturbances
<1>2. disk' \in {disk, runner}
      BY DEF SaveEnds, StateData
<1>3. /\ runner.failed = initial[runner.run] /\ runner.summaries = NoSummaries
      /\ runner.run \in FullRuns /\ runner.run <= Latest /\ runner \in Runners
      BY DEF RetryInv, FailedInv, SummaryInv, RunInv, Knows, TypeOK
<1>4. disk' = runner \/ (disk' = disk /\ (Unreadable' <=> Unreadable))
      BY <1>2 DEF Unreadable
<1> QED
    BY <1>1, <1>2, <1>3, <1>4 DEF RetryInv, TypeOK, RunInv, DiskInv

\* What is known of runs and files does not change with the loops of one process.
LEMMA SameRun ==
    ASSUME RetryInv, Knows, Knows', Latest' = Latest, runner'.run = runner.run,
           UNCHANGED <<disk, initial>>,
           \A n \in FullRuns : n # runner.run => passed'[n] = passed[n]
    PROVE  RunInv' /\ DiskInv' /\ (runner'.failed = runner.failed => FailedInv')
<1>1. RunInv'
      <2>1. \A n \in FullRuns : n > Latest' => passed'[n] = {}
            BY FullRunsType DEF RetryInv, RunInv
      <2>2. phase' # "initial"
            BY DEF Knows
      <2> QED
          BY <2>1, <2>2 DEF RetryInv, RunInv, Unreadable
<1> QED
    BY <1>1 DEF RetryInv, DiskInv, FailedInv, Unreadable

\* Every step of a process, its death and the start of the next keep the invariant.
LEMMA NextRetryInv == RetryInv /\ [Next]_vars => RetryInv'
<1> SUFFICES ASSUME RetryInv, [Next]_vars PROVE RetryInv'
    OBVIOUS
<1>0. /\ TypeOK /\ CurrentInv /\ RunInv /\ PassInv /\ FailedInv /\ DiskInv /\ SummaryInv
      /\ ReportInv
      BY DEF RetryInv
<1>r. Knows => runner.run \in FullRuns
      BY <1>0 DEF RunInv
<1> USE <1>0, AutoRetryAssumption DEF process, history
<1>1. CASE InitialEnds
      BY <1>1 DEF InitialEnds, RetryInv, TypeOK, CurrentInv, RunInv, Latest, PassInv, HasPassed,
                  PassedInRun, FailedInv, DiskInv, Unreadable, SummaryInv, ReportInv, Knows
<1>2. ASSUME NEW F \in SUBSET Tests, InitialFails(F) PROVE RetryInv'
      <2>0. /\ runner.run = Latest /\ Latest \in FullRuns /\ Latest' = Latest
            /\ ~Unreadable => disk.run # Latest
            BY <1>2 DEF InitialFails, RunInv, Latest
      <2>1. /\ runner' \in Runners /\ runner'.failed = F /\ runner'.run = runner.run
            /\ runner'.summaries = NoSummaries
            BY <1>2 DEF InitialFails, TypeOK, Runners, SummaryInv
      <2>2. /\ initial' \in [FullRuns -> SUBSET Tests] /\ initial'[Latest] = F
            /\ \A n \in FullRuns : n # Latest => initial'[n] = initial[n]
            BY <1>2, <2>0 DEF InitialFails, TypeOK
      <2>3. TypeOK'
            BY <1>2, <2>1, <2>2 DEF InitialFails, TypeOK
      <2>4. DiskInv'
            BY <1>2, <2>0, <2>2 DEF InitialFails, DiskInv, Unreadable, RunInv
      <2>5. PassInv'
            BY <1>2, <2>1 DEF InitialFails, PassInv, HasPassed, PassedInRun
      <2>6. RunInv'
            BY <1>2, <2>0, <2>1 DEF InitialFails, RunInv, Unreadable
      <2> QED
          BY <1>2, <2>0, <2>1, <2>2, <2>3, <2>4, <2>5, <2>6
             DEF InitialFails, RetryInv, CurrentInv, FailedInv, SummaryInv, ReportInv
<1>3. CASE ParallelBegin
      <2>1. runner.pdone \in Nat /\ args.parallel \in Nat
            BY DEF TypeOK, Runners
      <2>2. TypeOK'
            BY <1>3, <2>1 DEF ParallelBegin, TypeOK
      <2>3. Knows /\ Knows' /\ Latest' = Latest
            BY <1>3 DEF ParallelBegin, Knows, Latest
      <2> QED
          BY <1>3, <2>2, <2>3, SameRun
             DEF ParallelBegin, RetryInv, CurrentInv, PassInv, HasPassed, PassedInRun,
                 SummaryInv, ReportInv
<1>4. CASE ParallelAttempt
      <2>1. pending' \subseteq Tests
            BY <1>4, TestsToRetryType DEF ParallelAttempt
      <2>2. attempt' \in Nat /\ attempt' <= limit
            BY <1>4 DEF ParallelAttempt, TypeOK
      <2>3. TypeOK'
            BY <1>4, <2>1, <2>2 DEF ParallelAttempt, TypeOK
      <2>4. Knows /\ Knows' /\ Latest' = Latest
            BY <1>4 DEF ParallelAttempt, Knows, Latest
      <2> QED
          BY <1>4, <2>3, <2>4, SameRun
             DEF ParallelAttempt, RetryInv, CurrentInv, PassInv, HasPassed, PassedInRun,
                 SummaryInv, ReportInv
<1>5. ASSUME NEW t \in Tests, NEW r \in Results, ParallelResult(t, r) PROVE RetryInv'
      <2>0. runner.run \in FullRuns /\ Knows /\ Knows' /\ r.success \in BOOLEAN
            BY <1>5, <1>r DEF ParallelResult, Knows, Results
      <2>1. /\ pending' \subseteq Tests /\ allRuns' \in [FullRuns -> [Tests -> Nat]]
            /\ runner' \in Runners /\ runner'.failed = runner.failed
            /\ runner'.summaries = runner.summaries /\ runner'.run = runner.run
            BY <1>5, <2>0, CompletedType DEF ParallelResult
      <2>2. PassInv' /\ results' \in [Tests -> Seq(Results)]
            BY <1>5, <2>0, <2>1, AppendPass DEF ParallelResult
      <2>3. used' \in [Disturbances -> Nat] /\ Latest' = Latest
            BY <1>5, TestRunType DEF ParallelResult
      <2>4. /\ passed' \in [FullRuns -> SUBSET Tests]
            /\ \A n \in FullRuns : n # runner.run => passed'[n] = passed[n]
            BY <1>5, <2>0, PassesType DEF ParallelResult
      <2>5. TypeOK'
            BY <1>5, <2>1, <2>2, <2>3, <2>4 DEF ParallelResult, TypeOK
      <2>6. RunInv' /\ DiskInv' /\ FailedInv'
            BY <1>5, <2>0, <2>1, <2>3, <2>4, SameRun DEF ParallelResult
      <2> QED
          BY <1>5, <2>1, <2>2, <2>5, <2>6
             DEF ParallelResult, RetryInv, CurrentInv, SummaryInv, ReportInv
<1>6. ASSUME NEW t \in Tests, ParallelError(t) PROVE RetryInv'
      <2>0. runner.run \in FullRuns /\ Knows /\ Knows'
            BY <1>6, <1>r DEF ParallelError, Knows
      <2>1. /\ pending' \subseteq Tests /\ allRuns' \in [FullRuns -> [Tests -> Nat]]
            /\ runner' \in Runners /\ runner'.failed = runner.failed
            /\ runner'.summaries = runner.summaries /\ runner'.run = runner.run
            BY <1>6, <2>0, CompletedType DEF ParallelError
      <2>2. used' \in [Disturbances -> Nat] /\ Latest' = Latest
            BY <1>6, DisturbType DEF ParallelError, Disturbances
      <2>3. /\ passed' \in [FullRuns -> SUBSET Tests]
            /\ \A n \in FullRuns : n # runner.run => passed'[n] = passed[n]
            /\ passed[runner.run] \subseteq passed'[runner.run]
            BY <1>6, <2>0, PassesType DEF ParallelError
      <2>4. TypeOK'
            BY <1>6, <2>1, <2>2, <2>3 DEF ParallelError, TypeOK
      <2>5. PassInv'
            BY <1>6, <2>1, <2>3 DEF ParallelError, PassInv, HasPassed, PassedInRun
      <2>6. RunInv' /\ DiskInv' /\ FailedInv'
            BY <1>6, <2>0, <2>1, <2>2, <2>3, SameRun DEF ParallelError
      <2> QED
          BY <1>6, <2>1, <2>4, <2>5, <2>6
             DEF ParallelError, RetryInv, CurrentInv, SummaryInv, ReportInv
<1>7. CASE SerialBegin
      <2>1. TypeOK'
            BY <1>7, TestsToRetryType DEF SerialBegin, TypeOK
      <2>2. Knows /\ Knows' /\ Latest' = Latest
            BY <1>7 DEF SerialBegin, Knows, Latest
      <2> QED
          BY <1>7, <2>1, <2>2, SameRun
             DEF SerialBegin, RetryInv, CurrentInv, PassInv, HasPassed, PassedInRun,
                 SummaryInv, ReportInv
<1>8. ASSUME NEW t \in Tests, SerialSelect(t) PROVE RetryInv'
      <2>1. Remaining(t) \in Nat
            BY DEF TypeOK, Runners, Remaining
      <2>2. TypeOK'
            BY <1>8, <2>1 DEF SerialSelect, TypeOK
      <2>3. /\ CurrentInv' /\ Knows /\ Knows' /\ phase' # "reported" /\ phase # "reported"
            /\ Latest' = Latest
            BY <1>8 DEF SerialSelect, CurrentInv, Knows, Latest
      <2>4. RunInv' /\ DiskInv' /\ FailedInv'
            BY <1>8, <2>3, SameRun DEF SerialSelect
      <2> QED
          BY <1>8, <2>2, <2>3, <2>4
             DEF SerialSelect, RetryInv, PassInv, HasPassed, PassedInRun, SummaryInv, ReportInv
<1>9. ASSUME NEW r \in Results, SerialResult(r) PROVE RetryInv'
      <2>0. /\ runner.run \in FullRuns /\ Knows /\ Knows' /\ r.success \in BOOLEAN
            /\ current \in Tests
            BY <1>9, <1>r DEF SerialResult, Knows, Results, CurrentInv
      <2>1. PassInv' /\ results' \in [Tests -> Seq(Results)]
            BY <1>9, <2>0, AppendPass DEF SerialResult
      <2>2. used' \in [Disturbances -> Nat] /\ Latest' = Latest
            BY <1>9, TestRunType DEF SerialResult
      <2>3. /\ passed' \in [FullRuns -> SUBSET Tests]
            /\ \A n \in FullRuns : n # runner.run => passed'[n] = passed[n]
            BY <1>9, <2>0, PassesType DEF SerialResult
      <2>4. allRuns' \in [FullRuns -> [Tests -> Nat]]
            BY <1>9, <2>0, RanType DEF SerialResult
      <2>5. TypeOK'
            BY <1>9, <2>1, <2>2, <2>3, <2>4 DEF SerialResult, SaveBegins, TypeOK
      <2>6. RunInv'
            <3>1. \A n \in FullRuns : n > Latest' => passed'[n] = {}
                  BY <2>2, <2>3, FullRunsType DEF RunInv
            <3> QED
                BY <1>9, <2>0, <2>2, <3>1 DEF SerialResult, SaveBegins, Unreadable, RunInv
      <2> QED
          BY <1>9, <2>0, <2>1, <2>5, <2>6
             DEF SerialResult, SaveBegins, RetryInv, CurrentInv, FailedInv, DiskInv, Unreadable,
                 SummaryInv, ReportInv, Knows
<1>10. ASSUME NEW ok \in BOOLEAN, SerialSaved(ok) PROVE RetryInv'
      <2>1. /\ current \in Tests /\ phase' \in {"select", "serial"} /\ phase = "saving"
            /\ runner.run \in FullRuns
            BY <1>10, <1>r DEF SerialSaved, CurrentInv, Knows
      <2>2. /\ runner' \in Runners /\ runner'.failed = runner.failed
            /\ runner'.summaries = runner.summaries /\ runner'.run = runner.run
            BY <1>10, <2>1 DEF SerialSaved, TypeOK, Runners
      <2>3. /\ disk' \in Runners \cup {None, Corrupt}
            /\ used' \in [Disturbances -> Nat] /\ Latest' = Latest
            /\ ~Unreadable' => /\ disk'.run \in FullRuns /\ disk'.run <= Latest'
                               /\ disk'.failed = initial'[disk'.run]
                               /\ disk'.summaries = NoSummaries
            BY <1>10, <2>1, SavedDisk DEF SerialSaved
      <2>4. attempt' \in Nat /\ limit' \in Nat /\ attempt' <= limit'
            BY <1>10 DEF SerialSaved, TypeOK
      <2>5. TypeOK'
            BY <1>10, <2>1, <2>2, <2>3, <2>4 DEF SerialSaved, TypeOK
      <2>6. CurrentInv'
            BY <1>10, <2>1 DEF SerialSaved, CurrentInv
      <2>7. RunInv'
            BY <1>10, <2>1, <2>2, <2>3 DEF SerialSaved, RunInv
      <2> QED
          BY <1>10, <2>1, <2>2, <2>3, <2>5, <2>6, <2>7
             DEF SerialSaved, RetryInv, PassInv, HasPassed, PassedInRun, FailedInv, DiskInv,
                 SummaryInv, ReportInv, Knows
<1>11. CASE SerialDone
      <2>1. Knows /\ Knows' /\ Latest' = Latest
            BY <1>11 DEF SerialDone, Knows, Latest
      <2>2. RunInv' /\ DiskInv' /\ FailedInv'
            BY <1>11, <2>1, SameRun DEF SerialDone
      <2> QED
          BY <1>11, <2>2
             DEF SerialDone, RetryInv, TypeOK, CurrentInv, PassInv, HasPassed, PassedInRun,
                 SummaryInv, ReportInv
<1>12. CASE Report
      <2> DEFINE S(t) == [status |-> FinalStatus(t), namespace |-> FinalNamespace(t)]
      <2>1. \A t \in Tests : S(t) \in Summaries
            BY DEF FinalStatus, FinalNamespace, Summaries
      <2>2. /\ runner.summaries = NoSummaries /\ Knows /\ Knows' /\ Latest' = Latest
            /\ phase' = "reported" /\ runner \in Runners
            BY <1>12 DEF Report, SummaryInv, Knows, TypeOK, Latest
      <2>3. /\ runner' \in Runners /\ runner'.failed = runner.failed /\ runner'.run = runner.run
            /\ \A t \in runner.failed : runner'.summaries[t] = S(t)
            BY <1>12, <2>1, <2>2 DEF Report, Runners, NoSummaries, TypeOK
      <2>4. TypeOK'
            BY <1>12, <2>3 DEF Report, TypeOK
      <2>5. ASSUME NEW t \in runner.failed PROVE Reported(t, "failed")' \/ t \in PassedInRun
            <3>1. t \in Tests
                  BY <2>2 DEF Runners
            <3>2. runner'.summaries[t] # None
                  <4> HIDE DEF S
                  <4> QED BY <2>1, <2>3, <3>1
            <3>3. runner'.summaries[t].status = FinalStatus(t)
                  <4>1. runner'.summaries[t] = S(t)
                        BY <2>3
                  <4> HIDE DEF S
                  <4>2. S(t).status = FinalStatus(t)
                        BY DEF S
                  <4> QED BY <4>1, <4>2
            <3>4. FinalStatus(t) = "failed" \/ t \in PassedInRun
                  BY <3>1 DEF FinalStatus, PassInv
            <3> QED
                BY <1>12, <3>2, <3>3, <3>4 DEF Report, Reported
      <2>6. ReportInv'
            BY <1>12, <2>3, <2>5 DEF Report, ReportInv, PassedInRun
      <2>7. RunInv' /\ DiskInv' /\ FailedInv'
            BY <1>12, <2>2, <2>3, SameRun DEF Report
      <2> QED
          BY <1>12, <2>2, <2>3, <2>4, <2>6, <2>7
             DEF Report, RetryInv, CurrentInv, PassInv, HasPassed, PassedInRun, SummaryInv
<1>13. CASE Crash
      <2>1. TypeOK'
            BY <1>13, IdlePass, NewRunnerType DEF Crash, TypeOK
      <2>2. RunInv'
            <3>1. /\ runner'.run = 0 /\ phase' = "dead" /\ Latest \in Nat
                  /\ UNCHANGED <<disk, passed, Latest, Unreadable>>
                  BY <1>13, NewRunnerType, FullRunsType DEF Crash, RunInv, Unreadable, Latest
            <3>2. ~Knows' /\ runner'.run <= Latest'
                  BY <3>1 DEF Knows
            <3>3. /\ Latest' \in FullRuns
                  /\ ~Unreadable' => disk'.run \in FullRuns /\ disk'.run <= Latest'
                  /\ \A n \in FullRuns : n > Latest' => passed'[n] = {}
                  BY <1>0, <3>1 DEF RunInv
            <3> QED
                BY <3>1, <3>2, <3>3 DEF RunInv
      <2> QED
          BY <1>13, <2>1, <2>2, IdlePass, NewRunnerType
             DEF Crash, RetryInv, CurrentInv, FailedInv, DiskInv, Unreadable, SummaryInv,
                 ReportInv, Knows
<1>14. CASE Resume
      <2>1. runner' \in Runners /\ runner'.summaries = NoSummaries
            BY <1>14, NewRunnerType DEF Resume, Unreadable, DiskInv, TypeOK
      <2>2. used' \in [Disturbances -> Nat] /\ Latest' = Latest
            BY <1>14, DisturbType DEF Resume, Disturbances
      <2>3. phase' \in {"rejected", "retry"}
            BY <1>14 DEF Resume
      <2>4. TypeOK'
            BY <1>14, <2>1, <2>2, <2>3, IdlePass DEF Resume, TypeOK
      <2>5. phase' = "retry" => runner' = disk /\ ~Unreadable
            BY <1>14 DEF Resume
      <2>6. phase' = "rejected" => runner'.run = 0
            BY <1>14, NewRunnerType DEF Resume
      <2>7. RunInv'
            BY <1>14, <2>2, <2>3, <2>5, <2>6, FullRunsType DEF Resume, RunInv, Knows, Unreadable
      <2> QED
          BY <1>14, <2>1, <2>3, <2>4, <2>5, <2>7, IdlePass
             DEF Resume, RetryInv, CurrentInv, FailedInv, DiskInv, Unreadable, SummaryInv,
                 ReportInv, Knows
<1>15. CASE Rerun
      <2>1. runner' \in Runners /\ runner'.summaries = NoSummaries
            <3>1. Unreadable => runner' = NewRunner
                  BY <1>15 DEF Rerun
            <3>2. ~Unreadable => /\ disk \in Runners
                                 /\ runner' = [NewRunner EXCEPT !.run = disk.run,
                                                                !.failed = disk.failed]
                  BY <1>15 DEF Rerun, Unreadable, TypeOK
            <3> QED
                BY <3>1, <3>2, NewRunnerType DEF Runners
      <2>2. used' \in [Disturbances -> Nat] /\ Latest' = Latest
            BY <1>15, DisturbType DEF Rerun, Disturbances
      <2>3. phase' \in {"early", "retry"}
            BY <1>15 DEF Rerun
      <2>4. TypeOK'
            BY <1>15, <2>1, <2>2, <2>3, IdlePass DEF Rerun, TypeOK
      <2>5. phase' = "retry" => /\ runner'.failed = disk.failed /\ runner'.run = disk.run
                                /\ ~Unreadable
            BY <1>15, NewRunnerType DEF Rerun, Runners
      <2>6. phase' = "early" => runner'.run = 0
            BY <1>15, NewRunnerType DEF Rerun
      <2>7. RunInv'
            BY <1>15, <2>2, <2>3, <2>5, <2>6, FullRunsType DEF Rerun, RunInv, Knows, Unreadable
      <2> QED
          BY <1>15, <2>1, <2>3, <2>4, <2>5, <2>7, IdlePass
             DEF Rerun, RetryInv, CurrentInv, FailedInv, DiskInv, Unreadable, SummaryInv,
                 ReportInv, Knows
<1>16. CASE FullRun
      <2>1. used'["full"] = Latest /\ Latest + 1 \in FullRuns /\ Latest' = Latest + 1
            BY <1>16, FullRunNumber DEF FullRun, Latest
      <2>2. used' \in [Disturbances -> Nat]
            BY <1>16, DisturbType DEF FullRun, Disturbances
      <2>3. /\ runner' \in Runners /\ runner'.summaries = NoSummaries
            /\ runner'.run = Latest'
            BY <1>16, <2>1, NewRunnerType DEF FullRun, Runners, Latest
      <2>4. TypeOK'
            BY <1>16, <2>2, <2>3, IdlePass DEF FullRun, TypeOK
      <2>5. Latest \in Nat
            BY FullRunsType DEF RunInv
      <2>6. RunInv'
            BY <1>16, <2>1, <2>3, <2>5, FullRunsType DEF FullRun, RunInv, Knows, Unreadable
      <2> QED
          BY <1>16, <2>3, <2>4, <2>6, IdlePass
             DEF FullRun, RetryInv, CurrentInv, FailedInv, DiskInv, Unreadable, SummaryInv,
                 ReportInv, Knows
<1>17. CASE UNCHANGED vars
      BY <1>17 DEF vars, RetryInv, TypeOK, CurrentInv, RunInv, Latest, PassInv, HasPassed,
                  PassedInRun, FailedInv, DiskInv, Unreadable, SummaryInv, ReportInv, Reported,
                  Knows
<1> QED
    BY <1>1, <1>2, <1>3, <1>4, <1>5, <1>6, <1>7, <1>8, <1>9, <1>10, <1>11, <1>12,
       <1>13, <1>14, <1>15, <1>16, <1>17 DEF Next, Run
------------------------------------------------------------------------------
\* The invariant holds in every reachable state.
LEMMA RetryInvHolds == Spec => []RetryInv
BY InitRetryInv, NextRetryInv, PTL DEF Spec

\* The fields of AutoRetryTestRunner, the loop variables of the retries and the
\* state file keep their types, whichever process is alive.
THEOREM TypeCorrect == Spec => []TypeOK
<1>1. RetryInv => TypeOK
      BY DEF RetryInv
<1> QED
    BY RetryInvHolds, <1>1, PTL

\* Exit code 0 after the retries means that every test that failed in the initial
\* run has passed a retry: GreenMeansPassed, for every suite, every command line
\* and any number of crashes, resumes, reruns and lost results.
THEOREM GreenMeansPassedHolds == Spec => []GreenMeansPassed
<1>1. RetryInv => GreenMeansPassed
      BY DEF RetryInv, FailedInv, Knows, TypeOK, Runners, ReportInv, GreenMeansPassed, ExitCode
<1> QED
    BY RetryInvHolds, <1>1, PTL
------------------------------------------------------------------------------
\* The order is decided by the first place at which two tuples differ.
LEMMA LessAtFirst ==
    ASSUME NEW a \in Nat \X Nat \X Nat \X Nat \X Nat, NEW b,
           \/ a[1] < b[1]
           \/ a[1] = b[1] /\ a[2] < b[2]
           \/ a[1] = b[1] /\ a[2] = b[2] /\ a[3] < b[3]
           \/ a[1] = b[1] /\ a[2] = b[2] /\ a[3] = b[3] /\ a[4] < b[4]
           \/ a[1] = b[1] /\ a[2] = b[2] /\ a[3] = b[3] /\ a[4] = b[4] /\ a[5] < b[5]
    PROVE  Less(a, b)
<1> SUFFICES \E i \in 1..5 : a[i] < b[i] /\ \A j \in 1..5 : j < i => a[j] = b[j]
    BY DEF Less
<1>0. \A j \in 1..5 : j = 1 \/ j = 2 \/ j = 3 \/ j = 4 \/ j = 5
      OBVIOUS
<1>1. CASE a[1] < b[1]
      <2>1. a[1] < b[1] /\ \A j \in 1..5 : j < 1 => a[j] = b[j]
            BY <1>1
      <2> QED BY <2>1
<1>2. CASE a[1] = b[1] /\ a[2] < b[2]
      <2>1. a[2] < b[2] /\ \A j \in 1..5 : j < 2 => a[j] = b[j]
            BY <1>0, <1>2
      <2> QED BY <2>1
<1>3. CASE a[1] = b[1] /\ a[2] = b[2] /\ a[3] < b[3]
      <2>1. a[3] < b[3] /\ \A j \in 1..5 : j < 3 => a[j] = b[j]
            BY <1>0, <1>3
      <2> QED BY <2>1
<1>4. CASE a[1] = b[1] /\ a[2] = b[2] /\ a[3] = b[3] /\ a[4] < b[4]
      <2>1. a[4] < b[4] /\ \A j \in 1..5 : j < 4 => a[j] = b[j]
            BY <1>0, <1>4
      <2> QED BY <2>1
<1>5. CASE a[1] = b[1] /\ a[2] = b[2] /\ a[3] = b[3] /\ a[4] = b[4] /\ a[5] < b[5]
      <2>1. a[5] < b[5] /\ \A j \in 1..5 : j < 5 => a[j] = b[j]
            BY <1>0, <1>5
      <2> QED BY <2>1
<1> QED
    BY <1>1, <1>2, <1>3, <1>4, <1>5

\* The tests that a loop has in hand are finitely many, and one less when it drops one.
LEMMA PendingSize ==
    ASSUME TypeOK
    PROVE  /\ Cardinality(pending) \in Nat
           /\ \A t \in pending : /\ Cardinality(pending \ {t}) \in Nat
                                 /\ Cardinality(pending \ {t}) < Cardinality(pending)
<1>1. IsFiniteSet(pending)
      BY AutoRetryAssumption, FS_Subset DEF TypeOK
<1>2. Cardinality(pending) \in Nat
      BY <1>1, FS_CardinalityType
<1>3. ASSUME NEW t \in pending
      PROVE  /\ Cardinality(pending \ {t}) \in Nat
             /\ Cardinality(pending \ {t}) < Cardinality(pending)
      <2>1. Cardinality(pending \ {t}) = Cardinality(pending) - 1 /\ IsFiniteSet(pending \ {t})
            BY <1>1, FS_RemoveElement
      <2> QED
          BY <1>2, <2>1, FS_CardinalityType
<1> QED
    BY <1>2, <1>3

\* The parts of WorkLeft.
PhasesLeft ==
    CASE phase = "initial" -> 5 [] phase = "retry" -> 4 [] phase = "parallel" -> 3
      [] phase \in {"select", "serial", "saving"} -> 2 [] phase = "report" -> 1 [] OTHER -> 0
RoundsLeft == IF phase = "parallel" THEN limit - attempt ELSE Cardinality(pending)
RunsLeft == IF phase = "parallel" THEN Cardinality(pending)
                                  ELSE IF phase \in {"serial", "saving"} THEN 1 ELSE 0
AttemptsLeft == limit - attempt
RunLeft == IF phase = "serial" THEN 1 ELSE 0

WorkLeftInParts ==
    /\ WorkLeft \in Nat \X Nat \X Nat \X Nat \X Nat
    /\ WorkLeft[1] = PhasesLeft /\ WorkLeft[2] = RoundsLeft /\ WorkLeft[3] = RunsLeft
    /\ WorkLeft[4] = AttemptsLeft /\ WorkLeft[5] = RunLeft

LEMMA WorkLeftParts == TypeOK => WorkLeftInParts
<1> SUFFICES ASSUME TypeOK PROVE WorkLeftInParts
    OBVIOUS
<1>1. WorkLeft = <<PhasesLeft, RoundsLeft, RunsLeft, AttemptsLeft, RunLeft>>
      BY DEF WorkLeft, PhasesLeft, RoundsLeft, RunsLeft, AttemptsLeft, RunLeft
<1>2. AttemptsLeft \in Nat /\ Cardinality(pending) \in Nat
      BY PendingSize DEF TypeOK, AttemptsLeft
<1>3. PhasesLeft \in Nat /\ RunLeft \in Nat
      BY DEF PhasesLeft, RunLeft
<1>4. RoundsLeft \in Nat /\ RunsLeft \in Nat
      BY <1>2 DEF RoundsLeft, RunsLeft, AttemptsLeft
<1> QED
    BY <1>1, <1>2, <1>3, <1>4 DEF WorkLeftInParts

\* The retry loops are bounded: LoopsAreBounded, for every suite, command line and
\* number of lost results, failed saves and failed clean-ups.
THEOREM LoopsAreBoundedHolds == Spec => LoopsAreBounded
<1>1. RetryInv /\ RetryInv' /\ [Next]_vars => [Active => Less(WorkLeft', WorkLeft)]_vars
      <2> SUFFICES ASSUME RetryInv, RetryInv', Next, Active PROVE Less(WorkLeft', WorkLeft)
          OBVIOUS
      <2>1. TypeOK /\ TypeOK'
            BY DEF RetryInv
      <2>2. WorkLeftInParts /\ WorkLeftInParts'
            BY <2>1, WorkLeftParts, PTL
      <2>3. ASSUME
                \/ PhasesLeft' < PhasesLeft
                \/ PhasesLeft' = PhasesLeft /\ RoundsLeft' < RoundsLeft
                \/ PhasesLeft' = PhasesLeft /\ RoundsLeft' = RoundsLeft /\ RunsLeft' < RunsLeft
                \/ /\ PhasesLeft' = PhasesLeft /\ RoundsLeft' = RoundsLeft /\ RunsLeft' = RunsLeft
                   /\ AttemptsLeft' < AttemptsLeft
                \/ /\ PhasesLeft' = PhasesLeft /\ RoundsLeft' = RoundsLeft /\ RunsLeft' = RunsLeft
                   /\ AttemptsLeft' = AttemptsLeft /\ RunLeft' < RunLeft
            PROVE  Less(WorkLeft', WorkLeft)
            BY <2>2, <2>3, LessAtFirst DEF WorkLeftInParts
      <2>4. \/ InitialEnds \/ (\E F \in SUBSET Tests : InitialFails(F)) \/ ParallelBegin
            \/ SerialBegin \/ SerialDone \/ Report \/ Crash
            => PhasesLeft' < PhasesLeft
            BY DEF InitialEnds, InitialFails, ParallelBegin, SerialBegin, SerialDone, Report,
                   Crash, Active, PhasesLeft
      <2>5. ParallelAttempt => PhasesLeft' = PhasesLeft /\ RoundsLeft' < RoundsLeft
            BY <2>1 DEF ParallelAttempt, TypeOK, PhasesLeft, RoundsLeft
      <2>6. ASSUME NEW t \in Tests, phase = "parallel", t \in pending, Completed(t),
                   UNCHANGED <<phase, attempt, limit>>
            PROVE  PhasesLeft' = PhasesLeft /\ RoundsLeft' = RoundsLeft /\ RunsLeft' < RunsLeft
            BY <2>1, <2>6, PendingSize DEF Completed, PhasesLeft, RoundsLeft, RunsLeft
      <2>7. ASSUME NEW t \in Tests, SerialSelect(t)
            PROVE  PhasesLeft' = PhasesLeft /\ RoundsLeft' < RoundsLeft
            <3>1. /\ phase = "select" /\ phase' \in {"select", "serial"}
                  /\ t \in pending /\ pending' = pending \ {t}
                  BY <2>7 DEF SerialSelect
            <3> QED
                BY <2>1, <3>1, PendingSize DEF PhasesLeft, RoundsLeft
      <2>8. ASSUME NEW r \in Results, SerialResult(r)
            PROVE  /\ PhasesLeft' = PhasesLeft /\ RoundsLeft' = RoundsLeft
                   /\ RunsLeft' = RunsLeft /\ AttemptsLeft' = AttemptsLeft /\ RunLeft' < RunLeft
            BY <2>8 DEF SerialResult, PhasesLeft, RoundsLeft, RunsLeft, AttemptsLeft, RunLeft
      <2>9. ASSUME NEW ok \in BOOLEAN, SerialSaved(ok)
            PROVE  /\ PhasesLeft' = PhasesLeft /\ RoundsLeft' = RoundsLeft
                   /\ RunsLeft' < RunsLeft \/ (RunsLeft' = RunsLeft /\ AttemptsLeft' < AttemptsLeft)
            <3>1. /\ phase = "saving" /\ pending' = pending
                  /\ \/ phase' = "select"
                     \/ phase' = "serial" /\ attempt' = attempt + 1 /\ limit' = limit
                  BY <2>9 DEF SerialSaved
            <3> QED
                BY <2>1, <3>1 DEF TypeOK, PhasesLeft, RoundsLeft, RunsLeft, AttemptsLeft
      <2>10. ~Resume /\ ~Rerun /\ ~FullRun
            BY DEF Resume, Rerun, FullRun
      <2> QED
          BY <2>3, <2>4, <2>5, <2>6, <2>7, <2>8, <2>9, <2>10
             DEF Next, Run, ParallelResult, ParallelError
<1> QED
    BY <1>1, RetryInvHolds, PTL DEF Spec, LoopsAreBounded
==============================================================================
