------------------------------ MODULE AutoRetry ------------------------------
(***************************************************************************)
(* The retry logic of scripts/auto-retry-tests.py: a full run of the test  *)
(* suite, parallel and then serial retries of the tests that failed, the   *)
(* verdict per test, the exit code, and the state file from which a later  *)
(* process resumes.                                                        *)
(*                                                                         *)
(* A process keeps its memory in `runner' (the fields of                   *)
(* AutoRetryTestRunner that build_state_data persists) and `results' (the  *)
(* lists that retry_tests_in_parallel and retry_test_serially return).     *)
(* `disk' is test_run_state.json, rewritten in place by every save.        *)
(* Crash kills the process at any point; a later process may be started    *)
(* with --resume, with --rerun-failed, or as another full run, which       *)
(* leaves the file of the run before it in place until its first save.     *)
(*                                                                         *)
(* A test run is external: it passes or fails, its log names a namespace   *)
(* or does not, and the namespace is still on the cluster afterwards or    *)
(* not.  Durations, log files and the wording of the report are left out,  *)
(* and so is the number of worker threads: parallel runs end in any order. *)
(***************************************************************************)
EXTENDS Naturals, Sequences, FiniteSets

CONSTANTS
    Tests,          \* the tests of the suite
    Configs,        \* command lines: [parallel, serial : Nat, delete : BOOLEAN]
    Budgets,        \* bounds: how often each disturbance may happen, see Within
    None,           \* no state file, no current test, no summary
    Corrupt         \* the content of a state file whose save did not end

Results == [success : BOOLEAN, namespace : BOOLEAN, kept : BOOLEAN]
Summaries == [status : {"flaky", "failed"}, namespace : SUBSET Nat]

(* Processes started with --resume, with --rerun-failed and as another full *)
(* run; lost results, failed saves and failed clean-ups; test runs whose    *)
(* log names no namespace.                                                  *)
Disturbances == {"resume", "rerun", "full", "error", "nameless"}

(* The full runs, by number. *)
FullRuns == {1} \cup UNION {1..(b["full"] + 1) : b \in Budgets}

ASSUME AutoRetryAssumption ==
    /\ IsFiniteSet(Tests)
    /\ Configs \subseteq [parallel : Nat, serial : Nat, delete : BOOLEAN]
    /\ Budgets \subseteq [Disturbances -> Nat]
    /\ None \notin Tests \cup Summaries /\ None # Corrupt

VARIABLES
    args,       \* the command line, the same for every process
    phase,      \* where the process is; see TypeOK
    runner,     \* failed_tests, parallel_attempts_done, serial_attempts_done, test_summaries;
                \* ghost: the full run whose failed tests these are
    results,    \* per test, the retry results of this process
    attempt,    \* the attempt of the loop that is running
    limit,      \* max_attempts of that loop
    pending,    \* futures not yet completed, later the tests awaiting serial retries
    current,    \* the test being retried serially
    disk,       \* the state file: None, Corrupt or a saved runner
    initial,    \* history: per full run, the tests that failed in it
    passed,     \* history: per full run, the tests that passed a retry, in any process
    allRuns,    \* history: per full run and test, the attempts of all processes
    used        \* used[d]: how often disturbance d has happened

process == <<runner, results, attempt, limit, pending, current>>
history == <<initial, passed, allRuns>>
vars == <<args, phase, process, disk, history, used>>

Runners == [run : {0} \cup FullRuns, failed : SUBSET Tests, pdone : Nat, sdone : [Tests -> Nat],
            summaries : [Tests -> Summaries \cup {None}]]

Active == phase \in {"initial", "retry", "parallel", "select", "serial", "saving", "report"}

TypeOK ==
    /\ args \in Configs
    /\ phase \in {"initial", "retry", "parallel", "select", "serial", "saving", "report",
                  "reported", "early", "rejected", "dead"}
    /\ runner \in Runners
    /\ results \in [Tests -> Seq(Results)]
    /\ attempt \in Nat /\ limit \in Nat /\ attempt <= limit
    /\ pending \subseteq Tests
    /\ current \in Tests \cup {None}
    /\ disk \in Runners \cup {None, Corrupt}
    /\ initial \in [FullRuns -> SUBSET Tests] /\ passed \in [FullRuns -> SUBSET Tests]
    /\ allRuns \in [FullRuns -> [Tests -> Nat]]
    /\ used \in [Disturbances -> Nat]

-----------------------------------------------------------------------------
(* AutoRetryTestRunner.__init__: what a new process knows. *)
NewRunner == [run |-> 0, failed |-> {}, pdone |-> 0, sdone |-> [t \in Tests |-> 0],
              summaries |-> [t \in Tests |-> None]]

Idle == /\ results' = [t \in Tests |-> <<>>]
        /\ attempt' = 0 /\ limit' = 0 /\ pending' = {} /\ current' = None

(* The first process runs the full suite. *)
Init ==
    /\ args \in Configs
    /\ phase = "initial"
    /\ runner = [NewRunner EXCEPT !.run = 1]
    /\ results = [t \in Tests |-> <<>>]
    /\ attempt = 0 /\ limit = 0 /\ pending = {} /\ current = None
    /\ disk = None
    /\ initial = [n \in FullRuns |-> {}] /\ passed = [n \in FullRuns |-> {}]
    /\ allRuns = [n \in FullRuns |-> [t \in Tests |-> 0]]
    /\ used = [d \in Disturbances |-> 0]

(* Disturbance d happens, within the bounds. *)
Within(x) == \E b \in Budgets : \A d \in Disturbances : x[d] <= b[d]

Disturb(d) == used' = [used EXCEPT ![d] = @ + 1] /\ Within(used')

(* _run_initial_test_suite: everything passed, or run-tests failed without *)
(* naming a failed test; both return False and run() then returns 0.       *)
InitialEnds ==
    /\ phase = "initial"
    /\ phase' = "early"
    /\ UNCHANGED <<args, process, disk, history, used>>

(* _run_initial_test_suite: the tests the log names as failed are kept. *)
InitialFails(F) ==
    /\ phase = "initial"
    /\ F # {}
    /\ phase' = "retry"
    /\ runner' = [runner EXCEPT !.failed = F]
    /\ initial' = [initial EXCEPT ![runner.run] = F]
    /\ UNCHANGED <<args, results, attempt, limit, pending, current, disk,
                   passed, allRuns, used>>

-----------------------------------------------------------------------------
(* The check that execute_parallel_retries and execute_serial_retries make *)
(* before they retry a test.                                               *)
AlreadyPassed(t) == runner.summaries[t] # None /\ runner.summaries[t].status = "flaky"

HasPassed(t) == \E i \in 1..Len(results[t]) : results[t][i].success

(* execute_parallel_retries: how many attempts remain, and for which tests. *)
ParallelBegin ==
    /\ phase = "retry"
    /\ phase' = "parallel"
    /\ attempt' = 0
    /\ limit' = IF runner.pdone < args.parallel THEN args.parallel - runner.pdone ELSE 0
    /\ UNCHANGED <<args, runner, results, pending, current, disk, history, used>>

(* Mutant of TestsToRetry: results of earlier attempts are not looked at. *)
TestsToRetryAll == {t \in runner.failed : ~AlreadyPassed(t)}

TestsToRetry == {t \in runner.failed : ~AlreadyPassed(t) /\ ~HasPassed(t)}

(* Mutant of ParallelAttempt: one attempt too many. *)
ParallelAttemptTooMany ==
    /\ phase = "parallel" /\ pending = {}
    /\ attempt <= limit
    /\ TestsToRetry # {}
    /\ attempt' = attempt + 1
    /\ pending' = TestsToRetry
    /\ UNCHANGED <<args, phase, runner, results, limit, current, disk, history, used>>

(* retry_tests_in_parallel: the next attempt submits every test that has   *)
(* not passed yet.                                                         *)
ParallelAttempt ==
    /\ phase = "parallel" /\ pending = {}
    /\ attempt < limit
    /\ TestsToRetry # {}
    /\ attempt' = attempt + 1
    /\ pending' = TestsToRetry
    /\ UNCHANGED <<args, phase, runner, results, limit, current, disk, history, used>>

(* Mutant of SkipDelete: the last parallel attempt always keeps them. *)
SkipDeleteTooEarly == ~args.delete /\ attempt = limit

(* Only the last attempt keeps its namespaces, and a parallel one only when *)
(* no serial attempts follow.                                               *)
SkipDelete ==
    /\ ~args.delete
    /\ attempt = limit
    /\ phase = "parallel" => args.serial = 0

(* run_single_test_suite: with skip_delete the namespace of a failed test  *)
(* stays and the one of a passed test is deleted, which may fail.          *)
TestRun(r) ==
    /\ r \in Results
    /\ r.kept => r.namespace /\ SkipDelete
    /\ (r.namespace /\ SkipDelete /\ ~r.success) => r.kept
    /\ \/ r.namespace /\ ~(r.kept /\ r.success) /\ used' = used
       \/ ~r.namespace /\ Disturb("nameless")
       \/ r.kept /\ r.success /\ Disturb("error")

(* The attempt of a test that has run, and a pass, in the history. *)
Ran(t) == allRuns' = [allRuns EXCEPT ![runner.run][t] = @ + 1]

Passes(t, success) ==
    passed' = IF success THEN [passed EXCEPT ![runner.run] = @ \cup {t}] ELSE passed

(* The parallel attempt counter is written when its last future is done. *)
Completed(t) ==
    /\ pending' = pending \ {t}
    /\ runner' = IF pending = {t} THEN [runner EXCEPT !.pdone = attempt] ELSE runner
    /\ Ran(t)

ParallelResult(t, r) ==
    /\ phase = "parallel" /\ t \in pending
    /\ TestRun(r)
    /\ results' = [results EXCEPT ![t] = Append(@, r)]
    /\ Passes(t, r.success)
    /\ Completed(t)
    /\ UNCHANGED <<args, phase, attempt, limit, current, disk, initial>>

(* future.result() raises, because the log cannot be written or because    *)
(* another thread changes runtime_history while save_runtime_history       *)
(* iterates over it: the result is dropped, whatever it was.               *)
ParallelError(t) ==
    /\ phase = "parallel" /\ t \in pending
    /\ Disturb("error")
    /\ \E success \in BOOLEAN : Passes(t, success)
    /\ Completed(t)
    /\ UNCHANGED <<args, phase, results, attempt, limit, current, disk, initial>>

(* execute_serial_retries: tests_still_failing. *)
SerialBegin ==
    /\ phase = "parallel" /\ pending = {}
    /\ attempt = limit \/ TestsToRetry = {}
    /\ phase' = "select"
    /\ pending' = IF args.serial > 0 THEN TestsToRetry ELSE {}
    /\ attempt' = 0 /\ limit' = 0
    /\ UNCHANGED <<args, runner, results, current, disk, history, used>>

(* The serial attempts that remain of a test, counted by serial_attempts_done. *)
Remaining(t) == IF runner.sdone[t] < args.serial THEN args.serial - runner.sdone[t] ELSE 0

(* Mutant of SerialSelect: the loop does not get past an exhausted test. *)
SerialSelectStuck(t) ==
    /\ phase = "select" /\ t \in pending
    /\ IF Remaining(t) > 0
         THEN /\ pending' = pending \ {t}
              /\ phase' = "serial" /\ current' = t /\ attempt' = 1 /\ limit' = Remaining(t)
         ELSE UNCHANGED <<pending, phase, current, attempt, limit>>
    /\ UNCHANGED <<args, runner, results, disk, history, used>>

SerialSelect(t) ==
    /\ phase = "select" /\ t \in pending
    /\ pending' = pending \ {t}
    /\ IF Remaining(t) > 0
         THEN phase' = "serial" /\ current' = t /\ attempt' = 1 /\ limit' = Remaining(t)
         ELSE UNCHANGED <<phase, current, attempt, limit>>
    /\ UNCHANGED <<args, runner, results, disk, history, used>>

(* Mutant of StateData: only the tests still to do are saved. *)
StateDataRemaining == [runner EXCEPT !.failed = pending \cup {current}]

(* build_state_data: what a save writes. *)
StateData == runner

(* save_state begins: the file is still as it was, or has been opened for   *)
(* writing by safe_file_operation, which empties it ...                     *)
SaveBegins == disk' \in {disk, Corrupt}

(* ... and ends: the file has been opened and filled, or safe_json_operation *)
(* prints that it could not be opened, and is as it was, or not filled.      *)
SaveEnds(ok) ==
    \/ ok /\ disk' = StateData /\ used' = used
    \/ ~ok /\ disk' = disk /\ Disturb("error")

(* retry_test_serially: one attempt.  Its result is recorded and save_state *)
(* is under way.                                                            *)
SerialResult(r) ==
    /\ phase = "serial"
    /\ TestRun(r)
    /\ results' = [results EXCEPT ![current] = Append(@, r)]
    /\ Passes(current, r.success)
    /\ Ran(current)
    /\ SaveBegins
    /\ phase' = "saving"
    /\ UNCHANGED <<args, runner, attempt, limit, pending, current, initial>>

(* Mutant of SerialSaved: an attempt whose save failed is made again. *)
SerialSavedRepeats(ok) ==
    /\ phase = "saving"
    /\ SaveEnds(ok)
    /\ runner' = [runner EXCEPT !.sdone[current] = attempt]
    /\ IF results[current][Len(results[current])].success \/ (ok /\ attempt = limit)
         THEN phase' = "select" /\ current' = None /\ attempt' = 0 /\ limit' = 0
         ELSE /\ phase' = "serial" /\ UNCHANGED <<current, limit>>
              /\ attempt' = IF ok THEN attempt + 1 ELSE attempt
    /\ UNCHANGED <<args, results, pending, history>>

(* The end of save_state, the counter and the loop control behind it: the  *)
(* file holds the counters from before this attempt.                       *)
SerialSaved(ok) ==
    /\ phase = "saving"
    /\ SaveEnds(ok)
    /\ runner' = [runner EXCEPT !.sdone[current] = attempt]
    /\ IF results[current][Len(results[current])].success \/ attempt = limit
         THEN phase' = "select" /\ current' = None /\ attempt' = 0 /\ limit' = 0
         ELSE phase' = "serial" /\ attempt' = attempt + 1 /\ UNCHANGED <<current, limit>>
    /\ UNCHANGED <<args, results, pending, history>>

SerialDone ==
    /\ phase = "select" /\ pending = {}
    /\ phase' = "report"
    /\ UNCHANGED <<args, process, disk, history, used>>

-----------------------------------------------------------------------------
(* Mutant of FinalStatus: only the first retry counts. *)
FinalStatusFirst(t) ==
    IF results[t] # <<>> /\ results[t][1].success THEN "flaky" ELSE "failed"

(* create_test_summary: the verdict on a test, and the position in its     *)
(* results of the namespace the report names, if it names one.             *)
FinalStatus(t) == IF HasPassed(t) THEN "flaky" ELSE "failed"

FinalNamespace(t) ==
    LET named == {i \in 1..Len(results[t]) : results[t][i].namespace}
    IN  {i \in named : FinalStatus(t) = "failed" /\ ~args.delete /\ \A j \in named : j <= i}

(* process_all_test_results and finalize_and_report. *)
Report ==
    /\ phase = "report"
    /\ phase' = "reported"
    /\ runner' = [runner EXCEPT !.summaries =
           [t \in Tests |-> IF t \in runner.failed /\ @[t] = None
                              THEN [status |-> FinalStatus(t), namespace |-> FinalNamespace(t)]
                              ELSE @[t]]]
    /\ UNCHANGED <<args, results, attempt, limit, pending, current, disk, history, used>>

Reported(t, status) == runner.summaries[t] # None /\ runner.summaries[t].status = status

(* run() and main(): the exit code of a process that has ended by itself. *)
ExitCode == IF phase = "rejected" \/ (phase = "reported" /\ \E t \in Tests : Reported(t, "failed"))
              THEN 1 ELSE 0

-----------------------------------------------------------------------------
(* The process is killed: its memory is gone, the file stays as it is. *)
Crash ==
    /\ Active
    /\ \E d \in {"resume", "rerun", "full"} : Within([used EXCEPT ![d] = @ + 1])
    /\ phase' = "dead"
    /\ runner' = NewRunner
    /\ Idle
    /\ UNCHANGED <<args, disk, history, used>>

(* safe_json_operation finds no file, or none it can parse. *)
Unreadable == disk \in {None, Corrupt}

(* main() with --resume: load_state restores what the file holds. *)
Resume ==
    /\ ~Active /\ Disturb("resume")
    /\ Idle
    /\ IF Unreadable
         THEN phase' = "rejected" /\ runner' = NewRunner
         ELSE phase' = "retry" /\ runner' = disk
    /\ UNCHANGED <<args, disk, history>>

(* main() with --rerun-failed: only the list of failed tests is read.  A   *)
(* file that cannot be read yields an empty list and the exit code 0.      *)
Rerun ==
    /\ ~Active /\ Disturb("rerun")
    /\ Idle
    /\ IF Unreadable
         THEN phase' = "early" /\ runner' = NewRunner
         ELSE phase' = "retry" /\ runner' = [NewRunner EXCEPT !.run = disk.run,
                                                              !.failed = disk.failed]
    /\ UNCHANGED <<args, disk, history>>

(* Mutant of FullRun: the counters in the file are taken over. *)
FullRunRestores ==
    /\ ~Active /\ Disturb("full")
    /\ Idle
    /\ phase' = "initial"
    /\ runner' = [(IF Unreadable THEN NewRunner ELSE disk) EXCEPT !.run = used'["full"] + 1]
    /\ UNCHANGED <<args, disk, history>>

(* main() without either: a new process runs the full suite.  The state     *)
(* file of an earlier run is neither read nor removed.                      *)
FullRun ==
    /\ ~Active /\ Disturb("full")
    /\ Idle
    /\ phase' = "initial"
    /\ runner' = [NewRunner EXCEPT !.run = used'["full"] + 1]
    /\ UNCHANGED <<args, disk, history>>

(* The steps of a live process. *)
Run ==
    \/ InitialEnds
    \/ \E F \in SUBSET Tests : InitialFails(F)
    \/ ParallelBegin
    \/ ParallelAttempt
    \/ \E t \in Tests : (\E r \in Results : ParallelResult(t, r)) \/ ParallelError(t)
    \/ SerialBegin
    \/ \E t \in Tests : SerialSelect(t)
    \/ \E r \in Results : SerialResult(r)
    \/ \E ok \in BOOLEAN : SerialSaved(ok)
    \/ SerialDone
    \/ Report

Next == Run \/ Crash \/ Resume \/ Rerun \/ FullRun

Spec == Init /\ [][Next]_vars

(* run-tests ends every test run, and a live process takes its steps. *)
FairSpec == Spec /\ WF_vars(Run)

-----------------------------------------------------------------------------
(* Nothing was lost: no run was continued, and every result recorded. *)
Undisturbed == \A d \in {"resume", "rerun", "error"} : used[d] = 0

(* The tests that have passed a retry of the run this process works on. *)
PassedInRun == passed[runner.run]

(* A test is reported as failed exactly if none of its retries passed       *)
(* (create_test_summary), when nothing was lost.                            *)
VerdictsAreRight ==
    phase = "reported" /\ Undisturbed =>
        \A t \in runner.failed : Reported(t, "failed") <=> t \notin PassedInRun

(* No test is run again once it has passed, when nothing was lost: "Only    *)
(* retry tests that haven't passed yet".                                    *)
NoRetryAfterPass ==
    [][Undisturbed => \A n \in FullRuns : \A t \in passed[n] : allRuns'[n][t] = allRuns[n][t]]_vars

(* Of the attempts on a test that this process makes, exactly the last one  *)
(* leaves its namespace behind, and only if the test is reported failed and *)
(* --delete-failed-namespaces is off ("cleanup on success, keep failed for  *)
(* debugging by default"); the report then names that one.  In a run that   *)
(* was not continued these are all the attempts on the test.  A process     *)
(* that continues one with --resume or --rerun-failed does not know, and    *)
(* leaves alone, what the process before it has kept.                       *)
NamespacesManaged ==
    phase = "reported" /\ used["error"] = 0 => \A t \in runner.failed :
        LET n == Len(results[t]) IN
        /\ \A i \in 1..n : results[t][i].kept <=>
               i = n /\ Reported(t, "failed") /\ ~args.delete /\ results[t][i].namespace
        /\ \A i \in 1..n : results[t][i].kept => runner.summaries[t].namespace = {i}
        /\ Undisturbed => n = allRuns[runner.run][t]

(* A process that ends its retries with exit code 0 has seen every test     *)
(* that failed in its full run pass, through crashes, resumes, reruns, lost *)
(* results and other full runs: the run it works on is the one the state    *)
(* file came from, which need not be the latest.                            *)
GreenMeansPassed == phase = "reported" /\ ExitCode = 0 => initial[runner.run] \subseteq PassedInRun

(* A test that is reported failed and never passed has had all the retries  *)
(* the command line asks for: a crash, the file that a resume reads, and    *)
(* the one an earlier run has left never cost an attempt.  A consequence of *)
(* ImplementsLedger, below.                                                 *)
FailedWasFullyRetried ==
    \A t \in Tests : Reported(t, "failed") /\ t \notin PassedInRun =>
        allRuns[runner.run][t] >= args.parallel + args.serial

(* What a process still has to do: the phases ahead of it, in a parallel    *)
(* loop the attempts and the futures of the one that runs, in the serial    *)
(* loops the tests, the end of the one in hand, its attempts, its test run. *)
WorkLeft == <<
    CASE phase = "initial" -> 5 [] phase = "retry" -> 4 [] phase = "parallel" -> 3
      [] phase \in {"select", "serial", "saving"} -> 2 [] phase = "report" -> 1 [] OTHER -> 0,
    IF phase = "parallel" THEN limit - attempt ELSE Cardinality(pending),
    IF phase = "parallel" THEN Cardinality(pending)
                          ELSE IF phase \in {"serial", "saving"} THEN 1 ELSE 0,
    limit - attempt,
    IF phase = "serial" THEN 1 ELSE 0 >>

(* The lexicographic order on such tuples, which is well-founded. *)
Less(m, n) ==
    /\ m \in Nat \X Nat \X Nat \X Nat \X Nat
    /\ \E i \in 1..5 : m[i] < n[i] /\ \A j \in 1..5 : j < i => m[j] = n[j]

(* Every step of a live process leaves it less to do, so the nested retry   *)
(* loops are bounded whatever the tests do and whichever results, saves and *)
(* clean-ups fail: no failure makes a loop repeat or take back an attempt.  *)
LoopsAreBounded == [][Active => Less(WorkLeft', WorkLeft)]_vars

(* The ledger that the history and the report in hand make up. *)
Status(t) == IF runner.summaries[t] = None THEN "open" ELSE runner.summaries[t].status

Ledger == INSTANCE RetryLedger WITH
    Runs <- FullRuns, retries <- args.parallel + args.serial, failed <- initial,
    tries <- allRuns, verdict <- [t \in Tests |-> Status(t)]

(* Through crashes, resumes, reruns, lost results and the files of other    *)
(* runs, a process retries only tests that failed in the full run it works  *)
(* on, and its report has a verdict on each of them, and on no other, that  *)
(* their passes and retries in all processes bear out.                      *)
ImplementsLedger == Ledger!Spec

(* Every process ends: the retry loops are bounded. *)
Terminates == Active ~> ~Active

(* A test reported as failed has not passed any retry, in this process or   *)
(* in the ones it continues: "Check if this test has already passed in      *)
(* previous attempts", "Skip tests that already passed".                    *)
FailedMeansNeverPassed == \A t \in Tests : Reported(t, "failed") => t \notin PassedInRun
=============================================================================
