---------------------- MODULE AutoRetryNamespaceProofs -----------------------
(***************************************************************************)
(* Which namespaces are left behind, for every suite, command line and     *)
(* bound: those of the last attempts on tests that are reported failed.    *)
(* And what all the processes together keep: the ledger of RetryLedger.    *)
(***************************************************************************)
EXTENDS AutoRetryVerdictProofs

Last(t) == results[t][Len(results[t])]
Kept(t) == \E i \in 1..Len(results[t]) : results[t][i].kept

\* A state file is written during serial retries only, when the parallel ones are done: a
\* process either begins with all of them or makes none.
ResumeInv ==
    /\ ~Unreadable => disk.pdone >= args.parallel
    /\ phase = "retry" \/ ~Knows => pending = {} /\ \A t \in Tests : results[t] = <<>>
    /\ phase = "retry" => \/ runner.pdone >= args.parallel
                          \/ runner.pdone = 0 /\ \A t \in Tests : runner.sdone[t] = 0
    /\ phase = "parallel" =>
         \/ /\ limit = 0 /\ runner.pdone >= args.parallel
            /\ pending = {} /\ \A t \in Tests : results[t] = <<>>
         \/ /\ limit = args.parallel /\ \A t \in Tests : runner.sdone[t] = 0
            /\ attempt = 0 \/ pending # {} \/ runner.pdone = attempt
    /\ phase \in {"select", "serial", "saving"} =>
         /\ pending # {} \/ phase # "select" => runner.pdone >= args.parallel
         /\ \A t \in pending : runner.sdone[t] = 0 \/ results[t] = <<>>
         /\ args.serial > 0 \/ pending = {}
    /\ phase \in {"serial", "saving"} => current \notin pending

\* The tests that the loops may still run, and those they are through with.
Again(t) == \/ phase \in {"parallel", "select", "serial", "saving"} /\ t \in pending
            \/ phase = "serial" /\ t = current

Done(t) == \/ /\ phase = "parallel" /\ attempt = limit /\ args.serial = 0
              /\ t \notin pending
           \/ phase = "select" /\ t \notin pending
           \/ phase = "serial" /\ t \notin pending /\ t # current
           \/ phase = "saving" /\ t \notin pending /\ (t = current => attempt = limit)
           \/ phase \in {"report", "reported"}

\* Only failed tests are run, and not beyond their first success.
OnceInv ==
    /\ Knows => \A t \in Tests : t \in runner.failed \/ results[t] = <<>>
    /\ \A t \in Tests : Again(t) => t \in runner.failed /\ ~HasPassed(t)
    /\ \A t \in Tests : \A i \in 1..(Len(results[t]) - 1) : ~results[t][i].success

\* A namespace that is kept is that of the last attempt, which failed.
KeptInv ==
    used["error"] = 0 => \A t \in Tests :
      /\ Again(t) => ~Kept(t)
      /\ phase = "parallel" /\ Kept(t) => attempt = limit /\ args.serial = 0
      /\ phase = "saving" /\ t = current /\ Kept(t) => attempt = limit
      /\ \A i \in 1..Len(results[t]) :
           results[t][i].kept => /\ i = Len(results[t]) /\ results[t][i].namespace
                                 /\ ~results[t][i].success /\ ~args.delete

\* A test that did not pass keeps the namespace of its last attempt.
DoneInv ==
    used["error"] = 0 /\ ~args.delete => \A t \in Tests :
      Done(t) /\ results[t] # <<>> /\ ~HasPassed(t) /\ Last(t).namespace => Last(t).kept

NamespaceInv == ResumeInv /\ OnceInv /\ KeptInv /\ DoneInv

\* What a result appended to those of a test changes.
LEMMA Appended ==
    ASSUME TypeOK, NEW c \in Tests, NEW r \in Results,
           results' = [results EXCEPT ![c] = Append(@, r)]
    PROVE  /\ \A t \in Tests : t # c => results'[t] = results[t]
           /\ \A t \in Tests : results[t] \in Seq(Results) /\ results'[t] \in Seq(Results)
           /\ Len(results'[c]) = Len(results[c]) + 1
           /\ results'[c][Len(results'[c])] = r
           /\ \A i \in 1..Len(results[c]) : results'[c][i] = results[c][i]
<1>1. /\ \A t \in Tests : t # c => results'[t] = results[t]
      /\ \A t \in Tests : results[t] \in Seq(Results) /\ results'[t] \in Seq(Results)
      /\ results'[c] = Append(results[c], r)
      BY DEF TypeOK
<1> QED
    BY <1>1

\* The tests to retry are the failed ones that have not passed in this process.
LEMMA RetriedTests ==
    ASSUME RetryInv, phase # "reported"
    PROVE  TestsToRetry = {t \in runner.failed : ~HasPassed(t)}
<1>1. runner.failed \subseteq Tests /\ \A t \in Tests : runner.summaries[t] = None
      BY CountTypes DEF RetryInv, SummaryInv, NoSummaries
<1> QED
    BY <1>1 DEF TestsToRetry, AlreadyPassed

\* The end of a future leaves the serial counters alone and counts the attempt at last.
LEMMA CompletedRunner ==
    ASSUME TypeOK, NEW t \in Tests, Completed(t), t \in pending
    PROVE  /\ runner'.sdone = runner.sdone
           /\ pending' = pending \ {t}
           /\ pending' # {} \/ runner'.pdone = attempt
BY DEF TypeOK, Runners, Completed

LEMMA NextResumeInv == RetryInv /\ CountInv /\ ResumeInv /\ [Next]_vars => ResumeInv'
<1> SUFFICES ASSUME RetryInv, CountInv, ResumeInv, [Next]_vars PROVE ResumeInv'
    OBVIOUS
<1>0. TypeOK
      BY DEF RetryInv
<1> USE <1>0, CountTypes DEF process, history, Knows
<1>1. CASE InitialEnds
      BY <1>1 DEF InitialEnds, ResumeInv, Unreadable
<1>2. ASSUME NEW F \in SUBSET Tests, InitialFails(F) PROVE ResumeInv'
      <2>1. runner'.pdone = 0 /\ \A t \in Tests : runner'.sdone[t] = 0
            BY <1>2 DEF InitialFails, TypeOK, Runners, CountInv, ParallelCount
      <2> QED
          BY <1>2, <2>1 DEF InitialFails, ResumeInv, Unreadable
<1>3. CASE ParallelBegin
      BY <1>3 DEF ParallelBegin, ResumeInv, Unreadable
<1>4. CASE ParallelAttempt
      BY <1>4 DEF ParallelAttempt, ResumeInv, Unreadable
<1>5. ASSUME NEW t \in Tests, phase = "parallel", phase' = "parallel", t \in pending,
             Completed(t), UNCHANGED <<args, attempt, limit, disk>>
      PROVE  ResumeInv'
      BY <1>5, CompletedRunner DEF ResumeInv, Unreadable
<1>7. CASE SerialBegin
      <2>1. pending' \subseteq Tests /\ (args.serial > 0 \/ pending' = {})
            BY <1>7, TestsToRetryType DEF SerialBegin
      <2>2. pending' # {} => attempt = limit /\ pending = {} /\ phase = "parallel"
            BY <1>7 DEF SerialBegin
      <2>3. pending' # {} => runner.pdone >= args.parallel
            BY <2>2 DEF ResumeInv
      <2>4. \A t \in pending' : runner.sdone[t] = 0 \/ results[t] = <<>>
            BY <2>1, <2>2 DEF ResumeInv
      <2> QED
          BY <1>7, <2>1, <2>3, <2>4 DEF SerialBegin, ResumeInv, Unreadable
<1>8. ASSUME NEW t \in Tests, SerialSelect(t) PROVE ResumeInv'
      BY <1>8 DEF SerialSelect, ResumeInv, Unreadable
<1>9. ASSUME NEW r \in Results, SerialResult(r) PROVE ResumeInv'
      <2>1. current \in Tests /\ pending \subseteq Tests
            BY <1>9 DEF SerialResult, RetryInv, CurrentInv, TypeOK
      <2>2. \A t \in pending : t # current => results'[t] = results[t]
            BY <1>9, <2>1, Appended DEF SerialResult
      <2> QED
          BY <1>9, <2>2 DEF SerialResult, SaveBegins, ResumeInv, Unreadable
<1>10. ASSUME NEW ok \in BOOLEAN, SerialSaved(ok) PROVE ResumeInv'
      <2>1. /\ current \in Tests /\ pending \subseteq Tests /\ phase = "saving"
            /\ runner.pdone >= args.parallel /\ current \notin pending
            BY <1>10 DEF SerialSaved, RetryInv, CurrentInv, TypeOK, ResumeInv
      <2>2. /\ runner'.pdone = runner.pdone
            /\ \A t \in pending : runner'.sdone[t] = runner.sdone[t]
            BY <1>10, <2>1 DEF SerialSaved, TypeOK, Runners
      <2>3. ~Unreadable' => disk'.pdone >= args.parallel
            BY <1>10, <2>1 DEF SerialSaved, SaveEnds, StateData, ResumeInv, Unreadable
      <2> QED
          BY <1>10, <2>1, <2>2, <2>3 DEF SerialSaved, ResumeInv
<1>11. CASE SerialDone \/ Report \/ Crash
      BY <1>11 DEF SerialDone, Report, Crash, Idle, ResumeInv, Unreadable
<1>14. CASE Resume
      BY <1>14 DEF Resume, Idle, ResumeInv, Unreadable
<1>15. CASE Rerun
      BY <1>15 DEF Rerun, Idle, NewRunner, ResumeInv, Unreadable
<1>16. CASE FullRun
      BY <1>16 DEF FullRun, Idle, ResumeInv, Unreadable
<1>17. CASE UNCHANGED vars
      BY <1>17 DEF vars, ResumeInv, Unreadable
<1> QED
    BY <1>1, <1>2, <1>3, <1>4, <1>5, <1>7, <1>8, <1>9, <1>10, <1>11,
       <1>14, <1>15, <1>16, <1>17 DEF Next, Run, ParallelResult, ParallelError

\* The tests the loops may still run after a step are among those that they may have run
\* before it, but for the beginning of an attempt or of the serial retries.
LEMMA AgainStep ==
    ASSUME RetryInv, [Next]_vars, NEW t \in Tests, Again(t)'
    PROVE  \/ Again(t)
           \/ (ParallelAttempt \/ SerialBegin) /\ t \in TestsToRetry
           \/ phase = "retry" /\ t \in pending
           \/ phase = "saving" /\ t = current /\ ~Last(t).success /\ attempt # limit
<1> USE DEF Again, process, history
<1> QED
    BY DEF Next, Run, vars, InitialEnds, InitialFails, ParallelBegin, ParallelAttempt,
           ParallelResult, ParallelError, Completed, SerialBegin, SerialSelect, SerialResult,
           SerialSaved, SerialDone, Report, Crash, Resume, Rerun, FullRun, Idle, Last

\* The results of a process are as they were, or none as in a process that starts or has
\* died, or have one more for a test that the loops run.
LEMMA ResultsStep ==
    ASSUME RetryInv, ResumeInv, [Next]_vars
    PROVE  \/ /\ results' = results /\ Knows /\ Knows'
              /\ args' = args /\ runner'.failed = runner.failed
           \/ /\ \A t \in Tests : results'[t] = <<>>
              /\ phase' = "retry" \/ ~Knows'
           \/ \E c \in Tests, r \in Results :
                /\ Again(c) /\ ~Again(c)' /\ TestRun(r) /\ Knows /\ Knows'
                /\ results' = [results EXCEPT ![c] = Append(@, r)]
                /\ \/ phase = "parallel" /\ phase' = "parallel" /\ pending' = pending \ {c}
                   \/ phase = "serial" /\ phase' = "saving" /\ c = current /\ pending' = pending
                /\ UNCHANGED <<args, attempt, limit, current>> /\ runner'.failed = runner.failed
<1>0. TypeOK /\ CurrentInv
      BY DEF RetryInv
<1> DEFINE Same == /\ results' = results /\ Knows /\ Knows'
                   /\ args' = args /\ runner'.failed = runner.failed
           None0 == /\ \A t \in Tests : results'[t] = <<>>
                    /\ phase' = "retry" \/ ~Knows'
           One(c, r) ==
                /\ Again(c) /\ ~Again(c)' /\ TestRun(r) /\ Knows /\ Knows'
                /\ results' = [results EXCEPT ![c] = Append(@, r)]
                /\ \/ phase = "parallel" /\ phase' = "parallel" /\ pending' = pending \ {c}
                   \/ phase = "serial" /\ phase' = "saving" /\ c = current /\ pending' = pending
                /\ UNCHANGED <<args, attempt, limit, current>> /\ runner'.failed = runner.failed
<1> USE DEF process, history
<1>1. CASE InitialEnds \/ \E F \in SUBSET Tests : InitialFails(F)
      BY <1>1 DEF InitialEnds, InitialFails, ResumeInv, Knows
<1>2. CASE ParallelBegin \/ ParallelAttempt \/ SerialBegin \/ SerialDone
      BY <1>2 DEF ParallelBegin, ParallelAttempt, SerialBegin, SerialDone, Knows
<1>3. ASSUME NEW t \in Tests, SerialSelect(t) PROVE Same
      BY <1>3 DEF SerialSelect, Knows
<1>4. ASSUME NEW ok \in BOOLEAN, SerialSaved(ok) PROVE Same
      <2>1. runner'.failed = runner.failed
            BY <1>0, <1>4 DEF SerialSaved, TypeOK, Runners
      <2> QED
          BY <1>4, <2>1 DEF SerialSaved, Knows
<1>5. CASE Report
      <2>1. runner'.failed = runner.failed
            BY <1>0, <1>5 DEF Report, TypeOK, Runners
      <2> QED
          BY <1>5, <2>1 DEF Report, Knows
<1>6. ASSUME NEW t \in Tests, ParallelError(t) PROVE Same
      <2>1. Knows /\ Knows' /\ runner.run \in FullRuns
            BY <1>6 DEF ParallelError, Knows, RetryInv, RunInv
      <2>2. runner'.failed = runner.failed
            BY <1>0, <1>6, <2>1, CompletedType DEF ParallelError
      <2> QED
          BY <1>6, <2>1, <2>2 DEF ParallelError
<1>7. ASSUME NEW t \in Tests, NEW r \in Results, ParallelResult(t, r) PROVE One(t, r)
      <2>1. Knows /\ Knows' /\ runner.run \in FullRuns
            BY <1>7 DEF ParallelResult, Knows, RetryInv, RunInv
      <2>2. runner'.failed = runner.failed
            BY <1>0, <1>7, <2>1, CompletedType DEF ParallelResult
      <2> QED
          BY <1>7, <2>1, <2>2 DEF ParallelResult, Completed, Again
<1>8. ASSUME NEW r \in Results, SerialResult(r) PROVE One(current, r) /\ current \in Tests
      BY <1>0, <1>8 DEF SerialResult, Again, Knows, ResumeInv, CurrentInv
<1>9. CASE Crash \/ Resume \/ Rerun \/ FullRun
      BY <1>9 DEF Crash, Resume, Rerun, FullRun, Idle, Knows
<1>10. CASE UNCHANGED vars
      BY <1>10 DEF vars, Knows, ResumeInv
<1> QED
    BY <1>1, <1>2, <1>3, <1>4, <1>5, <1>6, <1>7, <1>8, <1>9, <1>10 DEF Next, Run

LEMMA NextOnceInv == RetryInv /\ CountInv /\ ResumeInv /\ OnceInv /\ [Next]_vars => OnceInv'
<1> SUFFICES ASSUME RetryInv, CountInv, ResumeInv, OnceInv, [Next]_vars PROVE OnceInv'
    OBVIOUS
<1>0. TypeOK
      BY DEF RetryInv
<1>1. CASE results' = results /\ Knows /\ Knows' /\ args' = args /\ runner'.failed = runner.failed
      <2>1. \A t \in Tests : HasPassed(t)' <=> HasPassed(t)
            BY <1>1 DEF HasPassed
      <2>2. ASSUME NEW t \in Tests, Again(t)' PROVE t \in runner.failed /\ ~HasPassed(t)
            <3>1. CASE Again(t)
                  BY <3>1 DEF OnceInv
            <3>2. CASE (ParallelAttempt \/ SerialBegin) /\ t \in TestsToRetry
                  BY <3>2, RetriedTests DEF ParallelAttempt, SerialBegin
            <3>3. CASE phase = "retry" /\ t \in pending
                  BY <3>3 DEF ResumeInv
            <3>4. CASE phase = "saving" /\ t = current /\ ~Last(t).success
                  <4>1. results[t] # <<>> /\ results[t] \in Seq(Results)
                        BY <1>0, <3>4 DEF CountInv, SerialCount, TypeOK
                  <4>2. \A i \in 1..(Len(results[t]) - 1) : ~results[t][i].success
                        BY DEF OnceInv
                  <4>3. \A i \in 1..Len(results[t]) :
                          i \in 1..(Len(results[t]) - 1) \/ i = Len(results[t])
                        BY <4>1
                  <4> QED
                      BY <1>1, <3>4, <4>1, <4>2, <4>3 DEF HasPassed, Last, OnceInv
            <3> QED
                BY <2>2, <3>1, <3>2, <3>3, <3>4, AgainStep
      <2> QED
          BY <1>1, <2>1, <2>2 DEF OnceInv
<1>2. CASE (\A t \in Tests : results'[t] = <<>>) /\ (phase' = "retry" \/ ~Knows')
      BY <1>2 DEF OnceInv, Again, Knows
<1>3. ASSUME NEW c \in Tests, NEW r \in Results, Again(c), ~Again(c)', Knows, Knows',
             results' = [results EXCEPT ![c] = Append(@, r)],
             \/ phase = "parallel" /\ phase' = "parallel" /\ pending' = pending \ {c}
             \/ phase = "serial" /\ phase' = "saving" /\ c = current /\ pending' = pending,
             UNCHANGED current, runner'.failed = runner.failed
      PROVE  OnceInv'
      <2>1. /\ \A t \in Tests : t # c => results'[t] = results[t]
            /\ results[c] \in Seq(Results) /\ Len(results'[c]) = Len(results[c]) + 1
            /\ \A i \in 1..Len(results[c]) : results'[c][i] = results[c][i]
            BY <1>0, <1>3, Appended
      <2>2. c \in runner.failed /\ ~HasPassed(c)
            BY <1>3 DEF OnceInv
      <2>3. \A t \in Tests : t \in runner.failed \/ results'[t] = <<>>
            BY <1>3, <2>1, <2>2 DEF OnceInv
      <2>4. ASSUME NEW t \in Tests, Again(t)' PROVE t \in runner.failed /\ ~HasPassed(t)'
            <3>1. t # c /\ Again(t)
                  BY <1>3, <2>4 DEF Again
            <3> QED
                BY <2>1, <3>1 DEF OnceInv, HasPassed
      <2>5. ASSUME NEW t \in Tests, NEW i \in 1..(Len(results'[t]) - 1)
            PROVE  ~results'[t][i].success
            <3>1. CASE t # c
                  BY <2>1, <3>1 DEF OnceInv
            <3>2. CASE t = c
                  <4>1. i \in 1..Len(results[c])
                        BY <2>1, <3>2
                  <4> QED
                      BY <2>1, <2>2, <3>2, <4>1 DEF HasPassed
            <3> QED
                BY <3>1, <3>2
      <2> QED
          BY <1>3, <2>3, <2>4, <2>5 DEF OnceInv
<1> QED
    BY <1>1, <1>2, <1>3, ResultsStep

\* Errors are not forgotten.
LEMMA ErrorBefore ==
    ASSUME RetryInv, [Next]_vars, used'["error"] = 0
    PROVE  used["error"] = 0 /\ ~Disturb("error")
<1>0. used \in [Disturbances -> Nat] /\ "error" \in Disturbances
      BY DEF RetryInv, TypeOK, Disturbances
<1>1. \A d \in Disturbances : Disturb(d) => used'["error"] >= used["error"] /\ d # "error"
      BY <1>0 DEF Disturb
<1>2. used' = used \/ \E d \in Disturbances : Disturb(d)
      BY DEF Next, Run, vars, InitialEnds, InitialFails, ParallelBegin, ParallelAttempt,
             ParallelResult, ParallelError, TestRun, SerialBegin, SerialSelect, SerialResult,
             SerialSaved, SaveEnds, SerialDone, Report, Crash, Resume, Rerun, FullRun,
             Disturbances
<1> QED
    BY <1>0, <1>1, <1>2

LEMMA NextKeptInv ==
    RetryInv /\ CountInv /\ ResumeInv /\ OnceInv /\ KeptInv /\ [Next]_vars => KeptInv'
<1> SUFFICES ASSUME RetryInv, CountInv, ResumeInv, OnceInv, KeptInv, [Next]_vars,
                    used'["error"] = 0
             PROVE  KeptInv'
    BY DEF KeptInv
<1>0. TypeOK /\ used["error"] = 0 /\ ~Disturb("error")
      BY ErrorBefore DEF RetryInv
<1>1. CASE results' = results /\ Knows /\ Knows' /\ args' = args /\ runner'.failed = runner.failed
      <2>1. \A t \in Tests : Kept(t)' <=> Kept(t)
            BY <1>1 DEF Kept
      <2>2. ASSUME NEW t \in Tests, Again(t)' PROVE ~Kept(t)
            <3>1. CASE Again(t)
                  BY <1>0, <3>1 DEF KeptInv
            <3>2. CASE ParallelAttempt
                  BY <1>0, <3>2 DEF ParallelAttempt, KeptInv, TypeOK
            <3>3. CASE SerialBegin
                  <4>1. phase = "parallel" /\ t \in pending' /\ args.serial > 0
                        BY <2>2, <3>3 DEF SerialBegin, Again
                  <4> QED
                      BY <1>0, <4>1, CountTypes DEF KeptInv
            <3>4. CASE phase = "retry" /\ t \in pending
                  BY <3>4 DEF ResumeInv
            <3>5. CASE phase = "saving" /\ t = current /\ attempt # limit
                  BY <1>0, <3>5 DEF KeptInv
            <3> QED
                BY <2>2, <3>1, <3>2, <3>3, <3>4, <3>5, AgainStep
      <2>3. ASSUME NEW t \in Tests, phase' = "parallel", Kept(t)
            PROVE  attempt' = limit' /\ args.serial = 0
            <3>1. ~ParallelBegin
                  BY <2>3 DEF ParallelBegin, ResumeInv, Kept
            <3>2. ~ParallelAttempt
                  BY <1>0, <2>3 DEF ParallelAttempt, KeptInv, TypeOK
            <3>3. phase = "parallel" /\ UNCHANGED <<attempt, limit>>
                  BY <2>3, <3>1, <3>2
                     DEF Next, Run, vars, process, InitialEnds, InitialFails, ParallelResult,
                         ParallelError, SerialBegin, SerialSelect, SerialResult, SerialSaved,
                         SerialDone, Report, Crash, Resume, Rerun, FullRun
            <3> QED
                BY <1>0, <2>3, <3>3 DEF KeptInv
      <2>4. ASSUME NEW t \in Tests, phase' = "saving", t = current', Kept(t)
            PROVE  attempt' = limit'
            <3>1. \A r \in Results : ~SerialResult(r)
                  BY <1>0, <1>1, Appended DEF SerialResult, RetryInv, CurrentInv, TypeOK
            <3>2. phase = "saving" /\ UNCHANGED <<attempt, limit, current>>
                  BY <2>4, <3>1
                     DEF Next, Run, vars, process, InitialEnds, InitialFails, ParallelResult,
                         ParallelBegin, ParallelAttempt, ParallelError, SerialBegin,
                         SerialSelect, SerialSaved, SerialDone, Report, Crash, Resume, Rerun,
                         FullRun
            <3> QED
                BY <1>0, <2>4, <3>2 DEF KeptInv
      <2> QED
          BY <1>0, <1>1, <2>1, <2>2, <2>3, <2>4 DEF KeptInv
<1>2. CASE (\A t \in Tests : results'[t] = <<>>) /\ (phase' = "retry" \/ ~Knows')
      BY <1>2 DEF KeptInv, Kept
<1>3. ASSUME NEW c \in Tests, NEW r \in Results, Again(c), ~Again(c)', TestRun(r),
             results' = [results EXCEPT ![c] = Append(@, r)],
             \/ phase = "parallel" /\ phase' = "parallel" /\ pending' = pending \ {c}
             \/ phase = "serial" /\ phase' = "saving" /\ c = current /\ pending' = pending,
             UNCHANGED <<args, attempt, limit, current>>
      PROVE  KeptInv'
      <2>1. /\ \A t \in Tests : t # c => results'[t] = results[t]
            /\ results[c] \in Seq(Results) /\ Len(results'[c]) = Len(results[c]) + 1
            /\ results'[c][Len(results'[c])] = r
            /\ \A i \in 1..Len(results[c]) : results'[c][i] = results[c][i]
            BY <1>0, <1>3, Appended
      <2>2. ~Kept(c)
            BY <1>0, <1>3 DEF KeptInv
      <2>3. \A i \in 1..Len(results'[c]) : results'[c][i].kept => i = Len(results'[c]) /\ r.kept
            <3> SUFFICES ASSUME NEW i \in 1..Len(results'[c]), results'[c][i].kept
                         PROVE  i = Len(results'[c]) /\ r.kept
                OBVIOUS
            <3>1. i \notin 1..Len(results[c])
                  BY <2>1, <2>2 DEF Kept
            <3> QED
                BY <2>1, <3>1
      <2>4. r.kept => SkipDelete /\ r.namespace /\ ~r.success
            BY <1>0, <1>3 DEF TestRun
      <2>5. \A t \in Tests : t # c => (Kept(t)' <=> Kept(t)) /\ (Again(t)' => Again(t))
            BY <1>3, <2>1 DEF Kept, Again
      <2>6. Kept(c)' => SkipDelete
            BY <2>3, <2>4 DEF Kept
      <2>7. \A t \in Tests : Again(t)' => ~Kept(t)'
            BY <1>0, <1>3, <2>5 DEF KeptInv
      <2>8. \A t \in Tests : phase' = "parallel" /\ Kept(t)' => attempt = limit /\ args.serial = 0
            BY <1>0, <1>3, <2>5, <2>6 DEF KeptInv, SkipDelete
      <2>9. phase' = "saving" /\ Kept(current)' => attempt = limit
            BY <1>3, <2>6 DEF SkipDelete
      <2>10. ASSUME NEW t \in Tests, NEW i \in 1..Len(results'[t]), results'[t][i].kept
            PROVE  /\ i = Len(results'[t]) /\ results'[t][i].namespace
                   /\ ~results'[t][i].success /\ ~args.delete
            <3>1. CASE t = c
                  BY <2>1, <2>3, <2>4, <2>10, <3>1 DEF SkipDelete
            <3>2. CASE t # c
                  BY <1>0, <2>1, <2>10, <3>2 DEF KeptInv
            <3> QED
                BY <3>1, <3>2
      <2> QED
          BY <1>3, <2>7, <2>8, <2>9, <2>10 DEF KeptInv
<1> QED
    BY <1>1, <1>2, <1>3, ResultsStep

\* The loops are through with a test when they were before, or it has passed, or it has
\* not been run by this process.
LEMMA DoneStep ==
    ASSUME RetryInv, CountInv, ResumeInv, OnceInv, [Next]_vars, used'["error"] = 0,
           results' = results, Knows, Knows', runner'.failed = runner.failed,
           NEW t \in Tests, Done(t)'
    PROVE  Done(t) \/ results[t] = <<>> \/ HasPassed(t)
<1>0. TypeOK /\ CurrentInv /\ ~Disturb("error")
      BY ErrorBefore DEF RetryInv
<1>1. t \in TestsToRetry \/ results[t] = <<>> \/ HasPassed(t) \/ phase = "reported"
      BY RetriedTests DEF OnceInv
<1> USE DEF process, history
<1>2. CASE ParallelBegin
      BY <1>2 DEF ParallelBegin, ResumeInv
<1>3. CASE ParallelAttempt
      BY <1>1, <1>3 DEF ParallelAttempt, Done
<1>4. CASE SerialBegin
      <2>1. phase = "parallel" /\ pending = {} /\ t \notin pending' /\ args.serial \in Nat
            BY <1>4, CountTypes DEF SerialBegin, Done
      <2>2. t \in TestsToRetry => args.serial = 0 /\ attempt = limit
            BY <1>4, <2>1 DEF SerialBegin
      <2> QED
          BY <1>1, <2>1, <2>2 DEF Done
<1>5. ASSUME NEW u \in Tests, SerialSelect(u) PROVE Done(t) \/ results[t] = <<>>
      <2>1. CASE Remaining(u) > 0
            BY <1>5, <2>1 DEF SerialSelect, Done
      <2>2. CASE ~(Remaining(u) > 0) /\ t # u
            BY <1>5, <2>2 DEF SerialSelect, Done
      <2>3. CASE ~(Remaining(u) > 0) /\ t = u
            <3>1. u \in pending /\ phase = "select"
                  BY <1>5 DEF SerialSelect
            <3>2. args.serial > 0 /\ runner.sdone[u] >= args.serial /\ runner.sdone[u] \in Nat
                  BY <2>3, <3>1, CountTypes DEF Remaining, ResumeInv
            <3>3. runner.sdone[u] # 0
                  BY <3>2, CountTypes
            <3> QED
                BY <2>3, <3>1, <3>3 DEF ResumeInv
      <2> QED
          BY <2>1, <2>2, <2>3
<1>6. ASSUME NEW ok \in BOOLEAN, SerialSaved(ok) PROVE Done(t) \/ HasPassed(t)
      <2>1. CASE t # current
            BY <1>6, <2>1 DEF SerialSaved, Done
      <2>2. CASE t = current
            <3>1. phase = "saving" /\ t \notin pending /\ (attempt = limit \/ Last(t).success)
                  BY <1>6, <2>2 DEF SerialSaved, Done, Last
            <3>2. results[t] \in Seq(Results) /\ results[t] # <<>>
                  BY <1>0, <2>2, <3>1 DEF TypeOK, CountInv, SerialCount
            <3>3. Len(results[t]) \in 1..Len(results[t])
                  BY <3>2
            <3> QED
                BY <2>2, <3>1, <3>3 DEF Done, HasPassed, Last
      <2> QED
          BY <2>1, <2>2
<1>7. CASE SerialDone \/ Report
      BY <1>7 DEF SerialDone, Report, Done
<1>8. CASE UNCHANGED vars
      BY <1>8 DEF vars, Done
<1>9. /\ \A u \in Tests : ~ParallelError(u)
      /\ \A u \in Tests, r \in Results : ~ParallelResult(u, r)
      /\ \A r \in Results : ~SerialResult(r)
      BY <1>0, Appended DEF ParallelError, ParallelResult, SerialResult, CurrentInv, TypeOK
<1>10. CASE InitialEnds \/ \E F \in SUBSET Tests : InitialFails(F)
      BY <1>10 DEF InitialEnds, InitialFails, Knows
<1>11. CASE Crash \/ Resume \/ Rerun \/ FullRun
      BY <1>11 DEF Crash, Resume, Rerun, FullRun, Idle
<1> QED
    BY <1>2, <1>3, <1>4, <1>5, <1>6, <1>7, <1>8, <1>9, <1>10, <1>11 DEF Next, Run

LEMMA NextDoneInv ==
    RetryInv /\ CountInv /\ ResumeInv /\ OnceInv /\ DoneInv /\ [Next]_vars => DoneInv'
<1> SUFFICES ASSUME RetryInv, CountInv, ResumeInv, OnceInv, DoneInv, [Next]_vars,
                    used'["error"] = 0, ~args'.delete, NEW t \in Tests,
                    Done(t)', results'[t] # <<>>, ~HasPassed(t)', Last(t)'.namespace
             PROVE  Last(t)'.kept
    BY DEF DoneInv
<1>0. TypeOK /\ used["error"] = 0
      BY ErrorBefore DEF RetryInv
<1>1. CASE results' = results /\ Knows /\ Knows' /\ args' = args /\ runner'.failed = runner.failed
      <2>1. ~HasPassed(t) /\ Last(t)' = Last(t) /\ results[t] # <<>>
            BY <1>1 DEF HasPassed, Last
      <2>2. Done(t)
            BY <1>1, <2>1, DoneStep
      <2> QED
          BY <1>0, <1>1, <2>1, <2>2 DEF DoneInv
<1>2. CASE \A u \in Tests : results'[u] = <<>>
      BY <1>2
<1>3. ASSUME NEW c \in Tests, NEW r \in Results, TestRun(r),
             results' = [results EXCEPT ![c] = Append(@, r)],
             \/ phase = "parallel" /\ phase' = "parallel" /\ pending' = pending \ {c}
             \/ phase = "serial" /\ phase' = "saving" /\ c = current /\ pending' = pending,
             UNCHANGED <<args, attempt, limit, current>>
      PROVE  Last(t)'.kept
      <2>1. /\ \A u \in Tests : u # c => results'[u] = results[u]
            /\ results[c] \in Seq(Results) /\ Len(results'[c]) = Len(results[c]) + 1
            /\ results'[c][Len(results'[c])] = r
            BY <1>0, <1>3, Appended
      <2>2. CASE t # c
            <3>1. results'[t] = results[t]
                  BY <2>1, <2>2
            <3>2. ~HasPassed(t) /\ Last(t)' = Last(t)
                  BY <3>1 DEF HasPassed, Last
            <3>3. Done(t)
                  BY <1>3, <2>2 DEF Done
            <3> QED
                BY <1>0, <1>3, <3>1, <3>2, <3>3 DEF DoneInv
      <2>3. CASE t = c
            <3>1. Last(t)' = r /\ Len(results'[c]) \in 1..Len(results'[c])
                  BY <2>1, <2>3 DEF Last
            <3>2. r.namespace /\ ~r.success
                  BY <2>1, <2>3, <3>1 DEF HasPassed
            <3>3. SkipDelete
                  BY <1>3, <2>3 DEF SkipDelete, Done
            <3> QED
                BY <1>3, <3>1, <3>2, <3>3 DEF TestRun
      <2> QED
          BY <2>2, <2>3
<1> QED
    BY <1>1, <1>2, <1>3, ResultsStep

LEMMA NamespaceInvHolds == Spec => []NamespaceInv
<1>1. Init => NamespaceInv
      BY DEF Init, NamespaceInv, ResumeInv, OnceInv, KeptInv, DoneInv, Again, Done, Kept, Knows,
             Unreadable
<1>2. RetryInv /\ CountInv /\ NamespaceInv /\ [Next]_vars => NamespaceInv'
      BY NextResumeInv, NextOnceInv, NextKeptInv, NextDoneInv DEF NamespaceInv
<1> QED
    BY <1>1, <1>2, RetryInvHolds, CountInvHolds, PTL DEF Spec

------------------------------------------------------------------------------
\* A full run that has not named its failed tests yet has none, and no retries.
NewRunInv == \A n \in FullRuns :
    n > Latest \/ (n = Latest /\ phase = "initial") =>
        initial[n] = {} /\ \A t \in Tests : allRuns[n][t] = 0

LEMMA NextNewRunInv == RetryInv /\ NewRunInv /\ [Next]_vars => NewRunInv'
<1> SUFFICES ASSUME RetryInv, NewRunInv, [Next]_vars, NEW n \in FullRuns,
                    (n > Latest \/ (n = Latest /\ phase = "initial"))'
             PROVE  initial'[n] = {} /\ \A t \in Tests : allRuns'[n][t] = 0
    BY DEF NewRunInv
<1>0. TypeOK /\ RunInv /\ n \in Nat /\ Latest \in Nat
      BY FullRunsType DEF RetryInv, RunInv
<1> USE DEF process, history
<1>1. ASSUME Latest' = Latest, phase' = "initial" => phase = "initial",
             UNCHANGED <<initial, allRuns>>
      PROVE  initial'[n] = {} /\ \A t \in Tests : allRuns'[n][t] = 0
      BY <1>0, <1>1 DEF NewRunInv
<1>2. ASSUME NEW F \in SUBSET Tests, InitialFails(F)
      PROVE  initial'[n] = {} /\ \A t \in Tests : allRuns'[n][t] = 0
      <2>1. runner.run = Latest /\ Latest' = Latest /\ n > Latest /\ allRuns' = allRuns
            BY <1>2 DEF InitialFails, RunInv, RetryInv, Latest
      <2>2. initial'[n] = initial[n]
            BY <1>0, <1>2, <2>1 DEF InitialFails, TypeOK
      <2> QED
          BY <1>0, <2>1, <2>2 DEF NewRunInv
<1>3. ASSUME NEW c \in Tests, Knows, phase' # "initial", Ran(c), Latest' = Latest,
             initial' = initial
      PROVE  initial'[n] = {} /\ \A t \in Tests : allRuns'[n][t] = 0
      <2>1. n > Latest /\ runner.run \in FullRuns /\ n # runner.run
            BY <1>0, <1>3, FullRunsType DEF RunInv
      <2>2. \A t \in Tests : allRuns'[n][t] = allRuns[n][t]
            BY <1>0, <1>3, <2>1, RanType
      <2> QED
          BY <1>0, <1>3, <2>1, <2>2 DEF NewRunInv
<1>4. ASSUME NEW t \in Tests, NEW r \in Results, ParallelResult(t, r)
      PROVE  initial'[n] = {} /\ \A u \in Tests : allRuns'[n][u] = 0
      BY <1>0, <1>3, <1>4, TestRunType DEF ParallelResult, Completed, Knows
<1>5. ASSUME NEW t \in Tests, ParallelError(t)
      PROVE  initial'[n] = {} /\ \A u \in Tests : allRuns'[n][u] = 0
      <2>1. Latest' = Latest
            BY <1>0, <1>5, DisturbType DEF ParallelError, Disturbances
      <2> QED
          BY <1>3, <1>5, <2>1 DEF ParallelError, Completed, Knows
<1>6. ASSUME NEW r \in Results, SerialResult(r)
      PROVE  initial'[n] = {} /\ \A u \in Tests : allRuns'[n][u] = 0
      BY <1>0, <1>3, <1>6, TestRunType DEF SerialResult, Knows, RetryInv, CurrentInv
<1>7. ASSUME NEW ok \in BOOLEAN, SerialSaved(ok)
      PROVE  initial'[n] = {} /\ \A u \in Tests : allRuns'[n][u] = 0
      <2>1. Latest' = Latest
            BY <1>0, <1>7, DisturbType DEF SerialSaved, SaveEnds, Disturbances, Latest
      <2> QED
          BY <1>1, <1>7, <2>1 DEF SerialSaved
<1>8. CASE Resume \/ Rerun
      <2>1. Latest' = Latest
            BY <1>0, <1>8, DisturbType DEF Resume, Rerun, Disturbances
      <2> QED
          BY <1>1, <1>8, <2>1 DEF Resume, Rerun
<1>9. CASE FullRun
      <2>1. Latest' = Latest + 1 /\ UNCHANGED <<initial, allRuns>>
            BY <1>0, <1>9, FullRunNumber DEF FullRun, Latest
      <2> QED
          BY <1>0, <2>1 DEF NewRunInv
<1>10. CASE \/ InitialEnds \/ ParallelBegin \/ ParallelAttempt \/ SerialBegin
            \/ (\E t \in Tests : SerialSelect(t)) \/ SerialDone \/ Report \/ Crash
            \/ UNCHANGED vars
      <2>1. UNCHANGED <<initial, allRuns, used>> /\ (phase' = "initial" => phase = "initial")
            BY <1>10 DEF InitialEnds, ParallelBegin, ParallelAttempt, SerialBegin, SerialSelect,
                         SerialDone, Report, Crash, vars
      <2> QED
          BY <1>1, <2>1 DEF Latest
<1> QED
    BY <1>2, <1>4, <1>5, <1>6, <1>7, <1>8, <1>9, <1>10 DEF Next, Run

LEMMA NewRunInvHolds == Spec => []NewRunInv
<1>1. Init => NewRunInv
      BY DEF Init, NewRunInv
<1> QED
    BY <1>1, NextNewRunInv, RetryInvHolds, PTL DEF Spec

\* When nothing was lost, the results of this process are those of all attempts.
OwnInv == Undisturbed /\ Knows => \A t \in Tests : Len(results[t]) = Attempts(t)

LEMMA NextOwnInv ==
    RetryInv /\ ResumeInv /\ NewRunInv /\ OwnInv /\ [Next]_vars => OwnInv'
<1> SUFFICES ASSUME RetryInv, ResumeInv, NewRunInv, OwnInv, [Next]_vars, Undisturbed', Knows'
             PROVE  \A t \in Tests : Len(results'[t]) = Attempts(t)'
    BY DEF OwnInv
<1>0. /\ TypeOK /\ CurrentInv /\ Undisturbed /\ ~Resume /\ ~Rerun
      /\ \A t \in Tests : ~ParallelError(t)
      BY UndisturbedBefore DEF RetryInv
<1> USE DEF process, history
<1>1. ASSUME NEW F \in SUBSET Tests, InitialFails(F)
      PROVE  \A t \in Tests : Len(results'[t]) = Attempts(t)'
      <2>1. runner'.run = Latest /\ Latest \in FullRuns
            BY <1>0, <1>1 DEF InitialFails, RetryInv, RunInv, TypeOK, Runners
      <2>2. phase = "initial" /\ UNCHANGED <<results, allRuns>>
            BY <1>1 DEF InitialFails
      <2>3. \A t \in Tests : results[t] = <<>> /\ allRuns[Latest][t] = 0
            BY <2>1, <2>2 DEF NewRunInv, ResumeInv, Knows
      <2> QED
          BY <2>1, <2>2, <2>3 DEF Attempts
<1>2. ASSUME NEW c \in Tests, NEW r \in Results, Knows, runner'.run = runner.run, Ran(c),
             results' = [results EXCEPT ![c] = Append(@, r)], Passes(c, r.success)
      PROVE  \A t \in Tests : Len(results'[t]) = Attempts(t)'
      <2>1. r.success \in BOOLEAN
            BY DEF Results
      <2>2. \A t \in Tests : Attempts(t)' = IF t = c THEN Attempts(t) + 1 ELSE Attempts(t)
            BY <1>2, <2>1, RanCount
      <2>3. /\ \A t \in Tests : t # c => results'[t] = results[t]
            /\ Len(results'[c]) = Len(results[c]) + 1
            BY <1>0, <1>2, Appended
      <2>4. \A t \in Tests : Len(results[t]) = Attempts(t)
            BY <1>0, <1>2 DEF OwnInv
      <2> QED
          BY <2>2, <2>3, <2>4
<1>3. ASSUME NEW t \in Tests, NEW r \in Results, ParallelResult(t, r)
      PROVE  \A u \in Tests : Len(results'[u]) = Attempts(u)'
      <2>1. Knows /\ runner.run \in FullRuns
            BY <1>3 DEF ParallelResult, Knows, RetryInv, RunInv
      <2>2. runner'.run = runner.run
            BY <1>0, <1>3, <2>1, CompletedType DEF ParallelResult
      <2> QED
          BY <1>2, <1>3, <2>1, <2>2 DEF ParallelResult, Completed
<1>4. ASSUME NEW r \in Results, SerialResult(r)
      PROVE  \A u \in Tests : Len(results'[u]) = Attempts(u)'
      BY <1>0, <1>2, <1>4 DEF SerialResult, CurrentInv, Knows
<1>5. CASE \/ ParallelBegin \/ ParallelAttempt \/ SerialBegin \/ SerialDone \/ Report
           \/ (\E t \in Tests : SerialSelect(t)) \/ (\E ok \in BOOLEAN : SerialSaved(ok))
           \/ UNCHANGED vars
      <2>1. Knows /\ UNCHANGED <<results, allRuns>>
            BY <1>5 DEF ParallelBegin, ParallelAttempt, SerialBegin, SerialDone, Report,
                        SerialSelect, SerialSaved, vars, Knows
      <2>2. runner'.run = runner.run
            BY <1>0, <1>5 DEF ParallelBegin, ParallelAttempt, SerialBegin, SerialDone, Report,
                              SerialSelect, SerialSaved, vars, TypeOK, Runners
      <2> QED
          BY <1>0, <2>1, <2>2 DEF OwnInv, Attempts
<1>6. ~InitialEnds /\ ~Crash /\ ~FullRun
      BY DEF InitialEnds, Crash, FullRun, Knows
<1> QED
    BY <1>0, <1>1, <1>3, <1>4, <1>5, <1>6 DEF Next, Run

LEMMA OwnInvHolds == Spec => []OwnInv
<1>1. Init => OwnInv
      BY DEF Init, OwnInv, Knows
<1>2. NamespaceInv => ResumeInv
      BY DEF NamespaceInv
<1> QED
    BY <1>1, <1>2, NextOwnInv, RetryInvHolds, NamespaceInvHolds, NewRunInvHolds, PTL DEF Spec

\* Of the attempts of a process on a test, the last one keeps its namespace if the test is
\* reported failed, and the report names it; --delete-failed-namespaces leaves none.  When
\* no run was continued these are all the attempts.
THEOREM NamespacesManagedHolds == Spec => []NamespacesManaged
<1>1. RetryInv /\ VerdictInv /\ NamespaceInv /\ OwnInv => NamespacesManaged
      <2> SUFFICES ASSUME RetryInv, VerdictInv, NamespaceInv, OwnInv, phase = "reported",
                          used["error"] = 0, NEW t \in runner.failed
                   PROVE  LET n == Len(results[t]) IN
                          /\ \A i \in 1..n : results[t][i].kept <=>
                                 /\ i = n /\ Reported(t, "failed")
                                 /\ ~args.delete /\ results[t][i].namespace
                          /\ \A i \in 1..n :
                                results[t][i].kept => runner.summaries[t].namespace = {i}
                          /\ Undisturbed => n = allRuns[runner.run][t]
          BY DEF NamespacesManaged
      <2> DEFINE n == Len(results[t])
      <2>1. /\ t \in Tests /\ results[t] \in Seq(Results) /\ n \in Nat
            /\ \A i \in 1..n : results[t][i] \in Results
            BY CountTypes DEF RetryInv, TypeOK
      <2>2. \A i \in 1..n : results[t][i].kept => /\ i = n /\ results[t][i].namespace
                                                 /\ ~results[t][i].success /\ ~args.delete
            BY <2>1 DEF NamespaceInv, KeptInv
      <2>3. /\ Reported(t, "failed") <=> ~HasPassed(t)
            /\ FinalStatus(t) = "failed" <=> ~HasPassed(t)
            BY <2>1, ReportedIff DEF FinalStatus
      <2>4. ASSUME NEW i \in 1..n, results[t][i].kept PROVE ~HasPassed(t)
            <3>1. \A j \in 1..(n - 1) : ~results[t][j].success
                  BY <2>1 DEF NamespaceInv, OnceInv
            <3>2. \A j \in 1..n : j \in 1..(n - 1) \/ j = n
                  BY <2>1
            <3>3. ~results[t][n].success
                  BY <2>2, <2>4
            <3> QED
                BY <3>1, <3>2, <3>3 DEF HasPassed
      <2>5. ASSUME NEW i \in 1..n, i = n, ~HasPassed(t), ~args.delete, results[t][i].namespace
            PROVE  results[t][i].kept
            BY <2>1, <2>5 DEF NamespaceInv, DoneInv, Done, Last
      <2>6. ASSUME NEW i \in 1..n, results[t][i].kept
            PROVE  runner.summaries[t].namespace = {i}
            <3>1. i = n /\ results[t][i].namespace /\ ~args.delete /\ FinalStatus(t) = "failed"
                  BY <2>2, <2>3, <2>4, <2>6
            <3>2. \A j \in 1..n : j <= i
                  BY <2>1, <3>1
            <3>3. FinalNamespace(t) = {i}
                  BY <2>1, <2>6, <3>1, <3>2 DEF FinalNamespace
            <3>4. runner.summaries[t] = Verdict(t)
                  BY <2>1 DEF VerdictInv
            <3> QED
                BY <3>3, <3>4 DEF Verdict
      <2>7. Undisturbed => n = allRuns[runner.run][t]
            BY <2>1 DEF OwnInv, Attempts, Knows
      <2>8. \A i \in 1..n : results[t][i].kept <=>
               i = n /\ Reported(t, "failed") /\ ~args.delete /\ results[t][i].namespace
            BY <2>1, <2>2, <2>3, <2>4, <2>5 DEF Results
      <2> QED
          BY <2>6, <2>7, <2>8
<1> QED
    BY <1>1, RetryInvHolds, VerdictInvHolds, NamespaceInvHolds, OwnInvHolds, PTL
------------------------------------------------------------------------------
\* The verdicts of the ledger: none but in a report.
Statuses == [t \in Tests |-> Status(t)]

OpenInv == phase # "reported" => Statuses = Ledger!Open

LEMMA OpenUnlessReported == RetryInv => OpenInv
BY DEF RetryInv, SummaryInv, NoSummaries, OpenInv, Statuses, Status, Ledger!Open

\* A test that is run again is a failed test of the run, before the report.
LEMMA RanIsTry ==
    ASSUME RetryInv, RetryInv', Knows, phase # "reported", phase' # "reported",
           NEW t \in runner.failed, Ran(t), NEW success \in BOOLEAN, Passes(t, success),
           UNCHANGED <<args, initial>>
    PROVE  Ledger!Next
<1>1. runner.run \in FullRuns /\ t \in Tests /\ t \in initial[runner.run]
      BY CountTypes DEF RetryInv, RunInv, FailedInv
<1>2. Statuses = Ledger!Open /\ Statuses' = Statuses
      <2>1. OpenInv /\ OpenInv'
            BY OpenUnlessReported, PTL
      <2> QED
          BY <2>1 DEF OpenInv, Ledger!Open
<1>3. Ledger!Try(runner.run, t, success)
      BY <1>1, <1>2 DEF Ledger!Try, Ran, Passes, Statuses
<1> QED
    BY <1>1, <1>3 DEF Ledger!Next

\* The report of create_test_summary is one that the ledger allows.
LEMMA ReportIsReport ==
    ASSUME RetryInv, CountInv, VerdictInv', Report
    PROVE  Ledger!Report(runner.run)
<1>0. /\ TypeOK /\ runner \in Runners /\ runner.run \in FullRuns /\ Knows
      /\ runner.failed = initial[runner.run]
      BY DEF RetryInv, TypeOK, RunInv, FailedInv, Knows, Report
<1>1. /\ runner'.failed = runner.failed /\ UNCHANGED <<args, initial, passed, allRuns>>
      /\ phase = "report" /\ phase' = "reported" /\ results' = results
      BY <1>0 DEF Report, Runners, history
<1>2. ASSUME NEW t \in Tests
      PROVE  Status(t)' = IF t \in initial[runner.run] THEN FinalStatus(t) ELSE "open"
      <2>1. Verdict(t) \in Summaries /\ Verdict(t).status = FinalStatus(t) /\ Verdict(t)' = Verdict(t)
            BY <1>1 DEF Verdict, FinalStatus, FinalNamespace, Summaries, HasPassed
      <2>2. runner'.summaries[t] = IF t \in runner.failed THEN Verdict(t) ELSE None
            BY <1>1, <2>1 DEF VerdictInv
      <2>3. Verdict(t) # None
            BY <2>1, AutoRetryAssumption
      <2> QED
          BY <1>0, <2>1, <2>2, <2>3 DEF Status
<1>3. Statuses = Ledger!Open
      BY <1>1, OpenUnlessReported DEF OpenInv
<1>4. Statuses' \in [Tests -> {"open", "flaky", "failed"}]
      BY <1>2 DEF Statuses, FinalStatus
<1>5. ASSUME NEW t \in Tests
      PROVE  /\ Statuses'[t] = "open" <=> t \notin initial[runner.run]
             /\ Statuses'[t] = "flaky" => t \in passed[runner.run]
             /\ Statuses'[t] = "failed" => \/ t \in passed[runner.run]
                                           \/ allRuns[runner.run][t] >= args.parallel + args.serial
      <2>1. Statuses'[t] = IF t \in initial[runner.run] THEN FinalStatus(t) ELSE "open"
            BY <1>2 DEF Statuses
      <2>2. FinalStatus(t) = "flaky" => t \in passed[runner.run]
            BY DEF FinalStatus, RetryInv, PassInv, PassedInRun
      <2>3. t \in initial[runner.run] \ passed[runner.run] =>
               allRuns[runner.run][t] >= args.parallel + args.serial
            BY <1>0, <1>1 DEF CountInv, SerialCount, Left, PassedInRun, Attempts
      <2> QED
          BY <2>1, <2>2, <2>3 DEF FinalStatus
<1> QED
    BY <1>1, <1>3, <1>4, <1>5 DEF Ledger!Report, Statuses

\* Every step of a process is a step of the ledger, or changes nothing in it.
LEMMA NextLedger ==
    /\ RetryInv /\ RetryInv' /\ CountInv /\ VerdictInv' /\ OnceInv /\ NewRunInv
    /\ [Next]_vars
    => [Ledger!Next]_(Ledger!ledgerVars)
<1> SUFFICES ASSUME RetryInv, RetryInv', CountInv, VerdictInv', OnceInv, NewRunInv, [Next]_vars
             PROVE  [Ledger!Next]_(Ledger!ledgerVars)
    OBVIOUS
<1> USE DEF process, history
<1>0. OpenInv /\ OpenInv'
      BY OpenUnlessReported, PTL
<1>1. ASSUME NEW F \in SUBSET Tests, InitialFails(F) PROVE Ledger!Next
      <2>1. /\ runner.run = Latest /\ Latest \in FullRuns /\ passed[Latest] = {}
            /\ F # {} /\ initial[Latest] = {} /\ \A t \in Tests : allRuns[Latest][t] = 0
            BY <1>1 DEF InitialFails, RetryInv, RunInv, NewRunInv
      <2>2. Statuses = Ledger!Open /\ Statuses' = Statuses
            BY <1>0, <1>1 DEF InitialFails, OpenInv, Ledger!Open
      <2>3. Ledger!Fail(Latest, F)
            BY <1>1, <2>1, <2>2 DEF InitialFails, Ledger!Fail, Statuses
      <2> QED
          BY <2>1, <2>3 DEF Ledger!Next
<1>2. ASSUME NEW t \in Tests, NEW r \in Results, ParallelResult(t, r) PROVE Ledger!Next
      <2>1. t \in runner.failed /\ r.success \in BOOLEAN
            BY <1>2 DEF ParallelResult, OnceInv, Again, Results
      <2>2. /\ Knows /\ phase # "reported" /\ phase' # "reported" /\ Ran(t)
            /\ Passes(t, r.success) /\ UNCHANGED <<args, initial>>
            BY <1>2 DEF ParallelResult, Completed, Knows
      <2> QED
          BY <2>1, <2>2, RanIsTry
<1>3. ASSUME NEW t \in Tests, ParallelError(t) PROVE Ledger!Next
      <2>1. t \in runner.failed
            BY <1>3 DEF ParallelError, OnceInv, Again
      <2>2. PICK success \in BOOLEAN : Passes(t, success)
            BY <1>3 DEF ParallelError
      <2>3. /\ Knows /\ phase # "reported" /\ phase' # "reported" /\ Ran(t)
            /\ UNCHANGED <<args, initial>>
            BY <1>3 DEF ParallelError, Completed, Knows
      <2> QED
          BY <2>1, <2>2, <2>3, RanIsTry
<1>4. ASSUME NEW r \in Results, SerialResult(r) PROVE Ledger!Next
      <2>1. current \in runner.failed /\ r.success \in BOOLEAN
            BY <1>4 DEF SerialResult, OnceInv, Again, RetryInv, CurrentInv, Results
      <2>2. /\ Knows /\ phase # "reported" /\ phase' # "reported" /\ Ran(current)
            /\ Passes(current, r.success) /\ UNCHANGED <<args, initial>>
            BY <1>4 DEF SerialResult, Knows
      <2> QED
          BY <2>1, <2>2, RanIsTry
<1>5. CASE Report
      <2>1. runner.run \in FullRuns
            BY <1>5 DEF Report, RetryInv, RunInv, Knows
      <2> QED
          BY <1>5, <2>1, ReportIsReport DEF Ledger!Next
<1>6. CASE \/ InitialEnds \/ ParallelBegin \/ ParallelAttempt \/ SerialBegin
           \/ (\E t \in Tests : SerialSelect(t)) \/ (\E ok \in BOOLEAN : SerialSaved(ok))
           \/ SerialDone \/ Crash \/ Resume \/ Rerun \/ FullRun
      <2>1. phase' # "reported" /\ UNCHANGED <<args, initial, passed, allRuns>>
            BY <1>6 DEF InitialEnds, ParallelBegin, ParallelAttempt, SerialBegin, SerialSelect,
                        SerialSaved, SerialDone, Crash, Resume, Rerun, FullRun
      <2>2. Statuses' = Ledger!Open
            BY <1>0, <2>1 DEF OpenInv, Ledger!Open
      <2>3. Ledger!Forget
            BY <2>1, <2>2 DEF Ledger!Forget, Statuses
      <2> QED
          BY <2>3 DEF Ledger!Next
<1>7. CASE UNCHANGED vars
      BY <1>7 DEF vars, Ledger!ledgerVars, Status
<1> QED
    BY <1>1, <1>2, <1>3, <1>4, <1>5, <1>6, <1>7 DEF Next, Run

\* All processes together keep the ledger of RetryLedger: only tests that failed in the
\* full run at hand are retried, and every report is borne out by what ran, for every
\* suite, command line and number of crashes, resumes, reruns, full runs and lost results.
THEOREM ImplementsLedgerHolds == Spec => ImplementsLedger
<1>1. Init => Ledger!Init
      <2> SUFFICES ASSUME Init PROVE Ledger!Init
          OBVIOUS
      <2>1. args.parallel + args.serial \in Nat
            BY AutoRetryAssumption DEF Init
      <2>2. Statuses = Ledger!Open
            BY DEF Init, NewRunner, Statuses, Status, Ledger!Open
      <2> QED
          BY <2>1, <2>2 DEF Init, Ledger!Init, Statuses
<1>2. NamespaceInv => OnceInv
      BY DEF NamespaceInv
<1> QED
    BY <1>1, <1>2, NextLedger, RetryInvHolds, CountInvHolds, VerdictInvHolds, NamespaceInvHolds,
       NewRunInvHolds, PTL DEF Spec, ImplementsLedger, Ledger!Spec
==============================================================================
