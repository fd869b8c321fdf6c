---------------------------- MODULE RetryLedger ----------------------------
(***************************************************************************)
(* What scripts/auto-retry-tests.py promises of a suite, whichever         *)
(* processes do the work and whatever they remember: a ledger of the full  *)
(* runs, of the retries of their failed tests and of the verdicts in hand. *)
(* AutoRetry, with its phases, loops, counters, crashes and state file,    *)
(* implements it.                                                          *)
(***************************************************************************)
EXTENDS Naturals

CONSTANTS Tests,    \* the tests of the suite
          Runs      \* the full runs, by number

VARIABLES
    retries,    \* the retries per test that the command line asks for
    failed,     \* per full run, the tests that failed in it
    passed,     \* per full run, the tests that have passed a retry
    tries,      \* per full run and test, the retries made
    verdict     \* the report in hand: per test "open", "flaky" or "failed"

ledgerVars == <<retries, failed, passed, tries, verdict>>

\* No process has reported, or a new one has begun.
Open == [t \in Tests |-> "open"]

Init ==
    /\ retries \in Nat
    /\ failed = [n \in Runs |-> {}]
    /\ passed = [n \in Runs |-> {}]
    /\ tries = [n \in Runs |-> [t \in Tests |-> 0]]
    /\ verdict = Open

\* A full run names the tests that failed in it, once.
Fail(n, F) ==
    /\ failed[n] = {} /\ passed[n] = {} /\ \A t \in Tests : tries[n][t] = 0
    /\ failed' = [failed EXCEPT ![n] = F]
    /\ verdict = Open
    /\ UNCHANGED <<retries, passed, tries, verdict>>

\* A test that failed in full run n, and no other, is run again, before a report.
Try(n, t, success) ==
    /\ t \in failed[n]
    /\ tries' = [tries EXCEPT ![n][t] = @ + 1]
    /\ passed' = IF success THEN [passed EXCEPT ![n] = @ \cup {t}] ELSE passed
    /\ verdict = Open
    /\ UNCHANGED <<retries, failed, verdict>>

\* The report on full run n has a verdict on each of its failed tests and on no other.
\* A flaky test has passed; a failed one has had its retries, unless a pass was lost.
Report(n) ==
    /\ verdict = Open
    /\ verdict' \in [Tests -> {"open", "flaky", "failed"}]
    /\ \A t \in Tests :
        /\ verdict'[t] = "open" <=> t \notin failed[n]
        /\ verdict'[t] = "flaky" => t \in passed[n]
        /\ verdict'[t] = "failed" => t \in passed[n] \/ tries[n][t] >= retries
    /\ UNCHANGED <<retries, failed, passed, tries>>

\* A new process starts; the report of the one before is not read again.
Forget ==
    /\ verdict' = Open
    /\ UNCHANGED <<retries, failed, passed, tries>>

Next ==
    \/ \E n \in Runs :
        \/ \E F \in SUBSET Tests : F # {} /\ Fail(n, F)
        \/ \E t \in Tests, success \in BOOLEAN : Try(n, t, success)
        \/ Report(n)
    \/ Forget

Spec == Init /\ [][Next]_ledgerVars
=============================================================================
