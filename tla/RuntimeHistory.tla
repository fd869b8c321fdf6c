--------------------------- MODULE RuntimeHistory ----------------------------
(***************************************************************************)
(* The runtime history of scripts/auto-retry-tests.py: a dictionary of     *)
(* recent runtimes per test, shared by the worker threads of a parallel    *)
(* attempt without a lock, and rewritten in place to runtime_history.json  *)
(* after every test.                                                       *)
(*                                                                         *)
(* An attempt runs every test of a batch once; a serial attempt is a batch *)
(* of one test.  Only runs that reach MIN_RUNTIME_THRESHOLD are recorded;  *)
(* the n-th such run of a test, over all processes, is recorded as n.      *)
(* Runtimes below the threshold in a file of an earlier version of the     *)
(* script, which loading drops, are left out.                              *)
(*                                                                         *)
(* External: the file system, which may refuse to open or to write the     *)
(* file, and the interpreter's switching of threads.                       *)
(***************************************************************************)
EXTENDS Integers, Sequences, FiniteSets

CONSTANTS
    Tests,
    MAX_RUNTIME_HISTORY,
    Parallel,           \* --parallel: worker threads
    None,               \* no entry in a dictionary
    Unreadable,         \* a runtime_history.json that is missing, empty or not JSON
    Garbled,            \* histories that two threads writing at once may leave, and neither wrote
    MaxRuns,            \* bound: recorded runs per test
    MaxStarts           \* bound: processes

ASSUME ConstantsAssumption ==
    /\ IsFiniteSet(Tests)
    /\ {MAX_RUNTIME_HISTORY, Parallel} \subseteq Nat \ {0}
    /\ {MaxRuns, MaxStarts} \subseteq Nat
    /\ None \notin Seq(Nat)
    /\ Unreadable \notin [Tests -> {None} \cup Seq(Nat)]
    /\ Garbled \subseteq [Tests -> {None} \cup Seq(Nat)]

VARIABLES
    up,         \* the process: "down", "saving" what it has loaded, or "ready"
    mem,        \* mem[t]: self.runtime_history[t].runtimes
    file,       \* runtime_history.json
    todo,       \* tests of the batch whose thread has not yet come to its update
    pc,         \* pc[t]: where the thread of test t is in update_runtime_history
    size,       \* size[t]: the length of the dictionary when t began to iterate over it
    snap,       \* snap[t]: what thread t has copied of it
    clean,      \* clean[t]: no other thread has touched the file since t opened it
    batch,      \* ghost: the tests of the current or last attempt
    newcomers,  \* ghost: those of them that had no entry when the attempt began
    dropped,    \* ghost: those of them whose result was lost to an exception
    unsaved,    \* ghost: those of them that could not save the history
    mixed,      \* ghost: threads have left a file that none of them wrote
    count,      \* ghost: count[t] recorded runs of t
    first,      \* ghost: first[t] of them before this process
    starts      \* ghost: processes so far

threadVars == <<todo, pc, size, snap, clean>>
attemptVars == <<batch, newcomers, dropped, unsaved>>
ghostVars == <<attemptVars, mixed, count, first, starts>>
vars == <<up, mem, file, threadVars, ghostVars>>
------------------------------------------------------------------------------
History == [Tests -> {None} \cup Seq(Nat)]
NoHistory == [t \in Tests |-> None]

TypeOK ==
    /\ up \in {"down", "saving", "ready"}
    /\ mem \in History
    /\ file \in {Unreadable} \cup History
    /\ todo \subseteq Tests
    /\ pc \in [Tests -> {"idle", "append", "trim", "iterate", "write"}]
    /\ size \in [Tests -> Nat]
    /\ snap \in [Tests -> History]
    /\ clean \in [Tests -> BOOLEAN]
    /\ {batch, newcomers, dropped, unsaved} \subseteq SUBSET Tests
    /\ mixed \in BOOLEAN
    /\ count \in [Tests -> Nat] /\ first \in [Tests -> Nat]
    /\ starts \in Nat

Init ==
    /\ up = "down" /\ mem = NoHistory /\ file = Unreadable
    /\ todo = {}
    /\ pc = [t \in Tests |-> "idle"]
    /\ size = [t \in Tests |-> 0]
    /\ snap = [t \in Tests |-> NoHistory]
    /\ clean = [t \in Tests |-> TRUE]
    /\ batch = {} /\ newcomers = {} /\ dropped = {} /\ unsaved = {} /\ mixed = FALSE
    /\ count = [t \in Tests |-> 0] /\ first = [t \in Tests |-> 0]
    /\ starts = 0

Active == {t \in Tests : pc[t] # "idle"}
Keys(h) == {t \in Tests : h[t] # None}
------------------------------------------------------------------------------
(***************************************************************************)
(* A process starts.                                                       *)
(***************************************************************************)
\* load_runtime_history keeps the tests that have runtimes, all of them.
Loaded == IF file = Unreadable THEN NoHistory
          ELSE [t \in Tests |-> IF file[t] = <<>> THEN None ELSE file[t]]

\* No attempt has begun.
NoAttempt == batch' = {} /\ newcomers' = {} /\ dropped' = {} /\ unsaved' = {}

\* Mutant: a file that cannot be read is not told from one that can.
LoadUnchecked ==
    /\ up = "down" /\ starts < MaxStarts
    /\ starts' = starts + 1
    /\ mem' = file
    /\ up' = "ready"
    /\ NoAttempt
    /\ first' = count
    /\ UNCHANGED <<file, threadVars, mixed, count>>

\* The start of a process; if anything was loaded, it opens the file to write the cleaned
\* history back, which empties it.  A warning is all there is if it cannot be opened.
Load ==
    /\ up = "down" /\ starts < MaxStarts
    /\ starts' = starts + 1
    /\ mem' = Loaded
    /\ \/ Keys(Loaded) # {} /\ up' = "saving" /\ file' = Unreadable
       \/ up' = "ready" /\ file' = file
    /\ NoAttempt
    /\ first' = count
    /\ UNCHANGED <<threadVars, mixed, count>>

\* The rewritten file is complete, or could not be written.
LoadSaved ==
    /\ up = "saving"
    /\ up' = "ready"
    /\ file' \in {mem, Unreadable}
    /\ UNCHANGED <<mem, threadVars, ghostVars>>
------------------------------------------------------------------------------
(***************************************************************************)
(* An attempt: retry_tests_in_parallel submits a batch of tests to the     *)
(* pool, retry_test_serially runs a single one.                            *)
(***************************************************************************)
Attempt(T) ==
    /\ up = "ready" /\ todo = {} /\ Active = {} /\ T # {}
    /\ todo' = T /\ batch' = T
    /\ newcomers' = T \ Keys(mem)
    /\ dropped' = {} /\ unsaved' = {}
    /\ UNCHANGED <<up, mem, file, pc, size, snap, clean, mixed, count, first, starts>>

\* Thread t begins `for test_name, history in self.runtime_history.items()`.
Iterate(t) ==
    /\ pc' = [pc EXCEPT ![t] = "iterate"]
    /\ size' = [size EXCEPT ![t] = Cardinality(Keys(mem'))]
    /\ UNCHANGED snap

\* Mutant: a quick failure discards the history of its test.
UpdateDiscards(t, long) ==
    /\ t \in todo /\ Cardinality(Active) < Parallel
    /\ todo' = todo \ {t}
    /\ mem' = [mem EXCEPT ![t] = IF ~long THEN None ELSE IF @ = None THEN <<>> ELSE @]
    /\ \/ /\ long /\ count[t] < MaxRuns
          /\ pc' = [pc EXCEPT ![t] = "append"]
          /\ UNCHANGED <<size, snap>>
       \/ ~long /\ Iterate(t)
    /\ UNCHANGED <<up, file, clean, ghostVars>>

\* The test of a worker has ended after a recorded (long) or a short run;
\* update_runtime_history makes an entry for a test that has none.  add_runtime ignores a
\* short run.
Update(t, long) ==
    /\ t \in todo /\ Cardinality(Active) < Parallel
    /\ todo' = todo \ {t}
    /\ mem' = [mem EXCEPT ![t] = IF @ = None THEN <<>> ELSE @]
    /\ \/ /\ long /\ count[t] < MaxRuns
          /\ pc' = [pc EXCEPT ![t] = "append"]
          /\ UNCHANGED <<size, snap>>
       \/ ~long /\ Iterate(t)
    /\ UNCHANGED <<up, file, clean, ghostVars>>

\* add_runtime: self.runtimes.append(duration).
AppendRuntime(t) ==
    /\ pc[t] = "append"
    /\ pc' = [pc EXCEPT ![t] = "trim"]
    /\ count' = [count EXCEPT ![t] = @ + 1]
    /\ mem' = [mem EXCEPT ![t] = Append(@, count[t] + 1)]
    /\ UNCHANGED <<up, file, todo, size, snap, clean, attemptVars, mixed, first, starts>>

\* Mutant: the oldest runs are kept.
OldestRuntimes(s) == IF Len(s) > MAX_RUNTIME_HISTORY THEN SubSeq(s, 1, MAX_RUNTIME_HISTORY) ELSE s

\* Mutant: nothing is cut off.
AllRuntimes(s) == s

\* self.runtimes[-MAX_RUNTIME_HISTORY :]
RecentRuntimes(s) ==
    IF Len(s) > MAX_RUNTIME_HISTORY
    THEN SubSeq(s, Len(s) - MAX_RUNTIME_HISTORY + 1, Len(s)) ELSE s

\* add_runtime cuts the list, some time after it has grown, and save_runtime_history begins.
TrimRuntimes(t) ==
    /\ pc[t] = "trim"
    /\ mem' = [mem EXCEPT ![t] = RecentRuntimes(@)]
    /\ Iterate(t)
    /\ UNCHANGED <<up, file, todo, clean, ghostVars>>

\* The dictionary has the size it had: next() does not fail.
Iterates(t) == pc[t] = "iterate" /\ Cardinality(Keys(mem)) = size[t]

\* save_runtime_history copies the entry of test u.
CopyEntry(t, u) ==
    /\ Iterates(t)
    /\ u \in Keys(mem) \ Keys(snap[t])
    /\ snap' = [snap EXCEPT ![t][u] = mem[u]]
    /\ UNCHANGED <<up, mem, file, todo, pc, size, clean, ghostVars>>

\* Thread t is through with update_runtime_history.
Returns(t) ==
    /\ pc' = [pc EXCEPT ![t] = "idle"]
    /\ size' = [size EXCEPT ![t] = 0]
    /\ snap' = [snap EXCEPT ![t] = NoHistory]

\* RuntimeError, "dictionary changed size during iteration": the future of the test fails
\* and its result is dropped.
IterationFails(t) ==
    /\ pc[t] = "iterate" /\ Cardinality(Keys(mem)) # size[t]
    /\ dropped' = dropped \cup {t}
    /\ Returns(t)
    /\ UNCHANGED <<up, mem, file, todo, clean, batch, newcomers, unsaved, mixed, count, first,
                   starts>>

\* Somebody opens the file or writes to it: those who have it open notice only later.
Interferes(t) == clean' = [u \in Tests |-> IF u = t THEN TRUE
                                           ELSE clean[u] /\ pc[u] # "write"]

\* Mutant: the history is saved before the new runtime is added.
OpenFileStale(t) ==
    /\ Iterates(t)
    /\ Keys(snap[t]) = Keys(mem)
    /\ pc' = [pc EXCEPT ![t] = "write"]
    /\ snap' = [snap EXCEPT ![t][t] = IF @ = <<>> THEN @ ELSE SubSeq(@, 1, Len(@) - 1)]
    /\ file' = Unreadable
    /\ Interferes(t)
    /\ UNCHANGED <<up, mem, todo, size, ghostVars>>

\* The copy is complete, and open(file_path, "w") empties the file.
OpenFile(t) ==
    /\ Iterates(t)
    /\ Keys(snap[t]) = Keys(mem)
    /\ pc' = [pc EXCEPT ![t] = "write"]
    /\ file' = Unreadable
    /\ Interferes(t)
    /\ UNCHANGED <<up, mem, todo, size, snap, ghostVars>>

\* It cannot be opened: safe_json_operation warns and returns False, which nobody looks
\* at.  But if its directory is gone, the FileNotFoundError goes on to the future, and the
\* result is dropped; a serial retry ends the process.
OpenFails(t) ==
    /\ Iterates(t)
    /\ Keys(snap[t]) = Keys(mem)
    /\ Returns(t)
    /\ unsaved' = unsaved \cup {t}
    /\ \/ UNCHANGED <<file, dropped>>
       \/ file' = Unreadable /\ dropped' = dropped \cup {t}
    /\ UNCHANGED <<up, mem, todo, clean, batch, newcomers, mixed, count, first, starts>>

\* Threads that write at the same time each use an offset of their own, and what they
\* leave may be JSON that holds a part of each.
Mixes(t) == ~clean[t] /\ file' \in Garbled /\ mixed' = TRUE

\* json.dump and the close of the file; of two that write at the same time, what is left
\* may be no JSON either.
WriteFile(t) ==
    /\ pc[t] = "write"
    /\ Returns(t)
    /\ \/ file' = snap[t] /\ UNCHANGED mixed
       \/ ~clean[t] /\ file' = Unreadable /\ UNCHANGED mixed
       \/ Mixes(t)
    /\ Interferes(t)
    /\ UNCHANGED <<up, mem, todo, attemptVars, count, first, starts>>

\* The write fails part of the way, and again there is only a warning.
WriteFails(t) ==
    /\ pc[t] = "write"
    /\ Returns(t)
    /\ \/ file' = Unreadable /\ UNCHANGED mixed
       \/ ~clean[t] /\ UNCHANGED <<file, mixed>>
       \/ Mixes(t)
    /\ Interferes(t)
    /\ unsaved' = unsaved \cup {t}
    /\ UNCHANGED <<up, mem, todo, batch, newcomers, dropped, count, first, starts>>

\* The process ends, or is killed at any point.
Exit ==
    /\ up # "down"
    /\ up' = "down" /\ mem' = NoHistory
    /\ todo' = {}
    /\ pc' = [t \in Tests |-> "idle"]
    /\ size' = [t \in Tests |-> 0]
    /\ snap' = [t \in Tests |-> NoHistory]
    /\ clean' = [t \in Tests |-> TRUE]
    /\ NoAttempt
    /\ UNCHANGED <<file, mixed, count, first, starts>>

Next ==
    \/ Load \/ LoadSaved \/ Exit
    \/ \E T \in SUBSET Tests : Attempt(T)
    \/ \E t \in Tests :
          \/ \E long \in BOOLEAN : Update(t, long)
          \/ AppendRuntime(t) \/ TrimRuntimes(t)
          \/ \E u \in Tests : CopyEntry(t, u)
          \/ IterationFails(t)
          \/ OpenFile(t) \/ OpenFails(t) \/ WriteFile(t) \/ WriteFails(t)

Spec == Init /\ [][Next]_vars
------------------------------------------------------------------------------
(***************************************************************************)
(* Properties.                                                             *)
(***************************************************************************)
\* The newest runs of this process are all in the history, in their order, and nothing
\* else follows them: neither another thread's update, nor cutting the list, nor an
\* iteration loses one.
NewestRunsKept ==
    up # "down" => \A t \in Tests : \A k \in 0..(MAX_RUNTIME_HISTORY - 1) :
        count[t] - k > first[t] => /\ mem[t] # None /\ Len(mem[t]) > k
                                   /\ mem[t][Len(mem[t]) - k] = count[t] - k

\* "Keep only the most recent runs to avoid infinite growth": a thread may save the list
\* of another one between its growing and its cutting, and loading does not cut, so the
\* history can exceed the maximum, but by no more than one run per process, as long as
\* no two writers have mixed their contents.
BoundedHistory ==
    ~mixed => \A t \in Tests :
        /\ mem[t] # None => Len(mem[t]) <= MAX_RUNTIME_HISTORY + starts
        /\ file # Unreadable /\ file[t] # None => Len(file[t]) <= MAX_RUNTIME_HISTORY + starts

\* A save that does not fail and runs alone repairs the file: whatever parallel attempts,
\* failed saves and killed processes have left of it, after an attempt of a single test it
\* holds the whole history again, unless this very save has failed.
LoneUpdateIsSaved ==
    \A t \in Tests : batch = {t} /\ todo = {} /\ pc[t] = "idle" => file = mem \/ t \in unsaved

\* But for an output directory that is gone, a result is lost only if several tests run in
\* the attempt and one of them has no entry in the history when it begins: a serial retry
\* loses none, and neither does an attempt of tests that all have an entry.
DroppedOnlyByNewTest ==
    dropped \ unsaved # {} => newcomers # {} /\ \A t \in Tests : batch # {t}
==============================================================================
