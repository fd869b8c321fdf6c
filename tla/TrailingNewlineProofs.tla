----------------------- MODULE TrailingNewlineProofs -------------------------
(***************************************************************************)
(* The script trims exactly the blank lines at the end, for every file,    *)
(* and loses text only when it is killed while it writes.  LoopInv is the  *)
(* loop's invariant: the lines counted so far are all blank.               *)
(***************************************************************************)
EXTENDS TrailingNewline, TLAPS

LoopInv ==
    /\ pc \in {"trim", "newline"} =>
         /\ lines = orig
         /\ \A i \in 1..Len(lines) : i > Len(lines) - trim_count => IsBlank(lines[i])
    /\ pc = "newline" /\ trim_count < Len(lines) => ~IsBlank(lines[Len(lines) - trim_count])

TrimmedInv == pc \in {"open", "write"} => IsTrimmed(lines, orig)

IInv == TypeOK /\ LoopInv /\ TrimmedInv /\ ResultIsTrimmed /\ FileKept

\* The lines kept after the loop, with their newline, are the trimmed file.
LEMMA KeptAreTrimmed ==
    ASSUME NEW g \in Seq(Lines), NEW n \in 0..Len(g), n < Len(g),
           ~IsBlank(g[Len(g) - n]),
           \A i \in 1..Len(g) : i > Len(g) - n => IsBlank(g[i])
    PROVE  LET k == SubSeq(g, 1, Len(g) - n)
           IN  k # <<>> /\ NewLines(k) \in Seq(Lines) /\ IsTrimmed(NewLines(k), g)
<1> DEFINE m == Len(g) - n
           k == SubSeq(g, 1, m)
           f == NewLines(k)
<1>1. /\ m \in 1..Len(g) /\ k \in Seq(Lines) /\ Len(k) = m /\ k # <<>> /\ DOMAIN k = 1..m
      /\ \A i \in 1..m : k[i] = g[i] /\ k[i] \in Lines
  OBVIOUS
<1>2. f = [k EXCEPT ![m].nl = TRUE]
  BY <1>1 DEF NewLines
<1> HIDE DEF m, k, f
<1>3. f = [i \in 1..m |-> IF i = m THEN [k[i] EXCEPT !.nl = TRUE] ELSE k[i]]
  BY <1>1, <1>2
<1>4. \A i \in 1..m : /\ f[i] = IF i = m THEN [g[i] EXCEPT !.nl = TRUE] ELSE g[i]
                      /\ f[i] \in Lines
  BY <1>1, <1>3 DEF Lines
<1>5. f \in Seq(Lines) /\ Len(f) = m /\ f # <<>>
  <2>1. m \in Nat \ {0}
    BY <1>1
  <2>2. DOMAIN f = 1..m /\ f = [i \in 1..m |-> f[i]]
    BY <1>3
  <2>3. f \in [1..m -> Lines]
    BY <1>4, <2>2, Zenon
  <2>4. f \in Seq(Lines)
    BY <2>1, <2>3
  <2>5. Len(f) = m
    BY <2>1, <2>2, <2>4
  <2> QED BY <2>1, <2>4, <2>5
<1>6. ~IsBlank(f[m])
  <2>1. g[m] \in Lines /\ g[m].text # Blank
    BY <1>1 DEF IsBlank, m
  <2>2. f[m] = [g[m] EXCEPT !.nl = TRUE]
    <3>1. m \in 1..m
      BY <1>1
    <3> QED BY <1>4, <3>1, Zenon
  <2> QED BY <2>1, <2>2 DEF IsBlank, Lines
<1>7. \A i \in (m + 1)..Len(g) : IsBlank(g[i])
  <2>1. \A i \in (m + 1)..Len(g) : i \in 1..Len(g) /\ i > Len(g) - n
    BY <1>1 DEF m
  <2> QED BY <2>1
<1>8. IsTrimmed(f, g)
  BY <1>1, <1>4, <1>5, <1>6, <1>7 DEF IsTrimmed
<1> QED BY <1>1, <1>5, <1>8 DEF m, k, f

LEMMA InitHolds == Init => IInv
BY ConstantsAssumption DEF Init, IInv, TypeOK, LoopInv, TrimmedInv, ResultIsTrimmed, FileKept

LEMMA StepHolds == IInv /\ [Next]_vars => IInv'
<1> SUFFICES ASSUME IInv, [Next]_vars PROVE IInv'
  OBVIOUS
<1> USE DEF IInv
<1>1. CASE ReadLines
  BY <1>1 DEF ReadLines, TypeOK, LoopInv, TrimmedInv, ResultIsTrimmed, FileKept
<1>2. CASE Trim
  <2>1. TypeOK'
    BY <1>2 DEF Trim, TrimBlank, TrimEnds, TypeOK
  <2>2. LoopInv'
    BY <1>2 DEF Trim, TrimBlank, TrimEnds, TypeOK, LoopInv
  <2>3. (TrimmedInv /\ ResultIsTrimmed /\ FileKept)'
    BY <1>2 DEF Trim, TrimBlank, TrimEnds, TrimmedInv, ResultIsTrimmed, FileKept
  <2> QED BY <2>1, <2>2, <2>3
<1>3. CASE Newline
  <2> DEFINE kept == SubSeq(lines, 1, Len(lines) - trim_count)
  <2>1. lines \in Seq(Lines) /\ trim_count \in 0..Len(lines) /\ lines = orig /\ file = orig
    BY <1>3 DEF Newline, TypeOK, LoopInv, FileKept
  <2>2. CASE trim_count < Len(lines)
    <3>1. kept # <<>> /\ NewLines(kept) \in Seq(Lines) /\ IsTrimmed(NewLines(kept), lines)
      BY <1>3, <2>1, <2>2, KeptAreTrimmed DEF Newline, LoopInv
    <3>2. /\ lines' = NewLines(kept) /\ trim_count' = 0 /\ pc' = "open"
          /\ file' = file /\ orig' = orig
      BY <1>3, <3>1 DEF Newline
    <3> QED BY <2>1, <3>1, <3>2 DEF TypeOK, LoopInv, TrimmedInv, ResultIsTrimmed, FileKept
  <2>3. CASE trim_count = Len(lines)
    <3>1. kept = <<>>
      BY <2>1, <2>3
    <3>2. pc' = "error" /\ UNCHANGED <<file, lines, trim_count, orig>>
      BY <1>3, <3>1 DEF Newline
    <3>3. \A i \in 1..Len(orig) : IsBlank(orig[i])
      BY <1>3, <2>1, <2>3 DEF Newline, LoopInv
    <3> QED BY <2>1, <3>2, <3>3 DEF TypeOK, LoopInv, TrimmedInv, ResultIsTrimmed, FileKept
  <2> QED BY <2>1, <2>2, <2>3
<1>4. CASE OpenForWrite
  <2>1. TypeOK'
    BY <1>4 DEF OpenForWrite, TypeOK
  <2>2. (LoopInv /\ TrimmedInv /\ ResultIsTrimmed /\ FileKept)'
    BY <1>4 DEF OpenForWrite, LoopInv, TrimmedInv, ResultIsTrimmed, FileKept
  <2> QED BY <2>1, <2>2
<1>5. CASE Write
  BY <1>5 DEF Write, TypeOK, LoopInv, TrimmedInv, ResultIsTrimmed, FileKept
<1>6. CASE Kill
  <2>1. TypeOK'
    BY <1>6 DEF Kill, TypeOK
  <2>2. (LoopInv /\ TrimmedInv /\ ResultIsTrimmed)'
    BY <1>6 DEF Kill, LoopInv, TrimmedInv, ResultIsTrimmed
  <2>3. FileKept'
    BY <1>6 DEF Kill, TrimmedInv, FileKept
  <2> QED BY <2>1, <2>2, <2>3
<1>7. CASE RenderReadme
  BY <1>7, ConstantsAssumption DEF RenderReadme, TypeOK, LoopInv, TrimmedInv, ResultIsTrimmed, FileKept
<1>8. CASE UNCHANGED vars
  BY <1>8 DEF vars, TypeOK, LoopInv, TrimmedInv, ResultIsTrimmed, FileKept
<1> QED BY <1>1, <1>2, <1>3, <1>4, <1>5, <1>6, <1>7, <1>8 DEF Next

LEMMA IInvHolds == Spec => []IInv
BY InitHolds, StepHolds, PTL DEF Spec

\* The type invariant of the script: its counter never runs past the lines.
THEOREM TypeCorrect == Spec => []TypeOK
BY IInvHolds, PTL DEF IInv

\* process_lines and the write: what a run that ends well leaves is the trimmed file.
THEOREM ResultIsTrimmedHolds == Spec => []ResultIsTrimmed
BY IInvHolds, PTL DEF IInv

\* Only a kill in the middle of the writing loses text.
THEOREM FileKeptHolds == Spec => []FileKept
BY IInvHolds, PTL DEF IInv
==============================================================================
