--------------------------- MODULE TrailingNewline ---------------------------
(***************************************************************************)
(* scripts/ensure_one_trailing_newline.py: cut the blank lines at the end  *)
(* of a file, see to it that its last line ends with a newline, and write  *)
(* the file back in place.  scripts/render_readme.sh renders the file from *)
(* its template before each run.  The process may be killed.               *)
(*                                                                         *)
(* A line is its text, or Blank for white space only, and whether it ends  *)
(* with a newline character; in a file only the last line may not.  The    *)
(* translation of other line ends by Python's text mode is left out.       *)
(***************************************************************************)
EXTENDS Integers, Sequences

CONSTANTS
    Texts,      \* contents of lines
    Blank,      \* the content of a blank line
    Files       \* the files the template may be rendered to

Lines == [text : Texts \cup {Blank}, nl : BOOLEAN]

ASSUME ConstantsAssumption ==
    /\ Blank \notin Texts
    /\ \A f \in Files : f \in Seq(Lines) /\ \A i \in 1..Len(f) : f[i].nl \/ i = Len(f)

VARIABLES
    file,       \* the file
    pc,         \* "read", "trim", "newline", "open", "write", or how the process ended
    lines,      \* lines, and later new_lines
    trim_count,
    orig        \* ghost: the file as the process found it

vars == <<file, pc, lines, trim_count, orig>>

TypeOK ==
    /\ {file, lines, orig} \subseteq Seq(Lines)
    /\ pc \in {"read", "trim", "newline", "open", "write", "done", "error", "killed"}
    /\ trim_count \in 0..Len(lines)

Init == /\ file \in Files /\ orig = file
        /\ pc = "read" /\ lines = <<>> /\ trim_count = 0

IsBlank(l) == l.text = Blank

\* f.readlines()
ReadLines ==
    /\ pc = "read" /\ pc' = "trim"
    /\ lines' = file /\ trim_count' = 0
    /\ UNCHANGED <<file, orig>>

\* Mutant: the loop does not stop at a line that is not blank.
TrimAll == /\ trim_count < Len(lines)
           /\ trim_count' = trim_count + 1 /\ pc' = pc

\* The next line from the end is blank, and the loop goes on.
TrimBlank ==
    /\ trim_count < Len(lines) /\ IsBlank(lines[Len(lines) - trim_count])
    /\ trim_count' = trim_count + 1 /\ pc' = pc

\* Mutant: the line is counted before it is looked at.
TrimEndsCounting ==
    /\ trim_count < Len(lines) => ~IsBlank(lines[Len(lines) - trim_count])
    /\ pc' = "newline" /\ trim_count' = trim_count + 1

\* The loop ends, at its break or with the lines.
TrimEnds ==
    /\ trim_count < Len(lines) => ~IsBlank(lines[Len(lines) - trim_count])
    /\ pc' = "newline" /\ trim_count' = trim_count

Trim == /\ pc = "trim"
        /\ TrimBlank \/ TrimEnds
        /\ UNCHANGED <<file, lines, orig>>

\* The newline character of the last line, and "" as the line after it, which "".join
\* makes nothing of.
NewLines(s) == [s EXCEPT ![Len(s)].nl = TRUE]

\* process_lines after its loop; new_lines[-1] fails if no line is left.
Newline ==
    /\ pc = "newline"
    /\ LET kept == SubSeq(lines, 1, Len(lines) - trim_count)
       IN  \/ /\ kept # <<>>
              /\ lines' = NewLines(kept) /\ trim_count' = 0 /\ pc' = "open"
           \/ /\ kept = <<>>
              /\ pc' = "error" /\ UNCHANGED <<lines, trim_count>>
    /\ UNCHANGED <<file, orig>>

\* Mutant: the file is emptied before its lines have been processed.
OpenForWriteEarly ==
    /\ pc = "newline" /\ pc' = "newline"
    /\ file' = <<>>
    /\ UNCHANGED <<lines, trim_count, orig>>

\* open(file_name, "w") empties the file, ...
OpenForWrite ==
    /\ pc = "open" /\ pc' = "write"
    /\ file' = <<>>
    /\ UNCHANGED <<lines, trim_count, orig>>

\* ... and the lines are written.
Write ==
    /\ pc = "write" /\ pc' = "done"
    /\ file' = lines
    /\ UNCHANGED <<lines, trim_count, orig>>

\* The process is killed.  While it writes, a part of the lines may have reached the file.
Kill == /\ pc \in {"read", "trim", "newline", "open", "write"} /\ pc' = "killed"
        /\ \/ pc # "write" /\ file' = file
           \/ pc = "write" /\ \E n \in 0..Len(lines) : file' = SubSeq(lines, 1, n)
        /\ UNCHANGED <<lines, trim_count, orig>>

\* render_readme.sh: the file is rendered anew, from a template that may have changed, and
\* the script is run on it.
RenderReadme ==
    /\ pc \in {"done", "error", "killed"} /\ pc' = "read"
    /\ file' \in Files /\ orig' = file'
    /\ lines' = <<>> /\ trim_count' = 0

Next == ReadLines \/ Trim \/ Newline \/ OpenForWrite \/ Write \/ Kill \/ RenderReadme

Spec == Init /\ [][Next]_vars
------------------------------------------------------------------------------
\* f is g without blank lines at its end, and ends with exactly one newline.
IsTrimmed(f, g) ==
    /\ f # <<>> /\ Len(f) <= Len(g)
    /\ \A i \in 1..Len(f) : f[i] = IF i = Len(f) THEN [g[i] EXCEPT !.nl = TRUE] ELSE g[i]
    /\ ~IsBlank(f[Len(f)])
    /\ \A i \in (Len(f) + 1)..Len(g) : IsBlank(g[i])

\* A run that ends well leaves exactly the trimmed file.
ResultIsTrimmed == pc = "done" => IsTrimmed(file, orig)

\* No text is lost but by a kill in the middle of the writing, and then only from the end:
\* until the file is opened for writing it is as it was, a run that ends with the
\* IndexError has found no text in it, and a killed one leaves the file as it was or
\* the beginning of the trimmed one.
FileKept ==
    /\ pc \in {"read", "trim", "newline", "open", "error"} => file = orig
    /\ pc = "error" => \A i \in 1..Len(orig) : IsBlank(orig[i])
    /\ pc = "killed" =>
           \/ file = orig
           \/ \E n \in 0..Len(lines) : IsTrimmed(lines, orig) /\ file = SubSeq(lines, 1, n)
==============================================================================
