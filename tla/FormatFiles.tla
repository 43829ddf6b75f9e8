------------------------------- MODULE FormatFiles ------------------------------
(***************************************************************************)
(* sn --format and sn --format --check: the files of a directory are read, *)
(* formatted line by line and, where that changes them, written or         *)
(* reported, one after another.  What becomes of a line is a parameter.    *)
(***************************************************************************)
EXTENDS Naturals, Sequences, SequencesExt, FiniteSets

CONSTANTS
  Commands,       \* [check, files]: --check or not, and a sequence of files,
                  \* each [lines, readable, writable]
  StartState,     \* the state of the formatter before the first line
  TakeInto(_, _), \* its state after one more line
  Output(_)       \* the lines of its output

(* A file is a sequence of lines.                                         *)
ASSUME CommandAssumption ==
  \A c \in Commands :
    /\ c.check \in BOOLEAN /\ DOMAIN c.files = 1..Len(c.files) /\ Len(c.files) \in Nat
    /\ \A i \in DOMAIN c.files : c.files[i].lines \in Seq(Range(c.files[i].lines))

VARIABLES
  check,   \* check_only
  before,  \* the directory as it was
  disk,    \* the lines of each entry
  at,      \* the entry that is formatted
  next,    \* the line that is next
  fmt,     \* the state of the formatter
  phase,
  total    \* files that changed, or would

vars == <<check, before, disk, at, next, fmt, phase, total>>

Formatted(lines) == Output(FoldLeft(TakeInto, StartState, lines))

Entry == before[at]
Source == Entry.lines

Init ==
  /\ \E c \in Commands : check = c.check /\ before = c.files
  /\ disk = [i \in DOMAIN before |-> before[i].lines]
  /\ at = 1 /\ next = 1 /\ fmt = StartState /\ total = 0
  /\ phase = IF before = <<>> THEN "done" ELSE "open"

Goto(to) == phase' = to /\ UNCHANGED <<check, before, disk, at, next, fmt, total>>
NextEntry(changed) ==
  /\ total' = total + (IF changed THEN 1 ELSE 0)
  /\ at' = at + 1 /\ next' = 1 /\ fmt' = StartState
  /\ phase' = IF at = Len(before) THEN "done" ELSE "open"
  /\ UNCHANGED <<check, before, disk>>

OpenEntry == phase = "open" /\ Entry.readable /\ Goto("lines")
(* An entry that cannot be read is reported, and not counted.              *)
CannotRead == phase = "open" /\ ~Entry.readable /\ NextEntry(FALSE)

TakeLine ==
  /\ phase = "lines" /\ next <= Len(Source)
  /\ fmt' = TakeInto(fmt, Source[next])
  /\ next' = next + 1
  /\ UNCHANGED <<check, before, disk, at, phase, total>>

AtEnd == phase = "lines" /\ next > Len(Source)
Changed == Output(fmt) # Source
Unchanged == AtEnd /\ ~Changed /\ NextEntry(FALSE)
WouldReformat == AtEnd /\ Changed /\ check /\ NextEntry(TRUE)
CannotWrite == AtEnd /\ Changed /\ ~check /\ ~Entry.writable /\ NextEntry(FALSE)
(* Mutant: --check is not asked for. *)
TruncateAlways ==
  /\ AtEnd /\ Changed /\ Entry.writable
  /\ disk' = [disk EXCEPT ![at] = <<>>] /\ phase' = "write"
  /\ UNCHANGED <<check, before, at, next, fmt, total>>
(* The file is emptied when it is opened for writing.                      *)
Truncate ==
  /\ AtEnd /\ Changed /\ ~check /\ Entry.writable
  /\ disk' = [disk EXCEPT ![at] = <<>>] /\ phase' = "write"
  /\ UNCHANGED <<check, before, at, next, fmt, total>>
Write ==
  /\ phase = "write"
  /\ disk' = [disk EXCEPT ![at] = Output(fmt)] /\ phase' = "written"
  /\ UNCHANGED <<check, before, at, next, fmt, total>>
Close == phase = "written" /\ NextEntry(TRUE)
Kill == phase \in {"lines", "write"} /\ Goto("killed")
Done == phase \in {"done", "killed"} /\ UNCHANGED vars

FormatNext ==
  \/ OpenEntry \/ CannotRead \/ TakeLine \/ Unchanged
  \/ WouldReformat \/ CannotWrite \/ Truncate \/ Write \/ Close
Next == FormatNext \/ Kill \/ Done
Spec == Init /\ [][Next]_vars

--------------------------------------------------------------------------------
(* Every file holds what it held or what it is formatted to, and with      *)
(* --check the first, but for the one that is being written: a kill loses  *)
(* that one and no other.                                                  *)
OthersWhole ==
  \A i \in DOMAIN before :
    LET old == before[i].lines
    IN  disk[i] = old \/ (~check /\ (i = at \/ disk[i] = Formatted(old)))

(* The number that decides what the command says, and with --check whether *)
(* it fails, is that of the files that are formatted, or would be.         *)
Counts(i) ==
  /\ before[i].readable /\ Formatted(before[i].lines) # before[i].lines
  /\ check \/ before[i].writable
CountsChanged == total = Cardinality({i \in 1..at - 1 : Counts(i)})
================================================================================
