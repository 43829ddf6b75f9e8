---------------------------- MODULE FormatFilesProofs ---------------------------
(***************************************************************************)
(* What sn --format does to the files of a directory, whatever is made of  *)
(* a line: for every directory and every formatter.                        *)
(***************************************************************************)
EXTENDS FormatFiles, SequenceTheorems, FiniteSetTheorems, TLAPS

Lines == INSTANCE SequenceFacts WITH Op <- TakeInto

(* The formatter's state after the first lines of a file.                  *)
After(lines, n) == FoldLeft(TakeInto, StartState, SubSeq(lines, 1, n))

LEMMA FormattedIsFold ==
  ASSUME NEW lines
  PROVE  FoldLeft(TakeInto, StartState, lines) = Lines!Folded(StartState, lines)
BY DEF FoldLeft, MapThenFoldSet, Lines!Folded, Lines!Max, Max

(* Line by line the state is that of the whole.                            *)
LEMMA AfterNone ==
  ASSUME NEW lines
  PROVE  After(lines, 0) = StartState
<1>1. SubSeq(lines, 1, 0) = <<>>
  BY SubSeqEmpty
<1> QED
  BY <1>1, FormattedIsFold, Lines!FoldedEmpty DEF After

LEMMA AfterOneMore ==
  ASSUME NEW S, NEW lines \in Seq(S), NEW n \in 1..Len(lines)
  PROVE  After(lines, n) = TakeInto(After(lines, n - 1), lines[n])
<1> DEFINE some == SubSeq(lines, 1, n - 1)
<1>1. /\ \A i \in 1..Len(lines) : lines[i] \in S
      /\ Len(lines) \in Nat
  BY LenProperties, ElementOfSeq
<1>2. some \in Seq(S)
  <2>1. \A i \in 1..n - 1 : lines[i] \in S
    BY <1>1
  <2> QED
    BY <2>1, SubSeqProperties
<1>3. SubSeq(lines, 1, n) = Append(some, lines[n])
  <2>1. SubSeq(lines, 1, n) = some \o <<lines[n]>>
    BY SubSeqRecursiveSecond
  <2> QED
    BY <1>1, <1>2, <2>1
<1> HIDE DEF some
<1>4. Lines!Folded(StartState, Append(some, lines[n])) = TakeInto(Lines!Folded(StartState, some), lines[n])
  BY <1>1, <1>2, Lines!FoldedAppend
<1> QED
  BY <1>3, <1>4, FormattedIsFold DEF After, some

LEMMA AfterAll ==
  ASSUME NEW S, NEW lines \in Seq(S)
  PROVE  Formatted(lines) = Output(After(lines, Len(lines)))
BY SubSeqFull DEF Formatted, After

--------------------------------------------------------------------------------
(* Where the walk is.                                                      *)
Walking ==
  /\ DOMAIN before = 1..Len(before) /\ Len(before) \in Nat
  /\ \A i \in DOMAIN before : before[i].lines \in Seq(Range(before[i].lines))
  /\ check \in BOOLEAN /\ DOMAIN disk = DOMAIN before
  /\ phase \in {"open", "lines", "write", "written", "done", "killed"}
  /\ at \in Nat /\ next \in Nat
  /\ phase # "done" => at \in DOMAIN before

(* What the formatter has taken of the file at hand.                       *)
Taken ==
  /\ phase = "open" => next = 1 /\ fmt = StartState
  /\ phase \in {"lines", "write", "written"} =>
       /\ Entry.readable
       /\ next - 1 \in 0..Len(Source) /\ fmt = After(Source, next - 1)
  /\ phase \in {"write", "written"} =>
       next > Len(Source) /\ ~check /\ Entry.writable /\ Changed

(* A file is what it was or what it becomes; the one at hand is so except  *)
(* while it is written.                                                    *)
Whole ==
  \A i \in DOMAIN before :
    \/ disk[i] = before[i].lines
    \/ ~check /\ disk[i] = Formatted(before[i].lines)
    \/ ~check /\ i = at /\ phase \in {"write", "killed"}

FInv == Walking /\ Taken /\ Whole /\ CountsChanged

(* At the end of a file the output is that of the whole file.              *)
LEMMA OutputIsFormatted ==
  ASSUME FInv, phase \in {"lines", "write", "written"}, next > Len(Source)
  PROVE  Output(fmt) = Formatted(Source) /\ at \in DOMAIN before
<1>1. at \in DOMAIN before /\ Source \in Seq(Range(Source))
  BY DEF FInv, Walking, Source, Entry
<1>2. next - 1 = Len(Source)
  <2>1. Len(Source) \in Nat
    BY <1>1, LenProperties
  <2> QED
    BY <2>1 DEF FInv, Walking, Taken
<1>3. fmt = After(Source, next - 1)
  BY DEF FInv, Taken
<1> QED
  BY <1>1, <1>2, <1>3, AfterAll

LEMMA FInvInitially == Init => FInv
<1> SUFFICES ASSUME Init PROVE FInv
  OBVIOUS
<1>1. PICK c \in Commands : check = c.check /\ before = c.files
  BY DEF Init
<1>2. /\ disk = [i \in DOMAIN before |-> before[i].lines]
      /\ at = 1 /\ next = 1 /\ fmt = StartState /\ total = 0
      /\ phase = IF before = <<>> THEN "done" ELSE "open"
  BY DEF Init
<1>3. /\ check \in BOOLEAN /\ DOMAIN before = 1..Len(before) /\ Len(before) \in Nat
      /\ \A i \in DOMAIN before : before[i].lines \in Seq(Range(before[i].lines))
  BY <1>1, CommandAssumption
<1>4. Walking
  <2>1. CASE before = <<>>
    BY <1>2, <1>3, <2>1 DEF Walking
  <2>2. CASE before # <<>>
    <3>1. Len(before) # 0
      <4>1. ASSUME Len(before) = 0 PROVE before = <<>>
        <5>1. DOMAIN before = {}
          BY <1>3, <4>1
        <5> QED
          BY <5>1
      <4> QED
        BY <2>2, <4>1
    <3>2. 1 \in DOMAIN before
      BY <1>3, <3>1
    <3> QED
      BY <1>2, <1>3, <2>2, <3>2 DEF Walking
  <2> QED
    BY <2>1, <2>2
<1>5. Taken
  BY <1>2 DEF Taken
<1>6. Whole
  BY <1>2 DEF Whole
<1>7. CountsChanged
  <2>1. {i \in 1..at - 1 : Counts(i)} = {}
    BY <1>2
  <2> QED
    BY <1>2, <2>1, FS_EmptySet DEF CountsChanged
<1> QED
  BY <1>4, <1>5, <1>6, <1>7 DEF FInv

(* The step to the next entry, of which it is told whether this one counts.*)
LEMMA NextEntryStep ==
  ASSUME FInv, phase \in {"open", "lines", "written"}, NEW changed \in BOOLEAN,
         NextEntry(changed), changed <=> Counts(at),
         disk[at] = Entry.lines \/ (~check /\ disk[at] = Formatted(Source))
  PROVE  FInv'
<1>1. /\ total' = total + (IF changed THEN 1 ELSE 0)
      /\ at' = at + 1 /\ next' = 1 /\ fmt' = StartState
      /\ phase' = IF at = Len(before) THEN "done" ELSE "open"
      /\ check' = check /\ before' = before /\ disk' = disk
  BY DEF NextEntry
<1>2. Walking /\ Whole /\ CountsChanged /\ at \in DOMAIN before
  BY DEF FInv, Walking
<1>3. Walking'
  <2>1. /\ DOMAIN before = 1..Len(before) /\ Len(before) \in Nat
        /\ \A i \in DOMAIN before : before[i].lines \in Seq(Range(before[i].lines))
        /\ check \in BOOLEAN /\ DOMAIN disk = DOMAIN before /\ at \in Nat
    BY <1>2 DEF Walking
  <2>2. PICK n \in Nat : n = Len(before)
    BY <2>1
  <2>3. at \in 1..n
    BY <1>2, <2>1, <2>2
  <2>4. phase' # "done" => at + 1 \in 1..n
    <3>1. phase' # "done" => at # n
      BY <1>1, <2>2
    <3> QED
      BY <2>3, <3>1
  <2>5. phase' # "done" => at' \in DOMAIN before'
    BY <1>1, <2>1, <2>2, <2>4
  <2>6. phase' \in {"open", "lines", "write", "written", "done", "killed"}
    BY <1>1
  <2>7. at' \in Nat /\ next' \in Nat
    <3>1. at' = at + 1 /\ next' = 1 /\ at \in Nat
      BY <1>1, <2>1
    <3> QED
      BY <3>1
  <2>8. /\ DOMAIN before' = 1..Len(before') /\ Len(before') \in Nat
        /\ \A i \in DOMAIN before' : before'[i].lines \in Seq(Range(before'[i].lines))
        /\ check' \in BOOLEAN /\ DOMAIN disk' = DOMAIN before'
    BY <1>1, <2>1
  <2> QED
    BY <2>5, <2>6, <2>7, <2>8 DEF Walking
<1>4. Taken'
  BY <1>1 DEF Taken
<1>5. Whole'
  <2> SUFFICES ASSUME NEW i \in DOMAIN before
               PROVE  \/ disk[i] = before[i].lines
                      \/ ~check /\ disk[i] = Formatted(before[i].lines)
    BY <1>1 DEF Whole
  <2>1. CASE i = at
    BY <2>1 DEF Source, Entry
  <2>2. CASE i # at
    BY <1>2, <2>2 DEF Whole
  <2> QED
    BY <2>1, <2>2
<1>6. CountsChanged'
  <2> DEFINE S == {i \in 1..at - 1 : Counts(i)}
             T == {i \in 1..at : Counts(i)}
  <2>0. at \in Nat \ {0} /\ IsFiniteSet(1..at)
    BY <1>2, FS_Interval DEF Walking
  <2>1. IsFiniteSet(S)
    <3>1. S \subseteq 1..at
      BY <2>0
    <3> QED
      BY <2>0, <3>1, FS_Subset
  <2>2. T = IF changed THEN S \cup {at} ELSE S
    <3>1. \A i \in 1..at : i \in 1..at - 1 \/ i = at
      BY <2>0
    <3>2. at \in 1..at /\ \A i \in 1..at - 1 : i \in 1..at
      BY <2>0
    <3> HIDE DEF Counts
    <3> QED
      BY <3>1, <3>2
  <2>3. at \notin S
    BY <2>0
  <2>4. Cardinality(T) = Cardinality(S) + (IF changed THEN 1 ELSE 0)
    <3> HIDE DEF S, T
    <3>1. Cardinality(S) \in Nat /\ Cardinality(S \cup {at}) = Cardinality(S) + 1
      BY <2>1, <2>3, FS_CardinalityType, FS_AddElement
    <3> QED
      BY <2>2, <3>1
  <2>5. {i \in 1..at' - 1 : Counts(i)'} = T
    <3>1. at' - 1 = at
      BY <1>1, <2>0
    <3>2. \A i : Counts(i)' = Counts(i)
      BY <1>1 DEF Counts
    <3> QED
      BY <3>1, <3>2
  <2>6. total = Cardinality(S)
    BY <1>2 DEF CountsChanged
  <2> HIDE DEF S, T
  <2> QED
    BY <1>1, <2>4, <2>5, <2>6 DEF CountsChanged
<1> QED
  BY <1>3, <1>4, <1>5, <1>6 DEF FInv

(* The steps within an entry.                                              *)
LEMMA WithinEntry ==
  ASSUME FInv, UNCHANGED <<check, before, at, total>>
  PROVE  /\ CountsChanged'
         /\ (/\ phase # "done" /\ phase' \in {"open", "lines", "write", "written", "killed"}
             /\ next' \in Nat /\ DOMAIN disk' = DOMAIN disk) => Walking'
         /\ Entry' = Entry /\ Source' = Source
<1>1. CountsChanged'
  <2>1. \A i : Counts(i)' = Counts(i)
    BY DEF Counts
  <2> QED
    BY <2>1 DEF FInv, CountsChanged
<1>2. ASSUME phase # "done", phase' \in {"open", "lines", "write", "written", "killed"},
             next' \in Nat, DOMAIN disk' = DOMAIN disk
      PROVE  Walking'
  BY <1>2 DEF FInv, Walking
<1>3. Entry' = Entry /\ Source' = Source
  BY DEF Entry, Source
<1> QED
  BY <1>1, <1>2, <1>3

LEMMA OpenStep ==
  ASSUME FInv, OpenEntry
  PROVE  FInv'
<1>1. /\ phase = "open" /\ Entry.readable /\ phase' = "lines" /\ next = 1 /\ fmt = StartState
      /\ UNCHANGED <<check, before, disk, at, next, fmt, total>>
  BY DEF OpenEntry, Goto, FInv, Taken
<1>2. at \in DOMAIN before /\ Source \in Seq(Range(Source)) /\ next \in Nat
  BY <1>1 DEF FInv, Walking, Source, Entry
<1>3. CountsChanged' /\ Walking' /\ Entry' = Entry /\ Source' = Source
  BY <1>1, <1>2, WithinEntry
<1>4. Taken'
  <2>1. next - 1 = 0 /\ Len(Source) \in Nat
    BY <1>1, <1>2, LenProperties
  <2>2. fmt = After(Source, next - 1)
    BY <1>1, <2>1, AfterNone
  <2>3. fmt' = After(Source', next' - 1)
    BY <1>1, <1>3, <2>2
  <2>4. next' - 1 \in 0..Len(Source') /\ Entry'.readable
    BY <1>1, <1>3, <2>1
  <2> QED
    BY <1>1, <2>3, <2>4 DEF Taken
<1>5. Whole'
  BY <1>1 DEF FInv, Whole
<1> QED
  BY <1>3, <1>4, <1>5 DEF FInv

LEMMA TakeLineStep ==
  ASSUME FInv, TakeLine
  PROVE  FInv'
<1>1. /\ phase = "lines" /\ phase' = "lines" /\ next <= Len(Source)
      /\ fmt' = TakeInto(fmt, Source[next]) /\ next' = next + 1
      /\ UNCHANGED <<check, before, disk, at, total>>
  BY DEF TakeLine
<1>2. /\ Source \in Seq(Range(Source)) /\ next \in Nat
      /\ Entry.readable /\ next - 1 \in 0..Len(Source) /\ fmt = After(Source, next - 1)
  BY <1>1 DEF FInv, Walking, Taken, Source, Entry
<1>3. CountsChanged' /\ Walking' /\ Entry' = Entry /\ Source' = Source
  BY <1>1, <1>2, WithinEntry
<1>4. Taken'
  <2>1. Len(Source) \in Nat
    BY <1>2, LenProperties
  <2>2. next \in 1..Len(Source) /\ next + 1 - 1 = next
    BY <1>1, <1>2, <2>1
  <2>3. After(Source, next) = TakeInto(After(Source, next - 1), Source[next])
    BY <1>2, <2>2, AfterOneMore
  <2>4. fmt' = After(Source', next' - 1)
    BY <1>1, <1>2, <1>3, <2>2, <2>3
  <2>5. next' - 1 \in 0..Len(Source') /\ Entry'.readable
    BY <1>1, <1>2, <1>3, <2>1, <2>2
  <2> QED
    BY <1>1, <2>4, <2>5 DEF Taken
<1>5. Whole'
  BY <1>1 DEF FInv, Whole
<1> QED
  BY <1>3, <1>4, <1>5 DEF FInv

LEMMA TruncateStep ==
  ASSUME FInv, Truncate
  PROVE  FInv'
<1>1. /\ phase = "lines" /\ phase' = "write" /\ next > Len(Source) /\ Changed
      /\ ~check /\ Entry.writable /\ disk' = [disk EXCEPT ![at] = <<>>]
      /\ UNCHANGED <<check, before, at, next, fmt, total>>
  BY DEF Truncate, AtEnd
<1>2. /\ next \in Nat /\ Entry.readable
      /\ next - 1 \in 0..Len(Source) /\ fmt = After(Source, next - 1)
      /\ Whole
  BY <1>1 DEF FInv, Walking, Taken
<1>3. CountsChanged' /\ Walking' /\ Entry' = Entry /\ Source' = Source
  <2>1. DOMAIN disk' = DOMAIN disk
    BY <1>1
  <2> QED
    BY <1>1, <1>2, <2>1, WithinEntry
<1>4. Taken'
  <2>1. Changed'
    BY <1>1, <1>3 DEF Changed
  <2> QED
    BY <1>1, <1>2, <1>3, <2>1 DEF Taken
<1>5. Whole'
  BY <1>1, <1>2 DEF Whole
<1> QED
  BY <1>3, <1>4, <1>5 DEF FInv

LEMMA WriteStep ==
  ASSUME FInv, Write
  PROVE  FInv'
<1>1. /\ phase = "write" /\ phase' = "written" /\ disk' = [disk EXCEPT ![at] = Output(fmt)]
      /\ UNCHANGED <<check, before, at, next, fmt, total>>
  BY DEF Write
<1>2. /\ next \in Nat /\ Entry.readable
      /\ next - 1 \in 0..Len(Source) /\ fmt = After(Source, next - 1)
      /\ next > Len(Source) /\ ~check /\ Entry.writable /\ Changed
      /\ Whole /\ at \in DOMAIN before /\ DOMAIN disk = DOMAIN before
  BY <1>1 DEF FInv, Walking, Taken
<1>3. CountsChanged' /\ Walking' /\ Entry' = Entry /\ Source' = Source
  <2>1. DOMAIN disk' = DOMAIN disk
    BY <1>1
  <2> QED
    BY <1>1, <1>2, <2>1, WithinEntry
<1>4. Taken'
  <2>1. Changed'
    BY <1>1, <1>2, <1>3 DEF Changed
  <2> QED
    BY <1>1, <1>2, <1>3, <2>1 DEF Taken
<1>5. Whole'
  <2>1. Output(fmt) = Formatted(before[at].lines)
    BY <1>1, <1>2, OutputIsFormatted DEF Source, Entry
  <2> SUFFICES ASSUME NEW i \in DOMAIN before
               PROVE  disk'[i] = before[i].lines \/ disk'[i] = Formatted(before[i].lines)
    BY <1>1, <1>2 DEF Whole
  <2>2. CASE i = at
    BY <1>1, <1>2, <2>1, <2>2
  <2>3. CASE i # at
    BY <1>1, <1>2, <2>3 DEF Whole
  <2> QED
    BY <2>2, <2>3
<1> QED
  BY <1>3, <1>4, <1>5 DEF FInv

LEMMA KillStep ==
  ASSUME FInv, Kill
  PROVE  FInv'
<1>1. /\ phase \in {"lines", "write"} /\ phase' = "killed"
      /\ UNCHANGED <<check, before, disk, at, next, fmt, total>>
  BY DEF Kill, Goto
<1>2. Whole /\ next \in Nat
  BY DEF FInv, Walking
<1>3. CountsChanged' /\ Walking'
  BY <1>1, <1>2, WithinEntry
<1>4. Taken'
  BY <1>1 DEF Taken
<1>5. Whole'
  BY <1>1, <1>2 DEF Whole
<1> QED
  BY <1>3, <1>4, <1>5 DEF FInv

(* The steps to the next entry.                                            *)
LEMMA UntouchedUntilWritten ==
  ASSUME FInv, phase \in {"open", "lines"}
  PROVE  disk[at] = Entry.lines \/ (~check /\ disk[at] = Formatted(Source))
<1>1. Whole /\ at \in DOMAIN before
  BY DEF FInv, Walking
<1> QED
  BY <1>1 DEF Whole, Entry, Source

LEMMA LeaveStep ==
  ASSUME FInv, CannotRead \/ Unchanged \/ WouldReformat \/ CannotWrite \/ Close
  PROVE  FInv'
<1>1. CASE CannotRead
  <2>1. phase = "open" /\ ~Entry.readable /\ NextEntry(FALSE)
    BY <1>1 DEF CannotRead
  <2>2. ~Counts(at)
    BY <2>1 DEF Counts, Entry
  <2> QED
    BY <2>1, <2>2, UntouchedUntilWritten, NextEntryStep
<1>2. ASSUME AtEnd
      PROVE  /\ phase = "lines" /\ next > Len(Source) /\ Entry.readable
             /\ Output(fmt) = Formatted(Source)
             /\ Counts(at) <=> Changed /\ (check \/ Entry.writable)
  <2>1. phase = "lines" /\ next > Len(Source)
    BY <1>2 DEF AtEnd
  <2>2. Entry.readable /\ Output(fmt) = Formatted(Source)
    BY <2>1, OutputIsFormatted DEF FInv, Taken
  <2>3. Counts(at) <=> Changed /\ (check \/ Entry.writable)
    BY <2>2 DEF Counts, Changed, Entry, Source
  <2> QED
    BY <2>1, <2>2, <2>3
<1>3. CASE Unchanged
  <2>1. AtEnd /\ ~Changed /\ NextEntry(FALSE)
    BY <1>3 DEF Unchanged
  <2> QED
    BY <2>1, <1>2, UntouchedUntilWritten, NextEntryStep
<1>4. CASE WouldReformat
  <2>1. AtEnd /\ Changed /\ check /\ NextEntry(TRUE)
    BY <1>4 DEF WouldReformat
  <2> QED
    BY <2>1, <1>2, UntouchedUntilWritten, NextEntryStep
<1>5. CASE CannotWrite
  <2>1. AtEnd /\ ~check /\ ~Entry.writable /\ NextEntry(FALSE)
    BY <1>5 DEF CannotWrite
  <2> QED
    BY <2>1, <1>2, UntouchedUntilWritten, NextEntryStep
<1>6. CASE Close
  <2>1. phase = "written" /\ NextEntry(TRUE)
    BY <1>6 DEF Close
  <2>2. /\ Entry.readable /\ next > Len(Source) /\ ~check /\ Entry.writable /\ Changed
        /\ Whole
    BY <2>1 DEF FInv, Taken
  <2>3. Output(fmt) = Formatted(Source) /\ at \in DOMAIN before
    BY <2>1, <2>2, OutputIsFormatted
  <2>4. Counts(at)
    BY <2>2, <2>3 DEF Counts, Changed, Entry, Source
  <2>5. disk[at] = Entry.lines \/ (~check /\ disk[at] = Formatted(Source))
    BY <2>1, <2>2, <2>3 DEF Whole, Entry, Source
  <2> QED
    BY <2>1, <2>4, <2>5, NextEntryStep
<1> QED
  BY <1>1, <1>3, <1>4, <1>5, <1>6

LEMMA FInvPreserved == FInv /\ [Next]_vars => FInv'
<1> SUFFICES ASSUME FInv, [Next]_vars PROVE FInv'
  OBVIOUS
<1>1. CASE UNCHANGED vars
  <2>1. UNCHANGED <<check, before, disk, at, next, fmt, phase, total>>
    BY <1>1 DEF vars
  <2>2. \A i : Counts(i)' = Counts(i)
    BY <2>1 DEF Counts
  <2>3. Walking'
    BY <2>1 DEF FInv, Walking
  <2>4. Taken'
    <3>1. Entry' = Entry /\ Source' = Source /\ Changed' = Changed
      BY <2>1 DEF Entry, Source, Changed
    <3> QED
      BY <2>1, <3>1 DEF FInv, Taken
  <2>5. Whole'
    BY <2>1 DEF FInv, Whole
  <2>6. CountsChanged'
    BY <2>1, <2>2 DEF FInv, CountsChanged
  <2> QED
    BY <2>3, <2>4, <2>5, <2>6 DEF FInv
<1>2. CASE Done
  BY <1>1, <1>2 DEF Done
<1>3. CASE FormatNext
  BY <1>3, OpenStep, TakeLineStep, TruncateStep, WriteStep, LeaveStep DEF FormatNext
<1>4. CASE Kill
  BY <1>4, KillStep
<1> QED
  BY <1>1, <1>2, <1>3, <1>4 DEF Next

LEMMA Formatting == Spec => []FInv
<1>1. Init => FInv
  BY FInvInitially
<1>2. FInv /\ [Next]_vars => FInv'
  BY FInvPreserved
<1> QED
  BY <1>1, <1>2, PTL DEF Spec

--------------------------------------------------------------------------------
(* Whatever the formatter makes of a line and whichever files can be read  *)
(* and written, a kill loses the file that is being written at most: every *)
(* other one is what it was, or all of it is formatted.                    *)
THEOREM OthersStayWhole == Spec => []OthersWhole
<1>1. FInv => OthersWhole
  BY DEF FInv, Whole, OthersWhole
<1> QED
  BY <1>1, Formatting, PTL

(* The count a run ends with is of the files that were formatted, or with  *)
(* --check of those that would be, whatever could not be read or written.  *)
THEOREM CountIsExact == Spec => []CountsChanged
<1>1. FInv => CountsChanged
  BY DEF FInv
<1> QED
  BY <1>1, Formatting, PTL

(* With --check nothing is written.                                        *)
THEOREM CheckWritesNothing ==
  Spec => [](check => \A i \in DOMAIN before : disk[i] = before[i].lines)
<1>1. FInv => (check => \A i \in DOMAIN before : disk[i] = before[i].lines)
  BY DEF FInv, Whole
<1> QED
  BY <1>1, Formatting, PTL
================================================================================
