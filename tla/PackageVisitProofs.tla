--------------------------- MODULE PackageVisitProofs --------------------------
(***************************************************************************)
(* The walk over the dependencies, for any number of packages, any         *)
(* dependencies among them and any capacity of the array of names.         *)
(***************************************************************************)
EXTENDS PackageVisit, SequenceFacts, FiniteSetTheorems

(* The names the walk has read and not come to.                            *)
Pending == InFrames(stack)

(* Whatever is recorded or read is needed.                                 *)
Sound == ToSet(visited) \subseteq Needed /\ Pending \subseteq Needed

(* As long as everything fits, nothing that a recorded package needs is    *)
(* forgotten.                                                              *)
Complete ==
  Fits => ToSet(deps[Root]) \cup DepsOf(ToSet(visited)) \subseteq ToSet(visited) \cup Pending

Inv == TypeOK /\ RecordedOnce /\ Sound /\ Complete

--------------------------------------------------------------------------------
(* The dependencies of a file are a sequence of names.                     *)
LEMMA FilesAreSequences == Files \subseteq Seq(Packages)
BY SeqDef, CapacityAssumption DEF Files

(* Needed is itself closed.                                                *)
LEMMA NeededClosed ==
  ASSUME TypeOK
  PROVE  Closed(Needed) /\ Needed \subseteq Packages /\ IsFiniteSet(Needed)
<1>1. \A p \in Packages \cup {Root} : ToSet(deps[p]) \subseteq Packages
  BY FilesAreSequences, ToSetByIndex DEF TypeOK
<1>2. ToSet(deps[Root]) \subseteq Needed
  BY <1>1 DEF Needed, Closed
<1>3. DepsOf(Needed) \subseteq Needed
  <2> SUFFICES ASSUME NEW p \in Needed \cap onDisk, NEW q \in ToSet(deps[p])
               PROVE  q \in Needed
    BY DEF DepsOf
  <2>1. p \in Packages /\ q \in Packages
    BY <1>1 DEF Needed
  <2>2. ASSUME NEW S \in SUBSET Packages, Closed(S) PROVE q \in S
    <3>1. p \in S
      BY <2>2 DEF Needed
    <3>2. q \in DepsOf(S)
      BY <3>1 DEF DepsOf
    <3> QED
      BY <2>2, <3>2 DEF Closed
  <2> QED
    BY <2>1, <2>2 DEF Needed
<1> QED
  BY <1>2, <1>3, FS_Subset, FiniteAssumption DEF Closed, Needed

(* An unrecorded name that is needed finds room when everything fits.      *)
LEMMA Room ==
  ASSUME TypeOK, RecordedOnce, ToSet(visited) \subseteq Needed, Fits,
         NEW p \in Needed, p \notin ToSet(visited), capacity \in Nat
  PROVE  Len(visited) < capacity
<1>1. /\ visited \in [1..Len(visited) -> Packages] /\ Len(visited) \in Nat
      /\ ToSet(visited) = {visited[i] : i \in 1..Len(visited)}
  BY LenProperties, ToSetByIndex DEF TypeOK
<1>2. visited \in [1..Len(visited) -> Needed]
  BY <1>1
<1>3. visited \in Injection(1..Len(visited), Needed)
  BY <1>2 DEF Injection, RecordedOnce
<1>4. visited \notin Surjection(1..Len(visited), Needed)
  BY <1>1 DEF Surjection
<1>5. IsFiniteSet(Needed) /\ Cardinality(Needed) \in Nat
  BY NeededClosed, FS_CardinalityType
<1>6. Cardinality(1..Len(visited)) = Len(visited)
  <2>1. Cardinality(1..Len(visited)) =
          IF 1 > Len(visited) THEN 0 ELSE Len(visited) - 1 + 1
    BY <1>1, FS_Interval
  <2> QED
    BY <1>1, <2>1
<1>7. Len(visited) <= Cardinality(Needed) /\ Len(visited) # Cardinality(Needed)
  BY <1>3, <1>4, <1>5, <1>6, FS_Injection
<1> QED
  BY <1>1, <1>5, <1>7 DEF Fits

(* A turn of the loop removes the name at hand from what is pending.       *)
LEMMA RestPending ==
  ASSUME TypeOK, stack # <<>>, Last(stack) # <<>>
  PROVE  /\ Rest \in Seq(Seq(Packages))
         /\ Head(Last(stack)) \in Packages
         /\ Pending = InFrames(Rest) \cup {Head(Last(stack))}
BY TurnFrame DEF TypeOK, Rest, Pending, InFrames

LEMMA InitInv == Init => Inv
<1> SUFFICES ASSUME Init PROVE Inv
  OBVIOUS
<1>1. deps[Root] \in Seq(Packages)
  BY FilesAreSequences DEF Init
<1>2. stack \in Seq(Seq(Packages)) /\ ToSet(stack) = {deps[Root]}
  BY <1>1, OneFrame DEF Init
<1>3. TypeOK
  BY <1>2, EmptySeq DEF Init, TypeOK
<1>4. ToSet(visited) = {} /\ Pending = ToSet(deps[Root])
  BY <1>2, ToSetEmpty DEF Init, Pending, InFrames
<1>5. RecordedOnce
  <2>1. visited = <<>> /\ Len(<<>>) = 0 /\ DOMAIN <<>> = {} /\ capacity \in Nat
    BY EmptySeq, CapacityAssumption DEF Init
  <2> QED
    BY <2>1 DEF RecordedOnce, IsInjective
<1>6. Sound
  BY <1>3, <1>4, NeededClosed DEF Sound, Closed
<1>7. Complete
  BY <1>4 DEF Complete, DepsOf
<1> QED
  BY <1>3, <1>5, <1>6, <1>7 DEF Inv

--------------------------------------------------------------------------------
(* A name already recorded is passed over.                                 *)
LEMMA PassInv ==
  ASSUME Inv, stack # <<>>, Last(stack) # <<>>, IsVisited(Head(Last(stack))),
         stack' = Rest, UNCHANGED <<given, visited>>
  PROVE  Inv'
<1>1. /\ Rest \in Seq(Seq(Packages)) /\ Pending = Pending' \cup {Head(Last(stack))}
  BY RestPending DEF Inv, Pending
<1>2. UNCHANGED <<capacity, deps, onDisk>> /\ Needed' = Needed /\ Fits' = Fits
  BY DEF given, Needed, Closed, DepsOf, Fits
<1>3. TypeOK' /\ RecordedOnce'
  BY <1>1, <1>2 DEF Inv, TypeOK, RecordedOnce
<1>4. Sound'
  BY <1>1, <1>2 DEF Inv, Sound
<1>5. Complete'
  BY <1>1, <1>2 DEF Inv, Complete, DepsOf, IsVisited
<1> QED
  BY <1>3, <1>4, <1>5 DEF Inv

(* A new name is recorded if there is room, and its file is read if there  *)
(* is one.                                                                 *)
LEMMA RecordInv ==
  ASSUME Inv, stack # <<>>, Last(stack) # <<>>, NEW p, p = Head(Last(stack)), ~IsVisited(p),
         MarkVisited(p), stack' = IF p \in onDisk THEN Append(Rest, deps[p]) ELSE Rest,
         UNCHANGED given
  PROVE  Inv'
<1>1. /\ Rest \in Seq(Seq(Packages)) /\ p \in Packages
      /\ Pending = InFrames(Rest) \cup {p}
  BY RestPending DEF Inv, InFrames
<1>2. UNCHANGED <<capacity, deps, onDisk>> /\ Needed' = Needed /\ Fits' = Fits
  BY DEF given, Needed, Closed, DepsOf, Fits
<1>3. p \in Needed /\ p \notin ToSet(visited) /\ capacity \in Nat /\ deps[p] \in Seq(Packages)
  BY <1>1, CapacityAssumption, FilesAreSequences DEF Inv, Sound, IsVisited, TypeOK
<1>4. /\ stack' \in Seq(Seq(Packages))
      /\ Pending' = InFrames(Rest) \cup (IF p \in onDisk THEN ToSet(deps[p]) ELSE {})
  <2>1. CASE p \in onDisk
    BY <2>1, <1>1, <1>3, PushFrame DEF Pending, InFrames
  <2>2. CASE p \notin onDisk
    BY <2>2, <1>1 DEF Pending, InFrames
  <2> QED
    BY <2>1, <2>2
<1>5. p \in onDisk => ToSet(deps[p]) \subseteq Needed
  BY <1>3, NeededClosed DEF Inv, Closed, DepsOf
<1>6. CASE Len(visited) >= capacity
  <2>1. visited' = visited
    BY <1>6 DEF MarkVisited
  <2>2. ~Fits
    <3>1. Len(visited) \in Nat
      BY LenProperties DEF Inv, TypeOK
    <3> QED
      BY <3>1, <1>3, <1>6, Room DEF Inv, Sound
  <2>3. TypeOK' /\ RecordedOnce'
    BY <2>1, <1>2, <1>4 DEF Inv, TypeOK, RecordedOnce
  <2>4. Sound'
    BY <2>1, <1>1, <1>2, <1>4, <1>5 DEF Inv, Sound
  <2> QED
    BY <2>2, <2>3, <2>4, <1>2 DEF Inv, Complete
<1>7. CASE ~(Len(visited) >= capacity)
  <2> DEFINE w == Append(visited, p)
  <2>1. visited' = w
    BY <1>7 DEF MarkVisited
  <2>2. /\ w \in Seq(Packages) /\ Len(w) = Len(visited) + 1 /\ Len(visited) \in Nat
        /\ DOMAIN w = 1..Len(w) /\ DOMAIN visited = 1..Len(visited)
        /\ \A i \in 1..Len(visited) : w[i] = visited[i] /\ visited[i] \in ToSet(visited)
        /\ w[Len(visited) + 1] = p
        /\ ToSet(w) = ToSet(visited) \cup {p}
    BY <1>1, AppendProperties, LenProperties, ToSetAppend, ToSetByIndex DEF Inv, TypeOK
  <2> HIDE DEF w
  <2>3. IsInjective(w)
    <3> SUFFICES ASSUME NEW i \in 1..Len(w), NEW j \in 1..Len(w), w[i] = w[j] PROVE i = j
      BY <2>2 DEF IsInjective
    <3>1. (i \in 1..Len(visited) \/ i = Len(visited) + 1) /\ (j \in 1..Len(visited) \/ j = Len(visited) + 1)
      BY <2>2
    <3>2. ASSUME NEW m \in 1..Len(visited), NEW n \in 1..Len(visited), visited[m] = visited[n]
          PROVE  m = n
      BY <2>2, <3>2 DEF Inv, RecordedOnce, IsInjective
    <3> QED
      BY <3>1, <3>2, <2>2, <1>3
  <2>4. TypeOK'
    BY <2>1, <2>2, <1>2, <1>4 DEF Inv, TypeOK
  <2>5. RecordedOnce'
    BY <2>1, <2>2, <2>3, <1>2, <1>3, <1>7 DEF RecordedOnce
  <2>6. Sound'
    BY <2>1, <2>2, <1>1, <1>2, <1>3, <1>4, <1>5 DEF Inv, Sound
  <2>7. Complete'
    <3> SUFFICES ASSUME Fits, NEW q \in ToSet(deps[Root]) \cup DepsOf(ToSet(w))
                 PROVE  q \in ToSet(w) \cup Pending'
      BY <2>1, <1>2 DEF Complete, DepsOf
    <3>1. \/ q \in ToSet(deps[Root]) \cup DepsOf(ToSet(visited))
          \/ p \in onDisk /\ q \in ToSet(deps[p])
      BY <2>2 DEF DepsOf
    <3> QED
      BY <3>1, <2>2, <1>1, <1>4 DEF Inv, Complete
  <2> QED
    BY <2>4, <2>5, <2>6, <2>7 DEF Inv
<1> QED
  BY <1>6, <1>7

(* A file whose dependencies are all seen to is left.                      *)
LEMMA ReturnInv ==
  ASSUME Inv, Return
  PROVE  Inv'
<1>1. UNCHANGED <<capacity, deps, onDisk, visited>> /\ Needed' = Needed /\ Fits' = Fits
  BY DEF Return, given, Needed, Closed, DepsOf, Fits
<1>2. /\ Front(stack) \in Seq(Seq(Packages))
      /\ ToSet(stack) = ToSet(Front(stack)) \cup {<<>>}
  BY FrontProperties DEF Inv, TypeOK, Return
<1>3. Pending' = Pending
  BY <1>2, ToSetEmpty DEF Return, Pending, InFrames
<1> QED
  BY <1>1, <1>2, <1>3 DEF Return, Inv, TypeOK, RecordedOnce, Sound, Complete, DepsOf

(* The invariant holds throughout the walk.                                *)
THEOREM VisitInvariant == Spec => []Inv
<1>1. ASSUME Inv, [Next]_vars PROVE Inv'
  <2>1. CASE UNCHANGED vars
    BY <1>1, <2>1 DEF vars, given, Inv, TypeOK, RecordedOnce, Sound, Complete, DepsOf,
      Pending, Fits, Needed, Closed
  <2>2. CASE Take
    BY <1>1, <2>2, PassInv, RecordInv DEF Take
  <2>3. CASE Return
    BY <1>1, <2>3, ReturnInv
  <2> QED
    BY <1>1, <2>1, <2>2, <2>3 DEF Next, Collected
<1> QED
  BY <1>1, InitInv, PTL DEF Spec

(* No name is recorded twice and the array is never written past its end.  *)
THEOREM RecordsOnce == Spec => []RecordedOnce
<1>1. Inv => RecordedOnce
  BY DEF Inv
<1> QED
  BY <1>1, VisitInvariant, PTL

(* When the walk ends it has collected what the project needs and nothing  *)
(* else, or, when that does not fit, nothing that is not needed.           *)
THEOREM CollectsWhatIsNeeded == Spec => []CollectsNeeded
<1>1. ASSUME Inv PROVE CollectsNeeded
  <2> SUFFICES ASSUME stack = <<>> PROVE IF Fits THEN ToSet(visited) = Needed
                                              ELSE ToSet(visited) \subseteq Needed
    BY DEF CollectsNeeded
  <2>1. Pending = {}
    BY ToSetEmpty DEF Pending, InFrames
  <2>2. ToSet(visited) \subseteq Packages /\ ToSet(visited) \subseteq Needed
    BY <1>1, ToSetByIndex DEF Inv, TypeOK, Sound
  <2>3. Fits => Closed(ToSet(visited))
    BY <1>1, <2>1 DEF Inv, Complete, Closed
  <2> QED
    BY <2>2, <2>3 DEF Needed
<1> QED
  BY <1>1, VisitInvariant, PTL

================================================================================
