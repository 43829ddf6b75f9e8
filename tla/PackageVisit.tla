------------------------------ MODULE PackageVisit -----------------------------
(***************************************************************************)
(* Collecting every package a project needs: a depth-first walk over the   *)
(* sn.yaml files found on disk.  PackageVisited is an array of capacity    *)
(* names; what does not fit is not recorded, and the walk goes on.  The    *)
(* collected names are what package_sync keeps and what the backend links. *)
(*                                                                         *)
(* The C recursion is the sequence stack; a frame is what the loop over    *)
(* one file's dependencies has not come to.  Absent files, files that do   *)
(* not parse and files without dependencies all have an empty list.        *)
(***************************************************************************)
EXTENDS Integers, FiniteSets, SequencesExt

CONSTANTS
  Packages,
  Root,        \* the project itself
  MaxDeps,     \* PKG_MAX_DEPS
  Capacities   \* values to take for PKG_MAX_VISITED

ASSUME FiniteAssumption == IsFiniteSet(Packages)
ASSUME RootAssumption == Root \notin Packages
ASSUME CapacityAssumption == Capacities \subseteq Nat /\ MaxDeps \in Nat

VARIABLES
  capacity,    \* chosen once
  deps,        \* deps[p]: the names in p's sn.yaml, in order
  onDisk,      \* packages that have a directory
  stack,
  visited      \* all_deps

given == <<capacity, deps, onDisk>>
vars == <<given, stack, visited>>

Files == UNION {[1..n -> Packages] : n \in 0..MaxDeps}

(* What is needed, defined without the walk: the least set that has the    *)
(* project's dependencies and those of every package in it that is there.  *)
DepsOf(S) == UNION {ToSet(deps[p]) : p \in S \cap onDisk}
Closed(S) == ToSet(deps[Root]) \subseteq S /\ DepsOf(S) \subseteq S
Needed == {p \in Packages : \A S \in SUBSET Packages : Closed(S) => p \in S}

Acyclic == \E rank \in [Packages -> 1..Cardinality(Packages)] :
             \A p \in Packages : \A q \in ToSet(deps[p]) : rank[q] < rank[p]
Fits == Cardinality(Needed) <= capacity

(* A cycle that does not fit is walked without end: it is left out.        *)
Init ==
  /\ capacity \in Capacities
  /\ deps \in [Packages \cup {Root} -> Files]
  /\ onDisk \in SUBSET Packages
  /\ stack = <<deps[Root]>>
  /\ visited = <<>>
  /\ Fits \/ Acyclic

--------------------------------------------------------------------------------
IsVisited(p) == p \in ToSet(visited)

(* Mutant: the capacity test is off by one.                                *)
MarkVisitedEarly(p) ==
  visited' = IF Len(visited) + 1 >= capacity THEN visited ELSE Append(visited, p)

MarkVisited(p) ==
  visited' = IF Len(visited) >= capacity THEN visited ELSE Append(visited, p)

Rest == Append(Front(stack), Tail(Last(stack)))

(* Mutants: a name is appended without the test; a repeated name is never  *)
(* passed.                                                                 *)
TakeAgain ==
  /\ stack # <<>> /\ Last(stack) # <<>>
  /\ LET p == Head(Last(stack))
     IN  /\ MarkVisited(p)
         /\ stack' = IF p \in onDisk /\ ~IsVisited(p) THEN Append(Rest, deps[p]) ELSE Rest
  /\ UNCHANGED given
TakeStops ==
  /\ stack # <<>> /\ Last(stack) # <<>>
  /\ LET p == Head(Last(stack))
     IN  IF IsVisited(p)
           THEN UNCHANGED <<stack, visited>>
           ELSE /\ MarkVisited(p)
                /\ stack' = IF p \in onDisk THEN Append(Rest, deps[p]) ELSE Rest
  /\ UNCHANGED given

(* One turn of the loop over a file's dependencies.                        *)
Take ==
  /\ stack # <<>> /\ Last(stack) # <<>>
  /\ LET p == Head(Last(stack))
     IN  IF IsVisited(p)
           THEN stack' = Rest /\ UNCHANGED visited
           ELSE /\ MarkVisited(p)
                /\ stack' = IF p \in onDisk THEN Append(Rest, deps[p]) ELSE Rest
  /\ UNCHANGED given

Return ==
  /\ stack # <<>> /\ Last(stack) = <<>>
  /\ stack' = Front(stack)
  /\ UNCHANGED <<given, visited>>

Collected == stack = <<>> /\ UNCHANGED vars

Next == Take \/ Return \/ Collected

Spec == Init /\ [][Next]_vars
FairSpec == Spec /\ WF_vars(Take \/ Return)

--------------------------------------------------------------------------------
TypeOK ==
  /\ capacity \in Capacities
  /\ deps \in [Packages \cup {Root} -> Files]
  /\ onDisk \subseteq Packages
  /\ stack \in Seq(Seq(Packages))
  /\ visited \in Seq(Packages)

(* No name is recorded twice, so the capacity is spent on distinct         *)
(* packages, and the array is never written past its end.                  *)
RecordedOnce == IsInjective(visited) /\ Len(visited) <= capacity

(* When the walk ends it has collected what the project needs and nothing  *)
(* else, as long as that fits: package_sync deletes what is not in visited.*)
CollectsNeeded ==
  stack = <<>> => IF Fits THEN ToSet(visited) = Needed ELSE ToSet(visited) \subseteq Needed

(* The walk ends, also where the files name one another in a circle, as    *)
(* long as the visited list has room for the packages of the circle.       *)
WalkEnds == <>(stack = <<>>)

================================================================================
