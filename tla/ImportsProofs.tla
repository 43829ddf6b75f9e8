------------------------------ MODULE ImportsProofs ----------------------------
(***************************************************************************)
(* That a file is parsed once, for every set of programs: the imports tell *)
(* files apart by their paths, so what has to be shown is which paths of   *)
(* one file are the same path.  And that the search through the imports    *)
(* sees what the imports reach.                                            *)
(***************************************************************************)
EXTENDS Imports, SequenceTheorems, FiniteSetTheorems, TLAPS

Walked == INSTANCE SequenceFacts WITH Op <- Walk
Appended == INSTANCE SequenceFacts WITH Op <- AppendPart

(* The provers do not know of a word that it is a string.                  *)
Part == STRING \cup {"", ".", "..", ".sn", "sdk"}
PlainPart == Part \ {"", ".", ".."}
Paths == Seq(Part)

(* A path that says where the file is and nothing else: from the directory *)
(* of the compiler down, or from the root down and then outside that       *)
(* directory.                                                              *)
Relative(path) == path \in Seq(PlainPart)
Absolute(path) == path # <<>> /\ Head(path) = "" /\ Tail(path) \in Seq(PlainPart)
Canonical(path) == Relative(path) \/ (Absolute(path) /\ ~IsPrefix(Cwd, Tail(path)))
AllCanonical == \A i \in DOMAIN imported : Canonical(imported[i])

--------------------------------------------------------------------------------
(* Paths and the files they name                                           *)

LEMMA WalkIsFold ==
  ASSUME NEW base, NEW f
  PROVE  FoldLeft(Walk, base, f) = Walked!Folded(base, f)
BY DEF FoldLeft, MapThenFoldSet, Walked!Folded, Walked!Max, Max

LEMMA NormalizeIsFold ==
  ASSUME NEW path
  PROVE  NormalizePath(path) = Appended!Folded(<<>>, path)
BY DEF NormalizePath, FoldLeft, MapThenFoldSet, Appended!Folded, Appended!Max, Max

LEMMA PlainIsPath == Seq(PlainPart) \subseteq Paths
BY Walked!SeqOfSubset DEF Paths, PlainPart

LEMMA PathAppend ==
  ASSUME NEW s \in Paths, NEW t \in Paths, NEW x \in Part
  PROVE  s \o Append(t, x) = Append(s \o t, x)
BY Walked!ConcatAppend DEF Paths

(* The path that begins at the root.                                       *)
LEMMA RootPath ==
  /\ <<"">> \in Paths /\ <<>> \in Paths
  /\ Append(<<>>, "") = <<"">> /\ <<"">> \o <<>> = <<"">>
<1>1. PICK root : root = "" /\ root \in Part
  BY DEF Part
<1>2. <<root>> \in Seq(Part) /\ <<>> \in Seq(Part) /\ Append(<<>>, root) = <<root>>
  <2>1. <<>> \in Seq(Part) /\ Append(<<>>, root) = <<root>>
    BY EmptySeq
  <2>2. Append(<<>>, root) \in Seq(Part)
    BY <1>1, <2>1, AppendProperties
  <2> QED
    BY <2>1, <2>2
<1>3. <<root>> \o <<>> = <<root>>
  BY <1>2, ConcatEmptySeq
<1> QED
  BY <1>1, <1>2, <1>3 DEF Paths

(* The system goes down a path that only goes down.                        *)
LEMMA WalkDown ==
  ASSUME NEW base \in Paths, NEW path \in Seq(PlainPart)
  PROVE  FoldLeft(Walk, base, path) = base \o path
<1> DEFINE T == {p \in Seq(PlainPart) : Walked!Folded(base, p) = base \o p}
<1>1. <<>> \in T
  <2>1. <<>> \in Seq(PlainPart)
    BY EmptySeq
  <2>2. base \o <<>> = base
    BY ConcatEmptySeq DEF Paths
  <2> QED
    BY <2>1, <2>2, Walked!FoldedEmpty
<1>2. ASSUME NEW p \in Seq(PlainPart), NEW x \in PlainPart, p \in T
      PROVE  Append(p, x) \in T
  <2>1. Append(p, x) \in Seq(PlainPart)
    BY AppendProperties
  <2>2. Walked!Folded(base, Append(p, x)) = Walk(Walked!Folded(base, p), x)
    BY Walked!FoldedAppend
  <2>3. Walk(base \o p, x) = Append(base \o p, x)
    BY DEF Walk, PlainPart
  <2>4. Append(base \o p, x) = base \o Append(p, x)
    <3>1. p \in Paths /\ x \in Part
      BY PlainIsPath DEF PlainPart
    <3> QED
      BY <3>1, PathAppend
  <2> QED
    BY <1>2, <2>1, <2>2, <2>3, <2>4
<1>3. Seq(PlainPart) \subseteq T
  <2> HIDE DEF T
  <2> QED
    BY <1>1, <1>2, Walked!InductionOverSeq
<1> QED
  BY <1>3, WalkIsFold
(* From the root the same path is found as it is written.                  *)
LEMMA WalkFromRoot ==
  ASSUME NEW path \in Seq(PlainPart)
  PROVE  FoldLeft(Walk, <<>>, <<"">> \o path) = path
<1> DEFINE At(p) == Walked!Folded(<<>>, <<"">> \o p)
           T == {p \in Seq(PlainPart) : At(p) = p}
<1>1. <<>> \in T
  <2>1. <<>> \in Seq(PlainPart)
    BY EmptySeq
  <2>2. Walked!Folded(<<>>, Append(<<>>, "")) = Walk(Walked!Folded(<<>>, <<>>), "")
    <3>1. <<>> \in Seq(Part) /\ "" \in Part
      BY EmptySeq DEF Part
    <3> QED
      BY <3>1, Walked!FoldedAppend
  <2>4. Walk(<<>>, "") = <<>>
    BY DEF Walk
  <2> QED
    BY <2>1, <2>2, <2>4, RootPath, Walked!FoldedEmpty
<1>2. ASSUME NEW p \in Seq(PlainPart), NEW x \in PlainPart, p \in T
      PROVE  Append(p, x) \in T
  <2>1. Append(p, x) \in Seq(PlainPart)
    BY AppendProperties
  <2>2. p \in Paths /\ x \in Part /\ <<"">> \o p \in Paths
    BY RootPath, PlainIsPath, ConcatProperties DEF PlainPart, Paths
  <2>3. <<"">> \o Append(p, x) = Append(<<"">> \o p, x)
    BY <2>2, RootPath, PathAppend
  <2>4. Walked!Folded(<<>>, Append(<<"">> \o p, x)) = Walk(At(p), x)
    BY <2>2, Walked!FoldedAppend DEF Paths
  <2>5. Walk(p, x) = Append(p, x)
    BY DEF Walk, PlainPart
  <2> QED
    BY <1>2, <2>1, <2>3, <2>4, <2>5
<1>3. Seq(PlainPart) \subseteq T
  <2> HIDE DEF T
  <2> QED
    BY <1>1, <1>2, Walked!InductionOverSeq
<1> QED
  BY <1>3, WalkIsFold

(* The file of a canonical path.                                           *)
LEMMA RealRelative ==
  ASSUME NEW path, Relative(path), path # <<>>, Cwd \in Paths
  PROVE  Real(path) = Cwd \o path
<1>1. Head(path) \in PlainPart
  BY HeadTailProperties DEF Relative
<1>2. Head(path) # ""
  BY <1>1 DEF PlainPart
<1> QED
  BY <1>2, WalkDown DEF Real, Relative

LEMMA RealAbsolute ==
  ASSUME NEW path \in Paths, Absolute(path)
  PROVE  Real(path) = Tail(path)
<1>1. Tail(path) \in Seq(PlainPart) /\ Head(path) = ""
  BY DEF Absolute
<1>2. path = <<"">> \o Tail(path)
  BY Walked!HeadThenTail DEF Absolute, Paths
<1> QED
  BY <1>1, <1>2, WalkFromRoot DEF Real

(* Two canonical paths of one file are one path.                           *)
LEMMA OneName ==
  ASSUME NEW p \in Paths, NEW q \in Paths, p # <<>>, q # <<>>, Cwd \in Paths,
         Canonical(p), Canonical(q), Real(p) = Real(q)
  PROVE  p = q
<1>1. CASE Relative(p) /\ Relative(q)
  <2>1. Cwd \o p = Cwd \o q
    BY <1>1, RealRelative
  <2> QED
    BY <2>1, ConcatSimplifications DEF Paths
<1>2. CASE Absolute(p) /\ Absolute(q)
  <2>1. Tail(p) = Tail(q) /\ Head(p) = Head(q)
    BY <1>2, RealAbsolute DEF Absolute
  <2> QED
    BY <2>1, Walked!HeadThenTail DEF Paths
<1>3. ASSUME NEW r \in Paths, NEW a \in Paths, r # <<>>, Relative(r), Absolute(a),
             Real(r) = Real(a)
      PROVE  IsPrefix(Cwd, Tail(a))
  <2>1. Tail(a) = Cwd \o r
    BY <1>3, RealRelative, RealAbsolute
  <2>2. r \in Paths
    OBVIOUS
  <2> QED
    BY <2>1, <2>2, Walked!FirstIsPrefix DEF Paths, IsPrefix, Walked!IsPrefix
<1> QED
  BY <1>1, <1>2, <1>3 DEF Canonical
--------------------------------------------------------------------------------
(* What normalize_path leaves: no ".", no empty part, and ".." only in     *)
(* front, where there is nothing it could take away.                       *)
UpFirst(path) ==
  \A i \in DOMAIN path :
    /\ path[i] \in PlainPart \cup {".."}
    /\ path[i] = ".." => \A j \in 1..i : path[j] = ".."

LEMMA AppendPartKeeps ==
  ASSUME NEW path \in Paths, UpFirst(path), NEW part \in Part
  PROVE  AppendPart(path, part) \in Paths /\ UpFirst(AppendPart(path, part))
<1>0. Len(path) \in Nat /\ DOMAIN path = 1..Len(path)
  BY LenProperties DEF Paths
<1>1. CASE part \in {"", "."}
  BY <1>1 DEF AppendPart
<1>2. CASE part = ".." /\ path # <<>> /\ Last(path) # ".."
  <2>1. AppendPart(path, part) = Front(path)
    BY <1>2 DEF AppendPart
  <2>2. /\ Front(path) \in Paths /\ Len(Front(path)) = Len(path) - 1
        /\ \A i \in 1..Len(path) - 1 : Front(path)[i] = path[i]
    BY <1>2, Walked!FrontProperties DEF Paths, Front, Walked!Front
  <2>3. DOMAIN Front(path) = 1..Len(path) - 1
    BY <2>2, LenProperties DEF Paths
  <2> DEFINE f == Front(path)
  <2> HIDE DEF f
  <2>4. UpFirst(f)
    <3> SUFFICES ASSUME NEW i \in 1..Len(path) - 1
                 PROVE  /\ f[i] \in PlainPart \cup {".."}
                        /\ f[i] = ".." => \A j \in 1..i : f[j] = ".."
      BY <2>3 DEF UpFirst, f
    <3>1. i \in 1..Len(path) /\ \A j \in 1..i : j \in 1..Len(path) - 1
      BY <1>0
    <3> QED
      BY <1>0, <2>2, <3>1 DEF UpFirst, f
  <2> QED
    BY <2>1, <2>2, <2>4 DEF f
<1>3. CASE part \notin {"", "."} /\ ~(part = ".." /\ path # <<>> /\ Last(path) # "..")
  <2>1. PICK a : a = Append(path, part)
    OBVIOUS
  <2>2. AppendPart(path, part) = a
    BY <1>3, <2>1 DEF AppendPart
  <2>3. /\ a \in Paths /\ DOMAIN a = 1..Len(path) + 1
        /\ a[Len(path) + 1] = part
        /\ \A i \in 1..Len(path) : a[i] = path[i]
    BY <2>1, AppendProperties, LenProperties DEF Paths
  <2>4. part \in PlainPart \cup {".."}
    BY <1>3 DEF PlainPart
  <2>5. ASSUME part = "..", NEW j \in 1..Len(path) PROVE path[j] = ".."
    <3>1. path # <<>> /\ Len(path) \in 1..Len(path) /\ Last(path) = path[Len(path)]
      BY <1>0, <2>5, EmptySeq DEF Paths, Last
    <3>2. path[Len(path)] = ".."
      BY <1>3, <2>5, <3>1
    <3> QED
      BY <1>0, <3>1, <3>2 DEF UpFirst
  <2>6. ASSUME NEW i \in 1..Len(path) + 1
        PROVE  /\ a[i] \in PlainPart \cup {".."}
               /\ a[i] = ".." => \A j \in 1..i : a[j] = ".."
    <3>1. CASE i = Len(path) + 1
      <4>1. ASSUME part = "..", NEW j \in 1..i PROVE a[j] = ".."
        <5>1. j = Len(path) + 1 \/ j \in 1..Len(path)
          BY <1>0, <3>1
        <5> QED
          BY <2>3, <2>5, <4>1, <5>1
      <4> QED
        BY <2>3, <2>4, <3>1, <4>1
    <3>2. CASE i \in 1..Len(path)
      <4>1. \A j \in 1..i : j \in 1..Len(path)
        BY <1>0, <3>2
      <4>2. path[i] \in PlainPart \cup {".."} /\ (path[i] = ".." => \A j \in 1..i : path[j] = "..")
        BY <1>0, <3>2 DEF UpFirst
      <4> QED
        BY <2>3, <3>2, <4>1, <4>2
    <3> QED
      BY <1>0, <3>1, <3>2
  <2>7. UpFirst(a)
    BY <2>3, <2>6 DEF UpFirst
  <2> QED
    BY <2>2, <2>3, <2>7
<1> QED
  BY <1>1, <1>2, <1>3

(* Whatever an import writes, what normalize_path makes of it goes up      *)
(* first and then down.                                                    *)
THEOREM NormalizedGoesUpFirst ==
  ASSUME NEW path \in Paths
  PROVE  NormalizePath(path) \in Paths /\ UpFirst(NormalizePath(path))
<1> DEFINE T == {p \in Paths : /\ Appended!Folded(<<>>, p) \in Paths
                               /\ UpFirst(Appended!Folded(<<>>, p))}
<1>1. <<>> \in T
  <2>1. DOMAIN <<>> = {}
    OBVIOUS
  <2>2. <<>> \in Paths /\ UpFirst(<<>>)
    BY <2>1, RootPath DEF UpFirst
  <2> QED
    BY <2>2, Appended!FoldedEmpty
<1>2. ASSUME NEW p \in Paths, NEW x \in Part, p \in T
      PROVE  Append(p, x) \in T
  <2>1. Append(p, x) \in Paths
    BY AppendProperties DEF Paths
  <2>2. Appended!Folded(<<>>, Append(p, x)) = AppendPart(Appended!Folded(<<>>, p), x)
    BY Appended!FoldedAppend DEF Paths
  <2> QED
    BY <1>2, <2>1, <2>2, AppendPartKeeps
<1>3. Paths \subseteq T
  <2> HIDE DEF T
  <2>1. \A p \in Seq(Part) : \A x \in Part : p \in T => Append(p, x) \in T
    BY <1>2 DEF Paths
  <2> QED
    BY <1>1, <2>1, Walked!InductionOverSeq DEF Paths
<1> QED
  BY <1>3, NormalizeIsFold

(* One that does not begin with ".." goes down only.                       *)
LEMMA NormalizedIsRelative ==
  ASSUME NEW path \in Paths, NEW n, n = NormalizePath(path), n # <<>> => Head(n) # ".."
  PROVE  Relative(n)
<1>1. n \in Paths /\ UpFirst(n) /\ Len(n) \in Nat /\ DOMAIN n = 1..Len(n)
  BY NormalizedGoesUpFirst, LenProperties DEF Paths
<1>2. ASSUME NEW i \in 1..Len(n) PROVE n[i] \in PlainPart
  <2>1. n # <<>> /\ n[1] = Head(n) /\ 1 \in 1..i
    BY <1>1, EmptySeq DEF Paths
  <2> QED
    BY <1>1, <2>1 DEF UpFirst
<1>3. n \in Seq(Part)
  BY <1>1 DEF Paths
<1> QED
  BY <1>2, <1>3, Walked!SeqByElements DEF Relative
--------------------------------------------------------------------------------
(* What an import resolves to                                              *)

LEMMA DirectoryIsPath ==
  ASSUME NEW path \in Paths, path # <<>>
  PROVE  /\ Directory(path) \in Paths /\ Len(Directory(path)) = Len(path) - 1
         /\ Len(path) \in Nat \ {0}
         /\ \A d \in 0..Len(path) : SubSeq(path, 1, d) \in Paths
<1>1. Len(path) \in Nat \ {0} /\ \A i \in 1..Len(path) : path[i] \in Part
  BY LenProperties, EmptySeq, ElementOfSeq DEF Paths
<1>2. Front(path) \in Paths /\ Len(Front(path)) = Len(path) - 1
  BY Walked!FrontProperties DEF Paths, Front, Walked!Front
<1>3. ASSUME NEW d \in 0..Len(path) PROVE SubSeq(path, 1, d) \in Paths
  <2>1. \A i \in 1..d : path[i] \in Part
    BY <1>1
  <2> QED
    BY <2>1, SubSeqProperties DEF Paths
<1> QED
  BY <1>1, <1>2, <1>3 DEF Directory

LEMMA ConcatIsPath == \A p, q \in Paths : p \o q \in Paths
BY ConcatProperties DEF Paths

LEMMA OnePartPath == \A x \in Part : <<x>> \in Paths
<1> SUFFICES ASSUME NEW x \in Part PROVE <<x>> \in Paths
  OBVIOUS
<1>1. <<>> \in Seq(Part) /\ Append(<<>>, x) = <<x>>
  BY EmptySeq
<1> QED
  BY <1>1, AppendProperties DEF Paths

(* The packages are looked for from the importing file's directory up.     *)
LEMMA ResolvePackageImportIs ==
  ASSUME NEW files, NEW from \in Paths, from # <<>>, NEW name,
         ResolvePackageImport(files, from, name) # Missing
  PROVE  \E d \in 0..Len(from) - 1 :
           /\ ResolvePackageImport(files, from, name) = SubSeq(from, 1, d) \o <<".sn">> \o name
           /\ Exists(files, SubSeq(from, 1, d) \o <<".sn">> \o name)
<1> DEFINE Candidate(d) == SubSeq(from, 1, d) \o <<".sn">> \o name
           found == {d \in 0..Len(Directory(from)) : Exists(files, Candidate(d))}
           nearest == CHOOSE d \in found : \A e \in found : e <= d
<1>1. /\ ResolvePackageImport(files, from, name) = Candidate(nearest)
      /\ found # {}
  BY DEF ResolvePackageImport
<1>2. Len(Directory(from)) = Len(from) - 1 /\ Len(from) - 1 \in Nat
  BY DirectoryIsPath
<1>3. found \in SUBSET (0..Len(from) - 1)
  BY <1>2
<1>4. nearest \in found
  <2> HIDE DEF found
  <2>1. \E d \in found : \A e \in found : e <= d
    BY <1>1, <1>2, <1>3, Walked!GreatestUpTo
  <2> QED
    BY <2>1
<1>5. Exists(files, Candidate(nearest))
  BY <1>4
<1> HIDE DEF found, nearest
<1> QED
  BY <1>1, <1>3, <1>4, <1>5

(* The parts of a name in the SDK's directory.                             *)
SdkName(name) == IF Head(name) = "sdk" THEN Tail(name) ELSE name

(* An import is found nowhere, or at one of these paths.                   *)
CandidateFor(from, name, path) ==
  \/ path = NormalizePath(Directory(from) \o name)
  \/ \E d \in 0..Len(from) - 1 : path = SubSeq(from, 1, d) \o <<".sn">> \o name
  \/ path = <<"">> \o SdkRoot \o <<"sdk">> \o SdkName(name)

LEMMA ResolveImportIs ==
  ASSUME NEW files, NEW from \in Paths, from # <<>>, NEW name,
         NEW path, path = ResolveImport(files, from, name), path # Missing
  PROVE  Exists(files, path) /\ CandidateFor(from, name, path)
<1> DEFINE near == ConstructImportPath(from, name)
           package == ResolvePackageImport(files, from, name)
           sdk == ResolveSdkImport(files, name)
<1>1. \/ path = near /\ Exists(files, near)
      \/ path = package /\ package # Missing
      \/ path = sdk /\ sdk # Missing
  BY DEF ResolveImport
<1>2. CASE path = near /\ Exists(files, near)
  BY <1>2 DEF ConstructImportPath, CandidateFor
<1>3. CASE path = package /\ package # Missing
  <2> HIDE DEF package
  <2>1. PICK d \in 0..Len(from) - 1 : /\ package = SubSeq(from, 1, d) \o <<".sn">> \o name
                                      /\ Exists(files, SubSeq(from, 1, d) \o <<".sn">> \o name)
    BY <1>3, ResolvePackageImportIs DEF package
  <2> QED
    BY <1>3, <2>1 DEF CandidateFor
<1>4. CASE path = sdk /\ sdk # Missing
  BY <1>4 DEF ResolveSdkImport, SdkName, CandidateFor
<1> QED
  BY <1>1, <1>2, <1>3, <1>4

LEMMA ResolvedIsPath ==
  ASSUME NEW files, NEW from \in Paths, from # <<>>, NEW name \in Paths, name # <<>>,
         SdkRoot \in Paths,
         NEW path, path = ResolveImport(files, from, name), path # Missing
  PROVE  path \in Paths /\ Real(path) \in files
<1>1. <<"">> \in Paths /\ <<".sn">> \in Paths /\ <<"sdk">> \in Paths
  BY OnePartPath DEF Part
<1>2. Exists(files, path) /\ CandidateFor(from, name, path)
  BY ResolveImportIs
<1>3. ASSUME path = NormalizePath(Directory(from) \o name) PROVE path \in Paths
  BY <1>3, DirectoryIsPath, ConcatIsPath, NormalizedGoesUpFirst
<1>4. ASSUME NEW d \in 0..Len(from) - 1, path = SubSeq(from, 1, d) \o <<".sn">> \o name
      PROVE  path \in Paths
  <2>1. d \in 0..Len(from) /\ SubSeq(from, 1, d) \in Paths
    BY DirectoryIsPath
  <2>2. SubSeq(from, 1, d) \o <<".sn">> \in Paths
    BY <1>1, <2>1, ConcatIsPath
  <2> QED
    BY <1>4, <2>2, ConcatIsPath
<1>5. ASSUME path = <<"">> \o SdkRoot \o <<"sdk">> \o SdkName(name) PROVE path \in Paths
  <2>1. SdkName(name) \in Paths
    BY HeadTailProperties DEF SdkName, Paths
  <2>2. <<"">> \o SdkRoot \o <<"sdk">> \in Paths
    BY <1>1, ConcatIsPath
  <2> QED
    BY <1>5, <2>1, <2>2, ConcatIsPath
<1> QED
  BY <1>2, <1>3, <1>4, <1>5 DEF Exists, CandidateFor

--------------------------------------------------------------------------------
(* Where no name has a "." or "..", the paths have none either.            *)
Fits(i, part) == part \in PlainPart \/ (i = 1 /\ part = "")
Straight(path) == path \in Paths /\ \A i \in 1..Len(path) : Fits(i, path[i])

LEMMA StraightKinds ==
  ASSUME NEW path, Straight(path)
  PROVE  Relative(path) \/ Absolute(path)
<1>1. path \in Seq(Part) /\ Len(path) \in Nat
  BY LenProperties DEF Straight, Paths
<1>2. CASE path # <<>> /\ path[1] = ""
  <2>1. /\ Head(path) = "" /\ Tail(path) \in Seq(Part) /\ Len(Tail(path)) = Len(path) - 1
        /\ \A i \in 1..Len(Tail(path)) : Tail(path)[i] = path[i + 1]
    <3>1. Head(path) = path[1]
      OBVIOUS
    <3> QED
      BY <1>1, <1>2, <3>1, HeadTailProperties
  <2>2. ASSUME NEW i \in 1..Len(path) - 1 PROVE Tail(path)[i] \in PlainPart
    <3>1. PICK n \in Nat : n = Len(path)
      BY <1>1
    <3>2. i + 1 \in 1..n /\ i + 1 # 1 /\ i \in 1..n - 1
      BY <3>1
    <3> QED
      BY <2>1, <3>1, <3>2 DEF Straight, Fits
  <2>3. \A i \in 1..Len(Tail(path)) : Tail(path)[i] \in PlainPart
    BY <2>1, <2>2
  <2>4. Tail(path) \in Seq(PlainPart)
    BY <2>1, <2>3, Walked!SeqByElements
  <2> QED
    BY <1>2, <2>1, <2>4 DEF Absolute
<1>3. CASE path = <<>> \/ path[1] # ""
  <2>1. ASSUME NEW i \in 1..Len(path) PROVE path[i] \in PlainPart
    <3>1. path # <<>>
      BY <1>1, EmptySeq
    <3> QED
      BY <1>3, <3>1 DEF Straight, Fits
  <2> QED
    BY <1>1, <2>1, Walked!SeqByElements DEF Relative
<1> QED
  BY <1>2, <1>3

LEMMA StraightJoin ==
  ASSUME NEW p, Straight(p), NEW q \in Seq(PlainPart)
  PROVE  Straight(p \o q)
<1>1. p \in Seq(Part) /\ q \in Seq(Part)
  BY PlainIsPath DEF Straight, Paths
<1>2. PICK z : z = p \o q
  OBVIOUS
<1>3. PICK m \in Nat, n \in Nat : m = Len(p) /\ n = Len(q)
  BY <1>1, LenProperties
<1>4. /\ z \in Seq(Part) /\ Len(z) = m + n
      /\ \A i \in 1..m + n : z[i] = IF i <= m THEN p[i] ELSE q[i - m]
  BY <1>1, <1>2, <1>3, ConcatProperties
<1>5. \A i \in 1..n : q[i] \in PlainPart
  BY <1>3, ElementOfSeq
<1>6. \A i \in 1..m : Fits(i, p[i])
  BY <1>3 DEF Straight
<1>7. ASSUME NEW i \in 1..m + n PROVE Fits(i, z[i])
  <2>1. CASE i <= m
    <3>1. i \in 1..m /\ z[i] = p[i]
      BY <1>4, <2>1
    <3> QED
      BY <1>6, <3>1
  <2>2. CASE i > m
    <3>1. i - m \in 1..n /\ z[i] = q[i - m]
      BY <1>4, <2>2
    <3> QED
      BY <1>5, <3>1 DEF Fits
  <2> QED
    BY <2>1, <2>2
<1> QED
  BY <1>2, <1>4, <1>7 DEF Straight, Paths

LEMMA StraightUpTo ==
  ASSUME NEW p, Straight(p), NEW d \in 0..Len(p)
  PROVE  Straight(SubSeq(p, 1, d))
<1>1. p \in Seq(Part) /\ Len(p) \in Nat /\ \A i \in 1..d : p[i] \in Part /\ i \in 1..Len(p)
  BY LenProperties, ElementOfSeq DEF Straight, Paths
<1>2. /\ SubSeq(p, 1, d) \in Seq(Part)
      /\ Len(SubSeq(p, 1, d)) = d
      /\ \A i \in 1..d : SubSeq(p, 1, d)[i] = p[i]
  BY <1>1, SubSeqProperties
<1> QED
  BY <1>1, <1>2 DEF Straight, Paths

LEMMA NormalizedStraight ==
  ASSUME NEW path \in Seq(Part \ {".."})
  PROVE  NormalizePath(path) \in Seq(PlainPart)
<1> DEFINE Steady == Part \ {".."}
           T == {p \in Seq(Steady) : Appended!Folded(<<>>, p) \in Seq(PlainPart)}
<1>1. <<>> \in T
  BY EmptySeq, Appended!FoldedEmpty
<1>2. ASSUME NEW p \in Seq(Steady), NEW x \in Steady, p \in T
      PROVE  Append(p, x) \in T
  <2>1. Append(p, x) \in Seq(Steady)
    BY AppendProperties
  <2>2. Appended!Folded(<<>>, Append(p, x)) = AppendPart(Appended!Folded(<<>>, p), x)
    BY Appended!FoldedAppend
  <2>3. ASSUME NEW q \in Seq(PlainPart) PROVE AppendPart(q, x) \in Seq(PlainPart)
    <3>1. CASE x \in {"", "."}
      BY <3>1 DEF AppendPart
    <3>2. CASE x \notin {"", "."}
      <4>1. x \in PlainPart /\ x # ".."
        BY <3>2 DEF PlainPart
      <4>2. AppendPart(q, x) = Append(q, x)
        BY <3>2, <4>1 DEF AppendPart
      <4> QED
        BY <4>1, <4>2, AppendProperties
    <3> QED
      BY <3>1, <3>2
  <2> QED
    BY <1>2, <2>1, <2>2, <2>3
<1>3. Seq(Steady) \subseteq T
  <2> HIDE DEF T
  <2> QED
    BY <1>1, <1>2, Walked!InductionOverSeq
<1> QED
  BY <1>3, NormalizeIsFold

LEMMA StraightIsSteady ==
  ASSUME NEW p, Straight(p)
  PROVE  p \in Seq(Part \ {".."})
<1>1. \A i \in 1..Len(p) : p[i] \in Part \ {".."}
  BY DEF Straight, Fits, PlainPart, Part
<1>2. p \in Seq(Part)
  BY DEF Straight, Paths
<1> QED
  BY <1>1, <1>2, Walked!SeqByElements

LEMMA ResolvedIsStraight ==
  ASSUME NEW files, NEW from, Straight(from), from # <<>>,
         NEW name \in Seq(PlainPart), name # <<>>, SdkRoot \in Seq(PlainPart),
         NEW path, path = ResolveImport(files, from, name), path # Missing
  PROVE  Straight(path)
<1>1. from \in Paths /\ Len(from) \in Nat \ {0}
  BY DirectoryIsPath DEF Straight
<1>2. CandidateFor(from, name, path)
  BY <1>1, ResolveImportIs
<1>3. ASSUME NEW d \in 0..Len(from) - 1 PROVE Straight(SubSeq(from, 1, d))
  <2>1. d \in 0..Len(from)
    BY <1>1
  <2> QED
    BY <2>1, StraightUpTo
<1>4. ASSUME NEW x \in PlainPart PROVE <<x>> \in Seq(PlainPart)
  <2>1. <<>> \in Seq(PlainPart) /\ Append(<<>>, x) = <<x>>
    BY EmptySeq
  <2> QED
    BY <2>1, AppendProperties
<1>5. <<".sn">> \in Seq(PlainPart) /\ <<"sdk">> \in Seq(PlainPart)
  <2>1. ".sn" \in PlainPart /\ "sdk" \in PlainPart
    BY DEF Part, PlainPart
  <2> QED
    BY <1>4, <2>1
<1>6. ASSUME path = NormalizePath(Directory(from) \o name) PROVE Straight(path)
  <2>1. Directory(from) = SubSeq(from, 1, Len(from) - 1) /\ Len(from) - 1 \in 0..Len(from) - 1
    BY <1>1 DEF Directory, Front
  <2>2. Straight(Directory(from) \o name)
    BY <1>3, <2>1, StraightJoin
  <2>3. path \in Seq(PlainPart)
    BY <1>6, <2>2, StraightIsSteady, NormalizedStraight
  <2> QED
    BY <2>3, PlainIsPath, ElementOfSeq DEF Straight, Fits
<1>7. ASSUME NEW d \in 0..Len(from) - 1, path = SubSeq(from, 1, d) \o <<".sn">> \o name
      PROVE  Straight(path)
  <2>1. Straight(SubSeq(from, 1, d) \o <<".sn">>)
    BY <1>3, <1>5, StraightJoin
  <2> QED
    BY <1>7, <2>1, StraightJoin
<1>8. ASSUME path = <<"">> \o SdkRoot \o <<"sdk">> \o SdkName(name) PROVE Straight(path)
  <2>1. Straight(<<"">>)
    <3>1. Len(<<"">>) = 1 /\ <<"">>[1] = "" /\ Fits(1, "")
      BY DEF Fits
    <3>2. ASSUME NEW root, Len(root) = 1, Fits(1, root[1]), root \in Paths PROVE Straight(root)
      <4>1. ASSUME NEW i \in 1..Len(root) PROVE i = 1
        BY <3>2
      <4> QED
        BY <3>2, <4>1 DEF Straight
    <3> QED
      BY <3>1, <3>2, RootPath
  <2>2. SdkName(name) \in Seq(PlainPart)
    BY HeadTailProperties DEF SdkName
  <2>3. Straight(<<"">> \o SdkRoot)
    BY <2>1, StraightJoin
  <2>4. Straight(<<"">> \o SdkRoot \o <<"sdk">>)
    BY <1>5, <2>3, StraightJoin
  <2> QED
    BY <1>8, <2>2, <2>4, StraightJoin
<1> QED
  BY <1>2, <1>6, <1>7, <1>8 DEF CandidateFor
--------------------------------------------------------------------------------
(* The parsing                                                             *)

FrameSet == [path : Paths, copy : Nat, at : Nat \ {0}, bad : BOOLEAN]
HasFile(path) == path # <<>> /\ Real(path) \in Files

Loaded == program \in Programs
Stacked == frames \in Seq(FrameSet) /\ \A i \in 1..Len(frames) : HasFile(frames[i].path)
InAFile == phase = "parse" => frames # <<>>
Listed == imported \in Seq(Paths) /\ \A i \in 1..Len(imported) : HasFile(imported[i])

(* The guard of ImportFirst compares with all that is listed.              *)
ListedOnce == \A i, j \in 1..Len(imported) : imported[i] = imported[j] => i = j

(* What an import that meets a listed path reads is there to be read.      *)
HasModule == DOMAIN modules = Range(imported)

(* Below the main file each file that is being parsed was listed when its  *)
(* parsing began, and is being parsed only there.                          *)
NestedOnce ==
  \A i \in 2..Len(frames) :
    /\ frames[i].path \in Range(imported)
    /\ \A j \in 2..Len(frames) : frames[i].path = frames[j].path => i = j

IInv ==
  Loaded /\ Stacked /\ InAFile /\ Listed /\ ListedOnce /\ HasModule /\ NestedOnce

LEMMA Constants ==
  /\ Main \in Paths /\ Cwd \in Paths /\ SdkRoot \in Paths /\ Main # <<>>
  /\ \A p \in Programs :
       /\ Real(Main) \in DOMAIN p
       /\ \A file \in DOMAIN p :
            /\ DOMAIN p[file] = 1..Len(p[file]) /\ Len(p[file]) \in Nat
            /\ \A i \in 1..Len(p[file]) :
                 p[file][i].kind = "import" => p[file][i].name \in Paths /\ p[file][i].name # <<>>
<1>1. Seq(STRING) \subseteq Paths
  BY Walked!SeqOfSubset DEF Paths, Part
<1> QED
  BY <1>1, ImportAssumption

(* The stack after a statement was read.                                   *)
LEMMA AdvancedFrames ==
  ASSUME NEW s \in Seq(FrameSet), s # <<>>
  PROVE  /\ Advanced(s) \in Seq(FrameSet) /\ Len(Advanced(s)) = Len(s)
         /\ \A i \in 1..Len(s) : Advanced(s)[i].path = s[i].path
<1>1. Len(s) \in Nat \ {0} /\ DOMAIN s = 1..Len(s) /\ \A i \in 1..Len(s) : s[i] \in FrameSet
  BY LenProperties, EmptySeq, ElementOfSeq
<1>2. PICK t : t = Advanced(s)
  OBVIOUS
<1>3. t = [s EXCEPT ![Len(s)] = [s[Len(s)] EXCEPT !.at = s[Len(s)].at + 1]]
  BY <1>2 DEF Advanced
<1>4. ASSUME NEW f \in FrameSet
      PROVE  [f EXCEPT !.at = f.at + 1] \in FrameSet /\ [f EXCEPT !.at = f.at + 1].path = f.path
  BY DEF FrameSet
<1>5. /\ t \in Seq(FrameSet) /\ Len(t) = Len(s)
      /\ \A i \in 1..Len(s) : t[i].path = s[i].path
  <2> DEFINE f == s[Len(s)]
             g == [f EXCEPT !.at = f.at + 1]
  <2>1. f \in FrameSet /\ g \in FrameSet /\ g.path = f.path
    BY <1>1, <1>4
  <2>2. t = [s EXCEPT ![Len(s)] = g]
    BY <1>3
  <2> HIDE DEF g
  <2>3. /\ t \in Seq(FrameSet) /\ Len(t) = Len(s)
        /\ \A i \in 1..Len(s) : t[i] = IF i = Len(s) THEN g ELSE s[i]
    BY <1>1, <2>1, <2>2, ExceptSeq
  <2> QED
    BY <1>1, <2>1, <2>3
<1> QED
  BY <1>2, <1>5
LEMMA SpoiledFrames ==
  ASSUME NEW s \in Seq(FrameSet), s # <<>>
  PROVE  /\ Spoiled(s) \in Seq(FrameSet) /\ Len(Spoiled(s)) = Len(s)
         /\ \A i \in 1..Len(s) : Spoiled(s)[i].path = s[i].path
<1>1. Len(s) \in Nat \ {0} /\ DOMAIN s = 1..Len(s) /\ \A i \in 1..Len(s) : s[i] \in FrameSet
  BY LenProperties, EmptySeq, ElementOfSeq
<1>2. PICK t : t = Spoiled(s)
  OBVIOUS
<1>3. t = [s EXCEPT ![Len(s)] = [s[Len(s)] EXCEPT !.bad = TRUE]]
  BY <1>2 DEF Spoiled
<1>4. ASSUME NEW f \in FrameSet
      PROVE  [f EXCEPT !.bad = TRUE] \in FrameSet /\ [f EXCEPT !.bad = TRUE].path = f.path
  BY DEF FrameSet
<1>5. /\ t \in Seq(FrameSet) /\ Len(t) = Len(s)
      /\ \A i \in 1..Len(s) : t[i].path = s[i].path
  <2> DEFINE f == s[Len(s)]
             g == [f EXCEPT !.bad = TRUE]
  <2>1. f \in FrameSet /\ g \in FrameSet /\ g.path = f.path
    BY <1>1, <1>4
  <2>2. t = [s EXCEPT ![Len(s)] = g]
    BY <1>3
  <2> HIDE DEF g
  <2>3. /\ t \in Seq(FrameSet) /\ Len(t) = Len(s)
        /\ \A i \in 1..Len(s) : t[i] = IF i = Len(s) THEN g ELSE s[i]
    BY <1>1, <2>1, <2>2, ExceptSeq
  <2> QED
    BY <1>1, <2>1, <2>3
<1> QED
  BY <1>2, <1>5

(* A step that takes nothing but the stack further, or lower.              *)
Lowered ==
  /\ program' = program /\ imported' = imported /\ DOMAIN modules' = DOMAIN modules
  /\ frames' \in Seq(FrameSet) /\ Len(frames') <= Len(frames)
  /\ \A i \in 1..Len(frames') : frames'[i].path = frames[i].path
  /\ phase' = "parse" => frames' # <<>>

(* A step that lists no path and leaves no file on the stack that was not  *)
(* there.                                                                  *)
LEMMA KeptByLowered ==
  ASSUME IInv, Lowered
  PROVE  IInv'
<1>0. /\ program' = program /\ imported' = imported /\ DOMAIN modules' = DOMAIN modules
      /\ frames' \in Seq(FrameSet) /\ Len(frames') <= Len(frames)
      /\ \A i \in 1..Len(frames') : frames'[i].path = frames[i].path
      /\ phase' = "parse" => frames' # <<>>
  BY DEF Lowered
<1>1. PICK m \in Nat, n \in Nat : m = Len(frames') /\ n = Len(frames) /\ m <= n
  BY <1>0, LenProperties DEF IInv, Stacked
<1>2. \A i \in 1..m : i \in 1..n
  BY <1>1
<1>3. \A i \in 2..m : i \in 2..n /\ i \in 1..m
  BY <1>1
<1>4. Loaded'
  BY <1>0 DEF IInv, Loaded
<1>5. Stacked'
  BY <1>0, <1>1, <1>2 DEF IInv, Stacked, HasFile, Files
<1>6. InAFile'
  BY <1>0 DEF InAFile
<1>7. Listed' /\ ListedOnce' /\ HasModule'
  BY <1>0 DEF IInv, Listed, ListedOnce, HasModule, HasFile, Files
<1>8. NestedOnce'
  BY <1>0, <1>1, <1>3 DEF IInv, NestedOnce
<1> QED
  BY <1>4, <1>5, <1>6, <1>7, <1>8 DEF IInv

(* The file that is being read, and the name in the import it has come to. *)
LEMMA CurrentFrame ==
  ASSUME IInv, frames # <<>>
  PROVE  /\ Fr = frames[Len(frames)] /\ Len(frames) \in Nat \ {0}
         /\ Fr \in FrameSet /\ HasFile(Fr.path)
<1>1. Fr = frames[Len(frames)] /\ Len(frames) \in Nat \ {0}
  BY LenProperties, EmptySeq DEF Fr, Last, IInv, Stacked
<1>2. Len(frames) \in 1..Len(frames)
  BY <1>1
<1> QED
  BY <1>1, <1>2, ElementOfSeq DEF IInv, Stacked

LEMMA CurrentImport ==
  ASSUME IInv, Parsing({"import"})
  PROVE  /\ frames # <<>>
         /\ Stmt(Here).name \in Paths /\ Stmt(Here).name # <<>>
         /\ Stmt(Here) = program[Real(Fr.path)][Fr.at]
         /\ Fr.at \in DOMAIN program[Real(Fr.path)]
         /\ Target(Here) = ResolveImport(Files, Fr.path, Stmt(Here).name)
<1>1. phase = "parse" /\ Fr.at <= Len(TextOf(Fr.path)) /\ Stmt(Here).kind = "import"
  BY DEF Parsing
<1>2. frames # <<>>
  BY <1>1 DEF IInv, InAFile
<1>3. Fr.at \in Nat \ {0} /\ Real(Fr.path) \in DOMAIN program /\ program \in Programs
  BY <1>2, CurrentFrame DEF FrameSet, HasFile, Files, IInv, Loaded
<1>4. PICK text : text = program[Real(Fr.path)]
  OBVIOUS
<1>5. /\ DOMAIN text = 1..Len(text) /\ Len(text) \in Nat
      /\ \A i \in 1..Len(text) :
           text[i].kind = "import" => text[i].name \in Paths /\ text[i].name # <<>>
  BY <1>3, <1>4, Constants
<1>6. Here.path = Fr.path /\ Here.at = Fr.at
  BY DEF Here
<1>7. Stmt(Here) = text[Fr.at] /\ TextOf(Fr.path) = text
  BY <1>4, <1>6 DEF Stmt, TextOf
<1>8. Fr.at \in 1..Len(text)
  BY <1>1, <1>3, <1>5, <1>7
<1>9. Stmt(Here).name \in Paths /\ Stmt(Here).name # <<>>
  BY <1>1, <1>5, <1>7, <1>8
<1> QED
  BY <1>2, <1>4, <1>5, <1>6, <1>7, <1>8, <1>9 DEF Target

LEMMA CurrentTarget ==
  ASSUME IInv, Parsing({"import"}), Target(Here) # Missing
  PROVE  Target(Here) \in Paths /\ HasFile(Target(Here))
<1>1. Fr.path \in Paths /\ Fr.path # <<>>
  BY CurrentImport, CurrentFrame DEF FrameSet, HasFile
<1>2. Stmt(Here).name \in Paths /\ Stmt(Here).name # <<>>
  BY CurrentImport
<1>3. Target(Here) = ResolveImport(Files, Fr.path, Stmt(Here).name)
  BY CurrentImport
<1>4. Target(Here) \in Paths /\ Real(Target(Here)) \in Files
  BY <1>1, <1>2, <1>3, Constants, ResolvedIsPath
<1> QED
  BY <1>4 DEF HasFile, Missing
LEMMA IInvInitially == ImportInit => IInv
<1> SUFFICES ASSUME ImportInit PROVE IInv
  OBVIOUS
<1> DEFINE f == Frame(Main, 0)
<1>1. f \in FrameSet /\ f.path = Main
  BY Constants DEF Frame, FrameSet
<1>2. Main # <<>> /\ Real(Main) \in Files /\ program \in Programs
  BY Constants DEF ImportInit, Files
<1> HIDE DEF f
<1>3. frames = <<f>> /\ imported = <<>> /\ modules = <<>>
  BY DEF ImportInit, f
<1>4. frames \in Seq(FrameSet) /\ Len(frames) = 1 /\ frames[1] = f /\ frames # <<>>
  <2>1. <<>> \in Seq(FrameSet) /\ Append(<<>>, f) = <<f>> /\ Len(<<f>>) = 1 /\ <<f>>[1] = f
    BY EmptySeq
  <2>2. <<f>> \in Seq(FrameSet)
    BY <1>1, <2>1, AppendProperties
  <2> QED
    BY <1>3, <2>1, <2>2
<1>5. Loaded /\ Stacked /\ InAFile
  <2>1. ASSUME NEW i \in 1..Len(frames) PROVE i = 1
    BY <1>4
  <2> QED
    BY <1>1, <1>2, <1>4, <2>1 DEF Loaded, Stacked, InAFile, HasFile
<1>6. Listed /\ ListedOnce /\ HasModule
  <2>1. imported \in Seq(Paths) /\ Len(imported) = 0 /\ DOMAIN imported = {} /\ DOMAIN modules = {}
    BY <1>3, EmptySeq
  <2>2. Range(imported) = {}
    BY <2>1 DEF Range
  <2> QED
    BY <2>1, <2>2 DEF Listed, ListedOnce, HasModule
<1>7. NestedOnce
  <2>1. 2..Len(frames) = {}
    BY <1>4
  <2> QED
    BY <2>1 DEF NestedOnce
<1> QED
  BY <1>5, <1>6, <1>7 DEF IInv

(* A statement that is read, and an import that lists nothing.             *)
LEMMA StatementSteps ==
  ASSUME IInv, ParseFunction \/ ParseVariable \/ ImportMissing \/ ImportAgain
  PROVE  Lowered
<1>1. /\ phase = "parse" /\ program' = program /\ imported' = imported /\ modules' = modules
      /\ frames' = Advanced(frames) \/ frames' = Spoiled(Advanced(frames))
  BY DEF ParseFunction, ParseVariable, ImportMissing, ImportAgain, Parsing
<1>2. frames # <<>> /\ frames \in Seq(FrameSet)
  BY <1>1 DEF IInv, InAFile, Stacked
<1>3. PICK a : a = Advanced(frames)
  OBVIOUS
<1>4. /\ a \in Seq(FrameSet) /\ Len(a) = Len(frames) /\ a # <<>>
      /\ \A i \in 1..Len(frames) : a[i].path = frames[i].path
  <2>1. Len(frames) # 0
    BY <1>2, EmptySeq
  <2> QED
    BY <1>2, <1>3, <2>1, AdvancedFrames, EmptySeq
<1>5. /\ frames' \in Seq(FrameSet) /\ Len(frames') = Len(frames)
      /\ \A i \in 1..Len(frames) : frames'[i].path = frames[i].path
  BY <1>1, <1>3, <1>4, SpoiledFrames
<1>6. frames' # <<>> /\ Len(frames') <= Len(frames)
  BY <1>2, <1>5, EmptySeq, LenProperties
<1> QED
  BY <1>1, <1>5, <1>6 DEF Lowered

(* The end of a file that was imported.                                    *)
LEMMA FinishImportStep ==
  ASSUME IInv, FinishImport
  PROVE  Lowered
<1>1. /\ phase = "parse" /\ Len(frames) > 1 /\ program' = program /\ imported' = imported
      /\ LET rest == Advanced(Front(frames))
         IN  frames' = rest \/ frames' = Spoiled(rest)
      /\ \/ modules' = modules
         \/ modules' = [modules EXCEPT ![Fr.path] = Merged(Fr.path)]
  BY DEF FinishImport, AtEndOfFile
<1>2. frames \in Seq(FrameSet) /\ Len(frames) \in Nat /\ frames # <<>>
  BY <1>1, EmptySeq, LenProperties DEF IInv, Stacked, InAFile
<1>3. PICK f : f = Front(frames)
  OBVIOUS
<1>4. /\ f \in Seq(FrameSet) /\ Len(f) = Len(frames) - 1
      /\ \A i \in 1..Len(frames) - 1 : f[i] = frames[i]
  BY <1>2, <1>3, Walked!FrontProperties DEF Front, Walked!Front
<1>5. f # <<>>
  BY <1>1, <1>2, <1>4, EmptySeq
<1>6. PICK a : a = Advanced(f)
  OBVIOUS
<1>7. /\ a \in Seq(FrameSet) /\ Len(a) = Len(f) /\ a # <<>>
      /\ \A i \in 1..Len(f) : a[i].path = f[i].path
  <2>1. Len(f) # 0
    BY <1>4, <1>5, EmptySeq
  <2> QED
    BY <1>4, <1>5, <1>6, <2>1, AdvancedFrames, EmptySeq
<1>8. /\ frames' \in Seq(FrameSet) /\ Len(frames') = Len(f)
      /\ \A i \in 1..Len(f) : frames'[i].path = f[i].path
  BY <1>1, <1>3, <1>6, <1>7, SpoiledFrames
<1>9. frames' # <<>> /\ Len(frames') <= Len(frames)
  BY <1>1, <1>2, <1>4, <1>8, EmptySeq
<1>10. \A i \in 1..Len(frames') : frames'[i].path = frames[i].path
  BY <1>4, <1>8
<1>11. DOMAIN modules' = DOMAIN modules
  BY <1>1
<1> QED
  BY <1>1, <1>8, <1>9, <1>10, <1>11 DEF Lowered

LEMMA FinishMainStep ==
  ASSUME IInv, FinishMain
  PROVE  Lowered
<1>1. /\ frames' = <<>> /\ program' = program /\ imported' = imported /\ modules' = modules
      /\ phase' \in {"failed", "check"}
  BY DEF FinishMain
<1>2. frames' \in Seq(FrameSet) /\ Len(frames') = 0 /\ Len(frames') <= Len(frames)
  BY <1>1, EmptySeq, LenProperties DEF IInv, Stacked
<1> QED
  BY <1>1, <1>2 DEF Lowered

(* An import of a path that is not listed lists it and begins its file.    *)
LEMMA ImportFirstStep ==
  ASSUME IInv, ImportFirst
  PROVE  IInv'
<1>1. PICK path : path = Target(Here)
  OBVIOUS
<1>2. PICK f : f = Frame(path, 1)
  OBVIOUS
<1>3. /\ Parsing({"import"}) /\ phase = "parse" /\ program' = program
      /\ path \notin Range(imported) /\ path # Missing
      /\ imported' = Append(imported, path)
      /\ modules' = Put(modules, path, NoModule)
      /\ frames' = Append(frames, f)
  BY <1>1, <1>2 DEF ImportFirst, Parsing
<1>4. path \in Paths /\ HasFile(path)
  BY <1>1, <1>3, CurrentTarget
<1>5. f \in FrameSet /\ f.path = path
  BY <1>2, <1>4 DEF Frame, FrameSet
<1>6. PICK m \in Nat, n \in Nat : m = Len(imported) /\ n = Len(frames)
  BY LenProperties DEF IInv, Stacked, Listed
<1>7. /\ imported' \in Seq(Paths) /\ Len(imported') = m + 1 /\ imported'[m + 1] = path
      /\ \A i \in 1..m : imported'[i] = imported[i]
      /\ DOMAIN imported' = 1..m + 1 /\ DOMAIN imported = 1..m
  BY <1>3, <1>4, <1>6, AppendProperties, LenProperties DEF IInv, Listed
<1>8. /\ frames' \in Seq(FrameSet) /\ Len(frames') = n + 1 /\ frames'[n + 1] = f
      /\ \A i \in 1..n : frames'[i] = frames[i]
  BY <1>3, <1>5, <1>6, AppendProperties DEF IInv, Stacked
<1>9. \A i \in 1..m + 1 : i \in 1..m \/ i = m + 1
  OBVIOUS
<1>10. \A i \in 1..n + 1 : i \in 1..n \/ i = n + 1
  OBVIOUS
<1>11. \A i \in 1..m : imported[i] # path
  BY <1>3, <1>7 DEF Range
<1>12. Range(imported') = Range(imported) \cup {path}
  <2>1. Range(imported') \subseteq Range(imported) \cup {path}
    BY <1>7, <1>9 DEF Range
  <2>2. Range(imported) \subseteq Range(imported')
    <3>1. \A i \in 1..m : i \in 1..m + 1
      OBVIOUS
    <3> QED
      BY <1>7, <3>1 DEF Range
  <2>3. path \in Range(imported')
    <3>1. m + 1 \in 1..m + 1
      OBVIOUS
    <3> QED
      BY <1>7, <3>1 DEF Range
  <2> QED
    BY <2>1, <2>2, <2>3
<1>13. Loaded' /\ InAFile'
  <2>1. frames' # <<>>
    BY <1>8, EmptySeq
  <2> QED
    BY <1>3, <2>1 DEF IInv, Loaded, InAFile
<1>14. Stacked'
  <2>1. \A i \in 1..n : HasFile(frames[i].path)
    BY <1>6 DEF IInv, Stacked
  <2>2. \A i \in 1..n + 1 : HasFile(frames'[i].path)
    BY <1>4, <1>5, <1>8, <1>10, <2>1
  <2> QED
    BY <1>3, <1>8, <2>2 DEF Stacked, HasFile, Files
<1>15. Listed'
  <2>1. \A i \in 1..m : HasFile(imported[i])
    BY <1>6 DEF IInv, Listed
  <2>2. \A i \in 1..m + 1 : HasFile(imported'[i])
    BY <1>4, <1>7, <1>9, <2>1
  <2> QED
    BY <1>3, <1>7, <2>2 DEF Listed, HasFile, Files
<1>16. ListedOnce'
  <2>1. \A i, j \in 1..m : imported[i] = imported[j] => i = j
    BY <1>6 DEF IInv, ListedOnce
  <2>2. \A i, j \in 1..m + 1 : imported'[i] = imported'[j] => i = j
    BY <1>7, <1>9, <1>11, <2>1
  <2> QED
    BY <1>7, <2>2 DEF ListedOnce
<1>17. HasModule'
  <2>1. DOMAIN modules' = {path} \cup DOMAIN modules
    BY <1>3 DEF Put
  <2> QED
    BY <1>12, <2>1 DEF IInv, HasModule
<1>18. NestedOnce'
  <2>1. \A i \in 2..n : /\ frames[i].path \in Range(imported)
                        /\ \A j \in 2..n : frames[i].path = frames[j].path => i = j
    BY <1>6 DEF IInv, NestedOnce
  <2>2. \A i \in 2..n + 1 : (i \in 2..n /\ i \in 1..n) \/ i = n + 1
    OBVIOUS
  <2>3. \A i \in 2..n : frames'[i].path = frames[i].path /\ frames[i].path # path
    BY <1>3, <1>8, <2>1
  <2>4. frames'[n + 1].path = path
    BY <1>5, <1>8
  <2>5. ASSUME NEW i \in 2..n + 1
        PROVE  /\ frames'[i].path \in Range(imported')
               /\ \A j \in 2..n + 1 : frames'[i].path = frames'[j].path => i = j
    <3>1. CASE i = n + 1
      BY <1>12, <2>2, <2>3, <2>4, <3>1
    <3>2. CASE i \in 2..n
      BY <1>12, <2>1, <2>2, <2>3, <2>4, <3>2
    <3> QED
      BY <2>2, <3>1, <3>2
  <2> QED
    BY <1>8, <2>5 DEF NestedOnce
<1> QED
  BY <1>13, <1>14, <1>15, <1>16, <1>17, <1>18 DEF IInv
--------------------------------------------------------------------------------
LEMMA IInvKept == IInv /\ [ImportNext \/ AfterParsing]_<<program, walk, phase>> => IInv'
<1> SUFFICES ASSUME IInv, [ImportNext \/ AfterParsing]_<<program, walk, phase>> PROVE IInv'
  OBVIOUS
<1>1. CASE ImportNext
  BY <1>1, KeptByLowered, StatementSteps, ImportFirstStep, FinishImportStep, FinishMainStep DEF ImportNext
<1>2. CASE AfterParsing \/ UNCHANGED <<program, walk, phase>>
  <2>1. /\ program' = program /\ imported' = imported /\ modules' = modules /\ frames' = frames
        /\ phase' = "parse" => phase = "parse"
    BY <1>2 DEF AfterParsing, walk
  <2>2. frames \in Seq(FrameSet) /\ Len(frames) \in Nat /\ (phase' = "parse" => frames # <<>>)
    BY <2>1, LenProperties DEF IInv, Stacked, InAFile
  <2> QED
    BY <2>1, <2>2, KeptByLowered DEF Lowered
<1> QED
  BY <1>1, <1>2

LEMMA IInvAlways == ImportSpec => []IInv
<1>1. ImportInit => IInv
  BY IInvInitially
<1>2. IInv /\ [ImportNext \/ AfterParsing]_<<program, walk, phase>> => IInv'
  BY IInvKept
<1> QED
  BY <1>1, <1>2, PTL DEF ImportSpec

(* While every path that was met so far says where its file is and nothing *)
(* else, no file has been parsed twice: strcmp on paths is enough.         *)
THEOREM OneParse == ImportSpec => [](AllCanonical => ParsedOnce)
<1>1. IInv /\ AllCanonical => ParsedOnce
  <2> SUFFICES ASSUME IInv, AllCanonical,
                      NEW i \in DOMAIN imported, NEW j \in DOMAIN imported,
                      Real(imported[i]) = Real(imported[j])
               PROVE  i = j
    BY DEF ParsedOnce
  <2>1. /\ i \in 1..Len(imported) /\ j \in 1..Len(imported)
        /\ imported[i] \in Paths /\ imported[j] \in Paths
        /\ imported[i] # <<>> /\ imported[j] # <<>>
    BY LenProperties, ElementOfSeq DEF IInv, Listed, HasFile
  <2>2. Canonical(imported[i]) /\ Canonical(imported[j])
    BY DEF AllCanonical
  <2>3. imported[i] = imported[j]
    BY <2>1, <2>2, Constants, OneName
  <2> QED
    BY <2>1, <2>3 DEF IInv, ListedOnce
<1> QED
  BY <1>1, IInvAlways, PTL

(* Imports may form cycles and the main file may be imported too: a file   *)
(* that is being parsed is not begun again under its path, so the parsing  *)
(* nests no deeper than there are paths; and the module of a path that is  *)
(* listed is there for whoever imports it.                                 *)
ParsingNests == NestedOnce /\ HasModule

(* Parsing nests so, whatever the files import.                            *)
THEOREM ParsingNestsOnce == ImportSpec => []ParsingNests
<1>1. IInv => ParsingNests
  BY DEF IInv, ParsingNests
<1> QED
  BY <1>1, IInvAlways, PTL

--------------------------------------------------------------------------------
(* The main file, the SDK's directory and the imports are named without    *)
(* "." and "..".                                                           *)
PlainNames ==
  /\ Straight(Main) /\ SdkRoot \in Seq(PlainPart)
  /\ \A p \in Programs : \A file \in DOMAIN p : \A i \in DOMAIN p[file] :
       p[file][i].kind = "import" => p[file][i].name \in Seq(PlainPart)

(* No file of the directory the compiler runs in is met by a path from the *)
(* root.                                                                   *)
RootedApart == \A i \in DOMAIN imported : Absolute(imported[i]) => ~IsPrefix(Cwd, Tail(imported[i]))

AllStraight ==
  /\ \A i \in 1..Len(frames) : Straight(frames[i].path)
  /\ \A i \in 1..Len(imported) : Straight(imported[i])
LEMMA StraightStep ==
  ASSUME PlainNames, IInv, AllStraight, [ImportNext \/ AfterParsing]_<<program, walk, phase>>
  PROVE  AllStraight'
<1>0. PICK m \in Nat, n \in Nat : m = Len(imported) /\ n = Len(frames)
  BY LenProperties DEF IInv, Stacked, Listed
<1>1. Lowered => AllStraight'
  <2> SUFFICES ASSUME Lowered PROVE AllStraight'
    OBVIOUS
  <2>1. PICK k \in Nat : k = Len(frames') /\ k <= n
    BY <1>0, LenProperties DEF Lowered
  <2>2. \A i \in 1..k : i \in 1..n
    BY <2>1
  <2> QED
    BY <1>0, <2>1, <2>2 DEF Lowered, AllStraight
<1>2. CASE ImportFirst
  <2>1. PICK path : path = Target(Here)
    OBVIOUS
  <2>2. PICK f : f = Frame(path, 1)
    OBVIOUS
  <2>3. /\ Parsing({"import"}) /\ path # Missing
        /\ imported' = Append(imported, path) /\ frames' = Append(frames, f)
    BY <1>2, <2>1, <2>2 DEF ImportFirst
  <2>4. path \in Paths
    BY <2>1, <2>3, CurrentTarget
  <2>5. f \in FrameSet /\ f.path = path
    BY <2>2, <2>4 DEF Frame, FrameSet
  <2>6. Straight(Fr.path) /\ Fr.path # <<>>
    <3>1. Fr = frames[n] /\ n \in 1..n /\ HasFile(Fr.path)
      BY <1>0, <2>3, CurrentImport, CurrentFrame
    <3> QED
      BY <1>0, <3>1 DEF AllStraight, HasFile
  <2>7. Stmt(Here).name \in Seq(PlainPart) /\ Stmt(Here).name # <<>>
    <3>1. /\ Stmt(Here) = program[Real(Fr.path)][Fr.at] /\ Stmt(Here).kind = "import"
          /\ Fr.at \in DOMAIN program[Real(Fr.path)] /\ Stmt(Here).name # <<>>
      BY <2>3, CurrentImport DEF Parsing
    <3>2. Real(Fr.path) \in DOMAIN program /\ program \in Programs
      BY <2>3, CurrentImport, CurrentFrame DEF HasFile, Files, IInv, Loaded
    <3> QED
      BY <3>1, <3>2 DEF PlainNames
  <2>8. Straight(path)
    <3>1. path = ResolveImport(Files, Fr.path, Stmt(Here).name) /\ SdkRoot \in Seq(PlainPart)
      BY <2>1, <2>3, CurrentImport DEF PlainNames
    <3> QED
      BY <2>3, <2>6, <2>7, <3>1, ResolvedIsStraight
  <2>9. /\ Len(imported') = m + 1 /\ imported'[m + 1] = path
        /\ \A i \in 1..m : imported'[i] = imported[i]
    BY <1>0, <2>3, <2>4, AppendProperties DEF IInv, Listed
  <2>10. /\ Len(frames') = n + 1 /\ frames'[n + 1] = f
         /\ \A i \in 1..n : frames'[i] = frames[i]
    BY <1>0, <2>3, <2>5, AppendProperties DEF IInv, Stacked
  <2>11. \A i \in 1..m + 1 : Straight(imported'[i])
    <3>1. \A i \in 1..m + 1 : i \in 1..m \/ i = m + 1
      OBVIOUS
    <3>2. \A i \in 1..m : Straight(imported[i])
      BY <1>0 DEF AllStraight
    <3> QED
      BY <2>8, <2>9, <3>1, <3>2
  <2>12. \A i \in 1..n + 1 : Straight(frames'[i].path)
    <3>1. \A i \in 1..n + 1 : i \in 1..n \/ i = n + 1
      OBVIOUS
    <3>2. \A i \in 1..n : Straight(frames[i].path)
      BY <1>0 DEF AllStraight
    <3> QED
      BY <2>5, <2>8, <2>10, <3>1, <3>2
  <2> QED
    BY <2>9, <2>10, <2>11, <2>12 DEF AllStraight
<1>3. CASE ParseFunction \/ ParseVariable \/ ImportMissing \/ ImportAgain
  BY <1>1, <1>3, StatementSteps
<1>4. CASE FinishImport
  BY <1>1, <1>4, FinishImportStep
<1>5. CASE FinishMain
  BY <1>1, <1>5, FinishMainStep
<1>6. CASE AfterParsing \/ UNCHANGED <<program, walk, phase>>
  BY <1>6 DEF AfterParsing, walk, AllStraight
<1> QED
  BY <1>2, <1>3, <1>4, <1>5, <1>6 DEF ImportNext

(* Where imports are named plainly the condition of OneParse is met, but   *)
(* for a file that is found in the directory of the compiler and by a path *)
(* from the root.                                                          *)
THEOREM OneParseOfPlainNames ==
  PlainNames => (ImportSpec => [](RootedApart => ParsedOnce))
<1> SUFFICES ASSUME PlainNames PROVE ImportSpec => [](RootedApart => ParsedOnce)
  OBVIOUS
<1>1. ImportInit => AllStraight
  <2> SUFFICES ASSUME ImportInit PROVE AllStraight
    OBVIOUS
  <2>1. frames = <<Frame(Main, 0)>> /\ imported = <<>>
    BY DEF ImportInit
  <2>2. Len(frames) = 1 /\ frames[1].path = Main /\ Len(imported) = 0
    BY <2>1, EmptySeq DEF Frame
  <2>3. \A i \in 1..Len(frames) : i = 1
    BY <2>2
  <2> QED
    BY <2>2, <2>3 DEF AllStraight, PlainNames
<1>2. IInv /\ AllStraight /\ [ImportNext \/ AfterParsing]_<<program, walk, phase>> => AllStraight'
  BY StraightStep
<1>3. AllStraight /\ RootedApart /\ IInv => AllCanonical
  <2> SUFFICES ASSUME AllStraight, RootedApart, IInv, NEW i \in DOMAIN imported
               PROVE  Canonical(imported[i])
    BY DEF AllCanonical
  <2>1. i \in 1..Len(imported)
    BY LenProperties DEF IInv, Listed
  <2>2. Relative(imported[i]) \/ Absolute(imported[i])
    BY <2>1, StraightKinds DEF AllStraight
  <2> QED
    BY <2>2 DEF RootedApart, Canonical
<1> QED
  BY <1>1, <1>2, <1>3, IInvAlways, OneParse, PTL DEF ImportSpec

--------------------------------------------------------------------------------
(* What is visible                                                         *)

(* A function on 0..n that is given by its first value and by each value   *)
(* from the one before it is there.                                        *)
Iterates(g, n, base, step) ==
  g = [i \in 0..n |-> IF i = 0 THEN base ELSE step[<<g[i - 1], i>>]]

LEMMA IterationExists ==
  ASSUME NEW S, NEW base \in S, NEW n \in Nat, NEW step \in [S \X (1..n) -> S]
  PROVE  \E g \in [0..n -> S] : Iterates(g, n, base, step)
<1> DEFINE E(m) == \E g \in [0..m -> S] : Iterates(g, m, base, step)
           T == {m \in Nat : m <= n => E(m)}
<1>1. 0 \in T
  <2> DEFINE g == [i \in 0..0 |-> base]
  <2>1. g \in [0..0 -> S] /\ g = [i \in 0..0 |-> IF i = 0 THEN base ELSE step[<<g[i - 1], i>>]]
    OBVIOUS
  <2> QED
    BY <2>1 DEF Iterates
<1>2. ASSUME NEW m \in Nat, m \in T, m + 1 <= n PROVE E(m + 1)
  <2>1. PICK g \in [0..m -> S] : Iterates(g, m, base, step)
    BY <1>2
  <2>2. g = [i \in 0..m |-> IF i = 0 THEN base ELSE step[<<g[i - 1], i>>]]
    BY <2>1 DEF Iterates
  <2> DEFINE next == step[<<g[m], m + 1>>]
             h == [i \in 0..m + 1 |-> IF i = m + 1 THEN next ELSE g[i]]
  <2>3. next \in S
    BY <1>2
  <2>4. h \in [0..m + 1 -> S]
    BY <2>3
  <2>5. ASSUME NEW i \in 0..m + 1 PROVE h[i] = IF i = 0 THEN base ELSE step[<<h[i - 1], i>>]
    <3>1. CASE i = 0
      <4>1. g[0] = base
        BY <2>2
      <4> QED
        BY <3>1, <4>1
    <3>2. CASE i = m + 1
      <4>1. h[i] = next /\ i - 1 = m /\ i # 0
        BY <3>2
      <4>2. h[m] = g[m]
        OBVIOUS
      <4> HIDE DEF h
      <4> QED
        BY <3>2, <4>1, <4>2
    <3>3. CASE i \in 1..m
      <4>1. h[i] = g[i] /\ h[i - 1] = g[i - 1] /\ i # 0
        BY <3>3
      <4>2. i \in 0..m
        BY <3>3
      <4>3. g[i] = IF i = 0 THEN base ELSE step[<<g[i - 1], i>>]
        BY <2>2, <4>2
      <4> QED
        BY <4>1, <4>3
    <3> QED
      BY <3>1, <3>2, <3>3
  <2> HIDE DEF h
  <2>6. h = [i \in 0..m + 1 |-> IF i = 0 THEN base ELSE step[<<h[i - 1], i>>]]
    BY <2>4, <2>5
  <2> QED
    BY <2>4, <2>6 DEF Iterates
<1> HIDE DEF E
<1>3. Nat \subseteq T
  <2>1. \A m \in Nat : m \in T => m + 1 \in T
    BY <1>2
  <2> QED
    BY <1>1, <2>1, Walked!InductionOverNat
<1> QED
  BY <1>3 DEF E

(* What the search works with: a finite map of files to files.             *)
ClosedMap(map) ==
  IsFiniteSet(DOMAIN map) /\ \A p \in DOMAIN map : map[p] \subseteq DOMAIN map

Results(map) == [found : BOOLEAN, visited : Seq(DOMAIN map), ended : BOOLEAN]
Calls(map) == (DOMAIN map) \X Seq(DOMAIN map)

(* No file is named by an import only.                                     *)
LEMMA FilesOfClosedMap == ASSUME NEW map, ClosedMap(map) PROVE FilesIn(map) = DOMAIN map
BY DEF FilesIn, ClosedMap

(* The imports of a file, in the order they are tried.                     *)
LEMMA AllInSequence ==
  ASSUME NEW S, IsFiniteSet(S)
  PROVE  /\ Len(SetToSeq(S)) \in Nat
         /\ \A i \in 1..Len(SetToSeq(S)) : SetToSeq(S)[i] \in S
         /\ \A x \in S : \E i \in 1..Len(SetToSeq(S)) : SetToSeq(S)[i] = x
<1>1. PICK n \in Nat : n = Cardinality(S) /\ ExistsBijection(1..n, S)
  BY FS_CardinalityType
<1>2. PICK f : f \in Bijection(1..n, S)
  BY <1>1 DEF ExistsBijection
<1>3. f \in [1..n -> S] /\ IsInjective(f)
  BY <1>2 DEF Bijection, Injection, IsInjective
<1>4. PICK s : s = SetToSeq(S)
  OBVIOUS
<1>5. s \in [1..n -> S] /\ IsInjective(s)
  BY <1>1, <1>3, <1>4 DEF SetToSeq
<1>6. Len(s) = n
  BY <1>5
<1>7. s \in Surjection(1..n, S)
  <2>1. s \in Injection(1..n, S)
    BY <1>5 DEF Injection, IsInjective
  <2>2. IsFiniteSet(1..n) /\ Cardinality(1..n) = n
    BY FS_Interval
  <2> QED
    BY <1>1, <2>1, <2>2, FS_Injection
<1> QED
  BY <1>4, <1>5, <1>6, <1>7 DEF Surjection

(* One call: its imports in their order, each with what came of those      *)
(* before it.                                                              *)
Scanned(map, file, below, from, visited, n, imports, tried) ==
  /\ imports \in [1..n -> map[from]] /\ tried \in [0..n -> Results(map)]
  /\ \A x \in map[from] : \E i \in 1..n : imports[i] = x
  /\ tried[0] = [found |-> file \in map[from], visited |-> visited, ended |-> TRUE]
  /\ \A j \in 1..n : tried[j] = TryImport(below, tried[j - 1], imports[j])
  /\ SearchFrom(map, file, below, from, visited) = tried[n]

(* The values of tried are there and are results.                          *)
LEMMA SearchFromIs ==
  ASSUME NEW map, ClosedMap(map), NEW file, NEW from \in DOMAIN map,
         NEW visited \in Seq(DOMAIN map), NEW below \in [Calls(map) -> Results(map)]
  PROVE  \E n \in Nat : \E imports, tried :
           Scanned(map, file, below, from, visited, n, imports, tried)
<1> DEFINE I == map[from]
           R == Results(map)
           base == [found |-> file \in I, visited |-> visited, ended |-> TRUE]
<1>1. IsFiniteSet(I) /\ I \subseteq DOMAIN map /\ ImportsOf(map, from) = I
  BY FS_Subset DEF ClosedMap, ImportsOf
<1>2. PICK s : s = SetToSeq(I)
  OBVIOUS
<1>3. PICK n \in Nat : n = Len(s)
  BY <1>1, <1>2, AllInSequence
<1>4. \A i \in 1..n : s[i] \in I
  BY <1>1, <1>2, <1>3, AllInSequence
<1>5. \A x \in I : \E i \in 1..n : s[i] = x
  BY <1>1, <1>2, <1>3, AllInSequence
<1>6. base \in R
  BY DEF Results
<1>7. ASSUME NEW acc \in R, NEW x \in I PROVE TryImport(below, acc, x) \in R
  <2>1. acc.visited \in Seq(DOMAIN map) /\ x \in DOMAIN map
    BY <1>1 DEF Results
  <2>2. Listing(acc.visited, x) \in Seq(DOMAIN map)
    BY <2>1, AppendProperties DEF Listing
  <2>3. <<x, Listing(acc.visited, x)>> \in Calls(map)
    BY <2>1, <2>2 DEF Calls
  <2> QED
    BY <2>3 DEF TryImport
<1> DEFINE step == [a \in R \X (1..n) |-> TryImport(below, a[1], s[a[2]])]
<1>8. step \in [R \X (1..n) -> R]
  BY <1>4, <1>7
<1> DEFINE Given(g) ==
      g = [j \in 0..n |-> IF j = 0 THEN base ELSE TryImport(below, g[j - 1], s[j])]
<1>9. \E g : Given(g)
  <2>1. PICK g \in [0..n -> R] : Iterates(g, n, base, step)
    <3> HIDE DEF base, step, R
    <3> QED
      BY <1>6, <1>8, IterationExists
  <2>2. ASSUME NEW j \in 0..n, j # 0
        PROVE  step[<<g[j - 1], j>>] = TryImport(below, g[j - 1], s[j])
    BY <2>2
  <2> HIDE DEF step
  <2>3. g = [j \in 0..n |-> IF j = 0 THEN base ELSE step[<<g[j - 1], j>>]]
    BY <2>1 DEF Iterates
  <2>4. Given(g)
    BY <2>2, <2>3
  <2> QED
    BY <2>4
<1>10. PICK tried : tried = CHOOSE g : Given(g)
  OBVIOUS
<1>11. Given(tried)
  BY <1>9, <1>10
<1>12. SearchFrom(map, file, below, from, visited) = tried[n]
  BY <1>1, <1>2, <1>3, <1>10 DEF SearchFrom
<1>13. tried[0] = base /\ \A j \in 1..n : tried[j] = TryImport(below, tried[j - 1], s[j])
  <2> HIDE DEF base
  <2> QED
    BY <1>11
<1>14. tried \in [0..n -> R]
  <2> DEFINE T == {j \in Nat : j <= n => tried[j] \in R}
  <2>1. 0 \in T
    BY <1>6, <1>13
  <2>2. ASSUME NEW j \in Nat, j \in T PROVE j + 1 \in T
    <3>1. CASE j + 1 <= n
      <4>1. j + 1 \in 1..n /\ tried[j] \in R
        BY <2>2, <3>1
      <4>2. tried[j + 1] = TryImport(below, tried[j], s[j + 1])
        BY <1>13, <4>1
      <4> QED
        BY <1>4, <1>7, <4>1, <4>2
    <3> QED
      BY <3>1
  <2>3. Nat \subseteq T
    <3> HIDE DEF T
    <3> QED
      BY <2>1, <2>2, Walked!InductionOverNat
  <2> QED
    BY <1>11, <2>3
<1> DEFINE imports == [k \in 1..n |-> s[k]]
<1>15. /\ imports \in [1..n -> I] /\ \A x \in I : \E i \in 1..n : imports[i] = x
       /\ \A j \in 1..n : tried[j] = TryImport(below, tried[j - 1], imports[j])
  BY <1>4, <1>5, <1>13
<1> HIDE DEF imports
<1>16. Scanned(map, file, below, from, visited, n, imports, tried)
  BY <1>12, <1>13, <1>14, <1>15 DEF Scanned
<1> QED
  BY <1>16

(* The calls at one depth are made of those at the depth below.            *)
LEMMA SearchIs ==
  ASSUME NEW map, ClosedMap(map), NEW file
  PROVE  \E search \in [0..CallDepth -> [Calls(map) -> Results(map)]] :
           /\ \A depth \in 1..CallDepth : \A call \in Calls(map) :
                search[depth][call] = SearchFrom(map, file, search[depth - 1], call[1], call[2])
           /\ Search(map, file) = search[CallDepth]
<1> DEFINE C == Calls(map)
           R == Results(map)
           S == [C -> R]
           base == [call \in C |-> [found |-> FALSE, visited |-> call[2], ended |-> FALSE]]
           Level(below) == [call \in C |-> SearchFrom(map, file, below, call[1], call[2])]
<1>0. CallDepth \in Nat /\ FilesIn(map) = DOMAIN map
  BY ImportAssumption, FilesOfClosedMap
<1>1. ASSUME NEW call \in C PROVE call[1] \in DOMAIN map /\ call[2] \in Seq(DOMAIN map)
  BY DEF Calls
<1>2. base \in S
  BY <1>1 DEF Results
<1>3. ASSUME NEW below \in S PROVE Level(below) \in S
  <2>1. ASSUME NEW call \in C PROVE SearchFrom(map, file, below, call[1], call[2]) \in R
    <3>1. PICK from \in DOMAIN map, visited \in Seq(DOMAIN map) : from = call[1] /\ visited = call[2]
      BY <1>1
    <3>2. PICK n \in Nat : \E imports, tried :
                 Scanned(map, file, below, from, visited, n, imports, tried)
      BY SearchFromIs
    <3>3. n \in 0..n
      OBVIOUS
    <3>4. SearchFrom(map, file, below, from, visited) \in R
      BY <3>2, <3>3 DEF Scanned
    <3> QED
      BY <3>1, <3>4
  <2> QED
    BY <2>1
<1> DEFINE step == [a \in S \X (1..CallDepth) |-> Level(a[1])]
<1>4. step \in [S \X (1..CallDepth) -> S]
  <2> HIDE DEF Level, S
  <2> QED
    BY <1>3
<1> DEFINE Given(g) == g = [d \in 0..CallDepth |-> IF d = 0 THEN base ELSE Level(g[d - 1])]
<1>5. \E g : Given(g)
  <2> HIDE DEF base, S, Level
  <2>1. PICK g \in [0..CallDepth -> S] : Iterates(g, CallDepth, base, step)
    <3> HIDE DEF step
    <3> QED
      BY <1>0, <1>2, <1>4, IterationExists
  <2>2. ASSUME NEW d \in 0..CallDepth, d # 0
        PROVE  step[<<g[d - 1], d>>] = Level(g[d - 1])
    BY <1>0, <2>2
  <2> HIDE DEF step
  <2>3. g = [d \in 0..CallDepth |-> IF d = 0 THEN base ELSE step[<<g[d - 1], d>>]]
    BY <2>1 DEF Iterates
  <2>4. Given(g)
    BY <2>2, <2>3
  <2> QED
    BY <2>4
<1>6. PICK search : search = CHOOSE g : Given(g)
  OBVIOUS
<1>7. Given(search)
  <2> HIDE DEF Given
  <2> QED
    BY <1>5, <1>6
<1>8. Search(map, file) = search[CallDepth]
  BY <1>0, <1>6 DEF Search, Calls
<1>9. search[0] = base /\ \A d \in 1..CallDepth : search[d] = Level(search[d - 1])
  <2> HIDE DEF base, Level
  <2> QED
    BY <1>0, <1>7
<1>10. search \in [0..CallDepth -> S]
  <2> HIDE DEF base, Level, S
  <2> DEFINE T == {d \in Nat : d <= CallDepth => search[d] \in S}
  <2>1. 0 \in T
    BY <1>2, <1>9
  <2>2. ASSUME NEW d \in Nat, d \in T PROVE d + 1 \in T
    <3>1. CASE d + 1 <= CallDepth
      <4>1. d + 1 \in 1..CallDepth /\ search[d] \in S
        BY <1>0, <2>2, <3>1
      <4>2. search[d + 1] = Level(search[d])
        BY <1>9, <4>1
      <4> QED
        BY <1>3, <4>1, <4>2
    <3> QED
      BY <3>1
  <2>3. Nat \subseteq T
    <3> HIDE DEF T
    <3> QED
      BY <2>1, <2>2, Walked!InductionOverNat
  <2>4. \A d \in 0..CallDepth : search[d] \in S
    BY <1>0, <2>3
  <2>5. search = [d \in 0..CallDepth |-> IF d = 0 THEN base ELSE Level(search[d - 1])]
    BY <1>7
  <2> QED
    BY <2>4, <2>5
<1>11. \A depth \in 1..CallDepth : \A call \in C :
         search[depth][call] = SearchFrom(map, file, search[depth - 1], call[1], call[2])
  BY <1>9
<1> QED
  BY <1>8, <1>10, <1>11

(* What a search from a file promises: it ends, the list it was given      *)
(* grows, and there is room in it for all that it does not hold; where the *)
(* file was found it is reached; where not, no file listed meanwhile       *)
(* imports it, and what they import is listed.                             *)
Unlisted(map, visited) == (DOMAIN map) \ Range(visited)
HasRoom(map, visited) == Cardinality(Unlisted(map, visited)) + Len(visited) <= VisitedCap
InEveryWhole(map, file, from) ==
  \A seen \in SUBSET DOMAIN map :
    from \in seen /\ (\A p \in seen : map[p] \subseteq seen) => file \in seen
Searched(map, file, r, p) == file \notin map[p] /\ map[p] \subseteq Range(r.visited)
Answers(map, file, from, visited, r) ==
  /\ r.ended
  /\ Range(visited) \subseteq Range(r.visited) /\ HasRoom(map, r.visited)
  /\ r.found => InEveryWhole(map, file, from)
  /\ ~r.found => \A p \in {from} \cup (Range(r.visited) \ Range(visited)) : Searched(map, file, r, p)

Answering(map, file, below, depth) ==
  \A from \in DOMAIN map : \A visited \in Seq(DOMAIN map) :
    from \in Range(visited) /\ HasRoom(map, visited) /\ Cardinality(Unlisted(map, visited)) < depth
    => Answers(map, file, from, visited, below[<<from, visited>>])

(* Listing a file takes of the room what it takes of the rest.             *)
LEMMA ListingGrows ==
  ASSUME NEW map, ClosedMap(map), NEW visited \in Seq(DOMAIN map), HasRoom(map, visited),
         NEW x \in DOMAIN map, x \notin Range(visited)
  PROVE  /\ Listing(visited, x) \in Seq(DOMAIN map)
         /\ Range(Listing(visited, x)) = Range(visited) \cup {x}
         /\ Cardinality(Unlisted(map, Listing(visited, x))) = Cardinality(Unlisted(map, visited)) - 1
         /\ HasRoom(map, Listing(visited, x))
<1>1. IsFiniteSet(Unlisted(map, visited))
  BY FS_Difference DEF ClosedMap, Unlisted
<1>2. PICK c \in Nat, n \in Nat : c = Cardinality(Unlisted(map, visited)) /\ n = Len(visited)
  BY <1>1, FS_CardinalityType, LenProperties
<1>3. x \in Unlisted(map, visited) /\ Cardinality(Unlisted(map, visited) \ {x}) = c - 1
  BY <1>1, <1>2, FS_RemoveElement DEF Unlisted
<1>4. c # 0
  BY <1>1, <1>2, <1>3, FS_EmptySet
<1>5. VisitedCap \in Nat /\ n < VisitedCap
  BY <1>2, <1>4, ImportAssumption DEF HasRoom
<1>6. PICK w : w = Listing(visited, x)
  OBVIOUS
<1>7. w = Append(visited, x)
  BY <1>2, <1>5, <1>6 DEF Listing
<1>8. w \in Seq(DOMAIN map) /\ Len(w) = n + 1
  BY <1>2, <1>7, AppendProperties
<1>9. Range(w) = Range(visited) \cup {x}
  <2>1. DOMAIN w = 1..n + 1 /\ DOMAIN visited = 1..n
    BY <1>2, <1>8, LenProperties
  <2>2. w[n + 1] = x /\ \A i \in 1..n : w[i] = visited[i]
    BY <1>2, <1>7, AppendProperties
  <2>3. \A i \in 1..n + 1 : i \in 1..n \/ i = n + 1
    OBVIOUS
  <2>4. n + 1 \in 1..n + 1 /\ \A i \in 1..n : i \in 1..n + 1
    OBVIOUS
  <2> QED
    BY <2>1, <2>2, <2>3, <2>4 DEF Range
<1>10. Unlisted(map, w) = Unlisted(map, visited) \ {x}
  BY <1>9 DEF Unlisted
<1>11. Cardinality(Unlisted(map, w)) = c - 1
  BY <1>3, <1>10
<1>12. HasRoom(map, w)
  BY <1>2, <1>8, <1>11 DEF HasRoom
<1> QED
  BY <1>2, <1>6, <1>8, <1>9, <1>11, <1>12

(* Fewer files are left where more are listed.                             *)
LEMMA UnlistedShrinks ==
  ASSUME NEW map, ClosedMap(map), NEW v, NEW w, Range(v) \subseteq Range(w)
  PROVE  /\ Cardinality(Unlisted(map, w)) \in Nat /\ Cardinality(Unlisted(map, v)) \in Nat
         /\ Cardinality(Unlisted(map, w)) <= Cardinality(Unlisted(map, v))
<1>1. IsFiniteSet(Unlisted(map, v)) /\ IsFiniteSet(Unlisted(map, w))
  BY FS_Difference DEF ClosedMap, Unlisted
<1>2. Unlisted(map, w) \subseteq Unlisted(map, v)
  BY DEF Unlisted
<1> QED
  BY <1>1, <1>2, FS_CardinalityType, FS_Subset

(* What holds of a call when it has come past some of its imports.         *)
SoFar(map, file, from, visited, imports, j, acc) ==
  /\ acc.ended
  /\ Range(visited) \subseteq Range(acc.visited) /\ HasRoom(map, acc.visited)
  /\ acc.found => InEveryWhole(map, file, from)
  /\ ~acc.found =>
       /\ file \notin map[from]
       /\ \A i \in 1..j : imports[i] \in Range(acc.visited)
       /\ \A p \in Range(acc.visited) \ Range(visited) : Searched(map, file, acc, p)

(* One more import: what it leads to is searched, or was before.           *)
LEMMA NextImport ==
  ASSUME NEW map, ClosedMap(map), NEW file, NEW from \in DOMAIN map,
         NEW visited \in Seq(DOMAIN map), NEW below \in [Calls(map) -> Results(map)],
         NEW depth \in Nat, Answering(map, file, below, depth),
         Cardinality(Unlisted(map, visited)) < depth + 1,
         NEW n \in Nat, NEW imports \in [1..n -> map[from]], NEW j \in Nat, j + 1 <= n,
         NEW acc \in Results(map), SoFar(map, file, from, visited, imports, j, acc)
  PROVE  SoFar(map, file, from, visited, imports, j + 1, TryImport(below, acc, imports[j + 1]))
<1>1. PICK next : next = imports[j + 1]
  OBVIOUS
<1>2. next \in map[from] /\ map[from] \subseteq DOMAIN map /\ next \in DOMAIN map
  <2>1. j + 1 \in 1..n
    OBVIOUS
  <2> QED
    BY <1>1, <2>1 DEF ClosedMap
<1>3. \A i \in 1..j + 1 : i \in 1..j \/ i = j + 1
  OBVIOUS
<1>4. CASE acc.found \/ next \in Range(acc.visited)
  <2>1. TryImport(below, acc, next) = acc
    BY <1>4 DEF TryImport
  <2>2. SoFar(map, file, from, visited, imports, j + 1, acc)
    BY <1>1, <1>3, <1>4 DEF SoFar
  <2> QED
    BY <1>1, <2>1, <2>2
<1>5. CASE ~acc.found /\ next \notin Range(acc.visited)
  <2>1. PICK v \in Seq(DOMAIN map) : v = acc.visited
    BY DEF Results
  <2>2. PICK w : w = Listing(v, next)
    OBVIOUS
  <2>3. PICK r : r = below[<<next, w>>]
    OBVIOUS
  <2>4. TryImport(below, acc, next) = r
    BY <1>5, <2>1, <2>2, <2>3 DEF TryImport, SoFar
  <2>5. /\ Range(visited) \subseteq Range(v) /\ HasRoom(map, v)
        /\ file \notin map[from]
        /\ \A i \in 1..j : imports[i] \in Range(v)
        /\ \A p \in Range(v) \ Range(visited) : file \notin map[p] /\ map[p] \subseteq Range(v)
    BY <1>5, <2>1 DEF SoFar, Searched
  <2>6. /\ w \in Seq(DOMAIN map) /\ Range(w) = Range(v) \cup {next} /\ HasRoom(map, w)
        /\ Cardinality(Unlisted(map, w)) = Cardinality(Unlisted(map, v)) - 1
    BY <1>2, <1>5, <2>1, <2>2, <2>5, ListingGrows
  <2>7. Cardinality(Unlisted(map, w)) < depth
    <3>1. /\ Cardinality(Unlisted(map, v)) \in Nat /\ Cardinality(Unlisted(map, visited)) \in Nat
          /\ Cardinality(Unlisted(map, v)) <= Cardinality(Unlisted(map, visited))
      BY <2>5, UnlistedShrinks
    <3> QED
      BY <2>6, <3>1
  <2>8. next \in Range(w)
    BY <2>6
  <2>9. Answers(map, file, next, w, r)
    BY <1>2, <2>3, <2>6, <2>7, <2>8 DEF Answering
  <2>10. /\ r.ended /\ Range(w) \subseteq Range(r.visited) /\ HasRoom(map, r.visited)
         /\ r.found => InEveryWhole(map, file, next)
         /\ ~r.found => \A p \in {next} \cup (Range(r.visited) \ Range(w)) :
                          file \notin map[p] /\ map[p] \subseteq Range(r.visited)
    BY <2>9 DEF Answers, Searched
  <2>11. Range(visited) \subseteq Range(r.visited) /\ Range(v) \subseteq Range(r.visited)
    BY <2>5, <2>6, <2>10
  <2>12. r.found => InEveryWhole(map, file, from)
    BY <1>2, <2>10 DEF InEveryWhole
  <2>13. \A i \in 1..j + 1 : imports[i] \in Range(r.visited)
    BY <1>1, <1>3, <2>5, <2>8, <2>10, <2>11
  <2>14. ASSUME ~r.found, NEW p \in Range(r.visited) \ Range(visited)
         PROVE  Searched(map, file, r, p)
    <3>1. CASE p \in Range(v)
      BY <2>5, <2>11, <2>14, <3>1 DEF Searched
    <3>2. CASE p \notin Range(v)
      <4>1. p \in {next} \cup (Range(r.visited) \ Range(w))
        BY <2>6, <2>14, <3>2
      <4> QED
        BY <2>10, <2>14, <4>1 DEF Searched
    <3> QED
      BY <3>1, <3>2
  <2>15. SoFar(map, file, from, visited, imports, j + 1, r)
    BY <2>5, <2>10, <2>11, <2>12, <2>13, <2>14 DEF SoFar
  <2> QED
    BY <1>1, <2>4, <2>15
<1> QED
  BY <1>4, <1>5

(* A call keeps the promise if the calls it makes do.                      *)
LEMMA CallAnswers ==
  ASSUME NEW map, ClosedMap(map), NEW file, NEW from \in DOMAIN map,
         NEW visited \in Seq(DOMAIN map), NEW below \in [Calls(map) -> Results(map)],
         NEW depth \in Nat, Answering(map, file, below, depth),
         Cardinality(Unlisted(map, visited)) < depth + 1,
         HasRoom(map, visited)
  PROVE  Answers(map, file, from, visited, SearchFrom(map, file, below, from, visited))
<1>1. PICK n \in Nat : \E imports, tried :
             Scanned(map, file, below, from, visited, n, imports, tried)
  BY SearchFromIs
<1>2. PICK imports, tried : Scanned(map, file, below, from, visited, n, imports, tried)
  BY <1>1
<1>3. /\ imports \in [1..n -> map[from]] /\ tried \in [0..n -> Results(map)]
      /\ \A x \in map[from] : \E i \in 1..n : imports[i] = x
      /\ tried[0] = [found |-> file \in map[from], visited |-> visited, ended |-> TRUE]
      /\ \A j \in 1..n : tried[j] = TryImport(below, tried[j - 1], imports[j])
      /\ SearchFrom(map, file, below, from, visited) = tried[n]
  BY <1>2 DEF Scanned
<1> DEFINE T == {j \in Nat : j <= n => SoFar(map, file, from, visited, imports, j, tried[j])}
<1>4. 0 \in T
  <2>1. tried[0].found = (file \in map[from]) /\ tried[0].visited = visited /\ tried[0].ended
    BY <1>3
  <2>2. tried[0].found => InEveryWhole(map, file, from)
    BY <2>1 DEF InEveryWhole
  <2>3. tried[0].visited = visited /\ tried[0].ended /\ (~tried[0].found => file \notin map[from])
    BY <2>1
  <2>4. 1..0 = {}
    OBVIOUS
  <2>5. SoFar(map, file, from, visited, imports, 0, tried[0])
    BY <2>2, <2>3, <2>4 DEF SoFar
  <2> QED
    BY <2>5
<1>5. ASSUME NEW j \in Nat, j \in T PROVE j + 1 \in T
  <2>1. CASE j + 1 <= n
    <3>1. SoFar(map, file, from, visited, imports, j, tried[j]) /\ tried[j] \in Results(map)
      BY <1>3, <1>5, <2>1
    <3>2. tried[j + 1] = TryImport(below, tried[j], imports[j + 1])
      BY <1>3, <2>1
    <3>3. PICK acc \in Results(map) : acc = tried[j]
      BY <3>1
    <3>4. imports \in [1..n -> map[from]]
      BY <1>3
    <3>5. SoFar(map, file, from, visited, imports, j + 1, TryImport(below, acc, imports[j + 1]))
      BY <2>1, <3>1, <3>3, <3>4, NextImport
    <3> QED
      BY <3>2, <3>3, <3>5
  <2> QED
    BY <2>1
<1>6. Nat \subseteq T
  <2> HIDE DEF T
  <2> QED
    BY <1>4, <1>5, Walked!InductionOverNat
<1>7. PICK r : r = tried[n]
  OBVIOUS
<1>8. SoFar(map, file, from, visited, imports, n, r)
  BY <1>6, <1>7
<1>9. ~r.found => Searched(map, file, r, from)
  BY <1>3, <1>8 DEF SoFar, Searched
<1>10. Answers(map, file, from, visited, r)
  BY <1>8, <1>9 DEF SoFar, Answers
<1> QED
  BY <1>3, <1>7, <1>10

(* Every file that is listed takes one of the depths, and they suffice.    *)
LEMMA SearchAnswers ==
  ASSUME NEW map, ClosedMap(map), NEW file
  PROVE  Answering(map, file, Search(map, file), CallDepth)
<1>0. CallDepth \in Nat
  BY ImportAssumption
<1>1. PICK search \in [0..CallDepth -> [Calls(map) -> Results(map)]] :
           /\ \A depth \in 1..CallDepth : \A call \in Calls(map) :
                search[depth][call] = SearchFrom(map, file, search[depth - 1], call[1], call[2])
           /\ Search(map, file) = search[CallDepth]
  BY SearchIs
<1> DEFINE T == {d \in Nat : d <= CallDepth => Answering(map, file, search[d], d)}
<1>2. 0 \in T
  <2>1. ASSUME NEW visited PROVE ~(Cardinality(Unlisted(map, visited)) < 0)
    BY UnlistedShrinks
  <2> QED
    BY <2>1 DEF Answering
<1>3. ASSUME NEW d \in Nat, d \in T PROVE d + 1 \in T
  <2> SUFFICES ASSUME d + 1 <= CallDepth, NEW from \in DOMAIN map, NEW visited \in Seq(DOMAIN map),
                      HasRoom(map, visited), Cardinality(Unlisted(map, visited)) < d + 1
               PROVE  Answers(map, file, from, visited, search[d + 1][<<from, visited>>])
    BY DEF Answering
  <2>1. Answering(map, file, search[d], d) /\ search[d] \in [Calls(map) -> Results(map)]
    BY <1>0, <1>1, <1>3
  <2>2. <<from, visited>> \in Calls(map) /\ d + 1 \in 1..CallDepth
    BY <1>0 DEF Calls
  <2>3. search[d + 1][<<from, visited>>] = SearchFrom(map, file, search[d], from, visited)
    BY <1>1, <2>2
  <2> QED
    BY <2>1, <2>3, CallAnswers
<1>4. Nat \subseteq T
  <2> HIDE DEF T
  <2> QED
    BY <1>2, <1>3, Walked!InductionOverNat
<1> QED
  BY <1>0, <1>1, <1>4

(* Of a map whose files the list has room for.                             *)
LEMMA VisibleIffReached ==
  ASSUME NEW map, ClosedMap(map), NEW file \in DOMAIN map, NEW from \in DOMAIN map,
         Cardinality(DOMAIN map) <= VisitedCap
  PROVE  /\ SearchEnds(map, from, file)
         /\ IsVisible(map, from, file) <=> InEveryWhole(map, file, from)
<1> DEFINE v == <<from>>
           r == Search(map, file)[<<from, v>>]
<1>1. v \in Seq(DOMAIN map) /\ Len(v) = 1 /\ Range(v) = {from}
  <2>1. Len(v) = 1 /\ v[1] = from /\ DOMAIN v = 1..1
    OBVIOUS
  <2>2. 1..1 = {1}
    OBVIOUS
  <2> QED
    BY <2>1, <2>2 DEF Range
<1>2. PICK c \in Nat : c = Cardinality(DOMAIN map)
  BY FS_CardinalityType DEF ClosedMap
<1>3. Cardinality(Unlisted(map, v)) = c - 1 /\ c # 0
  BY <1>1, <1>2, FS_RemoveElement, FS_EmptySet DEF ClosedMap, Unlisted
<1>4. HasRoom(map, v) /\ Cardinality(Unlisted(map, v)) < CallDepth
  BY <1>1, <1>2, <1>3, ImportAssumption DEF HasRoom
<1>5. Answers(map, file, from, v, r)
  BY <1>1, <1>4, SearchAnswers DEF Answering
<1>6. CASE from = file
  BY <1>6 DEF IsVisible, SearchEnds, InEveryWhole
<1>7. CASE from # file
  <2>1. (IsVisible(map, from, file) <=> r.found) /\ SearchEnds(map, from, file)
    BY <1>5, <1>7 DEF IsVisible, SearchEnds, Answers
  <2> HIDE DEF r
  <2>2. r.found => InEveryWhole(map, file, from)
    BY <1>5 DEF Answers
  <2>3. ASSUME ~r.found, InEveryWhole(map, file, from) PROVE FALSE
    <3> DEFINE seen == (DOMAIN map \cap Range(r.visited)) \ {file}
    <3>1. /\ from \in Range(r.visited)
          /\ \A p \in Range(r.visited) : file \notin map[p] /\ map[p] \subseteq Range(r.visited)
      BY <1>1, <1>5, <2>3 DEF Answers, Searched
    <3>2. from \in seen
      BY <1>7, <3>1
    <3>3. \A p \in seen : map[p] \subseteq seen
      BY <3>1 DEF ClosedMap
    <3>4. seen \in SUBSET DOMAIN map /\ file \notin seen
      OBVIOUS
    <3> QED
      BY <2>3, <3>2, <3>3, <3>4 DEF InEveryWhole
  <2> QED
    BY <2>1, <2>2, <2>3
<1> QED
  BY <1>6, <1>7

(* The import map holds every file that was met, and what it says of one   *)
(* are files that were met.                                                *)
Mapped ==
  /\ ClosedMap(importMap) /\ Main \in DOMAIN importMap
  /\ \A i \in 1..Len(frames) : frames[i].path \in DOMAIN importMap
  /\ Range(imported) \subseteq DOMAIN importMap

(* Reached, of one file.                                                   *)
LEMMA ReachedIs ==
  ASSUME Mapped, NEW from \in DOMAIN importMap, NEW file \in DOMAIN importMap
  PROVE  file \in Reached({from}) <=> InEveryWhole(importMap, file, from)
BY DEF Reached, InEveryWhole

(* An entry of a finite map that has been added to.                        *)
FiniteMap(map, S) == IsFiniteSet(DOMAIN map) /\ \A p \in DOMAIN map : map[p] \subseteq S

LEMMA RecordedMap ==
  ASSUME NEW map, NEW S, FiniteMap(map, S), NEW importer, NEW file \in S
  PROVE  /\ DOMAIN Recorded(map, importer, file) = DOMAIN map \cup {importer}
         /\ FiniteMap(Recorded(map, importer, file), S)
<1> DEFINE D == DOMAIN map
           new == (IF importer \in D THEN map[importer] ELSE {}) \cup {file}
<1>1. PICK m : m = Recorded(map, importer, file)
  OBVIOUS
<1>2. m = [y \in D \cup {importer} |-> IF y = importer THEN new ELSE map[y]]
  BY <1>1 DEF Recorded, Put
<1>3. DOMAIN m = D \cup {importer} /\ IsFiniteSet(DOMAIN m)
  BY <1>2, FS_AddElement DEF FiniteMap
<1>4. new \subseteq S
  BY DEF FiniteMap
<1>5. ASSUME NEW p \in DOMAIN m PROVE m[p] \subseteq S
  <2> HIDE DEF new
  <2> QED
    BY <1>2, <1>3, <1>4 DEF FiniteMap
<1> QED
  BY <1>1, <1>3, <1>5 DEF FiniteMap

LEMMA MappedInitially == ImportInit => Mapped
<1> SUFFICES ASSUME ImportInit PROVE Mapped
  OBVIOUS
<1>1. PICK empty : empty = <<>>
  OBVIOUS
<1>2. DOMAIN empty = {} /\ importMap = Recorded(empty, Main, Main)
  BY <1>1, EmptySeq DEF ImportInit
<1>3. ClosedMap(importMap) /\ DOMAIN importMap = {Main}
  <2>1. PICK S : S = {Main}
    OBVIOUS
  <2>2. FiniteMap(empty, S) /\ Main \in S
    BY <1>2, <2>1, FS_EmptySet DEF FiniteMap
  <2>3. DOMAIN Recorded(empty, Main, Main) = DOMAIN empty \cup {Main}
        /\ FiniteMap(Recorded(empty, Main, Main), S)
    BY <2>2, RecordedMap
  <2>4. DOMAIN importMap = S /\ FiniteMap(importMap, S)
    BY <1>2, <2>1, <2>3
  <2> QED
    BY <2>1, <2>4 DEF ClosedMap, FiniteMap
<1>4. Len(frames) = 1 /\ frames[1].path = Main
  BY DEF ImportInit, Frame
<1>5. \A i \in 1..Len(frames) : i = 1
  BY <1>4
<1>6. Range(imported) = {}
  <2>1. imported = <<>>
    BY DEF ImportInit
  <2>2. DOMAIN imported = {}
    BY <2>1, EmptySeq
  <2> QED
    BY <2>2 DEF Range
<1> QED
  BY <1>3, <1>4, <1>5, <1>6 DEF Mapped

LEMMA MappedStep ==
  ASSUME IInv, Mapped, [ImportNext \/ AfterParsing]_<<program, walk, phase>>
  PROVE  Mapped'
<1>0. PICK n \in Nat : n = Len(frames)
  BY LenProperties DEF IInv, Stacked
<1> DEFINE D == DOMAIN importMap
<1>1. ASSUME Lowered, ClosedMap(importMap'), D \subseteq DOMAIN importMap' PROVE Mapped'
  <2>1. PICK k \in Nat : k = Len(frames') /\ k <= n
    BY <1>0, <1>1, LenProperties DEF Lowered
  <2>2. \A i \in 1..k : i \in 1..n
    BY <2>1
  <2>3. \A i \in 1..k : frames'[i].path \in DOMAIN importMap'
    BY <1>0, <1>1, <2>1, <2>2 DEF Lowered, Mapped
  <2>4. Range(imported') \subseteq DOMAIN importMap'
    BY <1>1 DEF Lowered, Mapped
  <2> QED
    BY <1>1, <2>1, <2>3, <2>4 DEF Mapped
<1>2. ASSUME Lowered, importMap' = importMap PROVE Mapped'
  BY <1>1, <1>2 DEF Mapped
<1>3. ASSUME Parsing({"import"}) PROVE Fr.path \in D
  <2>1. Fr = frames[n] /\ n \in 1..n
    BY <1>0, <1>3, CurrentImport, CurrentFrame
  <2> QED
    BY <1>0, <2>1 DEF Mapped
<1>4. CASE ParseFunction \/ ParseVariable \/ ImportMissing
  <2>1. importMap' = importMap
    BY <1>4 DEF ParseFunction, ParseVariable, ImportMissing
  <2> QED
    BY <1>2, <1>4, <2>1, StatementSteps
<1>5. CASE ImportAgain
  <2>1. PICK path : path = Target(Here)
    OBVIOUS
  <2>2. /\ Parsing({"import"}) /\ path \in Range(imported)
        /\ importMap' = Recorded(importMap, Fr.path, path)
    BY <1>5, <2>1 DEF ImportAgain
  <2>3. path \in D /\ Fr.path \in D
    BY <1>3, <2>2 DEF Mapped
  <2>4. ClosedMap(importMap') /\ DOMAIN importMap' = D
    <3>1. FiniteMap(importMap, D)
      BY DEF Mapped, ClosedMap, FiniteMap
    <3>2. DOMAIN importMap' = D \cup {Fr.path} /\ FiniteMap(importMap', D)
      BY <2>2, <2>3, <3>1, RecordedMap
    <3> QED
      BY <2>3, <3>2 DEF ClosedMap, FiniteMap
  <2> QED
    BY <1>1, <1>5, <2>4, StatementSteps
<1>6. CASE ImportFirst
  <2>1. PICK path : path = Target(Here)
    OBVIOUS
  <2>2. PICK f : f = Frame(path, 1)
    OBVIOUS
  <2>3. PICK half : half = Recorded(importMap, Fr.path, path)
    OBVIOUS
  <2>4. /\ Parsing({"import"}) /\ path # Missing
        /\ imported' = Append(imported, path) /\ frames' = Append(frames, f)
        /\ importMap' = Recorded(half, path, path)
    BY <1>6, <2>1, <2>2, <2>3 DEF ImportFirst
  <2>5. path \in Paths
    BY <2>1, <2>4, CurrentTarget
  <2>6. f \in FrameSet /\ f.path = path
    BY <2>2, <2>5 DEF Frame, FrameSet
  <2>7. Fr.path \in D
    BY <1>3, <2>4
  <2>8. PICK S : S = D \cup {path}
    OBVIOUS
  <2>9. ClosedMap(importMap') /\ DOMAIN importMap' = D \cup {path}
    <3>1. path \in S /\ FiniteMap(importMap, S)
      BY <2>8 DEF Mapped, ClosedMap, FiniteMap
    <3>2. DOMAIN half = D \cup {Fr.path} /\ FiniteMap(half, S)
      BY <2>3, <3>1, RecordedMap
    <3>3. DOMAIN importMap' = DOMAIN half \cup {path} /\ FiniteMap(importMap', S)
      <4>1. FiniteMap(half, S) /\ path \in S
        BY <3>1, <3>2
      <4>2. /\ DOMAIN Recorded(half, path, path) = DOMAIN half \cup {path}
            /\ FiniteMap(Recorded(half, path, path), S)
        BY <4>1, RecordedMap
      <4> QED
        BY <2>4, <4>2
    <3>4. DOMAIN importMap' = S
      BY <2>7, <2>8, <3>2, <3>3
    <3> QED
      BY <2>8, <3>3, <3>4 DEF ClosedMap, FiniteMap
  <2>10. /\ Len(frames') = n + 1 /\ frames'[n + 1] = f
         /\ \A i \in 1..n : frames'[i] = frames[i]
    BY <1>0, <2>4, <2>6, AppendProperties DEF IInv, Stacked
  <2>11. \A i \in 1..n + 1 : frames'[i].path \in D \cup {path}
    <3>1. \A i \in 1..n + 1 : i \in 1..n \/ i = n + 1
      OBVIOUS
    <3>2. \A i \in 1..n : frames[i].path \in D
      BY <1>0 DEF Mapped
    <3> QED
      BY <2>6, <2>10, <3>1, <3>2
  <2>12. Range(imported') \subseteq D \cup {path}
    <3>1. PICK m \in Nat : m = Len(imported)
      BY LenProperties DEF IInv, Listed
    <3>2. /\ DOMAIN imported' = 1..m + 1 /\ DOMAIN imported = 1..m /\ imported'[m + 1] = path
          /\ \A i \in 1..m : imported'[i] = imported[i]
      BY <2>4, <2>5, <3>1, AppendProperties, LenProperties DEF IInv, Listed
    <3>3. \A i \in 1..m + 1 : i \in 1..m \/ i = m + 1
      OBVIOUS
    <3>4. \A i \in 1..m : imported[i] \in D
      BY <3>2 DEF Mapped, Range
    <3> QED
      BY <3>2, <3>3, <3>4 DEF Range
  <2> QED
    BY <2>9, <2>10, <2>11, <2>12 DEF Mapped
<1>7. CASE FinishImport
  <2>1. importMap' = importMap
    BY <1>7 DEF FinishImport
  <2> QED
    BY <1>2, <1>7, <2>1, FinishImportStep
<1>8. CASE FinishMain
  <2>1. importMap' = importMap
    BY <1>8 DEF FinishMain
  <2> QED
    BY <1>2, <1>8, <2>1, FinishMainStep
<1>9. CASE AfterParsing \/ UNCHANGED <<program, walk, phase>>
  BY <1>9 DEF AfterParsing, walk, Mapped
<1> QED
  BY <1>4, <1>5, <1>6, <1>7, <1>8, <1>9 DEF ImportNext

(* The list of visited files has room for all that were met.               *)
RoomForAll == Cardinality(DOMAIN importMap) <= VisitedCap

(* While there is room, the search ends and finds a file exactly if the    *)
(* file it starts from reaches it, whichever files import which: what it   *)
(* leaves out because it was listed on another branch is never lost.       *)
THEOREM SearchIsComplete == ImportSpec => [](RoomForAll => VisibleIsReached)
<1>1. ImportInit => Mapped
  BY MappedInitially
<1>2. IInv /\ Mapped /\ [ImportNext \/ AfterParsing]_<<program, walk, phase>> => Mapped'
  BY MappedStep
<1>3. Mapped /\ RoomForAll => VisibleIsReached
  <2> SUFFICES ASSUME Mapped, RoomForAll, NEW from \in Parsed, NEW file \in Parsed
               PROVE  /\ SearchEnds(importMap, from, file)
                      /\ IsVisible(importMap, from, file) <=> file \in Reached({from})
    BY DEF VisibleIsReached
  <2>1. from \in DOMAIN importMap /\ file \in DOMAIN importMap /\ ClosedMap(importMap)
    BY DEF Mapped, Parsed
  <2> QED
    BY <2>1, VisibleIffReached, ReachedIs DEF RoomForAll
<1> QED
  BY <1>1, <1>2, <1>3, IInvAlways, PTL DEF ImportSpec
================================================================================
