------------------------- MODULE PackageManagerProofs --------------------------
(***************************************************************************)
(* The package manager, for any number of projects, packages and versions, *)
(* any sn.yaml files, and any number of commands, kills and clearings.     *)
(***************************************************************************)
EXTENDS PackageManager, SequenceFacts

Parts == {"git", "tree"}

(* Where a job is at work on one dependency.                               *)
Mid == {"choose", "fetch", "tree", "head", "clone", "transfer", "files", "copy", "script",
        "descend"}

Job == [cmd : {"none", "compile", "install", "add"},
        pc : Mid \cup {"idle", "orphans", "check", "synced", "built", "next", "installed", "stop"},
        mode : {"none", "sync", "update", "cached", "direct"},
        dep : Dependency \cup {None}, asked : Dependency \cup {None},
        target : 0..MaxVersion,
        todo : SUBSET (Packages \cup Parts),
        stack : Seq(Seq(Dependency)),
        visited : [Packages -> Refs \cup {None}],
        ok : BOOLEAN, unmoved : SUBSET Packages]

Busy(j)    == j.pc \in Mid /\ j.mode # "sync"
Syncing(j) == j.pc \in {"check", "fetch", "tree", "head"} /\ j.mode = "sync"
Walking(j) == Busy(j) \/ j.pc \in {"next", "installed"}

(* Which of the ways through an install the label belongs to.              *)
Route(j) ==
  /\ j.pc \in {"orphans", "check", "synced"} => j.mode = "sync"
  /\ j.pc \in {"next", "installed", "choose", "clone", "transfer", "files", "copy", "script",
               "descend"} => j.mode # "sync"
  /\ j.pc \in {"fetch", "tree", "head"} => j.mode # "none"
  /\ j.pc = "fetch" => j.mode # "direct"
  /\ j.pc \in {"clone", "transfer", "files"} => j.mode \in {"cached", "direct"}
  /\ j.pc = "copy" => j.mode = "cached"

(* What a job at work knows of its dependency.                             *)
Knows(j) ==
  /\ j.pc \in Mid => j.dep \in Dependency
  /\ j.pc \in {"tree", "head"} => j.dep.ref # NoRef
  /\ j.pc = "fetch" /\ j.mode = "sync" => j.dep.ref # NoRef
  /\ j.pc \in {"head", "files"} => j.target \in Versions
  /\ j.pc = "head" /\ j.dep.ref \in Versions => j.target = j.dep.ref
  /\ j.pc = "copy" => j.todo # {} /\ j.todo \subseteq Parts
  /\ j.pc \in {"tree", "head"} /\ j.mode = "cached" => j.todo = Parts
  /\ Busy(j) => j.visited[j.dep.name] = j.dep.ref

(* How deep it is in the recursion.                                        *)
Depth(j) ==
  /\ j.pc = "orphans" \/ Syncing(j) => Len(j.stack) = 1
  /\ j.pc = "installed" => j.stack = <<>>
  /\ j.pc = "orphans" => j.todo \subseteq Packages
  /\ j.cmd = "add" => j.asked \in Dependency

JobOK(j) == j \in Job /\ Route(j) /\ Knows(j) /\ Depth(j)

DiskOK == disk \in [(Projects \cup {Cache}) \X Packages -> Dir \cup {None}]

GlobalOK ==
  /\ published \in [Packages -> Versions]
  /\ yaml \in [Projects -> Seq(Dependency)]
  /\ commands \in 0..MaxCommands /\ faults \in 0..MaxFaults
  /\ DOMAIN job = Projects

(* It goes on with what it has found, or made, in the cache.               *)
InCache(j) == j.mode = "cached" /\ j.pc \in {"fetch", "transfer", "files", "tree", "head", "copy"}

(* Past these labels the package at hand is a repository; when it comes    *)
(* from the cache, the directory there is one before, if no other process  *)
(* has written to it.                                                      *)
Arrived(pr, j) ==
  /\ \/ j.mode # "cached" /\ j.pc \in {"script", "descend"}
     \/ j.mode = "update" /\ j.pc \in {"fetch", "tree", "head"}
     \/ j.mode = "direct" /\ j.pc = "head"
     => IsRepo(Own(pr, j.dep.name))
  /\ j.pc = "script" \/ (j.pc = "copy" /\ j.todo # Parts) => Own(pr, j.dep.name) # None
  /\ j.mode = "cached" /\ j.dep.name \notin raced[pr] =>
       /\ InCache(j) => IsRepo(disk[<<Cache, j.dep.name>>])
       /\ j.pc \in {"script", "descend"} \/ (j.pc = "copy" /\ "git" \notin j.todo)
            => IsRepo(Own(pr, j.dep.name))

Seen(j) == {n \in Packages : j.visited[n] # None}
Pending(j) == {d.name : d \in InFrames(j.stack)}

(* While nothing has failed, a walk has forgotten no name it has read: it  *)
(* has been there, or the rest of a loop holds it.  Every package it has   *)
(* been to and is done with is a repository, unless others wrote to the    *)
(* cache while it was made.                                                *)
Closing(pr, j) ==
  j.ok /\ Walking(j) =>
    /\ j.cmd # "add" => Names(yaml[pr]) \subseteq Seen(j) \cup Pending(j)
    /\ \A n \in Seen(j) : ~(Busy(j) /\ n = j.dep.name) =>
         /\ n \notin raced[pr] => IsRepo(Own(pr, n))
         /\ Names(DepsIn(Own(pr, n), n)) \subseteq Seen(j) \cup Pending(j)

(* What is left to delete is not collected.                                *)
Spared(pr, j) == j.pc = "orphans" => j.todo \cap Collected(pr) = {}

Local(pr, j) == JobOK(j) /\ Arrived(pr, j) /\ Closing(pr, j) /\ Spared(pr, j)

IInv == GlobalOK /\ DiskOK /\ \A pr \in Projects : Local(pr, job[pr])

--------------------------------------------------------------------------------
(* The names in a sn.yaml.                                                 *)
LEMMA NamesAreElements == \A s : Names(s) = {d.name : d \in ToSet(s)}
BY DEF Names, ToSet

LEMMA NamesArePackages ==
  ASSUME NEW s \in Seq(Dependency)
  PROVE  Names(s) \subseteq Packages /\ ToSet(s) \subseteq Dependency
<1>1. ToSet(s) \subseteq Dependency
  BY ToSetByIndex
<1> QED
  BY <1>1, NamesAreElements DEF Dependency

(* What a directory's sn.yaml asks for.                                    *)
LEMMA DepsInType ==
  ASSUME NEW n \in Packages, NEW d \in Dir \cup {None}
  PROVE  DepsIn(d, n) \in Seq(Dependency)
<1>1. <<>> \in Seq(Dependency)
  BY EmptySeq
<1>2. d # None /\ d.tree # 0 => d.tree \in Versions
  BY VersionAssumption DEF Dir, Versions
<1> QED
  BY <1>1, <1>2, ManifestAssumption DEF DepsIn

(* A ref is found as a version, a tag as itself.                           *)
LEMMA ResolveType ==
  ASSUME NEW g \in Git, NEW r \in Refs \ {NoRef}
  PROVE  /\ Resolve(g, r) \in 0..MaxVersion
         /\ r \in Versions => Resolve(g, r) \in {0, r}
BY RefAssumption, VersionAssumption DEF Git, Refs, Versions, Resolve

LEMMA RepoType ==
  ASSUME NEW d \in Dir \cup {None}, IsRepo(d)
  PROVE  d \in Dir /\ d.git \in Git
BY NoneAssumption DEF Dir, IsRepo

(* Every package is collected that a collected one, or the project, names. *)
LEMMA CollectedClosed ==
  ASSUME GlobalOK, DiskOK, NEW pr \in Projects
  PROVE  Closed(pr, Collected(pr)) /\ Collected(pr) \subseteq Packages
<1>1. Names(yaml[pr]) \subseteq Packages
  BY NamesArePackages DEF GlobalOK
<1>2. Names(yaml[pr]) \subseteq Collected(pr)
  BY <1>1 DEF Collected, Closed
<1>3. ASSUME NEW m \in Collected(pr), NEW n \in Names(DepsIn(Own(pr, m), m))
      PROVE  n \in Collected(pr)
  <2>1. m \in Packages /\ Own(pr, m) \in Dir \cup {None}
    BY DEF Collected, DiskOK, Own
  <2>2. n \in Packages
    BY <2>1, DepsInType, NamesArePackages
  <2>3. ASSUME NEW S \in SUBSET Packages, Closed(pr, S) PROVE n \in S
    BY <1>3, <2>3 DEF Collected, Closed
  <2> QED
    BY <2>2, <2>3 DEF Collected
<1> QED
  BY <1>2, <1>3 DEF Closed, Collected

--------------------------------------------------------------------------------
(* Who runs a command changes nothing of another's.                        *)
LEMMA GoTo ==
  ASSUME GlobalOK, NEW pr \in Projects, NEW j, Go(pr, j)
  PROVE  /\ job'[pr] = j /\ DOMAIN job' = Projects
         /\ \A q \in Projects : q # pr => job'[q] = job[q]
BY DEF Go, GlobalOK

(* What others write to the cache while a command uses it is noted.        *)
LEMMA Watched ==
  ASSUME Watch, NEW q \in Projects
  PROVE  /\ job'[q].pc # "idle" => raced[q] \subseteq raced'[q]
         /\ \A n \in Packages : UsesCache(q, n) /\ job'[q] = job[q] /\ n \notin raced'[q] =>
              disk'[<<Cache, n>>] = disk[<<Cache, n>>]
BY DEF Watch, UsesCache

(* What holds of a job goes on to hold while nothing it relies on changes. *)
LEMMA Keeps ==
  ASSUME NEW q \in Projects, NEW j, Local(q, j), job'[q] = j, yaml'[q] = yaml[q],
         \A n \in Packages : Own(q, n)' = Own(q, n),
         j.pc # "idle" => raced[q] \subseteq raced'[q],
         InCache(j) /\ j.dep.name \notin raced'[q] =>
           disk'[<<Cache, j.dep.name>>] = disk[<<Cache, j.dep.name>>]
  PROVE  Local(q, job[q])'
<1>1. j.pc \in Mid => j.dep.name \in Packages
  BY DEF Local, JobOK, Knows, Dependency
<1>2. Collected(q)' = Collected(q)
  BY DEF Collected, Closed
<1>3. Arrived(q, job[q])'
  BY <1>1 DEF Local, Arrived, InCache, Mid
<1>4. Closing(q, job[q])'
  BY DEF Local, Closing, Walking, Busy, Mid, Seen
<1> QED
  BY <1>2, <1>3, <1>4 DEF Local, Spared

(* Another project, whose command does not move.                           *)
LEMMA Spectator ==
  ASSUME IInv, Watch, NEW q \in Projects, job'[q] = job[q], yaml'[q] = yaml[q],
         \A n \in Packages : Own(q, n)' = Own(q, n)
  PROVE  Local(q, job[q])'
<1> DEFINE j == job[q]
<1>1. Local(q, j) /\ (InCache(j) => j.dep.name \in Packages /\ UsesCache(q, j.dep.name))
  BY DEF IInv, Local, JobOK, Knows, Mid, InCache, UsesCache, Dependency
<1>2. /\ j.pc # "idle" => raced[q] \subseteq raced'[q]
      /\ InCache(j) /\ j.dep.name \notin raced'[q] =>
           disk'[<<Cache, j.dep.name>>] = disk[<<Cache, j.dep.name>>]
  BY <1>1, Watched
<1> HIDE DEF j
<1>3. job'[q] = j
  BY DEF j
<1> QED
  BY <1>1, <1>2, <1>3, Keeps

(* A step that changes no file.                                            *)
LEMMA Still ==
  ASSUME IInv, Watch, NEW pr \in Projects, NEW j, Go(pr, j), Local(pr, j),
         UNCHANGED <<published, disk, yaml>>,
         commands' \in 0..MaxCommands, faults' \in 0..MaxFaults
  PROVE  IInv'
<1>1. GlobalOK'
  BY GoTo DEF IInv, GlobalOK
<1>2. DiskOK'
  BY DEF IInv, DiskOK
<1>3. ASSUME NEW q \in Projects, q # pr PROVE Local(q, job[q])'
  BY <1>3, GoTo, Spectator DEF IInv, Own
<1>4. Local(pr, job[pr])'
  <2>1. job'[pr] = j
    BY GoTo DEF IInv
  <2>2. j.pc # "idle" => raced[pr] \subseteq raced'[pr]
    BY <2>1, Watched
  <2> QED
    BY <2>1, <2>2, Keeps DEF Own
<1> QED
  BY <1>1, <1>2, <1>3, <1>4 DEF IInv

(* Idle is a job.                                                          *)
LEMMA IdleIsJob == Idle \in Job /\ Idle.visited \in [Packages -> {None}] /\ JobOK(Idle)
<1>1. <<>> \in Seq(Seq(Dependency)) /\ Len(<<>>) = 0
  BY EmptySeq
<1>2. Idle \in Job /\ Idle.visited \in [Packages -> {None}]
  BY <1>1, VersionAssumption DEF Idle, Job, Mid
<1>3. Idle.pc = "idle" /\ Idle.mode = "none" /\ Idle.cmd = "none"
  BY DEF Idle
<1> QED
  BY <1>2, <1>3 DEF JobOK, Route, Knows, Depth, Busy, Syncing, Mid

(* Nothing is required of a job that has ended.                            *)
LEMMA Quiet ==
  ASSUME NEW pr, NEW j \in Job, j.pc \in {"idle", "built"}, j.cmd # "add"
  PROVE  Local(pr, j)
BY DEF Local, JobOK, Route, Knows, Depth, Arrived, InCache, Closing, Spared, Busy, Syncing, Walking, Mid

--------------------------------------------------------------------------------
(***************************************************************************)
(* The commands, and what else happens to the files.                       *)
(***************************************************************************)
LEMMA ReadyCounts ==
  ASSUME IInv, NEW pr, Ready(pr)
  PROVE  commands' \in 0..MaxCommands /\ faults' \in 0..MaxFaults
BY BoundAssumption DEF Ready, IInv, GlobalOK

LEMMA BeginCompileStep ==
  ASSUME IInv, Watch, NEW pr \in Projects, BeginCompile(pr)
  PROVE  IInv'
<1> DEFINE gone == {n \in Packages : Own(pr, n) # None} \ Collected(pr)
           j == [Idle EXCEPT !.cmd = "compile", !.mode = "sync", !.pc = "orphans",
                   !.stack = <<yaml[pr]>>, !.todo = gone]
<1>1. Go(pr, j) /\ UNCHANGED <<published, disk, yaml>> /\ Ready(pr)
  BY DEF BeginCompile
<1>2. <<yaml[pr]>> \in Seq(Seq(Dependency)) /\ Len(<<yaml[pr]>>) = 1
  BY OneFrame DEF IInv, GlobalOK
<1>3. gone \subseteq Packages /\ gone \cap Collected(pr) = {}
  OBVIOUS
<1> HIDE DEF gone
<1>4. /\ j \in Job /\ j.pc = "orphans" /\ j.mode = "sync" /\ j.todo = gone
      /\ j.stack = <<yaml[pr]>> /\ j.cmd = "compile"
  BY <1>2, <1>3, IdleIsJob DEF Job
<1> HIDE DEF j
<1>5. JobOK(j)
  BY <1>2, <1>3, <1>4 DEF JobOK, Route, Knows, Depth, Busy, Syncing, Mid
<1>6. Local(pr, j)
  BY <1>3, <1>4, <1>5 DEF Local, Arrived, InCache, Closing, Spared, Walking, Busy, Mid
<1> QED
  BY <1>1, <1>6, ReadyCounts, Still

(* A walk begins with the project's own sn.yaml and nothing seen.          *)
LEMMA WalkBegins ==
  ASSUME IInv, NEW pr \in Projects, NEW c \in {"compile", "install"}
  PROVE  Local(pr, [Idle EXCEPT !.cmd = c, !.pc = "next", !.stack = <<yaml[pr]>>])
<1> DEFINE j == [Idle EXCEPT !.cmd = c, !.pc = "next", !.stack = <<yaml[pr]>>]
<1>1. /\ <<yaml[pr]>> \in Seq(Seq(Dependency))
      /\ InFrames(<<yaml[pr]>>) = ToSet(yaml[pr])
  BY OneFrame DEF IInv, GlobalOK
<1>2. /\ j \in Job /\ j.pc = "next" /\ j.mode = "none" /\ j.stack = <<yaml[pr]>> /\ j.cmd = c
      /\ j.visited = Idle.visited
  BY <1>1, IdleIsJob DEF Job, Mid, Idle
<1> HIDE DEF j
<1>3. JobOK(j)
  BY <1>2 DEF JobOK, Route, Knows, Depth, Busy, Syncing, Mid
<1>4. Pending(j) = Names(yaml[pr])
  BY <1>1, <1>2, NamesAreElements DEF Pending
<1>5. Seen(j) = {}
  BY <1>2, IdleIsJob DEF Seen
<1> QED
  BY <1>2, <1>3, <1>4, <1>5 DEF Local, Arrived, InCache, Closing, Spared, j

LEMMA BeginInstallStep ==
  ASSUME IInv, Watch, NEW pr \in Projects, BeginInstall(pr)
  PROVE  IInv'
BY WalkBegins, ReadyCounts, Still DEF BeginInstall

LEMMA BeginAddStep ==
  ASSUME IInv, Watch, NEW pr \in Projects, NEW d \in Asked, BeginAdd(pr, d)
  PROVE  IInv'
<1> DEFINE j == [Idle EXCEPT !.cmd = "add", !.pc = "choose", !.dep = d,
                   !.asked = d, !.visited[d.name] = d.ref]
<1>1. Go(pr, j) /\ UNCHANGED <<published, disk, yaml>> /\ Ready(pr)
  BY DEF BeginAdd
<1>2. d \in Dependency /\ d.name \in Packages /\ d.ref \in Refs
  BY ManifestAssumption DEF Dependency
<1>3. [Idle.visited EXCEPT ![d.name] = d.ref] \in [Packages -> Refs \cup {None}]
  BY <1>2, IdleIsJob
<1>4. /\ j \in Job /\ j.pc = "choose" /\ j.mode = "none" /\ j.dep = d /\ j.cmd = "add"
      /\ j.asked = d
      /\ j.visited = [Idle.visited EXCEPT ![d.name] = d.ref]
  BY <1>2, <1>3, IdleIsJob DEF Job, Mid, Idle
<1> HIDE DEF j
<1>5. \A n \in Seen(j) : n = d.name
  BY <1>4, IdleIsJob DEF Seen
<1>6. JobOK(j)
  BY <1>2, <1>4, IdleIsJob DEF JobOK, Route, Knows, Depth, Busy, Syncing, Mid
<1>7. Local(pr, j)
  BY <1>4, <1>5, <1>6 DEF Local, Arrived, InCache, Closing, Spared, Busy, Mid
<1> QED
  BY <1>1, <1>7, ReadyCounts, Still

LEMMA EndStep ==
  ASSUME IInv, Watch, NEW pr \in Projects, Stop(pr) \/ Crash(pr) \/ Built(pr)
  PROVE  IInv'
<1>1. Go(pr, Idle) /\ UNCHANGED <<published, disk, yaml>>
  BY DEF Stop, Crash, Built
<1>2. commands' \in 0..MaxCommands /\ faults' \in 0..MaxFaults
  BY BoundAssumption DEF Stop, Crash, Built, counts, IInv, GlobalOK
<1>3. Local(pr, Idle)
  BY IdleIsJob, Quiet DEF Idle
<1> QED
  BY <1>1, <1>2, <1>3, Still

LEMMA PublishStep ==
  ASSUME IInv, Watch, NEW n \in Packages, Publish(n)
  PROVE  IInv'
<1>1. GlobalOK' /\ UNCHANGED <<disk, yaml, job>>
  BY VersionAssumption DEF Publish, IInv, GlobalOK, Versions, counts
<1>2. DiskOK'
  BY <1>1 DEF IInv, DiskOK
<1>3. ASSUME NEW q \in Projects PROVE Local(q, job[q])'
  BY <1>1, Spectator DEF Own
<1> QED
  BY <1>1, <1>2, <1>3 DEF IInv

(* sn.yaml is edited while no command runs.                                *)
LEMMA EditStep ==
  ASSUME IInv, Watch, NEW pr \in Projects, Edit(pr)
  PROVE  IInv'
<1>1. UNCHANGED <<published, disk, job, counts>> /\ job[pr].pc = "idle"
  BY DEF Edit, At
<1>2. /\ GlobalOK'
      /\ \A q \in Projects : q # pr => yaml'[q] = yaml[q]
  BY <1>1, ManifestAssumption DEF Edit, IInv, GlobalOK, counts
<1>3. DiskOK'
  BY <1>1 DEF IInv, DiskOK
<1>4. ASSUME NEW q \in Projects, q # pr PROVE Local(q, job[q])'
  BY <1>1, <1>2, <1>4, Spectator DEF Own
<1>5. Local(pr, job[pr])'
  BY <1>1 DEF IInv, Local, JobOK, Arrived, InCache, Closing, Spared, Walking, Busy, Mid
<1> QED
  BY <1>2, <1>3, <1>4, <1>5 DEF IInv

(* What may be left of a directory.                                        *)
LEMMA LeftType ==
  ASSUME NEW d \in Dir, NEW e \in Left(d)
  PROVE  e \in Dir \cup {None}
<1>1. 0 \in 0..MaxVersion /\ Bare \in Git
  BY VersionAssumption, RefAssumption DEF Bare, Git, Refs
<1>2. \A sc, t : (sc /\ t # 0) \in BOOLEAN
  OBVIOUS
<1>3. CASE e # None
  <2>1. PICK g \in IF d.git = None THEN {None} ELSE {None, Bare, d.git}, t \in {0, d.tree} :
          e = [git |-> g, tree |-> t, script |-> d.script /\ t # 0]
    BY <1>3 DEF Left
  <2>2. g \in Git \cup {None} /\ t \in 0..MaxVersion
    BY <1>1, <2>1 DEF Dir
  <2> QED
    BY <1>2, <2>1, <2>2 DEF Dir
<1> QED
  BY <1>3

(* --clear-cache reaches the cache and nothing else.                       *)
LEMMA ClearsCache ==
  ASSUME IInv, NEW n \in Packages, ClearCache(n)
  PROVE  /\ UNCHANGED <<published, job, yaml>>
         /\ \A q \in Projects, m \in Packages : Own(q, m)' = Own(q, m)
         /\ DiskOK'
<1>1. PICK d \in Left(disk[<<Cache, n>>]) : disk' = [disk EXCEPT ![<<Cache, n>>] = d]
  BY DEF ClearCache, Write
<1>2. <<Cache, n>> \in (Projects \cup {Cache}) \X Packages
  OBVIOUS
<1>3. d \in Dir \cup {None}
  BY <1>2, LeftType DEF ClearCache, IInv, DiskOK
<1>4. ASSUME NEW q \in Projects, NEW m \in Packages PROVE Own(q, m)' = Own(q, m)
  <2>1. <<q, m>> # <<Cache, n>> /\ <<q, m>> \in (Projects \cup {Cache}) \X Packages
    BY CacheAssumption
  <2> QED
    BY <1>1, <2>1 DEF Own, IInv, DiskOK
<1> QED
  BY <1>1, <1>3, <1>4 DEF ClearCache, IInv, DiskOK

LEMMA ClearCacheStep ==
  ASSUME IInv, Watch, NEW n \in Packages, ClearCache(n)
  PROVE  IInv'
<1>1. commands' \in 0..MaxCommands /\ faults' \in 0..MaxFaults
  BY BoundAssumption DEF ClearCache, IInv, GlobalOK
<1>2. GlobalOK' /\ DiskOK'
  BY <1>1, ClearsCache DEF IInv, GlobalOK
<1>3. ASSUME NEW q \in Projects PROVE Local(q, job[q])'
  BY ClearsCache, Spectator
<1> QED
  BY <1>2, <1>3 DEF IInv

--------------------------------------------------------------------------------
(***************************************************************************)
(* Sync and the walk: the steps that change no file.                       *)
(***************************************************************************)
(* A job goes on from where it was: what its walk has read stays.          *)
SameWalk(j, k) ==
  /\ k.cmd = j.cmd /\ k.dep = j.dep /\ k.asked = j.asked
  /\ k.stack = j.stack /\ k.visited = j.visited /\ j.unmoved \subseteq k.unmoved

(* At work on the same dependency, nothing is forgotten.                   *)
LEMMA StillBusy ==
  ASSUME NEW pr, NEW j, NEW k, Closing(pr, j), Busy(j), SameWalk(j, k),
         k.ok => j.ok /\ (Busy(k) \/ k.mode = "sync"), JobOK(k)
  PROVE  Closing(pr, k)
<1> SUFFICES ASSUME k.ok, Walking(k) PROVE Closing(pr, k)
  BY DEF Closing
<1>1. Busy(k) /\ Walking(j)
  BY DEF Walking, Busy, JobOK, Route
<1> QED
  BY <1>1 DEF Closing, SameWalk, Seen, Pending

(* Whatever fails is recorded, and the walk goes on or the command stops.  *)
LEMMA FailedLocal ==
  ASSUME NEW pr, NEW j, Local(pr, j), j.pc \in Mid
  PROVE  Local(pr, Failed(j)) /\ ~Failed(j).ok
<1> DEFINE k == Failed(j)
<1>1. /\ k \in Job /\ ~k.ok /\ SameWalk(j, k) /\ k.mode = j.mode /\ k.todo = j.todo
      /\ k.pc \in {"check", "next", "stop"} /\ (k.pc = "check" <=> k.mode = "sync")
  BY DEF Failed, Local, JobOK, Job, SameWalk
<1> HIDE DEF k
<1>2. j.mode = "sync" => Syncing(j)
  BY DEF Local, JobOK, Route, Syncing, Mid
<1>3. JobOK(k)
  BY <1>1, <1>2 DEF Local, JobOK, Route, Knows, Depth, Busy, Syncing, SameWalk, Mid
<1>4. Local(pr, k)
  BY <1>1, <1>3 DEF Local, Arrived, InCache, Closing, Spared
<1> QED
  BY <1>1, <1>4 DEF k

LEMMA FailStep ==
  ASSUME IInv, Watch, NEW pr \in Projects, job[pr].pc \in Mid, Fail(pr)
  PROVE  IInv'
BY FailedLocal, Still DEF Fail, IInv, GlobalOK, counts

LEMMA OrphansGoneStep ==
  ASSUME IInv, Watch, NEW pr \in Projects, OrphansGone(pr)
  PROVE  IInv'
<1> DEFINE j == job[pr]
           k == [j EXCEPT !.pc = "check"]
<1>1. Go(pr, k) /\ UNCHANGED <<published, disk, yaml, counts>> /\ j.pc = "orphans"
  BY DEF OrphansGone, At
<1>2. Local(pr, j)
  BY DEF IInv
<1>3. /\ k \in Job /\ k.pc = "check" /\ k.mode = "sync" /\ k.stack = j.stack /\ Len(k.stack) = 1
      /\ k.cmd = "add" => k.asked \in Dependency
  BY <1>1, <1>2 DEF Local, JobOK, Route, Depth, Job
<1> HIDE DEF k
<1>4. Local(pr, k)
  BY <1>3 DEF Local, JobOK, Route, Knows, Depth, Arrived, InCache, Closing, Spared, Walking, Busy,
              Syncing, Mid
<1> QED
  BY <1>1, <1>4, Still DEF counts, IInv, GlobalOK

LEMMA CheckStep ==
  ASSUME IInv, Watch, NEW pr \in Projects, Check(pr)
  PROVE  IInv'
<1> DEFINE j == job[pr]
           d == Head(Last(j.stack))
<1>1. PICK label \in {"check", "tree", "fetch"} :
        /\ Go(pr, [j EXCEPT !.dep = d, !.stack = Rest(j), !.pc = label])
        /\ label # "check" => d.ref # NoRef
  BY DEF Check
<1>2. /\ UNCHANGED <<published, disk, yaml, counts>> /\ j.pc = "check"
      /\ Last(j.stack) # <<>>
  BY DEF Check, At
<1>3. Local(pr, j) /\ j.stack \in Seq(Seq(Dependency)) /\ Len(j.stack) = 1 /\ j.mode = "sync"
  BY <1>2 DEF IInv, Local, JobOK, Job, Depth, Route, Syncing
<1>4. j.stack # <<>>
  <2>1. (j.stack = <<>>) <=> (Len(j.stack) = 0)
    BY <1>3, EmptySeq
  <2> QED
    BY <1>3, <2>1
<1>5. Rest(j) \in Seq(Seq(Dependency)) /\ Len(Rest(j)) = 1 /\ d \in Dependency
  BY <1>2, <1>3, <1>4, TurnFrame DEF Rest
<1> DEFINE k == [j EXCEPT !.dep = d, !.stack = Rest(j), !.pc = label]
<1> HIDE DEF d
<1>6. /\ k \in Job /\ k.pc = label /\ k.mode = "sync" /\ k.dep = d /\ k.stack = Rest(j)
      /\ k.cmd = "add" => k.asked \in Dependency
  BY <1>3, <1>5 DEF Local, JobOK, Depth, Job, Mid
<1> HIDE DEF k
<1>7. JobOK(k)
  BY <1>1, <1>5, <1>6 DEF JobOK, Route, Knows, Depth, Busy, Syncing, Mid
<1>8. Local(pr, k)
  BY <1>6, <1>7 DEF Local, Arrived, InCache, Closing, Spared, Walking, Busy, Mid
<1> QED
  BY <1>1, <1>2, <1>8, Still DEF counts, IInv, GlobalOK, k, d

LEMMA SyncedStep ==
  ASSUME IInv, Watch, NEW pr \in Projects, Synced(pr)
  PROVE  IInv'
<1> DEFINE j == job[pr]
           k == [j EXCEPT !.pc = "synced"]
<1>1. Go(pr, k) /\ UNCHANGED <<published, disk, yaml, counts>> /\ j.pc = "check"
  BY DEF Synced, At
<1>2. Local(pr, j)
  BY DEF IInv
<1>3. /\ k \in Job /\ k.pc = "synced" /\ k.mode = "sync"
      /\ k.cmd = "add" => k.asked \in Dependency
  BY <1>1, <1>2 DEF Local, JobOK, Route, Depth, Job
<1> HIDE DEF k
<1>4. Local(pr, k)
  BY <1>3 DEF Local, JobOK, Route, Knows, Depth, Arrived, InCache, Closing, Spared, Walking, Busy,
              Syncing, Mid
<1> QED
  BY <1>1, <1>4, Still DEF counts, IInv, GlobalOK

LEMMA GateStep ==
  ASSUME IInv, Watch, NEW pr \in Projects, Gate(pr)
  PROVE  IInv'
<1> DEFINE built == [Idle EXCEPT !.cmd = "compile", !.pc = "built"]
           walk == [Idle EXCEPT !.cmd = "compile", !.pc = "next", !.stack = <<yaml[pr]>>]
<1>1. (Go(pr, built) \/ Go(pr, walk)) /\ UNCHANGED <<published, disk, yaml, counts>>
  BY DEF Gate
<1>2. built \in Job /\ built.pc = "built" /\ built.cmd = "compile"
  BY IdleIsJob DEF Job
<1>3. Local(pr, built)
  BY <1>2, Quiet
<1>4. Local(pr, walk)
  BY WalkBegins
<1> HIDE DEF built, walk
<1> QED
  BY <1>1, <1>3, <1>4, Still DEF counts, IInv, GlobalOK

(* A name met for the first time is marked, and becomes the one at hand.   *)
LEMMA NextDepStep ==
  ASSUME IInv, Watch, NEW pr \in Projects, NextDep(pr)
  PROVE  IInv'
<1> DEFINE j == job[pr]
           d == Head(Last(j.stack))
           passed == [j EXCEPT !.stack = Rest(j)]
           taken == [passed EXCEPT !.dep = d, !.visited[d.name] = d.ref, !.pc = "choose"]
<1>1. /\ UNCHANGED <<published, disk, yaml, counts>> /\ j.pc = "next"
      /\ j.stack # <<>> /\ Last(j.stack) # <<>>
  BY DEF NextDep, At
<1>2. IF passed.visited[d.name] # None THEN Go(pr, passed) ELSE Go(pr, taken)
  BY DEF NextDep
<1>3. Local(pr, j) /\ j \in Job /\ j.stack \in Seq(Seq(Dependency)) /\ j.mode # "sync"
  BY <1>1 DEF IInv, Local, JobOK, Job, Route
<1>4. /\ Rest(j) \in Seq(Seq(Dependency)) /\ d \in Dependency
      /\ InFrames(j.stack) = InFrames(Rest(j)) \cup {d}
  BY <1>1, <1>3, TurnFrame DEF Rest
<1> HIDE DEF d
<1>5. /\ passed \in Job /\ passed.pc = "next" /\ passed.mode = j.mode /\ passed.cmd = j.cmd
      /\ passed.stack = Rest(j) /\ passed.visited = j.visited /\ passed.ok = j.ok
      /\ passed.asked = j.asked
  BY <1>1, <1>3, <1>4 DEF Job
<1> HIDE DEF passed
<1>6. Pending(j) = Pending(passed) \cup {d.name} /\ Seen(passed) = Seen(j)
  BY <1>4, <1>5 DEF Pending, Seen
<1>7. Walking(j) /\ ~Busy(j)
  BY <1>1 DEF Walking, Busy, Mid
<1>8. CASE passed.visited[d.name] # None
  <2>1. JobOK(passed)
    BY <1>3, <1>5 DEF Local, JobOK, Route, Knows, Depth, Busy, Syncing, Mid
  <2>2. d.name \in Seen(passed)
    BY <1>4, <1>8 DEF Seen, Dependency
  <2>3. Closing(pr, passed)
    BY <1>3, <1>5, <1>6, <1>7, <2>2 DEF Local, Closing
  <2>4. Local(pr, passed)
    BY <1>5, <2>1, <2>3 DEF Local, Arrived, InCache, Spared
  <2> QED
    BY <1>1, <1>2, <1>8, <2>4, Still DEF counts, IInv, GlobalOK
<1>9. CASE passed.visited[d.name] = None
  <2>1. d.name \in Packages /\ d.ref \in Refs /\ passed.visited \in [Packages -> Refs \cup {None}]
    BY <1>4, <1>5 DEF Dependency, Job
  <2>2. [passed.visited EXCEPT ![d.name] = d.ref] \in [Packages -> Refs \cup {None}]
    BY <2>1
  <2>3. /\ taken \in Job /\ taken.pc = "choose" /\ taken.mode = j.mode /\ taken.cmd = j.cmd
        /\ taken.stack = passed.stack /\ taken.dep = d /\ taken.ok = j.ok
        /\ taken.asked = j.asked
        /\ taken.visited = [passed.visited EXCEPT ![d.name] = d.ref]
    BY <1>4, <1>5, <2>2 DEF Job, Mid
  <2> HIDE DEF taken
  <2>4. Seen(taken) = Seen(passed) \cup {d.name} /\ Pending(taken) = Pending(passed)
    BY <2>1, <2>3, NoneAssumption DEF Seen, Pending
  <2>5. JobOK(taken)
    BY <1>3, <1>4, <2>1, <2>3 DEF Local, JobOK, Route, Knows, Depth, Busy, Syncing, Mid
  <2>6. Closing(pr, taken)
    BY <1>3, <1>6, <1>7, <2>3, <2>4 DEF Local, Closing, Busy, Mid
  <2>7. Local(pr, taken)
    BY <2>3, <2>5, <2>6 DEF Local, Arrived, InCache, Spared
  <2> QED
    BY <1>1, <1>2, <1>9, <2>7, Still DEF counts, IInv, GlobalOK
<1> QED
  BY <1>8, <1>9

LEMMA LeaveFrameStep ==
  ASSUME IInv, Watch, NEW pr \in Projects, LeaveFrame(pr)
  PROVE  IInv'
<1> DEFINE j == job[pr]
           k == [j EXCEPT !.stack = Front(@)]
<1>1. /\ UNCHANGED <<published, disk, yaml, counts>> /\ j.pc = "next" /\ Go(pr, k)
      /\ j.stack # <<>> /\ Last(j.stack) = <<>>
  BY DEF LeaveFrame, At
<1>2. Local(pr, j) /\ j \in Job /\ j.stack \in Seq(Seq(Dependency)) /\ j.mode # "sync"
  BY <1>1 DEF IInv, Local, JobOK, Job, Route
<1>3. Front(j.stack) \in Seq(Seq(Dependency)) /\ InFrames(j.stack) = InFrames(Front(j.stack))
  BY <1>1, <1>2, PopFrame
<1>4. /\ k \in Job /\ k.pc = "next" /\ k.mode = j.mode /\ k.cmd = j.cmd /\ k.ok = j.ok
      /\ k.stack = Front(j.stack) /\ k.visited = j.visited /\ k.asked = j.asked
  BY <1>1, <1>2, <1>3 DEF Job
<1> HIDE DEF k
<1>5. Pending(k) = Pending(j) /\ Seen(k) = Seen(j)
  BY <1>3, <1>4 DEF Pending, Seen
<1>6. JobOK(k)
  BY <1>2, <1>4 DEF Local, JobOK, Route, Knows, Depth, Busy, Syncing, Mid
<1>7. Local(pr, k)
  BY <1>1, <1>2, <1>4, <1>5, <1>6 DEF Local, Arrived, InCache, Closing, Spared, Walking, Busy, Mid
<1> QED
  BY <1>1, <1>7, Still DEF counts, IInv, GlobalOK

(* A package that is there is looked into: what its sn.yaml names is to be *)
(* walked.                                                                 *)
LEMMA DescendStep ==
  ASSUME IInv, Watch, NEW pr \in Projects, Descend(pr)
  PROVE  IInv'
<1> DEFINE j == job[pr]
           n == j.dep.name
           f == DepsIn(Own(pr, n), n)
           k == [j EXCEPT !.pc = "next", !.stack = Append(@, f)]
<1>1. /\ UNCHANGED <<published, disk, yaml, counts>> /\ j.pc = "descend" /\ Go(pr, k)
  BY DEF Descend, At
<1>2. /\ Local(pr, j) /\ j \in Job /\ j.stack \in Seq(Seq(Dependency)) /\ j.mode # "sync"
      /\ Busy(j) /\ n \in Packages /\ (n \notin raced[pr] => IsRepo(Own(pr, n)))
  BY <1>1 DEF IInv, Local, JobOK, Job, Route, Knows, Arrived, InCache, Busy, Mid, Dependency
<1>3. f \in Seq(Dependency)
  BY <1>2, DepsInType DEF IInv, DiskOK, Own
<1>4. Names(f) = {d.name : d \in ToSet(f)}
  BY NamesAreElements
<1> HIDE DEF f
<1>5. /\ Append(j.stack, f) \in Seq(Seq(Dependency))
      /\ InFrames(Append(j.stack, f)) = InFrames(j.stack) \cup ToSet(f)
  BY <1>2, <1>3, PushFrame
<1>6. /\ k \in Job /\ k.pc = "next" /\ k.mode = j.mode /\ k.cmd = j.cmd /\ k.ok = j.ok
      /\ k.stack = Append(j.stack, f) /\ k.visited = j.visited /\ k.asked = j.asked
  BY <1>1, <1>2, <1>5 DEF Job
<1> HIDE DEF k
<1>7. Pending(k) = Pending(j) \cup Names(f) /\ Seen(k) = Seen(j)
  BY <1>4, <1>5, <1>6 DEF Pending, Seen
<1>8. JobOK(k)
  BY <1>2, <1>6 DEF Local, JobOK, Route, Knows, Depth, Busy, Syncing, Mid
<1>9. Closing(pr, k)
  BY <1>2, <1>6, <1>7 DEF Local, Closing, Walking, f
<1>10. Local(pr, k)
  BY <1>6, <1>8, <1>9 DEF Local, Arrived, InCache, Spared
<1> QED
  BY <1>1, <1>10, Still DEF counts, IInv, GlobalOK, k

LEMMA WalkDoneStep ==
  ASSUME IInv, Watch, NEW pr \in Projects, WalkDone(pr)
  PROVE  IInv'
<1> DEFINE j == job[pr]
           k == [j EXCEPT !.pc = "installed"]
<1>1. /\ UNCHANGED <<published, disk, yaml, counts>> /\ j.pc = "next" /\ Go(pr, k)
      /\ j.stack = <<>>
  BY DEF WalkDone, At
<1>2. Local(pr, j) /\ j \in Job /\ j.mode # "sync"
  BY <1>1 DEF IInv, Local, JobOK, Route
<1>3. /\ k \in Job /\ k.pc = "installed" /\ k.mode = j.mode /\ k.cmd = j.cmd /\ k.ok = j.ok
      /\ k.stack = j.stack /\ k.visited = j.visited /\ k.asked = j.asked
  BY <1>1, <1>2 DEF Job
<1> HIDE DEF k
<1>4. Pending(k) = Pending(j) /\ Seen(k) = Seen(j)
  BY <1>3 DEF Pending, Seen
<1>5. JobOK(k)
  BY <1>1, <1>2, <1>3 DEF Local, JobOK, Route, Knows, Depth, Busy, Syncing, Mid
<1>6. Local(pr, k)
  BY <1>1, <1>2, <1>3, <1>4, <1>5
     DEF Local, Arrived, InCache, Closing, Spared, Walking, Busy, Mid
<1> QED
  BY <1>1, <1>6, Still DEF counts, IInv, GlobalOK

(* A package is recorded in sn.yaml once.                                  *)
LEMMA AddDependencyType ==
  ASSUME NEW y \in Seq(Dependency), NEW d \in Dependency
  PROVE  AddDependency(y, d) \in Seq(Dependency)
<1>1. Append(y, d) \in Seq(Dependency)
  OBVIOUS
<1>2. DOMAIN y = 1..Len(y) /\ Len(y) \in Nat /\ \A i \in 1..Len(y) : y[i] \in Dependency
  BY LenProperties, ElementOfSeq
<1>3. [i \in DOMAIN y |-> IF y[i].name = d.name THEN d ELSE y[i]] \in Seq(Dependency)
  BY <1>2
<1> QED
  BY <1>1, <1>3 DEF AddDependency

LEMMA InstalledStep ==
  ASSUME IInv, Watch, NEW pr \in Projects, Installed(pr)
  PROVE  IInv'
<1> DEFINE j == job[pr]
           built == [Idle EXCEPT !.cmd = "compile", !.pc = "built"]
<1>1. UNCHANGED <<published, disk, counts>> /\ j.pc = "installed"
  BY DEF Installed, At
<1>2. PICK k \in {built, Idle} : Go(pr, k)
  BY DEF Installed
<1>3. k \in Job /\ k.pc \in {"built", "idle"} /\ k.cmd # "add"
  <2>1. Idle \in Job /\ Idle.pc = "idle" /\ Idle.cmd = "none"
    BY IdleIsJob DEF Idle
  <2>2. built \in Job /\ built.pc = "built" /\ built.cmd = "compile"
    BY <2>1 DEF Job
  <2> QED
    BY <2>1, <2>2
<1>4. j.cmd = "add" => j.asked \in Dependency
  BY DEF IInv, Local, JobOK, Depth
<1>5. /\ yaml' \in [Projects -> Seq(Dependency)]
      /\ \A q \in Projects : q # pr => yaml'[q] = yaml[q]
  BY <1>4, AddDependencyType DEF Installed, IInv, GlobalOK
<1>6. GlobalOK' /\ DiskOK'
  BY <1>1, <1>2, <1>5, GoTo DEF IInv, GlobalOK, DiskOK, counts
<1>7. ASSUME NEW q \in Projects, q # pr PROVE Local(q, job[q])'
  <2>1. job'[q] = job[q] /\ yaml'[q] = yaml[q] /\ disk' = disk
    BY <1>1, <1>2, <1>5, <1>7, GoTo DEF IInv
  <2> QED
    BY <2>1, Spectator DEF Own
<1>8. Local(pr, job[pr])'
  <2>1. job'[pr] = k
    BY <1>2, GoTo DEF IInv
  <2> HIDE DEF built
  <2> QED
    BY <1>3, <2>1 DEF Local, JobOK, Route, Knows, Depth, Arrived, InCache, Closing, Spared, Busy,
                      Syncing, Walking, Mid
<1> QED
  BY <1>6, <1>7, <1>8 DEF IInv

(* Where the package comes from.                                           *)
LEMMA ChooseStep ==
  ASSUME IInv, Watch, NEW pr \in Projects, Choose(pr)
  PROVE  IInv'
<1> DEFINE j == job[pr]
<1>1. UNCHANGED <<published, disk, yaml, counts>> /\ j.pc = "choose"
  BY DEF Choose, At
<1>2. Local(pr, j) /\ j \in Job /\ j.mode # "sync" /\ Busy(j)
  BY <1>1 DEF IInv, Local, JobOK, Route, Busy, Mid
<1>3. PICK m \in {"update", "cached", "direct"}, label \in {"fetch", "clone"} :
        /\ Go(pr, [j EXCEPT !.mode = m, !.pc = label])
        /\ m = "update" => IsRepo(Own(pr, j.dep.name)) /\ label = "fetch"
        /\ m = "direct" => label = "clone"
        /\ m = "cached" /\ label = "fetch" => IsRepo(disk[<<Cache, j.dep.name>>])
  BY CacheAssumption DEF Choose
<1> DEFINE k == [j EXCEPT !.mode = m, !.pc = label]
<1>4. k \in Job /\ k.pc = label /\ k.mode = m /\ SameWalk(j, k) /\ k.ok = j.ok
  BY <1>2 DEF Job, Mid, SameWalk
<1> HIDE DEF k
<1>5. JobOK(k)
  BY <1>1, <1>2, <1>3, <1>4
     DEF Local, JobOK, Route, Knows, Depth, Busy, Syncing, SameWalk, Mid
<1>6. Busy(k)
  BY <1>3, <1>4 DEF Busy, Mid
<1>7. Closing(pr, k)
  BY <1>2, <1>4, <1>5, <1>6, StillBusy DEF Local
<1>8. Arrived(pr, k) /\ Spared(pr, k)
  BY <1>3, <1>4 DEF Arrived, InCache, Spared, SameWalk
<1>9. Local(pr, k)
  BY <1>5, <1>7, <1>8 DEF Local
<1> QED
  BY <1>1, <1>3, <1>9, Still DEF counts, IInv, GlobalOK, k

--------------------------------------------------------------------------------
(***************************************************************************)
(* The steps that work on a directory.                                     *)
(***************************************************************************)
(* Whatever a step writes, it writes where the job at hand works.          *)
LEMMA WriteHere ==
  ASSUME DiskOK, NEW pr \in Projects, NEW j, j.dep \in Dependency,
         NEW d \in Dir \cup {None}, Write(Place(j, pr), d)
  PROVE  /\ DiskOK' /\ disk'[Place(j, pr)] = d
         /\ \A q \in Projects, n \in Packages :
              q # pr \/ n # j.dep.name \/ j.mode = "cached" => Own(q, n)' = Own(q, n)
         /\ disk'[<<IF j.mode = "cached" THEN Cache ELSE pr, j.dep.name>>] = d
         /\ \A n \in Packages :
              n # j.dep.name \/ j.mode # "cached" => disk'[<<Cache, n>>] = disk[<<Cache, n>>]
<1> DEFINE p == Place(j, pr)
<1>1. /\ p \in (Projects \cup {Cache}) \X Packages
      /\ p = <<IF j.mode = "cached" THEN Cache ELSE pr, j.dep.name>>
  BY DEF Place, Dependency
<1>2. j.dep.name \in Packages
  BY DEF Dependency
<1> HIDE DEF p
<1>3. disk' = [disk EXCEPT ![p] = d]
  BY DEF Write, p
<1>4. /\ disk' \in [(Projects \cup {Cache}) \X Packages -> Dir \cup {None}]
      /\ disk'[p] = d
      /\ \A q \in (Projects \cup {Cache}) \X Packages : q # p => disk'[q] = disk[q]
  BY <1>1, <1>3 DEF DiskOK
<1>5. ASSUME NEW q \in Projects, NEW n \in Packages,
             q # pr \/ n # j.dep.name \/ j.mode = "cached"
      PROVE  Own(q, n)' = Own(q, n)
  <2>1. <<q, n>> # p /\ <<q, n>> \in (Projects \cup {Cache}) \X Packages
    BY <1>1, <1>5, CacheAssumption
  <2> QED
    BY <1>4, <2>1 DEF Own
<1>6. disk'[<<IF j.mode = "cached" THEN Cache ELSE pr, j.dep.name>>] = d
  BY <1>1, <1>4
<1>7. ASSUME NEW n \in Packages, n # j.dep.name \/ j.mode # "cached"
      PROVE  disk'[<<Cache, n>>] = disk[<<Cache, n>>]
  <2>1. <<Cache, n>> # p /\ <<Cache, n>> \in (Projects \cup {Cache}) \X Packages
    BY <1>1, <1>7, CacheAssumption
  <2> QED
    BY <1>4, <2>1
<1> QED
  BY <1>4, <1>5, <1>6, <1>7 DEF DiskOK, p

(* Where the job at hand works.                                            *)
LEMMA HereType ==
  ASSUME DiskOK, NEW pr \in Projects, NEW j, j.dep \in Dependency
  PROVE  /\ Place(j, pr) \in (Projects \cup {Cache}) \X Packages
         /\ disk[Place(j, pr)] \in Dir \cup {None}
         /\ j.mode # "cached" => disk[Place(j, pr)] = Own(pr, j.dep.name)
         /\ j.mode = "cached" => disk[Place(j, pr)] = disk[<<Cache, j.dep.name>>]
         /\ j.dep.name \in Packages /\ j.dep.ref \in Refs
BY DEF DiskOK, Place, Own, Dependency

(* A step on the dependency at hand leaves the rest of the walk as it was. *)
LEMMA WorkStep ==
  ASSUME IInv, Watch, NEW pr \in Projects, NEW k, Go(pr, k), UNCHANGED <<published, yaml>>,
         commands' \in 0..MaxCommands, faults' \in 0..MaxFaults,
         DiskOK', job[pr].pc \in Mid, SameWalk(job[pr], k), JobOK(k), k.pc # "orphans",
         k.mode = "sync" <=> job[pr].mode = "sync",
         k.ok => job[pr].ok /\ (Busy(k) \/ k.mode = "sync"),
         \A q \in Projects, n \in Packages :
           q # pr \/ n # job[pr].dep.name => Own(q, n)' = Own(q, n),
         Arrived(pr, job[pr])'
  PROVE  IInv'
<1> DEFINE j == job[pr]
<1>1. /\ job'[pr] = k /\ DOMAIN job' = Projects /\ yaml' = yaml
      /\ \A q \in Projects : q # pr => job'[q] = job[q]
  BY GoTo DEF IInv
<1>2. GlobalOK'
  BY <1>1 DEF IInv, GlobalOK
<1>3. ASSUME NEW q \in Projects, q # pr PROVE Local(q, job[q])'
  BY <1>1, <1>3, Spectator
<1>4. Local(pr, j)
  BY DEF IInv
<1>5. Closing(pr, job[pr])'
  <2> SUFFICES ASSUME k.ok, Walking(k) PROVE Closing(pr, job[pr])'
    BY <1>1 DEF Closing
  <2>1. Busy(k) /\ Busy(j) /\ j.ok
    BY DEF Walking, Busy, JobOK, Route
  <2>2. Seen(k) = Seen(j) /\ Pending(k) = Pending(j) /\ k.cmd = j.cmd /\ k.dep = j.dep
    BY DEF SameWalk, Seen, Pending
  <2>3. /\ j.cmd # "add" => Names(yaml[pr]) \subseteq Seen(j) \cup Pending(j)
        /\ \A n \in Seen(j) : n # j.dep.name =>
             /\ n \notin raced[pr] => IsRepo(Own(pr, n))
             /\ Names(DepsIn(Own(pr, n), n)) \subseteq Seen(j) \cup Pending(j)
    BY <1>4, <2>1 DEF Local, Closing, Walking
  <2>4. \A n \in Seen(j) : n # j.dep.name => Own(pr, n)' = Own(pr, n)
    BY DEF Seen
  <2>5. job'[pr] = k /\ raced[pr] \subseteq raced'[pr]
    BY <1>1, <2>1, Watched DEF Busy, Mid
  <2> QED
    BY <1>1, <2>1, <2>2, <2>3, <2>4, <2>5 DEF Closing
<1>6. Local(pr, job[pr])'
  BY <1>1, <1>5 DEF Local, Spared
<1> QED
  BY <1>2, <1>3, <1>6 DEF IInv

(* Where a job goes once its directory has every commit it will get.       *)
LEMMA FetchedWalk ==
  ASSUME NEW j \in Job, Route(j), Depth(j), j.dep \in Dependency, j.pc \in {"fetch", "files"},
         j.visited[j.dep.name] = j.dep.ref, j.mode # "sync", NEW git
  PROVE  LET k == Fetched(j, git)
         IN  /\ JobOK(k) /\ SameWalk(j, k) /\ k.mode = j.mode /\ k.ok = j.ok /\ Busy(k)
             /\ k.pc = IF j.dep.ref # NoRef THEN "tree"
                       ELSE IF j.mode = "update" THEN "descend"
                       ELSE IF j.mode = "cached" THEN "copy" ELSE "script"
             /\ k.todo = IF j.mode = "cached" THEN Parts ELSE {}
<1> DEFINE label == IF j.dep.ref # NoRef THEN "tree"
                    ELSE IF j.mode = "update" THEN "descend"
                    ELSE IF j.mode = "cached" THEN "copy" ELSE "script"
           left == IF j.mode = "cached" THEN Parts ELSE {}
           k == [j EXCEPT !.todo = left, !.pc = label]
<1>1. j.mode \in {"update", "cached", "direct"}
  BY DEF Route, Job
<1>2. Fetched(j, git) = k
  <2> DEFINE done == [update |-> "descend", cached |-> "copy", direct |-> "script"][j.mode]
             last == IF j.dep.ref = NoRef THEN done ELSE "tree"
  <2>1. Fetched(j, git) = [[j EXCEPT !.todo = left] EXCEPT !.pc = last]
    BY DEF Fetched, Parts
  <2>2. done = IF j.mode = "update" THEN "descend"
               ELSE IF j.mode = "cached" THEN "copy" ELSE "script"
    <3>1. CASE j.mode = "update"
      BY <3>1
    <3>2. CASE j.mode = "cached"
      BY <3>2
    <3>3. CASE j.mode = "direct"
      BY <3>3
    <3> QED
      BY <1>1, <3>1, <3>2, <3>3
  <2> HIDE DEF done
  <2>3. last = label
    BY <2>2
  <2> HIDE DEF last, label, left
  <2> QED
    BY <2>1, <2>3
<1>3. label \in {"tree", "descend", "copy", "script"} /\ left \subseteq Parts
  OBVIOUS
<1>4. /\ label \in {"tree"} => j.dep.ref # NoRef
      /\ label = "copy" => j.mode = "cached" /\ left = Parts
      /\ j.mode = "cached" => left = Parts
  BY <1>1
<1>5. /\ k \in Job /\ SameWalk(j, k) /\ k.mode = j.mode /\ k.ok = j.ok /\ k.pc = label
      /\ k.todo = left
  BY <1>3 DEF Job, SameWalk, Mid
<1>6. label = IF j.dep.ref # NoRef THEN "tree"
              ELSE IF j.mode = "update" THEN "descend"
              ELSE IF j.mode = "cached" THEN "copy" ELSE "script"
  OBVIOUS
<1>7. left = IF j.mode = "cached" THEN Parts ELSE {}
  OBVIOUS
<1> HIDE DEF k, label, left
<1>8. JobOK(k) /\ Busy(k)
  <2>1. "git" \in Parts
    BY DEF Parts
  <2> QED
    BY <1>1, <1>3, <1>4, <1>5, <2>1
       DEF JobOK, Route, Knows, Depth, Busy, Syncing, SameWalk, Mid
<1> QED
  BY <1>2, <1>5, <1>6, <1>7, <1>8

(* A sync that has fetched checks out, or is content.                      *)
LEMMA FetchedSync ==
  ASSUME NEW j, JobOK(j), j.pc = "fetch", j.mode = "sync", NEW git \in Git
  PROVE  LET k == Fetched(j, git)
         IN  /\ JobOK(k) /\ SameWalk(j, k) /\ k.mode = "sync" /\ (k.ok => j.ok)
             /\ k.pc \in {"check", "tree"}
             /\ k.ok /\ k.pc = "check" => git.head = Resolve(git, j.dep.ref)
<1> DEFINE k == Fetched(j, git)
<1>1. PICK label \in {"check", "tree"}, done \in BOOLEAN :
        /\ k = [j EXCEPT !.pc = label, !.ok = done]
        /\ done => j.ok
        /\ done /\ label = "check" => git.head = Resolve(git, j.dep.ref)
  <2>1. j \in Job /\ j.ok \in BOOLEAN
    BY DEF JobOK, Job
  <2>2. j = [j EXCEPT !.ok = j.ok] /\ \A l : [j EXCEPT !.pc = l] = [j EXCEPT !.pc = l, !.ok = j.ok]
    BY <2>1 DEF Job
  <2>3. CASE Resolve(git, j.dep.ref) = 0
    BY <2>1, <2>3 DEF Fetched, Failed
  <2>4. CASE Resolve(git, j.dep.ref) # 0
    BY <2>1, <2>2, <2>4 DEF Fetched
  <2> QED
    BY <2>3, <2>4
<1> HIDE DEF k
<1>2. /\ k \in Job /\ SameWalk(j, k) /\ k.mode = "sync" /\ k.pc = label /\ (k.ok => j.ok)
      /\ k.todo = j.todo
      /\ k.ok /\ k.pc = "check" => git.head = Resolve(git, j.dep.ref)
  BY <1>1 DEF JobOK, Job, SameWalk, Mid
<1>3. JobOK(k)
  BY <1>2 DEF JobOK, Route, Knows, Depth, Busy, Syncing, SameWalk, Mid
<1> QED
  BY <1>2, <1>3 DEF k

(* A directory keeps its branches and HEAD when it gets new commits.       *)
LEMMA FetchStep ==
  ASSUME IInv, Watch, NEW pr \in Projects, Fetch(pr)
  PROVE  IInv'
<1> DEFINE j == job[pr]
           place == Place(j, pr)
           git == [disk[place].git EXCEPT !.fetched = published[j.dep.name]]
           d == [disk[place] EXCEPT !.git = git]
           k == Fetched(j, git)
<1>1. /\ UNCHANGED <<published, yaml, counts>> /\ j.pc = "fetch"
      /\ IsRepo(disk[place]) /\ Write(place, d) /\ Go(pr, k)
  BY DEF Fetch, At
<1>2. /\ JobOK(j) /\ j \in Job /\ j.dep \in Dependency /\ j.pc \in Mid /\ Arrived(pr, j)
      /\ j.dep.name \in Packages
  BY <1>1 DEF IInv, Local, JobOK, Knows, Mid, Dependency
<1>3. disk[place] \in Dir /\ disk[place].git \in Git
  BY <1>1, <1>2, HereType, RepoType DEF IInv
<1>4. published[j.dep.name] \in 0..MaxVersion
  BY <1>2, VersionAssumption DEF IInv, GlobalOK, Versions
<1>5. git \in Git
  BY <1>3, <1>4 DEF Git
<1>6. d \in Dir /\ d.git = git /\ git # None /\ d # None
  BY <1>3, <1>5, NoneAssumption DEF Dir
<1> HIDE DEF git, d
<1>7. /\ DiskOK'
      /\ \A q \in Projects, n \in Packages : q # pr \/ n # j.dep.name => Own(q, n)' = Own(q, n)
      /\ j.mode # "cached" => disk'[<<pr, j.dep.name>>] = d
      /\ j.mode = "cached" => disk'[<<Cache, j.dep.name>>] = d
  BY <1>1, <1>2, <1>6, WriteHere DEF IInv
<1>8. /\ SameWalk(j, k) /\ JobOK(k) /\ k.pc # "orphans" /\ (k.mode = "sync" <=> j.mode = "sync")
      /\ k.ok => j.ok /\ (Busy(k) \/ k.mode = "sync")
      /\ k.mode = j.mode /\ (j.mode = "cached" => (k.pc = "copy" /\ k.todo = Parts) \/ k.pc = "tree")
      /\ k.pc \in {"check", "tree", "copy", "script", "descend"}
  <2>1. CASE j.mode = "sync"
    BY <1>1, <1>2, <1>5, <2>1, FetchedSync
  <2>2. CASE j.mode # "sync"
    BY <1>1, <1>2, <2>2, FetchedWalk DEF JobOK, Knows, Busy
  <2> QED
    BY <2>1, <2>2
<1>9. job'[pr] = k
  BY <1>1, GoTo DEF IInv
<1> HIDE DEF k
<1>10. Arrived(pr, job[pr])'
  <2>1. k.dep = j.dep
    BY <1>8 DEF SameWalk
  <2>2. CASE j.mode # "cached"
    BY <1>6, <1>7, <1>8, <1>9, <2>1, <2>2 DEF Arrived, InCache, IsRepo, Own
  <2>3. CASE j.mode = "cached"
    BY <1>6, <1>7, <1>8, <1>9, <2>1, <2>3 DEF Arrived, InCache, IsRepo, Parts
  <2> QED
    BY <2>2, <2>3
<1> QED
  BY <1>1, <1>2, <1>7, <1>8, <1>10, WorkStep DEF k, counts, IInv, GlobalOK

LEMMA FetchFailsStep ==
  ASSUME IInv, Watch, NEW pr \in Projects, FetchFails(pr)
  PROVE  IInv'
<1> DEFINE j == job[pr]
<1>1. UNCHANGED <<published, disk, yaml, counts>> /\ j.pc = "fetch"
  BY DEF FetchFails, At
<1>2. Local(pr, j) /\ JobOK(j) /\ j \in Job /\ j.dep \in Dependency /\ j.pc \in Mid
  BY <1>1 DEF IInv, Local, JobOK, Knows, Mid
<1>3. j.mode \in {"sync", "update", "cached"}
  BY <1>1, <1>2 DEF JobOK, Route, Job
<1>4. Local(pr, Failed(j))
  BY <1>2, FailedLocal
<1>5. CASE j.mode = "cached"
  <2> DEFINE k == Fetched(j, Bare)
  <2>1. Go(pr, k)
    BY <1>5 DEF FetchFails
  <2>2. /\ JobOK(k) /\ SameWalk(j, k) /\ k.mode = j.mode /\ k.ok = j.ok /\ Busy(k)
        /\ k.pc \in {"tree", "copy"} /\ k.todo = Parts
    BY <1>1, <1>2, <1>5, FetchedWalk DEF JobOK, Knows, Busy
  <2> HIDE DEF k
  <2>3. Busy(j)
    BY <1>2, <1>5 DEF Busy
  <2>4. Local(pr, k)
    <3>1. k.dep = j.dep /\ Closing(pr, k)
      BY <1>2, <2>2, <2>3, StillBusy DEF Local, SameWalk
    <3>2. Arrived(pr, k)
      BY <1>1, <1>2, <1>5, <2>2, <3>1 DEF Local, Arrived, InCache, Parts
    <3> QED
      BY <2>2, <3>1, <3>2 DEF Local, Spared
  <2> QED
    BY <1>1, <2>1, <2>4, Still DEF counts, IInv, GlobalOK
<1>6. CASE j.mode = "update"
  <2>1. Go(pr, Failed(j))
    BY <1>6 DEF FetchFails
  <2> QED
    BY <1>1, <1>4, <2>1, Still DEF counts, IInv, GlobalOK
<1>7. CASE j.mode = "sync"
  <2> DEFINE k == [j EXCEPT !.pc = "check"]
  <2>1. Go(pr, k) \/ Go(pr, Failed(j))
    BY <1>7 DEF FetchFails
  <2>2. k \in Job /\ SameWalk(j, k) /\ k.mode = "sync" /\ k.ok = j.ok /\ k.pc = "check"
    BY <1>2, <1>7 DEF Job, SameWalk
  <2> HIDE DEF k
  <2>3. JobOK(k)
    BY <1>1, <1>2, <1>7, <2>2 DEF JobOK, Route, Knows, Depth, Busy, Syncing, SameWalk, Mid
  <2>4. Local(pr, k)
    BY <2>2, <2>3 DEF Local, Arrived, InCache, Closing, Spared, Walking, Busy, Mid
  <2> QED
    BY <1>1, <1>4, <2>1, <2>4, Still DEF counts, IInv, GlobalOK
<1> QED
  BY <1>3, <1>5, <1>6, <1>7

(* The files of the ref are written, then HEAD.                            *)
LEMMA CheckoutTreeStep ==
  ASSUME IInv, Watch, NEW pr \in Projects, CheckoutTree(pr)
  PROVE  IInv'
<1> DEFINE j == job[pr]
           place == Place(j, pr)
           target == Resolve(disk[place].git, j.dep.ref)
           d == [disk[place] EXCEPT !.tree = target]
           k == [j EXCEPT !.pc = "head", !.target = target]
<1>1. /\ UNCHANGED <<published, yaml, counts>> /\ j.pc = "tree"
      /\ IsRepo(disk[place]) /\ target # 0 /\ Write(place, d) /\ Go(pr, k)
  BY DEF CheckoutTree, At
<1>2. /\ JobOK(j) /\ j \in Job /\ j.dep \in Dependency /\ j.pc \in Mid /\ j.dep.ref # NoRef
      /\ j.dep.name \in Packages /\ j.dep.ref \in Refs
  BY <1>1 DEF IInv, Local, JobOK, Knows, Mid, Dependency
<1>3. disk[place] \in Dir /\ disk[place].git \in Git
  BY <1>1, <1>2, HereType, RepoType DEF IInv
<1>4. target \in 0..MaxVersion /\ (j.dep.ref \in Versions => target \in {0, j.dep.ref})
  BY <1>2, <1>3, ResolveType
<1>5. d \in Dir /\ d.git = disk[place].git /\ d.git # None /\ d # None
  BY <1>3, <1>4, NoneAssumption DEF Dir
<1>6. target \in Versions /\ (j.dep.ref \in Versions => target = j.dep.ref)
  BY <1>1, <1>4, VersionAssumption DEF Versions
<1> HIDE DEF target, d
<1>7. /\ DiskOK'
      /\ \A q \in Projects, n \in Packages : q # pr \/ n # j.dep.name => Own(q, n)' = Own(q, n)
      /\ j.mode # "cached" => disk'[<<pr, j.dep.name>>] = d
      /\ j.mode = "cached" => disk'[<<Cache, j.dep.name>>] = d
  BY <1>1, <1>2, <1>5, WriteHere DEF IInv
<1>8. /\ k \in Job /\ SameWalk(j, k) /\ k.pc = "head" /\ k.mode = j.mode /\ k.ok = j.ok
      /\ k.target = target /\ k.todo = j.todo
  BY <1>2, <1>4 DEF Job, SameWalk, Mid
<1>9. job'[pr] = k
  BY <1>1, GoTo DEF IInv
<1> HIDE DEF k
<1>10. JobOK(k)
  BY <1>1, <1>2, <1>6, <1>8 DEF JobOK, Route, Knows, Depth, Busy, Syncing, SameWalk, Mid
<1>11. Arrived(pr, job[pr])'
  BY <1>5, <1>7, <1>8, <1>9 DEF Arrived, InCache, IsRepo, Own, SameWalk
<1>12. k.ok => j.ok /\ (Busy(k) \/ k.mode = "sync")
  BY <1>8 DEF Busy, Mid
<1> QED
  BY <1>1, <1>2, <1>7, <1>8, <1>10, <1>11, <1>12, WorkStep DEF k, counts, IInv, GlobalOK

(* Whichever of the calls that move HEAD succeed, .git keeps its commits.  *)
LEMMA HeadsType ==
  ASSUME NEW git \in Git, NEW r \in Refs \ {NoRef}, NEW t \in Versions,
         r # Main => t = r, NEW g \in HeadsAfter(git, r, t)
  PROVE  g \in Git /\ g.fetched = git.fetched
<1>1. t \in 0..MaxVersion /\ git.main \in 0..MaxVersion /\ git.head \in 0..MaxVersion
      /\ t \in Refs \ {NoRef} /\ Main \in Refs \ {NoRef}
  BY VersionAssumption, RefAssumption DEF Versions, Git, Refs
<1>2. \A at \in 0..MaxVersion : /\ Switched(git, at) \in Git /\ Advanced(git, at) \in Git
                                /\ Switched(git, at).fetched = git.fetched
                                /\ Advanced(git, at).fetched = git.fetched
  BY <1>1 DEF Switched, Advanced, Git
<1>4. CASE r = Main
  <2>1. \/ \E at \in 0..MaxVersion : g \in {Switched(git, at), Advanced(git, at)}
        \/ g = [git EXCEPT !.ref = t, !.head = t]
    BY <1>1, <1>4 DEF HeadsAfter
  <2>2. CASE g = [git EXCEPT !.ref = t, !.head = t]
    BY <1>1, <2>2 DEF Git
  <2> QED
    BY <1>2, <2>1, <2>2
<1>5. CASE r # Main
  <2>1. g = git \/ g = [git EXCEPT !.ref = r, !.head = t]
    BY <1>5 DEF HeadsAfter
  <2>2. CASE g = [git EXCEPT !.ref = r, !.head = t]
    BY <1>1, <2>2 DEF Git
  <2> QED
    BY <2>1, <2>2
<1> QED
  BY <1>4, <1>5

(* A checkout leaves the repository one, its files as they are and HEAD at *)
(* the target, or at least knows that it is not.                           *)
HeadLeft(place, d, t) ==
  /\ IsRepo(disk[place]) => /\ IsRepo(d) /\ d \in Dir /\ d.git \in Git
                            /\ d.tree = disk[place].tree
                            /\ d.git.fetched = disk[place].git.fetched
  /\ ~IsRepo(disk[place]) => d = disk[place]

LEMMA CheckoutHeadOutcome ==
  ASSUME IInv, NEW pr \in Projects, CheckoutHead(pr)
  PROVE  \E d \in Dir \cup {None}, k \in Job :
           LET j == job[pr]
           IN  /\ Write(Place(j, pr), d) /\ Go(pr, k) /\ HeadLeft(Place(j, pr), d, j.target)
               /\ SameWalk(j, k) /\ k.mode = j.mode /\ k.ok = j.ok /\ k.todo = j.todo
               /\ j.mode = "sync" => k.pc = "check"
               /\ j.mode = "update" => k.pc = "descend"
               /\ j.mode = "cached" => k.pc = "copy"
               /\ j.mode = "direct" => k.pc = "script"
               /\ j.dep.name \notin k.unmoved =>
                    IsRepo(disk[Place(j, pr)]) /\ d.git.head = j.target
               /\ k.unmoved \subseteq j.unmoved \cup {j.dep.name}
<1> DEFINE j == job[pr]
           place == Place(j, pr)
           a == AfterCheckout(j)
           left == [a EXCEPT !.unmoved = @ \cup {j.dep.name}]
<1>1. j.pc = "head"
  BY DEF CheckoutHead, At
<1>2. /\ j \in Job /\ j.dep \in Dependency /\ j.dep.name \in Packages
      /\ j.dep.ref \in Refs \ {NoRef} /\ j.target \in Versions
      /\ j.dep.ref # Main => j.target = j.dep.ref
      /\ j.mode \in {"sync", "update", "cached", "direct"}
  BY <1>1 DEF IInv, Local, JobOK, Route, Knows, Mid, Dependency, Job, Refs
<1>3. disk[place] \in Dir \cup {None} /\ place \in (Projects \cup {Cache}) \X Packages
  BY <1>2, HereType DEF IInv
<1> DEFINE label == [sync |-> "check", update |-> "descend", cached |-> "copy",
                     direct |-> "script"][j.mode]
<1>4. /\ label \in {"check", "descend", "copy", "script"}
      /\ j.mode = "sync" => label = "check"
      /\ j.mode = "update" => label = "descend"
      /\ j.mode = "cached" => label = "copy"
      /\ j.mode = "direct" => label = "script"
  BY <1>2
<1>5. a = [j EXCEPT !.pc = label, !.target = 0]
  BY DEF AfterCheckout
<1> HIDE DEF label
<1>6. 0 \in 0..MaxVersion
  BY VersionAssumption
<1>7. /\ a \in Job /\ SameWalk(j, a) /\ a.mode = j.mode /\ a.ok = j.ok /\ a.todo = j.todo
      /\ a.pc = label /\ a.unmoved = j.unmoved
  BY <1>2, <1>4, <1>5, <1>6 DEF Job, SameWalk, Mid
<1> HIDE DEF a
<1>8. /\ left \in Job /\ SameWalk(j, left) /\ left.mode = j.mode /\ left.ok = j.ok
      /\ left.todo = j.todo /\ left.pc = label /\ left.unmoved = j.unmoved \cup {j.dep.name}
  BY <1>2, <1>7 DEF Job, SameWalk
<1>9. ASSUME IsRepo(disk[place]),
             NEW git \in HeadsAfter(disk[place].git, j.dep.ref, j.target),
             Write(place, [disk[place] EXCEPT !.git = git]),
             NEW k, j.dep.name \notin k.unmoved => git.head = j.target
      PROVE  \E d \in Dir \cup {None} :
               /\ Write(place, d) /\ HeadLeft(place, d, j.target)
               /\ j.dep.name \notin k.unmoved => d.git.head = j.target
  <2>1. disk[place] \in Dir /\ disk[place].git \in Git
    BY <1>3, <1>9, RepoType
  <2>2. git \in Git /\ git.fetched = disk[place].git.fetched
    BY <1>2, <1>9, <2>1, HeadsType
  <2> DEFINE d == [disk[place] EXCEPT !.git = git]
  <2>3. d \in Dir /\ d.git = git /\ d.tree = disk[place].tree /\ d # None /\ git # None
    BY <2>1, <2>2, NoneAssumption DEF Dir
  <2> HIDE DEF d, place
  <2>5. HeadLeft(place, d, j.target)
    BY <1>9, <2>2, <2>3 DEF HeadLeft, IsRepo
  <2>6. Write(place, d)
    BY <1>9 DEF d
  <2> QED
    BY <1>9, <2>3, <2>5, <2>6
<1>10. CASE IsRepo(disk[place])
  <2>1. PICK git \in HeadsAfter(disk[place].git, j.dep.ref, j.target), k \in {a, left} :
          /\ Write(place, [disk[place] EXCEPT !.git = git])
          /\ Go(pr, k) /\ (j.dep.name \notin k.unmoved => git.head = j.target)
    <3>1. a.dep = j.dep /\ a = AfterCheckout(j)
      BY <1>7 DEF SameWalk, a
    <3>2. PICK git \in HeadsAfter(disk[place].git, j.dep.ref, j.target) :
            /\ Write(place, [disk[place] EXCEPT !.git = git])
            /\ \/ Go(pr, a) /\ git.head = j.target
               \/ Go(pr, left)
      BY <1>10, <3>1 DEF CheckoutHead
    <3>3. j.dep.name \in left.unmoved
      BY <1>8
    <3> HIDE DEF left
    <3> QED
      BY <3>2, <3>3
  <2>2. PICK d \in Dir \cup {None} :
               /\ Write(place, d) /\ HeadLeft(place, d, j.target)
               /\ j.dep.name \notin k.unmoved => d.git.head = j.target
    BY <1>9, <1>10, <2>1
  <2>3. /\ k \in Job /\ SameWalk(j, k) /\ k.mode = j.mode /\ k.ok = j.ok /\ k.todo = j.todo
        /\ k.pc = label /\ k.unmoved \subseteq j.unmoved \cup {j.dep.name}
    BY <1>7, <1>8, <2>1
  <2> HIDE DEF left
  <2> QED
    BY <1>4, <1>10, <2>1, <2>2, <2>3
<1>11. CASE ~IsRepo(disk[place])
  <2>1. Go(pr, left) /\ disk' = disk
    <3>1. a.dep = j.dep /\ a = AfterCheckout(j)
      BY <1>7 DEF SameWalk, a
    <3> QED
      BY <1>11, <3>1 DEF CheckoutHead
  <2>2. Write(place, disk[place])
    BY <1>3, <2>1 DEF Write, IInv, DiskOK
  <2>3. HeadLeft(place, disk[place], j.target)
    BY <1>11 DEF HeadLeft
  <2> HIDE DEF left
  <2> QED
    BY <1>3, <1>4, <1>8, <2>1, <2>2, <2>3
<1> QED
  BY <1>10, <1>11

LEMMA CheckoutHeadStep ==
  ASSUME IInv, Watch, NEW pr \in Projects, CheckoutHead(pr)
  PROVE  IInv'
<1> DEFINE j == job[pr]
           place == Place(j, pr)
<1>1. /\ UNCHANGED <<published, yaml, commands>> /\ j.pc = "head"
      /\ faults' \in 0..MaxFaults
  <2>1. /\ UNCHANGED <<published, yaml, commands>> /\ j.pc = "head"
        /\ faults' = faults \/ (faults < MaxFaults /\ faults' = faults + 1)
    BY DEF CheckoutHead, At
  <2> QED
    BY <2>1, BoundAssumption DEF IInv, GlobalOK
<1>2. /\ JobOK(j) /\ j \in Job /\ j.dep \in Dependency /\ j.pc \in Mid
      /\ j.dep.name \in Packages /\ Arrived(pr, j)
      /\ j.mode \in {"sync", "update", "cached", "direct"}
      /\ j.mode = "cached" => j.todo = Parts
  BY <1>1 DEF IInv, Local, JobOK, Route, Knows, Mid, Dependency, Job
<1>3. PICK d \in Dir \cup {None}, k \in Job :
        /\ Write(place, d) /\ Go(pr, k) /\ HeadLeft(place, d, j.target)
        /\ SameWalk(j, k) /\ k.mode = j.mode /\ k.ok = j.ok /\ k.todo = j.todo
        /\ j.mode = "sync" => k.pc = "check"
        /\ j.mode = "update" => k.pc = "descend"
        /\ j.mode = "cached" => k.pc = "copy"
        /\ j.mode = "direct" => k.pc = "script"
  BY CheckoutHeadOutcome
<1>4. IsRepo(disk[place]) => IsRepo(d)
  BY <1>3 DEF HeadLeft
<1>5. /\ DiskOK'
      /\ \A q \in Projects, n \in Packages : q # pr \/ n # j.dep.name => Own(q, n)' = Own(q, n)
      /\ j.mode # "cached" => disk'[<<pr, j.dep.name>>] = d
      /\ j.mode = "cached" => disk'[<<Cache, j.dep.name>>] = d
  BY <1>2, <1>3, WriteHere DEF IInv
<1>6. job'[pr] = k
  BY <1>3, GoTo DEF IInv
<1>7. JobOK(k) /\ k.pc # "orphans" /\ (k.ok => j.ok /\ (Busy(k) \/ k.mode = "sync"))
  BY <1>1, <1>2, <1>3
     DEF JobOK, Route, Knows, Depth, Busy, Syncing, SameWalk, Mid, Parts
<1>8. Arrived(pr, job[pr])'
  <2>1. j.mode \in {"update", "direct"} => IsRepo(d)
    BY <1>1, <1>2, <1>4, HereType DEF Arrived, InCache, IInv
  <2>2. k.dep = j.dep /\ (j.mode = "cached" => k.todo = Parts)
    BY <1>2, <1>3 DEF SameWalk
  <2>3. j.mode = "cached" /\ j.dep.name \notin raced'[pr] => IsRepo(d)
    <3>1. raced[pr] \subseteq raced'[pr] \/ k.pc = "idle"
      BY <1>6, Watched
    <3>2. k.pc # "idle"
      BY <1>2, <1>3
    <3> QED
      BY <1>1, <1>2, <1>4, <3>1, <3>2, HereType DEF Arrived, InCache, IInv
  <2> QED
    BY <1>2, <1>3, <1>5, <1>6, <2>1, <2>2, <2>3 DEF Arrived, InCache, Own, Parts, IsRepo
<1> QED
  BY <1>1, <1>2, <1>3, <1>5, <1>7, <1>8, WorkStep DEF IInv, GlobalOK

LEMMA CloneInitStep ==
  ASSUME IInv, Watch, NEW pr \in Projects, CloneInit(pr)
  PROVE  IInv'
<1> DEFINE j == job[pr]
           d == [EmptyDir EXCEPT !.git = Bare]
           k == [j EXCEPT !.pc = "transfer"]
<1>1. /\ UNCHANGED <<published, yaml, counts>> /\ j.pc = "clone"
      /\ Write(Place(j, pr), d) /\ Go(pr, k)
  BY DEF CloneInit, At
<1>2. /\ JobOK(j) /\ j \in Job /\ j.dep \in Dependency /\ j.pc \in Mid
      /\ j.mode \in {"cached", "direct"}
  BY <1>1 DEF IInv, Local, JobOK, Route, Knows, Mid
<1>3. d \in Dir /\ IsRepo(d)
  <2>1. 0 \in 0..MaxVersion /\ Main \in Refs \ {NoRef}
    BY VersionAssumption, RefAssumption DEF Refs
  <2>2. Bare \in Git
    BY <2>1 DEF Bare, Git
  <2>3. EmptyDir \in Dir
    BY <2>1 DEF EmptyDir, Dir
  <2> QED
    BY <2>2, <2>3, NoneAssumption DEF Dir, IsRepo
<1> HIDE DEF d
<1>4. /\ DiskOK'
      /\ \A q \in Projects, n \in Packages : q # pr \/ n # j.dep.name => Own(q, n)' = Own(q, n)
      /\ j.mode # "cached" => disk'[<<pr, j.dep.name>>] = d
      /\ j.mode = "cached" => disk'[<<Cache, j.dep.name>>] = d
  BY <1>1, <1>2, <1>3, WriteHere DEF IInv
<1>5. /\ k \in Job /\ SameWalk(j, k) /\ k.pc = "transfer" /\ k.mode = j.mode /\ k.ok = j.ok
  BY <1>2 DEF Job, SameWalk, Mid
<1>6. job'[pr] = k
  BY <1>1, GoTo DEF IInv
<1> HIDE DEF k
<1>7. JobOK(k) /\ (k.ok => j.ok /\ (Busy(k) \/ k.mode = "sync"))
  BY <1>1, <1>2, <1>5 DEF JobOK, Route, Knows, Depth, Busy, Syncing, SameWalk, Mid
<1>8. Arrived(pr, job[pr])'
  BY <1>2, <1>3, <1>4, <1>5, <1>6 DEF Arrived, InCache, IsRepo, SameWalk
<1> QED
  BY <1>1, <1>2, <1>4, <1>5, <1>7, <1>8, WorkStep DEF k, counts, IInv, GlobalOK

LEMMA CloneTransferStep ==
  ASSUME IInv, Watch, NEW pr \in Projects, CloneTransfer(pr)
  PROVE  IInv'
<1> DEFINE j == job[pr]
           place == Place(j, pr)
           v == published[j.dep.name]
           git == [Bare EXCEPT !.fetched = v, !.main = v, !.head = v]
           d == [disk[place] EXCEPT !.git = git]
           k == [j EXCEPT !.pc = "files", !.target = v]
<1>1. /\ UNCHANGED <<published, yaml, counts>> /\ j.pc = "transfer"
      /\ IsRepo(disk[place]) /\ Write(place, d) /\ Go(pr, k)
  BY DEF CloneTransfer, At
<1>2. /\ JobOK(j) /\ j \in Job /\ j.dep \in Dependency /\ j.pc \in Mid
      /\ j.mode \in {"cached", "direct"} /\ j.dep.name \in Packages
  BY <1>1 DEF IInv, Local, JobOK, Route, Knows, Mid, Dependency
<1>3. v \in Versions /\ v \in 0..MaxVersion
  BY <1>2, VersionAssumption DEF IInv, GlobalOK, Versions
<1> HIDE DEF v
<1>4. disk[place] \in Dir
  BY <1>1, <1>2, HereType, RepoType DEF IInv
<1>5. git \in Git
  BY <1>3, VersionAssumption, RefAssumption DEF Git, Refs, Bare
<1>6. d \in Dir /\ IsRepo(d)
  BY <1>4, <1>5, NoneAssumption DEF Dir, IsRepo
<1> HIDE DEF d
<1>7. /\ DiskOK'
      /\ \A q \in Projects, n \in Packages : q # pr \/ n # j.dep.name => Own(q, n)' = Own(q, n)
      /\ j.mode # "cached" => disk'[<<pr, j.dep.name>>] = d
      /\ j.mode = "cached" => disk'[<<Cache, j.dep.name>>] = d
  BY <1>1, <1>2, <1>6, WriteHere DEF IInv
<1>8. /\ k \in Job /\ SameWalk(j, k) /\ k.pc = "files" /\ k.mode = j.mode /\ k.ok = j.ok
      /\ k.target = v
  BY <1>2, <1>3 DEF Job, SameWalk, Mid
<1>9. job'[pr] = k
  BY <1>1, GoTo DEF IInv
<1> HIDE DEF k
<1>10. JobOK(k) /\ (k.ok => j.ok /\ (Busy(k) \/ k.mode = "sync"))
  BY <1>1, <1>2, <1>3, <1>8 DEF JobOK, Route, Knows, Depth, Busy, Syncing, SameWalk, Mid
<1>11. Arrived(pr, job[pr])'
  BY <1>2, <1>6, <1>7, <1>8, <1>9 DEF Arrived, InCache, IsRepo, SameWalk
<1> QED
  BY <1>1, <1>2, <1>7, <1>8, <1>10, <1>11, WorkStep DEF k, counts, IInv, GlobalOK

(* A clone that fails removes what it made.                                *)
LEMMA CloneFailsStep ==
  ASSUME IInv, Watch, NEW pr \in Projects, CloneFails(pr)
  PROVE  IInv'
<1> DEFINE j == job[pr]
           k == Failed(j)
<1>1. /\ UNCHANGED <<published, yaml, counts>> /\ j.pc \in {"transfer", "files"}
      /\ Write(Place(j, pr), None) /\ Go(pr, k)
  BY DEF CloneFails, At
<1>2. /\ Local(pr, j) /\ JobOK(j) /\ j \in Job /\ j.dep \in Dependency /\ j.pc \in Mid
      /\ j.mode \in {"cached", "direct"}
  BY <1>1 DEF IInv, Local, JobOK, Route, Knows, Mid
<1>3. /\ DiskOK'
      /\ \A q \in Projects, n \in Packages : q # pr \/ n # j.dep.name => Own(q, n)' = Own(q, n)
  <2>1. PICK d \in Dir \cup {None} : d = None
    OBVIOUS
  <2>2. Write(Place(j, pr), d)
    BY <1>1, <2>1
  <2>3. /\ DiskOK' /\ disk'[Place(j, pr)] = d
        /\ \A q \in Projects, n \in Packages :
             q # pr \/ n # j.dep.name \/ j.mode = "cached" => Own(q, n)' = Own(q, n)
    BY <1>2, <2>2, WriteHere DEF IInv
  <2> QED
    BY <2>3
<1>4. JobOK(k) /\ ~k.ok
  BY <1>2, FailedLocal DEF Local
<1>5. SameWalk(j, k) /\ k.mode = j.mode /\ k.pc \in {"next", "stop"}
  BY <1>2 DEF Failed, Job, SameWalk
<1>6. job'[pr] = k
  BY <1>1, GoTo DEF IInv
<1> HIDE DEF k
<1>7. Arrived(pr, job[pr])'
  BY <1>5, <1>6 DEF Arrived, InCache
<1> QED
  BY <1>1, <1>2, <1>3, <1>4, <1>5, <1>7, WorkStep DEF k, counts, IInv, GlobalOK

LEMMA CloneFilesStep ==
  ASSUME IInv, Watch, NEW pr \in Projects, CloneFiles(pr)
  PROVE  IInv'
<1> DEFINE j == job[pr]
           place == Place(j, pr)
           d == [disk[place] EXCEPT !.tree = j.target]
           i == [j EXCEPT !.target = 0]
           k == Fetched(i, Bare)
<1>1. /\ UNCHANGED <<published, yaml, counts>> /\ j.pc = "files"
      /\ IsRepo(disk[place]) /\ Write(place, d) /\ Go(pr, k)
  BY DEF CloneFiles, At
<1>2. /\ JobOK(j) /\ j \in Job /\ j.dep \in Dependency /\ j.pc \in Mid
      /\ j.mode \in {"cached", "direct"} /\ j.target \in 0..MaxVersion
      /\ j.visited[j.dep.name] = j.dep.ref
  BY <1>1 DEF IInv, Local, JobOK, Route, Knows, Mid, Job, Busy
<1>3. disk[place] \in Dir /\ disk[place].git \in Git
  BY <1>1, <1>2, HereType, RepoType DEF IInv
<1>4. d \in Dir /\ d.git = disk[place].git /\ d.git # None /\ d # None
  BY <1>2, <1>3, NoneAssumption DEF Dir
<1> HIDE DEF d
<1>5. /\ DiskOK'
      /\ \A q \in Projects, n \in Packages : q # pr \/ n # j.dep.name => Own(q, n)' = Own(q, n)
      /\ j.mode # "cached" => disk'[<<pr, j.dep.name>>] = d
      /\ j.mode = "cached" => disk'[<<Cache, j.dep.name>>] = d
  BY <1>1, <1>2, <1>4, WriteHere DEF IInv
<1>6. i \in Job /\ SameWalk(j, i) /\ i.mode = j.mode /\ i.ok = j.ok /\ i.pc = j.pc
  <2>1. 0 \in 0..MaxVersion
    BY VersionAssumption
  <2> QED
    BY <1>2, <2>1 DEF Job, SameWalk
<1> HIDE DEF i
<1>7. Route(i) /\ Depth(i)
  BY <1>1, <1>2, <1>6 DEF JobOK, Route, Depth, Syncing, SameWalk
<1>8. /\ JobOK(k) /\ SameWalk(i, k) /\ k.mode = i.mode /\ k.ok = i.ok /\ Busy(k)
      /\ k.pc = IF i.dep.ref # NoRef THEN "tree"
                ELSE IF i.mode = "update" THEN "descend"
                ELSE IF i.mode = "cached" THEN "copy" ELSE "script"
      /\ k.todo = IF i.mode = "cached" THEN Parts ELSE {}
  <2>1. i.dep \in Dependency /\ i.pc \in {"fetch", "files"} /\ i.mode # "sync"
        /\ i.visited[i.dep.name] = i.dep.ref
    BY <1>1, <1>2, <1>6 DEF SameWalk
  <2> QED
    BY <1>6, <1>7, <2>1, FetchedWalk
<1>9. job'[pr] = k
  BY <1>1, GoTo DEF IInv
<1> HIDE DEF k
<1>10. SameWalk(j, k) /\ k.mode = j.mode /\ k.ok = j.ok /\ k.pc \in {"tree", "copy", "script"}
  BY <1>2, <1>6, <1>8 DEF SameWalk
<1>11. Arrived(pr, job[pr])'
  <2>1. k.dep = j.dep /\ (j.mode = "cached" => k.todo = Parts /\ k.pc \in {"tree", "copy"})
    BY <1>6, <1>8, <1>10 DEF SameWalk
  <2> QED
    BY <1>2, <1>4, <1>5, <1>9, <1>10, <2>1 DEF Arrived, InCache, IsRepo, Own, Parts
<1> QED
  BY <1>1, <1>2, <1>5, <1>8, <1>10, <1>11, WorkStep DEF k, counts, IInv, GlobalOK

(* A directory of the project itself is written.                           *)
LEMMA WriteOwn ==
  ASSUME DiskOK, NEW pr \in Projects, NEW n \in Packages, NEW d \in Dir \cup {None},
         Write(<<pr, n>>, d)
  PROVE  /\ DiskOK' /\ disk'[<<pr, n>>] = d
         /\ \A q \in Projects, m \in Packages : q # pr \/ m # n => Own(q, m)' = Own(q, m)
         /\ \A m \in Packages : disk'[<<Cache, m>>] = disk[<<Cache, m>>]
<1>1. /\ disk' \in [(Projects \cup {Cache}) \X Packages -> Dir \cup {None}]
      /\ disk'[<<pr, n>>] = d
      /\ \A q \in (Projects \cup {Cache}) \X Packages : q # <<pr, n>> => disk'[q] = disk[q]
  BY DEF Write, DiskOK
<1>2. ASSUME NEW m \in Packages PROVE disk'[<<Cache, m>>] = disk[<<Cache, m>>]
  <2>1. <<Cache, m>> # <<pr, n>> /\ <<Cache, m>> \in (Projects \cup {Cache}) \X Packages
    BY CacheAssumption
  <2> QED
    BY <1>1, <2>1
<1>3. ASSUME NEW q \in Projects, NEW m \in Packages, q # pr \/ m # n
      PROVE  Own(q, m)' = Own(q, m)
  <2>1. <<q, m>> # <<pr, n>> /\ <<q, m>> \in (Projects \cup {Cache}) \X Packages
    BY <1>3
  <2> QED
    BY <1>1, <2>1 DEF Own
<1> QED
  BY <1>1, <1>2, <1>3 DEF DiskOK

(* What is copied from a repository makes one; what the cache has lost     *)
(* leaves the directory as it was.                                         *)
LEMMA CopyPartStep ==
  ASSUME IInv, Watch, NEW pr \in Projects, NEW part \in Parts, CopyPart(pr, part)
  PROVE  IInv'
<1> DEFINE j == job[pr]
           n == j.dep.name
           c == disk[<<Cache, n>>]
           old == IF Own(pr, n) = None THEN EmptyDir ELSE Own(pr, n)
           d == IF c[part] = EmptyDir[part] THEN old ELSE [old EXCEPT ![part] = c[part]]
           label == IF j.todo = {part} THEN "script" ELSE "copy"
           left == j.todo \ {part}
           k == [j EXCEPT !.todo = left, !.pc = label]
<1>1. /\ UNCHANGED <<published, yaml, counts>> /\ j.pc = "copy" /\ part \in j.todo
      /\ c # None /\ Write(<<pr, n>>, d)
  BY DEF CopyPart, At
<1>2. Go(pr, k)
  BY DEF CopyPart
<1>3. /\ JobOK(j) /\ j \in Job /\ j.dep \in Dependency /\ j.pc \in Mid /\ n \in Packages
      /\ j.mode = "cached" /\ j.todo \subseteq Parts /\ Arrived(pr, j)
  BY <1>1 DEF IInv, Local, JobOK, Route, Knows, Mid, Dependency
<1>4. c \in Dir
  BY <1>1, <1>3 DEF IInv, DiskOK
<1>5. EmptyDir \in Dir /\ EmptyDir.git = None
  BY VersionAssumption DEF EmptyDir, Dir
<1>6. old \in Dir /\ (Own(pr, n) # None => old = Own(pr, n))
  BY <1>3, <1>5 DEF IInv, DiskOK, Own
<1>7. /\ d \in Dir /\ (part = "tree" => d.git = old.git)
      /\ part = "git" /\ c.git # None => d.git = c.git
  <2>1. CASE c[part] = EmptyDir[part]
    <3>1. d = old
      BY <2>1
    <3> HIDE DEF c, d, old
    <3>2. part = "git" => c.git = None
      BY <1>5, <2>1
    <3> QED
      BY <1>6, <3>1, <3>2
  <2>2. CASE part = "git" /\ c[part] # EmptyDir[part]
    <3>1. d = [old EXCEPT !.git = c.git]
      BY <2>2
    <3> HIDE DEF c, d, old
    <3> QED
      BY <1>4, <1>6, <2>2, <3>1 DEF Dir
  <2>3. CASE part = "tree" /\ c[part] # EmptyDir[part]
    <3>1. d = [old EXCEPT !.tree = c.tree]
      BY <2>3
    <3> HIDE DEF c, d, old
    <3> QED
      BY <1>4, <1>6, <2>3, <3>1 DEF Dir
  <2> QED
    BY <2>1, <2>2, <2>3 DEF Parts
<1> HIDE DEF old, d
<1>8. /\ DiskOK' /\ disk'[<<pr, n>>] = d
      /\ \A q \in Projects, m \in Packages : q # pr \/ m # n => Own(q, m)' = Own(q, m)
      /\ disk'[<<Cache, n>>] = c
  BY <1>1, <1>3, <1>7, WriteOwn DEF IInv
<1>9. /\ label \in {"script", "copy"} /\ left \subseteq Parts
      /\ label = "copy" => left # {}
      /\ label = "script" => j.todo = {part}
  BY <1>1, <1>3
<1> HIDE DEF label
<1>10. /\ k \in Job /\ SameWalk(j, k) /\ k.pc = label /\ k.mode = j.mode /\ k.ok = j.ok
       /\ k.todo = left
  BY <1>3, <1>9 DEF Job, SameWalk, Mid
<1>11. job'[pr] = k
  BY <1>2, GoTo DEF IInv
<1> HIDE DEF k
<1>12. JobOK(k) /\ k.pc # "orphans" /\ (k.ok => j.ok /\ (Busy(k) \/ k.mode = "sync"))
  BY <1>1, <1>3, <1>9, <1>10 DEF JobOK, Route, Knows, Depth, Busy, Syncing, SameWalk, Mid
<1>13. n \notin raced'[pr] => IsRepo(c) /\ ("git" \notin left => IsRepo(d))
  <2> SUFFICES ASSUME n \notin raced'[pr]
               PROVE  IsRepo(c) /\ ("git" \notin left => IsRepo(d))
    OBVIOUS
  <2>1. n \notin raced[pr]
    BY <1>9, <1>10, <1>11, Watched
  <2>2. IsRepo(c)
    BY <1>1, <1>3, <2>1 DEF Arrived, InCache
  <2>3. CASE part = "git"
    BY <1>4, <1>7, <2>2, <2>3, NoneAssumption DEF IsRepo
  <2>4. CASE part = "tree"
    <3> SUFFICES ASSUME "git" \notin left PROVE IsRepo(d)
      BY <2>2
    <3>1. "git" \notin j.todo
      BY <2>4
    <3>2. IsRepo(Own(pr, n))
      BY <1>1, <1>3, <2>1, <3>1 DEF Arrived
    <3> QED
      BY <1>6, <1>7, <2>4, <3>2, NoneAssumption DEF IsRepo
  <2> QED
    BY <2>3, <2>4 DEF Parts
<1>14. Arrived(pr, job[pr])'
  <2>1. label = "script" => "git" \notin left
    BY <1>9 DEF Parts
  <2>2. d # None
    BY <1>7, NoneAssumption
  <2>3. k.dep = j.dep
    BY <1>10 DEF SameWalk
  <2> HIDE DEF c
  <2> QED
    BY <1>3, <1>8, <1>9, <1>10, <1>11, <1>13, <2>1, <2>2, <2>3 DEF Arrived, InCache, IsRepo, Own
<1> QED
  BY <1>1, <1>2, <1>3, <1>8, <1>10, <1>12, <1>14, WorkStep DEF counts, IInv, GlobalOK

LEMMA RunScriptStep ==
  ASSUME IInv, Watch, NEW pr \in Projects, RunScript(pr)
  PROVE  IInv'
<1> DEFINE j == job[pr]
           n == j.dep.name
           ran == Own(pr, n).tree # 0
           d == [Own(pr, n) EXCEPT !.script = ran]
           k == [j EXCEPT !.pc = "descend"]
<1>1. /\ UNCHANGED <<published, yaml, counts>> /\ j.pc = "script"
      /\ Write(<<pr, n>>, d) /\ Go(pr, k)
  BY DEF RunScript, At
<1>2. /\ JobOK(j) /\ j \in Job /\ j.dep \in Dependency /\ j.pc \in Mid /\ n \in Packages
      /\ j.mode # "sync" /\ Own(pr, n) # None
      /\ (j.mode # "cached" \/ n \notin raced[pr]) => IsRepo(Own(pr, n))
  BY <1>1 DEF IInv, Local, JobOK, Route, Knows, Mid, Dependency, Arrived
<1>3. Own(pr, n) \in Dir
  BY <1>2 DEF IInv, DiskOK, Own
<1>4. ran \in BOOLEAN
  OBVIOUS
<1> HIDE DEF ran
<1>5. d \in Dir /\ d.git = Own(pr, n).git
  BY <1>3, <1>4 DEF Dir
<1>6. IsRepo(Own(pr, n)) => IsRepo(d)
  BY <1>5, NoneAssumption DEF IsRepo
<1> HIDE DEF d
<1>7. /\ DiskOK' /\ disk'[<<pr, n>>] = d
      /\ \A q \in Projects, m \in Packages : q # pr \/ m # n => Own(q, m)' = Own(q, m)
  BY <1>1, <1>2, <1>5, WriteOwn DEF IInv
<1>8. /\ k \in Job /\ SameWalk(j, k) /\ k.pc = "descend" /\ k.mode = j.mode /\ k.ok = j.ok
  BY <1>2 DEF Job, SameWalk, Mid
<1>9. job'[pr] = k
  BY <1>1, GoTo DEF IInv
<1> HIDE DEF k
<1>10. JobOK(k) /\ (k.ok => j.ok /\ (Busy(k) \/ k.mode = "sync"))
  BY <1>1, <1>2, <1>8 DEF JobOK, Route, Knows, Depth, Busy, Syncing, SameWalk, Mid
<1>11. Arrived(pr, job[pr])'
  <2>1. raced[pr] \subseteq raced'[pr]
    BY <1>8, <1>9, Watched
  <2>2. k.dep = j.dep
    BY <1>8 DEF SameWalk
  <2> QED
    BY <1>2, <1>6, <1>7, <1>8, <1>9, <2>1, <2>2 DEF Arrived, InCache, IsRepo, Own
<1> QED
  BY <1>1, <1>2, <1>7, <1>8, <1>10, <1>11, WorkStep DEF k, counts, IInv, GlobalOK

(* Deleting what is not collected collects nothing more.                   *)
LEMMA CollectedShrinks ==
  ASSUME GlobalOK, DiskOK, NEW pr \in Projects, NEW n \in Packages, n \notin Collected(pr),
         yaml' = yaml, \A m \in Packages : m # n => Own(pr, m)' = Own(pr, m)
  PROVE  Collected(pr)' \subseteq Collected(pr)
<1> PICK C : C = Collected(pr)
  OBVIOUS
<1>1. Closed(pr, C) /\ C \subseteq Packages /\ n \notin C
  BY CollectedClosed
<1>2. Closed(pr, C)'
  BY <1>1 DEF Closed
<1>3. Collected(pr)' \subseteq C
  BY <1>1, <1>2 DEF Collected
<1> QED
  BY <1>3

(* Sync goes on with fewer orphans before it.                              *)
LEMMA OrphanJob ==
  ASSUME IInv, NEW pr \in Projects, job[pr].pc = "orphans", NEW k \in Job,
         k.pc = "orphans", k.mode = job[pr].mode, k.stack = job[pr].stack,
         k.todo \subseteq job[pr].todo, k.cmd = job[pr].cmd, k.asked = job[pr].asked
  PROVE  JobOK(k) /\ k.mode = "sync"
<1>1. JobOK(job[pr]) /\ job[pr].mode = "sync"
  BY DEF IInv, Local, JobOK, Route
<1> QED
  BY <1>1 DEF JobOK, Route, Knows, Depth, Busy, Syncing, Mid

LEMMA RemoveOrphanStep ==
  ASSUME IInv, Watch, NEW pr \in Projects, NEW n \in Packages, RemoveOrphan(pr, n)
  PROVE  IInv'
<1> DEFINE j == job[pr]
<1>1. /\ UNCHANGED <<published, yaml, counts>> /\ j.pc = "orphans" /\ n \in j.todo
      /\ Own(pr, n) # None
  BY DEF RemoveOrphan, At
<1>2. /\ Local(pr, j) /\ j \in Job /\ n \notin Collected(pr) /\ GlobalOK /\ DiskOK
      /\ Own(pr, n) \in Dir
  BY <1>1 DEF IInv, Local, JobOK, Spared, DiskOK, Own
<1>3. PICK d \in Left(Own(pr, n)), dep \in {None, Orphan(n)}, left \in {j.todo, j.todo \ {n}} :
        Write(<<pr, n>>, d) /\ Go(pr, [j EXCEPT !.todo = left, !.dep = dep, !.ok = j.ok])
  <2>1. j = [j EXCEPT !.ok = j.ok, !.todo = j.todo]
    BY <1>2 DEF Job
  <2>2. /\ [j EXCEPT !.todo = @ \ {n}, !.dep = None]
             = [j EXCEPT !.todo = j.todo \ {n}, !.dep = None, !.ok = j.ok]
        /\ [j EXCEPT !.dep = Orphan(n)] = [j EXCEPT !.todo = j.todo, !.dep = Orphan(n), !.ok = j.ok]
    BY <1>2 DEF Job
  <2>3. PICK d \in Left(Own(pr, n)) :
          /\ Write(<<pr, n>>, d)
          /\ \/ Go(pr, [j EXCEPT !.todo = @ \ {n}, !.dep = None])
             \/ Go(pr, [j EXCEPT !.dep = Orphan(n)])
    BY DEF RemoveOrphan
  <2> QED
    BY <2>2, <2>3
<1> DEFINE k == [j EXCEPT !.todo = left, !.dep = dep, !.ok = j.ok]
<1>4. dep \in Dependency \cup {None} /\ j.ok \in BOOLEAN /\ left \in SUBSET j.todo
  BY <1>2 DEF Orphan, Dependency, Refs, Job
<1>5. JobOK(k) /\ k.pc = "orphans" /\ k.mode = "sync" /\ k.todo \subseteq j.todo
  <2>1. /\ k \in Job /\ k.pc = "orphans" /\ k.mode = j.mode /\ k.stack = j.stack
        /\ k.todo \subseteq j.todo /\ k.cmd = j.cmd /\ k.asked = j.asked
    BY <1>1, <1>2, <1>4 DEF Job
  <2> HIDE DEF k
  <2> QED
    BY <1>1, <2>1, OrphanJob
<1> HIDE DEF k
<1>6. d \in Dir \cup {None}
  BY <1>2, LeftType
<1>7. /\ DiskOK'
      /\ \A q \in Projects, m \in Packages : q # pr \/ m # n => Own(q, m)' = Own(q, m)
      /\ disk'[<<pr, n>>] = d
  BY <1>2, <1>3, <1>6, WriteOwn
<1>8. /\ job'[pr] = k /\ DOMAIN job' = Projects /\ yaml' = yaml
      /\ \A q \in Projects : q # pr => job'[q] = job[q]
  BY <1>1, <1>2, <1>3, GoTo DEF k
<1>9. GlobalOK'
  BY <1>1, <1>2, <1>8 DEF GlobalOK, counts
<1>10. ASSUME NEW q \in Projects, q # pr PROVE Local(q, job[q])'
  BY <1>7, <1>8, <1>10, Spectator
<1>11. Local(pr, job[pr])'
  <2>1. Collected(pr)' \subseteq Collected(pr)
    BY <1>1, <1>2, <1>7, CollectedShrinks
  <2>2. Spared(pr, job[pr])'
    BY <1>1, <1>2, <1>5, <1>8, <2>1 DEF Local, Spared
  <2> QED
    BY <1>5, <1>8, <2>2 DEF Local, Arrived, InCache, Closing, Walking, Busy, Mid
<1> QED
  BY <1>7, <1>9, <1>10, <1>11 DEF IInv

LEMMA LeaveOrphanStep ==
  ASSUME IInv, Watch, NEW pr \in Projects, NEW n \in Packages, LeaveOrphan(pr, n)
  PROVE  IInv'
<1> DEFINE j == job[pr]
           k == [j EXCEPT !.todo = j.todo \ {n}, !.dep = None, !.ok = FALSE]
<1>1. /\ UNCHANGED <<published, disk, yaml, counts>> /\ j.pc = "orphans" /\ Go(pr, k)
  BY DEF LeaveOrphan, At
<1>2. JobOK(k) /\ k.pc = "orphans" /\ k.mode = "sync" /\ k.todo = j.todo \ {n}
  <2>1. /\ k \in Job /\ k.pc = "orphans" /\ k.mode = j.mode /\ k.stack = j.stack
        /\ k.todo = j.todo \ {n} /\ k.cmd = j.cmd /\ k.asked = j.asked
    BY <1>1 DEF IInv, Local, JobOK, Job
  <2> HIDE DEF k
  <2> QED
    BY <1>1, <2>1, OrphanJob
<1> HIDE DEF k
<1>3. Local(pr, k)
  BY <1>1, <1>2 DEF IInv, Local, Arrived, InCache, Closing, Spared, Walking, Busy, Mid
<1> QED
  BY <1>1, <1>3, Still DEF counts, IInv, GlobalOK

--------------------------------------------------------------------------------
(***************************************************************************)
(* What follows for every reachable state.                                 *)
(***************************************************************************)
LEMMA InitIInv == Init => IInv
<1> SUFFICES ASSUME Init PROVE IInv
  OBVIOUS
<1>1. 1 \in Versions
  BY VersionAssumption DEF Versions
<1>2. GlobalOK
  <2>1. yaml \in [Projects -> Seq(Dependency)]
    BY ManifestAssumption DEF Init
  <2> QED
    BY <1>1, <2>1, BoundAssumption DEF Init, GlobalOK
<1>3. DiskOK
  BY DEF Init, DiskOK
<1>4. ASSUME NEW pr \in Projects PROVE Local(pr, job[pr])
  <2>1. job[pr] = Idle
    BY DEF Init
  <2>2. Local(pr, Idle)
    BY IdleIsJob, Quiet DEF Idle
  <2> QED
    BY <2>1, <2>2
<1> QED
  BY <1>2, <1>3, <1>4 DEF IInv

LEMMA WalkIInv ==
  ASSUME IInv, Watch, NEW pr \in Projects, Begin(pr) \/ Sync(pr) \/ Walk(pr)
  PROVE  IInv'
<1>1. CASE Begin(pr)
  BY <1>1, BeginCompileStep, BeginInstallStep, BeginAddStep DEF Begin
<1>2. CASE Sync(pr)
  BY <1>2, RemoveOrphanStep, LeaveOrphanStep, OrphansGoneStep, CheckStep, SyncedStep, GateStep DEF Sync
<1>3. CASE Walk(pr)
  BY <1>3, NextDepStep, LeaveFrameStep, DescendStep, WalkDoneStep, InstalledStep DEF Walk
<1> QED
  BY <1>1, <1>2, <1>3

LEMMA SingleIInv ==
  ASSUME IInv, Watch, NEW pr \in Projects, Single(pr)
  PROVE  IInv'
<1>1. CASE Choose(pr) \/ Fetch(pr) \/ FetchFails(pr) \/ CheckoutTree(pr) \/ CheckoutHead(pr)
  BY <1>1, ChooseStep, FetchStep, FetchFailsStep, CheckoutTreeStep, CheckoutHeadStep
<1>2. CASE CloneInit(pr) \/ CloneTransfer(pr) \/ CloneFails(pr) \/ CloneFiles(pr) \/ RunScript(pr)
  BY <1>2, CloneInitStep, CloneTransferStep, CloneFailsStep, CloneFilesStep, RunScriptStep
<1>3. CASE \E part \in {"git", "tree"} : CopyPart(pr, part)
  BY <1>3, CopyPartStep DEF Parts
<1>4. CASE CheckoutFails(pr) \/ CloneRefused(pr) \/ CopyFails(pr)
  <2>1. Fail(pr) /\ job[pr].pc \in Mid
    BY <1>4 DEF CheckoutFails, CloneRefused, CopyFails, At, Mid
  <2> QED
    BY <2>1, FailStep
<1> QED
  BY <1>1, <1>2, <1>3, <1>4 DEF Single

LEMMA StepIInv ==
  ASSUME IInv, [Next]_vars
  PROVE  IInv'
<1>1. CASE UNCHANGED vars
  <2>1. UNCHANGED <<published, disk, yaml, job, commands, faults, raced>>
    BY <1>1 DEF vars, counts
  <2>2. GlobalOK' /\ DiskOK'
    BY <2>1 DEF IInv, GlobalOK, DiskOK
  <2>3. ASSUME NEW q \in Projects PROVE Local(q, job[q])'
    <3>1. Local(q, job[q]) /\ job'[q] = job[q]
      BY <2>1 DEF IInv
    <3> QED
      BY <2>1, <3>1, Keeps DEF Own
  <2> QED
    BY <2>2, <2>3 DEF IInv
<1>2. ASSUME Watch, NEW pr \in Projects, Begin(pr) \/ Step(pr) \/ Crash(pr) \/ Edit(pr)
      PROVE  IInv'
  BY <1>2, WalkIInv, SingleIInv, EndStep, EditStep DEF Step
<1>3. ASSUME Watch, NEW n \in Packages, Publish(n) \/ ClearCache(n) PROVE IInv'
  BY <1>3, PublishStep, ClearCacheStep
<1> QED
  BY <1>1, <1>2, <1>3 DEF Next

LEMMA SpecIInv == Spec => []IInv
<1>1. IInv /\ [Next]_vars => IInv'
  BY StepIInv
<1> QED
  BY <1>1, InitIInv, PTL DEF Spec

(* Nothing one project does reaches the files or the job of another.       *)
LEMMA FilesOfOthers ==
  ASSUME IInv, NEW pr \in Projects, NEW q \in Projects, q # pr, NEW n \in Packages,
         Begin(pr) \/ Step(pr) \/ Crash(pr) \/ Edit(pr)
  PROVE  Own(q, n)' = Own(q, n)
<1> DEFINE x == <<q, n>>
           here == Place(job[pr], pr)
<1>1. /\ x \in (Projects \cup {Cache}) \X Packages
      /\ \A m : <<pr, m>> # x
      /\ here # x
  BY CacheAssumption DEF Place
<1> HIDE DEF x, here
<1>2. \A p, d : Write(p, d) /\ p # x => disk'[x] = disk[x]
  BY <1>1 DEF Write, IInv, DiskOK
<1> SUFFICES disk'[x] = disk[x]
  BY DEF Own, x
<1>3. CASE Fetch(pr) \/ CheckoutTree(pr) \/ CloneInit(pr) \/ CloneTransfer(pr)
             \/ CloneFails(pr) \/ CloneFiles(pr)
  <2>1. \E d : Write(here, d)
    BY <1>3 DEF Fetch, CheckoutTree, CloneInit, CloneTransfer, CloneFails, CloneFiles, here
  <2> QED
    BY <1>1, <1>2, <2>1
<1>4. CASE CheckoutHead(pr)
  <2>1. \E d : Write(here, d)
    BY <1>4, CheckoutHeadOutcome DEF here
  <2> QED
    BY <1>1, <1>2, <2>1
<1>5. CASE (\E part \in {"git", "tree"} : CopyPart(pr, part)) \/ RunScript(pr)
             \/ (\E m \in Packages : RemoveOrphan(pr, m))
  <2>1. \E m, d : Write(<<pr, m>>, d)
    BY <1>5 DEF CopyPart, RunScript, RemoveOrphan
  <2> QED
    BY <1>1, <1>2, <2>1
<1>6. CASE Begin(pr) \/ Walk(pr) \/ Built(pr) \/ Stop(pr) \/ Crash(pr) \/ Edit(pr)
  BY <1>6 DEF Begin, BeginCompile, BeginInstall, BeginAdd, Walk, NextDep, LeaveFrame, Descend,
              WalkDone, Installed, Built, Stop, Crash, Edit
<1>7. CASE OrphansGone(pr) \/ Check(pr) \/ Synced(pr) \/ Gate(pr) \/ Choose(pr)
             \/ FetchFails(pr) \/ CheckoutFails(pr) \/ CloneRefused(pr)
             \/ CopyFails(pr) \/ (\E m \in Packages : LeaveOrphan(pr, m))
  BY <1>7 DEF LeaveOrphan, OrphansGone, Check, Synced, Gate, Choose, FetchFails, CheckoutFails, CloneRefused,
              CopyFails, Fail
<1> QED
  BY <1>3, <1>4, <1>5, <1>6, <1>7 DEF Step, Sync, Single

(* Nor the job or the sn.yaml of another.                                  *)
LEMMA JobsOfOthers ==
  ASSUME IInv, NEW pr \in Projects, Begin(pr) \/ Step(pr) \/ Crash(pr) \/ Edit(pr)
  PROVE  \A q \in Projects : q # pr => job'[q] = job[q] /\ yaml'[q] = yaml[q]
<1>1. CASE Edit(pr)
  BY <1>1 DEF Edit, IInv, GlobalOK
<1>2. CASE Begin(pr) \/ Step(pr) \/ Crash(pr)
  <2>1. /\ \E j : Go(pr, j)
        /\ yaml' = yaml \/ \E y : yaml' = [yaml EXCEPT ![pr] = y]
    <3>1. CASE Begin(pr) \/ Crash(pr) \/ Built(pr) \/ Stop(pr)
      BY <3>1 DEF Begin, BeginCompile, BeginInstall, BeginAdd, Crash, Built, Stop
    <3>2. CASE Sync(pr)
      BY <3>2 DEF Sync, RemoveOrphan, LeaveOrphan, OrphansGone, Check, Synced, Gate
    <3>3. CASE Walk(pr)
      <4>1. CASE NextDep(pr)
        BY <4>1 DEF NextDep
      <4>2. CASE LeaveFrame(pr) \/ Descend(pr) \/ WalkDone(pr) \/ Installed(pr)
        BY <4>2 DEF LeaveFrame, Descend, WalkDone, Installed
      <4> QED
        BY <3>3, <4>1, <4>2 DEF Walk
    <3>4. CASE Single(pr)
      <4>1. CASE Choose(pr) \/ Fetch(pr) \/ CheckoutTree(pr) \/ CheckoutHead(pr) \/ CloneInit(pr)
                   \/ CloneTransfer(pr) \/ CloneFails(pr) \/ CloneFiles(pr) \/ RunScript(pr)
                   \/ \E part \in {"git", "tree"} : CopyPart(pr, part)
        BY <4>1 DEF Choose, Fetch, CheckoutTree, CheckoutHead, CloneInit, CloneTransfer,
                    CloneFails, CloneFiles, RunScript, CopyPart
      <4>2. CASE CheckoutFails(pr) \/ CloneRefused(pr) \/ CopyFails(pr)
        BY <4>2 DEF CheckoutFails, CloneRefused, CopyFails, Fail
      <4>3. CASE FetchFails(pr)
        <5>1. job[pr].mode \in {"cached", "update", "sync"}
          BY <4>3 DEF FetchFails, At, IInv, Local, JobOK, Route, Job
        <5>2. CASE job[pr].mode = "cached"
          BY <4>3, <5>2 DEF FetchFails
        <5>3. CASE job[pr].mode = "update"
          BY <4>3, <5>3 DEF FetchFails
        <5>4. CASE job[pr].mode = "sync"
          BY <4>3, <5>4 DEF FetchFails
        <5> QED
          BY <5>1, <5>2, <5>3, <5>4
      <4> QED
        BY <3>4, <4>1, <4>2, <4>3 DEF Single
    <3> QED
      BY <1>2, <3>1, <3>2, <3>3, <3>4 DEF Step
  <2> QED
    BY <2>1, GoTo DEF IInv, GlobalOK
<1> QED
  BY <1>1, <1>2

(* When package_install_all reports success, everything sn.yaml names, and *)
(* everything the sn.yaml of an installed package names, has been gone to  *)
(* and is a repository of the project: whatever other projects, and        *)
(* clearings that got anywhere between its entries, did to the rest of the *)
(* cache meanwhile.  They did it to this package's cache: no claim.        *)
THEOREM InstallCloses == Spec => []InstalledClosed
<1>1. IInv => InstalledClosed
  <2> SUFFICES ASSUME IInv, NEW pr \in Projects, Succeeded(pr)
               PROVE  /\ Names(yaml[pr]) \subseteq Walked(pr)
                      /\ \A n \in Walked(pr) : /\ n \notin raced[pr] => IsRepo(Own(pr, n))
                                               /\ Names(DepsIn(Own(pr, n), n)) \subseteq Walked(pr)
    BY DEF InstalledClosed
  <2>1. /\ Local(pr, job[pr]) /\ job[pr].pc = "installed" /\ job[pr].ok /\ job[pr].cmd # "add"
        /\ job[pr].stack = <<>>
    BY DEF IInv, Succeeded, At, Local, JobOK, Depth
  <2>2. Pending(job[pr]) = {}
    BY <2>1, ToSetEmpty DEF Pending, InFrames
  <2>3. Walked(pr) = Seen(job[pr])
    BY DEF Walked, Seen
  <2>4. Walking(job[pr]) /\ ~Busy(job[pr])
    BY <2>1 DEF Walking, Busy, Mid
  <2> QED
    BY <2>1, <2>2, <2>3, <2>4 DEF Local, Closing
<1> QED
  BY <1>1, SpecIInv, PTL

(* package_sync deletes nothing that the project or a package it keeps     *)
(* names, whoever else is at work and wherever commands were killed.       *)
THEOREM SyncSpares == Spec => SyncKeepsClosed
<1> DEFINE Kept == \A pr \in Projects, n \in Packages :
                     At(pr, "orphans") /\ Own(pr, n)' # Own(pr, n) =>
                       /\ n \notin Names(yaml[pr])
                       /\ \A m \in Collected(pr) : n \notin Names(DepsIn(Own(pr, m), m))
<1>1. IInv /\ [Next]_vars => [Kept]_vars
  <2> SUFFICES ASSUME IInv, Next, NEW pr \in Projects, NEW n \in Packages,
                      job[pr].pc = "orphans", Own(pr, n)' # Own(pr, n)
               PROVE  /\ n \notin Names(yaml[pr])
                      /\ \A m \in Collected(pr) : n \notin Names(DepsIn(Own(pr, m), m))
    BY DEF At
  <2>1. n \notin Collected(pr)
    <3>1. ASSUME NEW q \in Projects, Begin(q) \/ Step(q) \/ Crash(q) \/ Edit(q)
          PROVE  RemoveOrphan(pr, n)
      <4>1. q = pr
        BY <3>1, FilesOfOthers
      <4>2. ~Walk(pr) /\ ~Single(pr) /\ ~Built(pr) /\ ~Stop(pr) /\ ~Begin(pr) /\ ~Edit(pr)
        BY DEF Walk, NextDep, LeaveFrame, Descend, WalkDone, Installed, Single, Choose, Fetch,
               FetchFails, CheckoutTree, CheckoutFails, CheckoutHead, CloneInit, CloneRefused,
               CloneTransfer, CloneFails, CloneFiles, CopyPart, CopyFails,
               RunScript, Built, Stop, Begin, BeginCompile, BeginInstall, BeginAdd, Ready, Edit, At
      <4>3. ~Check(pr) /\ ~Synced(pr) /\ ~Gate(pr)
        BY DEF Check, Synced, Gate, At
      <4>4. ~Crash(pr) /\ ~OrphansGone(pr) /\ \A m \in Packages : ~LeaveOrphan(pr, m)
        BY DEF Crash, OrphansGone, LeaveOrphan, Own
      <4>5. PICK m \in Packages : RemoveOrphan(pr, m)
        BY <3>1, <4>1, <4>2, <4>3, <4>4 DEF Step, Sync
      <4>6. m = n
        <5>1. PICK d : Write(<<pr, m>>, d)
          BY <4>5 DEF RemoveOrphan
        <5>2. <<pr, n>> \in (Projects \cup {Cache}) \X Packages
          OBVIOUS
        <5> QED
          BY <5>1, <5>2 DEF Write, Own, IInv, DiskOK
      <4> QED
        BY <4>5, <4>6
    <3>2. \A m \in Packages : ~ClearCache(m)
      BY ClearsCache
    <3>3. \A m \in Packages : ~Publish(m)
      BY DEF Publish, Own
    <3>4. RemoveOrphan(pr, n)
      BY <3>1, <3>2, <3>3 DEF Next
    <3> QED
      BY <3>4 DEF RemoveOrphan, At, IInv, Local, Spared
  <2>2. Closed(pr, Collected(pr))
    BY CollectedClosed DEF IInv
  <2> QED
    BY <2>1, <2>2 DEF Closed
<1> QED
  BY <1>1, SpecIInv, PTL DEF Spec, SyncKeepsClosed

--------------------------------------------------------------------------------
(***************************************************************************)
(* Sync and tags, for sn.yaml files that do not give a package two refs.   *)
(***************************************************************************)
OneRef(y) == \A d, e \in ToSet(y) : d.name = e.name => d = e

AtTag(pr, d) ==
  d.ref \in Versions /\ IsRepo(Own(pr, d.name)) => Own(pr, d.name).git.head \in {0, d.ref}

(* While nothing has failed, sync has each dependency still before it, at  *)
(* hand, or at its tag, unless its HEAD could not be moved.                *)
Tagged(pr, j) ==
  /\ j.pc = "orphans" => j.stack = <<yaml[pr]>>
  /\ j.ok /\ (Syncing(j) \/ j.pc = "synced") =>
       /\ j.pc # "synced" => InFrames(j.stack) \subseteq ToSet(yaml[pr])
       /\ j.pc \in Mid => j.dep \in ToSet(yaml[pr])
       /\ \A d \in ToSet(yaml[pr]) :
            \/ j.pc # "synced" /\ d \in InFrames(j.stack)
            \/ j.pc \in Mid /\ d = j.dep
            \/ d.name \in j.unmoved
            \/ AtTag(pr, d)

TagInv == \A pr \in Projects : OneRef(yaml[pr]) /\ Tagged(pr, job[pr])

(* Recording a package again replaces its ref.                             *)
LEMMA AddDependencyOneRef ==
  ASSUME NEW y \in Seq(Dependency), NEW d \in Dependency, OneRef(y)
  PROVE  OneRef(AddDependency(y, d))
<1>1. CASE d.name \in Names(y)
  <2> DEFINE z == [i \in DOMAIN y |-> IF y[i].name = d.name THEN d ELSE y[i]]
  <2>1. \A e \in ToSet(z) : e = d \/ (e \in ToSet(y) /\ e.name # d.name)
    BY DEF ToSet
  <2>2. OneRef(z)
    BY <2>1 DEF OneRef
  <2> QED
    BY <1>1, <2>2 DEF AddDependency
<1>2. CASE d.name \notin Names(y)
  <2>1. ToSet(Append(y, d)) = ToSet(y) \cup {d}
    BY ToSetAppend
  <2>2. \A e \in ToSet(y) : e.name # d.name
    BY <1>2, NamesAreElements
  <2>3. OneRef(Append(y, d))
    BY <2>1, <2>2 DEF OneRef
  <2> QED
    BY <1>2, <2>3 DEF AddDependency
<1> QED
  BY <1>1, <1>2

(* A job that is not syncing has nothing to show.                          *)
LEMMA TagQuiet ==
  ASSUME NEW pr, NEW j, j.pc # "orphans", JobOK(j), ~j.ok \/ j.mode # "sync"
  PROVE  Tagged(pr, j)
BY DEF Tagged, Syncing, JobOK, Route

(* Sync goes on with the dependency at hand, or is done with it.           *)
LEMMA TagWork ==
  ASSUME IInv, TagInv, NEW pr \in Projects, NEW k, job'[pr] = k, yaml' = yaml,
         Syncing(job[pr]), job[pr].pc \in Mid, SameWalk(job[pr], k), k.ok => job[pr].ok,
         k.mode = "sync", k.pc \in {"check", "tree", "head"},
         \A n \in Packages : n # job[pr].dep.name => Own(pr, n)' = Own(pr, n),
         k.ok /\ k.pc = "check" /\ job[pr].dep.ref \in Versions
           /\ job[pr].dep.name \notin k.unmoved /\ IsRepo(disk'[<<pr, job[pr].dep.name>>])
         => disk'[<<pr, job[pr].dep.name>>].git.head \in {0, job[pr].dep.ref}
  PROVE  Tagged(pr, job[pr])'
<1> DEFINE j == job[pr]
<1> SUFFICES ASSUME k.ok PROVE Tagged(pr, job[pr])'
  BY DEF Tagged
<1>1. /\ InFrames(j.stack) \subseteq ToSet(yaml[pr]) /\ j.dep \in ToSet(yaml[pr])
      /\ \A d \in ToSet(yaml[pr]) : \/ d \in InFrames(j.stack) \/ d = j.dep
                                   \/ d.name \in j.unmoved \/ AtTag(pr, d)
      /\ ToSet(yaml[pr]) \subseteq Dependency
      /\ OneRef(yaml[pr])
  BY NamesArePackages DEF TagInv, Tagged, Syncing, IInv, GlobalOK
<1>2. ASSUME NEW d \in ToSet(yaml[pr])
      PROVE  \/ d \in InFrames(k.stack)
             \/ k.pc \in Mid /\ d = k.dep
             \/ d.name \in k.unmoved
             \/ d.ref \in Versions /\ IsRepo(disk'[<<pr, d.name>>])
                => disk'[<<pr, d.name>>].git.head \in {0, d.ref}
  <2>1. CASE d \in InFrames(j.stack) \/ d.name \in j.unmoved
    BY <2>1 DEF SameWalk
  <2>2. CASE d = j.dep
    BY <2>2 DEF SameWalk, Mid
  <2>3. CASE AtTag(pr, d) /\ d # j.dep
    <3>1. d.name # j.dep.name /\ d.name \in Packages
      BY <1>1, <2>3 DEF OneRef, Dependency
    <3>2. disk'[<<pr, d.name>>] = disk[<<pr, d.name>>]
      BY <3>1 DEF Own
    <3> QED
      BY <2>3, <3>2 DEF AtTag, Own
  <2> QED
    BY <1>1, <2>1, <2>2, <2>3
<1> QED
  BY <1>1, <1>2 DEF Tagged, AtTag, Own, SameWalk

(* A job that is not syncing, or that has failed, shows nothing.           *)
LEMMA TagQuietStep ==
  ASSUME IInv', NEW pr \in Projects, job'[pr].pc # "orphans",
         ~job'[pr].ok \/ job'[pr].mode # "sync"
  PROVE  Tagged(pr, job[pr])'
<1>1. JobOK(job'[pr])
  BY DEF IInv, Local
<1> QED
  BY <1>1 DEF Tagged, Syncing, JobOK, Route

LEMMA BeginTags ==
  ASSUME IInv, IInv', NEW pr \in Projects, Begin(pr)
  PROVE  Tagged(pr, job[pr])'
<1>1. CASE BeginCompile(pr)
  <2> DEFINE gone == {n \in Packages : Own(pr, n) # None} \ Collected(pr)
             k == [Idle EXCEPT !.cmd = "compile", !.mode = "sync", !.pc = "orphans",
                     !.stack = <<yaml[pr]>>, !.todo = gone]
  <2>1. Go(pr, k) /\ yaml' = yaml
    BY <1>1 DEF BeginCompile
  <2>2. k.pc = "orphans" /\ k.stack = <<yaml[pr]>>
    BY DEF Idle
  <2>3. job'[pr] = k
    BY <2>1, GoTo DEF IInv
  <2> HIDE DEF k
  <2> QED
    BY <2>1, <2>2, <2>3 DEF Tagged, Syncing
<1>2. CASE BeginInstall(pr) \/ \E d \in Asked : BeginAdd(pr, d)
  <2>1. job'[pr].mode # "sync" /\ job'[pr].pc # "orphans"
    <3>1. CASE BeginInstall(pr)
      <4> DEFINE k == [Idle EXCEPT !.cmd = "install", !.pc = "next", !.stack = <<yaml[pr]>>]
      <4>1. Go(pr, k)
        BY <3>1 DEF BeginInstall
      <4>2. k.mode = "none" /\ k.pc = "next"
        BY DEF Idle
      <4> HIDE DEF k
      <4> QED
        BY <4>1, <4>2, GoTo DEF IInv
    <3>2. ASSUME NEW d \in Asked, BeginAdd(pr, d) PROVE job'[pr].mode # "sync" /\ job'[pr].pc # "orphans"
      <4> DEFINE k == [Idle EXCEPT !.cmd = "add", !.pc = "choose", !.dep = d,
                         !.asked = d, !.visited[d.name] = d.ref]
      <4>1. Go(pr, k)
        BY <3>2 DEF BeginAdd
      <4>2. k.mode = "none" /\ k.pc = "choose"
        BY DEF Idle
      <4> HIDE DEF k
      <4> QED
        BY <4>1, <4>2, GoTo DEF IInv
    <3> QED
      BY <1>2, <3>1, <3>2
  <2> QED
    BY <2>1, TagQuietStep
<1> QED
  BY <1>1, <1>2 DEF Begin

(* A walk does not sync.                                                   *)
LEMMA WalkTags ==
  ASSUME IInv, IInv', NEW pr \in Projects,
         Walk(pr) \/ Gate(pr) \/ Built(pr) \/ Stop(pr) \/ Crash(pr)
  PROVE  Tagged(pr, job[pr])'
<1> DEFINE j == job[pr]
<1>1. JobOK(j) /\ j \in Job
  BY DEF IInv, Local, JobOK
<1>2. PICK k : Go(pr, k) /\ k.mode # "sync" /\ k.pc # "orphans"
  <2>1. CASE Gate(pr) \/ Built(pr) \/ Stop(pr) \/ Crash(pr) \/ Installed(pr)
    <3>1. CASE Gate(pr)
      <4>1. [Idle EXCEPT !.cmd = "compile", !.pc = "built"].mode # "sync"
            /\ [Idle EXCEPT !.cmd = "compile", !.pc = "built"].pc # "orphans"
        BY DEF Idle
      <4>2. [Idle EXCEPT !.cmd = "compile", !.pc = "next", !.stack = <<yaml[pr]>>].mode # "sync"
            /\ [Idle EXCEPT !.cmd = "compile", !.pc = "next", !.stack = <<yaml[pr]>>].pc # "orphans"
        BY DEF Idle
      <4> QED
        BY <3>1, <4>1, <4>2 DEF Gate
    <3>2. CASE ~Gate(pr)
      <4>1. /\ Idle.mode # "sync" /\ Idle.pc # "orphans"
            /\ [Idle EXCEPT !.cmd = "compile", !.pc = "built"].mode # "sync"
            /\ [Idle EXCEPT !.cmd = "compile", !.pc = "built"].pc # "orphans"
        BY DEF Idle
      <4> QED
        BY <2>1, <3>2, <4>1 DEF Built, Stop, Crash, Installed
    <3> QED
      BY <3>1, <3>2
  <2>2. CASE NextDep(pr)
    <3> DEFINE d == Head(Last(j.stack))
               r == [j EXCEPT !.stack = Rest(j)]
               s == [r EXCEPT !.dep = d, !.visited[d.name] = d.ref, !.pc = "choose"]
    <3>1. (Go(pr, r) \/ Go(pr, s)) /\ j.pc = "next"
      BY <2>2 DEF NextDep, At
    <3>2. r.mode = j.mode /\ r.pc = j.pc /\ s.mode = j.mode /\ s.pc = "choose"
      BY <1>1 DEF Job
    <3>3. j.mode # "sync"
      BY <1>1, <3>1 DEF JobOK, Route
    <3> HIDE DEF r, s
    <3> QED
      BY <3>1, <3>2, <3>3
  <2>3. CASE LeaveFrame(pr) \/ Descend(pr) \/ WalkDone(pr)
    <3>1. j.pc \in {"next", "descend"} /\ j.mode # "sync"
      BY <1>1, <2>3 DEF LeaveFrame, Descend, WalkDone, At, JobOK, Route
    <3>2. CASE LeaveFrame(pr)
      <4> DEFINE k == [j EXCEPT !.stack = Front(@)]
      <4>1. Go(pr, k)
        BY <3>2 DEF LeaveFrame
      <4>2. k.mode = j.mode /\ k.pc = j.pc
        BY <1>1 DEF Job
      <4> HIDE DEF k
      <4> QED
        BY <3>1, <4>1, <4>2
    <3>3. CASE Descend(pr)
      <4> DEFINE k == [j EXCEPT !.pc = "next", !.stack = Append(@, DepsIn(Own(pr, j.dep.name), j.dep.name))]
      <4>1. Go(pr, k)
        BY <3>3 DEF Descend
      <4>2. k.mode = j.mode /\ k.pc = "next"
        BY <1>1 DEF Job
      <4> HIDE DEF k
      <4> QED
        BY <3>1, <4>1, <4>2
    <3>4. CASE WalkDone(pr)
      <4> DEFINE k == [j EXCEPT !.pc = "installed"]
      <4>1. Go(pr, k)
        BY <3>4 DEF WalkDone
      <4>2. k.mode = j.mode /\ k.pc = "installed"
        BY <1>1 DEF Job
      <4> HIDE DEF k
      <4> QED
        BY <3>1, <4>1, <4>2
    <3> QED
      BY <2>3, <3>2, <3>3, <3>4
  <2> QED
    BY <2>1, <2>2, <2>3 DEF Walk
<1>3. job'[pr] = k
  BY <1>2, GoTo DEF IInv
<1> QED
  BY <1>2, <1>3, TagQuietStep

(* Sync before its loop, and where the loop ends.                          *)
LEMMA LoopTags ==
  ASSUME IInv, IInv', TagInv, NEW pr \in Projects,
         (\E n \in Packages : RemoveOrphan(pr, n) \/ LeaveOrphan(pr, n))
           \/ OrphansGone(pr) \/ Synced(pr)
  PROVE  Tagged(pr, job[pr])'
<1> DEFINE j == job[pr]
<1>1. /\ j \in Job /\ JobOK(j) /\ Tagged(pr, j) /\ yaml[pr] \in Seq(Dependency)
  BY DEF IInv, Local, JobOK, TagInv, GlobalOK
<1>2. ASSUME NEW n \in Packages, RemoveOrphan(pr, n) \/ LeaveOrphan(pr, n)
      PROVE  Tagged(pr, job[pr])'
  <2>1. PICK k \in {[j EXCEPT !.todo = @ \ {n}, !.dep = None], [j EXCEPT !.dep = Orphan(n)],
                    [j EXCEPT !.todo = @ \ {n}, !.dep = None, !.ok = FALSE]} : Go(pr, k)
    BY <1>2 DEF RemoveOrphan, LeaveOrphan
  <2>2. k.pc = "orphans" /\ k.stack = <<yaml[pr]>> /\ yaml' = yaml
    BY <1>1, <1>2, <2>1 DEF RemoveOrphan, LeaveOrphan, At, Tagged, Job
  <2>3. job'[pr] = k
    BY <2>1, GoTo DEF IInv
  <2> QED
    BY <2>2, <2>3 DEF Tagged, Syncing
<1>3. CASE OrphansGone(pr)
  <2> DEFINE k == [j EXCEPT !.pc = "check"]
  <2>1. Go(pr, k) /\ yaml' = yaml /\ j.pc = "orphans"
    BY <1>3 DEF OrphansGone, At
  <2>2. k.pc = "check" /\ k.stack = <<yaml[pr]>>
    BY <1>1, <2>1 DEF Job, Tagged
  <2>3. job'[pr] = k
    BY <2>1, GoTo DEF IInv
  <2>4. InFrames(<<yaml[pr]>>) = ToSet(yaml[pr])
    BY <1>1, OneFrame
  <2> HIDE DEF k
  <2> QED
    BY <2>1, <2>2, <2>3, <2>4 DEF Tagged, Mid
<1>4. CASE Synced(pr)
  <2> DEFINE k == [j EXCEPT !.pc = "synced"]
  <2>1. /\ Go(pr, k) /\ yaml' = yaml /\ disk' = disk /\ j.pc = "check" /\ j.stack = <<<<>>>>
    BY <1>4 DEF Synced, At
  <2>2. k.pc = "synced" /\ k.ok = j.ok /\ k.unmoved = j.unmoved /\ j.mode = "sync"
    BY <1>1, <2>1 DEF Job, JobOK, Route
  <2>3. job'[pr] = k
    BY <2>1, GoTo DEF IInv
  <2>4. InFrames(j.stack) = {}
    BY <2>1, EmptySeq, OneFrame, ToSetEmpty
  <2> HIDE DEF k
  <2>5. k.ok => \A d \in ToSet(yaml[pr]) : d.name \in k.unmoved \/ AtTag(pr, d)
    BY <1>1, <2>1, <2>2, <2>4 DEF Tagged, Syncing, Mid
  <2> QED
    BY <2>1, <2>2, <2>3, <2>5 DEF Tagged, AtTag, Own, Mid
<1> QED
  BY <1>2, <1>3, <1>4

(* The loop takes a dependency: it is at its tag, or work begins.          *)
LEMMA CheckTags ==
  ASSUME IInv, IInv', TagInv, NEW pr \in Projects, Check(pr)
  PROVE  Tagged(pr, job[pr])'
<1> DEFINE j == job[pr]
           d == Head(Last(j.stack))
           git == Own(pr, d.name).git
           skip == \/ ~IsRepo(Own(pr, d.name)) \/ d.ref = NoRef
                   \/ d.ref # Main /\ git.head = 0
                   \/ d.ref # Main /\ git.head = Resolve(git, d.ref)
<1>1. PICK label \in {"check", "tree", "fetch"} :
        /\ Go(pr, [j EXCEPT !.dep = d, !.stack = Rest(j), !.pc = label])
        /\ label = "check" => skip
  BY DEF Check
<1>2. /\ UNCHANGED <<disk, yaml>> /\ j.pc = "check" /\ Last(j.stack) # <<>>
  BY DEF Check, At
<1>3. /\ Tagged(pr, j) /\ j.stack \in Seq(Seq(Dependency)) /\ Len(j.stack) = 1
      /\ j.mode = "sync" /\ j \in Job
  BY <1>2 DEF IInv, Local, JobOK, Job, Depth, Route, Syncing, TagInv
<1>4. j.stack # <<>>
  <2>1. (j.stack = <<>>) <=> (Len(j.stack) = 0)
    BY <1>3, EmptySeq
  <2> QED
    BY <1>3, <2>1
<1>5. /\ Rest(j) \in Seq(Seq(Dependency)) /\ d \in Dependency
      /\ InFrames(j.stack) = InFrames(Rest(j)) \cup {d}
  BY <1>2, <1>3, <1>4, TurnFrame DEF Rest
<1>6. label = "check" => AtTag(pr, d)
  <2> SUFFICES ASSUME skip, d.ref \in Versions, IsRepo(Own(pr, d.name)) PROVE git.head \in {0, d.ref}
    BY <1>1 DEF AtTag
  <2>1. d.name \in Packages /\ d.ref \in Refs \ {NoRef} /\ d.ref # NoRef
    BY <1>5, RefAssumption DEF Dependency, Refs
  <2>2. git \in Git
    BY <2>1, RepoType DEF IInv, DiskOK, Own
  <2>3. Resolve(git, d.ref) \in {0, d.ref}
    BY <2>1, <2>2, ResolveType
  <2> QED
    BY <2>1, <2>3
<1> DEFINE k == [j EXCEPT !.dep = d, !.stack = Rest(j), !.pc = label]
<1> HIDE DEF d, git, skip
<1>7. k.pc = label /\ k.mode = "sync" /\ k.dep = d /\ k.stack = Rest(j) /\ k.ok = j.ok
      /\ k.unmoved = j.unmoved
  BY <1>3, <1>5 DEF Job
<1>8. job'[pr] = k
  BY <1>1, GoTo DEF IInv
<1> HIDE DEF k
<1> SUFFICES ASSUME k.ok PROVE Tagged(pr, job[pr])'
  BY <1>7, <1>8 DEF Tagged
<1>9. /\ InFrames(j.stack) \subseteq ToSet(yaml[pr])
      /\ \A e \in ToSet(yaml[pr]) :
           e \in InFrames(j.stack) \/ e.name \in j.unmoved \/ AtTag(pr, e)
  BY <1>2, <1>3, <1>7 DEF Tagged, Syncing, Mid
<1>10. \A e \in ToSet(yaml[pr]) : \/ e \in InFrames(k.stack)
                                  \/ label # "check" /\ e = d
                                  \/ e.name \in k.unmoved
                                  \/ AtTag(pr, e)
  BY <1>5, <1>6, <1>7, <1>9
<1> QED
  BY <1>2, <1>5, <1>7, <1>8, <1>9, <1>10 DEF Tagged, AtTag, Own, Mid

(* A job keeps its mode while it works on a dependency.                    *)
LEMMA OtherWorkTags ==
  ASSUME IInv, IInv', NEW pr \in Projects, Single(pr), job[pr].mode # "sync" \/ Choose(pr)
  PROVE  Tagged(pr, job[pr])'
<1> DEFINE j == job[pr]
<1>1. JobOK(j) /\ j \in Job
  BY DEF IInv, Local, JobOK
<1>2. PICK k : Go(pr, k) /\ k.mode # "sync" /\ k.pc # "orphans"
  <2>1. CASE Choose(pr)
    <3>1. PICK mode \in {"update", "cached", "direct"}, label \in {"fetch", "clone"} :
            Go(pr, [j EXCEPT !.mode = mode, !.pc = label])
      BY <2>1 DEF Choose
    <3> DEFINE k == [j EXCEPT !.mode = mode, !.pc = label]
    <3>2. k.mode = mode /\ k.pc = label
      BY <1>1 DEF Job
    <3> HIDE DEF k
    <3> QED
      BY <3>1, <3>2 DEF k
  <2>2. CASE Go(pr, Failed(j)) /\ j.mode # "sync"
    <3>1. Failed(j).mode = j.mode /\ Failed(j).pc \in {"check", "stop", "next"}
      BY <1>1 DEF Failed, Job
    <3> QED
      BY <2>2, <3>1
  <2>3. ASSUME NEW i \in Job, NEW g, Go(pr, Fetched(i, g)), JobOK(i), i.pc \in {"fetch", "files"},
               i.mode # "sync"
        PROVE  \E k : Go(pr, k) /\ k.mode # "sync" /\ k.pc # "orphans"
    <3>1. i.dep \in Dependency /\ i.visited[i.dep.name] = i.dep.ref
      BY <2>3 DEF JobOK, Knows, Busy, Mid
    <3>2. LET k == Fetched(i, g) IN k.mode # "sync" /\ Busy(k)
      BY <2>3, <3>1, FetchedWalk DEF JobOK
    <3> QED
      BY <2>3, <3>2 DEF Busy, Mid
  <2>4. CASE Fetch(pr) /\ j.mode # "sync"
    <3>1. (\E g : Go(pr, Fetched(j, g))) /\ j.pc = "fetch"
      BY <2>4 DEF Fetch, At
    <3> QED
      BY <1>1, <2>3, <2>4, <3>1
  <2>5. CASE FetchFails(pr) /\ j.mode # "sync"
    <3>1. (Go(pr, Fetched(j, Bare)) \/ Go(pr, Failed(j))) /\ j.pc = "fetch"
      <4>1. j.mode = "cached" \/ j.mode = "update"
        BY <1>1, <2>5 DEF FetchFails, At, JobOK, Route, Job
      <4>2. CASE j.mode = "cached"
        BY <2>5, <4>2 DEF FetchFails, At
      <4>3. CASE j.mode = "update"
        BY <2>5, <4>3 DEF FetchFails, At
      <4> QED
        BY <4>1, <4>2, <4>3
    <3> QED
      BY <1>1, <2>2, <2>3, <2>5, <3>1
  <2>6. CASE CloneFiles(pr)
    <3> DEFINE i == [j EXCEPT !.target = 0]
    <3>1. Go(pr, Fetched(i, Bare)) /\ j.pc = "files"
      BY <2>6 DEF CloneFiles, At
    <3>2. 0 \in 0..MaxVersion
      BY VersionAssumption
    <3>3. i \in Job /\ i.pc = "files" /\ i.mode = j.mode /\ j.mode # "sync" /\ SameWalk(j, i)
      BY <1>1, <3>1, <3>2 DEF Job, JobOK, Route, SameWalk
    <3> HIDE DEF i
    <3>4. Route(i) /\ Depth(i) /\ i.dep \in Dependency /\ i.visited[i.dep.name] = i.dep.ref
      BY <1>1, <3>1, <3>3 DEF JobOK, Route, Depth, Knows, Busy, Syncing, SameWalk, Mid
    <3>5. LET k == Fetched(i, Bare) IN k.mode # "sync" /\ Busy(k)
      BY <3>3, <3>4, FetchedWalk
    <3> QED
      BY <3>1, <3>5 DEF Busy, Mid
  <2>7. CASE CheckoutHead(pr) /\ j.mode # "sync"
    <3>1. PICK k \in Job : /\ Go(pr, k) /\ k.mode = j.mode
                           /\ j.mode = "update" => k.pc = "descend"
                           /\ j.mode = "cached" => k.pc = "copy"
                           /\ j.mode = "direct" => k.pc = "script"
      BY <2>7, CheckoutHeadOutcome
    <3>2. j.mode \in {"update", "cached", "direct"}
      BY <1>1, <2>7 DEF CheckoutHead, At, JobOK, Route, Job
    <3> QED
      BY <2>7, <3>1, <3>2
  <2>8. CASE j.mode # "sync" /\ (CheckoutTree(pr) \/ CloneInit(pr) \/ CloneTransfer(pr)
               \/ (\E part \in {"git", "tree"} : CopyPart(pr, part)) \/ RunScript(pr))
    <3>1. CASE CheckoutTree(pr)
      <4> DEFINE k == [j EXCEPT !.pc = "head",
                         !.target = Resolve(disk[Place(j, pr)].git, j.dep.ref)]
      <4>1. Go(pr, k)
        BY <3>1 DEF CheckoutTree
      <4>2. k.mode = j.mode /\ k.pc = "head"
        BY <1>1 DEF Job
      <4> HIDE DEF k
      <4> QED
        BY <2>8, <4>1, <4>2
    <3>2. CASE CloneTransfer(pr)
      <4> DEFINE k == [j EXCEPT !.pc = "files", !.target = published[j.dep.name]]
      <4>1. Go(pr, k)
        BY <3>2 DEF CloneTransfer
      <4>2. k.mode = j.mode /\ k.pc = "files"
        BY <1>1 DEF Job
      <4> HIDE DEF k
      <4> QED
        BY <2>8, <4>1, <4>2
    <3>3. CASE CloneInit(pr) \/ RunScript(pr)
      <4>1. PICK label \in {"transfer", "descend"} : Go(pr, [j EXCEPT !.pc = label])
        BY <3>3 DEF CloneInit, RunScript
      <4> DEFINE k == [j EXCEPT !.pc = label]
      <4>2. k.mode = j.mode /\ k.pc = label
        BY <1>1 DEF Job
      <4> HIDE DEF k
      <4> QED
        BY <2>8, <4>1, <4>2 DEF k
    <3>4. ASSUME NEW part \in {"git", "tree"}, CopyPart(pr, part)
          PROVE  \E k : Go(pr, k) /\ k.mode # "sync" /\ k.pc # "orphans"
      <4>1. PICK label \in {"script", "copy"} : Go(pr, [j EXCEPT !.todo = @ \ {part}, !.pc = label])
        BY <3>4 DEF CopyPart
      <4> DEFINE k == [j EXCEPT !.todo = @ \ {part}, !.pc = label]
      <4>2. k.mode = j.mode /\ k.pc = label
        BY <1>1 DEF Job
      <4> HIDE DEF k
      <4> QED
        BY <2>8, <4>1, <4>2 DEF k
    <3> QED
      BY <2>8, <3>1, <3>2, <3>3, <3>4
  <2>9. CASE CheckoutFails(pr) \/ CloneRefused(pr) \/ CloneFails(pr)
               \/ CopyFails(pr)
    <3>1. Go(pr, Failed(j))
      BY <2>9 DEF CheckoutFails, CloneRefused, CloneFails, CopyFails, Fail
    <3>2. j.mode # "sync"
      BY <1>1, <2>9 DEF JobOK, Route, Choose, CheckoutFails, CloneRefused, CloneFails,
                        CopyFails, At
    <3> QED
      BY <2>2, <3>1, <3>2
  <2> QED
    BY <2>1, <2>4, <2>5, <2>6, <2>7, <2>8, <2>9 DEF Single
<1>3. job'[pr] = k
  BY <1>2, GoTo DEF IInv
<1> QED
  BY <1>2, <1>3, TagQuietStep

(* What sync does to the directory of a dependency.                        *)
LEMMA SyncWorkTags ==
  ASSUME IInv, IInv', TagInv, NEW pr \in Projects, Single(pr), job[pr].mode = "sync", ~Choose(pr)
  PROVE  Tagged(pr, job[pr])'
<1> DEFINE j == job[pr]
           n == j.dep.name
           place == Place(j, pr)
<1>1. /\ JobOK(j) /\ j \in Job /\ GlobalOK /\ DiskOK
  BY DEF IInv, Local, JobOK
<1>2. /\ j.pc \in {"fetch", "tree", "head"} /\ yaml' = yaml
      /\ Fetch(pr) \/ FetchFails(pr) \/ CheckoutTree(pr) \/ CheckoutFails(pr) \/ CheckoutHead(pr)
  <2>1. j.pc \notin {"choose", "clone", "transfer", "files", "copy", "script"}
    BY <1>1 DEF JobOK, Route
  <2>2. Fetch(pr) \/ FetchFails(pr) \/ CheckoutTree(pr) \/ CheckoutFails(pr) \/ CheckoutHead(pr)
    BY <2>1 DEF Single, CloneInit, CloneRefused, CloneTransfer, CloneFails, CloneFiles,
                CopyPart, CopyFails, RunScript, At
  <2> QED
    BY <2>2 DEF Fetch, FetchFails, CheckoutTree, CheckoutFails, CheckoutHead, At, Fail
<1>3. /\ Syncing(j) /\ j.pc \in Mid /\ j.dep \in Dependency /\ n \in Packages
      /\ j.dep.ref \in Refs \ {NoRef}
      /\ place = <<pr, n>> /\ disk[place] \in Dir \cup {None}
  BY <1>1, <1>2 DEF Syncing, Mid, JobOK, Knows, Dependency, Place, DiskOK
<1>4. ASSUME NEW k, Go(pr, k), ~k.ok, k.pc # "orphans" PROVE Tagged(pr, job[pr])'
  BY <1>1, <1>4, GoTo, TagQuietStep
<1>5. Failed(j).pc = "check" /\ ~Failed(j).ok
  BY <1>1 DEF Failed, Job
<1>6. CASE Fetch(pr)
  <2> DEFINE git == [disk[place].git EXCEPT !.fetched = published[n]]
             d == [disk[place] EXCEPT !.git = git]
             k == Fetched(j, git)
  <2>1. IsRepo(disk[place]) /\ Write(place, d) /\ Go(pr, k) /\ j.pc = "fetch"
    BY <1>6 DEF Fetch, At
  <2>2. disk[place] \in Dir /\ disk[place].git \in Git
    BY <1>3, <2>1, RepoType
  <2>3. published[n] \in 0..MaxVersion
    BY <1>1, <1>3, VersionAssumption DEF GlobalOK, Versions
  <2>4. git \in Git
    BY <2>2, <2>3 DEF Git
  <2>5. d \in Dir /\ d.git = git
    BY <2>2, <2>4 DEF Dir
  <2> HIDE DEF git, d
  <2>6. /\ \A m \in Packages : m # n => Own(pr, m)' = Own(pr, m)
        /\ disk'[<<pr, n>>] = d
    BY <1>1, <1>3, <2>1, <2>5, WriteOwn
  <2>7. /\ SameWalk(j, k) /\ k.mode = "sync" /\ (k.ok => j.ok) /\ k.pc \in {"check", "tree"}
        /\ k.ok /\ k.pc = "check" => git.head = Resolve(git, j.dep.ref)
    BY <1>1, <2>1, <2>4, FetchedSync
  <2>8. j.dep.ref \in Versions => Resolve(git, j.dep.ref) \in {0, j.dep.ref}
    BY <1>3, <2>4, ResolveType
  <2>9. job'[pr] = k
    BY <1>1, <2>1, GoTo
  <2> HIDE DEF k
  <2> QED
    BY <1>2, <1>3, <2>5, <2>6, <2>7, <2>8, <2>9, TagWork
<1>7. CASE FetchFails(pr)
  <2> DEFINE k == [j EXCEPT !.pc = "check"]
  <2>1. disk' = disk /\ (Go(pr, Failed(j)) \/ (Go(pr, k) /\ j.dep.ref = Main))
    BY <1>7 DEF FetchFails
  <2>2. SameWalk(j, k) /\ k.mode = "sync" /\ k.ok = j.ok /\ k.pc = "check"
    BY <1>1 DEF Job, SameWalk
  <2> HIDE DEF k
  <2>3. CASE Go(pr, k) /\ j.dep.ref = Main
    <3>1. job'[pr] = k /\ j.dep.ref \notin Versions
      BY <1>1, <2>3, GoTo, RefAssumption
    <3>2. \A m \in Packages : Own(pr, m)' = Own(pr, m)
      BY <2>1 DEF Own
    <3> QED
      BY <1>2, <1>3, <2>2, <3>1, <3>2, TagWork
  <2> QED
    BY <1>4, <1>5, <2>1, <2>3
<1>8. CASE CheckoutFails(pr)
  BY <1>4, <1>5, <1>8 DEF CheckoutFails, Fail
<1>9. CASE CheckoutTree(pr)
  <2> DEFINE target == Resolve(disk[place].git, j.dep.ref)
             d == [disk[place] EXCEPT !.tree = target]
             k == [j EXCEPT !.pc = "head", !.target = target]
  <2>1. IsRepo(disk[place]) /\ Write(place, d) /\ Go(pr, k)
    BY <1>9 DEF CheckoutTree
  <2>2. disk[place] \in Dir /\ disk[place].git \in Git
    BY <1>3, <2>1, RepoType
  <2>3. target \in 0..MaxVersion
    BY <1>3, <2>2, ResolveType
  <2> HIDE DEF target
  <2>4. d \in Dir
    BY <2>2, <2>3 DEF Dir
  <2>5. \A m \in Packages : m # n => Own(pr, m)' = Own(pr, m)
    BY <1>1, <1>3, <2>1, <2>4, WriteOwn
  <2>6. SameWalk(j, k) /\ k.mode = "sync" /\ k.ok = j.ok /\ k.pc = "head"
    BY <1>1 DEF Job, SameWalk
  <2>7. job'[pr] = k
    BY <1>1, <2>1, GoTo
  <2> HIDE DEF k
  <2> QED
    BY <1>2, <1>3, <2>5, <2>6, <2>7, TagWork
<1>10. CASE CheckoutHead(pr)
  <2>1. PICK d \in Dir \cup {None}, k \in Job :
          /\ Write(place, d) /\ Go(pr, k) /\ SameWalk(j, k) /\ k.mode = j.mode /\ k.ok = j.ok
          /\ k.pc = "check"
          /\ n \notin k.unmoved => d.git.head = j.target
    BY <1>10, CheckoutHeadOutcome
  <2>2. j.dep.ref \in Versions => j.target = j.dep.ref
    BY <1>1, <1>10 DEF JobOK, Knows, CheckoutHead, At
  <2>3. /\ \A m \in Packages : m # n => Own(pr, m)' = Own(pr, m)
        /\ disk'[<<pr, n>>] = d
    BY <1>1, <1>3, <2>1, WriteOwn
  <2>4. job'[pr] = k
    BY <1>1, <2>1, GoTo
  <2> QED
    BY <1>2, <1>3, <2>1, <2>2, <2>3, <2>4, TagWork
<1> QED
  BY <1>2, <1>6, <1>7, <1>8, <1>9, <1>10

LEMMA TagStep ==
  ASSUME IInv, IInv', TagInv, \A y \in Manifests : OneRef(y), [Next]_vars
  PROVE  TagInv'
<1>1. ASSUME NEW q \in Projects, job'[q] = job[q], yaml'[q] = yaml[q],
             \A n \in Packages : Own(q, n)' = Own(q, n)
      PROVE  Tagged(q, job[q])'
  <2>1. ToSet(yaml[q]) \subseteq Dependency
    BY NamesArePackages DEF IInv, GlobalOK
  <2>2. \A d \in ToSet(yaml[q]) : disk'[<<q, d.name>>] = disk[<<q, d.name>>]
    BY <1>1, <2>1 DEF Own, Dependency
  <2>3. Tagged(q, job[q])
    BY DEF TagInv
  <2> QED
    BY <1>1, <2>2, <2>3 DEF Tagged, AtTag, Own
<1>2. ASSUME NEW pr \in Projects, Begin(pr) \/ Step(pr) \/ Crash(pr) \/ Edit(pr)
      PROVE  TagInv'
  <2>1. ASSUME NEW q \in Projects, q # pr PROVE job'[q] = job[q] /\ yaml'[q] = yaml[q]
    BY <1>2, <2>1, JobsOfOthers
  <2>2. ASSUME NEW q \in Projects, q # pr PROVE OneRef(yaml[q])' /\ Tagged(q, job[q])'
    <3>1. \A n \in Packages : Own(q, n)' = Own(q, n)
      BY <1>2, <2>2, FilesOfOthers
    <3> QED
      BY <1>1, <2>1, <2>2, <3>1 DEF TagInv, OneRef
  <2>3. OneRef(yaml'[pr])
    <3>1. CASE Edit(pr)
      BY <3>1 DEF Edit, IInv, GlobalOK
    <3>2. CASE Installed(pr)
      <4>1. CASE job[pr].cmd = "add"
        <5>1. yaml'[pr] = AddDependency(yaml[pr], job[pr].asked)
          BY <3>2, <4>1 DEF Installed, IInv, GlobalOK
        <5>2. job[pr].asked \in Dependency /\ yaml[pr] \in Seq(Dependency) /\ OneRef(yaml[pr])
          BY <4>1 DEF IInv, Local, JobOK, Depth, GlobalOK, TagInv
        <5> QED
          BY <5>1, <5>2, AddDependencyOneRef
      <4>2. CASE job[pr].cmd # "add"
        BY <3>2, <4>2 DEF Installed, TagInv
      <4> QED
        BY <4>1, <4>2
    <3>3. CASE ~Edit(pr) /\ ~Installed(pr)
      <4>1. yaml' = yaml
        <5>1. CASE Begin(pr) \/ Crash(pr) \/ Built(pr) \/ Stop(pr) \/ Sync(pr) \/ Walk(pr)
          BY <3>3, <5>1 DEF Begin, BeginCompile, BeginInstall, BeginAdd, Crash, Built, Stop, Sync,
             RemoveOrphan, LeaveOrphan, OrphansGone, Check, Synced, Gate, Walk, NextDep, LeaveFrame, Descend,
             WalkDone
        <5>2. CASE Single(pr)
          BY <5>2 DEF Single, Choose, Fetch, FetchFails, CheckoutTree, CheckoutFails, CheckoutHead,
             CloneInit, CloneRefused, CloneTransfer, CloneFails, CloneFiles,
             CopyPart, CopyFails, RunScript, Fail
        <5> QED
          BY <1>2, <3>3, <5>1, <5>2 DEF Step
      <4> QED
        BY <4>1 DEF TagInv
    <3> QED
      BY <3>1, <3>2, <3>3
  <2>4. Tagged(pr, job[pr])'
    <3>1. CASE Edit(pr)
      <4>1. job'[pr].pc = "idle"
        BY <3>1 DEF Edit, At
      <4> QED
        BY <4>1 DEF Tagged, Syncing
    <3>2. CASE Begin(pr)
      BY <3>2, BeginTags
    <3>3. CASE Crash(pr) \/ Built(pr) \/ Stop(pr) \/ Walk(pr)
      BY <3>3, WalkTags
    <3>4. CASE Sync(pr)
      BY <3>4, WalkTags, LoopTags, CheckTags DEF Sync
    <3>5. CASE Single(pr)
      BY <3>5, OtherWorkTags, SyncWorkTags
    <3> QED
      BY <1>2, <3>1, <3>2, <3>3, <3>4, <3>5 DEF Step
  <2> QED
    BY <2>2, <2>3, <2>4 DEF TagInv
<1>3. CASE \E n \in Packages : ClearCache(n)
  BY <1>1, <1>3, ClearsCache DEF TagInv
<1>4. CASE (\E n \in Packages : Publish(n)) \/ UNCHANGED vars
  <2>1. job' = job /\ yaml' = yaml /\ \A q \in Projects, n \in Packages : Own(q, n)' = Own(q, n)
    BY <1>4 DEF Publish, vars, Own
  <2> QED
    BY <1>1, <2>1 DEF TagInv
<1> QED
  BY <1>2, <1>3, <1>4 DEF Next

(* When package_sync reports success, no direct dependency is checked out  *)
(* at another commit than its tag, unless package_git_checkout could not   *)
(* move its HEAD there and said nothing of it, or a sn.yaml names a        *)
(* package twice with different refs.                                      *)
THEOREM SyncReachesTags ==
  ASSUME \A y \in Manifests : OneRef(y)
  PROVE  Spec => []SyncedAtTag
<1>1. Init => TagInv
  <2> SUFFICES ASSUME Init, NEW pr \in Projects PROVE OneRef(yaml[pr]) /\ Tagged(pr, job[pr])
    BY DEF TagInv
  <2>1. yaml[pr] \in Manifests /\ job[pr] = Idle
    BY DEF Init
  <2>2. Tagged(pr, Idle)
    BY DEF Tagged, Idle, Syncing
  <2> QED
    BY <2>1, <2>2
<1>2. IInv /\ IInv' /\ TagInv /\ [Next]_vars => TagInv'
  BY TagStep
<1>3. IInv /\ TagInv => SyncedAtTag
  <2> SUFFICES ASSUME IInv, TagInv, NEW pr \in Projects, job[pr].pc = "synced", job[pr].ok,
                      NEW i \in DOMAIN yaml[pr], yaml[pr][i].name \notin job[pr].unmoved
               PROVE  AtTag(pr, yaml[pr][i])
    BY DEF SyncedAtTag, At, AtTag
  <2>1. yaml[pr][i] \in ToSet(yaml[pr])
    BY DEF ToSet
  <2> QED
    BY <2>1 DEF TagInv, Tagged, Mid
<1> QED
  BY <1>1, <1>2, <1>3, SpecIInv, PTL DEF Spec

--------------------------------------------------------------------------------
(***************************************************************************)
(* Refs.  The cache belongs to everybody: between a job's checkout in it   *)
(* and the copy another process may check out something else, or clear it. *)
(* What a job got from a cache written to meanwhile is exempt (raced), and *)
(* so is HEAD where the calls that move it failed (unmoved).               *)
(***************************************************************************)
AtRef(n, d, ref, unmoved) ==
  LET k == Resolve(d.git, ref) IN d.tree = k /\ (n \notin unmoved => d.git.head = k)

(* How far the dependency at hand has come to its ref.                     *)
Halfway(pr, j) ==
  LET n == j.dep.name
      here == disk[Place(j, pr)]
      c == disk[<<Cache, n>>]
  IN  /\ j.pc = "head" => here.tree = j.target /\ j.target = Resolve(here.git, j.dep.ref)
      /\ j.pc = "copy" =>
           /\ AtRef(n, c, j.dep.ref, j.unmoved) /\ c.tree # 0
           /\ "git" \notin j.todo => Own(pr, n).git = c.git
           /\ "tree" \notin j.todo => Own(pr, n) # None /\ Own(pr, n).tree = c.tree
      /\ j.pc \in {"script", "descend"} => AtRef(n, Own(pr, n), j.dep.ref, j.unmoved)

(* While nothing has failed, each package the walk is done with is at the  *)
(* ref it was first asked for.                                             *)
RefKept(pr, j) ==
  j.ok /\ Walking(j) =>
    /\ Busy(j) /\ j.dep.ref # NoRef /\ j.dep.name \notin raced[pr] => Halfway(pr, j)
    /\ \A n \in Seen(j) \ raced[pr] : ~(Busy(j) /\ n = j.dep.name) /\ j.visited[n] # NoRef =>
         AtRef(n, Own(pr, n), j.visited[n], j.unmoved)

RefInv == \A pr \in Projects : RefKept(pr, job[pr])

(* A job that stands still: its own files do too, and what happens to the  *)
(* cache it uses is noted.                                                 *)
LEMMA RefSpectator ==
  ASSUME IInv, Watch, RefInv, NEW q \in Projects, job'[q] = job[q],
         \A n \in Packages : Own(q, n)' = Own(q, n)
  PROVE  RefKept(q, job[q])'
<1> DEFINE j == job[q]
           n == j.dep.name
<1> SUFFICES ASSUME j.ok, Walking(j)
             PROVE  /\ Busy(j) /\ j.dep.ref # NoRef /\ n \notin raced'[q] => Halfway(q, job[q])'
                    /\ \A m \in Seen(j) \ raced'[q] : ~(Busy(j) /\ m = n) /\ j.visited[m] # NoRef =>
                         AtRef(m, disk'[<<q, m>>], j.visited[m], j.unmoved)
  BY DEF RefKept, Own
<1>1. /\ RefKept(q, j) /\ JobOK(j) /\ raced[q] \subseteq raced'[q]
      /\ \A m \in Packages : disk'[<<q, m>>] = disk[<<q, m>>]
  BY Watched DEF RefInv, IInv, Local, Own, Walking, Busy, Mid
<1>2. ASSUME Busy(j), j.dep.ref # NoRef, n \notin raced'[q] PROVE Halfway(q, job[q])'
  <2>1. Halfway(q, j) /\ n \in Packages /\ disk'[<<q, n>>] = disk[<<q, n>>]
    BY <1>1, <1>2 DEF RefKept, JobOK, Knows, Busy, Dependency
  <2>2. j.pc = "copy" => j.mode = "cached"
    BY <1>1 DEF JobOK, Route
  <2>3. j.mode = "cached" /\ j.pc \in {"head", "copy"} => disk'[<<Cache, n>>] = disk[<<Cache, n>>]
    BY <1>2, <2>1, Watched DEF UsesCache
  <2>4. j.pc = "head" => disk'[Place(j, q)] = disk[Place(j, q)]
    BY <2>1, <2>3 DEF Place
  <2>5. Place(job[q], q)' = Place(j, q)
    BY DEF Place
  <2> QED
    BY <2>1, <2>2, <2>3, <2>4, <2>5 DEF Halfway, Own
<1>3. ASSUME NEW m \in Seen(j) \ raced'[q], ~(Busy(j) /\ m = n), j.visited[m] # NoRef
      PROVE  AtRef(m, disk'[<<q, m>>], j.visited[m], j.unmoved)
  BY <1>1, <1>3 DEF RefKept, Seen, Own
<1> QED
  BY <1>2, <1>3

(* A job that has failed, or does not walk, has nothing to show.           *)
LEMMA RefGone ==
  ASSUME NEW pr \in Projects, NEW k, job'[pr] = k, ~k.ok \/ ~Walking(k)
  PROVE  RefKept(pr, job[pr])'
BY DEF RefKept

(* A job that is still at work on the same dependency.                     *)
LEMMA RefWork ==
  ASSUME Watch, RefInv, NEW pr \in Projects, NEW k, job'[pr] = k, Busy(job[pr]),
         SameWalk(job[pr], k), k.ok = job[pr].ok, Busy(k),
         \A n \in Packages : n # job[pr].dep.name => Own(pr, n)' = Own(pr, n),
         k.ok /\ k.dep.ref # NoRef /\ k.dep.name \notin raced'[pr] => Halfway(pr, job[pr])'
  PROVE  RefKept(pr, job[pr])'
<1> DEFINE j == job[pr]
<1>1. RefKept(pr, j) /\ Walking(j) /\ raced[pr] \subseteq raced'[pr]
  BY Watched DEF RefInv, Walking, Busy, Mid
<1>2. Seen(k) = Seen(j) /\ k.visited = j.visited /\ k.dep = j.dep /\ j.unmoved \subseteq k.unmoved
  BY DEF SameWalk, Seen
<1>3. ASSUME k.ok, NEW n \in Seen(k) \ raced'[pr], n # j.dep.name, j.visited[n] # NoRef
      PROVE  AtRef(n, disk'[<<pr, n>>], j.visited[n], k.unmoved)
  <2>1. AtRef(n, Own(pr, n), j.visited[n], j.unmoved) /\ n \in Packages
    BY <1>1, <1>2, <1>3 DEF RefKept, Seen
  <2> QED
    BY <1>2, <1>3, <2>1 DEF AtRef, Own
<1> QED
  BY <1>1, <1>2, <1>3 DEF RefKept, Own

(* A job that is between dependencies, and forgets nothing.                *)
LEMMA RefBetween ==
  ASSUME IInv, Watch, RefInv, NEW pr \in Projects, NEW k, job'[pr] = k, disk' = disk,
         job[pr].pc = "next", k.mode = job[pr].mode, k.ok = job[pr].ok,
         k.unmoved = job[pr].unmoved,
         \A n \in Seen(k) : \/ k.pc = "choose" /\ n = k.dep.name
                            \/ n \in Seen(job[pr]) /\ k.visited[n] = job[pr].visited[n],
         k.pc \in {"next", "installed", "choose"}
  PROVE  RefKept(pr, job[pr])'
<1> DEFINE j == job[pr]
<1>1. /\ RefKept(pr, j) /\ Walking(j) /\ ~Busy(j) /\ j.mode # "sync"
      /\ raced[pr] \subseteq raced'[pr]
  BY Watched DEF RefInv, Walking, Busy, Mid, IInv, Local, JobOK, Route
<1>2. k.pc = "choose" => Busy(k)
  BY <1>1 DEF Busy, Mid
<1>3. ASSUME k.ok, NEW n \in Seen(k) \ raced'[pr], ~(Busy(k) /\ n = k.dep.name),
             k.visited[n] # NoRef
      PROVE  AtRef(n, disk'[<<pr, n>>], k.visited[n], k.unmoved)
  BY <1>1, <1>2, <1>3 DEF RefKept, Own
<1>4. Busy(k) => Halfway(pr, job[pr])'
  BY DEF Busy, Mid, Halfway
<1> QED
  BY <1>1, <1>3, <1>4 DEF RefKept, Own

LEMMA BeginRefs ==
  ASSUME IInv, NEW pr \in Projects,
         Begin(pr) \/ Gate(pr) \/ Built(pr) \/ Stop(pr) \/ Crash(pr) \/ Installed(pr)
  PROVE  RefKept(pr, job[pr])'
<1>1. ASSUME NEW k, Go(pr, k), ~Walking(k) PROVE RefKept(pr, job[pr])'
  BY <1>1, GoTo, RefGone DEF IInv
<1>2. ASSUME NEW k, Go(pr, k), k.pc = "next", Seen(k) = {}
      PROVE  RefKept(pr, job[pr])'
  <2>1. job'[pr] = k
    BY <1>2, GoTo DEF IInv
  <2> QED
    BY <1>2, <2>1 DEF RefKept, Busy, Mid
<1>3. ASSUME NEW c \in {"compile", "install"},
             Go(pr, [Idle EXCEPT !.cmd = c, !.pc = "next", !.stack = <<yaml[pr]>>])
      PROVE  RefKept(pr, job[pr])'
  <2> DEFINE k == [Idle EXCEPT !.cmd = c, !.pc = "next", !.stack = <<yaml[pr]>>]
  <2>1. k.pc = "next" /\ k.visited = Idle.visited
    BY DEF Idle
  <2>2. Go(pr, k)
    BY <1>3
  <2> HIDE DEF k
  <2>3. Seen(k) = {}
    BY <2>1, IdleIsJob DEF Seen
  <2> QED
    BY <1>2, <2>1, <2>2, <2>3
<1>4. CASE Gate(pr) \/ Built(pr) \/ Stop(pr) \/ Crash(pr) \/ Installed(pr)
  <2> DEFINE built == [Idle EXCEPT !.cmd = "compile", !.pc = "built"]
             walk == [Idle EXCEPT !.cmd = "compile", !.pc = "next", !.stack = <<yaml[pr]>>]
  <2>1. Go(pr, Idle) \/ Go(pr, built) \/ Go(pr, walk)
    <3>1. CASE Gate(pr)
      BY <3>1 DEF Gate
    <3>2. CASE ~Gate(pr)
      BY <1>4, <3>2 DEF Built, Stop, Crash, Installed
    <3> QED
      BY <3>1, <3>2
  <2>2. Idle.pc = "idle" /\ built.pc = "built"
    BY DEF Idle
  <2> HIDE DEF built
  <2>3. CASE Go(pr, walk)
    BY <1>3, <2>3
  <2> QED
    BY <1>1, <2>1, <2>2, <2>3 DEF Walking, Busy, Mid
<1>5. CASE BeginCompile(pr)
  <2> DEFINE gone == {n \in Packages : Own(pr, n) # None} \ Collected(pr)
             k == [Idle EXCEPT !.cmd = "compile", !.mode = "sync", !.pc = "orphans",
                     !.stack = <<yaml[pr]>>, !.todo = gone]
  <2>1. Go(pr, k)
    BY <1>5 DEF BeginCompile
  <2>2. k.mode = "sync" /\ k.pc = "orphans"
    BY DEF Idle
  <2> HIDE DEF k
  <2> QED
    BY <1>1, <2>1, <2>2 DEF Walking, Busy, Mid
<1>6. CASE BeginInstall(pr)
  BY <1>3, <1>6 DEF BeginInstall
<1>7. ASSUME NEW d \in Asked, BeginAdd(pr, d) PROVE RefKept(pr, job[pr])'
  <2> DEFINE k == [Idle EXCEPT !.cmd = "add", !.pc = "choose", !.dep = d,
                     !.asked = d, !.visited[d.name] = d.ref]
  <2>1. Go(pr, k)
    BY <1>7 DEF BeginAdd
  <2>2. /\ k.mode = "none" /\ k.pc = "choose" /\ k.dep = d
        /\ k.visited = [Idle.visited EXCEPT ![d.name] = d.ref]
    BY DEF Idle
  <2>3. job'[pr] = k
    BY <2>1, GoTo DEF IInv
  <2> HIDE DEF k
  <2>4. \A n \in Seen(k) : n = d.name
    BY <2>2, IdleIsJob DEF Seen
  <2>5. Busy(k) /\ Halfway(pr, job[pr])'
    BY <2>2, <2>3 DEF Busy, Mid, Halfway
  <2> QED
    BY <2>2, <2>3, <2>4, <2>5 DEF RefKept
<1> QED
  BY <1>4, <1>5, <1>6, <1>7 DEF Begin

(* Sync's own steps are no part of a walk.                                 *)
LEMMA SyncRefs ==
  ASSUME IInv, NEW pr \in Projects,
         \/ \E n \in Packages : RemoveOrphan(pr, n) \/ LeaveOrphan(pr, n)
         \/ OrphansGone(pr) \/ Check(pr) \/ Synced(pr)
  PROVE  RefKept(pr, job[pr])'
<1> DEFINE j == job[pr]
<1>1. j \in Job /\ j.mode = "sync"
  BY DEF IInv, Local, JobOK, Route, RemoveOrphan, LeaveOrphan, OrphansGone, Check, Synced, At
<1>2. PICK k : Go(pr, k) /\ k.mode = "sync"
             /\ k.pc \in {"orphans", "check", "synced", "tree", "fetch"}
  <2>1. ASSUME NEW n \in Packages, RemoveOrphan(pr, n) \/ LeaveOrphan(pr, n)
        PROVE  \E k : Go(pr, k) /\ k.mode = "sync" /\ k.pc = "orphans"
    <3> DEFINE gone == [j EXCEPT !.todo = @ \ {n}, !.dep = None]
               left == [j EXCEPT !.todo = @ \ {n}, !.dep = None, !.ok = FALSE]
               on == [j EXCEPT !.dep = Orphan(n)]
    <3>1. j.pc = "orphans" /\ (Go(pr, gone) \/ Go(pr, left) \/ Go(pr, on))
      BY <2>1 DEF RemoveOrphan, LeaveOrphan, At
    <3>2. /\ gone.mode = j.mode /\ gone.pc = j.pc /\ left.mode = j.mode /\ left.pc = j.pc
          /\ on.mode = j.mode /\ on.pc = j.pc
      BY <1>1 DEF Job
    <3> HIDE DEF gone, left, on
    <3> QED
      BY <1>1, <3>1, <3>2
  <2>2. CASE OrphansGone(pr) \/ Synced(pr)
    <3>1. PICK label \in {"check", "synced"} : Go(pr, [j EXCEPT !.pc = label])
      BY <2>2 DEF OrphansGone, Synced
    <3> DEFINE k == [j EXCEPT !.pc = label]
    <3>2. k.mode = j.mode /\ k.pc = label
      BY <1>1 DEF Job
    <3> HIDE DEF k
    <3> QED
      BY <1>1, <3>1, <3>2 DEF k
  <2>3. CASE Check(pr)
    <3> DEFINE d == Head(Last(j.stack))
    <3>1. PICK label \in {"check", "tree", "fetch"} :
            Go(pr, [j EXCEPT !.dep = d, !.stack = Rest(j), !.pc = label])
      BY <2>3 DEF Check
    <3> DEFINE k == [j EXCEPT !.dep = d, !.stack = Rest(j), !.pc = label]
    <3>2. k.mode = j.mode /\ k.pc = label
      BY <1>1 DEF Job
    <3> HIDE DEF k
    <3> QED
      BY <1>1, <3>1, <3>2 DEF k
  <2> QED
    BY <2>1, <2>2, <2>3
<1>3. job'[pr] = k
  BY <1>2, GoTo DEF IInv
<1> QED
  BY <1>2, <1>3, RefGone DEF Walking, Busy

LEMMA WalkRefs ==
  ASSUME IInv, Watch, RefInv, NEW pr \in Projects,
         NextDep(pr) \/ LeaveFrame(pr) \/ Descend(pr) \/ WalkDone(pr)
  PROVE  RefKept(pr, job[pr])'
<1> DEFINE j == job[pr]
<1>1. j \in Job /\ JobOK(j) /\ disk' = disk
  BY DEF IInv, Local, JobOK, NextDep, LeaveFrame, Descend, WalkDone
<1>2. CASE NextDep(pr)
  <2> DEFINE d == Head(Last(j.stack))
             passed == [j EXCEPT !.stack = Rest(j)]
             taken == [passed EXCEPT !.dep = d, !.visited[d.name] = d.ref, !.pc = "choose"]
  <2>1. (Go(pr, passed) \/ Go(pr, taken)) /\ j.pc = "next"
    BY <1>2 DEF NextDep, At
  <2> HIDE DEF d
  <2>2. /\ passed.pc = "next" /\ passed.mode = j.mode /\ passed.ok = j.ok
        /\ passed.visited = j.visited /\ passed.unmoved = j.unmoved
    BY <1>1, <2>1 DEF Job
  <2>3. /\ taken.pc = "choose" /\ taken.mode = j.mode /\ taken.ok = j.ok /\ taken.dep = d
        /\ taken.visited = [j.visited EXCEPT ![d.name] = d.ref] /\ taken.unmoved = j.unmoved
        /\ j.visited \in [Packages -> Refs \cup {None}]
    BY <1>1 DEF Job
  <2> HIDE DEF passed, taken
  <2>4. \A n \in Seen(passed) : n \in Seen(j) /\ passed.visited[n] = j.visited[n]
    BY <2>2 DEF Seen
  <2>5. \A n \in Seen(taken) : \/ taken.pc = "choose" /\ n = taken.dep.name
                               \/ n \in Seen(j) /\ taken.visited[n] = j.visited[n]
    BY <2>3 DEF Seen
  <2>6. CASE Go(pr, passed)
    <3>1. job'[pr] = passed
      BY <2>6, GoTo DEF IInv
    <3> QED
      BY <1>1, <2>1, <2>2, <2>4, <3>1, RefBetween
  <2>7. CASE Go(pr, taken)
    <3>1. job'[pr] = taken
      BY <2>7, GoTo DEF IInv
    <3>2. /\ taken.pc \in {"next", "installed", "choose"} /\ taken.mode = j.mode
          /\ taken.ok = j.ok /\ taken.unmoved = j.unmoved
      BY <2>3
    <3> QED
      BY <1>1, <2>1, <2>5, <3>1, <3>2, RefBetween
  <2> QED
    BY <2>1, <2>6, <2>7
<1>3. CASE LeaveFrame(pr) \/ WalkDone(pr)
  <2>1. PICK k \in {[j EXCEPT !.stack = Front(@)], [j EXCEPT !.pc = "installed"]} : Go(pr, k)
    BY <1>3 DEF LeaveFrame, WalkDone
  <2>2. j.pc = "next"
    BY <1>3 DEF LeaveFrame, WalkDone, At
  <2>3. /\ k.pc \in {"next", "installed"} /\ k.mode = j.mode /\ k.ok = j.ok
        /\ k.visited = j.visited /\ k.unmoved = j.unmoved
    BY <1>1, <2>2 DEF Job
  <2>4. \A n \in Seen(k) : n \in Seen(j) /\ k.visited[n] = j.visited[n]
    BY <2>3 DEF Seen
  <2>5. job'[pr] = k
    BY <2>1, GoTo DEF IInv
  <2> QED
    BY <1>1, <2>2, <2>3, <2>4, <2>5, RefBetween
<1>4. CASE Descend(pr)
  <2> DEFINE n == j.dep.name
             f == DepsIn(Own(pr, n), n)
             k == [j EXCEPT !.pc = "next", !.stack = Append(@, f)]
  <2>1. Go(pr, k) /\ j.pc = "descend"
    BY <1>4 DEF Descend, At
  <2>2. /\ k.pc = "next" /\ k.mode = j.mode /\ k.ok = j.ok /\ k.visited = j.visited
        /\ k.unmoved = j.unmoved
    BY <1>1 DEF Job
  <2>3. job'[pr] = k
    BY <2>1, GoTo DEF IInv
  <2> HIDE DEF k
  <2>4. /\ Busy(j) /\ j.visited[n] = j.dep.ref /\ RefKept(pr, j) /\ Walking(j)
        /\ raced[pr] \subseteq raced'[pr]
    BY <1>1, <2>1, <2>2, <2>3, Watched DEF JobOK, Route, Knows, Busy, Walking, Mid, RefInv
  <2>5. ASSUME k.ok, NEW m \in Seen(k) \ raced'[pr], k.visited[m] # NoRef
        PROVE  AtRef(m, disk'[<<pr, m>>], k.visited[m], k.unmoved)
    <3>1. CASE m = n
      BY <1>1, <2>1, <2>2, <2>4, <2>5, <3>1 DEF RefKept, Halfway, Own
    <3>2. CASE m # n
      BY <1>1, <2>2, <2>4, <2>5, <3>2 DEF RefKept, Own, Seen
    <3> QED
      BY <3>1, <3>2
  <2> QED
    BY <2>2, <2>3, <2>4, <2>5 DEF RefKept, Own, Busy, Mid
<1> QED
  BY <1>2, <1>3, <1>4
(* A step that only fails.                                                 *)
LEMMA FailRefs ==
  ASSUME IInv, NEW pr \in Projects, Go(pr, Failed(job[pr]))
  PROVE  RefKept(pr, job[pr])'
<1>1. job'[pr] = Failed(job[pr]) /\ job[pr] \in Job
  BY GoTo DEF IInv, Local, JobOK
<1>2. ~Failed(job[pr]).ok
  BY <1>1 DEF Failed, Job
<1> HIDE DEF Failed
<1> QED
  BY <1>1, <1>2, RefGone

(* Sync's own work on a dependency is no part of a walk.                   *)
LEMMA SyncWorkRefs ==
  ASSUME IInv, IInv', NEW pr \in Projects, NEW k, Go(pr, k), k.mode = "sync"
  PROVE  RefKept(pr, job[pr])'
<1>1. job'[pr] = k
  BY GoTo DEF IInv
<1>2. JobOK(k)
  BY <1>1 DEF IInv, Local
<1>3. ~Walking(k)
  BY <1>2 DEF Walking, Busy, JobOK, Route
<1> QED
  BY <1>1, <1>3, RefGone

(* Labels between which nothing is known yet of the ref.                   *)
LEMMA RefEarly ==
  ASSUME IInv, Watch, RefInv, NEW pr \in Projects, NEW k, Go(pr, k), job[pr].pc \in Mid,
         job[pr].mode # "sync", SameWalk(job[pr], k), k.ok = job[pr].ok,
         Busy(k), k.dep.ref = NoRef \/ k.pc \in {"fetch", "clone", "transfer", "files", "tree"},
         \A n \in Packages : n # job[pr].dep.name => Own(pr, n)' = Own(pr, n)
  PROVE  RefKept(pr, job[pr])'
<1>1. job'[pr] = k /\ Busy(job[pr])
  BY GoTo DEF IInv, Busy
<1>2. k.dep.ref # NoRef => Halfway(pr, job[pr])'
  BY <1>1 DEF Halfway
<1> QED
  BY <1>1, <1>2, RefWork

LEMMA ChooseRefs ==
  ASSUME IInv, Watch, RefInv, NEW pr \in Projects, Choose(pr)
  PROVE  RefKept(pr, job[pr])'
<1> DEFINE j == job[pr]
<1>1. j.pc = "choose" /\ disk' = disk /\ j \in Job /\ j.mode # "sync" /\ RefKept(pr, j)
  BY DEF Choose, At, IInv, Local, JobOK, Route, RefInv
<1>2. PICK m \in {"update", "cached", "direct"}, label \in {"fetch", "clone"} :
        Go(pr, [j EXCEPT !.mode = m, !.pc = label])
  BY DEF Choose
<1> DEFINE k == [j EXCEPT !.mode = m, !.pc = label]
<1>3. /\ k.mode = m /\ k.pc = label /\ k.ok = j.ok /\ k.visited = j.visited /\ k.dep = j.dep
      /\ k.unmoved = j.unmoved /\ Go(pr, k)
  BY <1>1, <1>2 DEF Job
<1> HIDE DEF k
<1>4. job'[pr] = k /\ Seen(k) = Seen(j)
  BY <1>3, GoTo DEF IInv, Seen
<1>5. Busy(j) /\ Busy(k) /\ Walking(j)
  BY <1>1, <1>3 DEF Busy, Walking, Mid
<1>6. raced[pr] \subseteq raced'[pr]
  BY <1>4, <1>5, Watched DEF Busy, Mid
<1>7. Halfway(pr, job[pr])'
  BY <1>3, <1>4 DEF Halfway
<1>8. ASSUME k.ok, NEW n \in Seen(k) \ raced'[pr], n # k.dep.name, k.visited[n] # NoRef
      PROVE  AtRef(n, disk'[<<pr, n>>], k.visited[n], k.unmoved)
  BY <1>1, <1>3, <1>4, <1>5, <1>6, <1>8 DEF RefKept, Own
<1> QED
  BY <1>4, <1>5, <1>7, <1>8 DEF RefKept, Own

LEMMA FetchRefs ==
  ASSUME IInv, IInv', Watch, RefInv, NEW pr \in Projects, Fetch(pr) \/ FetchFails(pr)
  PROVE  RefKept(pr, job[pr])'
<1> DEFINE j == job[pr]
           place == Place(j, pr)
           n == j.dep.name
<1>1. /\ j.pc = "fetch" /\ j.pc \in Mid /\ JobOK(j) /\ j \in Job /\ j.dep \in Dependency
      /\ n \in Packages /\ j.mode \in {"sync", "update", "cached"}
  BY DEF Fetch, FetchFails, At, IInv, Local, JobOK, Route, Knows, Job, Mid, Dependency
<1>2. ASSUME NEW git, Go(pr, Fetched(j, git)), j.mode # "sync",
             \A m \in Packages : m # n => Own(pr, m)' = Own(pr, m)
      PROVE  RefKept(pr, job[pr])'
  <2> DEFINE k == Fetched(j, git)
  <2>1. /\ SameWalk(j, k) /\ k.mode = j.mode /\ k.ok = j.ok /\ Busy(k)
        /\ k.dep.ref = NoRef \/ k.pc = "tree"
    <3>1. j.visited[j.dep.name] = j.dep.ref /\ Route(j) /\ Depth(j)
      BY <1>1, <1>2 DEF JobOK, Knows, Busy
    <3> QED
      BY <1>1, <1>2, <3>1, FetchedWalk DEF SameWalk
  <2> HIDE DEF k
  <2> QED
    BY <1>1, <1>2, <2>1, RefEarly DEF k
<1>3. CASE Fetch(pr)
  <2> DEFINE git == [disk[place].git EXCEPT !.fetched = published[n]]
             d == [disk[place] EXCEPT !.git = git]
             k == Fetched(j, git)
  <2>1. IsRepo(disk[place]) /\ Write(place, d) /\ Go(pr, k)
    BY <1>3 DEF Fetch
  <2>2. disk[place] \in Dir /\ disk[place].git \in Git
    BY <1>1, <2>1, HereType, RepoType DEF IInv
  <2>3. published[n] \in 0..MaxVersion
    BY <1>1, VersionAssumption DEF IInv, GlobalOK, Versions
  <2>4. git \in Git
    BY <2>2, <2>3 DEF Git
  <2>5. d \in Dir /\ d.git # None
    BY <2>2, <2>4, NoneAssumption DEF Dir
  <2> HIDE DEF git, d
  <2>6. \A m \in Packages : m # n => Own(pr, m)' = Own(pr, m)
    <3>1. DiskOK /\ d \in Dir \cup {None} /\ Write(Place(j, pr), d) /\ j.dep \in Dependency
      BY <1>1, <2>1, <2>5 DEF IInv
    <3> HIDE DEF j
    <3>2. \A q \in Projects, m \in Packages :
            q # pr \/ m # j.dep.name \/ j.mode = "cached" => Own(q, m)' = Own(q, m)
      BY <3>1, WriteHere
    <3> QED
      BY <3>2 DEF j
  <2>7. CASE j.mode = "sync"
    <3>1. k.mode = "sync"
      BY <1>1, <2>4, <2>7, FetchedSync
    <3> HIDE DEF k
    <3> QED
      BY <2>1, <3>1, SyncWorkRefs
  <2>8. CASE j.mode # "sync"
    BY <1>2, <2>1, <2>6, <2>8
  <2> QED
    BY <2>7, <2>8
<1>4. CASE FetchFails(pr)
  <2>1. \A m \in Packages : Own(pr, m)' = Own(pr, m)
    BY <1>4 DEF FetchFails, Own
  <2>2. CASE j.mode = "cached"
    <3>1. Go(pr, Fetched(j, Bare))
      BY <1>4, <2>2 DEF FetchFails
    <3> QED
      BY <1>2, <2>1, <2>2, <3>1
  <2>3. CASE j.mode = "update"
    BY <1>4, <2>3, FailRefs DEF FetchFails
  <2>4. CASE j.mode = "sync"
    <3> DEFINE k == [j EXCEPT !.pc = "check"]
    <3>1. Go(pr, k) \/ Go(pr, Failed(j))
      BY <1>4, <2>4 DEF FetchFails
    <3>2. k.mode = "sync"
      BY <1>1, <2>4 DEF Job
    <3> HIDE DEF k
    <3> QED
      BY <3>1, <3>2, FailRefs, SyncWorkRefs
  <2> QED
    BY <1>1, <2>2, <2>3, <2>4
<1> QED
  BY <1>3, <1>4
(* The files of the ref, and which commit that is.                         *)
LEMMA CheckoutTreeRefs ==
  ASSUME IInv, IInv', Watch, RefInv, NEW pr \in Projects, CheckoutTree(pr)
  PROVE  RefKept(pr, job[pr])'
<1> DEFINE j == job[pr]
           n == j.dep.name
           place == Place(j, pr)
           target == Resolve(disk[place].git, j.dep.ref)
           d == [disk[place] EXCEPT !.tree = target]
           k == [j EXCEPT !.pc = "head", !.target = target]
<1>1. /\ j.pc = "tree" /\ IsRepo(disk[place]) /\ Write(place, d) /\ Go(pr, k)
  BY DEF CheckoutTree, At
<1>2. /\ JobOK(j) /\ j \in Job /\ j.dep \in Dependency /\ j.pc \in Mid /\ j.dep.ref # NoRef
      /\ n \in Packages /\ j.dep.ref \in Refs
  BY <1>1 DEF IInv, Local, JobOK, Knows, Mid, Dependency
<1>3. disk[place] \in Dir /\ disk[place].git \in Git
  BY <1>1, <1>2, HereType, RepoType DEF IInv
<1>4. target \in 0..MaxVersion
  BY <1>2, <1>3, ResolveType
<1>5. /\ d \in Dir /\ d.git = disk[place].git /\ d.git # None /\ d.tree = target
      /\ target = Resolve(d.git, j.dep.ref)
  BY <1>3, <1>4, NoneAssumption DEF Dir
<1> HIDE DEF target, d
<1>6. /\ disk'[place] = d
      /\ \A m \in Packages : m # n => Own(pr, m)' = Own(pr, m)
  BY <1>1, <1>2, <1>5, WriteHere DEF IInv
<1>7. SameWalk(j, k) /\ k.pc = "head" /\ k.mode = j.mode /\ k.ok = j.ok /\ k.target = target
  BY <1>2 DEF Job, SameWalk
<1>8. job'[pr] = k
  BY <1>1, GoTo DEF IInv
<1> HIDE DEF k
<1>9. CASE j.mode = "sync"
  BY <1>1, <1>7, <1>9, SyncWorkRefs
<1>10. CASE j.mode # "sync"
  <2>1. Busy(j) /\ Busy(k)
    BY <1>1, <1>7, <1>10 DEF Busy, Mid
  <2>2. Place(job[pr], pr)' = place /\ k.dep = j.dep
    BY <1>7, <1>8 DEF Place, SameWalk
  <2>3. Halfway(pr, job[pr])'
    BY <1>5, <1>6, <1>7, <1>8, <2>2 DEF Halfway
  <2> QED
    BY <1>6, <1>7, <1>8, <2>1, <2>3, RefWork
<1> QED
  BY <1>9, <1>10

(* HEAD follows the files.                                                 *)
LEMMA CheckoutHeadRefs ==
  ASSUME IInv, IInv', Watch, RefInv, NEW pr \in Projects, CheckoutHead(pr)
  PROVE  RefKept(pr, job[pr])'
<1> DEFINE j == job[pr]
           n == j.dep.name
           place == Place(j, pr)
<1>1. j.pc = "head"
  BY DEF CheckoutHead, At
<1>2. /\ JobOK(j) /\ j \in Job /\ j.dep \in Dependency /\ j.pc \in Mid /\ j.dep.ref # NoRef
      /\ n \in Packages /\ j.target \in Versions /\ Arrived(pr, j) /\ RefKept(pr, j)
      /\ j.mode \in {"sync", "update", "cached", "direct"}
      /\ j.mode = "cached" => j.todo = Parts
  BY <1>1 DEF IInv, Local, JobOK, Route, Knows, Mid, Dependency, Job, RefInv
<1>3. PICK d \in Dir \cup {None}, k \in Job :
        /\ Write(place, d) /\ Go(pr, k) /\ HeadLeft(place, d, j.target)
        /\ SameWalk(j, k) /\ k.mode = j.mode /\ k.ok = j.ok /\ k.todo = j.todo
        /\ j.mode = "sync" => k.pc = "check"
        /\ j.mode = "update" => k.pc = "descend"
        /\ j.mode = "cached" => k.pc = "copy"
        /\ j.mode = "direct" => k.pc = "script"
        /\ n \notin k.unmoved => d.git.head = j.target
  BY CheckoutHeadOutcome
<1>4. /\ \A m \in Packages : m # n => Own(pr, m)' = Own(pr, m)
      /\ j.mode = "cached" => disk'[<<Cache, n>>] = d
      /\ j.mode # "cached" => disk'[<<pr, n>>] = d
  BY <1>2, <1>3, WriteHere DEF IInv
<1>5. job'[pr] = k
  BY <1>3, GoTo DEF IInv
<1>6. CASE j.mode = "sync"
  BY <1>3, <1>6, SyncWorkRefs
<1>7. CASE j.mode # "sync"
  <2>1. Busy(j) /\ Busy(k) /\ Walking(j) /\ raced[pr] \subseteq raced'[pr]
    BY <1>2, <1>3, <1>5, <1>7, Watched DEF Busy, Walking, Mid
  <2> SUFFICES ASSUME k.ok, k.dep.ref # NoRef, k.dep.name \notin raced'[pr]
               PROVE  Halfway(pr, job[pr])'
    BY <1>3, <1>4, <1>5, <2>1, RefWork
  <2>2. k.dep = j.dep /\ n \notin raced[pr]
    BY <1>3, <2>1 DEF SameWalk
  <2>3. IsRepo(disk[place])
    BY <1>1, <1>2, <1>7, <2>2, HereType DEF Arrived, InCache, IInv
  <2>4. disk[place].tree = j.target /\ j.target = Resolve(disk[place].git, j.dep.ref)
    BY <1>1, <1>2, <1>3, <2>1, <2>2 DEF RefKept, Halfway
  <2>5. d.tree = j.target /\ d.git.fetched = disk[place].git.fetched
    BY <1>3, <2>3, <2>4 DEF HeadLeft
  <2>6. AtRef(n, d, j.dep.ref, k.unmoved) /\ d.tree # 0
    BY <1>2, <1>3, <2>4, <2>5 DEF AtRef, Resolve, Versions
  <2> QED
    BY <1>2, <1>3, <1>4, <1>5, <1>7, <2>2, <2>6 DEF Halfway, Own, Parts
<1> QED
  BY <1>6, <1>7

(* A clone is not at the ref yet, unless none was asked for.               *)
LEMMA CloneRefs ==
  ASSUME IInv, IInv', Watch, RefInv, NEW pr \in Projects,
         CloneInit(pr) \/ CloneTransfer(pr) \/ CloneFiles(pr)
  PROVE  RefKept(pr, job[pr])'
<1> DEFINE j == job[pr]
           n == j.dep.name
           place == Place(j, pr)
<1>1. /\ j.pc \in {"clone", "transfer", "files"} /\ j.pc \in Mid /\ JobOK(j) /\ j \in Job
      /\ j.dep \in Dependency /\ n \in Packages /\ j.mode \in {"cached", "direct"}
      /\ j.visited[n] = j.dep.ref
  BY DEF CloneInit, CloneTransfer, CloneFiles, At, IInv, Local, JobOK, Route, Knows, Job, Busy,
         Mid, Dependency
<1>2. ASSUME NEW d \in Dir, d.git # None, Write(place, d)
      PROVE  \A m \in Packages : m # n => Own(pr, m)' = Own(pr, m)
  <2>1. DiskOK /\ d \in Dir \cup {None} /\ j.dep \in Dependency
    BY <1>1 DEF IInv
  <2>2. \A q \in Projects, m \in Packages :
          q # pr \/ m # n \/ j.mode = "cached" => Own(q, m)' = Own(q, m)
    BY <1>2, <2>1, WriteHere
  <2> QED
    BY <2>2
<1>3. ASSUME NEW k, Go(pr, k), SameWalk(j, k), k.mode = j.mode, k.ok = j.ok,
             k.pc \in {"transfer", "files"},
             \A m \in Packages : m # n => Own(pr, m)' = Own(pr, m)
      PROVE  RefKept(pr, job[pr])'
  <2>1. Busy(k)
    BY <1>1, <1>3 DEF Busy, Mid
  <2> QED
    BY <1>1, <1>3, <2>1, RefEarly
<1>4. CASE CloneInit(pr)
  <2> DEFINE d == [EmptyDir EXCEPT !.git = Bare]
             k == [j EXCEPT !.pc = "transfer"]
  <2>1. Write(place, d) /\ Go(pr, k)
    BY <1>4 DEF CloneInit
  <2>2. d \in Dir /\ d.git # None
    <3>1. 0 \in 0..MaxVersion /\ Main \in Refs \ {NoRef}
      BY VersionAssumption, RefAssumption DEF Refs
    <3>2. Bare \in Git /\ EmptyDir \in Dir
      BY <3>1 DEF Bare, Git, EmptyDir, Dir
    <3> QED
      BY <3>2, NoneAssumption DEF Dir
  <2> HIDE DEF d
  <2>3. SameWalk(j, k) /\ k.mode = j.mode /\ k.ok = j.ok /\ k.pc = "transfer"
    BY <1>1 DEF Job, SameWalk
  <2> HIDE DEF k
  <2> QED
    BY <1>2, <1>3, <2>1, <2>2, <2>3
<1>5. CASE CloneTransfer(pr)
  <2> DEFINE v == published[n]
             git == [Bare EXCEPT !.fetched = v, !.main = v, !.head = v]
             d == [disk[place] EXCEPT !.git = git]
             k == [j EXCEPT !.pc = "files", !.target = v]
  <2>1. IsRepo(disk[place]) /\ Write(place, d) /\ Go(pr, k)
    BY <1>5 DEF CloneTransfer
  <2>2. v \in 0..MaxVersion
    BY <1>1, VersionAssumption DEF IInv, GlobalOK, Versions
  <2> HIDE DEF v
  <2>3. git \in Git
    <3>1. Bare \in Git
      BY VersionAssumption, RefAssumption DEF Bare, Git, Refs
    <3> QED
      BY <2>2, <3>1 DEF Git
  <2>4. d \in Dir /\ d.git # None
    <3>1. disk[place] \in Dir
      BY <1>1, <2>1, HereType, RepoType DEF IInv
    <3> QED
      BY <2>3, <3>1, NoneAssumption DEF Dir
  <2> HIDE DEF d
  <2>5. SameWalk(j, k) /\ k.mode = j.mode /\ k.ok = j.ok /\ k.pc = "files"
    BY <1>1 DEF Job, SameWalk
  <2> HIDE DEF k
  <2> QED
    BY <1>2, <1>3, <2>1, <2>4, <2>5
<1>6. CASE CloneFiles(pr)
  <2> DEFINE d == [disk[place] EXCEPT !.tree = j.target]
             i == [j EXCEPT !.target = 0]
             k == Fetched(i, Bare)
  <2>1. IsRepo(disk[place]) /\ Write(place, d) /\ Go(pr, k) /\ j.pc = "files"
    BY <1>6 DEF CloneFiles, At
  <2>2. d \in Dir /\ d.git # None
    <3>1. disk[place] \in Dir /\ disk[place].git \in Git /\ j.target \in 0..MaxVersion
      BY <1>1, <2>1, HereType, RepoType DEF IInv, Job
    <3> QED
      BY <3>1, NoneAssumption DEF Dir
  <2> HIDE DEF d
  <2>3. \A m \in Packages : m # n => Own(pr, m)' = Own(pr, m)
    BY <1>2, <2>1, <2>2
  <2>4. i \in Job /\ SameWalk(j, i) /\ i.mode = j.mode /\ i.ok = j.ok /\ i.pc = j.pc
    <3>1. 0 \in 0..MaxVersion
      BY VersionAssumption
    <3> QED
      BY <1>1, <3>1 DEF Job, SameWalk
  <2> HIDE DEF i
  <2>5. /\ i.dep \in Dependency /\ i.pc \in {"fetch", "files"} /\ i.mode # "sync"
        /\ i.visited[i.dep.name] = i.dep.ref /\ Route(i) /\ Depth(i)
    BY <1>1, <2>1, <2>4 DEF SameWalk, JobOK, Route, Depth, Syncing
  <2>6. /\ SameWalk(i, k) /\ k.mode = i.mode /\ k.ok = i.ok /\ Busy(k)
        /\ k.pc = IF i.dep.ref # NoRef THEN "tree"
                  ELSE IF i.mode = "update" THEN "descend"
                  ELSE IF i.mode = "cached" THEN "copy" ELSE "script"
    BY <2>4, <2>5, FetchedWalk
  <2>7. SameWalk(j, k) /\ (k.dep.ref = NoRef \/ k.pc = "tree")
    BY <2>4, <2>6 DEF SameWalk
  <2> HIDE DEF k
  <2> QED
    BY <1>1, <2>1, <2>3, <2>4, <2>6, <2>7, RefEarly
<1> QED
  BY <1>4, <1>5, <1>6
(* The copy is at the ref when both parts have come, in either order.      *)
LEMMA CopyRefs ==
  ASSUME IInv, IInv', Watch, RefInv, NEW pr \in Projects, NEW part \in Parts,
         CopyPart(pr, part)
  PROVE  RefKept(pr, job[pr])'
<1> DEFINE j == job[pr]
           n == j.dep.name
           c == disk[<<Cache, n>>]
           own == Own(pr, n)
           old == IF own = None THEN EmptyDir ELSE own
           d == IF c[part] = EmptyDir[part] THEN old ELSE [old EXCEPT ![part] = c[part]]
           label == IF j.todo = {part} THEN "script" ELSE "copy"
           left == j.todo \ {part}
           k == [j EXCEPT !.todo = left, !.pc = label]
<1>1. /\ j.pc = "copy" /\ part \in j.todo /\ c # None /\ Write(<<pr, n>>, d)
  BY DEF CopyPart, At
<1>2. Go(pr, k)
  BY DEF CopyPart
<1>3. /\ JobOK(j) /\ j \in Job /\ j.dep \in Dependency /\ j.pc \in Mid /\ n \in Packages
      /\ j.mode = "cached" /\ j.todo \subseteq Parts /\ Arrived(pr, j) /\ RefKept(pr, j)
  BY <1>1 DEF IInv, Local, JobOK, Route, Knows, Mid, Dependency, RefInv
<1>4. c \in Dir /\ own \in Dir \cup {None}
  BY <1>1, <1>3 DEF IInv, DiskOK, Own
<1>5. /\ EmptyDir \in Dir /\ EmptyDir.git = None /\ EmptyDir.tree = 0
      /\ old \in Dir /\ (own # None => old = own)
  BY <1>4, VersionAssumption DEF EmptyDir, Dir
<1>6. /\ d \in Dir
      /\ part = "git" /\ c.git # None => d.git = c.git /\ d.tree = old.tree
      /\ part = "tree" /\ c.tree # 0 => d.tree = c.tree /\ d.git = old.git
  <2>1. CASE c[part] = EmptyDir[part]
    <3>1. d = old
      BY <2>1
    <3> HIDE DEF c, d, old
    <3> QED
      BY <1>5, <2>1, <3>1
  <2>2. CASE part = "git" /\ c[part] # EmptyDir[part]
    <3>1. d = [old EXCEPT !.git = c.git]
      BY <2>2
    <3> HIDE DEF c, d, old
    <3> QED
      BY <1>4, <1>5, <2>2, <3>1 DEF Dir
  <2>3. CASE part = "tree" /\ c[part] # EmptyDir[part]
    <3>1. d = [old EXCEPT !.tree = c.tree]
      BY <2>3
    <3> HIDE DEF c, d, old
    <3> QED
      BY <1>4, <1>5, <2>3, <3>1 DEF Dir
  <2> QED
    BY <2>1, <2>2, <2>3 DEF Parts
<1>7. /\ label \in {"script", "copy"} /\ (label = "script" => left = {}) /\ left \subseteq j.todo
  OBVIOUS
<1> HIDE DEF old, d, label
<1>8. /\ disk'[<<pr, n>>] = d /\ d # None /\ disk'[<<Cache, n>>] = c
      /\ \A m \in Packages : m # n => Own(pr, m)' = Own(pr, m)
  BY <1>1, <1>3, <1>6, WriteOwn, NoneAssumption DEF IInv
<1>9. /\ SameWalk(j, k) /\ k.pc = label /\ k.mode = j.mode /\ k.ok = j.ok /\ k.todo = left
      /\ k.unmoved = j.unmoved
  BY <1>3 DEF Job, SameWalk
<1>10. job'[pr] = k
  BY <1>2, GoTo DEF IInv
<1> HIDE DEF k
<1>11. Busy(j) /\ Busy(k) /\ Walking(j) /\ raced[pr] \subseteq raced'[pr]
  BY <1>3, <1>7, <1>9, <1>10, Watched DEF Busy, Walking, Mid
<1> SUFFICES ASSUME k.ok, k.dep.ref # NoRef, k.dep.name \notin raced'[pr]
             PROVE  Halfway(pr, job[pr])'
  BY <1>8, <1>9, <1>10, <1>11, RefWork
<1>12. k.dep = j.dep /\ n \notin raced[pr]
  BY <1>9, <1>11 DEF SameWalk
<1>13. /\ AtRef(n, c, j.dep.ref, j.unmoved) /\ c.tree # 0 /\ c.git # None
       /\ "git" \notin j.todo => own.git = c.git /\ own # None
       /\ "tree" \notin j.todo => own # None /\ own.tree = c.tree
  <2>1. Halfway(pr, j)
    BY <1>3, <1>9, <1>11, <1>12 DEF RefKept
  <2>2. IsRepo(c) /\ ("git" \notin j.todo => IsRepo(own))
    BY <1>1, <1>3, <1>12 DEF Arrived, InCache
  <2> QED
    BY <1>1, <2>1, <2>2 DEF Halfway, IsRepo
<1> HIDE DEF c, own
<1>14. ("git" \notin left => d.git = c.git) /\ ("tree" \notin left => d.tree = c.tree)
  <2>1. CASE part = "git"
    BY <1>5, <1>6, <1>13, <2>1
  <2>2. CASE part = "tree"
    BY <1>5, <1>6, <1>13, <2>2
  <2> QED
    BY <2>1, <2>2 DEF Parts
<1>15. label = "script" => AtRef(n, d, j.dep.ref, j.unmoved)
  BY <1>7, <1>13, <1>14 DEF AtRef
<1> QED
  BY <1>7, <1>8, <1>9, <1>10, <1>12, <1>13, <1>14, <1>15 DEF Halfway, Own

LEMMA RunScriptRefs ==
  ASSUME IInv, IInv', Watch, RefInv, NEW pr \in Projects, RunScript(pr)
  PROVE  RefKept(pr, job[pr])'
<1> DEFINE j == job[pr]
           n == j.dep.name
           own == Own(pr, n)
           d == [own EXCEPT !.script = (own.tree # 0)]
           k == [j EXCEPT !.pc = "descend"]
<1>1. j.pc = "script" /\ Write(<<pr, n>>, d) /\ Go(pr, k)
  BY DEF RunScript, At
<1>2. /\ JobOK(j) /\ j \in Job /\ j.dep \in Dependency /\ n \in Packages /\ j.mode # "sync"
      /\ own # None /\ RefKept(pr, j)
  BY <1>1 DEF IInv, Local, JobOK, Route, Knows, Mid, Dependency, Arrived, RefInv
<1>3. own \in Dir
  BY <1>2 DEF IInv, DiskOK, Own
<1>4. d \in Dir /\ d.git = own.git /\ d.tree = own.tree
  <2>1. (own.tree # 0) \in BOOLEAN
    OBVIOUS
  <2> QED
    BY <1>3, <2>1 DEF Dir
<1> HIDE DEF d
<1>5. /\ disk'[<<pr, n>>] = d
      /\ \A m \in Packages : m # n => Own(pr, m)' = Own(pr, m)
  BY <1>1, <1>2, <1>4, WriteOwn DEF IInv
<1>6. /\ SameWalk(j, k) /\ k.pc = "descend" /\ k.mode = j.mode /\ k.ok = j.ok
      /\ k.unmoved = j.unmoved
  BY <1>2 DEF Job, SameWalk
<1>7. job'[pr] = k
  BY <1>1, GoTo DEF IInv
<1> HIDE DEF k
<1>8. Busy(j) /\ Busy(k) /\ Walking(j) /\ raced[pr] \subseteq raced'[pr]
  BY <1>1, <1>2, <1>6, <1>7, Watched DEF Busy, Walking, Mid
<1>9. k.ok /\ k.dep.ref # NoRef /\ k.dep.name \notin raced'[pr] =>
        AtRef(n, d, k.dep.ref, k.unmoved) /\ k.dep = j.dep
  BY <1>1, <1>2, <1>4, <1>6, <1>8 DEF RefKept, Halfway, AtRef, SameWalk
<1>10. k.ok /\ k.dep.ref # NoRef /\ k.dep.name \notin raced'[pr] => Halfway(pr, job[pr])'
  BY <1>5, <1>6, <1>7, <1>9 DEF Halfway, Own
<1> QED
  BY <1>5, <1>6, <1>7, <1>8, <1>10, RefWork
LEMMA RefStep ==
  ASSUME IInv, IInv', RefInv, [Next]_vars
  PROVE  RefInv'
<1>1. ASSUME Watch, NEW pr \in Projects, Begin(pr) \/ Step(pr) \/ Crash(pr)
      PROVE  RefInv'
  <2>1. RefKept(pr, job[pr])'
    <3>1. CASE Begin(pr) \/ Crash(pr) \/ Built(pr) \/ Stop(pr)
      BY <3>1, BeginRefs
    <3>2. CASE Sync(pr) \/ Walk(pr)
      BY <1>1, <3>2, BeginRefs, SyncRefs, WalkRefs DEF Sync, Walk
    <3>3. CASE Single(pr)
      <4>1. CASE CheckoutFails(pr) \/ CloneRefused(pr) \/ CloneFails(pr)
                   \/ CopyFails(pr)
        BY <4>1, FailRefs DEF CheckoutFails, CloneRefused, CloneFails,
                              CopyFails, Fail
      <4>2. CASE \E part \in {"git", "tree"} : CopyPart(pr, part)
        BY <1>1, <4>2, CopyRefs DEF Parts
      <4>3. CASE Choose(pr) \/ Fetch(pr) \/ FetchFails(pr) \/ CheckoutTree(pr) \/ CheckoutHead(pr)
                   \/ CloneInit(pr) \/ CloneTransfer(pr) \/ CloneFiles(pr) \/ RunScript(pr)
        BY <1>1, <4>3, ChooseRefs, FetchRefs, CheckoutTreeRefs, CheckoutHeadRefs, CloneRefs,
           RunScriptRefs
      <4> QED
        BY <3>3, <4>1, <4>2, <4>3 DEF Single
    <3> QED
      BY <1>1, <3>1, <3>2, <3>3 DEF Step
  <2>2. ASSUME NEW q \in Projects, q # pr PROVE RefKept(q, job[q])'
    <3>1. job'[q] = job[q] /\ \A n \in Packages : Own(q, n)' = Own(q, n)
      BY <1>1, <2>2, JobsOfOthers, FilesOfOthers
    <3> QED
      BY <1>1, <3>1, RefSpectator
  <2> QED
    BY <2>1, <2>2 DEF RefInv
<1>2. ASSUME Watch, (\E pr \in Projects : Edit(pr)) \/ (\E n \in Packages : Publish(n))
      PROVE  RefInv'
  <2>1. job' = job /\ disk' = disk
    BY <1>2 DEF Edit, Publish
  <2>2. ASSUME NEW q \in Projects PROVE RefKept(q, job[q])'
    BY <1>2, <2>1, RefSpectator DEF Own
  <2> QED
    BY <2>2 DEF RefInv
<1>3. ASSUME Watch, NEW n \in Packages, ClearCache(n) PROVE RefInv'
  <2>1. ASSUME NEW q \in Projects PROVE RefKept(q, job[q])'
    BY <1>3, ClearsCache, RefSpectator
  <2> QED
    BY <2>1 DEF RefInv
<1>4. CASE UNCHANGED vars
  BY <1>4 DEF vars, RefInv, RefKept, Halfway, Own, Place
<1> QED
  BY <1>1, <1>2, <1>3, <1>4 DEF Next

(* When package_install_all reports success, the files of each package it  *)
(* went to are at the ref it was first asked for, whatever earlier         *)
(* commands were killed halfway and whatever other projects do to the      *)
(* cache, unless they did it to this package's directory there while this  *)
(* project took it; so is HEAD, unless a call that moves it failed.        *)
THEOREM InstallsAtRefs == Spec => []InstalledAtRef
<1>1. Init => RefInv
  <2> SUFFICES ASSUME Init, NEW pr \in Projects PROVE RefKept(pr, Idle)
    BY DEF RefInv, Init
  <2> QED
    BY DEF RefKept, Idle, Walking, Busy, Mid
<1>2. IInv /\ IInv' /\ RefInv /\ [Next]_vars => RefInv'
  BY RefStep
<1>3. IInv /\ RefInv => InstalledAtRef
  <2> SUFFICES ASSUME IInv, RefInv, NEW pr \in Projects, Succeeded(pr),
                      NEW n \in Walked(pr) \ raced[pr], job[pr].visited[n] # NoRef
               PROVE  AtRef(n, Own(pr, n), job[pr].visited[n], job[pr].unmoved)
    BY DEF InstalledAtRef, AtRefs, AtRef
  <2>1. /\ job[pr].ok /\ Walking(job[pr]) /\ ~Busy(job[pr]) /\ n \in Seen(job[pr])
    BY DEF Succeeded, At, Walking, Busy, Mid, Walked, Seen
  <2> QED
    BY <2>1 DEF RefInv, RefKept
<1> QED
  BY <1>1, <1>2, <1>3, SpecIInv, PTL DEF Spec

================================================================================
