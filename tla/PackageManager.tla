----------------------------- MODULE PackageManager ----------------------------
(***************************************************************************)
(* The package manager: projects whose packages live in directories of     *)
(* their own (.sn/<name>), filled from a cache that all projects share     *)
(* (~/.sn-cache/<name>).  Each project runs one command at a time; the     *)
(* commands of different projects interleave, nothing locks the cache, and *)
(* a command may be killed between any two steps.                          *)
(*                                                                         *)
(* A package's history is a sequence of versions; version k has tag k, and *)
(* the branch Main is the newest one published.  A directory is a record:  *)
(* git is what .git holds, or None when libgit2 cannot open it; tree is    *)
(* the version of the files (0: none); script says whether the install     *)
(* script has been run on it.  In .git, main is the commit of the local    *)
(* branch Main (0: there is none), ref what HEAD names: Main, or the       *)
(* branch of a tag; a HEAD that is detached names the commit it is at.     *)
(***************************************************************************)
EXTENDS Integers, SequencesExt

CONSTANTS
  Projects, Cache, Packages,
  MaxVersion,    \* versions a package may have: bounds publishing
  Main, NoRef,   \* a branch; a dependency without tag or branch
  None,
  Manifest,      \* Manifest[n][k]: the dependencies version k of n asks for
  Manifests,     \* the sn.yaml files a project may have
  CacheUsable,   \* which answers package_get_cache_dir and ensure_dir give
  Asked,         \* what --install url may be given
  MaxCommands,   \* bounds the commands given
  MaxFaults      \* bounds kills, clearings of the cache, HEADs not moved

Versions == 1..MaxVersion
Refs == Versions \cup {Main, NoRef}
Dependency == [name : Packages, ref : Refs]
Git == [fetched : 0..MaxVersion, main : 0..MaxVersion, head : 0..MaxVersion, ref : Refs \ {NoRef}]
Dir == [git : Git \cup {None}, tree : 0..MaxVersion, script : BOOLEAN]

ASSUME VersionAssumption == MaxVersion \in Nat \ {0}
ASSUME RefAssumption == Main \notin Versions /\ NoRef \notin Versions \cup {Main}
ASSUME NoneAssumption == None \notin Git /\ None \notin Dir /\ None \notin Refs
ASSUME BoundAssumption == MaxCommands \in Nat /\ MaxFaults \in Nat
ASSUME ManifestAssumption ==
  /\ Manifest \in [Packages -> [Versions -> Seq(Dependency)]]
  /\ Manifests \subseteq Seq(Dependency) /\ Asked \subseteq Dependency
ASSUME CacheAssumption == CacheUsable \subseteq BOOLEAN /\ Cache \notin Projects

VARIABLES
  published,     \* the newest version of each package
  disk,          \* the directories, or None
  yaml,          \* each project's sn.yaml
  job,           \* the command each project runs
  commands, faults,
  raced          \* history: what each command has got from the cache while
                 \* another process wrote there

counts == <<commands, faults>>
vars == <<published, disk, yaml, job, counts, raced>>

Bare     == [fetched |-> 0, main |-> 0, head |-> 0, ref |-> Main]
EmptyDir == [git |-> None, tree |-> 0, script |-> FALSE]
Idle == [cmd |-> "none", pc |-> "idle",
         mode |-> "none",      \* what is done to dep: sync, update, cached, direct
         dep |-> None, asked |-> None, target |-> 0,
         todo |-> {},          \* orphans, or parts of a directory to copy
         stack |-> <<>>,       \* the recursion, a frame being a loop's rest
         visited |-> [n \in Packages |-> None],
         ok |-> TRUE,          \* the success the functions return
         unmoved |-> {}]       \* history: checkouts that left HEAD elsewhere

Init ==
  /\ published = [n \in Packages |-> 1]
  /\ disk = [d \in (Projects \cup {Cache}) \X Packages |-> None]
  /\ yaml \in [Projects -> Manifests]
  /\ job = [pr \in Projects |-> Idle]
  /\ commands = 0 /\ faults = 0
  /\ raced = [pr \in Projects |-> {}]

--------------------------------------------------------------------------------
IsRepo(d) == d # None /\ d.git # None
Own(pr, n) == disk[<<pr, n>>]
Place(j, pr) == <<IF j.mode = "cached" THEN Cache ELSE pr, j.dep.name>>

(* A branch is looked up as origin/<ref>, anything else as a tag.          *)
Resolve(git, ref) == IF ref = Main THEN git.fetched
                     ELSE IF ref <= git.fetched THEN ref ELSE 0

DepsIn(d, n) == IF d = None \/ d.tree = 0 THEN <<>> ELSE Manifest[n][d.tree]
Names(s) == {s[i].name : i \in DOMAIN s}

(* Mutant: only the direct dependencies are kept.                          *)
CollectedDirect(pr) == Names(yaml[pr])

(* package_collect_all_deps, as PackageVisit shows it to be: the packages  *)
(* that are in every set closed under what sn.yaml files name.             *)
Closed(pr, S) ==
  /\ Names(yaml[pr]) \subseteq S
  /\ \A n \in S : Names(DepsIn(Own(pr, n), n)) \subseteq S
Collected(pr) == {n \in Packages : \A S \in SUBSET Packages : Closed(pr, S) => n \in S}

At(pr, label) == job[pr].pc = label
Go(pr, j) == job' = [job EXCEPT ![pr] = j]
Write(place, d) == disk' = [disk EXCEPT ![place] = d]

(* The walk goes on after a package failed; --install url gives up when it *)
(* is the package itself.                                                  *)
Failed(j) == [j EXCEPT !.ok = FALSE,
                !.pc = IF j.mode = "sync" THEN "check"
                       ELSE IF j.cmd = "add" /\ j.stack = <<>> THEN "stop" ELSE "next"]

Fail(pr) == Go(pr, Failed(job[pr])) /\ UNCHANGED <<published, disk, yaml, counts>>

--------------------------------------------------------------------------------
(***************************************************************************)
(* The commands, and what else happens to the files.                       *)
(***************************************************************************)
Ready(pr) ==
  /\ At(pr, "idle") /\ commands < MaxCommands
  /\ commands' = commands + 1
  /\ UNCHANGED faults

BeginCompile(pr) ==
  /\ Ready(pr)
  /\ Go(pr, [Idle EXCEPT !.cmd = "compile", !.mode = "sync", !.pc = "orphans",
               !.stack = <<yaml[pr]>>,
               !.todo = {n \in Packages : Own(pr, n) # None} \ Collected(pr)])
  /\ UNCHANGED <<published, disk, yaml>>

BeginInstall(pr) ==
  /\ Ready(pr)
  /\ Go(pr, [Idle EXCEPT !.cmd = "install", !.pc = "next", !.stack = <<yaml[pr]>>])
  /\ UNCHANGED <<published, disk, yaml>>

BeginAdd(pr, d) ==
  /\ Ready(pr)
  /\ Go(pr, [Idle EXCEPT !.cmd = "add", !.pc = "choose", !.dep = d,
               !.asked = d, !.visited[d.name] = d.ref])
  /\ UNCHANGED <<published, disk, yaml>>

Stop(pr) ==
  /\ At(pr, "stop")
  /\ Go(pr, Idle)
  /\ UNCHANGED <<published, disk, yaml, counts>>

Crash(pr) ==
  /\ ~At(pr, "idle") /\ faults < MaxFaults
  /\ faults' = faults + 1
  /\ Go(pr, Idle)
  /\ UNCHANGED <<published, disk, yaml, commands>>

Publish(n) ==
  /\ published[n] < MaxVersion
  /\ published' = [published EXCEPT ![n] = @ + 1]
  /\ UNCHANGED <<disk, yaml, job, counts>>

Edit(pr) ==
  /\ At(pr, "idle")
  /\ \E y \in Manifests : yaml' = [yaml EXCEPT ![pr] = y]
  /\ UNCHANGED <<published, disk, job, counts>>

(* remove_directory_recursive deletes entry by entry, in the order readdir *)
(* gives.  What may be there after some of them: what is left of .git can  *)
(* be opened, without a commit, or not at all.                             *)
Left(d) ==
  {None} \cup {[git |-> git, tree |-> tree, script |-> d.script /\ tree # 0] :
                  git \in IF d.git = None THEN {None} ELSE {None, Bare, d.git},
                  tree \in {0, d.tree}}

(* --clear-cache as far as it gets before another process's step; it goes  *)
(* on with a further step of this, or is killed and takes none.            *)
ClearCache(n) ==
  /\ disk[<<Cache, n>>] # None /\ faults < MaxFaults
  /\ faults' = faults + 1
  /\ \E d \in Left(disk[<<Cache, n>>]) \ {disk[<<Cache, n>>]} : Write(<<Cache, n>>, d)
  /\ UNCHANGED <<published, yaml, job, commands>>

--------------------------------------------------------------------------------
(***************************************************************************)
(* package_sync: orphans go, then each direct dependency is compared with  *)
(* the ref sn.yaml gives it.                                               *)
(***************************************************************************)
Orphan(n) == [name |-> n, ref |-> NoRef]

(* Entries of the orphan at hand, or of the next one.                      *)
RemoveOrphan(pr, n) ==
  /\ At(pr, "orphans") /\ n \in job[pr].todo /\ job[pr].dep \in {None, Orphan(n)}
  /\ Own(pr, n) # None
  /\ \E d \in Left(Own(pr, n)) \ {Own(pr, n)} :
       /\ Write(<<pr, n>>, d)
       /\ Go(pr, IF d = None THEN [job[pr] EXCEPT !.todo = @ \ {n}, !.dep = None]
                             ELSE [job[pr] EXCEPT !.dep = Orphan(n)])
  /\ UNCHANGED <<published, yaml, counts>>

(* What could not be removed stays.                                        *)
LeaveOrphan(pr, n) ==
  /\ At(pr, "orphans") /\ n \in job[pr].todo /\ job[pr].dep \in {None, Orphan(n)}
  /\ Go(pr, [job[pr] EXCEPT !.todo = @ \ {n}, !.dep = None, !.ok = FALSE])
  /\ UNCHANGED <<published, disk, yaml, counts>>

OrphansGone(pr) ==
  /\ At(pr, "orphans") /\ job[pr].todo = {}
  /\ Go(pr, [job[pr] EXCEPT !.pc = "check"])
  /\ UNCHANGED <<published, disk, yaml, counts>>

Rest(j) == Append(Front(j.stack), Tail(Last(j.stack)))

(* A branch is switched to unless HEAD is on it already.                   *)
NeedSwitch(git, ref) == ref = Main /\ (git.ref # Main \/ git.head = 0)

Check(pr) ==
  /\ At(pr, "check") /\ Last(job[pr].stack) # <<>>
  /\ LET d == Head(Last(job[pr].stack))
         git == Own(pr, d.name).git
         skip == \/ ~IsRepo(Own(pr, d.name)) \/ d.ref = NoRef
                 \/ d.ref # Main /\ git.head = 0
                 \/ d.ref # Main /\ git.head = Resolve(git, d.ref)
         known == d.ref # Main /\ Resolve(git, d.ref) # 0
     IN  Go(pr, [job[pr] EXCEPT !.dep = d, !.stack = Rest(job[pr]),
                   !.pc = IF skip THEN "check" ELSE IF known THEN "tree" ELSE "fetch"])
  /\ UNCHANGED <<published, disk, yaml, counts>>

(* Then package_deps_installed decides whether anything is installed.      *)
DepsInstalled(pr) == \A n \in Names(yaml[pr]) : IsRepo(Own(pr, n))

Synced(pr) ==
  /\ At(pr, "check") /\ job[pr].stack = <<<<>>>>
  /\ Go(pr, [job[pr] EXCEPT !.pc = "synced"])
  /\ UNCHANGED <<published, disk, yaml, counts>>

Gate(pr) ==
  /\ At(pr, "synced")
  /\ Go(pr, IF DepsInstalled(pr)
              THEN [Idle EXCEPT !.cmd = "compile", !.pc = "built"]
              ELSE [Idle EXCEPT !.cmd = "compile", !.pc = "next", !.stack = <<yaml[pr]>>])
  /\ UNCHANGED <<published, disk, yaml, counts>>

Built(pr) ==
  /\ At(pr, "built")
  /\ Go(pr, Idle)
  /\ UNCHANGED <<published, disk, yaml, counts>>

--------------------------------------------------------------------------------
(***************************************************************************)
(* package_install_deps_recursive                                          *)
(***************************************************************************)
(* Mutants: a visited package stops the loop; it is installed again.       *)
NextDepStays(pr) ==
  /\ At(pr, "next") /\ job[pr].stack # <<>> /\ Last(job[pr].stack) # <<>>
  /\ LET d == Head(Last(job[pr].stack))
         j == [job[pr] EXCEPT !.stack = Rest(job[pr])]
     IN  IF j.visited[d.name] # None
           THEN UNCHANGED job
           ELSE Go(pr, [j EXCEPT !.dep = d, !.visited[d.name] = d.ref, !.pc = "choose"])
  /\ UNCHANGED <<published, disk, yaml, counts>>
NextDepLastWins(pr) ==
  /\ At(pr, "next") /\ job[pr].stack # <<>> /\ Last(job[pr].stack) # <<>>
  /\ LET d == Head(Last(job[pr].stack))
         j == [job[pr] EXCEPT !.stack = Rest(job[pr]), !.visited[d.name] = d.ref]
     IN  IF job[pr].visited[d.name] # None
           THEN Go(pr, j)
           ELSE Go(pr, [j EXCEPT !.dep = d, !.pc = "choose"])
  /\ UNCHANGED <<published, disk, yaml, counts>>

(* The first ref a name is met with wins; it is marked before installing.  *)
NextDep(pr) ==
  /\ At(pr, "next") /\ job[pr].stack # <<>> /\ Last(job[pr].stack) # <<>>
  /\ LET d == Head(Last(job[pr].stack))
         j == [job[pr] EXCEPT !.stack = Rest(job[pr])]
     IN  IF j.visited[d.name] # None
           THEN Go(pr, j)
           ELSE Go(pr, [j EXCEPT !.dep = d, !.visited[d.name] = d.ref, !.pc = "choose"])
  /\ UNCHANGED <<published, disk, yaml, counts>>

LeaveFrame(pr) ==
  /\ At(pr, "next") /\ job[pr].stack # <<>> /\ Last(job[pr].stack) = <<>>
  /\ Go(pr, [job[pr] EXCEPT !.stack = Front(@)])
  /\ UNCHANGED <<published, disk, yaml, counts>>

(* Mutant: a package is not looked into.                                   *)
DescendNot(pr) ==
  /\ At(pr, "descend")
  /\ Go(pr, [job[pr] EXCEPT !.pc = "next"])
  /\ UNCHANGED <<published, disk, yaml, counts>>

Descend(pr) ==
  /\ At(pr, "descend")
  /\ LET n == job[pr].dep.name
     IN  Go(pr, [job[pr] EXCEPT !.pc = "next", !.stack = Append(@, DepsIn(Own(pr, n), n))])
  /\ UNCHANGED <<published, disk, yaml, counts>>

(* --install url records the package in sn.yaml, in its old place if any.  *)
AddDependency(y, d) ==
  IF d.name \in Names(y)
    THEN [i \in DOMAIN y |-> IF y[i].name = d.name THEN d ELSE y[i]]
    ELSE Append(y, d)

WalkDone(pr) ==
  /\ At(pr, "next") /\ job[pr].stack = <<>>
  /\ Go(pr, [job[pr] EXCEPT !.pc = "installed"])
  /\ UNCHANGED <<published, disk, yaml, counts>>

Installed(pr) ==
  /\ At(pr, "installed")
  /\ Go(pr, IF job[pr].cmd = "compile" THEN [Idle EXCEPT !.cmd = "compile", !.pc = "built"]
              ELSE Idle)
  /\ yaml' = IF job[pr].cmd = "add"
               THEN [yaml EXCEPT ![pr] = AddDependency(@, job[pr].asked)] ELSE yaml
  /\ UNCHANGED <<published, disk, counts>>

--------------------------------------------------------------------------------
(***************************************************************************)
(* package_install_single_cached: an existing directory is brought up to   *)
(* date in place; otherwise the cache's is, or a clone becomes one, and is *)
(* copied; without a cache the clone is made in place.                     *)
(***************************************************************************)
Choose(pr) ==
  /\ At(pr, "choose")
  /\ LET n == job[pr].dep.name
     IN  IF IsRepo(Own(pr, n))
           THEN Go(pr, [job[pr] EXCEPT !.mode = "update", !.pc = "fetch"])
           ELSE \E useCache \in CacheUsable :
             Go(pr, [job[pr] EXCEPT
                       !.mode = IF useCache THEN "cached" ELSE "direct",
                       !.pc = IF useCache /\ IsRepo(disk[<<Cache, n>>]) THEN "fetch" ELSE "clone"])
  /\ UNCHANGED <<published, disk, yaml, counts>>

(* Where a job goes once its directory has every commit it will get.       *)
Fetched(j, git) ==
  LET done == [update |-> "descend", cached |-> "copy", direct |-> "script"]
      next == [j EXCEPT !.todo = IF j.mode = "cached" THEN {"git", "tree"} ELSE {}]
  IN  CASE j.mode # "sync" ->
             [next EXCEPT !.pc = IF j.dep.ref = NoRef THEN done[j.mode] ELSE "tree"]
        [] j.mode = "sync" ->
             IF Resolve(git, j.dep.ref) = 0 THEN Failed(j)
             ELSE IF git.head # Resolve(git, j.dep.ref) \/ NeedSwitch(git, j.dep.ref)
                    THEN [j EXCEPT !.pc = "tree"] ELSE [j EXCEPT !.pc = "check"]

Fetch(pr) ==
  /\ At(pr, "fetch")
  /\ LET place == Place(job[pr], pr)
         git == [disk[place].git EXCEPT !.fetched = published[job[pr].dep.name]]
     IN  /\ IsRepo(disk[place])
         /\ Write(place, [disk[place] EXCEPT !.git = git])
         /\ Go(pr, Fetched(job[pr], git))
  /\ UNCHANGED <<published, yaml, counts>>

(* A cache that cannot be fetched is used as it is, and so is a branch     *)
(* that sync finds checked out.                                            *)
FetchFails(pr) ==
  /\ At(pr, "fetch")
  /\ LET j == job[pr]
         git == Own(pr, j.dep.name).git
     IN  CASE j.mode = "cached" -> Go(pr, Fetched(j, Bare))
           [] j.mode = "update" -> Go(pr, Failed(j))
           [] j.mode = "sync" ->
                Go(pr, IF j.dep.ref = Main /\ ~NeedSwitch(git, Main)
                         THEN [j EXCEPT !.pc = "check"] ELSE Failed(j))
  /\ UNCHANGED <<published, disk, yaml, counts>>

CheckoutTree(pr) ==
  /\ At(pr, "tree")
  /\ LET place == Place(job[pr], pr)
         target == Resolve(disk[place].git, job[pr].dep.ref)
     IN  /\ IsRepo(disk[place]) /\ target # 0
         /\ Write(place, [disk[place] EXCEPT !.tree = target])
         /\ Go(pr, [job[pr] EXCEPT !.pc = "head", !.target = target])
  /\ UNCHANGED <<published, yaml, counts>>

CheckoutFails(pr) == At(pr, "tree") /\ Fail(pr)

AfterCheckout(j) ==
  LET label == [sync |-> "check", update |-> "descend", cached |-> "copy", direct |-> "script"]
  IN  [j EXCEPT !.pc = label[j.mode], !.target = 0]

(* Mutant: HEAD is left where it was.                                      *)
CheckoutHeadNot(pr) ==
  /\ At(pr, "head")
  /\ Go(pr, AfterCheckout(job[pr]))
  /\ UNCHANGED <<published, disk, yaml, counts>>

(* What checking out ref at target may make of .git: the local branch is   *)
(* made or advanced and HEAD set to it; HEAD alone, where there is none    *)
(* to be made.  Nobody looks at whether any of these calls succeeded.      *)
Switched(git, at) == [git EXCEPT !.main = at, !.ref = Main, !.head = at]
Advanced(git, at) == [git EXCEPT !.main = at, !.head = IF git.ref = Main THEN at ELSE @]
HeadsAfter(git, ref, target) ==
  IF ref = Main
    THEN {Advanced(git, at) : at \in {git.main, target}}
           \cup {Switched(git, at) : at \in {git.main, target} \ {0}}
           \cup (IF git.main = 0 THEN {[git EXCEPT !.ref = target, !.head = target]} ELSE {})
    ELSE {git, [git EXCEPT !.ref = ref, !.head = target]}

CheckoutHead(pr) ==
  /\ At(pr, "head")
  /\ LET place == Place(job[pr], pr)
         j == AfterCheckout(job[pr])
         left == [j EXCEPT !.unmoved = @ \cup {j.dep.name}]
     IN  \/ /\ IsRepo(disk[place])
            /\ \E git \in HeadsAfter(disk[place].git, j.dep.ref, job[pr].target) :
                 /\ Write(place, [disk[place] EXCEPT !.git = git])
                 /\ IF git.head = job[pr].target
                      THEN Go(pr, j) /\ UNCHANGED faults
                      ELSE Go(pr, left) /\ faults < MaxFaults /\ faults' = faults + 1
         \/ ~IsRepo(disk[place]) /\ Go(pr, left) /\ UNCHANGED <<disk, faults>>
  /\ UNCHANGED <<published, yaml, commands>>

(* git_clone refuses a directory that is there, and removes what it made   *)
(* when the transfer or the checkout fails.                                *)
CloneInit(pr) ==
  /\ At(pr, "clone")
  /\ LET place == Place(job[pr], pr)
     IN  /\ disk[place] = None
         /\ Write(place, [EmptyDir EXCEPT !.git = Bare])
  /\ Go(pr, [job[pr] EXCEPT !.pc = "transfer"])
  /\ UNCHANGED <<published, yaml, counts>>

CloneRefused(pr) ==
  At(pr, "clone") /\ disk[Place(job[pr], pr)] # None /\ Fail(pr)

CloneTransfer(pr) ==
  /\ At(pr, "transfer")
  /\ LET place == Place(job[pr], pr)
         k == published[job[pr].dep.name]
     IN  /\ IsRepo(disk[place])
         /\ Write(place, [disk[place] EXCEPT !.git = [Bare EXCEPT !.fetched = k, !.main = k, !.head = k]])
         /\ Go(pr, [job[pr] EXCEPT !.pc = "files", !.target = k])
  /\ UNCHANGED <<published, yaml, counts>>

CloneFails(pr) ==
  /\ At(pr, "transfer") \/ At(pr, "files")
  /\ Write(Place(job[pr], pr), None)
  /\ Go(pr, Failed(job[pr]))
  /\ UNCHANGED <<published, yaml, counts>>

CloneFiles(pr) ==
  /\ At(pr, "files")
  /\ LET place == Place(job[pr], pr)
     IN  /\ IsRepo(disk[place])
         /\ Write(place, [disk[place] EXCEPT !.tree = job[pr].target])
         /\ Go(pr, Fetched([job[pr] EXCEPT !.target = 0], Bare))
  /\ UNCHANGED <<published, yaml, counts>>

(* copy_directory_recursive, in the order readdir gives; .git and the rest *)
(* are each taken to be copied at once.  What is not there is not missed.  *)
CopyPart(pr, part) ==
  /\ At(pr, "copy") /\ part \in job[pr].todo
  /\ LET n == job[pr].dep.name
         new == disk[<<Cache, n>>]
         old == IF Own(pr, n) = None THEN EmptyDir ELSE Own(pr, n)
     IN  /\ new # None
         /\ Write(<<pr, n>>, IF new[part] = EmptyDir[part] THEN old ELSE [old EXCEPT ![part] = new[part]])
         /\ Go(pr, [job[pr] EXCEPT !.todo = @ \ {part},
                      !.pc = IF job[pr].todo = {part} THEN "script" ELSE "copy"])
  /\ UNCHANGED <<published, yaml, counts>>

CopyFails(pr) == At(pr, "copy") /\ Fail(pr)

(* package_run_install_script, whose failure is only a warning.            *)
RunScript(pr) ==
  /\ At(pr, "script")
  /\ LET d == Own(pr, job[pr].dep.name)
     IN  Write(<<pr, job[pr].dep.name>>, [d EXCEPT !.script = (d.tree # 0)])
  /\ Go(pr, [job[pr] EXCEPT !.pc = "descend"])
  /\ UNCHANGED <<published, yaml, counts>>

--------------------------------------------------------------------------------
Begin(pr) == BeginCompile(pr) \/ BeginInstall(pr)
               \/ \E d \in Asked : BeginAdd(pr, d)

Sync(pr) == (\E n \in Packages : RemoveOrphan(pr, n) \/ LeaveOrphan(pr, n)) \/ OrphansGone(pr)
              \/ Check(pr) \/ Synced(pr) \/ Gate(pr)

Walk(pr) == NextDep(pr) \/ LeaveFrame(pr) \/ Descend(pr) \/ WalkDone(pr) \/ Installed(pr)

Single(pr) ==
  \/ Choose(pr) \/ Fetch(pr) \/ FetchFails(pr)
  \/ CheckoutTree(pr) \/ CheckoutFails(pr) \/ CheckoutHead(pr)
  \/ CloneInit(pr) \/ CloneRefused(pr) \/ CloneTransfer(pr) \/ CloneFails(pr)
  \/ CloneFiles(pr)
  \/ (\E part \in {"git", "tree"} : CopyPart(pr, part)) \/ CopyFails(pr) \/ RunScript(pr)

Step(pr) == Sync(pr) \/ Walk(pr) \/ Single(pr) \/ Built(pr) \/ Stop(pr)

(* Another process's step is one that leaves the command where it is.      *)
UsesCache(pr, n) ==
  /\ job[pr].mode = "cached" /\ job[pr].dep.name = n
  /\ job[pr].pc \in {"fetch", "clone", "transfer", "files", "tree", "head", "copy"}
Watch ==
  raced' = [pr \in Projects |->
              IF job'[pr].pc = "idle" THEN {}
              ELSE raced[pr] \cup {n \in Packages : /\ UsesCache(pr, n) /\ job'[pr] = job[pr]
                                                    /\ disk'[<<Cache, n>>] # disk[<<Cache, n>>]}]

Next == /\ \/ \E pr \in Projects : Begin(pr) \/ Step(pr) \/ Crash(pr) \/ Edit(pr)
           \/ \E n \in Packages : Publish(n) \/ ClearCache(n)
        /\ Watch

Spec == Init /\ [][Next]_vars

(* A running command is scheduled; git and the network answer or fail.     *)
FairSpec == Spec /\ \A pr \in Projects : WF_vars(Step(pr) /\ Watch)

--------------------------------------------------------------------------------
TypeOK ==
  /\ published \in [Packages -> Versions]
  /\ disk \in [(Projects \cup {Cache}) \X Packages -> Dir \cup {None}]
  /\ yaml \in [Projects -> Seq(Dependency)]
  /\ \A pr \in Projects :
       /\ job[pr].cmd \in {"none", "compile", "install", "add"}
       /\ job[pr].mode \in {"none", "sync", "update", "cached", "direct"}
       /\ job[pr].dep \in Dependency \cup {None}
       /\ job[pr].stack \in Seq(Seq(Dependency))
       /\ job[pr].visited \in [Packages -> Refs \cup {None}]
  /\ commands \in 0..MaxCommands /\ faults \in 0..MaxFaults
  /\ raced \in [Projects -> SUBSET Packages]

Walked(pr) == {n \in Packages : job[pr].visited[n] # None}
Succeeded(pr) == At(pr, "installed") /\ job[pr].ok /\ job[pr].cmd # "add"

(* When package_install_all reports success, it has gone to everything its *)
(* sn.yaml names and everything the sn.yaml of an installed package names, *)
(* cycles included, and each is a repository of the project, unless the    *)
(* cache was written to by others while the package was made there.        *)
InstalledClosed ==
  \A pr \in Projects : Succeeded(pr) =>
    /\ Names(yaml[pr]) \subseteq Walked(pr)
    /\ \A n \in Walked(pr) : /\ n \notin raced[pr] => IsRepo(Own(pr, n))
                             /\ Names(DepsIn(Own(pr, n), n)) \subseteq Walked(pr)

AtRefs(pr, except) ==
  \A n \in Walked(pr) \ except : job[pr].visited[n] # NoRef =>
    LET d == Own(pr, n)
        k == Resolve(d.git, job[pr].visited[n])
    IN  d.tree = k /\ (n \notin job[pr].unmoved => d.git.head = k)

(* The files of every package it went to are at the ref it was first asked *)
(* for, whatever earlier commands were killed halfway, unless others wrote *)
(* to the cache meanwhile; so is HEAD, unless a call that moves it failed. *)
InstalledAtRef == \A pr \in Projects : Succeeded(pr) => AtRefs(pr, raced[pr])

(* When package_sync reports success no direct dependency is at another    *)
(* commit than its tag, but one whose HEAD could not be moved.             *)
SyncedAtTag ==
  \A pr \in Projects : At(pr, "synced") /\ job[pr].ok =>
    \A i \in DOMAIN yaml[pr] :
      LET r == yaml[pr][i]
          d == Own(pr, r.name)
      IN  r.ref \in Versions /\ IsRepo(d) /\ r.name \notin job[pr].unmoved =>
            d.git.head \in {0, r.ref}

(* What sync deletes is named neither by the project nor by any package    *)
(* that the deletions leave in use.                                        *)
SyncKeepsClosed ==
  [][\A pr \in Projects, n \in Packages :
       At(pr, "orphans") /\ Own(pr, n)' # Own(pr, n) =>
         /\ n \notin Names(yaml[pr])
         /\ \A m \in Collected(pr) : n \notin Names(DepsIn(Own(pr, m), m))]_vars

(* Every command ends, however the dependencies of the packages loop.      *)
CommandEnds == \A pr \in Projects : ~At(pr, "idle") ~> At(pr, "idle")

(* Claims of the sources that the code does not keep.                      *)
(* When the check before a build finds all dependencies installed, every   *)
(* package the project needs is there.                                     *)
NoneMissing ==
  \A pr \in Projects : At(pr, "synced") /\ DepsInstalled(pr) =>
    \A n \in Collected(pr) : IsRepo(Own(pr, n))

(* ... and the direct ones have their files.                               *)
NoneHollow ==
  \A pr \in Projects : At(pr, "synced") /\ DepsInstalled(pr) =>
    \A n \in Names(yaml[pr]) : Own(pr, n).tree # 0

(* What is installed with success is at its ref, whoever used the cache.   *)
AtRefDespiteOthers == \A pr \in Projects : Succeeded(pr) => AtRefs(pr, {})

(* A package installed with success has had its install script run.        *)
ScriptsRun ==
  \A pr \in Projects : Succeeded(pr) => \A n \in Walked(pr) :
    Own(pr, n).tree # 0 => Own(pr, n).script

================================================================================
