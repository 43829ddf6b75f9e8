------------------------------- MODULE SnThread --------------------------------
(***************************************************************************)
(* The threads of a compiled program: the SnThread structure that one      *)
(* function (the owner) shares with the wrapper of every thread it spawns, *)
(* the C code generated for spawn, sync, detach, fire-and-forget and scope *)
(* exit, and the checker state that decides which statements the owner may *)
(* contain.                                                                *)
(*                                                                         *)
(* A statement is one action that conjoins what the checker accepts, how   *)
(* it moves tstate, and the first step of the generated code; calls that   *)
(* block or that the wrapper can interleave with are steps of their own.   *)
(* A thread's result is named by the thread, and None is both the null     *)
(* pointer and a value no thread computed.                                 *)
(***************************************************************************)
EXTENDS ThreadState, Integers, FiniteSets

CONSTANTS
  Threads,       \* the structures the owner may allocate, one per spawn
  Vars,          \* variables of the owner with a companion handle
  None,
  MaxSpawns,     \* how often one variable may be given a spawn: bounds programs
  ListDetached   \* may the program name a detached variable in [..]! ?

ASSUME NoneAssumption == None \notin Threads /\ None \notin Vars
ASSUME BoundAssumption == MaxSpawns \in Nat /\ ListDetached \in BOOLEAN

VARIABLES
  \* the fields of struct SnThread
  mem,        \* "unused", "live" or "freed"
  refcount,
  result,     \* what the result pointer points to
  joined,
  detached,
  \* the operating system's side, and the wrapper function
  reap,       \* "joinable", "joined" or "detached"
  isVoid,     \* the spawned function returns no value
  wpc,
  \* the owner's C frame
  companion,  \* __sn__x__th__
  value,      \* __sn__x
  opc,        \* where the owner is
  cur,        \* the SnThread * local of the statement being executed
  curVar,     \* the variable that statement delivers to
  todo,       \* variables a sync statement has not yet come to
  \* the checker
  scope,      \* variables declared and not yet out of scope
  tstate,
  \* history
  spawns,     \* spawns given to the variable since its declaration
  latest,     \* the value the source program expects in the variable
  faults      \* kinds of undefined behaviour that have happened

struct    == <<mem, refcount, result, joined, detached>>
platform  == <<reap, isVoid, wpc>>
frame     == <<companion, value, opc, cur, curVar, todo>>
checker   == <<scope, tstate>>
history   == <<spawns, latest>>
vars      == <<struct, platform, frame, checker, history, faults>>

(* Reading or writing a field of a structure that is not allocated.        *)
Touch(t) == IF mem[t] = "live" THEN {} ELSE {"use-after-free"}

Init ==
  /\ mem = [t \in Threads |-> "unused"]
  /\ refcount = [t \in Threads |-> 0]
  /\ result = [t \in Threads |-> "null"]
  /\ joined = [t \in Threads |-> FALSE]
  /\ detached = [t \in Threads |-> FALSE]
  /\ reap = [t \in Threads |-> "joinable"]
  /\ isVoid = [t \in Threads |-> FALSE]
  /\ wpc = [t \in Threads |-> "idle"]
  /\ companion = [v \in Vars |-> None]
  /\ value = [v \in Vars |-> None]
  /\ opc = "run" /\ cur = None /\ curVar = None /\ todo = {}
  /\ scope = {} /\ tstate = [v \in Vars |-> "NORMAL"]
  /\ spawns = [v \in Vars |-> 0] /\ latest = [v \in Vars |-> None]
  /\ faults = {}

--------------------------------------------------------------------------------
(* Mutant: the structure starts with the owner's reference only.           *)
SpawnOneRef(t, void, hasArgs) ==
  /\ mem[t] = "unused"
  /\ mem' = [mem EXCEPT ![t] = "live"]
  /\ refcount' = [refcount EXCEPT ![t] = 1]
  /\ result' = [result EXCEPT ![t] = IF hasArgs THEN "args" ELSE "null"]
  /\ isVoid' = [isVoid EXCEPT ![t] = void]
  /\ wpc' = [wpc EXCEPT ![t] = "start"]
  /\ UNCHANGED <<joined, detached, reap, faults>>

(***************************************************************************)
(* Spawning.  &f(...) evaluates to a structure with two references, the    *)
(* arguments (if any) parked in its result field, and a running wrapper.   *)
(***************************************************************************)
Spawn(t, void, hasArgs) ==
  /\ mem[t] = "unused"
  /\ mem' = [mem EXCEPT ![t] = "live"]
  /\ refcount' = [refcount EXCEPT ![t] = 2]
  /\ result' = [result EXCEPT ![t] = IF hasArgs THEN "args" ELSE "null"]
  /\ isVoid' = [isVoid EXCEPT ![t] = void]
  /\ wpc' = [wpc EXCEPT ![t] = "start"]
  /\ UNCHANGED <<joined, detached, reap, faults>>

(* Mutant: the last reference frees nothing.                               *)
ReleaseNoFree(t) ==
  /\ refcount' = [refcount EXCEPT ![t] = @ - 1]
  /\ UNCHANGED mem

(* atomic_fetch_sub, and the frees when it was the last reference.         *)
Release(t) ==
  /\ refcount' = [refcount EXCEPT ![t] = @ - 1]
  /\ mem' = IF refcount[t] = 1 THEN [mem EXCEPT ![t] = "freed"] ELSE mem

--------------------------------------------------------------------------------
(***************************************************************************)
(* The wrapper of thread t.                                                *)
(***************************************************************************)
WrapperStart(t) ==
  /\ wpc[t] = "start"
  /\ wpc' = [wpc EXCEPT ![t] = "call"]
  /\ faults' = faults \cup (IF result[t] = "args" THEN Touch(t) ELSE {})
  /\ UNCHANGED <<struct, reap, isVoid, frame, checker, history>>

(* The function returns; its argument block is freed and unlinked.         *)
WrapperReturn(t) ==
  /\ wpc[t] = "call"
  /\ wpc' = [wpc EXCEPT ![t] = "store"]
  /\ result' = [result EXCEPT ![t] = "null"]
  /\ faults' = faults \cup (IF result[t] = "args" THEN Touch(t) ELSE {})
  /\ UNCHANGED <<mem, refcount, joined, detached, reap, isVoid, frame, checker, history>>

WrapperStore(t) ==
  /\ wpc[t] = "store"
  /\ wpc' = [wpc EXCEPT ![t] = "release"]
  /\ result' = [result EXCEPT ![t] = IF isVoid[t] THEN @ ELSE "value"]
  /\ faults' = faults \cup (IF isVoid[t] THEN {} ELSE Touch(t))
  /\ UNCHANGED <<mem, refcount, joined, detached, reap, isVoid, frame, checker, history>>

WrapperRelease(t) ==
  /\ wpc[t] = "release"
  /\ wpc' = [wpc EXCEPT ![t] = "return"]
  /\ Release(t)
  /\ faults' = faults \cup Touch(t)
  /\ UNCHANGED <<result, joined, detached, reap, isVoid, frame, checker, history>>

WrapperExit(t) ==
  /\ wpc[t] = "return"
  /\ wpc' = [wpc EXCEPT ![t] = "exited"]
  /\ UNCHANGED <<struct, reap, isVoid, frame, checker, history, faults>>

Wrapper(t) == WrapperStart(t) \/ WrapperReturn(t) \/ WrapperStore(t)
                \/ WrapperRelease(t) \/ WrapperExit(t)

--------------------------------------------------------------------------------
(***************************************************************************)
(* Statements of the owner: what each does to the frame.  The checker's    *)
(* part is conjoined further down.                                         *)
(***************************************************************************)
(* The new handle overwrites whatever the companion held.                  *)
SpawnInto(v, t) ==
  /\ \E hasArgs \in BOOLEAN : Spawn(t, FALSE, hasArgs)
  /\ companion' = [companion EXCEPT ![v] = t]
  /\ latest' = [latest EXCEPT ![v] = t]
  /\ UNCHANGED <<opc, cur, curVar, todo>>

(* Mutant: the companion is nulled, as docs/threading.md has it, although  *)
(* the owner's reference has not been dropped.                             *)
DetachHandleNulls(v) ==
  /\ LET t == companion[v]
     IN  IF t = None
           THEN UNCHANGED <<detached, reap, faults>>
           ELSE /\ detached' = [detached EXCEPT ![t] = TRUE]
                /\ reap' = [reap EXCEPT ![t] = IF @ = "joinable" THEN "detached" ELSE @]
                /\ faults' = faults \cup Touch(t)
                     \cup (IF reap[t] = "joinable" THEN {} ELSE {"bad-detach"})
  /\ latest' = [latest EXCEPT ![v] = value[v]]
  /\ companion' = [companion EXCEPT ![v] = None]
  /\ UNCHANGED <<mem, refcount, result, joined, isVoid, wpc, value, opc, cur, curVar, todo>>

DetachHandle(v) ==
  /\ LET t == companion[v]
     IN  IF t = None
           THEN UNCHANGED <<detached, reap, faults>>
           ELSE /\ detached' = [detached EXCEPT ![t] = TRUE]
                /\ reap' = [reap EXCEPT ![t] = IF @ = "joinable" THEN "detached" ELSE @]
                /\ faults' = faults \cup Touch(t)
                     \cup (IF reap[t] = "joinable" THEN {} ELSE {"bad-detach"})
  /\ latest' = [latest EXCEPT ![v] = value[v]]
  /\ UNCHANGED <<mem, refcount, result, joined, isVoid, wpc, frame>>

(* Enters the code of a sync statement over the variables S.               *)
BeginSync(S) ==
  /\ todo' = S
  /\ opc' = "sync"
  /\ UNCHANGED <<struct, platform, companion, value, cur, curVar, history, faults>>

(* Mutant: the companion lacks its cleanup attribute.                      *)
LeaveScopeNoCleanup(v) ==
  /\ companion' = [companion EXCEPT ![v] = None]
  /\ value' = [value EXCEPT ![v] = None]
  /\ latest' = [latest EXCEPT ![v] = None]
  /\ UNCHANGED <<struct, platform, opc, cur, curVar, todo, faults>>

(* Leaves v's scope: sn_cleanup_thread runs on its companion.              *)
LeaveScope(v) ==
  /\ companion' = [companion EXCEPT ![v] = None]
  /\ cur' = companion[v]
  /\ opc' = IF companion[v] = None THEN "run" ELSE "cleanup"
  /\ value' = [value EXCEPT ![v] = None]
  /\ latest' = [latest EXCEPT ![v] = None]
  /\ UNCHANGED <<struct, platform, curVar, todo, faults>>

--------------------------------------------------------------------------------
(***************************************************************************)
(* The statements, as the checker accepts them.                            *)
(***************************************************************************)
(* var v: T = &f(...)                                                      *)
DeclareSpawned(v, t) ==
  /\ opc = "run" /\ v \notin scope
  /\ SpawnInto(v, t)
  /\ scope' = scope \cup {v}
  /\ tstate' = [tstate EXCEPT ![v] = MarkPending("NORMAL")]
  /\ spawns' = [spawns EXCEPT ![v] = 1]
  /\ UNCHANGED value

(* var v: T = e, for a variable some other statement gives a spawn.        *)
DeclarePlain(v) ==
  /\ opc = "run" /\ v \notin scope
  /\ scope' = scope \cup {v}
  /\ UNCHANGED <<struct, platform, frame, tstate, history, faults>>

(* v = &f(...)                                                             *)
AssignSpawned(v, t) ==
  /\ opc = "run" /\ v \in scope /\ CanAssign(tstate[v])
  /\ spawns[v] < MaxSpawns
  /\ SpawnInto(v, t)
  /\ tstate' = [tstate EXCEPT ![v] = MarkPending(@)]
  /\ spawns' = [spawns EXCEPT ![v] = @ + 1]
  /\ UNCHANGED <<value, scope>>

(* v = e                                                                   *)
AssignPlain(v) ==
  /\ opc = "run" /\ v \in scope /\ CanAssign(tstate[v])
  /\ value' = [value EXCEPT ![v] = None]
  /\ latest' = [latest EXCEPT ![v] = None]
  /\ UNCHANGED <<struct, platform, companion, opc, cur, curVar, todo, checker, spawns, faults>>

(* v!                                                                      *)
SyncVariable(v) ==
  /\ opc = "run" /\ v \in scope /\ CanSync(tstate[v])
  /\ BeginSync({v})
  /\ tstate' = [tstate EXCEPT ![v] = MarkSynchronized(@)]
  /\ UNCHANGED scope

(* [v1, v2, ...]!                                                          *)
SyncList(S) ==
  /\ opc = "run" /\ S # {} /\ S \subseteq scope
  /\ \A v \in S : CanSyncInList(tstate[v])
  /\ ListDetached \/ \A v \in S : tstate[v] # "DETACHED"
  /\ BeginSync(S)
  /\ tstate' = [v \in Vars |-> IF v \in S THEN MarkSynchronized(tstate[v]) ELSE tstate[v]]
  /\ UNCHANGED scope

(* v~                                                                      *)
Detach(v) ==
  /\ opc = "run" /\ v \in scope /\ CanDetach(tstate[v])
  /\ DetachHandle(v)
  /\ tstate' = [tstate EXCEPT ![v] = MarkDetached(@)]
  /\ UNCHANGED <<scope, spawns>>

(* &f(...) as a statement: spawn, detach and drop the owner's reference.   *)
FireAndForget(t) ==
  /\ opc = "run"
  /\ \E void, hasArgs \in BOOLEAN : Spawn(t, void, hasArgs)
  /\ cur' = t /\ opc' = "forget"
  /\ UNCHANGED <<companion, value, curVar, todo, checker, history>>

(* &f(...)!                                                                *)
SpawnAndSync(t) ==
  /\ opc = "run"
  /\ \E void, hasArgs \in BOOLEAN : Spawn(t, void, hasArgs)
  /\ cur' = t /\ opc' = "join"
  /\ UNCHANGED <<companion, value, curVar, todo, checker, history>>

(* The end of the block v is declared in, or a return out of it.           *)
EndScope(v) ==
  /\ opc = "run" /\ v \in scope
  /\ LeaveScope(v)
  /\ scope' = scope \ {v}
  /\ tstate' = [tstate EXCEPT ![v] = "NORMAL"]
  /\ spawns' = [spawns EXCEPT ![v] = 0]

(* The owner's body ends; every declared variable has left its scope.      *)
Return ==
  /\ opc = "run" /\ scope = {}
  /\ opc' = "done"
  /\ UNCHANGED <<struct, platform, companion, value, cur, curVar, todo, checker, history, faults>>

--------------------------------------------------------------------------------
(***************************************************************************)
(* The steps inside a statement.                                           *)
(***************************************************************************)
NextElement == IF todo = {} THEN "run" ELSE "sync"

(* Mutants: the companion keeps the handle; the list never moves on.       *)
SyncMoveKeeps(v) ==
  /\ opc = "sync" /\ v \in todo
  /\ todo' = todo \ {v}
  /\ IF companion[v] = None
       THEN /\ opc' = (IF todo = {v} THEN "run" ELSE "sync")
            /\ UNCHANGED <<cur, curVar>>
       ELSE cur' = companion[v] /\ curVar' = v /\ opc' = "join"
  /\ UNCHANGED <<struct, platform, companion, value, checker, history, faults>>

(* Moves the handle of the next variable into the statement's local, which *)
(* is an sn_auto_thread, and nulls the companion.                          *)
SyncMove(v) ==
  /\ opc = "sync" /\ v \in todo
  /\ todo' = todo \ {v}
  /\ companion' = [companion EXCEPT ![v] = None]
  /\ IF companion[v] = None
       THEN /\ opc' = (IF todo = {v} THEN "run" ELSE "sync")
            /\ UNCHANGED <<cur, curVar>>
       ELSE cur' = companion[v] /\ curVar' = v /\ opc' = "join"
  /\ UNCHANGED <<struct, platform, value, checker, history, faults>>

(* pthread_join: waits for a joinable thread; on any other it is undefined *)
(* behaviour, here an immediate return.                                    *)
CanPassJoin(t) == reap[t] = "joinable" => wpc[t] = "exited"
PassJoin(t) ==
  /\ CanPassJoin(t)
  /\ reap' = [reap EXCEPT ![t] = IF @ = "joinable" THEN "joined" ELSE @]
  /\ joined' = [joined EXCEPT ![t] = TRUE]
  /\ faults' = faults \cup Touch(t)
                 \cup (IF reap[t] = "joinable" THEN {} ELSE {"bad-join"})

(* Mutant: the join already drops the owner's reference.                   *)
JoinReleases ==
  /\ opc = "join"
  /\ IF joined[cur]
       THEN faults' = faults \cup Touch(cur) /\ UNCHANGED <<reap, joined>>
       ELSE PassJoin(cur)
  /\ Release(cur)
  /\ opc' = "take"
  /\ UNCHANGED <<result, detached, isVoid, wpc, companion, value, cur, curVar, todo,
                 checker, history>>

(* sn_thread_join                                                          *)
Join ==
  /\ opc = "join"
  /\ IF joined[cur]
       THEN faults' = faults \cup Touch(cur) /\ UNCHANGED <<reap, joined>>
       ELSE PassJoin(cur)
  /\ opc' = "take"
  /\ UNCHANGED <<mem, refcount, result, detached, isVoid, wpc, companion, value,
                 cur, curVar, todo, checker, history>>

(* Copies the result out; &f()! delivers to no variable, void to none.     *)
Take ==
  /\ opc = "take"
  /\ value' = IF curVar = None THEN value ELSE [value EXCEPT ![curVar] = cur]
  /\ faults' = faults \cup Touch(cur)
                 \cup (IF isVoid[cur] \/ result[cur] = "value" THEN {} ELSE {"no-result"})
  /\ opc' = "cleanup"
  /\ UNCHANGED <<struct, platform, companion, cur, curVar, todo, checker, history>>

(* Mutant: scope exit only drops the reference, without a join.            *)
CleanupNoJoin ==
  /\ opc = "cleanup"
  /\ faults' = faults \cup Touch(cur)
  /\ Release(cur)
  /\ cur' = None /\ curVar' = None /\ opc' = NextElement
  /\ UNCHANGED <<result, joined, detached, reap, isVoid, wpc, companion, value, todo,
                 checker, history>>

(* sn_cleanup_thread: joins a thread nobody joined or detached, then drops *)
(* the owner's reference.                                                  *)
Cleanup ==
  /\ opc = "cleanup"
  /\ IF joined[cur] \/ detached[cur]
       THEN faults' = faults \cup Touch(cur) /\ UNCHANGED <<reap, joined>>
       ELSE PassJoin(cur)
  /\ Release(cur)
  /\ cur' = None /\ curVar' = None /\ opc' = NextElement
  /\ UNCHANGED <<result, detached, isVoid, wpc, companion, value, todo, checker, history>>

ForgetDetach ==
  /\ opc = "forget"
  /\ detached' = [detached EXCEPT ![cur] = TRUE]
  /\ reap' = [reap EXCEPT ![cur] = "detached"]
  /\ faults' = faults \cup Touch(cur)
  /\ opc' = "drop"
  /\ UNCHANGED <<mem, refcount, result, joined, isVoid, wpc, companion, value,
                 cur, curVar, todo, checker, history>>

ForgetDrop ==
  /\ opc = "drop"
  /\ Release(cur)
  /\ faults' = faults \cup Touch(cur)
  /\ cur' = None /\ opc' = "run"
  /\ UNCHANGED <<result, joined, detached, platform, companion, value, curVar, todo,
                 checker, history>>

Inside == (\E v \in Vars : SyncMove(v)) \/ Join \/ Take \/ Cleanup
            \/ ForgetDetach \/ ForgetDrop

Statement ==
  \/ \E v \in Vars, t \in Threads : DeclareSpawned(v, t) \/ AssignSpawned(v, t)
  \/ \E v \in Vars : DeclarePlain(v) \/ AssignPlain(v) \/ SyncVariable(v)
                       \/ Detach(v) \/ EndScope(v)
  \/ \E S \in SUBSET Vars : SyncList(S)
  \/ \E t \in Threads : FireAndForget(t) \/ SpawnAndSync(t)
  \/ Return

Terminated == opc = "done" /\ (\A t \in Threads : wpc[t] \in {"idle", "exited"})
                /\ UNCHANGED vars

Next == Statement \/ Inside \/ (\E t \in Threads : Wrapper(t)) \/ Terminated

Spec == Init /\ [][Next]_vars

(* Spawned functions return and the scheduler runs every thread; what the  *)
(* owner does next is the program's choice, but a statement once begun is  *)
(* carried through.                                                        *)
Fairness == WF_vars(Inside) /\ \A t \in Threads : WF_vars(Wrapper(t))
FairSpec == Spec /\ Fairness

--------------------------------------------------------------------------------
TypeOK ==
  /\ mem \in [Threads -> {"unused", "live", "freed"}]
  /\ refcount \in [Threads -> 0..2]
  /\ result \in [Threads -> {"null", "args", "value"}]
  /\ joined \in [Threads -> BOOLEAN]
  /\ detached \in [Threads -> BOOLEAN]
  /\ reap \in [Threads -> {"joinable", "joined", "detached"}]
  /\ isVoid \in [Threads -> BOOLEAN]
  /\ wpc \in [Threads -> {"idle", "start", "call", "store", "release", "return", "exited"}]
  /\ companion \in [Vars -> Threads \cup {None}]
  /\ value \in [Vars -> Threads \cup {None}]
  /\ opc \in {"run", "sync", "join", "take", "cleanup", "forget", "drop", "done"}
  /\ cur \in Threads \cup {None}
  /\ curVar \in Vars \cup {None}
  /\ todo \subseteq Vars
  /\ scope \subseteq Vars
  /\ tstate \in [Vars -> States]
  /\ spawns \in [Vars -> Nat]
  /\ latest \in [Vars -> Threads \cup {None}]
  /\ faults \subseteq {"use-after-free", "bad-join", "bad-detach", "no-result"}

(* The two parties that may hold a reference to t's structure.             *)
OwnerHolds(t)   == cur = t \/ \E v \in Vars : companion[v] = t
WrapperHolds(t) == wpc[t] \in {"start", "call", "store", "release"}
Holders(t) == (IF OwnerHolds(t) THEN {"owner"} ELSE {})
                \cup (IF WrapperHolds(t) THEN {"wrapper"} ELSE {})

(* sn_thread_release frees on the last reference, so no step of either     *)
(* party ever reads a freed structure, drops it twice, joins or detaches a *)
(* thread that is no longer joinable, or copies a result not there yet.    *)
NoFaults == faults = {}

(* The count never runs ahead of or behind the parties that still hold the *)
(* structure: a reference is neither lost nor dropped twice.               *)
RefcountExact ==
  \A t \in Threads : mem[t] # "unused" => refcount[t] = Cardinality(Holders(t))

(* No structure is orphaned: while one is allocated, somebody who will     *)
(* drop it still holds it.                                                 *)
NoOrphan == \A t \in Threads : mem[t] = "live" => Holders(t) # {}

(* Whenever the checker lets the program read a variable, the variable     *)
(* holds the value the source gave it last; a thread assigned to it has    *)
(* finished and its result has been copied.                                *)
ReadsAreReady ==
  opc = "run" => \A v \in scope : CanRead(tstate[v]) => value[v] = latest[v]

(* sn_cleanup_thread joins what was neither joined nor detached, so when   *)
(* the owner has returned only detached threads can still be running.      *)
ReturnLeavesOnlyDetached ==
  opc = "done" => \A t \in Threads : WrapperHolds(t) => reap[t] = "detached"

(* Every structure is freed in the end, whichever of owner and wrapper     *)
(* lets go last.                                                           *)
AllReclaimed == (opc = "done") ~> (\A t \in Threads : mem[t] # "live")

--------------------------------------------------------------------------------
(***************************************************************************)
(* The reference count keeps the promise of CoOwned: no reference is lost, *)
(* dropped twice, or dropped late, and the free happens in the step of the *)
(* last holder.                                                            *)
(***************************************************************************)
Promise == INSTANCE CoOwned WITH
             Cells <- Threads, Parties <- {"owner", "wrapper"},
             shares <- [t \in Threads |-> Holders(t)],
             reclaimed <- [t \in Threads |-> mem[t] = "freed"]

KeepsPromise == Promise!Spec

--------------------------------------------------------------------------------
(***************************************************************************)
(* Why the structures are safe, as an inductive invariant.                 *)
(***************************************************************************)
Joinable(t) == ~joined[t] /\ ~detached[t] /\ reap[t] = "joinable"
Detached(t) == ~joined[t] /\ detached[t] /\ reap[t] = "detached"
Joined(t)   == joined[t] /\ ~detached[t] /\ reap[t] = "joined" /\ wpc[t] = "exited"

(* A structure is allocated as long as someone holds it, the count covers  *)
(* the holders, and no handle is held twice.                               *)
Covered ==
  /\ \A t \in Threads : mem[t] = "live" => refcount[t] > 0
  /\ \A t \in Threads : OwnerHolds(t) \/ WrapperHolds(t) => mem[t] = "live"
  /\ \A t \in Threads : OwnerHolds(t) /\ WrapperHolds(t) => refcount[t] = 2
  /\ \A t \in Threads : mem[t] = "unused" => Joinable(t) /\ wpc[t] = "idle"

HeldOnce ==
  /\ \A v \in Vars : companion[v] # None => companion[v] # cur
  /\ \A v, w \in Vars : v # w /\ companion[v] # None => companion[v] # companion[w]

(* A companion is never a joined thread, and a detached one only in a      *)
(* variable the checker knows to be detached.                              *)
Companions ==
  \A v \in Vars : companion[v] # None =>
    \/ Joinable(companion[v])
    \/ Detached(companion[v]) /\ tstate[v] = "DETACHED"

(* What holds of the owner's local at each place.                          *)
AtLocal ==
  /\ opc \in {"run", "sync", "done"} <=> cur = None
  /\ opc \in {"join", "forget"} => Joinable(cur)
  /\ opc = "take" => Joined(cur)
  /\ opc = "drop" => Detached(cur)
  /\ opc = "cleanup" => Joinable(cur) \/ Detached(cur) \/ Joined(cur)

(* A statement being carried through syncs no detached variable.           *)
SyncsNoDetached ==
  /\ opc \in {"run", "forget", "drop", "done"} => todo = {}
  /\ \A v \in todo : tstate[v] # "DETACHED"

ResultStored ==
  \A t \in Threads : wpc[t] \in {"release", "return", "exited"} =>
    isVoid[t] \/ result[t] = "value"

(* Everything the absence of faults rests on; inductive.                   *)
IInv == TypeOK /\ NoFaults /\ Covered /\ HeldOnce /\ Companions /\ AtLocal
          /\ SyncsNoDetached /\ ResultStored

================================================================================
