------------------------------ MODULE ThreadProofs ------------------------------
(***************************************************************************)
(* Three layers about the thread structures, for any number of threads and *)
(* variables and any bound on respawning: nobody touches a freed structure *)
(* in any program; the count is exact in a program that gives a variable   *)
(* at most one spawn; and what of this survives branches and loops.        *)
(***************************************************************************)
EXTENDS ThreadControl, FiniteSetTheorems, TLAPS

--------------------------------------------------------------------------------
(***************************************************************************)
(* Memory safety of the thread structures, for any number of threads and   *)
(* variables and any bound on respawning.                                  *)
(***************************************************************************)

(* A program starts with no structure allocated, so nothing is held.       *)
LEMMA InitIInv == Init => IInv
<1> SUFFICES ASSUME Init PROVE IInv
    OBVIOUS
<1> USE NoneAssumption DEF Init
<1>1. TypeOK
  BY DEF TypeOK, States
<1>2. NoFaults /\ SyncsNoDetached /\ ResultStored
  BY DEF NoFaults, SyncsNoDetached, ResultStored
<1>3. \A t \in Threads : ~OwnerHolds(t) /\ ~WrapperHolds(t)
  BY DEF OwnerHolds, WrapperHolds
<1>4. Covered
  BY <1>3 DEF Covered, Joinable
<1>5. HeldOnce /\ Companions /\ AtLocal
  BY DEF HeldOnce, Companions, AtLocal, Joinable, Detached, Joined
<1> QED
  BY <1>1, <1>2, <1>4, <1>5 DEF IInv

--------------------------------------------------------------------------------
(* A step of a wrapper.                                                    *)
LEMMA WrapperIInv ==
  ASSUME IInv, NEW t \in Threads, Wrapper(t) PROVE IInv'
<1> USE NoneAssumption DEF IInv
<1> DEFINE others == /\ UNCHANGED <<frame, checker, reap, isVoid, joined, detached>>
<1>0. others
  BY DEF Wrapper, WrapperStart, WrapperReturn, WrapperStore, WrapperRelease, WrapperExit,
         frame, checker, struct
<1>1. TypeOK'
  BY DEF TypeOK, Wrapper, WrapperStart, WrapperReturn, WrapperStore, WrapperRelease,
    WrapperExit, frame, checker, struct, history, Touch, Release, Covered, WrapperHolds, NoFaults, OwnerHolds
<1>2. NoFaults'
  BY DEF TypeOK, Wrapper, WrapperStart, WrapperReturn, WrapperStore, WrapperRelease,
    WrapperExit, frame, checker, struct, history, Touch, Covered, WrapperHolds, NoFaults
<1>3. Covered'
  BY DEF TypeOK, Wrapper, WrapperStart, WrapperReturn, WrapperStore, WrapperRelease,
    WrapperExit, frame, checker, struct, history, Release, Covered, WrapperHolds, OwnerHolds, Joinable
<1>4. HeldOnce'
  BY <1>0 DEF HeldOnce, frame
<1>5. Companions'
  BY <1>0 DEF Companions, frame, checker, Joinable, Detached
<1>6. AtLocal'
  BY <1>0 DEF TypeOK, Wrapper, WrapperStart, WrapperReturn, WrapperStore, WrapperRelease,
    WrapperExit, AtLocal, frame, Joinable, Detached, Joined
<1>7. SyncsNoDetached'
  BY <1>0 DEF SyncsNoDetached, frame, checker
<1>8. ResultStored'
  BY DEF TypeOK, Wrapper, WrapperStart, WrapperReturn, WrapperStore, WrapperRelease,
    WrapperExit, ResultStored, struct
<1> QED
  BY <1>1, <1>2, <1>3, <1>4, <1>5, <1>6, <1>7, <1>8

--------------------------------------------------------------------------------
(***************************************************************************)
(* The statements that spawn.  The new structure was held by nobody, so    *)
(* the owner's share and the wrapper's are the only ones.                  *)
(***************************************************************************)
(* A structure not yet allocated is joinable and in nobody's hands.        *)
LEMMA Fresh ==
  ASSUME IInv, NEW t \in Threads, mem[t] = "unused"
  PROVE  /\ Joinable(t) /\ wpc[t] = "idle" /\ cur # t
         /\ \A v \in Vars : companion[v] # t
BY DEF IInv, Covered, OwnerHolds

(* The part of the type invariant that a spawn disturbs.                   *)
StructTypeOK ==
  /\ mem \in [Threads -> {"unused", "live", "freed"}]
  /\ refcount \in [Threads -> 0..2]
  /\ result \in [Threads -> {"null", "args", "value"}]
  /\ joined \in [Threads -> BOOLEAN]
  /\ detached \in [Threads -> BOOLEAN]
  /\ reap \in [Threads -> {"joinable", "joined", "detached"}]
  /\ isVoid \in [Threads -> BOOLEAN]
  /\ wpc \in [Threads -> {"idle", "start", "call", "store", "release", "return", "exited"}]

(* A spawn keeps the structures well typed.                                *)
LEMMA SpawnTypes ==
  ASSUME TypeOK, NEW t \in Threads, NEW void \in BOOLEAN, NEW hasArgs \in BOOLEAN,
         Spawn(t, void, hasArgs)
  PROVE  StructTypeOK'
BY DEF TypeOK, StructTypeOK, Spawn

(* A spawn into a variable, by declaration or by assignment.               *)
LEMMA SpawnIntoIInv ==
  ASSUME IInv, NEW v \in Vars, NEW t \in Threads,
         DeclareSpawned(v, t) \/ AssignSpawned(v, t)
  PROVE  IInv'
<1> USE NoneAssumption DEF IInv
<1> USE DEF DeclareSpawned, AssignSpawned, SpawnInto, Spawn
<1>1. mem[t] = "unused"
  OBVIOUS
<1>2. Joinable(t) /\ wpc[t] = "idle" /\ cur # t /\ \A w \in Vars : companion[w] # t
  BY <1>1, Fresh
<1>3. TypeOK'
  <2>1. tstate' \in [Vars -> States]
    BY DEF TypeOK, States, MarkPending
  <2>2. spawns' \in [Vars -> Nat]
    BY DEF TypeOK
  <2>3. StructTypeOK'
    BY SpawnTypes
  <2>4. /\ companion' \in [Vars -> Threads \cup {None}]
        /\ latest' \in [Vars -> Threads \cup {None}]
        /\ scope' \subseteq Vars
    BY DEF TypeOK
  <2>5. UNCHANGED <<value, opc, cur, curVar, todo, faults>>
    OBVIOUS
  <2> QED
    BY <2>1, <2>2, <2>3, <2>4, <2>5 DEF TypeOK, StructTypeOK
<1>4. NoFaults' /\ SyncsNoDetached'
  BY DEF TypeOK, NoFaults, SyncsNoDetached
<1>5. Covered'
  BY <1>2 DEF TypeOK, Covered, OwnerHolds, WrapperHolds, Joinable
<1>6. HeldOnce'
  BY <1>2 DEF TypeOK, HeldOnce
<1>7. Companions'
  BY <1>2 DEF TypeOK, Companions, Joinable, Detached, MarkPending, CanAssign
<1>8. AtLocal'
  BY <1>2 DEF TypeOK, AtLocal
<1>9. ResultStored'
  BY <1>2 DEF TypeOK, ResultStored
<1> QED
  BY <1>3, <1>4, <1>5, <1>6, <1>7, <1>8, <1>9

(* A spawn into the statement's own local: &f() alone, and &f()!.          *)
LEMMA SpawnLocalIInv ==
  ASSUME IInv, NEW t \in Threads, FireAndForget(t) \/ SpawnAndSync(t)
  PROVE  IInv'
<1> USE NoneAssumption DEF IInv
<1> USE DEF FireAndForget, SpawnAndSync, Spawn, checker, history
<1>1. mem[t] = "unused"
  OBVIOUS
<1>2. Joinable(t) /\ wpc[t] = "idle" /\ cur # t /\ \A w \in Vars : companion[w] # t
  BY <1>1, Fresh
<1>3. TypeOK'
  <2>1. StructTypeOK'
    BY SpawnTypes
  <2>2. UNCHANGED <<companion, value, curVar, todo, scope, tstate, spawns, latest, faults>>
    OBVIOUS
  <2> QED
    BY <2>1, <2>2 DEF TypeOK, StructTypeOK
<1>4. NoFaults' /\ SyncsNoDetached'
  BY DEF TypeOK, NoFaults, SyncsNoDetached
<1>5. Covered'
  BY <1>2 DEF TypeOK, Covered, OwnerHolds, WrapperHolds, Joinable, AtLocal
<1>6. HeldOnce'
  BY <1>2 DEF TypeOK, HeldOnce
<1>7. Companions'
  BY <1>2 DEF TypeOK, Companions, Joinable, Detached
<1>8. AtLocal'
  BY <1>2 DEF TypeOK, AtLocal, Joinable
<1>9. ResultStored'
  BY <1>2 DEF TypeOK, ResultStored
<1> QED
  BY <1>3, <1>4, <1>5, <1>6, <1>7, <1>8, <1>9

--------------------------------------------------------------------------------
(***************************************************************************)
(* The statements that only touch the owner's frame and the checker.       *)
(***************************************************************************)
(* A variable declared or assigned without a spawn, and the owner's return.*)
LEMMA PlainIInv ==
  ASSUME IInv, Return \/ \E v \in Vars : DeclarePlain(v) \/ AssignPlain(v)
  PROVE  IInv'
<1> USE NoneAssumption DEF IInv
<1>1. UNCHANGED <<struct, platform, companion, cur, curVar, todo, tstate, spawns, faults>>
  BY DEF DeclarePlain, AssignPlain, Return, frame, checker, history
<1>2. (UNCHANGED opc) \/ (opc = "run" /\ opc' = "done")
  BY DEF DeclarePlain, AssignPlain, Return, frame
<1>3. /\ value' \in [Vars -> Threads \cup {None}] /\ latest' \in [Vars -> Threads \cup {None}]
      /\ scope' \subseteq Vars
  BY DEF DeclarePlain, AssignPlain, Return, frame, checker, history, TypeOK
<1>4. TypeOK'
  BY <1>1, <1>2, <1>3 DEF TypeOK, struct, platform
<1>5. NoFaults' /\ HeldOnce' /\ SyncsNoDetached' /\ ResultStored'
  BY <1>1, <1>2 DEF NoFaults, HeldOnce, SyncsNoDetached, ResultStored, struct, platform
<1>6. Covered'
  BY <1>1 DEF Covered, OwnerHolds, WrapperHolds, Joinable, struct, platform
<1>7. Companions' /\ AtLocal'
  BY <1>1, <1>2 DEF Companions, AtLocal, Joinable, Detached, Joined, struct, platform
<1> QED
  BY <1>4, <1>5, <1>6, <1>7

(* A sync statement begins: what it will sync is not detached, so marking  *)
(* it synchronized leaves every companion as Companions wants it.          *)
LEMMA SyncIInv ==
  ASSUME IInv, ~ListDetached,
         \/ \E v \in Vars : SyncVariable(v)
         \/ \E S \in SUBSET Vars : SyncList(S)
  PROVE  IInv'
<1> USE NoneAssumption DEF IInv
<1>1. PICK S \in SUBSET Vars :
        /\ opc = "run" /\ BeginSync(S) /\ UNCHANGED scope
        /\ \A v \in S : tstate[v] # "DETACHED"
        /\ tstate' \in [Vars -> States]
        /\ \A v \in Vars : tstate'[v] = IF v \in S THEN MarkSynchronized(tstate[v]) ELSE tstate[v]
  <2>1. CASE \E v \in Vars : SyncVariable(v)
    <3>1. PICK v \in Vars : SyncVariable(v)
      BY <2>1
    <3>2. /\ opc = "run" /\ BeginSync({v}) /\ UNCHANGED scope
          /\ \A w \in {v} : tstate[w] # "DETACHED"
      BY <3>1 DEF SyncVariable, CanSync
    <3>3. /\ tstate' \in [Vars -> States]
          /\ \A w \in Vars : tstate'[w] = IF w \in {v} THEN MarkSynchronized(tstate[w]) ELSE tstate[w]
      BY <3>1 DEF SyncVariable, MarkSynchronized, States, TypeOK
    <3> QED
      BY <3>2, <3>3
  <2>2. CASE \E S \in SUBSET Vars : SyncList(S)
    BY <2>2 DEF SyncList, MarkSynchronized, States, TypeOK
  <2> QED
    BY <2>1, <2>2
<1>2. UNCHANGED <<struct, platform, companion, value, cur, curVar, history, faults>>
      /\ opc' = "sync" /\ todo' = S
  BY <1>1 DEF BeginSync
<1>3. TypeOK'
  BY <1>1, <1>2 DEF TypeOK, struct, platform, history
<1>4. NoFaults' /\ HeldOnce' /\ ResultStored'
  BY <1>2 DEF NoFaults, HeldOnce, ResultStored, struct, platform
<1>5. Covered'
  BY <1>2 DEF Covered, OwnerHolds, WrapperHolds, Joinable, struct, platform
<1>6. Companions'
  BY <1>1, <1>2 DEF Companions, MarkSynchronized, Joinable, Detached, struct, platform
<1>7. AtLocal'
  BY <1>1, <1>2 DEF AtLocal
<1>8. SyncsNoDetached'
  BY <1>1, <1>2 DEF SyncsNoDetached, MarkSynchronized, TypeOK
<1> QED
  BY <1>3, <1>4, <1>5, <1>6, <1>7, <1>8

(* A pending variable's handle is joinable, so it may be detached.         *)
LEMMA DetachIInv ==
  ASSUME IInv, NEW v \in Vars, Detach(v)
  PROVE  IInv'
<1> USE NoneAssumption DEF IInv
<1>1. /\ UNCHANGED <<mem, refcount, result, joined, isVoid, wpc, frame, scope, spawns>>
      /\ opc = "run" /\ tstate[v] = "PENDING" /\ tstate' = [tstate EXCEPT ![v] = "DETACHED"]
      /\ latest' \in [Vars -> Threads \cup {None}]
  BY DEF Detach, DetachHandle, CanDetach, MarkDetached, TypeOK
<1>2. CASE companion[v] = None
  <2>1. UNCHANGED <<detached, reap, faults>>
    BY <1>2 DEF Detach, DetachHandle
  <2>2. TypeOK'
    BY <1>1, <2>1 DEF TypeOK, frame, States
  <2>3. NoFaults' /\ HeldOnce' /\ ResultStored' /\ SyncsNoDetached'
    BY <1>1, <2>1 DEF NoFaults, HeldOnce, ResultStored, SyncsNoDetached, frame
  <2>4. Covered' /\ AtLocal'
    BY <1>1, <2>1 DEF Covered, AtLocal, OwnerHolds, WrapperHolds, Joinable, Detached, Joined, frame
  <2>5. Companions'
    BY <1>1, <1>2, <2>1 DEF Companions, Joinable, Detached, frame, TypeOK
  <2> QED
    BY <2>2, <2>3, <2>4, <2>5
<1>3. CASE companion[v] # None
  <2> DEFINE t == companion[v]
  <2>1. t \in Threads /\ Joinable(t) /\ OwnerHolds(t) /\ mem[t] = "live" /\ cur # t
    BY <1>1, <1>3 DEF TypeOK, Companions, Covered, OwnerHolds, HeldOnce
  <2>2. /\ detached' = [detached EXCEPT ![t] = TRUE]
        /\ reap' = [reap EXCEPT ![t] = "detached"]
        /\ faults' = {}
    BY <1>3, <2>1 DEF Detach, DetachHandle, Joinable, Touch, NoFaults
  <2> HIDE DEF t
  <2>3. TypeOK'
    BY <1>1, <2>2 DEF TypeOK, frame, States
  <2>4. NoFaults' /\ HeldOnce' /\ ResultStored' /\ SyncsNoDetached'
    BY <1>1, <2>2 DEF NoFaults, HeldOnce, ResultStored, SyncsNoDetached, frame
  <2>5. Covered'
    BY <1>1, <2>1, <2>2 DEF TypeOK, Covered, OwnerHolds, WrapperHolds, Joinable, frame
  <2>6. AtLocal'
    BY <1>1, <2>1, <2>2 DEF TypeOK, AtLocal, frame
  <2>7. Companions'
    <3> SUFFICES ASSUME NEW w \in Vars, companion[w] # None
                 PROVE  (Joinable(companion[w]) \/ (Detached(companion[w]) /\ tstate[w] = "DETACHED"))'
      BY <1>1 DEF Companions, frame
    <3>1. CASE w = v
      BY <1>1, <2>1, <2>2, <3>1 DEF TypeOK, Joinable, Detached, frame, t
    <3>2. CASE w # v
      <4>1. companion[w] # t
        BY <1>3, <3>2 DEF HeldOnce, t
      <4> QED
        BY <1>1, <2>1, <2>2, <3>2, <4>1 DEF TypeOK, Companions, Joinable, Detached, frame
    <3> QED
      BY <3>1, <3>2
  <2> QED
    BY <2>3, <2>4, <2>5, <2>6, <2>7
<1> QED
  BY <1>2, <1>3

--------------------------------------------------------------------------------
(***************************************************************************)
(* The steps that move a handle out of a companion into the owner's local. *)
(***************************************************************************)
(* Leaving a scope: the companion goes to sn_cleanup_thread, whatever      *)
(* state its thread is in.                                                 *)
LEMMA EndScopeIInv ==
  ASSUME IInv, NEW v \in Vars, EndScope(v)
  PROVE  IInv'
<1> USE NoneAssumption DEF IInv
<1>1. /\ UNCHANGED <<struct, platform, curVar, todo, faults>>
      /\ opc = "run" /\ cur = None /\ todo = {}
      /\ cur' = companion[v] /\ companion' = [companion EXCEPT ![v] = None]
      /\ opc' = IF companion[v] = None THEN "run" ELSE "cleanup"
  BY DEF EndScope, LeaveScope, AtLocal, SyncsNoDetached
<1>2. /\ value' \in [Vars -> Threads \cup {None}] /\ latest' \in [Vars -> Threads \cup {None}]
      /\ scope' \subseteq Vars /\ tstate' = [tstate EXCEPT ![v] = "NORMAL"]
      /\ spawns' \in [Vars -> Nat]
  BY DEF EndScope, LeaveScope, TypeOK
<1>3. TypeOK'
  BY <1>1, <1>2 DEF TypeOK, struct, platform, States
<1>4. NoFaults' /\ SyncsNoDetached' /\ ResultStored'
  BY <1>1 DEF NoFaults, SyncsNoDetached, ResultStored, struct, platform
<1>5. Covered'
  BY <1>1 DEF TypeOK, Covered, OwnerHolds, WrapperHolds, Joinable, struct, platform
<1>6. HeldOnce'
  BY <1>1 DEF TypeOK, HeldOnce
<1>7. Companions'
  BY <1>1, <1>2 DEF TypeOK, Companions, Joinable, Detached, struct, platform
<1>8. AtLocal'
  BY <1>1 DEF TypeOK, AtLocal, Companions, Joinable, Detached, Joined, struct, platform
<1> QED
  BY <1>3, <1>4, <1>5, <1>6, <1>7, <1>8

(* The next variable of a sync: its handle, if any, is joinable.           *)
LEMMA SyncMoveIInv ==
  ASSUME IInv, NEW v \in Vars, SyncMove(v)
  PROVE  IInv'
<1> USE NoneAssumption DEF IInv
<1>1. /\ UNCHANGED <<struct, platform, value, checker, history, faults>>
      /\ opc = "sync" /\ cur = None /\ v \in todo /\ todo' = todo \ {v}
      /\ companion' = [companion EXCEPT ![v] = None]
      /\ cur' = companion[v]
      /\ curVar' \in Vars \cup {None}
      /\ IF companion[v] = None
           THEN opc' = IF todo = {v} THEN "run" ELSE "sync"
           ELSE opc' = "join"
  BY DEF SyncMove, AtLocal, TypeOK
<1>2. TypeOK'
  BY <1>1 DEF TypeOK, struct, platform, checker, history
<1>3. NoFaults' /\ SyncsNoDetached' /\ ResultStored'
  BY <1>1 DEF NoFaults, SyncsNoDetached, ResultStored, struct, platform, checker
<1>4. Covered'
  BY <1>1 DEF TypeOK, Covered, OwnerHolds, WrapperHolds, Joinable, struct, platform
<1>5. HeldOnce'
  BY <1>1 DEF TypeOK, HeldOnce
<1>6. Companions'
  BY <1>1 DEF TypeOK, Companions, Joinable, Detached, struct, platform, checker
<1>7. AtLocal'
  BY <1>1 DEF TypeOK, AtLocal, Companions, SyncsNoDetached, Joinable, Detached, struct, platform
<1> QED
  BY <1>2, <1>3, <1>4, <1>5, <1>6, <1>7

--------------------------------------------------------------------------------
(***************************************************************************)
(* The steps on the structure in the owner's local.                        *)
(***************************************************************************)
(* While the owner's local is set, its structure is allocated, and no      *)
(* companion holds it.                                                     *)
LEMMA CurLive ==
  ASSUME IInv, cur # None
  PROVE  /\ cur \in Threads /\ mem[cur] = "live" /\ Touch(cur) = {}
         /\ \A v \in Vars : companion[v] # cur
BY NoneAssumption DEF IInv, TypeOK, Covered, OwnerHolds, HeldOnce, Touch

(* sn_thread_join waits until the wrapper has exited.                      *)
LEMMA JoinIInv == ASSUME IInv, Join PROVE IInv'
<1> USE NoneAssumption DEF IInv
<1>1. opc = "join" /\ cur # None /\ Joinable(cur)
  BY DEF Join, AtLocal
<1>2. /\ cur \in Threads /\ mem[cur] = "live" /\ Touch(cur) = {}
      /\ \A v \in Vars : companion[v] # cur
  BY <1>1, CurLive
<1>3. /\ UNCHANGED <<mem, refcount, result, detached, isVoid, wpc, companion, value,
                     cur, curVar, todo, checker, history>>
      /\ opc' = "take" /\ faults' = {} /\ wpc[cur] = "exited"
      /\ reap' = [reap EXCEPT ![cur] = "joined"] /\ joined' = [joined EXCEPT ![cur] = TRUE]
  BY <1>1, <1>2 DEF Join, PassJoin, CanPassJoin, Joinable, NoFaults
<1>4. TypeOK'
  BY <1>2, <1>3 DEF TypeOK, checker, history
<1>5. NoFaults' /\ SyncsNoDetached' /\ ResultStored' /\ HeldOnce'
  BY <1>1, <1>3 DEF NoFaults, SyncsNoDetached, ResultStored, HeldOnce, checker
<1>6. Covered'
  BY <1>2, <1>3 DEF TypeOK, Covered, OwnerHolds, WrapperHolds, Joinable
<1>7. Companions'
  BY <1>2, <1>3 DEF TypeOK, Companions, Joinable, Detached, checker
<1>8. AtLocal'
  BY <1>1, <1>2, <1>3 DEF TypeOK, AtLocal, Joinable, Joined
<1> QED
  BY <1>4, <1>5, <1>6, <1>7, <1>8

(* The result is there when it is copied: the wrapper stored it before it  *)
(* exited.                                                                 *)
LEMMA TakeIInv == ASSUME IInv, Take PROVE IInv'
<1> USE NoneAssumption DEF IInv
<1>1. opc = "take" /\ cur # None /\ Joined(cur)
  BY DEF Take, AtLocal
<1>2. cur \in Threads /\ Touch(cur) = {} /\ (isVoid[cur] \/ result[cur] = "value")
  BY <1>1, CurLive DEF ResultStored, Joined
<1>3. /\ UNCHANGED <<struct, platform, companion, cur, curVar, todo, checker, history>>
      /\ opc' = "cleanup" /\ faults' = {}
      /\ value' \in [Vars -> Threads \cup {None}]
  BY <1>2 DEF Take, NoFaults, TypeOK
<1>4. TypeOK'
  BY <1>3 DEF TypeOK, struct, platform, checker, history
<1>5. NoFaults' /\ SyncsNoDetached' /\ ResultStored' /\ HeldOnce' /\ Companions'
  BY <1>1, <1>3 DEF NoFaults, SyncsNoDetached, ResultStored, HeldOnce, Companions, Joinable,
                   Detached, struct, platform, checker
<1>6. Covered' /\ AtLocal'
  BY <1>1, <1>3 DEF Covered, OwnerHolds, WrapperHolds, AtLocal, Joinable, Detached, Joined,
                   struct, platform
<1> QED
  BY <1>4, <1>5, <1>6

(* The owner drops its reference; the structure goes when the wrapper has  *)
(* dropped its own.                                                        *)
LEMMA DropIInv == ASSUME IInv, Cleanup \/ ForgetDrop PROVE IInv'
<1> USE NoneAssumption DEF IInv
<1>1. opc \in {"cleanup", "drop"} /\ cur # None /\ (Joinable(cur) \/ Detached(cur) \/ Joined(cur))
  BY DEF Cleanup, ForgetDrop, AtLocal
<1>2. /\ cur \in Threads /\ mem[cur] = "live" /\ Touch(cur) = {}
      /\ \A v \in Vars : companion[v] # cur
  BY <1>1, CurLive
<1>3. /\ UNCHANGED <<result, detached, isVoid, wpc, companion, value, todo, checker, history>>
      /\ Release(cur) /\ cur' = None /\ curVar' \in Vars \cup {None}
      /\ opc' = NextElement
  BY DEF Cleanup, ForgetDrop, platform, NextElement, SyncsNoDetached, TypeOK
<1>4. /\ reap' \in [Threads -> {"joinable", "joined", "detached"}]
      /\ joined' \in [Threads -> BOOLEAN]
      /\ \A t \in Threads \ {cur} : reap'[t] = reap[t] /\ joined'[t] = joined[t]
      /\ faults' = {}
  BY <1>1, <1>2 DEF Cleanup, ForgetDrop, PassJoin, Joinable, Detached, Joined, NoFaults, TypeOK,
                   platform
<1>5. refcount[cur] \in 1..2
  BY <1>2 DEF Covered, TypeOK
<1>6. TypeOK'
  <2>1. refcount' \in [Threads -> 0..2] /\ mem' \in [Threads -> {"unused", "live", "freed"}]
    BY <1>2, <1>3, <1>5 DEF TypeOK, Release
  <2>2. opc' \in {"run", "sync"} /\ cur' \in Threads \cup {None}
    BY <1>3 DEF NextElement
  <2> QED
    BY <1>3, <1>4, <2>1, <2>2 DEF TypeOK, checker, history
<1>7. NoFaults' /\ SyncsNoDetached' /\ ResultStored' /\ HeldOnce'
  BY <1>3, <1>4 DEF NoFaults, SyncsNoDetached, ResultStored, HeldOnce, NextElement, checker
<1>8. Covered'
  BY <1>2, <1>3, <1>4, <1>5 DEF TypeOK, Covered, OwnerHolds, WrapperHolds, Joinable, Release
<1>9. Companions'
  BY <1>2, <1>3, <1>4 DEF TypeOK, Companions, Joinable, Detached, checker
<1>10. AtLocal'
  BY <1>3 DEF AtLocal, NextElement
<1> QED
  BY <1>6, <1>7, <1>8, <1>9, <1>10

(* A fire-and-forget thread is detached while the owner still holds it.    *)
LEMMA ForgetDetachIInv == ASSUME IInv, ForgetDetach PROVE IInv'
<1> USE NoneAssumption DEF IInv
<1>1. opc = "forget" /\ cur # None /\ Joinable(cur)
  BY DEF ForgetDetach, AtLocal
<1>2. /\ cur \in Threads /\ mem[cur] = "live" /\ Touch(cur) = {}
      /\ \A v \in Vars : companion[v] # cur
  BY <1>1, CurLive
<1>3. /\ UNCHANGED <<mem, refcount, result, joined, isVoid, wpc, companion, value,
                     cur, curVar, todo, checker, history>>
      /\ opc' = "drop" /\ faults' = {}
      /\ detached' = [detached EXCEPT ![cur] = TRUE]
      /\ reap' = [reap EXCEPT ![cur] = "detached"]
  BY <1>2 DEF ForgetDetach, NoFaults
<1>4. TypeOK'
  BY <1>2, <1>3 DEF TypeOK, checker, history
<1>5. NoFaults' /\ SyncsNoDetached' /\ ResultStored' /\ HeldOnce'
  BY <1>1, <1>3 DEF NoFaults, SyncsNoDetached, ResultStored, HeldOnce, checker
<1>6. Covered'
  BY <1>2, <1>3 DEF TypeOK, Covered, OwnerHolds, WrapperHolds, Joinable
<1>7. Companions'
  BY <1>2, <1>3 DEF TypeOK, Companions, Joinable, Detached, checker
<1>8. AtLocal'
  BY <1>1, <1>2, <1>3 DEF TypeOK, AtLocal, Joinable, Detached
<1> QED
  BY <1>4, <1>5, <1>6, <1>7, <1>8

--------------------------------------------------------------------------------
(* A step that changes nothing.                                            *)
LEMMA StutterIInv == ASSUME IInv, UNCHANGED vars PROVE IInv'
BY DEF IInv, vars, struct, platform, frame, checker, history, TypeOK, NoFaults, Covered,
       HeldOnce, Companions, AtLocal, SyncsNoDetached, ResultStored, OwnerHolds, WrapperHolds,
       Joinable, Detached, Joined

(* Every step of the program preserves the invariant, unless the program   *)
(* syncs a detached variable through a list.                               *)
LEMMA StepIInv == ASSUME IInv, ~ListDetached, [Next]_vars PROVE IInv'
<1>1. CASE Statement
  <2>1. CASE \E v \in Vars, t \in Threads : DeclareSpawned(v, t) \/ AssignSpawned(v, t)
    BY <2>1, SpawnIntoIInv
  <2>2. CASE Return \/ \E v \in Vars : DeclarePlain(v) \/ AssignPlain(v)
    BY <2>2, PlainIInv
  <2>3. CASE (\E v \in Vars : SyncVariable(v)) \/ \E S \in SUBSET Vars : SyncList(S)
    BY <2>3, SyncIInv
  <2>4. CASE \E v \in Vars : Detach(v)
    BY <2>4, DetachIInv
  <2>5. CASE \E v \in Vars : EndScope(v)
    BY <2>5, EndScopeIInv
  <2>6. CASE \E t \in Threads : FireAndForget(t) \/ SpawnAndSync(t)
    BY <2>6, SpawnLocalIInv
  <2> QED
    BY <1>1, <2>1, <2>2, <2>3, <2>4, <2>5, <2>6 DEF Statement
<1>2. CASE Inside
  BY <1>2, SyncMoveIInv, JoinIInv, TakeIInv, DropIInv, ForgetDetachIInv DEF Inside
<1>3. CASE \E t \in Threads : Wrapper(t)
  BY <1>3, WrapperIInv
<1>4. CASE Terminated \/ UNCHANGED vars
  BY <1>4, StutterIInv DEF Terminated
<1> QED
  BY <1>1, <1>2, <1>3, <1>4 DEF Next

--------------------------------------------------------------------------------
(* In every program that names no detached variable in a sync list, the    *)
(* inductive invariant holds.                                              *)
LEMMA SpecIInv == ~ListDetached => (Spec => []IInv)
<1> SUFFICES ASSUME ~ListDetached PROVE Spec => []IInv
  OBVIOUS
<1>1. Init => IInv
  BY InitIInv
<1>2. IInv /\ [Next]_vars => IInv'
  BY StepIInv
<1> QED
  BY <1>1, <1>2, PTL DEF Spec

(* No such program uses a freed structure, joins or detaches a thread that *)
(* is not joinable, or copies a result that is not there: the reference    *)
(* counting of sn_thread.h together with what the checker accepts.         *)
THEOREM MemorySafety == ~ListDetached => (Spec => []NoFaults)
<1>1. IInv => NoFaults
  BY DEF IInv
<1> QED
  BY <1>1, SpecIInv, PTL

--------------------------------------------------------------------------------
(***************************************************************************)
(* What no program can disturb, detached variables in sync lists or not.   *)
(* It rests on the count alone and not on what the checker believes.       *)
(***************************************************************************)
(* The owner's local holds a structure exactly inside the statements that  *)
(* have one.                                                               *)
LocalSet == opc \in {"run", "sync", "done"} <=> cur = None

NoDangling == "use-after-free" \notin faults

CountInv == TypeOK /\ NoDangling /\ Covered /\ HeldOnce /\ LocalSet

LEMMA IInvCount == IInv => CountInv
BY DEF IInv, CountInv, NoFaults, NoDangling, AtLocal, LocalSet

LEMMA InitCount == Init => CountInv
BY InitIInv, IInvCount

--------------------------------------------------------------------------------
(***************************************************************************)
(* Steps that leave the structures and everybody's hold on them alone.     *)
(***************************************************************************)
Holding == <<mem, refcount, joined, detached, reap, wpc, companion, cur>>

LEMMA HoldingCovered ==
  ASSUME CountInv, UNCHANGED Holding
  PROVE  Covered' /\ HeldOnce'
<1>1. UNCHANGED <<mem, refcount, joined, detached, reap, wpc, companion, cur>>
  BY DEF Holding
<1> QED
  BY <1>1 DEF CountInv, Covered, HeldOnce, OwnerHolds, WrapperHolds, Joinable

(* Statements without a handle, a sync that begins, the owner's return.    *)
LEMMA FrameCount ==
  ASSUME CountInv, UNCHANGED <<struct, platform, companion, cur, faults>>,
         opc = "run", opc' \in {"run", "sync", "done"},
         UNCHANGED curVar, todo' \subseteq Vars, scope' \subseteq Vars,
         value' \in [Vars -> Threads \cup {None}], latest' \in [Vars -> Threads \cup {None}],
         tstate' \in [Vars -> States], spawns' \in [Vars -> Nat]
  PROVE  CountInv'
<1>1. TypeOK'
  BY DEF CountInv, TypeOK, struct, platform
<1>2. Covered' /\ HeldOnce'
  BY HoldingCovered DEF Holding, struct, platform
<1>3. NoDangling' /\ LocalSet'
  BY DEF CountInv, NoDangling, LocalSet
<1> QED
  BY <1>1, <1>2, <1>3 DEF CountInv

LEMMA MarksTyped ==
  \A s \in States : {MarkPending(s), MarkSynchronized(s), MarkDetached(s)} \subseteq States
BY DEF States, MarkPending, MarkSynchronized, MarkDetached

LEMMA PlainCount ==
  ASSUME CountInv,
         \/ Return
         \/ \E v \in Vars : DeclarePlain(v) \/ AssignPlain(v) \/ SyncVariable(v)
         \/ \E S \in SUBSET Vars : SyncList(S)
  PROVE  CountInv'
<1> USE NoneAssumption
<1>0. TypeOK
  BY DEF CountInv
<1>1. ASSUME NEW v \in Vars, DeclarePlain(v) \/ AssignPlain(v) PROVE CountInv'
  <2>1. /\ UNCHANGED <<struct, platform, companion, cur, faults, curVar, todo, tstate, spawns>>
        /\ opc = "run" /\ opc' \in {"run", "sync", "done"} /\ scope' \subseteq Vars
        /\ value' \in [Vars -> Threads \cup {None}] /\ latest' \in [Vars -> Threads \cup {None}]
    BY <1>0, <1>1 DEF DeclarePlain, AssignPlain, TypeOK, frame, checker, history
  <2> QED
    BY <1>0, <2>1, FrameCount DEF TypeOK
<1>2. CASE Return
  <2>1. /\ UNCHANGED <<struct, platform, companion, cur, faults, curVar, todo, tstate, spawns>>
        /\ opc = "run" /\ opc' \in {"run", "sync", "done"} /\ scope' \subseteq Vars
        /\ value' \in [Vars -> Threads \cup {None}] /\ latest' \in [Vars -> Threads \cup {None}]
    BY <1>0, <1>2 DEF Return, TypeOK, frame, checker, history
  <2> QED
    BY <1>0, <2>1, FrameCount DEF TypeOK
<1>3. ASSUME NEW S \in SUBSET Vars, BeginSync(S), opc = "run", UNCHANGED scope,
             tstate' \in [Vars -> States]
      PROVE  CountInv'
  <2>1. /\ UNCHANGED <<struct, platform, companion, cur, faults, curVar, scope, value, latest, spawns>>
        /\ opc' = "sync" /\ todo' = S
    BY <1>3 DEF BeginSync, history
  <2> QED
    BY <1>0, <1>3, <2>1, FrameCount DEF TypeOK
<1>4. ASSUME NEW v \in Vars, SyncVariable(v) PROVE CountInv'
  <2>1. tstate' \in [Vars -> States]
    BY <1>0, <1>4, MarksTyped DEF SyncVariable, TypeOK
  <2> QED
    BY <1>3, <1>4, <2>1 DEF SyncVariable
<1>5. ASSUME NEW S \in SUBSET Vars, SyncList(S) PROVE CountInv'
  <2>1. tstate' \in [Vars -> States]
    BY <1>0, <1>5, MarksTyped DEF SyncList, TypeOK
  <2> QED
    BY <1>3, <1>5, <2>1 DEF SyncList
<1> QED
  BY <1>1, <1>2, <1>4, <1>5

LEMMA StutterCount == ASSUME CountInv, UNCHANGED vars PROVE CountInv'
BY DEF CountInv, vars, struct, platform, frame, checker, history, TypeOK, NoDangling, Covered,
       HeldOnce, LocalSet, OwnerHolds, WrapperHolds, Joinable

--------------------------------------------------------------------------------
(***************************************************************************)
(* Spawns.  The new structure was held by nobody; a handle that the        *)
(* companion held before is lost, which leaves the count too high and      *)
(* never too low.                                                          *)
(***************************************************************************)
LEMMA FreshCount ==
  ASSUME CountInv, NEW t \in Threads, mem[t] = "unused"
  PROVE  /\ Joinable(t) /\ wpc[t] = "idle" /\ cur # t
         /\ \A v \in Vars : companion[v] # t
BY DEF CountInv, Covered, OwnerHolds

LEMMA SpawnIntoCount ==
  ASSUME CountInv, NEW v \in Vars, NEW t \in Threads, SpawnInto(v, t),
         UNCHANGED value, scope' \subseteq Vars,
         tstate' \in [Vars -> States], spawns' \in [Vars -> Nat]
  PROVE  CountInv'
<1> USE NoneAssumption
<1>1. mem[t] = "unused" /\ TypeOK
  BY DEF SpawnInto, Spawn, CountInv
<1>2. Joinable(t) /\ wpc[t] = "idle" /\ cur # t /\ \A w \in Vars : companion[w] # t
  BY <1>1, FreshCount
<1>3. /\ mem' = [mem EXCEPT ![t] = "live"] /\ refcount' = [refcount EXCEPT ![t] = 2]
      /\ wpc' = [wpc EXCEPT ![t] = "start"]
      /\ UNCHANGED <<joined, detached, reap, faults, opc, cur, curVar, todo>>
      /\ companion' = [companion EXCEPT ![v] = t] /\ latest' = [latest EXCEPT ![v] = t]
  BY DEF SpawnInto, Spawn
<1>4. TypeOK'
  <2>1. StructTypeOK'
    BY <1>1, SpawnTypes DEF SpawnInto
  <2>2. /\ companion' \in [Vars -> Threads \cup {None}]
        /\ latest' \in [Vars -> Threads \cup {None}]
    BY <1>1, <1>3 DEF TypeOK
  <2> QED
    BY <1>1, <1>3, <2>1, <2>2 DEF TypeOK, StructTypeOK
<1>5. Covered'
  <2>1. /\ OwnerHolds(t)' /\ WrapperHolds(t)' /\ mem'[t] = "live" /\ refcount'[t] = 2
    BY <1>1, <1>3 DEF TypeOK, OwnerHolds, WrapperHolds
  <2>2. ASSUME NEW s \in Threads, s # t
        PROVE  /\ OwnerHolds(s)' => OwnerHolds(s)
               /\ WrapperHolds(s)' <=> WrapperHolds(s)
               /\ mem'[s] = mem[s] /\ refcount'[s] = refcount[s]
               /\ Joinable(s)' <=> Joinable(s)
               /\ wpc'[s] = wpc[s]
    BY <1>1, <1>3, <2>2 DEF TypeOK, OwnerHolds, WrapperHolds, Joinable
  <2> QED
    BY <2>1, <2>2 DEF CountInv, Covered
<1>6. HeldOnce'
  BY <1>1, <1>2, <1>3 DEF TypeOK, CountInv, HeldOnce
<1>7. NoDangling' /\ LocalSet'
  BY <1>3 DEF CountInv, NoDangling, LocalSet
<1> QED
  BY <1>4, <1>5, <1>6, <1>7 DEF CountInv

LEMMA SpawnStatementCount ==
  ASSUME CountInv, NEW v \in Vars, NEW t \in Threads,
         DeclareSpawned(v, t) \/ AssignSpawned(v, t)
  PROVE  CountInv'
<1>1. TypeOK
  BY DEF CountInv
<1>2. SpawnInto(v, t) /\ UNCHANGED value /\ scope' \subseteq Vars
  BY <1>1 DEF DeclareSpawned, AssignSpawned, TypeOK
<1>3. tstate' \in [Vars -> States] /\ spawns' \in [Vars -> Nat]
  BY <1>1 DEF DeclareSpawned, AssignSpawned, TypeOK, MarkPending, States
<1> QED
  BY <1>2, <1>3, SpawnIntoCount

LEMMA SpawnLocalCount ==
  ASSUME CountInv, NEW t \in Threads, FireAndForget(t) \/ SpawnAndSync(t)
  PROVE  CountInv'
<1> USE NoneAssumption
<1>1. mem[t] = "unused" /\ TypeOK
  BY DEF FireAndForget, SpawnAndSync, Spawn, CountInv
<1>2. Joinable(t) /\ wpc[t] = "idle" /\ cur # t /\ \A w \in Vars : companion[w] # t
  BY <1>1, FreshCount
<1>3. /\ mem' = [mem EXCEPT ![t] = "live"] /\ refcount' = [refcount EXCEPT ![t] = 2]
      /\ wpc' = [wpc EXCEPT ![t] = "start"] /\ cur' = t /\ opc' \in {"forget", "join"}
      /\ opc = "run"
      /\ UNCHANGED <<joined, detached, reap, faults, companion, value, curVar, todo, scope,
                     tstate, spawns, latest>>
  BY DEF FireAndForget, SpawnAndSync, Spawn, checker, history
<1>4. TypeOK'
  <2>1. StructTypeOK'
    BY <1>1, SpawnTypes DEF FireAndForget, SpawnAndSync
  <2> QED
    BY <1>1, <1>3, <2>1 DEF TypeOK, StructTypeOK
<1>5. cur = None
  BY <1>3 DEF CountInv, LocalSet
<1>6. Covered'
  <2>1. /\ OwnerHolds(t)' /\ WrapperHolds(t)' /\ mem'[t] = "live" /\ refcount'[t] = 2
    BY <1>1, <1>3 DEF TypeOK, OwnerHolds, WrapperHolds
  <2>2. ASSUME NEW s \in Threads, s # t
        PROVE  /\ OwnerHolds(s)' => OwnerHolds(s)
               /\ WrapperHolds(s)' <=> WrapperHolds(s)
               /\ mem'[s] = mem[s] /\ refcount'[s] = refcount[s]
               /\ Joinable(s)' <=> Joinable(s)
               /\ wpc'[s] = wpc[s]
    BY <1>1, <1>3, <2>2 DEF TypeOK, OwnerHolds, WrapperHolds, Joinable
  <2> QED
    BY <2>1, <2>2 DEF CountInv, Covered
<1>7. HeldOnce'
  BY <1>1, <1>2, <1>3 DEF TypeOK, CountInv, HeldOnce
<1>8. NoDangling' /\ LocalSet'
  BY <1>3 DEF CountInv, NoDangling, LocalSet
<1> QED
  BY <1>4, <1>6, <1>7, <1>8 DEF CountInv

--------------------------------------------------------------------------------
(***************************************************************************)
(* Steps on a structure its holder still covers.                           *)
(***************************************************************************)
LEMMA HeldLive ==
  ASSUME CountInv, NEW t \in Threads, OwnerHolds(t) \/ WrapperHolds(t)
  PROVE  mem[t] = "live" /\ Touch(t) = {}
BY DEF CountInv, Covered, Touch

(* However often a handle has been detached before, detaching it again     *)
(* reads a structure the owner still covers.                               *)
LEMMA DetachHandleCount ==
  ASSUME CountInv, NEW v \in Vars, DetachHandle(v), UNCHANGED <<scope, spawns>>,
         tstate' \in [Vars -> States]
  PROVE  CountInv'
<1> USE NoneAssumption
<1>0. TypeOK
  BY DEF CountInv
<1>1. /\ UNCHANGED <<mem, refcount, result, joined, isVoid, wpc>>
      /\ UNCHANGED <<companion, value, opc, cur, curVar, todo>>
      /\ latest' \in [Vars -> Threads \cup {None}]
  BY <1>0 DEF DetachHandle, frame, TypeOK
<1>2. CASE companion[v] = None
  <2>1. UNCHANGED <<detached, reap, faults>>
    BY <1>2 DEF DetachHandle
  <2> QED
    BY <1>0, <1>1, <2>1, HoldingCovered DEF CountInv, TypeOK, Holding, NoDangling, LocalSet
<1>3. CASE companion[v] # None
  <2>1. PICK t \in Threads : t = companion[v]
    BY <1>0, <1>3 DEF TypeOK
  <2>2. mem[t] = "live" /\ Touch(t) = {}
    BY <2>1, HeldLive DEF OwnerHolds
  <2>3. /\ detached' = [detached EXCEPT ![t] = TRUE]
        /\ reap' = [reap EXCEPT ![t] = IF @ = "joinable" THEN "detached" ELSE @]
        /\ faults' \in {faults, faults \cup {"bad-detach"}}
    BY <1>3, <2>1, <2>2 DEF DetachHandle
  <2>4. TypeOK'
    BY <1>0, <1>1, <2>3 DEF TypeOK
  <2>5. Covered' /\ HeldOnce'
    BY <1>0, <1>1, <2>2, <2>3 DEF TypeOK, CountInv, Covered, HeldOnce, OwnerHolds,
      WrapperHolds, Joinable
  <2>6. NoDangling' /\ LocalSet'
    BY <1>1, <2>3 DEF CountInv, NoDangling, LocalSet
  <2> QED
    BY <2>4, <2>5, <2>6 DEF CountInv
<1> QED
  BY <1>2, <1>3

(* A handle that moves from a companion to the owner's local stays his.    *)
LEMMA MoveCount ==
  ASSUME CountInv, NEW v \in Vars, EndScope(v) \/ SyncMove(v)
  PROVE  CountInv'
<1> USE NoneAssumption
<1>0. TypeOK /\ cur = None
  BY DEF CountInv, LocalSet, EndScope, SyncMove
<1>1. /\ UNCHANGED <<mem, refcount, joined, detached, reap, wpc, result, isVoid, faults>>
      /\ companion' = [companion EXCEPT ![v] = None] /\ cur' = companion[v]
  BY <1>0 DEF EndScope, SyncMove, LeaveScope, struct, platform
<1>2. /\ opc' \in {"run", "sync", "cleanup", "join"}
      /\ opc' \in {"run", "sync"} <=> companion[v] = None
      /\ curVar' \in Vars \cup {None} /\ todo' \subseteq Vars /\ scope' \subseteq Vars
  BY <1>0 DEF EndScope, SyncMove, LeaveScope, TypeOK, checker
<1>3. /\ value' \in [Vars -> Threads \cup {None}] /\ latest' \in [Vars -> Threads \cup {None}]
      /\ tstate' \in [Vars -> States] /\ spawns' \in [Vars -> Nat]
  BY <1>0 DEF EndScope, SyncMove, LeaveScope, TypeOK, checker, history, States
<1>4. TypeOK'
  BY <1>0, <1>1, <1>2, <1>3 DEF TypeOK
<1>5. Covered'
  <2>1. \A s \in Threads : OwnerHolds(s)' => OwnerHolds(s)
    BY <1>0, <1>1 DEF OwnerHolds, TypeOK
  <2> QED
    BY <1>1, <2>1 DEF CountInv, Covered, WrapperHolds, Joinable
<1>6. HeldOnce'
  BY <1>0, <1>1 DEF TypeOK, CountInv, HeldOnce
<1>7. NoDangling' /\ LocalSet'
  BY <1>1, <1>2 DEF CountInv, NoDangling, LocalSet
<1> QED
  BY <1>4, <1>5, <1>6, <1>7 DEF CountInv

LEMMA LocalLive ==
  ASSUME CountInv, opc \notin {"run", "sync", "done"}
  PROVE  \E t \in Threads : /\ t = cur /\ mem[t] = "live" /\ Touch(t) = {}
                            /\ \A v \in Vars : companion[v] # t
<1>1. cur # None /\ TypeOK
  BY DEF CountInv, LocalSet
<1>2. PICK t \in Threads : t = cur
  BY <1>1 DEF TypeOK
<1>3. mem[t] = "live" /\ Touch(t) = {}
  BY <1>2, HeldLive DEF OwnerHolds
<1>4. \A v \in Vars : companion[v] # t
  BY <1>1, <1>2, NoneAssumption DEF CountInv, HeldOnce, TypeOK
<1> QED
  BY <1>2, <1>3, <1>4

(* Joining, copying the result and detaching the owner's local read its    *)
(* structure and release nothing.                                          *)
LEMMA ReadCount ==
  ASSUME CountInv, Join \/ Take \/ ForgetDetach
  PROVE  CountInv'
<1> USE NoneAssumption
<1>0. TypeOK
  BY DEF CountInv
<1>1. PICK t \in Threads : t = cur /\ mem[t] = "live" /\ Touch(t) = {}
  BY LocalLive DEF Join, Take, ForgetDetach
<1>2. /\ UNCHANGED <<mem, refcount, result, isVoid, wpc, companion, cur, curVar, todo, scope,
                     tstate, spawns, latest>>
      /\ opc \in {"join", "take", "forget"} /\ opc' \in {"take", "cleanup", "drop"}
  BY DEF Join, Take, ForgetDetach, struct, platform, checker, history
<1>3. value' \in [Vars -> Threads \cup {None}]
  BY <1>0, <1>1 DEF Join, Take, ForgetDetach, TypeOK
<1>4. faults' \subseteq faults \cup {"bad-join", "no-result"}
  BY <1>1 DEF Join, PassJoin, Take, ForgetDetach
<1>5. /\ joined' \in [Threads -> BOOLEAN] /\ detached' \in [Threads -> BOOLEAN]
      /\ reap' \in [Threads -> {"joinable", "joined", "detached"}]
      /\ \A s \in Threads : s # t => /\ joined'[s] = joined[s] /\ detached'[s] = detached[s]
                                     /\ reap'[s] = reap[s]
  <2>1. CASE Join
    <3>1. \/ UNCHANGED <<joined, detached, reap>>
          \/ /\ joined' = [joined EXCEPT ![t] = TRUE] /\ UNCHANGED detached
             /\ reap' = [reap EXCEPT ![t] = IF @ = "joinable" THEN "joined" ELSE @]
      BY <1>1, <2>1 DEF Join, PassJoin
    <3>2. UNCHANGED detached
      BY <2>1 DEF Join
    <3>3. CASE UNCHANGED <<joined, detached, reap>>
      BY <1>0, <3>3 DEF TypeOK
    <3>4. CASE /\ joined' = [joined EXCEPT ![t] = TRUE]
               /\ reap' = [reap EXCEPT ![t] = IF @ = "joinable" THEN "joined" ELSE @]
      <4>1. joined' \in [Threads -> BOOLEAN] /\ \A s \in Threads : s # t => joined'[s] = joined[s]
        BY <1>0, <3>4 DEF TypeOK
      <4>2. /\ reap' \in [Threads -> {"joinable", "joined", "detached"}]
            /\ \A s \in Threads : s # t => reap'[s] = reap[s]
        BY <1>0, <3>4 DEF TypeOK
      <4> QED
        BY <1>0, <3>2, <4>1, <4>2 DEF TypeOK
    <3> QED
      BY <3>1, <3>3, <3>4
  <2>2. CASE Take
    BY <1>0, <2>2 DEF Take, TypeOK, struct, platform
  <2>3. CASE ForgetDetach
    BY <1>0, <1>1, <2>3 DEF ForgetDetach, TypeOK
  <2> QED
    BY <2>1, <2>2, <2>3
<1>6. TypeOK'
  BY <1>0, <1>2, <1>3, <1>4, <1>5 DEF TypeOK
<1>7. Covered' /\ HeldOnce'
  BY <1>1, <1>2, <1>5 DEF CountInv, Covered, HeldOnce, OwnerHolds, WrapperHolds, Joinable
<1>8. NoDangling' /\ LocalSet'
  BY <1>2, <1>4 DEF CountInv, NoDangling, LocalSet
<1> QED
  BY <1>6, <1>7, <1>8 DEF CountInv

(* The owner lets go of its local.                                         *)
LEMMA DropCount ==
  ASSUME CountInv, Cleanup \/ ForgetDrop
  PROVE  CountInv'
<1> USE NoneAssumption
<1>0. TypeOK
  BY DEF CountInv
<1>1. PICK t \in Threads : /\ t = cur /\ mem[t] = "live" /\ Touch(t) = {}
                           /\ \A v \in Vars : companion[v] # t
  BY LocalLive DEF Cleanup, ForgetDrop
<1>2. /\ UNCHANGED <<result, detached, isVoid, wpc, companion, value, todo, scope, tstate,
                     spawns, latest>>
      /\ refcount' = [refcount EXCEPT ![t] = @ - 1]
      /\ mem' = IF refcount[t] = 1 THEN [mem EXCEPT ![t] = "freed"] ELSE mem
      /\ cur' = None /\ opc' \in {"run", "sync"} /\ curVar' \in Vars \cup {None}
  BY <1>0, <1>1 DEF Cleanup, ForgetDrop, Release, NextElement, platform, checker, history, TypeOK
<1>3. /\ joined' \in [Threads -> BOOLEAN]
      /\ reap' \in [Threads -> {"joinable", "joined", "detached"}]
      /\ \A s \in Threads : s # t => joined'[s] = joined[s] /\ reap'[s] = reap[s]
      /\ faults' \subseteq faults \cup {"bad-join"}
  BY <1>0, <1>1 DEF Cleanup, ForgetDrop, PassJoin, TypeOK, platform
<1>4. refcount[t] \in 1..2
  BY <1>0, <1>1 DEF CountInv, Covered, TypeOK
<1>5. TypeOK'
  <2>1. refcount' \in [Threads -> 0..2] /\ mem' \in [Threads -> {"unused", "live", "freed"}]
    BY <1>0, <1>2, <1>4 DEF TypeOK
  <2> QED
    BY <1>0, <1>2, <1>3, <2>1 DEF TypeOK
<1>6. Covered'
  <2>1. OwnerHolds(t) /\ ~OwnerHolds(t)'
    BY <1>1, <1>2 DEF OwnerHolds
  <2>2. /\ mem'[t] = "live" => refcount'[t] > 0
        /\ WrapperHolds(t)' => mem'[t] = "live"
        /\ mem'[t] # "unused"
    BY <1>0, <1>1, <1>2, <1>4, <2>1 DEF CountInv, Covered, WrapperHolds, TypeOK
  <2>3. ASSUME NEW s \in Threads, s # t
        PROVE  /\ OwnerHolds(s)' => OwnerHolds(s)
               /\ WrapperHolds(s)' <=> WrapperHolds(s)
               /\ mem'[s] = mem[s] /\ refcount'[s] = refcount[s]
               /\ Joinable(s)' <=> Joinable(s)
               /\ wpc'[s] = wpc[s]
    BY <1>0, <1>2, <1>3, <2>3 DEF TypeOK, OwnerHolds, WrapperHolds, Joinable
  <2> QED
    BY <2>1, <2>2, <2>3 DEF CountInv, Covered
<1>7. HeldOnce' /\ NoDangling' /\ LocalSet'
  BY <1>2, <1>3 DEF CountInv, HeldOnce, NoDangling, LocalSet
<1> QED
  BY <1>5, <1>6, <1>7 DEF CountInv

(* A wrapper touches its structure only while it holds it.                 *)
LEMMA WrapperCount ==
  ASSUME CountInv, NEW t \in Threads, Wrapper(t)
  PROVE  CountInv'
<1> USE NoneAssumption
<1>0. TypeOK
  BY DEF CountInv
<1>1. /\ UNCHANGED <<joined, detached, reap, isVoid, companion, value, opc, cur, curVar, todo,
                     scope, tstate, spawns, latest>>
      /\ result' \in [Threads -> {"null", "args", "value"}]
      /\ wpc[t] \in {"start", "call", "store", "release", "return"}
      /\ wpc' = [wpc EXCEPT ![t] = wpc'[t]]
      /\ wpc'[t] \in {"call", "store", "release", "return", "exited"}
      /\ WrapperHolds(t)' => WrapperHolds(t)
      /\ wpc[t] # "release" => UNCHANGED <<mem, refcount>>
      /\ wpc[t] = "release" => Release(t) /\ ~WrapperHolds(t)'
  BY <1>0 DEF Wrapper, WrapperStart, WrapperReturn, WrapperStore, WrapperRelease, WrapperExit,
    struct, frame, checker, history, TypeOK, WrapperHolds
<1>2. faults' = faults
  BY <1>1, HeldLive DEF Wrapper, WrapperStart, WrapperReturn, WrapperStore, WrapperRelease, WrapperExit,
    WrapperHolds
<1>3. wpc[t] = "release" => mem[t] = "live" /\ refcount[t] \in 1..2
  BY <1>0, HeldLive DEF CountInv, Covered, WrapperHolds, TypeOK
<1>4. TypeOK'
  <2>1. refcount' \in [Threads -> 0..2] /\ mem' \in [Threads -> {"unused", "live", "freed"}]
    BY <1>0, <1>1, <1>3 DEF TypeOK, Release
  <2>2. wpc' \in [Threads -> {"idle", "start", "call", "store", "release", "return", "exited"}]
    BY <1>0, <1>1 DEF TypeOK
  <2> QED
    BY <1>0, <1>1, <1>2, <2>1, <2>2 DEF TypeOK
<1>5. \A s \in Threads : OwnerHolds(s)' <=> OwnerHolds(s)
  BY <1>1 DEF OwnerHolds
<1>6. ASSUME NEW s \in Threads, s # t
      PROVE  /\ WrapperHolds(s)' <=> WrapperHolds(s)
             /\ mem'[s] = mem[s] /\ refcount'[s] = refcount[s] /\ wpc'[s] = wpc[s]
  BY <1>0, <1>1, <1>6 DEF TypeOK, WrapperHolds, Release
<1>7. Covered'
  <2>1. CASE wpc[t] = "release"
    <3>1. /\ mem'[t] = "live" => refcount'[t] > 0
          /\ OwnerHolds(t) => mem'[t] = "live"
          /\ mem'[t] # "unused"
      BY <1>0, <1>1, <1>3, <2>1 DEF CountInv, Covered, WrapperHolds, TypeOK, Release
    <3> QED
      BY <1>1, <1>5, <1>6, <2>1, <3>1 DEF CountInv, Covered, Joinable
  <2>2. CASE wpc[t] # "release"
    <3>1. mem[t] # "unused"
      BY <1>1 DEF CountInv, Covered
    <3> QED
      BY <1>1, <1>5, <1>6, <2>2, <3>1 DEF CountInv, Covered, Joinable
  <2> QED
    BY <2>1, <2>2
<1>8. HeldOnce' /\ NoDangling' /\ LocalSet'
  BY <1>1, <1>2 DEF CountInv, HeldOnce, NoDangling, LocalSet
<1> QED
  BY <1>4, <1>7, <1>8 DEF CountInv

LEMMA DetachCount ==
  ASSUME CountInv, NEW v \in Vars, Detach(v)
  PROVE  CountInv'
<1>1. tstate' \in [Vars -> States]
  BY MarksTyped DEF CountInv, TypeOK, Detach
<1> QED
  BY <1>1, DetachHandleCount DEF Detach

--------------------------------------------------------------------------------
LEMMA StepCount ==
  ASSUME CountInv, [Next]_vars
  PROVE  CountInv'
<1>1. CASE Statement
  BY <1>1, SpawnStatementCount, SpawnLocalCount, PlainCount, DetachCount, MoveCount DEF Statement
<1>2. CASE Inside
  BY <1>2, MoveCount, ReadCount, DropCount DEF Inside
<1>3. CASE \E t \in Threads : Wrapper(t)
  BY <1>3, WrapperCount
<1>4. CASE UNCHANGED vars
  BY <1>4, StutterCount
<1> QED
  BY <1>1, <1>2, <1>3, <1>4 DEF Next, Terminated

LEMMA SpecCount == Spec => []CountInv
<1>1. CountInv /\ [Next]_vars => CountInv'
  BY StepCount
<1> QED
  BY <1>1, InitCount, PTL DEF Spec

(* The structures, the owner's frame and the checker state stay well typed *)
(* in every program.                                                       *)
THEOREM TypeCorrect == Spec => []TypeOK
<1>1. CountInv => TypeOK
  BY DEF CountInv
<1> QED
  BY <1>1, SpecCount, PTL

--------------------------------------------------------------------------------
(***************************************************************************)
(* What the reference count achieves in a program that gives a variable at *)
(* most one spawn between its declaration and the end of its scope (a      *)
(* second one overwrites the handle of the first): the count is exact,     *)
(* nothing is leaked or left running unnoticed, and the structures are     *)
(* shared as CoOwned says.  And what the checker adds: every read sees the *)
(* value last given to the variable.  For any number of threads and        *)
(* variables.                                                              *)
(***************************************************************************)

(* One reference for each party that holds t.                              *)
Shares(t) == (IF OwnerHolds(t) THEN 1 ELSE 0) + (IF WrapperHolds(t) THEN 1 ELSE 0)

Counted == \A t \in Threads : mem[t] # "unused" => refcount[t] = Shares(t)

(* A variable without a spawn since its declaration has no handle, so a    *)
(* spawn overwrites a null companion.                                      *)
NullUntilSpawned ==
  \A v \in Vars : v \notin scope \/ spawns[v] = 0 => companion[v] = None

(* What the structure says of joins and detaches is what has been done to  *)
(* the thread, and the local of a fire-and-forget statement is dropped     *)
(* only when its thread is detached.                                       *)
Reaped ==
  /\ \A t \in Threads : /\ joined[t] \/ detached[t] => reap[t] # "joinable"
                        /\ reap[t] = "joined" => wpc[t] = "exited"
  /\ opc = "drop" => \A t \in Threads : t = cur => reap[t] = "detached"

(* Only a detached thread is left by its owner while it may still run.     *)
LeftDetached ==
  /\ \A t \in Threads : WrapperHolds(t) /\ ~OwnerHolds(t) => reap[t] = "detached"
  /\ opc = "done" => scope = {}

ShareInv == CountInv /\ Counted /\ NullUntilSpawned /\ Reaped /\ LeftDetached

LEMMA InitShare == Init => ShareInv
<1> SUFFICES ASSUME Init PROVE ShareInv
  OBVIOUS
<1> USE NoneAssumption DEF Init
<1>1. Counted /\ NullUntilSpawned
  BY DEF Counted, NullUntilSpawned
<1>2. Reaped /\ LeftDetached
  BY DEF Reaped, LeftDetached, WrapperHolds
<1> QED
  BY <1>1, <1>2, InitCount DEF ShareInv

--------------------------------------------------------------------------------
(***************************************************************************)
(* Every step leaves the shares alone, hands out a new structure, or lets  *)
(* one party go of one.                                                    *)
(***************************************************************************)
SameShares(T) ==
  \A t \in T : (OwnerHolds(t)' <=> OwnerHolds(t)) /\ (WrapperHolds(t)' <=> WrapperHolds(t))

Quiet == SameShares(Threads) /\ UNCHANGED <<mem, refcount>>

HandsOut(t) ==
  /\ mem[t] = "unused" /\ mem' = [mem EXCEPT ![t] = "live"]
  /\ refcount' = [refcount EXCEPT ![t] = 2]
  /\ OwnerHolds(t)' /\ WrapperHolds(t)'
  /\ SameShares(Threads \ {t})

OwnerLetsGo(t) ==
  /\ OwnerHolds(t) /\ ~OwnerHolds(t)' /\ (WrapperHolds(t)' <=> WrapperHolds(t))
  /\ Release(t) /\ SameShares(Threads \ {t})

WrapperLetsGo(t) ==
  /\ WrapperHolds(t) /\ ~WrapperHolds(t)' /\ (OwnerHolds(t)' <=> OwnerHolds(t))
  /\ Release(t) /\ SameShares(Threads \ {t})

SharesStep ==
  Quiet \/ \E t \in Threads : HandsOut(t) \/ OwnerLetsGo(t) \/ WrapperLetsGo(t)

LEMMA SpawnIntoNull ==
  ASSUME MaxSpawns <= 1, CountInv, NullUntilSpawned, NEW v \in Vars, NEW t \in Threads,
         DeclareSpawned(v, t) \/ AssignSpawned(v, t)
  PROVE  companion[v] = None /\ (v \notin scope \/ spawns[v] = 0)
<1>1. v \notin scope \/ spawns[v] = 0
  <2>1. spawns[v] \in Nat
    BY DEF CountInv, TypeOK
  <2>2. CASE DeclareSpawned(v, t)
    BY <2>2 DEF DeclareSpawned
  <2>3. CASE AssignSpawned(v, t)
    <3>1. spawns[v] < MaxSpawns /\ MaxSpawns \in Nat
      BY <2>3, BoundAssumption DEF AssignSpawned
    <3> QED
      BY <2>1, <3>1
  <2> QED
    BY <2>2, <2>3
<1> QED
  BY <1>1 DEF NullUntilSpawned

LEMMA SpawnShares ==
  ASSUME MaxSpawns <= 1, CountInv, NullUntilSpawned, NEW t \in Threads,
         \/ \E v \in Vars : DeclareSpawned(v, t) \/ AssignSpawned(v, t)
         \/ FireAndForget(t) \/ SpawnAndSync(t)
  PROVE  HandsOut(t)
<1>1. /\ mem[t] = "unused" /\ mem' = [mem EXCEPT ![t] = "live"]
      /\ refcount' = [refcount EXCEPT ![t] = 2] /\ wpc' = [wpc EXCEPT ![t] = "start"]
  BY DEF DeclareSpawned, AssignSpawned, FireAndForget, SpawnAndSync, SpawnInto, Spawn
<1>2. WrapperHolds(t)' /\ \A s \in Threads \ {t} : WrapperHolds(s)' <=> WrapperHolds(s)
  BY <1>1 DEF CountInv, TypeOK, WrapperHolds
<1>3. OwnerHolds(t)' /\ \A s \in Threads \ {t} : OwnerHolds(s)' <=> OwnerHolds(s)
  <2>1. ASSUME NEW v \in Vars, DeclareSpawned(v, t) \/ AssignSpawned(v, t)
        PROVE  OwnerHolds(t)' /\ \A s \in Threads \ {t} : OwnerHolds(s)' <=> OwnerHolds(s)
    <3>1. UNCHANGED cur /\ companion' = [companion EXCEPT ![v] = t] /\ companion[v] = None
      BY <2>1, SpawnIntoNull DEF DeclareSpawned, AssignSpawned, SpawnInto
    <3> QED
      BY <3>1, NoneAssumption DEF CountInv, TypeOK, OwnerHolds
  <2>2. CASE FireAndForget(t) \/ SpawnAndSync(t)
    BY <2>2, NoneAssumption DEF FireAndForget, SpawnAndSync, OwnerHolds, CountInv, LocalSet
  <2> QED
    BY <2>1, <2>2
<1> QED
  BY <1>1, <1>2, <1>3 DEF HandsOut, SameShares

LEMMA DropShares ==
  ASSUME CountInv, Cleanup \/ ForgetDrop
  PROVE  \E t \in Threads : t = cur /\ OwnerLetsGo(t)
<1>1. cur # None
  BY DEF Cleanup, ForgetDrop, CountInv, LocalSet
<1>2. cur \in Threads /\ \A v \in Vars : companion[v] # cur
  BY LocalLive DEF Cleanup, ForgetDrop
<1>3. PICK t \in Threads : t = cur
  BY <1>2
<1>4. Release(t) /\ cur' = None /\ UNCHANGED <<companion, wpc>>
  BY <1>3 DEF Cleanup, ForgetDrop, platform, Release
<1>5. OwnerLetsGo(t)
  BY <1>2, <1>3, <1>4, NoneAssumption DEF OwnerLetsGo, SameShares, OwnerHolds, WrapperHolds
<1> QED
  BY <1>3, <1>5

LEMMA WrapperShares ==
  ASSUME CountInv, NEW t \in Threads, Wrapper(t)
  PROVE  Quiet \/ WrapperLetsGo(t)
<1>1. UNCHANGED <<cur, companion>>
  BY DEF Wrapper, WrapperStart, WrapperReturn, WrapperStore, WrapperRelease, WrapperExit, frame
<1>2. \A s \in Threads : OwnerHolds(s)' <=> OwnerHolds(s)
  BY <1>1 DEF OwnerHolds
<1>3. CASE WrapperRelease(t)
  BY <1>2, <1>3 DEF WrapperRelease, WrapperLetsGo, SameShares, WrapperHolds, CountInv, TypeOK
<1>4. CASE ~WrapperRelease(t)
  <2>1. UNCHANGED <<mem, refcount>>
    BY <1>4 DEF Wrapper, WrapperStart, WrapperReturn, WrapperStore, WrapperExit, struct
  <2>2. \A s \in Threads : WrapperHolds(s)' <=> WrapperHolds(s)
    BY <1>4 DEF Wrapper, WrapperStart, WrapperReturn, WrapperStore, WrapperExit, WrapperHolds,
      CountInv, TypeOK
  <2> QED
    BY <1>2, <2>1, <2>2 DEF Quiet, SameShares
<1> QED
  BY <1>3, <1>4

(* A handle that moves from a companion to the owner's local stays his.    *)
LEMMA MoveShares ==
  ASSUME CountInv, NEW v \in Vars, EndScope(v) \/ SyncMove(v)
  PROVE  Quiet
<1>1. /\ UNCHANGED <<mem, refcount, wpc>> /\ cur = None
      /\ companion' = [companion EXCEPT ![v] = None] /\ cur' = companion[v]
  BY DEF EndScope, SyncMove, LeaveScope, CountInv, LocalSet, struct, platform
<1>2. \A s \in Threads : OwnerHolds(s)' <=> OwnerHolds(s)
  BY <1>1, NoneAssumption DEF OwnerHolds, CountInv, TypeOK
<1> QED
  BY <1>1, <1>2 DEF Quiet, SameShares, WrapperHolds

(* No other step touches a share.                                          *)
LEMMA StillShares ==
  ASSUME \/ Return \/ Join \/ Take \/ ForgetDetach \/ Terminated \/ UNCHANGED vars
         \/ \E v \in Vars : DeclarePlain(v) \/ AssignPlain(v) \/ SyncVariable(v) \/ Detach(v)
         \/ \E S \in SUBSET Vars : SyncList(S)
  PROVE  Quiet
<1>1. UNCHANGED <<mem, refcount, wpc, companion, cur>>
  BY DEF Return, Join, Take, ForgetDetach, Terminated, DeclarePlain, AssignPlain, SyncVariable,
    SyncList, Detach, DetachHandle, BeginSync, struct, platform, frame, vars
<1> QED
  BY <1>1 DEF Quiet, SameShares, OwnerHolds, WrapperHolds

LEMMA StepShares ==
  ASSUME MaxSpawns <= 1, CountInv, NullUntilSpawned, [Next]_vars
  PROVE  SharesStep
<1>1. CASE Statement
  BY <1>1, SpawnShares, MoveShares, StillShares DEF Statement, SharesStep
<1>2. CASE Inside
  BY <1>2, MoveShares, DropShares, StillShares DEF Inside, SharesStep
<1>3. CASE \E t \in Threads : Wrapper(t)
  BY <1>3, WrapperShares DEF SharesStep
<1>4. CASE Terminated \/ UNCHANGED vars
  BY <1>4, StillShares DEF SharesStep
<1> QED
  BY <1>1, <1>2, <1>3, <1>4 DEF Next

(* So the count stays exact.                                               *)
LEMMA StepCounted ==
  ASSUME CountInv, Counted, SharesStep
  PROVE  Counted'
<1> SUFFICES ASSUME NEW s \in Threads, mem'[s] # "unused" PROVE refcount'[s] = Shares(s)'
  BY DEF Counted
<1>1. CASE Quiet
  BY <1>1 DEF Quiet, SameShares, Counted, Shares
<1>2. ASSUME NEW t \in Threads, HandsOut(t) PROVE refcount'[s] = Shares(s)'
  BY <1>2 DEF HandsOut, SameShares, Counted, Shares, CountInv, TypeOK
<1>3. ASSUME NEW t \in Threads, OwnerLetsGo(t) \/ WrapperLetsGo(t)
      PROVE  refcount'[s] = Shares(s)'
  <2>1. mem[t] = "live" /\ refcount[t] = Shares(t)
    BY <1>3 DEF OwnerLetsGo, WrapperLetsGo, CountInv, Covered, Counted
  <2>2. /\ refcount' = [refcount EXCEPT ![t] = refcount[t] - 1]
        /\ mem' = IF refcount[t] = 1 THEN [mem EXCEPT ![t] = "freed"] ELSE mem
    BY <1>3 DEF OwnerLetsGo, WrapperLetsGo, Release
  <2>3. CASE s = t
    <3>1. Shares(t)' = Shares(t) - 1
      BY <1>3 DEF OwnerLetsGo, WrapperLetsGo, Shares
    <3> QED
      BY <2>1, <2>2, <2>3, <3>1 DEF CountInv, TypeOK
  <2>4. CASE s # t
    BY <1>3, <2>2, <2>4 DEF OwnerLetsGo, WrapperLetsGo, SameShares, Counted, Shares, CountInv, TypeOK
  <2> QED
    BY <2>3, <2>4
<1> QED
  BY <1>1, <1>2, <1>3 DEF SharesStep

LEMMA StepNull ==
  ASSUME CountInv, NullUntilSpawned, [Next]_vars
  PROVE  NullUntilSpawned'
<1>0. TypeOK
  BY DEF CountInv
<1>1. CASE \E v \in Vars, t \in Threads : DeclareSpawned(v, t) \/ AssignSpawned(v, t)
  <2>1. PICK v \in Vars, t \in Threads : DeclareSpawned(v, t) \/ AssignSpawned(v, t)
    BY <1>1
  <2>2. /\ companion' = [companion EXCEPT ![v] = t] /\ scope' = scope \cup {v}
        /\ spawns' = [spawns EXCEPT ![v] = 1] \/ spawns' = [spawns EXCEPT ![v] = @ + 1]
    BY <2>1 DEF DeclareSpawned, AssignSpawned, SpawnInto
  <2> QED
    BY <1>0, <2>2 DEF NullUntilSpawned, TypeOK
<1>2. CASE \E v \in Vars : EndScope(v)
  <2>1. PICK v \in Vars : EndScope(v)
    BY <1>2
  <2>2. /\ companion' = [companion EXCEPT ![v] = None] /\ scope' = scope \ {v}
        /\ spawns' = [spawns EXCEPT ![v] = 0]
    BY <2>1 DEF EndScope, LeaveScope
  <2> QED
    BY <1>0, <2>2 DEF NullUntilSpawned, TypeOK
<1>3. CASE \E v \in Vars : SyncMove(v)
  <2>1. PICK v \in Vars : SyncMove(v)
    BY <1>3
  <2>2. companion' = [companion EXCEPT ![v] = None] /\ UNCHANGED <<scope, spawns>>
    BY <2>1 DEF SyncMove, checker, history
  <2> QED
    BY <1>0, <2>2 DEF NullUntilSpawned, TypeOK
<1>4. CASE UNCHANGED <<companion, spawns>> /\ scope \subseteq scope'
  BY <1>4 DEF NullUntilSpawned
<1>5. CASE \E v \in Vars : DeclarePlain(v) \/ AssignPlain(v) \/ SyncVariable(v) \/ Detach(v)
  BY <1>4, <1>5 DEF DeclarePlain, AssignPlain, SyncVariable, Detach, DetachHandle, BeginSync,
    frame, checker, history
<1>6. CASE \/ \E S \in SUBSET Vars : SyncList(S)
           \/ \E t \in Threads : FireAndForget(t) \/ SpawnAndSync(t)
           \/ Return
  BY <1>4, <1>6 DEF SyncList, FireAndForget, SpawnAndSync, Return, BeginSync, checker, history
<1>7. CASE Join \/ Take \/ Cleanup \/ ForgetDetach \/ ForgetDrop
  BY <1>4, <1>7 DEF Join, Take, Cleanup, ForgetDetach, ForgetDrop, checker, history
<1>8. CASE (\E t \in Threads : Wrapper(t)) \/ Terminated \/ UNCHANGED vars
  BY <1>4, <1>8 DEF Wrapper, WrapperStart, WrapperReturn, WrapperStore, WrapperRelease,
    WrapperExit, Terminated, vars, frame, checker, history
<1> QED
  BY <1>1, <1>2, <1>3, <1>5, <1>6, <1>7, <1>8 DEF Next, Statement, Inside

--------------------------------------------------------------------------------
(***************************************************************************)
(* What the owner leaves running is detached.                              *)
(***************************************************************************)
LEMMA StepReaped ==
  ASSUME CountInv, Reaped, [Next]_vars
  PROVE  Reaped'
<1> USE NoneAssumption
<1>0. TypeOK
  BY DEF CountInv
<1>1. CASE UNCHANGED <<joined, detached, reap>> /\ opc' # "drop"
                 /\ \A t \in Threads : wpc[t] = "exited" => wpc'[t] = "exited"
  BY <1>1 DEF Reaped
<1>2. CASE Statement /\ ~\E v \in Vars : Detach(v)
  <2>1. UNCHANGED <<joined, detached, reap>> /\ opc' # "drop"
    BY <1>2 DEF Statement, DeclareSpawned, AssignSpawned, SpawnInto, Spawn, DeclarePlain,
      AssignPlain, SyncVariable, SyncList, BeginSync, EndScope, LeaveScope, FireAndForget,
      SpawnAndSync, Return, struct, platform, frame
  <2>2. UNCHANGED wpc \/ \E t \in Threads : wpc[t] = "idle" /\ wpc' = [wpc EXCEPT ![t] = "start"]
    BY <1>2, FreshCount DEF Statement, DeclareSpawned, AssignSpawned, SpawnInto, Spawn,
      DeclarePlain, AssignPlain, SyncVariable, SyncList, BeginSync, EndScope, LeaveScope,
      FireAndForget, SpawnAndSync, Return, platform
  <2>3. \A t \in Threads : wpc[t] = "exited" => wpc'[t] = "exited"
    BY <1>0, <2>2 DEF TypeOK
  <2> QED
    BY <1>1, <2>1, <2>3
<1>3. ASSUME NEW v \in Vars, Detach(v) PROVE Reaped'
  <2>1. /\ opc = "run" /\ UNCHANGED <<joined, wpc, opc>>
        /\ \/ UNCHANGED <<detached, reap>>
           \/ \E t \in Threads :
                /\ detached' = [detached EXCEPT ![t] = TRUE]
                /\ reap' = [reap EXCEPT ![t] = IF @ = "joinable" THEN "detached" ELSE @]
    BY <1>0, <1>3 DEF Detach, DetachHandle, TypeOK, frame
  <2> QED
    BY <1>0, <2>1 DEF TypeOK, Reaped
<1>4. CASE Join \/ Cleanup
  <2>1. PICK t \in Threads : t = cur
    BY <1>4, LocalLive DEF Join, Cleanup
  <2>2. /\ UNCHANGED <<detached, wpc>> /\ opc' # "drop"
        /\ \/ UNCHANGED <<joined, reap>>
           \/ /\ joined' = [joined EXCEPT ![t] = TRUE]
              /\ reap' = [reap EXCEPT ![t] = IF @ = "joinable" THEN "joined" ELSE @]
              /\ reap[t] = "joinable" => wpc[t] = "exited"
    BY <1>4, <2>1 DEF Join, Cleanup, PassJoin, CanPassJoin, NextElement
  <2> QED
    BY <1>0, <2>1, <2>2 DEF TypeOK, Reaped
<1>5. CASE ForgetDetach
  BY <1>0, <1>5 DEF ForgetDetach, TypeOK, Reaped
<1>6. CASE Take \/ ForgetDrop \/ \E v \in Vars : SyncMove(v)
  BY <1>1, <1>6 DEF Take, ForgetDrop, SyncMove, struct, platform
<1>7. CASE \E t \in Threads : Wrapper(t)
  <2>1. PICK t \in Threads : Wrapper(t)
    BY <1>7
  <2>2. /\ UNCHANGED <<joined, detached, reap, opc, cur>> /\ wpc[t] # "exited"
        /\ wpc' = [wpc EXCEPT ![t] = wpc'[t]]
    BY <1>0, <2>1 DEF Wrapper, WrapperStart, WrapperReturn, WrapperStore, WrapperRelease,
      WrapperExit, TypeOK, struct, frame
  <2>3. \A s \in Threads : wpc[s] = "exited" => wpc'[s] = "exited"
    BY <1>0, <2>2 DEF TypeOK
  <2> QED
    BY <2>2, <2>3 DEF Reaped
<1>8. CASE Terminated \/ UNCHANGED vars
  BY <1>8 DEF Terminated, vars, Reaped, struct, platform, frame
<1> QED
  BY <1>2, <1>3, <1>4, <1>5, <1>6, <1>7, <1>8 DEF Next, Inside

LEMMA StepLeftDetached ==
  ASSUME MaxSpawns <= 1, CountInv, NullUntilSpawned, Reaped, LeftDetached, [Next]_vars
  PROVE  LeftDetached'
<1>1. ASSUME NEW t \in Threads, WrapperHolds(t)', ~OwnerHolds(t)'
      PROVE  reap'[t] = "detached"
  <2>1. reap[t] = "detached" => reap'[t] = "detached"
    <3>1. CASE UNCHANGED reap
      BY <3>1
    <3>2. CASE Join \/ Cleanup
      <4>1. cur \in Threads
        BY <3>2, LocalLive DEF Join, Cleanup
      <4>2. UNCHANGED reap \/ reap' = [reap EXCEPT ![cur] = IF @ = "joinable" THEN "joined" ELSE @]
        BY <3>2 DEF Join, Cleanup, PassJoin
      <4> QED
        BY <4>1, <4>2 DEF CountInv, TypeOK
    <3>3. CASE ForgetDetach
      BY <3>3 DEF ForgetDetach, CountInv, TypeOK
    <3>4. CASE \E v \in Vars : Detach(v)
      BY <3>4 DEF Detach, DetachHandle, CountInv, TypeOK
    <3> QED
      BY <3>1, <3>2, <3>3, <3>4 DEF Next, Statement, Inside, DeclareSpawned, AssignSpawned,
        SpawnInto, Spawn, DeclarePlain, AssignPlain, SyncVariable, SyncList, BeginSync, EndScope,
        LeaveScope, FireAndForget, SpawnAndSync, Return, SyncMove, Take, ForgetDrop, Wrapper,
        WrapperStart, WrapperReturn, WrapperStore, WrapperRelease, WrapperExit, Terminated,
        vars, platform
  <2>2. CASE WrapperHolds(t) /\ ~OwnerHolds(t)
    BY <2>1, <2>2 DEF LeftDetached
  <2>3. CASE ~(WrapperHolds(t) /\ ~OwnerHolds(t))
    <3>1. \E s \in Threads : HandsOut(s) \/ OwnerLetsGo(s) \/ WrapperLetsGo(s)
      BY <1>1, <2>3, StepShares DEF SharesStep, Quiet, SameShares
    <3>2. OwnerLetsGo(t)
      BY <1>1, <2>3, <3>1 DEF HandsOut, OwnerLetsGo, WrapperLetsGo, SameShares
    <3>3. OwnerHolds(t) /\ WrapperHolds(t) /\ ~OwnerHolds(t)'
      BY <3>2, <1>1 DEF OwnerLetsGo
    <3>4. Cleanup \/ ForgetDrop
      <4>1. CASE Statement
        BY <3>3, <4>1, SpawnShares, MoveShares, StillShares, <1>1
          DEF Statement, HandsOut, Quiet, SameShares
      <4>2. CASE \E r \in Threads : Wrapper(r)
        BY <3>3, <4>2, WrapperShares DEF Quiet, SameShares, WrapperLetsGo
      <4>3. CASE Terminated \/ UNCHANGED vars
        BY <3>3, <4>3, StillShares DEF Quiet, SameShares
      <4>4. CASE Inside
        BY <3>3, <4>4, MoveShares, StillShares DEF Inside, Quiet, SameShares
      <4> QED
        BY <4>1, <4>2, <4>3, <4>4 DEF Next
    <3>5. t = cur
      BY <3>3, <3>4, DropShares DEF OwnerLetsGo, SameShares
    <3>6. reap[t] # "joined"
      BY <3>3 DEF Reaped, WrapperHolds
    <3>7. CASE ForgetDrop
      BY <2>1, <3>5, <3>7 DEF ForgetDrop, Reaped
    <3>8. CASE Cleanup
      <4>1. reap[t] # "joinable"
        BY <3>3, <3>5, <3>8 DEF Cleanup, PassJoin, CanPassJoin, Reaped, WrapperHolds
      <4> QED
        BY <2>1, <3>6, <4>1 DEF CountInv, TypeOK
    <3> QED
      BY <3>4, <3>7, <3>8
  <2> QED
    BY <2>2, <2>3
<1>2. opc' = "done" => scope' = {}
  <2>1. CASE opc = "done"
    <3>1. UNCHANGED scope
      BY <2>1 DEF Next, Statement, Inside, DeclareSpawned, AssignSpawned, DeclarePlain,
        AssignPlain, SyncVariable, SyncList, Detach, EndScope, FireAndForget, SpawnAndSync,
        Return, SyncMove, Join, Take, Cleanup, ForgetDetach, ForgetDrop, Wrapper,
        WrapperStart, WrapperReturn, WrapperStore, WrapperRelease, WrapperExit, Terminated,
        vars, checker
    <3> QED
      BY <2>1, <3>1 DEF LeftDetached
  <2>2. CASE opc # "done" /\ opc' = "done"
    <3>1. Return
      BY <2>2 DEF Next, Statement, Inside, DeclareSpawned, AssignSpawned, DeclarePlain,
        AssignPlain, SyncVariable, SyncList, BeginSync, Detach, DetachHandle, SpawnInto,
        EndScope, LeaveScope, FireAndForget, SpawnAndSync,
        Return, SyncMove, Join, Take, Cleanup, ForgetDetach, ForgetDrop, Wrapper, NextElement,
        WrapperStart, WrapperReturn, WrapperStore, WrapperRelease, WrapperExit, Terminated,
        vars, frame
    <3> QED
      BY <3>1 DEF Return, checker
  <2> QED
    BY <2>1, <2>2
<1> QED
  BY <1>1, <1>2 DEF LeftDetached

--------------------------------------------------------------------------------
LEMMA StepShare ==
  ASSUME MaxSpawns <= 1, ShareInv, [Next]_vars
  PROVE  ShareInv'
BY StepCount, StepShares, StepCounted, StepNull, StepReaped, StepLeftDetached DEF ShareInv

LEMMA SpecShare ==
  ASSUME MaxSpawns <= 1
  PROVE  Spec => []ShareInv
<1>1. ShareInv /\ [Next]_vars => ShareInv'
  BY StepShare
<1> QED
  BY <1>1, InitShare, PTL DEF Spec

(* Counting the holders.                                                   *)
LEMMA SharesAreHolders == \A t : Shares(t) = Cardinality(Holders(t))
<1> TAKE t
<1>1. /\ Cardinality({}) = 0 /\ Cardinality({"owner"}) = 1 /\ Cardinality({"wrapper"}) = 1
      /\ IsFiniteSet({"owner"})
  BY FS_EmptySet, FS_Singleton
<1>2. Cardinality({"owner"} \cup {"wrapper"}) = Cardinality({"owner"}) + 1
  <2>1. "wrapper" \notin {"owner"}
    OBVIOUS
  <2> QED
    BY <1>1, <2>1, FS_AddElement
<1>3. CASE OwnerHolds(t) /\ WrapperHolds(t)
  <2>1. Holders(t) = {"owner"} \cup {"wrapper"}
    BY <1>3 DEF Holders
  <2> QED
    BY <1>1, <1>2, <1>3, <2>1 DEF Shares
<1>4. CASE OwnerHolds(t) /\ ~WrapperHolds(t)
  <2>1. Holders(t) = {"owner"}
    BY <1>4 DEF Holders
  <2> QED
    BY <1>1, <1>4, <2>1 DEF Shares
<1>5. CASE ~OwnerHolds(t) /\ WrapperHolds(t)
  <2>1. Holders(t) = {"wrapper"}
    BY <1>5 DEF Holders
  <2> QED
    BY <1>1, <1>5, <2>1 DEF Shares
<1>6. CASE ~OwnerHolds(t) /\ ~WrapperHolds(t)
  <2>1. Holders(t) = {}
    BY <1>6 DEF Holders
  <2> QED
    BY <1>1, <1>6, <2>1 DEF Shares
<1> QED
  BY <1>3, <1>4, <1>5, <1>6

(* The count never runs ahead of or behind the parties that still hold the *)
(* structure.                                                              *)
THEOREM CountIsExact ==
  ASSUME MaxSpawns <= 1
  PROVE  Spec => []RefcountExact
<1>1. ShareInv => RefcountExact
  BY SharesAreHolders DEF ShareInv, Counted, RefcountExact
<1> QED
  BY <1>1, SpecShare, PTL

(* No structure is orphaned: the last party to let go frees it.            *)
THEOREM NothingOrphaned ==
  ASSUME MaxSpawns <= 1
  PROVE  Spec => []NoOrphan
<1>1. ShareInv => NoOrphan
  BY DEF ShareInv, CountInv, Covered, Counted, Shares, NoOrphan, Holders
<1> QED
  BY <1>1, SpecShare, PTL

(* When the owner has returned only detached threads can still be running. *)
THEOREM OnlyDetachedOutlive ==
  ASSUME MaxSpawns <= 1
  PROVE  Spec => []ReturnLeavesOnlyDetached
<1>1. ASSUME ShareInv PROVE ReturnLeavesOnlyDetached
  <2> SUFFICES ASSUME opc = "done", NEW t \in Threads, WrapperHolds(t)
               PROVE  reap[t] = "detached"
    BY DEF ReturnLeavesOnlyDetached
  <2>1. cur = None /\ \A v \in Vars : companion[v] = None
    BY <1>1 DEF ShareInv, CountInv, LocalSet, LeftDetached, NullUntilSpawned
  <2>2. ~OwnerHolds(t)
    BY <2>1, NoneAssumption DEF OwnerHolds
  <2> QED
    BY <1>1, <2>2 DEF ShareInv, LeftDetached
<1> QED
  BY <1>1, SpecShare, PTL

--------------------------------------------------------------------------------
(***************************************************************************)
(* The structures implement CoOwned: a spawn hands a cell out, and a step  *)
(* in which a party lets go reclaims the cell exactly if it was the last.  *)
(***************************************************************************)
LEMMA PromiseInit == Init => Promise!Init
<1> SUFFICES ASSUME Init PROVE Promise!Init
  OBVIOUS
<1>1. \A t \in Threads : Holders(t) = {}
  BY NoneAssumption DEF Init, Holders, OwnerHolds, WrapperHolds
<1> QED
  BY <1>1 DEF Init, Promise!Init

LEMMA PromiseStep ==
  ASSUME CountInv, Counted, SharesStep
  PROVE  [Promise!Next]_<<[t \in Threads |-> Holders(t)], [t \in Threads |-> mem[t] = "freed"]>>
<1> DEFINE shares == [t \in Threads |-> Holders(t)]
           reclaimed == [t \in Threads |-> mem[t] = "freed"]
<1>1. CASE Quiet
  <2>1. shares' = shares /\ reclaimed' = reclaimed
    BY <1>1 DEF Quiet, SameShares, Holders
  <2> QED
    BY <2>1
<1>2. ASSUME NEW t \in Threads, HandsOut(t)
      PROVE  Promise!HandOut(t)
  <2>1. Holders(t) = {} /\ Holders(t)' = {"owner", "wrapper"} /\ mem[t] # "freed"
    BY <1>2 DEF HandsOut, Holders, CountInv, Covered
  <2>2. \A s \in Threads \ {t} : Holders(s)' = Holders(s)
    BY <1>2 DEF HandsOut, SameShares, Holders
  <2>3. shares' = [shares EXCEPT ![t] = {"owner", "wrapper"}]
    BY <2>1, <2>2
  <2>4. reclaimed' = reclaimed
    BY <1>2 DEF HandsOut, CountInv, TypeOK
  <2> QED
    BY <2>1, <2>3, <2>4 DEF Promise!HandOut
<1>3. ASSUME NEW t \in Threads, NEW p \in {"owner", "wrapper"},
             p = "owner" => OwnerLetsGo(t), p = "wrapper" => WrapperLetsGo(t)
      PROVE  Promise!LetGo(t, p)
  <2>1. p \in Holders(t) /\ Holders(t)' = Holders(t) \ {p}
    BY <1>3 DEF OwnerLetsGo, WrapperLetsGo, Holders
  <2>2. \A s \in Threads \ {t} : Holders(s)' = Holders(s)
    BY <1>3 DEF OwnerLetsGo, WrapperLetsGo, SameShares, Holders
  <2>3. shares' = [shares EXCEPT ![t] = Holders(t) \ {p}]
    BY <2>1, <2>2
  <2>4. mem[t] = "live" /\ refcount[t] = Shares(t)
    BY <1>3 DEF OwnerLetsGo, WrapperLetsGo, CountInv, Covered, Counted
  <2>5. refcount[t] = 1 <=> Holders(t) = {p}
    BY <1>3, <2>4 DEF OwnerLetsGo, WrapperLetsGo, Shares, Holders
  <2>6. mem' = IF refcount[t] = 1 THEN [mem EXCEPT ![t] = "freed"] ELSE mem
    BY <1>3 DEF OwnerLetsGo, WrapperLetsGo, Release
  <2>7. reclaimed' = [reclaimed EXCEPT ![t] = (Holders(t) = {p})]
    BY <2>4, <2>5, <2>6 DEF CountInv, TypeOK
  <2> QED
    BY <2>1, <2>3, <2>7 DEF Promise!LetGo
<1> QED
  BY <1>1, <1>2, <1>3 DEF SharesStep, Promise!Next

(* The structures keep the promise of CoOwned: no reference is lost,       *)
(* dropped twice, or dropped late, and the free happens in the step of the *)
(* last holder.                                                            *)
THEOREM Refinement ==
  ASSUME MaxSpawns <= 1
  PROVE  Spec => KeepsPromise
<1>1. Init => Promise!Init
  BY PromiseInit
<1>2. ShareInv /\ [Next]_vars =>
        [Promise!Next]_<<[t \in Threads |-> Holders(t)], [t \in Threads |-> mem[t] = "freed"]>>
  BY StepShares, PromiseStep DEF ShareInv
<1> QED
  BY <1>1, <1>2, SpecShare, PTL DEF Spec, KeepsPromise, Promise!Spec

--------------------------------------------------------------------------------
(***************************************************************************)
(* Where the value of a variable is, with the checker's part in it.        *)
(***************************************************************************)
(* The companion of a variable has a handle only between the spawn and the *)
(* sync, or after a detach; what the source expects in the variable is in  *)
(* the variable, in the companion, or on its way in the owner's local.     *)
Delivers(v) == curVar = v /\ opc \in {"join", "take"}

Tracks(v) ==
  /\ v \notin scope => spawns[v] = 0
  /\ spawns[v] = 0 <=> tstate[v] = "NORMAL"
  /\ tstate[v] = "NORMAL" => companion[v] = None /\ value[v] = latest[v]
  /\ tstate[v] = "PENDING" => companion[v] = latest[v] /\ latest[v] # None /\ v \notin todo
  /\ tstate[v] = "SYNCHRONIZED" =>
       \/ companion[v] = latest[v] /\ latest[v] # None /\ v \in todo
       \/ companion[v] = None /\ (value[v] = latest[v] \/ Delivers(v))
  /\ tstate[v] = "DETACHED" => value[v] = latest[v]
  /\ Delivers(v) => tstate[v] = "SYNCHRONIZED" /\ companion[v] = None /\ cur = latest[v]

Tracking ==
  /\ \A v \in Vars : Tracks(v)
  /\ opc \notin {"join", "take", "cleanup"} => curVar = None

LEMMA InitTracking == Init => Tracking
BY NoneAssumption DEF Init, Tracking, Tracks, Delivers

LEMMA TrackingNull == Tracking => NullUntilSpawned
BY DEF Tracking, Tracks, NullUntilSpawned

(* A spawn into a variable that has had none since its declaration.        *)
LEMMA SpawnTracking ==
  ASSUME MaxSpawns <= 1, IInv, Tracking, NEW v \in Vars, NEW t \in Threads,
         DeclareSpawned(v, t) \/ AssignSpawned(v, t)
  PROVE  Tracking'
<1>1. companion[v] = None /\ spawns[v] = 0 /\ tstate[v] = "NORMAL"
  BY SpawnIntoNull, IInvCount, TrackingNull DEF Tracking, Tracks
<1>2. /\ opc = "run" /\ curVar = None
      /\ UNCHANGED <<opc, cur, curVar, todo, value>>
      /\ companion' = [companion EXCEPT ![v] = t] /\ latest' = [latest EXCEPT ![v] = t]
      /\ tstate' = [tstate EXCEPT ![v] = "PENDING"] /\ spawns' = [spawns EXCEPT ![v] = 1]
      /\ scope' = scope \cup {v} /\ todo = {}
  <2>1. CASE DeclareSpawned(v, t)
    BY <2>1 DEF DeclareSpawned, SpawnInto, MarkPending, Tracking, IInv, SyncsNoDetached
  <2>2. CASE AssignSpawned(v, t)
    <3>1. scope \cup {v} = scope
      BY <2>2 DEF AssignSpawned
    <3> QED
      BY <1>1, <2>2, <3>1 DEF AssignSpawned, SpawnInto, MarkPending, Tracking, IInv, SyncsNoDetached
  <2> QED
    BY <2>1, <2>2
<1>3. ASSUME NEW w \in Vars PROVE Tracks(w)'
  BY <1>2, NoneAssumption DEF Tracking, Tracks, Delivers, IInv, TypeOK
<1> QED
  BY <1>2, <1>3 DEF Tracking

(* Statements and steps that leave variables and companions alone.         *)
LEMMA OtherTracking ==
  ASSUME IInv, Tracking,
         \/ \E t \in Threads : FireAndForget(t) \/ SpawnAndSync(t) \/ Wrapper(t)
         \/ \E v \in Vars : DeclarePlain(v)
         \/ Return \/ Join \/ Cleanup \/ ForgetDetach \/ ForgetDrop \/ Terminated \/ UNCHANGED vars
  PROVE  Tracking'
<1>1. /\ UNCHANGED <<companion, value, todo, tstate, spawns, latest>>
      /\ scope \subseteq scope'
  BY DEF FireAndForget, SpawnAndSync, Wrapper, WrapperStart, WrapperReturn, WrapperStore,
    WrapperRelease, WrapperExit, DeclarePlain, Return, Join, Cleanup, ForgetDetach, ForgetDrop,
    Terminated, vars, frame, checker, history
<1>2. \/ UNCHANGED <<opc, cur, curVar>>
      \/ opc = "join" /\ opc' = "take" /\ UNCHANGED <<cur, curVar>>
      \/ opc \notin {"join", "take", "cleanup"} /\ UNCHANGED curVar
      \/ opc = "cleanup" /\ curVar' = None
  BY DEF FireAndForget, SpawnAndSync, Wrapper, WrapperStart, WrapperReturn, WrapperStore,
    WrapperRelease, WrapperExit, DeclarePlain, Return, Join, Cleanup, ForgetDetach, ForgetDrop,
    Terminated, vars, frame
<1>3. ASSUME NEW w \in Vars PROVE Tracks(w)'
  <2>1. Delivers(w)' <=> Delivers(w)
    BY <1>2, NoneAssumption DEF Delivers, Tracking
  <2>2. Delivers(w) => UNCHANGED cur
    BY <1>2, NoneAssumption DEF Delivers, Tracking
  <2> QED
    BY <1>1, <2>1, <2>2 DEF Tracking, Tracks
<1>4. opc' \notin {"join", "take", "cleanup"} => curVar' = None
  BY <1>2 DEF Tracking
<1> QED
  BY <1>3, <1>4 DEF Tracking

(* An assignment the checker accepts finds no handle under way.            *)
LEMMA AssignTracking ==
  ASSUME IInv, Tracking, NEW v \in Vars, AssignPlain(v)
  PROVE  Tracking'
<1>1. /\ opc = "run" /\ curVar = None /\ todo = {} /\ tstate[v] # "PENDING"
      /\ UNCHANGED <<companion, opc, cur, curVar, todo, scope, tstate, spawns>>
      /\ value' = [value EXCEPT ![v] = None] /\ latest' = [latest EXCEPT ![v] = None]
  BY DEF AssignPlain, CanAssign, checker, Tracking, IInv, SyncsNoDetached
<1>2. ASSUME NEW w \in Vars PROVE Tracks(w)'
  BY <1>1 DEF Tracking, Tracks, Delivers, IInv, TypeOK
<1> QED
  BY <1>1, <1>2 DEF Tracking

(* A sync begins.                                                          *)
LEMMA SyncTracking ==
  ASSUME IInv, ~ListDetached, Tracking,
         \/ \E v \in Vars : SyncVariable(v)
         \/ \E S \in SUBSET Vars : SyncList(S)
  PROVE  Tracking'
<1>1. PICK S \in SUBSET Vars :
        /\ opc = "run" /\ BeginSync(S) /\ UNCHANGED scope
        /\ \A w \in Vars : tstate'[w] = IF w \in S THEN MarkSynchronized(tstate[w]) ELSE tstate[w]
  <2>1. CASE \E v \in Vars : SyncVariable(v)
    <3>1. PICK v \in Vars : SyncVariable(v)
      BY <2>1
    <3>2. opc = "run" /\ BeginSync({v}) /\ UNCHANGED scope
      BY <3>1 DEF SyncVariable
    <3>3. \A w \in Vars : tstate'[w] = IF w \in {v} THEN MarkSynchronized(tstate[w]) ELSE tstate[w]
      BY <3>1 DEF SyncVariable, IInv, TypeOK
    <3> QED
      BY <3>2, <3>3
  <2>2. CASE \E S \in SUBSET Vars : SyncList(S)
    BY <2>2 DEF SyncList
  <2> QED
    BY <2>1, <2>2
<1>2. /\ UNCHANGED <<companion, value, cur, curVar, spawns, latest>>
      /\ opc' = "sync" /\ todo' = S /\ todo = {} /\ curVar = None
  BY <1>1 DEF BeginSync, history, IInv, SyncsNoDetached, Tracking
<1>3. ASSUME NEW w \in Vars PROVE Tracks(w)'
  BY <1>1, <1>2, NoneAssumption DEF Tracking, Tracks, Delivers, MarkSynchronized
<1> QED
  BY <1>2, <1>3 DEF Tracking

(* A detach: from here on the source expects what the variable holds.      *)
LEMMA DetachTracking ==
  ASSUME IInv, Tracking, NEW v \in Vars, Detach(v)
  PROVE  Tracking'
<1>1. /\ tstate[v] = "PENDING" /\ tstate' = [tstate EXCEPT ![v] = "DETACHED"]
      /\ opc = "run" /\ curVar = None /\ UNCHANGED <<scope, spawns>>
      /\ latest' = [latest EXCEPT ![v] = value[v]]
      /\ UNCHANGED <<companion, value, opc, cur, curVar, todo>>
  BY DEF Detach, DetachHandle, CanDetach, MarkDetached, frame, Tracking
<1>2. ASSUME NEW w \in Vars PROVE Tracks(w)'
  BY <1>1 DEF Tracking, Tracks, Delivers, IInv, TypeOK
<1> QED
  BY <1>1, <1>2 DEF Tracking

(* The end of a scope forgets the variable.                                *)
LEMMA EndScopeTracking ==
  ASSUME IInv, Tracking, NEW v \in Vars, EndScope(v)
  PROVE  Tracking'
<1>1. /\ opc = "run" /\ curVar = None /\ scope' = scope \ {v} /\ UNCHANGED <<curVar, todo>>
      /\ opc' \in {"run", "cleanup"}
      /\ companion' = [companion EXCEPT ![v] = None]
      /\ value' = [value EXCEPT ![v] = None] /\ latest' = [latest EXCEPT ![v] = None]
      /\ tstate' = [tstate EXCEPT ![v] = "NORMAL"] /\ spawns' = [spawns EXCEPT ![v] = 0]
  BY DEF EndScope, LeaveScope, Tracking
<1>2. ASSUME NEW w \in Vars PROVE Tracks(w)'
  BY <1>1 DEF Tracking, Tracks, Delivers, IInv, TypeOK
<1> QED
  BY <1>1, <1>2 DEF Tracking

(* The handle of a synchronized variable is on its way.                    *)
LEMMA SyncMoveTracking ==
  ASSUME IInv, Tracking, NEW v \in Vars, SyncMove(v)
  PROVE  Tracking'
<1>1. /\ opc = "sync" /\ curVar = None /\ cur = None
      /\ v \in todo /\ todo' = todo \ {v}
      /\ UNCHANGED <<value, scope, tstate, spawns, latest>>
      /\ companion' = [companion EXCEPT ![v] = None]
      /\ tstate[v] # "DETACHED"
  BY DEF SyncMove, Tracking, IInv, AtLocal, SyncsNoDetached, checker, history
<1>2. \/ companion[v] = None /\ opc' \in {"run", "sync"} /\ UNCHANGED <<cur, curVar>>
      \/ companion[v] # None /\ opc' = "join" /\ cur' = companion[v] /\ curVar' = v
  BY DEF SyncMove
<1>3. ASSUME NEW w \in Vars PROVE Tracks(w)'
  <2>1. CASE w = v
    <3>1. \/ tstate[v] = "NORMAL" /\ companion[v] = None /\ value[v] = latest[v]
          \/ tstate[v] = "PENDING" /\ companion[v] = latest[v] /\ latest[v] # None
          \/ tstate[v] = "SYNCHRONIZED" /\ companion[v] = latest[v] /\ latest[v] # None
          \/ tstate[v] = "SYNCHRONIZED" /\ companion[v] = None /\ value[v] = latest[v]
      BY <1>1 DEF Tracking, Tracks, Delivers, IInv, TypeOK, States
    <3>2. tstate[v] # "PENDING"
      BY <1>1 DEF Tracking, Tracks
    <3> QED
      BY <1>1, <1>2, <2>1, <3>1, <3>2, NoneAssumption DEF Tracking, Tracks, Delivers, IInv, TypeOK
  <2>2. CASE w # v
    BY <1>1, <1>2, <2>2, NoneAssumption DEF Tracking, Tracks, Delivers, IInv, TypeOK
  <2> QED
    BY <2>1, <2>2
<1>4. opc' \notin {"join", "take", "cleanup"} => curVar' = None
  BY <1>1, <1>2
<1> QED
  BY <1>3, <1>4 DEF Tracking

(* The result arrives in the variable it was assigned to.                  *)
LEMMA TakeTracking ==
  ASSUME IInv, Tracking, Take
  PROVE  Tracking'
<1>1. /\ opc = "take" /\ opc' = "cleanup"
      /\ UNCHANGED <<companion, cur, curVar, todo, scope, tstate, spawns, latest>>
      /\ value' = IF curVar = None THEN value ELSE [value EXCEPT ![curVar] = cur]
  BY DEF Take, checker, history
<1>2. ASSUME NEW w \in Vars PROVE Tracks(w)'
  <2>1. value'[w] = IF curVar = w THEN cur ELSE value[w]
    BY <1>1, NoneAssumption DEF IInv, TypeOK
  <2>2. ~Delivers(w)' /\ (Delivers(w) <=> curVar = w)
    BY <1>1 DEF Delivers
  <2> QED
    BY <1>1, <2>1, <2>2 DEF Tracking, Tracks
<1> QED
  BY <1>1, <1>2 DEF Tracking

LEMMA StepTracking ==
  ASSUME MaxSpawns <= 1, ~ListDetached, IInv, Tracking, [Next]_vars
  PROVE  Tracking'
<1>1. CASE Statement
  BY <1>1, SpawnTracking, OtherTracking, AssignTracking, SyncTracking, DetachTracking,
    EndScopeTracking DEF Statement
<1>2. CASE Inside
  BY <1>2, SyncMoveTracking, TakeTracking, OtherTracking DEF Inside
<1>3. CASE (\E t \in Threads : Wrapper(t)) \/ Terminated \/ UNCHANGED vars
  BY <1>3, OtherTracking
<1> QED
  BY <1>1, <1>2, <1>3 DEF Next

(* The two parts of the invariant with the checker in them.                *)
LEMMA SpecTracking ==
  ASSUME ~ListDetached, MaxSpawns <= 1
  PROVE  Spec => [](IInv /\ Tracking)
<1>1. IInv /\ Tracking /\ [Next]_vars => Tracking'
  BY StepTracking
<1>2. Spec => []IInv
  BY SpecIInv
<1> QED
  BY <1>1, <1>2, InitTracking, PTL DEF Spec

(* Whenever the checker lets the program read a variable, the variable     *)
(* holds the value the source gave it last.                                *)
THEOREM ReadsSeeLatest ==
  ASSUME ~ListDetached, MaxSpawns <= 1
  PROVE  Spec => []ReadsAreReady
<1>1. ASSUME IInv, Tracking PROVE ReadsAreReady
  <2> SUFFICES ASSUME opc = "run", NEW v \in scope, CanRead(tstate[v])
               PROVE  value[v] = latest[v]
    BY DEF ReadsAreReady
  <2>1. v \in Vars /\ tstate[v] \in {"NORMAL", "SYNCHRONIZED", "DETACHED"} /\ todo = {}
    BY <1>1 DEF IInv, TypeOK, States, CanRead, SyncsNoDetached
  <2> QED
    BY <1>1, <2>1 DEF Tracking, Tracks, Delivers
<1> QED
  BY <1>1, SpecTracking, PTL

--------------------------------------------------------------------------------
(***************************************************************************)
(* What survives branches and loops.  Whatever a loop repeats, nobody      *)
(* touches a freed structure: this needs no hypothesis on the program,     *)
(* because it rests on the count alone and not on what the checker         *)
(* believes.  And as long as no loop repeats a statement, branches that    *)
(* are not taken cost nothing of what is shown above of straight-line      *)
(* programs.                                                               *)
(***************************************************************************)

(* The statements of a loop's body name variables.                         *)
BodyOK == body \in Seq({"spawn", "sync", "detach"} \X Vars)

(* A branch not taken moves the checker and nothing else.                  *)
LEMMA SkipCount ==
  ASSUME CountInv, NEW v \in Vars, SkipAssign(v) \/ SkipSync(v) \/ SkipDetach(v)
  PROVE  CountInv'
<1>0. TypeOK
  BY DEF CountInv
<1>1. /\ UNCHANGED <<struct, platform, companion, cur, faults, curVar, todo, scope, value, latest, opc>>
      /\ opc = "run" /\ tstate' \in [Vars -> States] /\ spawns' \in [Vars -> Nat]
  BY <1>0, MarksTyped DEF SkipAssign, SkipSync, SkipDetach, Untaken, TypeOK, frame
<1> QED
  BY <1>0, <1>1, FrameCount DEF TypeOK

--------------------------------------------------------------------------------
(***************************************************************************)
(* Every step of a program with branches and loops.                        *)
(***************************************************************************)
LEMMA BodyStep ==
  ASSUME BodyOK, [ControlNext]_allVars
  PROVE  BodyOK'
<1>1. CASE UNCHANGED body
  BY <1>1 DEF BodyOK
<1>2. CASE FirstIteration
  <2>1. PICK v \in Vars, s \in {"spawn", "sync", "detach"} : body' = Append(body, <<s, v>>)
    BY <1>2 DEF FirstIteration
  <2> QED
    BY <2>1 DEF BodyOK
<1>3. CASE ExitLoop
  BY <1>3 DEF ExitLoop, BodyOK
<1> QED
  BY <1>1, <1>2, <1>3 DEF ControlNext, control, allVars, EnterLoop, NextIteration, Again, PassOver

LEMMA AgainCount ==
  ASSUME CountInv, BodyOK, Again
  PROVE  CountInv'
<1>0. TypeOK
  BY DEF CountInv
<1>1. PICK v \in Vars :
        /\ opc = "run" /\ UNCHANGED checker
        /\ \/ (\E t \in Threads : SpawnInto(v, t)) /\ UNCHANGED <<value, spawns>>
           \/ BeginSync({v})
           \/ DetachHandle(v) /\ UNCHANGED spawns
  <2>1. body[replay] \in {"spawn", "sync", "detach"} \X Vars
    BY DEF Again, BodyOK
  <2>2. body[replay][2] \in Vars
    BY <2>1
  <2> QED
    BY <2>2 DEF Again
<1>2. UNCHANGED <<scope, tstate>> /\ scope \subseteq Vars /\ tstate \in [Vars -> States]
      /\ spawns \in [Vars -> Nat]
  BY <1>0, <1>1 DEF checker, TypeOK
<1>3. CASE \E t \in Threads : SpawnInto(v, t) /\ UNCHANGED <<value, spawns>>
  BY <1>2, <1>3, SpawnIntoCount
<1>4. CASE BeginSync({v})
  <2>1. /\ UNCHANGED <<struct, platform, companion, cur, faults, curVar, value, latest, spawns>>
        /\ opc' = "sync" /\ todo' = {v}
    BY <1>4 DEF BeginSync, history
  <2> QED
    BY <1>0, <1>1, <1>2, <2>1, FrameCount DEF TypeOK
<1>5. CASE DetachHandle(v) /\ UNCHANGED spawns
  BY <1>2, <1>5, DetachHandleCount
<1> QED
  BY <1>1, <1>3, <1>4, <1>5

LEMMA ControlCount ==
  ASSUME CountInv, BodyOK, [ControlNext]_allVars
  PROVE  CountInv'
<1>1. CASE [Next]_vars
  BY <1>1, StepCount
<1>2. CASE BranchNotTaken
  BY <1>2, SkipCount DEF BranchNotTaken
<1>3. CASE FirstIteration
  BY <1>1, <1>2, <1>3 DEF FirstIteration, Next, Statement, BranchNotTaken
<1>4. CASE Again
  BY <1>4, AgainCount
<1> QED
  BY <1>1, <1>2, <1>3, <1>4
    DEF ControlNext, allVars, EnterLoop, NextIteration, PassOver, ExitLoop, Next

LEMMA ControlSpecCount == ControlSpec => [](CountInv /\ BodyOK)
<1>1. ControlInit => CountInv /\ BodyOK
  BY InitCount DEF ControlInit, BodyOK
<1>2. CountInv /\ BodyOK /\ [ControlNext]_allVars => CountInv' /\ BodyOK'
  BY ControlCount, BodyStep
<1> QED
  BY <1>1, <1>2, PTL DEF ControlSpec

(* Whatever a loop repeats and whichever branches are taken, for any       *)
(* number of threads, variables, spawns and statements: neither the owner  *)
(* nor a wrapper reads or releases a freed structure, and the count covers *)
(* everyone who holds one.                                                 *)
THEOREM LoopsNeverDangle == ControlSpec => []NoUseAfterFree
<1>1. CountInv => NoUseAfterFree
  <2> SUFFICES ASSUME CountInv PROVE NoUseAfterFree
    OBVIOUS
  <2>1. ASSUME NEW t \in Threads, mem[t] # "unused" PROVE refcount[t] >= Shares(t)
    BY <2>1 DEF CountInv, Covered, TypeOK, Shares
  <2>2. \A t \in Threads : mem[t] # "unused" => refcount[t] >= Cardinality(Holders(t))
    BY <2>1, SharesAreHolders
  <2> QED
    BY <2>2 DEF CountInv, NoDangling, NoUseAfterFree
<1> QED
  BY <1>1, ControlSpecCount, PTL

--------------------------------------------------------------------------------
(***************************************************************************)
(* As long as no loop repeats a statement.                                 *)
(***************************************************************************)
ExactSoFar == ~replayed => IInv /\ Counted /\ NullUntilSpawned

(* A branch that is not taken moves the checker's state of one variable:   *)
(* to DETACHED only from PENDING, when no handle is detached, and never    *)
(* away from it.                                                           *)
LEMMA SkipIInv ==
  ASSUME IInv, NEW v \in Vars, SkipAssign(v) \/ SkipSync(v) \/ SkipDetach(v)
  PROVE  IInv'
<1>0. TypeOK
  BY DEF IInv
<1>1. /\ UNCHANGED <<struct, platform, frame, scope, latest, faults>> /\ opc = "run"
      /\ spawns' \in [Vars -> Nat]
  BY <1>0 DEF SkipAssign, SkipSync, SkipDetach, Untaken, TypeOK
<1>2. /\ tstate' \in [Vars -> States]
      /\ \A w \in Vars : tstate[w] = "DETACHED" => tstate'[w] = "DETACHED"
  BY <1>0 DEF SkipAssign, SkipSync, SkipDetach, Untaken, TypeOK, MarkPending, MarkSynchronized,
    MarkDetached, States
<1>3. TypeOK' /\ NoFaults'
  BY <1>0, <1>1, <1>2 DEF IInv, TypeOK, NoFaults, struct, platform, frame
<1>4. Covered' /\ HeldOnce' /\ AtLocal' /\ ResultStored'
  BY <1>1 DEF IInv, Covered, HeldOnce, AtLocal, ResultStored, OwnerHolds, WrapperHolds, Joinable,
    Detached, Joined, struct, platform, frame
<1>5. Companions'
  BY <1>1, <1>2 DEF IInv, Companions, Joinable, Detached, struct, platform, frame
<1>6. SyncsNoDetached'
  BY <1>1 DEF IInv, SyncsNoDetached, frame
<1> QED
  BY <1>3, <1>4, <1>5, <1>6 DEF IInv

LEMMA SkipShares ==
  ASSUME NEW v \in Vars, SkipAssign(v) \/ SkipSync(v) \/ SkipDetach(v)
  PROVE  SharesStep
<1>1. UNCHANGED <<mem, refcount, wpc, companion, cur>>
  BY DEF SkipAssign, SkipSync, SkipDetach, Untaken, struct, platform, frame
<1> QED
  BY <1>1 DEF SharesStep, Quiet, SameShares, OwnerHolds, WrapperHolds

(* The end of a scope nulls the companion and a spawn is counted, taken or *)
(* not.                                                                    *)
LEMMA SkipNull ==
  ASSUME CountInv, NullUntilSpawned, NEW v \in Vars, SkipAssign(v) \/ SkipSync(v) \/ SkipDetach(v)
  PROVE  NullUntilSpawned'
<1>1. UNCHANGED <<companion, scope>>
  BY DEF SkipAssign, SkipSync, SkipDetach, Untaken, frame
<1>2. spawns' = spawns \/ spawns' = [spawns EXCEPT ![v] = @ + 1]
  BY DEF SkipAssign, SkipSync, SkipDetach
<1>3. \A w \in Vars : spawns'[w] = 0 => spawns[w] = 0
  BY <1>2 DEF CountInv, TypeOK
<1> QED
  BY <1>1, <1>3 DEF NullUntilSpawned

LEMMA ControlExact ==
  ASSUME ~ListDetached, MaxSpawns <= 1, ExactSoFar, [ControlNext]_allVars
  PROVE  ExactSoFar'
<1> SUFFICES ASSUME ~replayed' PROVE (IInv /\ Counted /\ NullUntilSpawned)'
  BY DEF ExactSoFar
<1>1. ~Again /\ ~replayed
  BY DEF Again, ControlNext, allVars, control, EnterLoop, FirstIteration, NextIteration, PassOver,
    ExitLoop
<1>2. IInv /\ Counted /\ NullUntilSpawned
  BY <1>1 DEF ExactSoFar
<1>3. CASE [Next]_vars
  BY <1>2, <1>3, IInvCount, StepIInv, StepShares, StepCounted, StepNull
<1>4. CASE \E v \in Vars : SkipAssign(v) \/ SkipSync(v) \/ SkipDetach(v)
  BY <1>2, <1>4, IInvCount, SkipIInv, SkipShares, StepCounted, SkipNull
<1>5. CASE FirstIteration
  BY <1>3, <1>4, <1>5 DEF FirstIteration, Next, Statement
<1> QED
  BY <1>1, <1>3, <1>4, <1>5 DEF ControlNext, allVars, BranchNotTaken, EnterLoop, NextIteration,
    PassOver, ExitLoop, Next

(* In every program that names no detached variable in a sync list and     *)
(* gives a variable at most one spawn, however its branches go and until a *)
(* loop repeats a statement: no fault, and the count is exact, although    *)
(* the checker believes what has not happened.                             *)
THEOREM UntakenBranchesHarmless ==
  ASSUME ~ListDetached, MaxSpawns <= 1
  PROVE  ControlSpec => []BranchesSafe
<1>1. ControlInit => ExactSoFar
  BY InitIInv, InitShare DEF ControlInit, ExactSoFar, ShareInv
<1>2. ExactSoFar /\ [ControlNext]_allVars => ExactSoFar'
  BY ControlExact
<1>3. ExactSoFar => BranchesSafe
  BY SharesAreHolders DEF ExactSoFar, BranchesSafe, IInv, Counted, RefcountExact
<1> QED
  BY <1>1, <1>2, <1>3, PTL DEF ControlSpec
================================================================================
