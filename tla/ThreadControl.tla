----------------------------- MODULE ThreadControl -----------------------------
(***************************************************************************)
(* Branches and loops around the statements of SnThread.  The checker      *)
(* visits every statement once, in source order, and joins nothing where   *)
(* control paths meet: a branch that is not taken has moved tstate without *)
(* anything having happened, and every iteration of a loop but the first   *)
(* executes statements that were checked in a state long gone.             *)
(*                                                                         *)
(* The body of a loop holds statements over variables declared outside it; *)
(* a variable declared inside starts afresh in each iteration, which is    *)
(* what the straight-line statements already do.                           *)
(***************************************************************************)
EXTENDS SnThread, Sequences

CONSTANTS MaxBody      \* statements in a loop body: bounds programs
ASSUME MaxBodyAssumption == MaxBody \in Nat

VARIABLES
  inLoop,
  body,       \* the statements the checker has seen in the loop
  replay,     \* where a later iteration is; 0 in the one being checked
  replayed    \* history: a loop has executed a statement again
control == <<inLoop, body, replay, replayed>>
allVars == <<vars, control>>

ControlInit == Init /\ inLoop = FALSE /\ body = <<>> /\ replay = 0 /\ replayed = FALSE

--------------------------------------------------------------------------------
(***************************************************************************)
(* A statement in a branch not taken: the checker's half of it.            *)
(***************************************************************************)
Untaken(v, next) ==
  /\ opc = "run" /\ v \in scope
  /\ tstate' = [tstate EXCEPT ![v] = next]
  /\ UNCHANGED <<struct, platform, frame, scope, latest, faults>>

SkipAssign(v) == /\ CanAssign(tstate[v]) /\ spawns[v] < MaxSpawns
                 /\ spawns' = [spawns EXCEPT ![v] = @ + 1]
                 /\ Untaken(v, MarkPending(tstate[v]))
SkipSync(v)   == /\ CanSync(tstate[v])
                 /\ Untaken(v, MarkSynchronized(tstate[v]))
                 /\ UNCHANGED spawns
SkipDetach(v) == /\ CanDetach(tstate[v])
                 /\ Untaken(v, MarkDetached(tstate[v]))
                 /\ UNCHANGED spawns

BranchNotTaken == \E v \in Vars : SkipAssign(v) \/ SkipSync(v) \/ SkipDetach(v)

--------------------------------------------------------------------------------
(***************************************************************************)
(* Loops.  The first iteration is checked as it runs and is remembered;    *)
(* the later ones only run, and may take a branch the first did not.       *)
(***************************************************************************)
EnterLoop ==
  /\ opc = "run" /\ ~inLoop
  /\ inLoop' = TRUE
  /\ UNCHANGED <<vars, body, replay, replayed>>

FirstIteration ==
  /\ inLoop /\ replay = 0 /\ Len(body) < MaxBody
  /\ \E v \in Vars :
       \/ /\ (\E t \in Threads : AssignSpawned(v, t)) \/ SkipAssign(v)
          /\ body' = Append(body, <<"spawn", v>>)
       \/ /\ SyncVariable(v) \/ SkipSync(v)
          /\ body' = Append(body, <<"sync", v>>)
       \/ /\ Detach(v) \/ SkipDetach(v)
          /\ body' = Append(body, <<"detach", v>>)
  /\ UNCHANGED <<inLoop, replay, replayed>>

NextIteration ==
  /\ opc = "run" /\ inLoop /\ body # <<>>
  /\ replay \in {0, Len(body) + 1}
  /\ replay' = 1
  /\ UNCHANGED <<vars, inLoop, body, replayed>>

Again ==
  /\ inLoop /\ opc = "run" /\ replay \in 1..Len(body)
  /\ LET v == body[replay][2]
     IN  \/ /\ body[replay][1] = "spawn"
            /\ \E t \in Threads : SpawnInto(v, t)
            /\ UNCHANGED <<value, spawns>>
         \/ /\ body[replay][1] = "sync" /\ BeginSync({v})
         \/ /\ body[replay][1] = "detach" /\ DetachHandle(v)
            /\ UNCHANGED spawns
  /\ replay' = replay + 1 /\ replayed' = TRUE
  /\ UNCHANGED <<checker, inLoop, body>>

(* A statement whose branch is not taken in this iteration.                *)
PassOver ==
  /\ inLoop /\ opc = "run" /\ replay \in 1..Len(body)
  /\ replay' = replay + 1
  /\ UNCHANGED <<vars, inLoop, body, replayed>>

(* The condition fails at the end of an iteration, or a break.             *)
ExitLoop ==
  /\ opc = "run" /\ inLoop
  /\ inLoop' = FALSE /\ body' = <<>> /\ replay' = 0
  /\ UNCHANGED <<vars, replayed>>

ControlNext ==
  \/ ~inLoop /\ (Statement \/ BranchNotTaken) /\ UNCHANGED control
  \/ (Inside \/ (\E t \in Threads : Wrapper(t)) \/ Terminated) /\ UNCHANGED control
  \/ EnterLoop \/ FirstIteration \/ NextIteration \/ Again \/ PassOver \/ ExitLoop

ControlSpec == ControlInit /\ [][ControlNext]_allVars

--------------------------------------------------------------------------------
(* Whatever a loop repeats, neither the owner nor a wrapper reads or       *)
(* releases a structure that has been freed: however often handles are     *)
(* overwritten or detached, the count covers everyone who still holds the  *)
(* structure.  It may leak, it never dangles.                              *)
NoUseAfterFree ==
  /\ "use-after-free" \notin faults
  /\ \A t \in Threads : mem[t] # "unused" => refcount[t] >= Cardinality(Holders(t))

(* As long as no loop has repeated a statement, branches that are not      *)
(* taken do no harm: no fault, and the count is exact, although the        *)
(* checker believes what has not happened.                                 *)
BranchesSafe == ~replayed => NoFaults /\ RefcountExact

================================================================================
