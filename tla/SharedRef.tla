------------------------------- MODULE SharedRef -------------------------------
(***************************************************************************)
(* A reference-counted object, an `as ref' structure or a closure, that    *)
(* the owner hands to threads.  The count is a plain int: ++ and -- read   *)
(* it and write it back, and another thread may come in between.           *)
(*                                                                         *)
(* A spawn retains a structure for the thread it is an argument of, whose  *)
(* wrapper drops that reference after the function has returned.  The      *)
(* closure of a spawn, and closures among its arguments, are only lent:    *)
(* nothing is retained or dropped.  Any party may assign the object to     *)
(* further variables, each of which is a reference, until their scope      *)
(* ends.                                                                   *)
(***************************************************************************)
EXTENDS Integers

CONSTANTS
  Owner, Workers,
  MaxHeld,       \* references one party holds: bounds programs
  Overlapping    \* does the owner use the object while a thread runs?

ASSUME OwnerAssumption == Owner \notin Workers
ASSUME BoundAssumption == MaxHeld \in Nat /\ Overlapping \in BOOLEAN

Parties == {Owner} \cup Workers

VARIABLES
  rc, freed,
  pc, reg,       \* what each party is doing, and the count it has read
  child,         \* the worker being spawned
  lent,          \* workers that may use the object without a reference
  held,          \* history: references each party holds
  dangling       \* history: a freed object was touched, or freed again

vars == <<rc, freed, pc, reg, child, lent, held, dangling>>

Init ==
  /\ rc = 1 /\ freed = FALSE
  /\ pc = [p \in Parties |-> IF p = Owner THEN "run" ELSE "unborn"]
  /\ reg = [p \in Parties |-> 0]
  /\ child = Owner /\ lent = {}
  /\ held = [p \in Parties |-> IF p = Owner THEN 1 ELSE 0]
  /\ dangling = FALSE

--------------------------------------------------------------------------------
Running(p) == p \in Workers /\ pc[p] \notin {"unborn", "joined"}
MayUse(p) == /\ pc[p] = "run" /\ (held[p] > 0 \/ p \in lent)
             /\ p = Owner /\ ~Overlapping => \A w \in Workers : ~Running(w)

(* Reads the count; what is then written depends on label.                 *)
Load(p, label) ==
  /\ pc' = [pc EXCEPT ![p] = label]
  /\ reg' = [reg EXCEPT ![p] = rc]
  /\ dangling' = (dangling \/ freed)

Copy(p) ==
  /\ MayUse(p) /\ held[p] < MaxHeld
  /\ Load(p, "retain")
  /\ UNCHANGED <<rc, freed, child, lent, held>>

Spawn(w) ==
  /\ MayUse(Owner) /\ pc[w] = "unborn"
  /\ Load(Owner, "spawn")
  /\ child' = w
  /\ UNCHANGED <<rc, freed, lent, held>>

Lend(w) ==
  /\ MayUse(Owner) /\ pc[w] = "unborn"
  /\ pc' = [pc EXCEPT ![w] = "run"]
  /\ lent' = lent \cup {w}
  /\ UNCHANGED <<rc, freed, reg, child, held, dangling>>

(* The spawn of a method passes the structure it is called on as it is;    *)
(* the wrapper drops it like any other.                                    *)
SpawnSelf(w) ==
  /\ MayUse(Owner) /\ pc[w] = "unborn"
  /\ pc' = [pc EXCEPT ![w] = "run"]
  /\ held' = [held EXCEPT ![w] = 1]
  /\ UNCHANGED <<rc, freed, reg, child, lent, dangling>>

(* A variable's scope ends; a worker's last reference is the wrapper's.    *)
Drop(p) ==
  /\ MayUse(p) /\ held[p] > 0
  /\ Load(p, "release")
  /\ UNCHANGED <<rc, freed, child, lent, held>>

Retained(p) ==
  /\ pc[p] = "retain"
  /\ rc' = reg[p] + 1
  /\ held' = [held EXCEPT ![p] = @ + 1]
  /\ pc' = [pc EXCEPT ![p] = "run"] /\ reg' = [reg EXCEPT ![p] = 0]
  /\ dangling' = (dangling \/ freed)
  /\ UNCHANGED <<freed, child, lent>>

Spawned ==
  /\ pc[Owner] = "spawn"
  /\ rc' = reg[Owner] + 1
  /\ held' = [held EXCEPT ![child] = 1]
  /\ pc' = [pc EXCEPT ![Owner] = "run", ![child] = "run"]
  /\ reg' = [reg EXCEPT ![Owner] = 0] /\ child' = Owner
  /\ dangling' = (dangling \/ freed)
  /\ UNCHANGED <<freed, lent>>

(* Mutant: the object is freed when the count drops below zero.            *)
ReleasedLate(p) ==
  /\ pc[p] = "release"
  /\ rc' = reg[p] - 1
  /\ freed' = (freed \/ reg[p] = 0)
  /\ held' = [held EXCEPT ![p] = @ - 1]
  /\ pc' = [pc EXCEPT ![p] = "run"] /\ reg' = [reg EXCEPT ![p] = 0]
  /\ dangling' = (dangling \/ freed)
  /\ UNCHANGED <<child, lent>>

Released(p) ==
  /\ pc[p] = "release"
  /\ rc' = reg[p] - 1
  /\ freed' = (freed \/ reg[p] = 1)
  /\ held' = [held EXCEPT ![p] = @ - 1]
  /\ pc' = [pc EXCEPT ![p] = "run"] /\ reg' = [reg EXCEPT ![p] = 0]
  /\ dangling' = (dangling \/ freed)
  /\ UNCHANGED <<child, lent>>

(* The owner syncs a thread that has dropped whatever it held.             *)
Join(w) ==
  /\ pc[Owner] = "run" /\ pc[w] = "run" /\ held[w] = 0
  /\ pc' = [pc EXCEPT ![w] = "joined"]
  /\ lent' = lent \ {w}
  /\ UNCHANGED <<rc, freed, reg, child, held, dangling>>

Finished == /\ \A p \in Parties : pc[p] \in {"run", "unborn", "joined"} /\ held[p] = 0
            /\ \A w \in Workers : pc[w] # "run"
            /\ UNCHANGED vars

Next == \/ \E p \in Parties : Copy(p) \/ Drop(p) \/ Retained(p) \/ Released(p)
        \/ (\E w \in Workers : Spawn(w) \/ Lend(w) \/ Join(w)) \/ Spawned \/ Finished

Spec == Init /\ [][Next]_vars

(* Programs that spawn methods of such structures too.                     *)
MethodSpec == Init /\ [][Next \/ \E w \in Workers : SpawnSelf(w)]_vars

--------------------------------------------------------------------------------
(* The last reference that goes takes the object with it, and no other:    *)
(* nobody holds a freed object, uses it, or frees it again.                *)
FreedWithLast == ~dangling /\ (freed <=> \A p \in Parties : held[p] = 0)

================================================================================
