------------------------------ MODULE ThreadState ------------------------------
(***************************************************************************)
(* The compile-time state the type checker keeps for a variable that may   *)
(* hold a spawned thread, the transitions of that state, and what the      *)
(* checker accepts in each state.  The state is a field of the symbol, so  *)
(* it follows the order in which statements are CHECKED: once each, in     *)
(* source order, whatever branch or loop they stand in.                    *)
(***************************************************************************)

States == {"NORMAL", "PENDING", "SYNCHRONIZED", "DETACHED"}

(* Mutants: a transition nobody takes.                                     *)
NeverPending(s)  == s
NeverDetached(s) == s

(* Each transition is taken from one state only; in any other state the    *)
(* symbol keeps the state it has.                                          *)
MarkPending(s)      == IF s = "NORMAL"  THEN "PENDING"      ELSE s
MarkSynchronized(s) == IF s = "PENDING" THEN "SYNCHRONIZED" ELSE s
MarkDetached(s)     == IF s = "PENDING" THEN "DETACHED"     ELSE s

CanRead(s)       == s # "PENDING"
CanAssign(s)     == s # "PENDING"
CanSync(s)       == s # "DETACHED"   \* r!: conditional spawns make NORMAL legal
CanSyncInList(s) == s # "NORMAL"     \* [r, ...]!
CanDetach(s)     == s = "PENDING"

================================================================================
