------------------------------- MODULE SyncLock --------------------------------
(***************************************************************************)
(* sync variables and lock blocks.  A sync variable is an _Atomic C        *)
(* variable with a mutex of its own; x++ and x-- take the mutex, lock(x)   *)
(* => ... holds it around a block, and every other use of x is a single    *)
(* atomic load or store.                                                   *)
(*                                                                         *)
(* A process is a thread running a function the compiler accepted.  The    *)
(* code generator keeps a stack of the lock blocks it is inside, of at     *)
(* most MaxLockDepth names, from which a return statement takes the        *)
(* mutexes it unlocks; emitted[p] is that stack at the statement p is at.  *)
(* Every update adds one.                                                  *)
(***************************************************************************)
EXTENDS Integers, SequencesExt

CONSTANTS
  Procs,
  NumVars,        \* the sync variables are 1..NumVars; blocks nest upwards,
                  \* the order a program must keep for its own sake
  None,
  MaxLockDepth,   \* MAX_LOCK_DEPTH
  MaxOps,         \* statements a process executes: bounds programs
  Kinds           \* kinds of statement the programs contain

SyncVars == 1..NumVars
AllKinds == {"increment", "return", "update outside", "increment inside"}

ASSUME SizeAssumption == NumVars \in Nat \ {0} /\ MaxLockDepth \in Nat /\ MaxOps \in Nat
ASSUME KindAssumption == Kinds \subseteq AllKinds
ASSUME NoneAssumption == None \notin Procs

VARIABLES
  val,        \* the variable
  mutex,      \* its mutex: the holder or None
  pc, at,     \* where p is, and the variable its statement is about
  reg,        \* what p loaded
  blocks,     \* lock blocks p is inside, outermost first
  emitted,    \* the code generator's stack at the statement p is at
  ops,        \* statements p has begun
  \* history
  updates,    \* completed updates
  expected,   \* the value the source says p's statement is to deliver
  misread,    \* processes to which a statement delivered another value
  badUnlock   \* a mutex was unlocked that the process did not hold

vars == <<val, mutex, pc, at, reg, blocks, emitted, ops, updates, expected, misread, badUnlock>>

Init ==
  /\ val = [x \in SyncVars |-> 0] /\ updates = [x \in SyncVars |-> 0]
  /\ mutex = [x \in SyncVars |-> None]
  /\ pc = [p \in Procs |-> "run"] /\ at = [p \in Procs |-> 1]
  /\ reg = [p \in Procs |-> 0]
  /\ blocks = [p \in Procs |-> <<>>] /\ emitted = [p \in Procs |-> <<>>]
  /\ ops = [p \in Procs |-> 0]
  /\ expected = [p \in Procs |-> 0] /\ misread = {}
  /\ badUnlock = FALSE

--------------------------------------------------------------------------------
Goto(p, label) == pc' = [pc EXCEPT ![p] = label]

Begin(p, x, label) ==
  /\ pc[p] = "run" /\ ops[p] < MaxOps
  /\ Goto(p, label)
  /\ at' = [at EXCEPT ![p] = x]
  /\ ops' = [ops EXCEPT ![p] = @ + 1]

(* pthread_mutex_lock on a default mutex: waits for it, forever when the   *)
(* caller is the holder.                                                   *)
Acquire(p) ==
  /\ mutex[at[p]] = None
  /\ mutex' = [mutex EXCEPT ![at[p]] = p]

(* pthread_mutex_unlock of all of S.                                       *)
Unlock(p, S) ==
  /\ mutex' = [x \in SyncVars |-> IF x \in S THEN None ELSE mutex[x]]
  /\ badUnlock' = (badUnlock \/ \E x \in S : mutex[x] # p)

Ordered(p, x) == \A y \in ToSet(blocks[p]) : y < x

--------------------------------------------------------------------------------
(***************************************************************************)
(* x++, as a statement expression: lock, add, unlock, then x is read for   *)
(* its value.                                                              *)
(***************************************************************************)
Increment(p, x) ==
  /\ "increment" \in Kinds
  /\ Ordered(p, x) \/ ("increment inside" \in Kinds /\ x \in ToSet(blocks[p]))
  /\ Begin(p, x, "inc lock")
  /\ UNCHANGED <<val, mutex, reg, blocks, emitted, updates, expected, misread, badUnlock>>

(* Mutant: ++ is generated without its mutex.                              *)
IncLockFree(p) ==
  /\ pc[p] = "inc lock"
  /\ Goto(p, "inc add")
  /\ UNCHANGED <<val, mutex, at, reg, blocks, emitted, ops, updates, expected, misread, badUnlock>>

IncLock(p) ==
  /\ pc[p] = "inc lock"
  /\ Acquire(p)
  /\ Goto(p, "inc add")
  /\ UNCHANGED <<val, at, reg, blocks, emitted, ops, updates, expected, misread, badUnlock>>

IncAdd(p) ==
  /\ pc[p] = "inc add"
  /\ val' = [val EXCEPT ![at[p]] = @ + 1]
  /\ updates' = [updates EXCEPT ![at[p]] = @ + 1]
  /\ expected' = [expected EXCEPT ![p] = val[at[p]] + 1]
  /\ Goto(p, "inc unlock")
  /\ UNCHANGED <<mutex, at, reg, blocks, emitted, ops, misread, badUnlock>>

(* Mutant: ++ does not give the mutex back.                                *)
IncKeepsLock(p) ==
  /\ pc[p] = "inc unlock"
  /\ Goto(p, "read")
  /\ UNCHANGED <<val, mutex, at, reg, blocks, emitted, ops, updates, expected, misread, badUnlock>>

IncUnlock(p) ==
  /\ pc[p] = "inc unlock"
  /\ Unlock(p, {at[p]})
  /\ Goto(p, "read")
  /\ UNCHANGED <<val, at, reg, blocks, emitted, ops, updates, expected, misread>>

(* The value of x++, and of `return x', is loaded here.                    *)
Read(p) ==
  /\ pc[p] = "read"
  /\ misread' = IF val[at[p]] = expected[p] THEN misread ELSE misread \cup {p}
  /\ expected' = [expected EXCEPT ![p] = 0]
  /\ Goto(p, "run")
  /\ UNCHANGED <<val, mutex, at, reg, blocks, emitted, ops, updates, badUnlock>>

--------------------------------------------------------------------------------
(***************************************************************************)
(* x = x + 1 in a block on x; x += 1, which is generated as the same load  *)
(* and store, also outside.                                                *)
(***************************************************************************)
UpdateLoad(p, x) ==
  /\ x \in ToSet(blocks[p]) \/ "update outside" \in Kinds
  /\ Begin(p, x, "store")
  /\ reg' = [reg EXCEPT ![p] = val[x]]
  /\ UNCHANGED <<val, mutex, blocks, emitted, updates, expected, misread, badUnlock>>

UpdateStore(p) ==
  /\ pc[p] = "store"
  /\ val' = [val EXCEPT ![at[p]] = reg[p] + 1]
  /\ updates' = [updates EXCEPT ![at[p]] = @ + 1]
  /\ reg' = [reg EXCEPT ![p] = 0]
  /\ Goto(p, "run")
  /\ UNCHANGED <<mutex, at, blocks, emitted, ops, expected, misread, badUnlock>>

--------------------------------------------------------------------------------
(***************************************************************************)
(* lock(x) => body                                                         *)
(***************************************************************************)
LockBlock(p, x) ==
  /\ Ordered(p, x)
  /\ Begin(p, x, "lock")
  /\ UNCHANGED <<val, mutex, reg, blocks, emitted, updates, expected, misread, badUnlock>>

(* Mutant: the block is generated without the lock call in front of it.    *)
LockEnterFree(p) ==
  /\ pc[p] = "lock"
  /\ blocks' = [blocks EXCEPT ![p] = Append(@, at[p])]
  /\ emitted' = [emitted EXCEPT ![p] =
                   IF Len(@) < MaxLockDepth THEN Append(@, at[p]) ELSE @]
  /\ Goto(p, "run")
  /\ UNCHANGED <<val, mutex, at, reg, ops, updates, expected, misread, badUnlock>>

LockEnter(p) ==
  /\ pc[p] = "lock"
  /\ Acquire(p)
  /\ blocks' = [blocks EXCEPT ![p] = Append(@, at[p])]
  /\ emitted' = [emitted EXCEPT ![p] =
                   IF Len(@) < MaxLockDepth THEN Append(@, at[p]) ELSE @]
  /\ Goto(p, "run")
  /\ UNCHANGED <<val, at, reg, ops, updates, expected, misread, badUnlock>>

PopBlock(p) ==
  /\ blocks' = [blocks EXCEPT ![p] = Front(@)]
  /\ emitted' = [emitted EXCEPT ![p] = IF @ = <<>> THEN @ ELSE Front(@)]

LockLeave(p) ==
  /\ pc[p] = "run" /\ blocks[p] # <<>>
  /\ Unlock(p, {Last(blocks[p])})
  /\ PopBlock(p)
  /\ UNCHANGED <<val, pc, at, reg, ops, updates, expected, misread>>

(* break or continue of a loop around the innermost block.                 *)
BreakOut(p) ==
  /\ pc[p] = "run" /\ blocks[p] # <<>>
  /\ PopBlock(p)
  /\ UNCHANGED <<val, mutex, pc, at, reg, ops, updates, expected, misread, badUnlock>>

(* Mutant: a return unlocks nothing.                                       *)
ReturnKeepsLocks(p) ==
  /\ "return" \in Kinds
  /\ pc[p] = "run" /\ blocks[p] # <<>>
  /\ at' = [at EXCEPT ![p] = Last(blocks[p])]
  /\ expected' = [expected EXCEPT ![p] = val[Last(blocks[p])]]
  /\ blocks' = [blocks EXCEPT ![p] = <<>>] /\ emitted' = [emitted EXCEPT ![p] = <<>>]
  /\ Goto(p, "read")
  /\ UNCHANGED <<val, mutex, reg, ops, updates, misread, badUnlock>>

(* return x inside a block on x: the unlocks of every enclosing block come *)
(* first, the value of x is loaded after them.                             *)
ReturnFrom(p) ==
  /\ "return" \in Kinds
  /\ pc[p] = "run" /\ blocks[p] # <<>>
  /\ at' = [at EXCEPT ![p] = Last(blocks[p])]
  /\ expected' = [expected EXCEPT ![p] = val[Last(blocks[p])]]
  /\ Unlock(p, ToSet(emitted[p]))
  /\ blocks' = [blocks EXCEPT ![p] = <<>>] /\ emitted' = [emitted EXCEPT ![p] = <<>>]
  /\ Goto(p, "read")
  /\ UNCHANGED <<val, reg, ops, updates, misread>>

(* A lambda written in the block returns: its return statement was         *)
(* generated with the stack of the block around it.                        *)
LambdaReturn(p) ==
  /\ blocks[p] # <<>>
  /\ Begin(p, at[p], "run")
  /\ Unlock(p, ToSet(emitted[p]))
  /\ UNCHANGED <<val, reg, blocks, emitted, updates, expected, misread>>

--------------------------------------------------------------------------------
(* Steps that carry on with a statement or close a block.                  *)
Continue(p) ==
  \/ IncLock(p) \/ IncAdd(p) \/ IncUnlock(p) \/ Read(p) \/ UpdateStore(p)
  \/ LockEnter(p) \/ LockLeave(p)

BeginStatement(p) ==
  \/ \E x \in SyncVars : Increment(p, x) \/ UpdateLoad(p, x) \/ LockBlock(p, x)
  \/ ReturnFrom(p)

Finished == /\ \A p \in Procs : pc[p] = "run" /\ blocks[p] = <<>>
            /\ UNCHANGED vars

Next == (\E p \in Procs : BeginStatement(p) \/ Continue(p)) \/ Finished

Spec == Init /\ [][Next]_vars

(* Programs that also leave blocks by break, or return from a lambda       *)
(* written in one.                                                         *)
BreakNext  == Next \/ \E p \in Procs : BreakOut(p)
BreakSpec  == Init /\ [][BreakNext]_vars
LambdaNext == Next \/ \E p \in Procs : LambdaReturn(p)
LambdaSpec == Init /\ [][LambdaNext]_vars

(* The scheduler runs every thread, and a block's statements come to an    *)
(* end; the finite number of statements keeps waiting for a mutex finite.  *)
FairSpec == Spec /\ \A p \in Procs : WF_vars(Continue(p))

--------------------------------------------------------------------------------
TypeOK ==
  /\ val \in [SyncVars -> Nat] /\ updates \in [SyncVars -> Nat]
  /\ mutex \in [SyncVars -> Procs \cup {None}]
  /\ pc \in [Procs -> {"run", "inc lock", "inc add", "inc unlock", "read", "store", "lock"}]
  /\ at \in [Procs -> SyncVars]
  /\ reg \in [Procs -> Nat]
  /\ blocks \in [Procs -> Seq(SyncVars)] /\ emitted \in [Procs -> Seq(SyncVars)]
  /\ ops \in [Procs -> 0..MaxOps]
  /\ expected \in [Procs -> Nat] /\ misread \subseteq Procs
  /\ badUnlock \in BOOLEAN

Incrementing(p, x) == at[p] = x /\ pc[p] \in {"inc add", "inc unlock"}

(* At most one thread executes the code of the blocks on one variable.     *)
MutualExclusion ==
  \A p, q \in Procs : p # q => ToSet(blocks[p]) \cap ToSet(blocks[q]) = {}

(* A mutex is held exactly while its holder is in a block on the variable  *)
(* or in the middle of an increment: no way out of a block, return or fall *)
(* through, leaves one held, and none is released early.                   *)
HeldExactly ==
  \A x \in SyncVars, p \in Procs :
    mutex[x] = p <=> x \in ToSet(blocks[p]) \/ Incrementing(p, x)

(* No update of a sync variable is lost, whether made by ++ or in a block. *)
NoLostUpdate == \A x \in SyncVars : val[x] = updates[x]

(* No thread waits for a mutex it holds itself.                            *)
NoSelfWait ==
  \A p \in Procs : pc[p] \in {"inc lock", "lock"} => mutex[at[p]] # p

(* The value delivered by x++ or by `return x' in a block on x is the one  *)
(* the thread itself left in x.                                            *)
DeliversOwnValue == misread = {}

(* A thread that waits at a lock block or an increment gets the mutex.     *)
LockGranted ==
  \A p \in Procs : pc[p] \in {"inc lock", "lock"} ~> pc[p] \notin {"inc lock", "lock"}

================================================================================
