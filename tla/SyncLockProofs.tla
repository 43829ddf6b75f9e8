---------------------------- MODULE SyncLockProofs -----------------------------
(***************************************************************************)
(* Locks, for any number of threads and variables and any depth of the     *)
(* code generator's stack.                                                 *)
(*                                                                         *)
(* Blocks are opened in the order of the variables, so a stack of blocks   *)
(* is increasing; that is why no block is opened twice, why what is left   *)
(* after closing the innermost one no longer contains its variable, and    *)
(* why a stack never holds more than NumVars blocks.                       *)
(***************************************************************************)
EXTENDS SyncLock, SequenceFacts, FiniteSetTheorems

Increasing(s) == \A i, j \in 1..Len(s) : i < j => s[i] < s[j]

(* Opening a block on a later variable keeps the stack increasing.         *)
LEMMA PushIncreasing ==
  ASSUME NEW s \in Seq(SyncVars), Increasing(s),
         NEW x \in SyncVars, \A y \in ToSet(s) : y < x
  PROVE  /\ Append(s, x) \in Seq(SyncVars)
         /\ Increasing(Append(s, x))
         /\ ToSet(Append(s, x)) = ToSet(s) \cup {x}
<1> DEFINE t == Append(s, x)
<1>1. /\ t \in Seq(SyncVars) /\ Len(t) = Len(s) + 1 /\ Len(s) \in Nat
      /\ \A i \in 1..Len(s) : t[i] = s[i]
      /\ t[Len(s) + 1] = x
  BY AppendProperties, LenProperties
<1>2. \A i \in 1..Len(s) : s[i] \in ToSet(s)
  BY ToSetByIndex
<1>3. \A i \in 1..Len(t) : i \in 1..Len(s) \/ i = Len(s) + 1
  BY <1>1
<1> HIDE DEF t
<1>4. Increasing(t)
  <2> SUFFICES ASSUME NEW i \in 1..Len(t), NEW j \in 1..Len(t), i < j
               PROVE  t[i] < t[j]
    BY DEF Increasing
  <2>1. i \in 1..Len(s) /\ t[i] = s[i]
    BY <1>1
  <2>2. CASE j \in 1..Len(s)
    BY <2>1, <2>2, <1>1 DEF Increasing
  <2>3. CASE j = Len(s) + 1
    BY <2>1, <2>3, <1>1, <1>2
  <2> QED
    BY <1>3, <2>2, <2>3
<1> QED
  BY <1>1, <1>4, ToSetAppend DEF t

(* Closing the innermost block removes its variable, the greatest one.     *)
LEMMA PopIncreasing ==
  ASSUME NEW s \in Seq(SyncVars), Increasing(s), s # <<>>
  PROVE  /\ Front(s) \in Seq(SyncVars)
         /\ Increasing(Front(s))
         /\ Last(s) \in ToSet(s) /\ Last(s) \in SyncVars
         /\ \A y \in ToSet(s) : y <= Last(s)
         /\ ToSet(Front(s)) = ToSet(s) \ {Last(s)}
<1>1. /\ Front(s) \in Seq(SyncVars) /\ Len(Front(s)) = Len(s) - 1
      /\ \A i \in 1..Len(s) - 1 : Front(s)[i] = s[i]
      /\ Last(s) \in SyncVars
      /\ ToSet(s) = ToSet(Front(s)) \cup {Last(s)}
  BY FrontProperties
<1>2. Len(s) \in Nat \ {0} /\ \A i \in 1..Len(s) : s[i] \in SyncVars
  BY EmptySeq, ElementOfSeq
<1>3. Increasing(Front(s))
  BY <1>1, <1>2 DEF Increasing
<1>4. ToSet(Front(s)) = {Front(s)[i] : i \in 1..Len(Front(s))}
  BY <1>1, ToSetByIndex
<1>5. \A y \in ToSet(Front(s)) : y < Last(s)
  <2> SUFFICES ASSUME NEW i \in 1..Len(s) - 1 PROVE s[i] < s[Len(s)]
    BY <1>1, <1>4 DEF Last
  <2> QED
    BY <1>2 DEF Increasing
<1>6. Last(s) \notin ToSet(Front(s))
  BY <1>1, <1>5 DEF SyncVars
<1>7. ToSet(Front(s)) \subseteq SyncVars
  BY <1>1, ToSetByIndex
<1>8. \A y \in ToSet(s) : y <= Last(s)
  BY <1>1, <1>5, <1>7 DEF SyncVars
<1> QED
  BY <1>1, <1>3, <1>6, <1>8

(* An increasing stack has room for every variable once.                   *)
LEMMA IncreasingLength ==
  ASSUME NEW s \in Seq(SyncVars), Increasing(s)
  PROVE  Len(s) <= NumVars
<1>1. s \in [1..Len(s) -> SyncVars] /\ Len(s) \in Nat
  BY LenProperties
<1>2. IsInjective(s)
  <2> SUFFICES ASSUME NEW i \in 1..Len(s), NEW j \in 1..Len(s), i # j PROVE s[i] # s[j]
    BY <1>1 DEF IsInjective
  <2>1. i < j \/ j < i
    BY <1>1
  <2>2. s[i] \in SyncVars /\ s[j] \in SyncVars
    BY <1>1
  <2> QED
    BY <2>1, <2>2 DEF Increasing, SyncVars
<1>3. s \in Injection(1..Len(s), SyncVars)
  BY <1>1, <1>2 DEF Injection
<1>4. /\ IsFiniteSet(1..NumVars) /\ Cardinality(1..NumVars) = NumVars
      /\ Cardinality(1..Len(s)) = Len(s)
  <2>1. \A n \in Nat : IsFiniteSet(1..n) /\ Cardinality(1..n) = IF 1 > n THEN 0 ELSE n - 1 + 1
    BY FS_Interval
  <2>2. \A n \in Nat : (IF 1 > n THEN 0 ELSE n - 1 + 1) = n
    OBVIOUS
  <2> QED
    BY <1>1, <2>1, <2>2, SizeAssumption
<1> QED
  BY <1>3, <1>4, FS_Injection DEF SyncVars

--------------------------------------------------------------------------------
(***************************************************************************)
(* The invariant.  Whoever is in a block on x, or in the middle of an      *)
(* increment of x, holds the mutex of x; what a return statement unlocks   *)
(* are mutexes of blocks around it.  It holds of programs with break, too: *)
(* there mutexes stay held that nobody's block stands for, which excludes  *)
(* others all the more.                                                    *)
(***************************************************************************)
Stacks ==
  \A p \in Procs :
    /\ Increasing(blocks[p]) /\ Increasing(emitted[p])
    /\ ToSet(emitted[p]) \subseteq ToSet(blocks[p])

Holding ==
  \A p \in Procs, x \in SyncVars :
    /\ x \in ToSet(blocks[p]) => mutex[x] = p
    /\ Incrementing(p, x) => mutex[x] = p /\ x \notin ToSet(blocks[p])

InOrder == \A p \in Procs : pc[p] = "lock" => Ordered(p, at[p])

LockInv == TypeOK /\ Stacks /\ Holding /\ InOrder

(* Nothing is locked at the start.                                         *)
LEMMA InitLockInv ==
  ASSUME Init
  PROVE  LockInv
<1> USE DEF Init
<1>1. TypeOK
  <2>1. 1 \in SyncVars
    BY SizeAssumption DEF SyncVars
  <2>2. <<>> \in Seq(SyncVars) /\ 0 \in Nat /\ 0 \in 0..MaxOps
    BY EmptySeq, SizeAssumption
  <2>3. at \in [Procs -> SyncVars]
    BY <2>1
  <2>4. blocks \in [Procs -> Seq(SyncVars)] /\ emitted \in [Procs -> Seq(SyncVars)]
    BY <2>2, Zenon
  <2> QED
    BY <2>2, <2>3, <2>4 DEF TypeOK
<1>2. \A p \in Procs : ToSet(blocks[p]) = {} /\ ToSet(emitted[p]) = {}
  BY ToSetEmpty
<1>3. Increasing(<<>>)
  BY EmptySeq DEF Increasing
<1> QED
  BY <1>1, <1>2, <1>3 DEF LockInv, Stacks, Holding, InOrder, Incrementing

--------------------------------------------------------------------------------
(* A statement is begun only while the bound allows.                       *)
LEMMA OneMore == \A n \in 0..MaxOps : n < MaxOps => n + 1 \in 0..MaxOps
BY SizeAssumption

(* Steps that touch neither a mutex nor a stack of blocks.                 *)
LEMMA QuietLockInv ==
  ASSUME LockInv, NEW p \in Procs,
         \/ \E x \in SyncVars : Increment(p, x) \/ UpdateLoad(p, x) \/ LockBlock(p, x)
         \/ IncAdd(p) \/ Read(p) \/ UpdateStore(p)
  PROVE  LockInv'
<1>1. UNCHANGED <<mutex, blocks, emitted>>
  BY DEF Increment, UpdateLoad, LockBlock, IncAdd, Read, UpdateStore
<1>2. ASSUME NEW x \in SyncVars, Increment(p, x) \/ UpdateLoad(p, x) \/ LockBlock(p, x)
      PROVE  /\ TypeOK'
             /\ \A q \in Procs, y \in SyncVars : Incrementing(q, y)' => Incrementing(q, y)
             /\ InOrder'
  <2>1. PICK label \in {"inc lock", "store", "lock"} :
          Begin(p, x, label) /\ (label = "lock" => Ordered(p, x))
    BY <1>2 DEF Increment, UpdateLoad, LockBlock
  <2>2. TypeOK'
    <3>1. reg' \in [Procs -> Nat]
      BY <1>2 DEF LockInv, TypeOK, Increment, UpdateLoad, LockBlock
    <3>2. ops' \in [Procs -> 0..MaxOps]
      <4>1. ops[p] + 1 \in 0..MaxOps
        <5>1. ops[p] \in 0..MaxOps /\ ops[p] < MaxOps
          BY <2>1 DEF LockInv, TypeOK, Begin
        <5> QED
          BY <5>1, OneMore
      <4> QED
        BY <2>1, <4>1 DEF LockInv, TypeOK, Begin
    <3>3. UNCHANGED <<val, updates, expected, misread, badUnlock>>
      BY <1>2 DEF Increment, UpdateLoad, LockBlock
    <3> QED
      BY <1>1, <2>1, <3>1, <3>2, <3>3 DEF LockInv, TypeOK, Begin, Goto
  <2>3. \A q \in Procs, y \in SyncVars : Incrementing(q, y)' => Incrementing(q, y)
    BY <2>1 DEF LockInv, TypeOK, Incrementing, Begin, Goto
  <2>4. InOrder'
    BY <1>1, <2>1 DEF LockInv, TypeOK, Begin, Goto, InOrder, Ordered
  <2> QED
    BY <2>2, <2>3, <2>4
<1>3. ASSUME IncAdd(p) \/ Read(p) \/ UpdateStore(p)
      PROVE  /\ TypeOK'
             /\ \A q \in Procs, y \in SyncVars : Incrementing(q, y)' => Incrementing(q, y)
             /\ InOrder'
  <2>1. TypeOK'
    <3>1. CASE IncAdd(p)
      <4>1. at[p] \in SyncVars /\ val[at[p]] + 1 \in Nat /\ updates[at[p]] + 1 \in Nat /\ reg[p] + 1 \in Nat
        <5>1. at[p] \in SyncVars /\ val[at[p]] \in Nat /\ updates[at[p]] \in Nat /\ reg[p] \in Nat
          BY <1>3 DEF LockInv, TypeOK
        <5> QED
          BY <5>1
      <4>2. val' \in [SyncVars -> Nat] /\ updates' \in [SyncVars -> Nat] /\ expected' \in [Procs -> Nat]
        BY <3>1, <4>1 DEF LockInv, TypeOK, IncAdd
      <4> QED
        BY <3>1, <4>2 DEF LockInv, TypeOK, IncAdd, Goto
    <3>2. CASE Read(p)
      BY <3>2 DEF LockInv, TypeOK, Read, Goto
    <3>3. CASE UpdateStore(p)
      <4>1. at[p] \in SyncVars /\ val[at[p]] + 1 \in Nat /\ updates[at[p]] + 1 \in Nat /\ reg[p] + 1 \in Nat
        <5>1. at[p] \in SyncVars /\ val[at[p]] \in Nat /\ updates[at[p]] \in Nat /\ reg[p] \in Nat
          BY <1>3 DEF LockInv, TypeOK
        <5> QED
          BY <5>1
      <4>2. val' \in [SyncVars -> Nat] /\ updates' \in [SyncVars -> Nat] /\ reg' \in [Procs -> Nat]
        BY <3>3, <4>1 DEF LockInv, TypeOK, UpdateStore
      <4> QED
        BY <3>3, <4>2 DEF LockInv, TypeOK, UpdateStore, Goto
    <3> QED
      BY <1>3, <3>1, <3>2, <3>3
  <2>2. /\ UNCHANGED at
        /\ \/ pc[p] = "inc add" /\ pc' = [pc EXCEPT ![p] = "inc unlock"]
           \/ pc' = [pc EXCEPT ![p] = "run"]
    BY <1>3 DEF IncAdd, Read, UpdateStore, Goto
  <2>3. \A q \in Procs, y \in SyncVars : Incrementing(q, y)' => Incrementing(q, y)
    BY <2>2 DEF LockInv, TypeOK, Incrementing
  <2>4. InOrder'
    BY <1>1, <2>2 DEF LockInv, TypeOK, InOrder, Ordered
  <2> QED
    BY <2>1, <2>3, <2>4
<1>4. Stacks' /\ Holding'
  BY <1>1, <1>2, <1>3 DEF LockInv, Stacks, Holding
<1> QED
  BY <1>2, <1>3, <1>4 DEF LockInv

(* ++ takes a mutex nobody holds: its thread is in no block on the         *)
(* variable.                                                               *)
LEMMA IncLockLockInv ==
  ASSUME LockInv, NEW p \in Procs, IncLock(p) PROVE LockInv'
<1> USE NoneAssumption DEF LockInv, IncLock, Acquire, Goto
<1>1. TypeOK'
  BY DEF TypeOK
<1>2. Stacks' /\ InOrder'
  BY DEF TypeOK, Stacks, InOrder, Ordered
<1>3. at[p] \in SyncVars /\ \A q \in Procs : mutex[at[p]] # q
  BY DEF TypeOK
<1>4. Holding'
  <2> SUFFICES ASSUME NEW q \in Procs, NEW y \in SyncVars
               PROVE  /\ y \in ToSet(blocks[q]) => mutex'[y] = q
                      /\ Incrementing(q, y)' => mutex'[y] = q /\ y \notin ToSet(blocks[q])
    BY DEF Holding
  <2>1. mutex'[y] = IF y = at[p] THEN p ELSE mutex[y]
    BY DEF TypeOK
  <2>2. y = at[p] => y \notin ToSet(blocks[q]) /\ ~Incrementing(q, y)
    <3>1. mutex[at[p]] # q /\ at[p] \in SyncVars
      BY <1>3
    <3>2. /\ at[p] \in ToSet(blocks[q]) => mutex[at[p]] = q
          /\ Incrementing(q, at[p]) => mutex[at[p]] = q
      BY <1>3 DEF Holding
    <3> QED
      BY <3>1, <3>2
  <2>3. Incrementing(q, y)' => Incrementing(q, y) \/ (q = p /\ y = at[p])
    BY DEF TypeOK, Incrementing
  <2> QED
    BY <2>1, <2>2, <2>3 DEF Holding
<1> QED
  BY <1>1, <1>2, <1>4

(* It gives back the mutex it took, which no block of its thread needs.    *)
LEMMA IncUnlockLockInv ==
  ASSUME LockInv, NEW p \in Procs, IncUnlock(p) PROVE LockInv'
<1> USE NoneAssumption DEF LockInv, IncUnlock, Unlock, Goto
<1>1. TypeOK'
  BY DEF TypeOK
<1>2. Stacks' /\ InOrder'
  BY DEF TypeOK, Stacks, InOrder, Ordered
<1>3. Incrementing(p, at[p])
  BY DEF Incrementing
<1>4. Holding'
  BY <1>3 DEF TypeOK, Holding, Incrementing
<1> QED
  BY <1>1, <1>2, <1>4

(* Entering a block, whether or not the generator's stack has room.        *)
LEMMA LockEnterLockInv ==
  ASSUME LockInv, NEW p \in Procs, LockEnter(p) PROVE LockInv'
<1> USE NoneAssumption DEF LockInv, LockEnter, Acquire, Goto
<1> DEFINE x == at[p]
<1>1. x \in SyncVars /\ blocks[p] \in Seq(SyncVars) /\ emitted[p] \in Seq(SyncVars)
  BY DEF TypeOK
<1>2. \A y \in ToSet(blocks[p]) : y < x
  BY DEF InOrder, Ordered
<1>3. /\ Append(blocks[p], x) \in Seq(SyncVars)
      /\ Increasing(Append(blocks[p], x))
      /\ ToSet(Append(blocks[p], x)) = ToSet(blocks[p]) \cup {x}
  BY <1>1, <1>2, PushIncreasing DEF Stacks
<1>4. /\ Append(emitted[p], x) \in Seq(SyncVars)
      /\ Increasing(Append(emitted[p], x))
      /\ ToSet(Append(emitted[p], x)) = ToSet(emitted[p]) \cup {x}
  BY <1>1, <1>2, PushIncreasing DEF Stacks
<1>5. /\ blocks' = [blocks EXCEPT ![p] = Append(blocks[p], x)]
      /\ \/ emitted' = [emitted EXCEPT ![p] = Append(emitted[p], x)]
         \/ emitted' = [emitted EXCEPT ![p] = emitted[p]]
  OBVIOUS
<1>6. /\ mutex[x] = None /\ mutex' = [mutex EXCEPT ![x] = p] /\ UNCHANGED at
      /\ pc[p] = "lock" /\ pc' = [pc EXCEPT ![p] = "run"]
  OBVIOUS
<1> USE <1>5, <1>6
<1> HIDE DEF LockEnter, x
<1>7. TypeOK'
  <2>1. blocks' \in [Procs -> Seq(SyncVars)]
    BY <1>3 DEF TypeOK
  <2>2. emitted' \in [Procs -> Seq(SyncVars)]
    <3>1. CASE emitted' = [emitted EXCEPT ![p] = Append(emitted[p], x)]
      BY <3>1, <1>4 DEF TypeOK
    <3>2. CASE emitted' = [emitted EXCEPT ![p] = emitted[p]]
      BY <3>2, <1>1 DEF TypeOK
    <3> QED
      BY <3>1, <3>2
  <2>3. UNCHANGED <<val, at, reg, ops, updates, expected, misread, badUnlock>>
    BY DEF LockEnter
  <2>4. mutex' \in [SyncVars -> Procs \cup {None}]
    BY <1>1 DEF TypeOK
  <2> QED
    BY <2>1, <2>2, <2>3, <2>4 DEF TypeOK
<1>8. Stacks'
  <2> SUFFICES ASSUME NEW q \in Procs
               PROVE  /\ Increasing(blocks'[q]) /\ Increasing(emitted'[q])
                      /\ ToSet(emitted'[q]) \subseteq ToSet(blocks'[q])
    BY DEF Stacks, Increasing
  <2>1. CASE q # p
    BY <2>1 DEF TypeOK, Stacks
  <2>2. CASE q = p
    BY <2>2, <1>3, <1>4 DEF TypeOK, Stacks
  <2> QED
    BY <2>1, <2>2
<1>9. Holding'
  <2> SUFFICES ASSUME NEW q \in Procs, NEW y \in SyncVars
               PROVE  /\ y \in ToSet(blocks'[q]) => mutex'[y] = q
                      /\ Incrementing(q, y)' => mutex'[y] = q /\ y \notin ToSet(blocks'[q])
    BY DEF Holding
  <2>1. Incrementing(q, y)' => Incrementing(q, y) /\ q # p
    BY DEF TypeOK, Incrementing
  <2>2. CASE q # p
    BY <2>1, <2>2 DEF TypeOK, Holding
  <2>3. CASE q = p
    BY <2>1, <2>3, <1>1, <1>3 DEF TypeOK, Holding
  <2> QED
    BY <2>2, <2>3
<1>10. InOrder'
  BY DEF TypeOK, InOrder, Ordered
<1> QED
  BY <1>7, <1>8, <1>9, <1>10

(* Leaving a block at its end releases its mutex, break keeps it; in both  *)
(* cases what remains of the generator's stack are blocks still open: if   *)
(* it contains the innermost one at all, that is its last.                 *)
LEMMA PopLockInv ==
  ASSUME LockInv, NEW p \in Procs, LockLeave(p) \/ BreakOut(p) PROVE LockInv'
<1> USE NoneAssumption DEF LockInv
<1> DEFINE b == blocks[p]
           e == emitted[p]
<1>1. /\ b \in Seq(SyncVars) /\ e \in Seq(SyncVars) /\ b # <<>>
      /\ Increasing(b) /\ Increasing(e) /\ ToSet(e) \subseteq ToSet(b)
  BY DEF LockLeave, BreakOut, TypeOK, Stacks
<1>2. /\ blocks' = [blocks EXCEPT ![p] = Front(b)]
      /\ emitted' = [emitted EXCEPT ![p] = IF e = <<>> THEN e ELSE Front(e)]
      /\ pc[p] = "run"
      /\ UNCHANGED <<val, pc, at, reg, ops, updates, expected, misread>>
  BY DEF LockLeave, BreakOut, PopBlock
<1>3. /\ badUnlock' \in BOOLEAN
      /\ \/ mutex' = mutex
         \/ mutex' = [x \in SyncVars |-> IF x = Last(b) THEN None ELSE mutex[x]]
  BY DEF LockLeave, BreakOut, Unlock, TypeOK
<1>4. /\ Front(b) \in Seq(SyncVars) /\ Increasing(Front(b))
      /\ Last(b) \in ToSet(b) /\ Last(b) \in SyncVars
      /\ \A y \in ToSet(b) : y <= Last(b)
      /\ ToSet(Front(b)) = ToSet(b) \ {Last(b)}
  BY <1>1, PopIncreasing
<1>5. e # <<>> => /\ Front(e) \in Seq(SyncVars) /\ Increasing(Front(e))
                  /\ Last(e) \in ToSet(e) /\ Last(e) \in SyncVars
                  /\ \A y \in ToSet(e) : y <= Last(e)
                  /\ ToSet(Front(e)) = ToSet(e) \ {Last(e)}
  BY <1>1, PopIncreasing
<1>6. ToSet(IF e = <<>> THEN e ELSE Front(e)) \subseteq ToSet(Front(b))
  <2>1. CASE e = <<>>
    BY <2>1, ToSetEmpty
  <2>2. CASE e # <<>>
    <3>1. Last(b) \in ToSet(e) => Last(b) = Last(e)
      BY <2>2, <1>1, <1>4, <1>5 DEF SyncVars
    <3> QED
      BY <2>2, <3>1, <1>1, <1>4, <1>5
  <2> QED
    BY <2>1, <2>2
<1> HIDE DEF b, e
<1>7. TypeOK'
  <2>1. blocks' \in [Procs -> Seq(SyncVars)]
    BY <1>2, <1>4 DEF TypeOK
  <2>2. emitted' \in [Procs -> Seq(SyncVars)]
    BY <1>1, <1>2, <1>5 DEF TypeOK
  <2>3. mutex' \in [SyncVars -> Procs \cup {None}]
    BY <1>3 DEF TypeOK
  <2> QED
    BY <2>1, <2>2, <2>3, <1>2, <1>3 DEF TypeOK
<1>8. Stacks'
  <2> SUFFICES ASSUME NEW q \in Procs
               PROVE  /\ Increasing(blocks'[q]) /\ Increasing(emitted'[q])
                      /\ ToSet(emitted'[q]) \subseteq ToSet(blocks'[q])
    BY DEF Stacks, Increasing
  <2>1. CASE q # p
    BY <2>1, <1>2 DEF TypeOK, Stacks
  <2>2. CASE q = p
    <3>1. blocks'[p] = Front(b) /\ emitted'[p] = IF e = <<>> THEN e ELSE Front(e)
      BY <1>2 DEF TypeOK
    <3> QED
      BY <2>2, <3>1, <1>1, <1>4, <1>5, <1>6
  <2> QED
    BY <2>1, <2>2
<1>9. Holding'
  <2> SUFFICES ASSUME NEW q \in Procs, NEW y \in SyncVars
               PROVE  /\ y \in ToSet(blocks'[q]) => mutex'[y] = q
                      /\ Incrementing(q, y)' => mutex'[y] = q /\ y \notin ToSet(blocks'[q])
    BY DEF Holding
  <2>1. Incrementing(q, y)' => Incrementing(q, y) /\ q # p
    BY <1>2 DEF Incrementing
  <2>2. mutex[Last(b)] = p /\ (mutex'[y] = mutex[y] \/ y = Last(b))
    BY <1>3, <1>4 DEF Holding, b
  <2>3. CASE q # p
    BY <2>1, <2>2, <2>3, <1>2 DEF TypeOK, Holding
  <2>4. CASE q = p
    <3>1. blocks'[p] = Front(b)
      BY <1>2 DEF TypeOK
    <3> QED
      BY <3>1, <2>1, <2>2, <2>4, <1>4 DEF Holding, b
  <2> QED
    BY <2>3, <2>4
<1>10. InOrder'
  BY <1>2 DEF TypeOK, InOrder, Ordered
<1> QED
  BY <1>7, <1>8, <1>9, <1>10

(* A return unlocks mutexes of its own thread's blocks only.               *)
LEMMA ReturnLockInv ==
  ASSUME LockInv, NEW p \in Procs, ReturnFrom(p) PROVE LockInv'
<1> USE NoneAssumption DEF LockInv, ReturnFrom, Unlock, Goto
<1>1. blocks[p] \in Seq(SyncVars) /\ Last(blocks[p]) \in SyncVars
  BY FrontProperties DEF TypeOK
<1>2. <<>> \in Seq(SyncVars) /\ Increasing(<<>>) /\ ToSet(<<>>) = {}
  BY EmptySeq, ToSetEmpty DEF Increasing
<1>3. TypeOK'
  <2>1. blocks' \in [Procs -> Seq(SyncVars)] /\ emitted' \in [Procs -> Seq(SyncVars)]
    BY <1>2, Zenon DEF TypeOK
  <2>2. at' \in [Procs -> SyncVars] /\ expected' \in [Procs -> Nat]
    BY <1>1 DEF TypeOK
  <2>3. /\ mutex' \in [SyncVars -> Procs \cup {None}] /\ badUnlock' \in BOOLEAN
        /\ pc' \in [Procs -> {"run", "inc lock", "inc add", "inc unlock", "read", "store", "lock"}]
    BY DEF TypeOK
  <2> QED
    BY <2>1, <2>2, <2>3 DEF TypeOK
<1>4. \A q \in Procs : /\ blocks'[q] = IF q = p THEN <<>> ELSE blocks[q]
                       /\ emitted'[q] = IF q = p THEN <<>> ELSE emitted[q]
  BY Zenon DEF TypeOK
<1>5. Stacks'
  BY <1>2, <1>4 DEF Stacks, Increasing
<1>6. Holding'
  <2> SUFFICES ASSUME NEW q \in Procs, NEW y \in SyncVars
               PROVE  /\ y \in ToSet(blocks'[q]) => mutex'[y] = q
                      /\ Incrementing(q, y)' => mutex'[y] = q /\ y \notin ToSet(blocks'[q])
    BY DEF Holding
  <2>1. Incrementing(q, y)' => Incrementing(q, y) /\ q # p
    BY DEF TypeOK, Incrementing
  <2>2. mutex'[y] = mutex[y] \/ mutex[y] = p
    BY DEF Stacks, Holding
  <2> QED
    BY <2>1, <2>2, <1>2, <1>4 DEF Holding
<1>7. InOrder'
  BY <1>4 DEF TypeOK, InOrder, Ordered
<1> QED
  BY <1>3, <1>5, <1>6, <1>7

(* The invariant holds throughout.                                         *)
THEOREM LockInvariant == BreakSpec => []LockInv
<1>1. ASSUME LockInv, [BreakNext]_vars PROVE LockInv'
  <2>1. CASE UNCHANGED vars
    BY <2>1, <1>1 DEF vars, LockInv, TypeOK, Stacks, Increasing, Holding, InOrder,
      Incrementing, Ordered
  <2>2. CASE Finished
    BY <2>1, <2>2 DEF Finished
  <2>3. ASSUME NEW p \in Procs, BeginStatement(p) \/ Continue(p) \/ BreakOut(p)
        PROVE  LockInv'
    BY <1>1, <2>3, QuietLockInv, IncLockLockInv, IncUnlockLockInv, LockEnterLockInv,
      PopLockInv, ReturnLockInv DEF BeginStatement, Continue
  <2> QED
    BY <1>1, <2>1, <2>2, <2>3 DEF BreakNext, Next
<1> QED
  BY <1>1, InitLockInv, PTL DEF BreakSpec

(* At most one thread executes the code of the blocks on one variable,     *)
(* with break and with more blocks than the generator's stack takes, too.  *)
THEOREM BreakExcludes == BreakSpec => []MutualExclusion
<1>1. ASSUME LockInv PROVE MutualExclusion
  <2> SUFFICES ASSUME NEW p \in Procs, NEW q \in Procs, p # q,
                      NEW x, x \in ToSet(blocks[p]), x \in ToSet(blocks[q])
               PROVE  FALSE
    BY DEF MutualExclusion
  <2>1. x \in SyncVars
    BY <1>1, ToSetByIndex DEF LockInv, TypeOK
  <2> QED
    BY <1>1, <2>1 DEF LockInv, Holding
<1> QED
  BY <1>1, LockInvariant, PTL

(* The same of programs without break.                                     *)
THEOREM BlocksExclude == Spec => []MutualExclusion
<1>1. [Next]_vars => [BreakNext]_vars
  BY DEF BreakNext
<1>2. Spec => BreakSpec
  BY <1>1, PTL DEF Spec, BreakSpec
<1> QED
  BY <1>2, BreakExcludes

--------------------------------------------------------------------------------
(***************************************************************************)
(* No update is lost unless the program updates a variable outside a       *)
(* block: a thread between its load and its store is in a block on the     *)
(* variable, so its copy stays the current value.                          *)
(***************************************************************************)
CopiesCurrent ==
  \A p \in Procs : pc[p] = "store" => /\ at[p] \in ToSet(blocks[p])
                                      /\ reg[p] = val[at[p]]

UpdateInv == NoLostUpdate /\ CopiesCurrent

LEMMA StepUpdateInv ==
  ASSUME "update outside" \notin Kinds, LockInv, LockInv', UpdateInv, [BreakNext]_vars
  PROVE  UpdateInv'
<1> USE DEF UpdateInv
<1>1. CASE UNCHANGED vars
  BY <1>1 DEF vars, NoLostUpdate, CopiesCurrent
<1>2. CASE Finished
  BY <1>2 DEF Finished, vars, NoLostUpdate, CopiesCurrent
<1>3. ASSUME NEW p \in Procs, NEW x \in SyncVars,
             Increment(p, x) \/ UpdateLoad(p, x) \/ LockBlock(p, x)
      PROVE  UpdateInv'
  <2>1. NoLostUpdate'
    BY <1>3 DEF NoLostUpdate, Increment, UpdateLoad, LockBlock
  <2>2. \A q \in Procs : q # p => /\ pc'[q] = pc[q] /\ at'[q] = at[q] /\ reg'[q] = reg[q]
    BY <1>3 DEF LockInv, TypeOK, Increment, UpdateLoad, LockBlock, Begin, Goto
  <2>3. UNCHANGED <<val, blocks>>
    BY <1>3 DEF Increment, UpdateLoad, LockBlock
  <2>4. pc'[p] = "store" => x \in ToSet(blocks[p]) /\ at'[p] = x /\ reg'[p] = val[x]
    BY <1>3 DEF LockInv, TypeOK, Increment, UpdateLoad, LockBlock, Begin, Goto
  <2>5. CopiesCurrent'
    BY <2>2, <2>3, <2>4 DEF CopiesCurrent
  <2> QED
    BY <2>1, <2>5
<1>4. ASSUME NEW p \in Procs, Read(p) \/ IncUnlock(p) \/ IncLock(p)
      PROVE  UpdateInv'
  <2>1. NoLostUpdate' /\ UNCHANGED <<val, blocks, at, reg>>
    BY <1>4 DEF NoLostUpdate, Read, IncUnlock, IncLock
  <2>2. \A q \in Procs : pc'[q] = "store" => pc[q] = "store"
    BY <1>4 DEF LockInv, TypeOK, Read, IncUnlock, IncLock, Goto
  <2> QED
    BY <2>1, <2>2 DEF CopiesCurrent
<1>5. ASSUME NEW p \in Procs, LockEnter(p) \/ LockLeave(p) \/ BreakOut(p) \/ ReturnFrom(p)
      PROVE  UpdateInv'
  <2>1. NoLostUpdate' /\ UNCHANGED <<val, reg>>
    BY <1>5 DEF NoLostUpdate, LockEnter, LockLeave, BreakOut, ReturnFrom
  <2>2. \A q \in Procs : pc'[q] = "store" =>
          pc[q] = "store" /\ at'[q] = at[q] /\ blocks'[q] = blocks[q]
    BY <1>5 DEF LockInv, TypeOK, LockEnter, LockLeave, BreakOut, ReturnFrom, PopBlock, Goto
  <2> QED
    BY <2>1, <2>2 DEF CopiesCurrent
<1>6. ASSUME NEW p \in Procs, IncAdd(p) \/ UpdateStore(p)
      PROVE  UpdateInv'
  <2> DEFINE x == at[p]
  <2>1. x \in SyncVars /\ val[x] \in Nat /\ updates[x] \in Nat /\ mutex[x] = p
    <3>1. x \in SyncVars
      BY DEF LockInv, TypeOK
    <3>2. val[x] \in Nat /\ updates[x] \in Nat
      BY <3>1 DEF LockInv, TypeOK
    <3>3. CASE IncAdd(p)
      BY <3>1, <3>2, <3>3 DEF LockInv, Holding, Incrementing, IncAdd
    <3>4. CASE UpdateStore(p)
      BY <3>1, <3>2, <3>4 DEF LockInv, Holding, CopiesCurrent, UpdateStore
    <3> QED
      BY <1>6, <3>1, <3>2, <3>3, <3>4
  <2>2. /\ UNCHANGED <<at, blocks>>
        /\ val' = [val EXCEPT ![x] = val[x] + 1]
        /\ updates' = [updates EXCEPT ![x] = updates[x] + 1]
    BY <1>6 DEF IncAdd, UpdateStore, CopiesCurrent
  <2>3. NoLostUpdate'
    BY <2>1, <2>2 DEF NoLostUpdate, LockInv, TypeOK
  <2>4. pc'[p] # "store" /\ \A q \in Procs : q # p => pc'[q] = pc[q] /\ reg'[q] = reg[q]
    BY <1>6 DEF LockInv, TypeOK, IncAdd, UpdateStore, Goto
  <2>5. ASSUME NEW q \in Procs, q # p, pc[q] = "store"
        PROVE  at[q] # x /\ at[q] \in SyncVars
    BY <2>1, <2>5 DEF LockInv, TypeOK, Holding, CopiesCurrent
  <2>6. CopiesCurrent'
    BY <2>1, <2>2, <2>4, <2>5 DEF CopiesCurrent, LockInv, TypeOK
  <2> QED
    BY <2>3, <2>6
<1> QED
  BY <1>1, <1>2, <1>3, <1>4, <1>5, <1>6 DEF BreakNext, Next, BeginStatement, Continue

(* No update of a sync variable is lost, whether made by ++ or in a block, *)
(* in programs with break, too.                                            *)
THEOREM BreakLosesNoUpdate ==
  ASSUME "update outside" \notin Kinds
  PROVE  BreakSpec => []NoLostUpdate
<1>1. Init => UpdateInv
  BY DEF Init, UpdateInv, NoLostUpdate, CopiesCurrent
<1>2. LockInv /\ LockInv' /\ UpdateInv /\ [BreakNext]_vars => UpdateInv'
  BY StepUpdateInv
<1>3. UpdateInv => NoLostUpdate
  BY DEF UpdateInv
<1> QED
  BY <1>1, <1>2, <1>3, LockInvariant, PTL DEF BreakSpec

(* The same of programs without break.                                     *)
THEOREM LosesNoUpdate ==
  ASSUME "update outside" \notin Kinds
  PROVE  Spec => []NoLostUpdate
<1>1. [Next]_vars => [BreakNext]_vars
  BY DEF BreakNext
<1>2. Spec => BreakSpec
  BY <1>1, PTL DEF Spec, BreakSpec
<1> QED
  BY <1>2, BreakLosesNoUpdate

--------------------------------------------------------------------------------
(***************************************************************************)
(* When the generator's stack has room for a block on every variable, it   *)
(* is the stack of blocks itself, and every way out of a block gives back  *)
(* exactly the mutexes that were taken on the way in.                      *)
(***************************************************************************)
Tracked == \A p \in Procs : emitted[p] = blocks[p]

Released ==
  \A x \in SyncVars, p \in Procs :
    mutex[x] = p => x \in ToSet(blocks[p]) \/ Incrementing(p, x)

ExactInv == Tracked /\ Released

LEMMA StepExactInv ==
  ASSUME NumVars <= MaxLockDepth, LockInv, LockInv', ExactInv, [Next]_vars
  PROVE  ExactInv'
<1> USE DEF ExactInv
<1>1. CASE UNCHANGED vars
  BY <1>1 DEF vars, Tracked, Released, Incrementing
<1>2. CASE Finished
  BY <1>2 DEF Finished, vars, Tracked, Released, Incrementing
<1>3. ASSUME NEW p \in Procs,
             \/ \E x \in SyncVars : Increment(p, x) \/ UpdateLoad(p, x) \/ LockBlock(p, x)
             \/ IncAdd(p) \/ Read(p) \/ UpdateStore(p)
      PROVE  ExactInv'
  <2>1. UNCHANGED <<mutex, blocks, emitted>>
    BY <1>3 DEF Increment, UpdateLoad, LockBlock, IncAdd, Read, UpdateStore
  <2>2. \A q \in Procs, y \in SyncVars : Incrementing(q, y) => Incrementing(q, y)'
    BY <1>3 DEF LockInv, TypeOK, Incrementing, Increment, UpdateLoad, LockBlock, IncAdd, Read,
      UpdateStore, Begin, Goto
  <2> QED
    BY <2>1, <2>2 DEF Tracked, Released
<1>4. ASSUME NEW p \in Procs, IncLock(p) PROVE ExactInv'
  <2>1. UNCHANGED <<at, blocks, emitted>> /\ mutex' = [mutex EXCEPT ![at[p]] = p]
    BY <1>4 DEF IncLock, Acquire
  <2>2. /\ Incrementing(p, at[p])'
        /\ \A q \in Procs, y \in SyncVars : Incrementing(q, y) => Incrementing(q, y)'
    BY <1>4 DEF LockInv, TypeOK, Incrementing, IncLock, Goto
  <2>3. Released'
    BY <2>1, <2>2 DEF LockInv, TypeOK, Released
  <2> QED
    BY <2>1, <2>3 DEF Tracked
<1>5. ASSUME NEW p \in Procs, IncUnlock(p) PROVE ExactInv'
  <2>1. /\ UNCHANGED <<at, blocks, emitted>>
        /\ mutex' = [y \in SyncVars |-> IF y = at[p] THEN None ELSE mutex[y]]
    BY <1>5 DEF IncUnlock, Unlock
  <2>2. \A q \in Procs, y \in SyncVars : Incrementing(q, y) => Incrementing(q, y)' \/ y = at[p]
    BY <1>5 DEF LockInv, TypeOK, Incrementing, IncUnlock, Goto
  <2>3. Released'
    BY <2>1, <2>2, NoneAssumption DEF LockInv, TypeOK, Released
  <2> QED
    BY <2>1, <2>3 DEF Tracked
<1>6. ASSUME NEW p \in Procs, LockEnter(p) PROVE ExactInv'
  <2> DEFINE x == at[p]
  <2>1. /\ UNCHANGED at /\ mutex' = [mutex EXCEPT ![x] = p]
        /\ blocks' = [blocks EXCEPT ![p] = Append(blocks[p], x)]
        /\ emitted' = [emitted EXCEPT ![p] = IF Len(emitted[p]) < MaxLockDepth
                                             THEN Append(emitted[p], x) ELSE emitted[p]]
    BY <1>6 DEF LockEnter, Acquire
  <2>2. x \in SyncVars /\ blocks[p] \in Seq(SyncVars) /\ emitted[p] = blocks[p]
    BY DEF LockInv, TypeOK, Tracked
  <2>3. /\ \A y \in ToSet(blocks[p]) : y < x
        /\ Increasing(blocks[p])
    BY <1>6 DEF LockInv, InOrder, Ordered, Stacks, LockEnter
  <2>4. Len(Append(blocks[p], x)) <= NumVars
    BY <2>2, <2>3, PushIncreasing, IncreasingLength
  <2>5. Len(emitted[p]) < MaxLockDepth
    <3>1. Len(Append(blocks[p], x)) = Len(blocks[p]) + 1 /\ Len(blocks[p]) \in Nat
      BY <2>2, AppendProperties, LenProperties
    <3> QED
      BY <2>2, <2>4, <3>1, SizeAssumption
  <2>6. emitted' = [emitted EXCEPT ![p] = Append(blocks[p], x)]
    BY <2>1, <2>2, <2>5
  <2> HIDE DEF x
  <2>7. Tracked'
    BY <2>1, <2>6 DEF LockInv, TypeOK, Tracked
  <2>8. ToSet(Append(blocks[p], x)) = ToSet(blocks[p]) \cup {x}
    BY <2>2, ToSetAppend
  <2>9. \A q \in Procs, y \in SyncVars : Incrementing(q, y) => Incrementing(q, y)'
    BY <1>6 DEF LockInv, TypeOK, Incrementing, LockEnter, Goto
  <2>10. Released'
    <3> SUFFICES ASSUME NEW y \in SyncVars, NEW q \in Procs, mutex'[y] = q
                 PROVE  y \in ToSet(blocks'[q]) \/ Incrementing(q, y)'
      BY DEF Released
    <3>1. blocks'[q] = IF q = p THEN Append(blocks[p], x) ELSE blocks[q]
      BY <2>1, Zenon DEF LockInv, TypeOK
    <3>2. mutex[y] = q \/ (y = x /\ q = p)
      BY <2>1, <2>2 DEF LockInv, TypeOK
    <3> QED
      BY <3>1, <3>2, <2>8, <2>9 DEF Released
  <2> QED
    BY <2>7, <2>10
<1>7. ASSUME NEW p \in Procs, LockLeave(p) PROVE ExactInv'
  <2> DEFINE b == blocks[p]
  <2>1. /\ UNCHANGED <<pc, at>> /\ b # <<>>
        /\ blocks' = [blocks EXCEPT ![p] = Front(b)]
        /\ emitted' = [emitted EXCEPT ![p] = Front(b)]
        /\ mutex' = [y \in SyncVars |-> IF y = Last(b) THEN None ELSE mutex[y]]
    BY <1>7 DEF LockLeave, PopBlock, Unlock, Tracked
  <2>2. b \in Seq(SyncVars) /\ Increasing(b)
    BY DEF LockInv, TypeOK, Stacks
  <2>3. ToSet(Front(b)) = ToSet(b) \ {Last(b)}
    BY <2>1, <2>2, PopIncreasing
  <2> HIDE DEF b
  <2>4. Tracked'
    BY <2>1 DEF LockInv, TypeOK, Tracked
  <2>5. Released'
    <3> SUFFICES ASSUME NEW y \in SyncVars, NEW q \in Procs, mutex'[y] = q
                 PROVE  y \in ToSet(blocks'[q]) \/ Incrementing(q, y)'
      BY DEF Released
    <3>1. blocks'[q] = IF q = p THEN Front(b) ELSE blocks[q]
      BY <2>1, Zenon DEF LockInv, TypeOK
    <3>2. mutex[y] = q /\ y # Last(b)
      BY <2>1, NoneAssumption
    <3>3. Incrementing(q, y) => Incrementing(q, y)'
      BY <2>1 DEF Incrementing
    <3> QED
      BY <3>1, <3>2, <3>3, <2>3 DEF Released, b
  <2> QED
    BY <2>4, <2>5
<1>8. ASSUME NEW p \in Procs, ReturnFrom(p) PROVE ExactInv'
  <2>1. /\ blocks' = [blocks EXCEPT ![p] = <<>>] /\ emitted' = [emitted EXCEPT ![p] = <<>>]
        /\ mutex' = [y \in SyncVars |-> IF y \in ToSet(blocks[p]) THEN None ELSE mutex[y]]
    BY <1>8 DEF ReturnFrom, Unlock, Tracked
  <2>2. \A q \in Procs, y \in SyncVars : Incrementing(q, y) => Incrementing(q, y)' /\ q # p
    BY <1>8 DEF LockInv, TypeOK, Incrementing, ReturnFrom, Goto
  <2>3. \A q \in Procs : q # p => blocks'[q] = blocks[q]
    BY <2>1, Zenon DEF LockInv, TypeOK
  <2>4. Released'
    BY <2>1, <2>2, <2>3, NoneAssumption DEF Released
  <2>5. Tracked'
    BY <2>1, Zenon DEF LockInv, TypeOK, Tracked
  <2> QED
    BY <2>4, <2>5
<1> QED
  BY <1>1, <1>2, <1>3, <1>4, <1>5, <1>6, <1>7, <1>8 DEF Next, BeginStatement, Continue

(* Both stacks agree and nothing is held that no block stands for.         *)
THEOREM Exactness ==
  ASSUME NumVars <= MaxLockDepth
  PROVE  Spec => [](LockInv /\ ExactInv)
<1>1. Init => ExactInv
  BY NoneAssumption DEF Init, ExactInv, Tracked, Released
<1>2. LockInv /\ LockInv' /\ ExactInv /\ [Next]_vars => ExactInv'
  BY StepExactInv
<1>3. [Next]_vars => [BreakNext]_vars
  BY DEF BreakNext
<1>4. Spec => BreakSpec
  BY <1>3, PTL DEF Spec, BreakSpec
<1>5. Spec => []LockInv
  BY <1>4, LockInvariant
<1> QED
  BY <1>1, <1>2, <1>5, PTL DEF Spec

(* A mutex is held exactly while its holder is in a block on the variable  *)
(* or in the middle of an increment.                                       *)
THEOREM NothingLeftHeld ==
  ASSUME NumVars <= MaxLockDepth
  PROVE  Spec => []HeldExactly
<1>1. LockInv /\ ExactInv => HeldExactly
  BY DEF LockInv, ExactInv, Holding, Released, HeldExactly
<1> QED
  BY <1>1, Exactness, PTL

--------------------------------------------------------------------------------
(***************************************************************************)
(* In a program that increments no variable inside a block on it, whoever  *)
(* waits for a mutex does not hold it.                                     *)
(***************************************************************************)
Outside ==
  \A p \in Procs : pc[p] \in {"inc lock", "lock"} => at[p] \notin ToSet(blocks[p])

LEMMA NotBelow == \A x \in SyncVars : ~(x < x)
BY DEF SyncVars

LEMMA StepOutside ==
  ASSUME "increment inside" \notin Kinds, LockInv, Outside, [Next]_vars
  PROVE  Outside'
<1>1. CASE UNCHANGED vars \/ Finished
  BY <1>1 DEF Finished, vars, Outside
<1>2. ASSUME NEW p \in Procs, NEW x \in SyncVars,
             Increment(p, x) \/ UpdateLoad(p, x) \/ LockBlock(p, x)
      PROVE  Outside'
  <2>1. /\ UNCHANGED blocks /\ at'[p] = x
        /\ \A q \in Procs : q # p => pc'[q] = pc[q] /\ at'[q] = at[q]
    BY <1>2 DEF LockInv, TypeOK, Increment, UpdateLoad, LockBlock, Begin, Goto
  <2>2. ASSUME Ordered(p, x) PROVE x \notin ToSet(blocks[p])
    BY <2>2, NotBelow DEF Ordered
  <2>3. pc'[p] = "store" \/ Ordered(p, x)
    BY <1>2 DEF LockInv, TypeOK, Increment, UpdateLoad, LockBlock, Begin, Goto
  <2> QED
    BY <2>1, <2>2, <2>3 DEF Outside
<1>3. ASSUME NEW p \in Procs, Continue(p) \/ ReturnFrom(p) PROVE Outside'
  <2>1. \A q \in Procs : pc'[q] \in {"inc lock", "lock"} =>
          pc[q] = pc'[q] /\ at'[q] = at[q] /\ blocks'[q] = blocks[q]
    BY <1>3 DEF LockInv, TypeOK, Continue, IncLock, IncAdd, IncUnlock, Read, UpdateStore,
      LockEnter, LockLeave, ReturnFrom, PopBlock, Goto
  <2> QED
    BY <2>1 DEF Outside
<1> QED
  BY <1>1, <1>2, <1>3 DEF Next, BeginStatement

(* No thread waits for a mutex it holds itself.                            *)
THEOREM NeverWaitsForItself ==
  ASSUME NumVars <= MaxLockDepth, "increment inside" \notin Kinds
  PROVE  Spec => []NoSelfWait
<1>1. Init => Outside
  BY DEF Init, Outside
<1>2. LockInv /\ Outside /\ [Next]_vars => Outside'
  BY StepOutside
<1>3. LockInv /\ ExactInv /\ Outside => NoSelfWait
  BY DEF LockInv, TypeOK, ExactInv, Released, Outside, Incrementing, NoSelfWait
<1> QED
  BY <1>1, <1>2, <1>3, Exactness, PTL DEF Spec

--------------------------------------------------------------------------------
(***************************************************************************)
(* Nor do threads wait for each other in a circle: what a thread waits for *)
(* is greater than whatever it holds, so the holder of the greatest held   *)
(* mutex does not wait.  That a thread at a mutex nobody holds can take    *)
(* it is the guard of IncLock and of LockEnter.                            *)
(***************************************************************************)
Waits(p) == pc[p] \in {"inc lock", "lock"} /\ mutex[at[p]] # None

WaitsUpward == \A p \in Procs : pc[p] \in {"inc lock", "lock"} => Ordered(p, at[p])

(* While any mutex is held, one of the holders is not waiting.             *)
SomeHolderGoesOn ==
  (\E x \in SyncVars : mutex[x] # None)
    => \E p \in Procs, x \in SyncVars : mutex[x] = p /\ ~Waits(p)

(* Blocks and increments are begun above all that is held, and nothing is  *)
(* entered while a thread waits.                                           *)
LEMMA StepWaitsUpward ==
  ASSUME "increment inside" \notin Kinds, LockInv, WaitsUpward, [Next]_vars
  PROVE  WaitsUpward'
<1>1. CASE UNCHANGED vars \/ Finished
  BY <1>1 DEF Finished, vars, WaitsUpward, Ordered
<1>2. ASSUME NEW p \in Procs, NEW x \in SyncVars,
             Increment(p, x) \/ UpdateLoad(p, x) \/ LockBlock(p, x)
      PROVE  WaitsUpward'
  <2>1. /\ UNCHANGED blocks /\ at'[p] = x
        /\ \A q \in Procs : q # p => pc'[q] = pc[q] /\ at'[q] = at[q]
    BY <1>2 DEF LockInv, TypeOK, Increment, UpdateLoad, LockBlock, Begin, Goto
  <2>2. pc'[p] = "store" \/ Ordered(p, x)
    BY <1>2 DEF LockInv, TypeOK, Increment, UpdateLoad, LockBlock, Begin, Goto
  <2> QED
    BY <2>1, <2>2 DEF WaitsUpward, Ordered
<1>3. ASSUME NEW p \in Procs, Continue(p) \/ ReturnFrom(p) PROVE WaitsUpward'
  <2>1. \A q \in Procs : pc'[q] \in {"inc lock", "lock"} =>
          pc[q] = pc'[q] /\ at'[q] = at[q] /\ blocks'[q] = blocks[q]
    BY <1>3 DEF LockInv, TypeOK, Continue, IncLock, IncAdd, IncUnlock, Read, UpdateStore,
      LockEnter, LockLeave, ReturnFrom, PopBlock, Goto
  <2> QED
    BY <2>1 DEF WaitsUpward, Ordered
<1> QED
  BY <1>1, <1>2, <1>3 DEF Next, BeginStatement

(* Were the holder of the greatest held mutex waiting, what it waits for   *)
(* would be held and greater.                                              *)
LEMMA GreatestHolder ==
  ASSUME LockInv, Released, WaitsUpward PROVE SomeHolderGoesOn
<1> DEFINE held == {x \in SyncVars : mutex[x] # None}
<1> SUFFICES ASSUME held # {}
             PROVE  \E p \in Procs, x \in SyncVars : mutex[x] = p /\ ~Waits(p)
  BY DEF SomeHolderGoesOn
<1>1. NumVars \in Nat /\ held \in SUBSET (0..NumVars)
  BY SizeAssumption DEF SyncVars
<1>2. PICK x \in held : \A y \in held : y <= x
  <2> HIDE DEF held
  <2> QED
    BY <1>1, GreatestUpTo
<1>3. x \in SyncVars /\ mutex[x] \in Procs
  BY DEF LockInv, TypeOK
<1> DEFINE p == mutex[x]
<1>4. ~Waits(p)
  <2> SUFFICES ASSUME Waits(p) PROVE FALSE
    OBVIOUS
  <2>1. x \in ToSet(blocks[p])
    BY <1>3 DEF Released, Waits, Incrementing
  <2>2. at[p] \in held
    BY <1>3 DEF LockInv, TypeOK, Waits
  <2>3. x < at[p]
    BY <1>3, <2>1 DEF WaitsUpward, Ordered, Waits
  <2>4. at[p] <= x
    BY <1>2, <2>2
  <2> QED
    BY <1>3, <2>2, <2>3, <2>4 DEF SyncVars
<1> QED
  BY <1>3, <1>4

(* Lock blocks nested in one order never deadlock: while any mutex is      *)
(* held, one of the threads that hold one is not waiting.                  *)
THEOREM NeverWaitInACircle ==
  ASSUME NumVars <= MaxLockDepth, "increment inside" \notin Kinds
  PROVE  Spec => []SomeHolderGoesOn
<1>1. Init => WaitsUpward
  BY DEF Init, WaitsUpward
<1>2. LockInv /\ WaitsUpward /\ [Next]_vars => WaitsUpward'
  BY StepWaitsUpward
<1>3. LockInv /\ ExactInv /\ WaitsUpward => SomeHolderGoesOn
  BY GreatestHolder DEF ExactInv
<1> QED
  BY <1>1, <1>2, <1>3, Exactness, PTL DEF Spec

================================================================================
