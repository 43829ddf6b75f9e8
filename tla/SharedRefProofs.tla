---------------------------- MODULE SharedRefProofs ----------------------------
(***************************************************************************)
(* The reference count under the discipline the generated code relies on:  *)
(* while a thread that was handed the object runs, its spawner leaves the  *)
(* object alone.  For any number of threads, one after the other, each     *)
(* given a reference of its own or lent the object without one.            *)
(***************************************************************************)
EXTENDS SharedRef, TLAPS

Busy == {"retain", "spawn", "release"}

TypeOK ==
  /\ rc \in Int /\ freed \in BOOLEAN /\ dangling \in BOOLEAN
  /\ pc \in [Parties -> {"unborn", "run", "joined"} \cup Busy]
  /\ reg \in [Parties -> Int] /\ held \in [Parties -> Nat]
  /\ child \in Parties /\ lent \subseteq Workers

(* One thread at a time has the object, and its spawner waits for it.      *)
OneAtATime ==
  /\ pc[Owner] \in {"run"} \cup Busy
  /\ \A v, w \in Workers : Running(v) /\ Running(w) => v = w
  /\ \A w \in Workers : Running(w) => pc[Owner] = "run"
  /\ \A w \in Workers : ~Running(w) => held[w] = 0
  /\ \A w \in Workers : pc[w] # "spawn"
  /\ pc[Owner] = "spawn" => child \in Workers /\ pc[child] = "unborn"

(* Who is lent the object does without a reference because the owner has   *)
(* one, and keeps it while the thread runs.                                *)
OwnerLends == \A w \in lent : Running(w) /\ held[Owner] > 0

(* So the count a party has read is still the count when it writes it      *)
(* back,                                                                   *)
ReadsCurrent ==
  \A p \in Parties : pc[p] \in Busy =>
    reg[p] = rc /\ (held[p] > 0 \/ (p \in lent /\ pc[p] # "release"))

(* and it counts the references: the owner's and those of the one thread.  *)
Counts ==
  /\ \A w \in Workers : Running(w) => rc = held[Owner] + held[w]
  /\ (\A w \in Workers : ~Running(w)) => rc = held[Owner]

Inv == TypeOK /\ OneAtATime /\ OwnerLends /\ ReadsCurrent /\ Counts /\ ~dangling /\ (freed <=> rc = 0)

--------------------------------------------------------------------------------
LEMMA InitInv == Init => Inv
<1> SUFFICES ASSUME Init PROVE Inv
  OBVIOUS
<1> USE OwnerAssumption DEF Init, Parties, Busy
<1>1. TypeOK
  <2>1. Owner \in Parties /\ rc \in Int
    OBVIOUS
  <2>4. freed \in BOOLEAN /\ dangling \in BOOLEAN
    BY Zenon
  <2>2. pc \in [Parties -> {"unborn", "run", "joined"} \cup Busy]
    OBVIOUS
  <2>3. reg \in [Parties -> Int] /\ held \in [Parties -> Nat]
    OBVIOUS
  <2> QED
    BY <2>1, <2>2, <2>3, <2>4 DEF TypeOK
<1>2. \A w \in Workers : ~Running(w) /\ held[w] = 0 /\ pc[w] = "unborn"
  BY DEF Running
<1>3. pc[Owner] = "run" /\ held[Owner] = 1
  OBVIOUS
<1>4. OneAtATime /\ OwnerLends
  BY <1>2, <1>3 DEF OneAtATime, OwnerLends
<1>5. ReadsCurrent
  BY <1>2, <1>3 DEF ReadsCurrent
<1>6. Counts
  BY <1>2, <1>3 DEF Counts
<1> QED
  BY <1>1, <1>4, <1>5, <1>6 DEF Inv

(* Whoever may act on the object is the one thread that runs, or the       *)
(* owner while none does.                                                  *)
Alone(p) == \A w \in Workers : Running(w) => w = p

LEMMA ActsAlone ==
  ASSUME ~Overlapping, Inv, NEW p \in Parties, MayUse(p) \/ pc[p] \in Busy
  PROVE  /\ Alone(p) /\ (held[p] > 0 \/ p \in lent) /\ (p = Owner => held[p] > 0)
         /\ p = Owner \/ Running(p)
         /\ p # Owner => pc[Owner] = "run"
         /\ \A q \in Parties : q # p => pc[q] \notin Busy
<1> USE OwnerAssumption DEF Inv
<1>1. p = Owner \/ (p \in Workers /\ Running(p))
  BY DEF Parties, Running, MayUse, Busy
<1>2. (held[p] > 0 \/ p \in lent) /\ (p = Owner => held[p] > 0)
  BY DEF MayUse, ReadsCurrent, TypeOK
<1>3. CASE p = Owner
  <2>1. \A w \in Workers : ~Running(w)
    BY <1>3 DEF MayUse, OneAtATime, Busy
  <2> QED
    BY <1>2, <1>3, <2>1 DEF Alone, Parties, Running, Busy
<1>4. CASE p \in Workers /\ Running(p)
  <2>1. pc[Owner] = "run" /\ \A w \in Workers : Running(w) => w = p
    BY <1>4 DEF OneAtATime
  <2>2. \A q \in Parties : q # p => pc[q] \notin Busy
    BY <2>1 DEF Parties, Running, Busy
  <2> QED
    BY <1>2, <1>4, <2>1, <2>2 DEF Alone
<1> QED
  BY <1>1, <1>3, <1>4

(* Whoever holds a reference and acts finds the object alive.              *)
LEMMA CountPositive ==
  ASSUME ~Overlapping, Inv, NEW p \in Parties, MayUse(p) \/ pc[p] \in Busy
  PROVE  ~freed /\ rc \in Nat /\ rc > 0
<1> USE DEF Inv
<1>1. /\ Alone(p) /\ (p = Owner \/ Running(p))
      /\ held[p] > 0 \/ held[Owner] > 0
  BY ActsAlone DEF OwnerLends
<1>2. held[p] \in Nat /\ held[Owner] \in Nat
  BY DEF TypeOK, Parties
<1>3. rc = held[Owner] + held[p] \/ (p = Owner /\ rc = held[Owner])
  BY <1>1, OwnerAssumption DEF Alone, Counts, Running
<1> QED
  BY <1>1, <1>2, <1>3

(* The count follows a change of one party's references.                   *)
LEMMA CountsAfter ==
  ASSUME Inv, NEW p \in Parties, Alone(p), p = Owner \/ Running(p), NEW d \in {-1, 1},
         rc' = rc + d, held' = [held EXCEPT ![p] = held[p] + d],
         \A w \in Workers : Running(w) <=> Running(w)'
  PROVE  Counts'
<1> USE OwnerAssumption DEF Inv
<1>1. CASE p = Owner
  <2>1. \A w \in Workers : ~Running(w)
    BY <1>1 DEF Alone, Running
  <2>2. held'[Owner] = held[Owner] + d
    BY <1>1 DEF TypeOK
  <2> QED
    BY <2>1, <2>2 DEF Counts
<1>2. CASE p # Owner
  <2>1. p \in Workers /\ Running(p) /\ \A w \in Workers : Running(w) => w = p
    BY <1>2 DEF Alone, Parties
  <2>2. held'[Owner] = held[Owner] /\ held'[p] = held[p] + d
    BY <1>2 DEF TypeOK, Parties
  <2>3. rc = held[Owner] + held[p] /\ held[Owner] \in Nat /\ held[p] \in Nat
    BY <2>1 DEF Counts, TypeOK, Parties
  <2> QED
    BY <2>1, <2>2, <2>3 DEF Counts
<1> QED
  BY <1>1, <1>2

(* Reading the count, for whatever purpose.                                *)
LEMMA LoadInv ==
  ASSUME ~Overlapping, Inv, NEW p \in Parties,
         Copy(p) \/ Drop(p) \/ (p = Owner /\ \E w \in Workers : Spawn(w))
  PROVE  Inv'
<1> USE OwnerAssumption DEF Inv
<1>1. MayUse(p)
  BY DEF Copy, Drop, Spawn
<1>2. /\ Alone(p) /\ (held[p] > 0 \/ p \in lent)
      /\ p = Owner \/ Running(p)
      /\ p # Owner => pc[Owner] = "run"
      /\ \A q \in Parties : q # p => pc[q] \notin Busy
  BY <1>1, ActsAlone
<1>3. PICK label \in Busy :
        /\ Load(p, label) /\ UNCHANGED <<rc, freed, lent, held>>
        /\ label = "release" => held[p] > 0
        /\ \/ label # "spawn" /\ UNCHANGED child
           \/ label = "spawn" /\ p = Owner /\ child' \in Workers /\ pc[child'] = "unborn"
  BY DEF Copy, Drop, Spawn, Busy
<1>4. ~freed
  BY <1>1, CountPositive
<1>5. TypeOK'
  BY <1>3, <1>2 DEF TypeOK, Load, Parties, Busy
<1>6. \A w \in Workers : Running(w) <=> Running(w)'
  BY <1>1, <1>2, <1>3 DEF TypeOK, Load, Parties, Running, Busy, MayUse
<1>7. OneAtATime'
  <2>1. pc'[Owner] \in {"run"} \cup Busy
    BY <1>3 DEF TypeOK, OneAtATime, Load, Parties
  <2>2. \A w \in Workers : Running(w)' => pc'[Owner] = "run"
    BY <1>2, <1>3, <1>6 DEF TypeOK, OneAtATime, Load, Parties, Alone
  <2>3. \A w \in Workers : pc'[w] # "spawn"
    BY <1>3 DEF TypeOK, OneAtATime, Load, Parties
  <2>4. pc'[Owner] = "spawn" => child' \in Workers /\ pc'[child'] = "unborn"
    BY <1>2, <1>3 DEF TypeOK, OneAtATime, Load, Parties, Busy, MayUse
  <2> QED
    BY <1>3, <1>6, <2>1, <2>2, <2>3, <2>4 DEF OneAtATime
<1>8. ReadsCurrent'
  BY <1>2, <1>3 DEF TypeOK, ReadsCurrent, Load, Parties
<1>9. Counts' /\ OwnerLends'
  BY <1>3, <1>6 DEF Counts, OwnerLends, TypeOK
<1> QED
  BY <1>3, <1>4, <1>5, <1>7, <1>8, <1>9 DEF Load

(* Writing back the count with one reference more.                         *)
LEMMA RetainedInv ==
  ASSUME ~Overlapping, Inv, NEW p \in Parties, Retained(p)
  PROVE  Inv'
<1> USE OwnerAssumption DEF Inv
<1>1. pc[p] \in Busy
  BY DEF Retained, Busy
<1>2. /\ Alone(p) /\ (held[p] > 0 \/ p \in lent)
      /\ p = Owner \/ Running(p)
      /\ p # Owner => pc[Owner] = "run"
      /\ \A q \in Parties : q # p => pc[q] \notin Busy
  BY <1>1, ActsAlone
<1>3. ~freed /\ reg[p] = rc
  BY <1>1, CountPositive DEF ReadsCurrent
<1>4. /\ rc' = rc + 1 /\ held' = [held EXCEPT ![p] = held[p] + 1]
      /\ pc' = [pc EXCEPT ![p] = "run"] /\ reg' = [reg EXCEPT ![p] = 0]
      /\ UNCHANGED <<freed, child, lent>> /\ ~dangling'
  BY <1>3 DEF Retained
<1>5. TypeOK'
  <2>1. rc' \in Int /\ held[p] + 1 \in Nat
    BY <1>4 DEF TypeOK
  <2>2. dangling' \in BOOLEAN
    BY Zenon DEF Retained
  <2> QED
    BY <1>4, <2>1, <2>2 DEF TypeOK
<1>6. \A w \in Workers : Running(w) <=> Running(w)'
  BY <1>1, <1>2, <1>4 DEF TypeOK, Parties, Running, Busy
<1>7. OneAtATime'
  <2>1. \A w \in Workers : ~Running(w)' => held'[w] = 0
    BY <1>2, <1>4, <1>6 DEF TypeOK, OneAtATime, Parties
  <2>2. pc'[Owner] \in {"run"} \cup Busy /\ \A w \in Workers : Running(w)' => pc'[Owner] = "run"
    BY <1>2, <1>4, <1>6 DEF TypeOK, OneAtATime, Parties, Alone
  <2>3. pc'[Owner] = "spawn" => child' \in Workers /\ pc'[child'] = "unborn"
    BY <1>2, <1>4 DEF TypeOK, OneAtATime, Parties, Busy
  <2> QED
    BY <1>4, <1>6, <2>1, <2>2, <2>3 DEF TypeOK, OneAtATime, Parties
<1>8. ReadsCurrent'
  BY <1>2, <1>4 DEF TypeOK, ReadsCurrent, Busy
<1>9. Counts'
  BY <1>2, <1>4, <1>6, CountsAfter DEF TypeOK
<1>10. rc' # 0
  BY <1>1, <1>4, CountPositive DEF TypeOK
<1>11. OwnerLends'
  BY <1>4, <1>6 DEF OwnerLends, TypeOK, Parties
<1> QED
  BY <1>3, <1>4, <1>5, <1>7, <1>8, <1>9, <1>10, <1>11

(* The spawn writes back its count, and the thread begins with a           *)
(* reference of its own.                                                   *)
LEMMA SpawnedInv ==
  ASSUME ~Overlapping, Inv, Spawned
  PROVE  Inv'
<1> USE OwnerAssumption DEF Inv
<1>1. pc[Owner] = "spawn" /\ pc[Owner] \in Busy /\ Owner \in Parties
  BY DEF Spawned, Busy, Parties
<1>2. Alone(Owner) /\ \A q \in Parties : q # Owner => pc[q] \notin Busy
  BY <1>1, ActsAlone
<1>3. ~freed /\ reg[Owner] = rc /\ rc \in Nat
  BY <1>1, CountPositive DEF ReadsCurrent
<1>4. PICK w \in Workers : w = child /\ pc[w] = "unborn"
  BY <1>1 DEF OneAtATime
<1>5. /\ rc' = rc + 1 /\ held' = [held EXCEPT ![w] = 1]
      /\ pc' = [pc EXCEPT ![Owner] = "run", ![w] = "run"] /\ reg' = [reg EXCEPT ![Owner] = 0]
      /\ UNCHANGED <<freed, lent>> /\ child' = Owner /\ ~dangling'
  BY <1>3, <1>4 DEF Spawned
<1>6. \A v \in Workers : ~Running(v) /\ held[v] = 0
  BY <1>2 DEF OneAtATime, Alone, Running
<1>7. /\ w \in Parties /\ w # Owner
      /\ \A v \in Workers : Running(v)' <=> v = w
      /\ pc'[Owner] = "run"
      /\ \A q \in Parties : q \notin {w, Owner} => pc'[q] = pc[q]
  BY <1>1, <1>5, <1>6 DEF TypeOK, Parties, Running
<1>8. TypeOK'
  <2>1. dangling' \in BOOLEAN
    BY Zenon DEF Spawned
  <2>2. rc' \in Int
    BY <1>3, <1>5
  <2>3. held' \in [Parties -> Nat]
    BY <1>5 DEF TypeOK
  <2> QED
    BY <1>1, <1>5, <2>1, <2>2, <2>3 DEF TypeOK
<1>9. OneAtATime'
  <2>1. \A v \in Workers : v # w => held'[v] = 0
    BY <1>5, <1>6 DEF TypeOK, Parties
  <2>2. \A v \in Workers : pc'[v] # "spawn"
    BY <1>5, <1>7 DEF TypeOK, OneAtATime, Parties
  <2> QED
    BY <1>7, <2>1, <2>2 DEF OneAtATime
<1>10. ReadsCurrent'
  BY <1>2, <1>5, <1>7 DEF TypeOK, ReadsCurrent, Busy
<1>11. Counts' /\ OwnerLends'
  BY <1>5, <1>6, <1>7 DEF TypeOK, Counts, OwnerLends
<1> QED
  BY <1>3, <1>5, <1>8, <1>9, <1>10, <1>11

(* Writing back the count with one reference less; the last takes the      *)
(* object with it.                                                         *)
LEMMA ReleasedInv ==
  ASSUME ~Overlapping, Inv, NEW p \in Parties, Released(p)
  PROVE  Inv'
<1> USE OwnerAssumption DEF Inv
<1>1. pc[p] \in Busy
  BY DEF Released, Busy
<1>2. /\ Alone(p) /\ (held[p] > 0 \/ p \in lent)
      /\ p = Owner \/ Running(p)
      /\ p # Owner => pc[Owner] = "run"
      /\ \A q \in Parties : q # p => pc[q] \notin Busy
  BY <1>1, ActsAlone
<1>3. ~freed /\ reg[p] = rc /\ rc \in Nat /\ held[p] > 0
  BY <1>1, CountPositive DEF ReadsCurrent, Released
<1>4. /\ rc' = rc - 1 /\ held' = [held EXCEPT ![p] = held[p] - 1]
      /\ pc' = [pc EXCEPT ![p] = "run"] /\ reg' = [reg EXCEPT ![p] = 0]
      /\ UNCHANGED <<child, lent>> /\ ~dangling'
      /\ freed' <=> rc = 1
  BY <1>3 DEF Released
<1>5. TypeOK'
  <2>1. dangling' \in BOOLEAN /\ freed' \in BOOLEAN
    BY Zenon DEF Released
  <2>2. rc' \in Int /\ held[p] - 1 \in Nat
    BY <1>3, <1>4 DEF TypeOK
  <2> QED
    BY <1>4, <2>1, <2>2 DEF TypeOK
<1>6. \A w \in Workers : Running(w) <=> Running(w)'
  BY <1>1, <1>2, <1>4 DEF TypeOK, Parties, Running, Busy
<1>7. OneAtATime'
  <2>1. \A w \in Workers : ~Running(w)' => held'[w] = 0
    BY <1>2, <1>4, <1>6 DEF TypeOK, OneAtATime, Parties
  <2>2. pc'[Owner] \in {"run"} \cup Busy /\ \A w \in Workers : Running(w)' => pc'[Owner] = "run"
    BY <1>2, <1>4, <1>6 DEF TypeOK, OneAtATime, Parties, Alone
  <2>3. pc'[Owner] = "spawn" => child' \in Workers /\ pc'[child'] = "unborn"
    BY <1>2, <1>4 DEF TypeOK, OneAtATime, Parties, Busy
  <2> QED
    BY <1>4, <1>6, <2>1, <2>2, <2>3 DEF TypeOK, OneAtATime, Parties
<1>8. ReadsCurrent'
  BY <1>2, <1>4 DEF TypeOK, ReadsCurrent, Busy
<1>9. Counts'
  <2>1. rc' = rc + -1 /\ held' = [held EXCEPT ![p] = held[p] + -1]
    BY <1>3, <1>4 DEF TypeOK
  <2> QED
    BY <1>2, <1>6, <2>1, CountsAfter
<1>10. freed' <=> rc' = 0
  BY <1>3, <1>4
<1>11. OwnerLends'
  <2>1. \A w \in lent : w = p /\ p # Owner
    BY <1>2 DEF OwnerLends, Alone, TypeOK
  <2> QED
    BY <1>4, <1>6, <2>1 DEF OwnerLends, TypeOK, Parties
<1> QED
  BY <1>4, <1>5, <1>7, <1>8, <1>9, <1>10, <1>11

(* The owner syncs a thread that holds nothing any more.                   *)
LEMMA JoinInv ==
  ASSUME Inv, NEW w \in Workers, Join(w)
  PROVE  Inv'
<1> USE OwnerAssumption DEF Inv, Join
<1>1. Running(w) /\ held[w] = 0 /\ rc = held[Owner]
  BY DEF Running, Counts, TypeOK, Parties
<1>2. \A v \in Workers : Running(v) => v = w
  BY <1>1 DEF OneAtATime
<1>3. TypeOK' /\ OwnerLends'
  BY <1>2 DEF TypeOK, OwnerLends
<1>4. \A v \in Workers : ~Running(v)' /\ pc'[v] # "spawn" /\ held[v] = 0
  BY <1>1, <1>2 DEF TypeOK, Parties, Running, OneAtATime
<1>5. pc'[Owner] = "run"
  BY DEF TypeOK, Parties
<1>6. OneAtATime' /\ Counts'
  BY <1>1, <1>4, <1>5 DEF OneAtATime, Counts
<1>7. ReadsCurrent'
  BY DEF TypeOK, ReadsCurrent, Parties, Busy
<1> QED
  BY <1>3, <1>6, <1>7

(* A thread that is lent the object begins; the count stays.               *)
LEMMA LendInv ==
  ASSUME ~Overlapping, Inv, NEW w \in Workers, Lend(w)
  PROVE  Inv'
<1> USE OwnerAssumption DEF Inv, Lend
<1>1. Owner \in Parties /\ w \in Parties /\ w # Owner
  BY DEF Parties
<1>2. /\ Alone(Owner) /\ held[Owner] > 0
      /\ \A q \in Parties : q # Owner => pc[q] \notin Busy
  BY <1>1, ActsAlone
<1>3. \A v \in Workers : ~Running(v) /\ held[v] = 0
  BY <1>2 DEF OneAtATime, Alone, Running
<1>4. /\ \A v \in Workers : Running(v)' <=> v = w
      /\ pc'[Owner] = "run"
      /\ \A q \in Parties : q # w => pc'[q] = pc[q]
  BY <1>1, <1>3 DEF TypeOK, Parties, Running, MayUse
<1>5. TypeOK'
  BY DEF TypeOK
<1>6. OneAtATime'
  <2>1. \A v \in Workers : pc'[v] # "spawn"
    BY <1>1, <1>4 DEF TypeOK, OneAtATime, Parties
  <2> QED
    BY <1>3, <1>4, <2>1 DEF OneAtATime
<1>7. ReadsCurrent'
  BY <1>2, <1>4 DEF TypeOK, ReadsCurrent, Busy
<1>8. Counts'
  BY <1>3, <1>4 DEF TypeOK, Counts
<1>9. OwnerLends'
  BY <1>2, <1>3, <1>4 DEF OwnerLends, TypeOK
<1> QED
  BY <1>5, <1>6, <1>7, <1>8, <1>9

(* With the owner away while a thread runs the invariant holds throughout. *)
THEOREM SharedInvariant ==
  ASSUME ~Overlapping
  PROVE  Spec => []Inv
<1>1. ASSUME Inv, [Next]_vars PROVE Inv'
  <2>1. CASE UNCHANGED vars \/ Finished
    BY <1>1, <2>1
       DEF Finished, vars, Inv, TypeOK, OneAtATime, OwnerLends, ReadsCurrent, Counts, Running
  <2>2. ASSUME NEW p \in Parties, Copy(p) \/ Drop(p) \/ Retained(p) \/ Released(p) PROVE Inv'
    BY <1>1, <2>2, LoadInv, RetainedInv, ReleasedInv
  <2>3. ASSUME NEW w \in Workers, Spawn(w) \/ Lend(w) \/ Join(w) PROVE Inv'
    BY <1>1, <2>3, LoadInv, LendInv, JoinInv DEF Parties
  <2>4. CASE Spawned
    BY <1>1, <2>4, SpawnedInv
  <2> QED
    BY <1>1, <2>1, <2>2, <2>3, <2>4 DEF Next
<1> QED
  BY <1>1, InitInv, PTL DEF Spec

(* The last reference that goes takes the object with it, and no other, in *)
(* programs that hand the object to functions or closures they spawn; what *)
(* the spawn of a method does is not among the steps of Spec.              *)
THEOREM LastFrees ==
  ASSUME ~Overlapping
  PROVE  Spec => []FreedWithLast
<1>1. ASSUME Inv PROVE FreedWithLast
  <2>1. \A p \in Parties : held[p] \in Nat
    BY <1>1 DEF Inv, TypeOK
  <2>2. CASE \E w \in Workers : Running(w)
    <3> PICK w \in Workers : Running(w)
      BY <2>2
    <3>1. rc = held[Owner] + held[w] /\ \A v \in Workers : v # w => held[v] = 0
      BY <1>1 DEF Inv, Counts, OneAtATime
    <3>2. rc = 0 <=> held[Owner] = 0 /\ held[w] = 0
      BY <2>1, <3>1 DEF Parties
    <3> QED
      BY <1>1, <3>1, <3>2 DEF Inv, FreedWithLast, Parties
  <2>3. CASE ~\E w \in Workers : Running(w)
    <3>1. rc = held[Owner] /\ \A v \in Workers : held[v] = 0
      BY <1>1, <2>3 DEF Inv, Counts, OneAtATime
    <3> QED
      BY <1>1, <3>1 DEF Inv, FreedWithLast, Parties
  <2> QED
    BY <2>2, <2>3
<1> QED
  BY <1>1, SharedInvariant, PTL

================================================================================
