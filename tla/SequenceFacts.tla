----------------------------- MODULE SequenceFacts -----------------------------
(***************************************************************************)
(* What the operations of the stacks, queues and lists of the models do to *)
(* the set of their elements; and how a fold grows with its sequence, for  *)
(* any operator: a module that folds instantiates this one with its own.   *)
(***************************************************************************)
EXTENDS SequencesExt, SequenceTheorems, WellFoundedInduction, TLAPS

CONSTANT Op(_, _)

(* The elements of a sequence are those at the indices up to its length.   *)
LEMMA ToSetByIndex ==
  ASSUME NEW S, NEW s \in Seq(S)
  PROVE  /\ ToSet(s) = {s[i] : i \in 1..Len(s)}
         /\ ToSet(s) \subseteq S
         /\ ToSet(s) = {} <=> s = <<>>
<1>1. DOMAIN s = 1..Len(s) /\ Len(s) \in Nat
  BY LenProperties
<1>2. \A i \in 1..Len(s) : s[i] \in S
  BY ElementOfSeq
<1>3. s # <<>> => s[1] \in ToSet(s)
  <2>1. s # <<>> => 1 \in DOMAIN s
    BY <1>1, EmptySeq
  <2> QED
    BY <2>1 DEF ToSet
<1>4. s = <<>> => ToSet(s) = {}
  BY <1>1, EmptySeq DEF ToSet
<1> QED
  BY <1>1, <1>2, <1>3, <1>4 DEF ToSet

(* The empty sequence has no elements.                                     *)
LEMMA ToSetEmpty == ToSet(<<>>) = {}
BY ToSetByIndex, EmptySeq

(* Append adds its argument.                                               *)
LEMMA ToSetAppend ==
  ASSUME NEW S, NEW s \in Seq(S), NEW x \in S
  PROVE  ToSet(Append(s, x)) = ToSet(s) \cup {x}
<1> DEFINE t == Append(s, x)
<1>1. /\ t \in Seq(S) /\ Len(t) = Len(s) + 1 /\ Len(s) \in Nat
      /\ \A i \in 1..Len(s) : t[i] = s[i]
      /\ t[Len(s) + 1] = x
  BY AppendProperties, LenProperties
<1>2. ToSet(t) = {t[i] : i \in 1..Len(t)} /\ ToSet(s) = {s[i] : i \in 1..Len(s)}
  BY <1>1, ToSetByIndex
<1> HIDE DEF t
<1>3. ToSet(t) \subseteq ToSet(s) \cup {x}
  <2> SUFFICES ASSUME NEW i \in 1..Len(t) PROVE t[i] \in ToSet(s) \cup {x}
    BY <1>2
  <2>1. i \in 1..Len(s) \/ i = Len(s) + 1
    BY <1>1
  <2> QED
    BY <2>1, <1>1, <1>2
<1>4. ToSet(s) \cup {x} \subseteq ToSet(t)
  <2>1. \A i \in 1..Len(s) : i \in 1..Len(t) /\ s[i] = t[i]
    BY <1>1
  <2>2. Len(s) + 1 \in 1..Len(t)
    BY <1>1
  <2> QED
    BY <2>1, <2>2, <1>1, <1>2
<1> QED
  BY <1>3, <1>4 DEF t

(* A sequence that is not empty is its head and the rest.                  *)
LEMMA ToSetHeadTail ==
  ASSUME NEW S, NEW s \in Seq(S), s # <<>>
  PROVE  ToSet(s) = {Head(s)} \cup ToSet(Tail(s))
<1>1. /\ Len(s) \in Nat \ {0} /\ Tail(s) \in Seq(S) /\ Len(Tail(s)) = Len(s) - 1
      /\ \A i \in 1..Len(Tail(s)) : Tail(s)[i] = s[i + 1]
  BY EmptySeq, HeadTailProperties
<1>2. Head(s) = s[1]
  OBVIOUS
<1>3. /\ ToSet(s) = {s[i] : i \in 1..Len(s)}
      /\ ToSet(Tail(s)) = {Tail(s)[i] : i \in 1..Len(Tail(s))}
  BY <1>1, ToSetByIndex
<1>4. ToSet(s) \subseteq {Head(s)} \cup ToSet(Tail(s))
  <2> SUFFICES ASSUME NEW i \in 1..Len(s) PROVE s[i] \in {Head(s)} \cup ToSet(Tail(s))
    BY <1>3
  <2>1. i = 1 \/ (i - 1 \in 1..Len(Tail(s)) /\ i - 1 + 1 = i)
    BY <1>1
  <2> QED
    BY <2>1, <1>1, <1>2, <1>3
<1>5. {Head(s)} \cup ToSet(Tail(s)) \subseteq ToSet(s)
  <2>1. 1 \in 1..Len(s) /\ \A i \in 1..Len(Tail(s)) : i + 1 \in 1..Len(s)
    BY <1>1
  <2> QED
    BY <2>1, <1>1, <1>2, <1>3
<1> QED
  BY <1>4, <1>5

(* Front keeps all but the last.                                           *)
LEMMA FrontProperties ==
  ASSUME NEW S, NEW s \in Seq(S), s # <<>>
  PROVE  /\ Front(s) \in Seq(S) /\ Len(Front(s)) = Len(s) - 1
         /\ \A i \in 1..Len(s) - 1 : Front(s)[i] = s[i]
         /\ Last(s) \in S
         /\ ToSet(s) = ToSet(Front(s)) \cup {Last(s)}
<1>1. Len(s) \in Nat \ {0} /\ \A i \in 1..Len(s) : s[i] \in S
  BY EmptySeq, ElementOfSeq
<1>2. /\ Front(s) \in Seq(S) /\ Len(Front(s)) = Len(s) - 1
      /\ \A i \in 1..Len(s) - 1 : Front(s)[i] = s[i]
  <2> DEFINE n == Len(s) - 1
  <2>1. n \in Nat /\ \A i \in 1..n : s[i] \in S
    BY <1>1
  <2> HIDE DEF n
  <2>2. /\ SubSeq(s, 1, n) \in Seq(S)
        /\ Len(SubSeq(s, 1, n)) = n
        /\ \A i \in 1..n : SubSeq(s, 1, n)[i] = s[i]
    BY <2>1
  <2>3. Front(s) = SubSeq(s, 1, n)
    BY DEF Front, n
  <2>4. /\ Front(s) \in Seq(S) /\ Len(Front(s)) = n
        /\ \A i \in 1..n : Front(s)[i] = s[i]
    BY <2>2, <2>3, Zenon
  <2> QED
    BY <2>4 DEF n
<1>3. /\ ToSet(s) = {s[i] : i \in 1..Len(s)}
      /\ ToSet(Front(s)) = {Front(s)[i] : i \in 1..Len(Front(s))}
  BY <1>2, ToSetByIndex
<1>4. \A i \in 1..Len(s) : i = Len(s) \/ i \in 1..Len(s) - 1
  BY <1>1
<1>5. Len(s) \in 1..Len(s) /\ \A i \in 1..Len(s) - 1 : i \in 1..Len(s)
  BY <1>1
<1> QED
  BY <1>1, <1>2, <1>3, <1>4, <1>5 DEF Last

(* Sequences over a smaller set.                                           *)
LEMMA SeqByElements ==
  ASSUME NEW S, NEW R, NEW s \in Seq(R), \A i \in 1..Len(s) : s[i] \in S
  PROVE  s \in Seq(S)
<1>1. Len(s) \in Nat /\ DOMAIN s = 1..Len(s)
  BY LenProperties
<1>2. s = [i \in 1..Len(s) |-> s[i]]
  OBVIOUS
<1> QED
  BY <1>1, <1>2, IsASeq

LEMMA SeqOfSubset ==
  ASSUME NEW S, NEW R \in SUBSET S
  PROVE  Seq(R) \subseteq Seq(S)
BY SeqByElements, ElementOfSeq

(* What is added to the second of two sequences comes last of both.        *)
LEMMA ConcatAppend ==
  ASSUME NEW S, NEW s \in Seq(S), NEW t \in Seq(S), NEW x \in S
  PROVE  s \o Append(t, x) = Append(s \o t, x)
<1> DEFINE u == Append(t, x)
           v == s \o t
           w == Append(v, x)
<1>1. /\ u \in Seq(S) /\ Len(u) = Len(t) + 1 /\ u[Len(t) + 1] = x
      /\ \A i \in 1..Len(t) : u[i] = t[i]
  BY AppendProperties
<1>2. /\ v \in Seq(S) /\ Len(v) = Len(s) + Len(t)
      /\ \A i \in 1..Len(s) + Len(t) : v[i] = IF i <= Len(s) THEN s[i] ELSE t[i - Len(s)]
  BY ConcatProperties
<1>3. Len(s) \in Nat /\ Len(t) \in Nat
  BY LenProperties
<1> HIDE DEF u, v
<1>4. /\ w \in Seq(S) /\ Len(w) = Len(v) + 1 /\ w[Len(v) + 1] = x
      /\ \A i \in 1..Len(v) : w[i] = v[i]
  BY <1>2, AppendProperties
<1>5. /\ s \o u \in Seq(S) /\ Len(s \o u) = Len(s) + Len(u)
      /\ \A i \in 1..Len(s) + Len(u) : (s \o u)[i] = IF i <= Len(s) THEN s[i] ELSE u[i - Len(s)]
  BY <1>1, ConcatProperties
<1> HIDE DEF w
<1>6. PICK z : z = s \o u
  OBVIOUS
<1>0. PICK m \in Nat, n \in Nat : m = Len(s) /\ n = Len(t)
  BY <1>3
<1>7. ASSUME NEW i \in 1..m + n + 1 PROVE z[i] = w[i]
  <2>1. z[i] = IF i <= m THEN s[i] ELSE u[i - m]
    BY <1>0, <1>1, <1>5, <1>6
  <2>2. i <= m + n => w[i] = IF i <= m THEN s[i] ELSE t[i - m]
    <3>1. i <= m + n => i \in 1..Len(v) /\ i \in 1..Len(s) + Len(t)
      BY <1>0, <1>2
    <3> QED
      BY <3>1, <1>0, <1>2, <1>4
  <2>3. CASE i <= m
    BY <2>1, <2>2, <2>3
  <2>4. CASE i > m /\ i <= m + n
    <3>1. i - m \in 1..n
      BY <2>4
    <3>2. u[i - m] = t[i - m]
      BY <3>1, <1>0, <1>1
    <3> QED
      BY <2>1, <2>2, <2>4, <3>2
  <2>5. CASE i = m + n + 1
    <3>1. u[n + 1] = x /\ w[m + n + 1] = x
      BY <1>0, <1>1, <1>2, <1>4
    <3>2. i - m = n + 1 /\ ~(i <= m)
      BY <2>5
    <3> QED
      BY <2>1, <2>5, <3>1, <3>2
  <2> QED
    BY <2>3, <2>4, <2>5
<1>8. z \in Seq(S) /\ Len(z) = Len(w)
  BY <1>1, <1>2, <1>3, <1>4, <1>5, <1>6
<1>9. z = w
  <2>1. Len(z) = m + n + 1
    BY <1>0, <1>1, <1>5, <1>6
  <2> QED
    BY <1>4, <1>7, <1>8, <2>1, SeqEqual
<1> QED
  BY <1>6, <1>9 DEF u, v, w

LEMMA HeadThenTail ==
  ASSUME NEW S, NEW s \in Seq(S), s # <<>>
  PROVE  s = <<Head(s)>> \o Tail(s)
<1> DEFINE h == <<Head(s)>>
           t == Tail(s)
<1>1. /\ Head(s) \in S /\ t \in Seq(S) /\ Len(t) = Len(s) - 1
      /\ \A i \in 1..Len(t) : t[i] = s[i + 1]
  BY HeadTailProperties
<1>2. h \in Seq(S) /\ Len(h) = 1 /\ h[1] = s[1] /\ Len(s) \in Nat \ {0}
  BY <1>1, EmptySeq, LenProperties
<1> HIDE DEF h, t
<1>3. /\ h \o t \in Seq(S) /\ Len(h \o t) = Len(h) + Len(t)
      /\ \A i \in 1..Len(h) + Len(t) : (h \o t)[i] = IF i <= Len(h) THEN h[i] ELSE t[i - Len(h)]
  BY <1>1, <1>2, ConcatProperties
<1>4. PICK z : z = h \o t
  OBVIOUS
<1>5. ASSUME NEW i \in 1..Len(s) PROVE s[i] = z[i]
  <2>1. z[i] = IF i <= 1 THEN h[i] ELSE t[i - 1]
    BY <1>1, <1>2, <1>3, <1>4
  <2>2. i = 1 \/ (i > 1 /\ i - 1 \in 1..Len(t) /\ i - 1 + 1 = i)
    BY <1>1, <1>2
  <2> QED
    BY <1>1, <1>2, <2>1, <2>2
<1>6. z \in Seq(S) /\ Len(z) = Len(s)
  BY <1>1, <1>2, <1>3, <1>4
<1>7. s = z
  BY <1>5, <1>6, SeqEqual
<1> QED
  BY <1>4, <1>7 DEF h, t

LEMMA FirstIsPrefix ==
  ASSUME NEW S, NEW s \in Seq(S), NEW t \in Seq(S)
  PROVE  IsPrefix(s, s \o t)
<1>1. PICK z : z = s \o t
  OBVIOUS
<1>2. /\ z \in Seq(S) /\ Len(z) = Len(s) + Len(t)
      /\ \A i \in 1..Len(s) + Len(t) : z[i] = IF i <= Len(s) THEN s[i] ELSE t[i - Len(s)]
  BY <1>1, ConcatProperties
<1>3. PICK m \in Nat, n \in Nat : m = Len(s) /\ n = Len(t)
  BY LenProperties
<1>4. \A i \in 1..m : s[i] \in S /\ z[i] = s[i]
  BY <1>2, <1>3, ElementOfSeq
<1>5. SubSeq(s, 1, m) = SubSeq(z, 1, m)
  <2>1. SubSeq(s, 1, m) = [i \in 1..m |-> s[i]] /\ SubSeq(z, 1, m) = [i \in 1..m |-> z[i]]
    OBVIOUS
  <2> QED
    BY <1>4, <2>1
<1> QED
  BY <1>1, <1>2, <1>3, <1>5 DEF IsPrefix

(***************************************************************************)
(* A stack of frames, each frame a sequence of what a loop has still to    *)
(* take.                                                                   *)
(***************************************************************************)
InFrames(s) == UNION {ToSet(f) : f \in ToSet(s)}

(* A frame is added on top of the stack.                                   *)
LEMMA PushFrame ==
  ASSUME NEW S, NEW s \in Seq(Seq(S)), NEW f \in Seq(S)
  PROVE  /\ Append(s, f) \in Seq(Seq(S))
         /\ Len(Append(s, f)) = Len(s) + 1
         /\ ToSet(Append(s, f)) = ToSet(s) \cup {f}
         /\ InFrames(Append(s, f)) = InFrames(s) \cup ToSet(f)
<1> DEFINE Frames == Seq(S)
<1>1. s \in Seq(Frames) /\ f \in Frames
  OBVIOUS
<1> HIDE DEF Frames
<1>2. /\ Append(s, f) \in Seq(Frames)
      /\ Len(Append(s, f)) = Len(s) + 1
      /\ ToSet(Append(s, f)) = ToSet(s) \cup {f}
  BY <1>1, AppendProperties, ToSetAppend
<1>3. InFrames(Append(s, f)) = InFrames(s) \cup ToSet(f)
  BY <1>2 DEF InFrames
<1> QED
  BY <1>2, <1>3 DEF Frames

(* The stack of one frame.                                                 *)
LEMMA OneFrame ==
  ASSUME NEW S, NEW f \in Seq(S)
  PROVE  /\ <<f>> \in Seq(Seq(S)) /\ Len(<<f>>) = 1 /\ Last(<<f>>) = f
         /\ ToSet(<<f>>) = {f}
         /\ InFrames(<<f>>) = ToSet(f)
<1> DEFINE e == <<>>
<1>1. e \in Seq(Seq(S)) /\ ToSet(e) = {} /\ InFrames(e) = {}
  BY EmptySeq, ToSetEmpty DEF InFrames
<1>2. <<f>> = Append(e, f) /\ Len(<<f>>) = 1 /\ Last(<<f>>) = f
  BY DEF Last
<1> HIDE DEF e
<1>3. Append(e, f) \in Seq(Seq(S))
  BY <1>1, PushFrame
<1>4. ToSet(Append(e, f)) = {f} /\ InFrames(Append(e, f)) = ToSet(f)
  <2>1. /\ ToSet(Append(e, f)) = ToSet(e) \cup {f}
        /\ InFrames(Append(e, f)) = InFrames(e) \cup ToSet(f)
    <3>1. \A g \in Seq(Seq(S)) : /\ ToSet(Append(g, f)) = ToSet(g) \cup {f}
                                /\ InFrames(Append(g, f)) = InFrames(g) \cup ToSet(f)
      BY PushFrame
    <3> QED
      BY <1>1, <3>1
  <2> QED
    BY <1>1, <2>1
<1> QED
  BY <1>2, <1>3, <1>4

(* A turn of the top frame's loop takes its first element.                 *)
LEMMA TurnFrame ==
  ASSUME NEW S, NEW s \in Seq(Seq(S)), s # <<>>, Last(s) # <<>>
  PROVE  /\ Append(Front(s), Tail(Last(s))) \in Seq(Seq(S))
         /\ Len(Append(Front(s), Tail(Last(s)))) = Len(s)
         /\ Head(Last(s)) \in S
         /\ InFrames(s) = InFrames(Append(Front(s), Tail(Last(s)))) \cup {Head(Last(s))}
<1> DEFINE l == Last(s)
           g == Front(s)
<1>1. /\ g \in Seq(Seq(S)) /\ l \in Seq(S)
      /\ ToSet(s) = ToSet(g) \cup {l}
      /\ Len(g) = Len(s) - 1 /\ Len(s) \in Nat
  BY FrontProperties, LenProperties
<1> HIDE DEF l, g
<1>2. /\ Tail(l) \in Seq(S) /\ Head(l) \in S
      /\ ToSet(l) = {Head(l)} \cup ToSet(Tail(l))
  BY <1>1, HeadTailProperties, ToSetHeadTail DEF l
<1> DEFINE t == Tail(l)
<1> HIDE DEF t
<1>3. t \in Seq(S) /\ ToSet(l) = {Head(l)} \cup ToSet(t)
  BY <1>2 DEF t
<1>4. /\ Append(g, t) \in Seq(Seq(S))
      /\ Len(Append(g, t)) = Len(g) + 1
      /\ InFrames(Append(g, t)) = InFrames(g) \cup ToSet(t)
  BY <1>1, <1>3, PushFrame
<1>5. InFrames(s) = InFrames(g) \cup ToSet(l)
  BY <1>1 DEF InFrames
<1>6. Len(g) + 1 = Len(s)
  BY <1>1
<1>7. InFrames(s) = InFrames(Append(g, t)) \cup {Head(l)}
  BY <1>3, <1>4, <1>5
<1> QED
  BY <1>2, <1>4, <1>6, <1>7 DEF l, g, t

(* A loop that is done leaves the stack.                                   *)
LEMMA PopFrame ==
  ASSUME NEW S, NEW s \in Seq(Seq(S)), s # <<>>, Last(s) = <<>>
  PROVE  Front(s) \in Seq(Seq(S)) /\ InFrames(s) = InFrames(Front(s))
<1>1. Front(s) \in Seq(Seq(S)) /\ ToSet(s) = ToSet(Front(s)) \cup {<<>>}
  BY FrontProperties
<1> QED
  BY <1>1, ToSetEmpty DEF InFrames

--------------------------------------------------------------------------------
(***************************************************************************)
(* Folds.  What is proved by induction is put as a set: that of the        *)
(* naturals for which it holds.                                            *)
(***************************************************************************)

(* A set with 0 and the successor of each natural in it holds them all.    *)
LEMMA InductionOverNat ==
  ASSUME NEW T, 0 \in T, \A n \in Nat : n \in T => n + 1 \in T
  PROVE  Nat \subseteq T
<1> DEFINE Less == {ss \in Nat \X Nat : ss[1] < ss[2]}
           Out == Nat \ T
<1>1. IsWellFoundedOn(Less, Nat)
  BY NatLessThanWellFounded DEF OpToRel
<1>2. SUFFICES ASSUME Out # {} PROVE FALSE
  OBVIOUS
<1>3. PICK x \in Out : \A y \in Out : ~(<<y, x>> \in Less)
  <2> Out \subseteq Nat
    OBVIOUS
  <2> HIDE DEF Less, Out
  <2> QED
    BY <1>1, <1>2, WFMin
<1>4. x \in Nat \ {0} /\ x - 1 \in Nat
  BY <1>3
<1>5. <<x - 1, x>> \in Less
  BY <1>4
<1>6. x - 1 \in T
  <2> HIDE DEF Less
  <2> QED
    BY <1>3, <1>4, <1>5
<1> QED
  BY <1>3, <1>4, <1>6

(* A set of naturals has a least.                                          *)
LEMMA LeastOfNat ==
  ASSUME NEW D \in SUBSET Nat, D # {}
  PROVE  \E d \in D : \A e \in D : d <= e
<1> DEFINE Less == {ss \in Nat \X Nat : ss[1] < ss[2]}
<1>1. IsWellFoundedOn(Less, Nat)
  BY NatLessThanWellFounded DEF OpToRel
<1>2. PICK x \in D : \A y \in D : ~(<<y, x>> \in Less)
  <2> HIDE DEF Less
  <2> QED
    BY <1>1, WFMin
<1>3. ASSUME NEW y \in D PROVE x <= y
  <2>1. ~(<<y, x>> \in Less) /\ x \in Nat /\ y \in Nat
    BY <1>2
  <2> QED
    BY <2>1
<1> QED
  BY <1>3

LEMMA GreatestUpTo ==
  ASSUME NEW n \in Nat, NEW D \in SUBSET (0..n), D # {}
  PROVE  \E d \in D : \A e \in D : e <= d
<1> DEFINE R == {n - d : d \in D}
<1>1. R \in SUBSET Nat /\ R # {}
  <2>1. \A d \in D : n - d \in Nat
    OBVIOUS
  <2>2. PICK d \in D : TRUE
    OBVIOUS
  <2>3. n - d \in R
    OBVIOUS
  <2> QED
    BY <2>1, <2>3
<1>2. PICK r \in R : \A q \in R : r <= q
  <2> HIDE DEF R
  <2> QED
    BY <1>1, LeastOfNat
<1>3. PICK d \in D : r = n - d
  BY <1>2
<1>4. ASSUME NEW e \in D PROVE e <= d
  <2>1. n - d <= n - e /\ n - e \in Nat
    BY <1>2, <1>3
  <2> QED
    BY <2>1
<1> QED
  BY <1>4

(* A set with the empty sequence and each longer one of a sequence in it   *)
(* holds them all.                                                         *)
LEMMA InductionOverSeq ==
  ASSUME NEW S, NEW T, <<>> \in T,
         \A s \in Seq(S) : \A x \in S : s \in T => Append(s, x) \in T
  PROVE  Seq(S) \subseteq T
<1> DEFINE N == {n \in Nat : \A s \in Seq(S) : Len(s) = n => s \in T}
<1>1. 0 \in N
  BY EmptySeq
<1>2. ASSUME NEW n \in Nat, n \in N PROVE n + 1 \in N
  <2>1. SUFFICES ASSUME NEW s \in Seq(S), Len(s) = n + 1 PROVE s \in T
    OBVIOUS
  <2>2. s # <<>>
    BY <2>1, EmptySeq
  <2>3. /\ Front(s) \in Seq(S) /\ Len(Front(s)) = n /\ Last(s) \in S
        /\ \A i \in 1..n : Front(s)[i] = s[i]
    BY <2>1, <2>2, FrontProperties
  <2>4. s = Append(Front(s), Last(s))
    <3> DEFINE t == Append(Front(s), Last(s))
    <3>1. t \in Seq(S) /\ Len(t) = n + 1 /\ t[n + 1] = Last(s) /\ \A i \in 1..n : t[i] = s[i]
      BY <2>3, AppendProperties
    <3>2. Last(s) = s[n + 1]
      BY <2>1 DEF Last
    <3> HIDE DEF t
    <3>3. \A i \in 1..n+1 : i = n + 1 \/ i \in 1..n
      OBVIOUS
    <3>4. s = t
      BY <2>1, <3>1, <3>2, <3>3, SeqEqual
    <3> QED
      BY <3>4 DEF t
  <2>5. Front(s) \in T
    BY <1>2, <2>3
  <2> QED
    BY <2>3, <2>4, <2>5
<1>3. Nat \subseteq N
  <2> HIDE DEF N
  <2> QED
    BY <1>1, <1>2, InductionOverNat
<1> QED
  BY <1>3, LenProperties

(* g is the fold of f by its sets of indices up to n.                      *)
Folds(g, base, f, n) ==
  g = [s \in SUBSET (1..n) |-> IF s = {} THEN base ELSE Op(g[s \ {Max(s)}], f[Max(s)])]

(* FoldLeft(Op, base, f), which each instance shows of its own operator.   *)
Folded(base, f) ==
  LET iter[s \in SUBSET DOMAIN f] ==
        IF s = {} THEN base ELSE Op(iter[s \ {Max(s)}], f[Max(s)])
  IN  iter[DOMAIN f]

LEMMA MaxOfUpTo ==
  ASSUME NEW m \in Nat, NEW s \in SUBSET (1..m+1), m + 1 \in s
  PROVE  Max(s) = m + 1
<1>1. \A x \in s : x \in Int /\ m + 1 >= x
  OBVIOUS
<1>2. \A x \in s : (\A y \in s : x >= y) => x = m + 1
  BY <1>1
<1> QED
  BY <1>1, <1>2 DEF Max

(* The recursive definition of a fold has a solution.                      *)
LEMMA FoldExists ==
  ASSUME NEW base, NEW f, NEW m \in Nat
  PROVE  \E g : Folds(g, base, f, m)
<1> DEFINE E(n) == \E g : Folds(g, base, f, n)
           T == {n \in Nat : E(n)}
<1>1. 0 \in T
  <2> DEFINE g == [s \in {{}} |-> base]
  <2>1. SUBSET (1..0) = {{}}
    OBVIOUS
  <2>2. Folds(g, base, f, 0)
    BY <2>1 DEF Folds
  <2> HIDE DEF g
  <2> QED
    BY <2>2
<1>2. ASSUME NEW n \in Nat, n \in T PROVE n + 1 \in T
  <2>1. PICK g : Folds(g, base, f, n)
    BY <1>2
  <2> DEFINE h == [s \in SUBSET (1..n+1) |-> IF n + 1 \in s THEN Op(g[s \ {n + 1}], f[n + 1])
                                             ELSE g[s]]
             k == [s \in SUBSET (1..n+1) |-> IF s = {} THEN base
                                             ELSE Op(h[s \ {Max(s)}], f[Max(s)])]
  <2>2. ASSUME NEW s \in SUBSET (1..n+1) PROVE k[s] = h[s]
    <3>1. CASE n + 1 \in s
      <4>1. Max(s) = n + 1
        BY <3>1, MaxOfUpTo
      <4>2. s \ {n + 1} \in SUBSET (1..n+1) /\ n + 1 \notin s \ {n + 1}
        OBVIOUS
      <4>3. h[s \ {n + 1}] = g[s \ {n + 1}]
        BY <4>2
      <4> QED
        BY <3>1, <4>1, <4>3
    <3>2. CASE n + 1 \notin s
      <4>1. s \in SUBSET (1..n)
        BY <3>2
      <4>2. CASE s = {}
        BY <2>1, <4>1, <4>2, <3>2 DEF Folds
      <4>3. CASE s # {}
        <5>1. /\ s \ {Max(s)} \in SUBSET (1..n+1)
              /\ n + 1 \notin s \ {Max(s)}
          BY <4>1, <3>2
        <5>2. h[s \ {Max(s)}] = g[s \ {Max(s)}] /\ h[s] = g[s]
          BY <5>1, <3>2
        <5>3. g[s] = Op(g[s \ {Max(s)}], f[Max(s)])
          BY <2>1, <4>1, <4>3 DEF Folds
        <5> QED
          BY <5>2, <5>3, <4>3
      <4> QED
        BY <4>2, <4>3
    <3> QED
      BY <3>1, <3>2
  <2>3. /\ DOMAIN h = SUBSET (1..n+1) /\ h = [s \in DOMAIN h |-> h[s]]
        /\ DOMAIN k = SUBSET (1..n+1) /\ k = [s \in DOMAIN k |-> k[s]]
    OBVIOUS
  <2>4. h = k
    <3> HIDE DEF h, k
    <3> QED
      BY <2>2, <2>3
  <2>5. Folds(h, base, f, n + 1)
    BY <2>4 DEF Folds
  <2>6. E(n + 1)
    <3> HIDE DEF h
    <3> QED
      BY <2>5
  <2> HIDE DEF E
  <2> QED
    BY <2>6
<1>3. Nat \subseteq T
  <2> HIDE DEF T
  <2> QED
    BY <1>1, <1>2, InductionOverNat
<1> QED
  BY <1>3

(* Each solution takes one element after the other.                        *)
LEMMA FoldsStep ==
  ASSUME NEW base, NEW f, NEW n \in Nat, NEW g, Folds(g, base, f, n)
  PROVE  g[1..0] = base /\ \A k \in Nat : k < n => g[1..k+1] = Op(g[1..k], f[k+1])
<1>1. g[1..0] = base
  BY DEF Folds
<1>2. ASSUME NEW k \in Nat, k < n PROVE g[1..k+1] = Op(g[1..k], f[k+1])
  <2>1. 1..k+1 \in SUBSET (1..n) /\ 1..k+1 # {} /\ k + 1 \in 1..k+1
    BY <1>2
  <2>2. Max(1..k+1) = k + 1
    BY <2>1, MaxOfUpTo
  <2>3. (1..k+1) \ {k+1} = 1..k
    OBVIOUS
  <2> QED
    BY <2>1, <2>2, <2>3 DEF Folds
<1> QED
  BY <1>1, <1>2

LEMMA FoldedIs ==
  ASSUME NEW base, NEW f, NEW n \in Nat, DOMAIN f = 1..n
  PROVE  \E g : Folds(g, base, f, n) /\ Folded(base, f) = g[1..n]
<1> DEFINE P(g) == Folds(g, base, f, n)
           g == CHOOSE g : P(g)
<1>1. P(g)
  <2>1. \E h : P(h)
    BY FoldExists
  <2> HIDE DEF P
  <2> QED
    BY <2>1
<1>2. Folded(base, f) = g[1..n]
  BY DEF Folded, Folds
<1> QED
  BY <1>1, <1>2

(* The fold of an empty sequence.                                          *)
LEMMA FoldedEmpty ==
  ASSUME NEW base
  PROVE  Folded(base, <<>>) = base
<1>1. DOMAIN <<>> = 1..0
  OBVIOUS
<1>2. PICK g : Folds(g, base, <<>>, 0) /\ Folded(base, <<>>) = g[1..0]
  BY <1>1, FoldedIs
<1> QED
  BY <1>2, FoldsStep

(* The fold of a longer sequence is one step more.                         *)
LEMMA FoldedAppend ==
  ASSUME NEW base, NEW S, NEW f \in Seq(S), NEW x \in S
  PROVE  Folded(base, Append(f, x)) = Op(Folded(base, f), x)
<1>0. PICK n \in Nat : n = Len(f)
  BY LenProperties
<1>1. PICK t : t = Append(f, x)
  OBVIOUS
<1>2. /\ DOMAIN f = 1..n /\ DOMAIN t = 1..n+1 /\ t[n + 1] = x
      /\ \A i \in 1..n : t[i] = f[i]
  BY <1>0, <1>1, AppendProperties, LenProperties
<1>3. PICK g : Folds(g, base, f, n) /\ Folded(base, f) = g[1..n]
  BY <1>2, FoldedIs
<1>4. PICK h : Folds(h, base, t, n + 1) /\ Folded(base, t) = h[1..n+1]
  BY <1>2, FoldedIs
<1>5. g[1..0] = base /\ \A k \in Nat : k < n => g[1..k+1] = Op(g[1..k], f[k+1])
  BY <1>3, FoldsStep
<1>6. h[1..0] = base /\ \A k \in Nat : k < n + 1 => h[1..k+1] = Op(h[1..k], t[k+1])
  BY <1>4, FoldsStep
<1> DEFINE T == {k \in Nat : k <= n => g[1..k] = h[1..k]}
<1>7. 0 \in T
  BY <1>5, <1>6
<1>8. ASSUME NEW k \in Nat, k \in T PROVE k + 1 \in T
  <2>1. CASE k + 1 <= n
    <3>1. k < n /\ k < n + 1 /\ k + 1 \in 1..n
      BY <2>1
    <3> QED
      BY <1>8, <1>5, <1>6, <1>2, <3>1
  <2> QED
    BY <2>1
<1>9. Nat \subseteq T
  <2> HIDE DEF T
  <2> QED
    BY <1>7, <1>8, InductionOverNat
<1>10. g[1..n] = h[1..n]
  BY <1>9
<1>11. h[1..n+1] = Op(h[1..n], x)
  BY <1>6, <1>2
<1> QED
  BY <1>1, <1>3, <1>4, <1>10, <1>11

================================================================================
