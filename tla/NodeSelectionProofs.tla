------------------------- MODULE NodeSelectionProofs -------------------------
(***************************************************************************)
(* The nested loop of tolerates, left by break or return, asks what the    *)
(* scheduler asks, for tolerations and taints of any number.               *)
(***************************************************************************)
EXTENDS NodeSelection, WellFoundedInduction, TLAPS

(* A set of natural numbers has a least one.                               *)
LEMMA LeastNumber ==
    ASSUME NEW T \in SUBSET Nat, T # {}
    PROVE  \E m \in T : \A k \in T : ~(k < m)
<1> DEFINE R == OpToRel(<, Nat)
<1>1. IsWellFoundedOn(R, Nat)
  BY NatLessThanWellFounded
<1>2. \A i, j \in Nat : i < j => <<i, j>> \in R
  BY DEF OpToRel
<1> HIDE DEF R
<1>3. PICK m \in T : \A k \in T : ~(<<k, m>> \in R)
  <2>1. T \subseteq Nat
    OBVIOUS
  <2>2. QED
    BY <1>1, <2>1, WFMin
<1>4. QED
  BY <1>2, <1>3

(* What a loop finds that goes on with the next index after each that is   *)
(* not in S, and stops with the last: whether one is, from i on.           *)
LEMMA LoopFinds ==
    ASSUME NEW n \in Nat \ {0}, NEW S, NEW found,
           found = [i \in 1 .. n |-> i \in S \/ (i # n /\ found[i + 1])]
    PROVE  found[1] <=> \E k \in 1 .. n : k \in S
<1>1. \A i \in 1 .. n : found[i] = (i \in S \/ (i # n /\ found[i + 1]))
  OBVIOUS
<1>2. \A i \in 1 .. n : found[i] \in BOOLEAN
  BY <1>1
(* D: the distances from n at which the loop is wrong about what follows.  *)
<1> DEFINE From(i) == \E k \in i .. n : k \in S
           D == {d \in 0 .. n - 1 : found[n - d] # From(n - d)}
<1>3. ASSUME D # {} PROVE FALSE
  <2>1. PICK d \in D : \A e \in D : ~(e < d)
    <3>1. D \in SUBSET Nat
      <4> HIDE DEF From
      <4>1. QED
        OBVIOUS
    <3> HIDE DEF D
    <3>2. QED
      BY <1>3, <3>1, LeastNumber
  <2>2. d \in 0 .. n - 1 /\ n - d \in 1 .. n
    OBVIOUS
  <2>3. From(n - d) <=> n - d \in S \/ (n - d # n /\ From(n - d + 1))
    <3> DEFINE i == n - d
    <3>1. i \in 1 .. n
      BY <2>2
    <3> HIDE DEF i
    <3>2. i .. n = {i} \cup (i + 1) .. n
      BY <3>1
    <3>3. i = n => (i + 1) .. n = {}
      OBVIOUS
    <3>4. From(i) <=> i \in S \/ (i # n /\ From(i + 1))
      BY <3>2, <3>3
    <3>5. QED
      BY <3>4 DEF i
  <2>4. CASE d = 0
    <3>1. found[n - d] <=> From(n - d)
      <4>1. n - d = n
        BY <2>4
      <4>2. found[n - d] <=> n - d \in S
        BY <1>1, <2>2, <4>1
      <4>3. From(n - d) <=> n - d \in S
        BY <2>3, <4>1
      <4>4. QED
        BY <4>2, <4>3
    <3>2. QED
      BY <1>2, <2>1, <2>2, <3>1
  <2>5. CASE d # 0
    <3>1. d - 1 \in 0 .. n - 1 /\ d - 1 < d /\ n - (d - 1) = n - d + 1
      BY <2>2, <2>5
    <3>2. d - 1 \notin D
      BY <2>1, <3>1
    <3>3. found[n - d + 1] = From(n - d + 1)
      BY <3>1, <3>2
    <3>4. found[n - d] <=> From(n - d)
      BY <1>1, <1>2, <2>2, <2>3, <2>5, <3>3
    <3>5. QED
      BY <1>2, <2>1, <2>2, <3>4
  <2>6. QED
    BY <2>4, <2>5
<1>4. n - 1 \in 0 .. n - 1 /\ n - (n - 1) = 1
  OBVIOUS
<1>5. found[1] = From(1)
  BY <1>3, <1>4
<1>6. QED
  BY <1>5

(* The inner loop finds a toleration of the taint if there is one.         *)
LEMMA InnerLoop ==
    ASSUME NEW ts, NEW taint, Len(ts) \in Nat \ {0}
    PROVE  AnyTolerates(ts, taint)
              <=> \E k \in 1 .. Len(ts) : ToleratesTaint(ts[k], taint)
<1> SUFFICES ASSUME NEW n \in Nat \ {0}, n = Len(ts)
             PROVE  AnyTolerates(ts, taint)
                       <=> \E k \in 1 .. n : ToleratesTaint(ts[k], taint)
  OBVIOUS
<1> DEFINE S == {k \in 1 .. n : ToleratesTaint(ts[k], taint)}
           Eq(f) == f = [i \in 1 .. n |-> i \in S \/ (i # n /\ f[i + 1])]
           From(i) == \E k \in i .. n : k \in S
           f == [i \in 1 .. n |-> From(i)]
           Loop(g) == g = [i \in 1 .. n |-> ToleratesTaint(ts[i], taint)
                                               \/ (i # n /\ g[i + 1])]
           loop == CHOOSE g : Loop(g)
<1>1. AnyTolerates(ts, taint) = loop[1]
  BY DEF AnyTolerates
<1>2. \A g : Loop(g) <=> Eq(g)
  OBVIOUS
<1> HIDE DEF Loop
<1>3. Eq(f)
  <2> HIDE DEF S
  <2>1. ASSUME NEW i \in 1 .. n
        PROVE  From(i) <=> (i \in S \/ (i # n /\ f[i + 1]))
    <3>1. i .. n = {i} \cup (i + 1) .. n
      OBVIOUS
    <3>2. i = n => (i + 1) .. n = {}
      OBVIOUS
    <3>3. i # n => i + 1 \in 1 .. n
      OBVIOUS
    <3>4. From(i) <=> i \in S \/ (i # n /\ From(i + 1))
      BY <3>1, <3>2
    <3>5. i # n => f[i + 1] = From(i + 1)
      BY <3>3
    <3> HIDE DEF From
    <3>6. QED
      BY <3>4, <3>5
  <2>2. QED
    BY <2>1
<1> HIDE DEF f, S
<1>4. Eq(loop)
  BY <1>2, <1>3
<1> HIDE DEF loop
<1>5. loop[1] <=> \E k \in 1 .. n : k \in S
  BY <1>4, LoopFinds
<1>6. QED
  BY <1>1, <1>5 DEF S

(* tolerates, for all taints: each is tolerated by one of the tolerations. *)
THEOREM ToleratesMeaning ==
    ASSUME NEW ts, NEW taints, Len(ts) \in Nat
    PROVE  tolerates(ts, taints)
              <=> \A i \in 1 .. Len(taints) : \E k \in 1 .. Len(ts) :
                     ToleratesTaint(ts[k], taints[i])
<1>1. CASE Len(ts) = 0
  BY <1>1 DEF tolerates
<1>2. CASE Len(ts) # 0
  BY <1>2, InnerLoop DEF tolerates
<1>3. QED
  BY <1>1, <1>2

(* A node that tolerates accepts is one that the scheduler accepts.        *)
THEOREM ToleratedIsSchedulable ==
    ASSUME NEW ts, NEW taints, Len(ts) \in Nat, tolerates(ts, taints)
    PROVE  Schedulable(ts, taints)
BY ToleratesMeaning DEF Schedulable

=============================================================================
