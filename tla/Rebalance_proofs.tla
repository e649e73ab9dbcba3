--------------------------- MODULE Rebalance_proofs ---------------------------
(***************************************************************************)
(* Proofs about Rebalance: its types, that a rolling plan counts every     *)
(* candidate once, and that a Node which is deleted has no pods left.      *)
(*                                                                         *)
(* The helpers of the plan are folds of the community modules.  What they  *)
(* return is proved for lists of any length by induction on the part of    *)
(* the list that has been folded (PrefixInduction).                        *)
(***************************************************************************)
EXTENDS Rebalance, FiniteSetTheorems, SequenceTheorems, WellFoundedInduction, TLAPS

-----------------------------------------------------------------------------
(* Induction and folds.                                                    *)

\* What holds of 0, and of k if of k - 1, holds up to n.
LEMMA PrefixInduction ==
  ASSUME NEW n \in Nat, NEW S, 0 \in S, \A k \in 1..n : k - 1 \in S => k \in S
  PROVE  0..n \subseteq S
<1> DEFINE T == 0..n \ S
           R == OpToRel(<, Nat)
<1> SUFFICES ASSUME T # {} PROVE FALSE
  OBVIOUS
<1>1. IsWellFoundedOn(R, Nat)
  BY NatLessThanWellFounded
<1>2. T \subseteq Nat
  OBVIOUS
<1> HIDE DEF R
<1>3. PICK k \in T : \A i \in T : ~ (<<i, k>> \in R)
  BY <1>1, <1>2, WFMin
<1>4. k \in 1..n /\ k - 1 \in 0..n
  BY <1>3
<1>5. <<k - 1, k>> \in R
  BY <1>4 DEF R, OpToRel
<1> QED
  BY <1>3, <1>4, <1>5

\* The maximum of a set of numbers is its upper bound in it.
LEMMA MaxIs ==
  ASSUME NEW s \in SUBSET Int, NEW x \in s, \A y \in s : y <= x
  PROVE  Max(s) = x
<1> DEFINE IsMax(z) == z \in s /\ \A y \in s : z >= y
<1>1. IsMax(x)
  OBVIOUS
<1>2. Max(s) = CHOOSE z : IsMax(z)
  BY DEF Max
<1>3. IsMax(Max(s))
  BY <1>1, <1>2
<1>4. Max(s) >= x /\ x >= Max(s) /\ Max(s) \in Int /\ x \in Int
  BY <1>1, <1>3
<1> QED
  BY <1>4

\* The last index of a prefix.
LEMMA LastOfPrefix ==
  ASSUME NEW k \in Nat \ {0}
  PROVE  1..k # {} /\ Max(1..k) = k /\ 1..k \ {k} = 1..k-1
<1>1. k \in 1..k /\ 1..k \in SUBSET Int /\ \A y \in 1..k : y <= k
  OBVIOUS
<1>2. Max(1..k) = k
  BY <1>1, MaxIs
<1> QED
  BY <1>1, <1>2

\* A set of indices, not empty, has its maximum in it.
LEMMA MaxInSet ==
  ASSUME NEW n \in Nat, NEW s \in SUBSET (1..n), s # {}
  PROVE  Max(s) \in s
<1> DEFINE S == {m \in 0..n : \A t \in SUBSET (1..m) : t # {} => Max(t) \in t}
<1>1. 0 \in S
  <2>1. \A t \in SUBSET (1..0) : t = {}
    OBVIOUS
  <2>2. \A t \in SUBSET (1..0) : t # {} => Max(t) \in t
    BY <2>1
  <2>3. 0 \in 0..n
    OBVIOUS
  <2> QED
    BY <2>2, <2>3
<1>2. ASSUME NEW m \in 1..n, m - 1 \in S PROVE m \in S
  <2>1. ASSUME NEW t \in SUBSET (1..m), m \in t PROVE Max(t) \in t
    BY <2>1, MaxIs
  <2>2. ASSUME NEW t \in SUBSET (1..m), m \notin t PROVE t \in SUBSET (1..m - 1)
    BY <2>2
  <2> QED
    BY <1>2, <2>1, <2>2
<1>3. 0..n \subseteq S
  <2> HIDE DEF S
  <2> QED
    BY <1>1, <1>2, PrefixInduction
<1> QED
  BY <1>3

\* f folds the sets of the first m numbers, always taking the greatest first.
Folded(f, A, base, step, m) ==
  /\ f \in [SUBSET (1..m) -> A]
  /\ \A s \in SUBSET (1..m) :
       f[s] = IF s = {} THEN base ELSE step[<<f[s \ {Max(s)}], Max(s)>>]

\* There is such a fold: it is built from the one for a number less.
LEMMA FoldExists ==
  ASSUME NEW A, NEW base \in A, NEW n \in Nat, NEW step \in [A \X (1..n) -> A]
  PROVE  \E f : Folded(f, A, base, step, n)
<1> DEFINE S == {m \in 0..n : \E f : Folded(f, A, base, step, m)}
<1>1. 0 \in S
  <2>1. Folded([s \in SUBSET (1..0) |-> base], A, base, step, 0)
    BY DEF Folded
  <2> QED
    BY <2>1
<1>2. ASSUME NEW m \in 1..n, m - 1 \in S PROVE m \in S
  <2>1. PICK f : Folded(f, A, base, step, m - 1)
    BY <1>2
  <2> DEFINE g == [s \in SUBSET (1..m) |->
                     IF m \in s THEN step[<<f[s \ {m}], m>>] ELSE f[s]]
  <2>2. ASSUME NEW s \in SUBSET (1..m)
        PROVE  /\ g[s] \in A
               /\ g[s] = IF s = {} THEN base ELSE step[<<g[s \ {Max(s)}], Max(s)>>]
    <3>1. CASE m \in s
      <4>1. Max(s) = m
        BY <3>1, MaxIs
      <4>2. s \ {m} \in SUBSET (1..m - 1)
        OBVIOUS
      <4>3. f[s \ {m}] \in A /\ g[s \ {m}] = f[s \ {m}]
        BY <2>1, <4>2 DEF Folded
      <4> QED
        BY <3>1, <4>1, <4>3
    <3>2. CASE m \notin s
      <4>0. \A k \in 1..m : k # m => k \in 1..m - 1
        OBVIOUS
      <4>1. s \in SUBSET (1..m - 1) /\ s \ {Max(s)} \in SUBSET (1..m - 1)
        BY <3>2, <4>0
      <4>2. g[s] = f[s] /\ g[s \ {Max(s)}] = f[s \ {Max(s)}]
        BY <3>2, <4>1
      <4> QED
        BY <2>1, <4>1, <4>2 DEF Folded
    <3> QED
      BY <3>1, <3>2
  <2>3. Folded(g, A, base, step, m)
    BY <2>2 DEF Folded
  <2> QED
    BY <2>3
<1>3. n \in S
  <2> HIDE DEF S
  <2>1. 0..n \subseteq S
    BY <1>1, <1>2, PrefixInduction
  <2> QED
    BY <2>1
<1> QED
  BY <1>3

\* Intermediate results of the merge.
Joined(nodes) == [merged : Seq(Seq(nodes)), current : Seq(nodes)]

\* What a step of the merge makes of lists of Nodes.
LEMMA JoinType ==
  ASSUME NEW nodes, NEW acc \in Joined(nodes), NEW batch \in Seq(nodes), NEW max
  PROVE  Join(acc, batch, max) \in Joined(nodes)
<1>1. acc.merged \in Seq(Seq(nodes)) /\ acc.current \in Seq(nodes)
  BY DEF Joined
<1>2. Append(acc.merged, acc.current) \in Seq(Seq(nodes)) /\ acc.current \o batch \in Seq(nodes)
  BY <1>1, AppendProperties, ConcatProperties
<1>3. \A x \in Seq(nodes) : [acc EXCEPT !.current = x] \in Joined(nodes)
  BY DEF Joined
<1> QED
  BY <1>1, <1>2, <1>3 DEF Join, Joined

\* The merge of all batches goes through one intermediate result for each prefix.
LEMMA MergedSteps ==
  ASSUME NEW nodes, NEW batches \in Seq(Seq(nodes)), NEW max
  PROVE  \E acc \in [0..Len(batches) -> Joined(nodes)] :
           /\ acc[0] = NothingMerged
           /\ \A k \in 1..Len(batches) : acc[k] = Join(acc[k - 1], batches[k], max)
           /\ Merged(batches, max) = acc[Len(batches)]
<1> DEFINE n == Len(batches)
           A == Joined(nodes)
           step == [x \in A \X (1..n) |-> Join(x[1], batches[x[2]], max)]
           f == CHOOSE h : h = [s \in SUBSET (DOMAIN batches) |->
                  IF s = {} THEN NothingMerged
                  ELSE Join(h[s \ {Max(s)}], batches[Max(s)], max)]
<1>1. n \in Nat /\ DOMAIN batches = 1..n /\ NothingMerged \in A
  BY DEF Joined, NothingMerged
<1>2. step \in [A \X (1..n) -> A]
  BY JoinType
<1>3. PICK g : Folded(g, A, NothingMerged, step, n)
  <2> HIDE DEF A, n, step
  <2> QED
    BY <1>1, <1>2, FoldExists
<1>4. ASSUME NEW s \in SUBSET (1..n), s # {}
      PROVE  Max(s) \in 1..n
  BY <1>1, <1>4, MaxInSet
<1>5. g = [s \in SUBSET (DOMAIN batches) |->
                  IF s = {} THEN NothingMerged
                  ELSE Join(g[s \ {Max(s)}], batches[Max(s)], max)]
  BY <1>1, <1>3, <1>4 DEF Folded
<1>6. f = [s \in SUBSET (DOMAIN batches) |->
                  IF s = {} THEN NothingMerged
                  ELSE Join(f[s \ {Max(s)}], batches[Max(s)], max)]
  BY <1>5
<1>7. Merged(batches, max) = f[DOMAIN batches]
  BY DEF Merged, FoldLeft, MapThenFoldSet
<1> DEFINE acc == [k \in 0..n |-> f[1..k]]
<1>8. acc[0] = NothingMerged
  <2> HIDE DEF f
  <2>1. f[{}] = NothingMerged /\ 1..0 = {}
    BY <1>6
  <2> QED
    BY <1>1, <2>1
<1>9. \A k \in 1..n : acc[k] = Join(acc[k - 1], batches[k], max)
  <2> TAKE k \in 1..n
  <2>1. 1..k # {} /\ Max(1..k) = k /\ 1..k \ {k} = 1..k-1 /\ 1..k \in SUBSET (DOMAIN batches)
    BY <1>1, LastOfPrefix
  <2> HIDE DEF f
  <2>2. f[1..k] = Join(f[1..k-1], batches[k], max)
    BY <1>6, <2>1
  <2> QED
    BY <2>2
<1>10. acc \in [0..n -> A]
  <2> DEFINE S == {k \in 0..n : acc[k] \in A}
  <2>1. 0 \in S
    BY <1>1, <1>8
  <2>2. \A k \in 1..n : k - 1 \in S => k \in S
    <3> HIDE DEF acc
    <3> QED
      BY <1>1, <1>9, JoinType
  <2> HIDE DEF S
  <2>3. 0..n \subseteq S
    BY <1>1, <2>1, <2>2, PrefixInduction
  <2> QED
    BY <2>3 DEF S
<1>11. acc[n] = f[1..n]
  BY <1>1
<1> HIDE DEF f, acc, n
<1> QED
  BY <1>1, <1>11, <1>7, <1>8, <1>9, <1>10 DEF n

\* A list from which some Nodes are left out is one of the Nodes of that list.
LEMMA WithoutType ==
  ASSUME NEW E, NEW nodes \in Seq(E), NEW skipped
  PROVE  Without(nodes, skipped) \in Seq(E)
<1> DEFINE n == Len(nodes)
           Keep(kept, c) == IF c \in skipped THEN kept ELSE Append(kept, c)
           step == [x \in Seq(E) \X (1..n) |-> Keep(x[1], nodes[x[2]])]
           f == CHOOSE h : h = [s \in SUBSET (DOMAIN nodes) |->
                  IF s = {} THEN << >> ELSE Keep(h[s \ {Max(s)}], nodes[Max(s)])]
<1>1. n \in Nat /\ DOMAIN nodes = 1..n /\ << >> \in Seq(E)
  OBVIOUS
<1>2. \A kept \in Seq(E), k \in 1..n : Keep(kept, nodes[k]) \in Seq(E)
  OBVIOUS
<1>3. step \in [Seq(E) \X (1..n) -> Seq(E)]
  BY <1>2
<1>4. PICK g : Folded(g, Seq(E), << >>, step, n)
  <2> HIDE DEF n, step
  <2> QED
    BY <1>1, <1>3, FoldExists
<1>5. ASSUME NEW s \in SUBSET (1..n), s # {}
      PROVE  Max(s) \in 1..n
  BY <1>1, <1>5, MaxInSet
<1>6. g = [s \in SUBSET (DOMAIN nodes) |->
             IF s = {} THEN << >> ELSE Keep(g[s \ {Max(s)}], nodes[Max(s)])]
  BY <1>1, <1>4, <1>5 DEF Folded
<1>7. f = [s \in SUBSET (DOMAIN nodes) |->
             IF s = {} THEN << >> ELSE Keep(f[s \ {Max(s)}], nodes[Max(s)])]
  BY <1>6
<1>8. Without(nodes, skipped) = f[DOMAIN nodes]
  BY DEF Without, FoldLeft, MapThenFoldSet
<1> DEFINE S == {k \in 0..n : f[1..k] \in Seq(E)}
<1> HIDE DEF f
<1>9. 0 \in S
  <2> HIDE DEF Keep
  <2>1. f[{}] = << >> /\ 1..0 = {}
    BY <1>7
  <2>2. f[1..0] = f[{}]
    BY <2>1
  <2>3. 0 \in 0..n
    BY <1>1
  <2> QED
    BY <1>1, <2>1, <2>2, <2>3
<1>10. ASSUME NEW k \in 1..n, k - 1 \in S PROVE k \in S
  <2>1. 1..k # {} /\ Max(1..k) = k /\ 1..k \ {k} = 1..k-1 /\ 1..k \in SUBSET (DOMAIN nodes)
    BY <1>1, LastOfPrefix
  <2> HIDE DEF Keep
  <2>2. f[1..k] = Keep(f[1..k-1], nodes[k])
    BY <1>7, <2>1
  <2> QED
    BY <1>2, <1>10, <2>2
<1>11. 0..n \subseteq S
  <2> HIDE DEF S, n
  <2> QED
    BY <1>1, <1>9, <1>10, PrefixInduction
<1> QED
  BY <1>1, <1>8, <1>11

-----------------------------------------------------------------------------
(* The batches of a plan are its candidates, each once.                    *)

\* The batches have the Nodes of the set, each once.
Splits(batches, nodes) ==
  /\ \A j \in DOMAIN batches : \A k \in DOMAIN batches[j] : batches[j][k] \in nodes
  /\ \A c \in nodes : \E j \in DOMAIN batches : \E k \in DOMAIN batches[j] : batches[j][k] = c
  /\ \A j, i \in DOMAIN batches : \A k \in DOMAIN batches[j], l \in DOMAIN batches[i] :
       batches[j][k] = batches[i][l] => j = i /\ k = l

\* The list has the Nodes of the set, each once.
Lists(list, nodes) ==
  /\ \A k \in DOMAIN list : list[k] \in nodes
  /\ \A c \in nodes : \E k \in DOMAIN list : list[k] = c
  /\ \A k, l \in DOMAIN list : list[k] = list[l] => k = l

\* The list made of a set has all its elements, each once.
LEMMA SetToSeqLists ==
  ASSUME NEW S, IsFiniteSet(S)
  PROVE  SetToSeq(S) \in Seq(S) /\ Lists(SetToSeq(S), S)
<1> DEFINE n == Cardinality(S)
           Fits(f) == f \in [1..n -> S] /\ IsInjective(f)
           s == SetToSeq(S)
<1>1. n \in Nat /\ ExistsBijection(1..n, S)
  BY FS_CardinalityType
<1>2. \E f : Fits(f)
  BY <1>1 DEF ExistsBijection, Bijection, Injection, IsInjective
<1>3. s = CHOOSE f : Fits(f)
  BY DEF SetToSeq
<1>4. Fits(s)
  BY <1>2, <1>3
<1>5. s \in Injection(1..n, S)
  BY <1>4 DEF Injection, IsInjective
<1>6. Cardinality(1..n) = n /\ IsFiniteSet(1..n)
  BY <1>1, FS_Interval
<1>7. s \in Surjection(1..n, S)
  BY <1>5, <1>6, FS_Injection
<1> HIDE DEF s
<1> QED
  BY <1>1, <1>4, <1>7 DEF s, Lists, IsInjective, Surjection

\* The lesser of two numbers, as SubSeq of BatchNodes uses it.
LEMMA MinOfTwo ==
  ASSUME NEW a \in Int, NEW b \in Int
  PROVE  Min({a, b}) = IF a <= b THEN a ELSE b
<1> DEFINE IsMin(z) == z \in {a, b} /\ \A y \in {a, b} : z =< y
<1>1. Min({a, b}) = CHOOSE z : IsMin(z)
  BY DEF Min
<1>2. IsMin(a) \/ IsMin(b)
  OBVIOUS
<1>3. IsMin(Min({a, b}))
  BY <1>1, <1>2
<1> QED
  BY <1>3

\* Every position of the list is in exactly one batch (planner.go, batchNodes).
LEMMA BatchOf ==
  ASSUME NEW E, NEW nodes \in Seq(E), NEW size \in Nat \ {0},
         NEW i \in 1..(Len(nodes) + size - 1) \div size
  PROVE  /\ BatchNodes(nodes, size)[i] \in Seq(E)
         /\ \A k \in DOMAIN BatchNodes(nodes, size)[i] :
              /\ k \in 1..size /\ (i - 1) * size + k \in 1..Len(nodes)
              /\ BatchNodes(nodes, size)[i][k] = nodes[(i - 1) * size + k]
         /\ \A k \in 1..size : (i - 1) * size + k <= Len(nodes)
              => k \in DOMAIN BatchNodes(nodes, size)[i]
<1> DEFINE n == Len(nodes)
           q == (n + size - 1) \div size
           batch == BatchNodes(nodes, size)[i]
<1>1. n \in Nat /\ q \in Nat /\ q * size <= n + size - 1
  OBVIOUS
<1>2. PICK z \in Nat : z = (i - 1) * size /\ i * size = z + size /\ i * size <= q * size
  <2>1. (i - 1) * size \in Nat /\ i * size = (i - 1) * size + size /\ i * size <= q * size
    BY <1>1
  <2> QED
    BY <2>1
<1> DEFINE last == IF z + size <= n THEN z + size ELSE n
<1>3. batch = SubSeq(nodes, z + 1, Min({z + size, n}))
  BY <1>1, <1>2 DEF BatchNodes
<1> HIDE DEF batch, n, q
<1>4. Min({z + size, n}) = last
  BY <1>1, <1>2, MinOfTwo
<1>5. last \in z + 1..n /\ last <= z + size /\ (last = n \/ last = z + size)
  BY <1>1, <1>2
<1>6. \A j \in z + 1..last : nodes[j] \in E
  BY <1>1, <1>5 DEF n
<1> HIDE DEF last
<1>7. /\ batch \in Seq(E) /\ Len(batch) = last - z
      /\ \A k \in 1..last - z : batch[k] = nodes[z + k]
  <2>1. last \in Int /\ z + 1 \in Int /\ z + 1 <= last
    BY <1>1, <1>5
  <2>0. batch = SubSeq(nodes, z + 1, last)
    BY <1>3, <1>4
  <2>2. /\ batch \in Seq(E) /\ Len(batch) = last - (z + 1) + 1
        /\ \A k \in 1..last - (z + 1) + 1 : batch[k] = nodes[z + 1 + k - 1]
    BY <1>6, <2>0, <2>1, SubSeqProperties
  <2>3. last - (z + 1) + 1 = last - z
    BY <2>1
  <2>4. \A k \in 1..last - z : z + 1 + k - 1 = z + k
    BY <2>1
  <2> QED
    BY <2>2, <2>3, <2>4
<1>8. DOMAIN batch = 1..last - z
  BY <1>7
<1>9. \A k \in 1..last - z : k \in 1..size /\ z + k \in 1..n
  BY <1>1, <1>5
<1>10. \A k \in 1..size : z + k <= n => k \in 1..last - z
  BY <1>1, <1>5
<1> QED
  BY <1>2, <1>7, <1>8, <1>9, <1>10 DEF batch, n

\* Batches of a list of all candidates have each of them once, whatever the size.
LEMMA BatchesSplit ==
  ASSUME NEW E, NEW nodes \in Seq(E), Lists(nodes, E), NEW size \in Nat \ {0}
  PROVE  BatchNodes(nodes, size) \in Seq(Seq(E)) /\ Splits(BatchNodes(nodes, size), E)
<1> DEFINE n == Len(nodes)
           q == (n + size - 1) \div size
           batches == BatchNodes(nodes, size)
<1>1. /\ n \in Nat /\ q \in Nat /\ n <= q * size /\ DOMAIN nodes = 1..n
      /\ DOMAIN batches = 1..q
  BY DEF BatchNodes
<1> HIDE DEF batches, q
<1>2. \A i \in 1..q :
        /\ batches[i] \in Seq(E)
        /\ \A k \in DOMAIN batches[i] :
              /\ k \in 1..size /\ (i - 1) * size + k \in 1..n
              /\ batches[i][k] = nodes[(i - 1) * size + k]
        /\ \A k \in 1..size : (i - 1) * size + k <= n => k \in DOMAIN batches[i]
  BY BatchOf DEF batches, q
<1>3. \A j \in 1..q : \A k \in DOMAIN batches[j] : batches[j][k] \in E
  BY <1>1, <1>2 DEF Lists
<1>4. ASSUME NEW c \in E
      PROVE  \E j \in 1..q : \E k \in DOMAIN batches[j] : batches[j][k] = c
  <2>1. PICK p \in 1..n : nodes[p] = c
    BY <1>1 DEF Lists
  <2> DEFINE j == (p - 1) \div size + 1
             k == p - (j - 1) * size
  <2>2. j \in Nat /\ j >= 1 /\ (j - 1) * size \in Nat /\ k \in 1..size /\ (j - 1) * size + k = p
    OBVIOUS
  <2>3. j <= q
    <3>1. SUFFICES ASSUME j - 1 >= q PROVE FALSE
      BY <1>1, <2>2
    <3>2. (j - 1) * size >= q * size
      BY <1>1, <2>2, <3>1
    <3> QED
      BY <1>1, <2>2, <3>2
  <2> HIDE DEF j, k
  <2>4. j \in 1..q
    <3>1. q \in Nat
      BY <1>1
    <3> QED
      BY <2>2, <2>3, <3>1
  <2>5. (j - 1) * size + k <= n
    <3>1. n \in Nat /\ p <= n
      BY <1>1
    <3> QED
      BY <2>2, <3>1
  <2>6. k \in DOMAIN batches[j]
    BY <1>2, <2>2, <2>4, <2>5
  <2> QED
    BY <1>2, <2>1, <2>2, <2>4, <2>6
<1>5. ASSUME NEW j \in 1..q, NEW i \in 1..q, NEW k \in DOMAIN batches[j],
             NEW l \in DOMAIN batches[i], batches[j][k] = batches[i][l]
      PROVE  j = i /\ k = l
  <2>1. /\ (j - 1) * size + k = (i - 1) * size + l
        /\ k \in 1..size /\ l \in 1..size /\ j \in Nat /\ i \in Nat
    BY <1>1, <1>2, <1>5 DEF Lists
  <2>2. ASSUME NEW a \in Nat, NEW b \in Nat, a < b PROVE (a + 1) * size <= b * size
    BY <2>2
  <2>3. ASSUME NEW a \in 1..q, NEW b \in 1..q, a < b, NEW x \in 1..size, NEW y \in 1..size
        PROVE  (a - 1) * size + x # (b - 1) * size + y
    <3>1. a * size <= (b - 1) * size /\ (a - 1) * size = a * size - size /\ a * size \in Nat
          /\ (b - 1) * size \in Nat
      BY <2>3
    <3> QED
      BY <3>1
  <2>4. j = i
    BY <2>1, <2>3
  <2> QED
    BY <2>1, <2>4
<1>6. batches \in Seq(Seq(E))
  <2>1. batches = [i \in 1..q |-> batches[i]]
    BY DEF BatchNodes, batches, q
  <2>2. batches \in [1..q -> Seq(E)]
    BY <1>2, <2>1
  <2> QED
    BY <1>1, <2>2
<1> QED
  BY <1>1, <1>3, <1>4, <1>5, <1>6 DEF Splits, batches

-----------------------------------------------------------------------------
(* Merging batches keeps that.                                             *)

\* A batch with Nodes that are not in others yet can be appended.
LEMMA AppendListed ==
  ASSUME NEW E, NEW batches \in Seq(Seq(E)), NEW batch \in Seq(E),
         NEW S, NEW T, Splits(batches, S), Lists(batch, T), S \cap T = {}
  PROVE  Splits(Append(batches, batch), S \cup T)
<1> DEFINE n == Len(batches)
           b == Append(batches, batch)
<1>1. n \in Nat /\ DOMAIN batches = 1..n /\ DOMAIN b = 1..n + 1
  OBVIOUS
<1>2. (\A j \in 1..n : b[j] = batches[j]) /\ b[n + 1] = batch
  OBVIOUS
<1>3. \A j \in 1..n + 1 : j \in 1..n \/ j = n + 1
  BY <1>1
<1>4. n + 1 \in 1..n + 1 /\ n + 1 \notin 1..n /\ 1..n \subseteq 1..n + 1
  BY <1>1
<1> HIDE DEF b, n
<1>5. \A j \in DOMAIN b : \A k \in DOMAIN b[j] : b[j][k] \in S \cup T
  BY <1>1, <1>2, <1>3 DEF Splits, Lists
<1>6. \A c \in S \cup T : \E j \in DOMAIN b : \E k \in DOMAIN b[j] : b[j][k] = c
  BY <1>1, <1>2, <1>4 DEF Splits, Lists
<1>7. ASSUME NEW j \in DOMAIN b, NEW i \in DOMAIN b, NEW k \in DOMAIN b[j],
             NEW l \in DOMAIN b[i], b[j][k] = b[i][l]
      PROVE  j = i /\ k = l
  <2>1. CASE j \in 1..n /\ i \in 1..n
    BY <1>1, <1>2, <1>7, <2>1 DEF Splits
  <2>2. CASE j = n + 1 /\ i = n + 1
    BY <1>2, <1>7, <2>2 DEF Lists
  <2>3. CASE j \in 1..n /\ i = n + 1
    BY <1>1, <1>2, <1>7, <2>3 DEF Lists, Splits
  <2>4. CASE j = n + 1 /\ i \in 1..n
    BY <1>1, <1>2, <1>7, <2>4 DEF Lists, Splits
  <2> QED
    BY <1>1, <1>3, <2>1, <2>2, <2>3, <2>4
<1> QED
  BY <1>5, <1>6, <1>7 DEF Splits, b

\* The last of the batches read so far has Nodes that no batch before has.
LEMMA LastLists ==
  ASSUME NEW E, NEW batches \in Seq(Seq(E)), NEW batch \in Seq(E), NEW S,
         Splits(Append(batches, batch), S)
  PROVE  /\ Splits(batches, S \ Range(batch)) /\ Lists(batch, Range(batch))
         /\ Range(batch) \subseteq S
<1> DEFINE n == Len(batches)
           b == Append(batches, batch)
           T == Range(batch)
<1>1. n \in Nat /\ DOMAIN batches = 1..n /\ DOMAIN b = 1..n + 1
  OBVIOUS
<1>2. (\A j \in 1..n : b[j] = batches[j]) /\ b[n + 1] = batch
  OBVIOUS
<1>3. \A j \in 1..n + 1 : j \in 1..n \/ j = n + 1
  BY <1>1
<1>4. n + 1 \in 1..n + 1 /\ n + 1 \notin 1..n /\ 1..n \subseteq 1..n + 1
  BY <1>1
<1>5. Splits(b, S)
  OBVIOUS
<1> HIDE DEF b, n
<1>6. Lists(batch, T) /\ T \subseteq S
  BY <1>1, <1>2, <1>4, <1>5 DEF Splits, Lists, Range
<1>7. Splits(batches, S \ T)
  <2>0. \A j \in 1..n : /\ j \in DOMAIN b /\ b[j] = batches[j] /\ j # n + 1
                       /\ j \in DOMAIN batches
    BY <1>1, <1>2, <1>4
  <2>1. ASSUME NEW j \in DOMAIN batches, NEW k \in DOMAIN batches[j]
        PROVE  batches[j][k] \in S \ T
    <3>1. b[j][k] \in S
      BY <1>1, <1>5, <2>0 DEF Splits
    <3>2. ASSUME NEW l \in DOMAIN batch PROVE b[j][k] # b[n + 1][l]
      <4>1. /\ j \in DOMAIN b /\ n + 1 \in DOMAIN b /\ j # n + 1
            /\ k \in DOMAIN b[j] /\ l \in DOMAIN b[n + 1]
        BY <1>1, <1>2, <1>4, <2>0
      <4> QED
        BY <1>5, <4>1 DEF Splits
    <3> QED
      BY <1>1, <1>2, <2>0, <3>1, <3>2 DEF Range
  <2>2. \A c \in S \ T : \E j \in DOMAIN batches : \E k \in DOMAIN batches[j] : batches[j][k] = c
    BY <1>1, <1>2, <1>3, <1>5 DEF Splits, Range
  <2>3. ASSUME NEW j \in 1..n, NEW i \in 1..n, NEW k \in DOMAIN batches[j],
               NEW l \in DOMAIN batches[i], batches[j][k] = batches[i][l]
        PROVE  j = i /\ k = l
    <3>1. b[j][k] = b[i][l] /\ k \in DOMAIN b[j] /\ l \in DOMAIN b[i]
          /\ j \in DOMAIN b /\ i \in DOMAIN b
      BY <2>0, <2>3
    <3> QED
      BY <1>5, <3>1 DEF Splits
  <2> QED
    BY <1>1, <2>1, <2>2, <2>3 DEF Splits
<1> QED
  BY <1>6, <1>7

\* Two lists with no Node in common make one.
LEMMA ConcatLists ==
  ASSUME NEW E, NEW first \in Seq(E), NEW second \in Seq(E),
         NEW S, NEW T, Lists(first, S), Lists(second, T), S \cap T = {}
  PROVE  Lists(first \o second, S \cup T)
<1> DEFINE m == Len(first)
           n == Len(second)
           all == first \o second
<1>1. m \in Nat /\ n \in Nat /\ DOMAIN first = 1..m /\ DOMAIN second = 1..n /\ DOMAIN all = 1..m + n
  OBVIOUS
<1>2. (\A k \in 1..m : all[k] = first[k]) /\ \A k \in 1..n : all[m + k] = second[k]
  OBVIOUS
<1>3. \A k \in 1..m + n : k \in 1..m \/ (k - m \in 1..n /\ k = m + (k - m))
  BY <1>1
<1>4. (\A k \in 1..m : k \in 1..m + n) /\ \A k \in 1..n : m + k \in 1..m + n
  BY <1>1
<1>5. \A k \in 1..m + n : (k \in 1..m => all[k] = first[k]) /\ (k \notin 1..m => all[k] = second[k - m])
  BY <1>1, <1>2, <1>3
<1> HIDE DEF all, m, n
<1>6. \A k \in DOMAIN all : all[k] \in S \cup T
  BY <1>1, <1>3, <1>5 DEF Lists
<1>7. \A c \in S \cup T : \E k \in DOMAIN all : all[k] = c
  BY <1>1, <1>2, <1>4 DEF Lists
<1>8. ASSUME NEW k \in DOMAIN all, NEW l \in DOMAIN all, all[k] = all[l] PROVE k = l
  <2>1. CASE k \in 1..m /\ l \in 1..m
    BY <1>1, <1>5, <1>8, <2>1 DEF Lists
  <2>2. CASE k \notin 1..m /\ l \notin 1..m
    <3>1. k - m = l - m /\ k \in Int /\ l \in Int
      BY <1>1, <1>3, <1>5, <1>8, <2>2 DEF Lists
    <3> QED
      BY <1>1, <3>1
  <2>3. CASE k \in 1..m /\ l \notin 1..m
    BY <1>1, <1>3, <1>5, <1>8, <2>3 DEF Lists
  <2>4. CASE k \notin 1..m /\ l \in 1..m
    BY <1>1, <1>3, <1>5, <1>8, <2>4 DEF Lists
  <2> QED
    BY <2>1, <2>2, <2>3, <2>4
<1> QED
  BY <1>6, <1>7, <1>8 DEF Lists, all

\* mergeBatches loses no candidate and has none twice (planner.go:372).
LEMMA MergedSplits ==
  ASSUME NEW E, NEW batches \in Seq(Seq(E)), NEW max, NEW S, Splits(batches, S)
  PROVE  /\ mergeBatches(batches, max) \in Seq(Seq(E))
         /\ Splits(mergeBatches(batches, max), S)
<1> DEFINE n == Len(batches)
           NodesOf(k) == {c \in S : \E j \in 1..k : \E l \in DOMAIN batches[j] : batches[j][l] = c}
           Batch(k) == {batches[k][l] : l \in DOMAIN batches[k]}
<1>1. n \in Nat /\ DOMAIN batches = 1..n /\ \A k \in 1..n : batches[k] \in Seq(E)
  OBVIOUS
<1>2. PICK acc \in [0..n -> Joined(E)] :
           /\ acc[0] = NothingMerged
           /\ \A k \in 1..n : acc[k] = Join(acc[k - 1], batches[k], max)
           /\ Merged(batches, max) = acc[n]
  BY MergedSteps
<1> DEFINE All(k) == Append(acc[k].merged, acc[k].current)
           P == {k \in 0..n : Splits(All(k), NodesOf(k))}
<1>3. \A k \in 0..n : acc[k].merged \in Seq(Seq(E)) /\ acc[k].current \in Seq(E)
  BY <1>2 DEF Joined
<1>4. Lists(<< >>, {}) /\ Splits(<< >>, {})
  BY DEF Lists, Splits
<1>5. 0 \in P
  <2>1. NodesOf(0) = {}
    OBVIOUS
  <2>2. << >> \in Seq(Seq(E)) /\ << >> \in Seq(E) /\ {} \cup {} = {} /\ {} \cap {} = {}
    OBVIOUS
  <2>3. Splits(Append(<< >>, << >>), {} \cup {})
    BY <1>4, <2>2, AppendListed
  <2>4. All(0) = Append(<< >>, << >>)
    BY <1>2 DEF NothingMerged
  <2>5. 0 \in 0..n
    BY <1>1
  <2> HIDE DEF All, NodesOf
  <2> QED
    BY <2>1, <2>2, <2>3, <2>4, <2>5
<1>6. ASSUME NEW k \in 1..n
      PROVE  /\ Lists(batches[k], Batch(k)) /\ NodesOf(k - 1) \cap Batch(k) = {}
             /\ NodesOf(k) = NodesOf(k - 1) \cup Batch(k)
  <2>1. \A j \in 1..k - 1 : j \in DOMAIN batches /\ j # k
    BY <1>1
  <2>2. \A j \in 1..k : j \in 1..k - 1 \/ j = k
    BY <1>1
  <2>3. k \in 1..k /\ 1..k - 1 \subseteq 1..k
    BY <1>1
  <2>4. Lists(batches[k], Batch(k))
    BY <1>1 DEF Lists, Splits
  <2>5. NodesOf(k - 1) \cap Batch(k) = {}
    BY <1>1, <2>1 DEF Splits
  <2>6. Batch(k) \subseteq S
    BY <1>1 DEF Splits
  <2>7. NodesOf(k) = NodesOf(k - 1) \cup Batch(k)
    BY <2>2, <2>3, <2>6
  <2> QED
    BY <2>4, <2>5, <2>7
<1> HIDE DEF NodesOf, Batch
<1>7. ASSUME NEW k \in 1..n, k - 1 \in P PROVE k \in P
  <2> DEFINE before == acc[k - 1]
  <2>0. k - 1 \in 0..n /\ k \in 0..n
    BY <1>1
  <2>1. k - 1 \in 0..n /\ k \in 0..n /\ before \in Joined(E)
    BY <1>2, <2>0
  <2>2. /\ before.merged \in Seq(Seq(E)) /\ before.current \in Seq(E)
        /\ acc[k] = Join(before, batches[k], max)
        /\ Splits(Append(before.merged, before.current), NodesOf(k - 1))
    BY <1>2, <1>3, <1>7, <2>1
  <2> HIDE DEF before
  <2>3. CASE acc[k] = [merged |-> IF before.current = <<>> THEN before.merged
                                  ELSE Append(before.merged, before.current),
                       current |-> batches[k]]
    <3>1. CASE before.current = << >>
      <4>1. Splits(before.merged, NodesOf(k - 1) \ Range(before.current))
        BY <2>2, LastLists
      <4>2. Range(before.current) = {}
        BY <3>1 DEF Range
      <4>3. Splits(before.merged, NodesOf(k - 1))
        BY <4>1, <4>2
      <4>4. Splits(Append(before.merged, batches[k]), NodesOf(k - 1) \cup Batch(k))
        BY <1>1, <1>6, <2>2, <4>3, AppendListed
      <4>5. acc[k].merged = before.merged /\ acc[k].current = batches[k]
        BY <2>3, <3>1
      <4> QED
        BY <1>6, <2>1, <4>4, <4>5
    <3>2. CASE before.current # << >>
      <4>1. Append(before.merged, before.current) \in Seq(Seq(E))
        BY <2>2, AppendProperties
      <4>2. Splits(Append(Append(before.merged, before.current), batches[k]),
                   NodesOf(k - 1) \cup Batch(k))
        BY <1>1, <1>6, <2>2, <4>1, AppendListed
      <4>3. /\ acc[k].merged = Append(before.merged, before.current)
            /\ acc[k].current = batches[k]
        BY <2>3, <3>2
      <4> QED
        BY <1>6, <2>1, <4>2, <4>3
    <3> QED
      BY <3>1, <3>2
  <2>4. CASE acc[k] = [before EXCEPT !.current = @ \o batches[k]]
    <3> DEFINE T == Range(before.current)
    <3>1. /\ Splits(before.merged, NodesOf(k - 1) \ T) /\ Lists(before.current, T)
          /\ T \subseteq NodesOf(k - 1)
      BY <2>2, LastLists
    <3> HIDE DEF T
    <3>2. T \cap Batch(k) = {} /\ (NodesOf(k - 1) \ T) \cap (T \cup Batch(k)) = {}
          /\ (NodesOf(k - 1) \ T) \cup (T \cup Batch(k)) = NodesOf(k)
      BY <1>6, <3>1
    <3>3. Lists(before.current \o batches[k], T \cup Batch(k))
      BY <1>1, <1>6, <2>2, <3>1, <3>2, ConcatLists
    <3>4. before.current \o batches[k] \in Seq(E)
      BY <1>1, <2>2, ConcatProperties
    <3> DEFINE joined == before.current \o batches[k]
               more == T \cup Batch(k)
               rest == NodesOf(k - 1) \ T
    <3>5. Splits(Append(before.merged, joined), rest \cup more)
      <4>1. /\ joined \in Seq(E) /\ Lists(joined, more) /\ rest \cap more = {}
            /\ Splits(before.merged, rest)
        BY <3>1, <3>2, <3>3, <3>4
      <4> HIDE DEF joined, more, rest
      <4> QED
        BY <2>2, <4>1, AppendListed
    <3>6. acc[k].merged = before.merged /\ acc[k].current = before.current \o batches[k]
      BY <2>1, <2>4 DEF Joined
    <3> QED
      BY <2>1, <3>2, <3>5, <3>6
  <2> QED
    BY <2>2, <2>3, <2>4 DEF Join
<1>8. n \in P
  <2>1. 0..n \subseteq P
    <3> HIDE DEF P, n
    <3> QED
      BY <1>1, <1>5, <1>7, PrefixInduction
  <2> QED
    BY <1>1, <2>1
<1>9. NodesOf(n) = S
  BY <1>1 DEF NodesOf, Splits
<1> DEFINE all == Merged(batches, max)
<1>10. /\ all.merged \in Seq(Seq(E)) /\ all.current \in Seq(E)
       /\ Splits(Append(all.merged, all.current), S)
  BY <1>1, <1>2, <1>3, <1>8, <1>9
<1> HIDE DEF all
<1>11. CASE all.current = << >>
  <2>1. Splits(all.merged, S \ Range(all.current))
    BY <1>10, LastLists
  <2>2. Range(all.current) = {} /\ S \ {} = S
    BY <1>11 DEF Range
  <2> QED
    BY <1>10, <1>11, <2>1, <2>2 DEF mergeBatches, all
<1>12. CASE all.current # << >>
  BY <1>10, <1>12, AppendProperties DEF mergeBatches, all
<1> QED
  BY <1>11, <1>12

-----------------------------------------------------------------------------
(* Plans.                                                                  *)

\* Lists of lists of a smaller set.
LEMMA MoreNodes ==
  ASSUME NEW S, NEW T, S \subseteq T, NEW batches \in Seq(Seq(S))
  PROVE  batches \in Seq(Seq(T))
<1>1. Seq(S) \subseteq Seq(T)
  BY SeqMonotonic
<1> QED
  BY <1>1, SeqMonotonic

\* mergeBatches has lists of the same Nodes.
LEMMA MergedType ==
  ASSUME NEW E, NEW batches \in Seq(Seq(E)), NEW max
  PROVE  mergeBatches(batches, max) \in Seq(Seq(E))
<1>1. PICK acc \in [0..Len(batches) -> Joined(E)] : Merged(batches, max) = acc[Len(batches)]
  BY MergedSteps
<1>2. Merged(batches, max) \in Joined(E)
  BY <1>1
<1> DEFINE all == Merged(batches, max)
<1>3. all.merged \in Seq(Seq(E)) /\ all.current \in Seq(E)
  BY <1>2 DEF Joined
<1> QED
  BY <1>3, AppendProperties DEF mergeBatches

\* The batches of a plan, optimized or not, have each candidate once.
LEMMA PlanTypes ==
  ASSUME NEW S, IsFiniteSet(S), NEW size \in Nat \ {0}, NEW max,
         NEW batches, batches = BatchNodes(SetToSeq(S), size)
  PROVE  /\ batches \in Seq(Seq(S)) /\ OptimizePlan(batches, max) \in Seq(Seq(S))
         /\ Splits(batches, S) /\ Splits(OptimizePlan(batches, max), S)
<1>1. SetToSeq(S) \in Seq(S) /\ Lists(SetToSeq(S), S)
  BY SetToSeqLists
<1>2. batches \in Seq(Seq(S)) /\ Splits(batches, S)
  BY <1>1, BatchesSplit
<1>3. mergeBatches(batches, max) \in Seq(Seq(S))
  BY <1>2, MergedType
<1> QED
  BY <1>2, <1>3, MergedSplits DEF OptimizePlan

-----------------------------------------------------------------------------
(* Types, and what each step of the executor has at hand.                  *)

\* A step that works on a candidate has one; a rolling plan never gets to a drain.
StepInv ==
  /\ exec.step = "idle" =>
       /\ exec.batch = 0 /\ exec.todo = << >> /\ plan.strategy = "none"
       /\ result = [rebalanced |-> 0, failed |-> 0, skipped |-> 0, unprovisioned |-> {}]
  /\ exec.step \in {"evict", "poll", "terminate"} => exec.todo # << >>
  /\ Rolling => exec.step \in {"candidate", "completed"}

\* Steps of the executor.
Steps == {"idle", "candidate", "provision", "drain", "evict", "poll", "terminate", "completed"}

\* Values of the result, and of the executor with a plan of so many batches.
Results == [rebalanced : Nat, failed : Nat, skipped : Nat, unprovisioned : SUBSET Nodes]
Executions(number) ==
  [step : Steps, batch : 0..number, todo : Seq(Nodes), keep : Seq(Nodes)]

\* TypeOK in three parts.
ClusterType ==
  /\ node \in [Nodes -> {"absent", "starting", "ready"}] /\ cordoned \subseteq Nodes
  /\ place \in [Pods -> Present \cup {"pending"}]
  /\ leaving \subseteq {p \in Pods : place[p] # "pending"}

AnalysisType ==
  analysis \in [action : {"none", "proceed", "postpone", "needs_review", "reject"},
                candidates : SUBSET Nodes, same : BOOLEAN]

ExecType ==
  /\ plan \in [strategy : {"none", "rolling", "surge"}, nodes : SUBSET Nodes,
               same : BOOLEAN, batches : Seq(Seq(Nodes))]
  /\ exec \in Executions(Len(plan.batches)) /\ result \in Results

\* The parts of TypeOK, proved apart.
LEMMA TypeParts == TypeOK <=> ClusterType /\ AnalysisType /\ ExecType
BY DEF TypeOK, ClusterType, AnalysisType, ExecType, Steps, Executions, Results

\* The same after a step.
LEMMA TypePartsNext == TypeOK' <=> ClusterType' /\ AnalysisType' /\ ExecType'
BY DEF TypeOK, ClusterType, AnalysisType, ExecType, Steps, Executions, Results

\* ExecType and what the step at hand relies on.
ExecInv == ExecType /\ StepInv

\* The initial states.
LEMMA InitExec == Init => ClusterType /\ AnalysisType /\ ExecInv
<1> SUFFICES ASSUME Init PROVE ClusterType /\ AnalysisType /\ ExecInv
  OBVIOUS
<1>1. ClusterType
  BY ConstantsAssumption DEF Init, ClusterType, Present, Ready
<1>2. AnalysisType
  BY DEF Init, AnalysisType
<1>3. << >> \in Seq(Nodes) /\ << >> \in Seq(Seq(Nodes)) /\ Len(<< >>) = 0
  OBVIOUS
<1>4. ExecType
  BY <1>3 DEF Init, ExecType, Steps, Executions, Results
<1>5. StepInv
  BY DEF Init, StepInv, Rolling
<1> QED
  BY <1>1, <1>2, <1>4, <1>5 DEF ExecInv

\* Deleting a Node leaves no pod on it.
LEMMA DeleteNodeType ==
  ASSUME ClusterType, NEW n, DeleteNode(n) PROVE ClusterType'
<1>1. node' \in [Nodes -> {"absent", "starting", "ready"}] /\ cordoned' \subseteq Nodes
  BY DEF ClusterType, DeleteNode
<1>2. Present' = Present \ {n}
  BY DEF ClusterType, DeleteNode, Present
<1>3. place' \in [Pods -> Present' \cup {"pending"}]
  BY <1>2 DEF ClusterType, DeleteNode
<1>4. leaving' \subseteq {p \in Pods : place'[p] # "pending"}
  BY DEF ClusterType, DeleteNode, PodsOn
<1> QED
  BY <1>1, <1>3, <1>4 DEF ClusterType

\* The cluster is left alone.
LEMMA ClusterUnchanged == ClusterType /\ UNCHANGED cluster => ClusterType'
BY DEF ClusterType, cluster, Present

\* A candidate is one of the Nodes.
LEMMA CandidateIsNode ==
  ASSUME ExecInv, exec.todo # << >> PROVE Candidate \in Nodes
BY HeadTailProperties DEF ExecInv, ExecType, Executions, Candidate

\* Every step leaves pods on Nodes that are there.
LEMMA ClusterStep ==
  ASSUME TypeOK, ExecInv, [Next]_vars PROVE ClusterType'
<1>0. ClusterType
  BY TypeParts
<1>1. CASE UNCHANGED cluster
  BY <1>0, <1>1, ClusterUnchanged
<1>2. ASSUME NEW n \in Nodes, NodeReady(n) PROVE ClusterType'
  <2>1. Present' = Present
    BY <1>0, <1>2 DEF NodeReady, ClusterType, Present
  <2> QED
    BY <1>0, <1>2, <2>1 DEF NodeReady, ClusterType
<1>3. ASSUME NEW p \in Pods, Exit(p) PROVE ClusterType'
  BY <1>0, <1>3 DEF Exit, ClusterType, Present
<1>4. ASSUME NEW p \in Pods, NEW n \in Nodes, Bind(p, n) PROVE ClusterType'
  <2>1. n \in Present /\ n # "pending"
    BY <1>4, ConstantsAssumption DEF Bind, Ready, Present
  <2> QED
    BY <1>0, <1>4, <2>1 DEF Bind, ClusterType, Present
<1>7. CASE TerminateNode
  BY <1>0, <1>7, DeleteNodeType DEF TerminateNode
<1>8. CASE CordonNode
  BY <1>0, <1>8 DEF CordonNode, ClusterType, Present
<1>9. CASE EvictPods
  <2>1. Candidate \in Nodes
    BY <1>9, CandidateIsNode DEF EvictPods, ExecInv, StepInv
  <2>2. \A p \in PodsOn(Candidate) : p \in Pods /\ place[p] # "pending"
    BY <2>1, ConstantsAssumption DEF PodsOn
  <2> QED
    BY <1>0, <1>9, <2>2 DEF EvictPods, ClusterType, Present
<1> QED
  BY <1>1, <1>2, <1>3, <1>4, <1>7, <1>8, <1>9 DEF Next, Execute, vars, cluster,
     Analyze, CreatePlan, GivenPlan, executeRollingBatch, executeSurgeBatch, ExecuteRebalance,
     SkipSame, provisionNewNode, DrainOldNodes, WaitForPods, DrainFails, TerminateFails

-----------------------------------------------------------------------------
(* Steps of the analysis and of the plan.                                  *)

\* Analyses have candidates among the Nodes.
LEMMA AnalysisStep ==
  ASSUME TypeOK, [Next]_vars PROVE AnalysisType'
<1>0. AnalysisType
  BY TypeParts
<1>1. CASE UNCHANGED analysis
  BY <1>0, <1>1 DEF AnalysisType
<1>2. CASE Analyze
  <2>0. PICK blind \in SUBSET Nodes, same \in BOOLEAN : \E checks, risk :
          analysis' = [action |-> RecommendedAction(checks, risk),
                       candidates |-> Candidates(blind), same |-> same]
    BY <1>2 DEF Analyze
  <2>1. PICK checks, risk :
          analysis' = [action |-> RecommendedAction(checks, risk),
                       candidates |-> Candidates(blind), same |-> same]
    BY <2>0
  <2>2. Candidates(blind) \subseteq Nodes
    BY DEF Candidates, Present
  <2>3. RecommendedAction(checks, risk) \in {"none", "proceed", "postpone", "needs_review", "reject"}
    BY DEF RecommendedAction
  <2> QED
    BY <2>1, <2>2, <2>3 DEF AnalysisType
<1>3. CASE CreatePlan
  BY <1>0, <1>3 DEF CreatePlan, AnalysisType
<1> QED
  BY <1>1, <1>2, <1>3 DEF Next, Execute, vars, NodeReady, Exit, Bind, GivenPlan,
     executeRollingBatch, executeSurgeBatch, ExecuteRebalance, SkipSame, provisionNewNode,
     DrainOldNodes, CordonNode, EvictPods, WaitForPods, DrainFails, TerminateNode, TerminateFails

\* Head and tail of a list that is not empty.
LEMMA ListStep ==
  ASSUME NEW E, NEW list \in Seq(E), list # << >>
  PROVE  /\ Head(list) \in E /\ Tail(list) \in Seq(E)
         /\ Len(list) \in Nat /\ Len(Tail(list)) = Len(list) - 1
         /\ list[1] = Head(list)
         /\ \A k \in 1..Len(list) : k = 1 \/ (k - 1 \in 1..Len(Tail(list)) /\ Tail(list)[k - 1] = list[k])
         /\ \A k \in 1..Len(Tail(list)) : Tail(list)[k] = list[k + 1]
BY HeadTailProperties, EmptySeq

\* The fields of the executor, of the plan and of the result.
LEMMA ExecParts ==
  ExecInv => /\ exec.step \in Steps /\ exec.batch \in 0..Len(plan.batches)
             /\ exec.todo \in Seq(Nodes) /\ exec.keep \in Seq(Nodes)
             /\ exec = [step |-> exec.step, batch |-> exec.batch, todo |-> exec.todo,
                        keep |-> exec.keep]
             /\ plan.nodes \subseteq Nodes
             /\ plan.batches \in Seq(Seq(Nodes)) /\ Len(plan.batches) \in Nat
             /\ result.rebalanced \in Nat /\ result.failed \in Nat /\ result.skipped \in Nat
             /\ result.unprovisioned \subseteq Nodes
             /\ result = [rebalanced |-> result.rebalanced, failed |-> result.failed,
                          skipped |-> result.skipped, unprovisioned |-> result.unprovisioned]
BY DEF ExecInv, ExecType, Executions, Results

\* A plan that is taken up.
LEMMA PlanTaken ==
  ASSUME ExecInv, exec.step = "idle", NEW nodes \in SUBSET Nodes, NEW same \in BOOLEAN,
         NEW batches \in Seq(Seq(Nodes)), NEW strategy \in {"rolling", "surge"},
         NEW step \in {"candidate", "drain"}, strategy = "rolling" => step = "candidate",
         plan' = [strategy |-> strategy, nodes |-> nodes, same |-> same, batches |-> batches],
         exec' = [exec EXCEPT !.step = step], UNCHANGED result
  PROVE  ExecInv'
<1>1. exec.batch = 0 /\ exec.todo = << >> /\ ExecType
  BY DEF ExecInv, StepInv
<1>2. exec' = [step |-> step, batch |-> 0, todo |-> << >>, keep |-> exec.keep]
  BY <1>1, ExecParts
<1>3. Len(plan'.batches) \in Nat /\ plan'.batches = batches /\ plan'.strategy = strategy
  OBVIOUS
<1>4. exec' \in Executions(Len(plan'.batches))
  <2>1. 0 \in 0..Len(plan'.batches) /\ step \in Steps
    BY <1>3 DEF Steps
  <2>2. exec.keep \in Seq(Nodes) /\ << >> \in Seq(Nodes)
    BY ExecParts, EmptySeq
  <2>3. [step |-> step, batch |-> 0, todo |-> << >>, keep |-> exec.keep]
          \in Executions(Len(plan'.batches))
    BY <2>1, <2>2 DEF Executions
  <2> QED
    BY <1>2, <2>3
<1>5. ExecType'
  BY <1>1, <1>4 DEF ExecType
<1>6. StepInv'
  BY <1>2, <1>3 DEF StepInv, Rolling
<1> QED
  BY <1>5, <1>6 DEF ExecInv

\* A rolling plan starts with every candidate in one of its batches, once.
LEMMA CreatePlanStep ==
  ASSUME TypeOK, ExecInv, CreatePlan
  PROVE  /\ ExecInv' /\ exec.batch = 0 /\ exec.todo = << >>
         /\ Splits(plan'.batches, plan'.nodes) /\ exec'.step = "candidate"
<1>1. PICK size \in BatchSizes, max \in Concurrency :
        \E batches : /\ batches = BatchNodes(SetToSeq(analysis.candidates), size)
                     /\ plan' \in [strategy : {"rolling"}, nodes : {analysis.candidates},
                          same : {analysis.same}, batches : {batches, OptimizePlan(batches, max)}]
  BY DEF CreatePlan
<1>2. PICK batches : /\ batches = BatchNodes(SetToSeq(analysis.candidates), size)
                     /\ plan' \in [strategy : {"rolling"}, nodes : {analysis.candidates},
                          same : {analysis.same}, batches : {batches, OptimizePlan(batches, max)}]
  BY <1>1
<1>3. /\ analysis.candidates \subseteq Nodes /\ IsFiniteSet(analysis.candidates)
      /\ analysis.same \in BOOLEAN
  BY TypeParts, ConstantsAssumption, FS_Subset DEF AnalysisType
<1>4. size \in Nat \ {0}
  BY ConstantsAssumption
<1>5. /\ batches \in Seq(Seq(analysis.candidates))
      /\ OptimizePlan(batches, max) \in Seq(Seq(analysis.candidates))
      /\ Splits(batches, analysis.candidates)
      /\ Splits(OptimizePlan(batches, max), analysis.candidates)
  BY <1>2, <1>3, <1>4, PlanTypes
<1>6. /\ plan' = [strategy |-> "rolling", nodes |-> analysis.candidates, same |-> analysis.same,
                  batches |-> plan'.batches]
      /\ plan'.batches \in Seq(Seq(analysis.candidates))
      /\ Splits(plan'.batches, analysis.candidates)
  BY <1>2, <1>5
<1>7. plan'.batches \in Seq(Seq(Nodes))
  BY <1>3, <1>6, MoreNodes
<1>8. exec.step = "idle" /\ exec' = [exec EXCEPT !.step = "candidate"] /\ UNCHANGED result
  BY DEF CreatePlan
<1>9. ExecInv'
  BY <1>3, <1>6, <1>7, <1>8, PlanTaken
<1>10. exec.batch = 0 /\ exec.todo = << >> /\ exec'.step = "candidate"
  BY <1>8, ExecParts DEF ExecInv, StepInv
<1> QED
  BY <1>6, <1>9, <1>10

\* A surge plan that a caller brings along has its Nodes in one batch.
LEMMA GivenPlanStep ==
  ASSUME TypeOK, ExecInv, GivenPlan PROVE ExecInv' /\ ~ Rolling'
<1>1. PICK nodes \in SUBSET Nodes, same \in BOOLEAN :
        plan' = [strategy |-> "surge", nodes |-> nodes, same |-> same,
                 batches |-> <<SetToSeq(nodes)>>]
  BY DEF GivenPlan
<1>2. SetToSeq(nodes) \in Seq(nodes)
  BY ConstantsAssumption, FS_Subset, SetToSeqLists
<1>3. <<SetToSeq(nodes)>> \in Seq(Seq(Nodes))
  <2>1. SetToSeq(nodes) \in Seq(Nodes)
    BY <1>2, SeqMonotonic
  <2> HIDE DEF SetToSeq
  <2> QED
    BY <2>1
<1>4. exec.step = "idle" /\ exec' = [exec EXCEPT !.step = "drain"] /\ UNCHANGED result
  BY DEF GivenPlan
<1>5. ExecInv'
  BY <1>1, <1>3, <1>4, PlanTaken
<1> QED
  BY <1>1, <1>5 DEF Rolling

\* One candidate more is counted.
LEMMA CountType ==
  ASSUME ExecInv, NEW field \in {"rebalanced", "failed", "skipped"}, Count(field)
  PROVE  /\ result' \in Results
         /\ result'.rebalanced + result'.failed + result'.skipped
              = result.rebalanced + result.failed + result.skipped + 1
<1>0. /\ result.rebalanced \in Nat /\ result.failed \in Nat /\ result.skipped \in Nat
      /\ result.unprovisioned \subseteq Nodes
  BY ExecParts
<1>1. CASE field = "rebalanced"
  <2>1. result' = [rebalanced |-> result.rebalanced + 1, failed |-> result.failed,
                   skipped |-> result.skipped, unprovisioned |-> result.unprovisioned]
    BY <1>1, ExecParts DEF Count
  <2> QED
    BY <1>0, <2>1 DEF Results
<1>2. CASE field = "failed"
  <2>1. result' = [rebalanced |-> result.rebalanced, failed |-> result.failed + 1,
                   skipped |-> result.skipped, unprovisioned |-> result.unprovisioned]
    BY <1>2, ExecParts DEF Count
  <2> QED
    BY <1>0, <2>1 DEF Results
<1>3. CASE field = "skipped"
  <2>1. result' = [rebalanced |-> result.rebalanced, failed |-> result.failed,
                   skipped |-> result.skipped + 1, unprovisioned |-> result.unprovisioned]
    BY <1>3, ExecParts DEF Count
  <2> QED
    BY <1>0, <2>1 DEF Results
<1> QED
  BY <1>1, <1>2, <1>3

\* A candidate that is not provisioned is counted as well.
LEMMA ProvisionCount ==
  ASSUME ExecInv, provisionNewNode
  PROVE  /\ result' \in Results
         /\ result'.rebalanced + result'.failed + result'.skipped
              = result.rebalanced + result.failed + result.skipped + 1
<1>1. Candidate \in Nodes
  BY CandidateIsNode DEF provisionNewNode
<1>2. result' = [rebalanced |-> result.rebalanced, failed |-> result.failed + 1,
                 skipped |-> result.skipped,
                 unprovisioned |-> result.unprovisioned \cup {Candidate}]
  BY ExecParts DEF provisionNewNode
<1>3. /\ result.rebalanced \in Nat /\ result.failed \in Nat /\ result.skipped \in Nat
      /\ result.failed + 1 \in Nat /\ result.unprovisioned \cup {Candidate} \in SUBSET Nodes
  BY <1>1, ExecParts
<1>4. result' \in Results
  BY <1>2, <1>3 DEF Results
<1>5. /\ result'.rebalanced = result.rebalanced /\ result'.failed = result.failed + 1
      /\ result'.skipped = result.skipped
  BY <1>2
<1> QED
  BY <1>3, <1>4, <1>5

-----------------------------------------------------------------------------
(* Steps of the executor.                                                  *)

\* A step of the executor that leaves the plan alone.
LEMMA SamePlan ==
  ASSUME ExecInv, UNCHANGED plan, result' \in Results,
         NEW step \in Steps, NEW batch \in 0..Len(plan.batches), NEW todo \in Seq(Nodes),
         NEW keep \in Seq(Nodes),
         exec' = [step |-> step, batch |-> batch, todo |-> todo, keep |-> keep]
  PROVE  ExecType'
<1>1. exec' \in Executions(Len(plan.batches))
  BY DEF Executions
<1> QED
  BY <1>1 DEF ExecInv, ExecType

\* The executor goes on with the next candidate.
LEMMA NextCandidateStep ==
  ASSUME ExecInv, exec.step # "idle", exec.todo # << >>, NextCandidate, UNCHANGED plan,
         result' \in Results
  PROVE  ExecInv'
<1>1. Tail(exec.todo) \in Seq(Nodes)
  BY ExecParts, ListStep
<1>2. exec' = [step |-> Loop, batch |-> exec.batch, todo |-> Tail(exec.todo), keep |-> exec.keep]
      /\ Loop \in Steps
  BY ExecParts DEF NextCandidate, Loop, Steps
<1>3. ExecType'
  BY <1>1, <1>2, ExecParts, SamePlan
<1>4. exec'.step = Loop /\ exec'.step # "idle" /\ Rolling' = Rolling
  BY <1>2 DEF Loop, Rolling
<1>5. StepInv'
  BY <1>4 DEF StepInv, Loop
<1> QED
  BY <1>3, <1>5 DEF ExecInv

\* Every step keeps what steps of the executor rely on.
LEMMA ExecStep ==
  ASSUME TypeOK, ExecInv, [Next]_vars PROVE ExecInv'
<1> USE DEF ExecInv
<1>0. ExecType /\ StepInv /\ result \in Results
  BY DEF ExecType
<1>1. CASE UNCHANGED <<plan, exec, result>>
  BY <1>0, <1>1 DEF ExecType, StepInv, Rolling
<1>2. CASE CreatePlan
  BY <1>2, CreatePlanStep
<1>14. CASE GivenPlan
  BY <1>14, GivenPlanStep
<1>3. CASE executeRollingBatch
  <2>1. plan.batches[exec.batch + 1] \in Seq(Nodes) /\ exec.batch + 1 \in 0..Len(plan.batches)
    BY <1>3, ExecParts DEF executeRollingBatch
  <2>2. exec' = [step |-> exec.step, batch |-> exec.batch + 1, todo |-> plan.batches[exec.batch + 1],
                 keep |-> exec.keep] /\ UNCHANGED <<plan, result>>
    BY <1>3, ExecParts DEF executeRollingBatch
  <2>3. exec'.step = "candidate" /\ Rolling'
    BY <1>3, <2>2 DEF executeRollingBatch, BatchDone, Loop, Rolling
  <2>4. ExecType'
    BY <1>0, <2>1, <2>2, SamePlan, ExecParts
  <2> QED
    BY <2>3, <2>4 DEF StepInv
<1>4. CASE executeSurgeBatch
  <2>1. PICK skipped : exec' =
          [exec EXCEPT !.batch = @ + 1, !.todo = Without(plan.batches[exec.batch + 1], skipped),
                       !.keep = Without(plan.batches[exec.batch + 1], skipped),
                       !.step = IF Without(plan.batches[exec.batch + 1], skipped) = << >>
                                THEN "drain" ELSE "provision"]
    BY <1>4 DEF executeSurgeBatch
  <2> DEFINE todo == Without(plan.batches[exec.batch + 1], skipped)
             step == IF todo = << >> THEN "drain" ELSE "provision"
  <2>2. plan.batches[exec.batch + 1] \in Seq(Nodes) /\ exec.batch + 1 \in 0..Len(plan.batches)
    BY <1>4, ExecParts DEF executeSurgeBatch
  <2>3. todo \in Seq(Nodes)
    BY <2>2, WithoutType
  <2>4. exec' = [step |-> step, batch |-> exec.batch + 1, todo |-> todo, keep |-> todo]
        /\ UNCHANGED <<plan, result>>
    BY <1>4, <2>1, ExecParts DEF executeSurgeBatch
  <2>5. step \in Steps /\ step \in {"drain", "provision"}
    BY DEF Steps
  <2> HIDE DEF todo, step
  <2>6. ExecType'
    BY <1>0, <2>2, <2>3, <2>4, <2>5, SamePlan
  <2>7. ~ Rolling' /\ exec'.step \in {"drain", "provision"}
    BY <1>4, <2>4, <2>5 DEF executeSurgeBatch, Rolling
  <2> QED
    BY <2>6, <2>7 DEF StepInv
<1>5. CASE ExecuteRebalance
  <2>1. exec' = [step |-> "completed", batch |-> exec.batch, todo |-> exec.todo,
                 keep |-> exec.keep] /\ UNCHANGED <<plan, result>>
    BY <1>5, ExecParts DEF ExecuteRebalance
  <2>2. ExecType'
    BY <1>0, <2>1, SamePlan, ExecParts DEF Steps
  <2> QED
    BY <2>1, <2>2 DEF StepInv
<1>6. CASE SkipSame
  BY <1>6, NextCandidateStep, CountType DEF SkipSame
<1>7. CASE provisionNewNode
  <2>1. /\ exec.todo # << >> /\ Tail(exec.todo) \in Seq(Nodes) /\ UNCHANGED plan
        /\ exec.step \in {"candidate", "provision"}
    BY <1>7, ListStep, ExecParts DEF provisionNewNode
  <2>2. exec' = [step |-> exec.step, batch |-> exec.batch, todo |-> Tail(exec.todo),
                 keep |-> exec.keep]
    BY <1>7, ExecParts DEF provisionNewNode
  <2>3. ExecType'
    BY <1>7, <2>1, <2>2, ProvisionCount, SamePlan, ExecParts
  <2>4. exec'.step = exec.step /\ Rolling' = Rolling
    BY <2>1, <2>2 DEF Rolling
  <2> QED
    BY <1>0, <2>1, <2>3, <2>4 DEF StepInv
<1>8. CASE DrainOldNodes
  <2>1. exec' = [step |-> "drain", batch |-> exec.batch, todo |-> exec.keep, keep |-> exec.keep]
        /\ UNCHANGED <<plan, result>>
    BY <1>8, ExecParts DEF DrainOldNodes
  <2>2. ExecType'
    BY <1>0, <2>1, SamePlan, ExecParts DEF Steps
  <2>3. ~ Rolling' /\ exec'.step = "drain"
    BY <1>0, <1>8, <2>1 DEF DrainOldNodes, StepInv, Rolling
  <2> QED
    BY <2>2, <2>3 DEF StepInv
<1>9. CASE TerminateNode \/ TerminateFails
  <2>1. exec.step # "idle" /\ exec.todo # << >>
    BY <1>9, <1>0 DEF TerminateNode, TerminateFails, StepInv
  <2> QED
    BY <1>9, <2>1, NextCandidateStep, CountType DEF TerminateNode, TerminateFails
<1>10. CASE DrainFails
  BY <1>10, NextCandidateStep, CountType DEF DrainFails
<1>11. CASE CordonNode \/ EvictPods \/ WaitForPods
  <2>1. PICK step \in {"evict", "poll", "terminate"} :
          exec' = [step |-> step, batch |-> exec.batch, todo |-> exec.todo, keep |-> exec.keep]
    BY <1>11, ExecParts DEF CordonNode, EvictPods, WaitForPods
  <2>2. /\ exec.todo # << >> /\ exec.step \in {"drain", "evict", "poll"}
        /\ UNCHANGED <<plan, result>>
    BY <1>11, <1>0 DEF CordonNode, EvictPods, WaitForPods, StepInv
  <2>3. ExecType'
    BY <1>0, <2>1, <2>2, SamePlan, ExecParts DEF Steps
  <2>4. ~ Rolling' /\ exec'.step \in {"evict", "poll", "terminate"} /\ exec'.todo = exec.todo
    BY <1>0, <2>1, <2>2 DEF StepInv, Rolling
  <2> QED
    BY <2>2, <2>3, <2>4 DEF StepInv
<1>12. CASE Analyze
  BY <1>1, <1>12 DEF Analyze
<1> QED
  BY <1>1, <1>2, <1>3, <1>4, <1>5, <1>6, <1>7, <1>8, <1>9, <1>10, <1>11, <1>12, <1>14
     DEF Next, Execute, vars, NodeReady, Exit, Bind

\* The types of the rebalancer, that a step that works on a candidate has one, and that a
\* rolling plan never drains a Node (executor.go:168-250, 346-382).
THEOREM TypeCorrect == Spec => [](TypeOK /\ ExecInv)
<1>1. Init => TypeOK /\ ExecInv
  BY InitExec, TypeParts DEF ExecInv
<1>2. TypeOK /\ ExecInv /\ [Next]_vars => TypeOK' /\ ExecInv'
  <2> SUFFICES ASSUME TypeOK, ExecInv, [Next]_vars PROVE TypeOK' /\ ExecInv'
    OBVIOUS
  <2>1. ClusterType' /\ AnalysisType' /\ ExecInv'
    BY ClusterStep, AnalysisStep, ExecStep
  <2> QED
    BY <2>1, TypePartsNext DEF ExecInv
<1> QED
  BY <1>1, <1>2, PTL DEF Spec

-----------------------------------------------------------------------------
(* A Node that is deleted is empty.                                        *)

\* The Node at work is cordoned from its eviction on, and once its poll has found no
\* pod none comes back.
EmptyInv ==
  /\ exec.step \in {"evict", "poll", "terminate"} => Candidate \in cordoned
  /\ exec.step = "terminate" => PodsOn(Candidate) = {}

\* Steps of the cluster do not bring a pod to a cordoned Node.
LEMMA EmptyStep ==
  ASSUME TypeOK, ExecInv, EmptyInv, [Next]_vars PROVE EmptyInv'
<1>0. place \in [Pods -> Present \cup {"pending"}]
  BY TypeParts DEF ClusterType
<1>1. ASSUME UNCHANGED <<exec, cordoned>>, \A n \in cordoned : PodsOn(n)' \subseteq PodsOn(n)
      PROVE  EmptyInv'
  BY <1>1 DEF EmptyInv, Candidate
<1>2. ASSUME exec'.step \notin {"evict", "poll", "terminate"} PROVE EmptyInv'
  BY <1>2 DEF EmptyInv
<1>3. CASE UNCHANGED <<exec, cordoned, place>>
  BY <1>1, <1>3 DEF PodsOn
<1>4. ASSUME NEW p \in Pods, Exit(p) PROVE EmptyInv'
  <2>1. \A n \in cordoned : n # "pending"
    BY TypeParts, ConstantsAssumption DEF ClusterType
  <2>2. \A n \in cordoned : PodsOn(n)' \subseteq PodsOn(n)
    BY <1>0, <1>4, <2>1 DEF Exit, PodsOn
  <2> QED
    BY <1>1, <1>4, <2>2 DEF Exit
<1>5. ASSUME NEW p \in Pods, NEW n \in Nodes, Bind(p, n) PROVE EmptyInv'
  <2>1. \A m \in cordoned : PodsOn(m)' \subseteq PodsOn(m)
    BY <1>0, <1>5 DEF Bind, PodsOn
  <2> QED
    BY <1>1, <1>5, <2>1 DEF Bind
<1>6. CASE CordonNode
  <2>1. exec'.step = "evict" /\ exec'.todo = exec.todo
    BY <1>6, ExecParts DEF CordonNode
  <2> QED
    BY <1>6, <2>1 DEF CordonNode, EmptyInv, Candidate
<1>7. CASE EvictPods
  <2>1. exec'.step = "poll" /\ exec'.todo = exec.todo
    BY <1>7, ExecParts DEF EvictPods
  <2> QED
    BY <1>7, <2>1 DEF EvictPods, EmptyInv, Candidate
<1>8. CASE WaitForPods
  <2>1. exec'.step = "terminate" /\ exec'.todo = exec.todo
    BY <1>8, ExecParts DEF WaitForPods
  <2> QED
    BY <1>8, <2>1 DEF WaitForPods, EmptyInv, Candidate, PodsOn, cluster
<1>9. CASE NextCandidate
  BY <1>2, <1>9, ExecParts DEF NextCandidate, Loop
<1>10. CASE \/ CreatePlan \/ GivenPlan \/ executeRollingBatch \/ executeSurgeBatch
            \/ ExecuteRebalance \/ provisionNewNode \/ DrainOldNodes
  <2>1. exec'.step \notin {"evict", "poll", "terminate"}
    BY <1>10, ExecParts DEF CreatePlan, GivenPlan, executeRollingBatch, executeSurgeBatch,
       ExecuteRebalance, provisionNewNode, DrainOldNodes, BatchDone, Loop
  <2> QED
    BY <1>2, <2>1
<1> QED
  BY <1>3, <1>4, <1>5, <1>6, <1>7, <1>8, <1>9, <1>10 DEF Next, Execute, vars, cluster,
     NodeReady, Analyze, SkipSame, DrainFails, TerminateNode, TerminateFails

\* A Node that the rebalancer deletes has no pods left, whatever is bound, refuses to be
\* evicted or ends meanwhile, for any cluster and any plan (executor.go:385-495).
THEOREM Emptied == Spec => EmptyWhenDeleted
<1>1. Init => EmptyInv
  BY DEF Init, EmptyInv
<1>2. TypeOK /\ ExecInv /\ EmptyInv /\ [Next]_vars => EmptyInv'
  BY EmptyStep
<1>3. TypeOK /\ EmptyInv /\ [Next]_vars =>
        \A n \in Nodes : node[n] # "absent" /\ node'[n] = "absent" => PodsOn(n) = {}
  <2> SUFFICES ASSUME TypeOK, EmptyInv, [Next]_vars, NEW n \in Nodes,
                      node[n] # "absent", node'[n] = "absent"
               PROVE  PodsOn(n) = {}
    OBVIOUS
  <2>1. node \in [Nodes -> {"absent", "starting", "ready"}]
    BY DEF TypeOK
  <2>2. CASE TerminateNode
    BY <2>1, <2>2 DEF TerminateNode, DeleteNode, EmptyInv
  <2>3. ASSUME NEW m \in Nodes, NodeReady(m) PROVE FALSE
    BY <2>1, <2>3 DEF NodeReady
  <2>4. ~ UNCHANGED node
    OBVIOUS
  <2> QED
    BY <2>2, <2>3, <2>4 DEF Next, Execute, vars, cluster, Exit, Bind, Analyze, CreatePlan,
       GivenPlan, executeRollingBatch, executeSurgeBatch, ExecuteRebalance, SkipSame,
       provisionNewNode, DrainOldNodes, CordonNode, EvictPods, WaitForPods, DrainFails,
       TerminateFails
<1> QED
  BY <1>1, <1>2, <1>3, TypeCorrect, PTL DEF Spec, EmptyWhenDeleted

-----------------------------------------------------------------------------
(* A rolling plan moves through its candidates.                            *)

\* The candidates counted so far.
Counted == result.rebalanced + result.failed + result.skipped

\* A step of a rolling plan that stays with its candidate, or is not one of the executor.
Stays ==
  /\ UNCHANGED <<plan, result>> /\ exec'.batch = exec.batch /\ exec'.todo = exec.todo
  /\ exec'.step = "completed" =>
       exec.step = "completed" \/ (exec.batch = Len(plan.batches) /\ exec.todo = << >>)

\* One that takes up the next batch.
StartsBatch ==
  /\ UNCHANGED <<plan, result>>
  /\ exec'.step = "candidate"
  /\ exec.todo = << >> /\ exec.batch < Len(plan.batches)
  /\ exec'.batch = exec.batch + 1 /\ exec'.todo = plan.batches[exec.batch + 1]

\* One that is done with a candidate and counts it.
EndsCandidate ==
  /\ UNCHANGED plan
  /\ exec.todo # << >> /\ exec'.batch = exec.batch /\ exec'.todo = Tail(exec.todo)
  /\ exec'.step = "candidate"
  /\ Counted' = Counted + 1

\* Every step is one of three for a rolling plan.
LEMMA RollingSteps ==
  ASSUME TypeOK, ExecInv, Rolling, [Next]_vars
  PROVE  Stays \/ StartsBatch \/ EndsCandidate
<1>0. exec = [step |-> exec.step, batch |-> exec.batch, todo |-> exec.todo, keep |-> exec.keep]
  BY ExecParts
<1>a. exec.step \in {"candidate", "completed"} /\ Loop = "candidate" /\ plan.strategy # "none"
  BY DEF ExecInv, StepInv, Rolling, Loop
<1>1. CASE UNCHANGED <<plan, exec, result>>
  BY <1>1 DEF Stays
<1>2. CASE executeRollingBatch
  BY <1>0, <1>a, <1>2 DEF executeRollingBatch, StartsBatch, BatchDone
<1>3. CASE ExecuteRebalance
  BY <1>0, <1>3 DEF ExecuteRebalance, BatchDone, Stays
<1>4. CASE SkipSame
  <2>1. Counted' = Counted + 1
    BY <1>4, CountType DEF SkipSame, Counted
  <2> QED
    BY <1>0, <1>a, <1>4, <2>1 DEF SkipSame, NextCandidate, EndsCandidate
<1>5. CASE provisionNewNode
  <2>1. Counted' = Counted + 1
    BY <1>5, ProvisionCount DEF Counted
  <2>2. exec.step = "candidate"
    BY <1>a, <1>5 DEF provisionNewNode
  <2> QED
    BY <1>0, <1>5, <2>1, <2>2 DEF provisionNewNode, EndsCandidate
<1>6. ~ Analyze /\ ~ CreatePlan /\ ~ GivenPlan /\ ~ executeSurgeBatch /\ ~ DrainOldNodes
      /\ ~ CordonNode /\ ~ EvictPods /\ ~ WaitForPods /\ ~ DrainFails /\ ~ TerminateNode
      /\ ~ TerminateFails
  BY <1>a DEF Analyze, CreatePlan, GivenPlan, executeSurgeBatch, DrainOldNodes, CordonNode,
     EvictPods, WaitForPods, DrainFails, TerminateNode, TerminateFails
<1> QED
  BY <1>1, <1>2, <1>3, <1>4, <1>5, <1>6 DEF Next, Execute, vars, NodeReady, Exit, Bind

\* Only CreatePlan makes a rolling plan.
LEMMA BecomesRolling ==
  ASSUME TypeOK, ExecInv, ~ Rolling, [Next]_vars, Rolling' PROVE CreatePlan
<1>1. ~ UNCHANGED plan /\ ~ GivenPlan
  BY GivenPlanStep DEF Rolling
<1> QED
  BY <1>1 DEF Next, Execute, vars, NodeReady, Exit, Bind, Analyze,
     executeRollingBatch, executeSurgeBatch, ExecuteRebalance, SkipSame, provisionNewNode,
     DrainOldNodes, CordonNode, EvictPods, WaitForPods, DrainFails, TerminateNode,
     TerminateFails

\* Candidates still ahead: in the rest of the batch or in a later one.
Listed(c) == \E k \in DOMAIN exec.todo : exec.todo[k] = c
Later(c) ==
  \E j \in DOMAIN plan.batches :
    j > exec.batch /\ \E k \in DOMAIN plan.batches[j] : plan.batches[j][k] = c
Ahead == {c \in plan.nodes : Listed(c) \/ Later(c)}

\* What a rolling plan has still to do, and that it has counted the rest.
PlanInv ==
  Rolling =>
    /\ Splits(plan.batches, plan.nodes)
    /\ \A k \in DOMAIN exec.todo : exec.todo[k] \in plan.nodes /\ ~ Later(exec.todo[k])
    /\ \A k, l \in DOMAIN exec.todo : exec.todo[k] = exec.todo[l] => k = l
    /\ Counted + Cardinality(Ahead) = Cardinality(plan.nodes)
    /\ exec.step = "completed" => Ahead = {}

\* Candidates are finitely many.
LEMMA AheadFinite ==
  ASSUME ExecInv
  PROVE  /\ IsFiniteSet(plan.nodes) /\ IsFiniteSet(Ahead) /\ Ahead \subseteq plan.nodes
         /\ Cardinality(Ahead) \in Nat /\ Cardinality(plan.nodes) \in Nat
<1>1. plan.nodes \subseteq Nodes /\ Ahead \subseteq plan.nodes
  BY ExecParts DEF Ahead
<1>2. IsFiniteSet(plan.nodes) /\ IsFiniteSet(Ahead)
  BY <1>1, ConstantsAssumption, FS_Subset
<1> QED
  BY <1>1, <1>2, FS_CardinalityType

\* At the start everything is ahead and nothing is counted.
LEMMA PlanStart ==
  ASSUME TypeOK, ExecInv, CreatePlan PROVE PlanInv'
<1>1. /\ Splits(plan'.batches, plan'.nodes) /\ exec.step = "idle" /\ exec'.step = "candidate"
      /\ exec.batch = 0 /\ exec.todo = << >> /\ ExecInv'
  BY CreatePlanStep DEF CreatePlan
<1>2. exec'.batch = 0 /\ exec'.todo = << >> /\ result' = result
  BY <1>1, ExecParts DEF CreatePlan
<1>3. Counted' = 0
  BY <1>1, <1>2 DEF Counted, ExecInv, StepInv
<1>4. /\ plan'.batches \in Seq(Seq(Nodes)) /\ plan'.nodes \subseteq Nodes
      /\ DOMAIN exec'.todo = {}
  BY <1>1, <1>2 DEF ExecInv, ExecType
<1>5. \A c \in plan'.nodes : Later(c)'
  <2> SUFFICES ASSUME NEW c \in plan'.nodes PROVE Later(c)'
    OBVIOUS
  <2>1. PICK j \in DOMAIN plan'.batches :
          \E k \in DOMAIN plan'.batches[j] : plan'.batches[j][k] = c
    BY <1>1 DEF Splits
  <2>2. j \in 1..Len(plan'.batches) /\ Len(plan'.batches) \in Nat
    BY <1>4, <2>1
  <2>3. j > exec'.batch
    BY <1>2, <2>2
  <2> QED
    BY <2>1, <2>3 DEF Later
<1>6. Ahead' = plan'.nodes
  BY <1>5 DEF Ahead
<1>7. Cardinality(Ahead') \in Nat
  BY <1>4, <1>6, ConstantsAssumption, FS_Subset, FS_CardinalityType
<1> QED
  BY <1>1, <1>3, <1>4, <1>6, <1>7 DEF PlanInv

\* A batch that starts leaves what is ahead as it is.
LEMMA PlanBatch ==
  ASSUME TypeOK, ExecInv, Rolling, PlanInv, StartsBatch PROVE PlanInv' /\ Ahead' = Ahead
<1> DEFINE b == exec.batch + 1
           batches == plan.batches
<1>1. /\ batches \in Seq(Seq(Nodes)) /\ exec.batch \in Nat /\ b \in DOMAIN batches
      /\ batches[b] \in Seq(Nodes)
  BY ExecParts DEF StartsBatch
<1>2. plan' = plan /\ exec'.batch = b /\ exec'.todo = batches[b] /\ exec.todo = << >>
  BY DEF StartsBatch
<1>3. Splits(batches, plan.nodes)
  BY DEF PlanInv
<1>4. \A c : Later(c) <=> Listed(c)' \/ Later(c)'
  <2>1. \A j \in DOMAIN batches : j > exec.batch <=> j = b \/ j > b
    BY <1>1
  <2>2. ASSUME NEW c
        PROVE  /\ Listed(c)' <=> \E k \in DOMAIN batches[b] : batches[b][k] = c
               /\ Later(c)' <=> \E j \in DOMAIN batches : j > b /\ \E k \in DOMAIN batches[j] : batches[j][k] = c
    BY <1>2 DEF Listed, Later
  <2> QED
    BY <1>1, <2>1, <2>2 DEF Later
<1>5. Ahead' = Ahead
  BY <1>2, <1>4 DEF Ahead, Listed
<1>6. \A k \in DOMAIN exec'.todo : exec'.todo[k] \in plan.nodes
  BY <1>1, <1>2, <1>3 DEF Splits
<1>7. \A k \in DOMAIN exec'.todo : ~ Later(exec.todo[k])'
  BY <1>1, <1>2, <1>3 DEF Splits, Later
<1>8. \A k, l \in DOMAIN exec'.todo : exec'.todo[k] = exec'.todo[l] => k = l
  BY <1>1, <1>2, <1>3 DEF Splits
<1>9. Rolling' /\ Counted' = Counted /\ exec'.step = "candidate"
  BY DEF StartsBatch, Counted, Rolling
<1>10. Counted + Cardinality(Ahead) = Cardinality(plan.nodes)
  BY DEF PlanInv
<1> QED
  BY <1>2, <1>3, <1>5, <1>6, <1>7, <1>8, <1>9, <1>10 DEF PlanInv

\* A candidate that is done with is counted and no longer ahead.
LEMMA PlanCandidate ==
  ASSUME TypeOK, ExecInv, Rolling, PlanInv, EndsCandidate
  PROVE  PlanInv' /\ Ahead' = Ahead \ {Candidate} /\ Candidate \in Ahead
<1> DEFINE todo == exec.todo
<1>1. /\ todo \in Seq(Nodes) /\ todo # << >> /\ DOMAIN todo = 1..Len(todo)
      /\ Candidate = todo[1] /\ 1 \in DOMAIN todo
      /\ DOMAIN Tail(todo) = 1..Len(Tail(todo)) /\ Len(todo) \in Nat
      /\ Len(Tail(todo)) = Len(todo) - 1
      /\ \A k \in DOMAIN todo : k = 1 \/ (k - 1 \in DOMAIN Tail(todo) /\ Tail(todo)[k - 1] = todo[k])
      /\ \A k \in DOMAIN Tail(todo) : k + 1 \in DOMAIN todo /\ Tail(todo)[k] = todo[k + 1]
  <2>1. todo \in Seq(Nodes) /\ todo # << >>
    BY ExecParts DEF EndsCandidate
  <2>2. /\ Tail(todo) \in Seq(Nodes) /\ Len(todo) \in Nat /\ Len(Tail(todo)) = Len(todo) - 1
        /\ todo[1] = Head(todo)
        /\ \A k \in 1..Len(todo) : k = 1 \/ (k - 1 \in 1..Len(Tail(todo)) /\ Tail(todo)[k - 1] = todo[k])
        /\ \A k \in 1..Len(Tail(todo)) : Tail(todo)[k] = todo[k + 1]
    BY <2>1, ListStep
  <2>3. DOMAIN todo = 1..Len(todo) /\ DOMAIN Tail(todo) = 1..Len(Tail(todo)) /\ Len(Tail(todo)) \in Nat
    BY <2>1, <2>2
  <2> HIDE DEF todo
  <2>4. 1 \in 1..Len(todo) /\ \A k \in 1..Len(Tail(todo)) : k + 1 \in 1..Len(todo)
    BY <2>2, <2>3
  <2> QED
    BY <2>1, <2>2, <2>3, <2>4 DEF Candidate, todo
<1>2. plan' = plan /\ exec'.batch = exec.batch /\ exec'.todo = Tail(todo)
  BY DEF EndsCandidate
<1>3. /\ \A k \in DOMAIN todo : todo[k] \in plan.nodes /\ ~ Later(todo[k])
      /\ \A k, l \in DOMAIN todo : todo[k] = todo[l] => k = l
      /\ Splits(plan.batches, plan.nodes)
      /\ Counted + Cardinality(Ahead) = Cardinality(plan.nodes)
  BY DEF PlanInv
<1>4. \A c : Later(c)' <=> Later(c)
  BY <1>2 DEF Later
<1>5. \A c : Listed(c)' <=> Listed(c) /\ c # Candidate
  <2>1. ASSUME NEW c, Listed(c)' PROVE Listed(c) /\ c # Candidate
    <3>1. PICK k \in DOMAIN Tail(todo) : Tail(todo)[k] = c
      BY <1>2, <2>1 DEF Listed
    <3>2. k + 1 \in DOMAIN todo /\ todo[k + 1] = c /\ k + 1 # 1
      BY <1>1, <3>1
    <3> QED
      BY <1>1, <1>3, <3>2 DEF Listed
  <2>2. ASSUME NEW c, Listed(c), c # Candidate PROVE Listed(c)'
    BY <1>1, <1>2, <2>2 DEF Listed
  <2> QED
    BY <2>1, <2>2
<1>6. Candidate \in Ahead /\ ~ Later(Candidate)
  BY <1>1, <1>3 DEF Ahead, Listed
<1>7. Ahead' = Ahead \ {Candidate}
  BY <1>2, <1>4, <1>5, <1>6 DEF Ahead
<1>8. Cardinality(Ahead') = Cardinality(Ahead) - 1 /\ Cardinality(Ahead) \in Nat
  BY <1>6, <1>7, AheadFinite, FS_RemoveElement
<1>9. Counted' = Counted + 1 /\ exec'.step = "candidate" /\ Rolling' /\ Counted \in Nat
  BY ExecParts DEF EndsCandidate, Rolling, Counted
<1>10. \A k \in DOMAIN exec'.todo : exec'.todo[k] \in plan.nodes /\ ~ Later(exec.todo[k])'
  <2>1. ASSUME NEW k \in DOMAIN Tail(todo)
        PROVE  Tail(todo)[k] \in plan.nodes /\ ~ Later(Tail(todo)[k])
    BY <1>1, <1>3, <2>1
  <2> QED
    BY <1>2, <1>4, <2>1
<1>11. \A k, l \in DOMAIN exec'.todo : exec'.todo[k] = exec'.todo[l] => k = l
  <2>1. ASSUME NEW k \in DOMAIN Tail(todo), NEW l \in DOMAIN Tail(todo), Tail(todo)[k] = Tail(todo)[l]
        PROVE  k = l
    <3>1. k + 1 = l + 1
      BY <1>1, <1>3, <2>1
    <3> QED
      BY <1>1, <3>1
  <2> QED
    BY <1>2, <2>1
<1>12. Counted' + Cardinality(Ahead') = Cardinality(plan.nodes)
  BY <1>3, <1>8, <1>9
<1> QED
  BY <1>2, <1>3, <1>6, <1>7, <1>9, <1>10, <1>11, <1>12 DEF PlanInv

-----------------------------------------------------------------------------
(* Every candidate once.                                                   *)

\* Other steps change neither.
LEMMA PlanStays ==
  ASSUME TypeOK, ExecInv, Rolling, PlanInv, Stays
  PROVE  PlanInv' /\ Ahead' = Ahead
<1>1. /\ plan' = plan /\ exec'.batch = exec.batch /\ exec'.todo = exec.todo
      /\ Counted' = Counted /\ Rolling'
  BY DEF Stays, Counted, Rolling
<1>2. \A c : (Later(c)' <=> Later(c)) /\ (Listed(c)' <=> Listed(c))
  BY <1>1 DEF Later, Listed
<1>3. Ahead' = Ahead
  BY <1>1, <1>2 DEF Ahead
<1>4. ASSUME exec'.step = "completed" PROVE Ahead = {}
  <2>1. CASE exec.step = "completed"
    BY <2>1 DEF PlanInv
  <2>2. CASE exec.batch = Len(plan.batches) /\ exec.todo = << >>
    BY <2>2, ExecParts DEF Ahead, Listed, Later
  <2> QED
    BY <1>4, <2>1, <2>2 DEF Stays
<1>5. /\ Splits(plan.batches, plan.nodes)
      /\ \A k \in DOMAIN exec.todo : exec.todo[k] \in plan.nodes /\ ~ Later(exec.todo[k])
      /\ \A k, l \in DOMAIN exec.todo : exec.todo[k] = exec.todo[l] => k = l
      /\ Counted + Cardinality(Ahead) = Cardinality(plan.nodes)
  BY DEF PlanInv
<1>6. \A k \in DOMAIN exec'.todo : exec'.todo[k] \in plan.nodes /\ ~ Later(exec.todo[k])'
  BY <1>1, <1>2, <1>5
<1> QED
  BY <1>1, <1>3, <1>4, <1>5, <1>6 DEF PlanInv

\* So every step keeps PlanInv.
LEMMA PlanStep ==
  ASSUME TypeOK, ExecInv, PlanInv, [Next]_vars PROVE PlanInv'
<1>1. CASE Rolling
  BY <1>1, RollingSteps, PlanStays, PlanBatch, PlanCandidate
<1>2. CASE ~ Rolling /\ Rolling'
  BY <1>2, BecomesRolling, PlanStart
<1>3. CASE ~ Rolling'
  BY <1>3 DEF PlanInv
<1> QED
  BY <1>1, <1>2, <1>3

\* A rolling plan that has ended has skipped or failed every candidate once, whatever
\* the sizes of its batches and however they were merged (executor.go:101,
\* planner.go:372).
THEOREM Counting == Spec => []CountedOnce
<1>1. Init => PlanInv
  BY ConstantsAssumption DEF Init, PlanInv, Rolling
<1>2. TypeOK /\ ExecInv /\ PlanInv /\ [Next]_vars => PlanInv'
  BY PlanStep
<1>3. TypeOK /\ ExecInv /\ PlanInv => CountedOnce
  <2> SUFFICES ASSUME TypeOK, ExecInv, PlanInv, Rolling, exec.step = "completed"
               PROVE  Counted = Cardinality(plan.nodes)
    BY DEF CountedOnce, Counted
  <2>1. Counted + Cardinality(Ahead) = Cardinality(plan.nodes) /\ Cardinality(Ahead) = 0
    BY FS_EmptySet DEF PlanInv
  <2>2. Counted \in Nat
    BY ExecParts DEF Counted
  <2> QED
    BY <2>1, <2>2
<1> QED
  BY <1>1, <1>2, <1>3, TypeCorrect, PTL DEF Spec
=============================================================================
