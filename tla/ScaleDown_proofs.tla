--------------------------- MODULE ScaleDown_proofs ---------------------------
(***************************************************************************)
(* Proofs about ScaleDown: its types, that no Node that has been busy is   *)
(* chosen, and that the drain of a Node leaves room for its pods.          *)
(*                                                                         *)
(* Sums over sets are the ones of the community modules; what they are     *)
(* between is proved for sets of any size, by induction on their size.     *)
(***************************************************************************)
EXTENDS ScaleDown, Integers, FiniteSetTheorems, SequenceTheorems, WellFoundedInduction, TLAPS

-----------------------------------------------------------------------------
(* Induction and sums.                                                     *)

\* What holds of 0, and of k if of k - 1, holds up to n.
LEMMA PrefixInduction ==
  ASSUME NEW n \in Nat, NEW S, 0 \in S, \A k \in 1..n : k - 1 \in S => k \in S
  PROVE  0..n \subseteq S
<1> DEFINE T == 0..n \ S
           R == OpToRel(<, Nat)
<1> SUFFICES ASSUME T # {} PROVE FALSE
  OBVIOUS
<1>1. IsWellFoundedOn(R, Nat)
  BY NatLessThanWellFounded
<1>2. T \subseteq Nat
  OBVIOUS
<1> HIDE DEF R
<1>3. PICK k \in T : \A i \in T : ~ (<<i, k>> \in R)
  BY <1>1, <1>2, WFMin
<1>4. k \in 1..n /\ k - 1 \in 0..n
  BY <1>3
<1>5. <<k - 1, k>> \in R
  BY <1>4 DEF R, OpToRel
<1> QED
  BY <1>3, <1>4, <1>5

\* The element that sums take first.
Any(s) == CHOOSE x \in s : TRUE

\* h sums f over the sets of D, taking any element first.
Sums(h, f, D) ==
  /\ h \in [D -> Nat]
  /\ \A s \in D : h[s] = IF s = {} THEN 0 ELSE f[Any(s)] + h[s \ {Any(s)}]

\* A set without one of its elements has one less.
LEMMA OneLess ==
  ASSUME NEW S, IsFiniteSet(S), NEW s \in SUBSET S, s # {}
  PROVE  /\ Any(s) \in s /\ Any(s) \in S /\ s \ {Any(s)} \in SUBSET S
         /\ Cardinality(s) \in Nat \ {0} /\ Cardinality(s \ {Any(s)}) = Cardinality(s) - 1
<1>1. Any(s) \in s
  BY DEF Any
<1>2. IsFiniteSet(s) /\ Cardinality(s) \in Nat
  BY FS_Subset, FS_CardinalityType
<1>3. Cardinality(s \ {Any(s)}) = Cardinality(s) - 1 /\ Cardinality(s) # 0
  BY <1>1, <1>2, FS_RemoveElement, FS_EmptySet
<1> QED
  BY <1>1, <1>2, <1>3

\* There is such a function: it is built from the one for smaller sets.
LEMMA SumsExist ==
  ASSUME NEW S, IsFiniteSet(S), NEW f, \A x \in S : f[x] \in Nat
  PROVE  \E h : Sums(h, f, SUBSET S)
<1> DEFINE n == Cardinality(S)
           Small(k) == {s \in SUBSET S : Cardinality(s) <= k}
           T == {k \in 0..n : \E h : Sums(h, f, Small(k))}
<1>0. n \in Nat /\ \A s \in SUBSET S : Cardinality(s) \in Nat /\ Cardinality(s) <= n
  BY FS_Subset, FS_CardinalityType
<1>1. 0 \in T
  <2>1. \A s \in Small(0) : s = {}
    BY <1>0, FS_Subset, FS_EmptySet
  <2>2. Sums([s \in Small(0) |-> 0], f, Small(0))
    BY <2>1 DEF Sums
  <2> QED
    BY <1>0, <2>2
<1>2. ASSUME NEW k \in 1..n, k - 1 \in T PROVE k \in T
  <2>1. PICK g : Sums(g, f, Small(k - 1))
    BY <1>2
  <2> DEFINE h == [s \in Small(k) |-> IF s = {} THEN 0 ELSE f[Any(s)] + g[s \ {Any(s)}]]
  <2>2. ASSUME NEW s \in Small(k), s # {}
        PROVE  Any(s) \in S /\ s \ {Any(s)} \in Small(k - 1) /\ f[Any(s)] + g[s \ {Any(s)}] \in Nat
    <3>1. /\ Any(s) \in S /\ s \ {Any(s)} \in SUBSET S
          /\ Cardinality(s \ {Any(s)}) = Cardinality(s) - 1 /\ Cardinality(s) \in Nat
      BY <2>2, OneLess
    <3>2. s \ {Any(s)} \in Small(k - 1)
      BY <3>1
    <3> QED
      BY <2>1, <3>1, <3>2 DEF Sums
  <2>3. h \in [Small(k) -> Nat]
    BY <2>2
  <2>4. \A s \in Small(k - 1) : s \in Small(k) /\ h[s] = g[s]
    <3>1. Small(k - 1) \subseteq Small(k)
      BY <1>0
    <3> QED
      BY <2>1, <3>1 DEF Sums
  <2>5. Sums(h, f, Small(k))
    <3> SUFFICES ASSUME NEW s \in Small(k), s # {} PROVE h[s] = f[Any(s)] + h[s \ {Any(s)}]
      BY <2>3 DEF Sums
    <3>1. s \ {Any(s)} \in Small(k - 1)
      BY <2>2
    <3> QED
      BY <2>4, <3>1
  <2> QED
    BY <2>5
<1>3. n \in T
  <2> HIDE DEF T
  <2>1. 0..n \subseteq T
    BY <1>0, <1>1, <1>2, PrefixInduction
  <2> QED
    BY <1>0, <2>1
<1>4. Small(n) = SUBSET S
  BY <1>0
<1> QED
  BY <1>3, <1>4

\* SumFunctionOnSet is such a sum.
LEMMA SumOn ==
  ASSUME NEW S, IsFiniteSet(S), NEW f, \A x \in S : f[x] \in Nat
  PROVE  \E h : Sums(h, f, SUBSET S) /\ SumFunctionOnSet(f, S) = h[S]
<1> DEFINE h == CHOOSE k : k = [s \in SUBSET S |-> IF s = {} THEN 0 ELSE f[Any(s)] + k[s \ {Any(s)}]]
<1>1. PICK g : Sums(g, f, SUBSET S)
  BY SumsExist
<1>2. g = [s \in SUBSET S |-> IF s = {} THEN 0 ELSE f[Any(s)] + g[s \ {Any(s)}]]
  BY <1>1 DEF Sums
<1>3. h = [s \in SUBSET S |-> IF s = {} THEN 0 ELSE f[Any(s)] + h[s \ {Any(s)}]]
  BY <1>2
<1>4. SumFunctionOnSet(f, S) = h[S]
  BY DEF SumFunctionOnSet, FoldFunctionOnSet, MapThenFoldSet, Any
<1> HIDE DEF h
<1> DEFINE n == Cardinality(S)
           T == {k \in 0..n : \A s \in SUBSET S : Cardinality(s) = k => h[s] \in Nat}
<1>0. n \in Nat /\ \A s \in SUBSET S : Cardinality(s) \in Nat /\ Cardinality(s) <= n
  BY FS_Subset, FS_CardinalityType
<1>5. 0 \in T
  <2>1. \A s \in SUBSET S : Cardinality(s) = 0 => s = {}
    BY FS_Subset, FS_EmptySet
  <2> QED
    BY <1>0, <1>3, <2>1
<1>6. ASSUME NEW k \in 1..n, k - 1 \in T PROVE k \in T
  <2> SUFFICES ASSUME NEW s \in SUBSET S, Cardinality(s) = k PROVE h[s] \in Nat
    BY <1>6
  <2>1. s # {}
    BY <1>0, FS_EmptySet
  <2>2. Any(s) \in S /\ s \ {Any(s)} \in SUBSET S /\ Cardinality(s \ {Any(s)}) = k - 1
    BY <2>1, OneLess
  <2>3. h[s \ {Any(s)}] \in Nat /\ h[s] = f[Any(s)] + h[s \ {Any(s)}]
    BY <1>3, <1>6, <2>1, <2>2
  <2> QED
    BY <2>2, <2>3
<1>7. 0..n \subseteq T
  <2> HIDE DEF T
  <2> QED
    BY <1>0, <1>5, <1>6, PrefixInduction
<1>8. h \in [SUBSET S -> Nat]
  <2>1. \A s \in SUBSET S : h[s] \in Nat
    BY <1>0, <1>7
  <2> QED
    BY <1>3, <2>1
<1> QED
  BY <1>3, <1>4, <1>8 DEF Sums

\* A sum lies between as many times the least and the greatest of its terms.
LEMMA SumBounds ==
  ASSUME NEW S, IsFiniteSet(S), NEW f, NEW lo \in Nat, NEW hi \in Nat,
         \A x \in S : f[x] \in Nat /\ lo <= f[x] /\ f[x] <= hi
  PROVE  /\ SumFunctionOnSet(f, S) \in Nat
         /\ Cardinality(S) * lo <= SumFunctionOnSet(f, S)
         /\ SumFunctionOnSet(f, S) <= Cardinality(S) * hi
<1> DEFINE n == Cardinality(S)
<1>1. PICK h : Sums(h, f, SUBSET S) /\ SumFunctionOnSet(f, S) = h[S]
  BY SumOn
<1> DEFINE Within(s, k) == k * lo <= h[s] /\ h[s] <= k * hi
           T == {k \in 0..n : \A s \in SUBSET S : Cardinality(s) = k => Within(s, k)}
<1>0. n \in Nat /\ \A s \in SUBSET S : Cardinality(s) \in Nat /\ Cardinality(s) <= n
  BY FS_Subset, FS_CardinalityType
<1>2. 0 \in T
  <2>1. \A s \in SUBSET S : Cardinality(s) = 0 => s = {}
    BY FS_Subset, FS_EmptySet
  <2>2. h[{}] = 0
    BY <1>1 DEF Sums
  <2> QED
    BY <1>0, <2>1, <2>2
<1>3. ASSUME NEW k \in 1..n, k - 1 \in T PROVE k \in T
  <2> SUFFICES ASSUME NEW s \in SUBSET S, Cardinality(s) = k PROVE Within(s, k)
    BY <1>3
  <2>1. s # {}
    BY <1>0, FS_EmptySet
  <2>2. Any(s) \in S /\ s \ {Any(s)} \in SUBSET S /\ Cardinality(s \ {Any(s)}) = k - 1
    BY <2>1, OneLess
  <2>3. h[s] = f[Any(s)] + h[s \ {Any(s)}] /\ h[s \ {Any(s)}] \in Nat
    BY <1>1, <2>1, <2>2 DEF Sums
  <2>4. Within(s \ {Any(s)}, k - 1)
    BY <1>3, <2>2
  <2> DEFINE a == f[Any(s)]
             b == h[s \ {Any(s)}]
  <2>5. a \in Nat /\ b \in Nat /\ lo <= a /\ a <= hi /\ (k - 1) * lo <= b /\ b <= (k - 1) * hi
        /\ h[s] = a + b
    BY <2>2, <2>3, <2>4
  <2> HIDE DEF a, b
  <2>6. (k - 1) * lo + lo = k * lo /\ (k - 1) * hi + hi = k * hi
    OBVIOUS
  <2> QED
    BY <2>5, <2>6
<1>4. 0..n \subseteq T
  <2> HIDE DEF T
  <2> QED
    BY <1>0, <1>2, <1>3, PrefixInduction
<1>5. Within(S, n)
  BY <1>0, <1>4
<1>6. h[S] \in Nat
  BY <1>1 DEF Sums
<1> QED
  BY <1>1, <1>5, <1>6

-----------------------------------------------------------------------------
(* Samples and their average.                                              *)

\* ConstantsAssumption as numbers.
Constants ==
  /\ MinNodes \in Nat /\ Window \in Nat /\ MaxStaleness \in Nat /\ Cooldown \in Nat
  /\ Threshold \in Nat /\ Low \in Nat /\ High \in Nat
  /\ Capacity \in Nat \ {0} /\ MaxSamples \in Nat \ {0} /\ Day \in Nat \ {0}
  /\ Low < Threshold /\ Threshold <= High

\* What is known of the constants, one by one.
LEMMA ConstantTypes == Constants
BY ConstantsAssumption DEF Constants

\* Ages at which a sample no longer matters.
LEMMA OldIs ==
  /\ Old \in Nat \ {0} /\ Window < Old /\ MaxStaleness < Old
  /\ Tolerated \in Nat /\ Tolerated < Old
BY ConstantTypes DEF Constants, Old, Tolerated

\* Lists of samples.
Lists == UNION {[1..k -> Samples] : k \in 0..MaxSamples}

\* A list of samples.
LEMMA ListIs ==
  ASSUME NEW list \in Lists
  PROVE  /\ list \in Seq(Samples) /\ Len(list) \in 0..MaxSamples /\ DOMAIN list = 1..Len(list)
         /\ \A i \in 1..Len(list) : list[i].age \in 0..Old /\ list[i].load \in {Low, High}
<1>1. PICK k \in 0..MaxSamples : list \in [1..k -> Samples]
  BY DEF Lists
<1>2. k \in Nat
  BY ConstantTypes DEF Constants
<1>3. list \in Seq(Samples) /\ Len(list) = k /\ DOMAIN list = 1..k
  BY <1>1, <1>2
<1> QED
  BY <1>1, <1>3 DEF Samples

\* A list that is not too long is one of a record.
LEMMA SeqIsList ==
  ASSUME NEW list \in Seq(Samples), Len(list) <= MaxSamples PROVE list \in Lists
<1>1. Len(list) \in 0..MaxSamples /\ list \in [1..Len(list) -> Samples]
  BY ConstantTypes DEF Constants
<1> QED
  BY <1>1 DEF Lists

\* What a new sample makes of the list: it is the last one, and others keep their order.
LEMMA NewSample ==
  ASSUME NEW list \in Lists, NEW x \in Samples
  PROVE  LET new == LastSamples(Append(list, x))
         IN  /\ new \in Lists /\ Len(new) \in 1..MaxSamples /\ new[Len(new)] = x
             /\ \E d \in Nat : \A i \in 1..Len(new) - 1 :
                  i + d \in 1..Len(list) /\ new[i] = list[i + d]
<1> DEFINE n == Len(list)
           all == Append(list, x)
           new == LastSamples(all)
<1>1. list \in Seq(Samples) /\ n \in 0..MaxSamples /\ MaxSamples \in Nat \ {0}
  BY ListIs, ConstantTypes DEF Constants
<1>2. /\ all \in Seq(Samples) /\ Len(all) = n + 1 /\ all[n + 1] = x
      /\ \A i \in 1..n : all[i] = list[i]
  BY <1>1
<1> HIDE DEF all
<1>3. CASE n + 1 > MaxSamples
  <2>1. n = MaxSamples
    BY <1>1, <1>3
  <2>2. new = SubSeq(all, 2, n + 1)
    <3>1. new = SubSeq(all, (n + 1) - MaxSamples + 1, n + 1)
      BY <1>2, <1>3 DEF LastSamples
    <3>2. (n + 1) - MaxSamples + 1 = 2
      BY <1>1, <2>1
    <3> QED
      BY <3>1, <3>2
  <2>3. /\ new \in Seq(Samples) /\ Len(new) = n
        /\ \A i \in 1..n : new[i] = all[i + 1]
    <3> HIDE DEF new, n
    <3>1. n \in Nat /\ n >= 1
      BY <1>1, <2>1
    <3> QED
      BY <1>2, <2>2, <3>1
  <2> HIDE DEF new, n
  <2>4. new \in Lists /\ n \in 1..MaxSamples /\ new[n] = x
    BY <1>1, <1>2, <2>1, <2>3, SeqIsList
  <2>5. \A i \in 1..n - 1 : i + 1 \in 1..n /\ new[i] = list[i + 1]
    BY <1>1, <1>2, <2>3
  <2> QED
    BY <2>3, <2>4, <2>5 DEF new, n, all
<1>4. CASE n + 1 <= MaxSamples
  <2>1. new = all
    BY <1>1, <1>2, <1>4 DEF LastSamples
  <2>2. all \in Lists
    BY <1>2, <1>4, SeqIsList
  <2>3. n + 1 \in 1..MaxSamples /\ \A i \in 1..(n + 1) - 1 : i + 0 \in 1..n /\ all[i] = list[i + 0]
    BY <1>1, <1>2, <1>4
  <2> HIDE DEF new, n
  <2> QED
    BY <1>2, <2>1, <2>2, <2>3 DEF new, n, all
<1> QED
  BY <1>1, <1>3, <1>4

\* An average is between the utilizations it is of (utilization.go:154).
LEMMA AverageType ==
  ASSUME NEW list \in Lists, Recent(list) # {}
  PROVE  RollingAverage(list) \in 10 * Low..10 * High
<1> DEFINE r == Recent(list)
           loads == [i \in DOMAIN list |-> list[i].load]
           sum == SumFunctionOnSet(loads, r)
           c == Cardinality(r)
<1>1. r \subseteq DOMAIN list /\ DOMAIN list = 1..Len(list) /\ Len(list) \in Nat
  BY ListIs DEF Recent
<1>2. IsFiniteSet(r) /\ c \in Nat /\ c # 0
  <2>1. IsFiniteSet(r)
    <3>1. IsFiniteSet(1..Len(list))
      BY <1>1, FS_Interval
    <3> HIDE DEF r
    <3> QED
      BY <1>1, <3>1, FS_Subset
  <2> QED
    BY <2>1, FS_CardinalityType, FS_EmptySet
<1>3. Low \in Nat /\ High \in Nat /\ Low <= High
  BY ConstantTypes DEF Constants
<1>4. \A i \in r : loads[i] \in Nat /\ Low <= loads[i] /\ loads[i] <= High
  BY <1>1, <1>3, ListIs
<1>5. sum \in Nat /\ c * Low <= sum /\ sum <= c * High
  <2> HIDE DEF r, loads
  <2> QED
    BY <1>2, <1>3, <1>4, SumBounds
<1>6. RollingAverage(list) = (10 * sum) \div c
  BY DEF RollingAverage
<1> HIDE DEF sum, c, r, loads
<1>7. c * (10 * Low) <= 10 * sum /\ 10 * sum <= c * (10 * High)
  BY <1>2, <1>3, <1>5
<1>8. \A q \in Nat, a \in Nat : c * a <= q => a <= q \div c
  BY <1>2
<1>9. \A q \in Nat, a \in Nat : q <= c * a => q \div c <= a
  BY <1>2
<1>10. 10 * sum \in Nat /\ 10 * Low \in Nat /\ 10 * High \in Nat /\ (10 * sum) \div c \in Nat
  BY <1>2, <1>3, <1>5
<1> QED
  BY <1>6, <1>7, <1>8, <1>9, <1>10

\* Records by their fields.
LEMMA RecordParts ==
  /\ Records = [list : Lists, average : 10 * Low..10 * High]
  /\ NoRecord \in Records
<1>1. << >> \in Lists
  BY ConstantTypes DEF Lists, Constants
<1>2. 10 * Low \in 10 * Low..10 * High
  BY ConstantTypes DEF Constants
<1> QED
  BY <1>1, <1>2 DEF Records, Lists, NoRecord

\* A record with a new sample is a record: its average is of at least that one.
LEMMA SampledType ==
  ASSUME NEW record \in Records, NEW percent \in {Low, High}
  PROVE  Sampled(record, percent) \in Records
<1> DEFINE x == [age |-> 0, load |-> percent]
           new == LastSamples(Append(record.list, x))
<1>1. record.list \in Lists /\ x \in Samples
  BY RecordParts, OldIs DEF Samples
<1>2. new \in Lists /\ Len(new) \in 1..MaxSamples /\ new[Len(new)] = x
  BY <1>1, NewSample
<1> HIDE DEF new
<1>3. Len(new) \in Recent(new)
  BY <1>2, ListIs, ConstantTypes DEF Recent, Constants
<1>4. RollingAverage(new) \in 10 * Low..10 * High
  BY <1>2, <1>3, AverageType
<1> QED
  BY <1>2, <1>4, RecordParts DEF Sampled, new

\* The lesser of two numbers.
LEMMA LeastIs ==
  ASSUME NEW a \in Nat, NEW b \in Nat
  PROVE  Least(a, b) \in 0..b /\ (Least(a, b) = a \/ Least(a, b) = b) /\ Least(a, b) <= a
BY DEF Least

\* Samples that have aged by a tick.
LEMMA OlderType ==
  ASSUME NEW list \in Lists
  PROVE  /\ Older(list) \in Lists /\ Len(Older(list)) = Len(list)
         /\ \A i \in 1..Len(list) : /\ Older(list)[i].load = list[i].load
                                    /\ Older(list)[i].age = Least(list[i].age + 1, Old)
<1>1. PICK k \in 0..MaxSamples : list \in [1..k -> Samples]
  BY DEF Lists
<1>2. ASSUME NEW i \in 1..k
      PROVE  /\ Older(list)[i] = [age |-> Least(list[i].age + 1, Old), load |-> list[i].load]
             /\ Older(list)[i] \in Samples
  <2>1. list[i] \in Samples
    BY <1>1
  <2>2. /\ list[i] = [age |-> list[i].age, load |-> list[i].load]
        /\ list[i].age \in 0..Old /\ list[i].load \in {Low, High}
    BY <2>1 DEF Samples
  <2>3. Older(list)[i] = [list[i] EXCEPT !.age = Least(list[i].age + 1, Old)]
    BY <1>1 DEF Older
  <2>4. Least(list[i].age + 1, Old) \in 0..Old
    <3>1. list[i].age + 1 \in Nat /\ Old \in Nat
      BY <2>2, OldIs
    <3> QED
      BY <3>1, LeastIs
  <2>5. Older(list)[i] = [age |-> Least(list[i].age + 1, Old), load |-> list[i].load]
    BY <2>2, <2>3
  <2> QED
    BY <2>2, <2>4, <2>5 DEF Samples
<1>6. Older(list) \in [1..k -> Samples]
  <2>1. Older(list) = [i \in 1..k |-> Older(list)[i]]
    BY <1>1 DEF Older
  <2> QED
    BY <1>2, <2>1
<1>7. k \in Nat /\ Len(list) = k /\ Len(Older(list)) = k
  BY <1>1, <1>6, ConstantTypes DEF Constants
<1> QED
  BY <1>2, <1>6, <1>7 DEF Lists

-----------------------------------------------------------------------------
(* The inductive invariant.                                                *)

\* TypeOK in two parts.
SamplesType == samples \in [Group -> Records]

RestType ==
  /\ node \in [Nodes -> NodeObjects] /\ place \in [Pods -> Nodes \cup {None}]
  /\ load \in [Nodes -> {Low, High}] /\ sinceDown \in 0..Cooldown /\ pass \in Passes
  /\ clock \in 0..Day - 1 /\ busyFor \in [Nodes -> 0..Tolerated + 1] /\ quiet \in BOOLEAN

\* Ages fall along the list, the oldest samples set apart.
Ordered(list) ==
  \A i, j \in 1..Len(list) : i < j => list[j].age < list[i].age \/ list[i].age = Old

\* Samples since the Node became busy are high, and its load is.
SampleInv(n) ==
  /\ Ordered(samples[n].list)
  /\ \A i \in 1..Len(samples[n].list) :
       samples[n].list[i].age < busyFor[n] => samples[n].list[i].load = High
  /\ busyFor[n] > 0 => load[n] = High

\* The same for all Nodes of the group.
SamplesInv == \A n \in Group : SampleInv(n)

\* Pods run on Nodes that are there.
PlaceInv == \A p \in Pods : place[p] # None => place[p] \in Present

\* A Node for each pod that repels the others, and resources on the Nodes there are.
SpreadRoom(n) ==
  PodsOn(n) \cap Spread # {} => Cardinality(Spread) <= Cardinality(Available \ {n})
CapacityRoom(n) ==
  Present \ {n} # {} => Requested({p \in Pods : place[p] # None})
                          <= Capacity * Cardinality(Present \ {n})

\* What the checks that are done have seen of a candidate as it was read is still so, as
\* long as nothing takes room away.
CheckedInv ==
  /\ pass.fresh /\ pass.step = "chosen" => pass.candidate \in Present
  /\ pass.fresh /\ pass.step \in Checked => pass.candidate \in Present
  /\ pass.fresh /\ quiet =>
       /\ pass.step \in Checked => pass.pods = PodsOn(pass.candidate)
       /\ pass.step \in {"capacity", "cordon"} => SpreadRoom(pass.candidate)
       /\ pass.step = "cordon" => CapacityRoom(pass.candidate)

\* The inductive invariant.
IInv == TypeOK /\ SamplesInv /\ PlaceInv /\ CheckedInv

\* The types in two parts.
LEMMA TypeParts == /\ TypeOK <=> SamplesType /\ RestType
                   /\ TypeOK' <=> SamplesType' /\ RestType'
BY DEF TypeOK, SamplesType, RestType

\* A Node with no samples.
LEMMA NoRecordInv ==
  /\ NoRecord \in Records /\ NoRecord.list = << >> /\ Len(NoRecord.list) = 0 /\ Ordered(NoRecord.list)
<1>1. NoRecord.list = << >> /\ Len(<< >>) = 0
  BY DEF NoRecord
<1> QED
  BY <1>1, RecordParts DEF Ordered

\* The initial states.
LEMMA InitInv == Init => IInv
<1> SUFFICES ASSUME Init PROVE IInv
  OBVIOUS
<1>1. RestType
  BY ConstantTypes, OldIs DEF Init, RestType, NodeObjects, Passes, Idle, Constants
<1>2. SamplesType
  BY NoRecordInv DEF Init, SamplesType
<1>3. SamplesInv
  <2> SUFFICES ASSUME NEW n \in Group PROVE SampleInv(n)
    BY DEF SamplesInv
  <2>1. samples[n] = NoRecord /\ busyFor[n] = 0
    BY DEF Init, Nodes
  <2> QED
    BY <2>1, NoRecordInv DEF SampleInv
<1>4. PlaceInv
  BY DEF Init, PlaceInv, Present
<1>5. CheckedInv
  BY DEF Init, CheckedInv, Idle, Checked
<1> QED
  BY <1>1, <1>2, <1>3, <1>4, <1>5, TypeParts DEF IInv

\* A pass by its fields.
LEMMA PassParts ==
  /\ Idle \in Passes
  /\ \A x \in Passes :
       /\ x = [step |-> x.step, candidate |-> x.candidate, pods |-> x.pods, fresh |-> x.fresh]
       /\ x.step \in {"idle", "chosen", "drain"} \cup Checked /\ x.candidate \in Group \cup {None}
       /\ x.pods \in SUBSET Pods /\ x.fresh \in BOOLEAN
BY DEF Passes, Idle

\* A candidate that is no longer the one that was read.
LEMMA TouchType ==
  ASSUME pass \in Passes, NEW n, Touch(n)
  PROVE  /\ pass' \in Passes /\ pass'.step = pass.step /\ pass'.candidate = pass.candidate
         /\ pass'.pods = pass.pods /\ (pass'.fresh => pass.fresh)
         /\ n = pass.candidate /\ pass.step # "drain" => ~ pass'.fresh
BY DEF Touch, Passes

\* A VPSieNode that is being deleted leaves its Node there.
LEMMA DeleteType ==
  ASSUME node \in [Nodes -> NodeObjects], NEW n \in Nodes, DeleteVPSieNode(n)
  PROVE  node' \in [Nodes -> NodeObjects] /\ Present \subseteq Present'
<1>1. CASE UNCHANGED node
  BY <1>1 DEF Present
<1>2. CASE node' = [node EXCEPT ![n].life = IF @ = "here" THEN "leaving" ELSE @]
  <2>1. node[n] \in NodeObjects
    OBVIOUS
  <2>2. [node[n] EXCEPT !.life = IF @ = "here" THEN "leaving" ELSE @] \in NodeObjects
    BY <2>1 DEF NodeObjects
  <2>3. \A m \in Nodes : node'[m] \in NodeObjects /\ (node[m].life # "gone" => node'[m].life # "gone")
    BY <1>2, <2>1, <2>2 DEF NodeObjects
  <2> QED
    BY <1>2, <2>3 DEF Present
<1> QED
  BY <1>1, <1>2 DEF DeleteVPSieNode

\* Every step keeps the types of all but the samples.
LEMMA RestStep ==
  ASSUME TypeOK, [Next]_vars PROVE RestType'
<1>0. RestType /\ Group \subseteq Nodes
  BY TypeParts DEF Nodes
<1>1. CASE UNCHANGED <<node, place, load, sinceDown, pass, clock, busyFor, quiet>>
  BY <1>0, <1>1 DEF RestType
<1>2. ASSUME NEW n \in Group, Choose(n) PROVE RestType'
  <2>1. pass' = [step |-> "chosen", candidate |-> n, pods |-> {}, fresh |-> TRUE]
    BY <1>2 DEF Choose, Idle
  <2>2. pass' \in Passes
    BY <2>1 DEF Passes
  <2> QED
    BY <1>0, <1>2, <2>2 DEF RestType, Choose, cluster, memory, history
<1>3. ASSUME NEW n \in Group, SkipCandidate(n) PROVE RestType'
  <2>1. node' \in [Nodes -> NodeObjects]
    BY <1>0, <1>3, DeleteType DEF SkipCandidate, RestType
  <2> QED
    BY <1>0, <1>3, <2>1, PassParts DEF RestType, SkipCandidate, EndPass, memory
<1>4. ASSUME NEW n \in Group, CordonNode(n) PROVE RestType'
  <2>1. [node[n] EXCEPT !.cordoned = TRUE] \in NodeObjects
    BY <1>0 DEF RestType, NodeObjects
  <2>2. node' \in [Nodes -> NodeObjects]
    BY <1>0, <1>4, <2>1 DEF RestType, CordonNode
  <2>3. pass' = [step |-> "drain", candidate |-> n, pods |-> {}, fresh |-> TRUE]
    BY <1>4 DEF CordonNode, Idle
  <2>4. pass' \in Passes
    BY <2>3 DEF Passes
  <2> QED
    BY <1>0, <1>4, <2>2, <2>4 DEF RestType, CordonNode, memory
<1>5. ASSUME NEW n \in Group, DrainSucceeds(n) PROVE RestType'
  <2>1. node' \in [Nodes -> NodeObjects] /\ place' \in [Pods -> Nodes \cup {None}] /\ 0 \in 0..Cooldown
    BY <1>0, <1>5, DeleteType, ConstantTypes DEF DrainSucceeds, Evicted, RestType, Constants
  <2> QED
    BY <1>0, <1>5, <2>1, PassParts DEF DrainSucceeds, RestType, EndPass
<1>6. ASSUME NEW n \in Group, DrainFails(n) PROVE RestType'
  <2>1. place' \in [Pods -> Nodes \cup {None}]
    BY <1>0, <1>6 DEF DrainFails, Evicted, RestType
  <2> QED
    BY <1>0, <1>6, <2>1, PassParts DEF DrainFails, RestType, EndPass, memory
<1>7. ASSUME NEW n \in Group, Terminate(n) PROVE RestType'
  <2>1. place' \in [Pods -> Nodes \cup {None}]
    BY <1>0, <1>7 DEF Terminate, Evicted, RestType
  <2>2. [node[n] EXCEPT !.life = "gone"] \in NodeObjects
    BY <1>0 DEF RestType, NodeObjects
  <2>3. node' \in [Nodes -> NodeObjects]
    BY <1>0, <1>7, <2>2 DEF Terminate, RestType
  <2> QED
    BY <1>0, <1>7, <2>1, <2>3, TouchType DEF Terminate, RestType, memory, Disturb
<1>8. CASE Restart
  BY <1>0, <1>8, ConstantTypes, PassParts DEF Restart, RestType, cluster, EndPass, Constants
<1>9. CASE Tick
  <2>1. sinceDown' \in 0..Cooldown
    <3>1. sinceDown + 1 \in Nat /\ Cooldown \in Nat
      BY <1>0, ConstantTypes DEF RestType, Constants
    <3> QED
      BY <1>9, <3>1, LeastIs DEF Tick
  <2>2. clock' \in 0..Day - 1
    <3>1. clock + 1 \in Nat /\ Day \in Nat \ {0}
      BY <1>0, ConstantTypes DEF RestType, Constants
    <3> QED
      BY <1>9, <3>1 DEF Tick
  <2>3. busyFor' \in [Nodes -> 0..Tolerated + 1]
    <3>1. \A n \in Nodes : busyFor[n] + 1 \in Nat /\ Tolerated + 1 \in Nat
      BY <1>0, OldIs DEF RestType
    <3>2. \A n \in Nodes : Least(busyFor[n] + 1, Tolerated + 1) \in 0..Tolerated + 1
      BY <3>1, LeastIs
    <3>3. 0 \in 0..Tolerated + 1
      BY OldIs
    <3> QED
      BY <1>9, <3>2, <3>3 DEF Tick
  <2> QED
    BY <1>0, <1>9, <2>1, <2>2, <2>3 DEF Tick, RestType, cluster
<1>10. ASSUME NEW n \in Nodes, NEW p \in Pods, Bind(p, n) PROVE RestType'
  BY <1>0, <1>10 DEF Bind, RestType, memory, Disturb
<1>11. ASSUME NEW n \in Nodes, FlipReady(n) \/ FlipProtected(n) PROVE RestType'
  <2>1. /\ [node[n] EXCEPT !.ready = ~ @] \in NodeObjects
        /\ [node[n] EXCEPT !.protected = ~ @] \in NodeObjects
    BY <1>0 DEF RestType, NodeObjects
  <2>2. node' \in [Nodes -> NodeObjects]
    BY <1>0, <1>11, <2>1 DEF FlipReady, FlipProtected, RestType
  <2>3. pass' \in Passes /\ quiet' \in BOOLEAN
    BY <1>0, <1>11, TouchType DEF FlipReady, FlipProtected, RestType, Disturb, history
  <2> QED
    BY <1>0, <1>11, <2>2, <2>3 DEF FlipReady, FlipProtected, RestType, memory, history
<1>12. ASSUME NEW n \in Group, CanScaleDown(n) PROVE RestType'
  <2>1. pass.step \in {"chosen", "rescheduling", "affinity", "capacity"}
    BY <1>12 DEF CanScaleDown, CheckPassed
  <2>2. NextCheck[pass.step] \in Checked
    BY <2>1 DEF NextCheck, Checked
  <2>3. PodsOn(n) \in SUBSET Pods
    BY DEF PodsOn
  <2>4. pass' = [step |-> NextCheck[pass.step], candidate |-> pass.candidate,
                 pods |-> IF pass.step = "chosen" THEN PodsOn(n) ELSE pass.pods,
                 fresh |-> pass.fresh]
    <3>1. pass = [step |-> pass.step, candidate |-> pass.candidate, pods |-> pass.pods,
                  fresh |-> pass.fresh]
      BY <1>0, PassParts DEF RestType
    <3> QED
      BY <1>12, <3>1 DEF CanScaleDown
  <2>5. pass' \in Passes
    BY <1>0, <2>2, <2>3, <2>4, PassParts DEF RestType, Passes
  <2> QED
    BY <1>0, <1>12, <2>5 DEF CanScaleDown, RestType, cluster, memory, history
<1> QED
  BY <1>1, <1>2, <1>3, <1>4, <1>5, <1>6, <1>7, <1>8, <1>9, <1>10, <1>11, <1>12
     DEF Next, vars, UpdateNodeUtilization, cluster, history

\* Every step leaves pods on Nodes that are there, or pending.
LEMMA PlaceStep ==
  ASSUME TypeOK, PlaceInv, [Next]_vars PROVE PlaceInv'
<1>0. node \in [Nodes -> NodeObjects] /\ place \in [Pods -> Nodes \cup {None}] /\ Group \subseteq Nodes
  BY DEF TypeOK, Nodes
<1>a. ASSUME Present \subseteq Present',
             \A p \in Pods : place'[p] = place[p] \/ place'[p] = None \/ place'[p] \in Present'
      PROVE  PlaceInv'
  BY <1>a DEF PlaceInv
<1>1. CASE UNCHANGED <<node, place>>
  BY <1>1 DEF PlaceInv, Present
<1>2. ASSUME NEW n \in Group, SkipCandidate(n) \/ DrainSucceeds(n) PROVE PlaceInv'
  <2>1. Present \subseteq Present'
    BY <1>0, <1>2, DeleteType DEF SkipCandidate, DrainSucceeds
  <2> QED
    BY <1>2, <1>a, <2>1 DEF SkipCandidate, DrainSucceeds, Evicted
<1>3. ASSUME NEW n \in Group, CordonNode(n) PROVE PlaceInv'
  <2>1. \A m \in Nodes : node'[m].life = node[m].life
    BY <1>0, <1>3 DEF CordonNode, NodeObjects
  <2>2. Present \subseteq Present'
    BY <2>1 DEF Present
  <2> QED
    BY <1>3, <1>a, <2>2 DEF CordonNode
<1>4. ASSUME NEW n \in Group, DrainFails(n) PROVE PlaceInv'
  BY <1>4, <1>a DEF DrainFails, Evicted, Present
<1>5. ASSUME NEW n \in Group, Terminate(n) PROVE PlaceInv'
  <2>1. \A m \in Nodes : m # n => node'[m] = node[m]
    BY <1>0, <1>5 DEF Terminate
  <2>2. \A m \in Present : m # n => m \in Present'
    BY <2>1 DEF Present
  <2>3. \A p \in Pods : place'[p] = IF place[p] = n THEN None ELSE place[p]
    BY <1>5 DEF Terminate, Evicted, PodsOn
  <2> QED
    BY <2>2, <2>3 DEF PlaceInv
<1>6. ASSUME NEW n \in Nodes, NEW p \in Pods, Bind(p, n) PROVE PlaceInv'
  <2>1. n \in Present
    BY <1>6 DEF Bind, Available
  <2> QED
    BY <1>0, <1>6, <1>a, <2>1 DEF Bind, Present
<1>7. ASSUME NEW n \in Nodes, FlipReady(n) \/ FlipProtected(n) PROVE PlaceInv'
  <2>1. \A m \in Nodes : node'[m].life = node[m].life
    BY <1>0, <1>7 DEF FlipReady, FlipProtected, NodeObjects
  <2>2. Present \subseteq Present'
    BY <2>1 DEF Present
  <2> QED
    BY <1>7, <1>a, <2>2 DEF FlipReady, FlipProtected
<1> QED
  BY <1>1, <1>2, <1>3, <1>4, <1>5, <1>6, <1>7
     DEF Next, vars, UpdateNodeUtilization, cluster, Choose, CanScaleDown, Restart, Tick

-----------------------------------------------------------------------------
(* Steps that touch samples.                                               *)

\* A new sample keeps what is known of those of a Node.
LEMMA SamplingStep ==
  ASSUME TypeOK, NEW n \in Group, SampleInv(n), NEW measured, UpdateNodeUtilization(measured)
  PROVE  samples'[n] \in Records /\ SampleInv(n)'
<1>0. /\ samples[n] \in Records /\ load[n] \in {Low, High} /\ busyFor[n] \in Nat
      /\ busyFor' = busyFor /\ load' = load
  BY OldIs DEF TypeOK, Nodes, UpdateNodeUtilization, history
<1>1. samples[n].list \in Lists
  BY <1>0, RecordParts
<1>2. CASE samples'[n] = samples[n]
  BY <1>0, <1>2 DEF SampleInv
<1>3. CASE samples'[n] = NoRecord
  BY <1>0, <1>3, NoRecordInv DEF SampleInv
<1>4. CASE samples'[n] = Sampled(samples[n], load[n])
  <2> DEFINE list == samples[n].list
             x == [age |-> 0, load |-> load[n]]
             new == LastSamples(Append(list, x))
  <2>1. samples'[n] \in Records /\ samples'[n].list = new
    <3>1. Sampled(samples[n], load[n]) = [list |-> new, average |-> RollingAverage(new)]
      BY DEF Sampled
    <3>2. Sampled(samples[n], load[n]) \in Records
      BY <1>0, SampledType
    <3> HIDE DEF new
    <3> QED
      BY <1>4, <3>1, <3>2
  <2>2. x \in Samples /\ x.age = 0 /\ x.load = load[n]
    BY <1>0, OldIs DEF Samples
  <2>3. new \in Lists /\ Len(new) \in Nat /\ new[Len(new)] = x
    BY <1>1, <2>2, NewSample, ConstantTypes DEF Constants
  <2>4. PICK d \in Nat : \A i \in 1..Len(new) - 1 : i + d \in 1..Len(list) /\ new[i] = list[i + d]
    BY <1>1, <2>2, NewSample
  <2>5. /\ \A i \in 1..Len(list) : list[i].age \in 0..Old
        /\ Len(list) \in Nat
    BY <1>1, ListIs, ConstantTypes DEF Constants
  <2>6. Ordered(list) /\ (\A i \in 1..Len(list) : list[i].age < busyFor[n] => list[i].load = High)
        /\ (busyFor[n] > 0 => load[n] = High)
    BY DEF SampleInv
  <2>7. \A i \in 1..Len(list) : list[i].age > 0
    <3> SUFFICES ASSUME NEW i \in 1..Len(list) PROVE list[i].age > 0
      OBVIOUS
    <3>1. list[Len(list)].age > 0 /\ Len(list) \in 1..Len(list)
      <4>1. list # << >> /\ Len(list) \in 1..Len(list)
        BY <1>1, <2>5, ListIs
      <4> QED
        BY <4>1 DEF UpdateNodeUtilization, LastSample
    <3>2. i = Len(list) \/ i < Len(list)
      BY <2>5
    <3>3. list[Len(list)].age \in Nat /\ list[i].age \in Nat /\ Old \in Nat \ {0}
      BY <2>5, <3>1, OldIs
    <3>4. i < Len(list) => list[Len(list)].age < list[i].age \/ list[i].age = Old
      BY <2>6, <3>1 DEF Ordered
    <3> QED
      BY <3>1, <3>2, <3>3, <3>4
  <2> HIDE DEF new, list, x
  <2>8. ASSUME NEW i \in 1..Len(new) PROVE i = Len(new) \/ i \in 1..Len(new) - 1
    BY <2>3
  <2>9. Ordered(new)
    <3> SUFFICES ASSUME NEW i \in 1..Len(new), NEW j \in 1..Len(new), i < j
                 PROVE  new[j].age < new[i].age \/ new[i].age = Old
      BY DEF Ordered
    <3>1. i \in 1..Len(new) - 1 /\ i + d \in 1..Len(list) /\ new[i] = list[i + d]
      BY <2>3, <2>4
    <3>2. CASE j = Len(new)
      BY <2>2, <2>3, <2>7, <3>1, <3>2
    <3>3. CASE j \in 1..Len(new) - 1
      <4>1. j + d \in 1..Len(list) /\ new[j] = list[j + d] /\ i + d < j + d
        BY <2>3, <2>4, <3>3
      <4> QED
        BY <2>6, <3>1, <4>1 DEF Ordered
    <3> QED
      BY <2>8, <3>2, <3>3
  <2>10. \A i \in 1..Len(new) : new[i].age < busyFor[n] => new[i].load = High
    <3> SUFFICES ASSUME NEW i \in 1..Len(new), new[i].age < busyFor[n] PROVE new[i].load = High
      OBVIOUS
    <3>1. CASE i = Len(new)
      BY <1>0, <2>2, <2>3, <2>6, <3>1
    <3>2. CASE i \in 1..Len(new) - 1
      BY <2>4, <2>6, <3>2
    <3> QED
      BY <2>8, <3>1, <3>2
  <2> QED
    BY <1>0, <2>1, <2>6, <2>9, <2>10 DEF SampleInv
<1> QED
  BY <1>0, <1>2, <1>3, <1>4, NoRecordInv DEF UpdateNodeUtilization

\* So does a tick.
LEMMA TickStep ==
  ASSUME TypeOK, NEW n \in Group, SampleInv(n), Tick
  PROVE  samples'[n] \in Records /\ SampleInv(n)'
<1> DEFINE list == samples[n].list
           new == Older(list)
<1>0. /\ samples[n] \in Records /\ busyFor[n] \in 0..Tolerated + 1 /\ n \in Nodes
  BY DEF TypeOK, Nodes
<1>1. samples[n] \in [list : Lists, average : 10 * Low..10 * High]
  BY <1>0, RecordParts
<1>2. /\ new \in Lists /\ Len(new) = Len(list) /\ Len(list) \in Nat
      /\ \A i \in 1..Len(list) : /\ new[i].load = list[i].load
                                 /\ new[i].age = Least(list[i].age + 1, Old)
                                 /\ list[i].age \in 0..Old
  BY <1>1, OlderType, ListIs, ConstantTypes DEF Constants
<1>3. samples'[n].list = new /\ samples'[n] \in Records
  BY <1>1, <1>2, RecordParts DEF Tick
<1>4. Ordered(list) /\ (\A i \in 1..Len(list) : list[i].age < busyFor[n] => list[i].load = High)
  BY DEF SampleInv
<1>5. busyFor'[n] = IF load'[n] = High THEN Least(busyFor[n] + 1, Tolerated + 1) ELSE 0
  BY <1>0 DEF Tick
<1> HIDE DEF new, list
<1>6. \A a, b \in 0..Old : a < b \/ b = Old
        => Least(a + 1, Old) < Least(b + 1, Old) \/ Least(b + 1, Old) = Old
  BY OldIs DEF Least
<1>7. Ordered(new)
  BY <1>2, <1>4, <1>6 DEF Ordered
<1>8. \A i \in 1..Len(new) : new[i].age < busyFor'[n] => new[i].load = High
  <2> SUFFICES ASSUME NEW i \in 1..Len(list), new[i].age < busyFor'[n] PROVE list[i].load = High
    BY <1>2
  <2>1. Least(list[i].age + 1, Old) < busyFor'[n] /\ list[i].age \in 0..Old
    BY <1>2
  <2>2. busyFor'[n] = Least(busyFor[n] + 1, Tolerated + 1)
    BY <1>5, <2>1, OldIs DEF Least
  <2>3. list[i].age < busyFor[n]
    BY <1>0, <2>1, <2>2, OldIs DEF Least
  <2> QED
    BY <1>4, <2>3
<1>9. busyFor'[n] > 0 => load'[n] = High
  BY <1>5
<1> QED
  BY <1>3, <1>7, <1>8, <1>9 DEF SampleInv

\* So does every step.
LEMMA SamplesStep ==
  ASSUME TypeOK, SamplesInv, [Next]_vars PROVE SamplesType' /\ SamplesInv'
<1>0. samples \in [Group -> Records]
  BY DEF TypeOK
<1>1. CASE UNCHANGED <<samples, load, busyFor>>
  BY <1>0, <1>1 DEF SamplesType, SamplesInv, SampleInv
<1>2. ASSUME NEW measured, UpdateNodeUtilization(measured) PROVE SamplesType' /\ SamplesInv'
  <2>1. DOMAIN samples' = Group /\ samples' = [n \in Group |-> samples'[n]]
    BY <1>2 DEF UpdateNodeUtilization
  <2>2. \A n \in Group : samples'[n] \in Records /\ SampleInv(n)'
    BY <1>2, SamplingStep DEF SamplesInv
  <2>3. samples' \in [Group -> Records]
    BY <2>1, <2>2
  <2> QED
    BY <2>2, <2>3 DEF SamplesType, SamplesInv
<1>3. CASE Tick
  <2>1. DOMAIN samples' = Group /\ samples' = [n \in Group |-> samples'[n]]
    BY <1>3 DEF Tick
  <2>2. \A n \in Group : samples'[n] \in Records /\ SampleInv(n)'
    BY <1>3, TickStep DEF SamplesInv
  <2>3. samples' \in [Group -> Records]
    BY <2>1, <2>2
  <2> QED
    BY <2>2, <2>3 DEF SamplesType, SamplesInv
<1>4. CASE Restart
  <2>1. \A n \in Group : samples'[n] = NoRecord /\ busyFor'[n] = busyFor[n] /\ load'[n] = load[n]
    BY <1>4 DEF Restart
  <2>2. samples' \in [Group -> Records]
    BY <1>4, NoRecordInv DEF Restart
  <2>3. \A n \in Group : SampleInv(n)'
    BY <2>1, NoRecordInv DEF SamplesInv, SampleInv
  <2> QED
    BY <2>2, <2>3 DEF SamplesType, SamplesInv
<1> QED
  BY <1>1, <1>2, <1>3, <1>4
     DEF Next, vars, memory, history, Choose, CanScaleDown, SkipCandidate, CordonNode,
     DrainSucceeds, DrainFails, Terminate, Bind, FlipReady, FlipProtected

-----------------------------------------------------------------------------
(* Checks of a candidate.                                                  *)

\* Requests add up to a number.
LEMMA RequestedType ==
  ASSUME NEW pods \in SUBSET Pods PROVE Requested(pods) \in Nat
<1>1. IsFiniteSet(pods) /\ \A p \in pods : Requests[p] \in Nat
  BY ConstantsAssumption, FS_Subset
<1>2. PICK h : Sums(h, Requests, SUBSET pods) /\ SumFunctionOnSet(Requests, pods) = h[pods]
  BY <1>1, SumOn
<1> QED
  BY <1>2 DEF Sums, Requested

\* What is below 85 % of the share of the Nodes that stay fits on them.
LEMMA RoomByShare ==
  ASSUME NEW c \in Nat, NEW k \in Nat \ {0}, NEW r \in Nat,
         100 * r * (k + 1) <= 85 * (c * k) * k
  PROVE  r <= c * k
<1> DEFINE z == c * k
<1>1. z \in Nat
  OBVIOUS
<1> HIDE DEF z
<1>2. 100 * r * (k + 1) <= 85 * z * k
  BY DEF z
<1> SUFFICES ASSUME r >= z + 1 PROVE FALSE
  BY <1>1 DEF z
<1>3. z * k \in Nat /\ r * k \in Nat
  BY <1>1
<1>4. r * k >= z * k
  BY <1>1
<1>5. 100 * r * (k + 1) = 100 * (r * k) + 100 * r
  OBVIOUS
<1>6. 85 * z * k = 85 * (z * k)
  BY <1>1
<1> QED
  BY <1>1, <1>2, <1>3, <1>4, <1>5, <1>6

\* What checkAntiAffinityTerm has seen (safety.go:338).
LEMMA SpreadChecked ==
  ASSUME TypeOK, NEW n \in Nodes, pass.pods = PodsOn(n), ~ AntiAffinityViolated
  PROVE  SpreadRoom(n)
<1> SUFFICES ASSUME PodsOn(n) \cap Spread # {}
             PROVE  Cardinality(Spread) <= Cardinality(Available \ {n})
  BY DEF SpreadRoom
<1> DEFINE fit == Available \ {n}
<1>1. IsFiniteSet(Available) /\ IsFiniteSet(fit)
  <2>1. Available \subseteq Nodes
    BY DEF Present, Available
  <2> QED
    BY <2>1, ConstantsAssumption, FS_Subset
<1>2. ~ (Cardinality(Spread) > NodesLeft)
  BY DEF AntiAffinityViolated
<1>3. Cardinality(Spread) \in Nat
  BY ConstantsAssumption, FS_Subset, FS_CardinalityType
<1>4. Cardinality(Available) \in Nat /\ Cardinality(fit) \in Nat
      /\ Cardinality(fit) = IF n \in Available THEN Cardinality(Available) - 1
                                               ELSE Cardinality(Available)
  BY <1>1, FS_CardinalityType, FS_RemoveElement
<1>5. Available # {} => Cardinality(Available) # 0
  BY <1>1, FS_EmptySet
<1> HIDE DEF fit
<1>6. NodesLeft <= Cardinality(fit) /\ NodesLeft \in Nat
  BY <1>4, <1>5 DEF NodesLeft
<1>7. Cardinality(Spread) <= Cardinality(fit)
  BY <1>2, <1>3, <1>4, <1>6
<1> QED
  BY <1>7 DEF fit

\* What hasInsufficientCapacity has seen (safety.go:455).
LEMMA CapacityChecked ==
  ASSUME TypeOK, PlaceInv, NEW n \in Present, ~ CapacityInsufficient(n)
  PROVE  CapacityRoom(n)
<1> SUFFICES ASSUME Present \ {n} # {}
             PROVE  Requested({p \in Pods : place[p] # None})
                      <= Capacity * Cardinality(Present \ {n})
  BY DEF CapacityRoom
<1> DEFINE all == Cardinality(Present)
           k == Cardinality(Present \ {n})
           requested == Requested({p \in Pods : place[p] \in Present})
<1>1. {p \in Pods : place[p] # None} = {p \in Pods : place[p] \in Present}
  BY ConstantsAssumption DEF PlaceInv, Present
<1>2. IsFiniteSet(Present) /\ IsFiniteSet(Present \ {n})
  <2>1. Present \subseteq Nodes
    BY DEF Present
  <2> QED
    BY <2>1, ConstantsAssumption, FS_Subset
<1>3. k \in Nat \ {0} /\ all = k + 1
  <2>1. all \in Nat /\ k \in Nat /\ k = all - 1
    BY <1>2, FS_CardinalityType, FS_RemoveElement
  <2>2. k # 0
    BY <1>2, FS_EmptySet
  <2> QED
    BY <2>1, <2>2
<1>4. requested \in Nat /\ Capacity \in Nat \ {0}
  BY RequestedType, ConstantTypes DEF Constants
<1>5. ~ (all > 1 /\ Capacity * k > 0 /\ 100 * requested * all > 85 * (Capacity * k) * (all - 1))
  BY DEF CapacityInsufficient
<1> HIDE DEF all, k, requested
<1>6. Capacity * k > 0 /\ all > 1 /\ all - 1 = k
  BY <1>3, <1>4
<1>7. 100 * requested * (k + 1) <= 85 * (Capacity * k) * k
  <2>1. ~ (100 * requested * (k + 1) > 85 * (Capacity * k) * k)
    BY <1>3, <1>5, <1>6
  <2>2. 100 * requested * (k + 1) \in Int /\ 85 * (Capacity * k) * k \in Int
    BY <1>3, <1>4
  <2> QED
    BY <2>1, <2>2
<1>8. requested <= Capacity * k
  BY <1>3, <1>4, <1>7, RoomByShare
<1> QED
  BY <1>1, <1>8 DEF k, requested

\* A step that leaves pods and Nodes where they are, and no Node unready, leaves the room.
LEMMA RoomStays ==
  ASSUME TypeOK, TypeOK', UNCHANGED place, Present' = Present, Available \subseteq Available',
         NEW n, SpreadRoom(n) \/ CapacityRoom(n)
  PROVE  (SpreadRoom(n) => SpreadRoom(n)') /\ (CapacityRoom(n) => CapacityRoom(n)')
<1>1. IsFiniteSet(Available' \ {n}) /\ IsFiniteSet(Available \ {n})
  <2>1. Available \subseteq Nodes /\ Available' \subseteq Nodes
    BY DEF Present, Available
  <2> QED
    BY <2>1, ConstantsAssumption, FS_Subset
<1>2. Cardinality(Available \ {n}) <= Cardinality(Available' \ {n})
  BY <1>1, FS_Subset
<1>3. /\ Cardinality(Spread) \in Nat
      /\ Cardinality(Available \ {n}) \in Nat /\ Cardinality(Available' \ {n}) \in Nat
  BY <1>1, ConstantsAssumption, FS_Subset, FS_CardinalityType
<1>4. SpreadRoom(n) => SpreadRoom(n)'
  BY <1>2, <1>3 DEF SpreadRoom, PodsOn
<1>5. CapacityRoom(n) => CapacityRoom(n)'
  BY DEF CapacityRoom, Requested
<1> QED
  BY <1>4, <1>5

\* A step that leaves the pass as it is, but for the freshness of the candidate, and takes
\* no room away.
LEMMA CheckedStays ==
  ASSUME TypeOK, TypeOK', CheckedInv, UNCHANGED place, Present' = Present,
         Available \subseteq Available',
         pass'.step = pass.step, pass'.candidate = pass.candidate, pass'.pods = pass.pods,
         pass'.fresh => pass.fresh, quiet' => quiet
  PROVE  CheckedInv'
<1> DEFINE n == pass.candidate
<1>1. PodsOn(n)' = PodsOn(n)
  BY DEF PodsOn
<1>2. (SpreadRoom(n) => SpreadRoom(n)') /\ (CapacityRoom(n) => CapacityRoom(n)')
  BY RoomStays
<1> QED
  BY <1>1, <1>2 DEF CheckedInv, SpreadRoom, CapacityRoom, PodsOn

\* Every step keeps what the checks have seen, or disturbs.
LEMMA CheckedStep ==
  ASSUME TypeOK, TypeOK', PlaceInv, CheckedInv, [Next]_vars PROVE CheckedInv'
<1>0. /\ node \in [Nodes -> NodeObjects] /\ pass \in Passes /\ pass' \in Passes
      /\ quiet \in BOOLEAN /\ Group \subseteq Nodes
  BY DEF TypeOK, Nodes
<1>1. CASE UNCHANGED <<node, place, pass, quiet>>
  <2>1. Present' = Present /\ Available' = Available
    BY <1>1 DEF Present, Available
  <2> QED
    BY <1>1, <2>1, CheckedStays
<1>2. CASE pass'.step \in {"idle", "drain"}
  BY <1>2 DEF CheckedInv, Checked
<1>3. ASSUME NEW n \in Group, Choose(n) PROVE CheckedInv'
  <2>1. pass'.step = "chosen" /\ pass'.candidate = n /\ n \in Present /\ Present' = Present
    BY <1>3 DEF Choose, Idle, First, Candidates, cluster, Present
  <2> QED
    BY <2>1 DEF CheckedInv, Checked
<1>4. ASSUME NEW n \in Group, CanScaleDown(n) PROVE CheckedInv'
  <2>1. /\ pass'.step = NextCheck[pass.step] /\ pass'.candidate = n /\ pass.candidate = n
        /\ pass'.pods = IF pass.step = "chosen" THEN PodsOn(n) ELSE pass.pods
        /\ pass'.fresh = pass.fresh /\ quiet' = quiet
    BY <1>0, <1>4, PassParts DEF CanScaleDown, history
  <2>2. UNCHANGED <<node, place>>
    BY <1>4 DEF CanScaleDown, cluster
  <2>3. /\ Present' = Present /\ PodsOn(n)' = PodsOn(n)
        /\ SpreadRoom(n)' = SpreadRoom(n) /\ CapacityRoom(n)' = CapacityRoom(n)
    BY <2>2 DEF Present, PodsOn, SpreadRoom, CapacityRoom, Available, Requested
  <2>4. CASE pass.step = "chosen"
    <3>1. pass'.step = "rescheduling"
      BY <2>1, <2>4 DEF NextCheck
    <3> QED
      BY <2>1, <2>3, <2>4, <3>1 DEF CheckedInv, Checked, PodsOn
  <2>5. CASE pass.step = "rescheduling"
    <3>1. pass'.step = "affinity"
      BY <2>1, <2>5 DEF NextCheck
    <3> QED
      BY <2>1, <2>3, <2>5, <3>1 DEF CheckedInv, Checked, PodsOn
  <2>6. CASE pass.step = "affinity"
    <3>1. pass'.step = "capacity"
      BY <2>1, <2>6 DEF NextCheck
    <3>2. ~ AntiAffinityViolated
      BY <1>4, <2>6 DEF CanScaleDown, CheckPassed
    <3>3. pass.fresh /\ quiet => pass.pods = PodsOn(n) /\ SpreadRoom(n)
      BY <1>0, <2>1, <2>6, <3>2, SpreadChecked DEF CheckedInv, Checked
    <3>4. pass'.fresh => n \in Present
      BY <2>1, <2>6 DEF CheckedInv, Checked
    <3> QED
      BY <2>1, <2>3, <2>6, <3>1, <3>3, <3>4 DEF CheckedInv, PodsOn, SpreadRoom
  <2>7. CASE pass.step = "capacity"
    <3>1. pass'.step = "cordon"
      BY <2>1, <2>7 DEF NextCheck
    <3>2. ~ CapacityInsufficient(n)
      BY <1>4, <2>7 DEF CanScaleDown, CheckPassed
    <3>3. pass'.fresh => n \in Present
      BY <2>1, <2>7 DEF CheckedInv, Checked
    <3>4. pass'.fresh => CapacityRoom(n)
      BY <3>2, <3>3, CapacityChecked
    <3>5. pass.fresh /\ quiet => pass.pods = PodsOn(n) /\ SpreadRoom(n)
      BY <2>1, <2>7 DEF CheckedInv, Checked
    <3> QED
      BY <2>1, <2>3, <2>7, <3>1, <3>3, <3>4, <3>5
         DEF CheckedInv, PodsOn, SpreadRoom, CapacityRoom
  <2> QED
    BY <1>4, <2>4, <2>5, <2>6, <2>7 DEF CanScaleDown, CheckPassed
<1>5. ASSUME NEW n \in Group, Terminate(n) PROVE CheckedInv'
  <2>1. /\ pass'.step = pass.step /\ pass'.candidate = pass.candidate
        /\ pass'.fresh => pass.fresh
        /\ n = pass.candidate /\ pass.step # "drain" => ~ pass'.fresh
    BY <1>0, <1>5, TouchType DEF Terminate
  <2>2. \A m \in Present : m # n => m \in Present'
    BY <1>0, <1>5 DEF Terminate, Present
  <2>3. pass.step \in Checked => ~ quiet'
    BY <1>5 DEF Terminate, Disturb
  <2>4. pass'.fresh /\ pass'.step \in {"chosen"} \cup Checked => pass'.candidate \in Present'
    BY <2>1, <2>2 DEF CheckedInv, Checked
  <2> QED
    BY <2>1, <2>3, <2>4 DEF CheckedInv, Checked
<1>6. ASSUME NEW n \in Nodes, NEW p \in Pods, Bind(p, n) PROVE CheckedInv'
  <2>1. Present' = Present /\ pass' = pass /\ (pass.step \in Checked => ~ quiet')
    BY <1>6 DEF Bind, Present, Disturb
  <2> QED
    BY <2>1 DEF CheckedInv, Checked
<1>7. ASSUME NEW n \in Nodes, FlipReady(n) \/ FlipProtected(n) PROVE CheckedInv'
  <2>1. /\ pass'.step = pass.step /\ pass'.candidate = pass.candidate /\ pass'.pods = pass.pods
        /\ pass'.fresh => pass.fresh
    BY <1>0, <1>7, TouchType DEF FlipReady, FlipProtected
  <2>2. \A m \in Nodes : /\ node'[m].life = node[m].life /\ node'[m].cordoned = node[m].cordoned
                         /\ m # n => node'[m] = node[m]
    BY <1>0, <1>7 DEF FlipReady, FlipProtected, NodeObjects
  <2>3. Present' = Present /\ UNCHANGED place
    BY <1>7, <2>2 DEF Present, FlipReady, FlipProtected
  <2>4. CASE pass.step \in Checked /\ quiet'
    <3>1. quiet /\ (node[n].ready => node'[n].ready)
      BY <1>0, <1>7, <2>4 DEF FlipReady, FlipProtected, Disturb, history, NodeObjects
    <3>2. Available \subseteq Available'
      BY <2>2, <2>3, <3>1 DEF Available, Present
    <3> QED
      BY <2>1, <2>3, <3>1, <3>2, CheckedStays
  <2>5. CASE ~ (pass.step \in Checked /\ quiet')
    BY <2>1, <2>3, <2>5 DEF CheckedInv, Checked
  <2> QED
    BY <2>4, <2>5
<1>8. ASSUME NEW n \in Group,
             SkipCandidate(n) \/ CordonNode(n) \/ DrainSucceeds(n) \/ DrainFails(n)
      PROVE  CheckedInv'
  <2>1. pass' = Idle \/ pass' = [Idle EXCEPT !.step = "drain", !.candidate = n]
    BY <1>8 DEF SkipCandidate, CordonNode, DrainSucceeds, DrainFails, EndPass
  <2>2. Idle.step = "idle" /\ [Idle EXCEPT !.step = "drain", !.candidate = n].step = "drain"
    BY DEF Idle
  <2> QED
    BY <1>2, <2>1, <2>2
<1>9. CASE Restart
  BY <1>2, <1>9 DEF Restart, EndPass, Idle
<1> QED
  BY <1>1, <1>3, <1>4, <1>5, <1>6, <1>7, <1>8, <1>9
     DEF Next, vars, UpdateNodeUtilization, Tick, cluster, history

\* The invariant is inductive.
LEMMA InvariantStep == IInv /\ [Next]_vars => IInv'
<1> SUFFICES ASSUME IInv, [Next]_vars PROVE IInv'
  OBVIOUS
<1>1. TypeOK /\ SamplesInv /\ PlaceInv /\ CheckedInv
  BY DEF IInv
<1>2. RestType' /\ PlaceInv' /\ SamplesType' /\ SamplesInv'
  BY <1>1, RestStep, PlaceStep, SamplesStep
<1>3. TypeOK'
  BY <1>2, TypeParts
<1>4. CheckedInv'
  BY <1>1, <1>3, CheckedStep
<1> QED
  BY <1>2, <1>3, <1>4 DEF IInv

\* The inductive invariant: types, samples that agree with how long a Node has been
\* busy (utilization.go:88-150), pods on Nodes that are there, and checks that still hold.
THEOREM Invariant == Spec => []IInv
BY InitInv, InvariantStep, PTL DEF Spec

\* The state stays within its types, for any Nodes, pods and samples; in particular an
\* average is always one of utilizations (utilization.go:154).
THEOREM TypeCorrect == Spec => []TypeOK
<1>1. IInv => TypeOK
  BY DEF IInv
<1> QED
  BY <1>1, Invariant, PTL

-----------------------------------------------------------------------------
(* What is chosen and what a drain leaves.                                 *)

\* Three samples at most can be low since the load rose, and one is high.
LEMMA BusyNotUnderutilized ==
  ASSUME TypeOK, NEW n \in Group, SampleInv(n), UnderutilizedForWindow(samples[n].list)
  PROVE  busyFor[n] <= Tolerated
<1> SUFFICES ASSUME busyFor[n] > Tolerated PROVE FALSE
  BY OldIs DEF TypeOK, Nodes
<1> DEFINE list == samples[n].list
           last == Len(list)
           recent == Recent(list)
           low == {i \in recent : list[i].load < Threshold}
<1>1. /\ list \in Lists /\ busyFor[n] \in 0..Tolerated + 1
      /\ Window < Old /\ Window \in Nat /\ Old \in Nat /\ Tolerated \in Nat
  BY RecordParts, OldIs, ConstantTypes DEF TypeOK, Nodes, Constants
<1>2. busyFor[n] = Tolerated + 1 /\ MaxStaleness <= Tolerated /\ Window <= Tolerated + 3
  BY <1>1, ConstantTypes DEF Tolerated, Constants
<1>3. /\ last \in Nat /\ DOMAIN list = 1..last
      /\ \A i \in 1..last : list[i].age \in 0..Old /\ list[i].load \in {Low, High}
  BY <1>1, ListIs, ConstantTypes DEF Constants
<1>4. /\ list # << >> /\ list[last].age <= MaxStaleness
      /\ recent # {} /\ 10 * Cardinality(low) >= 8 * Cardinality(recent)
  BY DEF UnderutilizedForWindow, FreshEnough
<1>5. last \in 1..last
  BY <1>1, <1>3, <1>4, ListIs
<1>6. /\ \A i, j \in 1..last : i < j => list[j].age < list[i].age \/ list[i].age = Old
      /\ \A i \in 1..last : list[i].age < busyFor[n] => list[i].load = High
  BY DEF SampleInv, Ordered
<1>7. recent = {i \in 1..last : list[i].age <= Window}
  BY <1>3 DEF Recent
<1>c. Threshold \in Nat /\ Threshold <= High /\ High \in Nat /\ MaxStaleness \in Nat
  BY ConstantTypes DEF Constants
<1> HIDE DEF list, last, recent
<1>8. last \in recent
  <2>1. PICK i \in 1..last : list[i].age <= Window
    BY <1>4, <1>7
  <2>2. i = last \/ i < last
    BY <1>3
  <2>3. list[last].age <= Window
    BY <1>1, <1>3, <1>5, <1>6, <2>1, <2>2
  <2> QED
    BY <1>5, <1>7, <2>3
<1>9. last \notin low
  BY <1>1, <1>2, <1>3, <1>4, <1>5, <1>6, <1>c
<1>10. \A i \in low : i \in 1..last /\ list[i].age \in Tolerated + 1..Tolerated + 3 /\ list[i].age <= Window
  BY <1>1, <1>2, <1>3, <1>6, <1>7, <1>c
<1>11. Cardinality(low) <= 3
  <2> DEFINE f == [i \in low |-> list[i].age]
  <2>1. \A i, j \in low : i # j => list[i].age # list[j].age
    BY <1>1, <1>3, <1>6, <1>10
  <2>2. f \in Injection(low, Tolerated + 1..Tolerated + 3)
    BY <1>10, <2>1 DEF Injection, IsInjective
  <2>3. IsFiniteSet(Tolerated + 1..Tolerated + 3) /\ Cardinality(Tolerated + 1..Tolerated + 3) = 3
    BY <1>1, FS_Interval
  <2> HIDE DEF f, low
  <2> QED
    BY <2>2, <2>3, FS_Injection
<1>12. IsFiniteSet(recent) /\ IsFiniteSet(low) /\ low \cup {last} \subseteq recent
  <2>1. IsFiniteSet(1..last) /\ recent \subseteq 1..last
    BY <1>3, <1>7, FS_Interval
  <2>2. IsFiniteSet(recent)
    BY <2>1, FS_Subset
  <2>3. low \subseteq recent
    OBVIOUS
  <2> HIDE DEF low
  <2> QED
    BY <1>8, <2>2, <2>3, FS_Subset
<1> HIDE DEF low
<1>13. Cardinality(low) + 1 <= Cardinality(recent)
  <2>1. Cardinality(low \cup {last}) = Cardinality(low) + 1
    BY <1>9, <1>12, FS_AddElement
  <2>2. Cardinality(low \cup {last}) <= Cardinality(recent)
    BY <1>12, FS_Subset
  <2> QED
    BY <2>1, <2>2
<1>14. Cardinality(low) \in Nat /\ Cardinality(recent) \in Nat
  BY <1>12, FS_CardinalityType
<1> QED
  BY <1>4, <1>11, <1>13, <1>14

\* What is chosen is a candidate.
LEMMA ChosenIsCandidate ==
  ASSUME TypeOK, [Next]_vars, NEW n \in Group, Chosen(n) PROVE n \in Candidates
<1>1. pass.step = "idle" /\ pass'.step = "chosen" /\ pass'.candidate = n
  BY DEF Chosen
<1>2. pass \in Passes /\ Idle.step = "idle"
  BY DEF TypeOK, Idle
<1>3. ~ UNCHANGED pass /\ pass' # Idle
  BY <1>1, <1>2
<1>4. ASSUME NEW m \in Nodes, Terminate(m) \/ FlipReady(m) \/ FlipProtected(m) PROVE FALSE
  BY <1>1, <1>2, <1>4, TouchType DEF Terminate, FlipReady, FlipProtected
<1>5. PICK m \in Group : Choose(m)
  BY <1>1, <1>3, <1>4 DEF Next, vars, UpdateNodeUtilization, CanScaleDown, CheckPassed, EndPass,
     SkipCandidate, NextCheck, CordonNode, DrainSucceeds, DrainFails, Restart, Tick, Bind, Nodes
<1>6. m = n
  BY <1>1, <1>5 DEF Choose, Idle
<1> QED
  BY <1>5, <1>6 DEF Choose, First

\* A Node that has been busy for longer than samples may be stale is not chosen, for
\* any window, staleness and number of samples, whatever samples are missing and however
\* often the leader changes (scaler.go:530).
THEOREM BusyKept == Spec => BusyNodesStay
<1>1. IInv /\ [Next]_vars => \A n \in Group : Chosen(n) => busyFor[n] <= Tolerated
  <2> SUFFICES ASSUME IInv, [Next]_vars, NEW n \in Group, Chosen(n)
               PROVE  busyFor[n] <= Tolerated
    OBVIOUS
  <2>1. UnderutilizedForWindow(samples[n].list)
    BY ChosenIsCandidate DEF Candidates, IInv
  <2> QED
    BY <2>1, BusyNotUnderutilized DEF IInv, SamplesInv
<1> QED
  BY <1>1, Invariant, PTL DEF Spec, BusyNodesStay

\* Only the start of a drain cordons a Node.
LEMMA OnlyDrainsCordon ==
  ASSUME TypeOK, [Next]_vars, NEW n \in Nodes, Cordoned(n) PROVE CordonNode(n)
<1>0. node \in [Nodes -> NodeObjects] /\ Group \subseteq Nodes
  BY DEF TypeOK, Nodes
<1>1. ~ UNCHANGED node
  BY DEF Cordoned
<1>2. ASSUME NEW m \in Nodes, DeleteVPSieNode(m) PROVE FALSE
  BY <1>0, <1>2 DEF DeleteVPSieNode, NodeObjects, Cordoned
<1>3. ASSUME NEW m \in Group, Terminate(m) PROVE FALSE
  BY <1>0, <1>3 DEF Terminate, NodeObjects, Cordoned
<1>4. ASSUME NEW m \in Nodes, FlipReady(m) \/ FlipProtected(m) PROVE FALSE
  BY <1>0, <1>4 DEF FlipReady, FlipProtected, NodeObjects, Cordoned
<1>5. ASSUME NEW m \in Group, CordonNode(m) PROVE m = n
  BY <1>0, <1>5 DEF CordonNode, Cordoned
<1> QED
  BY <1>0, <1>1, <1>2, <1>3, <1>4, <1>5
     DEF Next, vars, cluster, UpdateNodeUtilization, Choose, CanScaleDown, SkipCandidate,
     DrainSucceeds, DrainFails, Restart, Tick, Bind

\* The drain of a Node leaves room for its pods, for any pods and Nodes, if nothing takes
\* it away between the checks and the cordon (safety.go hasAntiAffinityViolations,
\* hasInsufficientCapacity).
THEOREM RoomKept == Spec => DrainLeavesRoom
<1>1. IInv /\ [Next]_vars => \A n \in Nodes : Cordoned(n) /\ quiet => RoomWithout(n)
  <2> SUFFICES ASSUME IInv, [Next]_vars, NEW n \in Nodes, Cordoned(n), quiet
               PROVE  RoomWithout(n)
    OBVIOUS
  <2>1. CordonNode(n)
    BY OnlyDrainsCordon DEF IInv
  <2>2. SpreadRoom(n) /\ CapacityRoom(n)
    BY <2>1 DEF CordonNode, IInv, CheckedInv
  <2> QED
    BY <2>2 DEF RoomWithout, SpreadRoom, CapacityRoom
<1> QED
  BY <1>1, Invariant, PTL DEF Spec, DrainLeavesRoom
===============================================================================
