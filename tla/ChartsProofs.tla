---------------------------- MODULE ChartsProofs ----------------------------
(***************************************************************************)
(* Proofs about Charts and the Report it draws.  The lists of the report   *)
(* are ranked: an element stands where as many elements are before it as   *)
(* its place says.  What such a list holds follows from how finite sets    *)
(* are counted, so no proof goes by induction over the measurements.       *)
(***************************************************************************)
EXTENDS Charts, FiniteSetTheorems, TLAPS


-----------------------------------------------------------------------------
(* Elements in order *)

(* before[x] are the elements before x in a total order of a finite set. *)
IsOrder(before) ==
  /\ IsFiniteSet(DOMAIN before)
  /\ \A x \in DOMAIN before : before[x] \subseteq DOMAIN before /\ x \notin before[x]
  /\ \A x, y \in DOMAIN before : x = y \/ x \in before[y] \/ y \in before[x]
  /\ \A x, y, z \in DOMAIN before : x \in before[y] /\ y \in before[z] => x \in before[z]

(* An element has as many before it as its place says, and so one place. *)
LEMMA PlacesOfOrder ==
  ASSUME NEW before, IsOrder(before), NEW x \in DOMAIN before, NEW y \in DOMAIN before
  PROVE  /\ IsFiniteSet(before[x])
         /\ Cardinality(before[x]) \in 0 .. Cardinality(DOMAIN before) - 1
         /\ x \in before[y] => Cardinality(before[x]) < Cardinality(before[y])
         /\ Cardinality(before[x]) = Cardinality(before[y]) => x = y
<1> DEFINE S == DOMAIN before
<1>1. \A z \in S : /\ IsFiniteSet(before[z]) /\ Cardinality(before[z]) \in Nat
                   /\ IsFiniteSet(before[z] \cup {z})
                   /\ Cardinality(before[z] \cup {z}) = Cardinality(before[z]) + 1
  <2> SUFFICES ASSUME NEW z \in S
               PROVE  /\ IsFiniteSet(before[z]) /\ Cardinality(before[z]) \in Nat
                      /\ IsFiniteSet(before[z] \cup {z})
                      /\ Cardinality(before[z] \cup {z}) = Cardinality(before[z]) + 1
    OBVIOUS
  <2>1. before[z] \in SUBSET S /\ z \notin before[z] /\ IsFiniteSet(S)
    BY DEF IsOrder
  <2>2. IsFiniteSet(before[z])
    BY <2>1, FS_Subset
  <2>3. Cardinality(before[z]) \in Nat
    BY <2>2, FS_CardinalityType
  <2> QED
    BY <2>1, <2>2, <2>3, FS_AddElement
<1>2. Cardinality(before[x]) \in 0 .. Cardinality(S) - 1
  <2>1. (before[x] \cup {x}) \in SUBSET S /\ IsFiniteSet(S)
    BY DEF IsOrder
  <2>2. Cardinality(before[x] \cup {x}) <= Cardinality(S)
    BY <2>1, FS_Subset
  <2>3. Cardinality(S) \in Nat
    BY <2>1, FS_CardinalityType
  <2> QED
    BY <1>1, <2>2, <2>3
<1>3. ASSUME NEW a \in S, NEW b \in S, a \in before[b]
      PROVE  Cardinality(before[a]) < Cardinality(before[b])
  <2>1. (before[a] \cup {a}) \in SUBSET before[b]
    BY <1>3 DEF IsOrder
  <2>2. Cardinality(before[a] \cup {a}) <= Cardinality(before[b])
    BY <1>1, <2>1, FS_Subset
  <2>3. /\ Cardinality(before[a]) \in Nat /\ Cardinality(before[b]) \in Nat
        /\ Cardinality(before[a] \cup {a}) = Cardinality(before[a]) + 1
    BY <1>1
  <2> QED
    BY ONLY <2>2, <2>3
<1>4. x = y \/ x \in before[y] \/ y \in before[x]
  BY DEF IsOrder
<1>5. Cardinality(before[x]) \in Nat /\ Cardinality(before[y]) \in Nat
  BY <1>1
<1>6. x \in before[y] => Cardinality(before[x]) < Cardinality(before[y])
  BY <1>3
<1>7. y \in before[x] => Cardinality(before[y]) < Cardinality(before[x])
  BY <1>3
<1>8. Cardinality(before[x]) = Cardinality(before[y]) => x = y
  BY ONLY <1>4, <1>5, <1>6, <1>7
<1> QED
  BY <1>1, <1>2, <1>6, <1>8

(* Ranked lists each element once, and one that is before another first. *)
LEMMA RankedLists ==
  ASSUME NEW before, IsOrder(before)
  PROVE  LET S == DOMAIN before
             n == Cardinality(S)
             r == Ranked(before)
         IN  /\ n \in Nat /\ r \in [1 .. n -> S]
             /\ \A i, j \in 1 .. n : i < j <=> r[i] \in before[r[j]]
             /\ \A x \in S : \E i \in 1 .. n : r[i] = x
<1> SUFFICES ASSUME NEW S, S = DOMAIN before,
                    NEW n, n = Cardinality(S), NEW r, r = Ranked(before)
             PROVE  /\ n \in Nat /\ r \in [1 .. n -> S]
                    /\ \A i, j \in 1 .. n : i < j <=> r[i] \in before[r[j]]
                    /\ \A x \in S : \E i \in 1 .. n : r[i] = x
  OBVIOUS
<1>1. IsFiniteSet(S) /\ n \in Nat
  BY FS_CardinalityType DEF IsOrder
<1> DEFINE place == [x \in S |-> Cardinality(before[x]) + 1]
<1>2. place \in Injection(S, 1 .. n)
  <2>1. \A x \in S : Cardinality(before[x]) + 1 \in 1 .. n
    BY <1>1, PlacesOfOrder
  <2>2. \A x, y \in S : Cardinality(before[x]) + 1 = Cardinality(before[y]) + 1 => x = y
    <3> SUFFICES ASSUME NEW x \in S, NEW y \in S,
                        Cardinality(before[x]) + 1 = Cardinality(before[y]) + 1
                 PROVE  x = y
      OBVIOUS
    <3>1. Cardinality(before[x]) \in Nat /\ Cardinality(before[y]) \in Nat
      BY <1>1, PlacesOfOrder
    <3>2. Cardinality(before[x]) = Cardinality(before[y])
      BY <3>1
    <3> QED
      BY <3>2, PlacesOfOrder
  <2> QED
    BY <2>1, <2>2 DEF Injection, IsInjective
<1>3. place \in Surjection(S, 1 .. n)
  <2>1. IsFiniteSet(1 .. n) /\ Cardinality(1 .. n) = n
    BY <1>1, FS_Interval
  <2> HIDE DEF place
  <2> QED
    BY <1>2, <2>1, FS_Injection
<1>4. DOMAIN r = 1 .. n
      /\ \A i \in 1 .. n : r[i] = CHOOSE x \in S : Cardinality(before[x]) = i - 1
  BY DEF Ranked
<1>5. \A i \in 1 .. n : r[i] \in S /\ Cardinality(before[r[i]]) = i - 1
  <2> SUFFICES ASSUME NEW i \in 1 .. n
               PROVE  r[i] \in S /\ Cardinality(before[r[i]]) = i - 1
    OBVIOUS
  <2>1. PICK x \in S : Cardinality(before[x]) + 1 = i
    BY <1>3 DEF Surjection
  <2>2. Cardinality(before[x]) = i - 1
    <3>1. Cardinality(before[x]) \in Nat
      BY <1>1, PlacesOfOrder
    <3> QED
      BY <2>1, <3>1
  <2> QED
    BY <1>4, <2>2
<1>6. r \in [1 .. n -> S]
  <2>1. r = [i \in 1 .. n |-> r[i]]
    BY DEF Ranked
  <2> QED
    BY <1>5, <2>1
<1>7. \A x \in S : \E i \in 1 .. n : r[i] = x
  <2> SUFFICES ASSUME NEW x \in S PROVE \E i \in 1 .. n : r[i] = x
    OBVIOUS
  <2> DEFINE i == Cardinality(before[x]) + 1
  <2>1. i \in 1 .. n /\ i - 1 = Cardinality(before[x])
    BY <1>1, PlacesOfOrder
  <2> HIDE DEF i
  <2>2. r[i] \in S /\ Cardinality(before[r[i]]) = Cardinality(before[x])
    BY <1>5, <2>1
  <2>3. r[i] = x
    BY <2>2, PlacesOfOrder
  <2> QED
    BY <2>1, <2>3
<1>8. ASSUME NEW i \in 1 .. n, NEW j \in 1 .. n
      PROVE  i < j <=> r[i] \in before[r[j]]
  <2>1. /\ r[i] \in S /\ Cardinality(before[r[i]]) = i - 1
        /\ r[j] \in S /\ Cardinality(before[r[j]]) = j - 1
    BY <1>5
  <2>2. r[i] \in before[r[j]] => i - 1 < j - 1
    BY <2>1, PlacesOfOrder
  <2>3. r[j] \in before[r[i]] => j - 1 < i - 1
    BY <2>1, PlacesOfOrder
  <2>4. r[i] = r[j] \/ r[i] \in before[r[j]] \/ r[j] \in before[r[i]]
    BY <2>1 DEF IsOrder
  <2>5. r[i] = r[j] => i = j
    BY <2>1
  <2> QED
    BY <2>2, <2>3, <2>4, <2>5
<1> QED
  BY <1>1, <1>6, <1>7, <1>8

(* The only list in order is Ranked. *)
LEMMA RankedIsTheList ==
  ASSUME NEW before, IsOrder(before), NEW S, S = DOMAIN before,
         NEW n \in Nat, NEW f \in [1 .. n -> S],
         \A x \in S : \E i \in 1 .. n : f[i] = x,
         \A i, j \in 1 .. n : i < j => f[i] \in before[f[j]]
  PROVE  n = Cardinality(S) /\ f = Ranked(before)
<1>1. \A i, j \in 1 .. n : f[i] \in before[f[j]] => i < j
  <2> SUFFICES ASSUME NEW i \in 1 .. n, NEW j \in 1 .. n, f[i] \in before[f[j]]
               PROVE  i < j
    OBVIOUS
  <2>1. f[i] \in S /\ f[j] \in S
    OBVIOUS
  <2>2. f[i] # f[j]
    BY <2>1 DEF IsOrder
  <2>3. f[j] \notin before[f[i]]
    BY <2>1 DEF IsOrder
  <2>4. ~ (j < i)
    BY <2>3
  <2> QED
    BY <2>2, <2>4
<1>2. \A i, j \in 1 .. n : f[i] = f[j] => i = j
  <2> SUFFICES ASSUME NEW i \in 1 .. n, NEW j \in 1 .. n, f[i] = f[j]
               PROVE  i = j
    OBVIOUS
  <2>1. f[i] \in S
    OBVIOUS
  <2>2. f[i] \notin before[f[i]]
    BY <2>1 DEF IsOrder
  <2>3. ~ (i < j) /\ ~ (j < i)
    BY <2>2
  <2> QED
    BY <2>3
<1>3. n = Cardinality(S)
  <2>1. f \in Bijection(1 .. n, S)
    BY <1>2 DEF Bijection, Injection, Surjection, IsInjective
  <2>2. ExistsBijection(1 .. n, S)
    BY <2>1 DEF ExistsBijection
  <2>3. IsFiniteSet(1 .. n) /\ Cardinality(1 .. n) = n
    BY FS_Interval
  <2> QED
    BY <2>2, <2>3, FS_Bijection
<1>4. \A i \in 1 .. n : Cardinality(before[f[i]]) = i - 1
  <2> SUFFICES ASSUME NEW i \in 1 .. n PROVE Cardinality(before[f[i]]) = i - 1
    OBVIOUS
  <2> DEFINE g == [j \in 1 .. i - 1 |-> f[j]]
  <2>1. f[i] \in S /\ before[f[i]] \subseteq S /\ 1 .. i - 1 \subseteq 1 .. n
    BY DEF IsOrder
  <2>2. \A j \in 1 .. i - 1 : g[j] \in before[f[i]]
    BY <2>1
  <2>3. \A j, k \in 1 .. i - 1 : g[j] = g[k] => j = k
    BY <1>2, <2>1
  <2>4. \A x \in before[f[i]] : \E j \in 1 .. i - 1 : g[j] = x
    <3> SUFFICES ASSUME NEW x \in before[f[i]] PROVE \E j \in 1 .. i - 1 : g[j] = x
      OBVIOUS
    <3>1. PICK j \in 1 .. n : f[j] = x
      BY <2>1
    <3>2. j < i
      BY <1>1, <3>1
    <3>3. j \in 1 .. i - 1
      BY <3>2
    <3> QED
      BY <3>1, <3>3
  <2>5. g \in [1 .. i - 1 -> before[f[i]]]
    BY <2>2
  <2> HIDE DEF g
  <2>6. g \in Bijection(1 .. i - 1, before[f[i]])
    BY <2>3, <2>4, <2>5 DEF Bijection, Injection, Surjection, IsInjective
  <2>7. ExistsBijection(1 .. i - 1, before[f[i]])
    BY <2>6 DEF ExistsBijection
  <2>8. IsFiniteSet(1 .. i - 1) /\ Cardinality(1 .. i - 1) = i - 1
    BY FS_Interval
  <2> QED
    BY <2>7, <2>8, FS_Bijection
<1>5. \A i \in 1 .. n : f[i] = CHOOSE x \in S : Cardinality(before[x]) = i - 1
  <2> SUFFICES ASSUME NEW i \in 1 .. n
               PROVE  f[i] = CHOOSE x \in S : Cardinality(before[x]) = i - 1
    OBVIOUS
  <2>1. f[i] \in S /\ Cardinality(before[f[i]]) = i - 1
    BY <1>4
  <2>2. \A x \in S : Cardinality(before[x]) = i - 1 => x = f[i]
    BY <2>1, PlacesOfOrder
  <2> QED
    BY <2>1, <2>2
<1>6. Ranked(before) = [i \in 1 .. n |-> CHOOSE x \in S : Cardinality(before[x]) = i - 1]
  BY <1>3 DEF Ranked
<1> QED
  BY <1>3, <1>5, <1>6

(* A function on 1 .. n is a sequence of n. *)
LEMMA ListIsSequence ==
  ASSUME NEW S, NEW n \in Nat, NEW f \in [1 .. n -> S]
  PROVE  f \in Seq(S) /\ Len(f) = n /\ DOMAIN f = 1 .. n
OBVIOUS

(* A function on a finite set takes finitely many values. *)
LEMMA ImageIsFinite ==
  ASSUME NEW f, IsFiniteSet(DOMAIN f)
  PROVE  IsFiniteSet(Range(f))
<1> DEFINE g == [x \in DOMAIN f |-> f[x]]
<1>1. g \in Surjection(DOMAIN f, Range(f))
  BY DEF Surjection, Range
<1> QED
  BY <1>1, FS_Surjection

(* Ascending lists a set of integers, each once, in order. *)
LEMMA AscendingLists ==
  ASSUME NEW S, IsFiniteSet(S), S \subseteq Int
  PROVE  LET n == Cardinality(S)
             a == Ascending(S)
         IN  /\ n \in Nat /\ a \in [1 .. n -> S] /\ a \in Seq(S) /\ Len(a) = n
             /\ \A i, j \in 1 .. n : i < j <=> a[i] < a[j]
             /\ \A x \in S : \E i \in 1 .. n : a[i] = x
<1> DEFINE n == Cardinality(S)
<1> DEFINE a == Ascending(S)
<1> DEFINE before == [x \in S |-> {y \in S : y < x}]
<1>1. DOMAIN before = S /\ \A x \in S : before[x] = {y \in S : y < x}
  OBVIOUS
<1>2. a = Ranked(before)
  BY DEF Ascending
<1> HIDE DEF before
<1>3. IsOrder(before)
  <2>1. \A x, y \in S : x \in before[y] <=> x < y
    BY <1>1
  <2>2. \A x \in S : before[x] \subseteq S /\ x \in Int
    BY <1>1
  <2>3. \A x \in S : x \notin before[x]
    BY <2>1, <2>2
  <2>4. \A x, y \in S : x = y \/ x < y \/ y < x
    BY <2>2
  <2>5. \A x, y, z \in S : x < y /\ y < z => x < z
    BY <2>2
  <2> QED
    BY <1>1, <2>1, <2>2, <2>3, <2>4, <2>5 DEF IsOrder
<1>4. /\ n \in Nat /\ a \in [1 .. n -> S]
      /\ \A i, j \in 1 .. n : i < j <=> a[i] \in before[a[j]]
      /\ \A x \in S : \E i \in 1 .. n : a[i] = x
  BY <1>1, <1>2, <1>3, RankedLists
<1> HIDE DEF n, a
<1>5. \A i, j \in 1 .. n : a[i] \in before[a[j]] <=> a[i] < a[j]
  <2>1. \A x, y \in S : x \in before[y] <=> x < y
    BY <1>1
  <2>2. \A i \in 1 .. n : a[i] \in S
    BY <1>4
  <2> QED
    BY ONLY <2>1, <2>2
<1>6. a \in Seq(S) /\ Len(a) = n
  BY <1>4, ListIsSequence
<1> USE DEF n, a
<1> QED
  BY <1>4, <1>5, <1>6

(* A finite set of integers has a least one and a greatest. *)
LEMMA MinAndMax ==
  ASSUME NEW S, IsFiniteSet(S), S \subseteq Int, S # {}
  PROVE  /\ Min(S) \in S /\ \A x \in S : Min(S) <= x
         /\ Max(S) \in S /\ \A x \in S : x <= Max(S)
<1> DEFINE n == Cardinality(S)
<1> DEFINE a == Ascending(S)
<1>1. /\ n \in Nat /\ a \in [1 .. n -> S]
      /\ \A i, j \in 1 .. n : i < j <=> a[i] < a[j]
      /\ \A x \in S : \E i \in 1 .. n : a[i] = x
  BY AscendingLists
<1>0. n # 0
  BY FS_EmptySet
<1> HIDE DEF n, a
<1>2. 1 \in 1 .. n /\ n \in 1 .. n
  BY <1>0, <1>1
<1>3. a[1] \in S /\ a[n] \in S
  BY <1>1, <1>2
<1>4. \A x \in S : a[1] <= x /\ x <= a[n]
  <2> SUFFICES ASSUME NEW x \in S PROVE a[1] <= x /\ x <= a[n]
    OBVIOUS
  <2>1. PICK i \in 1 .. n : a[i] = x
    BY <1>1
  <2>2. i = 1 \/ a[1] < a[i]
    BY <1>1, <1>2
  <2>3. i = n \/ a[i] < a[n]
    BY <1>1, <1>2
  <2>4. x \in Int /\ a[1] \in Int /\ a[n] \in Int
    BY <1>3
  <2> QED
    BY <2>1, <2>2, <2>3, <2>4
<1>5. Min(S) \in S /\ \A x \in S : Min(S) <= x
  BY <1>3, <1>4 DEF Min
<1>6. Max(S) \in S /\ \A x \in S : Max(S) >= x
  BY <1>3, <1>4 DEF Max
<1> QED
  BY <1>5, <1>6

(* t is n of the values of a list, those at the places I. *)
Takes(t, list, I, n) ==
  /\ n \in Nat /\ t \in [1 .. n -> Int] /\ t \in Seq(Int) /\ Len(t) = n
  /\ (I # {} => n # 0)
  /\ \A k \in 1 .. n : \E i \in I : t[k] = list[i]

(* Taking lists the values at some places. *)
LEMMA TakingLists ==
  ASSUME NEW list, NEW I, IsFiniteSet(I), I \subseteq Int, \A i \in I : list[i] \in Int
  PROVE  Takes(Taking(list, I), list, I, Cardinality(I))
<1> DEFINE n == Cardinality(I)
<1> DEFINE t == Taking(list, I)
<1> DEFINE a == Ascending(I)
<1>1. /\ n \in Nat /\ a \in [1 .. n -> I]
      /\ \A x \in I : \E i \in 1 .. n : a[i] = x
  BY AscendingLists
<1>2. t = [k \in DOMAIN a |-> list[a[k]]]
  BY DEF Taking
<1> HIDE DEF a, n, t
<1>3. DOMAIN t = 1 .. n /\ \A k \in 1 .. n : a[k] \in I /\ t[k] = list[a[k]]
  BY <1>1, <1>2
<1>4. t \in [1 .. n -> Int]
  BY <1>1, <1>2
<1>5. t \in Seq(Int) /\ Len(t) = n
  BY <1>1, <1>4, ListIsSequence
<1> USE DEF n, t
<1>6. I # {} => n # 0
  BY FS_EmptySet
<1> QED
  BY <1>1, <1>3, <1>4, <1>5, <1>6 DEF Takes

(* e has each place of each list of f once, the lists in order and the    *)
(* places of each in order: order[k] is the place it has k-th.            *)
IsEndToEnd(e, f, m, n, order) ==
  /\ order \in [1 .. n -> (DOMAIN f) \X Nat]
  /\ e = [k \in 1 .. n |-> f[order[k][1]][order[k][2]]]
  /\ \A k \in 1 .. n : order[k][2] \in 1 .. m[order[k][1]]
  /\ \A x \in DOMAIN f : \A i \in 1 .. m[x] : \E k \in 1 .. n : order[k] = <<x, i>>
  /\ \A j, k \in 1 .. n : j < k <=> \/ order[j][1] < order[k][1]
                                    \/ /\ order[j][1] = order[k][1]
                                       /\ order[j][2] < order[k][2]

(* EndToEnd puts lists end to end. *)
LEMMA EndToEndLists ==
  ASSUME NEW f, IsFiniteSet(DOMAIN f), DOMAIN f \subseteq Int,
         NEW m, m \in [DOMAIN f -> Nat], \A x \in DOMAIN f : DOMAIN f[x] = 1 .. m[x]
  PROVE  \E n \in Nat : \E order : IsEndToEnd(EndToEnd(f), f, m, n, order)
<1> DEFINE places == UNION {{x} \X DOMAIN f[x] : x \in DOMAIN f}
<1> DEFINE before == [p \in places |->
                        {q \in places : q[1] < p[1] \/ (q[1] = p[1] /\ q[2] < p[2])}]
<1> DEFINE order == Ranked(before)
<1>1. \A x \in DOMAIN f : m[x] \in Nat /\ DOMAIN f[x] = 1 .. m[x] /\ x \in Int
  OBVIOUS
<1>2. \A p : p \in places <=> \E x \in DOMAIN f : \E i \in 1 .. m[x] : p = <<x, i>>
  <2> SUFFICES ASSUME NEW p
               PROVE  p \in places <=> \E x \in DOMAIN f : \E i \in 1 .. m[x] : p = <<x, i>>
    OBVIOUS
  <2>1. p \in places <=> \E x \in DOMAIN f : p \in {x} \X DOMAIN f[x]
    OBVIOUS
  <2> HIDE DEF places
  <2>2. \A x \in DOMAIN f : p \in {x} \X DOMAIN f[x] <=> \E i \in 1 .. m[x] : p = <<x, i>>
    BY <1>1
  <2> QED
    BY <2>1, <2>2
<1>3. IsFiniteSet(places)
  <2> DEFINE parts == [x \in DOMAIN f |-> {x} \X DOMAIN f[x]]
  <2>1. \A x \in DOMAIN f : IsFiniteSet({x} \X DOMAIN f[x])
    <3> SUFFICES ASSUME NEW x \in DOMAIN f PROVE IsFiniteSet({x} \X DOMAIN f[x])
      OBVIOUS
    <3>1. m[x] \in Int /\ DOMAIN f[x] = 1 .. m[x]
      BY <1>1
    <3>2. IsFiniteSet(1 .. m[x])
      BY <3>1, FS_Interval
    <3>3. IsFiniteSet({x})
      BY FS_Singleton
    <3> QED
      BY <3>1, <3>2, <3>3, FS_Product
  <2>2. IsFiniteSet(Range(parts))
    <3>1. DOMAIN parts = DOMAIN f
      OBVIOUS
    <3> HIDE DEF parts
    <3> QED
      BY <3>1, ImageIsFinite
  <2>3. \A T \in Range(parts) : IsFiniteSet(T)
    BY <2>1 DEF Range
  <2>4. IsFiniteSet(UNION Range(parts))
    BY <2>2, <2>3, FS_UNION
  <2>5. UNION Range(parts) = places
    BY DEF Range
  <2> QED
    BY <2>4, <2>5
<1>4. /\ DOMAIN before = places
      /\ \A p, q \in places : q \in before[p] <=>
           q[1] < p[1] \/ (q[1] = p[1] /\ q[2] < p[2])
      /\ \A p \in places : before[p] \subseteq places
  OBVIOUS
<1>5. EndToEnd(f) = [k \in DOMAIN order |-> f[order[k][1]][order[k][2]]]
  BY DEF EndToEnd
<1> HIDE DEF places, before
<1>6. \A p \in places : /\ p[1] \in DOMAIN f /\ p[1] \in Int /\ p[2] \in 1 .. m[p[1]]
                        /\ p[2] \in Nat /\ p = <<p[1], p[2]>>
  BY <1>1, <1>2
<1>7. IsOrder(before)
  <2>1. \A p \in places : p \notin before[p]
    BY <1>4, <1>6
  <2>2. \A p, q \in places : p = q \/ p \in before[q] \/ q \in before[p]
    <3> SUFFICES ASSUME NEW p \in places, NEW q \in places
                 PROVE  p = q \/ p \in before[q] \/ q \in before[p]
      OBVIOUS
    <3>1. /\ p[1] \in Int /\ p[2] \in Nat /\ q[1] \in Int /\ q[2] \in Nat
          /\ p = <<p[1], p[2]>> /\ q = <<q[1], q[2]>>
      BY <1>6
    <3>2. \/ p[1] = q[1] /\ p[2] = q[2]
          \/ p[1] < q[1] \/ (p[1] = q[1] /\ p[2] < q[2])
          \/ q[1] < p[1] \/ (q[1] = p[1] /\ q[2] < p[2])
      BY ONLY <3>1
    <3> QED
      BY <1>4, <3>1, <3>2
  <2>3. \A p, q, r \in places : p \in before[q] /\ q \in before[r] => p \in before[r]
    <3> SUFFICES ASSUME NEW p \in places, NEW q \in places, NEW r \in places,
                        p \in before[q], q \in before[r]
                 PROVE  p \in before[r]
      OBVIOUS
    <3>1. /\ p[1] \in Int /\ p[2] \in Nat /\ q[1] \in Int /\ q[2] \in Nat
          /\ r[1] \in Int /\ r[2] \in Nat
      BY <1>6
    <3>2. /\ p[1] < q[1] \/ (p[1] = q[1] /\ p[2] < q[2])
          /\ q[1] < r[1] \/ (q[1] = r[1] /\ q[2] < r[2])
      BY <1>4
    <3>3. p[1] < r[1] \/ (p[1] = r[1] /\ p[2] < r[2])
      BY ONLY <3>1, <3>2
    <3> QED
      BY <1>4, <3>3
  <2> QED
    BY <1>3, <1>4, <2>1, <2>2, <2>3 DEF IsOrder
<1> DEFINE n == Cardinality(places)
<1>8. /\ n \in Nat /\ order \in [1 .. n -> places]
      /\ \A i, j \in 1 .. n : i < j <=> order[i] \in before[order[j]]
      /\ \A p \in places : \E i \in 1 .. n : order[i] = p
  BY <1>4, <1>7, RankedLists
<1> HIDE DEF n, order
<1>9. order \in [1 .. n -> (DOMAIN f) \X Nat]
  BY <1>6, <1>8
<1>10. EndToEnd(f) = [k \in 1 .. n |-> f[order[k][1]][order[k][2]]]
  BY <1>5, <1>8
<1>11. \A k \in 1 .. n : order[k][2] \in 1 .. m[order[k][1]]
  BY <1>6, <1>8
<1>12. \A x \in DOMAIN f : \A i \in 1 .. m[x] : \E k \in 1 .. n : order[k] = <<x, i>>
  BY <1>2, <1>8
<1>13. \A j, k \in 1 .. n : j < k <=> \/ order[j][1] < order[k][1]
                                      \/ /\ order[j][1] = order[k][1]
                                         /\ order[j][2] < order[k][2]
  <2>1. \A k \in 1 .. n : order[k] \in places
    BY <1>8
  <2> QED
    BY <1>4, <1>8, <2>1
<1>14. IsEndToEnd(EndToEnd(f), f, m, n, order)
  BY <1>9, <1>10, <1>11, <1>12, <1>13 DEF IsEndToEnd
<1> QED
  BY <1>8, <1>14

(* What covers a set by its places bounds its size. *)
LEMMA CoveredBy ==
  ASSUME NEW I, IsFiniteSet(I), NEW b, NEW B, \A x \in B : \E k \in I : b[k] = x
  PROVE  IsFiniteSet(B) /\ Cardinality(B) <= Cardinality(I)
<1> DEFINE T == {b[k] : k \in I}
<1> DEFINE g == [k \in I |-> b[k]]
<1>1. g \in Surjection(I, T)
  BY DEF Surjection
<1>2. IsFiniteSet(T) /\ Cardinality(T) <= Cardinality(I)
  BY <1>1, FS_Surjection
<1>3. B \in SUBSET T
  OBVIOUS
<1> HIDE DEF T
<1>4. IsFiniteSet(B) /\ Cardinality(B) <= Cardinality(T)
  BY <1>2, <1>3, FS_Subset
<1>5. Cardinality(B) \in Nat /\ Cardinality(T) \in Nat /\ Cardinality(I) \in Nat
  BY <1>2, <1>4, FS_CardinalityType
<1> QED
  BY <1>2, <1>4, <1>5

-----------------------------------------------------------------------------
(* Summaries *)

(* Sorting puts the values in order and each of them somewhere. *)
LEMMA SortingPermutes ==
  ASSUME NEW n \in Nat, NEW values \in [1 .. n -> Int]
  PROVE  \E order \in [1 .. n -> 1 .. n] :
           /\ SortedValues(values) = [i \in 1 .. n |-> values[order[i]]]
           /\ \A i \in 1 .. n : \E k \in 1 .. n : order[k] = i
           /\ \A i, j \in 1 .. n : i <= j => values[order[i]] <= values[order[j]]
<1> DEFINE before == [i \in 1 .. n |->
      {j \in 1 .. n : values[j] < values[i] \/ (values[j] = values[i] /\ j < i)}]
<1> DEFINE order == Ranked(before)
<1>1. /\ DOMAIN before = 1 .. n
      /\ \A i, j \in 1 .. n : j \in before[i] <=>
           values[j] < values[i] \/ (values[j] = values[i] /\ j < i)
      /\ \A i \in 1 .. n : before[i] \subseteq 1 .. n
  OBVIOUS
<1>2. SortedValues(values) = [i \in DOMAIN order |-> values[order[i]]]
  BY DEF SortedValues
<1> HIDE DEF before
<1>3. IsFiniteSet(1 .. n) /\ Cardinality(1 .. n) = n
  BY FS_Interval
<1>4. IsOrder(before)
  <2>0. \A i \in 1 .. n : values[i] \in Int
    OBVIOUS
  <2>1. \A i \in 1 .. n : i \notin before[i]
    BY <1>1, <2>0
  <2>2. \A i, j \in 1 .. n : i = j \/ i \in before[j] \/ j \in before[i]
    BY <1>1, <2>0
  <2>3. \A i, j, k \in 1 .. n : i \in before[j] /\ j \in before[k] => i \in before[k]
    BY <1>1, <2>0
  <2> QED
    BY <1>1, <1>3, <2>1, <2>2, <2>3 DEF IsOrder
<1>5. /\ order \in [1 .. n -> 1 .. n]
      /\ \A i, j \in 1 .. n : i < j <=> order[i] \in before[order[j]]
      /\ \A i \in 1 .. n : \E k \in 1 .. n : order[k] = i
  <2>1. /\ order \in [1 .. Cardinality(DOMAIN before) -> DOMAIN before]
        /\ \A i, j \in 1 .. Cardinality(DOMAIN before) : i < j <=> order[i] \in before[order[j]]
        /\ \A i \in DOMAIN before : \E k \in 1 .. Cardinality(DOMAIN before) : order[k] = i
    BY <1>4, RankedLists
  <2>2. DOMAIN before = 1 .. n /\ Cardinality(DOMAIN before) = n
    BY <1>1, <1>3
  <2> HIDE DEF order
  <2> QED
    BY <2>1, <2>2
<1> HIDE DEF order
<1>6. ASSUME NEW i \in 1 .. n, NEW j \in 1 .. n, i <= j
      PROVE  values[order[i]] <= values[order[j]]
  <2>1. order[i] \in 1 .. n /\ order[j] \in 1 .. n
    BY <1>5
  <2>2. values[order[i]] \in Int /\ values[order[j]] \in Int
    BY <2>1
  <2>3. CASE i = j
    BY <2>2, <2>3
  <2>4. CASE i < j
    <3>1. order[i] \in before[order[j]]
      BY <1>5, <2>4
    <3>2. values[order[i]] < values[order[j]] \/ values[order[i]] = values[order[j]]
      BY <1>1, <2>1, <3>1
    <3> QED
      BY <2>2, <3>2
  <2> QED
    BY <1>6, <2>3, <2>4
<1> QED
  BY <1>2, <1>5, <1>6

(* The median is midway between the values at two places as far from the  *)
(* ends.                                                                  *)
LEMMA MedianIsMidway ==
  ASSUME NEW n \in Nat \ {0}, NEW s \in [1 .. n -> Int]
  PROVE  LET hi == n \div 2 + 1
             lo == n + 1 - hi
         IN  /\ lo \in 1 .. n /\ hi \in 1 .. n /\ lo <= hi
             /\ 2 * lo >= n /\ 2 * hi <= n + 2
             /\ s[lo] \in Int /\ s[hi] \in Int
             /\ Percentile(s, 1, 2) = s[lo] + s[hi]
<1> DEFINE q == (n - 1) \div 2
<1> DEFINE r == (n - 1) % 2
<1> DEFINE hi == n \div 2 + 1
<1> DEFINE lo == n + 1 - hi
<1>1. s \in Seq(Int) /\ Len(s) = n /\ s # <<>>
  BY ListIsSequence
<1>2. /\ q \in Nat /\ r \in 0 .. 1 /\ n - 1 = 2 * q + r
      /\ hi \in Nat /\ lo \in Nat /\ n = 2 * (hi - 1) + (1 - r) /\ lo = 1 + q /\ hi = 1 + q + r
  OBVIOUS
<1>3. 1 * (Len(s) - 1) = n - 1
  BY <1>1
<1>4. Percentile(s, 1, 2) = 2 * s[1 + q] + (IF r = 0 THEN 0 ELSE (s[1 + q + 1] - s[1 + q]) * r)
  BY <1>1, <1>3 DEF Percentile
<1> HIDE DEF q, r, lo, hi
<1>5. lo \in 1 .. n /\ hi \in 1 .. n /\ lo <= hi /\ 2 * lo >= n /\ 2 * hi <= n + 2
  BY <1>2
<1>6. s[lo] \in Int /\ s[hi] \in Int
  BY <1>5
<1>7. Percentile(s, 1, 2) = s[lo] + s[hi]
  <2>1. CASE r = 0
    <3>1. lo = 1 + q /\ hi = lo
      BY <1>2, <2>1
    <3>2. Percentile(s, 1, 2) = 2 * s[lo]
      BY <1>4, <1>6, <2>1, <3>1
    <3> QED
      BY <1>6, <3>1, <3>2
  <2>2. CASE r = 1
    <3>1. lo = 1 + q /\ hi = 1 + q + 1
      BY <1>2, <2>2
    <3>2. Percentile(s, 1, 2) = 2 * s[lo] + (s[hi] - s[lo]) * 1
      BY <1>4, <2>2, <3>1
    <3> QED
      BY <1>6, <3>2
  <2> QED
    BY <1>2, <2>1, <2>2
<1> QED
  BY <1>5, <1>6, <1>7 DEF lo, hi

SortedList(s, n) == \A i, j \in 1 .. n : i <= j => s[i] <= s[j]

(* p is num/den of the way along s, in parts of the way to the next value. *)
IsAlong(p, s, n, num, den) ==
  p \in Int /\ \E lo \in 1 .. n, part \in 0 .. den - 1, step \in Nat :
    /\ num * (n - 1) = den * (lo - 1) + part
    /\ p = den * s[lo] + step * part
    /\ part # 0 => lo + 1 \in 1 .. n /\ s[lo + 1] = s[lo] + step

(* Any other percentile is between two neighbours, by its part of their   *)
(* distance.                                                              *)
LEMMA PercentileIsBetween ==
  ASSUME NEW n \in Nat \ {0}, NEW s \in [1 .. n -> Int],
         SortedList(s, n), NEW num \in Nat, NEW den \in Nat \ {0}, num < den
  PROVE  IsAlong(Percentile(s, num, den), s, n, num, den)
<1> DEFINE pos == num * (n - 1)
<1> DEFINE lo == 1 + pos \div den
<1> DEFINE part == pos % den
<1>1. s \in Seq(Int) /\ Len(s) = n /\ s # <<>>
  BY ListIsSequence
<1>2. pos \in Nat /\ pos <= den * (n - 1)
  OBVIOUS
<1>3. /\ Percentile(s, num, den)
         = den * s[lo] + (IF part = 0 THEN 0 ELSE (s[lo + 1] - s[lo]) * part)
  BY <1>1 DEF Percentile
<1> HIDE DEF pos
<1>4. part \in 0 .. den - 1 /\ lo \in Nat \ {0} /\ pos = den * (lo - 1) + part
  BY <1>2
<1> HIDE DEF lo, part
<1>5. lo \in 1 .. n
  <2> SUFFICES ASSUME lo > n PROVE FALSE
    BY <1>4
  <2>1. den * (lo - 1) >= den * n
    BY <1>4
  <2>2. den * n > den * (n - 1)
    OBVIOUS
  <2> QED
    BY <1>2, <1>4, <2>1, <2>2
<1>6. part # 0 => lo + 1 \in 1 .. n
  <2> SUFFICES ASSUME part # 0, lo = n PROVE FALSE
    BY <1>5
  <2> QED
    BY <1>2, <1>4
<1> DEFINE step == IF part = 0 THEN 0 ELSE s[lo + 1] - s[lo]
<1>7. step \in Nat /\ (part # 0 => s[lo + 1] = s[lo] + step)
  <2>1. CASE part = 0
    BY <2>1
  <2>2. CASE part # 0
    <3>1. lo + 1 \in 1 .. n /\ s[lo] \in Int /\ s[lo + 1] \in Int /\ s[lo] <= s[lo + 1]
      BY <1>5, <1>6, <2>2 DEF SortedList
    <3> QED
      BY <3>1, <2>2
  <2> QED
    BY <2>1, <2>2
<1>8. Percentile(s, num, den) = den * s[lo] + step * part
  <2>1. CASE part = 0
    <3>1. s[lo] \in Int /\ step = 0
      BY <1>5, <2>1
    <3>2. step * part = 0
      BY <2>1, <3>1
    <3>3. Percentile(s, num, den) = den * s[lo] + 0
      BY <1>3, <2>1
    <3> QED
      BY <3>2, <3>3
  <2>2. CASE part # 0
    <3>1. step = s[lo + 1] - s[lo]
      BY <2>2
    <3> QED
      BY <1>3, <2>2, <3>1
  <2> QED
    BY <2>1, <2>2
<1> HIDE DEF step
<1>9. Percentile(s, num, den) \in Int
  <2>1. s[lo] \in Int /\ step \in Int /\ part \in Int
    BY <1>4, <1>5, <1>7
  <2>2. den * s[lo] + step * part \in Int
    BY <2>1
  <2> QED
    BY <1>8, <2>2
<1> QED
  BY <1>4, <1>5, <1>6, <1>7, <1>8, <1>9 DEF pos, IsAlong

(* Scaling keeps an order. *)
LEMMA Scaled ==
  ASSUME NEW u \in Nat, NEW x \in Int, NEW y \in Int, x <= y
  PROVE  u * x \in Int /\ u * y \in Int /\ u * x <= u * y
OBVIOUS

(* Some of the parts of a step are no further than the step. *)
LEMMA ScaledPart ==
  ASSUME NEW u \in Nat, NEW x \in Int, NEW y \in Int, NEW b \in 0 .. u, NEW c \in Nat,
         (b = 0 /\ x <= y) \/ x + c <= y
  PROVE  u * x + c * b <= u * y
<1>1. CASE b = 0 /\ x <= y
  <2>1. c * b = 0
    BY <1>1
  <2>2. u * x \in Int /\ u * y \in Int /\ u * x <= u * y
    BY <1>1, Scaled
  <2> QED
    BY ONLY <2>1, <2>2
<1>2. CASE x + c <= y
  <2>1. c * b \in Int /\ c * u \in Int /\ c * b <= c * u
    BY Scaled
  <2>2. u * (x + c) \in Int /\ u * y \in Int /\ u * (x + c) <= u * y
    BY <1>2, Scaled
  <2>3. u * (x + c) = u * x + c * u /\ u * x \in Int
    OBVIOUS
  <2> QED
    BY ONLY <2>1, <2>2, <2>3
<1> QED
  BY <1>1, <1>2

(* c * b parts past x, of u, are not past f * e parts past y, of v. *)
NotPast(u, x, c, b, v, y, f, e) == v * (u * x + c * b) <= u * (v * y + f * e)

(* Of two percentiles of a list the first is not past the second when it  *)
(* is before an earlier value, or no further from the same one.           *)
LEMMA NextPercentile ==
  ASSUME NEW u \in Nat, NEW x \in Int, NEW b \in 0 .. u, NEW c \in Nat,
         NEW v \in Nat, NEW y \in Int, NEW e \in 0 .. v, NEW f \in Nat,
         \/ (b = 0 /\ x <= y) \/ x + c <= y
         \/ x = y /\ c = f /\ v * b <= u * e
  PROVE  NotPast(u, x, c, b, v, y, f, e)
<1>1. /\ u * x + c * b \in Int /\ u * y \in Int /\ f * e \in Nat /\ v * (u * y) \in Int
      /\ u * (f * e) \in Nat /\ v * (u * x) \in Int
  OBVIOUS
<1>2. u * (v * y + f * e) = v * (u * y) + u * (f * e)
  OBVIOUS
<1>3. CASE (b = 0 /\ x <= y) \/ x + c <= y
  <2>1. u * x + c * b <= u * y
    BY <1>3, ScaledPart
  <2>2. v * (u * x + c * b) <= v * (u * y) /\ v * (u * x + c * b) \in Int
    BY <1>1, <2>1, Scaled
  <2> QED
    BY ONLY <1>1, <1>2, <2>2 DEF NotPast
<1>4. CASE x = y /\ c = f /\ v * b <= u * e
  <2>1. /\ f * (v * b) \in Int /\ f * (u * e) \in Int /\ f * (v * b) <= f * (u * e)
    <3>1. v * b \in Int /\ u * e \in Int
      OBVIOUS
    <3> QED
      BY <1>4, <3>1, Scaled
  <2>2. v * (u * x + c * b) = v * (u * y) + f * (v * b)
    BY <1>4
  <2>3. u * (f * e) = f * (u * e)
    OBVIOUS
  <2> QED
    BY ONLY <1>1, <1>2, <2>1, <2>2, <2>3 DEF NotPast
<1> QED
  BY <1>3, <1>4

(* Percentiles of a sorted list come in order, between its extremes. *)
LEMMA PercentilesInOrder ==
  ASSUME NEW n \in Nat \ {0}, NEW s \in [1 .. n -> Int],
         SortedList(s, n)
  PROVE  /\ 4 * s[1] <= Percentile(s, 1, 4)
         /\ Percentile(s, 1, 4) <= 2 * Percentile(s, 1, 2)
         /\ 2 * Percentile(s, 1, 2) <= Percentile(s, 3, 4)
         /\ 10 * Percentile(s, 3, 4) <= 4 * Percentile(s, 9, 10)
         /\ Percentile(s, 9, 10) <= 10 * s[n]
<1> DEFINE p == Percentile(s, 1, 4)
<1> DEFINE q == Percentile(s, 1, 2)
<1> DEFINE r == Percentile(s, 3, 4)
<1> DEFINE t == Percentile(s, 9, 10)
<1>0. p \in Int /\ q \in Int /\ r \in Int /\ t \in Int
  <2>1. IsAlong(p, s, n, 1, 4) /\ IsAlong(q, s, n, 1, 2)
    BY PercentileIsBetween
  <2>2. IsAlong(r, s, n, 3, 4) /\ IsAlong(t, s, n, 9, 10)
    BY PercentileIsBetween
  <2> QED
    BY ONLY <2>1, <2>2 DEF IsAlong
<1>1. PICK a \in 1 .. n, b \in 0 .. 4 - 1, c \in Nat :
        /\ 1 * (n - 1) = 4 * (a - 1) + b
        /\ p = 4 * s[a] + c * b
        /\ b # 0 => a + 1 \in 1 .. n /\ s[a + 1] = s[a] + c
  <2>1. IsAlong(p, s, n, 1, 4)
    BY PercentileIsBetween
  <2> QED
    BY ONLY <2>1 DEF IsAlong
<1>2. PICK d \in 1 .. n, e \in 0 .. 2 - 1, f \in Nat :
        /\ 1 * (n - 1) = 2 * (d - 1) + e
        /\ q = 2 * s[d] + f * e
        /\ e # 0 => d + 1 \in 1 .. n /\ s[d + 1] = s[d] + f
  <2>1. IsAlong(q, s, n, 1, 2)
    BY PercentileIsBetween
  <2> QED
    BY ONLY <2>1 DEF IsAlong
<1>3. PICK g \in 1 .. n, h \in 0 .. 4 - 1, i \in Nat :
        /\ 3 * (n - 1) = 4 * (g - 1) + h
        /\ r = 4 * s[g] + i * h
        /\ h # 0 => g + 1 \in 1 .. n /\ s[g + 1] = s[g] + i
  <2>1. IsAlong(r, s, n, 3, 4)
    BY PercentileIsBetween
  <2> QED
    BY ONLY <2>1 DEF IsAlong
<1>4. PICK j \in 1 .. n, k \in 0 .. 10 - 1, l \in Nat :
        /\ 9 * (n - 1) = 10 * (j - 1) + k
        /\ t = 10 * s[j] + l * k
        /\ k # 0 => j + 1 \in 1 .. n /\ s[j + 1] = s[j] + l
  <2>1. IsAlong(t, s, n, 9, 10)
    BY PercentileIsBetween
  <2> QED
    BY ONLY <2>1 DEF IsAlong
<1> HIDE DEF p, q, r, t
<1>5. /\ a \in Int /\ d \in Int /\ g \in Int /\ j \in Int /\ n \in Int
      /\ b \in 0 .. 3 /\ e \in 0 .. 1 /\ h \in 0 .. 3 /\ k \in 0 .. 9
      /\ c \in Nat /\ f \in Nat /\ i \in Nat /\ l \in Nat
  OBVIOUS
<1>6. /\ n - 1 = 4 * (a - 1) + b /\ n - 1 = 2 * (d - 1) + e
      /\ 3 * (n - 1) = 4 * (g - 1) + h /\ 9 * (n - 1) = 10 * (j - 1) + k
  BY ONLY <1>1, <1>2, <1>3, <1>4, <1>5
<1>7. /\ s[1] \in Int /\ s[n] \in Int /\ s[a] \in Int /\ s[d] \in Int /\ s[g] \in Int
      /\ s[j] \in Int /\ s[1] <= s[a] /\ s[j] <= s[n]
  BY DEF SortedList
<1>8. ASSUME NEW x \in 1 .. n, NEW y \in 1 .. n, NEW o \in Nat, NEW w \in Nat,
             x < y, o # 0 => x + 1 \in 1 .. n /\ s[x + 1] = s[x] + w
      PROVE  (o = 0 /\ s[x] <= s[y]) \/ s[x] + w <= s[y]
  <2>1. CASE o = 0
    BY <1>8, <2>1 DEF SortedList
  <2>2. CASE o # 0
    <3>1. x + 1 \in 1 .. n /\ s[x + 1] = s[x] + w /\ x + 1 <= y
      BY <1>8, <2>2
    <3>2. s[x + 1] <= s[y]
      BY <3>1 DEF SortedList
    <3> QED
      BY <3>1, <3>2
  <2> QED
    BY <2>1, <2>2
<1>9. 4 * s[1] <= p
  <2>1. c * b \in Nat
    BY <1>5
  <2>2. p = 4 * s[a] + c * b
    BY <1>1
  <2>3. PICK x \in Int, y \in Int, z \in Nat : x = s[1] /\ y = s[a] /\ z = c * b
    BY ONLY <1>7, <2>1
  <2>4. p = 4 * y + z /\ x <= y
    BY ONLY <1>7, <2>2, <2>3
  <2>5. 4 * x <= p
    BY ONLY <2>4, x \in Int, y \in Int, z \in Nat
  <2> QED
    BY ONLY <2>3, <2>5
<1>10. p <= 2 * q
  <2>1. a < d \/ (a = d /\ 2 * b <= 4 * e /\ (b = 0 \/ e # 0))
    BY ONLY <1>5, <1>6
  <2>2. \/ (b = 0 /\ s[a] <= s[d]) \/ s[a] + c <= s[d]
        \/ s[a] = s[d] /\ c = f /\ 2 * b <= 4 * e
    <3>1. CASE a < d
      BY <1>1, <1>5, <1>8, <3>1
    <3>2. CASE a = d /\ b = 0
      BY <1>7, <3>2
    <3>3. CASE a = d /\ b # 0 /\ e # 0 /\ 2 * b <= 4 * e
      <4>1. s[a + 1] = s[a] + c
        BY <1>1, <3>3
      <4>2. s[d + 1] = s[d] + f
        BY <1>2, <3>3
      <4> QED
        BY ONLY <1>5, <1>7, <3>3, <4>1, <4>2
    <3> QED
      BY ONLY <2>1, <3>1, <3>2, <3>3
  <2>3. NotPast(4, s[a], c, b, 2, s[d], f, e)
    <3>1. b \in 0 .. 4 /\ e \in 0 .. 2 /\ 4 \in Nat /\ 2 \in Nat
      BY ONLY <1>5
    <3> QED
      BY ONLY <1>5, <1>7, <2>2, <3>1, NextPercentile
  <2>4. 2 * p <= 4 * q
    BY <1>1, <1>2, <2>3 DEF NotPast
  <2> QED
    BY ONLY <1>0, <2>4
<1>11. 2 * q <= r
  <2>1. d < g \/ (d = g /\ 4 * e <= 2 * h /\ (e = 0 \/ h # 0))
    BY ONLY <1>5, <1>6
  <2>2. \/ (e = 0 /\ s[d] <= s[g]) \/ s[d] + f <= s[g]
        \/ s[d] = s[g] /\ f = i /\ 4 * e <= 2 * h
    <3>1. CASE d < g
      BY <1>2, <1>5, <1>8, <3>1
    <3>2. CASE d = g /\ e = 0
      BY <1>7, <3>2
    <3>3. CASE d = g /\ e # 0 /\ h # 0 /\ 4 * e <= 2 * h
      <4>1. s[d + 1] = s[d] + f
        BY <1>2, <3>3
      <4>2. s[g + 1] = s[g] + i
        BY <1>3, <3>3
      <4> QED
        BY ONLY <1>5, <1>7, <3>3, <4>1, <4>2
    <3> QED
      BY ONLY <2>1, <3>1, <3>2, <3>3
  <2>3. NotPast(2, s[d], f, e, 4, s[g], i, h)
    <3>1. e \in 0 .. 2 /\ h \in 0 .. 4 /\ 2 \in Nat /\ 4 \in Nat
      BY ONLY <1>5
    <3> QED
      BY ONLY <1>5, <1>7, <2>2, <3>1, NextPercentile
  <2>4. 4 * q <= 2 * r
    BY <1>2, <1>3, <2>3 DEF NotPast
  <2> QED
    BY ONLY <1>0, <2>4
<1>12. 10 * r <= 4 * t
  <2>1. g < j \/ (g = j /\ 10 * h <= 4 * k /\ (h = 0 \/ k # 0))
    BY ONLY <1>5, <1>6
  <2>2. \/ (h = 0 /\ s[g] <= s[j]) \/ s[g] + i <= s[j]
        \/ s[g] = s[j] /\ i = l /\ 10 * h <= 4 * k
    <3>1. CASE g < j
      BY <1>3, <1>5, <1>8, <3>1
    <3>2. CASE g = j /\ h = 0
      BY <1>7, <3>2
    <3>3. CASE g = j /\ h # 0 /\ k # 0 /\ 10 * h <= 4 * k
      <4>1. s[g + 1] = s[g] + i
        BY <1>3, <3>3
      <4>2. s[j + 1] = s[j] + l
        BY <1>4, <3>3
      <4> QED
        BY ONLY <1>5, <1>7, <3>3, <4>1, <4>2
    <3> QED
      BY ONLY <2>1, <3>1, <3>2, <3>3
  <2>3. NotPast(4, s[g], i, h, 10, s[j], l, k)
    <3>1. h \in 0 .. 4 /\ k \in 0 .. 10 /\ 4 \in Nat /\ 10 \in Nat
      BY ONLY <1>5
    <3> QED
      BY ONLY <1>5, <1>7, <2>2, <3>1, NextPercentile
  <2> QED
    BY <1>3, <1>4, <2>3 DEF NotPast
<1>13. t <= 10 * s[n]
  <2>1. (k = 0 /\ s[j] <= s[n]) \/ s[j] + l <= s[n]
    <3>1. CASE k = 0
      BY <1>7, <3>1
    <3>2. CASE k # 0
      <4>1. s[j + 1] = s[j] + l /\ j + 1 \in 1 .. n
        BY <1>4, <3>2
      <4>2. s[j + 1] <= s[n]
        BY <4>1 DEF SortedList
      <4> QED
        BY <4>1, <4>2
    <3> QED
      BY <3>1, <3>2
  <2>2. 10 * s[j] + l * k <= 10 * s[n]
    <3>1. 10 \in Nat /\ k \in 0 .. 10
      BY ONLY <1>5
    <3> QED
      BY ONLY <1>5, <1>7, <2>1, <3>1, ScaledPart
  <2> QED
    BY <1>4, <2>2
<1> QED
  BY <1>9, <1>10, <1>11, <1>12, <1>13 DEF p, q, r, t

(* The places of the values on either side of a median, and the unusual.  *)
Under(values, n, s) == {i \in 1 .. n : 2 * values[i] < s.median2}
Over(values, n, s) == {i \in 1 .. n : 2 * values[i] > s.median2}
Unusual(values, n, s) == {i \in 1 .. n : IsOutlier(values[i], s)}

(* What a summary says of n values: how many they are, its percentiles in *)
(* order, a median made of two of them with at most half of them on       *)
(* either side, and fewer than half unusual.                              *)
Halves(s, values, n) ==
  /\ s.count = n
  /\ 4 * s.min <= s.p25in4 /\ s.p25in4 <= 2 * s.median2
  /\ 2 * s.median2 <= s.p75in4 /\ 10 * s.p75in4 <= 4 * s.p90in10
  /\ s.p90in10 <= 10 * s.max
  /\ \E i, j \in 1 .. n : s.median2 = values[i] + values[j]
  /\ 2 * Cardinality(Under(values, n, s)) <= n
  /\ 2 * Cardinality(Over(values, n, s)) <= n
  /\ 2 * Cardinality(Unusual(values, n, s)) < n

(* Twice the half of a number is the number or one less. *)
LEMMA HalfOfIt ==
  ASSUME NEW n \in Nat
  PROVE  n \div 2 \in Nat /\ 2 * (n \div 2) <= n /\ n < 2 * (n \div 2) + 2
OBVIOUS

(* Every summary halves its values. *)
LEMMA SummaryHalves ==
  ASSUME NEW n \in Nat \ {0}, NEW values \in [1 .. n -> Int],
         NEW s, s = Summarise(values)
  PROVE  Halves(s, values, n)
<1>1. PICK order \in [1 .. n -> 1 .. n] :
        /\ SortedValues(values) = [i \in 1 .. n |-> values[order[i]]]
        /\ \A i \in 1 .. n : \E k \in 1 .. n : order[k] = i
        /\ \A i, j \in 1 .. n : i <= j => values[order[i]] <= values[order[j]]
  BY SortingPermutes
<1> DEFINE sorted == SortedValues(values)
<1>2. /\ sorted \in [1 .. n -> Int] /\ \A i \in 1 .. n : sorted[i] = values[order[i]]
      /\ SortedList(sorted, n)
  BY <1>1 DEF SortedList
<1> DEFINE hi == n \div 2 + 1
<1> DEFINE lo == n + 1 - hi
<1> DEFINE off2 == [i \in DOMAIN sorted |-> Magnitude(2 * sorted[i] - Percentile(sorted, 1, 2))]
<1> DEFINE off == SortedValues(off2)
<1>3. /\ s.count = Len(values) /\ s.median2 = Percentile(sorted, 1, 2)
      /\ s.min = (IF values = <<>> THEN 0 ELSE sorted[1])
      /\ s.p25in4 = Percentile(sorted, 1, 4) /\ s.p75in4 = Percentile(sorted, 3, 4)
      /\ s.p90in10 = Percentile(sorted, 9, 10)
      /\ s.max = (IF values = <<>> THEN 0 ELSE sorted[Len(sorted)])
      /\ s.mad4 = Percentile(off, 1, 2)
  BY DEF Summarise, Last
<1> HIDE DEF sorted
<1>4. /\ Len(values) = n /\ values # <<>> /\ Len(sorted) = n
  <2>1. values \in Seq(Int) /\ Len(values) = n
    BY ListIsSequence
  <2>2. Len(sorted) = n
    BY <1>2, ListIsSequence
  <2> QED
    BY <2>1, <2>2
<1>5. /\ lo \in 1 .. n /\ hi \in 1 .. n /\ lo <= hi
      /\ 2 * lo >= n /\ 2 * hi <= n + 2 /\ 2 * hi > n
  <2> DEFINE half == n \div 2
  <2>1. half \in Nat /\ 2 * half <= n /\ n < 2 * half + 2
    BY HalfOfIt
  <2> HIDE DEF half
  <2>2. hi = half + 1 /\ lo = n - half
    BY <2>1 DEF half
  <2> HIDE DEF hi, lo
  <2> QED
    BY ONLY <2>1, <2>2, n \in Nat \ {0}
<1>6. sorted[lo] \in Int /\ sorted[hi] \in Int /\ s.median2 = sorted[lo] + sorted[hi]
  BY <1>2, <1>3, MedianIsMidway
<1>17. /\ lo \in Int /\ hi \in Int /\ n \in Int /\ 1 <= lo /\ lo <= hi /\ hi <= n
       /\ 2 * lo >= n /\ 2 * hi <= n + 2 /\ 2 * hi > n /\ sorted[lo] <= sorted[hi]
  BY <1>2, <1>5 DEF SortedList
<1>7. DOMAIN off2 = 1 .. n
      /\ \A i \in 1 .. n : off2[i] = Magnitude(2 * sorted[i] - s.median2) /\ off2[i] \in Nat
  <2>1. DOMAIN off2 = 1 .. n
        /\ \A i \in 1 .. n : off2[i] = Magnitude(2 * sorted[i] - s.median2)
    BY <1>2, <1>3
  <2> HIDE DEF off2
  <2>2. \A x \in Int : Magnitude(x) \in Nat
    BY DEF Magnitude
  <2>3. \A i \in 1 .. n : 2 * sorted[i] - s.median2 \in Int
    <3>1. s.median2 \in Int
      BY <1>6
    <3>2. \A x, y \in Int : 2 * x - y \in Int
      OBVIOUS
    <3>3. \A i \in 1 .. n : sorted[i] \in Int
      BY <1>2
    <3> QED
      BY ONLY <3>1, <3>2, <3>3
  <2> QED
    BY <2>1, <2>2, <2>3
<1>8. off2 \in [1 .. n -> Int]
  <2>1. off2 = [i \in 1 .. n |-> off2[i]]
    BY <1>2
  <2> HIDE DEF off2
  <2> QED
    BY <1>7, <2>1
<1> HIDE DEF off2
<1>9. PICK order2 \in [1 .. n -> 1 .. n] :
        /\ off = [i \in 1 .. n |-> off2[order2[i]]]
        /\ \A i \in 1 .. n : \E k \in 1 .. n : order2[k] = i
        /\ \A i, j \in 1 .. n : i <= j => off2[order2[i]] <= off2[order2[j]]
  BY <1>8, SortingPermutes
<1>10. off \in [1 .. n -> Int] /\ \A i \in 1 .. n : off[i] = off2[order2[i]]
  BY <1>8, <1>9
<1> HIDE DEF off
<1>11. s.mad4 = off[lo] + off[hi]
  BY <1>3, <1>10, MedianIsMidway
<1> HIDE DEF lo, hi
<1>12. 2 * Cardinality(Under(values, n, s)) <= n
  <2> DEFINE B == Under(values, n, s)
  <2>1. IsFiniteSet(1 .. hi - 1) /\ Cardinality(1 .. hi - 1) = hi - 1
    <3>1. 1 \in Int /\ hi - 1 \in Int /\ 1 <= hi - 1 + 1 /\ hi - 1 - (1) + 1 = hi - 1
      BY ONLY <1>17
    <3>2. /\ IsFiniteSet(1 .. hi - 1)
          /\ Cardinality(1 .. hi - 1) = IF 1 > hi - 1 THEN 0 ELSE hi - 1 - (1) + 1
      BY ONLY <3>1, FS_Interval
    <3> QED
      BY ONLY <1>17, <3>1, <3>2
  <2>2. \A i \in B : \E k \in 1 .. hi - 1 : order[k] = i
    <3> SUFFICES ASSUME NEW i \in 1 .. n, 2 * values[i] < s.median2
                 PROVE  \E k \in 1 .. hi - 1 : order[k] = i
      BY DEF Under
    <3>1. PICK k \in 1 .. n : order[k] = i
      BY <1>1
    <3>2. sorted[k] = values[i] /\ values[i] \in Int
      BY <1>2, <3>1
    <3>3. k >= hi => sorted[hi] <= sorted[k]
      BY <1>2, <1>5 DEF SortedList
    <3>4. ~ (k >= hi)
      <4>1. 2 * sorted[k] < sorted[lo] + sorted[hi] /\ sorted[k] \in Int
        BY <1>6, <3>2
      <4>2. PICK x \in Int, y \in Int, z \in Int :
              x = sorted[k] /\ y = sorted[lo] /\ z = sorted[hi]
        BY ONLY <1>6, <4>1
      <4>3. 2 * x < y + z /\ y <= z /\ (k >= hi => z <= x)
        BY ONLY <1>17, <3>3, <4>1, <4>2
      <4>4. x \in Int /\ y \in Int /\ z \in Int
        OBVIOUS
      <4> QED
        BY ONLY <4>3, <4>4
    <3>5. k \in 1 .. hi - 1
      BY <1>5, <3>4
    <3> QED
      BY <3>1, <3>5
  <2> HIDE DEF B
  <2>3. IsFiniteSet(B) /\ Cardinality(B) <= hi - 1
    <3> DEFINE I == 1 .. hi - 1
    <3>1. IsFiniteSet(I) /\ Cardinality(I) = hi - 1 /\ \A i \in B : \E k \in I : order[k] = i
      BY ONLY <2>1, <2>2
    <3> HIDE DEF I
    <3>2. IsFiniteSet(B) /\ Cardinality(B) <= Cardinality(I)
      BY ONLY <3>1, CoveredBy
    <3> QED
      BY ONLY <3>1, <3>2
  <2>4. Cardinality(B) \in Nat
    BY <2>3, FS_CardinalityType
  <2>5. 2 * Cardinality(B) <= n
    BY ONLY <1>17, <2>3, <2>4
  <2> QED
    BY <2>5 DEF B
<1>13. 2 * Cardinality(Over(values, n, s)) <= n
  <2> DEFINE B == Over(values, n, s)
  <2>1. IsFiniteSet(lo + 1 .. n) /\ Cardinality(lo + 1 .. n) = n - lo
    <3>1. lo + 1 \in Int /\ n \in Int /\ lo + 1 <= n + 1 /\ n - (lo + 1) + 1 = n - lo
      BY ONLY <1>17
    <3>2. /\ IsFiniteSet(lo + 1 .. n)
          /\ Cardinality(lo + 1 .. n) = IF lo + 1 > n THEN 0 ELSE n - (lo + 1) + 1
      BY ONLY <3>1, FS_Interval
    <3> QED
      BY ONLY <1>17, <3>1, <3>2
  <2>2. \A i \in B : \E k \in lo + 1 .. n : order[k] = i
    <3> SUFFICES ASSUME NEW i \in 1 .. n, 2 * values[i] > s.median2
                 PROVE  \E k \in lo + 1 .. n : order[k] = i
      BY DEF Over
    <3>1. PICK k \in 1 .. n : order[k] = i
      BY <1>1
    <3>2. sorted[k] = values[i] /\ values[i] \in Int
      BY <1>2, <3>1
    <3>3. k <= lo => sorted[k] <= sorted[lo]
      BY <1>2, <1>5 DEF SortedList
    <3>4. ~ (k <= lo)
      <4>1. 2 * sorted[k] > sorted[lo] + sorted[hi] /\ sorted[k] \in Int
        BY <1>6, <3>2
      <4>2. PICK x \in Int, y \in Int, z \in Int :
              x = sorted[k] /\ y = sorted[lo] /\ z = sorted[hi]
        BY ONLY <1>6, <4>1
      <4>3. 2 * x > y + z /\ y <= z /\ (k <= lo => x <= y)
        BY ONLY <1>17, <3>3, <4>1, <4>2
      <4>4. x \in Int /\ y \in Int /\ z \in Int
        OBVIOUS
      <4> QED
        BY ONLY <4>3, <4>4
    <3>5. k \in lo + 1 .. n
      BY <1>5, <3>4
    <3> QED
      BY <3>1, <3>5
  <2> HIDE DEF B
  <2>3. IsFiniteSet(B) /\ Cardinality(B) <= n - lo
    <3> DEFINE I == lo + 1 .. n
    <3>1. IsFiniteSet(I) /\ Cardinality(I) = n - lo /\ \A i \in B : \E k \in I : order[k] = i
      BY ONLY <2>1, <2>2
    <3> HIDE DEF I
    <3>2. IsFiniteSet(B) /\ Cardinality(B) <= Cardinality(I)
      BY ONLY <3>1, CoveredBy
    <3> QED
      BY ONLY <3>1, <3>2
  <2>4. Cardinality(B) \in Nat
    BY <2>3, FS_CardinalityType
  <2>5. 2 * Cardinality(B) <= n
    BY ONLY <1>17, <2>3, <2>4
  <2> QED
    BY <2>5 DEF B
<1>14. 2 * Cardinality(Unusual(values, n, s)) < n
  <2> DEFINE B == Unusual(values, n, s)
  <2> DEFINE b == [j \in 1 .. n |-> order[order2[j]]]
  <2>1. IsFiniteSet(hi + 1 .. n) /\ Cardinality(hi + 1 .. n) = n - hi
    <3>1. hi + 1 \in Int /\ n \in Int /\ hi + 1 <= n + 1 /\ n - (hi + 1) + 1 = n - hi
      BY ONLY <1>17
    <3>2. /\ IsFiniteSet(hi + 1 .. n)
          /\ Cardinality(hi + 1 .. n) = IF hi + 1 > n THEN 0 ELSE n - (hi + 1) + 1
      BY ONLY <3>1, FS_Interval
    <3> QED
      BY ONLY <1>17, <3>1, <3>2
  <2>2. \A i \in B : \E j \in hi + 1 .. n : b[j] = i
    <3> SUFFICES ASSUME NEW i \in 1 .. n, IsOutlier(values[i], s)
                 PROVE  \E j \in hi + 1 .. n : b[j] = i
      BY DEF Unusual
    <3>1. PICK k \in 1 .. n : order[k] = i
      BY <1>1
    <3>2. PICK j \in 1 .. n : order2[j] = k
      BY <1>9
    <3>3. sorted[k] = values[i]
      BY <1>2, <3>1
    <3>4. off[j] = Magnitude(2 * values[i] - s.median2) /\ off[j] \in Nat
      BY <1>7, <1>10, <3>2, <3>3
    <3>5. off[j] * 2 * 10000 > 51891 * s.mad4
      BY <3>4 DEF IsOutlier
    <3>6. off[lo] \in Nat /\ off[hi] \in Nat
      <4>1. order2[lo] \in 1 .. n /\ order2[hi] \in 1 .. n
        BY <1>5
      <4> QED
        BY <1>5, <1>7, <1>10, <4>1
    <3>7. j <= hi => off[j] <= off[hi]
      BY <1>5, <1>9, <1>10
    <3>8. j > hi
      <4>1. off[j] * 2 * 10000 > 51891 * (off[lo] + off[hi])
        BY <1>11, <3>5
      <4>2. PICK x \in Nat, y \in Nat, z \in Nat :
              x = off[j] /\ y = off[lo] /\ z = off[hi]
        BY ONLY <3>4, <3>6
      <4>3. x * 2 * 10000 > 51891 * (y + z) /\ (j <= hi => x <= z)
        BY ONLY <3>7, <4>1, <4>2
      <4>4. x \in Nat /\ y \in Nat /\ z \in Nat /\ j \in Int
        OBVIOUS
      <4> QED
        BY ONLY <1>17, <4>3, <4>4
    <3>9. j \in hi + 1 .. n /\ b[j] = i
      BY <1>5, <3>1, <3>2, <3>8
    <3> QED
      BY <3>9
  <2> HIDE DEF B, b
  <2>3. IsFiniteSet(B) /\ Cardinality(B) <= n - hi
    <3> DEFINE I == hi + 1 .. n
    <3>1. IsFiniteSet(I) /\ Cardinality(I) = n - hi /\ \A i \in B : \E k \in I : b[k] = i
      BY ONLY <2>1, <2>2
    <3> HIDE DEF I
    <3>2. IsFiniteSet(B) /\ Cardinality(B) <= Cardinality(I)
      BY ONLY <3>1, CoveredBy
    <3> QED
      BY ONLY <3>1, <3>2
  <2>4. Cardinality(B) \in Nat
    BY <2>3, FS_CardinalityType
  <2>5. 2 * Cardinality(B) < n
    BY ONLY <1>17, <2>3, <2>4
  <2> QED
    BY <2>5 DEF B
<1>15. /\ 4 * s.min <= s.p25in4 /\ s.p25in4 <= 2 * s.median2
       /\ 2 * s.median2 <= s.p75in4 /\ 10 * s.p75in4 <= 4 * s.p90in10
       /\ s.p90in10 <= 10 * s.max
  <2>1. s.min = sorted[1] /\ s.max = sorted[n]
    BY <1>3, <1>4
  <2> QED
    BY <1>2, <1>3, <2>1, PercentilesInOrder
<1>16. \E i, j \in 1 .. n : s.median2 = values[i] + values[j]
  <2>1. order[lo] \in 1 .. n /\ order[hi] \in 1 .. n
    BY <1>5
  <2>2. s.median2 = values[order[lo]] + values[order[hi]]
    BY <1>2, <1>5, <1>6
  <2> QED
    BY <2>1, <2>2
<1> QED
  BY <1>3, <1>4, <1>12, <1>13, <1>14, <1>15, <1>16 DEF Halves

-----------------------------------------------------------------------------
(* The report *)

(* When a stretch was measured, as a table has it. *)
DrivenOn(table, seq) ==
  {t \in Instants : <<seq, t>> \in Drives /\ table[<<seq, t>>] # None}

(* Stretches and instants are finitely many, and in order. *)
LEMMA DrivesAreOrdered ==
  /\ IsFiniteSet(Instants) /\ Instants \subseteq Int
  /\ IsFiniteSet(Stretches) /\ Stretches \subseteq Int
  /\ \A q, t : <<q, t>> \in Drives => q \in Stretches /\ t \in Instants
  /\ \A t \in Instants : HourOf[t] \in Int /\ WeekOf[t] \in Int
<1>1. IsFiniteSet(Drives) /\ \A d \in Drives : d[1] \in Int /\ d[2] \in Int
      /\ HourOf[d[2]] \in Int /\ WeekOf[d[2]] \in Int
  BY ReportAssumptions
<1>2. IsFiniteSet(Instants)
  <2> DEFINE f == [d \in Drives |-> d[2]]
  <2>1. DOMAIN f = Drives /\ Instants = Range(f)
    BY DEF Instants, Range
  <2> HIDE DEF f
  <2> QED
    BY <1>1, <2>1, ImageIsFinite
<1>3. IsFiniteSet(Stretches)
  <2> DEFINE f == [d \in Drives |-> d[1]]
  <2>1. DOMAIN f = Drives /\ Stretches = Range(f)
    BY DEF Stretches, Range
  <2> HIDE DEF f
  <2> QED
    BY <1>1, <2>1, ImageIsFinite
<1>4. \A q, t : <<q, t>> \in Drives => q \in Stretches /\ t \in Instants
  <2> SUFFICES ASSUME NEW q, NEW t, <<q, t>> \in Drives
               PROVE  q \in Stretches /\ t \in Instants
    OBVIOUS
  <2>1. <<q, t>>[1] = q /\ <<q, t>>[2] = t
    OBVIOUS
  <2> QED
    BY <2>1 DEF Stretches, Instants
<1>5. Instants \subseteq Int /\ Stretches \subseteq Int
  BY <1>1 DEF Instants, Stretches
<1>6. \A t \in Instants : HourOf[t] \in Int /\ WeekOf[t] \in Int
  BY <1>1 DEF Instants
<1> QED
  BY <1>2, <1>3, <1>4, <1>5, <1>6

(* A table of measurements. *)
IsTable(table) == table \in [Drives -> Lengths \cup {None}]

(* g is what was measured of stretch q, as it was driven n times. *)
AsDriven(g, n, table, q) ==
  /\ n \in Nat /\ DOMAIN g = 1 .. n /\ Len(g) = n /\ (g # <<>> <=> n # 0)
  /\ \A i \in 1 .. n :
       /\ g[i].seq = q /\ g[i].at \in DrivenOn(table, q)
       /\ g[i].at \in Instants /\ g[i].at \in Int
       /\ g[i].duration = table[<<q, g[i].at>>]
       /\ g[i].duration \in Lengths /\ g[i].duration \in Nat
  /\ \A i, j \in 1 .. n : i < j <=> g[i].at < g[j].at
  /\ \A t \in DrivenOn(table, q) : \E i \in 1 .. n : g[i].at = t
  /\ (DrivenOn(table, q) # {} => n # 0)

(* Segments lists what was measured of a stretch as it was driven. *)
LEMMA SegmentsAreDriven ==
  ASSUME NEW table, IsTable(table), NEW q
  PROVE  AsDriven(Segments(table, q), Cardinality(DrivenOn(table, q)), table, q)
<1> DEFINE D == DrivenOn(table, q)
<1> DEFINE n == Cardinality(D)
<1> DEFINE g == Segments(table, q)
<1> DEFINE a == Ascending(D)
<1>1. IsFiniteSet(D) /\ D \subseteq Instants /\ D \subseteq Int
  <2>1. D \in SUBSET Instants
    BY DEF DrivenOn
  <2> HIDE DEF D
  <2> QED
    BY <2>1, DrivesAreOrdered, FS_Subset
<1>2. g = [i \in DOMAIN a |-> [seq |-> q, at |-> a[i], duration |-> table[<<q, a[i]>>]]]
  BY DEF Segments, DrivenOn
<1>3. \A t \in D : table[<<q, t>>] \in Lengths /\ table[<<q, t>>] \in Nat
  BY ChartsAssumptions DEF DrivenOn, IsTable
<1>0. D # {} => n # 0
  BY <1>1, FS_EmptySet
<1> HIDE DEF D
<1>4. /\ n \in Nat /\ a \in [1 .. n -> D]
      /\ \A i, j \in 1 .. n : i < j <=> a[i] < a[j]
      /\ \A t \in D : \E i \in 1 .. n : a[i] = t
  BY <1>1, AscendingLists
<1> HIDE DEF n, a, g
<1>5. /\ DOMAIN g = 1 .. n
      /\ \A i \in 1 .. n : /\ g[i].seq = q /\ g[i].at = a[i] /\ a[i] \in D
                           /\ g[i].duration = table[<<q, a[i]>>]
  BY <1>2, <1>4
<1>6. Len(g) = n /\ (g # <<>> => n # 0) /\ (n # 0 => g # <<>>)
  <2>1. g \in [1 .. n -> {g[i] : i \in 1 .. n}]
    BY <1>2, <1>5
  <2>2. g \in Seq({g[i] : i \in 1 .. n}) /\ Len(g) = n
    BY <1>4, <2>1, ListIsSequence
  <2> QED
    BY <1>4, <2>2
<1>7. \A i \in 1 .. n :
        /\ g[i].seq = q /\ g[i].at \in D /\ g[i].at \in Instants /\ g[i].at \in Int
        /\ g[i].duration = table[<<q, g[i].at>>]
        /\ g[i].duration \in Lengths /\ g[i].duration \in Nat
  BY <1>1, <1>3, <1>5
<1>8. \A i, j \in 1 .. n : i < j <=> g[i].at < g[j].at
  BY <1>4, <1>5
<1>9. \A t \in D : \E i \in 1 .. n : g[i].at = t
  <2>1. \A i \in 1 .. n : g[i].at = a[i]
    BY <1>5
  <2>2. \A t \in D : \E i \in 1 .. n : a[i] = t
    BY <1>4
  <2> QED
    BY ONLY <2>1, <2>2
<1>10. D # {} => n # 0 /\ g # <<>>
  BY <1>0, <1>6
<1> USE DEF n, g
<1> QED
  BY <1>4, <1>5, <1>6, <1>7, <1>8, <1>9, <1>10 DEF D, AsDriven

(* A stretch is reported exactly when it was measured. *)
LEMMA ReportedAreDriven ==
  ASSUME NEW table, IsTable(table)
  PROVE  /\ IsFiniteSet(Reported(table)) /\ Reported(table) \subseteq Int
         /\ \A q \in Reported(table) : Cardinality(DrivenOn(table, q)) \in Nat \ {0}
         /\ \A q : DrivenOn(table, q) # {} => q \in Reported(table)
<1>1. Reported(table) \in SUBSET Stretches
  BY DEF Reported
<1>2. IsFiniteSet(Reported(table)) /\ Reported(table) \subseteq Int
  BY <1>1, DrivesAreOrdered, FS_Subset
<1>3. ASSUME NEW q \in Reported(table)
      PROVE  Cardinality(DrivenOn(table, q)) \in Nat \ {0}
  <2>1. Segments(table, q) # <<>>
    BY DEF Reported
  <2> QED
    BY <2>1, SegmentsAreDriven DEF AsDriven
<1>4. ASSUME NEW q, DrivenOn(table, q) # {}
      PROVE  q \in Reported(table)
  <2>1. PICK t \in Instants : <<q, t>> \in Drives
    BY <1>4 DEF DrivenOn
  <2>2. q \in Stretches
    BY <2>1, DrivesAreOrdered
  <2>3. Segments(table, q) # <<>>
    BY <1>4, SegmentsAreDriven DEF AsDriven
  <2> QED
    BY <2>2, <2>3 DEF Reported
<1> QED
  BY <1>2, <1>3, <1>4

(* The report lists the stretches that were driven, in order. *)
LEMMA StretchesReported ==
  ASSUME NEW table, IsTable(table), NEW clock, NEW r, r = Stats(table, clock)
  PROVE  LET n == Cardinality(Reported(table))
             seqs == Ascending(Reported(table))
         IN  /\ n \in Nat /\ DOMAIN r.segments = 1 .. n /\ seqs \in [1 .. n -> Reported(table)]
             /\ \A i \in 1 .. n : /\ r.segments[i] = Stretch(Segments(table, seqs[i]))
                                  /\ r.segments[i].seq = seqs[i]
                                  /\ r.segments[i].seq \in Reported(table)
<1> DEFINE n == Cardinality(Reported(table))
<1> DEFINE seqs == Ascending(Reported(table))
<1>1. n \in Nat /\ seqs \in [1 .. n -> Reported(table)]
  BY ReportedAreDriven, AscendingLists
<1>2. r.segments = [i \in DOMAIN seqs |-> Stretch([q \in Reported(table) |-> Segments(table, q)][seqs[i]])]
  BY DEF Stats
<1> HIDE DEF n, seqs
<1>3. DOMAIN r.segments = 1 .. n
      /\ \A i \in 1 .. n : r.segments[i] = Stretch(Segments(table, seqs[i]))
  BY <1>1, <1>2
<1>4. \A q \in Reported(table) : Stretch(Segments(table, q)).seq = q
  <2> SUFFICES ASSUME NEW q \in Reported(table) PROVE Stretch(Segments(table, q)).seq = q
    OBVIOUS
  <2>1. 1 \in 1 .. Cardinality(DrivenOn(table, q))
    BY ReportedAreDriven
  <2>2. AsDriven(Segments(table, q), Cardinality(DrivenOn(table, q)), table, q)
    BY SegmentsAreDriven
  <2>3. Segments(table, q)[1].seq = q
    BY <2>1, <2>2 DEF AsDriven
  <2> QED
    BY <2>3 DEF Stretch
<1>5. \A i \in 1 .. n : seqs[i] \in Reported(table)
  BY <1>1
<1> USE DEF n, seqs
<1> QED
  BY <1>1, <1>3, <1>4, <1>5

(* e is a list of what is reported of each stretch, one stretch after the *)
(* other: order[k] is the stretch of an entry and its place in its list.  *)
IsReported(e, f, m, table, n, order) ==
  /\ DOMAIN e = 1 .. n
  /\ \A k \in 1 .. n : /\ order[k] = <<order[k][1], order[k][2]>>
                       /\ order[k][1] \in Reported(table)
                       /\ order[k][2] \in 1 .. m[order[k][1]]
                       /\ e[k] = f[order[k][1]][order[k][2]]
                       /\ e[k].seq = order[k][1]
  /\ \A q \in Reported(table) : \A i \in 1 .. m[q] : \E k \in 1 .. n : order[k] = <<q, i>>
  /\ \A j, k \in 1 .. n : j < k <=> \/ order[j][1] < order[k][1]
                                    \/ /\ order[j][1] = order[k][1]
                                       /\ order[j][2] < order[k][2]

(* What is told of the stretches, end to end, is reported so. *)
LEMMA Reporting ==
  ASSUME NEW table, IsTable(table), NEW f, DOMAIN f = Reported(table),
         NEW m, m \in [Reported(table) -> Nat],
         \A q \in Reported(table) :
           DOMAIN f[q] = 1 .. m[q] /\ \A i \in 1 .. m[q] : f[q][i].seq = q
  PROVE  \E n \in Nat : \E order : IsReported(EndToEnd(f), f, m, table, n, order)
<1>1. /\ IsFiniteSet(DOMAIN f) /\ DOMAIN f \subseteq Int
      /\ m \in [DOMAIN f -> Nat] /\ \A x \in DOMAIN f : DOMAIN f[x] = 1 .. m[x]
  BY ReportedAreDriven
<1>2. PICK n \in Nat : \E order : IsEndToEnd(EndToEnd(f), f, m, n, order)
  BY <1>1, EndToEndLists
<1>3. PICK order : IsEndToEnd(EndToEnd(f), f, m, n, order)
  BY <1>2
<1>8. order \in [1 .. n -> Reported(table) \X Nat]
  BY <1>3 DEF IsEndToEnd
<1>4. DOMAIN EndToEnd(f) = 1 .. n
      /\ \A k \in 1 .. n : EndToEnd(f)[k] = f[order[k][1]][order[k][2]]
  BY <1>3 DEF IsEndToEnd
<1>5. \A k \in 1 .. n : /\ order[k] = <<order[k][1], order[k][2]>>
                        /\ order[k][1] \in Reported(table)
  <2>1. \A p \in Reported(table) \X Nat : p = <<p[1], p[2]>> /\ p[1] \in Reported(table)
    OBVIOUS
  <2>2. \A k \in 1 .. n : order[k] \in Reported(table) \X Nat
    BY <1>8
  <2> QED
    BY ONLY <2>1, <2>2
<1>6. \A k \in 1 .. n : order[k][2] \in 1 .. m[order[k][1]]
  BY <1>3 DEF IsEndToEnd
<1>7. \A k \in 1 .. n : EndToEnd(f)[k].seq = order[k][1]
  BY <1>4, <1>5, <1>6
<1>9. \A q \in Reported(table) : \A i \in 1 .. m[q] : \E k \in 1 .. n : order[k] = <<q, i>>
  BY <1>3 DEF IsEndToEnd
<1>10. \A j, k \in 1 .. n : j < k <=> \/ order[j][1] < order[k][1]
                                      \/ /\ order[j][1] = order[k][1]
                                         /\ order[j][2] < order[k][2]
  BY <1>3 DEF IsEndToEnd
<1>11. IsReported(EndToEnd(f), f, m, table, n, order)
  BY <1>4, <1>5, <1>6, <1>7, <1>9, <1>10 DEF IsReported
<1> QED
  BY <1>11

(* The state the page is in: what it shows is what its script and the     *)
(* server make of the table and the clock, which stay.                    *)
IInv ==
  /\ IsTable(measured) /\ wall \in Walls
  /\ report # Nothing => report = Stats(measured, wall)
  /\ weeks # Nothing => report # Nothing /\ weeks = WeeksChart
  /\ trips # Nothing => report # Nothing /\ trips = TripsChart

(* A line stays what it is while the report does. *)
LEMMA LinesStay ==
  ASSUME report' = report
  PROVE  WeeksChart' = WeeksChart /\ TripsChart' = TripsChart
<1>1. WeeksChart' = WeeksChart
  BY DEF WeeksChart, WeekLine
<1>2. ASSUME NEW q PROVE TripLine(q)' = TripLine(q)
  <2> DEFINE mine == {k \in DOMAIN report.trips : report.trips[k].seq = q}
  <2> DEFINE point == [k \in mine |-> [x |-> report.trips[k].local,
                                       y |-> Minutes(report.trips[k].duration, 1), rank |-> k]]
  <2> DEFINE before == [k \in mine |-> {l \in mine : ByLocalTime(point[l], point[k])}]
  <2>1. mine' = mine
    OBVIOUS
  <2>2. point' = point
    BY <2>1
  <2>3. before' = before
    BY <2>1, <2>2
  <2>4. TripLine(q) = [i \in DOMAIN Ranked(before) |-> point[Ranked(before)[i]]]
    BY DEF TripLine
  <2>5. TripLine(q)' = [i \in DOMAIN Ranked(before') |-> point'[Ranked(before')[i]]]
    BY DEF TripLine
  <2> HIDE DEF point, before
  <2> QED
    BY <2>2, <2>3, <2>4, <2>5
<1>3. TripsChart' = TripsChart
  BY <1>2 DEF TripsChart
<1> QED
  BY <1>1, <1>3

(* Whatever the page shows is computed from the one report embedded in    *)
(* it, and the report from the table (Stats, stats-charts.js): IInv is    *)
(* inductive, and the properties of the page are consequences of it.      *)
LEMMA PageIsOfReport == Spec => []IInv
<1>1. Init => IInv
  BY DEF Init, IInv, IsTable
<1>2. IInv /\ [Next]_vars => IInv'
  <2> SUFFICES ASSUME IInv, [Next]_vars PROVE IInv'
    OBVIOUS
  <2>1. CASE ShowStats
    <3>1. /\ report = Nothing /\ report' = Stats(measured, wall)
          /\ measured' = measured /\ wall' = wall /\ weeks' = weeks /\ trips' = trips
      BY <2>1 DEF ShowStats
    <3>2. weeks = Nothing /\ trips = Nothing
      BY <3>1 DEF IInv
    <3> QED
      BY <3>1, <3>2 DEF IInv
  <2>2. CASE Draw
    <3>1. /\ report # Nothing /\ measured' = measured /\ wall' = wall /\ report' = report
          /\ weeks' = (IF report.weeks = <<>> THEN Nothing ELSE WeeksChart)
          /\ trips' = (IF report.trips = <<>> THEN Nothing ELSE TripsChart)
      BY <2>2 DEF Draw
    <3>2. WeeksChart' = WeeksChart /\ TripsChart' = TripsChart
      BY <3>1, LinesStay
    <3>4. weeks' # Nothing => weeks' = WeeksChart'
      BY <3>1, <3>2
    <3>5. trips' # Nothing => trips' = TripsChart'
      BY <3>1, <3>2
    <3> QED
      BY <3>1, <3>4, <3>5 DEF IInv
  <2>3. CASE UNCHANGED vars
    <3>1. /\ measured' = measured /\ wall' = wall /\ report' = report
          /\ weeks' = weeks /\ trips' = trips
      BY <2>3 DEF vars
    <3>2. WeeksChart' = WeeksChart /\ TripsChart' = TripsChart
      BY <3>1, LinesStay
    <3> QED
      BY <3>1, <3>2 DEF IInv
  <2> QED
    BY <2>1, <2>2, <2>3 DEF Next
<1> QED
  BY <1>1, <1>2, PTL DEF Spec

-----------------------------------------------------------------------------
(* The chart of trips *)

(* The trips of a report: the k-th is drive order[k][2] of stretch        *)
(* order[k][1].                                                           *)
TripsAre(r, table, clock, n, order) ==
  /\ n \in Nat /\ DOMAIN r.trips = 1 .. n
  /\ \A k \in 1 .. n :
       LET q == order[k][1]
           i == order[k][2]
           g == Segments(table, q)
       IN  /\ order[k] = <<q, i>> /\ q \in Reported(table)
           /\ i \in 1 .. Cardinality(DrivenOn(table, q))
           /\ r.trips[k].seq = q /\ r.trips[k].local = clock[g[i].at]
           /\ r.trips[k].duration = g[i].duration
           /\ r.trips[k].outlier = IsOutlier(g[i].duration, Summarise(Durations(g)))
  /\ \A q \in Reported(table) : \A i \in 1 .. Cardinality(DrivenOn(table, q)) :
       \E k \in 1 .. n : order[k] = <<q, i>>
  /\ \A j, k \in 1 .. n : j < k <=> \/ order[j][1] < order[k][1]
                                    \/ /\ order[j][1] = order[k][1]
                                       /\ order[j][2] < order[k][2]

(* The report has such trips. *)
LEMMA TripsReported ==
  ASSUME NEW table, IsTable(table), NEW clock, NEW r, r = Stats(table, clock)
  PROVE  \E n, order : TripsAre(r, table, clock, n, order)
<1> DEFINE f == [q \in Reported(table) |-> TripPoints(Segments(table, q), clock)]
<1> DEFINE m == [q \in Reported(table) |-> Cardinality(DrivenOn(table, q))]
<1>1. ASSUME NEW q \in Reported(table)
      PROVE  /\ m[q] = Cardinality(DrivenOn(table, q)) /\ m[q] \in Nat /\ DOMAIN f[q] = 1 .. m[q]
             /\ \A i \in 1 .. m[q] :
                  LET g == Segments(table, q)
                  IN  /\ f[q][i].seq = q /\ f[q][i].local = clock[g[i].at]
                      /\ f[q][i].duration = g[i].duration
                      /\ f[q][i].outlier = IsOutlier(g[i].duration, Summarise(Durations(g)))
  <2> DEFINE g == Segments(table, q)
  <2>1. AsDriven(g, m[q], table, q)
    BY SegmentsAreDriven
  <2>2. f[q] = [i \in DOMAIN g |->
                  [seq |-> g[i].seq, at |-> g[i].at, local |-> clock[g[i].at],
                   duration |-> g[i].duration,
                   outlier |-> IsOutlier(g[i].duration, Summarise(Durations(g)))]]
    BY DEF TripPoints
  <2>3. m[q] = Cardinality(DrivenOn(table, q))
    OBVIOUS
  <2> HIDE DEF g, f, m
  <2>4. DOMAIN g = 1 .. m[q] /\ m[q] \in Nat /\ \A i \in 1 .. m[q] : g[i].seq = q
    BY <2>1 DEF AsDriven
  <2>5. DOMAIN f[q] = 1 .. m[q]
        /\ \A i \in 1 .. m[q] : /\ f[q][i].seq = q /\ f[q][i].local = clock[g[i].at]
                                /\ f[q][i].duration = g[i].duration
                                /\ f[q][i].outlier = IsOutlier(g[i].duration, Summarise(Durations(g)))
    BY <2>2, <2>4
  <2> QED
    BY <2>3, <2>4, <2>5 DEF g
<1>2. DOMAIN f = Reported(table) /\ m \in [Reported(table) -> Nat]
  <2>1. \A q \in Reported(table) : Cardinality(DrivenOn(table, q)) \in Nat
    BY ReportedAreDriven
  <2> QED
    BY <2>1
<1>3. r.trips = EndToEnd(f)
  BY DEF Stats
<1> HIDE DEF f, m
<1>4. \A q \in Reported(table) :
        DOMAIN f[q] = 1 .. m[q] /\ \A i \in 1 .. m[q] : f[q][i].seq = q
  BY <1>1
<1>5. PICK n \in Nat : \E order : IsReported(EndToEnd(f), f, m, table, n, order)
  BY <1>2, <1>4, Reporting
<1>6. PICK order : IsReported(EndToEnd(f), f, m, table, n, order)
  BY <1>5
<1>7. ASSUME NEW k \in 1 .. n
      PROVE  LET q == order[k][1]
                 i == order[k][2]
                 g == Segments(table, q)
             IN  /\ order[k] = <<q, i>> /\ q \in Reported(table)
                 /\ i \in 1 .. Cardinality(DrivenOn(table, q))
                 /\ r.trips[k].seq = q /\ r.trips[k].local = clock[g[i].at]
                 /\ r.trips[k].duration = g[i].duration
                 /\ r.trips[k].outlier = IsOutlier(g[i].duration, Summarise(Durations(g)))
  <2> DEFINE q == order[k][1]
  <2> DEFINE i == order[k][2]
  <2>1. order[k] = <<q, i>> /\ q \in Reported(table) /\ i \in 1 .. m[q] /\ r.trips[k] = f[q][i]
    BY <1>3, <1>6 DEF IsReported
  <2> HIDE DEF q, i
  <2>2. /\ i \in 1 .. Cardinality(DrivenOn(table, q))
        /\ f[q][i].seq = q /\ f[q][i].local = clock[Segments(table, q)[i].at]
        /\ f[q][i].duration = Segments(table, q)[i].duration
        /\ f[q][i].outlier = IsOutlier(Segments(table, q)[i].duration,
                                       Summarise(Durations(Segments(table, q))))
    BY <1>1, <2>1
  <2> QED
    BY <2>1, <2>2 DEF q, i
<1>8. \A q \in Reported(table) : \A i \in 1 .. Cardinality(DrivenOn(table, q)) :
        \E k \in 1 .. n : order[k] = <<q, i>>
  BY <1>1, <1>6 DEF IsReported
<1>9. \A j, k \in 1 .. n : j < k <=> \/ order[j][1] < order[k][1]
                                     \/ /\ order[j][1] = order[k][1]
                                        /\ order[j][2] < order[k][2]
  BY <1>6 DEF IsReported
<1>10. DOMAIN r.trips = 1 .. n
  BY <1>3, <1>6 DEF IsReported
<1>11. TripsAre(r, table, clock, n, order)
  BY <1>7, <1>8, <1>9, <1>10 DEF TripsAre
<1> QED
  BY <1>11

(* The points of a stretch and, for each, those its line joins before. *)
MinePoints(q) == {k \in DOMAIN report.trips : report.trips[k].seq = q}

PointAt(k) == [x |-> report.trips[k].local, y |-> Minutes(report.trips[k].duration, 1), rank |-> k]

Joined(q) ==
  [k \in MinePoints(q) |-> {l \in MinePoints(q) : ByLocalTime(PointAt(l), PointAt(k))}]

(* A line joins its points in the order of their local times. *)
LEMMA LineJoinsPoints ==
  ASSUME IInv, report # Nothing, NEW q
  PROVE  /\ IsOrder(Joined(q)) /\ DOMAIN Joined(q) = MinePoints(q)
         /\ Ranked(Joined(q)) \in [1 .. Cardinality(MinePoints(q)) -> MinePoints(q)]
         /\ TripLine(q) = [i \in 1 .. Cardinality(MinePoints(q)) |-> PointAt(Ranked(Joined(q))[i])]
<1>1. IsTable(measured) /\ wall \in Walls /\ report = Stats(measured, wall)
  BY DEF IInv
<1>2. PICK n, order : TripsAre(report, measured, wall, n, order)
  BY <1>1, TripsReported
<1>3. n \in Nat /\ DOMAIN report.trips = 1 .. n
  BY <1>2 DEF TripsAre
<1>4. \A k \in 1 .. n : report.trips[k].local \in Int
  <2> SUFFICES ASSUME NEW k \in 1 .. n PROVE report.trips[k].local \in Int
    OBVIOUS
  <2>1. PICK p, i : /\ i \in 1 .. Cardinality(DrivenOn(measured, p))
                    /\ report.trips[k].local = wall[Segments(measured, p)[i].at]
    BY <1>2 DEF TripsAre
  <2>2. Segments(measured, p)[i].at \in Instants
    BY <1>1, <2>1, SegmentsAreDriven DEF AsDriven
  <2> QED
    BY <1>1, <2>1, <2>2, ChartsAssumptions
<1>5. IsFiniteSet(MinePoints(q)) /\ MinePoints(q) \subseteq 1 .. n
  <2>1. MinePoints(q) \in SUBSET (1 .. n)
    BY <1>3 DEF MinePoints
  <2>2. IsFiniteSet(1 .. n)
    BY <1>3, FS_Interval
  <2> QED
    BY <2>1, <2>2, FS_Subset
<1>6. \A k, l \in MinePoints(q) : l \in Joined(q)[k] <=>
        \/ report.trips[l].local < report.trips[k].local
        \/ report.trips[l].local = report.trips[k].local /\ l < k
  BY DEF Joined, ByLocalTime, PointAt
<1>10. DOMAIN Joined(q) = MinePoints(q)
       /\ \A k \in MinePoints(q) : Joined(q)[k] \subseteq MinePoints(q)
  BY DEF Joined
<1>7. IsOrder(Joined(q))
  <2>1. \A k \in MinePoints(q) : report.trips[k].local \in Int /\ k \in Int
    BY <1>4, <1>5
  <2>2. \A k \in MinePoints(q) : k \notin Joined(q)[k]
    BY <1>6, <2>1
  <2>3. \A k, l \in MinePoints(q) : k = l \/ k \in Joined(q)[l] \/ l \in Joined(q)[k]
    <3> SUFFICES ASSUME NEW k \in MinePoints(q), NEW l \in MinePoints(q)
                 PROVE  k = l \/ k \in Joined(q)[l] \/ l \in Joined(q)[k]
      OBVIOUS
    <3>1. PICK x \in Int, y \in Int : x = report.trips[k].local /\ y = report.trips[l].local
      BY <2>1
    <3>2. k \in Int /\ l \in Int
      BY <2>1
    <3>3. k = l \/ (x < y \/ (x = y /\ k < l)) \/ (y < x \/ (y = x /\ l < k))
      BY ONLY <3>2, x \in Int, y \in Int
    <3>4. /\ k \in Joined(q)[l] <=> (x < y \/ (x = y /\ k < l))
          /\ l \in Joined(q)[k] <=> (y < x \/ (y = x /\ l < k))
      BY <1>6, <3>1
    <3> QED
      BY ONLY <3>3, <3>4
  <2>4. \A j, k, l \in MinePoints(q) :
          j \in Joined(q)[k] /\ k \in Joined(q)[l] => j \in Joined(q)[l]
    <3> SUFFICES ASSUME NEW j \in MinePoints(q), NEW k \in MinePoints(q), NEW l \in MinePoints(q),
                        j \in Joined(q)[k], k \in Joined(q)[l]
                 PROVE  j \in Joined(q)[l]
      OBVIOUS
    <3>1. PICK x \in Int, y \in Int, z \in Int :
            x = report.trips[j].local /\ y = report.trips[k].local /\ z = report.trips[l].local
      BY <2>1
    <3>2. j \in Int /\ k \in Int /\ l \in Int
      BY <2>1
    <3>3. (x < y \/ (x = y /\ j < k)) /\ (y < z \/ (y = z /\ k < l))
      BY <1>6, <3>1
    <3>4. x < z \/ (x = z /\ j < l)
      BY ONLY <3>2, <3>3, x \in Int, y \in Int, z \in Int
    <3> QED
      BY <1>6, <3>1, <3>4
  <2>5. /\ DOMAIN Joined(q) = MinePoints(q) /\ IsFiniteSet(MinePoints(q))
        /\ \A k \in MinePoints(q) : Joined(q)[k] \subseteq MinePoints(q)
    BY <1>5, <1>10
  <2> QED
    BY ONLY <2>2, <2>3, <2>4, <2>5 DEF IsOrder
<1>8. Ranked(Joined(q)) \in [1 .. Cardinality(MinePoints(q)) -> MinePoints(q)]
  BY <1>7, <1>10, RankedLists
<1>9. TripLine(q) = [i \in DOMAIN Ranked(Joined(q)) |-> PointAt(Ranked(Joined(q))[i])]
  <2> DEFINE point == [k \in MinePoints(q) |-> PointAt(k)]
  <2>1. Joined(q) = [k \in MinePoints(q) |-> {l \in MinePoints(q) : ByLocalTime(point[l], point[k])}]
    BY DEF Joined
  <2>2. TripLine(q) = [i \in DOMAIN Ranked(Joined(q)) |-> point[Ranked(Joined(q))[i]]]
    <3>1. point = [k \in MinePoints(q) |->
                     [x |-> report.trips[k].local,
                      y |-> Minutes(report.trips[k].duration, 1), rank |-> k]]
      BY DEF PointAt
    <3> HIDE DEF point
    <3> QED
      BY <2>1, <3>1 DEF TripLine, MinePoints
  <2>3. \A k \in MinePoints(q) : point[k] = PointAt(k)
    OBVIOUS
  <2> HIDE DEF point
  <2> QED
    BY <1>8, <2>2, <2>3
<1> QED
  BY <1>7, <1>8, <1>9, <1>10

(* y hundredths of a minute, rounded from d tenths of a second, are told  *)
(* to within a second of what d is printed as.                            *)
LEMMA TooltipTells ==
  ASSUME NEW d \in Nat
  PROVE  LET tip == Tooltip(Minutes(d, 1))
             told == Printed(d)
         IN  Magnitude(InSeconds(tip) - InSeconds(told)) <= 1 /\ tip.s <= 59
<1> DEFINE y == (d + 3) \div 6
<1> DEFINE a == y \div 100
<1> DEFINE b == y % 100
<1> DEFINE s == (120 * b + 100) \div (2 * 100)
<1> DEFINE t == (d + 5) \div 10
<1>1. Minutes(d, 1) = y
  BY DEF Minutes
<1>2. Tooltip(Minutes(d, 1)) = [m |-> a, s |-> s]
  BY <1>1 DEF Tooltip, AxisLabel
<1>3. Printed(d) = [m |-> t \div 60, s |-> t % 60]
  BY DEF Printed
<1>4. /\ y \in Nat /\ 6 * y <= d + 3 /\ d + 3 < 6 * y + 6
      /\ t \in Nat /\ 10 * t <= d + 5 /\ d + 5 < 10 * t + 10
  OBVIOUS
<1> HIDE DEF y, t
<1>5. a \in Nat /\ b \in 0 .. 99 /\ y = 100 * a + b
  BY <1>4
<1>6. InSeconds(Printed(d)) = t
  BY <1>3, <1>4 DEF InSeconds
<1> HIDE DEF a, b
<1>7. s \in Nat /\ 200 * s <= 120 * b + 100 /\ 120 * b + 100 < 200 * s + 200
  BY <1>5
<1> HIDE DEF s
<1>8. InSeconds(Tooltip(Minutes(d, 1))) = 60 * a + s
  BY <1>2 DEF InSeconds
<1>9. s <= 59
  BY ONLY <1>5, <1>7
<1>10. 60 * a + s - t \in Int /\ 60 * a + s - t <= 1 /\ t - (60 * a + s) <= 1
  BY ONLY <1>4, <1>5, <1>7, d \in Nat
<1> DEFINE off == InSeconds(Tooltip(Minutes(d, 1))) - InSeconds(Printed(d))
<1>13. off \in Int /\ off <= 1 /\ -1 <= off
  BY <1>4, <1>5, <1>6, <1>7, <1>8, <1>10
<1> HIDE DEF off
<1>11. Magnitude(off) <= 1
  BY <1>13 DEF Magnitude
<1>12. Tooltip(Minutes(d, 1)).s = s
  BY <1>2
<1> QED
  BY ONLY <1>9, <1>11, <1>12 DEF off

(* The tooltip of a point tells the time of a drive as the tables would,  *)
(* to within a second, and never sixty seconds: the label callback of     *)
(* the chart of trips (stats-charts.js) and formatDuration (render.go).   *)
THEOREM TooltipsNearTable == Spec => []TooltipNearTable
<1>1. IInv => TooltipNearTable
  <2> SUFFICES ASSUME IInv, trips # Nothing,
                      NEW i \in DOMAIN trips, NEW k \in DOMAIN trips[i]
               PROVE  /\ Magnitude(InSeconds(Tooltip(trips[i][k].y))
                                   - InSeconds(Printed(report.trips[trips[i][k].rank].duration))) <= 1
                      /\ Tooltip(trips[i][k].y).s <= 59
    BY DEF TooltipNearTable
  <2>1. IsTable(measured) /\ report # Nothing /\ report = Stats(measured, wall) /\ trips = TripsChart
    BY DEF IInv
  <2> DEFINE q == report.segments[i].seq
  <2>2. trips[i] = TripLine(q)
    BY <2>1 DEF TripsChart
  <2> HIDE DEF q
  <2>3. PICK l \in MinePoints(q) : trips[i][k] = PointAt(l)
    <3>1. /\ Ranked(Joined(q)) \in [1 .. Cardinality(MinePoints(q)) -> MinePoints(q)]
          /\ trips[i] = [j \in 1 .. Cardinality(MinePoints(q)) |-> PointAt(Ranked(Joined(q))[j])]
      BY <2>1, <2>2, LineJoinsPoints
    <3>2. k \in 1 .. Cardinality(MinePoints(q)) /\ trips[i][k] = PointAt(Ranked(Joined(q))[k])
      BY <3>1
    <3> QED
      BY <3>1, <3>2
  <2>4. trips[i][k].rank = l /\ trips[i][k].y = Minutes(report.trips[l].duration, 1)
    BY <2>3 DEF PointAt
  <2>5. report.trips[l].duration \in Nat
    <3>1. PICK n, order : TripsAre(report, measured, wall, n, order)
      BY <2>1, TripsReported
    <3>2. l \in 1 .. n
      BY <3>1 DEF TripsAre, MinePoints
    <3>3. PICK p, j : /\ j \in 1 .. Cardinality(DrivenOn(measured, p))
                      /\ report.trips[l].duration = Segments(measured, p)[j].duration
      BY <3>1, <3>2 DEF TripsAre
    <3>4. AsDriven(Segments(measured, p), Cardinality(DrivenOn(measured, p)), measured, p)
      BY <2>1, SegmentsAreDriven
    <3> QED
      BY <3>3, <3>4 DEF AsDriven
  <2> QED
    BY <2>4, <2>5, TooltipTells
<1> QED
  BY <1>1, PageIsOfReport, PTL

(* The line of a stretch joins its drives in the order they were driven,  *)
(* each of them once, when no clock goes back: the sort of a data set of  *)
(* stats-charts.js after the grouping of Stats (service/stats.go).        *)
THEOREM LinesJoinedAsDriven == Spec => []JoinedAsDriven
<1>1. IInv => JoinedAsDriven
  <2> SUFFICES ASSUME IInv, trips # Nothing, Forward, NEW s \in DOMAIN report.segments
               PROVE  LET drove == Segments(measured, report.segments[s].seq)
                      IN  /\ Len(trips[s]) = Len(drove)
                          /\ \A k \in DOMAIN drove : trips[s][k].y = Minutes(drove[k].duration, 1)
    BY DEF JoinedAsDriven
  <2>1. IsTable(measured) /\ report # Nothing /\ report = Stats(measured, wall) /\ trips = TripsChart
    BY DEF IInv
  <2> DEFINE q == report.segments[s].seq
  <2> DEFINE g == Segments(measured, q)
  <2> DEFINE m == Cardinality(DrivenOn(measured, q))
  <2>2. trips[s] = TripLine(q)
    BY <2>1 DEF TripsChart
  <2>3. q \in Reported(measured)
    BY <2>1, StretchesReported
  <2> HIDE DEF q
  <2>4. AsDriven(g, m, measured, q)
    BY <2>1, SegmentsAreDriven
  <2>5. m \in Nat /\ DOMAIN g = 1 .. m /\ Len(g) = m
        /\ \A i, j \in 1 .. m : i < j => g[i].at \in Instants /\ g[j].at \in Instants /\ g[i].at < g[j].at
    BY <2>4 DEF AsDriven
  <2> HIDE DEF g, m
  <2>6. PICK n, order : TripsAre(report, measured, wall, n, order)
    BY <2>1, TripsReported
  <2> DEFINE p == [i \in 1 .. m |-> CHOOSE k \in 1 .. n : order[k] = <<q, i>>]
  <2>7. \A i \in 1 .. m : p[i] \in 1 .. n /\ order[p[i]] = <<q, i>>
    <3>1. \A i \in 1 .. m : \E k \in 1 .. n : order[k] = <<q, i>>
      BY <2>3, <2>6 DEF TripsAre, m
    <3> QED
      BY <3>1
  <2>8. \A i \in 1 .. m : /\ p[i] \in MinePoints(q)
                          /\ report.trips[p[i]].local = wall[g[i].at]
                          /\ report.trips[p[i]].duration = g[i].duration
    <3> HIDE DEF p
    <3> SUFFICES ASSUME NEW i \in 1 .. m
                 PROVE  /\ p[i] \in MinePoints(q)
                        /\ report.trips[p[i]].local = wall[g[i].at]
                        /\ report.trips[p[i]].duration = g[i].duration
      OBVIOUS
    <3>1. p[i] \in 1 .. n /\ order[p[i]][1] = q /\ order[p[i]][2] = i
      BY <2>7
    <3>2. \A k \in 1 .. n :
            /\ k \in DOMAIN report.trips /\ report.trips[k].seq = order[k][1]
            /\ report.trips[k].local = wall[Segments(measured, order[k][1])[order[k][2]].at]
            /\ report.trips[k].duration = Segments(measured, order[k][1])[order[k][2]].duration
      BY <2>6 DEF TripsAre
    <3> QED
      BY <3>1, <3>2 DEF MinePoints, g
  <2>9. p \in [1 .. m -> MinePoints(q)]
    BY <2>8
  <2> HIDE DEF p
  <2>10. \A k \in MinePoints(q) : \E i \in 1 .. m : p[i] = k
    <3> SUFFICES ASSUME NEW k \in MinePoints(q) PROVE \E i \in 1 .. m : p[i] = k
      OBVIOUS
    <3>1. k \in 1 .. n /\ report.trips[k].seq = q
      BY <2>6 DEF TripsAre, MinePoints
    <3>2. /\ order[k] = <<order[k][1], order[k][2]>> /\ order[k][1] = q
          /\ order[k][2] \in 1 .. Cardinality(DrivenOn(measured, q))
      BY <2>6, <3>1 DEF TripsAre
    <3>3. PICK i \in 1 .. m : order[k] = <<q, i>>
      BY <3>2 DEF m
    <3>4. p[i] \in 1 .. n /\ order[p[i]] = <<q, i>>
      BY <2>7
    <3>5. k = p[i]
      <4>1. order[k][1] = order[p[i]][1] /\ order[k][2] = order[p[i]][2] /\ order[k][1] \in Int
            /\ order[k][2] \in Int
        <5>1. q \in Int /\ i \in Int
          BY <2>1, <2>3, ReportedAreDriven
        <5> QED
          BY <3>3, <3>4, <5>1
      <4>2. ~ (k < p[i]) /\ ~ (p[i] < k)
        BY <2>6, <3>1, <3>4, <4>1 DEF TripsAre
      <4>3. k \in Int /\ p[i] \in Int
        <5>1. n \in Nat
          BY <2>6 DEF TripsAre
        <5> QED
          BY <3>1, <3>4, <5>1
      <4> QED
        BY ONLY <4>2, <4>3
    <3> QED
      BY <3>5
  <2>11. \A i, j \in 1 .. m : i < j => p[i] \in Joined(q)[p[j]]
    <3> SUFFICES ASSUME NEW i \in 1 .. m, NEW j \in 1 .. m, i < j
                 PROVE  p[i] \in Joined(q)[p[j]]
      OBVIOUS
    <3>1. wall[g[i].at] < wall[g[j].at]
      BY <2>5 DEF Forward
    <3>2. report.trips[p[i]].local < report.trips[p[j]].local
      BY <2>8, <3>1
    <3>3. p[i] \in MinePoints(q) /\ p[j] \in MinePoints(q)
      BY <2>8
    <3>4. ByLocalTime(PointAt(p[i]), PointAt(p[j]))
      BY <3>2 DEF ByLocalTime, PointAt
    <3> QED
      BY <3>3, <3>4 DEF Joined
  <2>12. IsOrder(Joined(q)) /\ DOMAIN Joined(q) = MinePoints(q)
    BY <2>1, LineJoinsPoints
  <2>13. m = Cardinality(MinePoints(q)) /\ p = Ranked(Joined(q))
    BY <2>5, <2>9, <2>10, <2>11, <2>12, RankedIsTheList
  <2>14. trips[s] = [i \in 1 .. m |-> PointAt(p[i])]
    BY <2>1, <2>2, <2>13, LineJoinsPoints
  <2>15. Len(trips[s]) = m
    BY <2>5, <2>14
  <2>16. \A k \in 1 .. m : trips[s][k].y = Minutes(g[k].duration, 1)
    BY <2>8, <2>14 DEF PointAt
  <2> QED
    BY <2>5, <2>15, <2>16 DEF g, q
<1> QED
  BY <1>1, PageIsOfReport, PTL

-----------------------------------------------------------------------------
(* The summaries *)

(* The durations of a stretch are a list that can be summarised. *)
LEMMA DurationsAreValues ==
  ASSUME NEW table, IsTable(table), NEW q \in Reported(table)
  PROVE  LET g == Segments(table, q)
             m == Cardinality(DrivenOn(table, q))
         IN  /\ m \in Nat \ {0} /\ Durations(g) \in [1 .. m -> Int]
             /\ \A i \in 1 .. m : Durations(g)[i] = g[i].duration
<1> DEFINE g == Segments(table, q)
<1> DEFINE m == Cardinality(DrivenOn(table, q))
<1>1. AsDriven(g, m, table, q) /\ m \in Nat \ {0}
  BY SegmentsAreDriven, ReportedAreDriven
<1> HIDE DEF g, m
<1>2. DOMAIN g = 1 .. m /\ \A i \in 1 .. m : g[i].duration \in Int
  <2>1. DOMAIN g = 1 .. m /\ \A i \in 1 .. m : g[i].duration \in Nat
    BY <1>1 DEF AsDriven
  <2> QED
    BY <2>1
<1>3. Durations(g) = [i \in 1 .. m |-> g[i].duration]
  BY <1>2 DEF Durations
<1>4. Durations(g) \in [1 .. m -> Int] /\ \A i \in 1 .. m : Durations(g)[i] = g[i].duration
  BY <1>2, <1>3
<1> QED
  BY <1>1, <1>4 DEF g, m

(* A median has at most half of the measurements on either side of it and *)
(* the other percentiles in order around it, and fewer than half of the   *)
(* measurements are called unusual: Summarise, IsOutlier (stats.go).      *)
THEOREM MediansAlwaysHalve == Spec => []MediansHalve
<1>1. IInv => MediansHalve
  <2> SUFFICES ASSUME IInv, report # Nothing, NEW x \in DOMAIN report.segments
               PROVE  LET s == report.segments[x].summary
                          q == report.segments[x].seq
                          unusual == {k \in DOMAIN report.trips :
                                        report.trips[k].seq = q /\ report.trips[k].outlier}
                          times == {at \in Instants :
                                      <<q, at>> \in Drives /\ measured[<<q, at>>] # None}
                          time(at) == 2 * measured[<<q, at>>]
                      IN  /\ 2 * Cardinality(unusual) < s.count
                          /\ 2 * Cardinality({at \in times : time(at) < s.median2}) <= s.count
                          /\ 2 * Cardinality({at \in times : time(at) > s.median2}) <= s.count
                          /\ 4 * s.min <= s.p25in4 /\ s.p25in4 <= 2 * s.median2
                          /\ 2 * s.median2 <= s.p75in4 /\ 10 * s.p75in4 <= 4 * s.p90in10
                          /\ s.p90in10 <= 10 * s.max
    BY DEF MediansHalve
  <2>1. IsTable(measured) /\ report = Stats(measured, wall)
    BY DEF IInv
  <2> DEFINE q == report.segments[x].seq
  <2> DEFINE s == report.segments[x].summary
  <2> DEFINE g == Segments(measured, q)
  <2> DEFINE m == Cardinality(DrivenOn(measured, q))
  <2> DEFINE values == Durations(g)
  <2>2. q \in Reported(measured) /\ report.segments[x] = Stretch(g)
    BY <2>1, StretchesReported
  <2>3. s = Summarise(values)
    BY <2>2 DEF Stretch
  <2>4. AsDriven(g, m, measured, q)
    BY <2>1, SegmentsAreDriven
  <2>5. /\ m \in Nat \ {0} /\ values \in [1 .. m -> Int]
        /\ \A i \in 1 .. m : values[i] = g[i].duration
    BY <2>1, <2>2, DurationsAreValues
  <2>6. PICK n, order : TripsAre(report, measured, wall, n, order)
    BY <2>1, TripsReported
  <2> DEFINE times == {at \in Instants : <<q, at>> \in Drives /\ measured[<<q, at>>] # None}
  <2> DEFINE below == {at \in times : 2 * measured[<<q, at>>] < s.median2}
  <2> DEFINE above == {at \in times : 2 * measured[<<q, at>>] > s.median2}
  <2> DEFINE unusual == {k \in DOMAIN report.trips :
                           report.trips[k].seq = q /\ report.trips[k].outlier}
  <2>7. times = DrivenOn(measured, q)
    BY DEF DrivenOn
  <2>8. /\ \A at \in below : at \in times /\ 2 * measured[<<q, at>>] < s.median2
        /\ \A at \in above : at \in times /\ 2 * measured[<<q, at>>] > s.median2
        /\ \A k \in unusual : k \in DOMAIN report.trips /\ report.trips[k].seq = q
                              /\ report.trips[k].outlier
    OBVIOUS
  <2> HIDE DEF q, s, m, times, below, above, unusual
  <2>9. \A at \in times : \E i \in 1 .. m : g[i].at = at /\ values[i] = measured[<<q, at>>]
    <3> SUFFICES ASSUME NEW at \in times
                 PROVE  \E i \in 1 .. m : g[i].at = at /\ values[i] = measured[<<q, at>>]
      OBVIOUS
    <3> HIDE DEF g
    <3>1. PICK i \in 1 .. m : g[i].at = at
      BY <2>4, <2>7 DEF AsDriven
    <3>2. g[i].duration = measured[<<q, g[i].at>>]
      BY <2>4 DEF AsDriven
    <3> QED
      BY <2>5, <3>1, <3>2
  <2> DEFINE fast == Under(values, m, s)
  <2> DEFINE slow == Over(values, m, s)
  <2> DEFINE odd == Unusual(values, m, s)
  <2> HIDE DEF values
  <2>10. /\ s.count = m
         /\ 4 * s.min <= s.p25in4 /\ s.p25in4 <= 2 * s.median2
         /\ 2 * s.median2 <= s.p75in4 /\ 10 * s.p75in4 <= 4 * s.p90in10
         /\ s.p90in10 <= 10 * s.max
         /\ 2 * Cardinality(fast) <= m /\ 2 * Cardinality(slow) <= m /\ 2 * Cardinality(odd) < m
    BY <2>3, <2>5, SummaryHalves DEF Halves
  <2>11. /\ IsFiniteSet(fast) /\ IsFiniteSet(slow) /\ IsFiniteSet(odd)
         /\ Cardinality(fast) \in Nat /\ Cardinality(slow) \in Nat /\ Cardinality(odd) \in Nat
    <3>1. fast \in SUBSET (1 .. m) /\ slow \in SUBSET (1 .. m) /\ odd \in SUBSET (1 .. m)
      BY DEF Under, Over, Unusual
    <3>2. IsFiniteSet(1 .. m)
      BY <2>5, FS_Interval
    <3> HIDE DEF fast, slow, odd
    <3>3. IsFiniteSet(fast) /\ IsFiniteSet(slow) /\ IsFiniteSet(odd)
      BY ONLY <3>1, <3>2, FS_Subset
    <3> QED
      BY ONLY <3>3, FS_CardinalityType
  <2>12. 2 * Cardinality(below) <= s.count
    <3> DEFINE b == [i \in 1 .. m |-> g[i].at]
    <3>1. \A at \in below : \E i \in fast : b[i] = at
      BY <2>8, <2>9 DEF Under
    <3> HIDE DEF b, fast
    <3>2. IsFiniteSet(below) /\ Cardinality(below) <= Cardinality(fast)
      BY ONLY <2>11, <3>1, CoveredBy
    <3>3. Cardinality(below) \in Nat
      BY ONLY <3>2, FS_CardinalityType
    <3> QED
      BY ONLY <2>5, <2>10, <2>11, <3>2, <3>3
  <2>13. 2 * Cardinality(above) <= s.count
    <3> DEFINE b == [i \in 1 .. m |-> g[i].at]
    <3>1. \A at \in above : \E i \in slow : b[i] = at
      BY <2>8, <2>9 DEF Over
    <3> HIDE DEF b, slow
    <3>2. IsFiniteSet(above) /\ Cardinality(above) <= Cardinality(slow)
      BY ONLY <2>11, <3>1, CoveredBy
    <3>3. Cardinality(above) \in Nat
      BY ONLY <3>2, FS_CardinalityType
    <3> QED
      BY ONLY <2>5, <2>10, <2>11, <3>2, <3>3
  <2>14. 2 * Cardinality(unusual) < s.count
    <3> DEFINE b == [i \in 1 .. m |-> CHOOSE k \in 1 .. n : order[k] = <<q, i>>]
    <3>1. \A k \in unusual : \E i \in odd : b[i] = k
      <4> SUFFICES ASSUME NEW k \in unusual PROVE \E i \in odd : b[i] = k
        OBVIOUS
      <4>1. k \in 1 .. n /\ report.trips[k].seq = q /\ report.trips[k].outlier
        BY <2>6, <2>8 DEF TripsAre
      <4>2. /\ order[k] = <<order[k][1], order[k][2]>> /\ order[k][1] = q
            /\ order[k][2] \in 1 .. Cardinality(DrivenOn(measured, order[k][1]))
            /\ report.trips[k].outlier
                 = IsOutlier(Segments(measured, order[k][1])[order[k][2]].duration,
                             Summarise(Durations(Segments(measured, order[k][1]))))
        BY <2>6, <4>1 DEF TripsAre
      <4>3. PICK i \in 1 .. m : order[k] = <<q, i>>
        BY <4>2 DEF m
      <4>4. order[k][2] = i
        BY <4>3
      <4>5. IsOutlier(values[i], s)
        BY <2>3, <2>5, <4>1, <4>2, <4>4 DEF values
      <4>6. \A l \in 1 .. n : order[l] = <<q, i>> => l = k
        <5> SUFFICES ASSUME NEW l \in 1 .. n, order[l] = <<q, i>> PROVE l = k
          OBVIOUS
        <5>1. q \in Int /\ i \in Int
          BY <2>1, <2>2, ReportedAreDriven
        <5>2. /\ order[l][1] = order[k][1] /\ order[l][2] = order[k][2]
              /\ order[k][1] = q /\ order[k][2] = i
          BY <4>3
        <5>3. ~ (l < k) /\ ~ (k < l)
          BY <2>6, <4>1, <5>1, <5>2 DEF TripsAre
        <5>4. l \in Int /\ k \in Int
          <6>1. n \in Nat
            BY <2>6 DEF TripsAre
          <6> QED
            BY <4>1, <6>1
        <5> QED
          BY ONLY <5>3, <5>4
      <4>7. b[i] = k
        BY <4>1, <4>3, <4>6
      <4> HIDE DEF b
      <4> QED
        BY <4>5, <4>7 DEF Unusual
    <3> HIDE DEF b, odd
    <3>2. IsFiniteSet(unusual) /\ Cardinality(unusual) <= Cardinality(odd)
      BY ONLY <2>11, <3>1, CoveredBy
    <3>3. Cardinality(unusual) \in Nat
      BY ONLY <3>2, FS_CardinalityType
    <3> QED
      BY ONLY <2>5, <2>10, <2>11, <3>2, <3>3
  <2> QED
    BY <2>10, <2>12, <2>13, <2>14 DEF q, s, times, below, above, unusual
<1> QED
  BY <1>1, PageIsOfReport, PTL

(* What was driven in an hour, or in a week, of those listed is something. *)
LEMMA HoursAndWeeks ==
  ASSUME NEW table, IsTable(table), NEW q \in Reported(table),
         NEW g, g = Segments(table, q)
  PROVE  /\ IsFiniteSet(Hours(g)) /\ Hours(g) \subseteq Int
         /\ IsFiniteSet(Weeks(g)) /\ Weeks(g) \subseteq Int
         /\ g[1].seq = q
         /\ \A h \in Hours(g) : \E n \in Nat \ {0} :
              Len(InHour(g, h)) = n /\ InHour(g, h) \in [1 .. n -> Int]
         /\ \A w \in Weeks(g) : \E n \in Nat \ {0} :
              /\ Len(InWeek(g, w)) = n /\ InWeek(g, w) \in [1 .. n -> Int]
              /\ \A k \in 1 .. n : \E t \in DrivenOn(table, q) :
                   WeekOf[t] = w /\ InWeek(g, w)[k] = table[<<q, t>>]
         /\ \A w : w \in Weeks(g) <=> \E t \in DrivenOn(table, q) : WeekOf[t] = w
<1> DEFINE m == Cardinality(DrivenOn(table, q))
<1>1. AsDriven(g, m, table, q) /\ m \in Nat \ {0}
  BY SegmentsAreDriven, ReportedAreDriven
<1>2. /\ Durations(g) \in [1 .. m -> Int]
      /\ \A i \in 1 .. m : Durations(g)[i] = g[i].duration
  BY DurationsAreValues
<1> HIDE DEF m
<1>3. DOMAIN g = 1 .. m /\ IsFiniteSet(1 .. m)
  BY <1>1, FS_Interval DEF AsDriven
<1>4. \A i \in 1 .. m : g[i].seq = q /\ g[i].at \in Instants /\ g[i].at \in DrivenOn(table, q)
                        /\ g[i].duration = table[<<q, g[i].at>>]
  BY <1>1 DEF AsDriven
<1>5. \A i \in 1 .. m : HourOf[g[i].at] \in Int /\ WeekOf[g[i].at] \in Int
  BY <1>4, DrivesAreOrdered
<1>6. IsFiniteSet(Hours(g)) /\ Hours(g) \subseteq Int
  <2> DEFINE f == [i \in 1 .. m |-> HourOf[g[i].at]]
  <2>1. DOMAIN f = 1 .. m /\ Hours(g) = Range(f)
    BY <1>3 DEF Hours, Range
  <2>2. Hours(g) \subseteq Int
    BY <1>3, <1>5 DEF Hours
  <2> HIDE DEF f
  <2> QED
    BY <1>3, <2>1, <2>2, ImageIsFinite
<1>7. IsFiniteSet(Weeks(g)) /\ Weeks(g) \subseteq Int
  <2> DEFINE f == [i \in 1 .. m |-> WeekOf[g[i].at]]
  <2>1. DOMAIN f = 1 .. m /\ Weeks(g) = Range(f)
    BY <1>3 DEF Weeks, Range
  <2>2. Weeks(g) \subseteq Int
    BY <1>3, <1>5 DEF Weeks
  <2> HIDE DEF f
  <2> QED
    BY <1>3, <2>1, <2>2, ImageIsFinite
<1>8. ASSUME NEW I, I \in SUBSET (1 .. m), I # {}
      PROVE  Cardinality(I) \in Nat \ {0}
             /\ Takes(Taking(Durations(g), I), Durations(g), I, Cardinality(I))
  <2>1. IsFiniteSet(I) /\ I \subseteq Int /\ \A i \in I : Durations(g)[i] \in Int
    <3>1. IsFiniteSet(I)
      BY <1>3, <1>8, FS_Subset
    <3> QED
      BY <1>2, <1>8, <3>1
  <2>2. Takes(Taking(Durations(g), I), Durations(g), I, Cardinality(I))
    BY <2>1, TakingLists
  <2>3. Cardinality(I) \in Nat \ {0}
    BY <1>8, <2>2 DEF Takes
  <2> QED
    BY <2>2, <2>3
<1>9. ASSUME NEW h \in Hours(g)
      PROVE  \E n \in Nat \ {0} : Len(InHour(g, h)) = n /\ InHour(g, h) \in [1 .. n -> Int]
  <2> DEFINE I == {i \in DOMAIN g : HourOf[g[i].at] = h}
  <2>1. I \in SUBSET (1 .. m) /\ I # {}
    BY <1>3 DEF Hours
  <2>2. InHour(g, h) = Taking(Durations(g), I)
    BY DEF InHour
  <2> HIDE DEF I
  <2>3. Cardinality(I) \in Nat \ {0} /\ Takes(InHour(g, h), Durations(g), I, Cardinality(I))
    BY <1>8, <2>1, <2>2
  <2>4. /\ Len(InHour(g, h)) = Cardinality(I)
        /\ InHour(g, h) \in [1 .. Cardinality(I) -> Int]
    BY <2>3 DEF Takes
  <2> QED
    BY <2>3, <2>4
<1>10. ASSUME NEW w \in Weeks(g)
       PROVE  \E n \in Nat \ {0} :
                /\ Len(InWeek(g, w)) = n /\ InWeek(g, w) \in [1 .. n -> Int]
                /\ \A k \in 1 .. n : \E t \in DrivenOn(table, q) :
                     WeekOf[t] = w /\ InWeek(g, w)[k] = table[<<q, t>>]
  <2> DEFINE I == {i \in DOMAIN g : WeekOf[g[i].at] = w}
  <2> DEFINE n == Cardinality(I)
  <2>1. I \in SUBSET (1 .. m) /\ I # {}
    BY <1>3 DEF Weeks
  <2>2. InWeek(g, w) = Taking(Durations(g), I)
    BY DEF InWeek
  <2>3. \A i \in I : WeekOf[g[i].at] = w
    OBVIOUS
  <2> HIDE DEF I
  <2>4. n \in Nat \ {0} /\ Takes(InWeek(g, w), Durations(g), I, n)
    BY <1>8, <2>1, <2>2
  <2> HIDE DEF n
  <2>5. /\ Len(InWeek(g, w)) = n /\ InWeek(g, w) \in [1 .. n -> Int]
        /\ \A k \in 1 .. n : \E i \in I : InWeek(g, w)[k] = Durations(g)[i]
    BY <2>4 DEF Takes
  <2>6. ASSUME NEW k \in 1 .. n
        PROVE  \E t \in DrivenOn(table, q) : WeekOf[t] = w /\ InWeek(g, w)[k] = table[<<q, t>>]
    <3>1. PICK i \in I : InWeek(g, w)[k] = Durations(g)[i]
      BY <2>5
    <3>2. i \in 1 .. m
      BY <2>1
    <3>3. /\ g[i].at \in DrivenOn(table, q) /\ WeekOf[g[i].at] = w
          /\ InWeek(g, w)[k] = table[<<q, g[i].at>>]
      BY <1>2, <1>4, <2>3, <3>1, <3>2
    <3> QED
      BY <3>3
  <2> QED
    BY <2>4, <2>5, <2>6
<1>11. \A w : w \in Weeks(g) <=> \E t \in DrivenOn(table, q) : WeekOf[t] = w
  <2>1. \A t \in DrivenOn(table, q) : \E i \in 1 .. m : g[i].at = t
    BY <1>1 DEF AsDriven
  <2>2. \A w : w \in Weeks(g) <=> \E i \in 1 .. m : WeekOf[g[i].at] = w
    BY <1>3 DEF Weeks
  <2> QED
    BY <1>4, <2>1, <2>2
<1>12. g[1].seq = q
  <2>1. 1 \in 1 .. m
    BY <1>1
  <2> QED
    BY <1>4, <2>1
<1> QED
  BY <1>6, <1>7, <1>9, <1>10, <1>11, <1>12

(* The best hour is the fastest of those with enough measurements, unless *)
(* one of them takes no time.                                             *)
LEMMA BestIsFastest ==
  ASSUME NEW table, IsTable(table), NEW q \in Reported(table),
         NEW g, g = Segments(table, q)
  PROVE  LET median2(h) == Summarise(InHour(g, h)).median2
             believed == {h \in Hours(g) : ~ (Summarise(InHour(g, h)).count < MinSamples)}
         IN  IF believed = {} THEN Best(g) = 0
             ELSE (\A h \in believed : median2(h) # 0) =>
                    /\ \A h \in believed : median2(h) >= Best(g)
                    /\ \E h \in believed : median2(h) = Best(g)
<1> DEFINE enough == {h \in Hours(g) : Enough(InHour(g, h))}
<1> DEFINE believed == {h \in Hours(g) : ~ (Summarise(InHour(g, h)).count < MinSamples)}
<1> DEFINE median2 == [h \in enough |-> Summarise(InHour(g, h)).median2]
<1> DEFINE medians == {median2[h] : h \in enough}
<1> DEFINE afresh == {h \in enough : \A k \in enough : median2[k] = 0 => k < h}
<1>1. ASSUME NEW h \in Hours(g)
      PROVE  /\ Summarise(InHour(g, h)).median2 \in Int
             /\ Enough(InHour(g, h)) <=> ~ (Summarise(InHour(g, h)).count < MinSamples)
  <2> DEFINE v == InHour(g, h)
  <2> DEFINE s == Summarise(v)
  <2>1. PICK n \in Nat \ {0} : Len(v) = n /\ v \in [1 .. n -> Int]
    BY HoursAndWeeks
  <2>2. s = Summarise(v)
    OBVIOUS
  <2> HIDE DEF v, s
  <2>3. s.count = n /\ \E i, j \in 1 .. n : s.median2 = v[i] + v[j]
    <3>1. Halves(s, v, n)
      BY <2>1, <2>2, SummaryHalves
    <3> QED
      BY <3>1 DEF Halves
  <2>4. s.median2 \in Int
    BY <2>1, <2>3
  <2>5. Enough(v) <=> ~ (s.count < MinSamples)
    BY <2>1, <2>3, ReportAssumptions DEF Enough
  <2> QED
    BY <2>4, <2>5 DEF v, s
<1>2. enough = believed
  BY <1>1
<1>3. IsFiniteSet(medians) /\ medians \subseteq Int
  <2>1. enough \in SUBSET Hours(g) /\ IsFiniteSet(Hours(g))
    BY HoursAndWeeks
  <2>2. \A h \in enough : median2[h] \in Int
    BY <1>1
  <2>3. DOMAIN median2 = enough /\ medians = Range(median2)
    BY DEF Range
  <2> HIDE DEF enough, median2
  <2>4. IsFiniteSet(enough)
    BY <2>1, FS_Subset
  <2> QED
    BY <2>2, <2>3, <2>4, ImageIsFinite
<1>4. Best(g) = IF afresh = {} THEN 0 ELSE Min({median2[h] : h \in afresh})
  BY DEF Best
<1>5. \A h \in enough : median2[h] = Summarise(InHour(g, h)).median2
  OBVIOUS
<1>6. CASE believed = {}
  <2>1. afresh = {}
    BY <1>2, <1>6
  <2> HIDE DEF afresh
  <2> QED
    BY <1>4, <1>6, <2>1
<1>7. ASSUME believed # {}, \A h \in believed : Summarise(InHour(g, h)).median2 # 0
      PROVE  /\ \A h \in believed : Summarise(InHour(g, h)).median2 >= Best(g)
             /\ \E h \in believed : Summarise(InHour(g, h)).median2 = Best(g)
  <2>0. afresh = enough
    <3>1. \A h \in enough : median2[h] # 0
      BY <1>2, <1>5, <1>7
    <3> HIDE DEF median2
    <3> QED
      BY <3>1
  <2>9. {median2[h] : h \in afresh} = medians /\ (afresh = {} <=> enough = {})
    BY <2>0
  <2>10. Best(g) = IF enough = {} THEN 0 ELSE Min(medians)
    <3> HIDE DEF medians, afresh
    <3> QED
      BY <1>4, <2>9
  <2>1. enough # {} /\ medians # {} /\ \A x : x \in medians <=> \E h \in enough : median2[h] = x
    BY <1>2, <1>7
  <2> HIDE DEF medians, median2, enough, afresh
  <2>2. Best(g) \in medians /\ \A x \in medians : Best(g) <= x
    BY <1>3, <2>1, <2>10, MinAndMax
  <2>3. PICK h \in enough : median2[h] = Best(g)
    BY <2>1, <2>2
  <2>4. \A k \in enough : median2[k] \in Int /\ Best(g) <= median2[k]
    BY <1>3, <2>1, <2>2
  <2>5. Best(g) \in Int
    BY <1>3, <2>2
  <2>6. \A k \in believed : Summarise(InHour(g, k)).median2 >= Best(g)
    BY <1>2, <1>5, <2>4, <2>5
  <2>7. \E k \in believed : Summarise(InHour(g, k)).median2 = Best(g)
    BY <1>2, <1>5, <2>3
  <2> QED
    BY <2>6, <2>7
<1> QED
  BY <1>6, <1>7

(* The fastest of the hours with enough measurements is the one all hours *)
(* of the stretch are compared with, and there is none without: the       *)
(* baseline of hourCells (service/stats.go), as long as no median is 0.   *)
THEOREM BaselineIsBelievable == Spec => []BelievableBaseline
<1>1. IInv => BelievableBaseline
  <2> SUFFICES ASSUME IInv, report # Nothing, NEW q \in Reported(measured)
               PROVE  LET of       == {k \in DOMAIN report.hours : report.hours[k].seq = q}
                          believed == {k \in of : ~ report.hours[k].sparse}
                      IN  IF believed = {} THEN \A k \in of : report.hours[k].best2 = 0
                          ELSE (\A k \in believed : report.hours[k].median2 # 0) =>
                                 /\ \A k \in believed : report.hours[k].median2 >= report.hours[k].best2
                                 /\ \E k \in believed : report.hours[k].median2 = report.hours[k].best2
    BY DEF BelievableBaseline
  <2>1. IsTable(measured) /\ report = Stats(measured, wall)
    BY DEF IInv
  <2> DEFINE f == [p \in Reported(measured) |-> HourCells(Segments(measured, p))]
  <2> DEFINE m == [p \in Reported(measured) |-> Cardinality(Hours(Segments(measured, p)))]
  <2> DEFINE g == Segments(measured, q)
  <2> DEFINE hours == Ascending(Hours(g))
  <2>2. ASSUME NEW p \in Reported(measured)
        PROVE  /\ m[p] \in Nat /\ DOMAIN f[p] = 1 .. m[p]
               /\ Ascending(Hours(Segments(measured, p))) \in [1 .. m[p] -> Hours(Segments(measured, p))]
               /\ \A h \in Hours(Segments(measured, p)) :
                    \E i \in 1 .. m[p] : Ascending(Hours(Segments(measured, p)))[i] = h
               /\ \A i \in 1 .. m[p] :
                    LET h == Ascending(Hours(Segments(measured, p)))[i]
                        s == Summarise(InHour(Segments(measured, p), h))
                    IN  /\ f[p][i].seq = p /\ f[p][i].hour = h /\ f[p][i].median2 = s.median2
                        /\ f[p][i].best2 = Best(Segments(measured, p))
                        /\ f[p][i].sparse = (s.count < MinSamples)
    <3> DEFINE l == Segments(measured, p)
    <3> DEFINE a == Ascending(Hours(l))
    <3> DEFINE c == m[p]
    <3>1. IsFiniteSet(Hours(l)) /\ Hours(l) \subseteq Int /\ l[1].seq = p
      BY <2>1, HoursAndWeeks
    <3>2. f[p] = HourCells(l) /\ m[p] = Cardinality(Hours(l))
      OBVIOUS
    <3> HIDE DEF f, m, l
    <3>3. /\ c \in Nat /\ a \in [1 .. c -> Hours(l)]
          /\ \A h \in Hours(l) : \E i \in 1 .. c : a[i] = h
      BY <3>1, <3>2, AscendingLists
    <3>4. HourCells(l) = [k \in DOMAIN a |->
             [seq |-> l[1].seq, hour |-> a[k], median2 |-> Summarise(InHour(l, a[k])).median2,
              best2 |-> Best(l), sparse |-> Summarise(InHour(l, a[k])).count < MinSamples]]
      BY DEF HourCells
    <3> HIDE DEF a, c
    <3>5. DOMAIN f[p] = 1 .. c
          /\ \A i \in 1 .. c :
               /\ f[p][i].seq = p /\ f[p][i].hour = a[i]
               /\ f[p][i].median2 = Summarise(InHour(l, a[i])).median2
               /\ f[p][i].best2 = Best(l)
               /\ f[p][i].sparse = (Summarise(InHour(l, a[i])).count < MinSamples)
      BY <3>1, <3>2, <3>3, <3>4
    <3> QED
      BY <3>3, <3>5 DEF a, c, l
  <2>3. report.hours = EndToEnd(f)
    BY <2>1 DEF Stats
  <2>4. DOMAIN f = Reported(measured) /\ m \in [Reported(measured) -> Nat]
    <3>1. \A p \in Reported(measured) : Cardinality(Hours(Segments(measured, p))) \in Nat
      BY <2>2
    <3> QED
      BY <3>1
  <2> HIDE DEF f, m
  <2>5. \A p \in Reported(measured) :
          DOMAIN f[p] = 1 .. m[p] /\ \A i \in 1 .. m[p] : f[p][i].seq = p
    BY <2>2
  <2>6. PICK n \in Nat : \E order : IsReported(report.hours, f, m, measured, n, order)
    BY <2>1, <2>3, <2>4, <2>5, Reporting
  <2>7. PICK order : IsReported(report.hours, f, m, measured, n, order)
    BY <2>6
  <2> DEFINE median2(h) == Summarise(InHour(g, h)).median2
  <2> DEFINE sparse(h) == Summarise(InHour(g, h)).count < MinSamples
  <2> DEFINE of == {k \in DOMAIN report.hours : report.hours[k].seq = q}
  <2>8. ASSUME NEW k \in of
        PROVE  \E h \in Hours(g) : /\ report.hours[k].median2 = median2(h)
                                   /\ report.hours[k].best2 = Best(g)
                                   /\ report.hours[k].sparse = sparse(h)
    <3>1. k \in 1 .. n /\ report.hours[k].seq = q
      BY <2>7 DEF IsReported
    <3>2. /\ order[k][2] \in 1 .. m[q] /\ report.hours[k] = f[q][order[k][2]]
      BY <2>7, <3>1 DEF IsReported
    <3>3. PICK i \in 1 .. m[q] : report.hours[k] = f[q][i]
      BY <3>2
    <3>4. hours \in [1 .. m[q] -> Hours(g)]
      BY <2>2
    <3>5. hours[i] \in Hours(g)
      BY <3>4
    <3>6. /\ f[q][i].median2 = median2(hours[i]) /\ f[q][i].best2 = Best(g)
          /\ f[q][i].sparse = sparse(hours[i])
      BY <2>2
    <3> HIDE DEF g, hours, median2, sparse
    <3> QED
      BY <3>3, <3>5, <3>6
  <2>9. ASSUME NEW h \in Hours(g)
        PROVE  \E k \in of : /\ report.hours[k].median2 = median2(h)
                             /\ report.hours[k].best2 = Best(g)
                             /\ report.hours[k].sparse = sparse(h)
    <3>1. PICK i \in 1 .. m[q] : hours[i] = h
      BY <2>2
    <3>2. PICK k \in 1 .. n : order[k] = <<q, i>>
      BY <2>7 DEF IsReported
    <3>3. order[k][1] = q /\ order[k][2] = i
      BY <3>2
    <3>4. k \in DOMAIN report.hours /\ report.hours[k] = f[q][i] /\ report.hours[k].seq = q
      BY <2>7, <3>3 DEF IsReported
    <3>5. /\ f[q][i].median2 = median2(hours[i]) /\ f[q][i].best2 = Best(g)
          /\ f[q][i].sparse = sparse(hours[i])
      BY <2>2
    <3>6. k \in of
      BY <3>4
    <3> HIDE DEF g, hours, median2, sparse, of
    <3> QED
      BY <3>1, <3>4, <3>5, <3>6
  <2> DEFINE believedHours == {h \in Hours(g) : ~ sparse(h)}
  <2>10. IF believedHours = {} THEN Best(g) = 0
         ELSE (\A h \in believedHours : median2(h) # 0) =>
                /\ \A h \in believedHours : median2(h) >= Best(g)
                /\ \E h \in believedHours : median2(h) = Best(g)
    BY <2>1, BestIsFastest
  <2> HIDE DEF g, hours, median2, sparse, of
  <2> DEFINE believed == {k \in of : ~ report.hours[k].sparse}
  <2>11. CASE believed = {}
    <3>1. \A h \in Hours(g) : sparse(h)
      BY <2>9, <2>11
    <3>2. believedHours = {}
      BY <3>1
    <3>3. \A k \in of : report.hours[k].best2 = 0
      BY <2>8, <2>10, <3>2
    <3> QED
      BY <2>11, <3>3 DEF of
  <2>12. ASSUME believed # {}, \A k \in believed : report.hours[k].median2 # 0
         PROVE  /\ \A k \in believed : report.hours[k].median2 >= report.hours[k].best2
                /\ \E k \in believed : report.hours[k].median2 = report.hours[k].best2
    <3>0. \A h \in believedHours : median2(h) # 0
      BY <2>9, <2>12
    <3>1. PICK k0 \in of : ~ report.hours[k0].sparse
      BY <2>12
    <3>2. believedHours # {}
      BY <2>8, <3>1
    <3>3. \A k \in believed : report.hours[k].median2 >= report.hours[k].best2
      BY <2>8, <2>10, <3>0, <3>2
    <3>4. PICK h \in believedHours : median2(h) = Best(g)
      BY <2>10, <3>0, <3>2
    <3>5. \E k \in believed : report.hours[k].median2 = report.hours[k].best2
      BY <2>9, <3>4
    <3> QED
      BY <3>3, <3>5
  <2>13. CASE believed # {}
    <3>1. (\A k \in believed : report.hours[k].median2 # 0) =>
            /\ \A k \in believed : report.hours[k].median2 >= report.hours[k].best2
            /\ \E k \in believed : report.hours[k].median2 = report.hours[k].best2
      BY <2>12, <2>13
    <3> QED
      BY <2>13, <3>1 DEF of
  <2> QED
    BY <2>11, <2>13
<1> QED
  BY <1>1, PageIsOfReport, PTL

-----------------------------------------------------------------------------
(* The weekly chart *)

(* Half the sum of two durations, in hundredths of a minute, is between   *)
(* the two.                                                               *)
LEMMA MinutesBetween ==
  ASSUME NEW u \in Nat, NEW v \in Nat, u <= v
  PROVE  /\ Minutes(u, 1) \in Int /\ Minutes(v, 1) \in Int /\ Minutes(u + v, 2) \in Int
         /\ Minutes(u, 1) <= Minutes(u + v, 2) /\ Minutes(u + v, 2) <= Minutes(v, 1)
<1> DEFINE a == (u + 3 * 1) \div (6 * 1)
<1> DEFINE b == (v + 3 * 1) \div (6 * 1)
<1> DEFINE c == (u + v + 3 * 2) \div (6 * 2)
<1>1. Minutes(u, 1) = a /\ Minutes(v, 1) = b /\ Minutes(u + v, 2) = c
  BY DEF Minutes
<1>2. /\ a \in Nat /\ 6 * a <= u + 3 /\ u + 3 < 6 * a + 6
      /\ b \in Nat /\ 6 * b <= v + 3 /\ v + 3 < 6 * b + 6
      /\ c \in Nat /\ 12 * c <= u + v + 6 /\ u + v + 6 < 12 * c + 12
  OBVIOUS
<1> HIDE DEF a, b, c
<1>3. a <= c /\ c <= b
  BY <1>2
<1> QED
  BY <1>1, <1>2, <1>3

(* A point of the weekly chart is of a week its stretch was driven in,    *)
(* and every such week has one.                                           *)
LEMMA WeeksReported ==
  ASSUME NEW table, IsTable(table), NEW clock, NEW r, r = Stats(table, clock),
         NEW q \in Reported(table)
  PROVE  LET g == Segments(table, q)
         IN  /\ \E n \in Nat : DOMAIN r.weeks = 1 .. n
             /\ \A k \in DOMAIN r.weeks : r.weeks[k].seq = q =>
                  /\ r.weeks[k].week \in Weeks(g)
                  /\ r.weeks[k].median2 = Summarise(InWeek(g, r.weeks[k].week)).median2
             /\ \A w \in Weeks(g) : \E k \in DOMAIN r.weeks :
                  r.weeks[k].seq = q /\ r.weeks[k].week = w
<1> DEFINE f == [p \in Reported(table) |-> WeekPoints(Segments(table, p))]
<1> DEFINE m == [p \in Reported(table) |-> Cardinality(Weeks(Segments(table, p)))]
<1> DEFINE g == Segments(table, q)
<1> DEFINE keys == Ascending(Weeks(g))
<1>1. ASSUME NEW p \in Reported(table)
      PROVE  /\ m[p] \in Nat /\ DOMAIN f[p] = 1 .. m[p]
             /\ Ascending(Weeks(Segments(table, p))) \in [1 .. m[p] -> Weeks(Segments(table, p))]
             /\ \A w \in Weeks(Segments(table, p)) :
                  \E i \in 1 .. m[p] : Ascending(Weeks(Segments(table, p)))[i] = w
             /\ \A i \in 1 .. m[p] :
                  LET w == Ascending(Weeks(Segments(table, p)))[i]
                  IN  /\ f[p][i].seq = p /\ f[p][i].week = w
                      /\ f[p][i].median2 = Summarise(InWeek(Segments(table, p), w)).median2
  <2> DEFINE l == Segments(table, p)
  <2> DEFINE a == Ascending(Weeks(l))
  <2> DEFINE c == m[p]
  <2>1. IsFiniteSet(Weeks(l)) /\ Weeks(l) \subseteq Int /\ l[1].seq = p
    BY HoursAndWeeks
  <2>2. f[p] = WeekPoints(l) /\ m[p] = Cardinality(Weeks(l))
    OBVIOUS
  <2> HIDE DEF f, m, l
  <2>3. /\ c \in Nat /\ a \in [1 .. c -> Weeks(l)]
        /\ \A w \in Weeks(l) : \E i \in 1 .. c : a[i] = w
    BY <2>1, <2>2, AscendingLists
  <2>4. WeekPoints(l) = [k \in DOMAIN a |->
           [seq |-> l[1].seq, week |-> a[k], median2 |-> Summarise(InWeek(l, a[k])).median2]]
    BY DEF WeekPoints
  <2> HIDE DEF a, c
  <2>5. DOMAIN f[p] = 1 .. c
        /\ \A i \in 1 .. c : /\ f[p][i].seq = p /\ f[p][i].week = a[i]
                             /\ f[p][i].median2 = Summarise(InWeek(l, a[i])).median2
    BY <2>1, <2>2, <2>3, <2>4
  <2> QED
    BY <2>3, <2>5 DEF a, c, l
<1>2. r.weeks = EndToEnd(f)
  BY DEF Stats
<1>3. DOMAIN f = Reported(table) /\ m \in [Reported(table) -> Nat]
  <2>1. \A p \in Reported(table) : Cardinality(Weeks(Segments(table, p))) \in Nat
    BY <1>1
  <2> QED
    BY <2>1
<1> HIDE DEF f, m
<1>4. \A p \in Reported(table) :
        DOMAIN f[p] = 1 .. m[p] /\ \A i \in 1 .. m[p] : f[p][i].seq = p
  BY <1>1
<1>5. PICK n \in Nat : \E order : IsReported(r.weeks, f, m, table, n, order)
  BY <1>2, <1>3, <1>4, Reporting
<1>6. PICK order : IsReported(r.weeks, f, m, table, n, order)
  BY <1>5
<1>7. DOMAIN r.weeks = 1 .. n
  BY <1>6 DEF IsReported
<1>8. ASSUME NEW k \in 1 .. n, r.weeks[k].seq = q
      PROVE  /\ r.weeks[k].week \in Weeks(g)
             /\ r.weeks[k].median2 = Summarise(InWeek(g, r.weeks[k].week)).median2
  <2>1. order[k][2] \in 1 .. m[q] /\ r.weeks[k] = f[q][order[k][2]]
    BY <1>6, <1>8 DEF IsReported
  <2>2. PICK i \in 1 .. m[q] : r.weeks[k] = f[q][i]
    BY <2>1
  <2>3. keys \in [1 .. m[q] -> Weeks(g)]
    BY <1>1
  <2>4. keys[i] \in Weeks(g)
    BY <2>3
  <2>5. f[q][i].week = keys[i] /\ f[q][i].median2 = Summarise(InWeek(g, keys[i])).median2
    BY <1>1
  <2> HIDE DEF g, keys
  <2> QED
    BY <2>2, <2>4, <2>5
<1>9. ASSUME NEW w \in Weeks(g)
      PROVE  \E k \in 1 .. n : r.weeks[k].seq = q /\ r.weeks[k].week = w
  <2>1. PICK i \in 1 .. m[q] : keys[i] = w
    BY <1>1
  <2>2. PICK k \in 1 .. n : order[k] = <<q, i>>
    BY <1>6 DEF IsReported
  <2>3. order[k][1] = q /\ order[k][2] = i
    BY <2>2
  <2>4. r.weeks[k] = f[q][i] /\ r.weeks[k].seq = q
    BY <1>6, <2>3 DEF IsReported
  <2>5. f[q][i].week = keys[i]
    BY <1>1
  <2> HIDE DEF g, keys
  <2> QED
    BY <2>1, <2>4, <2>5
<1> QED
  BY <1>7, <1>8, <1>9

(* A line of the weekly chart has a value in exactly the weeks its        *)
(* stretch was driven, between the shortest and the longest drive of that *)
(* week: the weekly chart (stats-charts.js) on the weeks of Stats.        *)
THEOREM WeeksStayAligned == Spec => []WeeksAreAligned
<1>1. IInv => WeeksAreAligned
  <2> SUFFICES ASSUME IInv, weeks # Nothing,
                      NEW i \in DOMAIN report.segments, NEW j \in DOMAIN weeks.labels
               PROVE  LET seq   == report.segments[i].seq
                          drove == {at \in Instants : /\ WeekOf[at] = weeks.labels[j]
                                                      /\ <<seq, at>> \in Drives
                                                      /\ measured[<<seq, at>>] # None}
                          took  == {Minutes(measured[<<seq, at>>], 1) : at \in drove}
                          value == weeks.lines[i][j]
                      IN  IF drove = {} THEN value = Null
                          ELSE value # Null /\ Min(took) <= value /\ value <= Max(took)
    BY DEF WeeksAreAligned
  <2>1. /\ IsTable(measured) /\ report # Nothing /\ report = Stats(measured, wall)
        /\ weeks = WeeksChart
    BY DEF IInv
  <2> DEFINE q == report.segments[i].seq
  <2> DEFINE w == weeks.labels[j]
  <2> DEFINE g == Segments(measured, q)
  <2> DEFINE drove == {at \in Instants : /\ WeekOf[at] = w /\ <<q, at>> \in Drives
                                         /\ measured[<<q, at>>] # None}
  <2> DEFINE took == {Minutes(measured[<<q, at>>], 1) : at \in drove}
  <2> DEFINE value == weeks.lines[i][j]
  <2> DEFINE of == {k \in DOMAIN report.weeks : report.weeks[k].seq = q /\ report.weeks[k].week = w}
  <2>2. q \in Reported(measured)
    BY <2>1, StretchesReported
  <2>3. value = IF of = {} THEN Null ELSE Minutes(report.weeks[Max(of)].median2, 2)
    <3>1. weeks.lines[i] = WeekLine(q, weeks.labels)
      BY <2>1 DEF WeeksChart
    <3> QED
      BY <3>1 DEF WeekLine, WeekOfSame
  <2>4. \A at : at \in drove <=> at \in DrivenOn(measured, q) /\ WeekOf[at] = w
    BY DEF DrivenOn
  <2>5. took = Range([at \in drove |-> Minutes(measured[<<q, at>>], 1)])
    BY DEF Range
  <2>6. \A k : k \in of <=> /\ k \in DOMAIN report.weeks
                            /\ report.weeks[k].seq = q /\ report.weeks[k].week = w
    OBVIOUS
  <2>7. \A at \in drove : Minutes(measured[<<q, at>>], 1) \in took
    OBVIOUS
  <2>8. \A at \in drove : measured[<<q, at>>] \in Nat
    <3>1. \A at \in drove : <<q, at>> \in Drives /\ measured[<<q, at>>] # None
      OBVIOUS
    <3> QED
      BY <2>1, <3>1, ChartsAssumptions DEF IsTable
  <2> HIDE DEF q, w, drove, value, of
  <2>9. /\ \E n \in Nat : DOMAIN report.weeks = 1 .. n
        /\ \A k \in DOMAIN report.weeks : report.weeks[k].seq = q =>
             /\ report.weeks[k].week \in Weeks(g)
             /\ report.weeks[k].median2 = Summarise(InWeek(g, report.weeks[k].week)).median2
        /\ \A v \in Weeks(g) : \E k \in DOMAIN report.weeks :
             report.weeks[k].seq = q /\ report.weeks[k].week = v
    BY <2>1, <2>2, WeeksReported
  <2>10. w \in Weeks(g) <=> drove # {}
    <3>1. w \in Weeks(g) <=> \E t \in DrivenOn(measured, q) : WeekOf[t] = w
      BY <2>1, <2>2, HoursAndWeeks
    <3> QED
      BY <2>4, <3>1
  <2>11. CASE drove = {}
    <3>1. of = {}
      BY <2>6, <2>9, <2>10, <2>11
    <3> QED
      BY <2>3, <2>11, <3>1 DEF value, drove, q, w
  <2>12. CASE drove # {}
    <3>1. of # {}
      BY <2>6, <2>9, <2>10, <2>12
    <3>2. IsFiniteSet(of) /\ of \subseteq Int
      <4>1. PICK n \in Nat : DOMAIN report.weeks = 1 .. n
        BY <2>9
      <4>2. of \in SUBSET (1 .. n) /\ IsFiniteSet(1 .. n)
        BY <2>6, <4>1, FS_Interval
      <4>3. IsFiniteSet(of)
        BY <4>2, FS_Subset
      <4> QED
        BY <4>2, <4>3
    <3>3. Max(of) \in of
      BY <3>1, <3>2, MinAndMax
    <3>4. value = Minutes(Summarise(InWeek(g, w)).median2, 2)
      BY <2>3, <2>6, <2>9, <3>1, <3>3
    <3> DEFINE v == InWeek(g, w)
    <3> DEFINE s == Summarise(v)
    <3>5. PICK n \in Nat \ {0} :
            /\ v \in [1 .. n -> Int]
            /\ \A k \in 1 .. n : \E t \in DrivenOn(measured, q) :
                 WeekOf[t] = w /\ v[k] = measured[<<q, t>>]
      BY <2>1, <2>2, <2>10, <2>12, HoursAndWeeks
    <3>6. s = Summarise(v)
      OBVIOUS
    <3> HIDE DEF v, s
    <3>7. PICK a \in 1 .. n, b \in 1 .. n : s.median2 = v[a] + v[b]
      <4>1. Halves(s, v, n)
        BY <3>5, <3>6, SummaryHalves
      <4> QED
        BY <4>1 DEF Halves
    <3>8. PICK t \in drove : v[a] = measured[<<q, t>>]
      BY <2>4, <3>5
    <3>9. PICK u \in drove : v[b] = measured[<<q, u>>]
      BY <2>4, <3>5
    <3> DEFINE x == measured[<<q, t>>]
    <3> DEFINE y == measured[<<q, u>>]
    <3>10. /\ x \in Nat /\ y \in Nat /\ value = Minutes(x + y, 2)
           /\ Minutes(x, 1) \in took /\ Minutes(y, 1) \in took
      BY <2>7, <2>8, <3>4, <3>7, <3>8, <3>9 DEF v, s
    <3> HIDE DEF x, y
    <3>11. /\ value \in Int /\ Minutes(x, 1) \in Int /\ Minutes(y, 1) \in Int
           /\ \/ Minutes(x, 1) <= value /\ value <= Minutes(y, 1)
              \/ Minutes(y, 1) <= value /\ value <= Minutes(x, 1)
      <4>1. CASE x <= y
        BY <3>10, <4>1, MinutesBetween
      <4>2. CASE y <= x
        <5>1. x + y = y + x
          BY <3>10
        <5> QED
          BY <3>10, <4>2, <5>1, MinutesBetween
      <4> QED
        BY <3>10, <4>1, <4>2
    <3>12. IsFiniteSet(took) /\ took \subseteq Int
      <4> DEFINE f == [at \in drove |-> Minutes(measured[<<q, at>>], 1)]
      <4>1. DOMAIN f = drove /\ \A at \in drove : f[at] \in Int
        <5>1. \A d \in Nat : Minutes(d, 1) \in Int
          BY MinutesBetween
        <5> QED
          BY <2>8, <5>1
      <4>2. drove \in SUBSET Instants /\ IsFiniteSet(Instants)
        BY DrivesAreOrdered DEF drove
      <4>3. IsFiniteSet(drove)
        BY <4>2, FS_Subset
      <4> HIDE DEF f
      <4>4. IsFiniteSet(Range(f)) /\ Range(f) \subseteq Int
        BY <4>1, <4>3, ImageIsFinite DEF Range
      <4> QED
        BY <2>5, <4>4 DEF f
    <3> HIDE DEF took
    <3>13. /\ Min(took) \in Int /\ Max(took) \in Int
           /\ Min(took) <= Minutes(x, 1) /\ Min(took) <= Minutes(y, 1)
           /\ Minutes(x, 1) <= Max(took) /\ Minutes(y, 1) <= Max(took)
      BY <3>10, <3>12, MinAndMax
    <3>14. Min(took) <= value /\ value <= Max(took)
      BY ONLY <3>11, <3>13
    <3>15. value # Null
      BY <3>11, ChartsAssumptions
    <3> QED
      BY <2>12, <3>14, <3>15 DEF value, took, drove, q, w
  <2> QED
    BY <2>11, <2>12
<1> QED
  BY <1>1, PageIsOfReport, PTL
=============================================================================
