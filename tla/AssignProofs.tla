---------------------------- MODULE AssignProofs ----------------------------
(***************************************************************************)
(* For any number of waypoints, passes and distances: the dynamic program  *)
(* is exact in both directions, mirror images are recognised as such, and  *)
(* settling on the first arrival keeps the choice in order.                *)
(*                                                                         *)
(* The recursive functions of Assign (the table of chains, the sum of the  *)
(* distances) are unfolded one index at a time: a function that satisfies  *)
(* the recursion up to n is extended to n + 1, so one exists for every n,  *)
(* and CHOOSE picks one.  Induction is over the set of numbers for which   *)
(* something holds, by its complement's least member.                      *)
(***************************************************************************)
EXTENDS Assign, FiniteSetTheorems, WellFoundedInduction, TLAPS

-----------------------------------------------------------------------------
(* Natural numbers *)

(* A set of natural numbers has a least member. *)
LEMMA LeastMember ==
  ASSUME NEW S \in SUBSET Nat, S # {}
  PROVE  \E m \in S : \A k \in S : m <= k
<1> DEFINE R == OpToRel(<, Nat)
<1>1. IsWellFoundedOn(R, Nat)
  BY NatLessThanWellFounded
<1>2. \A x, y \in Nat : x < y => <<x, y>> \in R
  BY DEF OpToRel
<1> HIDE DEF R
<1>3. PICK m \in S : \A k \in S : ~ (<<k, m>> \in R)
  BY <1>1, WFMin
<1>4. ASSUME NEW k \in S PROVE ~ (k < m)
  <2>1. ~ (<<k, m>> \in R)
    BY <1>3
  <2>2. k \in Nat /\ m \in Nat
    OBVIOUS
  <2> QED
    BY <1>2, <2>1, <2>2
<1> QED
  BY <1>4

(* Induction, for the numbers of which something holds. *)
LEMMA InSteps ==
  ASSUME NEW S, 0 \in S, \A n \in Nat : n \in S => n + 1 \in S
  PROVE  Nat \subseteq S
<1> DEFINE T == Nat \ S
<1>1. SUFFICES ASSUME T # {} PROVE FALSE
  OBVIOUS
<1>2. PICK m \in T : \A k \in T : m <= k
  BY <1>1, LeastMember
<1>3. m # 0 /\ m - 1 \in Nat
  OBVIOUS
<1>4. m - 1 \in S
  BY <1>2, <1>3
<1> QED
  BY <1>3, <1>4

(* The same, up to a bound. *)
LEMMA InStepsUpTo ==
  ASSUME NEW n \in Nat, NEW S, 0 \in S, \A i \in 0 .. n - 1 : i \in S => i + 1 \in S
  PROVE  0 .. n \subseteq S
<1> DEFINE T == {i \in Nat : i <= n => i \in S}
<1>1. 0 \in T
  OBVIOUS
<1>2. ASSUME NEW i \in Nat, i \in T PROVE i + 1 \in T
  <2>1. CASE i < n
    BY <1>2, <2>1
  <2>2. CASE ~ (i < n)
    BY <2>2
  <2> QED
    BY <2>1, <2>2
<1>3. Nat \subseteq T
  <2> HIDE DEF T
  <2> QED
    BY <1>1, <1>2, InSteps
<1> QED
  BY <1>3

-----------------------------------------------------------------------------
(* Sums *)

IsSum(f, n, g) == g = [i \in 0 .. n |-> IF i = 0 THEN 0 ELSE g[i - 1] + f[i]]

LEMMA TotalIsChosen ==
  ASSUME NEW f, NEW n
  PROVE  Total(f, n) = (CHOOSE g : IsSum(f, n, g))[n]
BY DEF Total, IsSum

(* The partial sums exist, *)
LEMMA SumExists ==
  ASSUME NEW f, NEW n \in Nat
  PROVE  \E g : IsSum(f, n, g)
<1> DEFINE S == {m \in Nat : \E g : IsSum(f, m, g)}
<1>1. 0 \in S
  <2> DEFINE g == [i \in 0 .. 0 |-> 0]
  <2>1. g = [i \in 0 .. 0 |-> IF i = 0 THEN 0 ELSE g[i - 1] + f[i]]
    OBVIOUS
  <2> QED
    BY <2>1 DEF IsSum
<1>2. ASSUME NEW m \in Nat, m \in S PROVE m + 1 \in S
  <2>1. PICK g : IsSum(f, m, g)
    BY <1>2
  <2> DEFINE h == [i \in 0 .. m + 1 |-> IF i = m + 1 THEN g[m] + f[m + 1] ELSE g[i]]
  <2>2. \A i \in 0 .. m + 1 : h[i] = IF i = 0 THEN 0 ELSE h[i - 1] + f[i]
    <3> SUFFICES ASSUME NEW i \in 0 .. m + 1
                 PROVE  h[i] = IF i = 0 THEN 0 ELSE h[i - 1] + f[i]
      OBVIOUS
    <3>1. CASE i = m + 1
      BY <3>1
    <3>2. CASE i # m + 1
      <4>1. i \in 0 .. m
        BY <3>2
      <4>2. g[i] = IF i = 0 THEN 0 ELSE g[i - 1] + f[i]
        BY <2>1, <4>1 DEF IsSum
      <4>3. h[i] = g[i]
        BY <3>2
      <4>4. i # 0 => h[i - 1] = g[i - 1]
        BY <4>1
      <4> HIDE DEF h
      <4> QED
        BY <4>2, <4>3, <4>4
    <3> QED
      BY <3>1, <3>2
  <2>3. h = [i \in 0 .. m + 1 |-> IF i = 0 THEN 0 ELSE h[i - 1] + f[i]]
    BY <2>2
  <2> HIDE DEF h
  <2>4. IsSum(f, m + 1, h)
    BY <2>3 DEF IsSum
  <2> QED
    BY <2>4
<1>3. Nat \subseteq S
  <2> HIDE DEF S
  <2> QED
    BY <1>1, <1>2, InSteps
<1> QED
  BY <1>3

(* and are the same however far they are taken. *)
LEMMA SumsAgree ==
  ASSUME NEW f, NEW n \in Nat, NEW m \in Nat, n <= m, NEW g, NEW h,
         IsSum(f, n, g), IsSum(f, m, h)
  PROVE  \A i \in 0 .. n : g[i] = h[i]
<1> DEFINE S == {i \in Nat : g[i] = h[i]}
<1>1. 0 \in S
  BY DEF IsSum
<1>2. ASSUME NEW i \in 0 .. n - 1, i \in S PROVE i + 1 \in S
  <2>1. g[i + 1] = g[i] + f[i + 1]
    <3>1. i + 1 \in 0 .. n /\ i + 1 # 0 /\ (i + 1) - 1 = i
      OBVIOUS
    <3> QED
      BY <3>1 DEF IsSum
  <2>2. h[i + 1] = h[i] + f[i + 1]
    <3>1. i + 1 \in 0 .. m /\ i + 1 # 0 /\ (i + 1) - 1 = i
      OBVIOUS
    <3> QED
      BY <3>1 DEF IsSum
  <2> QED
    BY <1>2, <2>1, <2>2
<1>3. 0 .. n \subseteq S
  <2> HIDE DEF S
  <2> QED
    BY <1>1, <1>2, InStepsUpTo
<1> QED
  BY <1>3

LEMMA NothingAdded ==
  ASSUME NEW f
  PROVE  Total(f, 0) = 0
<1> DEFINE g == CHOOSE g : IsSum(f, 0, g)
<1>1. IsSum(f, 0, g)
  BY SumExists
<1>2. Total(f, 0) = g[0]
  BY TotalIsChosen
<1> QED
  BY <1>1, <1>2 DEF IsSum

LEMMA OneMore ==
  ASSUME NEW f, NEW n \in Nat
  PROVE  Total(f, n + 1) = Total(f, n) + f[n + 1]
<1> DEFINE g == CHOOSE g : IsSum(f, n, g)
           h == CHOOSE h : IsSum(f, n + 1, h)
<1>1. IsSum(f, n, g)
  BY SumExists
<1>2. IsSum(f, n + 1, h)
  <2>1. n + 1 \in Nat
    OBVIOUS
  <2> QED
    BY <2>1, SumExists
<1>3. Total(f, n) = g[n] /\ Total(f, n + 1) = h[n + 1]
  BY TotalIsChosen
<1> HIDE DEF g, h
<1>4. g[n] = h[n]
  <2>1. n \in 0 .. n /\ n + 1 \in Nat /\ n <= n + 1
    OBVIOUS
  <2> QED
    BY <1>1, <1>2, <2>1, SumsAgree
<1>5. h[n + 1] = h[n] + f[n + 1]
  <2>1. n + 1 \in 0 .. n + 1 /\ n + 1 # 0 /\ (n + 1) - 1 = n
    OBVIOUS
  <2> QED
    BY <1>2, <2>1 DEF IsSum
<1> QED
  BY <1>3, <1>4, <1>5

LEMMA TotalIsNatural ==
  ASSUME NEW n \in Nat, NEW f \in [1 .. n -> Nat]
  PROVE  \A m \in 0 .. n : Total(f, m) \in Nat
<1> DEFINE S == {m \in Nat : Total(f, m) \in Nat}
<1>1. 0 \in S
  BY NothingAdded
<1>2. ASSUME NEW m \in 0 .. n - 1, m \in S PROVE m + 1 \in S
  <2>1. Total(f, m + 1) = Total(f, m) + f[m + 1]
    BY OneMore
  <2>2. f[m + 1] \in Nat
    OBVIOUS
  <2> QED
    BY <1>2, <2>1, <2>2
<1>3. 0 .. n \subseteq S
  <2> HIDE DEF S
  <2> QED
    BY <1>1, <1>2, InStepsUpTo
<1> QED
  BY <1>3

LEMMA TotalOfNone ==
  ASSUME NEW n \in Nat, NEW f, \A i \in 1 .. n : f[i] = 0
  PROVE  \A m \in 0 .. n : Total(f, m) = 0
<1> DEFINE S == {m \in Nat : Total(f, m) = 0}
<1>1. 0 \in S
  BY NothingAdded
<1>2. ASSUME NEW m \in 0 .. n - 1, m \in S PROVE m + 1 \in S
  <2>1. f[m + 1] = 0
    OBVIOUS
  <2> QED
    BY <1>2, <2>1, OneMore
<1>3. 0 .. n \subseteq S
  <2> HIDE DEF S
  <2> QED
    BY <1>1, <1>2, InStepsUpTo
<1> QED
  BY <1>3

(* What is added to one term is added to the sum. *)
LEMMA TotalOfMore ==
  ASSUME NEW n \in Nat, NEW f \in [1 .. n -> Nat], NEW g \in [1 .. n -> Nat],
         NEW k \in 1 .. n, NEW d \in Nat, g[k] = f[k] + d,
         \A i \in 1 .. n : i # k => g[i] = f[i]
  PROVE  Total(g, n) = Total(f, n) + d
<1> DEFINE S == {m \in Nat : Total(g, m) = Total(f, m) + (IF k <= m THEN d ELSE 0)}
<1>1. 0 \in S
  BY NothingAdded
<1>2. ASSUME NEW m \in 0 .. n - 1, m \in S PROVE m + 1 \in S
  <2>1. Total(g, m + 1) = Total(g, m) + g[m + 1] /\ Total(f, m + 1) = Total(f, m) + f[m + 1]
    <3>1. m \in Nat
      OBVIOUS
    <3>2. Total(g, m + 1) = Total(g, m) + g[m + 1]
      BY <3>1, OneMore, Zenon
    <3>3. Total(f, m + 1) = Total(f, m) + f[m + 1]
      BY <3>1, OneMore, Zenon
    <3> QED
      BY <3>2, <3>3
  <2>2. Total(f, m) \in Nat /\ Total(g, m) \in Nat
    <3>1. m \in 0 .. n
      OBVIOUS
    <3> HIDE DEF S
    <3> QED
      BY <3>1, TotalIsNatural
  <2>3. f[m + 1] \in Nat /\ g[m + 1] \in Nat
    OBVIOUS
  <2>4. Total(g, m) = Total(f, m) + (IF k <= m THEN d ELSE 0)
    BY <1>2
  <2>5. g[m + 1] = f[m + 1] + (IF m + 1 = k THEN d ELSE 0)
    OBVIOUS
  <2>6. Total(g, m + 1) = Total(f, m + 1) + (IF k <= m + 1 THEN d ELSE 0)
    BY <2>1, <2>2, <2>3, <2>4, <2>5
  <2> QED
    BY <2>6
<1>3. 0 .. n \subseteq S
  <2> HIDE DEF S
  <2> QED
    BY <1>1, <1>2, InStepsUpTo
<1> QED
  BY <1>3

(* A sum is the same from the other end. *)
LEMMA TotalBackwards ==
  ASSUME NEW n \in Nat, NEW f \in [1 .. n -> Nat], NEW g \in [1 .. n -> Nat],
         \A i \in 1 .. n : g[i] = f[n - i + 1]
  PROVE  Total(g, n) = Total(f, n)
<1> DEFINE S == {m \in Nat : Total(f, n - m) + Total(g, m) = Total(f, n)}
<1>1. 0 \in S
  <2>1. Total(f, n) \in Nat
    <3>1. n \in 0 .. n
      OBVIOUS
    <3> HIDE DEF S
    <3> QED
      BY <3>1, TotalIsNatural
  <2> QED
    BY <2>1, NothingAdded
<1>2. ASSUME NEW m \in 0 .. n - 1, m \in S PROVE m + 1 \in S
  <2> DEFINE r == n - (m + 1)
  <2>1. r \in 0 .. n /\ r \in Nat /\ n - m = r + 1 /\ n - (m + 1) + 1 = r + 1
    OBVIOUS
  <2>2. Total(g, m + 1) = Total(g, m) + g[m + 1]
    BY OneMore
  <2> HIDE DEF r
  <2>3. Total(f, r + 1) = Total(f, r) + f[r + 1]
    BY <2>1, OneMore
  <2>4. m + 1 \in 1 .. n
    OBVIOUS
  <2>5. g[m + 1] = f[r + 1]
    BY <2>1, <2>4
  <2>6. Total(f, r) \in Nat /\ Total(g, m) \in Nat /\ f[r + 1] \in Nat
    <3>1. r + 1 \in 1 .. n
      BY <2>1
    <3> QED
      BY <2>1, <3>1, TotalIsNatural
  <2>7. Total(f, r + 1) + Total(g, m) = Total(f, n)
    BY <1>2, <2>1
  <2>8. Total(f, r) + Total(g, m + 1) = Total(f, n)
    BY <2>2, <2>3, <2>5, <2>6, <2>7
  <2> QED
    BY <2>8 DEF r
<1>3. 0 .. n \subseteq S
  <2> HIDE DEF S
  <2> QED
    BY <1>1, <1>2, InStepsUpTo
<1>4. n \in S
  BY <1>3
<1>5. Total(f, 0) + Total(g, n) = Total(f, n)
  BY <1>4
<1> HIDE DEF S
<1>6. Total(g, n) \in Nat
  <2>1. n \in 0 .. n
    OBVIOUS
  <2> QED
    BY <2>1, TotalIsNatural
<1>7. Total(f, 0) = 0
  BY NothingAdded
<1> QED
  BY <1>5, <1>6, <1>7

-----------------------------------------------------------------------------
(* The order of chains *)

(* The first of the best exists where ends tell chains apart. *)
LEMMA FirstBestIsBest ==
  ASSUME NEW C, C # {}, NEW N \in Nat,
         \A c \in C : c.matched \in 0 .. N /\ c.dist \in Nat /\ c.from \in Nat \X Nat,
         \A c, d \in C : c.from = d.from => c = d
  PROVE  FirstBest(C) \in C /\ \A d \in C : ~ Better(d, FirstBest(C))
<1> DEFINE Missed == {N - c.matched : c \in C}
<1>1. PICK missed \in Missed : \A k \in Missed : missed <= k
  <2>1. Missed \in SUBSET Nat /\ Missed # {}
    OBVIOUS
  <2> HIDE DEF Missed
  <2> QED
    BY <2>1, LeastMember
<1> DEFINE C1 == {c \in C : N - c.matched = missed}
           Dists == {c.dist : c \in C1}
<1>2. PICK dist \in Dists : \A k \in Dists : dist <= k
  <2>1. Dists \in SUBSET Nat /\ Dists # {}
    OBVIOUS
  <2> HIDE DEF Dists
  <2> QED
    BY <2>1, LeastMember
<1> DEFINE C2 == {c \in C1 : c.dist = dist}
           Firsts == {c.from[1] : c \in C2}
<1>3. PICK first \in Firsts : \A k \in Firsts : first <= k
  <2>1. Firsts \in SUBSET Nat /\ Firsts # {}
    OBVIOUS
  <2> HIDE DEF Firsts
  <2> QED
    BY <2>1, LeastMember
<1> DEFINE C3 == {c \in C2 : c.from[1] = first}
           Seconds == {c.from[2] : c \in C3}
<1>4. PICK second \in Seconds : \A k \in Seconds : second <= k
  <2>1. Seconds \in SUBSET Nat /\ Seconds # {}
    OBVIOUS
  <2> HIDE DEF Seconds
  <2> QED
    BY <2>1, LeastMember
<1>5. PICK c \in C3 : c.from[2] = second
  BY <1>4
<1>6. \A d \in C : d = c \/ Better(c, d) \/ (~ Better(d, c) /\ Lexical(c.from, d.from))
  <2> SUFFICES ASSUME NEW d \in C, d # c, ~ Better(c, d)
               PROVE  ~ Better(d, c) /\ Lexical(c.from, d.from)
    OBVIOUS
  <2>1. c \in C /\ N - c.matched = missed /\ c.dist = dist /\ c.from[1] = first
    BY <1>5
  <2>2. /\ c.matched \in 0 .. N /\ c.dist \in Nat /\ c.from \in Nat \X Nat
        /\ d.matched \in 0 .. N /\ d.dist \in Nat /\ d.from \in Nat \X Nat
    BY <2>1
  <2>3. missed <= N - d.matched
    BY <1>1
  <2>4. d.matched = c.matched
    BY <2>1, <2>2, <2>3 DEF Better
  <2>5. d \in C1
    BY <2>1, <2>4
  <2>6. dist <= d.dist
    BY <1>2, <2>5
  <2>7. d.dist = c.dist
    BY <2>1, <2>2, <2>4, <2>6 DEF Better
  <2>8. d \in C2
    BY <2>1, <2>5, <2>7
  <2>9. first <= d.from[1]
    BY <1>3, <2>8
  <2>10. ~ Better(d, c)
    BY <2>2, <2>4, <2>7 DEF Better
  <2>11. CASE d.from[1] = first
    <3>1. d \in C3
      BY <2>8, <2>11
    <3>2. second <= d.from[2]
      BY <1>4, <3>1
    <3>3. c.from # d.from
      BY <2>1
    <3>4. c.from[2] # d.from[2]
      BY <2>1, <2>2, <2>11, <3>3
    <3> QED
      BY <1>5, <2>1, <2>2, <2>10, <2>11, <3>2, <3>4 DEF Lexical
  <2>12. CASE d.from[1] # first
    BY <2>1, <2>2, <2>9, <2>10, <2>12 DEF Lexical
  <2> QED
    BY <2>11, <2>12
<1>7. c \in C
  BY <1>5
<1> HIDE DEF Missed, C1, Dists, C2, Firsts, C3, Seconds
<1> DEFINE b == FirstBest(C)
<1>8. /\ b \in C
      /\ \A d \in C : d = b \/ Better(b, d) \/ (~ Better(d, b) /\ Lexical(b.from, d.from))
  BY <1>6, <1>7 DEF FirstBest
<1> HIDE DEF b
<1>9. ASSUME NEW d \in C PROVE ~ Better(d, b)
  <2>1. /\ b.matched \in Nat /\ b.dist \in Nat /\ d.matched \in Nat /\ d.dist \in Nat
    BY <1>8
  <2>2. d = b \/ Better(b, d) \/ ~ Better(d, b)
    BY <1>8
  <2> QED
    BY <2>1, <2>2 DEF Better
<1> QED
  BY <1>8, <1>9 DEF b

-----------------------------------------------------------------------------
(* Recordings and assignments *)

Visit == [index : Int, enter : Int, exit : Int, closest : Int, dist : Nat]

(* What the dynamic program needs to know of the passes it is given. *)
IsRecording(ps) ==
  /\ ps \in Seq(Seq(Visit))
  /\ \A w \in DOMAIN ps : /\ Len(ps[w]) <= MaxPasses
                          /\ \A j \in DOMAIN ps[w] : ps[w][j].enter <= ps[w][j].exit

LEMMA RecordingFacts ==
  ASSUME NEW ps, IsRecording(ps)
  PROVE  /\ Len(ps) \in Nat /\ DOMAIN ps = 1 .. Len(ps)
         /\ \A w \in DOMAIN ps :
              /\ Len(ps[w]) \in 0 .. MaxPasses /\ DOMAIN ps[w] = 1 .. Len(ps[w])
              /\ \A j \in DOMAIN ps[w] :
                   /\ ps[w][j] \in Visit
                   /\ ps[w][j].enter \in Int /\ ps[w][j].exit \in Int /\ ps[w][j].dist \in Nat
                   /\ ps[w][j].enter <= ps[w][j].exit
<1>1. Len(ps) \in Nat /\ DOMAIN ps = 1 .. Len(ps)
  BY DEF IsRecording
<1>2. ASSUME NEW w \in DOMAIN ps
      PROVE  /\ Len(ps[w]) \in 0 .. MaxPasses /\ DOMAIN ps[w] = 1 .. Len(ps[w])
             /\ \A j \in DOMAIN ps[w] :
                   /\ ps[w][j] \in Visit
                   /\ ps[w][j].enter \in Int /\ ps[w][j].exit \in Int /\ ps[w][j].dist \in Nat
                   /\ ps[w][j].enter <= ps[w][j].exit
  <2>1. ps[w] \in Seq(Visit)
    BY DEF IsRecording
  <2>2. Len(ps[w]) \in Nat /\ Len(ps[w]) <= MaxPasses /\ DOMAIN ps[w] = 1 .. Len(ps[w])
    BY <2>1 DEF IsRecording
  <2>3. Len(ps[w]) \in 0 .. MaxPasses
    BY <2>2, AssignAssumptions DEF AssignAssumptions
  <2>4. ASSUME NEW j \in DOMAIN ps[w]
        PROVE  /\ ps[w][j] \in Visit
               /\ ps[w][j].enter \in Int /\ ps[w][j].exit \in Int /\ ps[w][j].dist \in Nat
               /\ ps[w][j].enter <= ps[w][j].exit
    <3>1. ps[w][j] \in Visit
      BY <2>1
    <3>2. ps[w][j].enter <= ps[w][j].exit
      BY DEF IsRecording
    <3> QED
      BY <3>1, <3>2 DEF Visit
  <2> QED
    BY <2>2, <2>3, <2>4
<1> QED
  BY <1>1, <1>2

(* What the optimum is over: who takes a pass takes one there is. *)
LEMMA AssignmentFacts ==
  ASSUME NEW ps, IsRecording(ps), NEW picks \in Assignments(ps)
  PROVE  /\ DOMAIN picks = 1 .. Len(ps) /\ Len(picks) = Len(ps)
         /\ picks \in [1 .. Len(ps) -> Nat]
         /\ \A w \in DOMAIN ps : picks[w] \in 0 .. Len(ps[w])
         /\ \A w \in DOMAIN ps : picks[w] # 0 => picks[w] \in DOMAIN ps[w]
<1>1. /\ Len(ps) \in Nat /\ DOMAIN ps = 1 .. Len(ps)
      /\ \A w \in DOMAIN ps : Len(ps[w]) \in Nat /\ DOMAIN ps[w] = 1 .. Len(ps[w])
  BY RecordingFacts
<1>2. picks \in [1 .. Len(ps) -> 0 .. MaxPasses]
  BY <1>1 DEF Assignments
<1>3. picks \in [1 .. Len(ps) -> Nat]
  BY <1>2
<1>4. Len(picks) = Len(ps)
  BY <1>1, <1>2
<1>5. \A w \in DOMAIN ps : picks[w] <= Len(ps[w]) /\ picks[w] \in Nat
  BY <1>1, <1>3 DEF Assignments
<1> QED
  BY <1>1, <1>2, <1>3, <1>4, <1>5

LEMMA DistInType ==
  ASSUME NEW ps, IsRecording(ps), NEW picks \in Assignments(ps)
  PROVE  DistIn(ps, picks) \in [1 .. Len(ps) -> Nat]
<1>1. /\ Len(ps) \in Nat /\ DOMAIN ps = 1 .. Len(ps) /\ DOMAIN picks = 1 .. Len(ps)
      /\ \A w \in DOMAIN ps : picks[w] # 0 => picks[w] \in DOMAIN ps[w]
  BY RecordingFacts, AssignmentFacts
<1>2. \A w \in DOMAIN ps : picks[w] # 0 => ps[w][picks[w]].dist \in Nat
  BY <1>1, RecordingFacts
<1> QED
  BY <1>1, <1>2 DEF DistIn

LEMMA ReachedFinite ==
  ASSUME NEW ps, IsRecording(ps), NEW picks \in Assignments(ps)
  PROVE  /\ IsFiniteSet(ReachedIn(picks)) /\ ReachedIn(picks) \subseteq 1 .. Len(ps)
         /\ Cardinality(ReachedIn(picks)) \in 0 .. Len(ps)
<1>1. Len(ps) \in Nat /\ DOMAIN picks = 1 .. Len(ps)
  BY RecordingFacts, AssignmentFacts
<1>2. IsFiniteSet(1 .. Len(ps)) /\ Cardinality(1 .. Len(ps)) = Len(ps)
  BY <1>1, FS_Interval
<1>3. ReachedIn(picks) \subseteq 1 .. Len(ps)
  BY <1>1 DEF ReachedIn
<1>4. IsFiniteSet(ReachedIn(picks)) /\ Cardinality(ReachedIn(picks)) <= Cardinality(1 .. Len(ps))
  BY <1>2, <1>3, FS_Subset
<1>5. Cardinality(ReachedIn(picks)) \in Nat
  BY <1>4, FS_CardinalityType
<1> QED
  BY <1>1, <1>2, <1>3, <1>4, <1>5

LEMMA FitOfType ==
  ASSUME NEW ps, IsRecording(ps), NEW picks \in Assignments(ps)
  PROVE  /\ FitOf(ps, picks).matched \in 0 .. Len(ps)
         /\ FitOf(ps, picks).dist \in Nat
<1>1. Len(ps) \in Nat /\ Len(picks) = Len(ps)
  BY RecordingFacts, AssignmentFacts
<1>2. Total(DistIn(ps, picks), Len(ps)) \in Nat
  <2>1. Len(ps) \in 0 .. Len(ps)
    BY <1>1
  <2> QED
    BY <1>1, <2>1, DistInType, TotalIsNatural
<1> QED
  BY <1>1, <1>2, ReachedFinite DEF FitOf

HasFitOf(ps, picks, matched, dist) ==
  FitOf(ps, picks).matched = matched /\ FitOf(ps, picks).dist = dist

Nothing(ps) == [w \in DOMAIN ps |-> 0]

(* The fit of choosing nothing, *)
LEMMA FitOfNothing ==
  ASSUME NEW ps, IsRecording(ps)
  PROVE  /\ Nothing(ps) \in Assignments(ps)
         /\ InOrder(ps, Nothing(ps), "forward")
         /\ HasFitOf(ps, Nothing(ps), 0, 0)
<1> DEFINE picks == Nothing(ps)
<1>1. /\ Len(ps) \in Nat /\ DOMAIN ps = 1 .. Len(ps)
      /\ \A w \in DOMAIN ps : Len(ps[w]) \in Nat
  BY RecordingFacts
<1>2. DOMAIN picks = DOMAIN ps /\ \A w \in DOMAIN ps : picks[w] = 0
  BY DEF Nothing
<1>3. picks \in Assignments(ps)
  BY <1>1, AssignAssumptions DEF Assignments, AssignAssumptions, Nothing
<1> HIDE DEF picks
<1>4. ReachedIn(picks) = {}
  BY <1>2 DEF ReachedIn
<1>5. Cardinality(ReachedIn(picks)) = 0
  BY <1>4, FS_EmptySet
<1>6. Len(picks) = Len(ps)
  BY <1>3, AssignmentFacts
<1>7. Total(DistIn(ps, picks), Len(ps)) = 0
  <2>1. \A w \in 1 .. Len(ps) : DistIn(ps, picks)[w] = 0
    BY <1>1, <1>2 DEF DistIn
  <2>2. Len(ps) \in 0 .. Len(ps)
    BY <1>1
  <2> QED
    BY <1>1, <2>1, <2>2, TotalOfNone
<1>8. InOrder(ps, picks, "forward")
  BY <1>4 DEF InOrder
<1> QED
  BY <1>3, <1>5, <1>6, <1>7, <1>8 DEF FitOf, HasFitOf, picks

(* and what one more waypoint adds to a fit. *)
LEMMA FitOfOneMore ==
  ASSUME NEW ps, IsRecording(ps), NEW picks \in Assignments(ps),
         NEW k \in DOMAIN ps, picks[k] = 0, NEW j \in DOMAIN ps[k]
  PROVE  /\ [picks EXCEPT ![k] = j] \in Assignments(ps)
         /\ HasFitOf(ps, [picks EXCEPT ![k] = j],
                     FitOf(ps, picks).matched + 1, FitOf(ps, picks).dist + ps[k][j].dist)
<1> DEFINE more == [picks EXCEPT ![k] = j]
<1>1. /\ Len(ps) \in Nat /\ DOMAIN ps = 1 .. Len(ps)
      /\ \A w \in DOMAIN ps : Len(ps[w]) \in 0 .. MaxPasses
      /\ DOMAIN ps[k] = 1 .. Len(ps[k]) /\ ps[k][j].dist \in Nat
  BY RecordingFacts
<1>2. DOMAIN picks = 1 .. Len(ps) /\ Len(picks) = Len(ps)
  BY AssignmentFacts
<1>3. /\ DOMAIN more = 1 .. Len(ps) /\ more[k] = j
      /\ \A w \in DOMAIN ps : w # k => more[w] = picks[w]
  BY <1>1, <1>2
<1>4. j \in 0 .. MaxPasses /\ j <= Len(ps[k]) /\ j # 0
  BY <1>1, AssignAssumptions DEF AssignAssumptions
<1>5. more \in Assignments(ps)
  <2>1. picks \in [DOMAIN ps -> 0 .. MaxPasses] /\ \A w \in DOMAIN ps : picks[w] <= Len(ps[w])
    BY DEF Assignments
  <2>2. more \in [DOMAIN ps -> 0 .. MaxPasses]
    BY <1>4, <2>1
  <2>3. \A w \in DOMAIN ps : more[w] <= Len(ps[w])
    BY <1>3, <1>4, <2>1
  <2> QED
    BY <2>2, <2>3 DEF Assignments
<1> HIDE DEF more
<1>6. Len(more) = Len(ps)
  BY <1>5, AssignmentFacts
<1>7. ReachedIn(more) = ReachedIn(picks) \cup {k} /\ k \notin ReachedIn(picks)
  BY <1>1, <1>2, <1>3, <1>4 DEF ReachedIn
<1>8. Cardinality(ReachedIn(more)) = Cardinality(ReachedIn(picks)) + 1
  <2>1. IsFiniteSet(ReachedIn(picks))
    BY ReachedFinite
  <2>2. Cardinality(ReachedIn(picks) \cup {k}) = Cardinality(ReachedIn(picks)) + 1
    BY <1>7, <2>1, FS_AddElement
  <2> QED
    BY <1>7, <2>2
<1>9. Total(DistIn(ps, more), Len(ps)) = Total(DistIn(ps, picks), Len(ps)) + ps[k][j].dist
  <2>1. DistIn(ps, picks) \in [1 .. Len(ps) -> Nat] /\ DistIn(ps, more) \in [1 .. Len(ps) -> Nat]
    BY <1>5, DistInType
  <2>2. DistIn(ps, more)[k] = DistIn(ps, picks)[k] + ps[k][j].dist
    BY <1>1, <1>2, <1>3, <1>4 DEF DistIn
  <2>3. \A w \in 1 .. Len(ps) : w # k => DistIn(ps, more)[w] = DistIn(ps, picks)[w]
    BY <1>1, <1>2, <1>3 DEF DistIn
  <2>4. k \in 1 .. Len(ps)
    BY <1>1
  <2>5. ASSUME NEW n \in Nat, n = Len(ps), NEW f, f = DistIn(ps, picks),
               NEW g, g = DistIn(ps, more), NEW d \in Nat, d = ps[k][j].dist
        PROVE  Total(g, n) = Total(f, n) + d
    <3>1. /\ f \in [1 .. n -> Nat] /\ g \in [1 .. n -> Nat] /\ k \in 1 .. n
          /\ g[k] = f[k] + d /\ \A w \in 1 .. n : w # k => g[w] = f[w]
      BY <2>1, <2>2, <2>3, <2>4, <2>5
    <3>2. n \in Nat /\ d \in Nat
      OBVIOUS
    <3> QED
      BY ONLY <3>1, <3>2, TotalOfMore
  <2> QED
    BY <1>1, <2>5
<1> QED
  BY <1>2, <1>5, <1>6, <1>8, <1>9 DEF FitOf, HasFitOf, more

-----------------------------------------------------------------------------
(* Chains *)

HasFit(c) == c.matched \in Nat /\ c.dist \in Nat

LEMMA NotBetterIsTransitive ==
  ASSUME NEW a, NEW b, NEW c, HasFit(a), HasFit(b), HasFit(c), ~ Better(a, b), ~ Better(b, c)
  PROVE  ~ Better(a, c)
BY DEF HasFit, Better

LEMMA NotBetterExtended ==
  ASSUME NEW a, NEW b, NEW more, NEW c, HasFit(a), HasFit(b), NEW d \in Nat, ~ Better(a, b),
         more.matched = a.matched + 1, more.dist = a.dist + d,
         c.matched = b.matched + 1, c.dist = b.dist + d
  PROVE  ~ Better(more, c)
BY DEF HasFit, Better

(* An assignment in order whose last waypoint is k, with pass j. *)
EndsAt(ps, picks, k, j) ==
  /\ picks \in Assignments(ps) /\ InOrder(ps, picks, "forward")
  /\ picks[k] = j /\ \A w \in DOMAIN ps : w > k => picks[w] = 0

LEMMA EndsAlone ==
  ASSUME NEW ps, IsRecording(ps), NEW k \in DOMAIN ps, NEW j \in DOMAIN ps[k]
  PROVE  /\ Alone(ps, k, j).picks = [Nothing(ps) EXCEPT ![k] = j]
         /\ EndsAt(ps, Alone(ps, k, j).picks, k, j)
         /\ HasFitOf(ps, Alone(ps, k, j).picks, 1, ps[k][j].dist)
<1> DEFINE picks == Alone(ps, k, j).picks
<1>1. Len(ps) \in Nat /\ DOMAIN ps = 1 .. Len(ps) /\ ps[k][j].dist \in Nat
  BY RecordingFacts
<1>2. /\ DOMAIN picks = DOMAIN ps /\ \A w \in DOMAIN ps : picks[w] = IF w = k THEN j ELSE 0
      /\ picks = [Nothing(ps) EXCEPT ![k] = j]
  BY DEF Alone, Nothing
<1> HIDE DEF picks
<1>3. Nothing(ps)[k] = 0
  BY DEF Nothing
<1>4. picks \in Assignments(ps) /\ HasFitOf(ps, picks, 1, ps[k][j].dist)
  <2>1. /\ picks \in Assignments(ps)
        /\ HasFitOf(ps, picks, FitOf(ps, Nothing(ps)).matched + 1,
                     FitOf(ps, Nothing(ps)).dist + ps[k][j].dist)
    BY <1>2, <1>3, FitOfNothing, FitOfOneMore
  <2>2. FitOf(ps, Nothing(ps)).matched = 0 /\ FitOf(ps, Nothing(ps)).dist = 0
    BY FitOfNothing DEF HasFitOf
  <2> QED
    BY <1>1, <2>1, <2>2 DEF HasFitOf
<1>5. InOrder(ps, picks, "forward")
  BY <1>1, <1>2 DEF InOrder, ReachedIn, Precedes
<1>6. \A w \in DOMAIN ps : w > k => picks[w] = 0
  BY <1>1, <1>2
<1> QED
  BY <1>2, <1>4, <1>5, <1>6 DEF EndsAt, picks

(* A chain is extended by a pass that follows its last one, *)
LEMMA EndsExtended ==
  ASSUME NEW ps, IsRecording(ps), NEW k \in DOMAIN ps, NEW j \in DOMAIN ps[k],
         NEW pk \in DOMAIN ps, pk < k, NEW pj \in DOMAIN ps[pk],
         Follows(ps[k][j], ps[pk][pj]), NEW picks, EndsAt(ps, picks, pk, pj)
  PROVE  /\ picks[k] = 0
         /\ EndsAt(ps, [picks EXCEPT ![k] = j], k, j)
<1> DEFINE more == [picks EXCEPT ![k] = j]
<1>1. Len(ps) \in Nat /\ DOMAIN ps = 1 .. Len(ps)
  BY RecordingFacts
<1>2. picks \in Assignments(ps) /\ picks[k] = 0
  BY <1>1 DEF EndsAt
<1>3. more \in Assignments(ps)
  BY <1>2, FitOfOneMore
<1>4. DOMAIN picks = 1 .. Len(ps) /\ \A w \in DOMAIN ps : picks[w] # 0 => picks[w] \in DOMAIN ps[w]
  BY <1>2, AssignmentFacts
<1>5. /\ DOMAIN more = 1 .. Len(ps) /\ more[k] = j
      /\ \A w \in DOMAIN ps : w # k => more[w] = picks[w]
  BY <1>1, <1>4
<1> HIDE DEF more
<1>6. \A w \in DOMAIN ps : w > k => more[w] = 0
  BY <1>1, <1>5 DEF EndsAt
<1>7. ASSUME NEW a \in ReachedIn(more), NEW b \in ReachedIn(more), a < b
      PROVE  Follows(ps[b][more[b]], ps[a][more[a]])
  <2>1. a \in 1 .. Len(ps) /\ b \in 1 .. Len(ps) /\ more[a] # 0 /\ more[b] # 0
    BY <1>5 DEF ReachedIn
  <2>2. b <= k
    BY <1>1, <1>6, <2>1
  <2>3. a # k /\ more[a] = picks[a] /\ a \in ReachedIn(picks)
    BY <1>1, <1>4, <1>5, <1>7, <2>1, <2>2 DEF ReachedIn
  <2>4. CASE b # k
    <3>1. more[b] = picks[b] /\ b \in ReachedIn(picks)
      BY <1>1, <1>4, <1>5, <2>1, <2>4 DEF ReachedIn
    <3> QED
      BY <1>7, <2>3, <3>1 DEF EndsAt, InOrder, Precedes
  <2>5. CASE b = k
    <3>1. a <= pk
      BY <1>1, <2>1, <2>3 DEF EndsAt, ReachedIn
    <3>2. CASE a = pk
      BY <1>5, <2>3, <2>5, <3>2 DEF EndsAt
    <3>3. CASE a # pk
      <4>1. pk \in ReachedIn(picks) /\ picks[pk] = pj
        <5>1. pj # 0
          BY RecordingFacts
        <5> QED
          BY <1>1, <1>4, <5>1 DEF EndsAt, ReachedIn
      <4>2. a < pk
        BY <1>1, <2>1, <3>1, <3>3
      <4>3. Follows(ps[pk][pj], ps[a][picks[a]])
        BY <2>3, <4>1, <4>2 DEF EndsAt, InOrder, Precedes
      <4>4. /\ ps[pk][pj].enter \in Int /\ ps[pk][pj].exit \in Int
            /\ ps[pk][pj].enter <= ps[pk][pj].exit /\ ps[k][j].enter \in Int
        BY RecordingFacts
      <4>5. ps[a][picks[a]].exit \in Int
        BY <1>1, <1>4, <2>1, <2>3, RecordingFacts
      <4>6. ps[a][picks[a]].exit <= ps[k][j].enter
        BY <4>3, <4>4, <4>5 DEF Follows
      <4> QED
        BY <1>5, <2>3, <2>5, <4>6 DEF Follows
    <3> QED
      BY <3>2, <3>3
  <2> QED
    BY <2>4, <2>5
<1>8. InOrder(ps, more, "forward")
  BY <1>7 DEF InOrder, Precedes
<1> QED
  BY <1>2, <1>3, <1>5, <1>6, <1>8 DEF EndsAt, more

(* and every chain is alone or extends one that ends before it. *)
LEMMA EndsShortened ==
  ASSUME NEW ps, IsRecording(ps), NEW k \in DOMAIN ps, NEW j \in DOMAIN ps[k],
         NEW picks, EndsAt(ps, picks, k, j)
  PROVE  \/ picks = Alone(ps, k, j).picks
         \/ \E pk \in DOMAIN ps : \E pj \in DOMAIN ps[pk] : \E less :
              /\ pk < k /\ Follows(ps[k][j], ps[pk][pj])
              /\ EndsAt(ps, less, pk, pj) /\ picks = [less EXCEPT ![k] = j] /\ less[k] = 0
<1> DEFINE less == [picks EXCEPT ![k] = 0]
           Gaps == {k - w : w \in {x \in 1 .. k - 1 : picks[x] # 0}}
<1>1. Len(ps) \in Nat /\ DOMAIN ps = 1 .. Len(ps)
  BY RecordingFacts
<1>2. picks \in Assignments(ps) /\ picks[k] = j /\ j # 0
  <2>1. j # 0
    BY RecordingFacts
  <2> QED
    BY <2>1 DEF EndsAt
<1>3. /\ DOMAIN picks = 1 .. Len(ps) /\ picks \in [1 .. Len(ps) -> Nat]
      /\ \A w \in DOMAIN ps : picks[w] # 0 => picks[w] \in DOMAIN ps[w]
  BY <1>2, AssignmentFacts
<1>4. CASE Gaps = {}
  <2>1. \A w \in DOMAIN ps : picks[w] = [Nothing(ps) EXCEPT ![k] = j][w]
    <3> SUFFICES ASSUME NEW w \in DOMAIN ps
                 PROVE  picks[w] = [Nothing(ps) EXCEPT ![k] = j][w]
      OBVIOUS
    <3>1. w < k => picks[w] = 0
      <4>1. w < k => w \in 1 .. k - 1
        BY <1>1
      <4> QED
        BY <1>4, <4>1
    <3>2. w > k => picks[w] = 0
      BY DEF EndsAt
    <3>3. [Nothing(ps) EXCEPT ![k] = j][w] = IF w = k THEN j ELSE 0
      BY DEF Nothing
    <3>4. w \in Nat /\ k \in Nat /\ w # 0
      BY <1>1
    <3>5. w < k \/ w = k \/ w > k
      BY ONLY <3>4
    <3> QED
      BY <1>2, <3>1, <3>2, <3>3, <3>5, Zenon
  <2>2. picks = [Nothing(ps) EXCEPT ![k] = j]
    BY <1>1, <1>3, <2>1 DEF Nothing
  <2>3. Alone(ps, k, j).picks = [Nothing(ps) EXCEPT ![k] = j]
    BY EndsAlone
  <2> QED
    BY <2>2, <2>3, Zenon
<1>5. CASE Gaps # {}
  <2>1. PICK gap \in Gaps : \A g \in Gaps : gap <= g
    <3>1. Gaps \in SUBSET Nat
      BY <1>1
    <3> HIDE DEF Gaps
    <3> QED
      BY <1>5, <3>1, LeastMember
  <2>2. PICK pk \in 1 .. k - 1 : picks[pk] # 0 /\ gap = k - pk
    BY <2>1
  <2>3. ASSUME NEW w \in 1 .. k - 1, pk < w PROVE picks[w] = 0
    <3>1. picks[w] # 0 => k - w \in Gaps
      OBVIOUS
    <3>2. picks[w] # 0 => k - pk <= k - w
      BY <2>1, <2>2, <3>1
    <3> QED
      BY <1>1, <2>2, <2>3, <3>2
  <2> DEFINE pj == picks[pk]
  <2>4. pk \in DOMAIN ps /\ pk < k /\ pj \in DOMAIN ps[pk]
    BY <1>1, <1>3, <2>2
  <2>5. Follows(ps[k][j], ps[pk][pj])
    <3>1. pk \in ReachedIn(picks) /\ k \in ReachedIn(picks)
      BY <1>1, <1>2, <1>3, <2>2 DEF ReachedIn
    <3> QED
      BY <1>2, <2>4, <3>1 DEF EndsAt, InOrder, Precedes
  <2>6. /\ DOMAIN less = 1 .. Len(ps) /\ less[k] = 0
        /\ \A w \in DOMAIN ps : w # k => less[w] = picks[w]
    BY <1>1, <1>3
  <2>7. picks = [less EXCEPT ![k] = j]
    BY <1>1, <1>2, <1>3, <2>6
  <2>8. less \in Assignments(ps)
    <3>1. 0 \in 0 .. MaxPasses /\ 0 <= Len(ps[k])
      BY RecordingFacts, AssignAssumptions DEF AssignAssumptions
    <3>2. picks \in [DOMAIN ps -> 0 .. MaxPasses] /\ \A w \in DOMAIN ps : picks[w] <= Len(ps[w])
      BY <1>2 DEF Assignments
    <3>3. \A w \in DOMAIN ps : less[w] <= Len(ps[w])
      BY <2>6, <3>1, <3>2
    <3> QED
      BY <3>1, <3>2, <3>3 DEF Assignments
  <2>9. InOrder(ps, less, "forward")
    <3>1. ReachedIn(less) \subseteq ReachedIn(picks) /\ k \notin ReachedIn(less)
      BY <1>1, <1>3, <2>6 DEF ReachedIn
    <3>2. \A w \in ReachedIn(less) : less[w] = picks[w]
      BY <1>1, <2>6, <3>1 DEF ReachedIn
    <3> HIDE DEF less
    <3> QED
      BY <3>1, <3>2 DEF EndsAt, InOrder
  <2>10. \A w \in DOMAIN ps : w > pk => less[w] = 0
    <3> SUFFICES ASSUME NEW w \in DOMAIN ps, w > pk PROVE less[w] = 0
      OBVIOUS
    <3>1. CASE w < k
      BY <1>1, <2>3, <2>6, <3>1
    <3>2. CASE w = k
      BY <2>6, <3>2
    <3>3. CASE w > k
      BY <2>6, <3>3 DEF EndsAt
    <3> QED
      BY <1>1, <3>1, <3>2, <3>3
  <2>11. less[pk] = pj
    BY <2>4, <2>6
  <2>12. EndsAt(ps, less, pk, pj)
    BY <2>8, <2>9, <2>10, <2>11 DEF EndsAt
  <2> HIDE DEF less, pj
  <2> QED
    BY <2>4, <2>5, <2>6, <2>7, <2>12
<1> QED
  BY <1>4, <1>5

-----------------------------------------------------------------------------
(* The table of the dynamic program *)

Chain(ps) == [matched : Nat, dist : Nat, from : Nat \X Nat, picks : Assignments(ps)]

(* c is an assignment that ends with k taking j, and none such is better. *)
BestAt(ps, c, k, j) ==
  /\ c \in Chain(ps)
  /\ EndsAt(ps, c.picks, k, j)
  /\ HasFitOf(ps, c.picks, c.matched, c.dist)
  /\ \A picks : EndsAt(ps, picks, k, j) => ~ Better(FitOf(ps, picks), c)

(* The first n rows are there, each with the best chain of every pass. *)
RowsBest(ps, best, n) ==
  /\ (\E S : best \in Seq(S)) /\ Len(best) = n
  /\ \A k \in 1 .. n : \A j \in DOMAIN ps[k] : BestAt(ps, best[k][j], k, j)

LEMMA FitOfChain ==
  ASSUME NEW ps, IsRecording(ps), NEW c, NEW picks \in Assignments(ps),
         HasFitOf(ps, picks, c.matched, c.dist)
  PROVE  /\ c.matched \in 0 .. Len(ps) /\ c.dist \in Nat /\ HasFit(c)
         /\ HasFit(FitOf(ps, picks))
<1>1. c.matched = FitOf(ps, picks).matched /\ c.dist = FitOf(ps, picks).dist
  BY DEF HasFitOf
<1>2. FitOf(ps, picks).matched \in 0 .. Len(ps) /\ FitOf(ps, picks).dist \in Nat
  BY FitOfType
<1>3. Len(ps) \in Nat
  BY RecordingFacts
<1> QED
  BY <1>1, <1>2, <1>3 DEF HasFit

LEMMA EarlierFacts ==
  ASSUME NEW ps, IsRecording(ps), NEW k \in DOMAIN ps, NEW j \in DOMAIN ps[k]
  PROVE  \A s : s \in Earlier(ps, k, j) <=>
           \E pk \in DOMAIN ps : \E pj \in DOMAIN ps[pk] :
             pk < k /\ Follows(ps[k][j], ps[pk][pj]) /\ s = <<pk, pj>>
<1>1. Len(ps) \in Nat /\ DOMAIN ps = 1 .. Len(ps)
  BY RecordingFacts
<1>2. ASSUME NEW s, s \in Earlier(ps, k, j)
      PROVE  \E pk \in DOMAIN ps : \E pj \in DOMAIN ps[pk] :
               pk < k /\ Follows(ps[k][j], ps[pk][pj]) /\ s = <<pk, pj>>
  BY <1>1, <1>2 DEF Earlier
<1>3. ASSUME NEW pk \in DOMAIN ps, NEW pj \in DOMAIN ps[pk],
             pk < k, Follows(ps[k][j], ps[pk][pj])
      PROVE  <<pk, pj>> \in Earlier(ps, k, j)
  <2>1. pk \in 1 .. k - 1
    BY <1>1, <1>3
  <2> QED
    BY <1>3, <2>1 DEF Earlier
<1> QED
  BY <1>2, <1>3

LEMMA ChainShape ==
  ASSUME NEW ps, NEW matched \in Nat, NEW dist \in Nat, NEW from \in Nat \X Nat,
         NEW picks \in Assignments(ps)
  PROVE  [matched |-> matched, dist |-> dist, from |-> from, picks |-> picks] \in Chain(ps)
BY DEF Chain

LEMMA ExtendedFacts ==
  ASSUME NEW ps, IsRecording(ps), NEW k \in DOMAIN ps, NEW j \in DOMAIN ps[k],
         NEW best, RowsBest(ps, best, k - 1), NEW pk \in DOMAIN ps, NEW pj \in DOMAIN ps[pk],
         pk < k, Follows(ps[k][j], ps[pk][pj]),
         NEW before, before = best[pk][pj],
         NEW c, c = Extended(ps, best, k, j, <<pk, pj>>)
  PROVE  /\ c.matched = before.matched + 1 /\ c.dist = before.dist + ps[k][j].dist
         /\ c.from = <<pk, pj>> /\ c \in Chain(ps)
         /\ BestAt(ps, before, pk, pj) /\ HasFit(before)
         /\ EndsAt(ps, c.picks, k, j)
         /\ HasFitOf(ps, c.picks, c.matched, c.dist)
<1>1. Len(ps) \in Nat /\ DOMAIN ps = 1 .. Len(ps) /\ ps[k][j].dist \in Nat
  BY RecordingFacts
<1>2. BestAt(ps, before, pk, pj)
  <2>1. pk \in 1 .. k - 1
    BY <1>1
  <2> QED
    BY <2>1 DEF RowsBest
<1>3. c = [matched |-> before.matched + 1, dist |-> before.dist + ps[k][j].dist,
           from |-> <<pk, pj>>, picks |-> [before.picks EXCEPT ![k] = j]]
  BY DEF Extended
<1>4. c.matched = before.matched + 1 /\ c.dist = before.dist + ps[k][j].dist
      /\ c.from = <<pk, pj>> /\ c.picks = [before.picks EXCEPT ![k] = j]
  BY <1>3
<1>5. EndsAt(ps, before.picks, pk, pj) /\ before.picks \in Assignments(ps)
  BY <1>2 DEF BestAt, EndsAt
<1>6. HasFitOf(ps, before.picks, before.matched, before.dist)
  BY <1>2 DEF BestAt
<1>7. HasFit(before)
  BY <1>5, <1>6, FitOfChain
<1>8. before.picks[k] = 0 /\ EndsAt(ps, c.picks, k, j)
  BY <1>4, <1>5, EndsExtended
<1>9. HasFitOf(ps, c.picks, c.matched, c.dist)
  <2>1. HasFitOf(ps, c.picks, FitOf(ps, before.picks).matched + 1,
                 FitOf(ps, before.picks).dist + ps[k][j].dist)
    BY <1>4, <1>5, <1>8, FitOfOneMore
  <2>2. /\ FitOf(ps, before.picks).matched = before.matched
        /\ FitOf(ps, before.picks).dist = before.dist
    BY <1>6 DEF HasFitOf
  <2> QED
    BY <1>4, <2>1, <2>2 DEF HasFitOf
<1>10. c \in Chain(ps)
  <2>1. before \in Chain(ps) /\ c.picks \in Assignments(ps)
    BY <1>2, <1>8 DEF BestAt, EndsAt
  <2>2. pk \in Nat /\ pj \in Nat
    BY <1>1, RecordingFacts
  <2>3. before.matched + 1 \in Nat /\ before.dist + ps[k][j].dist \in Nat
    <3>1. before.matched \in Nat /\ before.dist \in Nat /\ ps[k][j].dist \in Nat
      BY <1>1, <1>7 DEF HasFit
    <3> QED
      BY ONLY <3>1
  <2>4. /\ c.matched \in Nat /\ c.dist \in Nat /\ c.from \in Nat \X Nat
        /\ c.picks \in Assignments(ps)
    BY <1>4, <2>1, <2>2, <2>3
  <2>5. c = [matched |-> c.matched, dist |-> c.dist, from |-> c.from, picks |-> c.picks]
    BY <1>3
  <2>6. [matched |-> c.matched, dist |-> c.dist, from |-> c.from, picks |-> c.picks] \in Chain(ps)
    BY ONLY <2>4, ChainShape
  <2> QED
    BY ONLY <2>5, <2>6
<1> QED
  BY <1>2, <1>4, <1>7, <1>8, <1>9, <1>10

(***************************************************************************)
(* The optimal substructure: the best chain that ends here is this pass    *)
(* alone or extends a best chain that ends before it.                      *)
(***************************************************************************)
LEMMA BestChainIsBest ==
  ASSUME NEW ps, IsRecording(ps), NEW k \in DOMAIN ps, NEW j \in DOMAIN ps[k],
         NEW best, RowsBest(ps, best, k - 1)
  PROVE  BestAt(ps, BestChain(ps, best, k, j), k, j)
<1> DEFINE alone == Alone(ps, k, j)
           extended == {Extended(ps, best, k, j, s) : s \in Earlier(ps, k, j)}
           C == {alone} \cup extended
           b == FirstBest(C)
<1>1. Len(ps) \in Nat /\ DOMAIN ps = 1 .. Len(ps) /\ ps[k][j].dist \in Nat
  BY RecordingFacts
<1>2. alone.matched = 1 /\ alone.dist = ps[k][j].dist /\ alone.from = <<0, 0>>
  BY DEF Alone
<1>3. EndsAt(ps, alone.picks, k, j)
      /\ HasFitOf(ps, alone.picks, alone.matched, alone.dist)
  <2>1. /\ EndsAt(ps, alone.picks, k, j)
        /\ HasFitOf(ps, alone.picks, 1, ps[k][j].dist)
    BY EndsAlone
  <2> HIDE DEF alone
  <2> QED
    BY <1>2, <2>1
<1>4. ASSUME NEW c \in extended
      PROVE  \E pk \in DOMAIN ps : \E pj \in DOMAIN ps[pk] :
               /\ pk < k /\ Follows(ps[k][j], ps[pk][pj])
               /\ c = Extended(ps, best, k, j, <<pk, pj>>) /\ c.from = <<pk, pj>>
               /\ pk \in Nat \ {0} /\ pj \in Nat
  <2>1. PICK s \in Earlier(ps, k, j) : c = Extended(ps, best, k, j, s)
    OBVIOUS
  <2>2. PICK pk \in DOMAIN ps : \E pj \in DOMAIN ps[pk] :
          pk < k /\ Follows(ps[k][j], ps[pk][pj]) /\ s = <<pk, pj>>
    BY EarlierFacts
  <2>3. PICK pj \in DOMAIN ps[pk] :
          pk < k /\ Follows(ps[k][j], ps[pk][pj]) /\ s = <<pk, pj>>
    BY <2>2
  <2>4. pk \in Nat \ {0} /\ pj \in Nat
    BY <1>1, RecordingFacts
  <2>5. c.from = s
    BY <2>1 DEF Extended
  <2> QED
    BY <2>1, <2>3, <2>4, <2>5
<1> HIDE DEF alone, extended
<1>5. ASSUME NEW c \in C
      PROVE  /\ EndsAt(ps, c.picks, k, j)
             /\ HasFitOf(ps, c.picks, c.matched, c.dist)
             /\ c \in Chain(ps)
  <2>1. CASE c = alone
    <3>1. alone \in Chain(ps)
      <4>1. alone.picks \in Assignments(ps)
        BY <1>3 DEF EndsAt
      <4> QED
        BY <1>1, <4>1 DEF alone, Alone, Chain
    <3> HIDE DEF C
    <3> QED
      BY <1>2, <1>3, <2>1, <3>1
  <2>2. CASE c \in extended
    <3> HIDE DEF C
    <3>1. PICK pk \in DOMAIN ps : \E pj \in DOMAIN ps[pk] :
               /\ pk < k /\ Follows(ps[k][j], ps[pk][pj])
               /\ c = Extended(ps, best, k, j, <<pk, pj>>) /\ c.from = <<pk, pj>>
               /\ pk \in Nat \ {0} /\ pj \in Nat
      BY <1>4, <2>2
    <3>2. PICK pj \in DOMAIN ps[pk] :
               /\ pk < k /\ Follows(ps[k][j], ps[pk][pj])
               /\ c = Extended(ps, best, k, j, <<pk, pj>>) /\ c.from = <<pk, pj>>
               /\ pk \in Nat \ {0} /\ pj \in Nat
      BY <3>1
    <3>3. /\ EndsAt(ps, c.picks, k, j) /\ c \in Chain(ps)
          /\ HasFitOf(ps, c.picks, c.matched, c.dist)
      BY <3>2, ExtendedFacts
    <3> QED
      BY <3>2, <3>3
  <2> QED
    BY <2>1, <2>2
<1>6. ASSUME NEW c \in C
      PROVE  c.matched \in 0 .. Len(ps) /\ c.dist \in Nat /\ HasFit(c) /\ c.from \in Nat \X Nat
  BY <1>5, FitOfChain DEF EndsAt, Chain
<1>7. ASSUME NEW c \in C, NEW d \in C, c.from = d.from PROVE c = d
  <2>1. ASSUME NEW e \in extended PROVE e.from # <<0, 0>>
    <3>1. PICK pk \in Nat \ {0}, pj \in Nat : e.from = <<pk, pj>>
      BY <1>4
    <3>2. <<pk, pj>>[1] = pk /\ <<0, 0>>[1] = 0
      OBVIOUS
    <3> QED
      BY <3>1, <3>2
  <2>2. c \in extended => d \in extended
    BY <1>2, <1>7, <2>1
  <2>3. d \in extended => c \in extended
    BY <1>2, <1>7, <2>1
  <2>4. CASE c \in extended /\ d \in extended
    <3>1. \A e \in extended : e = Extended(ps, best, k, j, e.from)
      BY <1>4
    <3> HIDE DEF C
    <3>2. c = Extended(ps, best, k, j, c.from) /\ d = Extended(ps, best, k, j, d.from)
      BY <2>4, <3>1
    <3> QED
      BY <1>7, <3>2
  <2>5. CASE c = alone /\ d = alone
    BY <2>5
  <2> QED
    BY <2>2, <2>3, <2>4, <2>5
<1>8. b \in C /\ \A d \in C : ~ Better(d, b)
  <2> HIDE DEF C
  <2>1. C # {}
    BY DEF C
  <2> QED
    BY <1>1, <1>6, <1>7, <2>1, FirstBestIsBest
<1> HIDE DEF b
<1>9. ASSUME NEW picks, EndsAt(ps, picks, k, j)
      PROVE  ~ Better(FitOf(ps, picks), b)
  <2>1. HasFit(FitOf(ps, picks)) /\ HasFit(b)
    BY <1>6, <1>8, <1>9, FitOfType, RecordingFacts DEF EndsAt, HasFit
  <2>2. CASE picks = alone.picks
    <3>1. alone \in C /\ HasFit(alone)
      BY <1>6
    <3>2. ~ Better(FitOf(ps, picks), alone)
      <4>1. FitOf(ps, picks).matched = alone.matched /\ FitOf(ps, picks).dist = alone.dist
        BY <1>3, <2>2 DEF HasFitOf
      <4> QED
        BY <2>1, <4>1 DEF Better, HasFit
    <3> QED
      BY <1>8, <2>1, <3>1, <3>2, NotBetterIsTransitive
  <2>3. CASE picks # alone.picks
    <3>1. PICK pk \in DOMAIN ps : \E pj \in DOMAIN ps[pk] : \E less :
              /\ pk < k /\ Follows(ps[k][j], ps[pk][pj])
              /\ EndsAt(ps, less, pk, pj) /\ picks = [less EXCEPT ![k] = j] /\ less[k] = 0
      BY <1>9, <2>3, EndsShortened DEF alone
    <3>2. PICK pj \in DOMAIN ps[pk] : \E less :
              /\ pk < k /\ Follows(ps[k][j], ps[pk][pj])
              /\ EndsAt(ps, less, pk, pj) /\ picks = [less EXCEPT ![k] = j] /\ less[k] = 0
      BY <3>1
    <3>3. PICK less :
              /\ pk < k /\ Follows(ps[k][j], ps[pk][pj])
              /\ EndsAt(ps, less, pk, pj) /\ picks = [less EXCEPT ![k] = j] /\ less[k] = 0
      BY <3>2
    <3> DEFINE before == best[pk][pj]
               c == Extended(ps, best, k, j, <<pk, pj>>)
    <3>4. c \in C
      <4>1. <<pk, pj>> \in Earlier(ps, k, j)
        BY <3>3, EarlierFacts
      <4> QED
        BY <4>1 DEF extended
    <3> HIDE DEF before, c, C
    <3>5. before = best[pk][pj] /\ c = Extended(ps, best, k, j, <<pk, pj>>)
      BY DEF before, c
    <3>6. /\ c.matched = before.matched + 1 /\ c.dist = before.dist + ps[k][j].dist
          /\ BestAt(ps, before, pk, pj) /\ HasFit(before)
      <4>1. pk < k /\ Follows(ps[k][j], ps[pk][pj])
        BY <3>3
      <4> QED
        BY <3>5, <4>1, ExtendedFacts
    <3>7. less \in Assignments(ps)
      BY <3>3 DEF EndsAt
    <3>8. ~ Better(FitOf(ps, less), before)
      BY <3>3, <3>6 DEF BestAt
    <3>9. HasFitOf(ps, picks, FitOf(ps, less).matched + 1,
                   FitOf(ps, less).dist + ps[k][j].dist)
      BY <3>3, <3>7, FitOfOneMore
    <3>10. FitOf(ps, picks).matched = FitOf(ps, less).matched + 1
           /\ FitOf(ps, picks).dist = FitOf(ps, less).dist + ps[k][j].dist
      BY <3>9 DEF HasFitOf
    <3>11. HasFit(FitOf(ps, less))
      BY <3>7, FitOfType, RecordingFacts DEF HasFit
    <3>12. ~ Better(FitOf(ps, picks), c)
      BY <1>1, <3>6, <3>8, <3>10, <3>11, NotBetterExtended
    <3> QED
      BY <1>6, <1>8, <2>1, <3>4, <3>12, NotBetterIsTransitive
  <2> QED
    BY <2>2, <2>3
<1>10. BestAt(ps, b, k, j)
  BY <1>5, <1>8, <1>9 DEF BestAt
<1> QED
  BY <1>10 DEF BestChain, b, alone, extended

IsTable(ps, n, g) == g = [k \in 0 .. n |-> IF k = 0 THEN <<>> ELSE WithNext(ps, g[k - 1], k)]

LEMMA ChainsIsChosen ==
  ASSUME NEW ps
  PROVE  Chains(ps) = (CHOOSE g : IsTable(ps, Len(ps), g))[Len(ps)]
BY DEF Chains, IsTable

LEMMA TableExists ==
  ASSUME NEW ps, NEW n \in Nat
  PROVE  \E g : IsTable(ps, n, g)
<1> DEFINE S == {m \in Nat : \E g : IsTable(ps, m, g)}
<1>1. 0 \in S
  <2> DEFINE g == [k \in 0 .. 0 |-> <<>>]
  <2>1. g = [k \in 0 .. 0 |-> IF k = 0 THEN <<>> ELSE WithNext(ps, g[k - 1], k)]
    OBVIOUS
  <2> QED
    BY <2>1 DEF IsTable
<1>2. ASSUME NEW m \in Nat, m \in S PROVE m + 1 \in S
  <2>1. PICK g : IsTable(ps, m, g)
    BY <1>2
  <2> DEFINE h == [k \in 0 .. m + 1 |-> IF k = m + 1 THEN WithNext(ps, g[m], m + 1) ELSE g[k]]
  <2>2. \A k \in 0 .. m + 1 : h[k] = IF k = 0 THEN <<>> ELSE WithNext(ps, h[k - 1], k)
    BY <2>1 DEF IsTable
  <2>3. h = [k \in 0 .. m + 1 |-> IF k = 0 THEN <<>> ELSE WithNext(ps, h[k - 1], k)]
    BY <2>2
  <2> HIDE DEF h
  <2>4. IsTable(ps, m + 1, h)
    BY <2>3 DEF IsTable
  <2> QED
    BY <2>4
<1>3. Nat \subseteq S
  <2> HIDE DEF S
  <2> QED
    BY <1>1, <1>2, InSteps
<1> QED
  BY <1>3

LEMMA NextRowIsBest ==
  ASSUME NEW ps, IsRecording(ps), NEW k \in DOMAIN ps, NEW best, RowsBest(ps, best, k - 1)
  PROVE  RowsBest(ps, WithNext(ps, best, k), k)
<1> DEFINE row == [j \in DOMAIN ps[k] |-> BestChain(ps, best, k, j)]
           more == Append(best, row)
<1>1. Len(ps) \in Nat /\ DOMAIN ps = 1 .. Len(ps)
  BY RecordingFacts
<1>2. PICK S : best \in Seq(S)
  BY DEF RowsBest
<1>3. Len(best) = k - 1
  BY DEF RowsBest
<1> HIDE DEF row
<1>4. more \in Seq(S \cup {row}) /\ Len(more) = k /\ more[k] = row
      /\ \A i \in 1 .. k - 1 : more[i] = best[i]
  <2>1. best \in Seq(S \cup {row})
    BY <1>2
  <2> QED
    BY <1>1, <1>3, <2>1
<1>5. ASSUME NEW i \in 1 .. k, NEW j \in DOMAIN ps[i]
      PROVE  BestAt(ps, more[i][j], i, j)
  <2>1. CASE i = k
    BY <1>4, <2>1, BestChainIsBest DEF row
  <2>2. CASE i # k
    <3>1. i \in 1 .. k - 1
      BY <1>1, <2>2
    <3> QED
      BY <1>4, <3>1 DEF RowsBest
  <2> QED
    BY <2>1, <2>2
<1> HIDE DEF more
<1>6. RowsBest(ps, more, k)
  BY <1>4, <1>5 DEF RowsBest
<1> QED
  BY <1>6 DEF WithNext, more, row

LEMMA ChainsAreBest ==
  ASSUME NEW ps, IsRecording(ps)
  PROVE  RowsBest(ps, Chains(ps), Len(ps))
<1> DEFINE n == Len(ps)
           g == CHOOSE g : IsTable(ps, n, g)
           S == {k \in Nat : RowsBest(ps, g[k], k)}
<1>1. n \in Nat /\ DOMAIN ps = 1 .. n
  BY RecordingFacts
<1>2. IsTable(ps, n, g)
  BY <1>1, TableExists
<1>3. Chains(ps) = g[n]
  BY ChainsIsChosen
<1> HIDE DEF n, g
<1>4. 0 \in S
  <2>1. g[0] = <<>>
    BY <1>1, <1>2 DEF IsTable
  <2>2. <<>> \in Seq({}) /\ Len(<<>>) = 0
    OBVIOUS
  <2>3. RowsBest(ps, g[0], 0)
    BY <2>1, <2>2 DEF RowsBest
  <2> QED
    BY <2>3
<1>5. ASSUME NEW k \in 0 .. n - 1, k \in S PROVE k + 1 \in S
  <2>1. k + 1 \in 0 .. n /\ k + 1 # 0 /\ (k + 1) - 1 = k /\ k + 1 \in DOMAIN ps
    BY <1>1
  <2>2. g[k + 1] = WithNext(ps, g[k], k + 1)
    BY <1>2, <2>1 DEF IsTable
  <2>3. RowsBest(ps, g[k], (k + 1) - 1)
    BY <1>5, <2>1
  <2>4. RowsBest(ps, g[k + 1], k + 1)
    BY <2>1, <2>2, <2>3, NextRowIsBest
  <2> QED
    BY <1>1, <2>4
<1>6. 0 .. n \subseteq S
  <2> HIDE DEF S
  <2> QED
    BY <1>1, <1>4, <1>5, InStepsUpTo
<1>7. n \in S
  BY <1>1, <1>6
<1> QED
  BY <1>3, <1>7 DEF n

(* An assignment reaches nothing, or has a last waypoint. *)
LEMMA EndsSomewhere ==
  ASSUME NEW ps, IsRecording(ps), NEW picks \in Assignments(ps), InOrder(ps, picks, "forward")
  PROVE  \/ picks = Nothing(ps)
         \/ \E k \in DOMAIN ps : picks[k] \in DOMAIN ps[k] /\ EndsAt(ps, picks, k, picks[k])
<1> DEFINE n == Len(ps)
           Gaps == {n - w : w \in {x \in 1 .. n : picks[x] # 0}}
<1>1. n \in Nat /\ DOMAIN ps = 1 .. n
  BY RecordingFacts
<1>2. /\ DOMAIN picks = 1 .. n /\ picks \in [1 .. n -> Nat]
      /\ \A w \in DOMAIN ps : picks[w] # 0 => picks[w] \in DOMAIN ps[w]
  BY AssignmentFacts
<1> HIDE DEF n
<1>3. CASE Gaps = {}
  <2>1. \A w \in 1 .. n : picks[w] = 0
    BY <1>3
  <2> QED
    BY <1>1, <1>2, <2>1 DEF Nothing
<1>4. CASE Gaps # {}
  <2>1. PICK gap \in Gaps : \A g \in Gaps : gap <= g
    <3>1. Gaps \in SUBSET Nat
      BY <1>1
    <3> HIDE DEF Gaps
    <3> QED
      BY <1>4, <3>1, LeastMember
  <2>2. PICK k \in 1 .. n : picks[k] # 0 /\ gap = n - k
    BY <2>1
  <2>3. ASSUME NEW w \in DOMAIN ps, w > k PROVE picks[w] = 0
    <3>1. picks[w] # 0 => n - w \in Gaps
      BY <1>1
    <3>2. picks[w] # 0 => n - k <= n - w
      BY <2>1, <2>2, <3>1
    <3> QED
      BY <1>1, <2>2, <2>3, <3>2
  <2>4. EndsAt(ps, picks, k, picks[k])
    BY <2>3 DEF EndsAt
  <2> QED
    BY <1>1, <1>2, <2>2, <2>4
<1> QED
  BY <1>3, <1>4

(***************************************************************************)
(* The dynamic program is exact for any number of waypoints and passes.    *)
(***************************************************************************)
IsExact(ps, dir, c) ==
  /\ c.picks \in Assignments(ps) /\ InOrder(ps, c.picks, dir)
  /\ HasFitOf(ps, c.picks, c.matched, c.dist)
  /\ \A picks \in Assignments(ps) :
       InOrder(ps, picks, dir) => ~ Better(FitOf(ps, picks), c)

LEMMA AssignPassesIsExact ==
  ASSUME NEW ps, IsRecording(ps)
  PROVE  IsExact(ps, "forward", AssignPasses(ps))
<1> DEFINE n == Len(ps)
           best == Chains(ps)
           C == {None(ps)} \cup Ends(ps, best)
           end == FirstBest(C)
<1>1. n \in Nat /\ DOMAIN ps = 1 .. n
  BY RecordingFacts
<1>2. RowsBest(ps, best, n)
  BY ChainsAreBest
<1> HIDE DEF best, n
<1>3. /\ None(ps).matched = 0 /\ None(ps).dist = 0 /\ None(ps).from = <<0, 0>>
      /\ None(ps).picks = Nothing(ps)
  BY DEF None, Nothing
<1>4. ASSUME NEW c \in Ends(ps, best)
      PROVE  \E k \in DOMAIN ps : \E j \in DOMAIN ps[k] :
               c = [best[k][j] EXCEPT !.from = <<k, j>>]
  BY DEF Ends
<1>5. ASSUME NEW k \in DOMAIN ps, NEW j \in DOMAIN ps[k]
      PROVE  LET c == [best[k][j] EXCEPT !.from = <<k, j>>]
             IN  /\ BestAt(ps, best[k][j], k, j) /\ best[k][j] \in Chain(ps)
                 /\ c.matched = best[k][j].matched /\ c.dist = best[k][j].dist
                 /\ c.picks = best[k][j].picks /\ c.from = <<k, j>>
                 /\ k \in Nat \ {0} /\ j \in Nat
  <2>1. BestAt(ps, best[k][j], k, j)
    BY <1>1, <1>2 DEF RowsBest
  <2>2. best[k][j] \in Chain(ps)
    BY <2>1 DEF BestAt
  <2>3. k \in Nat \ {0} /\ j \in Nat
    BY <1>1, RecordingFacts
  <2> QED
    BY <2>1, <2>2, <2>3 DEF Chain
<1>6. ASSUME NEW c \in C
      PROVE  /\ c.picks \in Assignments(ps) /\ InOrder(ps, c.picks, "forward")
             /\ HasFitOf(ps, c.picks, c.matched, c.dist)
             /\ c.from \in Nat \X Nat
  <2>1. CASE c = None(ps)
    <3>1. <<0, 0>> \in Nat \X Nat
      OBVIOUS
    <3> QED
      BY <1>3, <2>1, <3>1, FitOfNothing
  <2>2. CASE c \in Ends(ps, best)
    <3>1. PICK k \in DOMAIN ps : \E j \in DOMAIN ps[k] :
            c = [best[k][j] EXCEPT !.from = <<k, j>>]
      BY <1>4, <2>2
    <3>2. PICK j \in DOMAIN ps[k] : c = [best[k][j] EXCEPT !.from = <<k, j>>]
      BY <3>1
    <3>3. /\ BestAt(ps, best[k][j], k, j) /\ c.from = <<k, j>> /\ k \in Nat /\ j \in Nat
          /\ c.matched = best[k][j].matched /\ c.dist = best[k][j].dist
          /\ c.picks = best[k][j].picks
      BY <1>5, <3>2
    <3> QED
      BY <3>3 DEF BestAt, EndsAt
  <2> QED
    BY <2>1, <2>2
<1>7. ASSUME NEW c \in C PROVE c.matched \in 0 .. n /\ c.dist \in Nat /\ HasFit(c)
  BY <1>6, FitOfChain DEF n
<1>8. ASSUME NEW c \in C, NEW d \in C, c.from = d.from PROVE c = d
  <2>1. ASSUME NEW e \in Ends(ps, best)
        PROVE  /\ e.from # <<0, 0>>
               /\ e = [best[e.from[1]][e.from[2]] EXCEPT !.from = e.from]
    <3>1. PICK k \in DOMAIN ps : \E j \in DOMAIN ps[k] :
            e = [best[k][j] EXCEPT !.from = <<k, j>>]
      BY <1>4
    <3>2. PICK j \in DOMAIN ps[k] : e = [best[k][j] EXCEPT !.from = <<k, j>>]
      BY <3>1
    <3>3. e.from = <<k, j>> /\ k # 0
      BY <1>5, <3>2
    <3>4. <<k, j>>[1] = k /\ <<k, j>>[2] = j /\ <<0, 0>>[1] = 0
      OBVIOUS
    <3> QED
      BY <3>2, <3>3, <3>4
  <2>2. c \in Ends(ps, best) => d \in Ends(ps, best)
    BY <1>3, <1>8, <2>1
  <2>3. d \in Ends(ps, best) => c \in Ends(ps, best)
    BY <1>3, <1>8, <2>1
  <2>4. CASE c \in Ends(ps, best) /\ d \in Ends(ps, best)
    <3>1. c = [best[c.from[1]][c.from[2]] EXCEPT !.from = c.from]
      BY <2>1, <2>4
    <3>2. d = [best[d.from[1]][d.from[2]] EXCEPT !.from = d.from]
      BY <2>1, <2>4
    <3> QED
      BY <1>8, <3>1, <3>2
  <2>5. CASE c = None(ps) /\ d = None(ps)
    BY <2>5
  <2> QED
    BY <2>2, <2>3, <2>4, <2>5
<1>9. end \in C /\ \A d \in C : ~ Better(d, end)
  <2> HIDE DEF C
  <2>1. C # {}
    BY DEF C
  <2> QED
    BY <1>1, <1>6, <1>7, <1>8, <2>1, FirstBestIsBest
<1> HIDE DEF end
<1>10. ASSUME NEW picks \in Assignments(ps), InOrder(ps, picks, "forward")
       PROVE  ~ Better(FitOf(ps, picks), end)
  <2>1. HasFit(FitOf(ps, picks)) /\ HasFit(end)
    <3>1. FitOf(ps, picks).matched \in 0 .. n /\ FitOf(ps, picks).dist \in Nat
      BY FitOfType DEF n
    <3> QED
      BY <1>1, <1>7, <1>9, <3>1 DEF HasFit
  <2>2. ASSUME NEW c \in C, ~ Better(FitOf(ps, picks), c) PROVE ~ Better(FitOf(ps, picks), end)
    BY <1>7, <1>9, <2>1, <2>2, NotBetterIsTransitive
  <2>3. CASE picks = Nothing(ps)
    <3>1. None(ps) \in C
      OBVIOUS
    <3>2. FitOf(ps, picks).matched = 0 /\ FitOf(ps, picks).dist = 0
      BY <2>3, FitOfNothing DEF HasFitOf
    <3>3. ~ Better(FitOf(ps, picks), None(ps))
      BY <1>3, <3>2 DEF Better
    <3> QED
      BY <2>2, <3>1, <3>3
  <2>4. CASE picks # Nothing(ps)
    <3>1. PICK k \in DOMAIN ps : picks[k] \in DOMAIN ps[k] /\ EndsAt(ps, picks, k, picks[k])
      BY <1>10, <2>4, EndsSomewhere
    <3> DEFINE j == picks[k]
               c == [best[k][j] EXCEPT !.from = <<k, j>>]
    <3>2. /\ BestAt(ps, best[k][j], k, j)
          /\ c.matched = best[k][j].matched /\ c.dist = best[k][j].dist
      BY <1>5, <3>1
    <3>3. c \in C
      BY <3>1 DEF Ends
    <3> HIDE DEF c, C
    <3>4. ~ Better(FitOf(ps, picks), best[k][j])
      BY <3>1, <3>2 DEF BestAt
    <3>5. ~ Better(FitOf(ps, picks), c)
      BY <3>2, <3>4 DEF Better
    <3> QED
      BY <2>2, <3>3, <3>5
  <2> QED
    BY <2>3, <2>4
<1>11. AssignPasses(ps) = [matched |-> end.matched, dist |-> end.dist, picks |-> end.picks]
  BY DEF AssignPasses, end, best
<1>12. /\ AssignPasses(ps).matched = end.matched /\ AssignPasses(ps).dist = end.dist
       /\ AssignPasses(ps).picks = end.picks
  BY <1>11
<1>13. \A picks \in Assignments(ps) :
         InOrder(ps, picks, "forward") => ~ Better(FitOf(ps, picks), AssignPasses(ps))
  BY <1>10, <1>12 DEF Better
<1> QED
  BY <1>6, <1>9, <1>12, <1>13 DEF IsExact

-----------------------------------------------------------------------------
(* Both directions *)

Opposite(dir) == IF dir = "forward" THEN "reverse" ELSE "forward"

LEMMA SequencesAreFunctions ==
  ASSUME NEW S, NEW n \in Nat, NEW s
  PROVE  s \in [1 .. n -> S] <=> s \in Seq(S) /\ Len(s) = n
OBVIOUS

LEMMA ReverseFacts ==
  ASSUME NEW S, NEW s \in Seq(S)
  PROVE  /\ Reverse(s) \in Seq(S) /\ Len(Reverse(s)) = Len(s)
         /\ DOMAIN Reverse(s) = 1 .. Len(s)
         /\ \A i \in 1 .. Len(s) : Reverse(s)[i] = s[Len(s) - i + 1]
         /\ Reverse(Reverse(s)) = s
<1>1. Len(s) \in Nat /\ DOMAIN s = 1 .. Len(s)
  OBVIOUS
<1>2. \A i \in 1 .. Len(s) : Len(s) - i + 1 \in 1 .. Len(s) /\ s[Len(s) - i + 1] \in S
  BY <1>1
<1>3. /\ Reverse(s) \in Seq(S) /\ DOMAIN Reverse(s) = 1 .. Len(s) /\ Len(Reverse(s)) = Len(s)
      /\ \A i \in 1 .. Len(s) : Reverse(s)[i] = s[Len(s) - i + 1]
  BY <1>1, <1>2 DEF Reverse
<1>4. \A i \in 1 .. Len(s) : Reverse(Reverse(s))[i] = s[i]
  <2> SUFFICES ASSUME NEW i \in 1 .. Len(s) PROVE Reverse(Reverse(s))[i] = s[i]
    OBVIOUS
  <2> DEFINE r == Reverse(s)
  <2>1. Reverse(r)[i] = r[Len(s) - i + 1]
    BY <1>3 DEF Reverse
  <2>2. r[Len(s) - i + 1] = s[Len(s) - (Len(s) - i + 1) + 1]
    BY <1>2, <1>3
  <2>3. Len(s) - (Len(s) - i + 1) + 1 = i
    BY <1>1
  <2> QED
    BY <2>1, <2>2, <2>3
<1>5. DOMAIN Reverse(Reverse(s)) = 1 .. Len(s)
      /\ Reverse(Reverse(s)) = [i \in 1 .. Len(s) |-> Reverse(Reverse(s))[i]]
  BY <1>3 DEF Reverse
<1>6. s = [i \in 1 .. Len(s) |-> s[i]]
  BY <1>1
<1> QED
  BY <1>3, <1>4, <1>5, <1>6

LEMMA ReversedRecording ==
  ASSUME NEW ps, IsRecording(ps)
  PROVE  /\ IsRecording(Reverse(ps)) /\ Len(Reverse(ps)) = Len(ps)
         /\ DOMAIN Reverse(ps) = 1 .. Len(ps)
         /\ \A w \in 1 .. Len(ps) : Reverse(ps)[w] = ps[Len(ps) - w + 1]
         /\ Reverse(Reverse(ps)) = ps
<1>1. ps \in Seq(Seq(Visit))
  BY DEF IsRecording
<1>2. Len(ps) \in Nat /\ DOMAIN ps = 1 .. Len(ps)
  BY RecordingFacts
<1>3. /\ Reverse(ps) \in Seq(Seq(Visit)) /\ Len(Reverse(ps)) = Len(ps)
      /\ DOMAIN Reverse(ps) = 1 .. Len(ps)
      /\ \A w \in 1 .. Len(ps) : Reverse(ps)[w] = ps[Len(ps) - w + 1]
      /\ Reverse(Reverse(ps)) = ps
  BY <1>1, ReverseFacts
<1>4. \A w \in 1 .. Len(ps) : Len(ps) - w + 1 \in DOMAIN ps
  BY <1>2
<1>5. ASSUME NEW w \in DOMAIN Reverse(ps)
      PROVE  /\ Len(Reverse(ps)[w]) <= MaxPasses
             /\ \A j \in DOMAIN Reverse(ps)[w] :
                  Reverse(ps)[w][j].enter <= Reverse(ps)[w][j].exit
  BY <1>3, <1>4 DEF IsRecording
<1> QED
  BY <1>3, <1>5 DEF IsRecording

(* Choices turned round with the waypoints run the other way and fit as    *)
(* well.                                                                   *)
LEMMA ReversedAssignment ==
  ASSUME NEW ps, IsRecording(ps), NEW picks \in Assignments(ps),
         NEW dir \in {"forward", "reverse"}, InOrder(ps, picks, dir)
  PROVE  /\ Reverse(picks) \in Assignments(Reverse(ps))
         /\ InOrder(Reverse(ps), Reverse(picks), Opposite(dir))
         /\ FitOf(Reverse(ps), Reverse(picks)) = FitOf(ps, picks)
<1> DEFINE n == Len(ps)
           at(w) == n - w + 1
           rps == Reverse(ps)
           rpicks == Reverse(picks)
<1>1. /\ n \in Nat /\ DOMAIN ps = 1 .. n
  BY RecordingFacts
<1>2. /\ IsRecording(rps) /\ Len(rps) = n /\ DOMAIN rps = 1 .. n
      /\ \A w \in 1 .. n : rps[w] = ps[at(w)]
  BY ReversedRecording
<1>3. picks \in Seq(0 .. MaxPasses) /\ Len(picks) = n /\ DOMAIN picks = 1 .. n
  <2>1. picks \in [1 .. n -> 0 .. MaxPasses]
    BY <1>1 DEF Assignments
  <2> QED
    BY <1>1, <2>1, SequencesAreFunctions
<1>4. /\ rpicks \in Seq(0 .. MaxPasses) /\ Len(rpicks) = n /\ DOMAIN rpicks = 1 .. n
      /\ \A w \in 1 .. n : rpicks[w] = picks[at(w)]
  BY <1>3, ReverseFacts
<1>5. \A w \in 1 .. n : at(w) \in 1 .. n
  BY <1>1
<1> HIDE DEF n, rps, rpicks
<1>6. rpicks \in Assignments(rps)
  <2>1. rpicks \in [1 .. n -> 0 .. MaxPasses]
    BY <1>1, <1>4, SequencesAreFunctions
  <2>2. \A w \in 1 .. n : picks[w] <= Len(ps[w])
    BY <1>1 DEF Assignments
  <2>3. \A w \in 1 .. n : rpicks[w] <= Len(rps[w])
    BY <1>2, <1>4, <1>5, <2>2
  <2> QED
    BY <1>2, <2>1, <2>3 DEF Assignments
<1>7. InOrder(rps, rpicks, Opposite(dir))
  <2> SUFFICES ASSUME NEW a \in ReachedIn(rpicks), NEW b \in ReachedIn(rpicks),
                      Precedes(Opposite(dir), a, b)
               PROVE  Follows(rps[b][rpicks[b]], rps[a][rpicks[a]])
    BY DEF InOrder
  <2>1. a \in 1 .. n /\ b \in 1 .. n
    BY <1>4 DEF ReachedIn
  <2>2. at(a) \in ReachedIn(picks) /\ at(b) \in ReachedIn(picks)
    BY <1>3, <1>4, <1>5, <2>1 DEF ReachedIn
  <2>3. Precedes(dir, at(a), at(b))
    BY <1>1, <2>1 DEF Precedes, Opposite
  <2>4. Follows(ps[at(b)][picks[at(b)]], ps[at(a)][picks[at(a)]])
    BY <2>2, <2>3 DEF InOrder
  <2> QED
    BY <1>2, <1>4, <2>1, <2>4
<1>8. Cardinality(ReachedIn(rpicks)) = Cardinality(ReachedIn(picks))
  <2> DEFINE f == [w \in ReachedIn(picks) |-> at(w)]
  <2>1. IsFiniteSet(ReachedIn(picks)) /\ ReachedIn(picks) \subseteq 1 .. n
    BY ReachedFinite DEF n
  <2>2. ReachedIn(rpicks) \subseteq 1 .. n
    BY <1>4 DEF ReachedIn
  <2>3. \A w \in 1 .. n : at(at(w)) = w
    BY <1>1
  <2>4. \A w \in 1 .. n : w \in ReachedIn(picks) <=> at(w) \in ReachedIn(rpicks)
    BY <1>3, <1>4, <1>5, <2>3 DEF ReachedIn
  <2>5. f \in Bijection(ReachedIn(picks), ReachedIn(rpicks))
    <3>1. f \in [ReachedIn(picks) -> ReachedIn(rpicks)]
      BY <2>1, <2>4
    <3>2. \A v, w \in ReachedIn(picks) : f[v] = f[w] => v = w
      BY <1>1, <2>1
    <3>3. \A v \in ReachedIn(rpicks) : at(v) \in ReachedIn(picks) /\ f[at(v)] = v
      <4> SUFFICES ASSUME NEW v \in ReachedIn(rpicks)
                   PROVE  at(v) \in ReachedIn(picks) /\ f[at(v)] = v
        OBVIOUS
      <4>1. v \in 1 .. n /\ at(v) \in 1 .. n /\ at(at(v)) = v
        BY <1>5, <2>2, <2>3
      <4>2. at(v) \in ReachedIn(picks)
        BY <2>4, <4>1
      <4> QED
        BY <4>1, <4>2
    <3> QED
      BY <3>1, <3>2, <3>3 DEF Bijection, Injection, Surjection, IsInjective
  <2>6. ExistsBijection(ReachedIn(picks), ReachedIn(rpicks))
    BY <2>5 DEF ExistsBijection
  <2> QED
    BY <2>1, <2>6, FS_Bijection
<1>9. Total(DistIn(rps, rpicks), n) = Total(DistIn(ps, picks), n)
  <2>1. DistIn(ps, picks) \in [1 .. n -> Nat] /\ DistIn(rps, rpicks) \in [1 .. n -> Nat]
    BY <1>2, <1>6, DistInType DEF n
  <2>2. \A w \in 1 .. n : DistIn(rps, rpicks)[w] = DistIn(ps, picks)[at(w)]
    BY <1>2, <1>3, <1>4, <1>5 DEF DistIn
  <2> QED
    BY <1>1, <2>1, <2>2, TotalBackwards
<1> QED
  BY <1>3, <1>4, <1>6, <1>7, <1>8, <1>9 DEF FitOf, rps, rpicks

LEMMA BackwardIsExact ==
  ASSUME NEW ps, IsRecording(ps)
  PROVE  IsExact(ps, "reverse", Backward(ps))
<1> DEFINE rps == Reverse(ps)
           c == AssignPasses(rps)
           b == Backward(ps)
<1>1. IsRecording(rps) /\ Reverse(rps) = ps
  BY ReversedRecording
<1>2. IsExact(rps, "forward", c)
  BY <1>1, AssignPassesIsExact
<1>3. b.matched = c.matched /\ b.dist = c.dist /\ b.picks = Reverse(c.picks)
  BY DEF Backward, AssignPasses
<1> HIDE DEF rps, c, b
<1>4. Opposite("forward") = "reverse" /\ Opposite("reverse") = "forward"
  BY DEF Opposite
<1>5. c.picks \in Assignments(rps) /\ InOrder(rps, c.picks, "forward")
      /\ HasFitOf(rps, c.picks, c.matched, c.dist)
  BY <1>2 DEF IsExact
<1>6. /\ b.picks \in Assignments(ps) /\ InOrder(ps, b.picks, "reverse")
      /\ HasFitOf(ps, b.picks, b.matched, b.dist)
  <2>1. /\ Reverse(c.picks) \in Assignments(Reverse(rps))
        /\ InOrder(Reverse(rps), Reverse(c.picks), Opposite("forward"))
        /\ FitOf(Reverse(rps), Reverse(c.picks)) = FitOf(rps, c.picks)
    BY <1>1, <1>5, ReversedAssignment
  <2> QED
    BY <1>1, <1>3, <1>4, <1>5, <2>1 DEF HasFitOf
<1>7. ASSUME NEW picks \in Assignments(ps), InOrder(ps, picks, "reverse")
      PROVE  ~ Better(FitOf(ps, picks), b)
  <2>1. /\ Reverse(picks) \in Assignments(rps)
        /\ InOrder(rps, Reverse(picks), Opposite("reverse"))
        /\ FitOf(rps, Reverse(picks)) = FitOf(ps, picks)
    BY <1>7, ReversedAssignment DEF rps
  <2>2. ~ Better(FitOf(rps, Reverse(picks)), c)
    BY <1>2, <1>4, <2>1 DEF IsExact
  <2> QED
    BY <1>3, <2>1, <2>2 DEF Better
<1> QED
  BY <1>6, <1>7 DEF IsExact, b

-----------------------------------------------------------------------------
(* The drive and its mirror image *)

MirrorPass(p) ==
  [p EXCEPT !.enter = LastInstant - p.exit, !.exit = LastInstant - p.enter,
            !.closest = LastInstant - @]

LEMMA LastInstantType == LastInstant \in Nat
<1>1. NumFixes \in Nat /\ NumFixes # 0
  BY AssignAssumptions DEF AssignAssumptions
<1>2. NumFixes - 1 \in Nat
  BY <1>1
<1> QED
  BY <1>2 DEF LastInstant, FixAt

LEMMA MirrorPassFields ==
  ASSUME NEW p \in Visit
  PROVE  /\ MirrorPass(p) \in Visit
         /\ MirrorPass(p).enter = LastInstant - p.exit
         /\ MirrorPass(p).exit = LastInstant - p.enter
         /\ MirrorPass(p).closest = LastInstant - p.closest
         /\ MirrorPass(p).dist = p.dist /\ MirrorPass(p).index = p.index
<1>1. LastInstant \in Int
  BY LastInstantType
<1>2. /\ p.enter \in Int /\ p.exit \in Int /\ p.closest \in Int /\ p.dist \in Nat
      /\ p.index \in Int
  BY DEF Visit
<1>3. /\ LastInstant - p.exit \in Int /\ LastInstant - p.enter \in Int
      /\ LastInstant - p.closest \in Int
  BY <1>1, <1>2
<1> QED
  BY <1>2, <1>3 DEF MirrorPass, Visit

LEMMA MirrorPassFacts ==
  ASSUME NEW p \in Visit
  PROVE  /\ MirrorPass(p) \in Visit /\ MirrorPass(MirrorPass(p)) = p
         /\ MirrorPass(p).enter = LastInstant - p.exit
         /\ MirrorPass(p).exit = LastInstant - p.enter
         /\ MirrorPass(p).dist = p.dist
<1> DEFINE q == MirrorPass(p)
           r == MirrorPass(q)
<1>1. /\ q \in Visit /\ q.enter = LastInstant - p.exit /\ q.exit = LastInstant - p.enter
      /\ q.closest = LastInstant - p.closest /\ q.dist = p.dist /\ q.index = p.index
  BY MirrorPassFields
<1> HIDE DEF q
<1>2. /\ r \in Visit /\ r.enter = LastInstant - q.exit /\ r.exit = LastInstant - q.enter
      /\ r.closest = LastInstant - q.closest /\ r.dist = q.dist /\ r.index = q.index
  BY <1>1, MirrorPassFields
<1> HIDE DEF r
<1>3. LastInstant \in Int
  BY LastInstantType
<1>4. p.enter \in Int /\ p.exit \in Int /\ p.closest \in Int
  BY DEF Visit
<1>5. /\ r.enter = p.enter /\ r.exit = p.exit /\ r.closest = p.closest /\ r.dist = p.dist
      /\ r.index = p.index
  BY <1>1, <1>2, <1>3, <1>4
<1>6. /\ p = [index |-> p.index, enter |-> p.enter, exit |-> p.exit, closest |-> p.closest,
              dist |-> p.dist]
      /\ r = [index |-> r.index, enter |-> r.enter, exit |-> r.exit, closest |-> r.closest,
              dist |-> r.dist]
  BY <1>2 DEF Visit
<1>7. r = p
  BY <1>5, <1>6
<1> QED
  BY <1>1, <1>7 DEF q, r

LEMMA MirroredRecording ==
  ASSUME NEW ps, IsRecording(ps)
  PROVE  /\ IsRecording(Mirrored(ps)) /\ Len(Mirrored(ps)) = Len(ps)
         /\ DOMAIN Mirrored(ps) = DOMAIN ps
         /\ \A w \in DOMAIN ps :
              /\ Len(Mirrored(ps)[w]) = Len(ps[w]) /\ DOMAIN Mirrored(ps)[w] = 1 .. Len(ps[w])
              /\ \A j \in 1 .. Len(ps[w]) :
                   Mirrored(ps)[w][j] = MirrorPass(ps[w][Len(ps[w]) - j + 1])
<1> DEFINE mps == Mirrored(ps)
           list(w) == [j \in DOMAIN ps[w] |-> MirrorPass(ps[w][j])]
<1>1. Len(ps) \in Nat /\ DOMAIN ps = 1 .. Len(ps)
  BY RecordingFacts
<1>2. DOMAIN mps = DOMAIN ps /\ \A w \in DOMAIN ps : mps[w] = Reverse(list(w))
  BY DEF Mirrored, MirrorPass
<1> HIDE DEF mps
<1>3. ASSUME NEW w \in DOMAIN ps
      PROVE  /\ mps[w] \in Seq(Visit) /\ Len(mps[w]) = Len(ps[w])
             /\ DOMAIN mps[w] = 1 .. Len(ps[w]) /\ Len(ps[w]) <= MaxPasses
             /\ \A j \in 1 .. Len(ps[w]) :
                  /\ mps[w][j] = MirrorPass(ps[w][Len(ps[w]) - j + 1])
                  /\ mps[w][j].enter <= mps[w][j].exit
  <2> DEFINE n == Len(ps[w])
             l == list(w)
  <2>1. n \in Nat /\ n <= MaxPasses /\ DOMAIN ps[w] = 1 .. n
    BY RecordingFacts, AssignAssumptions DEF AssignAssumptions
  <2>2. \A j \in 1 .. n : ps[w][j] \in Visit /\ ps[w][j].enter <= ps[w][j].exit
                          /\ ps[w][j].enter \in Int /\ ps[w][j].exit \in Int
    BY <2>1, RecordingFacts
  <2>3. \A j \in 1 .. n : MirrorPass(ps[w][j]) \in Visit
    BY <2>2, MirrorPassFacts
  <2>4. l \in [1 .. n -> Visit] /\ \A j \in 1 .. n : l[j] = MirrorPass(ps[w][j])
    BY <2>1, <2>3
  <2> HIDE DEF l, n
  <2>5. l \in Seq(Visit) /\ Len(l) = n
    BY <2>1, <2>4, SequencesAreFunctions
  <2>6. /\ Reverse(l) \in Seq(Visit) /\ Len(Reverse(l)) = n /\ DOMAIN Reverse(l) = 1 .. n
        /\ \A j \in 1 .. n : Reverse(l)[j] = l[n - j + 1]
    BY <2>5, ReverseFacts
  <2>7. mps[w] = Reverse(l)
    BY <1>2 DEF l
  <2>8. \A j \in 1 .. n : n - j + 1 \in 1 .. n
    BY <2>1
  <2>9. ASSUME NEW j \in 1 .. n
        PROVE  /\ mps[w][j] = MirrorPass(ps[w][n - j + 1])
               /\ mps[w][j].enter <= mps[w][j].exit
    <3> DEFINE p == ps[w][n - j + 1]
    <3>1. mps[w][j] = MirrorPass(p)
      BY <2>4, <2>6, <2>7, <2>8
    <3>2. p \in Visit /\ p.enter <= p.exit /\ p.enter \in Int /\ p.exit \in Int
      BY <2>2, <2>8
    <3> HIDE DEF p
    <3>3. mps[w][j].enter = LastInstant - p.exit /\ mps[w][j].exit = LastInstant - p.enter
      BY <3>1, <3>2, MirrorPassFacts
    <3>4. mps[w][j].enter <= mps[w][j].exit
      BY <3>2, <3>3, LastInstantType
    <3> QED
      BY <3>1, <3>4 DEF p
  <2> QED
    BY <2>1, <2>6, <2>7, <2>9 DEF n
<1>4. mps \in [1 .. Len(ps) -> Seq(Visit)]
  <2>1. mps = [w \in 1 .. Len(ps) |-> mps[w]]
    BY <1>1 DEF mps, Mirrored
  <2> QED
    BY <1>1, <1>3, <2>1
<1>5. mps \in Seq(Seq(Visit)) /\ Len(mps) = Len(ps)
  BY <1>1, <1>4, SequencesAreFunctions
<1>6. IsRecording(mps)
  BY <1>2, <1>3, <1>5 DEF IsRecording
<1> QED
  BY <1>2, <1>3, <1>5, <1>6 DEF mps

LEMMA MirroredTwice ==
  ASSUME NEW ps, IsRecording(ps)
  PROVE  Mirrored(Mirrored(ps)) = ps
<1> DEFINE mps == Mirrored(ps)
           n == Len(ps)
<1>1. n \in Nat /\ DOMAIN ps = 1 .. n /\ ps \in Seq(Seq(Visit))
  BY RecordingFacts DEF IsRecording
<1>2. IsRecording(mps) /\ Len(mps) = n /\ DOMAIN mps = 1 .. n
  BY <1>1, MirroredRecording
<1>3. ASSUME NEW w \in 1 .. n PROVE Mirrored(mps)[w] = ps[w]
  <2> DEFINE m == Len(ps[w])
  <2>1. m \in Nat /\ DOMAIN ps[w] = 1 .. m /\ ps[w] \in Seq(Visit)
    BY <1>1, RecordingFacts
  <2>2. /\ Len(mps[w]) = m /\ DOMAIN mps[w] = 1 .. m
        /\ \A j \in 1 .. m : mps[w][j] = MirrorPass(ps[w][m - j + 1])
    BY <1>1, MirroredRecording
  <2>3. /\ Len(Mirrored(mps)[w]) = m /\ DOMAIN Mirrored(mps)[w] = 1 .. m
        /\ \A j \in 1 .. m : Mirrored(mps)[w][j] = MirrorPass(mps[w][m - j + 1])
    <3> HIDE DEF mps, m, n
    <3>1. /\ Len(Mirrored(mps)[w]) = Len(mps[w]) /\ DOMAIN Mirrored(mps)[w] = 1 .. Len(mps[w])
          /\ \A j \in 1 .. Len(mps[w]) :
               Mirrored(mps)[w][j] = MirrorPass(mps[w][Len(mps[w]) - j + 1])
      BY <1>2, MirroredRecording
    <3> QED
      BY <2>2, <3>1
  <2>4. IsRecording(Mirrored(mps)) /\ Len(Mirrored(mps)) = n
    <3> HIDE DEF mps, m, n
    <3> QED
      BY <1>2, MirroredRecording
  <2> HIDE DEF mps, m, n
  <2>5. ASSUME NEW j \in 1 .. m PROVE Mirrored(mps)[w][j] = ps[w][j]
    <3>1. m - j + 1 \in 1 .. m /\ m - (m - j + 1) + 1 = j
      BY <2>1
    <3>2. Mirrored(mps)[w][j] = MirrorPass(MirrorPass(ps[w][m - (m - j + 1) + 1]))
      BY <2>2, <2>3, <3>1
    <3>3. ps[w][j] \in Visit
      BY <2>1
    <3> QED
      BY <3>1, <3>2, <3>3, MirrorPassFacts
  <2>6. Mirrored(mps)[w] \in Seq(Visit)
    <3>1. Mirrored(mps) \in Seq(Seq(Visit))
      BY <2>4 DEF IsRecording
    <3> QED
      BY <2>4, <3>1
  <2>7. Mirrored(mps)[w] = [j \in 1 .. m |-> Mirrored(mps)[w][j]]
    BY <2>3, <2>6
  <2>8. ps[w] = [j \in 1 .. m |-> ps[w][j]]
    BY <2>1
  <2> QED
    BY <2>5, <2>7, <2>8
<1>4. Mirrored(mps) = [w \in 1 .. n |-> Mirrored(mps)[w]]
  BY <1>2 DEF Mirrored
<1>5. ps = [w \in 1 .. n |-> ps[w]]
  BY <1>1
<1> HIDE DEF mps, n
<1>6. Mirrored(mps) = ps
  BY <1>3, <1>4, <1>5
<1> QED
  BY <1>6 DEF mps

(* Choices of the mirror image run the other way and fit as well. *)
LEMMA MirroredAssignment ==
  ASSUME NEW ps, IsRecording(ps), NEW picks \in Assignments(ps),
         NEW dir \in {"forward", "reverse"}, InOrder(ps, picks, dir)
  PROVE  \E mirrored \in Assignments(Mirrored(ps)) :
           /\ InOrder(Mirrored(ps), mirrored, Opposite(dir))
           /\ FitOf(Mirrored(ps), mirrored) = FitOf(ps, picks)
<1> DEFINE mps == Mirrored(ps)
           n == Len(ps)
           m(w) == Len(ps[w])
           mpicks == [w \in DOMAIN ps |-> IF picks[w] = 0 THEN 0 ELSE m(w) - picks[w] + 1]
<1>1. n \in Nat /\ DOMAIN ps = 1 .. n
  BY RecordingFacts
<1>2. \A w \in 1 .. n : m(w) \in Nat /\ m(w) <= MaxPasses /\ DOMAIN ps[w] = 1 .. m(w)
  BY <1>1, RecordingFacts, AssignAssumptions DEF AssignAssumptions
<1>3. /\ IsRecording(mps) /\ Len(mps) = n /\ DOMAIN mps = 1 .. n
      /\ \A w \in 1 .. n :
           /\ Len(mps[w]) = m(w)
           /\ \A j \in 1 .. m(w) : mps[w][j] = MirrorPass(ps[w][m(w) - j + 1])
  BY <1>1, MirroredRecording
<1>4. /\ DOMAIN picks = 1 .. n /\ Len(picks) = n
      /\ \A w \in 1 .. n : picks[w] \in Nat /\ picks[w] <= m(w)
      /\ \A w \in 1 .. n : picks[w] # 0 => picks[w] \in 1 .. m(w)
  BY <1>1, <1>2, AssignmentFacts
<1>5. /\ DOMAIN mpicks = 1 .. n
      /\ \A w \in 1 .. n : mpicks[w] = IF picks[w] = 0 THEN 0 ELSE m(w) - picks[w] + 1
  BY <1>1
<1>6. \A w \in 1 .. n : mpicks[w] \in 0 .. MaxPasses /\ mpicks[w] <= m(w)
                        /\ (mpicks[w] = 0 <=> picks[w] = 0)
  BY <1>2, <1>4, <1>5, AssignAssumptions DEF AssignAssumptions
<1>7. mpicks \in Assignments(mps)
  <2>1. mpicks \in [1 .. n -> 0 .. MaxPasses]
    BY <1>1, <1>6
  <2> HIDE DEF mps, mpicks, n
  <2> QED
    BY <1>3, <1>6, <2>1 DEF Assignments
<1> HIDE DEF mps, mpicks, n
<1>8. ReachedIn(mpicks) = ReachedIn(picks) /\ ReachedIn(picks) \subseteq 1 .. n
  BY <1>4, <1>5, <1>6 DEF ReachedIn
<1>9. ASSUME NEW w \in ReachedIn(picks)
      PROVE  /\ ps[w][picks[w]] \in Visit
             /\ mps[w][mpicks[w]] = MirrorPass(ps[w][picks[w]])
  <2>1. w \in 1 .. n /\ picks[w] # 0
    BY <1>8 DEF ReachedIn
  <2>2. picks[w] \in 1 .. m(w) /\ m(w) \in Nat /\ DOMAIN ps[w] = 1 .. m(w)
    BY <1>2, <1>4, <2>1
  <2>3. mpicks[w] = m(w) - picks[w] + 1 /\ mpicks[w] \in 1 .. m(w)
        /\ m(w) - mpicks[w] + 1 = picks[w]
    <3>1. mpicks[w] = m(w) - picks[w] + 1
      BY ONLY <1>5, <2>1
    <3> HIDE DEF m
    <3> QED
      BY ONLY <2>2, <3>1
  <2>4. mps[w][mpicks[w]] = MirrorPass(ps[w][picks[w]])
    <3>1. mps[w][mpicks[w]] = MirrorPass(ps[w][m(w) - mpicks[w] + 1])
      BY <1>3, <2>1, <2>3
    <3> QED
      BY <2>3, <3>1
  <2>5. ps[w][picks[w]] \in Visit
    BY <1>1, <2>1, <2>2, RecordingFacts
  <2> QED
    BY <2>4, <2>5
<1>10. InOrder(mps, mpicks, Opposite(dir))
  <2> SUFFICES ASSUME NEW a \in ReachedIn(picks), NEW b \in ReachedIn(picks),
                      Precedes(Opposite(dir), a, b)
               PROVE  Follows(mps[b][mpicks[b]], mps[a][mpicks[a]])
    BY <1>8 DEF InOrder
  <2>1. Precedes(dir, b, a)
    BY DEF Precedes, Opposite
  <2>2. Follows(ps[a][picks[a]], ps[b][picks[b]])
    BY <2>1 DEF InOrder
  <2> DEFINE p == ps[a][picks[a]]
             q == ps[b][picks[b]]
  <2>3. p \in Visit /\ q \in Visit /\ mps[a][mpicks[a]] = MirrorPass(p)
        /\ mps[b][mpicks[b]] = MirrorPass(q)
    BY <1>9
  <2>4. q.exit <= p.enter
    BY <2>2 DEF Follows
  <2> HIDE DEF p, q
  <2>5. p.enter \in Int /\ q.exit \in Int /\ LastInstant \in Int
    BY <2>3, LastInstantType DEF Visit
  <2>6. MirrorPass(p).exit = LastInstant - p.enter /\ MirrorPass(q).enter = LastInstant - q.exit
    BY <2>3, MirrorPassFacts
  <2> QED
    BY <2>3, <2>4, <2>5, <2>6 DEF Follows
<1>11. DistIn(mps, mpicks) = DistIn(ps, picks)
  <2>1. ASSUME NEW w \in 1 .. n, picks[w] # 0
        PROVE  mps[w][mpicks[w]].dist = ps[w][picks[w]].dist
    <3>1. w \in ReachedIn(picks)
      BY <1>4, <2>1 DEF ReachedIn
    <3> QED
      BY <1>9, <3>1, MirrorPassFacts
  <2>2. \A w \in 1 .. n : DistIn(mps, mpicks)[w] = DistIn(ps, picks)[w]
    BY <1>4, <1>5, <1>6, <2>1 DEF DistIn
  <2>3. DistIn(mps, mpicks) = [w \in 1 .. n |-> DistIn(mps, mpicks)[w]]
    BY <1>5 DEF DistIn
  <2>4. DistIn(ps, picks) = [w \in 1 .. n |-> DistIn(ps, picks)[w]]
    BY <1>4 DEF DistIn
  <2> QED
    BY <2>2, <2>3, <2>4
<1>12. Len(mpicks) = n
  BY <1>3, <1>7, AssignmentFacts
<1>13. FitOf(mps, mpicks) = FitOf(ps, picks)
  BY <1>4, <1>8, <1>11, <1>12 DEF FitOf
<1> QED
  BY <1>7, <1>10, <1>13 DEF mps

(* Exact choices of the drive and of its mirror image fit equally well. *)
LEMMA MirroredFitsEqually ==
  ASSUME NEW ps, IsRecording(ps), NEW dir \in {"forward", "reverse"},
         NEW c, IsExact(ps, dir, c), NEW d, IsExact(Mirrored(ps), Opposite(dir), d)
  PROVE  c.matched = d.matched /\ c.dist = d.dist /\ HasFit(c) /\ HasFit(d)
<1> DEFINE mps == Mirrored(ps)
<1>1. IsRecording(mps) /\ Mirrored(mps) = ps
  BY MirroredRecording, MirroredTwice
<1>2. Opposite(Opposite(dir)) = dir /\ Opposite(dir) \in {"forward", "reverse"}
  BY DEF Opposite
<1> HIDE DEF mps
<1>3. /\ c.picks \in Assignments(ps) /\ InOrder(ps, c.picks, dir)
      /\ HasFitOf(ps, c.picks, c.matched, c.dist)
      /\ d.picks \in Assignments(mps) /\ InOrder(mps, d.picks, Opposite(dir))
      /\ HasFitOf(mps, d.picks, d.matched, d.dist)
  BY DEF IsExact, mps
<1>4. HasFit(c) /\ HasFit(d)
  BY <1>1, <1>3, FitOfChain
<1>5. ~ Better(c, d)
  <2>1. PICK p \in Assignments(mps) :
          InOrder(mps, p, Opposite(dir)) /\ FitOf(mps, p) = FitOf(ps, c.picks)
    BY <1>3, MirroredAssignment DEF mps
  <2>2. ~ Better(FitOf(mps, p), d)
    BY <2>1 DEF IsExact, mps
  <2> QED
    BY <1>3, <2>1, <2>2 DEF Better, HasFitOf
<1>6. ~ Better(d, c)
  <2>1. PICK p \in Assignments(ps) :
          InOrder(ps, p, dir) /\ FitOf(ps, p) = FitOf(mps, d.picks)
    BY <1>1, <1>2, <1>3, MirroredAssignment
  <2>2. ~ Better(FitOf(ps, p), c)
    BY <2>1 DEF IsExact
  <2> QED
    BY <1>3, <2>1, <2>2 DEF Better, HasFitOf
<1> QED
  BY <1>4, <1>5, <1>6 DEF Better, HasFit

-----------------------------------------------------------------------------
(* Passes as findPasses returns them *)

LEMMA PassFacts ==
  ASSUME NEW p \in Pass
  PROVE  /\ p \in Visit
         /\ p.enter \in 0 .. LastInstant /\ p.exit \in 0 .. LastInstant
         /\ p.enter <= p.exit /\ CrossedAt(p) \in Int
         /\ p.enter <= CrossedAt(p) /\ CrossedAt(p) <= p.exit
         /\ Anchor = "entry" => CrossedAt(p) = p.enter
         /\ p.index \in Nat /\ FixAt(p.index) <= p.enter /\ p.enter <= FixAt(p.index + 1)
<1>1. /\ p \in [index : 0 .. NumFixes - 2, enter : 0 .. LastInstant, exit : 0 .. LastInstant,
                closest : 0 .. LastInstant, dist : Distances]
      /\ FixAt(p.index) <= p.enter /\ p.enter <= FixAt(p.index + 1)
      /\ p.enter <= p.exit
      /\ p.closest \in (IF Anchor = "closest" THEN {p.enter, p.exit} ELSE {p.enter})
  BY DEF Pass
<1>2. /\ p.enter \in 0 .. LastInstant /\ p.exit \in 0 .. LastInstant
      /\ p.closest \in 0 .. LastInstant /\ p.dist \in Nat /\ p.index \in Nat
  <2>1. p.index \in 0 .. NumFixes - 2 /\ p.dist \in Distances
    BY <1>1
  <2>2. 0 .. NumFixes - 2 \subseteq Nat /\ Distances \subseteq Nat
    BY AssignAssumptions DEF AssignAssumptions
  <2> QED
    BY <1>1, <2>1, <2>2
<1>3. p \in Visit
  <2>1. p.enter \in Int /\ p.exit \in Int /\ p.closest \in Int
    BY <1>2, LastInstantType
  <2>2. p = [index |-> p.index, enter |-> p.enter, exit |-> p.exit, closest |-> p.closest,
             dist |-> p.dist]
    BY <1>1
  <2> QED
    BY <1>2, <2>1, <2>2 DEF Visit
<1>4. CrossedAt(p) = p.enter \/ CrossedAt(p) = p.exit
  BY <1>1 DEF CrossedAt
<1>5. Anchor = "entry" => CrossedAt(p) = p.enter
  BY DEF CrossedAt
<1> QED
  BY <1>1, <1>2, <1>3, <1>4, <1>5, LastInstantType

LEMMA PassListFacts ==
  ASSUME NEW list \in PassLists
  PROVE  /\ list \in Seq(Pass) /\ Len(list) \in Nat /\ Len(list) <= MaxPasses
         /\ DOMAIN list = 1 .. Len(list)
         /\ \A j \in 1 .. Len(list) - 1 : list[j].exit <= list[j + 1].enter
<1>1. PICK n \in 0 .. MaxPasses : list \in [1 .. n -> Pass]
  BY DEF PassLists
<1>2. n \in Nat /\ n <= MaxPasses
  BY AssignAssumptions DEF AssignAssumptions
<1>3. list \in Seq(Pass) /\ Len(list) = n
  BY <1>1, <1>2, SequencesAreFunctions
<1>4. ASSUME NEW j \in 1 .. n - 1 PROVE list[j].exit <= list[j + 1].enter
  <2>1. list[j] \in Pass /\ list[j + 1] \in Pass
    BY <1>1, <1>2
  <2>2. list[j].exit <= FixAt(list[j + 1].index)
    BY <1>3 DEF PassLists
  <2>3. /\ list[j].exit \in Int /\ list[j + 1].enter \in Int
        /\ list[j + 1].index \in Nat /\ FixAt(list[j + 1].index) <= list[j + 1].enter
    BY <2>1, PassFacts, LastInstantType
  <2> QED
    BY <2>2, <2>3 DEF FixAt
<1> QED
  BY <1>2, <1>3, <1>4

(* The passes of a waypoint are entered one after another. *)
LEMMA EntersGrow ==
  ASSUME NEW list \in PassLists, NEW i \in DOMAIN list, NEW j \in DOMAIN list, i <= j
  PROVE  list[i].enter <= list[j].enter
<1> DEFINE n == Len(list)
           S == {k \in Nat : i + k <= n => list[i].enter <= list[i + k].enter}
<1>1. /\ list \in Seq(Pass) /\ n \in Nat /\ DOMAIN list = 1 .. n
      /\ \A k \in 1 .. n - 1 : list[k].exit <= list[k + 1].enter
  BY PassListFacts
<1>2. \A k \in 1 .. n : /\ list[k] \in Pass
                        /\ list[k].enter \in Int /\ list[k].exit \in Int
                        /\ list[k].enter <= list[k].exit
  <2> SUFFICES ASSUME NEW k \in 1 .. n
               PROVE  /\ list[k] \in Pass /\ list[k].enter \in Int /\ list[k].exit \in Int
                      /\ list[k].enter <= list[k].exit
    OBVIOUS
  <2>1. list[k] \in Pass
    BY <1>1
  <2>2. /\ list[k].enter \in 0 .. LastInstant /\ list[k].exit \in 0 .. LastInstant
        /\ list[k].enter <= list[k].exit
    BY <2>1, PassFacts
  <2> QED
    BY <2>1, <2>2, LastInstantType
<1> HIDE DEF n
<1>3. 0 \in S
  BY <1>1, <1>2
<1>4. ASSUME NEW k \in Nat, k \in S PROVE k + 1 \in S
  <2> SUFFICES ASSUME i + (k + 1) <= n PROVE list[i].enter <= list[i + (k + 1)].enter
    OBVIOUS
  <2>1. i + k \in 1 .. n - 1 /\ i + k <= n /\ i + (k + 1) = (i + k) + 1
        /\ i + k \in 1 .. n /\ i + (k + 1) \in 1 .. n /\ i \in 1 .. n
    BY <1>1
  <2>2. list[i].enter <= list[i + k].enter
    BY <1>4, <2>1
  <2>3. list[i + k].exit <= list[i + (k + 1)].enter
    BY <1>1, <2>1
  <2> HIDE DEF S
  <2> QED
    BY <1>2, <2>1, <2>2, <2>3
<1>5. Nat \subseteq S
  <2> HIDE DEF S
  <2> QED
    BY <1>3, <1>4, InSteps
<1>6. j - i \in S /\ i + (j - i) = j /\ j <= n
  BY <1>1, <1>5
<1> QED
  BY <1>6

Recordings == [Waypoints -> PassLists]

LEMMA RecordingsAreRecordings ==
  ASSUME NEW ps \in Recordings
  PROVE  /\ IsRecording(ps) /\ Len(ps) = NumWaypoints /\ DOMAIN ps = Waypoints
         /\ \A w \in Waypoints : /\ ps[w] \in PassLists
                                 /\ \A j \in DOMAIN ps[w] : ps[w][j] \in Pass
<1>1. NumWaypoints \in Nat
  BY AssignAssumptions DEF AssignAssumptions
<1>2. \A w \in Waypoints : ps[w] \in PassLists
  BY DEF Recordings
<1>3. ASSUME NEW w \in Waypoints
      PROVE  /\ ps[w] \in Seq(Visit) /\ Len(ps[w]) <= MaxPasses
             /\ \A j \in DOMAIN ps[w] : ps[w][j] \in Pass /\ ps[w][j].enter <= ps[w][j].exit
  <2>1. ps[w] \in Seq(Pass) /\ Len(ps[w]) <= MaxPasses
    BY <1>2, PassListFacts
  <2>2. \A j \in DOMAIN ps[w] : ps[w][j] \in Pass
    BY <2>1
  <2>3. \A j \in DOMAIN ps[w] : ps[w][j] \in Visit /\ ps[w][j].enter <= ps[w][j].exit
    BY <2>2, PassFacts
  <2>4. ps[w] \in [1 .. Len(ps[w]) -> Visit] /\ Len(ps[w]) \in Nat
    BY <2>1, <2>3, SequencesAreFunctions
  <2> QED
    BY <2>1, <2>2, <2>3, <2>4, SequencesAreFunctions
<1>4. DOMAIN ps = Waypoints /\ ps \in [1 .. NumWaypoints -> Seq(Visit)]
  BY <1>3 DEF Recordings, Waypoints
<1>5. ps \in Seq(Seq(Visit)) /\ Len(ps) = NumWaypoints
  BY <1>1, <1>4, SequencesAreFunctions
<1>6. IsRecording(ps)
  BY <1>3, <1>4, <1>5 DEF IsRecording
<1> QED
  BY <1>2, <1>3, <1>4, <1>5, <1>6

-----------------------------------------------------------------------------
(* The arrival *)

Directions == {"forward", "reverse"}

LEMMA DestinationFacts ==
  ASSUME NEW dir \in Directions
  PROVE  /\ Destination(dir) \in Waypoints
         /\ \A w \in Waypoints : w # Destination(dir) =>
              Precedes(dir, w, Destination(dir)) /\ ~ Precedes(dir, Destination(dir), w)
BY AssignAssumptions DEF AssignAssumptions, Destination, Waypoints, Precedes, Directions

(* Of some waypoints, one is passed last. *)
LEMMA LastExists ==
  ASSUME NEW S \in SUBSET Waypoints, S # {}, NEW dir \in Directions
  PROVE  \E w \in S : \A x \in S : x = w \/ Precedes(dir, x, w)
<1>1. S \in SUBSET Nat /\ NumWaypoints \in Nat
  BY AssignAssumptions DEF Waypoints, AssignAssumptions
<1>2. CASE dir = "reverse"
  <2>1. PICK m \in S : \A k \in S : m <= k
    BY <1>1, LeastMember
  <2> QED
    BY <1>1, <1>2, <2>1 DEF Precedes
<1>3. CASE dir = "forward"
  <2> DEFINE T == {NumWaypoints - w : w \in S}
  <2>1. T \in SUBSET Nat /\ T # {}
    <3>1. \A w \in S : w \in 1 .. NumWaypoints
      BY DEF Waypoints
    <3>2. \A w \in S : NumWaypoints - w \in Nat
      BY <1>1, <3>1
    <3> QED
      BY <3>2
  <2>2. PICK m \in T : \A k \in T : m <= k
    <3> HIDE DEF T
    <3> QED
      BY <2>1, LeastMember
  <2>3. PICK w \in S : m = NumWaypoints - w
    BY <2>2
  <2>4. \A x \in S : NumWaypoints - w <= NumWaypoints - x
    BY <2>2, <2>3
  <2>5. \A x \in S : x \in Nat /\ w \in Nat
    BY <1>1
  <2> QED
    BY <1>1, <1>3, <2>4, <2>5 DEF Precedes
<1> QED
  BY <1>2, <1>3 DEF Directions

LEMMA MatchedBeforeFacts ==
  ASSUME NEW ps \in Recordings, NEW picks \in Assignments(ps), NEW dir \in Directions
  PROVE  LET before == ReachedIn(picks) \ {Destination(dir)}
             prev == MatchedBefore(picks, dir)
         IN  /\ prev = 0 <=> before = {}
             /\ before # {} => /\ prev \in before
                               /\ \A x \in before : x = prev \/ Precedes(dir, x, prev)
<1> DEFINE before == ReachedIn(picks) \ {Destination(dir)}
           prev == MatchedBefore(picks, dir)
<1>1. DOMAIN picks = Waypoints
  BY RecordingsAreRecordings, AssignmentFacts DEF Waypoints
<1>2. before \in SUBSET Waypoints
  BY <1>1 DEF ReachedIn
<1>3. before = {w \in DOMAIN picks : picks[w] # 0 /\ w # Destination(dir)}
  BY DEF ReachedIn
<1>4. prev = IF before = {} THEN 0
             ELSE CHOOSE w \in before : \A x \in before : x = w \/ Precedes(dir, x, w)
  <2> HIDE DEF before
  <2> QED
    BY <1>3 DEF MatchedBefore
<1> HIDE DEF before, prev
<1>5. before # {} => /\ prev \in before
                     /\ \A x \in before : x = prev \/ Precedes(dir, x, prev)
  BY <1>2, <1>4, LastExists
<1>6. prev = 0 <=> before = {}
  <2>1. 0 \notin before
    BY <1>2 DEF Waypoints
  <2>2. before # {} => prev # 0
    BY <1>5, <2>1
  <2>3. before = {} => prev = 0
    BY <1>4
  <2> QED
    BY <2>2, <2>3
<1> QED
  BY <1>5, <1>6 DEF before, prev

(***************************************************************************)
(* The pass taken for the arrival is a pass of the destination that        *)
(* follows the waypoint before it, and none that does comes sooner.        *)
(***************************************************************************)
LEMMA FirstArrivalFacts ==
  ASSUME NEW ps \in Recordings, NEW picks \in Assignments(ps), NEW dir \in Directions,
         InOrder(ps, picks, dir), picks[Destination(dir)] # 0
  PROVE  LET dest == Destination(dir)
             prev == MatchedBefore(picks, dir)
             first == FirstArrival(ps, picks, dir)
             follows(j) == prev # 0 => Follows(ps[dest][j], ps[prev][picks[prev]])
         IN  /\ first \in DOMAIN ps[dest] /\ first \in Nat \ {0} /\ follows(first)
             /\ \A j \in DOMAIN ps[dest] :
                  follows(j) => ps[dest][first].enter <= ps[dest][j].enter
<1> DEFINE dest == Destination(dir)
           prev == MatchedBefore(picks, dir)
           first == FirstArrival(ps, picks, dir)
           follows(j) == prev # 0 => Follows(ps[dest][j], ps[prev][picks[prev]])
           chosen == ps[dest][picks[dest]]
           sooner == {j \in DOMAIN ps[dest] : ps[dest][j].enter < chosen.enter /\ follows(j)}
<1>1. IsRecording(ps) /\ DOMAIN ps = Waypoints /\ dest \in Waypoints /\ ps[dest] \in PassLists
  BY RecordingsAreRecordings, DestinationFacts
<1>2. picks[dest] \in DOMAIN ps[dest] /\ DOMAIN picks = Waypoints
  BY <1>1, RecordingsAreRecordings, AssignmentFacts DEF Waypoints
<1>3. DOMAIN ps[dest] \subseteq Nat \ {0}
  BY <1>1, RecordingFacts
<1>4. follows(picks[dest])
  <2> SUFFICES ASSUME prev # 0 PROVE Follows(ps[dest][picks[dest]], ps[prev][picks[prev]])
    OBVIOUS
  <2>1. prev \in ReachedIn(picks) /\ prev # dest /\ prev \in Waypoints
    BY <1>2, MatchedBeforeFacts DEF ReachedIn
  <2>2. dest \in ReachedIn(picks)
    BY <1>1, <1>2 DEF ReachedIn
  <2>3. Precedes(dir, prev, dest)
    BY <2>1, DestinationFacts
  <2> HIDE DEF prev, dest
  <2> QED
    BY <2>1, <2>2, <2>3 DEF InOrder
<1>5. \A j \in DOMAIN ps[dest] : ps[dest][j].enter \in Int
  BY <1>1, RecordingFacts
<1>6. first = IF sooner = {} THEN picks[dest]
              ELSE CHOOSE j \in sooner : \A x \in sooner : j <= x
  BY DEF FirstArrival
<1> HIDE DEF dest, prev, first
<1>7. CASE sooner = {}
  <2>1. first = picks[dest]
    BY <1>6, <1>7
  <2>2. \A j \in DOMAIN ps[dest] : follows(j) => ~ (ps[dest][j].enter < chosen.enter)
    BY <1>7
  <2>3. \A j \in DOMAIN ps[dest] : follows(j) => chosen.enter <= ps[dest][j].enter
    BY <1>2, <1>5, <2>2
  <2> QED
    BY <1>2, <1>3, <1>4, <2>1, <2>3 DEF dest, prev, first
<1>8. CASE sooner # {}
  <2>1. first = CHOOSE j \in sooner : \A x \in sooner : j <= x
    BY <1>6, <1>8
  <2>2. sooner \in SUBSET Nat
    BY <1>3
  <2> HIDE DEF sooner
  <2>3. \E j \in sooner : \A x \in sooner : j <= x
    BY <1>8, <2>2, LeastMember
  <2>4. first \in sooner /\ \A x \in sooner : first <= x
    BY <2>1, <2>3
  <2>5. first \in DOMAIN ps[dest] /\ ps[dest][first].enter < chosen.enter /\ follows(first)
    BY <2>4 DEF sooner
  <2>6. ASSUME NEW j \in DOMAIN ps[dest], follows(j)
        PROVE  ps[dest][first].enter <= ps[dest][j].enter
    <3>1. CASE ps[dest][j].enter < chosen.enter
      <4>1. j \in sooner
        BY <2>6, <3>1 DEF sooner
      <4>2. first <= j
        BY <2>4, <4>1
      <4> QED
        BY <1>1, <2>5, <4>2, EntersGrow
    <3>2. CASE ~ (ps[dest][j].enter < chosen.enter)
      BY <1>2, <1>5, <2>5, <3>2
    <3> QED
      BY <3>1, <3>2
  <2> QED
    BY <1>3, <2>5, <2>6 DEF dest, prev, first
<1> QED
  BY <1>7, <1>8

(* Settling on the first arrival keeps the choice an assignment in order. *)
LEMMA ArriveFacts ==
  ASSUME NEW ps \in Recordings, NEW picks \in Assignments(ps), NEW dir \in Directions,
         InOrder(ps, picks, dir), NEW q, q = Arrive(ps, picks, dir)
  PROVE  /\ q \in Assignments(ps) /\ InOrder(ps, q, dir)
         /\ q[Destination(dir)] # 0 =>
              \A j \in DOMAIN ps[Destination(dir)] :
                (\A w \in ReachedIn(q) \ {Destination(dir)} :
                   Follows(ps[Destination(dir)][j], ps[w][q[w]])) =>
                  ps[Destination(dir)][q[Destination(dir)]].enter
                    <= ps[Destination(dir)][j].enter
<1> DEFINE dest == Destination(dir)
           prev == MatchedBefore(picks, dir)
           first == FirstArrival(ps, picks, dir)
<1>1. /\ IsRecording(ps) /\ DOMAIN ps = Waypoints /\ dest \in Waypoints
      /\ DOMAIN picks = Waypoints
  BY RecordingsAreRecordings, DestinationFacts, AssignmentFacts DEF Waypoints
<1>2. CASE picks[dest] = 0
  BY <1>2 DEF Arrive
<1>3. CASE picks[dest] # 0
  <2>1. q = [picks EXCEPT ![dest] = first]
    BY <1>3 DEF Arrive
  <2>2. /\ first \in DOMAIN ps[dest] /\ first \in Nat \ {0}
        /\ prev # 0 => Follows(ps[dest][first], ps[prev][picks[prev]])
        /\ \A j \in DOMAIN ps[dest] :
             (prev # 0 => Follows(ps[dest][j], ps[prev][picks[prev]])) =>
               ps[dest][first].enter <= ps[dest][j].enter
    BY <1>3, FirstArrivalFacts
  <2>3. /\ prev = 0 <=> ReachedIn(picks) \ {dest} = {}
        /\ ReachedIn(picks) \ {dest} # {} =>
             /\ prev \in ReachedIn(picks) \ {dest}
             /\ \A x \in ReachedIn(picks) \ {dest} : x = prev \/ Precedes(dir, x, prev)
    BY MatchedBeforeFacts
  <2>4. \A w \in Waypoints : w # dest => Precedes(dir, w, dest) /\ ~ Precedes(dir, dest, w)
    BY DestinationFacts
  <2>5. ~ Precedes(dir, dest, dest)
    BY <1>1 DEF Precedes, Waypoints
  <2> HIDE DEF dest, prev, first
  <2>6. /\ DOMAIN q = Waypoints /\ q[dest] = first
        /\ \A w \in Waypoints : w # dest => q[w] = picks[w]
    BY <1>1, <2>1
  <2>7. ReachedIn(q) = ReachedIn(picks) /\ ReachedIn(picks) \subseteq Waypoints
    BY <1>1, <1>3, <2>2, <2>6 DEF ReachedIn
  <2>8. q \in Assignments(ps)
    <3>1. first \in 0 .. MaxPasses /\ first <= Len(ps[dest])
      <4>1. Len(ps[dest]) \in 0 .. MaxPasses /\ DOMAIN ps[dest] = 1 .. Len(ps[dest])
        BY <1>1, RecordingFacts
      <4> QED
        BY <2>2, <4>1, AssignAssumptions DEF AssignAssumptions
    <3>2. picks \in [DOMAIN ps -> 0 .. MaxPasses] /\ \A w \in DOMAIN ps : picks[w] <= Len(ps[w])
      BY DEF Assignments
    <3>3. q \in [DOMAIN ps -> 0 .. MaxPasses]
      BY <2>1, <3>1, <3>2
    <3>4. \A w \in DOMAIN ps : q[w] <= Len(ps[w])
      BY <1>1, <2>6, <3>1, <3>2
    <3> QED
      BY <3>3, <3>4 DEF Assignments
  <2>9. InOrder(ps, q, dir)
    <3> SUFFICES ASSUME NEW a \in ReachedIn(q), NEW b \in ReachedIn(q), Precedes(dir, a, b)
                 PROVE  Follows(ps[b][q[b]], ps[a][q[a]])
      BY DEF InOrder
    <3>1. a \in Waypoints /\ b \in Waypoints /\ a \in ReachedIn(picks) /\ b \in ReachedIn(picks)
      BY <2>7
    <3>2. a # dest
      BY <2>4, <2>5, <3>1
    <3>3. q[a] = picks[a]
      BY <2>6, <3>1, <3>2
    <3>4. CASE b # dest
      <4>1. q[b] = picks[b]
        BY <2>6, <3>1, <3>4
      <4>2. Follows(ps[b][picks[b]], ps[a][picks[a]])
        BY <3>1 DEF InOrder
      <4> QED
        BY <3>3, <4>1, <4>2
    <3>5. CASE b = dest
      <4>1. prev \in ReachedIn(picks) /\ prev # 0 /\ prev \in Waypoints
            /\ (a = prev \/ Precedes(dir, a, prev))
        BY <2>3, <2>7, <3>1, <3>2
      <4>2. Follows(ps[dest][first], ps[prev][picks[prev]])
        BY <2>2, <4>1
      <4>3. CASE a = prev
        BY <2>6, <3>3, <3>5, <4>2, <4>3
      <4>4. CASE Precedes(dir, a, prev)
        <5>1. Follows(ps[prev][picks[prev]], ps[a][picks[a]])
          BY <3>1, <4>1, <4>4 DEF InOrder
        <5> DEFINE p == ps[prev][picks[prev]]
                   e == ps[dest][first]
                   s == ps[a][picks[a]]
        <5>2. p.enter \in Int /\ p.exit \in Int /\ p.enter <= p.exit
          <6>1. picks[prev] \in DOMAIN ps[prev]
            BY <1>1, <4>1, AssignmentFacts DEF ReachedIn
          <6> QED
            BY <1>1, <4>1, <6>1, RecordingFacts
        <5>3. s.exit \in Int
          <6>1. picks[a] \in DOMAIN ps[a]
            BY <1>1, <3>1, AssignmentFacts DEF ReachedIn
          <6> QED
            BY <1>1, <3>1, <6>1, RecordingFacts
        <5>4. e.enter \in Int
          BY <1>1, <2>2, RecordingFacts
        <5>5. s.exit <= p.enter /\ p.exit <= e.enter
          BY <4>2, <5>1 DEF Follows
        <5> HIDE DEF p, e, s
        <5>6. s.exit <= e.enter
          BY <5>2, <5>3, <5>4, <5>5
        <5> QED
          BY <2>6, <3>3, <3>5, <5>6 DEF Follows, e, s
      <4> QED
        BY <4>1, <4>3, <4>4
    <3> QED
      BY <3>4, <3>5
  <2>10. ASSUME NEW j \in DOMAIN ps[dest],
                \A w \in ReachedIn(q) \ {dest} : Follows(ps[dest][j], ps[w][q[w]])
         PROVE  ps[dest][q[dest]].enter <= ps[dest][j].enter
    <3>1. prev # 0 => Follows(ps[dest][j], ps[prev][picks[prev]])
      <4> SUFFICES ASSUME prev # 0 PROVE Follows(ps[dest][j], ps[prev][picks[prev]])
        OBVIOUS
      <4>1. prev \in ReachedIn(q) \ {dest} /\ prev \in Waypoints /\ prev # dest
        BY <2>3, <2>7
      <4> QED
        BY <2>6, <2>10, <4>1
    <3> QED
      BY <2>2, <2>6, <3>1
  <2> QED
    BY <2>8, <2>9, <2>10 DEF dest
<1> QED
  BY <1>2, <1>3

(* What is kept of the recording reaches to where the last waypoint that   *)
(* counts is entered.                                                      *)
LEMMA TrackEndFacts ==
  ASSUME NEW ps \in Recordings, NEW q \in Assignments(ps), NEW dir \in Directions,
         InOrder(ps, q, dir)
  PROVE  /\ TrackEnd(ps, q, dir) \in 1 .. NumFixes
         /\ \A w \in ReachedIn(q) : ps[w][q[w]].enter <= FixAt(TrackEnd(ps, q, dir) - 1)
<1> DEFINE dest == Destination(dir)
           p == ps[dest][q[dest]]
           end == p.index + 2
<1>1. /\ IsRecording(ps) /\ DOMAIN ps = Waypoints /\ dest \in Waypoints
      /\ DOMAIN q = Waypoints
  BY RecordingsAreRecordings, DestinationFacts, AssignmentFacts DEF Waypoints
<1>2. NumFixes \in Nat /\ NumFixes >= 1 /\ LastInstant = 2 * (NumFixes - 1)
  BY AssignAssumptions DEF AssignAssumptions, LastInstant, FixAt
<1>3. ASSUME NEW w \in ReachedIn(q)
      PROVE  /\ w \in Waypoints /\ ps[w][q[w]] \in Pass
             /\ ps[w][q[w]].enter \in 0 .. LastInstant /\ ps[w][q[w]].exit \in 0 .. LastInstant
             /\ ps[w][q[w]].enter <= ps[w][q[w]].exit
  <2>1. w \in Waypoints /\ q[w] \in DOMAIN ps[w]
    BY <1>1, AssignmentFacts DEF ReachedIn
  <2>2. ps[w][q[w]] \in Pass
    BY <2>1, RecordingsAreRecordings
  <2> QED
    BY <2>1, <2>2, PassFacts
<1>4. CASE q[dest] # 0 /\ end < NumFixes
  <2>1. TrackEnd(ps, q, dir) = end
    BY <1>4 DEF TrackEnd
  <2>2. dest \in ReachedIn(q)
    BY <1>1, <1>4 DEF ReachedIn
  <2>3. /\ p.enter \in Nat /\ p.enter \in 0 .. LastInstant
        /\ p.index \in Nat /\ p.enter <= FixAt(p.index + 1)
    BY <1>2, <1>3, <2>2, PassFacts
  <2>4. ASSUME NEW w \in ReachedIn(q) PROVE ps[w][q[w]].enter <= p.enter
    <3>1. CASE w = dest
      BY <2>3, <3>1
    <3>2. CASE w # dest
      <4>1. Precedes(dir, w, dest)
        BY <1>3, <3>2, DestinationFacts
      <4>2. ps[w][q[w]].exit <= p.enter
        BY <2>2, <4>1 DEF InOrder, Follows
      <4>3. /\ ps[w][q[w]].enter \in 0 .. LastInstant /\ ps[w][q[w]].exit \in 0 .. LastInstant
            /\ ps[w][q[w]].enter <= ps[w][q[w]].exit
        BY <1>3
      <4> QED
        BY <1>2, <2>3, <4>2, <4>3
    <3> QED
      BY <3>1, <3>2
  <2> HIDE DEF p
  <2>5. end \in 1 .. NumFixes /\ p.enter <= FixAt(end - 1) /\ FixAt(end - 1) \in Int
    BY <1>2, <1>4, <2>3 DEF FixAt
  <2>6. \A w \in ReachedIn(q) : ps[w][q[w]].enter \in Int
    BY <1>2, <1>3
  <2> HIDE DEF end
  <2>7. \A w \in ReachedIn(q) : ps[w][q[w]].enter <= FixAt(end - 1)
    BY <2>3, <2>4, <2>5, <2>6
  <2> QED
    BY <2>1, <2>5, <2>7
<1>5. CASE ~ (q[dest] # 0 /\ end < NumFixes)
  <2>1. TrackEnd(ps, q, dir) = NumFixes
    BY <1>5 DEF TrackEnd
  <2>2. FixAt(NumFixes - 1) = LastInstant
    BY DEF LastInstant
  <2> HIDE DEF p, end
  <2>3. \A w \in ReachedIn(q) : ps[w][q[w]].enter <= LastInstant
    BY <1>2, <1>3
  <2> QED
    BY <1>2, <2>1, <2>2, <2>3
<1> QED
  BY <1>4, <1>5

(* Waypoints are crossed in the order of travel. *)
LEMMA CrossingsInOrder ==
  ASSUME NEW ps \in Recordings, NEW q \in Assignments(ps), NEW dir \in Directions,
         InOrder(ps, q, dir)
  PROVE  /\ \A w \in ReachedIn(q) : /\ w \in Waypoints /\ CrossedAt(ps[w][q[w]]) \in Int
                                    /\ Anchor = "entry" =>
                                         CrossedAt(ps[w][q[w]]) = ps[w][q[w]].enter
         /\ \A a, b \in ReachedIn(q) :
              Precedes(dir, a, b) => CrossedAt(ps[a][q[a]]) <= CrossedAt(ps[b][q[b]])
<1>1. IsRecording(ps) /\ DOMAIN ps = Waypoints /\ DOMAIN q = Waypoints
  BY RecordingsAreRecordings, AssignmentFacts DEF Waypoints
<1>2. ASSUME NEW w \in ReachedIn(q)
      PROVE  /\ w \in Waypoints /\ CrossedAt(ps[w][q[w]]) \in Int
             /\ ps[w][q[w]].enter \in Int /\ ps[w][q[w]].exit \in Int
             /\ ps[w][q[w]].enter <= CrossedAt(ps[w][q[w]])
             /\ CrossedAt(ps[w][q[w]]) <= ps[w][q[w]].exit
             /\ Anchor = "entry" => CrossedAt(ps[w][q[w]]) = ps[w][q[w]].enter
  <2>1. w \in Waypoints /\ q[w] \in DOMAIN ps[w]
    BY <1>1, AssignmentFacts DEF ReachedIn
  <2>2. ps[w][q[w]] \in Pass
    BY <2>1, RecordingsAreRecordings
  <2>3. 0 .. LastInstant \subseteq Int
    BY LastInstantType
  <2> QED
    BY <2>1, <2>2, <2>3, PassFacts
<1>3. ASSUME NEW a \in ReachedIn(q), NEW b \in ReachedIn(q), Precedes(dir, a, b)
      PROVE  CrossedAt(ps[a][q[a]]) <= CrossedAt(ps[b][q[b]])
  <2>1. ps[a][q[a]].exit <= ps[b][q[b]].enter
    BY <1>3 DEF InOrder, Follows
  <2> QED
    BY <1>2, <2>1
<1> QED
  BY <1>2, <1>3

-----------------------------------------------------------------------------
(* What is measured *)

LEMMA BothDirectionsExact ==
  ASSUME NEW ps, IsRecording(ps)
  PROVE  /\ IsExact(ps, "forward", Forward(ps)) /\ IsExact(ps, "reverse", Backward(ps))
         /\ IsExact(ps, Interpretation(ps).direction, Interpretation(ps).choice)
         /\ Interpretation(ps).direction \in Directions
<1>1. IsExact(ps, "forward", Forward(ps)) /\ IsExact(ps, "reverse", Backward(ps))
  BY AssignPassesIsExact, BackwardIsExact DEF Forward
<1> QED
  BY <1>1 DEF Interpretation, Directions

LEMMA MeasuredFacts ==
  ASSUME NEW ps \in Recordings, NEW m, m = Measured(ps)
  PROVE  /\ m.direction \in Directions /\ m.picks \in Assignments(ps)
         /\ InOrder(ps, m.picks, m.direction)
         /\ m.picks[Destination(m.direction)] # 0 =>
              \A j \in DOMAIN ps[Destination(m.direction)] :
                (\A w \in ReachedIn(m.picks) \ {Destination(m.direction)} :
                   Follows(ps[Destination(m.direction)][j], ps[w][m.picks[w]])) =>
                  ps[Destination(m.direction)][m.picks[Destination(m.direction)]].enter
                    <= ps[Destination(m.direction)][j].enter
         /\ m.trackEnd = TrackEnd(ps, m.picks, m.direction)
         /\ m.endedAt = FixAt(m.trackEnd - 1)
         /\ m.segments = Segments(ps, m.picks) /\ m.status = Status(m.picks)
<1> DEFINE best == Interpretation(ps)
           picks == best.choice.picks
<1>1. IsRecording(ps)
  BY RecordingsAreRecordings
<1>2. /\ best.direction \in Directions /\ picks \in Assignments(ps)
      /\ InOrder(ps, picks, best.direction)
  BY <1>1, BothDirectionsExact DEF IsExact
<1>3. /\ m.direction = best.direction /\ m.picks = Arrive(ps, picks, best.direction)
      /\ m.trackEnd = TrackEnd(ps, m.picks, m.direction)
      /\ m.endedAt = FixAt(m.trackEnd - 1)
      /\ m.segments = Segments(ps, m.picks) /\ m.status = Status(m.picks)
  BY DEF Measured
<1> HIDE DEF best
<1> QED
  BY <1>2, <1>3, ArriveFacts

LEMMA SegmentFacts ==
  ASSUME NEW ps, NEW picks, NEW i \in 1 .. NumWaypoints - 1,
         Segments(ps, picks)[i].complete
  PROVE  LET a == CrossedAt(ps[i][picks[i]])
             b == CrossedAt(ps[i + 1][picks[i + 1]])
         IN  /\ picks[i] # 0 /\ picks[i + 1] # 0
             /\ Segments(ps, picks)[i].from = (IF b < a THEN b ELSE a)
             /\ Segments(ps, picks)[i].to = (IF b < a THEN a ELSE b)
<1>1. Segments(ps, picks)[i] = Segment(ps, picks, i)
  BY DEF Segments
<1>2. picks[i] # 0 /\ picks[i + 1] # 0
  BY <1>1 DEF Segment
<1> QED
  BY <1>1, <1>2 DEF Segment

(* Measured stretches do not overlap. *)
LEMMA StretchesInOrder ==
  ASSUME NEW ps \in Recordings, NEW m, m = Measured(ps),
         NEW i \in DOMAIN m.segments, m.segments[i].complete
  PROVE  /\ m.segments[i].from \in Int /\ m.segments[i].to \in Int
         /\ m.segments[i].from <= m.segments[i].to
         /\ \E w \in ReachedIn(m.picks) : m.segments[i].to = CrossedAt(ps[w][m.picks[w]])
         /\ \A j \in DOMAIN m.segments :
              m.segments[j].complete /\ Precedes(m.direction, i, j) =>
                m.segments[i].to <= m.segments[j].from
<1> DEFINE at(w) == CrossedAt(ps[w][m.picks[w]])
<1>1. /\ m.direction \in Directions /\ m.picks \in Assignments(ps)
      /\ InOrder(ps, m.picks, m.direction) /\ m.segments = Segments(ps, m.picks)
  BY MeasuredFacts
<1>2. NumWaypoints \in Nat /\ DOMAIN m.picks = 1 .. NumWaypoints
  BY <1>1, RecordingsAreRecordings, AssignmentFacts, AssignAssumptions DEF AssignAssumptions
<1>3. DOMAIN m.segments = 1 .. NumWaypoints - 1
  BY <1>1 DEF Segments
<1>4. ASSUME NEW k \in DOMAIN m.segments, m.segments[k].complete
      PROVE  /\ k \in 1 .. NumWaypoints /\ k + 1 \in 1 .. NumWaypoints
             /\ k \in ReachedIn(m.picks) /\ k + 1 \in ReachedIn(m.picks)
             /\ m.segments[k].from = (IF at(k + 1) < at(k) THEN at(k + 1) ELSE at(k))
             /\ m.segments[k].to = (IF at(k + 1) < at(k) THEN at(k) ELSE at(k + 1))
  <2>1. k \in 1 .. NumWaypoints - 1
    BY <1>3
  <2>2. /\ m.picks[k] # 0 /\ m.picks[k + 1] # 0
        /\ m.segments[k].from = (IF at(k + 1) < at(k) THEN at(k + 1) ELSE at(k))
        /\ m.segments[k].to = (IF at(k + 1) < at(k) THEN at(k) ELSE at(k + 1))
    BY <1>1, <1>4, <2>1, SegmentFacts
  <2>3. k \in 1 .. NumWaypoints /\ k + 1 \in 1 .. NumWaypoints
    BY <1>2, <2>1
  <2> QED
    BY <1>2, <2>2, <2>3 DEF ReachedIn
<1>5. /\ \A w \in ReachedIn(m.picks) : at(w) \in Int
      /\ \A a, b \in ReachedIn(m.picks) : Precedes(m.direction, a, b) => at(a) <= at(b)
  BY <1>1, CrossingsInOrder
<1> HIDE DEF at
<1>6. ASSUME NEW k \in DOMAIN m.segments, m.segments[k].complete
      PROVE  /\ m.segments[k].from =
                  (IF m.direction = "forward" THEN at(k) ELSE at(k + 1))
             /\ m.segments[k].to =
                  (IF m.direction = "forward" THEN at(k + 1) ELSE at(k))
             /\ at(k) \in Int /\ at(k + 1) \in Int
             /\ m.segments[k].from <= m.segments[k].to
  <2>1. at(k) \in Int /\ at(k + 1) \in Int /\ k < k + 1
    BY <1>2, <1>4, <1>5, <1>6
  <2>2. CASE m.direction = "forward"
    <3>1. at(k) <= at(k + 1)
      BY <1>4, <1>5, <1>6, <2>1, <2>2 DEF Precedes
    <3> QED
      BY <1>4, <1>6, <2>1, <2>2, <3>1
  <2>3. CASE m.direction # "forward"
    <3>1. at(k + 1) <= at(k)
      BY <1>4, <1>5, <1>6, <2>1, <2>3 DEF Precedes
    <3> QED
      BY <1>4, <1>6, <2>1, <2>3, <3>1
  <2> QED
    BY <2>2, <2>3
<1>7. ASSUME NEW j \in DOMAIN m.segments, m.segments[j].complete, Precedes(m.direction, i, j)
      PROVE  m.segments[i].to <= m.segments[j].from
  <2>1. i \in Int /\ j \in Int
    BY <1>2, <1>3
  <2>2. CASE m.direction = "forward"
    <3>1. i < j
      BY <1>7, <2>2 DEF Precedes
    <3>2. i + 1 = j \/ i + 1 < j
      BY <2>1, <3>1
    <3>3. at(i + 1) <= at(j)
      <4>1. i + 1 < j => at(i + 1) <= at(j)
        BY <1>4, <1>5, <1>7, <2>2 DEF Precedes
      <4> QED
        BY <1>6, <1>7, <3>2, <4>1
    <3> QED
      BY <1>6, <1>7, <2>2, <3>3
  <2>3. CASE m.direction # "forward"
    <3>1. j < i
      BY <1>7, <2>3 DEF Precedes
    <3>2. j + 1 = i \/ j + 1 < i
      BY <2>1, <3>1
    <3>3. at(i) <= at(j + 1)
      <4>1. j + 1 < i => at(i) <= at(j + 1)
        BY <1>4, <1>5, <1>7, <2>3 DEF Precedes
      <4> QED
        BY <1>6, <1>7, <3>2, <4>1
    <3> QED
      BY <1>6, <1>7, <2>3, <3>3
  <2> QED
    BY <2>2, <2>3
<1>8. \E w \in ReachedIn(m.picks) : m.segments[i].to = at(w)
  BY <1>4, <1>6
<1> QED
  BY <1>6, <1>7, <1>8 DEF at

-----------------------------------------------------------------------------
(* The invariant *)

AssignInv ==
  /\ passes \in Recordings
  /\ trip = NotMeasured \/ trip = Measured(passes)

LEMMA InvHolds == Spec => []AssignInv
<1>1. Init => AssignInv
  BY DEF Init, AssignInv, Recordings
<1>2. AssignInv /\ [Next]_vars => AssignInv'
  <2> SUFFICES ASSUME AssignInv, [Next]_vars PROVE AssignInv'
    OBVIOUS
  <2>1. CASE Measure
    BY <2>1 DEF Measure, AssignInv
  <2>2. CASE UNCHANGED vars
    BY <2>2 DEF vars, AssignInv
  <2> QED
    BY <2>1, <2>2 DEF Next
<1> QED
  BY <1>1, <1>2, PTL DEF Spec

(* Every trip is well typed: between one fix and all of them are kept. *)
THEOREM AssignTyped == Spec => []TypeOK
<1>1. AssignInv => TypeOK
  <2> SUFFICES ASSUME AssignInv PROVE TypeOK
    OBVIOUS
  <2>1. passes \in [Waypoints -> PassLists]
    BY DEF AssignInv, Recordings
  <2>2. CASE trip = NotMeasured
    <3>1. NumFixes \in 1 .. NumFixes
      BY AssignAssumptions DEF AssignAssumptions
    <3> QED
      BY <2>1, <2>2, <3>1 DEF NotMeasured, TypeOK
  <2>3. CASE trip = Measured(passes)
    <3>1. /\ trip.direction \in Directions /\ trip.picks \in Assignments(passes)
          /\ InOrder(passes, trip.picks, trip.direction)
          /\ trip.trackEnd = TrackEnd(passes, trip.picks, trip.direction)
          /\ trip.status = Status(trip.picks)
      BY <2>3, MeasuredFacts DEF AssignInv
    <3>2. trip.trackEnd \in 1 .. NumFixes
      BY <3>1, TrackEndFacts DEF AssignInv
    <3>3. trip.status \in {"matched", "partial", "unmatched"}
      BY <3>1 DEF Status
    <3> QED
      BY <2>1, <3>1, <3>2, <3>3 DEF TypeOK, Directions
  <2> QED
    BY <2>2, <2>3 DEF AssignInv
<1> QED
  BY <1>1, InvHolds, PTL

(***************************************************************************)
(* assign is exact in both directions, for any number of waypoints and of  *)
(* passes: what it picks is in order of travel, its count and distance are *)
(* right, and no other choice in that order is better.                     *)
(***************************************************************************)
THEOREM DynamicProgramIsExact == Spec => []AssignIsExact
<1>1. AssignInv => AssignIsExact
  <2> SUFFICES ASSUME AssignInv PROVE AssignIsExact
    OBVIOUS
  <2>1. IsRecording(passes)
    BY RecordingsAreRecordings DEF AssignInv
  <2>2. ASSUME NEW dir, NEW c, IsExact(passes, dir, c) PROVE ExactIn(dir, c)
    <3>1. FitOf(passes, c.picks) = [matched |-> c.matched, dist |-> c.dist]
      BY <2>2 DEF IsExact, HasFitOf, FitOf
    <3> QED
      BY <2>2, <3>1 DEF IsExact, ExactIn
  <2> QED
    BY <2>1, <2>2, BothDirectionsExact DEF AssignIsExact
<1> QED
  BY <1>1, InvHolds, PTL

(***************************************************************************)
(* A drive and its mirror image are recognised as opposite directions of   *)
(* the same fit, unless both directions fit the drive equally well.        *)
(***************************************************************************)
THEOREM MirrorImagesAreOpposite == Spec => []MirrorFlipsDirection
<1>1. AssignInv => MirrorFlipsDirection
  <2> SUFFICES ASSUME AssignInv PROVE MirrorFlipsDirection
    OBVIOUS
  <2> DEFINE mps == Mirrored(passes)
             f == Forward(passes)
             b == Backward(passes)
             mf == Forward(mps)
             mb == Backward(mps)
  <2>1. IsRecording(passes) /\ IsRecording(mps)
    BY RecordingsAreRecordings, MirroredRecording DEF AssignInv
  <2>2. /\ IsExact(passes, "forward", f) /\ IsExact(passes, "reverse", b)
        /\ IsExact(mps, "forward", mf) /\ IsExact(mps, "reverse", mb)
    BY <2>1, BothDirectionsExact
  <2>3. Opposite("forward") = "reverse" /\ Opposite("reverse") = "forward"
    BY DEF Opposite
  <2>4. /\ Interpretation(passes) = IF Better(b, f) THEN [direction |-> "reverse", choice |-> b]
                                    ELSE [direction |-> "forward", choice |-> f]
        /\ Interpretation(mps) = IF Better(mb, mf) THEN [direction |-> "reverse", choice |-> mb]
                                 ELSE [direction |-> "forward", choice |-> mf]
    BY DEF Interpretation
  <2> HIDE DEF f, b, mf, mb
  <2>5. f.matched = mb.matched /\ f.dist = mb.dist /\ HasFit(f) /\ HasFit(mb)
    BY <2>1, <2>2, <2>3, MirroredFitsEqually
  <2>6. b.matched = mf.matched /\ b.dist = mf.dist /\ HasFit(b) /\ HasFit(mf)
    BY <2>1, <2>2, <2>3, MirroredFitsEqually
  <2> HIDE DEF mps
  <2>7. CASE Better(b, f)
    <3>1. ~ Better(mb, mf)
      BY <2>5, <2>6, <2>7 DEF Better, HasFit
    <3>2. Interpretation(passes) = [direction |-> "reverse", choice |-> b]
          /\ Interpretation(mps) = [direction |-> "forward", choice |-> mf]
      BY <2>4, <2>7, <3>1
    <3> QED
      BY <2>6, <3>2 DEF MirrorFlipsDirection, mps
  <2>8. CASE ~ Better(b, f) /\ Better(mb, mf)
    <3>1. Interpretation(passes) = [direction |-> "forward", choice |-> f]
          /\ Interpretation(mps) = [direction |-> "reverse", choice |-> mb]
      BY <2>4, <2>8
    <3> QED
      BY <2>5, <3>1 DEF MirrorFlipsDirection, mps
  <2>9. CASE ~ Better(b, f) /\ ~ Better(mb, mf)
    <3>1. Interpretation(passes) = [direction |-> "forward", choice |-> f]
          /\ Interpretation(mps) = [direction |-> "forward", choice |-> mf]
      BY <2>4, <2>9
    <3>2. f.matched = b.matched /\ f.dist = b.dist
      BY <2>5, <2>6, <2>9 DEF Better, HasFit
    <3> QED
      BY <2>6, <3>1, <3>2 DEF MirrorFlipsDirection, mps, f, b
  <2> QED
    BY <2>7, <2>8, <2>9
<1> QED
  BY <1>1, InvHolds, PTL

(***************************************************************************)
(* Settling on the first arrival keeps the order of travel, cuts off no    *)
(* waypoint that counts, and leaves measured stretches that do not overlap.*)
(***************************************************************************)
THEOREM ArrivalsKeepOrder == Spec => []ArrivalKeepsOrder
<1>1. AssignInv => ArrivalKeepsOrder
  <2> SUFFICES ASSUME AssignInv, trip # NotMeasured
               PROVE  /\ InOrder(passes, trip.picks, trip.direction)
                      /\ \A w \in ReachedIn(trip.picks) :
                           passes[w][trip.picks[w]].enter <= trip.endedAt
                      /\ SegmentsDoNotOverlap
    BY DEF ArrivalKeepsOrder
  <2>1. passes \in Recordings /\ trip = Measured(passes)
    BY DEF AssignInv
  <2>2. /\ trip.direction \in Directions /\ trip.picks \in Assignments(passes)
        /\ InOrder(passes, trip.picks, trip.direction)
        /\ trip.trackEnd = TrackEnd(passes, trip.picks, trip.direction)
        /\ trip.endedAt = FixAt(trip.trackEnd - 1)
    BY <2>1, MeasuredFacts
  <2>3. \A w \in ReachedIn(trip.picks) : passes[w][trip.picks[w]].enter <= trip.endedAt
    BY <2>1, <2>2, TrackEndFacts
  <2>4. SegmentsDoNotOverlap
    BY <2>1, StretchesInOrder DEF SegmentsDoNotOverlap
  <2> QED
    BY <2>2, <2>3, <2>4
<1> QED
  BY <1>1, InvHolds, PTL

(* No pass of the destination that could be the arrival comes sooner. *)
THEOREM ArrivalsAreFirst == Spec => []ArrivalIsFirst
<1>1. AssignInv => ArrivalIsFirst
  <2> SUFFICES ASSUME AssignInv, trip # NotMeasured PROVE ArrivalIsFirst
    BY DEF ArrivalIsFirst
  <2>1. passes \in Recordings /\ trip = Measured(passes)
    BY DEF AssignInv
  <2> QED
    BY <2>1, MeasuredFacts DEF ArrivalIsFirst
<1> QED
  BY <1>1, InvHolds, PTL

(***************************************************************************)
(* With the crossing at the entry, which is the default, no measured       *)
(* stretch ends after the journey does.  At the closest point it can: the  *)
(* recording is trimmed by where the destination was entered.              *)
(***************************************************************************)
THEOREM MeasuredStretchesEndInTime == Anchor = "entry" => (Spec => []MeasuredWithinJourney)
<1> SUFFICES ASSUME Anchor = "entry" PROVE Spec => []MeasuredWithinJourney
  OBVIOUS
<1>1. AssignInv => MeasuredWithinJourney
  <2> SUFFICES ASSUME AssignInv,
                      NEW i \in DOMAIN trip.segments, trip.segments[i].complete
               PROVE  trip.segments[i].to <= trip.endedAt
    BY DEF MeasuredWithinJourney
  <2>1. CASE trip = NotMeasured
    BY <2>1 DEF NotMeasured
  <2>2. CASE trip = Measured(passes)
    <3>1. passes \in Recordings
      BY DEF AssignInv
    <3>2. /\ trip.direction \in Directions /\ trip.picks \in Assignments(passes)
          /\ InOrder(passes, trip.picks, trip.direction)
          /\ trip.trackEnd = TrackEnd(passes, trip.picks, trip.direction)
          /\ trip.endedAt = FixAt(trip.trackEnd - 1)
      BY <2>2, <3>1, MeasuredFacts
    <3>3. PICK w \in ReachedIn(trip.picks) :
            trip.segments[i].to = CrossedAt(passes[w][trip.picks[w]])
      BY <2>2, <3>1, StretchesInOrder
    <3>4. CrossedAt(passes[w][trip.picks[w]]) = passes[w][trip.picks[w]].enter
      BY <3>1, <3>2, CrossingsInOrder
    <3>5. passes[w][trip.picks[w]].enter <= trip.endedAt
      BY <3>1, <3>2, TrackEndFacts
    <3> QED
      BY <3>3, <3>4, <3>5
  <2> QED
    BY <2>1, <2>2 DEF AssignInv
<1> QED
  BY <1>1, InvHolds, PTL
=============================================================================
