-------------------------- MODULE PageCache_proofs --------------------------
(***************************************************************************)
(* Proofs about PageCache: what is cached is current, within its limits    *)
(* and counted right, and nothing is left of a document that is closed.    *)
(*   Part 1  sums over finite sets                                         *)
(*   Part 2  queues: what is left of one, and in which order               *)
(*   Part 3  the two caches and their limits                               *)
(*   Part 4  the inductive invariant, and what it implies                  *)
(*   Part 5  the entries of the pages and their versions                   *)
(*   Part 6  what the answers under way say                                *)
(*   Part 7  the render and the close under way                            *)
(*   Part 8  the client asks                                               *)
(*   Part 9  the worker answers                                            *)
(*   Part 10 the answers arrive                                            *)
(*   Part 11 every step, and the theorems                                  *)
(***************************************************************************)
EXTENDS PageCache, FiniteSetTheorems, SequenceTheorems, TLAPS

(* Part 1: sums *)

\* g gives every subset of S the sum of f over it, the way the fold computes it.
SumRec(f, S, g) ==
  g = [s \in SUBSET S |-> IF s = {} THEN 0
                          ELSE f[CHOOSE x \in s : TRUE] + g[s \ {CHOOSE x \in s : TRUE}]]

\* Every non-empty set of subsets of a finite set has a smallest one.  It takes
\* the place of an induction on the set.
LEMMA SmallestSubset ==
  ASSUME NEW S, IsFiniteSet(S), NEW C, C \subseteq SUBSET S, C # {}
  PROVE  \E s \in C : \A t \in C : t \subseteq s => t = s
<1>1. IsWellFoundedOn(StrictSubsetOrdering(S), SUBSET S)
  BY FS_StrictSubsetOrderingWellFounded, FS_FiniteSubsetsOfFinite
<1>2. PICK s \in C : \A t \in C : <<t, s>> \notin StrictSubsetOrdering(S)
  BY <1>1, WFMin
<1>3. QED BY <1>2 DEF StrictSubsetOrdering

\* Two such functions agree wherever the functions they sum agree.
LEMMA SumRecAgrees ==
  ASSUME NEW S, IsFiniteSet(S), NEW T \in SUBSET S, NEW e, NEW f, NEW g, NEW h,
         SumRec(e, S, g), SumRec(f, T, h), \A x \in T : e[x] = f[x]
  PROVE  \A s \in SUBSET T : g[s] = h[s]
<1> DEFINE C == {s \in SUBSET T : g[s] # h[s]}
<1> SUFFICES ASSUME C # {} PROVE FALSE OBVIOUS
<1>1. IsFiniteSet(T) BY FS_Subset
<1>2. PICK s \in C : \A t \in C : t \subseteq s => t = s
  <2>1. C \subseteq SUBSET T OBVIOUS
  <2> HIDE DEF C
  <2>2. QED BY <1>1, <2>1, SmallestSubset
<1> DEFINE x == CHOOSE y \in s : TRUE
<1>3. s # {} BY <1>2 DEF SumRec
<1>4. x \in s BY <1>3
<1>5. g[s \ {x}] = h[s \ {x}] BY <1>2, <1>4
<1>6. g[s] = e[x] + g[s \ {x}] BY <1>2, <1>3 DEF SumRec
<1>7. h[s] = f[x] + h[s \ {x}] BY <1>2, <1>3 DEF SumRec
<1>8. QED BY <1>2, <1>4, <1>5, <1>6, <1>7

\* There is such a function: a smallest subset without one could be given one.
LEMMA SumRecExists ==
  ASSUME NEW S, IsFiniteSet(S), NEW f
  PROVE  \E g : SumRec(f, S, g)
<1> DEFINE C == {s \in SUBSET S : ~ \E g : SumRec(f, s, g)}
<1> SUFFICES ASSUME C # {} PROVE FALSE OBVIOUS
<1>2. PICK s \in C : \A t \in C : t \subseteq s => t = s
  <2>1. C \subseteq SUBSET S OBVIOUS
  <2> HIDE DEF C
  <2>2. QED BY <2>1, SmallestSubset
<1> DEFINE P == (SUBSET s) \ {s}
           G(t) == CHOOSE g : SumRec(f, t, g)
           x(t) == CHOOSE y \in t : TRUE
           k == [t \in SUBSET s |-> IF t = {} THEN 0 ELSE f[x(t)] + G(t \ {x(t)})[t \ {x(t)}]]
<1>3. ASSUME NEW t \in P PROVE SumRec(f, t, G(t))
  <2>1. t \notin C BY <1>2
  <2>2. \E g : SumRec(f, t, g) BY <1>2, <2>1
  <2>3. QED BY <2>2
<1>4. ASSUME NEW t \in P PROVE k[t] = G(t)[t]
  <2>1. G(t)[t] = IF t = {} THEN 0 ELSE f[x(t)] + G(t)[t \ {x(t)}] 
    <3>1. t \in SUBSET t OBVIOUS
    <3> HIDE DEF G
    <3>2. SumRec(f, t, G(t)) BY <1>3
    <3>3. QED BY <3>1, <3>2 DEF SumRec
  <2>2. CASE t = {} BY <2>1, <2>2
  <2>3. CASE t # {}
    <3>1. x(t) \in t BY <2>3
    <3> DEFINE u == t \ {x(t)}
    <3>2. u \in P /\ u \in SUBSET t BY <3>1
    <3>3. IsFiniteSet(t) BY <1>2, FS_Subset
    <3> HIDE DEF G, u
    <3>4. SumRec(f, t, G(t)) /\ SumRec(f, u, G(u)) BY <1>3, <3>2
    <3>5. G(t)[u] = G(u)[u] BY <3>2, <3>3, <3>4, SumRecAgrees
    <3>6. QED BY <2>1, <2>3, <3>5 DEF u
  <2>4. QED BY <2>2, <2>3
<1>5. k = [t \in SUBSET s |-> IF t = {} THEN 0 ELSE f[x(t)] + k[t \ {x(t)}]]
  <2>1. ASSUME NEW t \in SUBSET s, t # {} PROVE k[t] = f[x(t)] + k[t \ {x(t)}]
    <3>1. x(t) \in t BY <2>1
    <3>2. t \ {x(t)} \in P BY <3>1
    <3>3. QED BY <1>4, <2>1, <3>2
  <2>2. k[{}] = 0 OBVIOUS
  <2>3. k = [t \in SUBSET s |-> k[t]] OBVIOUS
  <2> HIDE DEF k
  <2>4. \A t \in SUBSET s : k[t] = IF t = {} THEN 0 ELSE f[x(t)] + k[t \ {x(t)}]
    BY <2>1, <2>2
  <2>5. QED BY <2>3, <2>4
<1>6. SumRec(f, s, k) BY <1>5 DEF SumRec
<1>7. QED BY <1>2, <1>6

\* The sum of a finite set is the value such a function gives it.
LEMMA SumIs ==
  ASSUME NEW S, IsFiniteSet(S), NEW f
  PROVE  \E g : SumRec(f, S, g) /\ SumFunctionOnSet(f, S) = g[S]
<1> DEFINE g == CHOOSE g : SumRec(f, S, g)
<1>1. SumRec(f, S, g) BY SumRecExists
<1>2. SumFunctionOnSet(f, S) = g[S]
  BY DEF SumFunctionOnSet, FoldFunctionOnSet, MapThenFoldSet, SumRec
<1>3. QED BY <1>1, <1>2

\* The empty sum.
LEMMA SumEmpty == ASSUME NEW f PROVE SumFunctionOnSet(f, {}) = 0
<1>1. PICK g : SumRec(f, {}, g) /\ SumFunctionOnSet(f, {}) = g[{}] BY SumIs, FS_EmptySet
<1>2. QED BY <1>1 DEF SumRec

\* A sum depends on the values of its own elements only.
LEMMA SumSame ==
  ASSUME NEW S, IsFiniteSet(S), NEW e, NEW f, \A x \in S : e[x] = f[x]
  PROVE  SumFunctionOnSet(e, S) = SumFunctionOnSet(f, S)
<1>1. PICK g : SumRec(e, S, g) /\ SumFunctionOnSet(e, S) = g[S] BY SumIs
<1>2. PICK h : SumRec(f, S, h) /\ SumFunctionOnSet(f, S) = h[S] BY SumIs
<1>3. S \in SUBSET S OBVIOUS
<1>4. g[S] = h[S] BY <1>1, <1>2, <1>3, SumRecAgrees
<1>5. QED BY <1>1, <1>2, <1>4

\* Some element can be taken out of a sum...
LEMMA SumStep ==
  ASSUME NEW S, IsFiniteSet(S), S # {}, NEW f
  PROVE  \E x \in S : SumFunctionOnSet(f, S) = f[x] + SumFunctionOnSet(f, S \ {x})
<1>1. PICK g : SumRec(f, S, g) /\ SumFunctionOnSet(f, S) = g[S] BY SumIs
<1> DEFINE x == CHOOSE y \in S : TRUE
           T == S \ {x}
<1>2. x \in S OBVIOUS
<1>3. g[S] = f[x] + g[T] BY <1>1 DEF SumRec
<1>4. T \in SUBSET S /\ IsFiniteSet(T) BY FS_RemoveElement
<1> HIDE DEF x, T
<1>5. PICK h : SumRec(f, T, h) /\ SumFunctionOnSet(f, T) = h[T] BY <1>4, SumIs
<1>6. g[T] = h[T] BY <1>1, <1>4, <1>5, SumRecAgrees
<1>7. QED BY <1>1, <1>2, <1>3, <1>5, <1>6 DEF T

\* A sum of integers is one.
LEMMA SumInt ==
  ASSUME NEW S, IsFiniteSet(S), NEW f, \A x \in S : f[x] \in Int
  PROVE  SumFunctionOnSet(f, S) \in Int
<1> DEFINE C == {s \in SUBSET S : SumFunctionOnSet(f, s) \notin Int}
<1> SUFFICES ASSUME C # {} PROVE FALSE OBVIOUS
<1>1. PICK s \in C : \A t \in C : t \subseteq s => t = s
  <2>1. C \subseteq SUBSET S OBVIOUS
  <2> HIDE DEF C
  <2>2. QED BY <2>1, SmallestSubset
<1>2. s # {}
  <2>1. SumFunctionOnSet(f, {}) = 0 BY SumEmpty
  <2>2. SumFunctionOnSet(f, s) \notin Int OBVIOUS
  <2>3. QED BY <2>1, <2>2
<1>3. IsFiniteSet(s) BY <1>1, FS_Subset
<1>4. PICK x \in s : SumFunctionOnSet(f, s) = f[x] + SumFunctionOnSet(f, s \ {x})
  BY <1>2, <1>3, SumStep
<1>5. SumFunctionOnSet(f, s \ {x}) \in Int BY <1>1, <1>4
<1>6. QED BY <1>1, <1>4, <1>5

\* ...and then any element can.
LEMMA SumWithout ==
  ASSUME NEW S, IsFiniteSet(S), NEW f, \A x \in S : f[x] \in Int, NEW y \in S
  PROVE  SumFunctionOnSet(f, S) = f[y] + SumFunctionOnSet(f, S \ {y})
<1> DEFINE Sum(s) == SumFunctionOnSet(f, s)
           C == {s \in SUBSET S : \E z \in s : Sum(s) # f[z] + Sum(s \ {z})}
<1> SUFFICES ASSUME C # {} PROVE FALSE OBVIOUS
<1>1. PICK s \in C : \A t \in C : t \subseteq s => t = s
  <2>1. C \subseteq SUBSET S OBVIOUS
  <2> HIDE DEF C
  <2>2. QED BY <2>1, SmallestSubset
<1>2. PICK z \in s : Sum(s) # f[z] + Sum(s \ {z}) OBVIOUS
<1>3. IsFiniteSet(s) BY <1>1, FS_Subset
<1>4. PICK x \in s : Sum(s) = f[x] + Sum(s \ {x}) BY <1>2, <1>3, SumStep
<1>5. x # z BY <1>2, <1>4
<1> DEFINE rest == s \ {x, z}
<1>6. (s \ {x}) \ {z} = rest /\ (s \ {z}) \ {x} = rest OBVIOUS
<1>7. IsFiniteSet(rest) /\ rest \in SUBSET S BY <1>1, <1>3, FS_Subset
<1>8. f[x] \in Int /\ f[z] \in Int BY <1>1, <1>2, <1>4
<1> HIDE DEF rest, Sum
<1>9. Sum(rest) \in Int BY <1>7, SumInt DEF Sum
<1>10. Sum(s \ {x}) = f[z] + Sum(rest)
  <2>1. s \ {x} \notin C BY <1>1, <1>4
  <2>2. z \in s \ {x} /\ s \ {x} \in SUBSET S BY <1>1, <1>2, <1>5
  <2>3. QED BY <1>6, <2>1, <2>2
<1>11. Sum(s \ {z}) = f[x] + Sum(rest)
  <2>1. s \ {z} \notin C BY <1>1, <1>2
  <2>2. x \in s \ {z} /\ s \ {z} \in SUBSET S BY <1>1, <1>4, <1>5
  <2>3. QED BY <1>6, <2>1, <2>2
<1>12. QED BY <1>2, <1>4, <1>8, <1>9, <1>10, <1>11

\* A sum of naturals is one.
LEMMA SumNat ==
  ASSUME NEW S, IsFiniteSet(S), NEW f, \A x \in S : f[x] \in Nat
  PROVE  SumFunctionOnSet(f, S) \in Nat
<1> DEFINE C == {s \in SUBSET S : SumFunctionOnSet(f, s) \notin Nat}
<1> SUFFICES ASSUME C # {} PROVE FALSE OBVIOUS
<1>1. PICK s \in C : \A t \in C : t \subseteq s => t = s
  <2>1. C \subseteq SUBSET S OBVIOUS
  <2> HIDE DEF C
  <2>2. QED BY <2>1, SmallestSubset
<1>2. s # {}
  <2>1. SumFunctionOnSet(f, {}) = 0 BY SumEmpty
  <2>2. SumFunctionOnSet(f, s) \notin Nat OBVIOUS
  <2>3. QED BY <2>1, <2>2
<1>3. IsFiniteSet(s) BY <1>1, FS_Subset
<1>4. PICK x \in s : SumFunctionOnSet(f, s) = f[x] + SumFunctionOnSet(f, s \ {x})
  BY <1>2, <1>3, SumStep
<1>5. SumFunctionOnSet(f, s \ {x}) \in Nat BY <1>1, <1>4
<1>6. QED BY <1>1, <1>4, <1>5

\* A sum is that of a part and that of the rest.
LEMMA SumSplit ==
  ASSUME NEW S, IsFiniteSet(S), NEW f, \A x \in S : f[x] \in Int, NEW T \in SUBSET S
  PROVE  SumFunctionOnSet(f, S) = SumFunctionOnSet(f, T) + SumFunctionOnSet(f, S \ T)
<1> DEFINE Sum(s) == SumFunctionOnSet(f, s)
           C == {s \in SUBSET S : Sum(s) # Sum(s \cap T) + Sum(s \ T)}
<1>0. S \cap T = T OBVIOUS
<1> SUFFICES ASSUME C # {} PROVE FALSE BY <1>0
<1>1. PICK s \in C : \A t \in C : t \subseteq s => t = s
  <2>1. C \subseteq SUBSET S OBVIOUS
  <2> HIDE DEF C
  <2>2. QED BY <2>1, SmallestSubset
<1>2. s # {}
  <2>1. Sum({}) = 0 BY SumEmpty
  <2>2. {} \cap T = {} /\ {} \ T = {} OBVIOUS
  <2> HIDE DEF Sum
  <2>3. {} \notin C BY <2>1, <2>2
  <2>4. QED BY <2>3
<1>3. PICK x : x \in s /\ Sum(s) # Sum(s \cap T) + Sum(s \ T) BY <1>1, <1>2
<1>4. IsFiniteSet(s) /\ f[x] \in Int BY <1>1, <1>3, FS_Subset
<1> DEFINE t == s \ {x}
<1>5. PICK A, B, D, E : A = s \cap T /\ B = s \ T /\ D = t \cap T /\ E = t \ T OBVIOUS
<1>6. /\ IsFiniteSet(A) /\ IsFiniteSet(B) /\ IsFiniteSet(D) /\ IsFiniteSet(E)
      /\ \A y \in s : f[y] \in Int
  BY <1>1, <1>5, FS_Subset
<1>7. Sum(s) = f[x] + Sum(t) BY <1>3, <1>4, <1>6, SumWithout
<1>8. Sum(t) = Sum(D) + Sum(E) BY <1>1, <1>3, <1>5
<1>9. Sum(D) \in Int /\ Sum(E) \in Int
  <2>1. \A y \in D \cup E : f[y] \in Int BY <1>5, <1>6
  <2>2. QED BY <1>6, <2>1, SumInt
<1>10. Sum(s) # Sum(A) + Sum(B) BY <1>3, <1>5
<1>11. CASE x \in T
  <2>1. x \in A /\ D = A \ {x} /\ E = B /\ \A y \in A : f[y] \in Int BY <1>3, <1>5, <1>6, <1>11
  <2>2. Sum(A) = f[x] + Sum(A \ {x}) BY <1>6, <2>1, SumWithout
  <2>3. QED BY <1>4, <1>7, <1>8, <1>9, <1>10, <2>1, <2>2
<1>12. CASE x \notin T
  <2>1. x \in B /\ E = B \ {x} /\ D = A /\ \A y \in B : f[y] \in Int BY <1>3, <1>5, <1>6, <1>12
  <2>2. Sum(B) = f[x] + Sum(B \ {x}) BY <1>6, <2>1, SumWithout
  <2>3. QED BY <1>4, <1>7, <1>8, <1>9, <1>10, <2>1, <2>2
<1>13. QED BY <1>11, <1>12

\* One element more.
LEMMA SumPlus ==
  ASSUME NEW S, IsFiniteSet(S), NEW f, \A x \in S : f[x] \in Int, NEW y, y \notin S, f[y] \in Int
  PROVE  SumFunctionOnSet(f, S \cup {y}) = f[y] + SumFunctionOnSet(f, S)
<1>1. IsFiniteSet(S \cup {y}) BY FS_AddElement
<1>2. (S \cup {y}) \ {y} = S OBVIOUS
<1>3. SumFunctionOnSet(f, S \cup {y}) = f[y] + SumFunctionOnSet(f, (S \cup {y}) \ {y})
  BY <1>1, SumWithout
<1>4. QED BY <1>2, <1>3

----------------------------------------------------------------------------
(* Part 2: queues *)

\* The least of some numbers is one of them.
LEMMA LeastIs ==
  ASSUME NEW N \in SUBSET Nat, N # {}
  PROVE  Least(N) \in N /\ \A k \in N : Least(N) <= k
<1>1. PICK n \in N : TRUE OBVIOUS
<1>2. \E b \in N : \A c \in N : b <= c
  <2> DEFINE Initial == {0 .. k : k \in {j \in N : j <= n}}
  <2>1. Initial \subseteq SUBSET (0 .. n) /\ Initial # {} BY <1>1
  <2>2. IsFiniteSet(0 .. n) BY <1>1, FS_Interval
  <2>3. PICK A \in Initial : \A B \in Initial : B \subseteq A => B = A
    <3>1. PICK U : U = 0 .. n OBVIOUS
    <3>2. IsFiniteSet(U) /\ Initial \subseteq SUBSET U /\ Initial # {} BY <2>1, <2>2, <3>1
    <3> HIDE DEF Initial
    <3>3. QED BY <3>2, SmallestSubset
  <2>4. PICK b \in N : b <= n /\ A = 0 .. b BY <2>3
  <2>5. ASSUME NEW c \in N, c < b PROVE FALSE
    <3>1. (0 .. c) \in Initial BY <1>1, <2>4, <2>5
    <3>2. (0 .. c) \subseteq (0 .. b) /\ (0 .. c) # (0 .. b) BY <2>4, <2>5
    <3>3. QED BY <2>3, <2>4, <3>1, <3>2
  <2>6. QED BY <2>4, <2>5
<1>3. QED BY <1>2 DEF Least

\* f gives every number up to n what is left of so many first elements of s.
OnlyRec(s, K, n, f) ==
  f = [i \in 0 .. n |->
         IF i = 0 THEN <<>> ELSE IF s[i] \in K THEN Append(f[i - 1], s[i]) ELSE f[i - 1]]

\* There is such a function: at the least n without one it could be given one.
LEMMA OnlyRecExists ==
  ASSUME NEW s, NEW K, NEW n \in Nat
  PROVE  \E f : OnlyRec(s, K, n, f)
<1> DEFINE N == {k \in Nat : ~ \E f : OnlyRec(s, K, k, f)}
<1> SUFFICES ASSUME N # {} PROVE FALSE OBVIOUS
<1>1. PICK k \in N : \A l \in N : k <= l
  <2>1. N \in SUBSET Nat OBVIOUS
  <2> HIDE DEF N
  <2>2. QED BY <2>1, LeastIs
<1>2. CASE k = 0
  <2> DEFINE f == [i \in 0 .. 0 |-> <<>>]
  <2>1. f = [i \in 0 .. 0 |->
               IF i = 0 THEN <<>> ELSE IF s[i] \in K THEN Append(f[i - 1], s[i]) ELSE f[i - 1]]
    OBVIOUS
  <2>2. OnlyRec(s, K, 0, f) BY <2>1 DEF OnlyRec
  <2>3. QED BY <1>2, <2>2
<1>3. CASE k # 0
  <2>1. k - 1 \in Nat /\ k - 1 \notin N BY <1>1, <1>3
  <2>2. PICK f : OnlyRec(s, K, k - 1, f) BY <2>1
  <2> DEFINE g == [i \in 0 .. k |->
                     IF i = k THEN IF s[k] \in K THEN Append(f[k - 1], s[k]) ELSE f[k - 1]
                     ELSE f[i]]
  <2>3. \A i \in 0 .. (k - 1) : g[i] = f[i] BY <2>1
  <2>4. \A i \in 0 .. (k - 1) :
          f[i] = IF i = 0 THEN <<>> ELSE IF s[i] \in K THEN Append(f[i - 1], s[i]) ELSE f[i - 1]
    BY <2>2 DEF OnlyRec
  <2>5. g[k] = IF s[k] \in K THEN Append(g[k - 1], s[k]) ELSE g[k - 1] BY <2>1, <2>3
  <2>6. \A i \in 0 .. k :
          g[i] = IF i = 0 THEN <<>> ELSE IF s[i] \in K THEN Append(g[i - 1], s[i]) ELSE g[i - 1]
    <3> SUFFICES ASSUME NEW i \in 0 .. k
                 PROVE  g[i] = IF i = 0 THEN <<>>
                               ELSE IF s[i] \in K THEN Append(g[i - 1], s[i]) ELSE g[i - 1]
        OBVIOUS
    <3> HIDE DEF g
    <3>1. CASE i = k BY <1>3, <2>5, <3>1
    <3>2. CASE i # k
      <4>1. i \in 0 .. (k - 1) /\ (i # 0 => i - 1 \in 0 .. (k - 1)) BY <2>1, <3>2
      <4>2. QED BY <2>3, <2>4, <4>1
    <3>3. QED BY <3>1, <3>2
  <2>7. g = [i \in 0 .. k |-> g[i]] OBVIOUS
  <2> HIDE DEF g
  <2>8. OnlyRec(s, K, k, g) BY <2>6, <2>7 DEF OnlyRec
  <2>9. QED BY <2>8
<1>4. QED BY <1>2, <1>3

\* No element of a queue is there twice.
Once(s) == \A i, j \in DOMAIN s : s[i] = s[j] => i = j

\* Appending to a queue.
LEMMA RangeAppend ==
  ASSUME NEW S, NEW s \in Seq(S), NEW x \in S
  PROVE  /\ Append(s, x) \in Seq(S) /\ Len(Append(s, x)) = Len(s) + 1
         /\ Range(Append(s, x)) = Range(s) \cup {x}
         /\ Once(s) /\ x \notin Range(s) => Once(Append(s, x))
<1> DEFINE t == Append(s, x)
<1>1. t \in Seq(S) /\ Len(t) = Len(s) + 1 /\ DOMAIN s = 1 .. Len(s) /\ DOMAIN t = 1 .. Len(t)
      /\ Len(s) \in Nat
  OBVIOUS
<1>2. /\ \A i \in DOMAIN s : i \in DOMAIN t /\ t[i] = s[i]
      /\ Len(s) + 1 \in DOMAIN t /\ t[Len(s) + 1] = x
  OBVIOUS
<1>3. \A i \in DOMAIN t : i \in DOMAIN s \/ i = Len(s) + 1 BY <1>1
<1> HIDE DEF t
<1>4. Range(t) = Range(s) \cup {x} BY <1>2, <1>3 DEF Range
<1>5. ASSUME Once(s), x \notin Range(s) PROVE Once(t) BY <1>2, <1>3, <1>5 DEF Once, Range
<1>6. QED BY <1>1, <1>4, <1>5 DEF t

\* A queue holds finitely many.
LEMMA RangeFinite ==
  ASSUME NEW S, NEW s \in Seq(S)
  PROVE  IsFiniteSet(Range(s)) /\ Range(s) \subseteq S
<1>1. Len(s) \in Nat /\ DOMAIN s = 1 .. Len(s) OBVIOUS
<1>2. IsFiniteSet(1 .. Len(s)) BY <1>1, FS_Interval
<1>3. s \in Surjection(1 .. Len(s), Range(s)) BY <1>1 DEF Surjection, Range
<1>4. IsFiniteSet(Range(s)) BY <1>2, <1>3, FS_Surjection
<1>5. Range(s) \subseteq S BY <1>1 DEF Range
<1>6. QED BY <1>4, <1>5

\* A queue that holds nothing is empty.
LEMMA EmptyRange ==
  ASSUME NEW S, NEW s \in Seq(S), Range(s) = {}
  PROVE  s = <<>>
<1>1. DOMAIN s = {} BY DEF Range
<1>2. Len(s) \notin 1 .. Len(s) /\ Len(s) \in Nat BY <1>1
<1>3. Len(s) = 0 BY <1>2
<1>4. QED BY <1>3

\* What Only takes out of a queue: the elements in K, each as often, none else.
LEMMA OnlyIs ==
  ASSUME NEW S, NEW s \in Seq(S), NEW K
  PROVE  /\ Only(s, K) \in Seq(S) /\ Len(Only(s, K)) <= Len(s)
         /\ Range(Only(s, K)) = Range(s) \cap K
         /\ Once(s) => Once(Only(s, K))
<1>0. PICK n \in Nat : n = Len(s) /\ DOMAIN s = 1 .. n OBVIOUS
<1> DEFINE f == CHOOSE f : OnlyRec(s, K, n, f)
           Upto(i) == {s[j] : j \in 1 .. i}
           Good(i) == /\ f[i] \in Seq(S) /\ Len(f[i]) <= i
                      /\ Range(f[i]) = Upto(i) \cap K
                      /\ Once(s) => Once(f[i])
<1>1. OnlyRec(s, K, n, f)
  <2>1. \E g : OnlyRec(s, K, n, g) BY OnlyRecExists
  <2>2. QED BY <2>1
<1>2. Only(s, K) = f[n] BY <1>0 DEF Only, OnlyRec
<1> HIDE DEF f
<1>3. /\ f[0] = <<>>
      /\ \A i \in 1 .. n : f[i] = IF s[i] \in K THEN Append(f[i - 1], s[i]) ELSE f[i - 1]
  <2>1. \A i \in 0 .. n :
          f[i] = IF i = 0 THEN <<>> ELSE IF s[i] \in K THEN Append(f[i - 1], s[i]) ELSE f[i - 1]
    BY <1>1 DEF OnlyRec
  <2>2. 0 \in 0 .. n /\ \A i \in 1 .. n : i \in 0 .. n /\ i # 0 OBVIOUS
  <2>3. f[0] = <<>> BY <2>1, <2>2
  <2>4. ASSUME NEW i \in 1 .. n
        PROVE  f[i] = IF s[i] \in K THEN Append(f[i - 1], s[i]) ELSE f[i - 1]
    BY <2>1, <2>2
  <2>5. QED BY <2>3, <2>4
<1>4. Good(0)
  <2>1. <<>> \in Seq(S) /\ Len(<<>>) = 0 /\ Range(<<>>) = {} /\ Once(<<>>) BY DEF Range, Once
  <2>2. Upto(0) = {} OBVIOUS
  <2>3. QED BY <1>3, <2>1, <2>2
<1>5. ASSUME NEW i \in 1 .. n, Good(i - 1) PROVE Good(i)
  <2>1. PICK g, u : g = f[i - 1] /\ u = Upto(i - 1) OBVIOUS
  <2>2. g \in Seq(S) /\ Len(g) <= i - 1 /\ Range(g) = u \cap K /\ (Once(s) => Once(g)) BY <1>5, <2>1
  <2>3. Upto(i) = u \cup {s[i]} BY <2>1
  <2>4. s[i] \in S BY <1>0
  <2>5. CASE s[i] \in K
    <3>1. f[i] = Append(g, s[i]) BY <1>3, <2>1, <2>5
    <3>2. /\ Append(g, s[i]) \in Seq(S) /\ Len(Append(g, s[i])) = Len(g) + 1
          /\ Range(Append(g, s[i])) = Range(g) \cup {s[i]}
          /\ Once(g) /\ s[i] \notin Range(g) => Once(Append(g, s[i]))
      BY <2>2, <2>4, RangeAppend
    <3>3. Once(s) => s[i] \notin u BY <1>0, <2>1 DEF Once
    <3>4. Range(f[i]) = Upto(i) \cap K BY <2>2, <2>3, <2>5, <3>1, <3>2
    <3>5. Len(f[i]) <= i
      <4>1. Len(g) \in Nat BY <2>2
      <4>2. QED BY <2>2, <3>1, <3>2, <4>1
    <3>6. QED BY <2>2, <3>1, <3>2, <3>3, <3>4, <3>5
  <2>6. CASE s[i] \notin K
    <3>1. f[i] = g BY <1>3, <2>1, <2>6
    <3>2. Len(g) <= i
      <4>1. Len(g) \in Nat BY <2>2
      <4>2. QED BY <2>2, <4>1
    <3>3. Range(f[i]) = Upto(i) \cap K BY <2>2, <2>3, <2>6, <3>1
    <3>4. QED BY <2>2, <3>1, <3>2, <3>3
  <2>7. QED BY <2>5, <2>6
<1>6. Good(n)
  <2> DEFINE N == {i \in 0 .. n : ~Good(i)}
  <2> HIDE DEF Good
  <2> SUFFICES ASSUME N # {} PROVE FALSE BY <1>0
  <2>1. PICK i \in N : \A l \in N : i <= l
    <3>1. N \in SUBSET Nat BY <1>0
    <3> HIDE DEF N
    <3>2. QED BY <3>1, LeastIs
  <2>2. i # 0 BY <1>4, <2>1
  <2>3. i \in 1 .. n /\ i - 1 \in 0 .. n /\ ~(i <= i - 1) BY <1>0, <2>1, <2>2
  <2>4. Good(i - 1) BY <2>1, <2>3
  <2>5. QED BY <1>5, <2>1, <2>3, <2>4
<1>7. Upto(n) = Range(s) BY <1>0 DEF Range
<1>8. QED BY <1>0, <1>2, <1>6, <1>7

\* One queue behind another.
LEMMA RangeConcat ==
  ASSUME NEW S, NEW s \in Seq(S), NEW t \in Seq(S)
  PROVE  /\ s \o t \in Seq(S) /\ Len(s \o t) = Len(s) + Len(t)
         /\ Range(s \o t) = Range(s) \cup Range(t)
         /\ Once(s) /\ Once(t) /\ Range(s) \cap Range(t) = {} => Once(s \o t)
<1> DEFINE u == s \o t
<1>1. /\ u \in Seq(S) /\ Len(u) = Len(s) + Len(t) /\ Len(s) \in Nat /\ Len(t) \in Nat
      /\ DOMAIN s = 1 .. Len(s) /\ DOMAIN t = 1 .. Len(t) /\ DOMAIN u = 1 .. Len(u)
  OBVIOUS
<1>2. \A i \in DOMAIN s : i \in DOMAIN u /\ u[i] = s[i] OBVIOUS
<1>3. \A k \in DOMAIN t : Len(s) + k \in DOMAIN u /\ u[Len(s) + k] = t[k] OBVIOUS
<1>4. \A i \in DOMAIN u : i \in DOMAIN s \/ \E k \in DOMAIN t : i = Len(s) + k
  <2> SUFFICES ASSUME NEW i \in DOMAIN u, i \notin DOMAIN s
               PROVE  \E k \in DOMAIN t : i = Len(s) + k
      OBVIOUS
  <2>1. i - Len(s) \in DOMAIN t /\ i = Len(s) + (i - Len(s)) BY <1>1
  <2>2. QED BY <2>1
<1> HIDE DEF u
<1>5. Range(u) = Range(s) \cup Range(t)
  <2>1. Range(u) \subseteq Range(s) \cup Range(t) BY <1>2, <1>3, <1>4 DEF Range
  <2>2. Range(s) \cup Range(t) \subseteq Range(u) BY <1>2, <1>3 DEF Range
  <2>3. QED BY <2>1, <2>2
<1>6. ASSUME Once(s), Once(t), Range(s) \cap Range(t) = {} PROVE Once(u)
  <2> SUFFICES ASSUME NEW i \in DOMAIN u, NEW j \in DOMAIN u, u[i] = u[j] PROVE i = j BY DEF Once
  <2>1. \A k \in DOMAIN s, l \in DOMAIN t : s[k] # t[l] BY <1>6 DEF Range
  <2>2. CASE i \in DOMAIN s /\ j \in DOMAIN s BY <1>2, <1>6, <2>2 DEF Once
  <2>3. CASE i \in DOMAIN s /\ j \notin DOMAIN s BY <1>2, <1>3, <1>4, <2>1, <2>3
  <2>4. CASE i \notin DOMAIN s /\ j \in DOMAIN s BY <1>2, <1>3, <1>4, <2>1, <2>4
  <2>5. CASE i \notin DOMAIN s /\ j \notin DOMAIN s
    <3>1. PICK k \in DOMAIN t : i = Len(s) + k /\ u[i] = t[k] BY <1>3, <1>4, <2>5
    <3>2. PICK l \in DOMAIN t : j = Len(s) + l /\ u[j] = t[l] BY <1>3, <1>4, <2>5
    <3>3. k = l BY <1>6, <3>1, <3>2 DEF Once
    <3>4. QED BY <3>1, <3>2, <3>3
  <2>6. QED BY <2>2, <2>3, <2>4, <2>5
<1>7. QED BY <1>1, <1>5, <1>6 DEF u

\* No version, or no key, twice: no element twice, and of those there are none alike.
LEMMA OnceByVersion ==
  ASSUME NEW s
  PROVE  (\A i, j \in DOMAIN s : s[i].version = s[j].version => i = j)
           <=> Once(s) /\ \A m, o \in Range(s) : m.version = o.version => m = o
<1>1. ASSUME \A i, j \in DOMAIN s : s[i].version = s[j].version => i = j
      PROVE Once(s) /\ \A m, o \in Range(s) : m.version = o.version => m = o
  BY <1>1 DEF Once, Range
<1>2. ASSUME Once(s), \A m, o \in Range(s) : m.version = o.version => m = o,
             NEW i \in DOMAIN s, NEW j \in DOMAIN s, s[i].version = s[j].version
      PROVE  i = j
  <2>1. s[i] \in Range(s) /\ s[j] \in Range(s) BY DEF Range
  <2>2. s[i] = s[j] BY <1>2, <2>1
  <2>3. QED BY <1>2, <2>2 DEF Once
<1>3. QED BY <1>1, <1>2

LEMMA OnceByKey ==
  ASSUME NEW s
  PROVE  (\A i, j \in DOMAIN s : s[i].key = s[j].key => i = j)
           <=> Once(s) /\ \A b, o \in Range(s) : b.key = o.key => b = o
<1>1. ASSUME \A i, j \in DOMAIN s : s[i].key = s[j].key => i = j
      PROVE Once(s) /\ \A b, o \in Range(s) : b.key = o.key => b = o
  BY <1>1 DEF Once, Range
<1>2. ASSUME Once(s), \A b, o \in Range(s) : b.key = o.key => b = o,
             NEW i \in DOMAIN s, NEW j \in DOMAIN s, s[i].key = s[j].key
      PROVE  i = j
  <2>1. s[i] \in Range(s) /\ s[j] \in Range(s) BY DEF Range
  <2>2. s[i] = s[j] BY <1>2, <2>1
  <2>3. QED BY <1>2, <2>2 DEF Once
<1>3. QED BY <1>1, <1>2

\* The oldest n and the newer of a queue share its weight.
LEMMA Evicting ==
  ASSUME NEW S, NEW w \in [S -> Nat], NEW s \in Seq(S), Once(s), NEW n \in 0 .. Len(s)
  PROVE  /\ Newest(s, n) \in Seq(S) /\ Len(Newest(s, n)) = Len(s) - n
         /\ Once(Newest(s, n)) /\ Range(Newest(s, n)) \subseteq Range(s)
         /\ SumFunctionOnSet(w, Range(s)) \in Nat
         /\ SumFunctionOnSet(w, Range(Oldest(s, n))) \in Nat
         /\ SumFunctionOnSet(w, Range(Newest(s, n)))
              = SumFunctionOnSet(w, Range(s)) - SumFunctionOnSet(w, Range(Oldest(s, n)))
<1> DEFINE new == Newest(s, n)
           old == Oldest(s, n)
<1>0. Len(s) \in Nat /\ n \in Nat /\ n <= Len(s) /\ DOMAIN s = 1 .. Len(s) OBVIOUS
<1>1. /\ new \in Seq(S) /\ Len(new) = Len(s) - n /\ DOMAIN new = 1 .. (Len(s) - n)
      /\ \A i \in DOMAIN new : i + n \in DOMAIN s /\ new[i] = s[i + n]
  <2>1. PICK l, k : l = Len(s) /\ k = n + 1 OBVIOUS
  <2>2. l \in Nat /\ k \in Nat /\ DOMAIN s = 1 .. l /\ \A i \in k .. l : s[i] \in S BY <1>0, <2>1
  <2>3. new = SubSeq(s, k, l) BY <2>1 DEF Newest
  <2> HIDE DEF new
  <2>4. /\ new \in Seq(S) /\ Len(new) = IF k <= l THEN l - k + 1 ELSE 0
        /\ \A i \in 1 .. l - k + 1 : new[i] = s[k + i - 1]
    BY <2>2, <2>3, SubSeqProperties
  <2>5. Len(new) = l - n /\ l - k + 1 = l - n
    <3>1. n \in Nat /\ n <= l /\ k = n + 1 BY <1>0, <2>1
    <3>2. l - k + 1 = l - n BY <2>2, <3>1
    <3>3. k <= l \/ l - n = 0 BY <2>2, <3>1
    <3>4. k <= l => Len(new) = l - k + 1 BY <2>4
    <3>5. ~(k <= l) => Len(new) = 0 BY <2>4
    <3>6. ~(k <= l) => l - n = 0 BY <3>3
    <3>7. QED BY <3>2, <3>4, <3>5, <3>6
  <2>6. DOMAIN new = 1 .. (l - n) BY <2>4, <2>5
  <2>7. \A i \in 1 .. (l - n) : i + n \in DOMAIN s /\ k + i - 1 = i + n BY <1>0, <2>1, <2>2
  <2>8. QED BY <2>1, <2>4, <2>5, <2>6, <2>7
<1>2. /\ old \in Seq(S) /\ DOMAIN old = 1 .. n
      /\ \A i \in DOMAIN old : i \in DOMAIN s /\ old[i] = s[i]
  BY <1>0 DEF Oldest
<1> HIDE DEF new, old
<1>3. Once(new)
  <2> SUFFICES ASSUME NEW i \in DOMAIN new, NEW j \in DOMAIN new, new[i] = new[j] PROVE i = j
      BY DEF Once
  <2>1. i + n = j + n BY <1>1 DEF Once
  <2>2. QED BY <1>0, <1>1, <2>1
<1>4. Range(new) = Range(s) \ Range(old)
  <2>1. ASSUME NEW i \in DOMAIN new PROVE new[i] \in Range(s) /\ new[i] \notin Range(old)
    <3>1. new[i] \in Range(s) BY <1>1 DEF Range
    <3>2. ASSUME NEW j \in DOMAIN old, old[j] = new[i] PROVE FALSE
      <4>1. i + n = j BY <1>1, <1>2, <3>2 DEF Once
      <4>2. QED BY <1>0, <1>1, <1>2, <4>1
    <3>3. QED BY <3>1, <3>2 DEF Range
  <2>2. ASSUME NEW i \in DOMAIN s, s[i] \notin Range(old) PROVE s[i] \in Range(new)
    <3>1. i \notin DOMAIN old BY <1>2, <2>2 DEF Range
    <3>2. i - n \in DOMAIN new /\ (i - n) + n = i BY <1>0, <1>1, <1>2, <3>1
    <3>3. QED BY <1>1, <3>2 DEF Range
  <2>3. QED BY <2>1, <2>2 DEF Range
<1>5. Range(old) \subseteq Range(s) BY <1>2 DEF Range
<1>6. PICK R, O : R = Range(s) /\ O = Range(old) OBVIOUS
<1>7. IsFiniteSet(R) /\ R \subseteq S /\ O \in SUBSET R BY <1>5, <1>6, RangeFinite
<1>8. IsFiniteSet(O) /\ IsFiniteSet(R \ O) BY <1>7, FS_Subset
<1>9. (\A x \in R : w[x] \in Nat) /\ (\A x \in O : w[x] \in Nat) /\ (\A x \in R \ O : w[x] \in Nat)
  BY <1>7
<1>10. SumFunctionOnSet(w, R) \in Nat /\ SumFunctionOnSet(w, O) \in Nat BY <1>7, <1>8, <1>9, SumNat
<1>11. SumFunctionOnSet(w, R \ O) \in Nat BY <1>8, <1>9, SumNat
<1>12. SumFunctionOnSet(w, R) = SumFunctionOnSet(w, O) + SumFunctionOnSet(w, R \ O)
  <2>1. \A x \in R : w[x] \in Int BY <1>9
  <2>2. QED BY <1>7, <2>1, SumSplit
<1>13. SumFunctionOnSet(w, R \ O) = SumFunctionOnSet(w, R) - SumFunctionOnSet(w, O)
  BY <1>10, <1>11, <1>12
<1>14. Range(new) = R \ O BY <1>4, <1>6
<1>15. QED BY <1>1, <1>3, <1>6, <1>10, <1>13, <1>14 DEF new, old

\* All but the last can go.
LEMMA EvictingAll ==
  ASSUME NEW S, NEW s \in Seq(S), NEW x \in S
  PROVE  Range(Newest(Append(s, x), Len(s))) = {x}
<1> DEFINE t == Append(s, x)
           u == Newest(t, Len(s))
<1>1. t \in Seq(S) /\ Len(t) = Len(s) + 1 /\ t[Len(t)] = x /\ Len(s) \in Nat OBVIOUS
<1>2. DOMAIN u = 1 .. 1 /\ u[1] = t[1 + Len(s)]
  <2> HIDE DEF t
  <2>1. QED BY <1>1 DEF Newest
<1> HIDE DEF t, u
<1>3. u[1] = x BY <1>1, <1>2
<1>4. Range(u) = {u[1]} BY <1>2 DEF Range
<1>5. QED BY <1>3, <1>4 DEF t, u

----------------------------------------------------------------------------
(* Part 3: the caches and their limits *)

LEMMA Limits == {MaxPages, MaxBytes, Budget, MaxEpoch, MaxOutstanding, MaxRevision} \subseteq Nat
BY CacheAssumption DEF CacheAssumption

\* What a model and a bitmap weigh, whatever the set they are in.
Weight == [m \in Models |-> ModelBytes[m.page]]
PixelWeight == [b \in Bitmaps |-> PixelBytes[b.key.scale]]

LEMMA Weights == Weight \in [Models -> Nat] /\ PixelWeight \in [Bitmaps -> Nat]
<1>1. \A m \in Models : ModelBytes[m.page] \in Nat BY CacheAssumption DEF CacheAssumption, Models
<1>2. \A b \in Bitmaps : PixelBytes[b.key.scale] \in Nat
  BY CacheAssumption DEF CacheAssumption, Bitmaps, Keys
<1>3. QED BY <1>1, <1>2 DEF Weight, PixelWeight

\* What the model sums up is their weight.
LEMMA ModelSumIs ==
  ASSUME NEW M \in SUBSET Models, IsFiniteSet(M)
  PROVE  ModelSum(M) = SumFunctionOnSet(Weight, M) /\ ModelSum(M) \in Nat
<1> DEFINE f == [m \in M |-> ModelBytes[m.page]]
<1>1. \A m \in M : f[m] = Weight[m] /\ Weight[m] \in Nat BY Weights DEF Weight
<1>2. ModelSum(M) = SumFunctionOnSet(f, M) BY DEF ModelSum
<1> HIDE DEF f
<1>3. SumFunctionOnSet(f, M) = SumFunctionOnSet(Weight, M) BY <1>1, SumSame
<1>4. SumFunctionOnSet(Weight, M) \in Nat BY <1>1, SumNat
<1>5. QED BY <1>2, <1>3, <1>4

LEMMA PixelSumIs ==
  ASSUME NEW B \in SUBSET Bitmaps, IsFiniteSet(B)
  PROVE  PixelSum(B) = SumFunctionOnSet(PixelWeight, B) /\ PixelSum(B) \in Nat
<1> DEFINE f == [b \in B |-> PixelBytes[b.key.scale]]
<1>1. \A b \in B : f[b] = PixelWeight[b] /\ PixelWeight[b] \in Nat BY Weights DEF PixelWeight
<1>2. PixelSum(B) = SumFunctionOnSet(f, B) BY DEF PixelSum
<1> HIDE DEF f
<1>3. SumFunctionOnSet(f, B) = SumFunctionOnSet(PixelWeight, B) BY <1>1, SumSame
<1>4. SumFunctionOnSet(PixelWeight, B) \in Nat BY <1>1, SumNat
<1>5. QED BY <1>2, <1>3, <1>4

\* What is taken out of a queue and what is left share its weight.
Parted(S, w, s, K) ==
  /\ Only(s, K) \in Seq(S) /\ Once(Only(s, K)) /\ Len(Only(s, K)) <= Len(s)
  /\ Range(Only(s, K)) = Range(s) \cap K
  /\ IsFiniteSet(Range(Only(s, K))) /\ IsFiniteSet(Range(s) \ K)
  /\ IsFiniteSet(Range(s)) /\ Range(s) \subseteq S
  /\ SumFunctionOnSet(w, Range(s))
       = SumFunctionOnSet(w, Range(s) \ K) + SumFunctionOnSet(w, Range(Only(s, K)))

LEMMA TakingOut ==
  ASSUME NEW S, NEW w \in [S -> Nat], NEW s \in Seq(S), Once(s), NEW K
  PROVE  Parted(S, w, s, K)
<1>1. PICK R, A, B : R = Range(s) /\ A = Range(s) \ K /\ B = Range(Only(s, K)) OBVIOUS
<1>2. /\ Only(s, K) \in Seq(S) /\ Once(Only(s, K)) /\ Len(Only(s, K)) <= Len(s)
      /\ Range(Only(s, K)) = Range(s) \cap K
  BY OnlyIs
<1>3. IsFiniteSet(R) /\ R \subseteq S BY <1>1, RangeFinite
<1>4. A \in SUBSET R /\ B \in SUBSET R /\ R \ A = B BY <1>1, <1>2
<1>5. IsFiniteSet(A) /\ IsFiniteSet(B) BY <1>3, <1>4, FS_Subset
<1>6. SumFunctionOnSet(w, R) = SumFunctionOnSet(w, A) + SumFunctionOnSet(w, R \ A)
  <2>1. \A x \in R : w[x] \in Int BY <1>3
  <2>2. A \in SUBSET R BY <1>4
  <2>3. QED BY ONLY <1>3, <2>1, <2>2, SumSplit
<1>7. QED BY <1>1, <1>2, <1>3, <1>4, <1>5, <1>6 DEF Parted

LEMMA EvictingAny ==
  ASSUME NEW S, NEW w \in [S -> Nat], NEW s \in Seq(S), Once(s)
  PROVE  \A n \in 0 .. Len(s) :
           /\ Newest(s, n) \in Seq(S) /\ Len(Newest(s, n)) = Len(s) - n
           /\ Once(Newest(s, n)) /\ Range(Newest(s, n)) \subseteq Range(s)
           /\ IsFiniteSet(Range(Newest(s, n)))
           /\ SumFunctionOnSet(w, Range(Oldest(s, n))) \in Nat
           /\ SumFunctionOnSet(w, Range(Newest(s, n)))
                = SumFunctionOnSet(w, Range(s)) - SumFunctionOnSet(w, Range(Oldest(s, n)))
<1> TAKE n \in 0 .. Len(s)
<1>1. /\ Newest(s, n) \in Seq(S) /\ Len(Newest(s, n)) = Len(s) - n
      /\ Once(Newest(s, n)) /\ Range(Newest(s, n)) \subseteq Range(s)
      /\ SumFunctionOnSet(w, Range(Oldest(s, n))) \in Nat
      /\ SumFunctionOnSet(w, Range(Newest(s, n)))
           = SumFunctionOnSet(w, Range(s)) - SumFunctionOnSet(w, Range(Oldest(s, n)))
  BY Evicting
<1>2. IsFiniteSet(Range(Newest(s, n))) BY <1>1, RangeFinite
<1>3. QED BY <1>1, <1>2

\* t is s with x behind it, too much for the room and the limit there are; N are the
\* numbers of the oldest that may go.
Crowded(S, w, s, x, t, limit, room, total, N) ==
  /\ w \in [S -> Nat] /\ s \in Seq(S) /\ x \in S /\ x \notin Range(s)
  /\ t \in Seq(S) /\ Once(t) /\ Len(t) = Len(s) + 1 /\ Range(t) = Range(s) \cup {x}
  /\ Range(Newest(t, Len(s))) = {x}
  /\ limit \in Nat /\ w[x] <= limit /\ room \in Nat \ {0}
  /\ total = SumFunctionOnSet(w, Range(s)) + w[x]
  /\ \A n : n \in N <=> /\ n \in 0 .. Len(s) /\ Len(t) - n <= room
                        /\ total - SumFunctionOnSet(w, Range(Oldest(t, n))) <= limit

\* The least number of them that must go leaves a queue within the room and the limit.
LEMMA MakingRoom ==
  ASSUME NEW S, NEW w, NEW s, NEW x, NEW t, NEW limit, NEW room, NEW total, NEW N,
         Crowded(S, w, s, x, t, limit, room, total, N)
  PROVE  LET rest == Newest(t, Least(N)) IN
         /\ Least(N) \in N
         /\ rest \in Seq(S) /\ Once(rest) /\ Len(rest) <= room
         /\ Range(rest) \subseteq Range(s) \cup {x} /\ IsFiniteSet(Range(rest))
         /\ total - SumFunctionOnSet(w, Range(Oldest(t, Least(N)))) = SumFunctionOnSet(w, Range(rest))
         /\ SumFunctionOnSet(w, Range(rest)) <= limit
<1>1. /\ w \in [S -> Nat] /\ s \in Seq(S) /\ x \in S /\ x \notin Range(s)
      /\ t \in Seq(S) /\ Once(t) /\ Len(t) = Len(s) + 1 /\ Range(t) = Range(s) \cup {x}
      /\ Range(Newest(t, Len(s))) = {x}
      /\ limit \in Nat /\ w[x] <= limit /\ room \in Nat \ {0}
      /\ total = SumFunctionOnSet(w, Range(s)) + w[x]
  BY DEF Crowded
<1>2. \A n : n \in N <=> /\ n \in 0 .. Len(s) /\ Len(t) - n <= room
                         /\ total - SumFunctionOnSet(w, Range(Oldest(t, n))) <= limit
  BY DEF Crowded
<1>3. PICK l \in Nat : l = Len(s) BY <1>1
<1>4. PICK R : R = Range(s) OBVIOUS
<1>5. IsFiniteSet(R) /\ R \subseteq S BY <1>1, <1>4, RangeFinite
<1>6. SumFunctionOnSet(w, R) \in Nat
  <2>1. \A y \in R : w[y] \in Nat BY <1>1, <1>5
  <2>2. QED BY <1>5, <2>1, SumNat
<1>7. SumFunctionOnSet(w, Range(t)) = total
  <2>1. SumFunctionOnSet(w, R \cup {x}) = w[x] + SumFunctionOnSet(w, R)
    <3>1. (\A y \in R : w[y] \in Int) /\ w[x] \in Int BY <1>1, <1>5
    <3>2. x \notin R BY <1>1, <1>4
    <3>3. QED BY ONLY <1>5, <3>1, <3>2, SumPlus
  <2>2. w[x] \in Nat BY <1>1
  <2>3. QED BY <1>1, <1>4, <1>6, <2>1, <2>2
<1>8. \A n \in 0 .. Len(t) :
        /\ Newest(t, n) \in Seq(S) /\ Len(Newest(t, n)) = Len(t) - n
        /\ Once(Newest(t, n)) /\ Range(Newest(t, n)) \subseteq Range(t)
        /\ IsFiniteSet(Range(Newest(t, n)))
        /\ SumFunctionOnSet(w, Range(Oldest(t, n))) \in Nat
        /\ SumFunctionOnSet(w, Range(Newest(t, n)))
             = SumFunctionOnSet(w, Range(t)) - SumFunctionOnSet(w, Range(Oldest(t, n)))
  <2>1. w \in [S -> Nat] /\ t \in Seq(S) /\ Once(t) BY <1>1
  <2>2. QED BY ONLY <2>1, EvictingAny
<1>9. SumFunctionOnSet(w, {x}) = w[x]
  <2>1. IsFiniteSet({}) /\ {} \cup {x} = {x} BY FS_EmptySet
  <2>2. SumFunctionOnSet(w, {} \cup {x}) = w[x] + SumFunctionOnSet(w, {})
    <3>1. w[x] \in Int BY <1>1
    <3>2. QED BY <2>1, <3>1, SumPlus
  <2>3. SumFunctionOnSet(w, {}) = 0 BY SumEmpty
  <2>4. w[x] \in Nat BY <1>1
  <2>5. QED BY <2>1, <2>2, <2>3, <2>4
<1>10. l \in N
  <2>1. l \in 0 .. Len(t) /\ Len(t) - l = 1 BY <1>1, <1>3
  <2>2. SumFunctionOnSet(w, Range(Newest(t, l))) = total - SumFunctionOnSet(w, Range(Oldest(t, l)))
    BY <1>7, <1>8, <2>1
  <2>3. Range(Newest(t, l)) = {x} BY <1>1, <1>3
  <2>4. total - SumFunctionOnSet(w, Range(Oldest(t, l))) <= limit BY <1>1, <1>9, <2>2, <2>3
  <2>5. l \in 0 .. Len(s) /\ 1 <= room BY <1>1, <1>3
  <2>6. QED BY <1>2, <2>1, <2>4, <2>5
<1>11. PICK g : g = Least(N) OBVIOUS
<1>12. g \in N
  <2>1. N \in SUBSET Nat BY <1>1, <1>2
  <2>2. N # {} BY <1>10
  <2>3. QED BY <1>11, <2>1, <2>2, LeastIs
<1>13. g \in 0 .. Len(t) /\ Len(t) - g <= room
       /\ total - SumFunctionOnSet(w, Range(Oldest(t, g))) <= limit
  BY <1>1, <1>2, <1>3, <1>12
<1>14. PICK rest : rest = Newest(t, g) OBVIOUS
<1>15. /\ rest \in Seq(S) /\ Once(rest) /\ Len(rest) = Len(t) - g
       /\ Range(rest) \subseteq Range(s) \cup {x} /\ IsFiniteSet(Range(rest))
       /\ SumFunctionOnSet(w, Range(rest)) = total - SumFunctionOnSet(w, Range(Oldest(t, g)))
  BY <1>1, <1>7, <1>8, <1>13, <1>14
<1>16. QED BY <1>11, <1>12, <1>13, <1>14, <1>15

\* The models, or bitmaps, and their count: none twice, within the limits.
ModelsKept(s, total) ==
  /\ s \in Seq(Models) /\ Once(s) /\ Len(s) <= MaxPages
  /\ \A m, o \in Range(s) : m.version = o.version => m = o
  /\ total = ModelSum(Range(s)) /\ total <= MaxBytes
BitmapsKept(s, total) ==
  /\ s \in Seq(Bitmaps) /\ Once(s)
  /\ \A b, o \in Range(s) : b.key = o.key => b = o
  /\ total = PixelSum(Range(s)) /\ total <= Budget

\* Taking some out of a cache.
LEMMA ModelsTakenOut ==
  ASSUME NEW s, NEW total, ModelsKept(s, total), NEW M \in SUBSET Range(s)
  PROVE  /\ ModelsKept(Only(s, Range(s) \ M), total - ModelSum(M))
         /\ Range(Only(s, Range(s) \ M)) = Range(s) \ M /\ total - ModelSum(M) \in Nat
<1>1. /\ s \in Seq(Models) /\ Once(s) /\ Len(s) <= MaxPages
      /\ \A m, o \in Range(s) : m.version = o.version => m = o
      /\ total = ModelSum(Range(s)) /\ total <= MaxBytes
  BY DEF ModelsKept
<1>2. PICK K, u : K = Range(s) \ M /\ u = Only(s, K) OBVIOUS
<1>3. /\ u \in Seq(Models) /\ Once(u) /\ Len(u) <= Len(s) /\ Range(u) = Range(s) \cap K
      /\ IsFiniteSet(Range(u)) /\ IsFiniteSet(Range(s) \ K)
      /\ IsFiniteSet(Range(s)) /\ Range(s) \subseteq Models
      /\ SumFunctionOnSet(Weight, Range(s))
           = SumFunctionOnSet(Weight, Range(s) \ K) + SumFunctionOnSet(Weight, Range(u))
  <2>1. s \in Seq(Models) /\ Once(s) BY <1>1
  <2>2. Weight \in [Models -> Nat] BY Weights
  <2>3. Parted(Models, Weight, s, K) BY ONLY <2>1, <2>2, TakingOut
  <2>4. QED BY <1>2, <2>3 DEF Parted
<1>4. Range(s) \ K = M /\ Range(u) = Range(s) \ M BY <1>2, <1>3
<1>5. /\ ModelSum(Range(s)) = SumFunctionOnSet(Weight, Range(s)) /\ ModelSum(Range(s)) \in Nat
      /\ ModelSum(M) = SumFunctionOnSet(Weight, M) /\ ModelSum(M) \in Nat
      /\ ModelSum(Range(u)) = SumFunctionOnSet(Weight, Range(u)) /\ ModelSum(Range(u)) \in Nat
  <2>1. Range(u) \in SUBSET Models /\ M \in SUBSET Models BY <1>3, <1>4
  <2>2. IsFiniteSet(M) BY <1>3, <1>4
  <2>3. QED BY <1>3, <2>1, <2>2, ModelSumIs
<1>6. total - ModelSum(M) = ModelSum(Range(u)) /\ ModelSum(Range(u)) <= MaxBytes
  <2>1. PICK m, n : m = ModelSum(M) /\ n = ModelSum(Range(u)) OBVIOUS
  <2>2. m \in Nat /\ n \in Nat /\ total = m + n BY <1>1, <1>3, <1>4, <1>5, <2>1
  <2>3. MaxBytes \in Nat /\ total <= MaxBytes BY <1>1, Limits
  <2>4. QED BY <2>1, <2>2, <2>3
<1>8. Len(u) <= MaxPages
  <2>1. Len(u) \in Nat /\ Len(s) \in Nat /\ MaxPages \in Nat BY <1>1, <1>3, Limits
  <2>2. QED BY <1>1, <1>3, <2>1
<1>9. ModelsKept(u, total - ModelSum(M)) BY <1>1, <1>3, <1>4, <1>6, <1>8 DEF ModelsKept
<1>10. QED BY <1>2, <1>4, <1>5, <1>6, <1>9

LEMMA BitmapsTakenOut ==
  ASSUME NEW s, NEW total, BitmapsKept(s, total), NEW B \in SUBSET Range(s)
  PROVE  /\ BitmapsKept(Only(s, Range(s) \ B), total - PixelSum(B))
         /\ Range(Only(s, Range(s) \ B)) = Range(s) \ B /\ total - PixelSum(B) \in Nat
<1>1. /\ s \in Seq(Bitmaps) /\ Once(s)
      /\ \A b, o \in Range(s) : b.key = o.key => b = o
      /\ total = PixelSum(Range(s)) /\ total <= Budget
  BY DEF BitmapsKept
<1>2. PICK K, u : K = Range(s) \ B /\ u = Only(s, K) OBVIOUS
<1>3. /\ u \in Seq(Bitmaps) /\ Once(u) /\ Range(u) = Range(s) \cap K
      /\ IsFiniteSet(Range(u)) /\ IsFiniteSet(Range(s) \ K)
      /\ IsFiniteSet(Range(s)) /\ Range(s) \subseteq Bitmaps
      /\ SumFunctionOnSet(PixelWeight, Range(s))
           = SumFunctionOnSet(PixelWeight, Range(s) \ K) + SumFunctionOnSet(PixelWeight, Range(u))
  <2>1. s \in Seq(Bitmaps) /\ Once(s) BY <1>1
  <2>2. PixelWeight \in [Bitmaps -> Nat] BY Weights
  <2>3. Parted(Bitmaps, PixelWeight, s, K) BY ONLY <2>1, <2>2, TakingOut
  <2>4. QED BY <1>2, <2>3 DEF Parted
<1>4. Range(s) \ K = B /\ Range(u) = Range(s) \ B BY <1>2, <1>3
<1>5. /\ PixelSum(Range(s)) = SumFunctionOnSet(PixelWeight, Range(s)) /\ PixelSum(Range(s)) \in Nat
      /\ PixelSum(B) = SumFunctionOnSet(PixelWeight, B) /\ PixelSum(B) \in Nat
      /\ PixelSum(Range(u)) = SumFunctionOnSet(PixelWeight, Range(u)) /\ PixelSum(Range(u)) \in Nat
  <2>1. Range(u) \in SUBSET Bitmaps /\ B \in SUBSET Bitmaps BY <1>3, <1>4
  <2>2. IsFiniteSet(B) BY <1>3, <1>4
  <2>3. QED BY <1>3, <2>1, <2>2, PixelSumIs
<1>6. total - PixelSum(B) = PixelSum(Range(u)) /\ PixelSum(Range(u)) <= Budget
  <2>1. PICK m, n : m = PixelSum(B) /\ n = PixelSum(Range(u)) OBVIOUS
  <2>2. m \in Nat /\ n \in Nat /\ total = m + n BY <1>1, <1>3, <1>4, <1>5, <2>1
  <2>3. Budget \in Nat /\ total <= Budget BY <1>1, Limits
  <2>4. QED BY <2>1, <2>2, <2>3
<1>9. BitmapsKept(u, total - PixelSum(B)) BY <1>1, <1>3, <1>4, <1>6 DEF BitmapsKept
<1>10. QED BY <1>2, <1>4, <1>5, <1>6, <1>9

\* Putting one model behind the others, and letting the least recently used go.
LEMMA ModelAdded ==
  ASSUME NEW s, NEW base, ModelsKept(s, base), NEW x \in Models,
         \A m \in Range(s) : m.version # x.version,
         MaxPages # 0, ModelBytes[x.page] <= MaxBytes, NEW N,
         N = {n \in 0 .. Len(s) :
                /\ Len(Append(s, x)) - n <= MaxPages
                /\ base + ModelBytes[x.page] - ModelSum(Range(Oldest(Append(s, x), n))) <= MaxBytes}
  PROVE  /\ ModelsKept(Newest(Append(s, x), Least(N)),
              base + ModelBytes[x.page] - ModelSum(Range(Oldest(Append(s, x), Least(N)))))
         /\ Range(Newest(Append(s, x), Least(N))) \subseteq Range(s) \cup {x}
<1>1. /\ s \in Seq(Models) /\ Once(s) /\ Len(s) \in Nat
      /\ \A m, o \in Range(s) : m.version = o.version => m = o
      /\ base = ModelSum(Range(s))
  BY DEF ModelsKept
<1>2. PICK t, b, w : t = Append(s, x) /\ b = ModelBytes[x.page] /\ w = Weight OBVIOUS
<1>3. w \in [Models -> Nat] /\ w[x] = b /\ b \in Nat BY <1>2, Weights DEF Weight
<1>4. x \notin Range(s) OBVIOUS
<1>5. t \in Seq(Models) /\ Len(t) = Len(s) + 1 /\ Range(t) = Range(s) \cup {x} /\ Once(t)
  BY <1>1, <1>2, <1>4, RangeAppend
<1>6. Range(Newest(t, Len(s))) = {x} BY <1>1, <1>2, EvictingAll
<1>7. IsFiniteSet(Range(s)) /\ Range(s) \subseteq Models BY <1>1, RangeFinite
<1>8. base = SumFunctionOnSet(w, Range(s)) /\ base \in Nat BY <1>1, <1>2, <1>7, ModelSumIs
<1>9. \A n \in 0 .. Len(s) : ModelSum(Range(Oldest(t, n))) = SumFunctionOnSet(w, Range(Oldest(t, n)))
  <2> TAKE n \in 0 .. Len(s)
  <2>1. n \in 0 .. Len(t) BY <1>1, <1>5
  <2>2. Oldest(t, n) \in Seq(Models)
    BY <1>5, <2>1 DEF Oldest
  <2>3. IsFiniteSet(Range(Oldest(t, n))) /\ Range(Oldest(t, n)) \subseteq Models
    BY <2>2, RangeFinite
  <2>4. QED BY <1>2, <2>3, ModelSumIs
<1>10. \A n \in 0 .. Len(s) :
         /\ SumFunctionOnSet(w, Range(Oldest(t, n))) \in Nat
         /\ SumFunctionOnSet(w, Range(Newest(t, n)))
              = SumFunctionOnSet(w, Range(t)) - SumFunctionOnSet(w, Range(Oldest(t, n)))
  <2>1. w \in [Models -> Nat] /\ t \in Seq(Models) /\ Once(t) BY <1>3, <1>5
  <2>2. \A n \in 0 .. Len(t) :
           /\ Newest(t, n) \in Seq(Models) /\ Len(Newest(t, n)) = Len(t) - n
           /\ Once(Newest(t, n)) /\ Range(Newest(t, n)) \subseteq Range(t)
           /\ IsFiniteSet(Range(Newest(t, n)))
           /\ SumFunctionOnSet(w, Range(Oldest(t, n))) \in Nat
           /\ SumFunctionOnSet(w, Range(Newest(t, n)))
                = SumFunctionOnSet(w, Range(t)) - SumFunctionOnSet(w, Range(Oldest(t, n)))
    BY ONLY <2>1, EvictingAny
  <2>3. \A n \in 0 .. Len(s) : n \in 0 .. Len(t) BY <1>1, <1>5
  <2>4. QED BY <2>2, <2>3
<1>11. \A n \in 0 .. Len(s) :
         base + b - ModelSum(Range(Oldest(t, n))) = (base + b) - SumFunctionOnSet(w, Range(Oldest(t, n)))
  <2> TAKE n \in 0 .. Len(s)
  <2>1. PICK o : o = SumFunctionOnSet(w, Range(Oldest(t, n))) OBVIOUS
  <2>2. o \in Nat /\ ModelSum(Range(Oldest(t, n))) = o BY <1>9, <1>10, <2>1
  <2>3. QED BY <1>3, <1>8, <2>1, <2>2
<1>12. Crowded(Models, w, s, x, t, MaxBytes, MaxPages, base + b, N)
  <2>1. /\ MaxBytes \in Nat /\ w[x] <= MaxBytes /\ MaxPages \in Nat \ {0}
        /\ base + b = SumFunctionOnSet(w, Range(s)) + w[x]
    BY <1>2, <1>3, <1>8, Limits
  <2>2. \A n : n \in N <=> /\ n \in 0 .. Len(s) /\ Len(t) - n <= MaxPages
                           /\ (base + b) - SumFunctionOnSet(w, Range(Oldest(t, n))) <= MaxBytes
    BY <1>2, <1>11
  <2>3. QED BY <1>1, <1>3, <1>4, <1>5, <1>6, <2>1, <2>2 DEF Crowded
<1>13. PICK g, rest : g = Least(N) /\ rest = Newest(t, g) OBVIOUS
<1>14. /\ g \in N
       /\ rest \in Seq(Models) /\ Once(rest) /\ Len(rest) <= MaxPages
       /\ Range(rest) \subseteq Range(s) \cup {x} /\ IsFiniteSet(Range(rest))
       /\ (base + b) - SumFunctionOnSet(w, Range(Oldest(t, g))) = SumFunctionOnSet(w, Range(rest))
       /\ SumFunctionOnSet(w, Range(rest)) <= MaxBytes
  BY ONLY <1>12, <1>13, MakingRoom
<1>15. g \in 0 .. Len(s) BY <1>14
<1>16. ModelSum(Range(rest)) = SumFunctionOnSet(w, Range(rest))
  <2>1. Range(rest) \subseteq Models BY <1>7, <1>14
  <2>2. QED BY <1>2, <1>14, <2>1, ModelSumIs
<1>17. \A m, o \in Range(rest) : m.version = o.version => m = o BY <1>1, <1>14
<1>18. base + b - ModelSum(Range(Oldest(t, g))) = ModelSum(Range(rest))
  BY <1>11, <1>14, <1>15, <1>16
<1>19. ModelsKept(rest, base + b - ModelSum(Range(Oldest(t, g))))
  BY <1>14, <1>16, <1>17, <1>18 DEF ModelsKept
<1>20. QED BY <1>2, <1>13, <1>14, <1>19

\* remember: the model is kept, and nothing else is new.
LEMMA Remembering ==
  ASSUME ModelsKept(models, bytes), NEW p \in Pages, NEW v \in Nat \ {0}, NEW c \in Nat \ {0},
         Remember(p, v, c)
  PROVE  /\ ModelsKept(models', bytes')
         /\ Range(models')
              \subseteq (Range(models) \ ModelsOf(v)) \cup {[page |-> p, version |-> v, content |-> c]}
<1> DEFINE M == ModelsOf(v)
           old == Only(models, Range(models) \ M)
           x == [page |-> p, version |-> v, content |-> c]
           new == Append(old, x)
           base == bytes - ModelSum(M)
           After(n) == base + ModelBytes[p] - ModelSum(Range(Oldest(new, n)))
           N == {n \in 0 .. Len(old) : Len(new) - n <= MaxPages /\ After(n) <= MaxBytes}
<1>1. M \in SUBSET Range(models) BY DEF ModelsOf
<1>2. x \in Models /\ x.version = v /\ x.page = p BY DEF Models
<1>3. \/ models' = old /\ bytes' = base
      \/ /\ MaxPages # 0 /\ ~(ModelBytes[p] > MaxBytes)
         /\ models' = Newest(new, Least(N)) /\ bytes' = After(Least(N))
  BY DEF Remember
<1>4. \A m \in Range(models) \ M : m.version # v BY DEF ModelsOf
<1>5. PICK y, u, B : y = x /\ u = old /\ B = base OBVIOUS
<1>6. N = {n \in 0 .. Len(u) :
             /\ Len(Append(u, y)) - n <= MaxPages
             /\ B + ModelBytes[y.page] - ModelSum(Range(Oldest(Append(u, y), n))) <= MaxBytes}
  BY <1>2, <1>5
<1>7. PICK L : L = N OBVIOUS
<1>8. After(Least(L)) = B + ModelBytes[y.page] - ModelSum(Range(Oldest(Append(u, y), Least(L))))
      /\ new = Append(u, y)
  BY <1>2, <1>5
<1>9. ModelsKept(u, B) /\ Range(u) = Range(models) \ M
  <2>1. PICK K : K = M OBVIOUS
  <2>2. K \in SUBSET Range(models) BY <1>1, <2>1
  <2>3. u = Only(models, Range(models) \ K) /\ B = bytes - ModelSum(K) BY <1>5, <2>1
  <2>4. ModelsKept(Only(models, Range(models) \ K), bytes - ModelSum(K))
        /\ Range(Only(models, Range(models) \ K)) = Range(models) \ K
    BY <2>2, ModelsTakenOut
  <2>5. QED BY <2>1, <2>3, <2>4
<1>10. CASE models' = old /\ bytes' = base BY <1>5, <1>9, <1>10
<1>11. CASE /\ MaxPages # 0 /\ ~(ModelBytes[p] > MaxBytes)
            /\ models' = Newest(new, Least(N)) /\ bytes' = After(Least(N))
  <2>1. y \in Models /\ y.version = v /\ y.page = p BY <1>2, <1>5
  <2>2. ModelBytes[y.page] <= MaxBytes
    <3>1. ModelBytes[p] \in Nat /\ MaxBytes \in Nat
      BY CacheAssumption DEF CacheAssumption
    <3>2. QED BY <1>11, <2>1, <3>1
  <2>3. \A m \in Range(u) : m.version # y.version BY <1>4, <1>9, <2>1
  <2>4. L = {n \in 0 .. Len(u) :
             /\ Len(Append(u, y)) - n <= MaxPages
             /\ B + ModelBytes[y.page] - ModelSum(Range(Oldest(Append(u, y), n))) <= MaxBytes}
    BY <1>6, <1>7
  <2>5. MaxPages # 0 BY <1>11
  <2>6. models' = Newest(Append(u, y), Least(L))
        /\ bytes' = B + ModelBytes[y.page] - ModelSum(Range(Oldest(Append(u, y), Least(L))))
    BY <1>7, <1>8, <1>11
  <2>7. /\ ModelsKept(Newest(Append(u, y), Least(L)),
              B + ModelBytes[y.page] - ModelSum(Range(Oldest(Append(u, y), Least(L)))))
        /\ Range(Newest(Append(u, y), Least(L))) \subseteq Range(u) \cup {y}
    BY ONLY <1>9, <2>1, <2>2, <2>3, <2>4, <2>5, ModelAdded
  <2>8. QED BY <1>5, <1>9, <2>6, <2>7
<1>12. QED BY <1>3, <1>10, <1>11

\* Putting one bitmap behind the others, and letting the least recently used go.
LEMMA BitmapAdded ==
  ASSUME NEW s, NEW base, BitmapsKept(s, base), NEW x \in Bitmaps,
         \A b \in Range(s) : b.key # x.key,
         PixelBytes[x.key.scale] <= Budget, NEW N,
         N = {n \in 0 .. Len(s) :
                base + PixelBytes[x.key.scale] - PixelSum(Range(Oldest(Append(s, x), n))) <= Budget}
  PROVE  /\ BitmapsKept(Newest(Append(s, x), Least(N)),
              base + PixelBytes[x.key.scale] - PixelSum(Range(Oldest(Append(s, x), Least(N)))))
         /\ Range(Newest(Append(s, x), Least(N))) \subseteq Range(s) \cup {x}
<1>1. /\ s \in Seq(Bitmaps) /\ Once(s) /\ Len(s) \in Nat
      /\ \A b, o \in Range(s) : b.key = o.key => b = o
      /\ base = PixelSum(Range(s))
  BY DEF BitmapsKept
<1>2. PICK t, b, w : t = Append(s, x) /\ b = PixelBytes[x.key.scale] /\ w = PixelWeight OBVIOUS
<1>3. w \in [Bitmaps -> Nat] /\ w[x] = b /\ b \in Nat BY <1>2, Weights DEF PixelWeight
<1>4. x \notin Range(s) OBVIOUS
<1>5. t \in Seq(Bitmaps) /\ Len(t) = Len(s) + 1 /\ Range(t) = Range(s) \cup {x} /\ Once(t)
  BY <1>1, <1>2, <1>4, RangeAppend
<1>6. Range(Newest(t, Len(s))) = {x} BY <1>1, <1>2, EvictingAll
<1>7. IsFiniteSet(Range(s)) /\ Range(s) \subseteq Bitmaps BY <1>1, RangeFinite
<1>8. base = SumFunctionOnSet(w, Range(s)) /\ base \in Nat BY <1>1, <1>2, <1>7, PixelSumIs
<1>9. \A n \in 0 .. Len(s) : PixelSum(Range(Oldest(t, n))) = SumFunctionOnSet(w, Range(Oldest(t, n)))
  <2> TAKE n \in 0 .. Len(s)
  <2>1. n \in 0 .. Len(t) BY <1>1, <1>5
  <2>2. Oldest(t, n) \in Seq(Bitmaps)
    BY <1>5, <2>1 DEF Oldest
  <2>3. IsFiniteSet(Range(Oldest(t, n))) /\ Range(Oldest(t, n)) \subseteq Bitmaps
    BY <2>2, RangeFinite
  <2>4. QED BY <1>2, <2>3, PixelSumIs
<1>10. \A n \in 0 .. Len(s) :
         /\ SumFunctionOnSet(w, Range(Oldest(t, n))) \in Nat
         /\ SumFunctionOnSet(w, Range(Newest(t, n)))
              = SumFunctionOnSet(w, Range(t)) - SumFunctionOnSet(w, Range(Oldest(t, n)))
  <2>1. w \in [Bitmaps -> Nat] /\ t \in Seq(Bitmaps) /\ Once(t) BY <1>3, <1>5
  <2>2. \A n \in 0 .. Len(t) :
           /\ Newest(t, n) \in Seq(Bitmaps) /\ Len(Newest(t, n)) = Len(t) - n
           /\ Once(Newest(t, n)) /\ Range(Newest(t, n)) \subseteq Range(t)
           /\ IsFiniteSet(Range(Newest(t, n)))
           /\ SumFunctionOnSet(w, Range(Oldest(t, n))) \in Nat
           /\ SumFunctionOnSet(w, Range(Newest(t, n)))
                = SumFunctionOnSet(w, Range(t)) - SumFunctionOnSet(w, Range(Oldest(t, n)))
    BY ONLY <2>1, EvictingAny
  <2>3. \A n \in 0 .. Len(s) : n \in 0 .. Len(t) BY <1>1, <1>5
  <2>4. QED BY <2>2, <2>3
<1>11. \A n \in 0 .. Len(s) :
         base + b - PixelSum(Range(Oldest(t, n))) = (base + b) - SumFunctionOnSet(w, Range(Oldest(t, n)))
  <2> TAKE n \in 0 .. Len(s)
  <2>1. PICK o : o = SumFunctionOnSet(w, Range(Oldest(t, n))) OBVIOUS
  <2>2. o \in Nat /\ PixelSum(Range(Oldest(t, n))) = o BY <1>9, <1>10, <2>1
  <2>3. QED BY <1>3, <1>8, <2>1, <2>2
<1>12. Crowded(Bitmaps, w, s, x, t, Budget, Len(t), base + b, N)
  <2>1. /\ Budget \in Nat /\ w[x] <= Budget /\ Len(t) \in Nat \ {0}
        /\ base + b = SumFunctionOnSet(w, Range(s)) + w[x]
    BY <1>1, <1>2, <1>3, <1>5, <1>8, Limits
  <2>2. \A n \in 0 .. Len(s) : Len(t) - n <= Len(t) BY <1>1, <1>5
  <2>3. \A n : n \in N <=> /\ n \in 0 .. Len(s) /\ Len(t) - n <= Len(t)
                           /\ (base + b) - SumFunctionOnSet(w, Range(Oldest(t, n))) <= Budget
    BY <1>2, <1>11, <2>2
  <2>4. QED BY <1>1, <1>3, <1>4, <1>5, <1>6, <2>1, <2>3 DEF Crowded
<1>13. PICK g, rest : g = Least(N) /\ rest = Newest(t, g) OBVIOUS
<1>14. /\ g \in N
       /\ rest \in Seq(Bitmaps) /\ Once(rest)
       /\ Range(rest) \subseteq Range(s) \cup {x} /\ IsFiniteSet(Range(rest))
       /\ (base + b) - SumFunctionOnSet(w, Range(Oldest(t, g))) = SumFunctionOnSet(w, Range(rest))
       /\ SumFunctionOnSet(w, Range(rest)) <= Budget
  BY ONLY <1>12, <1>13, MakingRoom
<1>15. g \in 0 .. Len(s) BY <1>14
<1>16. PixelSum(Range(rest)) = SumFunctionOnSet(w, Range(rest))
  <2>1. Range(rest) \subseteq Bitmaps BY <1>7, <1>14
  <2>2. QED BY <1>2, <1>14, <2>1, PixelSumIs
<1>17. \A b1, o \in Range(rest) : b1.key = o.key => b1 = o BY <1>1, <1>14
<1>18. base + b - PixelSum(Range(Oldest(t, g))) = PixelSum(Range(rest))
  BY <1>11, <1>14, <1>15, <1>16
<1>19. BitmapsKept(rest, base + b - PixelSum(Range(Oldest(t, g))))
  BY <1>14, <1>16, <1>17, <1>18 DEF BitmapsKept
<1>20. QED BY <1>2, <1>13, <1>14, <1>19

\* put: the bitmap is kept, and nothing else is new.
LEMMA Putting ==
  ASSUME BitmapsKept(bitmaps, pixels), NEW k \in Keys, NEW c \in Nat \ {0}, Put(k, c)
  PROVE  /\ BitmapsKept(bitmaps', pixels')
         /\ \A b \in Range(bitmaps') :
              b \in Range(bitmaps) \/ b = [key |-> k, page |-> k.page, content |-> c]
<1> DEFINE gone == {b \in Range(bitmaps) : b.key = k \/ (b.page = k.page /\ b.key.version # k.version)}
           others == Only(bitmaps, Range(bitmaps) \ gone)
           x == [key |-> k, page |-> k.page, content |-> c]
           new == Append(others, x)
           base == pixels - PixelSum(gone)
           After(n) == base + PixelBytes[k.scale] - PixelSum(Range(Oldest(new, n)))
           N == {n \in 0 .. Len(others) : After(n) <= Budget}
<1>1. gone \in SUBSET Range(bitmaps) OBVIOUS
<1>2. x \in Bitmaps /\ x.key = k BY DEF Bitmaps, Keys
<1>3. \/ bitmaps' = others /\ pixels' = base
      \/ /\ ~(PixelBytes[k.scale] > Budget)
         /\ bitmaps' = Newest(new, Least(N)) /\ pixels' = After(Least(N))
  BY DEF Put
<1>4. \A b \in Range(bitmaps) \ gone : b.key # k OBVIOUS
<1>5. PICK y, u, B : y = x /\ u = others /\ B = base OBVIOUS
<1>6. N = {n \in 0 .. Len(u) :
             B + PixelBytes[y.key.scale] - PixelSum(Range(Oldest(Append(u, y), n))) <= Budget}
  BY <1>2, <1>5
<1>7. PICK L : L = N OBVIOUS
<1>8. After(Least(L)) = B + PixelBytes[y.key.scale] - PixelSum(Range(Oldest(Append(u, y), Least(L))))
      /\ new = Append(u, y)
  BY <1>2, <1>5
<1>9. BitmapsKept(u, B) /\ Range(u) = Range(bitmaps) \ gone
  <2>1. PICK K : K = gone OBVIOUS
  <2>2. K \in SUBSET Range(bitmaps) BY <1>1, <2>1
  <2>3. u = Only(bitmaps, Range(bitmaps) \ K) /\ B = pixels - PixelSum(K) BY <1>5, <2>1
  <2>4. BitmapsKept(Only(bitmaps, Range(bitmaps) \ K), pixels - PixelSum(K))
        /\ Range(Only(bitmaps, Range(bitmaps) \ K)) = Range(bitmaps) \ K
    BY <2>2, BitmapsTakenOut
  <2>5. QED BY <2>1, <2>3, <2>4
<1> HIDE DEF gone, x
<1>10. CASE bitmaps' = others /\ pixels' = base BY <1>5, <1>9, <1>10
<1>11. CASE /\ ~(PixelBytes[k.scale] > Budget)
            /\ bitmaps' = Newest(new, Least(N)) /\ pixels' = After(Least(N))
  <2>1. y \in Bitmaps /\ y.key = k BY <1>2, <1>5
  <2>2. PixelBytes[y.key.scale] <= Budget
    <3>1. PixelBytes[k.scale] \in Nat /\ Budget \in Nat
      BY CacheAssumption DEF CacheAssumption, Keys
    <3>2. QED BY <1>11, <2>1, <3>1
  <2>3. \A b \in Range(u) : b.key # y.key BY <1>4, <1>9, <2>1
  <2>4. L = {n \in 0 .. Len(u) :
               B + PixelBytes[y.key.scale] - PixelSum(Range(Oldest(Append(u, y), n))) <= Budget}
    BY <1>6, <1>7
  <2>6. bitmaps' = Newest(Append(u, y), Least(L))
        /\ pixels' = B + PixelBytes[y.key.scale] - PixelSum(Range(Oldest(Append(u, y), Least(L))))
    BY <1>7, <1>8, <1>11
  <2>7. /\ BitmapsKept(Newest(Append(u, y), Least(L)),
              B + PixelBytes[y.key.scale] - PixelSum(Range(Oldest(Append(u, y), Least(L)))))
        /\ Range(Newest(Append(u, y), Least(L))) \subseteq Range(u) \cup {y}
    BY ONLY <1>9, <2>1, <2>2, <2>3, <2>4, BitmapAdded
  <2>8. QED BY <1>5, <1>9, <2>6, <2>7 DEF x
<1>12. QED BY <1>3, <1>10, <1>11

\* A queue without doubles is as long as what it holds.
LEMMA OnceLength ==
  ASSUME NEW S, NEW s \in Seq(S), Once(s)
  PROVE  Cardinality(Range(s)) = Len(s)
<1>1. Len(s) \in Nat /\ DOMAIN s = 1 .. Len(s) OBVIOUS
<1>2. s \in Bijection(1 .. Len(s), Range(s))
  <2>1. s \in [1 .. Len(s) -> Range(s)] BY <1>1 DEF Range
  <2>2. s \in Injection(1 .. Len(s), Range(s)) BY <1>1, <2>1 DEF Once, Injection, IsInjective
  <2>3. s \in Surjection(1 .. Len(s), Range(s)) BY <1>1, <2>1 DEF Surjection, Range
  <2>4. QED BY <2>2, <2>3 DEF Bijection
<1>3. IsFiniteSet(1 .. Len(s)) /\ Cardinality(1 .. Len(s)) = Len(s)
  <2>1. PICK n \in Nat : n = Len(s) BY <1>1
  <2>2. IsFiniteSet(1 .. n) /\ Cardinality(1 .. n) = IF 1 > n THEN 0 ELSE n - 1 + 1
    BY FS_Interval
  <2>3. 1 > n => n = 0 OBVIOUS
  <2>4. QED BY <2>1, <2>2, <2>3
<1>4. QED BY <1>2, <1>3, FS_Bijection DEF ExistsBijection

\* Moving some to the end of a queue.
LEMMA MovedToTheEnd ==
  ASSUME NEW S, NEW s \in Seq(S), Once(s), NEW M \in SUBSET Range(s), NEW t,
         t = Only(s, Range(s) \ M) \o Only(s, M)
  PROVE  t \in Seq(S) /\ Once(t) /\ Range(t) = Range(s) /\ Len(t) = Len(s)
<1>1. PICK u, v : u = Only(s, Range(s) \ M) /\ v = Only(s, M) OBVIOUS
<1>2. /\ u \in Seq(S) /\ Once(u) /\ Range(u) = Range(s) \cap (Range(s) \ M)
      /\ v \in Seq(S) /\ Once(v) /\ Range(v) = Range(s) \cap M
  BY <1>1, OnlyIs
<1>3. t = u \o v BY <1>1
<1>4. t \in Seq(S) /\ Range(t) = Range(u) \cup Range(v) /\ Once(t)
  <2>1. u \in Seq(S) /\ v \in Seq(S) /\ Once(u) /\ Once(v) /\ Range(u) \cap Range(v) = {} BY <1>2
  <2>2. u \o v \in Seq(S) /\ Range(u \o v) = Range(u) \cup Range(v) /\ Once(u \o v)
    BY ONLY <2>1, RangeConcat
  <2>3. QED BY <1>3, <2>2
<1>5. Range(t) = Range(s) BY <1>2, <1>4
<1>6. Cardinality(Range(t)) = Len(t) BY <1>4, OnceLength
<1>7. Cardinality(Range(s)) = Len(s) BY OnceLength
<1>8. QED BY <1>4, <1>5, <1>6, <1>7

----------------------------------------------------------------------------
(* Part 4: the inductive invariant *)

\* The requests for a page's geometry or model.
Loads == {"metrics", "model"}

Commits == [op : {"commit"}, changed : SUBSET Pages, after : SUBSET Pages]
Questions == [op : Loads, page : Pages, version : Nat \ {0}] \cup [op : {"render"}, page : Pages]
               \cup [op : {"close"}]
Answers == [to : Questions, result : Nat] \cup [to : Commits, result : {0}]
             \cup [to : Commits, result : Nat \ {0}, contents : [Pages -> Nat \ {0}]]

\* The types of the worker and of the channel between.
WorkerTyped ==
  /\ revision \in Nat /\ content \in [Pages -> Nat \ {0}] /\ serving \in BOOLEAN
  /\ sessionMetrics \in [Pages -> Nat] /\ sessionModels \in [Pages -> Nat]
  /\ requests \in Seq(Questions \cup Commits) /\ replies \in Seq(Answers)

\* The types of the client, without what TypeOK says of the two queues.
Entries(n) == [version : 0 .. n, metrics : Nat, metricsPending : BOOLEAN, pending : BOOLEAN]
ClientTyped ==
  /\ phase \in {"open", "closing", "closed"} /\ acked \in [Pages -> Nat \ {0}]
  /\ entry \in [Pages -> Entries(sequence)] /\ sequence \in Nat /\ epoch \in 0 .. MaxEpoch
  /\ waiting \subseteq Keys
  /\ running \in {Idle} \cup [stage : {"metrics", "posted"}, key : Keys]

\* No model outlives the entry of its page.
ModelsLive == \A m \in Range(models) : entry[m.page].version = m.version

TypeInv == /\ ClientTyped /\ WorkerTyped
           /\ ModelsKept(models, bytes) /\ ModelsLive /\ BitmapsKept(bitmaps, pixels)

\* The version v was given to an entry of p, and to no other page's.
Owned(p, v) == v \in 1 .. sequence /\ \A q \in Pages : entry[q].version = v => q = p

\* Every version there is belongs to one page, and no epoch is ahead of the present.
VersionsInv ==
  /\ \A p \in Pages : entry[p].version # 0 => Owned(p, entry[p].version)
  /\ \A k \in waiting : Owned(k.page, k.version) /\ k.epoch <= epoch
  /\ running.stage # "idle" =>
       Owned(running.key.page, running.key.version) /\ running.key.epoch <= epoch
  /\ \A b \in Range(bitmaps) : b.page = b.key.page /\ Owned(b.page, b.key.version)
  /\ \A m \in Range(requests) : m.op \in Loads => Owned(m.page, m.version)
  /\ \A a \in Range(replies) : a.to.op \in Loads => Owned(a.to.page, a.to.version)

\* The one render under way is that of the key that runs.
RenderInv ==
  /\ \A i \in DOMAIN requests : requests[i].op = "render" =>
       /\ running.stage = "posted" /\ requests[i].page = running.key.page
       /\ \A j \in DOMAIN requests : requests[j].op = "render" => j = i
       /\ \A j \in DOMAIN replies : replies[j].to.op # "render"
  /\ \A i \in DOMAIN replies : replies[i].to.op = "render" =>
       /\ running.stage = "posted" /\ replies[i].to.page = running.key.page
       /\ \A j \in DOMAIN replies : replies[j].to.op = "render" => j = i

\* An answer of the worker to a commit it accepted, and one that says that page p
\* had the content c.
IsCommit(a) == a.to.op = "commit" /\ a.result # 0
Touches(a, p) == IsCommit(a) /\ p \in Obsolete(a.to)
Says(a, p, c) == \/ IsCommit(a) /\ a.contents[p] = c
                 \/ a.to.op \in Loads \cup {"render"} /\ a.to.page = p /\ a.result = c /\ c # 0

\* No answer after the first i, up to the k-th, comes from a commit that made p obsolete.
Untouched(s, p, i, k) == \A j \in DOMAIN s : i < j /\ j <= k => ~Touches(s[j], p)

\* After the content c of a page, answers that do not follow from a change of it say c.
Follows(s, p, i, c, now) ==
  /\ \A k \in DOMAIN s : \A d \in Nat : i < k /\ Untouched(s, p, i, k) /\ Says(s[k], p, d) => d = c
  /\ Untouched(s, p, i, Len(s)) => now = c

\* What answers under way say of a page is what the last commit ahead of them left,
\* and what the worker has is what the last commit under way left.
ChainInv ==
  \A p \in Pages :
    /\ Follows(replies, p, 0, acked[p], content[p])
    /\ \A i \in DOMAIN replies :
         IsCommit(replies[i]) => Follows(replies, p, i, replies[i].contents[p], content[p])

\* The worker's session caches hold what the pages contain.
SessionInv == \A p \in Pages : sessionMetrics[p] \in {0, content[p]} /\ sessionModels[p] \in {0, content[p]}

\* So do the client's, as of the last commit it knows.
LoadedInv ==
  /\ \A p \in Pages : entry[p].version # 0 => entry[p].metrics \in {0, acked[p]}
  /\ \A m \in Range(models) : m.content = acked[m.page]
  /\ \A b \in Range(bitmaps) :
       b.key.version = entry[b.page].version => b.content = acked[b.page]

\* The entry a load began with is gone.
Dead(m) == m.op \in Loads => ~Live(m.page, m.version)

\* While a document is being closed no load that is ahead of the close has its entry,
\* and none behind it succeeds unless the close fails.
ClosingInv ==
  /\ \A i \in DOMAIN requests : requests[i].op = "close" =>
       /\ phase = "closing"
       /\ \A j \in DOMAIN requests : /\ j < i => Dead(requests[j])
                                     /\ requests[j].op = "close" => j = i
       /\ \A j \in DOMAIN replies : Dead(replies[j].to) /\ replies[j].to.op # "close"
  /\ \A i \in DOMAIN replies : replies[i].to.op = "close" =>
       /\ phase = "closing"
       /\ replies[i].result # 0 => ~serving
       /\ \A j \in DOMAIN replies : /\ j < i => Dead(replies[j].to)
                                    /\ replies[j].to.op = "close" => j = i
                                    /\ i < j /\ replies[i].result # 0 /\ replies[j].to.op \in Loads
                                         => replies[j].result = 0
  /\ phase = "closing" => \/ \E i \in DOMAIN requests : requests[i].op = "close"
                          \/ \E i \in DOMAIN replies : replies[i].to.op = "close"
  /\ phase = "closed" => /\ ~serving
                         /\ \A i \in DOMAIN replies : replies[i].to.op \in Loads => replies[i].result = 0

\* From then on nothing is retained, and the render that runs is of an earlier epoch.
ClosedInv ==
  phase # "open" =>
    /\ models = <<>> /\ bitmaps = <<>>
    /\ \A p \in Pages : entry[p].version # 0 => entry[p].metrics = 0
    /\ running.stage = "posted" => running.key.epoch < epoch

IndInv == /\ TypeInv /\ VersionsInv /\ RenderInv /\ ChainInv /\ SessionInv /\ LoadedInv
          /\ ClosingInv /\ ClosedInv

\* TypeInv has what TypeOK says.
LEMMA TypeInvImplies == TypeInv => TypeOK
<1> SUFFICES ASSUME TypeInv PROVE TypeOK OBVIOUS
<1>1. ClientTyped /\ ModelsKept(models, bytes) /\ ModelsLive /\ BitmapsKept(bitmaps, pixels)
  BY DEF TypeInv
<1>2. ModelsAccounted
  <2>1. \A i, j \in DOMAIN models : models[i].version = models[j].version => i = j
    BY <1>1, OnceByVersion DEF ModelsKept
  <2>2. \A i \in DOMAIN models : entry[models[i].page].version = models[i].version
    BY <1>1 DEF ModelsLive, Range
  <2>3. QED BY <1>1, <2>1, <2>2 DEF ModelsAccounted, ModelsKept
<1>3. BitmapsAccounted
  <2>1. \A i, j \in DOMAIN bitmaps : bitmaps[i].key = bitmaps[j].key => i = j
    BY <1>1, OnceByKey DEF BitmapsKept
  <2>2. QED BY <1>1, <2>1 DEF BitmapsAccounted, BitmapsKept
<1>4. QED BY <1>1, <1>2, <1>3 DEF TypeOK, ClientTyped, Entries, ModelsKept, BitmapsKept

\* The caches are empty at first.
LEMMA NothingKept == ModelsKept(<<>>, 0) /\ BitmapsKept(<<>>, 0)
<1>1. Range(<<>>) = {} /\ Once(<<>>) BY DEF Range, Once
<1>2. ModelSum({}) = 0 /\ PixelSum({}) = 0 BY SumEmpty DEF ModelSum, PixelSum
<1>3. <<>> \in Seq(Models) /\ <<>> \in Seq(Bitmaps) /\ Len(<<>>) = 0 OBVIOUS
<1>4. 0 <= MaxPages /\ 0 <= MaxBytes /\ 0 <= Budget BY Limits
<1>5. QED BY <1>1, <1>2, <1>3, <1>4 DEF ModelsKept, BitmapsKept

LEMMA InitIndInv == Init => IndInv
<1> SUFFICES ASSUME Init PROVE IndInv OBVIOUS
<1> USE DEF Init
<1>0. DOMAIN <<>> = {} /\ Range(<<>>) = {} BY DEF Range
<1>1. TypeInv
  <2>1. ClientTyped
    <3>1. 0 \in 0 .. MaxEpoch BY Limits
    <3>2. NoEntry \in Entries(0) BY DEF NoEntry, Entries
    <3>3. QED BY <3>1, <3>2 DEF ClientTyped
  <2>2. WorkerTyped BY DEF WorkerTyped
  <2>3. QED BY <1>0, <2>1, <2>2, NothingKept DEF TypeInv, ModelsLive
<1>2. \A p \in Pages : entry[p].version = 0 /\ entry[p].metrics = 0 BY DEF NoEntry
<1>3. VersionsInv BY <1>0, <1>2 DEF VersionsInv, Idle
<1>4. RenderInv /\ ClosingInv BY <1>0 DEF RenderInv, ClosingInv
<1>5. ChainInv BY <1>0 DEF ChainInv, Follows
<1>6. SessionInv /\ LoadedInv BY <1>0, <1>2 DEF SessionInv, LoadedInv
<1>7. ClosedInv BY DEF ClosedInv
<1>8. QED BY <1>1, <1>3, <1>4, <1>5, <1>6, <1>7 DEF IndInv

\* What the invariant says is what the runs check.
LEMMA IndInvImplies == IndInv => TypeOK /\ LoadedIsCurrent /\ BitmapIsCurrent /\ ClosedHoldsNothing
<1> SUFFICES ASSUME IndInv PROVE TypeOK /\ LoadedIsCurrent /\ BitmapIsCurrent /\ ClosedHoldsNothing
    OBVIOUS
<1> USE DEF IndInv
<1>1. TypeOK BY TypeInvImplies
<1>2. LoadedIsCurrent
  <2> SUFFICES ASSUME NEW p \in Pages, entry[p].version # 0
               PROVE  /\ entry[p].metrics \in {0, acked[p]}
                      /\ \A i \in DOMAIN models :
                           models[i].version = entry[p].version => models[i].content = acked[p]
      BY DEF LoadedIsCurrent
  <2>1. ASSUME NEW m \in Range(models), m.version = entry[p].version PROVE m.content = acked[p]
    <3>0. models \in Seq(Models) BY DEF TypeInv, ModelsKept
    <3>a. m \in Models BY <3>0, RangeFinite
    <3>1. m.page \in Pages /\ entry[m.page].version = m.version
      BY <3>a DEF TypeInv, ModelsLive, Models
    <3>2. m.page = p BY <2>1, <3>1 DEF VersionsInv, Owned
    <3>3. QED BY <3>2 DEF LoadedInv
  <2>2. QED BY <2>1 DEF LoadedInv, Range
<1>3. BitmapIsCurrent BY DEF BitmapIsCurrent, LoadedInv, Range
<1>4. ClosedHoldsNothing
  <2>1. Range(<<>>) = {} /\ ModelSum({}) = 0 BY SumEmpty DEF Range, ModelSum
  <2>2. QED BY <2>1 DEF ClosedHoldsNothing, ClosedInv, TypeInv, ModelsKept
<1>5. QED BY <1>1, <1>2, <1>3, <1>4

----------------------------------------------------------------------------
(* Part 5: what the operations on the entries do *)

\* Versions are kept, given up, or the next one.
VersionStep ==
  /\ sequence' \in Nat /\ sequence <= sequence'
  /\ \A q \in Pages : entry'[q].version \in {0, entry[q].version, sequence + 1}

\* The page of a version keeps it to itself.
LEMMA OwnedKept ==
  ASSUME sequence \in Nat, VersionStep, NEW p, NEW v, Owned(p, v)
  PROVE  Owned(p, v)'
<1>1. v \in 1 .. sequence /\ v # 0 /\ v # sequence + 1 BY DEF Owned
<1>2. v \in 1 .. sequence' BY <1>1 DEF VersionStep
<1>3. \A q \in Pages : entry'[q].version = v => entry[q].version = v BY <1>1 DEF VersionStep
<1>4. QED BY <1>2, <1>3 DEF Owned

\* p has an entry, made just now or before; the other pages' are as they were.
Grown(p) ==
  /\ entry' \in [Pages -> Entries(sequence')] /\ sequence' \in Nat
  /\ \A q \in Pages : q # p => entry'[q] = entry[q]
  /\ \/ /\ entry[p].version # 0 /\ sequence' = sequence
        /\ entry'[p].version = entry[p].version /\ entry'[p].metrics = entry[p].metrics
     \/ /\ entry[p].version = 0 /\ sequence' = sequence + 1
        /\ entry'[p].version = sequence + 1 /\ entry'[p].metrics = 0

\* The entry a page is given, if it has none, before a load is marked in it.
LEMMA Growing ==
  ASSUME entry \in [Pages -> Entries(sequence)], sequence \in Nat, NEW p \in Pages, Touch(p)
  PROVE  /\ Entered(p) \in [Pages -> Entries(sequence')]
         /\ entry' = Entered(p) => Grown(p)
         /\ \A b \in BOOLEAN : entry' = [Entered(p) EXCEPT ![p].metricsPending = @ \/ b]
              => Grown(p) /\ entry'[p].version = Entered(p)[p].version
         /\ entry' = [Entered(p) EXCEPT ![p].pending = TRUE]
              => Grown(p) /\ entry'[p].version = Entered(p)[p].version
<1> DEFINE made == [NoEntry EXCEPT !.version = sequence + 1]
<1>1. entry[p] \in Entries(sequence) OBVIOUS
<1>2. made \in Entries(sequence + 1) /\ made.version = sequence + 1 /\ made.metrics = 0
  <2>1. NoEntry \in Entries(sequence + 1) BY DEF NoEntry, Entries
  <2>2. NoEntry.metrics = 0 BY DEF NoEntry
  <2>3. sequence + 1 \in 0 .. (sequence + 1) OBVIOUS
  <2> HIDE DEF NoEntry
  <2>4. made \in Entries(sequence + 1) BY <2>1, <2>3 DEF Entries
  <2>5. made.version = sequence + 1 /\ made.metrics = NoEntry.metrics BY <2>1 DEF Entries
  <2>6. QED BY <2>2, <2>4, <2>5
<1>3. \/ entry[p].version # 0 /\ sequence' = sequence /\ Entered(p) = entry
      \/ /\ entry[p].version = 0 /\ sequence' = sequence + 1
         /\ Entered(p) = [entry EXCEPT ![p] = made]
  BY DEF Touch, Entered
<1> HIDE DEF made
<1>4. sequence' \in Nat /\ Entries(sequence) \subseteq Entries(sequence')
  BY <1>3 DEF Entries
<1>5. Entered(p) \in [Pages -> Entries(sequence')] BY <1>2, <1>3, <1>4
<1> DEFINE e == Entered(p)
<1>6. /\ \A q \in Pages : q # p => e[q] = entry[q]
      /\ \/ entry[p].version # 0 /\ sequence' = sequence /\ e[p] = entry[p]
         \/ /\ entry[p].version = 0 /\ sequence' = sequence + 1
            /\ e[p].version = sequence + 1 /\ e[p].metrics = 0
  BY <1>2, <1>3
<1> HIDE DEF e
<1>7. e \in [Pages -> Entries(sequence')] BY <1>5 DEF e
<1>8. ASSUME entry' = e PROVE Grown(p) BY <1>4, <1>6, <1>7, <1>8 DEF Grown
<1>9. ASSUME NEW b \in BOOLEAN, entry' = [e EXCEPT ![p].metricsPending = @ \/ b]
      PROVE  Grown(p) /\ entry'[p].version = e[p].version
  <2>1. /\ \A q \in Pages : q # p => entry'[q] = e[q]
        /\ entry'[p] = [e[p] EXCEPT !.metricsPending = @ \/ b]
    BY <1>7, <1>9
  <2>2. e[p] \in Entries(sequence') BY <1>7
  <2>3. /\ entry'[p] \in Entries(sequence')
        /\ entry'[p].version = e[p].version /\ entry'[p].metrics = e[p].metrics
    BY <2>1, <2>2 DEF Entries
  <2>4. entry' \in [Pages -> Entries(sequence')] BY <1>7, <1>9, <2>1, <2>3
  <2>5. QED BY <1>4, <1>6, <2>1, <2>3, <2>4 DEF Grown
<1>10. ASSUME entry' = [e EXCEPT ![p].pending = TRUE]
       PROVE  Grown(p) /\ entry'[p].version = e[p].version
  <2>1. /\ \A q \in Pages : q # p => entry'[q] = e[q]
        /\ entry'[p] = [e[p] EXCEPT !.pending = TRUE]
    BY <1>7, <1>10
  <2>2. e[p] \in Entries(sequence') BY <1>7
  <2>3. /\ entry'[p] \in Entries(sequence')
        /\ entry'[p].version = e[p].version /\ entry'[p].metrics = e[p].metrics
    BY <2>1, <2>2 DEF Entries
  <2>4. entry' \in [Pages -> Entries(sequence')] BY <1>7, <1>10, <2>1, <2>3
  <2>5. QED BY <1>4, <1>6, <2>1, <2>3, <2>4 DEF Grown
<1>11. QED BY <1>5, <1>8, <1>9, <1>10 DEF e

\* A new entry's version is a step of the versions, and its page's own.
LEMMA GrownIsStep ==
  ASSUME ClientTyped, VersionsInv, NEW p \in Pages, Grown(p)
  PROVE  /\ VersionStep /\ Owned(p, entry[p].version)'
         /\ \A q \in Pages : entry'[q].version # 0 => Owned(q, entry[q].version)'
<1>1. sequence \in Nat /\ \A q \in Pages : entry[q].version \in 0 .. sequence
  BY DEF ClientTyped, Entries
<1>2. VersionStep BY <1>1 DEF Grown, VersionStep
<1>3. Owned(p, entry[p].version)'
  <2>1. CASE entry[p].version # 0
    <3>1. PICK v : v = entry[p].version OBVIOUS
    <3>2. Owned(p, v) BY <2>1, <3>1 DEF VersionsInv
    <3>3. Owned(p, v)' BY <1>1, <1>2, <3>2, OwnedKept
    <3>4. entry'[p].version = v BY <2>1, <3>1 DEF Grown
    <3>5. QED BY <3>3, <3>4 DEF Owned
  <2>2. CASE entry[p].version = 0
    <3>1. entry'[p].version = sequence + 1 /\ sequence' = sequence + 1 BY <2>2 DEF Grown
    <3>2. \A q \in Pages : q # p => entry'[q].version # sequence + 1 BY <1>1 DEF Grown
    <3>3. QED BY <1>1, <3>1, <3>2 DEF Owned
  <2>3. QED BY <2>1, <2>2
<1>4. ASSUME NEW q \in Pages, entry'[q].version # 0 PROVE Owned(q, entry[q].version)'
  <2>1. CASE q = p BY <1>3, <2>1
  <2>2. CASE q # p
    <3>1. PICK v : v = entry[q].version OBVIOUS
    <3>2. entry'[q].version = v BY <2>2, <3>1 DEF Grown
    <3>3. Owned(q, v) BY <1>4, <3>1, <3>2 DEF VersionsInv
    <3>4. Owned(q, v)' BY <1>1, <1>2, <3>3, OwnedKept
    <3>5. QED BY <3>2, <3>4 DEF Owned
  <2>3. QED BY <2>1, <2>2
<1>5. QED BY <1>2, <1>3, <1>4

\* A load that is over leaves the versions alone, and geometry in the entry it began with.
LEMMA Settling ==
  ASSUME entry \in [Pages -> Entries(sequence)], NEW p \in Pages, NEW v, NEW c \in Nat,
         NEW field \in {"metricsPending", "pending"}, entry' = Settle(p, v, c, field),
         sequence' = sequence
  PROVE  /\ entry' \in [Pages -> Entries(sequence')]
         /\ \A q \in Pages : entry'[q].version = entry[q].version
         /\ \A q \in Pages : \/ entry'[q].metrics = entry[q].metrics
                             \/ q = p /\ Live(p, v) /\ c # 0 /\ entry'[q].metrics = c
<1>1. CASE entry[p].version # v BY <1>1 DEF Settle
<1>2. CASE entry[p].version = v
  <2>1. PICK g \in Nat : g = IF c = 0 THEN entry[p].metrics ELSE c BY DEF Entries
  <2>2. PICK e : /\ e \in Entries(sequence) /\ e.version = entry[p].version /\ e.metrics = g
                 /\ entry' = [entry EXCEPT ![p] = e]
    <3>1. CASE field = "metricsPending"
      <4> DEFINE e == [entry[p] EXCEPT !.metricsPending = FALSE, !.metrics = g]
      <4>1. entry[p] \in Entries(sequence) OBVIOUS
      <4>2. e \in Entries(sequence) /\ e.version = entry[p].version /\ e.metrics = g
        BY <4>1 DEF Entries
      <4>3. entry' = [entry EXCEPT ![p] = e] BY <1>2, <2>1, <3>1 DEF Settle
      <4> HIDE DEF e
      <4>4. QED BY <4>2, <4>3
    <3>2. CASE field = "pending"
      <4> DEFINE e == [entry[p] EXCEPT !.pending = FALSE, !.metrics = g]
      <4>1. entry[p] \in Entries(sequence) OBVIOUS
      <4>2. e \in Entries(sequence) /\ e.version = entry[p].version /\ e.metrics = g
        BY <4>1 DEF Entries
      <4>3. entry' = [entry EXCEPT ![p] = e] BY <1>2, <2>1, <3>2 DEF Settle
      <4> HIDE DEF e
      <4>4. QED BY <4>2, <4>3
    <3>3. QED BY <3>1, <3>2
  <2>3. /\ \A q \in Pages : q # p => entry'[q] = entry[q]
        /\ entry'[p] = e /\ entry' \in [Pages -> Entries(sequence)]
    BY <2>2
  <2>4. QED BY <1>2, <2>1, <2>2, <2>3 DEF Live
<1>3. QED BY <1>1, <1>2

\* Entries that are deleted take their models with them, and no others.
LEMMA Forgetting ==
  ASSUME TypeInv, VersionsInv, NEW P \in SUBSET Pages, Forget(P), sequence' = sequence
  PROVE  /\ entry' \in [Pages -> Entries(sequence')]
         /\ \A q \in P : entry'[q].version = 0 /\ entry'[q].metrics = 0
         /\ \A q \in Pages \ P : entry'[q] = entry[q]
         /\ ModelsKept(models', bytes') /\ ModelsLive'
         /\ Range(models') = {m \in Range(models) : m.page \notin P}
<1>1. entry \in [Pages -> Entries(sequence)] /\ sequence \in Nat BY DEF TypeInv, ClientTyped
<1>2. entry' = [p \in Pages |-> IF p \in P THEN NoEntry ELSE entry[p]] BY DEF Forget
<1>3. NoEntry \in Entries(sequence) /\ NoEntry.version = 0 /\ NoEntry.metrics = 0
  BY <1>1 DEF Entries, NoEntry
<1>4. /\ entry' \in [Pages -> Entries(sequence')]
      /\ \A q \in P : entry'[q].version = 0 /\ entry'[q].metrics = 0
      /\ \A q \in Pages \ P : entry'[q] = entry[q]
  BY <1>1, <1>2, <1>3
<1> DEFINE M == ModelsOfPages(P)
<1>5. models' = Only(models, Range(models) \ M) /\ bytes' = bytes - ModelSum(M)
  BY DEF Forget, Release
<1>6. M \in SUBSET Range(models) BY DEF ModelsOfPages
<1>7. ModelsKept(models, bytes) /\ ModelsLive BY DEF TypeInv
<1>8. \A m \in Range(models) : m \in M <=> \E p \in P : m.version = entry[p].version
  BY DEF ModelsOfPages
<1>9. \A m \in Range(models) : m.page \in P => m \in M BY <1>7, <1>8 DEF ModelsLive
<1> HIDE DEF M
<1>10. ModelsKept(models', bytes') /\ Range(models') = Range(models) \ M
  BY <1>5, <1>6, <1>7, ModelsTakenOut
<1>11. \A m \in Range(models) : m.page \in Pages /\ m.version \in Nat \ {0}
  <2>1. models \in Seq(Models) BY <1>7 DEF ModelsKept
  <2>2. Range(models) \subseteq Models BY <2>1, RangeFinite
  <2>3. QED BY <2>2 DEF Models
<1>12. \A m \in M : m.page \in P
  <2> SUFFICES ASSUME NEW m \in M PROVE m.page \in P OBVIOUS
  <2>1. m \in Range(models) BY <1>6
  <2>2. PICK p \in P : m.version = entry[p].version BY <1>8, <2>1
  <2>3. m.page \in Pages /\ m.version # 0 /\ entry[m.page].version = m.version
    BY <1>7, <1>11, <2>1 DEF ModelsLive
  <2>4. p = m.page BY <2>2, <2>3 DEF VersionsInv, Owned
  <2>5. QED BY <2>4
<1>13. Range(models') = {m \in Range(models) : m.page \notin P}
  BY <1>6, <1>9, <1>10, <1>12
<1>14. ModelsLive'
  <2> SUFFICES ASSUME NEW m \in Range(models') PROVE entry'[m.page].version = m.version
      BY DEF ModelsLive
  <2>1. m \in Range(models) /\ m.page \in Pages \ P BY <1>11, <1>13
  <2>2. QED BY <1>4, <1>7, <2>1 DEF ModelsLive
<1>15. QED BY <1>4, <1>10, <1>13, <1>14

\* t is s with x behind it: where its elements come from.
Longer(s, x, t) ==
  /\ Len(t) = Len(s) + 1 /\ Len(s) \in Nat /\ Len(t) \in DOMAIN t
  /\ DOMAIN s = 1 .. Len(s) /\ DOMAIN t = 1 .. Len(t)
  /\ \A i \in DOMAIN t : i \in DOMAIN s \/ i = Len(t)
  /\ \A i \in DOMAIN s : i \in DOMAIN t /\ t[i] = s[i]
  /\ t[Len(t)] = x /\ Range(t) = Range(s) \cup {x}

LEMMA AppendIndex ==
  ASSUME NEW S, NEW s \in Seq(S), NEW x \in S, NEW t, t = Append(s, x)
  PROVE  t \in Seq(S) /\ Longer(s, x, t)
<1>1. Range(Append(s, x)) = Range(s) \cup {x} BY RangeAppend
<1>2. /\ t \in Seq(S) /\ Len(t) = Len(s) + 1 /\ Len(s) \in Nat /\ Len(t) \in DOMAIN t
      /\ DOMAIN s = 1 .. Len(s) /\ DOMAIN t = 1 .. Len(t)
  OBVIOUS
<1>3. \A i \in DOMAIN t : i \in DOMAIN s \/ i = Len(t) OBVIOUS
<1>4. (\A i \in DOMAIN s : i \in DOMAIN t /\ t[i] = s[i]) /\ t[Len(t)] = x OBVIOUS
<1>5. QED BY <1>1, <1>2, <1>3, <1>4 DEF Longer

\* t is s without its first element.
Shorter(s, t) ==
  /\ Len(t) = Len(s) - 1 /\ Len(s) \in Nat /\ 1 \in DOMAIN s
  /\ Head(s) = s[1] /\ Head(s) \in Range(s)
  /\ DOMAIN s = 1 .. Len(s) /\ DOMAIN t = 1 .. Len(t)
  /\ \A i \in DOMAIN t : i + 1 \in DOMAIN s /\ t[i] = s[i + 1]
  /\ \A i \in DOMAIN s : i = 1 \/ \E j \in DOMAIN t : i = j + 1
  /\ Range(t) \subseteq Range(s)

LEMMA TailIndex ==
  ASSUME NEW S, NEW s \in Seq(S), s # <<>>, NEW t, t = Tail(s)
  PROVE  t \in Seq(S) /\ Head(s) \in S /\ Shorter(s, t)
<1>1. /\ t \in Seq(S) /\ Len(t) = Len(s) - 1 /\ Len(s) \in Nat /\ 1 \in DOMAIN s
      /\ Head(s) = s[1] /\ Head(s) \in S
      /\ DOMAIN s = 1 .. Len(s) /\ DOMAIN t = 1 .. Len(t)
  OBVIOUS
<1>2. \A i \in DOMAIN t : i + 1 \in DOMAIN s /\ t[i] = s[i + 1] OBVIOUS
<1>3. ASSUME NEW i \in DOMAIN s, i # 1 PROVE \E j \in DOMAIN t : i = j + 1
  <2>1. i - 1 \in DOMAIN t /\ i = (i - 1) + 1 BY <1>1, <1>3
  <2>2. QED BY <2>1
<1>4. Range(t) \subseteq Range(s) BY <1>2 DEF Range
<1>5. Head(s) \in Range(s) BY <1>1 DEF Range
<1>6. QED BY <1>1, <1>2, <1>3, <1>4, <1>5 DEF Shorter

----------------------------------------------------------------------------
(* Part 6: what the answers under way say *)

\* An answer that leaves the worker with another content of a page says that it does.
Honest(a, p, now, then) ==
  Touches(a, p) \/ (then = now /\ \A d \in Nat : Says(a, p, d) => d = now)

\* An answer that touches a page, or says what the worker has, may follow the others.
LEMMA FollowsAppend ==
  ASSUME NEW S, NEW s \in Seq(S), NEW a \in S, NEW t, t = Append(s, a), NEW p,
         NEW i \in 0 .. Len(s), NEW c, NEW now, NEW then, Follows(s, p, i, c, now),
         Honest(a, p, now, then)
  PROVE  Follows(t, p, i, c, then)
<1>1. /\ Len(t) = Len(s) + 1 /\ Len(s) \in Nat /\ Len(t) \in DOMAIN t
      /\ DOMAIN s = 1 .. Len(s)
      /\ \A j \in DOMAIN t : j \in DOMAIN s \/ j = Len(t)
      /\ \A j \in DOMAIN s : j \in DOMAIN t /\ t[j] = s[j]
      /\ t[Len(t)] = a
  <2>1. Longer(s, a, t) BY AppendIndex
  <2>2. QED BY ONLY <2>1 DEF Longer
<1> DEFINE n == Len(s)
           m == Len(t)
<1> HIDE DEF n, m
<1>2. ASSUME Untouched(t, p, i, m) PROVE Untouched(s, p, i, n) /\ ~Touches(a, p)
  <2>1. \A j \in DOMAIN s : i < j /\ j <= n => i < j /\ j <= m BY <1>1 DEF n, m
  <2>2. Untouched(s, p, i, n) BY <1>1, <1>2, <2>1 DEF Untouched
  <2>3. i < m /\ m <= m BY <1>1 DEF n, m
  <2>4. QED BY <1>1, <1>2, <2>2, <2>3 DEF Untouched, m
<1>3. Untouched(t, p, i, m) => then = c BY <1>2 DEF Follows, Honest, n
<1>4. ASSUME NEW k \in DOMAIN t, NEW d \in Nat, i < k, Untouched(t, p, i, k), Says(t[k], p, d)
      PROVE  d = c
  <2>1. CASE k \in DOMAIN s
    <3>1. Untouched(s, p, i, k) BY <1>1, <1>4 DEF Untouched
    <3>2. QED BY <1>1, <1>4, <2>1, <3>1 DEF Follows
  <2>2. CASE k = m
    <3>1. Untouched(s, p, i, n) /\ ~Touches(a, p) BY <1>2, <1>4, <2>2
    <3>2. now = c BY <3>1 DEF Follows, n
    <3>3. Says(a, p, d) BY <1>1, <1>4, <2>2 DEF m
    <3>4. QED BY <3>1, <3>2, <3>3 DEF Honest
  <2>3. QED BY <1>1, <2>1, <2>2 DEF m
<1>5. QED BY <1>3, <1>4 DEF Follows, m

\* What follows an answer still does when the first of all has gone...
LEMMA FollowsTail ==
  ASSUME NEW S, NEW s \in Seq(S), s # <<>>, NEW t, t = Tail(s), NEW p,
         NEW i \in 0 .. Len(t), NEW c, NEW now, Follows(s, p, i + 1, c, now)
  PROVE  Follows(t, p, i, c, now)
<1>1. /\ Len(t) = Len(s) - 1 /\ Len(s) \in Nat
      /\ DOMAIN s = 1 .. Len(s) /\ DOMAIN t = 1 .. Len(t)
      /\ \A j \in DOMAIN t : j + 1 \in DOMAIN s /\ t[j] = s[j + 1]
      /\ \A j \in DOMAIN s : j = 1 \/ \E k \in DOMAIN t : j = k + 1
  <2>1. Shorter(s, t) BY TailIndex
  <2>2. QED BY ONLY <2>1 DEF Shorter
<1>2. ASSUME NEW k \in Nat, Untouched(t, p, i, k) PROVE Untouched(s, p, i + 1, k + 1)
  <2> SUFFICES ASSUME NEW j \in DOMAIN s, i + 1 < j, j <= k + 1 PROVE ~Touches(s[j], p)
      BY DEF Untouched
  <2>1. PICK l \in DOMAIN t : j = l + 1 BY <1>1
  <2>2. i < l /\ l <= k BY <1>1, <2>1
  <2>3. QED BY <1>1, <1>2, <2>1, <2>2 DEF Untouched
<1>3. ASSUME Untouched(t, p, i, Len(t)) PROVE now = c
  <2>1. PICK n \in Nat : n = Len(t) /\ n + 1 = Len(s)
    <3>1. Len(t) \in Nat /\ Len(t) + 1 = Len(s) BY <1>1
    <3>2. QED BY ONLY <3>1
  <2>2. Untouched(s, p, i + 1, Len(s)) BY <1>2, <1>3, <2>1
  <2>3. QED BY <2>2 DEF Follows
<1>4. ASSUME NEW k \in DOMAIN t, NEW d \in Nat, i < k, Untouched(t, p, i, k), Says(t[k], p, d)
      PROVE  d = c
  <2>1. k \in Nat /\ i + 1 < k + 1 BY <1>1, <1>4
  <2>2. Untouched(s, p, i + 1, k + 1) BY <1>2, <1>4, <2>1
  <2>3. PICK l \in DOMAIN s : l = k + 1 /\ t[k] = s[l] BY <1>1
  <2>4. QED BY <1>4, <2>1, <2>2, <2>3 DEF Follows
<1>5. QED BY <1>3, <1>4 DEF Follows

\* ...and what follows all of them follows the first, if it did not touch the page.
LEMMA FollowsHead ==
  ASSUME NEW S, NEW s \in Seq(S), s # <<>>, NEW p, NEW c, NEW now,
         ~Touches(s[1], p), Follows(s, p, 0, c, now)
  PROVE  Follows(s, p, 1, c, now)
<1>1. DOMAIN s = 1 .. Len(s) /\ Len(s) \in Nat OBVIOUS
<1>2. ASSUME NEW k, Untouched(s, p, 1, k) PROVE Untouched(s, p, 0, k)
  <2> SUFFICES ASSUME NEW j \in DOMAIN s, 0 < j, j <= k PROVE ~Touches(s[j], p)
      BY DEF Untouched
  <2>1. j = 1 \/ 1 < j BY <1>1
  <2>2. QED BY <1>2, <2>1 DEF Untouched
<1>3. \A k \in DOMAIN s : 1 < k => 0 < k BY <1>1
<1>4. QED BY <1>2, <1>3 DEF Follows

LEMMA FollowsEnd ==
  ASSUME NEW S, NEW s \in Seq(S), NEW p, NEW c
  PROVE  Follows(s, p, Len(s), c, c)
<1>1. \A k \in DOMAIN s : ~(Len(s) < k) OBVIOUS
<1>2. QED BY <1>1 DEF Follows

\* The worker's answers say what it has.
LEMMA ChainAppend ==
  ASSUME WorkerTyped, ChainInv, NEW a \in Answers, replies' = Append(replies, a), acked' = acked,
         \A p \in Pages : Honest(a, p, content[p], content'[p]),
         IsCommit(a) => \A p \in Pages : a.contents[p] = content'[p]
  PROVE  ChainInv'
<1>1. PICK s : s = replies OBVIOUS
<1>2. PICK t : t = replies' OBVIOUS
<1>3. s \in Seq(Answers) /\ t = Append(s, a) BY <1>1, <1>2 DEF WorkerTyped
<1>4. /\ t \in Seq(Answers) /\ Len(t) = Len(s) + 1 /\ Len(s) \in Nat /\ Len(t) \in DOMAIN t
      /\ DOMAIN s = 1 .. Len(s)
      /\ \A i \in DOMAIN t : i \in DOMAIN s \/ i = Len(t)
      /\ \A i \in DOMAIN s : i \in DOMAIN t /\ t[i] = s[i]
      /\ t[Len(t)] = a
  <2>1. t \in Seq(Answers) /\ Longer(s, a, t) BY <1>3, AppendIndex
  <2>2. QED BY ONLY <2>1 DEF Longer
<1>5. ASSUME NEW p \in Pages
      PROVE  /\ Follows(t, p, 0, acked[p], content'[p])
             /\ \A i \in DOMAIN t : IsCommit(t[i]) => Follows(t, p, i, t[i].contents[p], content'[p])
  <2>1. PICK now, then : now = content[p] /\ then = content'[p] OBVIOUS
  <2>2. Honest(a, p, now, then) BY <2>1
  <2>3. ASSUME NEW i \in 0 .. Len(s), NEW c, Follows(s, p, i, c, now) PROVE Follows(t, p, i, c, then)
    <3>1. s \in Seq(Answers) /\ a \in Answers /\ t = Append(s, a) /\ i \in 0 .. Len(s)
      BY <1>3
    <3>2. QED BY ONLY <2>2, <2>3, <3>1, FollowsAppend
  <2>4. Follows(t, p, 0, acked[p], then)
    <3>1. Follows(s, p, 0, acked[p], now) BY <1>1, <2>1 DEF ChainInv
    <3>2. 0 \in 0 .. Len(s) BY <1>4
    <3>3. QED BY <2>3, <3>1, <3>2
  <2>5. ASSUME NEW i \in DOMAIN s, IsCommit(t[i]) PROVE Follows(t, p, i, t[i].contents[p], then)
    <3>1. Follows(s, p, i, s[i].contents[p], now) BY <1>1, <1>4, <2>1, <2>5 DEF ChainInv
    <3>2. i \in 0 .. Len(s) BY <1>4
    <3>3. QED BY <1>4, <2>3, <3>1, <3>2
  <2>6. IsCommit(t[Len(t)]) => Follows(t, p, Len(t), t[Len(t)].contents[p], then)
    BY <1>4, <2>1, FollowsEnd
  <2>7. QED BY <1>4, <2>1, <2>4, <2>5, <2>6
<1>6. QED BY <1>2, <1>5 DEF ChainInv

\* What the first answer says of a page it does not touch is what the client has acked.
LEMMA HeadSays ==
  ASSUME WorkerTyped, ChainInv, replies # <<>>, NEW p \in Pages, NEW d \in Nat,
         ~Touches(Head(replies), p), Says(Head(replies), p, d)
  PROVE  d = acked[p]
<1>1. 1 \in DOMAIN replies /\ Head(replies) = replies[1] BY DEF WorkerTyped
<1>2. Follows(replies, p, 0, acked[p], content[p]) BY DEF ChainInv
<1>3. Untouched(replies, p, 0, 1)
  <2> SUFFICES ASSUME NEW j \in DOMAIN replies, 0 < j, j <= 1 PROVE ~Touches(replies[j], p)
      BY DEF Untouched
  <2>1. j = 1 BY DEF WorkerTyped
  <2>2. QED BY <1>1, <2>1
<1>4. QED BY <1>1, <1>2, <1>3 DEF Follows

\* The client takes the first answer, and what a commit among them says.
LEMMA ChainTail ==
  ASSUME WorkerTyped, ChainInv, replies # <<>>, replies' = Tail(replies), content' = content,
         \A p \in Pages : acked'[p] = IF IsCommit(Head(replies)) THEN Head(replies).contents[p]
                                      ELSE acked[p]
  PROVE  ChainInv'
<1>1. PICK s : s = replies OBVIOUS
<1>2. PICK t : t = replies' OBVIOUS
<1>3. s \in Seq(Answers) /\ s # <<>> /\ t = Tail(s) BY <1>1, <1>2 DEF WorkerTyped
<1>4. /\ Len(t) = Len(s) - 1 /\ Len(s) \in Nat /\ 1 \in DOMAIN s /\ Head(s) = s[1]
      /\ DOMAIN s = 1 .. Len(s) /\ DOMAIN t = 1 .. Len(t)
      /\ \A i \in DOMAIN t : i + 1 \in DOMAIN s /\ t[i] = s[i + 1]
  <2>1. Shorter(s, t) BY ONLY <1>3, TailIndex
  <2>2. QED BY ONLY <2>1 DEF Shorter
<1>5. ASSUME NEW p \in Pages
      PROVE  /\ Follows(t, p, 0, acked'[p], content[p])
             /\ \A i \in DOMAIN t : IsCommit(t[i]) => Follows(t, p, i, t[i].contents[p], content[p])
  <2>1. PICK now, c : now = content[p] /\ c = acked'[p] OBVIOUS
  <2>2. ASSUME NEW i \in 0 .. Len(t), NEW e, Follows(s, p, i + 1, e, now) PROVE Follows(t, p, i, e, now)
    BY <1>3, <2>2, FollowsTail
  <2>3. Follows(s, p, 1, c, now)
    <3>1. CASE IsCommit(s[1]) BY <1>1, <1>4, <2>1, <3>1 DEF ChainInv
    <3>2. CASE ~IsCommit(s[1])
      <4>1. ~Touches(s[1], p) BY <3>2 DEF Touches
      <4>2. Follows(s, p, 0, c, now) BY <1>1, <1>4, <2>1, <3>2 DEF ChainInv
      <4>3. QED BY <1>3, <4>1, <4>2, FollowsHead
    <3>3. QED BY <3>1, <3>2
  <2>4. Follows(t, p, 0, c, now)
    <3>1. 0 \in 0 .. Len(t) /\ 0 + 1 = 1 BY <1>4
    <3>2. QED BY <2>2, <2>3, <3>1
  <2>5. ASSUME NEW i \in DOMAIN t, IsCommit(t[i]) PROVE Follows(t, p, i, t[i].contents[p], now)
    <3>1. PICK j \in DOMAIN s : j = i + 1 /\ t[i] = s[j] BY <1>4
    <3>2. Follows(s, p, j, s[j].contents[p], now) BY <1>1, <2>1, <2>5, <3>1 DEF ChainInv
    <3>3. i \in 0 .. Len(t) BY <1>4
    <3>4. QED BY <2>2, <3>1, <3>2, <3>3
  <2>6. QED BY <2>1, <2>4, <2>5
<1>6. QED BY <1>2, <1>5 DEF ChainInv

----------------------------------------------------------------------------
(* Part 7: the render and the close under way *)

\* Where the requests and the answers come from in a step that posts m, or nothing.
Posts(m) == requests' = requests \/ requests' = Append(requests, m)

\* Every request there is, is an old one at its place, or the new one at the end.
LEMMA PostIndex ==
  ASSUME WorkerTyped, NEW m \in Questions \cup Commits, Posts(m)
  PROVE  /\ requests' \in Seq(Questions \cup Commits)
         /\ \A i \in DOMAIN requests : i \in DOMAIN requests' /\ requests'[i] = requests[i]
         /\ \A i \in DOMAIN requests' :
              i \in DOMAIN requests \/ (requests'[i] = m /\ \A j \in DOMAIN requests' : j <= i)
         /\ requests' # requests => \E i \in DOMAIN requests' : requests'[i] = m
         /\ Range(requests') \subseteq Range(requests) \cup {m}
<1>1. requests \in Seq(Questions \cup Commits) BY DEF WorkerTyped
<1>2. CASE requests' = requests BY <1>1, <1>2
<1>3. CASE requests' = Append(requests, m)
  <2>1. PICK s, t : s = requests /\ t = requests' OBVIOUS
  <2>2. /\ t \in Seq(Questions \cup Commits) /\ Len(t) = Len(s) + 1 /\ Len(s) \in Nat
        /\ Len(t) \in DOMAIN t /\ DOMAIN s = 1 .. Len(s) /\ DOMAIN t = 1 .. Len(t)
        /\ \A i \in DOMAIN t : i \in DOMAIN s \/ i = Len(t)
        /\ \A i \in DOMAIN s : i \in DOMAIN t /\ t[i] = s[i]
        /\ t[Len(t)] = m /\ Range(t) = Range(s) \cup {m}
    <3>1. s \in Seq(Questions \cup Commits) /\ m \in Questions \cup Commits /\ t = Append(s, m)
      BY <1>1, <1>3, <2>1
    <3>2. t \in Seq(Questions \cup Commits) /\ Longer(s, m, t) BY ONLY <3>1, AppendIndex
    <3>3. QED BY ONLY <3>2 DEF Longer
  <2>3. \A j \in DOMAIN t : j <= Len(t) BY <2>2
  <2>4. \A i \in DOMAIN t : i \in DOMAIN s \/ (t[i] = m /\ \A j \in DOMAIN t : j <= i)
    BY <2>2, <2>3
  <2>5. QED BY <2>1, <2>2, <2>4
<1>4. QED BY <1>2, <1>3 DEF Posts

\* Every answer left is an old one, one place further on.
LEMMA ArriveIndex ==
  ASSUME WorkerTyped, replies # <<>>, replies' = Tail(replies)
  PROVE  /\ replies' \in Seq(Answers) /\ Range(replies') \subseteq Range(replies)
         /\ 1 \in DOMAIN replies /\ Head(replies) = replies[1]
         /\ Head(replies) \in Answers /\ Head(replies) \in Range(replies)
         /\ \A i \in DOMAIN replies' : \E j \in DOMAIN replies : j = i + 1 /\ replies'[i] = replies[j]
         /\ \A j \in DOMAIN replies : j = 1 \/ \E i \in DOMAIN replies' : j = i + 1
         /\ \A i, j \in DOMAIN replies' : i \in Nat /\ j \in Nat
<1>1. PICK s, t : s = replies /\ t = replies' OBVIOUS
<1>2. s \in Seq(Answers) /\ s # <<>> /\ t = Tail(s) BY <1>1 DEF WorkerTyped
<1>3. t \in Seq(Answers) /\ Head(s) \in Answers /\ Shorter(s, t) BY ONLY <1>2, TailIndex
<1>4. /\ 1 \in DOMAIN s /\ Head(s) = s[1] /\ Head(s) \in Range(s) /\ Range(t) \subseteq Range(s)
      /\ \A i \in DOMAIN t : i + 1 \in DOMAIN s /\ t[i] = s[i + 1]
  BY ONLY <1>3 DEF Shorter
<1>5. \A j \in DOMAIN s : j = 1 \/ \E i \in DOMAIN t : j = i + 1 BY ONLY <1>3 DEF Shorter
<1>6. DOMAIN t \subseteq Nat BY <1>3
<1>7. QED BY ONLY <1>1, <1>3, <1>4, <1>5, <1>6

\* The worker takes the first request and its answer goes behind the others.
Answered(a) ==
  /\ requests # <<>> /\ a.to = Head(requests)
  /\ requests' = Tail(requests) /\ replies' = Append(replies, a)

LEMMA AnsweredIndex ==
  ASSUME WorkerTyped, NEW a \in Answers, Answered(a)
  PROVE  /\ requests' \in Seq(Questions \cup Commits) /\ Range(requests') \subseteq Range(requests)
         /\ 1 \in DOMAIN requests /\ a.to = requests[1] /\ a.to \in Range(requests)
         /\ \A i \in DOMAIN requests' :
              \E j \in DOMAIN requests : j = i + 1 /\ 1 < j /\ requests'[i] = requests[j]
         /\ \A j \in DOMAIN requests :
              j = 1 \/ \E i \in DOMAIN requests' : j = i + 1 /\ requests'[i] = requests[j]
         /\ \A i \in DOMAIN requests' : i \in Nat
         /\ replies' \in Seq(Answers) /\ Range(replies') = Range(replies) \cup {a}
         /\ \A i \in DOMAIN replies : i \in DOMAIN replies' /\ replies'[i] = replies[i]
         /\ \E n \in DOMAIN replies' :
              /\ replies'[n] = a /\ n \in Nat /\ \A i \in DOMAIN replies : i \in Nat /\ i < n
              /\ \A i \in DOMAIN replies' : i \in DOMAIN replies \/ i = n
<1>1. PICK s, t : s = requests /\ t = requests' OBVIOUS
<1>2. s \in Seq(Questions \cup Commits) /\ s # <<>> /\ t = Tail(s) /\ a.to = Head(s)
  BY <1>1 DEF WorkerTyped, Answered
<1>0. t \in Seq(Questions \cup Commits) /\ Shorter(s, t) BY ONLY <1>2, TailIndex
<1>3. /\ t \in Seq(Questions \cup Commits) /\ 1 \in DOMAIN s /\ Head(s) = s[1]
      /\ Head(s) \in Range(s) /\ Range(t) \subseteq Range(s)
  BY ONLY <1>0 DEF Shorter
<1>4. \A i \in DOMAIN t : i + 1 \in DOMAIN s /\ t[i] = s[i + 1] BY ONLY <1>0 DEF Shorter
<1>5. \A j \in DOMAIN s : j = 1 \/ \E i \in DOMAIN t : j = i + 1 BY ONLY <1>0 DEF Shorter
<1>6. \A i \in DOMAIN t : i \in Nat /\ 1 < i + 1 BY <1>3
<1>7. PICK u, v : u = replies /\ v = replies' OBVIOUS
<1>8. u \in Seq(Answers) /\ a \in Answers /\ v = Append(u, a) BY <1>7 DEF WorkerTyped, Answered
<1>9. /\ v \in Seq(Answers) /\ Len(v) = Len(u) + 1 /\ Len(u) \in Nat /\ Len(v) \in DOMAIN v
      /\ DOMAIN u = 1 .. Len(u) /\ DOMAIN v = 1 .. Len(v)
      /\ \A i \in DOMAIN v : i \in DOMAIN u \/ i = Len(v)
      /\ \A i \in DOMAIN u : i \in DOMAIN v /\ v[i] = u[i]
      /\ v[Len(v)] = a /\ Range(v) = Range(u) \cup {a}
  <2>1. v \in Seq(Answers) /\ Longer(u, a, v) BY ONLY <1>8, AppendIndex
  <2>2. QED BY ONLY <2>1 DEF Longer
<1>10. \E n \in DOMAIN v : /\ v[n] = a /\ n \in Nat /\ \A i \in DOMAIN u : i \in Nat /\ i < n
                           /\ \A i \in DOMAIN v : i \in DOMAIN u \/ i = n
  <2>1. \A i \in DOMAIN u : i \in Nat /\ i < Len(v) BY <1>9
  <2>2. Len(v) \in Nat BY <1>9
  <2>3. QED BY <1>9, <2>1, <2>2
<1>11. \A i \in DOMAIN t : \E j \in DOMAIN s : j = i + 1 /\ 1 < j /\ t[i] = s[j] BY <1>4, <1>6
<1>12. \A j \in DOMAIN s : j = 1 \/ \E i \in DOMAIN t : j = i + 1 /\ t[i] = s[j] BY <1>4, <1>5
<1>13. QED
  <2>1. /\ requests' \in Seq(Questions \cup Commits) /\ Range(requests') \subseteq Range(requests)
        /\ 1 \in DOMAIN requests /\ a.to = requests[1] /\ a.to \in Range(requests)
    BY ONLY <1>1, <1>2, <1>3
  <2>2. \A i \in DOMAIN requests' :
          \E j \in DOMAIN requests : j = i + 1 /\ 1 < j /\ requests'[i] = requests[j]
    BY ONLY <1>1, <1>11
  <2>3. /\ \A j \in DOMAIN requests :
             j = 1 \/ \E i \in DOMAIN requests' : j = i + 1 /\ requests'[i] = requests[j]
        /\ \A i \in DOMAIN requests' : i \in Nat
    BY ONLY <1>1, <1>6, <1>12
  <2>4. /\ replies' \in Seq(Answers) /\ Range(replies') = Range(replies) \cup {a}
        /\ \A i \in DOMAIN replies : i \in DOMAIN replies' /\ replies'[i] = replies[i]
        /\ \E n \in DOMAIN replies' :
             /\ replies'[n] = a /\ n \in Nat /\ \A i \in DOMAIN replies : i \in Nat /\ i < n
             /\ \A i \in DOMAIN replies' : i \in DOMAIN replies \/ i = n
    BY ONLY <1>7, <1>9, <1>10
  <2>5. QED BY <2>1, <2>2, <2>3, <2>4

\* Versions that come from what there was, or are its page's own now, are in order.
VersionsFrom(m) ==
  /\ VersionStep /\ epoch \in Int /\ epoch' \in Int /\ epoch <= epoch'
  /\ \A q \in Pages : entry'[q].version # 0 => Owned(q, entry[q].version)'
  /\ \A k \in waiting' : \/ k \in waiting
                         \/ Owned(k.page, k.version)' /\ k.epoch \in Int /\ k.epoch <= epoch'
  /\ \/ running'.stage = "idle" \/ running' = running \/ running'.key \in waiting
     \/ running.stage # "idle" /\ running'.key = running.key
  /\ \A b \in Range(bitmaps') :
       \/ b \in Range(bitmaps)
       \/ running.stage # "idle" /\ b.key = running.key /\ b.page = b.key.page
  /\ Range(requests') \subseteq Range(requests) \cup {m}
  /\ m \in Range(requests') /\ m.op \in Loads => Owned(m.page, m.version)'
  /\ Range(replies') \subseteq Range(replies)

LEMMA VersionsKept ==
  ASSUME ClientTyped, VersionsInv, NEW m, VersionsFrom(m)
  PROVE  VersionsInv'
<1>0. sequence \in Nat BY DEF ClientTyped
<1>1. ASSUME NEW p, NEW v, Owned(p, v) PROVE Owned(p, v)'
  <2>1. VersionStep BY DEF VersionsFrom
  <2>2. QED BY ONLY <1>0, <1>1, <2>1, OwnedKept
<1>2. \A k \in Keys : k.epoch \in Int BY DEF Keys
<1>3. \A q \in Pages : entry'[q].version # 0 => Owned(q, entry[q].version)' BY DEF VersionsFrom
<1>4. \A k \in waiting : Owned(k.page, k.version)' /\ k.epoch <= epoch'
  <2> SUFFICES ASSUME NEW k \in waiting PROVE Owned(k.page, k.version)' /\ k.epoch <= epoch'
      OBVIOUS
  <2>1. Owned(k.page, k.version) /\ k.epoch <= epoch BY DEF VersionsInv
  <2>2. Owned(k.page, k.version)' BY <1>1, <2>1
  <2>3. k.epoch \in Int BY <1>2 DEF ClientTyped
  <2>4. QED BY <2>1, <2>2, <2>3 DEF VersionsFrom
<1>5. \A k \in waiting' : Owned(k.page, k.version)' /\ k.epoch <= epoch'
  BY <1>4 DEF VersionsFrom
<1>6. ASSUME running'.stage # "idle"
      PROVE  Owned(running.key.page, running.key.version)' /\ running'.key.epoch <= epoch'
  <2>1. PICK k : k = running'.key OBVIOUS
  <2>2. Owned(k.page, k.version)' /\ k.epoch <= epoch'
    <3>1. CASE k \in waiting BY <1>4, <3>1
    <3>2. CASE running.stage # "idle" /\ k = running.key
      <4>1. Owned(k.page, k.version) /\ k.epoch <= epoch BY <3>2 DEF VersionsInv
      <4>2. Owned(k.page, k.version)' BY <1>1, <4>1
      <4>3. k.epoch \in Int BY <1>2, <3>2 DEF ClientTyped, Idle
      <4>4. QED BY <4>1, <4>2, <4>3 DEF VersionsFrom
    <3>3. QED BY <1>6, <2>1, <3>1, <3>2 DEF VersionsFrom
  <2>3. QED BY <2>1, <2>2 DEF Owned
<1>7. ASSUME NEW b \in Range(bitmaps') PROVE b.page = b.key.page /\ Owned(b.page, b.key.version)'
  <2>1. CASE b \in Range(bitmaps)
    <3>1. b.page = b.key.page /\ Owned(b.page, b.key.version) BY <2>1 DEF VersionsInv
    <3>2. QED BY <1>1, <3>1
  <2>2. CASE running.stage # "idle" /\ b.key = running.key /\ b.page = b.key.page
    <3>1. Owned(b.page, b.key.version) BY <2>2 DEF VersionsInv
    <3>2. QED BY <1>1, <2>2, <3>1
  <2>3. QED BY <2>1, <2>2 DEF VersionsFrom
<1>8. ASSUME NEW r \in Range(requests'), r.op \in Loads PROVE Owned(r.page, r.version)'
  <2>1. CASE r \in Range(requests)
    <3>1. Owned(r.page, r.version) BY <1>8, <2>1 DEF VersionsInv
    <3>2. QED BY <1>1, <3>1
  <2>2. CASE r = m BY <1>8, <2>2 DEF VersionsFrom
  <2>3. QED BY <2>1, <2>2 DEF VersionsFrom
<1>9. ASSUME NEW a \in Range(replies'), a.to.op \in Loads PROVE Owned(a.to.page, a.to.version)'
  <2>1. Owned(a.to.page, a.to.version) BY <1>9 DEF VersionsInv, VersionsFrom
  <2>2. QED BY <1>1, <2>1
<1>10. QED BY <1>3, <1>5, <1>6, <1>7, <1>8, <1>9 DEF VersionsInv

\* The first answer has arrived, or none has.
Arrives == replies' = replies \/ (replies # <<>> /\ replies' = Tail(replies))

LEMMA ArrivesIndex ==
  ASSUME WorkerTyped, Arrives
  PROVE  /\ replies' \in Seq(Answers) /\ Range(replies') \subseteq Range(replies)
         /\ \E d \in {0, 1} : \A i \in DOMAIN replies' :
              i \in Nat /\ \E j \in DOMAIN replies : j = i + d /\ replies'[i] = replies[j]
<1>1. CASE replies' = replies
  <2>1. \A i \in DOMAIN replies : i \in Nat /\ i = i + 0 BY DEF WorkerTyped
  <2>2. QED BY <1>1, <2>1 DEF WorkerTyped
<1>2. CASE replies # <<>> /\ replies' = Tail(replies)
  <2>1. /\ replies' \in Seq(Answers) /\ Range(replies') \subseteq Range(replies)
        /\ \A i \in DOMAIN replies' : \E j \in DOMAIN replies : j = i + 1 /\ replies'[i] = replies[j]
        /\ \A i, j \in DOMAIN replies' : i \in Nat /\ j \in Nat
    BY <1>2, ArriveIndex
  <2>2. QED BY <2>1
<1>3. QED BY <1>1, <1>2 DEF Arrives

\* No render is under way.
NoRender == /\ \A m \in Range(requests) : m.op # "render"
            /\ \A a \in Range(replies) : a.to.op # "render"

LEMMA NoneUnderWay ==
  ASSUME RenderInv, running.stage # "posted"
  PROVE  NoRender
BY DEF RenderInv, NoRender, Range

LEMMA RenderNone ==
  ASSUME NoRender'
  PROVE  RenderInv'
<1>1. /\ \A i \in DOMAIN requests' : requests'[i].op # "render"
      /\ \A i \in DOMAIN replies' : replies'[i].to.op # "render"
  BY DEF NoRender, Range
<1>2. QED BY <1>1 DEF RenderInv

\* While the same render runs, other requests may be posted and answers arrive.
LEMMA RenderKept ==
  ASSUME WorkerTyped, RenderInv, NEW m \in Questions \cup Commits, Posts(m), m.op # "render",
         Arrives, running' = running
  PROVE  RenderInv'
<1>1. ASSUME NEW i \in DOMAIN requests', requests'[i].op = "render"
      PROVE  i \in DOMAIN requests /\ requests'[i] = requests[i]
  BY <1>1, PostIndex
<1>2. PICK d \in {0, 1} : \A i \in DOMAIN replies' :
         i \in Nat /\ \E j \in DOMAIN replies : j = i + d /\ replies'[i] = replies[j]
  BY ArrivesIndex
<1>3. ASSUME NEW i \in DOMAIN requests', requests'[i].op = "render"
      PROVE  /\ running'.stage = "posted" /\ requests'[i].page = running'.key.page
             /\ \A j \in DOMAIN requests' : requests'[j].op = "render" => j = i
             /\ \A j \in DOMAIN replies' : replies'[j].to.op # "render"
  <2>1. \A j \in DOMAIN requests' : requests'[j].op = "render" => j = i
    BY <1>1, <1>3 DEF RenderInv
  <2>2. \A j \in DOMAIN replies' : replies'[j].to.op # "render" BY <1>1, <1>2, <1>3 DEF RenderInv
  <2>3. QED BY <1>1, <1>3, <2>1, <2>2 DEF RenderInv
<1>4. ASSUME NEW i \in DOMAIN replies', replies'[i].to.op = "render"
      PROVE  /\ running'.stage = "posted" /\ replies'[i].to.page = running'.key.page
             /\ \A j \in DOMAIN replies' : replies'[j].to.op = "render" => j = i
  <2>1. PICK k \in DOMAIN replies : k = i + d /\ replies'[i] = replies[k] BY <1>2
  <2>2. ASSUME NEW j \in DOMAIN replies', replies'[j].to.op = "render" PROVE j = i
    <3>1. PICK l \in DOMAIN replies : l = j + d /\ replies'[j] = replies[l] BY <1>2
    <3>2. k = l BY <1>4, <2>1, <2>2, <3>1 DEF RenderInv
    <3>3. i \in Nat /\ j \in Nat BY <1>2
    <3>4. QED BY <2>1, <3>1, <3>2, <3>3
  <2>3. QED BY <1>4, <2>1, <2>2 DEF RenderInv
<1>5. QED BY <1>3, <1>4 DEF RenderInv

\* A render is posted when none is under way.
LEMMA RenderPosted ==
  ASSUME WorkerTyped, NoRender, NEW m \in Questions \cup Commits, Posts(m), m.op = "render",
         Arrives, running'.stage = "posted", m.page = running'.key.page
  PROVE  RenderInv'
<1>1. \A i \in DOMAIN requests : requests[i].op # "render" BY DEF NoRender, Range
<1>2. /\ \A i \in DOMAIN requests' : i \in DOMAIN requests => requests'[i] = requests[i]
      /\ \A i \in DOMAIN requests' :
           i \in DOMAIN requests \/ (requests'[i] = m /\ \A j \in DOMAIN requests' : j <= i)
      /\ requests' \in Seq(Questions \cup Commits)
  BY PostIndex
<1>3. ASSUME NEW i \in DOMAIN requests', requests'[i].op = "render"
      PROVE  requests'[i] = m /\ \A j \in DOMAIN requests' : j <= i
  BY <1>1, <1>2, <1>3
<1>4. ASSUME NEW i \in DOMAIN requests', requests'[i].op = "render",
             NEW j \in DOMAIN requests', requests'[j].op = "render"
      PROVE  j = i
  <2>1. j <= i /\ i <= j BY <1>3, <1>4
  <2>2. i \in Nat /\ j \in Nat BY <1>2
  <2>3. QED BY <2>1, <2>2
<1>5. \A i \in DOMAIN replies' : replies'[i].to.op # "render" BY ArrivesIndex DEF NoRender, Range
<1>6. QED BY <1>3, <1>4, <1>5 DEF RenderInv

\* The worker answers while the same render runs.
LEMMA RenderAnswered ==
  ASSUME WorkerTyped, RenderInv, NEW a \in Answers, Answered(a), running' = running
  PROVE  RenderInv'
<1>1. /\ 1 \in DOMAIN requests /\ a.to = requests[1]
      /\ \A i \in DOMAIN requests' :
           \E j \in DOMAIN requests : j = i + 1 /\ 1 < j /\ requests'[i] = requests[j]
      /\ \A i \in DOMAIN requests' : i \in Nat
  BY AnsweredIndex
<1>2. PICK n \in DOMAIN replies' :
         /\ replies'[n] = a /\ \A i \in DOMAIN replies' : i \in DOMAIN replies \/ i = n
  BY AnsweredIndex
<1>3. \A i \in DOMAIN replies : replies'[i] = replies[i] BY AnsweredIndex
<1>4. ASSUME NEW i \in DOMAIN requests', requests'[i].op = "render"
      PROVE  /\ running'.stage = "posted" /\ requests'[i].page = running'.key.page
             /\ \A j \in DOMAIN requests' : requests'[j].op = "render" => j = i
             /\ \A j \in DOMAIN replies' : replies'[j].to.op # "render"
  <2>1. PICK k \in DOMAIN requests : k = i + 1 /\ 1 < k /\ requests'[i] = requests[k] BY <1>1
  <2>2. ASSUME NEW j \in DOMAIN requests', requests'[j].op = "render" PROVE j = i
    <3>1. PICK l \in DOMAIN requests : l = j + 1 /\ requests'[j] = requests[l] BY <1>1
    <3>2. k = l BY <1>4, <2>1, <2>2, <3>1 DEF RenderInv
    <3>3. i \in Nat /\ j \in Nat BY <1>1
    <3>4. QED BY <2>1, <3>1, <3>2, <3>3
  <2>3. a.to.op # "render" BY <1>1, <1>4, <2>1 DEF RenderInv
  <2>4. \A j \in DOMAIN replies' : replies'[j].to.op # "render"
    BY <1>2, <1>3, <1>4, <2>1, <2>3 DEF RenderInv
  <2>5. QED BY <1>4, <2>1, <2>2, <2>4 DEF RenderInv
<1>5. ASSUME NEW i \in DOMAIN replies', replies'[i].to.op = "render"
      PROVE  /\ running'.stage = "posted" /\ replies'[i].to.page = running'.key.page
             /\ \A j \in DOMAIN replies' : replies'[j].to.op = "render" => j = i
  <2>1. CASE i = n /\ i \notin DOMAIN replies
    <3>1. requests[1].op = "render" /\ requests[1].page = replies'[i].to.page
      BY <1>1, <1>2, <1>5, <2>1
    <3>2. QED BY <1>1, <1>2, <1>3, <1>5, <2>1, <3>1 DEF RenderInv
  <2>2. CASE i \in DOMAIN replies
    <3>1. a.to.op # "render" BY <1>1, <1>3, <1>5, <2>2 DEF RenderInv
    <3>2. QED BY <1>2, <1>3, <1>5, <2>2, <3>1 DEF RenderInv
  <2>3. QED BY <1>2, <2>1, <2>2
<1>6. QED BY <1>4, <1>5 DEF RenderInv

\* The answer to the render has arrived: none is left under way.
LEMMA RenderArrived ==
  ASSUME WorkerTyped, RenderInv, replies # <<>>, replies' = Tail(replies), requests' = requests,
         Head(replies).to.op = "render"
  PROVE  NoRender'
<1>1. /\ 1 \in DOMAIN replies /\ Head(replies) = replies[1]
      /\ \A i \in DOMAIN replies' : \E j \in DOMAIN replies : j = i + 1 /\ replies'[i] = replies[j]
      /\ \A i \in DOMAIN replies' : i \in Nat
  BY ArriveIndex
<1>2. \A i \in DOMAIN requests' : requests'[i].op # "render" BY <1>1 DEF RenderInv
<1>3. ASSUME NEW i \in DOMAIN replies' PROVE replies'[i].to.op # "render"
  <2>1. PICK j \in DOMAIN replies : j = i + 1 /\ replies'[i] = replies[j] BY <1>1
  <2>2. j # 1
    <3>1. replies' \in Seq(Answers) BY ArriveIndex
    <3>2. i \in 1 .. Len(replies') BY <3>1
    <3>3. QED BY <2>1, <3>2
  <2>3. QED BY <1>1, <2>1, <2>2 DEF RenderInv
<1>4. QED BY <1>2, <1>3 DEF NoRender, Range

\* A load whose entry is gone does not get it back.
LEMMA DeadKept ==
  ASSUME sequence \in Nat, VersionStep, NEW m,
         m.op \in Loads => m.page \in Pages /\ Owned(m.page, m.version), Dead(m)
  PROVE  Dead(m)'
<1> SUFFICES ASSUME m.op \in Loads PROVE entry'[m.page].version # m.version BY DEF Dead, Live
<1>1. m.version \in 1 .. sequence /\ entry[m.page].version # m.version BY DEF Owned, Dead, Live
<1>2. entry'[m.page].version \in {0, entry[m.page].version, sequence + 1} BY DEF VersionStep
<1>3. m.version # 0 /\ m.version # sequence + 1 BY <1>1
<1>4. QED BY <1>1, <1>2, <1>3

\* What the requests for loads are for.
LEMMA LoadsOwned ==
  ASSUME WorkerTyped, VersionsInv
  PROVE  /\ \A m \in Range(requests) : m.op \in Loads => m.page \in Pages /\ Owned(m.page, m.version)
         /\ \A a \in Range(replies) :
              a.to.op \in Loads => a.to.page \in Pages /\ Owned(a.to.page, a.to.version)
<1>1. \A m \in Questions \cup Commits : m.op \in Loads => m.page \in Pages
  BY DEF Questions, Commits, Loads
<1>2. Range(requests) \subseteq Questions \cup Commits BY RangeFinite DEF WorkerTyped
<1>3. Range(replies) \subseteq Answers BY RangeFinite DEF WorkerTyped
<1>4. \A a \in Answers : a.to \in Questions \cup Commits BY DEF Answers
<1>5. QED BY <1>1, <1>2, <1>3, <1>4 DEF VersionsInv

\* Requests other than a close are posted, and answers to others arrive.
LEMMA ClosingKept ==
  ASSUME sequence \in Nat, WorkerTyped, VersionsInv, VersionStep, ClosingInv,
         NEW m \in Questions \cup Commits, Posts(m), m.op # "close",
         Arrives, replies' # replies => Head(replies).to.op # "close",
         phase' = phase, serving' = serving
  PROVE  ClosingInv'
<1>1. /\ \A i \in DOMAIN requests : i \in DOMAIN requests' /\ requests'[i] = requests[i]
      /\ \A i \in DOMAIN requests' :
           i \in DOMAIN requests \/ (requests'[i] = m /\ \A j \in DOMAIN requests' : j <= i)
      /\ requests' \in Seq(Questions \cup Commits)
  BY PostIndex
<1>2. PICK d \in {0, 1} :
        /\ \A i \in DOMAIN replies' :
             i \in Nat /\ \E j \in DOMAIN replies : j = i + d /\ replies'[i] = replies[j]
        /\ \A i \in DOMAIN replies :
             replies[i].to.op = "close" => \E j \in DOMAIN replies' : replies'[j] = replies[i]
  <2>1. CASE replies' = replies
    <3>1. \A i \in DOMAIN replies : i \in Nat /\ i = i + 0 BY DEF WorkerTyped
    <3>2. QED BY <2>1, <3>1
  <2>2. CASE replies # <<>> /\ replies' = Tail(replies) /\ replies' # replies
    <3>1. /\ 1 \in DOMAIN replies /\ Head(replies) = replies[1]
          /\ \A i \in DOMAIN replies' : \E j \in DOMAIN replies : j = i + 1 /\ replies'[i] = replies[j]
          /\ \A j \in DOMAIN replies : j = 1 \/ \E i \in DOMAIN replies' : j = i + 1
          /\ \A i, j \in DOMAIN replies' : i \in Nat /\ j \in Nat
      BY <2>2, ArriveIndex
    <3>2. ASSUME NEW i \in DOMAIN replies, replies[i].to.op = "close"
          PROVE  \E j \in DOMAIN replies' : replies'[j] = replies[i]
      <4>1. i # 1 BY <2>2, <3>1, <3>2
      <4>2. PICK j \in DOMAIN replies' : i = j + 1 BY <3>1, <4>1
      <4>3. PICK l \in DOMAIN replies : l = j + 1 /\ replies'[j] = replies[l] BY <3>1
      <4>4. QED BY <4>2, <4>3
    <3>3. QED BY <3>1, <3>2
  <2>3. QED BY <2>1, <2>2 DEF Arrives
<1>3. ASSUME NEW i \in DOMAIN requests, Dead(requests[i]) PROVE Dead(requests[i])'
  <2>1. PICK r : r = requests[i] OBVIOUS
  <2>2. r \in Range(requests) BY <2>1 DEF Range
  <2>3. r.op \in Loads => r.page \in Pages /\ Owned(r.page, r.version) BY <2>2, LoadsOwned
  <2>4. Dead(r)' BY <1>3, <2>1, <2>3, DeadKept
  <2>5. requests'[i] = r BY <1>1, <2>1
  <2>6. QED BY <2>4, <2>5 DEF Dead, Live
<1>4. ASSUME NEW i \in DOMAIN replies, NEW a, a = replies[i], Dead(a.to) PROVE Dead(a.to)'
  <2>1. PICK r : r = a.to OBVIOUS
  <2>2. a \in Range(replies) BY <1>4 DEF Range
  <2>3. r.op \in Loads => r.page \in Pages /\ Owned(r.page, r.version) BY <2>1, <2>2, LoadsOwned
  <2>4. Dead(r) BY <1>4, <2>1
  <2>5. Dead(r)' BY <2>3, <2>4, DeadKept
  <2>6. QED BY <2>1, <2>5 DEF Dead, Live
<1>5. ASSUME NEW i \in DOMAIN requests', requests'[i].op = "close"
      PROVE  /\ phase' = "closing"
             /\ \A j \in DOMAIN requests' : /\ j < i => Dead(requests[j])'
                                            /\ requests'[j].op = "close" => j = i
             /\ \A j \in DOMAIN replies' : Dead(replies[j].to)' /\ replies'[j].to.op # "close"
  <2>1. i \in DOMAIN requests /\ requests[i].op = "close" BY <1>1, <1>5
  <2>2. ASSUME NEW j \in DOMAIN requests', j < i PROVE Dead(requests[j])'
    <3>1. j \in DOMAIN requests
      <4>1. i \in Nat /\ j \in Nat /\ i \in DOMAIN requests' BY <1>1
      <4>2. QED BY <1>1, <2>2, <4>1
    <3>2. Dead(requests[j]) BY <2>1, <2>2, <3>1 DEF ClosingInv
    <3>3. QED BY <1>3, <3>1, <3>2
  <2>3. ASSUME NEW j \in DOMAIN requests', requests'[j].op = "close" PROVE j = i
    BY <1>1, <2>1, <2>3 DEF ClosingInv
  <2>4. ASSUME NEW j \in DOMAIN replies' PROVE Dead(replies[j].to)' /\ replies'[j].to.op # "close"
    <3>1. PICK l \in DOMAIN replies : l = j + d /\ replies'[j] = replies[l] BY <1>2
    <3>2. PICK a : a = replies[l] OBVIOUS
    <3>3. Dead(a.to) /\ a.to.op # "close" BY <2>1, <3>2 DEF ClosingInv
    <3>4. Dead(a.to)' BY <1>4, <3>2, <3>3
    <3>5. QED BY <3>1, <3>2, <3>3, <3>4 DEF Dead, Live
  <2>5. QED BY <2>1, <2>2, <2>3, <2>4 DEF ClosingInv
<1>6. ASSUME NEW i \in DOMAIN replies', replies'[i].to.op = "close"
      PROVE  /\ phase' = "closing"
             /\ replies'[i].result # 0 => ~serving'
             /\ \A j \in DOMAIN replies' :
                  /\ j < i => Dead(replies[j].to)'
                  /\ replies'[j].to.op = "close" => j = i
                  /\ i < j /\ replies'[i].result # 0 /\ replies'[j].to.op \in Loads
                       => replies'[j].result = 0
  <2>1. PICK k \in DOMAIN replies : k = i + d /\ replies'[i] = replies[k] BY <1>2
  <2>2. /\ phase = "closing" /\ (replies[k].result # 0 => ~serving)
        /\ \A j \in DOMAIN replies : /\ j < k => Dead(replies[j].to)
                                     /\ replies[j].to.op = "close" => j = k
                                     /\ k < j /\ replies[k].result # 0 /\ replies[j].to.op \in Loads
                                          => replies[j].result = 0
    BY <1>6, <2>1 DEF ClosingInv
  <2>3. ASSUME NEW j \in DOMAIN replies'
        PROVE  /\ j < i => Dead(replies[j].to)'
               /\ replies'[j].to.op = "close" => j = i
               /\ i < j /\ replies'[i].result # 0 /\ replies'[j].to.op \in Loads
                    => replies'[j].result = 0
    <3>1. PICK l \in DOMAIN replies : l = j + d /\ replies'[j] = replies[l] BY <1>2
    <3>2. i \in Nat /\ j \in Nat /\ d \in Nat BY <1>2
    <3>3. (j < i <=> l < k) /\ (i < j <=> k < l) /\ (j = i <=> l = k) BY <2>1, <3>1, <3>2
    <3>4. PICK a : a = replies[l] OBVIOUS
    <3>5. j < i => Dead(a.to)' BY <1>4, <2>2, <3>3, <3>4
    <3>6. QED BY <2>1, <2>2, <3>1, <3>3, <3>4, <3>5 DEF Dead, Live
  <2>4. QED BY <2>1, <2>2, <2>3
<1>7. ASSUME phase' = "closing"
      PROVE  \/ \E i \in DOMAIN requests' : requests'[i].op = "close"
             \/ \E i \in DOMAIN replies' : replies'[i].to.op = "close"
  BY <1>1, <1>2, <1>7 DEF ClosingInv
<1>8. ASSUME phase' = "closed"
      PROVE  /\ ~serving'
             /\ \A i \in DOMAIN replies' : replies'[i].to.op \in Loads => replies'[i].result = 0
  BY <1>2, <1>8 DEF ClosingInv
<1>9. QED BY <1>5, <1>6, <1>7, <1>8 DEF ClosingInv

\* The worker answers: a close it has done leaves it with nothing to load.
LEMMA ClosingAnswered ==
  ASSUME WorkerTyped, ClosingInv, NEW a \in Answers, Answered(a), entry' = entry, phase' = phase,
         serving' => serving,
         a.to.op \in Loads /\ a.result # 0 => serving,
         a.to.op = "close" /\ a.result # 0 => ~serving'
  PROVE  ClosingInv'
<1>1. /\ 1 \in DOMAIN requests /\ a.to = requests[1]
      /\ \A i \in DOMAIN requests' :
           \E j \in DOMAIN requests : j = i + 1 /\ 1 < j /\ requests'[i] = requests[j]
      /\ \A j \in DOMAIN requests :
           j = 1 \/ \E i \in DOMAIN requests' : j = i + 1 /\ requests'[i] = requests[j]
      /\ \A i \in DOMAIN requests' : i \in Nat
  BY AnsweredIndex
<1>2. PICK n \in DOMAIN replies' :
         /\ replies'[n] = a /\ n \in Nat /\ \A i \in DOMAIN replies : i \in Nat /\ i < n
         /\ \A i \in DOMAIN replies' : i \in DOMAIN replies \/ i = n
  BY AnsweredIndex
<1>3. \A i \in DOMAIN replies : i \in DOMAIN replies' /\ replies'[i] = replies[i] BY AnsweredIndex
<1>4. \A m : Dead(m) => Dead(m)' BY DEF Dead, Live
<1>5. ASSUME NEW i \in DOMAIN requests', requests'[i].op = "close"
      PROVE  /\ phase' = "closing"
             /\ \A j \in DOMAIN requests' : /\ j < i => Dead(requests[j])'
                                            /\ requests'[j].op = "close" => j = i
             /\ \A j \in DOMAIN replies' : Dead(replies[j].to)' /\ replies'[j].to.op # "close"
  <2>1. PICK k \in DOMAIN requests : k = i + 1 /\ 1 < k /\ requests'[i] = requests[k] BY <1>1
  <2>2. /\ phase = "closing"
        /\ \A j \in DOMAIN requests : /\ j < k => Dead(requests[j])
                                      /\ requests[j].op = "close" => j = k
        /\ \A j \in DOMAIN replies : Dead(replies[j].to) /\ replies[j].to.op # "close"
    BY <1>5, <2>1 DEF ClosingInv
  <2>3. ASSUME NEW j \in DOMAIN requests'
        PROVE  (j < i => Dead(requests[j])') /\ (requests'[j].op = "close" => j = i)
    <3>1. PICK l \in DOMAIN requests : l = j + 1 /\ requests'[j] = requests[l] BY <1>1
    <3>2. i \in Nat /\ j \in Nat BY <1>1
    <3>3. (j < i <=> l < k) /\ (j = i <=> l = k) BY <2>1, <3>1, <3>2
    <3>4. PICK r : r = requests[l] OBVIOUS
    <3>5. j < i => Dead(r)' BY <1>4, <2>2, <3>3, <3>4
    <3>6. QED BY <2>2, <3>1, <3>3, <3>4, <3>5 DEF Dead, Live
  <2>4. ASSUME NEW j \in DOMAIN replies' PROVE Dead(replies[j].to)' /\ replies'[j].to.op # "close"
    <3>1. CASE j \in DOMAIN replies
      <4>1. PICK r : r = replies[j].to OBVIOUS
      <4>2. Dead(r) BY <2>2, <3>1, <4>1
      <4>3. Dead(r)' BY <1>4, <4>2
      <4>4. QED BY <1>3, <2>2, <3>1, <4>1, <4>3 DEF Dead, Live
    <3>2. CASE j = n
      <4>1. PICK r : r = requests[1] OBVIOUS
      <4>2. Dead(r) /\ r.op # "close" BY <1>1, <2>1, <2>2, <4>1
      <4>3. Dead(r)' BY <1>4, <4>2
      <4>4. replies'[j].to = r BY <1>1, <1>2, <3>2, <4>1
      <4>5. QED BY <4>2, <4>3, <4>4 DEF Dead, Live
    <3>3. QED BY <1>2, <3>1, <3>2
  <2>5. QED BY <2>2, <2>3, <2>4
<1>6. ASSUME NEW i \in DOMAIN replies', replies'[i].to.op = "close"
      PROVE  /\ phase' = "closing"
             /\ replies'[i].result # 0 => ~serving'
             /\ \A j \in DOMAIN replies' :
                  /\ j < i => Dead(replies[j].to)'
                  /\ replies'[j].to.op = "close" => j = i
                  /\ i < j /\ replies'[i].result # 0 /\ replies'[j].to.op \in Loads
                       => replies'[j].result = 0
  <2>1. CASE i \in DOMAIN replies
    <3>1. /\ phase = "closing" /\ (replies[i].result # 0 => ~serving)
          /\ \A j \in DOMAIN replies : /\ j < i => Dead(replies[j].to)
                                       /\ replies[j].to.op = "close" => j = i
                                       /\ i < j /\ replies[i].result # 0 /\ replies[j].to.op \in Loads
                                            => replies[j].result = 0
      BY <1>3, <1>6, <2>1 DEF ClosingInv
    <3>2. a.to.op # "close" BY <1>1, <1>3, <1>6, <2>1 DEF ClosingInv
    <3>3. replies'[i].result # 0 /\ a.to.op \in Loads => a.result = 0 BY <1>3, <2>1, <3>1
    <3>4. ASSUME NEW j \in DOMAIN replies', j < i PROVE Dead(replies[j].to)'
      <4>1. j \in DOMAIN replies
        <5>1. i \in Nat /\ i < n BY <1>2, <2>1
        <5>2. QED BY <1>2, <3>4, <5>1
      <4>2. PICK r : r = replies[j].to OBVIOUS
      <4>3. Dead(r)' BY <1>4, <3>1, <3>4, <4>1, <4>2
      <4>4. replies'[j].to = r BY <1>3, <4>1, <4>2
      <4>5. QED BY <4>3, <4>4 DEF Dead, Live
    <3>5. ASSUME NEW j \in DOMAIN replies'
          PROVE  /\ replies'[j].to.op = "close" => j = i
                 /\ i < j /\ replies'[i].result # 0 /\ replies'[j].to.op \in Loads
                      => replies'[j].result = 0
      <4>1. CASE j \in DOMAIN replies BY <1>3, <2>1, <3>1, <4>1
      <4>2. CASE j = n BY <1>2, <3>2, <3>3, <4>2
      <4>3. QED BY <1>2, <4>1, <4>2
    <3>6. replies'[i].result # 0 => ~serving' BY <1>3, <2>1, <3>1
    <3>7. QED BY <3>1, <3>4, <3>5, <3>6
  <2>2. CASE i = n /\ i \notin DOMAIN replies
    <3>1. requests[1].op = "close" BY <1>1, <1>2, <1>6, <2>2
    <3>2. phase = "closing" /\ \A j \in DOMAIN replies : Dead(replies[j].to) /\ replies[j].to.op # "close"
      BY <1>1, <3>1 DEF ClosingInv
    <3>3. ASSUME NEW j \in DOMAIN replies', j < i PROVE Dead(replies[j].to)'
      <4>1. j \in DOMAIN replies BY <1>2, <2>2, <3>3
      <4>2. PICK r : r = replies[j].to OBVIOUS
      <4>3. Dead(r)' BY <1>4, <3>2, <4>1, <4>2
      <4>4. replies'[j].to = r BY <1>3, <4>1, <4>2
      <4>5. QED BY <4>3, <4>4 DEF Dead, Live
    <3>4. ASSUME NEW j \in DOMAIN replies' PROVE j = i \/ (j < i /\ replies'[j].to.op # "close")
      BY <1>2, <1>3, <2>2, <3>2
    <3>5. \A j \in DOMAIN replies' : ~(i < j) BY <1>2, <2>2
    <3>6. QED BY <1>1, <1>2, <1>6, <2>2, <3>2, <3>3, <3>4, <3>5
  <2>3. QED BY <1>2, <2>1, <2>2
<1>7. ASSUME phase' = "closing"
      PROVE  \/ \E i \in DOMAIN requests' : requests'[i].op = "close"
             \/ \E i \in DOMAIN replies' : replies'[i].to.op = "close"
  BY <1>1, <1>2, <1>3, <1>7 DEF ClosingInv
<1>8. ASSUME phase' = "closed"
      PROVE  /\ ~serving'
             /\ \A i \in DOMAIN replies' : replies'[i].to.op \in Loads => replies'[i].result = 0
  BY <1>2, <1>3, <1>8 DEF ClosingInv
<1>9. QED BY <1>5, <1>6, <1>7, <1>8 DEF ClosingInv

\* The answer to the close arrives.
LEMMA ClosingOver ==
  ASSUME WorkerTyped, ClosingInv, replies # <<>>, replies' = Tail(replies), requests' = requests,
         Head(replies).to.op = "close", serving' = serving,
         phase' = IF Head(replies).result = 0 THEN "open" ELSE "closed"
  PROVE  ClosingInv'
<1>1. /\ 1 \in DOMAIN replies /\ Head(replies) = replies[1]
      /\ \A i \in DOMAIN replies' : \E j \in DOMAIN replies : j = i + 1 /\ replies'[i] = replies[j]
      /\ \A i \in DOMAIN replies' : i \in Nat
  BY ArriveIndex
<1>2. \A i \in DOMAIN requests' : requests'[i].op # "close" BY <1>1 DEF ClosingInv
<1>3. ASSUME NEW i \in DOMAIN replies'
      PROVE  /\ replies'[i].to.op # "close"
             /\ replies[1].result # 0 /\ replies'[i].to.op \in Loads => replies'[i].result = 0
  <2>1. PICK j \in DOMAIN replies : j = i + 1 /\ replies'[i] = replies[j] BY <1>1
  <2>2. 1 < j
    <3>1. i \in DOMAIN replies' /\ i \in Nat BY <1>1
    <3>2. replies' \in Seq(Answers) BY ArriveIndex
    <3>3. 1 <= i BY <3>1, <3>2
    <3>4. QED BY <2>1, <3>1, <3>3
  <2>3. QED BY <1>1, <2>1, <2>2 DEF ClosingInv
<1>4. replies[1].result # 0 => ~serving BY <1>1 DEF ClosingInv
<1>5. QED BY <1>1, <1>2, <1>3, <1>4 DEF ClosingInv

\* A close is posted: every load under way has lost its entry.
LEMMA ClosingStarted ==
  ASSUME sequence \in Nat, WorkerTyped, VersionsInv, ClosingInv, phase = "open", phase' = "closing",
         \A p \in Pages : entry'[p].version = 0,
         NEW m \in Questions, m.op = "close", requests' = Append(requests, m), replies' = replies
  PROVE  ClosingInv'
<1>0. m \in Questions \cup Commits /\ Posts(m) BY DEF Posts
<1>1. /\ \A i \in DOMAIN requests : i \in DOMAIN requests' /\ requests'[i] = requests[i]
      /\ \A i \in DOMAIN requests' :
           i \in DOMAIN requests \/ (requests'[i] = m /\ \A j \in DOMAIN requests' : j <= i)
      /\ requests' \in Seq(Questions \cup Commits)
      /\ Range(requests') \subseteq Range(requests) \cup {m}
  BY <1>0, PostIndex
<1>2. requests' # requests
  <2>1. Len(requests') = Len(requests) + 1 /\ Len(requests) \in Nat BY DEF WorkerTyped
  <2>2. QED BY <2>1
<1>3. \E i \in DOMAIN requests' : requests'[i] = m BY <1>0, <1>2, PostIndex
<1>4. /\ \A i \in DOMAIN requests : requests[i].op # "close"
      /\ \A i \in DOMAIN replies : replies[i].to.op # "close"
  BY DEF ClosingInv
<1>5. ASSUME NEW j \in DOMAIN requests' PROVE Dead(requests[j])'
  <2>1. PICK r : r = requests'[j] OBVIOUS
  <2>2. r \in Range(requests) \/ r = m BY <1>1, <2>1 DEF Range
  <2>3. r.op \in Loads => r.page \in Pages /\ r.version # 0
    BY <2>2, LoadsOwned DEF Owned, Loads
  <2>4. QED BY <2>1, <2>3 DEF Dead, Live
<1>6. ASSUME NEW j \in DOMAIN replies' PROVE Dead(replies[j].to)'
  <2>1. PICK a : a = replies'[j] OBVIOUS
  <2>2. a \in Range(replies) BY <2>1 DEF Range
  <2>3. a.to.op \in Loads => a.to.page \in Pages /\ a.to.version # 0 BY <2>2, LoadsOwned DEF Owned
  <2>4. QED BY <2>1, <2>3 DEF Dead, Live
<1>7. ASSUME NEW i \in DOMAIN requests', requests'[i].op = "close",
             NEW j \in DOMAIN requests', requests'[j].op = "close"
      PROVE  j = i
  <2>1. j <= i /\ i <= j BY <1>1, <1>4, <1>7
  <2>2. i \in Nat /\ j \in Nat BY <1>1
  <2>3. QED BY <2>1, <2>2
<1>8. QED BY <1>3, <1>4, <1>5, <1>6, <1>7 DEF ClosingInv

\* A load that succeeds for the entry it began with is of a document that is open.
LEMMA LoadedWhileOpen ==
  ASSUME WorkerTyped, ClosingInv, ClientTyped, replies # <<>>, Head(replies).to.op \in Loads,
         Head(replies).result # 0, Live(Head(replies).to.page, Head(replies).to.version)
  PROVE  phase = "open"
<1>1. 1 \in DOMAIN replies /\ Head(replies) = replies[1] BY DEF WorkerTyped
<1>2. ~Dead(replies[1].to) BY <1>1 DEF Dead
<1>3. \A i \in DOMAIN requests : requests[i].op # "close" BY <1>1, <1>2 DEF ClosingInv
<1>4. ASSUME NEW i \in DOMAIN replies, replies[i].to.op = "close" PROVE FALSE
  <2>1. i # 1 BY <1>1, <1>4 DEF Loads
  <2>2. 1 < i BY <2>1 DEF WorkerTyped
  <2>3. QED BY <1>1, <1>2, <1>4, <2>2 DEF ClosingInv
<1>5. phase # "closing" BY <1>3, <1>4 DEF ClosingInv
<1>6. phase # "closed" BY <1>1 DEF ClosingInv
<1>7. QED BY <1>5, <1>6 DEF ClientTyped

----------------------------------------------------------------------------
(* Part 8: the client asks *)

\* What each of the client's operations on a page amounts to: it may make the page's
\* entry, post a request for it, reorder what is retained, and let a render wait or run.
Asks(p, m) ==
  /\ Grown(p) /\ Posts(m) /\ m \in Questions /\ m.op # "close"
  /\ m.op \in Loads => m.page = p /\ m.version = entry'[p].version
  /\ ModelsKept(models', bytes') /\ Range(models') = Range(models)
  /\ BitmapsKept(bitmaps', pixels') /\ Range(bitmaps') = Range(bitmaps)
  /\ \A k \in waiting' : \/ k \in waiting
                         \/ k \in Keys /\ k.page = p /\ k.version = entry'[p].version /\ k.epoch = epoch
  /\ \/ running' = running /\ m.op # "render"
     \/ /\ running.stage = "idle" /\ m.op # "render"
        /\ running' \in [stage : {"metrics"}, key : waiting]
     \/ /\ running.stage = "idle" /\ m.op = "render" /\ phase = "open"
        /\ running' \in [stage : {"posted"}, key : waiting] /\ m.page = running'.key.page
  /\ UNCHANGED <<workerVars, replies, phase, acked, epoch>>

LEMMA AskingTypes ==
  ASSUME IndInv, NEW p \in Pages, NEW m, Asks(p, m)
  PROVE  TypeInv'
<1>1. ClientTyped /\ WorkerTyped /\ ModelsLive BY DEF IndInv, TypeInv
<1>2. Grown(p) /\ Posts(m) /\ m \in Questions \cup Commits BY DEF Asks
<1>3. ClientTyped'
  <2>1. phase' = phase /\ acked' = acked /\ epoch' = epoch BY DEF Asks
  <2>2. entry' \in [Pages -> Entries(sequence')] /\ sequence' \in Nat BY <1>2 DEF Grown
  <2>3. waiting \subseteq Keys /\ epoch \in 0 .. MaxEpoch BY <1>1 DEF ClientTyped
  <2>4. waiting' \subseteq Keys' BY <2>1, <2>3 DEF Asks, Keys
  <2>5. running' \in {Idle} \cup [stage : {"metrics", "posted"}, key : Keys]
    <3>1. running \in {Idle} \cup [stage : {"metrics", "posted"}, key : Keys] BY <1>1 DEF ClientTyped
    <3>2. \/ running' = running
          \/ running' \in [stage : {"metrics"}, key : waiting]
          \/ running' \in [stage : {"posted"}, key : waiting]
      BY DEF Asks
    <3>3. QED BY <2>3, <3>1, <3>2
  <2>6. QED BY <1>1, <2>1, <2>2, <2>4, <2>5 DEF ClientTyped, Keys
<1>4. WorkerTyped'
  <2>1. requests' \in Seq(Questions \cup Commits) BY <1>1, <1>2, PostIndex
  <2>2. /\ revision' = revision /\ content' = content /\ serving' = serving
        /\ sessionMetrics' = sessionMetrics /\ sessionModels' = sessionModels /\ replies' = replies
    BY DEF Asks, workerVars, sessionVars
  <2>3. QED BY <1>1, <2>1, <2>2 DEF WorkerTyped, Questions, Answers, Commits, Loads
<1>5. ModelsKept(models', bytes') /\ BitmapsKept(bitmaps', pixels') BY DEF Asks
<1>6. ModelsLive'
  <2> SUFFICES ASSUME NEW o \in Range(models) PROVE entry'[o.page].version = o.version
      BY DEF Asks, ModelsLive
  <2>1. o \in Models
    <3>1. models \in Seq(Models) BY DEF IndInv, TypeInv, ModelsKept
    <3>2. QED BY <3>1, RangeFinite
  <2>2. o.page \in Pages /\ o.version # 0 BY <2>1 DEF Models
  <2>3. entry[o.page].version = o.version BY <1>1 DEF ModelsLive
  <2>4. QED BY <1>2, <2>2, <2>3 DEF Grown
<1>7. QED BY <1>1, <1>3, <1>4, <1>5, <1>6 DEF TypeInv, ModelsKept, BitmapsKept

LEMMA AskingVersions ==
  ASSUME IndInv, NEW p \in Pages, NEW m, Asks(p, m)
  PROVE  VersionsInv' /\ VersionStep
<1>1. ClientTyped /\ WorkerTyped /\ VersionsInv /\ Grown(p) BY DEF IndInv, TypeInv, Asks
<1>2. /\ VersionStep /\ Owned(p, entry[p].version)'
      /\ \A q \in Pages : entry'[q].version # 0 => Owned(q, entry[q].version)'
  BY <1>1, GrownIsStep
<1>3. PICK v : v = entry'[p].version OBVIOUS
<1>4. Owned(p, v)' BY <1>2, <1>3 DEF Owned
<1>5. epoch \in Int /\ epoch' = epoch BY <1>1 DEF ClientTyped, Asks
<1>6. ASSUME NEW k \in waiting'
      PROVE  k \in waiting \/ (Owned(k.page, k.version)' /\ k.epoch \in Int /\ k.epoch <= epoch')
  <2>1. CASE k.page = p /\ k.version = v /\ k.epoch = epoch BY <1>4, <1>5, <2>1
  <2>2. QED BY <1>3, <2>1 DEF Asks
<1>7. \/ running'.stage = "idle" \/ running' = running \/ running'.key \in waiting
      \/ running.stage # "idle" /\ running'.key = running.key
  BY DEF Asks
<1>8. Range(requests') \subseteq Range(requests) \cup {m}
  <2>1. m \in Questions \cup Commits /\ Posts(m) BY DEF Asks
  <2>2. QED BY <1>1, <2>1, PostIndex
<1>9. m.op \in Loads => Owned(m.page, m.version)'
  <2>1. m.op \in Loads => m.page = p /\ m.version = v BY <1>3 DEF Asks
  <2>2. QED BY <1>4, <2>1
<1>10. Range(replies') \subseteq Range(replies) /\ Range(bitmaps') = Range(bitmaps) BY DEF Asks
<1>11. VersionsFrom(m)
  BY <1>2, <1>5, <1>6, <1>7, <1>8, <1>9, <1>10 DEF VersionsFrom
<1>12. QED BY <1>1, <1>2, <1>11, VersionsKept

LEMMA AskingRender ==
  ASSUME IndInv, NEW p \in Pages, NEW m, Asks(p, m)
  PROVE  RenderInv'
<1>1. WorkerTyped /\ RenderInv BY DEF IndInv, TypeInv
<1>2. m \in Questions \cup Commits /\ Posts(m) BY DEF Asks
<1>3. Arrives BY DEF Asks, Arrives
<1>4. CASE running' = running /\ m.op # "render" BY <1>1, <1>2, <1>3, <1>4, RenderKept
<1>5. CASE running.stage = "idle" /\ m.op # "render"
  <2>1. NoRender BY <1>1, <1>5, NoneUnderWay
  <2>2. Range(requests') \subseteq Range(requests) \cup {m} BY <1>1, <1>2, PostIndex
  <2>3. NoRender' BY <1>5, <2>1, <2>2 DEF NoRender, Asks
  <2>4. QED BY <2>3, RenderNone
<1>6. CASE /\ running.stage = "idle" /\ m.op = "render"
           /\ running'.stage = "posted" /\ m.page = running'.key.page
  <2>1. NoRender BY <1>1, <1>6, NoneUnderWay
  <2>2. QED BY <1>1, <1>2, <1>3, <1>6, <2>1, RenderPosted
<1>7. QED BY <1>4, <1>5, <1>6 DEF Asks

LEMMA AskingKeeps ==
  ASSUME IndInv, NEW p \in Pages, NEW m, Asks(p, m)
  PROVE  IndInv'
<1>1. /\ ClientTyped /\ WorkerTyped /\ VersionsInv /\ ChainInv /\ SessionInv /\ LoadedInv
      /\ ClosingInv /\ ClosedInv /\ Grown(p) /\ sequence \in Nat
  BY DEF IndInv, TypeInv, Asks, ClientTyped
<1>2. /\ content' = content /\ replies' = replies /\ acked' = acked /\ phase' = phase
      /\ serving' = serving /\ epoch' = epoch
      /\ sessionMetrics' = sessionMetrics /\ sessionModels' = sessionModels
      /\ Range(models') = Range(models) /\ Range(bitmaps') = Range(bitmaps)
  BY DEF Asks, workerVars, sessionVars
<1>3. TypeInv' BY AskingTypes
<1>4. VersionsInv' /\ VersionStep BY AskingVersions
<1>5. RenderInv' BY AskingRender
<1>6. ChainInv'
  <2>1. \A s, q, i, c, now : Follows(s, q, i, c, now)' <=> Follows(s, q, i, c, now)
    BY DEF Follows, Untouched, Touches, Says, IsCommit, Obsolete
  <2>2. QED BY <1>1, <1>2, <2>1 DEF ChainInv, IsCommit
<1>7. SessionInv' BY <1>1, <1>2 DEF SessionInv
<1>8. \A q \in Pages : /\ entry'[q].version # 0 => entry'[q].metrics \in {0, entry[q].metrics}
                       /\ entry'[q].version # 0 /\ entry[q].version = 0 => entry'[q].metrics = 0
  BY <1>1 DEF Grown
<1>9. LoadedInv'
  <2>1. \A q \in Pages : entry'[q].version # 0 => entry'[q].metrics \in {0, acked'[q]}
    BY <1>1, <1>2, <1>8 DEF LoadedInv
  <2>2. \A o \in Range(models') : o.content = acked'[o.page] BY <1>1, <1>2 DEF LoadedInv
  <2>3. ASSUME NEW b \in Range(bitmaps'), b.key.version = entry'[b.page].version
        PROVE  b.content = acked'[b.page]
    <3>1. b.key.version \in 1 .. sequence BY <1>1, <1>2 DEF VersionsInv, Owned
    <3>2. b.page \in Pages
      <4>1. bitmaps \in Seq(Bitmaps) BY DEF IndInv, TypeInv, BitmapsKept
      <4>2. b \in Bitmaps BY <1>2, <4>1, RangeFinite
      <4>3. QED BY <4>2 DEF Bitmaps
    <3>3. entry'[b.page].version \in {0, entry[b.page].version, sequence + 1}
      BY <1>4, <3>2 DEF VersionStep
    <3>4. b.key.version = entry[b.page].version BY <1>1, <2>3, <3>1, <3>3
    <3>5. QED BY <1>1, <1>2, <3>4 DEF LoadedInv
  <2>4. QED BY <2>1, <2>2, <2>3 DEF LoadedInv
<1>10. ClosingInv'
  <2>1. m \in Questions \cup Commits /\ Posts(m) /\ m.op # "close" BY DEF Asks
  <2>2. Arrives /\ replies' = replies BY <1>2 DEF Arrives
  <2>3. QED BY <1>1, <1>2, <1>4, <2>1, <2>2, ClosingKept
<1>11. ClosedInv'
  <2> SUFFICES ASSUME phase # "open"
               PROVE  /\ models' = <<>> /\ bitmaps' = <<>>
                      /\ \A q \in Pages : entry'[q].version # 0 => entry'[q].metrics = 0
                      /\ running'.stage = "posted" => running'.key.epoch < epoch'
      BY <1>2 DEF ClosedInv
  <2>1. models = <<>> /\ bitmaps = <<>> BY <1>1 DEF ClosedInv
  <2>2. Range(<<>>) = {} BY DEF Range
  <2>3. models' \in Seq(Models) /\ bitmaps' \in Seq(Bitmaps)
    BY DEF Asks, ModelsKept, BitmapsKept
  <2>5. models' = <<>> /\ bitmaps' = <<>> BY <1>2, <2>1, <2>2, <2>3, EmptyRange
  <2>6. \A q \in Pages : entry'[q].version # 0 => entry'[q].metrics = 0
    BY <1>1, <1>8 DEF ClosedInv
  <2>7. running'.stage = "posted" => running' = running BY DEF Asks
  <2>8. QED BY <1>1, <1>2, <2>5, <2>6, <2>7 DEF ClosedInv
<1>12. QED BY <1>3, <1>4, <1>5, <1>6, <1>7, <1>9, <1>10, <1>11 DEF IndInv

\* The request for a load of a page that has an entry.
LEMMA LoadQuestion ==
  ASSUME NEW p \in Pages, ClientTyped, Grown(p), NEW op \in Loads
  PROVE  [op |-> op, page |-> p, version |-> entry'[p].version] \in Questions
<1>1. entry[p].version \in Nat /\ sequence \in Nat BY DEF ClientTyped, Entries
<1>2. entry'[p].version \in Nat \ {0} BY <1>1 DEF Grown
<1>3. QED BY <1>2 DEF Questions

\* An operation that leaves the lane alone, and no more than reorders what is retained.
LEMMA AskingLoads ==
  ASSUME IndInv, NEW p \in Pages, Grown(p), NEW op \in Loads,
         Posts([op |-> op, page |-> p, version |-> entry'[p].version]),
         ModelsKept(models', bytes'), Range(models') = Range(models),
         BitmapsKept(bitmaps', pixels'), Range(bitmaps') = Range(bitmaps),
         \A k \in waiting' : \/ k \in waiting
                             \/ k \in Keys /\ k.page = p /\ k.version = entry'[p].version /\ k.epoch = epoch,
         \/ running' = running
         \/ running.stage = "idle" /\ running' \in [stage : {"metrics"}, key : waiting],
         UNCHANGED <<workerVars, replies, phase, acked, epoch>>
  PROVE  \E m : Asks(p, m)
<1>1. PICK m : m = [op |-> op, page |-> p, version |-> entry'[p].version] OBVIOUS
<1>2. m \in Questions BY <1>1, LoadQuestion DEF IndInv, TypeInv
<1>3. m.op = op /\ m.page = p /\ m.version = entry'[p].version /\ op # "close" /\ op # "render"
  BY <1>1 DEF Loads
<1>4. Asks(p, m) BY <1>1, <1>2, <1>3 DEF Asks
<1>5. QED BY <1>4

LEMMA ReadVersionAsks ==
  ASSUME IndInv, NEW p \in Pages, ReadVersion(p)
  PROVE  \E m : Asks(p, m)
<1>1. entry \in [Pages -> Entries(sequence)] /\ sequence \in Nat BY DEF IndInv, TypeInv, ClientTyped
<1>2. Touch(p) /\ entry' = Entered(p) BY DEF ReadVersion
<1>3. Grown(p) BY <1>1, <1>2, Growing
<1>4. /\ models' = models /\ bytes' = bytes /\ bitmaps' = bitmaps /\ pixels' = pixels
      /\ waiting' = waiting /\ running' = running /\ requests' = requests
      /\ UNCHANGED <<workerVars, replies, phase, acked, epoch>>
  BY DEF ReadVersion, rasterVars
<1>5. ModelsKept(models', bytes') /\ BitmapsKept(bitmaps', pixels') BY <1>4 DEF IndInv, TypeInv
<1>6. Posts([op |-> "metrics", page |-> p, version |-> entry'[p].version]) BY <1>4 DEF Posts
<1>7. "metrics" \in Loads BY DEF Loads
<1>8. QED BY <1>3, <1>4, <1>5, <1>6, <1>7, AskingLoads

\* What LoadMetrics does, on its own and for a render.
LEMMA LoadingMetrics ==
  ASSUME IndInv, NEW p \in Pages, LoadMetrics(p)
  PROVE  Grown(p) /\ Posts([op |-> "metrics", page |-> p, version |-> entry'[p].version])
<1>1. entry \in [Pages -> Entries(sequence)] /\ sequence \in Nat BY DEF IndInv, TypeInv, ClientTyped
<1> DEFINE e == Entered(p)[p]
           ask == e.metrics = 0 /\ ~e.metricsPending
<1>2. Touch(p) /\ entry' = [Entered(p) EXCEPT ![p].metricsPending = @ \/ ask] BY DEF LoadMetrics
<1>3. ask \in BOOLEAN OBVIOUS
<1>4. requests' = requests \/ Send([op |-> "metrics", page |-> p, version |-> e.version])
  BY DEF LoadMetrics
<1> HIDE DEF ask
<1>5. Grown(p) /\ entry'[p].version = e.version BY <1>1, <1>2, <1>3, Growing
<1>6. QED BY <1>4, <1>5 DEF Posts, Send

LEMMA DescribeMetricsAsks ==
  ASSUME IndInv, NEW p \in Pages, DescribeMetrics(p)
  PROVE  \E m : Asks(p, m)
<1>1. LoadMetrics(p) BY DEF DescribeMetrics
<1>2. Grown(p) /\ Posts([op |-> "metrics", page |-> p, version |-> entry'[p].version])
  BY <1>1, LoadingMetrics
<1>3. /\ models' = models /\ bytes' = bytes /\ bitmaps' = bitmaps /\ pixels' = pixels
      /\ waiting' = waiting /\ running' = running
      /\ UNCHANGED <<workerVars, replies, phase, acked, epoch>>
  BY DEF DescribeMetrics, rasterVars
<1>4. ModelsKept(models', bytes') /\ BitmapsKept(bitmaps', pixels') BY <1>3 DEF IndInv, TypeInv
<1>5. "metrics" \in Loads BY DEF Loads
<1>6. QED BY <1>2, <1>3, <1>4, <1>5, AskingLoads

\* A model or bitmap that is used again moves to the end of its queue.
LEMMA ModelsMoved ==
  ASSUME NEW s, NEW total, ModelsKept(s, total), NEW M \in SUBSET Range(s),
         NEW t, t = Only(s, Range(s) \ M) \o Only(s, M)
  PROVE  ModelsKept(t, total) /\ Range(t) = Range(s)
<1>1. s \in Seq(Models) /\ Once(s) BY DEF ModelsKept
<1>2. t \in Seq(Models) /\ Once(t) /\ Range(t) = Range(s) /\ Len(t) = Len(s)
  BY <1>1, MovedToTheEnd
<1>3. QED BY <1>2 DEF ModelsKept

LEMMA BitmapsMoved ==
  ASSUME NEW s, NEW total, BitmapsKept(s, total), NEW B \in SUBSET Range(s),
         NEW t, t = Only(s, Range(s) \ B) \o Only(s, B)
  PROVE  BitmapsKept(t, total) /\ Range(t) = Range(s)
<1>1. s \in Seq(Bitmaps) /\ Once(s) BY DEF BitmapsKept
<1>2. t \in Seq(Bitmaps) /\ Once(t) /\ Range(t) = Range(s)
  BY <1>1, MovedToTheEnd
<1>3. QED BY <1>2 DEF BitmapsKept

LEMMA DescribePageAsks ==
  ASSUME IndInv, NEW p \in Pages, DescribePage(p)
  PROVE  \E m : Asks(p, m)
<1>1. entry \in [Pages -> Entries(sequence)] /\ sequence \in Nat BY DEF IndInv, TypeInv, ClientTyped
<1>2. ModelsKept(models, bytes) /\ BitmapsKept(bitmaps, pixels) BY DEF IndInv, TypeInv
<1>3. PICK v, M : v = Entered(p)[p].version /\ M = ModelsOf(v) OBVIOUS
<1>4. M \in SUBSET Range(models) BY <1>3 DEF ModelsOf
<1>5. /\ Touch(p) /\ bytes' = bytes /\ bitmaps' = bitmaps /\ pixels' = pixels
      /\ waiting' = waiting /\ running' = running
      /\ UNCHANGED <<workerVars, replies, phase, acked, epoch>>
  BY DEF DescribePage, rasterVars
<1>6. \/ /\ models' = Only(models, Range(models) \ M) \o Only(models, M)
         /\ entry' = Entered(p) /\ requests' = requests
      \/ /\ Send([op |-> "model", page |-> p, version |-> v])
         /\ entry' = [Entered(p) EXCEPT ![p].pending = TRUE] /\ models' = models
  BY <1>3 DEF DescribePage
<1>7. Grown(p) /\ entry'[p].version = v BY <1>1, <1>3, <1>5, <1>6, Growing
<1>8. Posts([op |-> "model", page |-> p, version |-> entry'[p].version])
  BY <1>6, <1>7 DEF Posts, Send
<1>9. ModelsKept(models', bytes') /\ Range(models') = Range(models)
  <2>1. CASE models' = models BY <1>2, <1>5, <2>1
  <2>2. CASE models' = Only(models, Range(models) \ M) \o Only(models, M)
    BY <1>2, <1>4, <1>5, <2>2, ModelsMoved
  <2>3. QED BY <1>6, <2>1, <2>2
<1>10. BitmapsKept(bitmaps', pixels') BY <1>2, <1>5
<1>11. "model" \in Loads BY DEF Loads
<1>12. QED BY <1>5, <1>7, <1>8, <1>9, <1>10, <1>11, AskingLoads

LEMMA RequestBitmapAsks ==
  ASSUME IndInv, NEW p \in Pages, NEW s \in Scales, RequestBitmap(p, s)
  PROVE  \E m : Asks(p, m)
<1>1. /\ entry \in [Pages -> Entries(sequence)] /\ sequence \in Nat /\ epoch \in 0 .. MaxEpoch
  BY DEF IndInv, TypeInv, ClientTyped
<1>2. ModelsKept(models, bytes) /\ BitmapsKept(bitmaps, pixels) BY DEF IndInv, TypeInv
<1>3. PICK k, B : /\ k = Key(p, s, Entered(p)[p].version) 
                  /\ B = {b \in Range(bitmaps) : b.key = k}
  OBVIOUS
<1>4. B \in SUBSET Range(bitmaps) BY <1>3
<1>5. /\ Touch(p) /\ entry' = Entered(p) /\ models' = models /\ bytes' = bytes /\ pixels' = pixels
      /\ requests' = requests /\ running' = running
      /\ UNCHANGED <<workerVars, replies, phase, acked, epoch>>
  BY DEF RequestBitmap
<1>6. \/ /\ bitmaps' = Only(bitmaps, Range(bitmaps) \ B) \o Only(bitmaps, B)
         /\ waiting' = waiting
      \/ waiting' \in {waiting, waiting \cup {k}} /\ bitmaps' = bitmaps
  BY <1>3 DEF RequestBitmap
<1>7. Grown(p) BY <1>1, <1>5, Growing
<1>8. k \in Keys /\ k.page = p /\ k.version = entry'[p].version /\ k.epoch = epoch
  <2>1. k = [page |-> p, scale |-> s, version |-> entry'[p].version, epoch |-> epoch]
    BY <1>3, <1>5 DEF Key
  <2>2. entry[p].version \in Nat BY <1>1 DEF Entries
  <2>3. entry'[p].version \in Nat \ {0} BY <1>1, <1>7, <2>2 DEF Grown
  <2>4. QED BY <1>1, <2>1, <2>3 DEF Keys
<1>9. BitmapsKept(bitmaps', pixels') /\ Range(bitmaps') = Range(bitmaps)
  <2>1. CASE bitmaps' = bitmaps BY <1>2, <1>5, <2>1
  <2>2. CASE bitmaps' = Only(bitmaps, Range(bitmaps) \ B) \o Only(bitmaps, B)
    BY <1>2, <1>4, <1>5, <2>2, BitmapsMoved
  <2>3. QED BY <1>6, <2>1, <2>2
<1>10. \A l \in waiting' : l \in waiting \/ l = k BY <1>6
<1>11. ModelsKept(models', bytes') BY <1>2, <1>5
<1>12. Posts([op |-> "metrics", page |-> p, version |-> entry'[p].version]) BY <1>5 DEF Posts
<1>13. "metrics" \in Loads BY DEF Loads
<1>14. QED BY <1>5, <1>7, <1>8, <1>9, <1>10, <1>11, <1>12, <1>13, AskingLoads

LEMMA StartRenderAsks ==
  ASSUME IndInv, NEW k \in waiting, StartRender(k)
  PROVE  k.page \in Pages /\ \E m : Asks(k.page, m)
<1>1. /\ entry \in [Pages -> Entries(sequence)] /\ sequence \in Nat /\ waiting \subseteq Keys
      /\ VersionsInv /\ ClosedInv
  BY DEF IndInv, TypeInv, ClientTyped
<1>2. ModelsKept(models, bytes) /\ BitmapsKept(bitmaps, pixels) BY DEF IndInv, TypeInv
<1>3. PICK p \in Pages : p = k.page BY <1>1 DEF Keys
<1>4. /\ running.stage = "idle" /\ waiting' \subseteq waiting
      /\ models' = models /\ bytes' = bytes /\ pixels' = pixels /\ bitmaps' = bitmaps
      /\ UNCHANGED <<workerVars, replies, phase, acked, epoch>>
  BY DEF StartRender
<1>5. ModelsKept(models', bytes') /\ BitmapsKept(bitmaps', pixels') BY <1>2, <1>4
<1>6. "metrics" \in Loads BY DEF Loads
<1>7. CASE Current(k) /\ entry[p].metrics = 0
  <2>1. LoadMetrics(p) /\ running' = [stage |-> "metrics", key |-> k]
    BY <1>3, <1>7 DEF StartRender
  <2>2. Grown(p) /\ Posts([op |-> "metrics", page |-> p, version |-> entry'[p].version])
    BY <2>1, LoadingMetrics
  <2>3. running' \in [stage : {"metrics"}, key : waiting] BY <2>1
  <2>4. \E m : Asks(p, m) BY <1>4, <1>5, <1>6, <2>2, <2>3, AskingLoads
  <2>5. QED BY <1>3, <2>4
<1>8. CASE Current(k) /\ entry[p].metrics # 0
  <2>1. entry' = entry /\ sequence' = sequence BY <1>3, <1>8 DEF StartRender
  <2>2. entry[p].version # 0
    <3>1. k.version \in 1 .. sequence BY <1>1 DEF VersionsInv, Owned
    <3>2. entry[p].version = 0 => Entered(p)[p].version = sequence + 1
      BY <1>1 DEF Entered, NoEntry
    <3>3. Entered(p)[p].version = k.version BY <1>3, <1>8 DEF Current
    <3>4. QED BY <1>1, <3>1, <3>2, <3>3
  <2>3. Grown(p) BY <1>1, <2>1, <2>2 DEF Grown
  <2>4. CASE Send([op |-> "render", page |-> p]) /\ running' = [stage |-> "posted", key |-> k]
    <3>1. PICK m : m = [op |-> "render", page |-> p] OBVIOUS
    <3>2. m \in Questions /\ m.op = "render" /\ m.page = p /\ Posts(m)
      BY <2>4, <3>1 DEF Questions, Posts, Send
    <3>3. m.op # "close" /\ m.op \notin Loads BY <3>2 DEF Loads
    <3>4. phase = "open" BY <1>1, <1>8, <2>2 DEF ClosedInv
    <3>5. running' \in [stage : {"posted"}, key : waiting] /\ m.page = running'.key.page
      BY <1>3, <2>4, <3>2
    <3>6. Asks(p, m) BY <1>4, <1>5, <2>3, <3>2, <3>3, <3>4, <3>5 DEF Asks
    <3>7. QED BY <1>3, <3>6
  <2>5. CASE running' = running /\ requests' = requests
    <3>1. Posts([op |-> "metrics", page |-> p, version |-> entry'[p].version]) BY <2>5 DEF Posts
    <3>2. \E m : Asks(p, m) BY <1>4, <1>5, <1>6, <2>3, <2>5, <3>1, AskingLoads
    <3>3. QED BY <1>3, <3>2
  <2>6. QED BY <1>3, <1>8, <2>4, <2>5 DEF StartRender
<1>9. CASE ~Current(k)
  <2>1. Touch(p) /\ entry' = Entered(p) /\ running' = running /\ requests' = requests
    BY <1>3, <1>9 DEF StartRender
  <2>2. Grown(p) BY <1>1, <2>1, Growing
  <2>3. Posts([op |-> "metrics", page |-> p, version |-> entry'[p].version]) BY <2>1 DEF Posts
  <2>4. \E m : Asks(p, m) BY <1>4, <1>5, <1>6, <2>1, <2>2, <2>3, AskingLoads
  <2>5. QED BY <1>3, <2>4
<1>10. QED BY <1>7, <1>8, <1>9

\* Nothing that LoadedInv and ClosedInv speak of changes, or of it only the pixels go.
LEMMA CommitKeeps ==
  ASSUME IndInv, NEW changed \in SUBSET Pages, NEW after \in SUBSET Pages, Commit(changed, after)
  PROVE  IndInv'
<1>1. PICK m : m = [op |-> "commit", changed |-> changed, after |-> after] OBVIOUS
<1>2. m \in Questions \cup Commits /\ m.op = "commit" BY <1>1 DEF Commits
<1>3. /\ requests' = Append(requests, m)
      /\ UNCHANGED <<workerVars, replies, phase, acked, pageVars, rasterVars>>
  BY <1>1 DEF Commit, Send
<1>4. Posts(m) /\ Arrives BY <1>3 DEF Posts, Arrives
<1>5. /\ ClientTyped /\ WorkerTyped /\ VersionsInv /\ RenderInv /\ ChainInv /\ SessionInv /\ LoadedInv
      /\ ClosingInv /\ ClosedInv /\ ModelsLive
      /\ ModelsKept(models, bytes) /\ BitmapsKept(bitmaps, pixels) /\ sequence \in Nat
  BY DEF IndInv, TypeInv, ClientTyped
<1>6. /\ revision' = revision /\ content' = content /\ serving' = serving
      /\ sessionMetrics' = sessionMetrics /\ sessionModels' = sessionModels
      /\ replies' = replies /\ phase' = phase /\ acked' = acked
      /\ entry' = entry /\ sequence' = sequence /\ models' = models /\ bytes' = bytes
      /\ waiting' = waiting /\ running' = running /\ bitmaps' = bitmaps /\ pixels' = pixels
      /\ epoch' = epoch
  BY <1>3 DEF workerVars, sessionVars, pageVars, rasterVars
<1>7. requests' \in Seq(Questions \cup Commits) /\ Range(requests') \subseteq Range(requests) \cup {m}
  BY <1>2, <1>4, <1>5, PostIndex
<1>8. VersionStep
  BY <1>5, <1>6 DEF VersionStep
<1>9. TypeInv'
  <2>1. ClientTyped' BY <1>5, <1>6 DEF ClientTyped
  <2>2. WorkerTyped' BY <1>5, <1>6, <1>7 DEF WorkerTyped
  <2>3. ModelsKept(models', bytes') /\ BitmapsKept(bitmaps', pixels') BY <1>5, <1>6
  <2>4. ModelsLive' BY <1>5, <1>6 DEF ModelsLive
  <2>5. QED BY <2>1, <2>2, <2>3, <2>4 DEF TypeInv, ModelsKept, BitmapsKept
<1>10. VersionsInv'
  <2>1. epoch \in Int /\ epoch <= epoch' BY <1>5, <1>6 DEF ClientTyped
  <2>2. \A q \in Pages : entry'[q].version # 0 => Owned(q, entry[q].version)'
    BY <1>5, <1>6 DEF VersionsInv, Owned
  <2>3. m.op \notin Loads BY <1>2 DEF Loads
  <2>4. VersionsFrom(m) BY <1>6, <1>7, <1>8, <2>1, <2>2, <2>3 DEF VersionsFrom
  <2>5. QED BY <1>5, <2>4, VersionsKept
<1>11. RenderInv' BY <1>2, <1>4, <1>5, <1>6, RenderKept
<1>12. ChainInv' BY <1>5, <1>6 DEF ChainInv, IsCommit
<1>13. SessionInv' /\ LoadedInv' BY <1>5, <1>6 DEF SessionInv, LoadedInv
<1>14. ClosingInv' BY <1>2, <1>4, <1>5, <1>6, <1>8, ClosingKept
<1>15. ClosedInv' BY <1>5, <1>6 DEF ClosedInv
<1>16. QED BY <1>9, <1>10, <1>11, <1>12, <1>13, <1>14, <1>15 DEF IndInv

\* clear leaves nothing, and no pixels.
LEMMA Clearing ==
  ASSUME IndInv, epoch < MaxEpoch, Clear
  PROVE  /\ bitmaps' = <<>> /\ Range(bitmaps') = {} /\ BitmapsKept(bitmaps', pixels')
         /\ epoch' \in 0 .. MaxEpoch /\ epoch \in Int /\ epoch <= epoch' /\ epoch < epoch'
<1>1. BitmapsKept(bitmaps, pixels) /\ epoch \in 0 .. MaxEpoch BY DEF IndInv, TypeInv, ClientTyped
<1>2. bitmaps' = <<>> /\ epoch' = epoch + 1 /\ pixels' = pixels - PixelSum(Range(bitmaps))
  BY DEF Clear
<1>3. pixels = PixelSum(Range(bitmaps)) /\ pixels \in Nat
  <2>1. bitmaps \in Seq(Bitmaps) /\ pixels = PixelSum(Range(bitmaps)) BY <1>1 DEF BitmapsKept
  <2>2. PICK B : B = Range(bitmaps) OBVIOUS
  <2>3. IsFiniteSet(B) /\ B \in SUBSET Bitmaps BY <2>1, <2>2, RangeFinite
  <2>4. PixelSum(B) \in Nat BY <2>3, PixelSumIs
  <2>5. QED BY <2>1, <2>2, <2>4
<1>4. pixels' = 0 BY <1>2, <1>3
<1>5. epoch' \in 0 .. MaxEpoch /\ epoch <= epoch' /\ epoch < epoch' BY <1>1, <1>2, Limits
<1>6. BitmapsKept(bitmaps', pixels') BY <1>2, <1>4, NothingKept
<1>7. QED BY <1>1, <1>2, <1>5, <1>6 DEF Range

LEMMA ClearBitmapsKeeps == ASSUME IndInv, ClearBitmaps PROVE IndInv'
<1>1. /\ bitmaps' = <<>> /\ Range(bitmaps') = {} /\ BitmapsKept(bitmaps', pixels')
      /\ epoch' \in 0 .. MaxEpoch /\ epoch \in Int /\ epoch <= epoch' /\ epoch < epoch'
  BY Clearing DEF ClearBitmaps
<1>2. /\ ClientTyped /\ WorkerTyped /\ VersionsInv /\ RenderInv /\ ChainInv /\ SessionInv /\ LoadedInv
      /\ ClosingInv /\ ClosedInv /\ ModelsLive /\ ModelsKept(models, bytes) /\ sequence \in Nat
  BY DEF IndInv, TypeInv, ClientTyped
<1>3. /\ revision' = revision /\ content' = content /\ serving' = serving
      /\ sessionMetrics' = sessionMetrics /\ sessionModels' = sessionModels
      /\ requests' = requests /\ replies' = replies /\ phase' = phase /\ acked' = acked
      /\ entry' = entry /\ sequence' = sequence /\ models' = models /\ bytes' = bytes
      /\ waiting' = waiting /\ running' = running
  BY DEF ClearBitmaps, workerVars, sessionVars, pageVars
<1>4. VersionStep BY <1>2, <1>3 DEF VersionStep
<1>5. TypeInv'
  <2>1. ClientTyped' BY <1>1, <1>2, <1>3 DEF ClientTyped
  <2>2. WorkerTyped' BY <1>2, <1>3 DEF WorkerTyped
  <2>3. ModelsKept(models', bytes') BY <1>2, <1>3
  <2>4. ModelsLive' BY <1>2, <1>3 DEF ModelsLive
  <2>5. QED BY <1>1, <2>1, <2>2, <2>3, <2>4 DEF TypeInv, ModelsKept, BitmapsKept
<1>6. VersionsInv'
  <2>1. \A q \in Pages : entry'[q].version # 0 => Owned(q, entry[q].version)'
    BY <1>2, <1>3 DEF VersionsInv, Owned
  <2>2. PICK m : m = [op |-> "close"] OBVIOUS
  <2>3. m.op \notin Loads BY <2>2 DEF Loads
  <2>4. epoch' \in Int BY <1>1
  <2>5. VersionsFrom(m) BY <1>1, <1>3, <1>4, <2>1, <2>3, <2>4 DEF VersionsFrom
  <2>6. QED BY <1>2, <2>5, VersionsKept
<1>7. RenderInv' BY <1>2, <1>3 DEF RenderInv
<1>8. ChainInv' BY <1>2, <1>3 DEF ChainInv, IsCommit
<1>9. SessionInv' /\ LoadedInv' BY <1>1, <1>2, <1>3 DEF SessionInv, LoadedInv
<1>10. ClosingInv'
  <2>1. \A m : Dead(m)' <=> Dead(m) BY <1>3 DEF Dead, Live
  <2>2. QED BY <1>2, <1>3, <2>1 DEF ClosingInv, Dead, Live
<1>11. ClosedInv'
  <2>1. running.stage = "posted" => running.key.epoch \in Int
    BY <1>2 DEF ClientTyped, Idle, Keys
  <2>2. QED BY <1>1, <1>2, <1>3, <2>1 DEF ClosedInv
<1>12. QED BY <1>5, <1>6, <1>7, <1>8, <1>9, <1>10, <1>11 DEF IndInv

LEMMA CloseKeeps == ASSUME IndInv, Close PROVE IndInv'
<1>1. /\ bitmaps' = <<>> /\ Range(bitmaps') = {} /\ BitmapsKept(bitmaps', pixels')
      /\ epoch' \in 0 .. MaxEpoch /\ epoch \in Int /\ epoch <= epoch' /\ epoch < epoch'
  BY Clearing DEF Close
<1>2. /\ TypeInv /\ ClientTyped /\ WorkerTyped /\ VersionsInv /\ RenderInv /\ ChainInv /\ SessionInv
      /\ LoadedInv /\ ClosingInv /\ ClosedInv /\ sequence \in Nat
  BY DEF IndInv, TypeInv, ClientTyped
<1>3. /\ revision' = revision /\ content' = content /\ serving' = serving
      /\ sessionMetrics' = sessionMetrics /\ sessionModels' = sessionModels
      /\ replies' = replies /\ acked' = acked /\ sequence' = sequence
      /\ waiting' = waiting /\ running' = running /\ phase = "open" /\ phase' = "closing"
  BY DEF Close, workerVars, sessionVars
<1>4. PICK P \in SUBSET Pages : P = {p \in Pages : entry[p].version # 0} OBVIOUS
<1>5. Forget(P) BY <1>4 DEF Close
<1>6. /\ entry' \in [Pages -> Entries(sequence')]
      /\ \A q \in P : entry'[q].version = 0 /\ entry'[q].metrics = 0
      /\ \A q \in Pages \ P : entry'[q] = entry[q]
      /\ ModelsKept(models', bytes') /\ ModelsLive'
      /\ Range(models') = {m \in Range(models) : m.page \notin P}
  BY <1>2, <1>3, <1>5, Forgetting
<1>7. \A q \in Pages : entry'[q].version = 0 BY <1>4, <1>6
<1>8. models' = <<>>
  <2>1. \A o \in Range(models') : FALSE
    <3> SUFFICES ASSUME NEW o \in Range(models') PROVE FALSE OBVIOUS
    <3>1. models' \in Seq(Models) BY <1>6 DEF ModelsKept
    <3>2. o.page \in Pages /\ o.version # 0
      <4>1. o \in Models BY <3>1, RangeFinite
      <4>2. QED BY <4>1 DEF Models
    <3>3. entry'[o.page].version = o.version BY <1>6 DEF ModelsLive
    <3>4. QED BY <1>7, <3>2, <3>3
  <2>2. QED BY <1>6, <2>1, EmptyRange DEF ModelsKept
<1>9. PICK m : m = [op |-> "close"] OBVIOUS
<1>10. m \in Questions /\ m.op = "close" /\ requests' = Append(requests, m)
  BY <1>9 DEF Questions, Close, Send
<1>11. m \in Questions \cup Commits /\ Posts(m) /\ m.op # "render" /\ m.op \notin Loads /\ Arrives
  BY <1>3, <1>10 DEF Posts, Loads, Arrives
<1>12. requests' \in Seq(Questions \cup Commits) /\ Range(requests') \subseteq Range(requests) \cup {m}
  BY <1>2, <1>11, PostIndex
<1>13. VersionStep
  <2>1. \A q \in Pages : entry'[q].version = 0 BY <1>7
  <2>2. QED BY <1>2, <1>3, <2>1 DEF VersionStep
<1>14. TypeInv'
  <2>1. ClientTyped' BY <1>1, <1>2, <1>3, <1>6 DEF ClientTyped
  <2>2. WorkerTyped' BY <1>2, <1>3, <1>12 DEF WorkerTyped
  <2>3. QED BY <1>1, <1>6, <2>1, <2>2 DEF TypeInv, ModelsKept, BitmapsKept
<1>15. VersionsInv'
  <2>1. epoch' \in Int BY <1>1
  <2>2. \A q \in Pages : entry'[q].version # 0 => Owned(q, entry[q].version)' BY <1>7
  <2>3. VersionsFrom(m) BY <1>1, <1>3, <1>11, <1>12, <1>13, <2>1, <2>2 DEF VersionsFrom
  <2>4. QED BY <1>2, <2>3, VersionsKept
<1>16. RenderInv' BY <1>2, <1>3, <1>11, RenderKept
<1>17. ChainInv' BY <1>2, <1>3 DEF ChainInv, IsCommit
<1>18. SessionInv' BY <1>2, <1>3 DEF SessionInv
<1>19. LoadedInv'
  <2>1. Range(models') = {} BY <1>8 DEF Range
  <2>2. QED BY <1>1, <1>7, <2>1 DEF LoadedInv
<1>20. ClosingInv' BY <1>2, <1>3, <1>7, <1>10, ClosingStarted
<1>21. ClosedInv'
  <2>1. running'.stage = "posted" => running'.key.epoch < epoch'
    <3> SUFFICES ASSUME running.stage = "posted" PROVE running.key.epoch < epoch' BY <1>3
    <3>1. running.key.epoch <= epoch BY <1>2 DEF VersionsInv
    <3>2. running.key.epoch \in Int BY <1>2 DEF ClientTyped, Idle, Keys
    <3>3. epoch' \in Int BY <1>1
    <3>4. QED BY <1>1, <3>1, <3>2, <3>3
  <2>2. QED BY <1>1, <1>7, <1>8, <2>1 DEF ClosedInv
<1>22. QED BY <1>14, <1>15, <1>16, <1>17, <1>18, <1>19, <1>20, <1>21 DEF IndInv

----------------------------------------------------------------------------
(* Part 9: the worker answers *)

\* What the worker's answers have in common: they are honest, and say nothing of a
\* document that is closed.
Serves(a) ==
  /\ a \in Answers /\ Answered(a)
  /\ revision' \in Nat /\ content' \in [Pages -> Nat \ {0}] /\ serving' \in BOOLEAN
  /\ sessionMetrics' \in [Pages -> Nat] /\ sessionModels' \in [Pages -> Nat] /\ SessionInv'
  /\ \A p \in Pages : Honest(a, p, content[p], content'[p])
  /\ IsCommit(a) => \A p \in Pages : a.contents[p] = content'[p]
  /\ serving' => serving
  /\ a.to.op \in Loads /\ a.result # 0 => serving
  /\ a.to.op = "close" /\ a.result # 0 => ~serving'
  /\ UNCHANGED <<phase, acked, pageVars, rasterVars>>

LEMMA ServingKeeps == ASSUME IndInv, NEW a, Serves(a) PROVE IndInv'
<1>1. /\ ClientTyped /\ WorkerTyped /\ VersionsInv /\ RenderInv /\ ChainInv /\ LoadedInv
      /\ ClosingInv /\ ClosedInv /\ ModelsLive
      /\ ModelsKept(models, bytes) /\ BitmapsKept(bitmaps, pixels)
  BY DEF IndInv, TypeInv
<1>2. /\ phase' = phase /\ acked' = acked /\ entry' = entry /\ sequence' = sequence
      /\ models' = models /\ bytes' = bytes /\ waiting' = waiting /\ running' = running
      /\ bitmaps' = bitmaps /\ pixels' = pixels /\ epoch' = epoch
  BY DEF Serves, pageVars, rasterVars
<1>3. a \in Answers /\ Answered(a) BY DEF Serves
<1>4. /\ requests' \in Seq(Questions \cup Commits) /\ Range(requests') \subseteq Range(requests)
      /\ a.to \in Range(requests)
      /\ replies' \in Seq(Answers) /\ Range(replies') = Range(replies) \cup {a}
  BY <1>1, <1>3, AnsweredIndex
<1>5. TypeInv'
  <2>1. ClientTyped' BY <1>1, <1>2 DEF ClientTyped
  <2>2. WorkerTyped' BY <1>4 DEF WorkerTyped, Serves
  <2>3. ModelsKept(models', bytes') /\ BitmapsKept(bitmaps', pixels') BY <1>1, <1>2
  <2>4. ModelsLive' BY <1>1, <1>2 DEF ModelsLive
  <2>5. QED BY <2>1, <2>2, <2>3, <2>4 DEF TypeInv, ModelsKept, BitmapsKept
<1>6. VersionsInv'
  <2>1. \A p, v : Owned(p, v)' <=> Owned(p, v) BY <1>2 DEF Owned
  <2>2. QED BY <1>1, <1>2, <1>4, <2>1 DEF VersionsInv, Owned
<1>7. RenderInv' BY <1>1, <1>2, <1>3, RenderAnswered
<1>8. ChainInv'
  <2>1. replies' = Append(replies, a) BY <1>3 DEF Answered
  <2>2. /\ \A p \in Pages : Honest(a, p, content[p], content'[p])
        /\ IsCommit(a) => \A p \in Pages : a.contents[p] = content'[p]
    BY DEF Serves
  <2>3. QED BY <1>1, <1>2, <1>3, <2>1, <2>2, ChainAppend
<1>9. SessionInv' BY DEF Serves
<1>10. LoadedInv' BY <1>1, <1>2 DEF LoadedInv
<1>11. ClosingInv'
  <2>1. /\ serving' => serving
        /\ a.to.op \in Loads /\ a.result # 0 => serving
        /\ a.to.op = "close" /\ a.result # 0 => ~serving'
    BY DEF Serves
  <2>2. QED BY <1>1, <1>2, <1>3, <2>1, ClosingAnswered
<1>12. ClosedInv' BY <1>1, <1>2 DEF ClosedInv
<1>13. QED BY <1>5, <1>6, <1>7, <1>8, <1>9, <1>10, <1>11, <1>12 DEF IndInv

\* The first request is one of the two kinds.
LEMMA FirstRequest ==
  ASSUME WorkerTyped, requests # <<>>
  PROVE  /\ Head(requests) \in Questions \cup Commits
         /\ Head(requests).op = "commit" => Head(requests) \in Commits
         /\ Head(requests).op # "commit" => Head(requests) \in Questions
         /\ Head(requests).op \in Loads \cup {"render"} => Head(requests).page \in Pages
<1>1. PICK m : m = Head(requests) OBVIOUS
<1>2. m \in Questions \cup Commits BY <1>1 DEF WorkerTyped
<1>3. m \in Commits => m.op = "commit" BY DEF Commits
<1>4. m \in Questions => m.op \in Loads \cup {"render", "close"} /\ m.op # "commit"
  BY DEF Questions, Loads
<1>5. m.op \in Loads \cup {"render"} => m.page \in Pages
  <2>1. "commit" \notin Loads \cup {"render"} /\ "close" \notin Loads \cup {"render"} BY DEF Loads
  <2>2. QED BY <1>2, <1>3, <2>1 DEF Questions
<1>6. QED BY <1>1, <1>2, <1>3, <1>4, <1>5

\* An answer that is no commit, of a worker whose document stays as it is.
LEMMA ResultServes ==
  ASSUME IndInv, requests # <<>>, NEW r \in Nat, Result(r), 
         Head(requests) \in Questions \/ r = 0,
         revision' = revision, content' = content, serving' \in BOOLEAN, serving' => serving,
         sessionMetrics' \in [Pages -> Nat], sessionModels' \in [Pages -> Nat], SessionInv',
         Head(requests).op \in Loads \cup {"render"} /\ r # 0
           => serving /\ r = content[Head(requests).page],
         Head(requests).op = "close" /\ r # 0 => ~serving'
  PROVE  \E a : Serves(a)
<1>1. WorkerTyped BY DEF IndInv, TypeInv
<1>2. PICK m, a : m = Head(requests) /\ a = [to |-> m, result |-> r] OBVIOUS
<1>3. /\ m \in Questions \cup Commits
      /\ m.op = "commit" => m \in Commits
      /\ m.op # "commit" => m \in Questions
  BY <1>1, <1>2, FirstRequest
<1>4. a.to = m /\ a.result = r BY <1>2
<1>5. a \in Answers
  <2>1. CASE m \in Questions BY <1>2, <2>1 DEF Answers
  <2>2. CASE m \notin Questions
    <3>1. m \in Commits /\ r = 0 BY <1>2, <1>3, <2>2
    <3>2. QED BY <1>2, <3>1 DEF Answers
  <2>3. QED BY <2>1, <2>2
<1>6. Answer(a) BY <1>2 DEF Result
<1>7. Answered(a) /\ UNCHANGED <<phase, acked, pageVars, rasterVars>>
  BY <1>6 DEF Answer, Answered
<1>8. ~IsCommit(a)
  <2>1. m \in Questions => m.op # "commit" BY DEF Questions, Loads
  <2>2. m \in Questions \/ r = 0 BY <1>2
  <2>3. QED BY <1>4, <2>1, <2>2 DEF IsCommit
<1>9. \A p \in Pages : Honest(a, p, content[p], content'[p])
  <2> SUFFICES ASSUME NEW p \in Pages, NEW d \in Nat, Says(a, p, d) PROVE d = content[p]
      BY DEF Honest
  <2>1. m.op \in Loads \cup {"render"} /\ m.page = p /\ r = d /\ d # 0
    BY <1>4, <1>8 DEF Says
  <2>2. QED BY <1>2, <2>1
<1>10. /\ a.to.op \in Loads /\ a.result # 0 => serving
       /\ a.to.op = "close" /\ a.result # 0 => ~serving'
  BY <1>2, <1>4
<1>11. revision' \in Nat /\ content' \in [Pages -> Nat \ {0}] BY <1>1 DEF WorkerTyped
<1>12. QED BY <1>5, <1>7, <1>8, <1>9, <1>10, <1>11 DEF Serves

LEMMA FailServes == ASSUME IndInv, Fail PROVE \E a : Serves(a)
<1>1. WorkerTyped /\ SessionInv BY DEF IndInv, TypeInv
<1>2. requests # <<>> /\ Result(0) BY DEF Fail, Result, Answer
<1>3. /\ revision' = revision /\ content' = content /\ serving' = serving
      /\ sessionMetrics' = sessionMetrics /\ sessionModels' = sessionModels
  BY DEF Fail, workerVars, sessionVars
<1>4. SessionInv' BY <1>1, <1>3 DEF SessionInv
<1>5. 0 \in Nat /\ serving' \in BOOLEAN
      /\ sessionMetrics' \in [Pages -> Nat] /\ sessionModels' \in [Pages -> Nat]
  BY <1>1, <1>3 DEF WorkerTyped
<1>6. PICK r \in Nat : r = 0 OBVIOUS
<1>7. Result(r) BY <1>2, <1>6
<1>8. QED BY <1>2, <1>3, <1>4, <1>5, <1>6, <1>7, ResultServes

\* What the worker has of a page, if anything, is the page.
LEMMA KnownIs ==
  ASSUME IndInv, NEW p \in Pages
  PROVE  /\ content[p] \in Nat \ {0}
         /\ Known(sessionMetrics, p) = content[p] /\ Known(sessionModels, p) = content[p]
<1>1. WorkerTyped /\ SessionInv BY DEF IndInv, TypeInv
<1>2. /\ content[p] \in Nat \ {0}
      /\ sessionMetrics[p] \in {0, content[p]} /\ sessionModels[p] \in {0, content[p]}
  BY <1>1 DEF WorkerTyped, SessionInv
<1>3. QED BY <1>2 DEF Known

LEMMA ReadMetricsServes == ASSUME IndInv, ReadMetrics PROVE \E a : Serves(a)
<1>1. WorkerTyped /\ SessionInv BY DEF IndInv, TypeInv
<1>2. requests # <<>> /\ Head(requests).op = "metrics" /\ serving
  BY DEF ReadMetrics, Reads
<1>3. PICK p : p = Head(requests).page OBVIOUS
<1>4. p \in Pages /\ Head(requests) \in Questions
  BY <1>1, <1>2, <1>3, FirstRequest DEF Loads
<1>5. content[p] \in Nat \ {0} /\ Known(sessionMetrics, p) = content[p] BY <1>4, KnownIs
<1>6. /\ sessionMetrics' = [sessionMetrics EXCEPT ![p] = content[p]] /\ Result(content[p])
      /\ revision' = revision /\ content' = content /\ serving' = serving
      /\ sessionModels' = sessionModels
  BY <1>3, <1>5 DEF ReadMetrics
<1>7. /\ sessionMetrics' \in [Pages -> Nat] /\ sessionModels' \in [Pages -> Nat]
      /\ serving' \in BOOLEAN
  BY <1>1, <1>4, <1>5, <1>6 DEF WorkerTyped
<1>8. SessionInv' BY <1>1, <1>4, <1>6 DEF SessionInv, WorkerTyped
<1>9. PICK r \in Nat : r = content[p] BY <1>5
<1>10. Result(r) BY <1>6, <1>9
<1>11. QED BY <1>2, <1>3, <1>4, <1>6, <1>7, <1>8, <1>9, <1>10, ResultServes

LEMMA ReadModelServes == ASSUME IndInv, ReadModel PROVE \E a : Serves(a)
<1>1. WorkerTyped /\ SessionInv BY DEF IndInv, TypeInv
<1>2. requests # <<>> /\ Head(requests).op = "model" /\ serving
  BY DEF ReadModel, Reads
<1>3. PICK p : p = Head(requests).page OBVIOUS
<1>4. p \in Pages /\ Head(requests) \in Questions
  BY <1>1, <1>2, <1>3, FirstRequest DEF Loads
<1>5. content[p] \in Nat \ {0} /\ Known(sessionModels, p) = content[p] BY <1>4, KnownIs
<1>6. /\ sessionModels' = [sessionModels EXCEPT ![p] = content[p]] /\ Result(content[p])
      /\ sessionMetrics' \in {sessionMetrics, [sessionMetrics EXCEPT ![p] = content[p]]}
      /\ revision' = revision /\ content' = content /\ serving' = serving
  <2>1. sessionMetrics = [sessionMetrics EXCEPT ![p] = sessionMetrics[p]]
    BY <1>1 DEF WorkerTyped
  <2>2. QED BY <1>3, <1>5, <2>1 DEF ReadModel
<1>7. /\ sessionMetrics' \in [Pages -> Nat] /\ sessionModels' \in [Pages -> Nat]
      /\ serving' \in BOOLEAN
  BY <1>1, <1>4, <1>5, <1>6 DEF WorkerTyped
<1>8. SessionInv' BY <1>1, <1>4, <1>6 DEF SessionInv, WorkerTyped
<1>9. PICK r \in Nat : r = content[p] BY <1>5
<1>10. Result(r) BY <1>6, <1>9
<1>11. QED BY <1>2, <1>3, <1>4, <1>6, <1>7, <1>8, <1>9, <1>10, ResultServes

LEMMA RenderServes == ASSUME IndInv, Render PROVE \E a : Serves(a)
<1>1. WorkerTyped /\ SessionInv BY DEF IndInv, TypeInv
<1>2. requests # <<>> /\ Head(requests).op = "render" /\ serving
  BY DEF Render, Reads
<1>3. PICK p : p = Head(requests).page OBVIOUS
<1>4. p \in Pages /\ Head(requests) \in Questions BY <1>1, <1>2, <1>3, FirstRequest
<1>5. content[p] \in Nat \ {0} /\ Known(sessionMetrics, p) = content[p] BY <1>4, KnownIs
<1>6. /\ sessionMetrics' = [sessionMetrics EXCEPT ![p] = content[p]] /\ Result(content[p])
      /\ revision' = revision /\ content' = content /\ serving' = serving
      /\ sessionModels' = sessionModels
  BY <1>3, <1>5 DEF Render
<1>7. /\ sessionMetrics' \in [Pages -> Nat] /\ sessionModels' \in [Pages -> Nat]
      /\ serving' \in BOOLEAN
  BY <1>1, <1>4, <1>5, <1>6 DEF WorkerTyped
<1>8. SessionInv' BY <1>1, <1>4, <1>6 DEF SessionInv, WorkerTyped
<1>9. PICK r \in Nat : r = content[p] BY <1>5
<1>10. Result(r) BY <1>6, <1>9
<1>11. QED BY <1>2, <1>3, <1>4, <1>6, <1>7, <1>8, <1>9, <1>10, ResultServes

LEMMA CloseDocumentServes == ASSUME IndInv, CloseDocument PROVE \E a : Serves(a)
<1>1. WorkerTyped /\ SessionInv BY DEF IndInv, TypeInv
<1>2. /\ requests # <<>> /\ Head(requests).op = "close" /\ serving' = FALSE /\ serving /\ Result(1)
      /\ revision' = revision /\ content' = content
      /\ sessionMetrics' = sessionMetrics /\ sessionModels' = sessionModels
  BY DEF CloseDocument, sessionVars
<1>3. Head(requests) \in Questions /\ Head(requests).op \notin Loads \cup {"render"}
  BY <1>1, <1>2, FirstRequest DEF Loads
<1>4. SessionInv' BY <1>1, <1>2 DEF SessionInv
<1>5. /\ sessionMetrics' \in [Pages -> Nat] /\ sessionModels' \in [Pages -> Nat]
      /\ serving' \in BOOLEAN
  BY <1>1, <1>2 DEF WorkerTyped
<1>6. PICK r \in Nat : r = 1 OBVIOUS
<1>7. Result(r) BY <1>2, <1>6
<1>8. QED BY <1>2, <1>3, <1>4, <1>5, <1>7, ResultServes

LEMMA ChangeDocumentServes == ASSUME IndInv, ChangeDocument PROVE \E a : Serves(a)
<1>1. WorkerTyped /\ SessionInv BY DEF IndInv, TypeInv
<1>2. PICK m : m = Head(requests) OBVIOUS
<1>3. requests # <<>> /\ m.op = "commit" /\ serving BY <1>2 DEF ChangeDocument
<1>4. m \in Commits BY <1>1, <1>2, <1>3, FirstRequest
<1>5. PICK a : a = [to |-> m, result |-> revision', contents |-> content'] OBVIOUS
<1>6. /\ revision' = revision + 1
      /\ content' = [p \in Pages |-> IF p \in m.changed THEN revision' + 1 ELSE content[p]]
      /\ sessionMetrics' = [p \in Pages |-> IF p \in Obsolete(m) THEN 0 ELSE sessionMetrics[p]]
      /\ sessionModels' = [p \in Pages |-> IF p \in Obsolete(m) THEN 0 ELSE sessionModels[p]]
      /\ Answer(a) /\ serving' = serving
  BY <1>2, <1>5 DEF ChangeDocument
<1>7. revision' \in Nat \ {0} /\ content' \in [Pages -> Nat \ {0}]
      /\ sessionMetrics' \in [Pages -> Nat] /\ sessionModels' \in [Pages -> Nat]
      /\ serving' \in BOOLEAN
  BY <1>1, <1>6 DEF WorkerTyped
<1>8. a \in Answers BY <1>4, <1>5, <1>7 DEF Answers
<1>9. a.to = m /\ a.result = revision' /\ a.contents = content' BY <1>5
<1>10. Answered(a) /\ UNCHANGED <<phase, acked, pageVars, rasterVars>>
  BY <1>6 DEF Answer, Answered
<1>11. \A p \in Pages : p \notin Obsolete(m) => content'[p] = content[p]
  BY <1>6 DEF Obsolete
<1>12. SessionInv' BY <1>1, <1>6, <1>11 DEF SessionInv
<1>13. IsCommit(a) BY <1>3, <1>7, <1>9 DEF IsCommit
<1>14. \A p \in Pages : Honest(a, p, content[p], content'[p])
  <2> SUFFICES ASSUME NEW p \in Pages, ~Touches(a, p)
               PROVE  content'[p] = content[p] /\ \A d \in Nat : Says(a, p, d) => d = content[p]
      BY DEF Honest
  <2>1. content'[p] = content[p] BY <1>9, <1>11, <1>13 DEF Touches
  <2>2. a.to.op \notin Loads \cup {"render"} BY <1>3, <1>9 DEF Loads
  <2>3. QED BY <1>9, <2>1, <2>2 DEF Says
<1>15. /\ ~(a.to.op \in Loads /\ a.result # 0) /\ a.to.op # "close"
  BY <1>3, <1>9 DEF Loads
<1>16. QED BY <1>6, <1>7, <1>8, <1>9, <1>10, <1>12, <1>14, <1>15 DEF Serves

LEMMA AnsweringKeeps == ASSUME IndInv, Answering PROVE IndInv'
<1>1. \E a : Serves(a)
  BY FailServes, ReadMetricsServes, ReadModelServes, RenderServes, ChangeDocumentServes,
     CloseDocumentServes DEF Answering
<1>2. QED BY <1>1, ServingKeeps

----------------------------------------------------------------------------
(* Part 10: the answers arrive *)

\* What follows from an answer, with no more posted than a render.
Takes(a, m) ==
  /\ replies # <<>> /\ a = Head(replies) /\ replies' = Tail(replies) /\ UNCHANGED workerVars
  /\ Posts(m) /\ m \in Questions \cup Commits /\ m.op \notin Loads \cup {"close"}
  /\ phase' \in {"open", "closing", "closed"} /\ acked' \in [Pages -> Nat \ {0}]
  /\ entry' \in [Pages -> Entries(sequence')] /\ sequence' \in Nat
  /\ epoch' = epoch /\ waiting' = waiting
  /\ \/ running' = running \/ running' = Idle
     \/ running.stage # "idle" /\ running' = [stage |-> "posted", key |-> running.key]
  /\ ModelsKept(models', bytes') /\ ModelsLive' /\ BitmapsKept(bitmaps', pixels')
  /\ VersionStep /\ \A q \in Pages : entry'[q].version # 0 => Owned(q, entry[q].version)'
  /\ \A b \in Range(bitmaps') :
       \/ b \in Range(bitmaps)
       \/ running.stage # "idle" /\ b.key = running.key /\ b.page = b.key.page
  /\ \A p \in Pages : acked'[p] = IF IsCommit(a) THEN a.contents[p] ELSE acked[p]
  /\ RenderInv' /\ LoadedInv' /\ ClosedInv'
  /\ ClosingInv' \/ (phase' = phase /\ a.to.op # "close")

\* A request for when none is posted.
Unposted == [op |-> "commit", changed |-> {}, after |-> {}]

LEMMA UnpostedIs ==
  ASSUME requests' = requests
  PROVE  /\ Unposted \in Questions \cup Commits /\ Posts(Unposted)
         /\ Unposted.op \notin Loads \cup {"close"} /\ Unposted.op # "render"
<1>1. Unposted \in Commits BY DEF Unposted, Commits
<1>2. Unposted.op = "commit" BY DEF Unposted
<1>3. Posts(Unposted) BY DEF Posts
<1>4. QED BY <1>1, <1>2, <1>3 DEF Loads

LEMMA TakingKeeps == ASSUME IndInv, NEW a, NEW m, Takes(a, m) PROVE IndInv'
<1>1. /\ ClientTyped /\ WorkerTyped /\ VersionsInv /\ ChainInv /\ SessionInv /\ ClosingInv
      /\ sequence \in Nat
  BY DEF IndInv, TypeInv, ClientTyped
<1>2. /\ revision' = revision /\ content' = content /\ serving' = serving
      /\ sessionMetrics' = sessionMetrics /\ sessionModels' = sessionModels
  BY DEF Takes, workerVars, sessionVars
<1>3. /\ replies # <<>> /\ a = Head(replies) /\ replies' = Tail(replies)
      /\ Posts(m) /\ m \in Questions \cup Commits /\ m.op \notin Loads \cup {"close"}
  BY DEF Takes
<1>4. m.op # "close" /\ m.op \notin Loads /\ Arrives BY <1>3 DEF Arrives
<1>5. requests' \in Seq(Questions \cup Commits) /\ Range(requests') \subseteq Range(requests) \cup {m}
  BY <1>1, <1>3, PostIndex
<1>6. replies' \in Seq(Answers) /\ Range(replies') \subseteq Range(replies)
  BY <1>1, <1>3, ArriveIndex
<1>7. running.stage # "idle" => running.key \in Keys BY <1>1 DEF ClientTyped, Idle
<1>8. TypeInv'
  <2>1. ClientTyped'
    <3>1. running' \in {Idle} \cup [stage : {"metrics", "posted"}, key : Keys]
      <4>1. running \in {Idle} \cup [stage : {"metrics", "posted"}, key : Keys]
        BY <1>1 DEF ClientTyped
      <4>2. QED BY <1>7, <4>1 DEF Takes
    <3>2. QED BY <1>1, <3>1 DEF Takes, ClientTyped
  <2>2. WorkerTyped' BY <1>1, <1>2, <1>5, <1>6 DEF WorkerTyped
  <2>3. QED BY <2>1, <2>2 DEF TypeInv, Takes, ModelsKept, BitmapsKept
<1>9. VersionsInv'
  <2>1. epoch \in Int /\ epoch' = epoch BY <1>1 DEF ClientTyped, Takes
  <2>2. \/ running'.stage = "idle" \/ running' = running
        \/ running.stage # "idle" /\ running'.key = running.key
    BY DEF Takes, Idle
  <2>3. VersionsFrom(m) BY <1>4, <1>5, <1>6, <2>1, <2>2 DEF Takes, VersionsFrom
  <2>4. QED BY <1>1, <2>3, VersionsKept
<1>10. ChainInv'
  <2>1. \A p \in Pages : acked'[p] = IF IsCommit(Head(replies)) THEN Head(replies).contents[p]
                                     ELSE acked[p]
    BY <1>3 DEF Takes
  <2>2. QED BY <1>1, <1>2, <1>3, <2>1, ChainTail
<1>11. SessionInv' BY <1>1, <1>2 DEF SessionInv
<1>12. ClosingInv'
  <2>1. CASE phase' = phase /\ a.to.op # "close"
    <3>1. VersionStep BY DEF Takes
    <3>2. replies' # replies => Head(replies).to.op # "close" BY <1>3, <2>1
    <3>3. QED BY <1>1, <1>2, <1>3, <1>4, <2>1, <3>1, <3>2, ClosingKept
  <2>2. QED BY <2>1 DEF Takes
<1>13. QED BY <1>8, <1>9, <1>10, <1>11, <1>12 DEF Takes, IndInv

\* The answer that arrives.
LEMMA FirstAnswer ==
  ASSUME IndInv, replies # <<>>, NEW a, a = Head(replies)
  PROVE  /\ a \in Answers /\ a \in Range(replies) /\ a.result \in Nat
         /\ a.to.op \in Loads => a.to.page \in Pages /\ Owned(a.to.page, a.to.version)
         /\ a.to.op = "commit" => a.to \in Commits
         /\ IsCommit(a) => a.contents \in [Pages -> Nat \ {0}]
<1>1. WorkerTyped /\ VersionsInv BY DEF IndInv, TypeInv
<1>2. PICK s : s = replies OBVIOUS
<1>3. s \in Seq(Answers) /\ s # <<>> /\ a = Head(s) BY <1>1, <1>2 DEF WorkerTyped
<1>4. a \in Answers /\ a \in Range(s)
  <2>1. a = s[1] /\ 1 \in DOMAIN s /\ s[1] \in Answers BY <1>3
  <2>2. QED BY <2>1 DEF Range
<1>5. a.result \in Nat BY <1>4 DEF Answers
<1>6. \A m \in Questions : m.op \in Loads \cup {"render", "close"} /\ m.op # "commit"
  BY DEF Questions, Loads
<1>7. a.to \in Questions \cup Commits BY <1>4 DEF Answers
<1>8. a.to.op = "commit" => a.to \in Commits BY <1>6, <1>7
<1>9. a.to.op \in Loads => a.to.page \in Pages /\ Owned(a.to.page, a.to.version)
  BY <1>1, <1>2, <1>4, LoadsOwned
<1>10. ASSUME IsCommit(a) PROVE a.contents \in [Pages -> Nat \ {0}]
  <2>1. a.to \notin Questions /\ a.result # 0 BY <1>6, <1>10 DEF IsCommit
  <2>2. a \in [to : Commits, result : Nat \ {0}, contents : [Pages -> Nat \ {0}]]
    BY <1>4, <2>1 DEF Answers
  <2>3. QED BY <2>2
<1>11. QED BY <1>2, <1>4, <1>5, <1>8, <1>9, <1>10

\* Entries that only settle: what is left of the invariant with their versions as they were.
Settled(a, field) ==
  /\ entry' \in [Pages -> Entries(sequence')] /\ sequence' = sequence
  /\ \A q \in Pages : entry'[q].version = entry[q].version
  /\ \A q \in Pages : \/ entry'[q].metrics = entry[q].metrics
                      \/ phase = "open" /\ entry'[q].metrics = acked[q]
  /\ a.result # 0 /\ Live(a.to.page, a.to.version) => phase = "open" /\ a.result = acked[a.to.page]

LEMMA SettlingIsCurrent ==
  ASSUME IndInv, replies # <<>>, NEW a, a = Head(replies), a.to.op \in Loads,
         NEW field \in {"metricsPending", "pending"},
         entry' = Settle(a.to.page, a.to.version, a.result, field), sequence' = sequence
  PROVE  Settled(a, field)
<1>1. ClientTyped /\ WorkerTyped /\ ChainInv /\ ClosingInv /\ entry \in [Pages -> Entries(sequence)]
  BY DEF IndInv, TypeInv, ClientTyped
<1>2. PICK p, v, c : p = a.to.page /\ v = a.to.version /\ c = a.result OBVIOUS
<1>3. p \in Pages /\ c \in Nat BY <1>2, FirstAnswer
<1>4. entry' = Settle(p, v, c, field) BY <1>2
<1>5. /\ entry' \in [Pages -> Entries(sequence')]
      /\ \A q \in Pages : entry'[q].version = entry[q].version
      /\ \A q \in Pages : \/ entry'[q].metrics = entry[q].metrics
                          \/ q = p /\ Live(p, v) /\ c # 0 /\ entry'[q].metrics = c
  BY <1>1, <1>3, <1>4, Settling
<1>6. ASSUME c # 0, Live(p, v) PROVE phase = "open" /\ c = acked[p]
  <2>1. phase = "open" BY <1>1, <1>2, <1>6, LoadedWhileOpen
  <2>2. ~Touches(Head(replies), p) BY DEF Touches, IsCommit, Loads
  <2>3. Says(Head(replies), p, c) BY <1>2, <1>6 DEF Says
  <2>4. QED BY <1>1, <1>3, <2>1, <2>2, <2>3, HeadSays
<1>7. QED BY <1>2, <1>5, <1>6 DEF Settled

\* Such entries keep what is retained current, their models live and their versions.
LEMMA SettledKeeps ==
  ASSUME IndInv, NEW a, NEW field, Settled(a, field), acked' = acked
  PROVE  /\ VersionStep /\ \A q \in Pages : entry'[q].version # 0 => Owned(q, entry[q].version)'
         /\ \A q \in Pages : entry'[q].version # 0 => entry'[q].metrics \in {0, acked'[q]}
         /\ bitmaps' = bitmaps =>
              \A b \in Range(bitmaps') :
                b.key.version = entry'[b.page].version => b.content = acked'[b.page]
         /\ phase # "open" => \A q \in Pages : entry'[q].version # 0 => entry'[q].metrics = 0
<1>1. VersionsInv /\ LoadedInv /\ ClosedInv /\ sequence \in Nat
  BY DEF IndInv, TypeInv, ClientTyped
<1>2. /\ sequence' = sequence
      /\ \A q \in Pages : entry'[q].version = entry[q].version
      /\ \A q \in Pages : \/ entry'[q].metrics = entry[q].metrics
                          \/ phase = "open" /\ entry'[q].metrics = acked[q]
  BY DEF Settled
<1>3. VersionStep BY <1>1, <1>2 DEF VersionStep
<1>4. \A q \in Pages : entry'[q].version # 0 => Owned(q, entry[q].version)'
  BY <1>1, <1>2 DEF VersionsInv, Owned
<1>5. \A q \in Pages : entry'[q].version # 0 => entry'[q].metrics \in {0, acked'[q]}
  BY <1>1, <1>2 DEF LoadedInv
<1>6. ASSUME bitmaps' = bitmaps, NEW b \in Range(bitmaps'), b.key.version = entry'[b.page].version
      PROVE  b.content = acked'[b.page]
  <2>1. b \in Bitmaps
    <3>1. bitmaps \in Seq(Bitmaps) BY DEF IndInv, TypeInv, BitmapsKept
    <3>2. QED BY <1>6, <3>1, RangeFinite
  <2>2. b.page \in Pages BY <2>1 DEF Bitmaps
  <2>3. QED BY <1>1, <1>2, <1>6, <2>2 DEF LoadedInv
<1>7. phase # "open" => \A q \in Pages : entry'[q].version # 0 => entry'[q].metrics = 0
  BY <1>1, <1>2 DEF ClosedInv
<1>8. QED BY <1>3, <1>4, <1>5, <1>6, <1>7

LEMMA ReceiveMetricsKeeps ==
  ASSUME IndInv, replies # <<>>, replies' = Tail(replies), UNCHANGED workerVars,
         NEW a, a = Head(replies), a.to.op = "metrics", ReceiveMetrics(a.to, a.result)
  PROVE  IndInv'
<1>1. /\ ClientTyped /\ WorkerTyped /\ VersionsInv /\ RenderInv /\ LoadedInv /\ ClosedInv
      /\ ModelsLive /\ ModelsKept(models, bytes) /\ BitmapsKept(bitmaps, pixels)
  BY DEF IndInv, TypeInv
<1>2. /\ phase' = phase /\ acked' = acked /\ sequence' = sequence /\ models' = models
      /\ bytes' = bytes /\ waiting' = waiting /\ bitmaps' = bitmaps /\ pixels' = pixels
      /\ epoch' = epoch /\ entry' = Settle(a.to.page, a.to.version, a.result, "metricsPending")
  BY DEF ReceiveMetrics
<1>3. a.to.op \in Loads /\ a.to.page \in Pages /\ Owned(a.to.page, a.to.version)
  BY FirstAnswer DEF Loads
<1>4. Settled(a, "metricsPending") BY <1>2, <1>3, SettlingIsCurrent
<1>5. /\ VersionStep /\ \A q \in Pages : entry'[q].version # 0 => Owned(q, entry[q].version)'
      /\ \A q \in Pages : entry'[q].version # 0 => entry'[q].metrics \in {0, acked'[q]}
      /\ \A b \in Range(bitmaps') :
           b.key.version = entry'[b.page].version => b.content = acked'[b.page]
      /\ phase # "open" => \A q \in Pages : entry'[q].version # 0 => entry'[q].metrics = 0
  BY <1>2, <1>4, SettledKeeps
<1>6. PICK m : m = [op |-> "render", page |-> a.to.page] OBVIOUS
<1>7. /\ m \in Questions \cup Commits /\ m.op = "render" /\ m.page = a.to.page
      /\ m.op \notin Loads \cup {"close"}
  BY <1>3, <1>6 DEF Questions, Loads
<1>8. \/ /\ running.stage = "metrics" /\ running.key.version = a.to.version
         /\ a.result # 0 /\ Live(a.to.page, a.to.version)
         /\ requests' = Append(requests, m)
         /\ running' = [stage |-> "posted", key |-> running.key]
      \/ running.stage = "metrics" /\ running' = Idle /\ requests' = requests
      \/ running' = running /\ requests' = requests
  BY <1>6 DEF ReceiveMetrics, Send
<1>9. Posts(m) /\ Arrives BY <1>8 DEF Posts, Arrives
<1>10. RenderInv'
  <2>1. CASE /\ running.stage = "metrics" /\ running.key.version = a.to.version
             /\ Live(a.to.page, a.to.version)
             /\ running' = [stage |-> "posted", key |-> running.key]
    <3>1. NoRender BY <1>1, <2>1, NoneUnderWay
    <3>2. Owned(running.key.page, running.key.version) BY <1>1, <2>1 DEF VersionsInv
    <3>3. a.to.page = running.key.page BY <1>3, <2>1, <3>2 DEF Owned, Live
    <3>4. running'.stage = "posted" /\ m.page = running'.key.page BY <1>7, <2>1, <3>3
    <3>5. QED BY <1>1, <1>7, <1>9, <3>1, <3>4, RenderPosted
  <2>2. CASE running.stage = "metrics" /\ running' = Idle /\ requests' = requests
    <3>1. NoRender BY <1>1, <2>2, NoneUnderWay
    <3>2. Range(replies') \subseteq Range(replies) BY <1>1, ArriveIndex
    <3>3. NoRender' BY <2>2, <3>1, <3>2 DEF NoRender
    <3>4. QED BY <3>3, RenderNone
  <2>3. CASE running' = running /\ requests' = requests
    <3>1. /\ Unposted \in Questions \cup Commits /\ Unposted.op # "render" /\ Posts(Unposted)
      BY <2>3, UnpostedIs
    <3>2. QED BY <1>1, <1>9, <2>3, <3>1, RenderKept
  <2>4. QED BY <1>8, <2>1, <2>2, <2>3
<1>11. ModelsLive' /\ LoadedInv'
  <2>1. \A o \in Range(models) : o.page \in Pages
    <3>1. models \in Seq(Models) BY <1>1 DEF ModelsKept
    <3>2. Range(models) \subseteq Models BY <3>1, RangeFinite
    <3>3. QED BY <3>2 DEF Models
  <2>2. ModelsLive' BY <1>1, <1>2, <1>4, <2>1 DEF ModelsLive, Settled
  <2>3. QED BY <1>1, <1>2, <1>5, <2>2 DEF LoadedInv
<1>12. ClosedInv'
  <2> SUFFICES ASSUME phase # "open"
               PROVE  running'.stage = "posted" => running'.key.epoch < epoch
      BY <1>1, <1>2, <1>5 DEF ClosedInv
  <2>1. ~(a.result # 0 /\ Live(a.to.page, a.to.version)) BY <1>4 DEF Settled
  <2>2. QED BY <1>1, <1>8, <2>1 DEF ClosedInv, Idle
<1>13. ~IsCommit(a) /\ a.to.op # "close" BY DEF IsCommit
<1>14. /\ \/ running' = running \/ running' = Idle
          \/ running.stage # "idle" /\ running' = [stage |-> "posted", key |-> running.key]
  BY <1>8
<1>15. /\ phase' \in {"open", "closing", "closed"} /\ acked' \in [Pages -> Nat \ {0}]
       /\ entry' \in [Pages -> Entries(sequence')] /\ sequence' \in Nat
  BY <1>1, <1>2, <1>4 DEF ClientTyped, Settled
<1>16. Takes(a, m)
  BY <1>1, <1>2, <1>5, <1>7, <1>9, <1>10, <1>11, <1>12, <1>13, <1>14, <1>15 DEF Takes
<1>17. QED BY <1>16, TakingKeeps

LEMMA ReceiveModelKeeps ==
  ASSUME IndInv, replies # <<>>, replies' = Tail(replies), UNCHANGED workerVars,
         NEW a, a = Head(replies), a.to.op = "model", ReceiveModel(a.to, a.result)
  PROVE  IndInv'
<1>1. /\ ClientTyped /\ WorkerTyped /\ VersionsInv /\ RenderInv /\ LoadedInv /\ ClosedInv
      /\ ModelsLive /\ ModelsKept(models, bytes) /\ BitmapsKept(bitmaps, pixels)
  BY DEF IndInv, TypeInv
<1>2. /\ phase' = phase /\ acked' = acked /\ sequence' = sequence /\ requests' = requests
      /\ waiting' = waiting /\ running' = running /\ bitmaps' = bitmaps /\ pixels' = pixels
      /\ epoch' = epoch /\ entry' = Settle(a.to.page, a.to.version, a.result, "pending")
  BY DEF ReceiveModel, rasterVars
<1>3. PICK p, v, c : p = a.to.page /\ v = a.to.version /\ c = a.result OBVIOUS
<1>4. a.to.op \in Loads /\ p \in Pages /\ Owned(p, v) /\ c \in Nat
  BY <1>3, FirstAnswer DEF Loads
<1>5. v \in Nat \ {0} BY <1>1, <1>4 DEF Owned, ClientTyped
<1>6. Settled(a, "pending") BY <1>2, <1>4, SettlingIsCurrent
<1>7. /\ VersionStep /\ \A q \in Pages : entry'[q].version # 0 => Owned(q, entry[q].version)'
      /\ \A q \in Pages : entry'[q].version # 0 => entry'[q].metrics \in {0, acked'[q]}
      /\ \A b \in Range(bitmaps') :
           b.key.version = entry'[b.page].version => b.content = acked'[b.page]
      /\ phase # "open" => \A q \in Pages : entry'[q].version # 0 => entry'[q].metrics = 0
  BY <1>2, <1>6, SettledKeeps
<1>8. /\ ModelsKept(models', bytes')
      /\ \A o \in Range(models') :
           \/ o \in Range(models)
           \/ o.page = p /\ o.version = v /\ Live(p, v) /\ o.content = acked[p]
      /\ phase # "open" => models' = models
  <2>1. CASE c # 0 /\ Live(p, v)
    <3>1. Remember(p, v, c) /\ c \in Nat \ {0} BY <1>3, <1>4, <2>1 DEF ReceiveModel
    <3>2. /\ ModelsKept(models', bytes')
          /\ Range(models')
               \subseteq (Range(models) \ ModelsOf(v)) \cup {[page |-> p, version |-> v, content |-> c]}
      BY <1>1, <1>4, <1>5, <3>1, Remembering
    <3>3. phase = "open" /\ c = acked[p] BY <1>3, <1>6, <2>1 DEF Settled
    <3>4. QED BY <2>1, <3>2, <3>3
  <2>2. CASE ~(c # 0 /\ Live(p, v))
    <3>1. models' = models /\ bytes' = bytes BY <1>3, <2>2 DEF ReceiveModel
    <3>2. QED BY <1>1, <3>1
  <2>3. QED BY <2>1, <2>2
<1>9. ModelsLive' /\ \A o \in Range(models') : o.content = acked'[o.page]
  <2>1. \A o \in Range(models) : o.page \in Pages
    <3>1. models \in Seq(Models) BY <1>1 DEF ModelsKept
    <3>2. Range(models) \subseteq Models BY <3>1, RangeFinite
    <3>3. QED BY <3>2 DEF Models
  <2>2. ASSUME NEW o \in Range(models') PROVE entry'[o.page].version = o.version
    <3>1. CASE o \in Range(models) BY <1>1, <1>6, <2>1, <3>1 DEF ModelsLive, Settled
    <3>2. CASE o.page = p /\ o.version = v /\ Live(p, v) BY <1>4, <1>6, <3>2 DEF Live, Settled
    <3>3. QED BY <1>8, <3>1, <3>2
  <2>3. \A o \in Range(models') : o.content = acked'[o.page] BY <1>1, <1>2, <1>8 DEF LoadedInv
  <2>4. QED BY <2>2, <2>3 DEF ModelsLive
<1>10. LoadedInv' BY <1>7, <1>9 DEF LoadedInv
<1>11. ClosedInv' BY <1>1, <1>2, <1>7, <1>8 DEF ClosedInv
<1>12. PICK m : m = Unposted OBVIOUS
<1>13. /\ m \in Questions \cup Commits /\ Posts(m)
       /\ m.op \notin Loads \cup {"close"} /\ m.op # "render"
  BY <1>2, <1>12, UnpostedIs
<1>14. RenderInv'
  <2>1. Arrives BY DEF Arrives
  <2>2. QED BY <1>1, <1>2, <1>13, <2>1, RenderKept
<1>15. ~IsCommit(a) /\ a.to.op # "close" BY DEF IsCommit
<1>16. /\ phase' \in {"open", "closing", "closed"} /\ acked' \in [Pages -> Nat \ {0}]
       /\ entry' \in [Pages -> Entries(sequence')] /\ sequence' \in Nat
  BY <1>1, <1>2, <1>6 DEF ClientTyped, Settled
<1>17. Takes(a, m)
  BY <1>1, <1>2, <1>7, <1>8, <1>9, <1>10, <1>11, <1>13, <1>14, <1>15, <1>16 DEF Takes
<1>18. QED BY <1>17, TakingKeeps

LEMMA ReceiveRenderKeeps ==
  ASSUME IndInv, replies # <<>>, replies' = Tail(replies), UNCHANGED workerVars,
         NEW a, a = Head(replies), a.to.op = "render", ReceiveRender(a.result)
  PROVE  IndInv'
<1>1. /\ ClientTyped /\ WorkerTyped /\ VersionsInv /\ RenderInv /\ ChainInv /\ LoadedInv
      /\ ClosedInv /\ ModelsLive /\ ModelsKept(models, bytes) /\ BitmapsKept(bitmaps, pixels)
      /\ entry \in [Pages -> Entries(sequence)] /\ sequence \in Nat
  BY DEF IndInv, TypeInv, ClientTyped
<1>2. /\ phase' = phase /\ acked' = acked /\ requests' = requests /\ models' = models
      /\ bytes' = bytes /\ waiting' = waiting /\ epoch' = epoch /\ running' = Idle
  BY DEF ReceiveRender
<1>3. PICK k, p, c : k = running.key /\ p = k.page /\ c = a.result OBVIOUS
<1>4. running.stage = "posted" /\ a.to.page = p /\ c \in Nat
  <2>1. 1 \in DOMAIN replies /\ replies[1] = a BY <1>1, ArriveIndex
  <2>2. QED BY <1>1, <1>3, <2>1, FirstAnswer DEF RenderInv
<1>5. k \in Keys /\ p \in Pages /\ Owned(p, k.version)
  <2>1. k \in Keys BY <1>1, <1>3, <1>4 DEF ClientTyped, Idle
  <2>2. QED BY <1>1, <1>3, <1>4, <2>1 DEF VersionsInv, Keys
<1>6. /\ entry' \in [Pages -> Entries(sequence')] /\ sequence' \in Nat
      /\ VersionStep /\ \A q \in Pages : entry'[q].version # 0 => Owned(q, entry[q].version)'
      /\ \A q \in Pages : /\ entry[q].version # 0 => entry'[q].version = entry[q].version
                          /\ entry'[q].metrics \in {0, entry[q].metrics}
                          /\ entry'[q].version # 0 /\ entry[q].version = 0 => entry'[q].metrics = 0
  <2>1. CASE c = 0
    <3>1. entry' = entry /\ sequence' = sequence BY <1>3, <2>1 DEF ReceiveRender
    <3>2. VersionStep BY <1>1, <3>1 DEF VersionStep
    <3>3. \A q \in Pages : entry'[q].version # 0 => Owned(q, entry[q].version)'
      BY <1>1, <3>1 DEF VersionsInv, Owned
    <3>4. QED BY <1>1, <3>1, <3>2, <3>3
  <2>2. CASE c # 0
    <3>1. Touch(p) /\ entry' = Entered(p) BY <1>3, <2>2 DEF ReceiveRender
    <3>2. Grown(p) BY <1>1, <1>5, <3>1, Growing
    <3>3. VersionStep /\ \A q \in Pages : entry'[q].version # 0 => Owned(q, entry[q].version)'
      BY <1>1, <1>5, <3>2, GrownIsStep
    <3>4. QED BY <3>2, <3>3 DEF Grown
  <2>3. QED BY <2>1, <2>2
<1>7. /\ BitmapsKept(bitmaps', pixels')
      /\ \A b \in Range(bitmaps') :
           \/ b \in Range(bitmaps)
           \/ b.key = k /\ b.page = k.page /\ b.content = acked[k.page]
      /\ phase # "open" => bitmaps' = bitmaps
  <2>1. CASE c # 0 /\ Current(k)
    <3>1. Put(k, c) /\ c \in Nat \ {0} BY <1>3, <1>4, <2>1 DEF ReceiveRender
    <3>2. /\ BitmapsKept(bitmaps', pixels')
          /\ \A b \in Range(bitmaps') :
               b \in Range(bitmaps) \/ b = [key |-> k, page |-> k.page, content |-> c]
      BY <1>1, <1>5, <3>1, Putting
    <3>3. c = acked[p]
      <4>1. ~Touches(Head(replies), p) BY DEF Touches, IsCommit
      <4>2. Says(Head(replies), p, c) BY <1>3, <1>4, <2>1 DEF Says
      <4>3. QED BY <1>1, <1>4, <1>5, <4>1, <4>2, HeadSays
    <3>4. phase = "open"
      <4>1. epoch = k.epoch /\ epoch \in Int BY <1>1, <2>1 DEF Current, ClientTyped
      <4>2. QED BY <1>1, <1>3, <1>4, <4>1 DEF ClosedInv
    <3>5. QED BY <1>3, <3>2, <3>3, <3>4
  <2>2. CASE ~(c # 0 /\ Current(k))
    <3>1. bitmaps' = bitmaps /\ pixels' = pixels BY <1>3, <2>2 DEF ReceiveRender
    <3>2. QED BY <1>1, <3>1
  <2>3. QED BY <2>1, <2>2
<1>8. ModelsLive'
  <2> SUFFICES ASSUME NEW o \in Range(models) PROVE entry'[o.page].version = o.version
      BY <1>2 DEF ModelsLive
  <2>1. o \in Models
    <3>1. models \in Seq(Models) BY <1>1 DEF ModelsKept
    <3>2. QED BY <3>1, RangeFinite
  <2>2. o.page \in Pages /\ o.version # 0 BY <2>1 DEF Models
  <2>3. entry[o.page].version = o.version BY <1>1 DEF ModelsLive
  <2>4. QED BY <1>6, <2>2, <2>3
<1>9. LoadedInv'
  <2>1. \A q \in Pages : entry'[q].version # 0 => entry'[q].metrics \in {0, acked'[q]}
    BY <1>1, <1>2, <1>6 DEF LoadedInv
  <2>2. \A o \in Range(models') : o.content = acked'[o.page] BY <1>1, <1>2 DEF LoadedInv
  <2>3. ASSUME NEW b \in Range(bitmaps'), b.key.version = entry'[b.page].version
        PROVE  b.content = acked'[b.page]
    <3>1. CASE b \in Range(bitmaps)
      <4>1. b.key.version \in 1 .. sequence BY <1>1, <3>1 DEF VersionsInv, Owned
      <4>2. b.page \in Pages
        <5>1. bitmaps \in Seq(Bitmaps) BY <1>1 DEF BitmapsKept
        <5>2. b \in Bitmaps BY <3>1, <5>1, RangeFinite
        <5>3. QED BY <5>2 DEF Bitmaps
      <4>3. entry'[b.page].version \in {0, entry[b.page].version, sequence + 1}
        BY <1>6, <4>2 DEF VersionStep
      <4>4. b.key.version = entry[b.page].version BY <1>1, <2>3, <4>1, <4>3
      <4>5. QED BY <1>1, <1>2, <3>1, <4>4 DEF LoadedInv
    <3>2. CASE b.page = k.page /\ b.content = acked[k.page] BY <1>2, <3>2
    <3>3. QED BY <1>7, <3>1, <3>2
  <2>4. QED BY <2>1, <2>2, <2>3 DEF LoadedInv
<1>10. ClosedInv'
  <2>1. running'.stage # "posted" BY <1>2 DEF Idle
  <2>2. QED BY <1>1, <1>2, <1>6, <1>7, <2>1 DEF ClosedInv
<1>11. RenderInv'
  <2>1. NoRender' BY <1>1, <1>2, RenderArrived
  <2>2. QED BY <2>1, RenderNone
<1>12. PICK m : m = Unposted OBVIOUS
<1>13. /\ m \in Questions \cup Commits /\ Posts(m)
       /\ m.op \notin Loads \cup {"close"} /\ m.op # "render"
  BY <1>2, <1>12, UnpostedIs
<1>14. ~IsCommit(a) /\ a.to.op # "close" BY DEF IsCommit
<1>15. \A b \in Range(bitmaps') :
         \/ b \in Range(bitmaps)
         \/ running.stage # "idle" /\ b.key = running.key /\ b.page = b.key.page
  BY <1>3, <1>4, <1>7
<1>16. phase' \in {"open", "closing", "closed"} /\ acked' \in [Pages -> Nat \ {0}]
  BY <1>1, <1>2 DEF ClientTyped
<1>17. Takes(a, m)
  BY <1>1, <1>2, <1>6, <1>7, <1>8, <1>9, <1>10, <1>11, <1>13, <1>14, <1>15, <1>16 DEF Takes
<1>18. QED BY <1>17, TakingKeeps

LEMMA ReceiveCommitKeeps ==
  ASSUME IndInv, replies # <<>>, replies' = Tail(replies), UNCHANGED workerVars,
         NEW a, a = Head(replies), a.to.op = "commit", ReceiveCommit(a)
  PROVE  IndInv'
<1>1. /\ TypeInv /\ ClientTyped /\ WorkerTyped /\ VersionsInv /\ RenderInv /\ ChainInv /\ LoadedInv
      /\ ClosedInv /\ ModelsLive /\ ModelsKept(models, bytes) /\ BitmapsKept(bitmaps, pixels)
      /\ entry \in [Pages -> Entries(sequence)] /\ sequence \in Nat
  BY DEF IndInv, TypeInv, ClientTyped
<1>2. /\ phase' = phase /\ sequence' = sequence /\ requests' = requests
      /\ waiting' = waiting /\ running' = running /\ bitmaps' = bitmaps /\ pixels' = pixels
      /\ epoch' = epoch
  BY DEF ReceiveCommit, rasterVars
<1>3. PICK P \in SUBSET Pages :
        P = IF a.result = 0 THEN {} ELSE {p \in Obsolete(a.to) : entry[p].version # 0}
  <2>1. a.to \in Commits BY FirstAnswer
  <2>2. Obsolete(a.to) \subseteq Pages BY <2>1 DEF Obsolete, Commits
  <2>3. QED BY <2>2
<1>4. IsCommit(a) <=> a.result # 0 BY DEF IsCommit
<1>5. /\ entry' \in [Pages -> Entries(sequence')]
      /\ \A q \in P : entry'[q].version = 0 /\ entry'[q].metrics = 0
      /\ \A q \in Pages \ P : entry'[q] = entry[q]
      /\ ModelsKept(models', bytes') /\ ModelsLive'
      /\ Range(models') = {m \in Range(models) : m.page \notin P}
  <2>1. CASE a.result = 0
    <3>1. entry' = entry /\ models' = models /\ bytes' = bytes BY <2>1 DEF ReceiveCommit
    <3>2. ModelsLive' BY <1>1, <3>1 DEF ModelsLive
    <3>3. QED BY <1>1, <1>2, <1>3, <2>1, <3>1, <3>2
  <2>2. CASE a.result # 0
    <3>1. Forget(P) BY <1>3, <2>2 DEF ReceiveCommit
    <3>2. QED BY <1>1, <1>2, <3>1, Forgetting
  <2>3. QED BY <2>1, <2>2
<1>6. /\ acked' \in [Pages -> Nat \ {0}]
      /\ \A p \in Pages : acked'[p] = IF IsCommit(a) THEN a.contents[p] ELSE acked[p]
  <2>1. CASE a.result = 0 BY <1>1, <1>4, <2>1 DEF ReceiveCommit, ClientTyped
  <2>2. CASE a.result # 0
    <3>1. acked' = a.contents BY <2>2 DEF ReceiveCommit
    <3>2. QED BY <1>4, <2>2, <3>1, FirstAnswer
  <2>3. QED BY <2>1, <2>2
<1>7. ASSUME NEW q \in Pages, entry[q].version # 0, q \notin P PROVE acked'[q] = acked[q]
  <2>1. CASE IsCommit(a)
    <3>1. q \notin Obsolete(a.to) BY <1>3, <1>4, <1>7, <2>1
    <3>2. ~Touches(Head(replies), q) BY <3>1 DEF Touches
    <3>3. Says(Head(replies), q, a.contents[q]) BY <2>1 DEF Says
    <3>4. a.contents[q] \in Nat BY <2>1, FirstAnswer
    <3>5. a.contents[q] = acked[q] BY <1>1, <3>2, <3>3, <3>4, HeadSays
    <3>6. QED BY <1>6, <2>1, <3>5
  <2>2. CASE ~IsCommit(a) BY <1>6, <2>2
  <2>3. QED BY <2>1, <2>2
<1>8. VersionStep /\ \A q \in Pages : entry'[q].version # 0 => Owned(q, entry[q].version)'
  <2>1. \A q \in Pages : entry'[q].version \in {0, entry[q].version} BY <1>5
  <2>2. VersionStep BY <1>1, <1>2, <2>1 DEF VersionStep
  <2>3. \A q \in Pages : entry'[q].version # 0 => entry'[q].version = entry[q].version BY <2>1
  <2>4. QED BY <1>1, <1>2, <2>2, <2>3 DEF VersionsInv, Owned
<1>9. LoadedInv'
  <2>1. \A q \in Pages : entry'[q].version # 0 => entry'[q].metrics \in {0, acked'[q]}
    BY <1>1, <1>5, <1>7 DEF LoadedInv
  <2>2. ASSUME NEW o \in Range(models') PROVE o.content = acked'[o.page]
    <3>1. o \in Range(models) /\ o.page \notin P BY <1>5
    <3>2. o.page \in Pages /\ o.version # 0
      <4>1. models \in Seq(Models) BY <1>1 DEF ModelsKept
      <4>2. o \in Models BY <3>1, <4>1, RangeFinite
      <4>3. QED BY <4>2 DEF Models
    <3>3. entry[o.page].version # 0 BY <1>1, <3>1, <3>2 DEF ModelsLive
    <3>4. QED BY <1>1, <1>7, <3>1, <3>2, <3>3 DEF LoadedInv
  <2>3. ASSUME NEW b \in Range(bitmaps'), b.key.version = entry'[b.page].version
        PROVE  b.content = acked'[b.page]
    <3>1. b \in Range(bitmaps) BY <1>2
    <3>2. b.page \in Pages /\ b.key.version # 0
      <4>1. bitmaps \in Seq(Bitmaps) BY <1>1 DEF BitmapsKept
      <4>2. b \in Bitmaps BY <3>1, <4>1, RangeFinite
      <4>3. QED BY <4>2 DEF Bitmaps, Keys
    <3>3. b.page \notin P /\ entry[b.page].version = b.key.version BY <1>5, <2>3, <3>2
    <3>4. QED BY <1>1, <1>7, <3>1, <3>2, <3>3 DEF LoadedInv
  <2>4. QED BY <2>1, <2>2, <2>3 DEF LoadedInv
<1>10. ClosedInv'
  <2> SUFFICES ASSUME phase # "open"
               PROVE  /\ models' = <<>>
                      /\ \A q \in Pages : entry'[q].version # 0 => entry'[q].metrics = 0
      BY <1>1, <1>2 DEF ClosedInv
  <2>1. Range(models) = {} BY <1>1 DEF ClosedInv, Range
  <2>2. Range(models') = {} BY <1>5, <2>1
  <2>3. models' = <<>> BY <1>5, <2>2, EmptyRange DEF ModelsKept
  <2>4. QED BY <1>1, <1>5, <2>3 DEF ClosedInv
<1>11. PICK m : m = Unposted OBVIOUS
<1>12. /\ m \in Questions \cup Commits /\ Posts(m)
       /\ m.op \notin Loads \cup {"close"} /\ m.op # "render"
  BY <1>2, <1>11, UnpostedIs
<1>13. RenderInv'
  <2>1. Arrives BY DEF Arrives
  <2>2. QED BY <1>1, <1>2, <1>12, <2>1, RenderKept
<1>14. phase' \in {"open", "closing", "closed"} BY <1>1, <1>2 DEF ClientTyped
<1>15. Takes(a, m)
  BY <1>1, <1>2, <1>5, <1>6, <1>8, <1>9, <1>10, <1>12, <1>13, <1>14 DEF Takes
<1>16. QED BY <1>15, TakingKeeps

LEMMA ReceiveCloseKeeps ==
  ASSUME IndInv, replies # <<>>, replies' = Tail(replies), UNCHANGED workerVars,
         NEW a, a = Head(replies), a.to.op = "close", ReceiveClose(a.result)
  PROVE  IndInv'
<1>1. /\ ClientTyped /\ WorkerTyped /\ VersionsInv /\ RenderInv /\ LoadedInv /\ ClosingInv
      /\ ClosedInv /\ ModelsLive /\ ModelsKept(models, bytes) /\ BitmapsKept(bitmaps, pixels)
      /\ sequence \in Nat
  BY DEF IndInv, TypeInv, ClientTyped
<1>2. /\ requests' = requests /\ acked' = acked /\ entry' = entry /\ sequence' = sequence
      /\ models' = models /\ bytes' = bytes /\ waiting' = waiting /\ running' = running
      /\ bitmaps' = bitmaps /\ pixels' = pixels /\ epoch' = epoch /\ serving' = serving
      /\ phase' = IF a.result = 0 THEN "open" ELSE "closed"
  BY DEF ReceiveClose, pageVars, rasterVars, workerVars
<1>3. phase = "closing"
  <2>1. 1 \in DOMAIN replies /\ replies[1] = a BY <1>1, ArriveIndex
  <2>2. QED BY <1>1, <2>1 DEF ClosingInv
<1>4. ClosingInv' BY <1>1, <1>2, ClosingOver
<1>5. ClosedInv' BY <1>1, <1>2, <1>3 DEF ClosedInv
<1>6. VersionStep /\ \A q \in Pages : entry'[q].version # 0 => Owned(q, entry[q].version)'
  <2>1. VersionStep BY <1>1, <1>2 DEF VersionStep
  <2>2. QED BY <1>1, <1>2, <2>1 DEF VersionsInv, Owned
<1>7. LoadedInv' /\ ModelsLive' BY <1>1, <1>2 DEF LoadedInv, ModelsLive
<1>8. PICK m : m = Unposted OBVIOUS
<1>9. /\ m \in Questions \cup Commits /\ Posts(m)
      /\ m.op \notin Loads \cup {"close"} /\ m.op # "render"
  BY <1>2, <1>8, UnpostedIs
<1>10. RenderInv'
  <2>1. Arrives BY DEF Arrives
  <2>2. QED BY <1>1, <1>2, <1>9, <2>1, RenderKept
<1>11. ~IsCommit(a) BY DEF IsCommit
<1>12. /\ phase' \in {"open", "closing", "closed"} /\ acked' \in [Pages -> Nat \ {0}]
       /\ entry' \in [Pages -> Entries(sequence')] /\ sequence' \in Nat
  BY <1>1, <1>2 DEF ClientTyped
<1>13. Takes(a, m)
  BY <1>1, <1>2, <1>4, <1>5, <1>6, <1>7, <1>9, <1>10, <1>11, <1>12 DEF Takes
<1>14. QED BY <1>13, TakingKeeps

LEMMA ReceiveKeeps == ASSUME IndInv, Receive PROVE IndInv'
<1>1. replies # <<>> /\ replies' = Tail(replies) /\ UNCHANGED workerVars BY DEF Receive
<1>2. PICK a : a = Head(replies) OBVIOUS
<1>3. CASE a.to.op = "metrics" /\ ReceiveMetrics(a.to, a.result)
  BY <1>1, <1>2, <1>3, ReceiveMetricsKeeps
<1>4. CASE a.to.op = "model" /\ ReceiveModel(a.to, a.result)
  BY <1>1, <1>2, <1>4, ReceiveModelKeeps
<1>5. CASE a.to.op = "render" /\ ReceiveRender(a.result)
  BY <1>1, <1>2, <1>5, ReceiveRenderKeeps
<1>6. CASE a.to.op = "commit" /\ ReceiveCommit(a)
  BY <1>1, <1>2, <1>6, ReceiveCommitKeeps
<1>7. CASE a.to.op = "close" /\ ReceiveClose(a.result)
  BY <1>1, <1>2, <1>7, ReceiveCloseKeeps
<1>8. QED BY <1>2, <1>3, <1>4, <1>5, <1>6, <1>7 DEF Receive

----------------------------------------------------------------------------
(* Part 11: every step, and the theorems *)

LEMMA IndInvKept == IndInv /\ [Next]_vars => IndInv'
<1> SUFFICES ASSUME IndInv, [Next]_vars PROVE IndInv' OBVIOUS
<1>1. ASSUME NEW p \in Pages, ReadVersion(p) PROVE IndInv'
  BY <1>1, ReadVersionAsks, AskingKeeps
<1>2. ASSUME NEW p \in Pages, DescribeMetrics(p) PROVE IndInv'
  BY <1>2, DescribeMetricsAsks, AskingKeeps
<1>3. ASSUME NEW p \in Pages, DescribePage(p) PROVE IndInv'
  BY <1>3, DescribePageAsks, AskingKeeps
<1>4. ASSUME NEW changed \in SUBSET Pages, NEW after \in SUBSET Pages, Commit(changed, after)
      PROVE  IndInv'
  BY <1>4, CommitKeeps
<1>5. ASSUME NEW p \in Pages, NEW s \in Scales, RequestBitmap(p, s) PROVE IndInv'
  BY <1>5, RequestBitmapAsks, AskingKeeps
<1>6. ASSUME NEW k \in waiting, StartRender(k) PROVE IndInv'
  <2>1. PICK p : p = k.page OBVIOUS
  <2>2. p \in Pages /\ \E m : Asks(p, m) BY <1>6, <2>1, StartRenderAsks
  <2>3. QED BY <2>2, AskingKeeps
<1>7. ASSUME ClearBitmaps PROVE IndInv' BY <1>7, ClearBitmapsKeeps
<1>8. ASSUME Close PROVE IndInv' BY <1>8, CloseKeeps
<1>9. ASSUME Answering PROVE IndInv' BY <1>9, AnsweringKeeps
<1>10. ASSUME Receive PROVE IndInv' BY <1>10, ReceiveKeeps
<1>11. ASSUME UNCHANGED vars PROVE IndInv'
  <2>1. /\ revision' = revision /\ content' = content /\ serving' = serving
        /\ sessionMetrics' = sessionMetrics /\ sessionModels' = sessionModels
        /\ requests' = requests /\ replies' = replies /\ phase' = phase /\ acked' = acked
        /\ entry' = entry /\ sequence' = sequence /\ models' = models /\ bytes' = bytes
        /\ waiting' = waiting /\ running' = running /\ bitmaps' = bitmaps /\ pixels' = pixels
        /\ epoch' = epoch
    BY <1>11 DEF vars, workerVars, sessionVars, pageVars, rasterVars
  <2>2. TypeInv'
    BY <2>1 DEF IndInv, TypeInv, ClientTyped, WorkerTyped, ModelsKept, BitmapsKept, ModelsLive
  <2>3. VersionsInv' /\ RenderInv' BY <2>1 DEF IndInv, VersionsInv, Owned, RenderInv
  <2>4. ChainInv' BY <2>1 DEF IndInv, ChainInv, IsCommit
  <2>5. SessionInv' /\ LoadedInv' BY <2>1 DEF IndInv, SessionInv, LoadedInv
  <2>6. ClosingInv' BY <2>1 DEF IndInv, ClosingInv, Dead, Live
  <2>7. ClosedInv' BY <2>1 DEF IndInv, ClosedInv
  <2>8. QED BY <2>2, <2>3, <2>4, <2>5, <2>6, <2>7 DEF IndInv
<1>12. QED
  BY <1>1, <1>2, <1>3, <1>4, <1>5, <1>6, <1>7, <1>8, <1>9, <1>10, <1>11 DEF Next

\* Everything the invariant says, for ever.
LEMMA IndInvAlways == Spec => []IndInv
BY InitIndInv, IndInvKept, PTL DEF Spec

\* The client's state keeps its types, and both caches count what they retain, within
\* their limits, no version and no bitmap twice, and no model without an entry
\* (page-cache.ts:38-51, raster-cache.ts:104-137).
THEOREM CacheTypes == Spec => []TypeOK
BY IndInvAlways, IndInvImplies, PTL

\* Whatever loads, commits and closes were under way when it was loaded, what is
\* answered from the page cache is the page as the last acknowledged commit left it
\* (page-cache.ts:60, 77, 91).
THEOREM CacheLoadedIsCurrent == Spec => []LoadedIsCurrent
BY IndInvAlways, IndInvImplies, PTL

\* So is every bitmap a request at the present version and epoch is given
\* (raster-cache.ts:77-87).
THEOREM CacheBitmapIsCurrent == Spec => []BitmapIsCurrent
BY IndInvAlways, IndInvImplies, PTL

\* Nothing is retained of a document from the moment it is being closed, and no late
\* load or render brings any of it back (raster-cache.test.ts:51).
THEOREM CacheClosedHoldsNothing == Spec => []ClosedHoldsNothing
BY IndInvAlways, IndInvImplies, PTL

=============================================================================
