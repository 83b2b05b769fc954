------------------------ MODULE GatewayLedger_proofs ------------------------
(***************************************************************************)
(* Proofs about GatewayLedger: the ledger balances, the free allowance     *)
(* holds, the slots are counted right.  The first part says of sums over   *)
(* finite sets what the ledger needs.                                      *)
(***************************************************************************)
EXTENDS GatewayLedger, FiniteSetTheorems, TLAPS

(* Sums *)

\* g gives every subset of S the sum of f over it, the way the fold computes it.
SumRec(f, S, g) ==
  g = [s \in SUBSET S |-> IF s = {} THEN 0
                          ELSE f[CHOOSE x \in s : TRUE] + g[s \ {CHOOSE x \in s : TRUE}]]

\* Every non-empty set of subsets of a finite set has a smallest one.  It takes
\* the place of an induction on the set.
LEMMA SmallestSubset ==
  ASSUME NEW S, IsFiniteSet(S), NEW C, C \subseteq SUBSET S, C # {}
  PROVE  \E s \in C : \A t \in C : t \subseteq s => t = s
<1>1. IsWellFoundedOn(StrictSubsetOrdering(S), SUBSET S)
  BY FS_StrictSubsetOrderingWellFounded, FS_FiniteSubsetsOfFinite
<1>2. PICK s \in C : \A t \in C : <<t, s>> \notin StrictSubsetOrdering(S)
  BY <1>1, WFMin
<1>3. QED BY <1>2 DEF StrictSubsetOrdering

\* Two such functions agree wherever the functions they sum agree.
LEMMA SumRecAgrees ==
  ASSUME NEW S, IsFiniteSet(S), NEW T \in SUBSET S, NEW e, NEW f, NEW g, NEW h,
         SumRec(e, S, g), SumRec(f, T, h), \A x \in T : e[x] = f[x]
  PROVE  \A s \in SUBSET T : g[s] = h[s]
<1> DEFINE C == {s \in SUBSET T : g[s] # h[s]}
<1> SUFFICES ASSUME C # {} PROVE FALSE OBVIOUS
<1>1. IsFiniteSet(T) BY FS_Subset
<1>2. PICK s \in C : \A t \in C : t \subseteq s => t = s
  <2>1. C \subseteq SUBSET T OBVIOUS
  <2> HIDE DEF C
  <2>2. QED BY <1>1, <2>1, SmallestSubset
<1> DEFINE x == CHOOSE y \in s : TRUE
<1>3. s # {} BY <1>2 DEF SumRec
<1>4. x \in s BY <1>3
<1>5. g[s \ {x}] = h[s \ {x}] BY <1>2, <1>4
<1>6. g[s] = e[x] + g[s \ {x}] BY <1>2, <1>3 DEF SumRec
<1>7. h[s] = f[x] + h[s \ {x}] BY <1>2, <1>3 DEF SumRec
<1>8. QED BY <1>2, <1>4, <1>5, <1>6, <1>7

\* There is such a function: a smallest subset without one could be given one.
LEMMA SumRecExists ==
  ASSUME NEW S, IsFiniteSet(S), NEW f
  PROVE  \E g : SumRec(f, S, g)
<1> DEFINE C == {s \in SUBSET S : ~ \E g : SumRec(f, s, g)}
<1> SUFFICES ASSUME C # {} PROVE FALSE OBVIOUS
<1>2. PICK s \in C : \A t \in C : t \subseteq s => t = s
  <2>1. C \subseteq SUBSET S OBVIOUS
  <2> HIDE DEF C
  <2>2. QED BY <2>1, SmallestSubset
<1> DEFINE P == (SUBSET s) \ {s}
           G(t) == CHOOSE g : SumRec(f, t, g)
           x(t) == CHOOSE y \in t : TRUE
           k == [t \in SUBSET s |-> IF t = {} THEN 0 ELSE f[x(t)] + G(t \ {x(t)})[t \ {x(t)}]]
<1>3. ASSUME NEW t \in P PROVE SumRec(f, t, G(t))
  <2>1. t \notin C BY <1>2
  <2>2. \E g : SumRec(f, t, g) BY <1>2, <2>1
  <2>3. QED BY <2>2
<1>4. ASSUME NEW t \in P PROVE k[t] = G(t)[t]
  <2>1. G(t)[t] = IF t = {} THEN 0 ELSE f[x(t)] + G(t)[t \ {x(t)}] 
    <3>1. t \in SUBSET t OBVIOUS
    <3> HIDE DEF G
    <3>2. SumRec(f, t, G(t)) BY <1>3
    <3>3. QED BY <3>1, <3>2 DEF SumRec
  <2>2. CASE t = {} BY <2>1, <2>2
  <2>3. CASE t # {}
    <3>1. x(t) \in t BY <2>3
    <3> DEFINE u == t \ {x(t)}
    <3>2. u \in P /\ u \in SUBSET t BY <3>1
    <3>3. IsFiniteSet(t) BY <1>2, FS_Subset
    <3> HIDE DEF G, u
    <3>4. SumRec(f, t, G(t)) /\ SumRec(f, u, G(u)) BY <1>3, <3>2
    <3>5. G(t)[u] = G(u)[u] BY <3>2, <3>3, <3>4, SumRecAgrees
    <3>6. QED BY <2>1, <2>3, <3>5 DEF u
  <2>4. QED BY <2>2, <2>3
<1>5. k = [t \in SUBSET s |-> IF t = {} THEN 0 ELSE f[x(t)] + k[t \ {x(t)}]]
  <2>1. ASSUME NEW t \in SUBSET s, t # {} PROVE k[t] = f[x(t)] + k[t \ {x(t)}]
    <3>1. x(t) \in t BY <2>1
    <3>2. t \ {x(t)} \in P BY <3>1
    <3>3. QED BY <1>4, <2>1, <3>2
  <2>2. k[{}] = 0 OBVIOUS
  <2>3. k = [t \in SUBSET s |-> k[t]] OBVIOUS
  <2> HIDE DEF k
  <2>4. \A t \in SUBSET s : k[t] = IF t = {} THEN 0 ELSE f[x(t)] + k[t \ {x(t)}]
    BY <2>1, <2>2
  <2>5. QED BY <2>3, <2>4
<1>6. SumRec(f, s, k) BY <1>5 DEF SumRec
<1>7. QED BY <1>2, <1>6

\* The sum of a finite set is the value such a function gives it.
LEMMA SumIs ==
  ASSUME NEW S, IsFiniteSet(S), NEW f
  PROVE  \E g : SumRec(f, S, g) /\ SumFunctionOnSet(f, S) = g[S]
<1> DEFINE g == CHOOSE g : SumRec(f, S, g)
<1>1. SumRec(f, S, g) BY SumRecExists
<1>2. SumFunctionOnSet(f, S) = g[S]
  BY DEF SumFunctionOnSet, FoldFunctionOnSet, MapThenFoldSet, SumRec
<1>3. QED BY <1>1, <1>2

\* The empty sum.
LEMMA SumEmpty == ASSUME NEW f PROVE SumFunctionOnSet(f, {}) = 0
<1>1. PICK g : SumRec(f, {}, g) /\ SumFunctionOnSet(f, {}) = g[{}] BY SumIs, FS_EmptySet
<1>2. QED BY <1>1 DEF SumRec

\* A sum depends on the values of its own elements only.
LEMMA SumSame ==
  ASSUME NEW S, IsFiniteSet(S), NEW e, NEW f, \A x \in S : e[x] = f[x]
  PROVE  SumFunctionOnSet(e, S) = SumFunctionOnSet(f, S)
<1>1. PICK g : SumRec(e, S, g) /\ SumFunctionOnSet(e, S) = g[S] BY SumIs
<1>2. PICK h : SumRec(f, S, h) /\ SumFunctionOnSet(f, S) = h[S] BY SumIs
<1>3. S \in SUBSET S OBVIOUS
<1>4. g[S] = h[S] BY <1>1, <1>2, <1>3, SumRecAgrees
<1>5. QED BY <1>1, <1>2, <1>4

\* Some element can be taken out of a sum...
LEMMA SumStep ==
  ASSUME NEW S, IsFiniteSet(S), S # {}, NEW f
  PROVE  \E x \in S : SumFunctionOnSet(f, S) = f[x] + SumFunctionOnSet(f, S \ {x})
<1>1. PICK g : SumRec(f, S, g) /\ SumFunctionOnSet(f, S) = g[S] BY SumIs
<1> DEFINE x == CHOOSE y \in S : TRUE
           T == S \ {x}
<1>2. x \in S OBVIOUS
<1>3. g[S] = f[x] + g[T] BY <1>1 DEF SumRec
<1>4. T \in SUBSET S /\ IsFiniteSet(T) BY FS_RemoveElement
<1> HIDE DEF x, T
<1>5. PICK h : SumRec(f, T, h) /\ SumFunctionOnSet(f, T) = h[T] BY <1>4, SumIs
<1>6. g[T] = h[T] BY <1>1, <1>4, <1>5, SumRecAgrees
<1>7. QED BY <1>1, <1>2, <1>3, <1>5, <1>6 DEF T

\* A sum of integers is one.
LEMMA SumInt ==
  ASSUME NEW S, IsFiniteSet(S), NEW f, \A x \in S : f[x] \in Int
  PROVE  SumFunctionOnSet(f, S) \in Int
<1> DEFINE C == {s \in SUBSET S : SumFunctionOnSet(f, s) \notin Int}
<1> SUFFICES ASSUME C # {} PROVE FALSE OBVIOUS
<1>1. PICK s \in C : \A t \in C : t \subseteq s => t = s
  <2>1. C \subseteq SUBSET S OBVIOUS
  <2> HIDE DEF C
  <2>2. QED BY <2>1, SmallestSubset
<1>2. s # {}
  <2>1. SumFunctionOnSet(f, {}) = 0 BY SumEmpty
  <2>2. SumFunctionOnSet(f, s) \notin Int OBVIOUS
  <2>3. QED BY <2>1, <2>2
<1>3. IsFiniteSet(s) BY <1>1, FS_Subset
<1>4. PICK x \in s : SumFunctionOnSet(f, s) = f[x] + SumFunctionOnSet(f, s \ {x})
  BY <1>2, <1>3, SumStep
<1>5. SumFunctionOnSet(f, s \ {x}) \in Int BY <1>1, <1>4
<1>6. QED BY <1>1, <1>4, <1>5

\* ...and then any element can.
LEMMA SumWithout ==
  ASSUME NEW S, IsFiniteSet(S), NEW f, \A x \in S : f[x] \in Int, NEW y \in S
  PROVE  SumFunctionOnSet(f, S) = f[y] + SumFunctionOnSet(f, S \ {y})
<1> DEFINE Sum(s) == SumFunctionOnSet(f, s)
           C == {s \in SUBSET S : \E z \in s : Sum(s) # f[z] + Sum(s \ {z})}
<1> SUFFICES ASSUME C # {} PROVE FALSE OBVIOUS
<1>1. PICK s \in C : \A t \in C : t \subseteq s => t = s
  <2>1. C \subseteq SUBSET S OBVIOUS
  <2> HIDE DEF C
  <2>2. QED BY <2>1, SmallestSubset
<1>2. PICK z \in s : Sum(s) # f[z] + Sum(s \ {z}) OBVIOUS
<1>3. IsFiniteSet(s) BY <1>1, FS_Subset
<1>4. PICK x \in s : Sum(s) = f[x] + Sum(s \ {x}) BY <1>2, <1>3, SumStep
<1>5. x # z BY <1>2, <1>4
<1> DEFINE rest == s \ {x, z}
<1>6. (s \ {x}) \ {z} = rest /\ (s \ {z}) \ {x} = rest OBVIOUS
<1>7. IsFiniteSet(rest) /\ rest \in SUBSET S BY <1>1, <1>3, FS_Subset
<1>8. f[x] \in Int /\ f[z] \in Int BY <1>1, <1>2, <1>4
<1> HIDE DEF rest, Sum
<1>9. Sum(rest) \in Int BY <1>7, SumInt DEF Sum
<1>10. Sum(s \ {x}) = f[z] + Sum(rest)
  <2>1. s \ {x} \notin C BY <1>1, <1>4
  <2>2. z \in s \ {x} /\ s \ {x} \in SUBSET S BY <1>1, <1>2, <1>5
  <2>3. QED BY <1>6, <2>1, <2>2
<1>11. Sum(s \ {z}) = f[x] + Sum(rest)
  <2>1. s \ {z} \notin C BY <1>1, <1>2
  <2>2. x \in s \ {z} /\ s \ {z} \in SUBSET S BY <1>1, <1>4, <1>5
  <2>3. QED BY <1>6, <2>1, <2>2
<1>12. QED BY <1>2, <1>4, <1>8, <1>9, <1>10, <1>11

\* One element more, under a function changed there only.
LEMMA SumWith ==
  ASSUME NEW S, IsFiniteSet(S), NEW f, NEW g, \A x \in S : f[x] \in Int /\ g[x] = f[x],
         NEW y, y \notin S, g[y] \in Int
  PROVE  SumFunctionOnSet(g, S \cup {y}) = g[y] + SumFunctionOnSet(f, S)
<1>1. IsFiniteSet(S \cup {y}) BY FS_AddElement
<1>2. (S \cup {y}) \ {y} = S OBVIOUS
<1>3. SumFunctionOnSet(g, S \cup {y}) = g[y] + SumFunctionOnSet(g, (S \cup {y}) \ {y})
  BY <1>1, SumWithout
<1>4. SumFunctionOnSet(g, S) = SumFunctionOnSet(f, S) BY SumSame
<1>5. QED BY <1>2, <1>3, <1>4

\* A part sums to no more than the whole.
LEMMA SumOfPart ==
  ASSUME NEW S, IsFiniteSet(S), NEW f, \A x \in S : f[x] \in Nat, NEW T \in SUBSET S
  PROVE  SumFunctionOnSet(f, T) <= SumFunctionOnSet(f, S)
<1> DEFINE C == {s \in SUBSET S : T \subseteq s /\ ~(SumFunctionOnSet(f, T) <= SumFunctionOnSet(f, s))}
<1> SUFFICES ASSUME C # {} PROVE FALSE OBVIOUS
<1>1. PICK s \in C : \A t \in C : t \subseteq s => t = s
  <2>1. C \subseteq SUBSET S OBVIOUS
  <2> HIDE DEF C
  <2>2. QED BY <2>1, SmallestSubset
<1>2. IsFiniteSet(s) /\ IsFiniteSet(T) BY <1>1, FS_Subset
<1>3. SumFunctionOnSet(f, T) \in Int BY <1>2, SumInt
<1>4. PICK y \in s : y \notin T BY <1>3
<1>5. SumFunctionOnSet(f, s) = f[y] + SumFunctionOnSet(f, s \ {y}) BY <1>1, <1>2, SumWithout
<1>6. SumFunctionOnSet(f, T) <= SumFunctionOnSet(f, s \ {y}) BY <1>1, <1>4
<1>7. IsFiniteSet(s \ {y}) BY <1>2, FS_RemoveElement
<1>8. SumFunctionOnSet(f, s \ {y}) \in Int BY <1>1, <1>7, SumInt
<1>9. QED BY <1>1, <1>3, <1>5, <1>6, <1>8

----------------------------------------------------------------------------
(* The inductive invariant *)

\* TypeOK but for the slots.
Typed ==
  /\ phase \in [Requests -> {"new", "arrived", "admitted", "reserved", "streaming", "ending",
                             "flushing", "over"}]
  /\ conn \in [Requests -> {"open", "closed"}]
  /\ early \subseteq Requests /\ held \subseteq Requests /\ complete \subseteq Requests
  /\ perIp \in [Ips -> Nat]
  /\ charges \in [Requests -> [reserved : Nat, bound : Nat] \cup {None}]
  /\ observed \in [Requests -> Nat \cup {None}] /\ delivered \in [Requests -> Nat]
  /\ member \subseteq Users /\ spent \in [Users -> Nat]
  /\ row \in [Requests -> Nat \cup {None}] /\ lease \in [Requests -> Nat \cup {None}]
  /\ expired \subseteq Requests /\ free \subseteq Requests
  /\ faults \in 0..MaxFaults /\ restarts \in 0..MaxRestarts

\* Nothing is reserved yet.
Early == {"new", "arrived", "admitted"}

\* What a request has at each phase of its handler.
PhasesInv ==
  \A r \in Requests :
    /\ phase[r] \in {"new", "arrived"} => r \notin held
    /\ phase[r] \in Early => /\ charges[r] = None /\ observed[r] = None
                             /\ lease[r] = None /\ row[r] = None /\ r \notin free
    /\ phase[r] \in {"reserved", "streaming"} => charges[r] # None
    /\ phase[r] = "flushing" => charges[r] = None
    /\ r \in expired => phase[r] = "over"

\* A reservation that is not settled has its lease and no row; without one there is
\* a lease only after a restart.
ChargesInv ==
  \A r \in Requests :
    /\ charges[r] # None => /\ row[r] = None /\ lease[r] = charges[r].reserved
                            /\ r \in free => charges[r].reserved = charges[r].bound
                            /\ observed[r] # None => observed[r] <= charges[r].bound
    /\ charges[r] = None /\ lease[r] # None => restarts > 0

\* Every part but the first rests on the others.
GatewayInv ==
  /\ Typed /\ SlotsCounted /\ PhasesInv /\ ChargesInv
  /\ LedgerBalances /\ FreeWithinAllowance /\ PartialPaysDelivered /\ NoLeaseLeftBehind

\* The counters are naturals.
LEMMA SlotsNat ==
  ASSUME Typed, SlotsCounted
  PROVE  total \in Nat /\ images \in Nat
<1>1. IsFiniteSet(held) BY GatewayAssumption, FS_Subset DEF Typed
<1>2. IsFiniteSet(held \cap Image) BY <1>1, FS_Subset
<1>3. QED BY <1>1, <1>2, FS_CardinalityType DEF SlotsCounted

\* A slot given back is taken off every count it was in, once.
LEMMA ReleaseCounts ==
  ASSUME Typed, SlotsCounted, NEW r \in Requests, Release(r)
  PROVE  SlotsCounted' /\ held' \subseteq held /\ perIp' \in [Ips -> Nat]
<1>1. CASE r \notin held BY <1>1 DEF Release, slots, SlotsCounted, Typed
<1>2. CASE r \in held
  <2>1. /\ held' = held \ {r} /\ total' = total - 1
        /\ images' = IF r \in Image THEN images - 1 ELSE images
        /\ perIp' = [perIp EXCEPT ![IpOf[r]] = Greater(0, @ - 1)]
    BY <1>2 DEF Release
  <2>2. IsFiniteSet(held) BY GatewayAssumption, FS_Subset DEF Typed
  <2>3. total' = Cardinality(held') BY <1>2, <2>1, <2>2, FS_RemoveElement DEF SlotsCounted
  <2>4. images' = Cardinality(held' \cap Image)
    <3>1. IsFiniteSet(held \cap Image) BY <2>2, FS_Subset
    <3>2. held' \cap Image = (held \cap Image) \ {r} BY <2>1
    <3>3. QED BY <1>2, <2>1, <3>1, <3>2, FS_RemoveElement DEF SlotsCounted
  <2>5. ASSUME NEW i \in Ips
        PROVE  perIp'[i] = Cardinality({q \in held' : IpOf[q] = i})
    <3> DEFINE Here == {q \in held : IpOf[q] = i}
               There == {q \in held' : IpOf[q] = i}
    <3>1. IsFiniteSet(Here) BY <2>2, FS_Subset
    <3>2. There = Here \ {r} BY <2>1
    <3>3. perIp[i] = Cardinality(Here) BY DEF SlotsCounted
    <3>4. r \in Here <=> IpOf[r] = i BY <1>2
    <3>5. perIp'[i] = IF IpOf[r] = i THEN Greater(0, perIp[i] - 1) ELSE perIp[i] BY <2>1 DEF Typed
    <3> HIDE DEF Here, There
    <3>6. Cardinality(There) = IF r \in Here THEN Cardinality(Here) - 1 ELSE Cardinality(Here)
      BY <3>1, <3>2, FS_RemoveElement
    <3>7. Cardinality(Here) \in Nat /\ Cardinality(There) \in Nat
      BY <3>1, <3>2, FS_RemoveElement, FS_CardinalityType
    <3>8. perIp'[i] = Cardinality(There) BY <3>3, <3>4, <3>5, <3>6, <3>7 DEF Greater
    <3>9. QED BY <3>8 DEF There
  <2>6. total' <= InFlight /\ images' <= ImageInFlight
    <3>1. total \in Nat /\ images \in Nat BY SlotsNat
    <3>2. QED BY <2>1, <3>1, GatewayAssumption DEF SlotsCounted
  <2>7. ASSUME NEW i \in Ips PROVE perIp'[i] <= PerIpInFlight
    <3>1. perIp'[i] \in {perIp[i], Greater(0, perIp[i] - 1)} BY <2>1 DEF Typed
    <3>2. perIp[i] \in Nat /\ perIp[i] <= PerIpInFlight BY DEF Typed, SlotsCounted
    <3>3. QED BY <3>1, <3>2, GatewayAssumption DEF Greater
  <2>8. perIp' \in [Ips -> Nat] BY <2>1, GatewayAssumption DEF Typed, Greater
  <2>9. QED BY <2>1, <2>3, <2>4, <2>5, <2>6, <2>7, <2>8 DEF SlotsCounted
<1>3. QED BY <1>1, <1>2

\* A slot taken is a new one, and the limits are looked at first.
LEMMA AdmitCounts ==
  ASSUME Typed, SlotsCounted, PhasesInv, NEW r \in Requests, Admit(r)
  PROVE  SlotsCounted'
<1>1. /\ held' = held \cup {r} /\ total' = total + 1
      /\ images' = IF r \in Image THEN images + 1 ELSE images
      /\ perIp' = [perIp EXCEPT ![IpOf[r]] = @ + 1]
      /\ perIp[IpOf[r]] < PerIpInFlight /\ total < InFlight /\ (r \in Image => images < ImageInFlight)
  BY DEF Admit
<1>2. r \notin held BY DEF Admit, PhasesInv
<1>3. IsFiniteSet(held) BY GatewayAssumption, FS_Subset DEF Typed
<1>4. total' = Cardinality(held') BY <1>1, <1>2, <1>3, FS_AddElement DEF SlotsCounted
<1>5. images' = Cardinality(held' \cap Image)
  <2>1. IsFiniteSet(held \cap Image) BY <1>3, FS_Subset
  <2>2. held' \cap Image = IF r \in Image THEN (held \cap Image) \cup {r} ELSE held \cap Image
    BY <1>1
  <2>3. QED BY <1>1, <1>2, <2>1, <2>2, FS_AddElement DEF SlotsCounted
<1>6. ASSUME NEW i \in Ips
      PROVE  perIp'[i] = Cardinality({q \in held' : IpOf[q] = i})
  <2> DEFINE Here == {q \in held : IpOf[q] = i}
  <2>1. IsFiniteSet(Here) BY <1>3, FS_Subset
  <2>2. {q \in held' : IpOf[q] = i} = IF IpOf[r] = i THEN Here \cup {r} ELSE Here BY <1>1
  <2>3. Cardinality(Here \cup {r}) = Cardinality(Here) + 1 BY <1>2, <2>1, FS_AddElement
  <2>4. perIp[i] = Cardinality(Here) BY DEF SlotsCounted
  <2> HIDE DEF Here
  <2>5. QED BY <1>1, <2>2, <2>3, <2>4 DEF Typed
<1>7. total' <= InFlight /\ images' <= ImageInFlight
  <2>1. total \in Nat /\ images \in Nat BY SlotsNat
  <2>2. QED BY <1>1, <2>1, GatewayAssumption DEF SlotsCounted
<1>8. ASSUME NEW i \in Ips PROVE perIp'[i] <= PerIpInFlight
  <2>1. perIp'[i] = IF IpOf[r] = i THEN perIp[i] + 1 ELSE perIp[i] BY <1>1 DEF Typed
  <2>2. perIp[i] \in Nat /\ perIp[i] <= PerIpInFlight BY DEF Typed, SlotsCounted
  <2>3. QED BY <1>1, <2>1, <2>2, GatewayAssumption
<1>9. QED BY <1>4, <1>5, <1>6, <1>7, <1>8 DEF SlotsCounted

\* No slot is held.
LEMMA NoneCounted ==
  ASSUME held = {}, total = 0, images = 0, perIp = [i \in Ips |-> 0]
  PROVE  SlotsCounted
<1>1. held \cap Image = {} /\ \A i \in Ips : {q \in held : IpOf[q] = i} = {} OBVIOUS
<1>2. QED BY <1>1, FS_EmptySet, GatewayAssumption DEF SlotsCounted

----------------------------------------------------------------------------
\* What is charged is within the reservation of a free account, and within what was
\* delivered where nothing else is known.
LEMMA ChargeWithin ==
  ASSUME Typed, ChargesInv, NEW r \in Requests, NEW completed \in BOOLEAN, charges[r] # None
  PROVE  /\ Charge(r, completed) \in Nat /\ lease[r] \in Nat /\ row[r] = None
         /\ r \in free => Charge(r, completed) <= lease[r]
         /\ observed[r] = None /\ ~completed => Charge(r, completed) <= delivered[r]
<1>1. charges[r] \in [reserved : Nat, bound : Nat] BY DEF Typed
<1>2. observed[r] \in Nat \cup {None} /\ delivered[r] \in Nat BY DEF Typed
<1>3. /\ row[r] = None /\ lease[r] = charges[r].reserved
      /\ r \in free => charges[r].reserved = charges[r].bound
      /\ observed[r] # None => observed[r] <= charges[r].bound
  BY DEF ChargesInv
<1>4. QED BY <1>1, <1>2, <1>3 DEF Charge, Lesser

\* The transaction of settle keeps the balance: the row it writes is new.
LEMMA CommitBalances ==
  ASSUME Typed, LedgerBalances, NEW r \in Requests, NEW charged \in Nat, row[r] = None,
         Commit(r, charged)
  PROVE  LedgerBalances' /\ spent' \in [Users -> Nat]
<1>1. /\ row' = [row EXCEPT ![r] = charged]
      /\ spent' = [spent EXCEPT ![UserOf[r]] = @ + charged]
  BY DEF Commit
<1>2. UserOf[r] \in Users BY GatewayAssumption
<1>3. ASSUME NEW u \in Users
      PROVE  spent'[u] = SumFunctionOnSet(row', {q \in Of(u) : row'[q] # None})
  <2> DEFINE Rows == {q \in Of(u) : row[q] # None}
             NewRows == {q \in Of(u) : row'[q] # None}
  <2>1. IsFiniteSet(Rows) BY GatewayAssumption, FS_Subset DEF Of
  <2>2. spent[u] = SumFunctionOnSet(row, Rows) BY DEF LedgerBalances
  <2>3. \A q \in Rows : row[q] \in Int /\ row'[q] = row[q] BY <1>1 DEF Typed, Of
  <2>4. row'[r] = charged /\ charged # None BY <1>1, GatewayAssumption DEF Typed
  <2>5. r \notin Rows OBVIOUS
  <2>6. NewRows = IF u = UserOf[r] THEN Rows \cup {r} ELSE Rows BY <1>1, <2>4 DEF Typed, Of
  <2>7. spent'[u] = IF u = UserOf[r] THEN spent[u] + charged ELSE spent[u]
    BY <1>1, <1>2 DEF Typed
  <2> HIDE DEF Rows, NewRows
  <2>8. SumFunctionOnSet(row, Rows) \in Int BY <2>1, <2>3, SumInt
  <2>9. CASE u = UserOf[r]
    <3>1. SumFunctionOnSet(row', Rows \cup {r}) = row'[r] + SumFunctionOnSet(row, Rows)
      BY <2>1, <2>3, <2>4, <2>5, SumWith
    <3>2. NewRows = Rows \cup {r} BY <2>6, <2>9
    <3>3. SumFunctionOnSet(row', NewRows) = charged + SumFunctionOnSet(row, Rows)
      BY <2>4, <3>1, <3>2
    <3>4. spent'[u] = SumFunctionOnSet(row', NewRows) BY <2>2, <2>7, <2>8, <2>9, <3>3
    <3>5. QED BY <3>4 DEF NewRows
  <2>10. CASE u # UserOf[r]
    <3>1. SumFunctionOnSet(row', Rows) = SumFunctionOnSet(row, Rows) BY <2>1, <2>3, SumSame
    <3>2. QED BY <2>2, <2>6, <2>7, <2>10, <3>1 DEF NewRows
  <2>11. QED BY <2>9, <2>10
<1>4. spent' \in [Users -> Nat] BY <1>1, <1>2 DEF Typed
<1>5. QED BY <1>3, <1>4 DEF LedgerBalances, Of

\* The rows and the leases of an account under the free allowance.
FreeRows(u) == {q \in Of(u) \cap free : row[q] # None}
FreeLeases(u) == {q \in Of(u) \cap free : lease[q] # None /\ q \notin expired}

\* The sums of the free allowance are over finite sets of naturals.
LEMMA FreeSums ==
  ASSUME Typed, NEW u
  PROVE  /\ IsFiniteSet(FreeRows(u)) /\ IsFiniteSet(FreeLeases(u))
         /\ \A q \in FreeRows(u) : row[q] \in Nat
         /\ \A q \in FreeLeases(u) : lease[q] \in Nat
         /\ SumFunctionOnSet(row, FreeRows(u)) \in Int
         /\ SumFunctionOnSet(lease, FreeLeases(u)) \in Int
<1>1. IsFiniteSet(FreeRows(u)) /\ IsFiniteSet(FreeLeases(u))
  BY GatewayAssumption, FS_Subset DEF Of, FreeRows, FreeLeases
<1>2. \A q \in FreeRows(u) : row[q] \in Nat BY DEF Typed, Of, FreeRows
<1>3. \A q \in FreeLeases(u) : lease[q] \in Nat BY DEF Typed, Of, FreeLeases
<1>4. QED BY <1>1, <1>2, <1>3, SumInt

\* The row takes the place of its lease, and is no larger.
LEMMA CommitWithinAllowance ==
  ASSUME Typed, FreeWithinAllowance, NEW r \in Requests, NEW charged \in Nat, row[r] = None,
         lease[r] \in Nat, r \in free => charged <= lease[r], r \notin expired,
         Commit(r, charged), UNCHANGED <<expired, free>>
  PROVE  FreeWithinAllowance'
<1>1. row' = [row EXCEPT ![r] = charged] /\ lease' = [lease EXCEPT ![r] = None] BY DEF Commit
<1>2. ASSUME NEW u \in Users
      PROVE  SumFunctionOnSet(row', FreeRows(u)') + SumFunctionOnSet(lease', FreeLeases(u)') <= Free
  <2>1. SumFunctionOnSet(row, FreeRows(u)) + SumFunctionOnSet(lease, FreeLeases(u)) <= Free
    BY DEF FreeWithinAllowance, FreeRows, FreeLeases
  <2>2. \A q \in FreeRows(u) : row'[q] = row[q] BY <1>1 DEF Typed, FreeRows, Of
  <2>3. \A q \in FreeLeases(u) \ {r} : lease'[q] = lease[q] BY <1>1 DEF Typed, FreeLeases, Of
  <2>4. row'[r] = charged /\ charged # None /\ lease'[r] = None /\ lease[r] # None
    BY <1>1, GatewayAssumption DEF Typed
  <2>5. r \notin FreeRows(u) BY DEF FreeRows
  <2>6. CASE r \in Of(u) \cap free
    <3>1. FreeRows(u)' = FreeRows(u) \cup {r} BY <1>1, <2>4, <2>6 DEF Typed, FreeRows, Of
    <3>2. FreeLeases(u)' = FreeLeases(u) \ {r} BY <1>1, <2>4 DEF Typed, FreeLeases, Of
    <3>3. r \in FreeLeases(u) BY <2>4, <2>6 DEF FreeLeases
    <3>4. SumFunctionOnSet(row', FreeRows(u) \cup {r}) = charged + SumFunctionOnSet(row, FreeRows(u))
      BY <2>2, <2>4, <2>5, FreeSums, SumWith
    <3>5. SumFunctionOnSet(lease, FreeLeases(u)) = lease[r] + SumFunctionOnSet(lease, FreeLeases(u) \ {r})
      BY <3>3, FreeSums, SumWithout
    <3>6. IsFiniteSet(FreeLeases(u) \ {r}) BY FreeSums, FS_RemoveElement
    <3>7. SumFunctionOnSet(lease', FreeLeases(u) \ {r}) = SumFunctionOnSet(lease, FreeLeases(u) \ {r})
      BY <2>3, <3>6, SumSame
    <3>8. SumFunctionOnSet(lease, FreeLeases(u) \ {r}) \in Int BY <3>6, FreeSums, SumInt
    <3>9. SumFunctionOnSet(row, FreeRows(u)) \in Int BY FreeSums
    <3>10. charged <= lease[r] BY <2>6
    <3>11. QED BY <2>1, <3>1, <3>2, <3>4, <3>5, <3>7, <3>8, <3>9, <3>10, GatewayAssumption
  <2>7. CASE r \notin Of(u) \cap free
    <3>1. FreeRows(u)' = FreeRows(u) /\ FreeLeases(u)' = FreeLeases(u)
      BY <1>1, <2>4, <2>7 DEF Typed, FreeRows, FreeLeases, Of
    <3>2. r \notin FreeLeases(u) BY <2>7 DEF FreeLeases
    <3>3. SumFunctionOnSet(row', FreeRows(u)) = SumFunctionOnSet(row, FreeRows(u))
      BY <2>2, FreeSums, SumSame
    <3>4. SumFunctionOnSet(lease', FreeLeases(u)) = SumFunctionOnSet(lease, FreeLeases(u))
      BY <2>3, <3>2, FreeSums, SumSame
    <3>5. QED BY <2>1, <3>1, <3>3, <3>4
  <2>8. QED BY <2>6, <2>7
<1>3. QED BY <1>2 DEF FreeWithinAllowance, FreeRows, FreeLeases, Of

\* What an account used and has reserved is at least the part under the allowance.
LEMMA FreeIsPart ==
  ASSUME Typed, LedgerBalances, NEW u \in Users
  PROVE  /\ Pending(u) \in Int
         /\ SumFunctionOnSet(row, FreeRows(u)) + SumFunctionOnSet(lease, FreeLeases(u))
              <= spent[u] + Pending(u)
<1> DEFINE Rows == {q \in Of(u) : row[q] # None}
           Leases == {q \in Of(u) : lease[q] # None /\ q \notin expired}
<1>1. IsFiniteSet(Rows) /\ IsFiniteSet(Leases) BY GatewayAssumption, FS_Subset DEF Of
<1>2. (\A q \in Rows : row[q] \in Nat) /\ (\A q \in Leases : lease[q] \in Nat) BY DEF Typed, Of
<1>3. FreeRows(u) \in SUBSET Rows /\ FreeLeases(u) \in SUBSET Leases BY DEF FreeRows, FreeLeases
<1>4. spent[u] = SumFunctionOnSet(row, Rows) BY DEF LedgerBalances
<1>5. Pending(u) = SumFunctionOnSet(lease, Leases) BY DEF Pending
<1> HIDE DEF Rows, Leases
<1>6. SumFunctionOnSet(row, FreeRows(u)) <= SumFunctionOnSet(row, Rows)
  BY <1>1, <1>2, <1>3, SumOfPart
<1>7. SumFunctionOnSet(lease, FreeLeases(u)) <= SumFunctionOnSet(lease, Leases)
  BY <1>1, <1>2, <1>3, SumOfPart
<1>8. SumFunctionOnSet(row, Rows) \in Int /\ SumFunctionOnSet(lease, Leases) \in Int
  BY <1>1, <1>2, SumInt
<1>9. SumFunctionOnSet(row, FreeRows(u)) \in Int /\ SumFunctionOnSet(lease, FreeLeases(u)) \in Int
  BY FreeSums
<1>10. QED BY <1>4, <1>5, <1>6, <1>7, <1>8, <1>9

\* What a reservation amounts to: at most what is left of a free account.
LEMMA ReserveBounds ==
  ASSUME Typed, LedgerBalances, NEW r \in Requests, Reserve(r)
  PROVE  \E reserved, bound \in Nat :
           /\ charges' = [charges EXCEPT ![r] = [reserved |-> reserved, bound |-> bound]]
           /\ lease' = [lease EXCEPT ![r] = reserved]
           /\ UserOf[r] \notin member => /\ reserved = bound
                                         /\ bound <= Free - spent[UserOf[r]] - Pending(UserOf[r])
<1> DEFINE u == UserOf[r]
           bound == InputBound[r] + MaxOutput(r)
           reserved == IF u \in member THEN 0 ELSE bound
<1>1. u \in Users /\ spent[u] \in Nat /\ Pending(u) \in Int
  BY GatewayAssumption, FreeIsPart DEF Typed
<1>2. MaxOutput(r) \in Int /\ InputBound[r] \in Nat
  BY <1>1, GatewayAssumption DEF MaxOutput, Available, Lesser
<1>3. bound \in Nat
  <2>1. MaxOutput(r) >= MinOutput[r] /\ MinOutput[r] \in Nat BY GatewayAssumption DEF Reserve
  <2>2. QED BY <1>2, <2>1
<1>4. u \notin member => bound <= Free - spent[u] - Pending(u)
  BY <1>1, <1>2, GatewayAssumption DEF MaxOutput, Available, Lesser
<1>5. /\ charges' = [charges EXCEPT ![r] = [reserved |-> reserved, bound |-> bound]]
      /\ lease' = [lease EXCEPT ![r] = reserved]
  BY DEF Reserve
<1>6. reserved \in Nat /\ (u \notin member => reserved = bound) BY <1>3
<1> HIDE DEF bound, reserved
<1>7. QED BY <1>3, <1>4, <1>5, <1>6

\* A reservation keeps the allowance.
LEMMA ReserveWithinAllowance ==
  ASSUME Typed, PhasesInv, LedgerBalances, FreeWithinAllowance, NEW r \in Requests, Reserve(r)
  PROVE  FreeWithinAllowance'
<1>1. PICK reserved \in Nat, bound \in Nat :
        /\ lease' = [lease EXCEPT ![r] = reserved]
        /\ UserOf[r] \notin member => /\ reserved = bound
                                      /\ bound <= Free - spent[UserOf[r]] - Pending(UserOf[r])
  BY ReserveBounds
<1>2. /\ UNCHANGED <<row, expired>>
      /\ free' = IF UserOf[r] \in member THEN free ELSE free \cup {r}
  BY DEF Reserve
<1>3. r \notin free /\ r \notin expired /\ row[r] = None BY DEF Reserve, PhasesInv, Early
<1>4. ASSUME NEW u \in Users
      PROVE  SumFunctionOnSet(row', FreeRows(u)') + SumFunctionOnSet(lease', FreeLeases(u)') <= Free
  <2>1. SumFunctionOnSet(row, FreeRows(u)) + SumFunctionOnSet(lease, FreeLeases(u)) <= Free
    BY DEF FreeWithinAllowance, FreeRows, FreeLeases
  <2>2. FreeRows(u)' = FreeRows(u) BY <1>2, <1>3 DEF FreeRows, Of
  <2>3. r \notin FreeLeases(u) /\ \A q \in FreeLeases(u) : lease'[q] = lease[q]
    BY <1>1, <1>3 DEF Typed, FreeLeases, Of
  <2>4. lease'[r] = reserved /\ reserved # None BY <1>1, GatewayAssumption DEF Typed
  <2>5. CASE u = UserOf[r] /\ u \notin member
    <3>1. FreeLeases(u)' = FreeLeases(u) \cup {r}
      BY <1>1, <1>2, <1>3, <2>4, <2>5 DEF Typed, FreeLeases, Of
    <3>2. SumFunctionOnSet(lease', FreeLeases(u) \cup {r}) = reserved + SumFunctionOnSet(lease, FreeLeases(u))
      BY <2>3, <2>4, FreeSums, SumWith
    <3>3. SumFunctionOnSet(row, FreeRows(u)) \in Int /\ SumFunctionOnSet(lease, FreeLeases(u)) \in Int
      BY FreeSums
    <3>4. SumFunctionOnSet(row, FreeRows(u)) + SumFunctionOnSet(lease, FreeLeases(u)) <= spent[u] + Pending(u)
      BY FreeIsPart
    <3>5. Pending(u) \in Int /\ spent[u] \in Nat BY FreeIsPart DEF Typed
    <3>6. reserved <= Free - spent[u] - Pending(u) BY <1>1, <2>5
    <3>7. SumFunctionOnSet(row, FreeRows(u)) + (reserved + SumFunctionOnSet(lease, FreeLeases(u))) <= Free
      BY <3>3, <3>4, <3>5, <3>6, GatewayAssumption
    <3>8. QED BY <1>2, <2>2, <3>1, <3>2, <3>7
  <2>6. CASE ~(u = UserOf[r] /\ u \notin member)
    <3>1. FreeLeases(u)' = FreeLeases(u)
      BY <1>1, <1>2, <1>3, <2>6 DEF Typed, FreeLeases, Of
    <3>2. SumFunctionOnSet(lease', FreeLeases(u)) = SumFunctionOnSet(lease, FreeLeases(u))
      BY <2>3, FreeSums, SumSame
    <3>3. QED BY <1>2, <2>1, <2>2, <3>1, <3>2
  <2>7. QED BY <2>5, <2>6
<1>5. QED BY <1>4 DEF FreeWithinAllowance, FreeRows, FreeLeases, Of

\* A lease that expires only lowers the sum.
LEMMA ExpireWithinAllowance ==
  ASSUME Typed, FreeWithinAllowance, NEW r \in Requests, Expire(r)
  PROVE  FreeWithinAllowance'
<1>1. UNCHANGED <<row, lease, free>> /\ expired' = expired \cup {r} BY DEF Expire
<1>2. ASSUME NEW u \in Users
      PROVE  SumFunctionOnSet(row, FreeRows(u)) + SumFunctionOnSet(lease, FreeLeases(u)') <= Free
  <2>1. SumFunctionOnSet(row, FreeRows(u)) + SumFunctionOnSet(lease, FreeLeases(u)) <= Free
    BY DEF FreeWithinAllowance, FreeRows, FreeLeases
  <2>2. FreeLeases(u)' \in SUBSET FreeLeases(u) BY <1>1 DEF FreeLeases, Of
  <2>3. SumFunctionOnSet(lease, FreeLeases(u)') <= SumFunctionOnSet(lease, FreeLeases(u))
    BY <2>2, FreeSums, SumOfPart
  <2>4. IsFiniteSet(FreeLeases(u)') /\ \A q \in FreeLeases(u)' : lease[q] \in Int
    BY <2>2, FreeSums, FS_Subset
  <2>5. SumFunctionOnSet(lease, FreeLeases(u)') \in Int BY <2>4, SumInt
  <2>6. SumFunctionOnSet(row, FreeRows(u)) \in Int /\ SumFunctionOnSet(lease, FreeLeases(u)) \in Int
    BY FreeSums
  <2>7. QED BY <2>1, <2>3, <2>5, <2>6, GatewayAssumption
<1>3. QED BY <1>1, <1>2 DEF FreeWithinAllowance, FreeRows, FreeLeases, Of

\* All that the rest of the proof needs to know of settle.
LEMMA SettleKeeps ==
  ASSUME Typed, PhasesInv, ChargesInv, LedgerBalances, FreeWithinAllowance,
         NEW r \in Requests, NEW completed \in BOOLEAN, r \notin expired, Settle(r, completed)
  PROVE  /\ LedgerBalances' /\ FreeWithinAllowance'
         /\ UNCHANGED <<member, expired, free, faults>>
         /\ charges' = [charges EXCEPT ![r] = None]
         /\ spent' \in [Users -> Nat]
         /\ row' \in [Requests -> Nat \cup {None}] /\ lease' \in [Requests -> Nat \cup {None}]
         /\ \A q \in Requests :
              \/ row'[q] = row[q] /\ lease'[q] = lease[q]
              \/ /\ q = r /\ charges[r] # None /\ lease'[r] = None
                 /\ observed[r] = None /\ ~completed => row'[r] <= delivered[r]
         /\ charges[r] # None => lease'[r] = None
<1>1. UNCHANGED <<member, expired, free, faults>> BY DEF Settle
<1>2. CASE charges[r] = None
  <2>1. UNCHANGED <<charges, row, spent, lease>> BY <1>2 DEF Settle
  <2>2. LedgerBalances' BY <2>1 DEF LedgerBalances, Of
  <2>3. FreeWithinAllowance' BY <1>1, <2>1 DEF FreeWithinAllowance, Of
  <2>4. QED BY <1>1, <1>2, <2>1, <2>2, <2>3 DEF Typed
<1>3. CASE charges[r] # None
  <2> DEFINE charged == Charge(r, completed)
  <2>1. Commit(r, charged) /\ charges' = [charges EXCEPT ![r] = None] BY <1>3 DEF Settle
  <2>2. /\ charged \in Nat /\ lease[r] \in Nat /\ row[r] = None
        /\ r \in free => charged <= lease[r]
        /\ observed[r] = None /\ ~completed => charged <= delivered[r]
    BY <1>3, ChargeWithin
  <2> HIDE DEF charged
  <2>3. LedgerBalances' /\ spent' \in [Users -> Nat] BY <2>1, <2>2, CommitBalances
  <2>4. FreeWithinAllowance' BY <1>1, <2>1, <2>2, CommitWithinAllowance
  <2>5. row' = [row EXCEPT ![r] = charged] /\ lease' = [lease EXCEPT ![r] = None]
    BY <2>1, <2>2 DEF Commit
  <2>6. QED BY <1>1, <1>3, <2>1, <2>2, <2>3, <2>4, <2>5 DEF Typed
<1>4. QED BY <1>2, <1>3

\* A step that leaves the ledger alone.
LEMMA LedgerAlone ==
  ASSUME LedgerBalances, FreeWithinAllowance, UNCHANGED <<spent, row, lease, expired, free>>
  PROVE  LedgerBalances' /\ FreeWithinAllowance'
BY DEF LedgerBalances, FreeWithinAllowance, Of

\* A step that leaves the slots alone.
LEMMA SlotsAlone ==
  ASSUME SlotsCounted, UNCHANGED slots
  PROVE  SlotsCounted'
BY DEF SlotsCounted, slots

\* A reply that is no stream.
LEMMA ReplyKeeps ==
  ASSUME Typed, SlotsCounted, NEW r \in Requests, Reply(r)
  PROVE  /\ SlotsCounted' /\ held' \subseteq held /\ perIp' \in [Ips -> Nat]
         /\ phase' = [phase EXCEPT ![r] = "over"]
<1>1. phase' = [phase EXCEPT ![r] = "over"] BY DEF Reply, Goto
<1>2. CASE Release(r) BY <1>1, <1>2, ReleaseCounts
<1>3. CASE UNCHANGED slots BY <1>1, <1>3, SlotsAlone DEF slots, Typed
<1>4. QED BY <1>2, <1>3 DEF Reply

----------------------------------------------------------------------------
(* The actions *)

\* The steps that touch neither the slots nor the ledger.
LEMMA AsideKeeps ==
  ASSUME GatewayInv, NEW r \in Requests,
         Arrive(r) \/ TurnAway(r) \/ Forward(r) \/ Break(r) \/ Report(r) \/ Deliver(r)
  PROVE  GatewayInv'
<1> USE DEF GatewayInv, ledger
<1> DEFINE Rest == Typed' /\ PhasesInv' /\ ChargesInv' /\ PartialPaysDelivered' /\ NoLeaseLeftBehind'
<1>1. UNCHANGED <<slots, ledger>> BY DEF Arrive, TurnAway, Forward, Break, Report, Deliver
<1>2. SlotsCounted' /\ LedgerBalances' /\ FreeWithinAllowance' BY <1>1, SlotsAlone, LedgerAlone
<1>3. ASSUME Arrive(r) PROVE Rest
  BY <1>3, GatewayAssumption
  DEF Arrive, Goto, slots, work, Typed, PhasesInv, ChargesInv, PartialPaysDelivered, NoLeaseLeftBehind, Early
<1>4. ASSUME TurnAway(r) PROVE Rest
  BY <1>4, GatewayAssumption
  DEF TurnAway, Goto, slots, work, Typed, PhasesInv, ChargesInv, PartialPaysDelivered, NoLeaseLeftBehind, Early
<1>5. ASSUME Forward(r) PROVE Rest
  BY <1>5, GatewayAssumption
  DEF Forward, Goto, slots, work, Typed, PhasesInv, ChargesInv, PartialPaysDelivered, NoLeaseLeftBehind, Early
<1>6. ASSUME Break(r) PROVE Rest
  BY <1>6, GatewayAssumption
  DEF Break, Goto, slots, work, Typed, PhasesInv, ChargesInv, PartialPaysDelivered, NoLeaseLeftBehind, Early
<1>7. ASSUME Report(r) PROVE Rest
  BY <1>7, GatewayAssumption
  DEF Report, slots, Typed, PhasesInv, ChargesInv, PartialPaysDelivered, NoLeaseLeftBehind, Early
<1>8. ASSUME Deliver(r) PROVE Rest
  BY <1>8, GatewayAssumption
  DEF Deliver, slots, Typed, PhasesInv, ChargesInv, PartialPaysDelivered, NoLeaseLeftBehind, Early
<1>9. QED BY <1>2, <1>3, <1>4, <1>5, <1>6, <1>7, <1>8

\* Expire keeps the invariant.
LEMMA ExpireKeeps ==
  ASSUME GatewayInv, NEW r \in Requests, Expire(r)
  PROVE  GatewayInv'
<1>1. SlotsCounted' /\ perIp' \in [Ips -> Nat] /\ held' \subseteq held
  BY SlotsAlone DEF Expire, slots, Typed, GatewayInv
<1>2. LedgerBalances' /\ FreeWithinAllowance'
  BY ExpireWithinAllowance DEF Expire, LedgerBalances, Of, GatewayInv
<1>3. Typed' /\ PhasesInv' /\ ChargesInv' /\ PartialPaysDelivered' /\ NoLeaseLeftBehind'
  BY <1>1, GatewayAssumption DEF GatewayInv, Expire, Goto, slots, work, Typed, PhasesInv,
                                 ChargesInv, PartialPaysDelivered, NoLeaseLeftBehind, Early
<1>4. QED BY <1>1, <1>2, <1>3 DEF GatewayInv

\* Subscribe keeps the invariant.
LEMMA SubscribeKeeps ==
  ASSUME GatewayInv, NEW u \in Users, Subscribe(u)
  PROVE  GatewayInv'
<1>1. SlotsCounted' /\ perIp' \in [Ips -> Nat] /\ held' \subseteq held
  BY SlotsAlone DEF Subscribe, slots, Typed, GatewayInv
<1>2. LedgerBalances' /\ FreeWithinAllowance' BY LedgerAlone DEF Subscribe, ledger, GatewayInv
<1>3. Typed' /\ PhasesInv' /\ ChargesInv' /\ PartialPaysDelivered' /\ NoLeaseLeftBehind'
  BY <1>1, GatewayAssumption DEF GatewayInv, Subscribe, Goto, slots, work, Typed, PhasesInv,
                                 ChargesInv, PartialPaysDelivered, NoLeaseLeftBehind, Early
<1>4. QED BY <1>1, <1>2, <1>3 DEF GatewayInv

\* Close keeps the invariant.
LEMMA CloseKeeps ==
  ASSUME GatewayInv, NEW r \in Requests, Close(r)
  PROVE  GatewayInv'
<1>1. SlotsCounted' /\ perIp' \in [Ips -> Nat] /\ held' \subseteq held
  BY ReleaseCounts DEF Close, GatewayInv
<1>2. LedgerBalances' /\ FreeWithinAllowance' BY LedgerAlone DEF Close, ledger, GatewayInv
<1>3. Typed' /\ PhasesInv' /\ ChargesInv' /\ PartialPaysDelivered' /\ NoLeaseLeftBehind'
  BY <1>1, GatewayAssumption DEF GatewayInv, Close, Goto, work, ledger, Typed, PhasesInv,
                                 ChargesInv, PartialPaysDelivered, NoLeaseLeftBehind, Early
<1>4. QED BY <1>1, <1>2, <1>3 DEF GatewayInv

\* Flush keeps the invariant.
LEMMA FlushKeeps ==
  ASSUME GatewayInv, NEW r \in Requests, Flush(r)
  PROVE  GatewayInv'
<1>1. SlotsCounted' /\ perIp' \in [Ips -> Nat] /\ held' \subseteq held
  BY ReleaseCounts DEF Flush, GatewayInv
<1>2. LedgerBalances' /\ FreeWithinAllowance' BY LedgerAlone DEF Flush, ledger, GatewayInv
<1>3. Typed' /\ PhasesInv' /\ ChargesInv' /\ PartialPaysDelivered' /\ NoLeaseLeftBehind'
  BY <1>1, GatewayAssumption DEF GatewayInv, Flush, Goto, work, ledger, Typed, PhasesInv,
                                 ChargesInv, PartialPaysDelivered, NoLeaseLeftBehind, Early
<1>4. QED BY <1>1, <1>2, <1>3 DEF GatewayInv

\* Admit keeps the invariant.
LEMMA AdmitKeeps ==
  ASSUME GatewayInv, NEW r \in Requests, Admit(r)
  PROVE  GatewayInv'
<1>1. SlotsCounted' BY AdmitCounts DEF GatewayInv
<1>2. perIp' \in [Ips -> Nat] BY GatewayAssumption DEF GatewayInv, Typed, Admit
<1>3. LedgerBalances' /\ FreeWithinAllowance' BY LedgerAlone DEF GatewayInv, Admit, ledger
<1>4. Typed' /\ PhasesInv' /\ ChargesInv' /\ PartialPaysDelivered' /\ NoLeaseLeftBehind'
  BY <1>2 DEF GatewayInv, Admit, Goto, work, ledger, Typed, PhasesInv, ChargesInv,
              PartialPaysDelivered, NoLeaseLeftBehind, Early
<1>5. QED BY <1>1, <1>3, <1>4 DEF GatewayInv

\* Decline keeps the invariant.
LEMMA DeclineKeeps ==
  ASSUME GatewayInv, NEW r \in Requests, Decline(r)
  PROVE  GatewayInv'
<1>1. /\ SlotsCounted' /\ held' \subseteq held /\ perIp' \in [Ips -> Nat]
      /\ phase' = [phase EXCEPT ![r] = "over"]
  BY ReplyKeeps DEF GatewayInv, Decline
<1>2. LedgerBalances' /\ FreeWithinAllowance' BY LedgerAlone DEF GatewayInv, Decline, ledger
<1>3. phase[r] = "admitted" /\ UNCHANGED <<conn, early, charges, work, ledger, faults, restarts>>
  BY DEF Decline
<1>4. Typed' /\ PhasesInv' /\ ChargesInv' /\ PartialPaysDelivered' /\ NoLeaseLeftBehind'
  BY <1>1, <1>3 DEF GatewayInv, work, ledger, Typed, PhasesInv, ChargesInv,
                    PartialPaysDelivered, NoLeaseLeftBehind, Early
<1>5. QED BY <1>1, <1>2, <1>4 DEF GatewayInv

\* Restart keeps the invariant.
LEMMA RestartKeeps ==
  ASSUME GatewayInv, Restart
  PROVE  GatewayInv'
<1>1. held' = {} /\ total' = 0 /\ images' = 0 /\ perIp' = [i \in Ips |-> 0] BY DEF Restart
<1>2. SlotsCounted'
  <2>1. held' \cap Image = {} /\ \A i \in Ips : {q \in held' : IpOf[q] = i} = {} BY <1>1
  <2>2. QED BY <1>1, <2>1, FS_EmptySet, GatewayAssumption DEF SlotsCounted
<1>3. LedgerBalances' /\ FreeWithinAllowance' BY LedgerAlone DEF GatewayInv, Restart, ledger
<1>4. Typed' /\ PhasesInv' /\ ChargesInv' /\ PartialPaysDelivered' /\ NoLeaseLeftBehind'
  BY GatewayAssumption DEF GatewayInv, Restart, work, ledger, Typed, PhasesInv, ChargesInv,
                           PartialPaysDelivered, NoLeaseLeftBehind, Early
<1>5. QED BY <1>2, <1>3, <1>4 DEF GatewayInv

\* Reserve keeps the invariant.
LEMMA ReserveKeeps ==
  ASSUME GatewayInv, NEW r \in Requests, Reserve(r)
  PROVE  GatewayInv'
<1> USE DEF GatewayInv
<1>1. PICK reserved \in Nat, bound \in Nat :
        /\ charges' = [charges EXCEPT ![r] = [reserved |-> reserved, bound |-> bound]]
        /\ lease' = [lease EXCEPT ![r] = reserved]
        /\ UserOf[r] \notin member => reserved = bound
  BY ReserveBounds
<1>2. /\ phase[r] = "admitted" /\ phase' = [phase EXCEPT ![r] = "reserved"]
      /\ free' = IF UserOf[r] \in member THEN free ELSE free \cup {r}
      /\ UNCHANGED <<conn, early, slots, work, member, spent, row, expired, faults, restarts>>
  BY DEF Reserve, Goto
<1>3. SlotsCounted' BY <1>2, SlotsAlone
<1>4. LedgerBalances' BY <1>2 DEF LedgerBalances, Of
<1>5. FreeWithinAllowance' BY ReserveWithinAllowance
<1>6. Typed' BY <1>1, <1>2 DEF slots, work, Typed
<1>7. charges'[r] = [reserved |-> reserved, bound |-> bound] /\ charges'[r] # None
  BY <1>1, GatewayAssumption DEF Typed
<1>8. PhasesInv' BY <1>1, <1>2, <1>7 DEF slots, work, Typed, PhasesInv, Early
<1>9. ChargesInv' BY <1>1, <1>2, <1>7 DEF work, Typed, PhasesInv, ChargesInv, Early
<1>10. PartialPaysDelivered' /\ NoLeaseLeftBehind'
  BY <1>1, <1>2 DEF work, Typed, PartialPaysDelivered, NoLeaseLeftBehind
<1>11. QED BY <1>3, <1>4, <1>5, <1>6, <1>8, <1>9, <1>10

\* A handler that settles and goes on.
LEMMA SettleStep ==
  ASSUME GatewayInv, NEW r \in Requests, NEW completed \in BOOLEAN, Settle(r, completed),
         phase[r] \in {"reserved", "streaming", "ending"},
         NEW p \in {"ending", "flushing", "over"}, phase' = [phase EXCEPT ![r] = p],
         SlotsCounted', held' \subseteq held, perIp' \in [Ips -> Nat],
         complete' \subseteq Requests, complete \subseteq complete', completed => r \in complete',
         UNCHANGED <<conn, early, observed, delivered, restarts>>
  PROVE  GatewayInv'
<1> USE DEF GatewayInv
<1>1. r \notin expired BY DEF PhasesInv
<1>2. /\ LedgerBalances' /\ FreeWithinAllowance'
      /\ UNCHANGED <<member, expired, free, faults>>
      /\ charges' = [charges EXCEPT ![r] = None] /\ spent' \in [Users -> Nat]
      /\ row' \in [Requests -> Nat \cup {None}] /\ lease' \in [Requests -> Nat \cup {None}]
      /\ charges[r] # None => lease'[r] = None
  BY <1>1, SettleKeeps
<1>3. \A q \in Requests :
        \/ row'[q] = row[q] /\ lease'[q] = lease[q]
        \/ /\ q = r /\ charges[r] # None /\ lease'[r] = None
           /\ observed[r] = None /\ ~completed => row'[r] <= delivered[r]
  BY <1>1, SettleKeeps
<1>4. Typed' BY <1>2 DEF Typed
<1>5. PhasesInv' BY <1>2, <1>3 DEF Typed, PhasesInv, Early
<1>6. ChargesInv' BY <1>2, <1>3 DEF Typed, ChargesInv
<1>7. PartialPaysDelivered' BY <1>3 DEF PartialPaysDelivered
<1>8. NoLeaseLeftBehind' BY <1>2, <1>3 DEF Typed, ChargesInv, NoLeaseLeftBehind
<1>9. QED BY <1>2, <1>4, <1>5, <1>6, <1>7, <1>8

\* A handler whose settlement is rolled back.
LEMMA SettleFailsStep ==
  ASSUME GatewayInv, NEW r \in Requests, SettleFails(r),
         phase[r] \in {"reserved", "streaming", "ending"},
         NEW p \in {"ending", "over"}, phase' = [phase EXCEPT ![r] = p],
         SlotsCounted', held' \subseteq held, perIp' \in [Ips -> Nat],
         complete' \subseteq Requests, complete \subseteq complete',
         UNCHANGED <<conn, early, observed, delivered, restarts>>
  PROVE  GatewayInv'
<1> USE DEF GatewayInv
<1>1. /\ faults < MaxFaults /\ faults' = faults + 1
      /\ UNCHANGED <<charges, member, spent, row, lease, expired, free>>
  BY DEF SettleFails, ledger
<1>2. LedgerBalances' /\ FreeWithinAllowance' BY <1>1, LedgerAlone
<1>3. Typed' BY <1>1, GatewayAssumption DEF Typed
<1>4. PhasesInv' /\ ChargesInv' BY <1>1 DEF Typed, PhasesInv, ChargesInv, Early
<1>5. PartialPaysDelivered' /\ NoLeaseLeftBehind'
  BY <1>1 DEF Typed, PartialPaysDelivered, NoLeaseLeftBehind
<1>6. QED BY <1>2, <1>3, <1>4, <1>5

\* Late keeps the invariant.
LEMMA LateKeeps ==
  ASSUME GatewayInv, NEW r \in Requests, Late(r)
  PROVE  GatewayInv'
<1>1. /\ SlotsCounted' /\ held' \subseteq held /\ perIp' \in [Ips -> Nat]
      /\ phase' = [phase EXCEPT ![r] = "over"]
  BY ReplyKeeps DEF GatewayInv, Late
<1>2. phase[r] = "reserved" /\ complete \in SUBSET Requests
      /\ UNCHANGED <<conn, early, observed, delivered, complete, restarts>>
  BY DEF GatewayInv, Typed, Late, work
<1>3. CASE Settle(r, FALSE) BY <1>1, <1>2, <1>3, SettleStep
<1>4. CASE SettleFails(r) BY <1>1, <1>2, <1>4, SettleFailsStep
<1>5. QED BY <1>3, <1>4 DEF Late

\* Complete keeps the invariant.
LEMMA CompleteKeeps ==
  ASSUME GatewayInv, NEW r \in Requests, Complete(r)
  PROVE  GatewayInv'
<1> USE DEF GatewayInv
<1>1. /\ phase[r] = "streaming" /\ phase' = [phase EXCEPT ![r] = "ending"]
      /\ complete' = complete \cup {r}
      /\ UNCHANGED <<conn, early, slots, observed, delivered, restarts>>
  BY DEF Complete, Goto
<1>2. SlotsCounted' /\ held' \subseteq held /\ perIp' \in [Ips -> Nat]
  BY <1>1, SlotsAlone DEF slots, Typed
<1>3. complete' \subseteq Requests BY <1>1 DEF Typed
<1>4. CASE UNCHANGED <<charges, ledger, faults>>
  <2>1. LedgerBalances' /\ FreeWithinAllowance' BY <1>4, LedgerAlone DEF ledger
  <2>2. Typed' BY <1>1, <1>2, <1>4 DEF slots, ledger, Typed
  <2>3. PhasesInv' /\ ChargesInv'
    BY <1>1, <1>4 DEF slots, ledger, Typed, PhasesInv, ChargesInv, Early
  <2>4. PartialPaysDelivered' /\ NoLeaseLeftBehind'
    BY <1>1, <1>4 DEF ledger, Typed, PartialPaysDelivered, NoLeaseLeftBehind
  <2>5. QED BY <1>2, <2>1, <2>2, <2>3, <2>4
<1>5. CASE Settle(r, TRUE) BY <1>1, <1>2, <1>3, <1>5, SettleStep
<1>6. CASE SettleFails(r) BY <1>1, <1>2, <1>3, <1>6, SettleFailsStep
<1>7. QED BY <1>4, <1>5, <1>6 DEF Complete

\* Conclude keeps the invariant.
LEMMA ConcludeKeeps ==
  ASSUME GatewayInv, NEW r \in Requests, Conclude(r)
  PROVE  GatewayInv'
<1> USE DEF GatewayInv
<1>1. phase[r] = "ending" /\ UNCHANGED <<conn, early, slots, observed, delivered, complete, restarts>>
  BY DEF Conclude, work
<1>2. SlotsCounted' /\ held' \subseteq held /\ perIp' \in [Ips -> Nat] /\ complete' \subseteq Requests
  BY <1>1, SlotsAlone DEF slots, Typed
<1>3. CASE Settle(r, r \in Agent /\ r \in complete) /\ Goto(r, "flushing")
  <2> DEFINE completed == r \in Agent /\ r \in complete
  <2>1. completed \in BOOLEAN /\ (completed => r \in complete') BY <1>1
  <2>2. Settle(r, completed) /\ phase' = [phase EXCEPT ![r] = "flushing"] BY <1>3 DEF Goto
  <2> HIDE DEF completed
  <2>3. QED BY <1>1, <1>2, <2>1, <2>2, SettleStep
<1>4. CASE SettleFails(r) /\ Goto(r, "over")
  BY <1>1, <1>2, <1>4, SettleFailsStep DEF Goto
<1>5. QED BY <1>3, <1>4 DEF Conclude

\* Every step keeps the invariant.
LEMMA StepKeeps == GatewayInv /\ [Next]_vars => GatewayInv'
<1> SUFFICES ASSUME GatewayInv, [Next]_vars PROVE GatewayInv' OBVIOUS
<1>1. CASE UNCHANGED vars
  <2>1. SlotsCounted' /\ LedgerBalances' /\ FreeWithinAllowance'
    BY <1>1, SlotsAlone, LedgerAlone DEF GatewayInv, vars, ledger
  <2>2. QED BY <1>1, <2>1 DEF GatewayInv, vars, slots, work, ledger, Typed, PhasesInv, ChargesInv,
                              PartialPaysDelivered, NoLeaseLeftBehind
<1>2. CASE Restart BY <1>2, RestartKeeps
<1>3. ASSUME NEW u \in Users, Subscribe(u) PROVE GatewayInv' BY <1>3, SubscribeKeeps
<1>4. ASSUME NEW r \in Requests, Handle(r) PROVE GatewayInv'
  BY <1>4, AdmitKeeps, AsideKeeps, DeclineKeeps, ReserveKeeps, LateKeeps, CompleteKeeps,
     ConcludeKeeps, FlushKeeps DEF Handle
<1>5. ASSUME NEW r \in Requests,
             Arrive(r) \/ Close(r) \/ Report(r) \/ Deliver(r) \/ Expire(r)
      PROVE  GatewayInv'
  BY <1>5, AsideKeeps, CloseKeeps, ExpireKeeps
<1>6. QED BY <1>1, <1>2, <1>3, <1>4, <1>5 DEF Next

\* It holds at first.
LEMMA InitHolds == Init => GatewayInv
<1> SUFFICES ASSUME Init PROVE GatewayInv OBVIOUS
<1>1. SlotsCounted BY NoneCounted DEF Init
<1>2. ASSUME NEW u \in Users
      PROVE  /\ spent[u] = SumFunctionOnSet(row, {r \in Of(u) : row[r] # None})
             /\ SumFunctionOnSet(row, {r \in Of(u) \cap free : row[r] # None})
                  + SumFunctionOnSet(lease, {r \in Of(u) \cap free : lease[r] # None /\ r \notin expired})
                  <= Free
  <2>1. /\ {r \in Of(u) : row[r] # None} = {} /\ {r \in Of(u) \cap free : row[r] # None} = {}
        /\ {r \in Of(u) \cap free : lease[r] # None /\ r \notin expired} = {}
    BY DEF Init, Of
  <2>2. SumFunctionOnSet(row, {}) = 0 /\ SumFunctionOnSet(lease, {}) = 0 BY SumEmpty
  <2>3. QED BY <2>1, <2>2, GatewayAssumption DEF Init
<1>3. LedgerBalances /\ FreeWithinAllowance BY <1>2 DEF LedgerBalances, FreeWithinAllowance
<1>4. Typed /\ PhasesInv /\ ChargesInv /\ PartialPaysDelivered /\ NoLeaseLeftBehind
  BY GatewayAssumption DEF Init, Typed, PhasesInv, ChargesInv, PartialPaysDelivered,
                           NoLeaseLeftBehind, Early
<1>5. QED BY <1>1, <1>3, <1>4 DEF GatewayInv

\* It is an invariant.
LEMMA GatewayInvHolds == Spec => []GatewayInv
<1>1. Init => GatewayInv BY InitHolds
<1>2. GatewayInv /\ [Next]_vars => GatewayInv' BY StepKeeps
<1>3. QED BY <1>1, <1>2, PTL DEF Spec

\* Types, and slots that are counted right and within their limits, in every state.
THEOREM GatewayTypes == Spec => []TypeOK
<1>1. GatewayInv => TypeOK BY DEF GatewayInv, Typed, TypeOK
<1>2. QED BY <1>1, GatewayInvHolds, PTL

\* Whatever fails, and wherever the process dies, an account's spent is the sum of
\* its usage rows (AccountStore.settle).
THEOREM GatewayBalances == Spec => []LedgerBalances
<1>1. GatewayInv => LedgerBalances BY DEF GatewayInv
<1>2. QED BY <1>1, GatewayInvHolds, PTL

\* However many requests run concurrently and however often the membership changes,
\* a free account never uses or reserves more than FREE_TOKENS (AccountStore.reserve).
THEOREM GatewayFreeWithinAllowance == Spec => []FreeWithinAllowance
<1>1. GatewayInv => FreeWithinAllowance BY DEF GatewayInv
<1>2. QED BY <1>1, GatewayInvHolds, PTL

\* An answer that broke off without reported usage is charged at most what was delivered.
THEOREM GatewayPartialPays == Spec => []PartialPaysDelivered
<1>1. GatewayInv => PartialPaysDelivered BY DEF GatewayInv
<1>2. QED BY <1>1, GatewayInvHolds, PTL

\* A lease outlives its request only after a failed settlement or a restart.
THEOREM GatewayNoLeaseLeft == Spec => []NoLeaseLeftBehind
<1>1. GatewayInv => NoLeaseLeftBehind BY DEF GatewayInv
<1>2. QED BY <1>1, GatewayInvHolds, PTL

=============================================================================
