---------------------- MODULE AddressExclusionProofs ----------------------
(***************************************************************************)
(* Proofs about AddressExclusion, for every address width and any number   *)
(* of exclusions: of the loop, and of the result after it has gone through *)
(* the library's two functions.                                            *)
(***************************************************************************)
EXTENDS AddressExclusion, FiniteSetTheorems, TLAPS

\* A network is a range: two natural numbers, the first not after the second.
LEMMA NetworkIsRange == Network \subseteq Ranges
BY DEF Network, Ranges, Addresses

-----------------------------------------------------------------------------
(* Facts about numbers the recursion and the largest networks rest on.     *)

\* A set of numbers that has a bound has a largest member: without one, adding 1
\* would map the finite set of the numbers below its members into itself
\* without its 0.
LEMMA LargestExists ==
    ASSUME NEW T \in SUBSET Nat, T # {}, NEW b \in Nat, \A t \in T : t <= b
    PROVE  \E m \in T : \A t \in T : t <= m
<1> SUFFICES ASSUME \A m \in T : \E t \in T : t > m
             PROVE  FALSE
  OBVIOUS
<1> DEFINE U == {x \in 0 .. b : \E t \in T : x <= t}
           V == U \ {0}
           f == [x \in U |-> x + 1]
<1>1. U \in SUBSET (0 .. b)
  OBVIOUS
<1>2. 0 \in U
  <2>1. PICK t \in T : TRUE
    OBVIOUS
  <2> QED
    BY <2>1
<1>3. /\ IsFiniteSet(U) /\ Cardinality(U) \in Nat
      /\ IsFiniteSet(V) /\ Cardinality(V) < Cardinality(U)
  <2> HIDE DEF U
  <2>1. IsFiniteSet(0 .. b)
    BY FS_Interval
  <2>2. IsFiniteSet(U)
    BY <1>1, <2>1, FS_Subset
  <2>3. Cardinality(U) \in Nat
    BY <2>2, FS_CardinalityType
  <2>4. /\ IsFiniteSet(U \ {0})
        /\ Cardinality(U \ {0}) = IF 0 \in U THEN Cardinality(U) - 1 ELSE Cardinality(U)
    BY <2>2, FS_RemoveElement
  <2> QED
    BY <1>2, <2>2, <2>3, <2>4
<1>4. f \in [U -> V]
  <2> SUFFICES ASSUME NEW x \in U PROVE x + 1 \in V
    OBVIOUS
  <2>1. PICK t \in T : t > x
    OBVIOUS
  <2> QED
    BY <2>1
<1>5. \E x, y \in U : x # y /\ f[x] = f[y]
  <2> HIDE DEF U, V, f
  <2> QED
    BY <1>3, <1>4, FS_PigeonHole
<1> QED
  BY <1>5

\* Induction over the natural numbers, for a set instead of a predicate.
LEMMA InductionOverNat ==
    ASSUME NEW S, 0 \in S, \A n \in Nat : n \in S => n + 1 \in S
    PROVE  Nat \subseteq S
<1> SUFFICES ASSUME NEW n \in Nat, n \notin S PROVE FALSE
  OBVIOUS
<1> DEFINE T == {k \in 0 .. n : 0 .. k \subseteq S}
<1>1. T \in SUBSET Nat /\ 0 \in T /\ \A t \in T : t <= n
  OBVIOUS
<1>2. PICK m \in T : \A t \in T : t <= m
  <2> HIDE DEF T
  <2> QED
    BY <1>1, LargestExists
<1>3. m + 1 \in T
  <2>1. m < n /\ m \in S
    OBVIOUS
  <2>2. 0 .. m + 1 = (0 .. m) \cup {m + 1}
    OBVIOUS
  <2> QED
    BY <2>1, <2>2
<1> QED
  BY <1>2, <1>3

-----------------------------------------------------------------------------
(* summarize_address_range.                                                *)

\* From an address up to a last one there is a largest network, and it starts at
\* the first and ends by the last.
LEMMA LargestFromExact ==
    ASSUME NEW first \in Addresses, NEW last \in Addresses, first <= last
    PROVE  /\ LargestFrom(first, last) \in Network
           /\ LargestFrom(first, last)[1] = first
           /\ LargestFrom(first, last)[2] \in first .. last
<1> DEFINE candidates == {n \in Network : n[1] = first /\ n[2] <= last}
           ends == {n[2] : n \in candidates}
<1>1. <<first, first>> \in Network
  <2>1. first - first + 1 = 2^0 /\ first % 2^0 = 0
    BY DEF Addresses
  <2>2. 0 \in 0 .. Width
    BY WidthAssumption
  <2> DEFINE r == <<first, first>>
  <2>3. r \in Addresses \X Addresses /\ r[1] = first /\ r[2] = first
    OBVIOUS
  <2>4. first <= first
    BY DEF Addresses
  <2> HIDE DEF r
  <2>5. r \in Network
    BY <2>1, <2>2, <2>3, <2>4 DEF Network
  <2> QED
    BY <2>5 DEF r
<1>2. <<first, first>> \in candidates
  BY <1>1
<1>3. \A n \in candidates : n[2] \in Nat /\ n[2] <= last /\ first <= n[2]
  BY NetworkIsRange DEF Ranges
<1>4. ends \in SUBSET Nat /\ ends # {} /\ last \in Nat /\ \A e \in ends : e <= last
  BY <1>2, <1>3 DEF Addresses
<1>5. PICK e \in ends : \A x \in ends : x <= e
  <2> HIDE DEF ends
  <2> QED
    BY <1>4, LargestExists
<1>6. PICK n \in candidates : n[2] = e
  OBVIOUS
<1>7. /\ n[1] = first /\ n[2] <= last
      /\ \A m \in Network : m[1] = first /\ m[2] <= last => m[2] <= n[2]
  BY <1>5, <1>6
<1>8. LargestFrom(first, last) \in candidates
  <2> HIDE DEF candidates
  <2>1. LET n0 == LargestFrom(first, last)
        IN  n0 \in Network /\ n0[1] = first /\ n0[2] <= last
    BY <1>6, <1>7 DEF LargestFrom, candidates
  <2> QED
    BY <2>1 DEF candidates
<1> QED
  BY <1>3, <1>8 DEF Addresses

\* The recursion of SummarizeAddressRange: its body, and a function f on the
\* addresses D that it defines.
Summary(last, i, f) ==
    IF i > last THEN {}
    ELSE LET n == LargestFrom(i, last) IN {n} \cup f[n[2] + 1]
IsSummary(f, D, last) == f = [i \in D |-> Summary(last, i, f)]

\* The recursion defines a function: it goes up to the end of the addresses, so
\* its values can be built from the end on.
LEMMA SummaryExists ==
    ASSUME NEW last \in Addresses
    PROVE  \E f : IsSummary(f, 0 .. 2^Width, last)
<1> DEFINE N == 2^Width
           D(k) == {i \in 0 .. N : i + k >= N}
           S == {k \in Nat : \E f : IsSummary(f, D(k), last)}
<1>0. N \in Nat /\ last < N
  <2>1. N \in Int /\ last \in 0 .. N - 1
    BY WidthAssumption DEF Addresses
  <2> QED
    BY <2>1
<1>1. 0 \in S
  <2> DEFINE f == [i \in D(0) |-> {}]
  <2>1. \A i \in D(0) : i > last
    BY <1>0 DEF Addresses
  <2>2. IsSummary(f, D(0), last)
    BY <2>1 DEF IsSummary, Summary
  <2> QED
    BY <2>2
<1>2. ASSUME NEW k \in Nat, k \in S PROVE k + 1 \in S
  <2>1. PICK f : IsSummary(f, D(k), last)
    BY <1>2
  <2> DEFINE g == [i \in D(k + 1) |->
                      IF i \in D(k) THEN f[i] ELSE Summary(last, i, f)]
  <2>2. \A i \in D(k) : i \in D(k + 1) /\ f[i] = Summary(last, i, f)
    BY <1>0, <2>1 DEF IsSummary
  <2>3. \A i \in D(k + 1) : g[i] = Summary(last, i, f)
    BY <2>2
  <2>4. \A i \in D(k) : g[i] = f[i]
    BY <2>2
  <2>5. ASSUME NEW i \in D(k + 1), i <= last
        PROVE  LargestFrom(i, last)[2] + 1 \in D(k)
    <3>1. i \in Addresses
      BY <1>0, <2>5 DEF Addresses
    <3>2. LargestFrom(i, last)[2] \in i .. last
      BY <2>5, <3>1, LargestFromExact
    <3> DEFINE e == LargestFrom(i, last)[2]
    <3>3. e \in i .. last /\ i \in 0 .. N /\ i + (k + 1) >= N
      BY <2>5, <3>2
    <3> HIDE DEF e, N
    <3>4. e + 1 \in 0 .. N /\ (e + 1) + k >= N
      BY <1>0, <3>3 DEF Addresses
    <3> QED
      BY <3>4 DEF e
  <2>6. \A i \in D(k + 1) : g[i] = Summary(last, i, g)
    <3> SUFFICES ASSUME NEW i \in D(k + 1)
                 PROVE  Summary(last, i, f) = Summary(last, i, g)
      BY <2>3
    <3>1. CASE i > last
      BY <3>1 DEF Summary
    <3>2. CASE ~(i > last)
      <4>1. i <= last
        BY <1>0, <3>2 DEF Addresses
      <4>2. g[LargestFrom(i, last)[2] + 1] = f[LargestFrom(i, last)[2] + 1]
        BY <2>4, <2>5, <4>1
      <4> HIDE DEF g
      <4> QED
        BY <3>2, <4>2 DEF Summary
    <3> QED
      BY <3>1, <3>2
  <2>7. IsSummary(g, D(k + 1), last)
    BY <2>6 DEF IsSummary
  <2> HIDE DEF g
  <2> QED
    BY <2>7
<1>3. Nat \subseteq S
  <2> HIDE DEF S
  <2> QED
    BY <1>1, <1>2, InductionOverNat
<1>4. D(N) = 0 .. 2^Width
  BY <1>0
<1> QED
  BY <1>0, <1>3, <1>4

\* summarize_address_range: the networks it yields hold exactly the range.
LEMMA SummarizeAddressRangeExact ==
    ASSUME NEW range \in Ranges, Members(range) \subseteq Addresses
    PROVE  /\ SummarizeAddressRange(range) \subseteq Network
           /\ Cover(SummarizeAddressRange(range)) = Members(range)
<1> DEFINE first == range[1]
           last == range[2]
           N == 2^Width
           F == CHOOSE f : IsSummary(f, 0 .. N, last)
           D(k) == {i \in 0 .. N : i + k >= N}
           Exact(i) == F[i] \subseteq Network /\ Cover(F[i]) = i .. last
           S == {k \in Nat : \A i \in D(k) : Exact(i)}
<1>0. /\ first \in Addresses /\ last \in Addresses /\ first <= last
      /\ N \in Nat /\ last < N /\ first \in 0 .. N
  <2>1. first \in Members(range) /\ last \in Members(range) /\ first <= last
    BY DEF Ranges, Members
  <2>2. N \in Int /\ first \in 0 .. N - 1 /\ last \in 0 .. N - 1
    BY <2>1, WidthAssumption DEF Addresses
  <2> HIDE DEF first, last, N
  <2>3. N \in Nat /\ last < N /\ first \in 0 .. N
    BY <2>2
  <2> QED
    BY <2>1, <2>3
<1>1. SummarizeAddressRange(range) = F[first]
  BY DEF SummarizeAddressRange, IsSummary, Summary
<1>2. IsSummary(F, 0 .. N, last)
  BY <1>0, SummaryExists
<1> HIDE DEF F
<1>3. \A i \in 0 .. N : F[i] = Summary(last, i, F)
  BY <1>2 DEF IsSummary
<1> HIDE DEF N, first, last
<1>4. ASSUME NEW i \in 0 .. N, i > last PROVE Exact(i)
  <2>1. F[i] = {}
    BY <1>3, <1>4 DEF Summary
  <2>2. i .. last = {}
    BY <1>0, <1>4 DEF Addresses
  <2> QED
    BY <2>1, <2>2 DEF Cover
<1>5. 0 \in S
  BY <1>0, <1>4
<1>6. ASSUME NEW k \in Nat, k \in S PROVE k + 1 \in S
  <2> SUFFICES ASSUME NEW i \in D(k + 1), i <= last PROVE Exact(i)
    BY <1>0, <1>4 DEF Addresses
  <2> DEFINE n == LargestFrom(i, last)
             e == n[2]
  <2>1. i \in Addresses
    BY <1>0 DEF Addresses, N
  <2>2. n \in Network /\ n[1] = i /\ e \in i .. last
    BY <1>0, <2>1, LargestFromExact
  <2>3. F[i] = {n} \cup F[e + 1]
    <3>1. ~(i > last)
      BY <1>0, <2>1 DEF Addresses
    <3> QED
      BY <1>3, <3>1 DEF Summary
  <2> HIDE DEF n
  <2>4. e + 1 \in D(k)
    <3> HIDE DEF e
    <3> QED
      BY <1>0, <2>2 DEF Addresses
  <2>5. Exact(e + 1)
    BY <1>6, <2>4
  <2>6. Cover(F[i]) = Members(n) \cup Cover(F[e + 1])
    BY <2>3 DEF Cover
  <2>7. Members(n) = i .. e
    BY <2>2 DEF Members
  <2>8. Cover(F[i]) = (i .. e) \cup (e + 1 .. last)
    BY <2>5, <2>6, <2>7
  <2>9. (i .. e) \cup (e + 1 .. last) = i .. last
    <3> HIDE DEF e
    <3> QED
      BY <1>0, <2>2 DEF Addresses
  <2> QED
    BY <2>2, <2>3, <2>5, <2>8, <2>9
<1>7. Nat \subseteq S
  <2> HIDE DEF S
  <2> QED
    BY <1>5, <1>6, InductionOverNat
<1>8. Exact(first)
  <2>1. N \in S /\ first \in D(N)
    BY <1>0, <1>7
  <2> QED
    BY <2>1
<1> QED
  BY <1>1, <1>8 DEF Members, first, last

-----------------------------------------------------------------------------
(* collapse_addresses.                                                     *)

\* The networks it returns hold exactly the addresses of the given ones: around
\* each of those there is a largest network inside them.
LEMMA CollapseAddressesExact ==
    ASSUME NEW nets \in SUBSET Network
    PROVE  /\ CollapseAddresses(nets) \subseteq Network
           /\ Cover(CollapseAddresses(nets)) = Cover(nets)
<1> DEFINE inside == {n \in Network : Members(n) \subseteq Cover(nets)}
<1>1. CollapseAddresses(nets) \subseteq inside
  BY DEF CollapseAddresses
<1>2. Cover(CollapseAddresses(nets)) \subseteq Cover(nets)
  BY <1>1 DEF Cover
<1>3. ASSUME NEW a \in Cover(nets) PROVE a \in Cover(CollapseAddresses(nets))
  <2> DEFINE around == {n \in inside : a \in Members(n)}
             sizes == {n[2] - n[1] : n \in around}
  <2>1. \A n \in Network : /\ n[1] \in Int /\ n[2] \in Int
                           /\ 0 <= n[1] /\ n[1] <= n[2] /\ n[2] < 2^Width
    BY WidthAssumption DEF Network, Addresses
  <2>2. PICK n0 \in nets : a \in Members(n0)
    BY DEF Cover
  <2>3. n0 \in around
    BY <2>2 DEF Cover
  <2>4. 2^Width \in Nat
    BY <2>1, <2>2, WidthAssumption
  <2>5. \A n \in around : n[2] - n[1] \in Nat /\ n[2] - n[1] <= 2^Width
    BY <2>1, <2>4
  <2>6. sizes \in SUBSET Nat /\ sizes # {} /\ \A s \in sizes : s <= 2^Width
    BY <2>3, <2>5
  <2>7. PICK s \in sizes : \A t \in sizes : t <= s
    <3> HIDE DEF sizes
    <3> QED
      BY <2>4, <2>6, LargestExists
  <2>8. PICK n \in around : s = n[2] - n[1]
    OBVIOUS
  <2>9. ASSUME NEW m \in inside, Members(n) \subseteq Members(m) PROVE m = n
    <3>1. n[1] \in Members(m) /\ n[2] \in Members(m)
      BY <2>1, <2>9 DEF Members
    <3>2. m[1] <= n[1] /\ n[2] <= m[2]
      BY <3>1 DEF Members
    <3>3. m[2] - m[1] <= n[2] - n[1]
      BY <2>7, <2>8, <2>9
    <3>4. /\ m[1] \in Int /\ m[2] \in Int /\ n[1] \in Int /\ n[2] \in Int
      BY <2>1
    <3>5. m[1] = n[1] /\ m[2] = n[2]
      BY <3>2, <3>3, <3>4
    <3> QED
      BY <3>5 DEF Network
  <2>10. n \in CollapseAddresses(nets)
    BY <2>9 DEF CollapseAddresses
  <2> QED
    BY <2>10 DEF Cover
<1> QED
  BY <1>1, <1>2, <1>3

\* Networks that hold exactly the addresses of one network collapse to it.
LEMMA CollapseToOne ==
    ASSUME NEW nets \in SUBSET Network, NEW net \in Network, Cover(nets) = Members(net)
    PROVE  CollapseAddresses(nets) = {net}
<1>1. ASSUME NEW n \in CollapseAddresses(nets) PROVE n = net
  BY <1>1 DEF CollapseAddresses
<1>2. ASSUME NEW m \in Network, Members(net) = Members(m) PROVE m = net
  <2>1. /\ net[1] \in Members(m) /\ net[2] \in Members(m)
        /\ m[1] \in Members(net) /\ m[2] \in Members(net)
        /\ net[1] \in Int /\ net[2] \in Int /\ m[1] \in Int /\ m[2] \in Int
    BY <1>2, NetworkIsRange DEF Members, Ranges
  <2>2. m[1] = net[1] /\ m[2] = net[2]
    BY <2>1 DEF Members
  <2> QED
    BY <2>2 DEF Network
<1>3. net \in CollapseAddresses(nets)
  BY <1>2 DEF CollapseAddresses
<1> QED
  BY <1>1, <1>3

-----------------------------------------------------------------------------
(* The loop of address_exclude_many.                                       *)

\* exclude_address_raw (iputils.py, lines 40-68), for any two ranges: what it
\* yields are ranges, whose addresses are those of base outside ex.
LEMMA ExcludeAddressRawExact ==
    ASSUME NEW base \in Ranges, NEW ex \in Ranges
    PROVE  /\ ExcludeAddressRaw(base, ex) \subseteq Ranges
           /\ Cover(ExcludeAddressRaw(base, ex)) = Members(base) \ Members(ex)
<1> DEFINE left == <<base[1], ex[1] - 1>>
           right == <<ex[2] + 1, base[2]>>
<1>1. /\ base[1] \in Nat /\ base[2] \in Nat /\ base[1] <= base[2]
      /\ ex[1] \in Nat /\ ex[2] \in Nat /\ ex[1] <= ex[2]
  BY DEF Ranges
<1>2. base[1] < ex[1] => left \in Ranges
  BY <1>1 DEF Ranges
<1>3. ex[2] < base[2] => right \in Ranges
  BY <1>1 DEF Ranges
<1>4. /\ left[1] = base[1] /\ left[2] = ex[1] - 1
      /\ right[1] = ex[2] + 1 /\ right[2] = base[2]
  OBVIOUS
<1> HIDE DEF left, right
<1>5. CASE base[1] > ex[2] \/ base[2] < ex[1]
  <2>1. ExcludeAddressRaw(base, ex) = {base}
    BY <1>5 DEF ExcludeAddressRaw
  <2>2. Members(base) \cap Members(ex) = {}
    BY <1>1, <1>5 DEF Members
  <2> QED
    BY <2>1, <2>2 DEF Cover
<1>6. CASE ~(base[1] > ex[2] \/ base[2] < ex[1])
  <2>1. CASE base[1] >= ex[1] /\ base[2] <= ex[2]
    <3>1. ExcludeAddressRaw(base, ex) = {}
      BY <1>6, <2>1 DEF ExcludeAddressRaw
    <3>2. Members(base) \subseteq Members(ex)
      BY <1>1, <2>1 DEF Members
    <3> QED
      BY <3>1, <3>2 DEF Cover
  <2>2. CASE base[1] >= ex[1] /\ ex[2] < base[2]
    <3>1. ExcludeAddressRaw(base, ex) = {right}
      BY <1>1, <1>6, <2>2 DEF ExcludeAddressRaw, right
    <3>2. Members(right) = Members(base) \ Members(ex)
      BY <1>1, <1>4, <1>6, <2>2 DEF Members
    <3> QED
      BY <1>3, <2>2, <3>1, <3>2 DEF Cover
  <2>3. CASE base[1] < ex[1] /\ base[2] <= ex[2]
    <3>1. ExcludeAddressRaw(base, ex) = {left}
      BY <1>1, <1>6, <2>3 DEF ExcludeAddressRaw, left
    <3>2. Members(left) = Members(base) \ Members(ex)
      BY <1>1, <1>4, <1>6, <2>3 DEF Members
    <3> QED
      BY <1>2, <2>3, <3>1, <3>2 DEF Cover
  <2>4. CASE base[1] < ex[1] /\ ex[2] < base[2]
    <3>1. ExcludeAddressRaw(base, ex) = {left, right}
      BY <1>1, <1>6, <2>4 DEF ExcludeAddressRaw, left, right
    <3>2. Members(left) \cup Members(right) = Members(base) \ Members(ex)
      BY <1>1, <1>4, <1>6, <2>4 DEF Members
    <3> QED
      BY <1>2, <1>3, <2>4, <3>1, <3>2 DEF Cover
  <2> QED
    BY <1>1, <2>1, <2>2, <2>3, <2>4
<1> QED
  BY <1>5, <1>6

\* The two pieces exclude_address_raw may yield hold no address in common.
LEMMA ExcludeAddressRawDisjoint ==
    ASSUME NEW base \in Ranges, NEW ex \in Ranges,
           NEW r \in ExcludeAddressRaw(base, ex),
           NEW s \in ExcludeAddressRaw(base, ex),
           r # s
    PROVE  Members(r) \cap Members(s) = {}
<1> DEFINE left == <<base[1], ex[1] - 1>>
           right == <<ex[2] + 1, base[2]>>
<1>1. /\ base[1] \in Nat /\ base[2] \in Nat
      /\ ex[1] \in Nat /\ ex[2] \in Nat /\ ex[1] <= ex[2]
  BY DEF Ranges
<1>2. {r, s} = {left, right}
  BY DEF ExcludeAddressRaw
<1>3. Members(left) \cap Members(right) = {}
  BY <1>1 DEF Members
<1> QED
  BY <1>2, <1>3

\* _exclude_from_subnets: the ranges left cover what the given ones covered
\* outside the exclusion, and stay apart if the given ones were apart.
LEMMA ExcludeFromSubnetsExact ==
    ASSUME NEW R \in SUBSET Ranges, NEW ex \in Ranges
    PROVE  /\ ExcludeFromSubnets(R, ex) \subseteq Ranges
           /\ Cover(ExcludeFromSubnets(R, ex)) = Cover(R) \ Members(ex)
           /\ (\A r, s \in R : r # s => Members(r) \cap Members(s) = {})
                => \A r, s \in ExcludeFromSubnets(R, ex) :
                       r # s => Members(r) \cap Members(s) = {}
<1>1. \A b \in R : /\ ExcludeAddressRaw(b, ex) \subseteq Ranges
                   /\ Cover(ExcludeAddressRaw(b, ex)) = Members(b) \ Members(ex)
  BY ExcludeAddressRawExact
<1>2. ExcludeFromSubnets(R, ex) \subseteq Ranges
  BY <1>1 DEF ExcludeFromSubnets
<1>3. Cover(ExcludeFromSubnets(R, ex)) =
          UNION {Cover(ExcludeAddressRaw(b, ex)) : b \in R}
  BY DEF Cover, ExcludeFromSubnets
<1>4. Cover(ExcludeFromSubnets(R, ex)) = Cover(R) \ Members(ex)
  BY <1>1, <1>3 DEF Cover
<1>5. ASSUME \A r, s \in R : r # s => Members(r) \cap Members(s) = {},
             NEW r \in ExcludeFromSubnets(R, ex),
             NEW s \in ExcludeFromSubnets(R, ex),
             r # s
      PROVE  Members(r) \cap Members(s) = {}
  <2>1. PICK b \in R : r \in ExcludeAddressRaw(b, ex)
    BY DEF ExcludeFromSubnets
  <2>2. PICK c \in R : s \in ExcludeAddressRaw(c, ex)
    BY DEF ExcludeFromSubnets
  <2>3. CASE b = c
    BY <1>5, <2>1, <2>2, <2>3, ExcludeAddressRawDisjoint
  <2>4. CASE b # c
    <3>1. Members(r) \subseteq Members(b) /\ Members(s) \subseteq Members(c)
      BY <1>1, <2>1, <2>2 DEF Cover
    <3> QED
      BY <1>5, <2>4, <3>1
  <2> QED
    BY <2>3, <2>4
<1> QED
  BY <1>2, <1>4, <1>5

-----------------------------------------------------------------------------
\* The ranges the loop keeps determine the result.
Inv ==
    /\ TypeOK
    /\ RangesExact
    /\ RangesDisjoint
    /\ ResultExact
    /\ UntouchedMeansNoOverlap

\* The invariant holds when address_exclude_many starts its loop.
LEMMA InitInv == Init => Inv
<1> SUFFICES ASSUME Init PROVE Inv
  OBVIOUS
<1>1. cidr \in Ranges
  BY NetworkIsRange DEF Init
<1>2. RangesExact
  BY DEF Init, RangesExact, Cover, Applied
<1>3. TypeOK
  BY <1>1 DEF Init, TypeOK
<1> QED
  BY <1>2, <1>3 DEF Init, Inv, RangesDisjoint, ResultExact, UntouchedMeansNoOverlap

\* The return: whether the loop went through every exclusion or left early with
\* nothing, the ranges are what no exclusion holds, and so is the result.
LEMMA FinishResult ==
    ASSUME Inv, Finish
    PROVE  /\ final_subnets' \subseteq Network
           /\ Cover(final_subnets') = Members(cidr) \ Cover(exclusion_cidrs)
           /\ final_subnets' = {cidr}
                 <=> Members(cidr) \cap Cover(exclusion_cidrs) = {}
<1> DEFINE nets == UNION {SummarizeAddressRange(r) : r \in subnet_ranges}
           left == Members(cidr) \ Cover(exclusion_cidrs)
<1>1. final_subnets' = CollapseAddresses(nets)
  BY DEF Finish
<1>2. Cover(subnet_ranges) = left
  <2>1. Cover(Applied) \subseteq Cover(exclusion_cidrs)
    BY DEF Applied, Cover
  <2>2. CASE pending = {}
    BY <2>2 DEF Inv, RangesExact, Applied
  <2>3. CASE subnet_ranges = {}
    BY <2>1, <2>3 DEF Inv, RangesExact, Cover
  <2> QED
    BY <2>2, <2>3 DEF Finish
<1>3. ASSUME NEW r \in subnet_ranges
      PROVE  /\ SummarizeAddressRange(r) \subseteq Network
             /\ Cover(SummarizeAddressRange(r)) = Members(r)
  <2>1. Members(r) \subseteq Members(cidr)
    BY <1>2 DEF Cover
  <2>2. Members(cidr) \subseteq Addresses
    <3>1. cidr[1] \in Addresses /\ cidr[2] \in Addresses /\ 2^Width - 1 \in Int
      BY WidthAssumption DEF Inv, TypeOK, Network
    <3> QED
      BY <3>1 DEF Members, Addresses
  <2> QED
    BY <2>1, <2>2, SummarizeAddressRangeExact DEF Inv, TypeOK
<1>4. nets \in SUBSET Network /\ Cover(nets) = left
  <2>1. nets \in SUBSET Network
    BY <1>3
  <2>2. Cover(nets) = UNION {Cover(SummarizeAddressRange(r)) : r \in subnet_ranges}
    BY DEF Cover
  <2>3. UNION {Cover(SummarizeAddressRange(r)) : r \in subnet_ranges}
            = UNION {Members(r) : r \in subnet_ranges}
    BY <1>3
  <2> QED
    BY <1>2, <2>1, <2>2, <2>3 DEF Cover
<1>5. final_subnets' \subseteq Network /\ Cover(final_subnets') = left
  BY <1>1, <1>4, CollapseAddressesExact
<1>6. ASSUME left = Members(cidr) PROVE final_subnets' = {cidr}
  <2> HIDE DEF nets, left
  <2> QED
    BY <1>1, <1>4, <1>6, CollapseToOne DEF Inv, TypeOK
<1>7. ASSUME final_subnets' = {cidr} PROVE left = Members(cidr)
  BY <1>5, <1>7 DEF Cover
<1> QED
  BY <1>5, <1>6, <1>7

\* Every iteration of the loop, in any order, and the return preserve it.
LEMMA StepInv == Inv /\ [Next]_vars => Inv'
<1> SUFFICES ASSUME Inv, [Next]_vars PROVE Inv'
  OBVIOUS
<1> USE DEF Inv, TypeOK
<1>1. ASSUME NEW ex \in pending, Exclude(ex) PROVE Inv'
  <2>1. ex \in Ranges
    BY NetworkIsRange
  <2>2. /\ subnet_ranges' = ExcludeFromSubnets(subnet_ranges, ex)
        /\ pending' = pending \ {ex}
        /\ ~done'
        /\ UNCHANGED <<cidr, exclusion_cidrs, done, final_subnets>>
    BY <1>1 DEF Exclude
  <2>3. /\ subnet_ranges' \subseteq Ranges
        /\ Cover(subnet_ranges') = Cover(subnet_ranges) \ Members(ex)
    BY <2>1, <2>2, ExcludeFromSubnetsExact
  <2>4. RangesExact'
    <3>1. Applied' = Applied \cup {ex}
      BY <2>2 DEF Applied
    <3>2. Cover(Applied') = Cover(Applied) \cup Members(ex)
      BY <3>1 DEF Cover
    <3> QED
      BY <2>2, <2>3, <3>2 DEF RangesExact
  <2>5. RangesDisjoint'
    BY <2>1, <2>2, ExcludeFromSubnetsExact DEF RangesDisjoint
  <2>6. TypeOK'
    BY <2>2, <2>3
  <2> QED
    BY <2>2, <2>4, <2>5, <2>6 DEF ResultExact, UntouchedMeansNoOverlap
<1>2. CASE Finish
  <2>1. /\ UNCHANGED <<cidr, exclusion_cidrs, subnet_ranges, pending>>
        /\ done' = TRUE
    BY <1>2 DEF Finish
  <2>2. TypeOK'
    BY <1>2, <2>1, FinishResult
  <2>3. ResultExact' /\ UntouchedMeansNoOverlap'
    BY <1>2, <2>1, FinishResult DEF ResultExact, UntouchedMeansNoOverlap
  <2> QED
    BY <2>1, <2>2, <2>3 DEF RangesExact, RangesDisjoint, Applied
<1>3. CASE UNCHANGED vars
  BY <1>3 DEF vars, RangesExact, RangesDisjoint, Applied, ResultExact,
              UntouchedMeansNoOverlap
<1> QED
  BY <1>1, <1>2, <1>3 DEF Next

LEMMA Invariance == Spec => []Inv
BY InitInv, StepInv, PTL DEF Spec

\* Every variable keeps its type: what address_exclude_many returns are networks.
THEOREM TypeCorrectness == Spec => []TypeOK
<1>1. Inv => TypeOK
  BY DEF Inv
<1> QED
  BY <1>1, Invariance, PTL

\* Whatever the order of the exclusions, the loop of address_exclude_many keeps
\* exactly the addresses of cidr outside the exclusions it has applied.
THEOREM LoopKeepsExactRanges == Spec => []RangesExact
<1>1. Inv => RangesExact
  BY DEF Inv
<1> QED
  BY <1>1, Invariance, PTL

\* The ranges the loop keeps hold no address twice.
THEOREM LoopKeepsDisjointRanges == Spec => []RangesDisjoint
<1>1. Inv => RangesDisjoint
  BY DEF Inv
<1> QED
  BY <1>1, Invariance, PTL

\* address_exclude_many returns the addresses of cidr that no exclusion holds,
\* none lost and none left over, for every width and in every order: also when
\* the loop leaves early, and after the library has cut and joined the ranges.
THEOREM ExclusionIsExact == Spec => []ResultExact
<1>1. Inv => ResultExact
  BY DEF Inv
<1> QED
  BY <1>1, Invariance, PTL

\* The test delete_excluded_cidrs makes, that the result is the network itself,
\* tells exactly whether an exclusion overlaps it (worker.py, lines 195-209).
THEOREM UntouchedTestIsExact == Spec => []UntouchedMeansNoOverlap
<1>1. Inv => UntouchedMeansNoOverlap
  BY DEF Inv
<1> QED
  BY <1>1, Invariance, PTL
=============================================================================
