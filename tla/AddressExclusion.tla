-------------------------- MODULE AddressExclusion --------------------------
(***************************************************************************)
(* The address arithmetic of src/app/lib/iputils.py: subtracting a set of  *)
(* networks from one network.  An address is a natural number, a range is  *)
(* the pair <<first, last>> that the code calls base_range, exclude_range  *)
(* or subnet_range, and a network is an aligned range whose size is a      *)
(* power of two.  Only one IP version is modelled: address_exclude_many    *)
(* ignores exclusions of the other version.                                *)
(*                                                                         *)
(* exclusion_cidrs is a Python set, so the loop of address_exclude_many    *)
(* visits it in an unspecified order: the state machine below visits it in *)
(* every order.                                                            *)
(***************************************************************************)
EXTENDS Integers, FiniteSets

CONSTANTS
    Width,          \* number of address bits
    MaxExclusions   \* bound on the number of exclusions of one call

ASSUME WidthAssumption == Width \in Nat
ASSUME MaxExclusionsAssumption == MaxExclusions \in Nat

Addresses == 0 .. 2^Width - 1

Ranges == {r \in Nat \X Nat : r[1] <= r[2]}

Network == {r \in Addresses \X Addresses :
                /\ r[1] <= r[2]
                /\ \E k \in 0 .. Width : /\ r[2] - r[1] + 1 = 2^k
                                         /\ r[1] % 2^k = 0}

\* The addresses of a range, and of a set of ranges.
Members(r) == r[1] .. r[2]
Cover(R) == UNION {Members(r) : r \in R}

-----------------------------------------------------------------------------
(* Mutated forms of exclude_address_raw, used only to show that the         *)
(* properties notice them.  First: a piece starts one address too early.   *)
ExcludeRawOffByOne(base, ex) ==
    IF base[1] > ex[2] \/ base[2] < ex[1] THEN {base}
    ELSE IF base[1] >= ex[1] /\ base[2] <= ex[2] THEN {}
    ELSE IF base[1] >= ex[1] THEN {<<ex[2], base[2]>>}
    ELSE IF base[2] <= ex[2] THEN {<<base[1], ex[1] - 1>>}
    ELSE {<<base[1], ex[1] - 1>>, <<ex[2], base[2]>>}

\* Second: the test for a wholly excluded base misses an equal last address.
ExcludeRawStrict(base, ex) ==
    IF base[1] > ex[2] \/ base[2] < ex[1] THEN {base}
    ELSE IF base[1] >= ex[1] /\ base[2] < ex[2] THEN {}
    ELSE IF base[1] >= ex[1] THEN {<<ex[2] + 1, base[2]>>}
    ELSE IF base[2] <= ex[2] THEN {<<base[1], ex[1] - 1>>}
    ELSE {<<base[1], ex[1] - 1>>, <<ex[2] + 1, base[2]>>}

\* exclude_address_raw: the branches in the order of the source.
ExcludeAddressRaw(base, ex) ==
    IF base[1] > ex[2] \/ base[2] < ex[1]           \* no overlap
        THEN {base}
    ELSE IF base[1] >= ex[1] /\ base[2] <= ex[2]    \* base wholly excluded
        THEN {}
    ELSE IF base[1] > ex[1] /\ base[2] > ex[2]      \* overlaps the start
        THEN {<<ex[2] + 1, base[2]>>}
    ELSE IF base[1] < ex[1] /\ base[2] < ex[2]      \* overlaps the end
        THEN {<<base[1], ex[1] - 1>>}
    ELSE IF base[1] = ex[1]                         \* same start
        THEN {<<ex[2] + 1, base[2]>>}
    ELSE IF base[2] = ex[2]                         \* same end
        THEN {<<base[1], ex[1] - 1>>}
    ELSE {<<base[1], ex[1] - 1>>, <<ex[2] + 1, base[2]>>}

\* A mutated form of _exclude_from_subnets: the new set is not started empty.
ExcludeWithoutReset(ranges, ex) ==
    ranges \cup UNION {ExcludeAddressRaw(r, ex) : r \in ranges}

\* _exclude_from_subnets: one exclusion applied to every range left so far.
ExcludeFromSubnets(ranges, ex) ==
    UNION {ExcludeAddressRaw(r, ex) : r \in ranges}

-----------------------------------------------------------------------------
(* The two functions of the Python library the result goes through.        *)

\* The largest network that starts at an address and ends by last.
LargestFrom(first, last) ==
    CHOOSE n \in Network :
        /\ n[1] = first
        /\ n[2] <= last
        /\ \A m \in Network : m[1] = first /\ m[2] <= last => m[2] <= n[2]

\* ipaddress.summarize_address_range: greedily, from the first address on.
SummarizeAddressRange(range) ==
    LET from[first \in 0 .. 2^Width] ==
            IF first > range[2] THEN {}
            ELSE LET n == LargestFrom(first, range[2])
                 IN  {n} \cup from[n[2] + 1]
    IN  from[range[1]]

\* ipaddress.collapse_addresses: the largest networks the given ones fill.
CollapseAddresses(nets) ==
    LET inside == {n \in Network : Members(n) \subseteq Cover(nets)}
    IN  {n \in inside :
            \A m \in inside : Members(n) \subseteq Members(m) => m = n}

-----------------------------------------------------------------------------
(* address_exclude_many.                                                   *)

VARIABLES
    cidr,               \* the network addresses are excluded from
    exclusion_cidrs,    \* the networks to exclude
    subnet_ranges,      \* what is left of cidr
    pending,            \* exclusions the loop has not reached
    done,               \* the function has returned
    final_subnets       \* its result

vars == <<cidr, exclusion_cidrs, subnet_ranges, pending, done, final_subnets>>

Init ==
    /\ cidr \in Network
    /\ exclusion_cidrs \in {X \in SUBSET Network : Cardinality(X) <= MaxExclusions}
    /\ subnet_ranges = {cidr}
    /\ pending = exclusion_cidrs
    /\ done = FALSE
    /\ final_subnets = {}

\* One iteration of the loop; it ends early once nothing is left (`break`).
Exclude(ex) ==
    /\ ~done
    /\ ex \in pending
    /\ subnet_ranges # {}
    /\ subnet_ranges' = ExcludeFromSubnets(subnet_ranges, ex)
    /\ pending' = pending \ {ex}
    /\ UNCHANGED <<cidr, exclusion_cidrs, done, final_subnets>>

\* A mutated form of the end of the loop: it leaves as soon as one range is left.
FinishEarly ==
    /\ ~done
    /\ pending = {} \/ Cardinality(subnet_ranges) <= 1
    /\ done' = TRUE
    /\ final_subnets' = UNION {SummarizeAddressRange(r) : r \in subnet_ranges}
    /\ UNCHANGED <<cidr, exclusion_cidrs, subnet_ranges, pending>>

\* The conversion of the ranges left to networks, and the return.
Finish ==
    /\ ~done
    /\ pending = {} \/ subnet_ranges = {}
    /\ done' = TRUE
    /\ final_subnets' =
           CollapseAddresses(UNION {SummarizeAddressRange(r) : r \in subnet_ranges})
    /\ UNCHANGED <<cidr, exclusion_cidrs, subnet_ranges, pending>>

Next ==
    \/ \E ex \in pending : Exclude(ex)
    \/ Finish

Spec == Init /\ [][Next]_vars

-----------------------------------------------------------------------------
TypeOK ==
    /\ cidr \in Network
    /\ exclusion_cidrs \subseteq Network
    /\ pending \subseteq exclusion_cidrs
    /\ subnet_ranges \subseteq Ranges
    /\ done \in BOOLEAN
    /\ final_subnets \subseteq Network

\* The ranges of the exclusions already applied.
Applied == exclusion_cidrs \ pending

\* Whatever order the exclusions come in, the ranges kept so far are the
\* addresses of cidr outside the exclusions applied so far: none lost, none
\* left over (iputils.py, the loop of address_exclude_many).
RangesExact == Cover(subnet_ranges) = Members(cidr) \ Cover(Applied)

\* No address is held by two of the ranges, so no address is yielded twice
\* by the summarizing loop that follows.
RangesDisjoint ==
    \A r, s \in subnet_ranges : r # s => Members(r) \cap Members(s) = {}

\* The early `break` loses nothing, and the result is exact: the addresses of
\* cidr that no exclusion holds.
ResultExact ==
    done => Cover(final_subnets) = Members(cidr) \ Cover(exclusion_cidrs)

\* The caller delete_excluded_cidrs treats a result of one network equal to
\* cidr as "no filtering was needed" and any other as "the original needs to be
\* deleted" (worker.py, lines 195-209): the test is right exactly when no
\* exclusion overlaps cidr.
UntouchedMeansNoOverlap ==
    done => (final_subnets = {cidr}
                <=> Members(cidr) \cap Cover(exclusion_cidrs) = {})
=============================================================================
