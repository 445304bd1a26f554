------------------------------ MODULE Networks ------------------------------
(***************************************************************************)
(* Networks as sets of addresses, and what the worker's functions on sets  *)
(* of networks return.  Module AddressExclusion models the arithmetic that *)
(* computes AddressExcludeMany; here it is taken by its result.            *)
(***************************************************************************)

CONSTANTS
    Addr,       \* the addresses
    Nets        \* the networks: nonempty sets of addresses, nested or disjoint

\* The last part holds when there are finitely many networks: of those around an
\* address that stay inside some addresses one is the largest.

ASSUME NetsAssumption ==
    /\ Nets \subseteq (SUBSET Addr) \ {{}}
    /\ \A a \in Addr : {a} \in Nets
    /\ \A m, n \in Nets : m \subseteq n \/ n \subseteq m \/ m \cap n = {}
    /\ \A A \in SUBSET Addr : \A a \in A : \E n \in Nets :
           a \in n /\ n \subseteq A /\ \A m \in Nets : n \subseteq m /\ m \subseteq A => m = n

\* The addresses a set of networks holds.
Cover(nets) == UNION nets

\* The fewest networks that hold exactly the addresses of A: what
\* collapse_addresses and summarize_address_range come down to.
Collapsed(A) ==
    LET inside == {n \in Nets : n \subseteq A}
    IN  {n \in inside : \A m \in inside : n \subseteq m => m = n}

\* A mutated form of address_exclude_many: a network that overlaps an exclusion
\* is dropped whole instead of being split.
ExcludeWhole(net, exclusion) ==
    IF net \cap exclusion = {} THEN {net} ELSE {}

\* A mutated form: a network larger than the exclusion is left alone.
ExcludeOnlySubnets(net, exclusion) ==
    IF net \subseteq exclusion THEN {} ELSE {net}

\* address_exclude_many: the networks left of net without the addresses excluded.
AddressExcludeMany(net, exclusion) == Collapsed(net \ exclusion)
=============================================================================
