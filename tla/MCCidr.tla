------------------------------- MODULE MCCidr -------------------------------
(***************************************************************************)
(* Instances of CidrListings for TLC: an address space of two bits, and,   *)
(* for each question, the lists there are and the requests clients send.   *)
(***************************************************************************)
EXTENDS ContentsRefinement

MCAddr == 0 .. 3
All == MCAddr
Low == {0, 1}
High == {2, 3}
MCNets == {All, Low, High} \cup {{a} : a \in MCAddr}

\* The whole space stands for a /0 network, which add_cidrs never stores.
MCSpecial == {All}

\* One address that is not globally routable.
MCNonGlobal == {{3}}

List(user, type, enabled) == [user |-> user, type |-> type, enabled |-> enabled]

Add(l, cidrs, ttl) ==
    [op |-> "add", user |-> "u1", list |-> l, cidrs |-> cidrs, ttl |-> ttl,
     web |-> ttl < 0]
Delete(l, cidrs) ==
    [op |-> "delete", user |-> "u1", list |-> l, cidrs |-> cidrs, ttl |-> 0,
     web |-> FALSE]
Update(l, type, enabled, web) ==
    [op |-> "update", user |-> "u1", list |-> l, type |-> type,
     enabled |-> enabled, web |-> web]
Create(l, type, enabled) ==
    [op |-> "create", user |-> "u1", list |-> l, type |-> type, enabled |-> enabled]
Drop(l) == [op |-> "drop", user |-> "u1", list |-> l]
Erase(l, net) == [op |-> "erase", list |-> l, net |-> net]

-----------------------------------------------------------------------------
\* A denylist that stays enabled and a safelist that is switched on and off.
SwitchedLists == [l \in {"deny", "safe"} |->
    IF l = "deny" THEN List("u1", "DENY", TRUE) ELSE List("u1", "SAFE", FALSE)]

\* With a denylist of another user, who holds the same row.
FilterLists == [l \in {"deny", "safe", "other"} |->
    IF l = "other" THEN List("u2", "DENY", TRUE) ELSE SwitchedLists[l]]
FilterCidrs == [k \in {<<Low, "deny">>, <<Low, "other">>} |-> Never]
FilterCommands ==
    {Add("deny", {Low, High}, 0), Add("deny", {{1}, {2}, {3}}, 0),
     Add("safe", {{1}}, 0), Add("safe", {High}, 0),
     Delete("deny", {{0}}), Delete("safe", {{1}}),
     Update("safe", Keep, TRUE, FALSE), Update("safe", "SAFE", FALSE, TRUE)}
-----------------------------------------------------------------------------
\* Two workers over lists nobody deletes, with rows that overlap: what is left of
\* one is upserted over the other.
TeamLists == [l \in {"deny", "safe"} |->
    IF l = "deny" THEN List("u1", "DENY", TRUE) ELSE List("u1", "SAFE", TRUE)]
TeamCidrs ==
    [k \in {<<Low, "deny">>, <<High, "deny">>, <<{0}, "deny">>} |->
        IF k[1] = {0} THEN 1 ELSE Never]
TeamCommands ==
    {Add("deny", {{0}}, 0), Add("safe", {{1}, {3}}, 0), Delete("deny", {{0}, {2}})}

\* A row that has expired and one that never does, and a safelist that is
\* enabled over them.
ExpiryLists == SwitchedLists
ExpiryCidrs ==
    [k \in {<<Low, "deny">>, <<{2}, "deny">>, <<{1}, "safe">>} |->
        IF k[1] = Low THEN 0 ELSE Never]
ExpiryCommands ==
    {Add("deny", {{2}, {3}}, 1), Add("deny", {Low}, 0), Add("deny", {{3}}, -1),
     Update("safe", Keep, TRUE, FALSE)}

\* The lists' addresses, under everything that changes them: a list changes its
\* type, or is deleted and created as another, while jobs for it wait; another is
\* deleted while its form is submitted.
ContentsLists == SwitchedLists
ContentsCidrs ==
    [k \in {<<Low, "deny">>, <<{1}, "deny">>, <<{2}, "safe">>} |->
        IF k[1] = {1} THEN -1 ELSE Never]
ContentsCommands ==
    {Add("deny", {{1}, High}, 0), Add("safe", {{1}, {3}}, 0), Delete("deny", {{0}}),
     Update("safe", "SAFE", TRUE, TRUE), Update("deny", "SAFE", TRUE, FALSE),
     Drop("deny"), Drop("safe"), Create("deny", "SAFE", TRUE), Erase("deny", Low)}

-----------------------------------------------------------------------------
\* An address is added to a safelist while another request enables it.
RaceLists == SwitchedLists
RaceCidrs == [k \in {<<Low, "deny">>} |-> Never]
RaceCommands == {Add("safe", {{1}}, 0), Update("safe", Keep, TRUE, FALSE)}

\* One address is added to a denylist and to a safelist.
SkewLists == TeamLists
SkewCidrs == << >>
SkewCommands == {Add("safe", {{1}}, 0), Add("deny", {Low}, 0)}

\* A list is deleted while a job for it waits.
PoisonLists == TeamLists
PoisonCidrs == << >>
PoisonCommands == {Add("deny", {Low}, 0), Drop("deny")}

\* A row is deleted by hand while a safelist is cleaned up after.
EraseLists == TeamLists
EraseCidrs == [k \in {<<High, "deny">>} |-> Never]
EraseCommands == {Add("safe", {{1}}, 0), Erase("deny", High)}
=============================================================================
