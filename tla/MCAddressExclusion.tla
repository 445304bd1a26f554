------------------------ MODULE MCAddressExclusion ------------------------
(* AddressExclusion over every network of a small address space, and every *)
(* small set of exclusions.                                                *)
EXTENDS AddressExclusion
===========================================================================
