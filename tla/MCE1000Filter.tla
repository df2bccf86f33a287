--------------------------- MODULE MCE1000Filter ---------------------------
(* Small lists for E1000Filter: with one exact filter beside the station   *)
(* address, two unicast addresses are too many, and two multicast ones     *)
(* need the hash table.                                                    *)
EXTENDS E1000Filter

SmallLists ==
  { [uc |-> {}, mc |-> {}], [uc |-> {}, mc |-> { "m1", "m2" }],
    [uc |-> { "u1" }, mc |-> { "m1" }],
    [uc |-> { "u1", "u2" }, mc |-> { "m1" }] }
=============================================================================
