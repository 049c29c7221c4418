---------------------------- MODULE MCUserAdmin ----------------------------
(* Instances of UserAdmin for TLC.  Requests and ids are interchangeable;    *)
(* SeedEmail is not interchangeable with the other addresses.                *)
EXTENDS UserAdmin, TLC

AccountSymmetry ==
  Permutations(Request) \cup Permutations(User)
    \cup Permutations(Email \ {SeedEmail})
=============================================================================
