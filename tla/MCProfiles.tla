----------------------------- MODULE MCProfiles -----------------------------
(***************************************************************************)
(* Model-checking instance of Profiles, and of the merkle tree whose root  *)
(* a vault is written under.  The tree does not depend on the profile: it  *)
(* is explored before anything happens to the profile.                     *)
(***************************************************************************)
EXTENDS Profiles, MerkleTree, TLC

Symmetry == Permutations(Servers) \cup Permutations(Keys)

MCInit == Init /\ MerkleInit

MCNext ==
    \/ Len(leaves) = 1 /\ Next /\ UNCHANGED merkle
    \/ calls = <<>> /\ client.edits = 0 /\ faults = 0 /\ MerkleNext /\ UNCHANGED vars

MCSpec == MCInit /\ [][MCNext]_<<vars, merkle>>
=============================================================================
