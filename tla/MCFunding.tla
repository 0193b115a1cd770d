------------------------------ MODULE MCFunding ------------------------------
(* The developers of an instance of Funding are interchangeable. *)
EXTENDS Funding, TLC

DeveloperSymmetry == Permutations(Developers)

=============================================================================
