------------------------------ MODULE MCBinding ------------------------------
(* Instances of Binding for TLC.                                            *)
EXTENDS BindingClaims

\* Contents other than the empty and the oversized ones are interchangeable.
ContentSymmetry == Permutations(Text \ ({Empty} \cup Oversize))
=============================================================================
