------------------------------- MODULE MCTriage -------------------------------
(***************************************************************************)
(* Instances of the triage service for TLC.                                *)
(***************************************************************************)
EXTENDS TriageProperties, TLC

CONSTANTS s1, s2

\* The sessions are interchangeable: no definition names one.
Symmetry == Permutations({s1, s2})
=============================================================================
