------------------------------ MODULE MCIngest ------------------------------
(* A text of two units, a text of one unit and an empty text; two models whose
   identity is immutable and one whose is not. *)
EXTENDS IngestPipeline, TLC

CONSTANTS long, short, empty

UnitsOfSources == (long :> 2) @@ (short :> 1) @@ (empty :> 0)
AnyOrder == Permutations(Calls) \cup Permutations(Immutable)
=============================================================================
