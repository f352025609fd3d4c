------------------------------ MODULE Flatten ------------------------------
(***************************************************************************)
(* The elements of a sequence of sequences, one sequence after the other.  *)
(* This is the operator of the same name of SequencesExt, which the        *)
(* modules with proofs do without: it brings in Bags, whose definitions    *)
(* the prover would carry through every step.                              *)
(***************************************************************************)
EXTENDS Integers, Sequences

FlattenSeq(seqs) ==
  IF Len(seqs) = 0 THEN seqs
  ELSE LET flatten[i \in 1 .. Len(seqs)] ==
             IF i = 1 THEN seqs[i] ELSE flatten[i-1] \o seqs[i]
       IN flatten[Len(seqs)]
=============================================================================
