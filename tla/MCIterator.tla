----------------------------- MODULE MCIterator -----------------------------
(* A small instance of NodeIterator.  The addresses are one byte long; the *)
(* hash puts the first four in one bucket of a table of four, and three of *)
(* them stay together when it is doubled.                                  *)
EXTENDS NodeIterator

A == <<97>>
B == <<98>>
E == <<101>>
I == <<105>>
Q == <<113>>

MCKey == {A, B, E, I, Q}

MCConfigured == {A, B}

(* A node in each of two buckets; a chain that fills the first table; all  *)
(* nodes, for which the table has been expanded.                           *)
MCMaps == { <<A, B>>, <<A, I, Q, E>>, <<Q, A, E, B, I>> }
=============================================================================
