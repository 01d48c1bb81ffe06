--------------------------- MODULE MCAttribution ---------------------------
(***************************************************************************)
(* Histograms for model checking Attribution over the indexes of MCTypes. *)
(***************************************************************************)
EXTENDS Attribution, MCTypes

\* Histograms whose buckets carry distinct powers of ten, so that a count
\* attributed to the wrong bucket changes a total; lengths 0 to 7 cover the
\* empty histogram, the type size, the window below twice the size, and
\* collapses with and without a partial row for the 12- to 24-byte types.
MCHists == {[i \in 1..n |-> 10^(i - 1)] : n \in 0..7}

=============================================================================
