-------------------------- MODULE MCCanonicalReads --------------------------
(***************************************************************************)
(* A small instance of CanonicalReads for TLC: pages of two rows, or up to *)
(* three, and tables of three to seven.  Walks do not interact: one client *)
(* is enough.                                                              *)
(***************************************************************************)
EXTENDS CanonicalReads, TLC

MCIds == 0..6

\* Inserted before, between and after these.
MCInitial == {1, 3, 5}
=============================================================================
