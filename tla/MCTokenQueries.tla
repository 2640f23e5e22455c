--------------------------- MODULE MCTokenQueries ---------------------------
(***************************************************************************)
(* The lists of tokens TLC asks for: none, one that fits a batch of two,   *)
(* one batch exactly, a full batch and a part of another, and one with     *)
(* duplicates on both sides of a batch's border.                           *)
(***************************************************************************)
EXTENDS TokenQueries, TLC

CONSTANTS t1, t2, t3

MCLists == {<<>>, <<t1>>, <<t2, t1>>, <<t1, t2, t3>>, <<t1, t1, t2, t3, t2>>}
=============================================================================
