---------------------------- MODULE MCRankGrowth ----------------------------
(***************************************************************************)
(* Four blocks: two of equal small dimension that share a batch, one whose *)
(* rank bound is below its dimension and one that cannot grow.             *)
(***************************************************************************)
EXTENDS RankGrowth

MCDim == <<3, 4, 1, 3>>
MCMaxRank == <<4, 3, 3, 3>>
=============================================================================
