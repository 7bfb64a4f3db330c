---------------------------- MODULE MCCartNotices ----------------------------
(***************************************************************************)
(* CartNotices on small instances.                                         *)
(***************************************************************************)
EXTENDS CartNotices, TLC

NoticeSymmetry == Permutations(Stores) \cup Permutations(Products) \cup Permutations(Calls)
=============================================================================
