---------------------------- MODULE MCSavedTunnels ----------------------------
(* SavedTunnels with processes that are alike. *)
EXTENDS SavedTunnels, TLC

MCBlock == {{1, 2}, {3}}

Alike == Permutations(Proc)
===============================================================================
