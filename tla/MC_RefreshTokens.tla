-------------------------- MODULE MC_RefreshTokens --------------------------
(* The module TLC runs: the constants' values are in the .cfg files.       *)
EXTENDS RefreshTokens, TLC

\* No definition tells one request from another.
RequestSymmetry == Permutations(Requests)
=============================================================================
