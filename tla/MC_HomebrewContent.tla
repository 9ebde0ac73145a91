-------------------------- MODULE MC_HomebrewContent --------------------------
EXTENDS HomebrewContent, TLC

Interchangeable == Permutations(Requests)
=============================================================================
