---------------------------- MODULE MCBlockCache ----------------------------
(***************************************************************************)
(* Small instances of BlockCache for TLC.                                  *)
(***************************************************************************)
EXTENDS BlockCacheInv, TLC

CONSTANTS t1, t2, h1, h2, h3

OneThread == {t1}
TwoThreads == {t1, t2}
TwoHandles == {h1, h2}
ThreeHandles == {h1, h2, h3}

Symmetry == Permutations(Threads) \cup Permutations(Handles)
=============================================================================
