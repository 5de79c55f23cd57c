-------------------------- MODULE MCBlockCacheSize --------------------------
(***************************************************************************)
(* A small instance of BlockCacheSize for TLC.                             *)
(***************************************************************************)
EXTENDS BlockCacheSize

CONSTANTS t1, h1, h2, h3

OneThread == {t1}
ThreeHandles == {h1, h2, h3}
=============================================================================
