------------------------------- MODULE MCDict -------------------------------
(***************************************************************************)
(* Small instances of Dict for TLC.                                        *)
(***************************************************************************)
EXTENDS Dict

CONSTANTS k1, k2, k3, d1, d2

ThreeKeys == {k1, k2, k3}

\* Two of the three keys share a bucket.
HashTwo == (k1 :> 0) @@ (k2 :> 0) @@ (k3 :> 1)

\* No step depends on what the last call gave: states that differ only there are one.
View == <<table, file, fault>>
=============================================================================
