----------------------------- MODULE MCSemaphore -----------------------------
(***************************************************************************)
(* A small instance of Semaphore for TLC.                                  *)
(***************************************************************************)
EXTENDS Semaphore

CONSTANTS t1, t2, t3, t4, t5

ThreeWaiters == {t1, t2, t3}
TwoPosters == {t4, t5}
=============================================================================
