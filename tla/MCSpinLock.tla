----------------------------- MODULE MCSpinLock -----------------------------
(***************************************************************************)
(* Three CPUs contend for one lock.                                        *)
(***************************************************************************)
EXTENDS SpinLock

CONSTANTS c1, c2, c3
=============================================================================
