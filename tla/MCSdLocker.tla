----------------------------- MODULE MCSdLocker -----------------------------
(* Three sd-lockers on two lock files: two of them share one.                *)
EXTENDS SdLocker

CONSTANTS p1, p2, p3, f1, f2
MCLockFile == [p \in Lockers |-> IF p = p3 THEN f2 ELSE f1]
============================================================================
