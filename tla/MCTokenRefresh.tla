--------------------------- MODULE MCTokenRefresh ---------------------------
(***************************************************************************)
(* TokenRefresh for TLC.  Callers are interchangeable, but CallersReturn   *)
(* is a liveness property: no symmetry.                                    *)
(***************************************************************************)
EXTENDS TokenRefresh, TLC

=============================================================================
