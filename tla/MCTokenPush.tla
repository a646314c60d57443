----------------------------- MODULE MCTokenPush -----------------------------
(***************************************************************************)
(* TokenPush with one subscription: subscriptions share nothing but the    *)
(* channel, which they only read.                                          *)
(***************************************************************************)
EXTENDS TokenPush, TLC

=============================================================================
