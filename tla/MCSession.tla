----------------------------- MODULE MCSession -----------------------------
(* Session for TLC: one tab in full, the other tabs of the profile as Elsewhere. *)
EXTENDS Session, TLC
=============================================================================
