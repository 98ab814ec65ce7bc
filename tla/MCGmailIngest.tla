---------------------------- MODULE MCGmailIngest ----------------------------
(* Small instances of GmailIngest for TLC. *)
EXTENDS GmailIngest, TLC

CONSTANTS p1, p2

MCPollers == {p1, p2}
MCSymmetry == Permutations(MCPollers)
=============================================================================
