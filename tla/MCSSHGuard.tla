----------------------------- MODULE MCSSHGuard -----------------------------
(***************************************************************************)
(* Instances of SSHGuard for TLC: port changes one after another, with     *)
(* operators at work.                                                      *)
(***************************************************************************)
EXTENDS SSHGuard

CONSTANTS o1, o2, p1, p2, p3, c1, c2
=============================================================================
