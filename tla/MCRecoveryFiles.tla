--------------------------- MODULE MCRecoveryFiles ---------------------------
(***************************************************************************)
(* Small instances of RecoveryFiles: two files, three contents, and one    *)
(* operation that deletes one file and replaces the other.                 *)
(***************************************************************************)
EXTENDS RecoveryFiles, TLC

CONSTANTS o1, p1, p2, a, b, c

MCIds == 1..9
MCBothExist ==
  [p \in Paths |-> [content |-> a, id |-> IF p = p1 THEN 1 ELSE 2]]

Put(p, action, content) == [path |-> p, action |-> action, content |-> content]

DeleteReplace == [o \in Ops |-> <<Put(p1, "delete", b), Put(p2, "replace", b)>>]

ExecutorSymmetry == Permutations(Executors \ Models) \cup Permutations(Models)
=============================================================================
