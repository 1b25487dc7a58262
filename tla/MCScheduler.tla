----------------------------- MODULE MCScheduler -----------------------------
(***************************************************************************)
(* Instances of Scheduler for TLC: a one-shot job and one with a cron      *)
(* expression; two daemons and an operator at the command line, each a     *)
(* process of its own.                                                     *)
(***************************************************************************)
EXTENDS Scheduler, TLC

CONSTANTS j1, j2, once, cron, d1, d2, operator

MCKind == [d \in Defs |-> IF d = once THEN "at" ELSE "cron"]
MCOwner == [x \in Callers |-> x]

Roles(operations) ==
  [x \in Callers |-> IF x \in {d1, d2} THEN {"due"} ELSE operations]
DaemonSymmetry == Permutations({d1, d2})

Attended == Roles({"now", "approve", "remove", "create"})
Updates  == Roles({"update"})
Editing  == Roles({"update", "pause", "resume", "now", "approve"})

Repeating == [j \in Jobs |-> cron]
FirstOnly == [j \in Jobs |-> IF j = j1 THEN once ELSE NoRow]
=============================================================================
