--------------------------- MODULE CronExpression ---------------------------
(***************************************************************************)
(* Cron fields.  Two parts of the program read them by themselves: the     *)
(* scheduler, which has to know when a job is due (scheduler/schedule.go), *)
(* and the crontab client, which only validates what it writes             *)
(* (systemcron/systemcron.go).                                             *)
(*                                                                         *)
(* A field is a list of items; an item has a base ("*", a number, a range, *)
(* or text that is no number) and perhaps a step.                          *)
(***************************************************************************)
EXTENDS Integers, Sequences, FiniteSets, FiniteSetsExt

CONSTANTS
  Items,            \* the items a field is made of
  MaxItems,         \* bound: items of a field
  Ranges,           \* the smallest and largest values of the fields
  MaxInt            \* the largest integer of the machine

ASSUME FieldAssumption ==
  /\ Ranges \subseteq {r \in Nat \X Nat : r[1] <= r[2]}
  /\ Items \subseteq [kind : {"any", "number", "range", "text"}, low : Int, high : Int, step : Seq(Nat)]
  /\ \A item \in Items : Len(item.step) <= 1 /\ \A i \in 1..Len(item.step) : item.step[i] <= MaxInt
  /\ MaxInt \in Nat /\ \A r \in Ranges : 2 * r[2] < MaxInt

VARIABLES
  field,            \* the field as written
  range             \* the values it may have

fieldVars == <<field, range>>

Item(kind, low, high, step) == [kind |-> kind, low |-> low, high |-> high, step |-> step]
\* A step is written or not; text that is no positive integer counts as zero.
NoStep == <<>>

\* A lone "*" is any value.
IsAny(f) == Len(f) = 1 /\ f[1].kind = "any" /\ f[1].step = NoStep

-----------------------------------------------------------------------------
(* parseCronField and parseCronRange of the scheduler *)

StepOk(item) == item.step = NoStep \/ item.step[1] > 0
StepOf(item) == IF item.step = NoStep THEN 1 ELSE item.step[1]

ParseRange(item, r) ==
  CASE item.kind = "any" -> r
    [] item.kind = "range" /\ item.low <= item.high /\ item.low >= r[1] /\ item.high <= r[2] ->
         <<item.low, item.high>>
    [] item.kind = "number" /\ item.low \in r[1]..r[2] -> <<item.low, item.low>>
    [] OTHER -> <<>>

\* Sunday is 0, and 7 as well.
\* Variant: 7 is a value of its own.
WeekIsLong(n, r) == {n}
Values(n, r) == IF r[2] = 7 /\ n = 7 THEN {7, 0} ELSE {n}

\* Integers wrap around.
Stepped(n, step) == IF n + step > MaxInt THEN n + step - 2 * (MaxInt + 1) ELSE n + step
\* The loop over the values of an item: counting up in steps from its start.
CountFrom(low, high, step, r) ==
  LET at[n \in Int] == IF n > high THEN {} ELSE Values(n, r) \cup at[Stepped(n, step)]
  IN  at[low]
Counted(item, r) ==
  LET bounds == ParseRange(item, r) IN CountFrom(bounds[1], bounds[2], StepOf(item), r)

ParseField(f, r) ==
  IF IsAny(f) THEN [ok |-> TRUE, values |-> r[1]..r[2]]
  ELSE IF \A i \in 1..Len(f) : StepOk(f[i]) /\ ParseRange(f[i], r) # <<>>
  THEN [ok |-> TRUE, values |-> UNION {Counted(f[i], r) : i \in 1..Len(f)}]
  ELSE [ok |-> FALSE, values |-> {}]

-----------------------------------------------------------------------------
(* validCronField of the crontab client *)

ValidItem(item, r) ==
  /\ item.step # NoStep => item.step[1] > 0
  /\ \/ item.kind = "any"
     \/ item.kind = "range" /\ item.low <= item.high /\ item.low >= r[1] /\ item.high <= r[2]
     \/ item.kind = "number" /\ item.low >= r[1] /\ item.low <= r[2]

ValidField(f, r) == IsAny(f) \/ \A i \in 1..Len(f) : ValidItem(f[i], r)

-----------------------------------------------------------------------------
WriteItem(item) ==
  /\ Len(field) < MaxItems
  /\ field' = Append(field, item)
  /\ UNCHANGED range

FieldInit == field = <<>> /\ range \in Ranges
FieldNext == \E item \in Items : WriteItem(item)
FieldSpec == FieldInit /\ [][FieldNext]_fieldVars

\* Every value the item names, as a set: on its range and a whole number of
\* steps from the start.
Named(item, r, n) ==
  LET low == IF item.kind = "any" THEN r[1] ELSE item.low
      high == IF item.kind = "range" THEN item.high ELSE IF item.kind = "any" THEN r[2] ELSE low
  IN  n \in low..high /\ (n - low) % StepOf(item) = 0

\* A step so large that the sum in the scheduler's loop wraps around.
Overflows(item, r) == StepOf(item) > MaxInt - r[2]

\* The scheduler and the crontab client accept the same fields, and on a field
\* they accept the scheduler matches exactly the values the items name, with
\* Sunday written 0 or 7 (parseCronField, validCronField).  With a step near the
\* largest integer it matches those, but may match others too (schedule.go:129).
FieldsAgree ==
  field # <<>> =>
    LET parsed == ParseField(field, range)
    IN  /\ parsed.ok = ValidField(field, range)
        /\ parsed.ok =>
             \A n \in range[1]..(IF range[2] = 7 THEN 6 ELSE range[2]) :
               LET named == \E i \in 1..Len(field) :
                     Named(field[i], range, n) \/ (range[2] = 7 /\ n = 0 /\ Named(field[i], range, 7))
               IN  /\ named => n \in parsed.values
                   /\ n \in parsed.values => named \/ \E i \in 1..Len(field) : Overflows(field[i], range)
=============================================================================
