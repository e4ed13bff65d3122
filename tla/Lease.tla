------------------------------- MODULE Lease --------------------------------
(***************************************************************************)
(* What a status that lives on reports promises: it is known for as long as    *)
(* reports come in, it does not lapse while the last one is recent, and once    *)
(* they stop it does not outlive its term by more than a slack.  When what it   *)
(* describes is gone, so is the status, for good.                            *)
(***************************************************************************)
EXTENDS Naturals

CONSTANTS
  Terms,  \* what a report may ask for
  Grace,  \* silence after which a status may lapse before its term is over
  Slack,  \* how much longer than its term it may last
  Horizon \* bound: the age at which a clock stops

VARIABLES held, age, due, ended

vars == <<held, age, due, ended>>

Init == ~held /\ age = 0 /\ due \in Terms /\ ~ended

\* A report renews the term; what it says may be that nothing is known.
Renew == ~ended /\ held' \in BOOLEAN /\ age' = 0 /\ due' \in Terms /\ UNCHANGED ended

Pass ==
  /\ held => age < due + Slack
  /\ age' = (IF age < Horizon THEN age + 1 ELSE age)
  /\ UNCHANGED <<held, due, ended>>

Lapse == held /\ (age > due \/ age > Grace) /\ held' = FALSE /\ UNCHANGED <<age, due, ended>>

End == ~ended /\ held' = FALSE /\ age' = 0 /\ ended' = TRUE /\ UNCHANGED due

Next == Renew \/ Pass \/ Lapse \/ End

Spec == Init /\ [][Next]_vars
=============================================================================
