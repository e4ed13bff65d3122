------------------------------ MODULE Revisions -----------------------------
(***************************************************************************)
(* The revisions of one agent as everybody else counts on them: whoever sees   *)
(* two of them knows which is newer, and the retirement comes last.           *)
(***************************************************************************)
EXTENDS Naturals

VARIABLES
  revision, \* the newest, 0 as long as the agent does not exist
  retired   \* the agent is deleted: its revision is that of its retirement

numbering == <<revision, retired>>

Unnumbered == revision \in {0, 1} /\ ~retired

Increase == revision' \in Nat /\ revision' > revision

Change == ~retired /\ Increase /\ UNCHANGED retired

Retire == ~retired /\ revision # 0 /\ Increase /\ retired' = TRUE

Renumber == Change \/ Retire

Numbered == Unnumbered /\ [][Renumber]_numbering
=============================================================================
