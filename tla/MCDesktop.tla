------------------------------ MODULE MCDesktop ------------------------------
(***************************************************************************)
(* Desktop with two of everything that competes.  One part is at work in a *)
(* behaviour, so the same model values stand for the threads of one part   *)
(* and the networks of another: two permutations cover them all.           *)
(***************************************************************************)
EXTENDS Desktop, TLC

CONSTANTS Actors, Things  \* what stands for the one and for the other

Symmetry == Permutations(Actors) \cup Permutations(Things)

\* Both networks are of one operator and region.
Group == [n \in Networks |-> "group"]

\* Nothing of what a part cannot know has happened, and a link is checked before
\* another one is in the history.
Bounds == Unreserved /\ (part = "tariff" => Traffic!HistoryIsNew)

\* Quick; slow and unsteady; quick, but without a second address.
Pace == {[median |-> 30, jitter |-> 2, backup |-> TRUE],
         [median |-> 250, jitter |-> 60, backup |-> TRUE],
         [median |-> 30, jitter |-> 2, backup |-> FALSE]}
===============================================================================
