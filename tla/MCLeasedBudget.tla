--------------------------- MODULE MCLeasedBudget ---------------------------
(***************************************************************************)
(* Instances of LeasedBudget for TLC.                                      *)
(***************************************************************************)
EXTENDS LeasedBudget, TLC

\* The refill slots of a holder are interchangeable, and so are the
\* holders; sound for the safety runs, which state nothing of a particular one.
Symmetric == Permutations(Slots)
SymmetricHolders == Permutations(Holders)

\* A call that can only be lost now changes nothing any more: its states are not
\* followed, those of the behaviour without that call are.
NoDeadCalls == LateReconcile \/ \A c \in calls : UpToDate(c)

=============================================================================
