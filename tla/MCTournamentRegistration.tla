----------------------- MODULE MCTournamentRegistration -----------------------
EXTENDS TournamentRegistrationHistory, TLC

\* A place short for the third user and one team only, with longer histories;
\* and two teams of at most two.
BothLimits == {[players |-> 2, teams |-> 1, size |-> 2, requests |-> 3],
               [players |-> 3, teams |-> 2, size |-> 2, requests |-> 2]}

Symmetry == Permutations(Users) \cup Permutations(Teams) \cup Permutations(Workers)
=============================================================================
