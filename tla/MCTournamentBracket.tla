-------------------------- MODULE MCTournamentBracket --------------------------
EXTENDS TournamentBracketHistory, TLC

CONSTANTS A, B, C, D, E, F, G, H

Players == {A, B, C, D, E, F, G, H}
SeedOf == A :> 1 @@ B :> 2 @@ C :> 3 @@ D :> 4 @@ E :> 5 @@ F :> 6 @@ G :> 7 @@ H :> 8

\* Bounds common to the formats below; each overrides what it explores.
Base == [mode |-> "SE", teams |-> FALSE, reset |-> FALSE, players |-> 3, corrections |-> 0,
         regenerations |-> 0, removals |-> 0, moves |-> {}, busy |-> 1,
         upsets |-> TRUE]

AllFormats == {
  \* A status that changes meanwhile, removals and a second bracket.
  [Base EXCEPT !.moves = Statuses, !.corrections = 1, !.regenerations = 1, !.removals = 1],
  [Base EXCEPT !.players = 2, !.busy = 2, !.corrections = 1,
               !.moves = {"ONGOING", "PAUSED", "CANCELLED"}],
  \* Teams, which may be deleted or lose their last member.
  [Base EXCEPT !.teams = TRUE, !.moves = {"ONGOING"}, !.corrections = 1, !.removals = 1],
  [Base EXCEPT !.players = 4, !.teams = TRUE, !.moves = {"ONGOING"}, !.removals = 2,
               !.upsets = FALSE],
  \* Single elimination with semifinals.
  [Base EXCEPT !.players = 4, !.corrections = 1, !.removals = 1, !.moves = {"ONGOING"}],
  [Base EXCEPT !.players = 5],
  [Base EXCEPT !.players = 8, !.upsets = FALSE],
  \* Double elimination, with and without a reset of the grand final.
  [Base EXCEPT !.mode = "DE", !.players = 4, !.corrections = 1, !.reset = TRUE],
  [Base EXCEPT !.mode = "DE", !.players = 4, !.corrections = 1],
  [Base EXCEPT !.mode = "DE", !.players = 4, !.removals = 1, !.moves = {"ONGOING"}],
  [Base EXCEPT !.mode = "DE", !.players = 4, !.removals = 1, !.moves = {"ONGOING"},
               !.corrections = 1, !.upsets = FALSE],
  [Base EXCEPT !.mode = "DE", !.players = 5, !.corrections = 1],
  [Base EXCEPT !.mode = "DE", !.players = 8, !.corrections = 1, !.upsets = FALSE],
  \* Round robin, with an odd and an even number of players.
  [Base EXCEPT !.mode = "RR", !.players = 3, !.corrections = 1],
  [Base EXCEPT !.mode = "RR", !.players = 4]}
=============================================================================
