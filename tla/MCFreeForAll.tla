---------------------------- MODULE MCFreeForAll ----------------------------
EXTENDS FreeForAllHistory, TLC

CONSTANTS A, B, C, D, E, F, G, H

Players == {A, B, C, D, E, F, G, H}
SeedOf == A :> 1 @@ B :> 2 @@ C :> 3 @@ D :> 4 @@ E :> 5 @@ F :> 6 @@ G :> 7 @@ H :> 8

\* Bounds common to the formats below; each overrides what it explores.
Base == [mode |-> "SE", players |-> 5, min |-> 2, max |-> 3, advance |-> 1,
         points |-> <<3, 2, 1>>, rounds |-> 4, generations |-> 1, retractions |-> 1,
         removals |-> 0, moves |-> {}, upsets |-> 2, beyond |-> TRUE, scores |-> 0]

AllFormats == {
  \* Single elimination.
  Base,
  [Base EXCEPT !.players = 4, !.removals = 1, !.moves = Statuses],
  [Base EXCEPT !.players = 3, !.generations = 2, !.removals = 1, !.moves = {"ONGOING"}],
  \* Results by scores, alone and on top of places.
  [Base EXCEPT !.players = 4, !.upsets = 1, !.scores = 2],
  [Base EXCEPT !.players = 4, !.mode = "DE", !.upsets = 1, !.scores = 1],
  \* Two of each group go on: on points that tell them apart, so that rounds
  \* repeat, and on points that do not.
  [Base EXCEPT !.advance = 2, !.rounds = 3],
  [Base EXCEPT !.advance = 2, !.points = <<3>>],
  \* Double elimination.
  [Base EXCEPT !.mode = "DE", !.upsets = 1],
  [Base EXCEPT !.mode = "DE", !.players = 6, !.upsets = 1, !.retractions = 0,
               !.beyond = FALSE],
  [Base EXCEPT !.mode = "DE", !.players = 8, !.max = 2, !.upsets = 0, !.retractions = 0,
               !.beyond = FALSE],
  [Base EXCEPT !.mode = "DE", !.players = 4, !.max = 2, !.upsets = 1, !.retractions = 0,
               !.removals = 2, !.moves = {"ONGOING"}, !.beyond = FALSE],
  [Base EXCEPT !.mode = "DE", !.players = 4, !.max = 2, !.generations = 2, !.upsets = 0,
               !.retractions = 0, !.beyond = FALSE]}
=============================================================================
