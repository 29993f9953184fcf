--------------------------- MODULE TournamentBracket ---------------------------
(***************************************************************************)
(* A one-on-one tournament while its bracket is made and played.  A writer *)
(* of matches locks the tournament's row until it commits, so what it does *)
(* from there on is one action; what was read before the lock, and a       *)
(* change of the status, which takes no lock, are steps of their own, held *)
(* in the worker's request.                                                *)
(***************************************************************************)
EXTENDS BracketRules

CONSTANTS
  Contestants, \* whoever may take part
  Seed,      \* their numbers, in the order the database returns them
  Workers,   \* processes that serve requests of several steps, numbered from 1
  Formats    \* the tournaments explored: [mode, teams, reset, players] and the
             \* bounds [corrections, regenerations, removals, moves, busy, upsets]

VARIABLES
  format,      \* the tournament's settings
  tournament,  \* its row and its matches
  roster,      \* contestant -> "active" | "removed" (a soft-deleted row) | "gone"
  request,     \* worker -> what its request has read so far
  generation,  \* brackets made so far: a later one has other match IDs
  corrections  \* results corrected so far

vars == <<format, tournament, roster, request, generation, corrections>>

\* NULL is no contestant, no score and no match.
ASSUME NoneApart ==
  /\ None \notin Contestants
  /\ None \notin {0, 1}
  /\ None \notin {"MAIN", "WB", "LB", "GF", "P3", "RR"} \X Nat \X Nat
ASSUME SeedsDiffer ==
  /\ IsFiniteSet(Contestants)
  /\ Seed \in [Contestants -> Nat \ {0}]
  /\ \A c, d \in Contestants : Seed[c] = Seed[d] => c = d

Statuses == {"REGISTRATION_CLOSED", "ONGOING", "PAUSED", "COMPLETED", "CANCELLED"}

ASSUME FormatsChecked ==
  \A f \in Formats :
    /\ f.mode \in {"SE", "DE", "RR"} /\ f.players \in Nat
    /\ f.reset \in BOOLEAN /\ f.teams \in BOOLEAN /\ f.upsets \in BOOLEAN
    /\ f.corrections \in Nat /\ f.regenerations \in Nat /\ f.removals \in Nat
    /\ f.moves \subseteq Statuses

\* _VALID_STATUS_TRANSITIONS, once registration is closed for good.
Transitions ==
  [REGISTRATION_CLOSED |-> {"ONGOING", "CANCELLED"},
   ONGOING   |-> {"PAUSED", "COMPLETED", "CANCELLED"},
   PAUSED    |-> {"ONGOING", "CANCELLED"},
   COMPLETED |-> {},
   CANCELLED |-> {}]

Active == {c \in Contestants : roster[c] = "active"}
Entries == [k \in 1..Cardinality(Active) |->
              CHOOSE c \in Active : Cardinality({d \in Active : Seed[d] < Seed[c]}) = k - 1]
Matches == DOMAIN tournament.matches
Idle == [kind |-> "none"]

Init ==
  /\ format \in Formats
  /\ tournament = [status |-> "REGISTRATION_CLOSED", winner |-> None, matches |-> <<>>]
  /\ roster = [c \in Contestants |-> IF Seed[c] <= format.players THEN "active" ELSE "gone"]
  /\ request = [w \in Workers |-> Idle]
  /\ generation = 0
  /\ corrections = 0

-----------------------------------------------------------------------------
(* Requests *)

\* A worker free to take a request; format.busy of them work at once.
Free(w) == request[w] = Idle /\ w <= format.busy

Take(w, r) == Free(w) /\ request' = [request EXCEPT ![w] = r]
Answer(w) == request' = [request EXCEPT ![w] = Idle]
Serving(w, kind) == request[w].kind = kind

\* The match a form was filled in for still exists.
Known(w) == request[w].generation = generation /\ request[w].match \in Matches

\* The request ends without an effect: a check made under the lock refuses
\* it, its form is never sent, or its process dies.
Abandon(w) ==
  /\ request[w] # Idle
  /\ Answer(w)
  /\ UNCHANGED <<format, tournament, roster, generation, corrections>>

-----------------------------------------------------------------------------
(* Making the bracket *)

\* The view checks the status, which nothing checks again.
RequestBracket(w) ==
  /\ tournament.status \in {"REGISTRATION_CLOSED", "ONGOING"}
  /\ generation <= format.regenerations
  /\ Take(w, [kind |-> "generate"])
  /\ UNCHANGED <<format, tournament, roster, generation, corrections>>

GenerateBracket(w) ==
  /\ Serving(w, "generate")
  /\ generation <= format.regenerations
  /\ Len(Entries) >= IF format.mode = "DE" THEN 4 ELSE 2
  /\ tournament' = [tournament EXCEPT !.matches = Bracket(format, Entries)]
  /\ generation' = generation + 1
  /\ Answer(w)
  /\ UNCHANGED <<format, roster, corrections>>

-----------------------------------------------------------------------------
(* Results *)

\* The better seed of a match's contestants.
Favourite(match) ==
  CHOOSE c \in Entrants(match.entries) : \A d \in Entrants(match.entries) : Seed[c] <= Seed[d]

\* The results a match may get; without upsets the better seed wins.
Results(match) ==
  IF format.upsets THEN Outcomes(format, match) ELSE {Favourite(match)}

\* An administrator enters a result, whatever the tournament's status.
EnterResult(m, who) ==
  /\ Playable(format, tournament.matches[m])
  /\ who \in Results(tournament.matches[m])
  /\ tournament' = Confirmed(tournament, format, m, who)
  /\ UNCHANGED <<format, roster, request, generation, corrections>>

\* A contestant who did not win reports the result; the status and the
\* match are read without a lock first.
CheckScores(w, m, who) ==
  /\ tournament.status = "ONGOING"
  /\ Playable(format, tournament.matches[m])
  /\ who \in Results(tournament.matches[m])
  /\ Take(w, [kind |-> "scores", match |-> m, winner |-> who, generation |-> generation,
              entrants |-> Entrants(tournament.matches[m].entries)])
  /\ UNCHANGED <<format, tournament, roster, generation, corrections>>

\* What was read before the lock is relied on.
StillValid_Unchecked(w) == Known(w)

\* Under the lock, the submission is validated once more.
StillValid(w) ==
  /\ Known(w)
  /\ LET match == tournament.matches[request[w].match]
     IN  Playable(format, match) /\ Entrants(match.entries) = request[w].entrants

SubmitScores(w) ==
  /\ Serving(w, "scores")
  /\ StillValid(w)
  /\ tournament' = Confirmed(tournament, format, request[w].match, request[w].winner)
  /\ Answer(w)
  /\ UNCHANGED <<format, roster, generation, corrections>>

\* The page of a confirmed match lists the matches a correction would
\* clear, for the administrator to acknowledge.
OpenCorrection(w, m) ==
  /\ corrections < format.corrections
  /\ tournament.matches[m].confirmed
  /\ Cardinality(tournament.matches[m].entries) >= 2
  /\ Take(w, [kind |-> "correction", match |-> m, generation |-> generation,
              acknowledged |-> AtStake(tournament.matches, m)])
  /\ UNCHANGED <<format, tournament, roster, generation, corrections>>

\* What was at stake when the page was loaded is relied on.
Acknowledged_Once(w) == TRUE

\* Classified again under the locks, no more is at stake than was
\* acknowledged.
Acknowledged(w) ==
  AtStake(tournament.matches, request[w].match) \subseteq request[w].acknowledged

\* Every confirmed match that routes a loser has one.
LosersKnown ==
  \A x \in Matches :
    tournament.matches[x].confirmed /\ tournament.matches[x].loserNext # None
      => Cardinality(tournament.matches[x].entries) <= 2

\* correct_match_result: retract, and possibly enter another result in the
\* same transaction.
CorrectResult(w) ==
  /\ Serving(w, "correction")
  /\ corrections < format.corrections
  /\ Known(w)
  /\ LET m == request[w].match
         retracted == Retracted(tournament, format, m)
     IN  /\ tournament.matches[m].confirmed
         /\ Cardinality(tournament.matches[m].entries) >= 2
         /\ Acknowledged(w)
         /\ LosersKnown
         /\ \/ tournament' = retracted
            \/ /\ Playable(format, retracted.matches[m])
               /\ \E who \in Outcomes(format, retracted.matches[m]) :
                    tournament' = Confirmed(retracted, format, m, who)
  /\ corrections' = corrections + 1
  /\ Answer(w)
  /\ UNCHANGED <<format, roster, generation>>

-----------------------------------------------------------------------------
(* The status *)

\* change_status reads the tournament and validates the change; a start
\* needs a valid bracket, a resumption does not.
ChangeStatus(w, new) ==
  /\ new \in format.moves \cap Transitions[tournament.status]
  /\ new = "ONGOING" /\ tournament.status # "PAUSED" => Startable(format, tournament.matches)
  /\ Take(w, [kind |-> "status", new |-> new,
              status |-> tournament.status, winner |-> tournament.winner])
  /\ UNCHANGED <<format, tournament, roster, generation, corrections>>

\* update_tournament reads the row again ...
RereadTournament(w) ==
  /\ Serving(w, "status")
  /\ request' = [request EXCEPT ![w] =
                   [kind |-> "write", new |-> @.new, status |-> @.status, winner |-> @.winner,
                    rowStatus |-> tournament.status, rowWinner |-> tournament.winner]]
  /\ UNCHANGED <<format, tournament, roster, generation, corrections>>

\* ... and writes the columns in which what it read first differs from it.
WriteStatus(w) ==
  LET r == request[w]
  IN  /\ Serving(w, "write")
      /\ tournament' = [tournament EXCEPT
                          !.status = IF r.new # r.rowStatus THEN r.new ELSE @,
                          !.winner = IF r.winner # r.rowWinner THEN r.winner ELSE @]
      /\ Answer(w)
      /\ UNCHANGED <<format, roster, generation, corrections>>

-----------------------------------------------------------------------------
(* Contestants leaving *)

\* No more than format.removals contestants leave.
MayLeave(c) ==
  /\ c \in Active
  /\ Cardinality(Active) > format.players - format.removals

\* An administrator removes a contestant from a running tournament: a
\* participant, or a team with its last member.
RemoveContestant(c) ==
  /\ MayLeave(c)
  /\ tournament.status \in {"ONGOING", "PAUSED"}
  /\ tournament' = Removed(tournament, format, c, OpenMatches(tournament.matches, c), TRUE)
  /\ roster' = [roster EXCEPT ![c] = "removed"]
  /\ UNCHANGED <<format, request, generation, corrections>>

\* A team whose last member is taken out of it, or has no ticket, is looked
\* up in the matches before the lock.  confirming: the removal names who did
\* it, as that of participants without a ticket does.
FindTeamEntries(w, c, confirming) ==
  /\ format.teams
  /\ MayLeave(c)
  /\ tournament.status \in {"ONGOING", "PAUSED"}
  /\ Take(w, [kind |-> "removal", team |-> c, confirming |-> confirming,
              generation |-> generation, links |-> OpenMatches(tournament.matches, c)])
  /\ UNCHANGED <<format, tournament, roster, generation, corrections>>

RemoveTeam(w) ==
  LET r == request[w]
  IN  /\ Serving(w, "removal")
      /\ MayLeave(r.team)
      /\ tournament' = IF r.generation # generation THEN tournament
                       ELSE Removed(tournament, format, r.team, r.links, r.confirming)
      /\ roster' = [roster EXCEPT ![r.team] = "removed"]
      /\ Answer(w)
      /\ UNCHANGED <<format, generation, corrections>>

\* At other times the row is deleted, which the rows of matches refuse.
RemoveUnplaced(c) ==
  /\ MayLeave(c)
  /\ tournament.status \notin {"ONGOING", "PAUSED"}
  /\ \A m \in Matches : c \notin Entrants(tournament.matches[m].entries)
  /\ tournament' = [tournament EXCEPT !.winner = IF @ = c THEN None ELSE @]
  /\ roster' = [roster EXCEPT ![c] = "gone"]
  /\ UNCHANGED <<format, request, generation, corrections>>

\* delete_team, at any time and without the lock, in one transaction each:
\* the team's rows in all matches, the reference as winner, and its row.  An
\* administrator may delete teams marked as removed, too.
DeleteTeamEntries(w, c) ==
  /\ format.teams
  /\ MayLeave(c) \/ roster[c] = "removed"
  /\ Take(w, [kind |-> "delete", step |-> "winner", team |-> c])
  /\ tournament' = [tournament EXCEPT !.matches = [m \in DOMAIN @ |-> Vacated(@[m], c)]]
  /\ UNCHANGED <<format, roster, generation, corrections>>

ClearTeamWinner(w) ==
  /\ Serving(w, "delete") /\ request[w].step = "winner"
  /\ tournament' = [tournament EXCEPT !.winner = IF @ = request[w].team THEN None ELSE @]
  /\ request' = [request EXCEPT ![w].step = "row"]
  /\ UNCHANGED <<format, roster, generation, corrections>>

DeleteTeamRow(w) ==
  LET c == request[w].team
  IN  /\ Serving(w, "delete") /\ request[w].step = "row"
      /\ tournament.winner # c
      /\ \A m \in Matches : c \notin Entrants(tournament.matches[m].entries)
      /\ roster' = [roster EXCEPT ![c] = "gone"]
      /\ Answer(w)
      /\ UNCHANGED <<format, tournament, generation, corrections>>

-----------------------------------------------------------------------------

ResultEntered == \E m \in Matches : \E who \in Contestants \cup {None} : EnterResult(m, who)

Next ==
  \/ ResultEntered
  \/ \E w \in Workers :
       \/ RequestBracket(w)
       \/ GenerateBracket(w)
       \/ \E m \in Matches : \E who \in Contestants \cup {None} : CheckScores(w, m, who)
       \/ SubmitScores(w)
       \/ \E m \in Matches : OpenCorrection(w, m)
       \/ CorrectResult(w)
       \/ \E new \in Statuses : ChangeStatus(w, new)
       \/ RereadTournament(w)
       \/ WriteStatus(w)
       \/ \E c \in Contestants, confirming \in BOOLEAN : FindTeamEntries(w, c, confirming)
       \/ RemoveTeam(w)
       \/ \E c \in Contestants : DeleteTeamEntries(w, c)
       \/ ClearTeamWinner(w)
       \/ DeleteTeamRow(w)
       \/ Abandon(w)
  \/ \E c \in Contestants : RemoveContestant(c) \/ RemoveUnplaced(c)

Spec == Init /\ [][Next]_vars
=============================================================================
