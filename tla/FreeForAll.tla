------------------------------ MODULE FreeForAll ------------------------------
(***************************************************************************)
(* A free-for-all tournament: rounds of groups, from each of which the     *)
(* best go on.  In a double elimination the others fall from the pool of   *)
(* winners (WB) into the pool of losers (LB), out of which one can only    *)
(* drop, and what is left of both pools meets in one grand final (GF).     *)
(* A single elimination has one pool (MAIN).                               *)
(*                                                                         *)
(* Every operation locks the tournament's row before it reads what it      *)
(* decides on, and commits once, so each is one action.  The forms that    *)
(* send them may be of any age: the actions check what the services check, *)
(* not which buttons a page shows.  So a match may also be given scores,   *)
(* which only the pages keep from these tournaments.                       *)
(*                                                                         *)
(* Contestants are participants.  Of tournaments of teams, which run       *)
(* through the same rounds, it is left out how a team drops out: with its  *)
(* last member, or deleted, which takes it out of confirmed matches too;   *)
(* and that max_teams limits how many start.                               *)
(***************************************************************************)
EXTENDS Integers, Sequences, FiniteSets

CONSTANTS
  None,        \* NULL
  Contestants, \* whoever may take part
  Seed,        \* their numbers, in the order the database returns them
  FfaFormats   \* the tournaments explored: [mode, players, min, max, advance, points]
               \* and the bounds [rounds, generations, retractions, removals, moves, upsets,
               \* beyond, scores]

VARIABLES
  format,      \* the tournament's settings
  tournament,  \* its row: [status, winner]
  matches,     \* <<pool, round, group>> -> [placement : who -> 0 (unset) or 1.., confirmed]
  scores,      \* match -> who has the highest score, where scores were entered
  roster,      \* contestant -> "active" | "removed" (a soft-deleted row) | "gone"
  generation,  \* first rounds made
  retractions  \* results unconfirmed so far

vars == <<format, tournament, matches, scores, roster, generation, retractions>>

Statuses == {"REGISTRATION_CLOSED", "ONGOING", "PAUSED", "COMPLETED", "CANCELLED"}

ASSUME NobodyIsNone == None \notin Contestants
ASSUME SeedsDiffer ==
  /\ IsFiniteSet(Contestants)
  /\ Seed \in [Contestants -> Nat \ {0}]
  /\ \A c, d \in Contestants : Seed[c] = Seed[d] => c = d

\* What the forms and validations of the settings let through.
ASSUME FormatsChecked ==
  \A f \in FfaFormats :
    /\ f.mode \in {"SE", "DE"} /\ f.players \in Nat
    /\ f.min \in Nat \ {0, 1} /\ f.max \in Nat \ {0, 1} /\ f.min <= f.max
    /\ f.advance \in Nat \ {0} /\ f.points \in Seq(Int)
    /\ f.rounds \in Nat /\ f.generations \in Nat /\ f.retractions \in Nat
    /\ f.removals \in Nat /\ f.upsets \in Nat /\ f.moves \subseteq Statuses
    /\ f.beyond \in BOOLEAN /\ f.scores \in Nat

\* _VALID_STATUS_TRANSITIONS, once registration is closed for good.
Transitions ==
  [REGISTRATION_CLOSED |-> {"ONGOING", "CANCELLED"},
   ONGOING   |-> {"PAUSED", "COMPLETED", "CANCELLED"},
   PAUSED    |-> {"ONGOING", "CANCELLED"},
   COMPLETED |-> {},
   CANCELLED |-> {}]

Active == {c \in Contestants : roster[c] = "active"}
Running == tournament.status \in {"ONGOING", "PAUSED"}

Init ==
  /\ format \in FfaFormats
  /\ tournament = [status |-> "REGISTRATION_CLOSED", winner |-> None]
  /\ matches = <<>>
  /\ scores = <<>>
  /\ roster = [c \in Contestants |-> IF Seed[c] <= format.players THEN "active" ELSE "gone"]
  /\ generation = 0
  /\ retractions = 0

-----------------------------------------------------------------------------
(* Pools and rounds *)

Pool(p) == {m \in DOMAIN matches : m[1] = p}

\* Rounds count from 0 in each pool.
Rounds(p) == {m[2] : m \in Pool(p)}
NextRound(p) ==
  IF Rounds(p) = {} THEN 0 ELSE 1 + CHOOSE r \in Rounds(p) : \A q \in Rounds(p) : q <= r

RoundOf(p, r) == {m \in Pool(p) : m[2] = r}
Latest(p) == RoundOf(p, NextRound(p) - 1)
Finished(ms) == ms # {} /\ \A m \in ms : matches[m].confirmed

Who(m) == DOMAIN matches[m].placement

-----------------------------------------------------------------------------
(* Points *)

\* map_placement_to_points: nothing beyond the table, or while unset.
Points(m, c) ==
  LET place == matches[m].placement[c]
  IN  IF place \in DOMAIN format.points THEN format.points[place] ELSE 0

\* More points are better; rows with equal points stay in the order they are
\* returned in.
Above(m, d, c) ==
  \/ Points(m, d) > Points(m, c)
  \/ Points(m, d) = Points(m, c) /\ Seed[d] < Seed[c]

\* Who goes on from a match.
Top(m) ==
  {c \in Who(m) : Cardinality({d \in Who(m) : Above(m, d, c)}) < format.advance}

Up(ms) == UNION {Top(m) : m \in ms}
Dropped(ms) == UNION {Who(m) \ Top(m) : m \in ms}

\* The points do not say who makes the cut.
Tied(m) == \E c \in Top(m), d \in Who(m) \ Top(m) : Points(m, c) = Points(m, d)

\* _collect_wb_survivors, _collect_lb_survivors: of a match that is not
\* confirmed everybody, of others the best, tied or not.
Survivors(p) ==
  UNION {IF matches[m].confirmed THEN Top(m) ELSE Who(m) : m \in Latest(p)}

-----------------------------------------------------------------------------
(* Lists: who is in one, and as the how-manieth *)

Listed(S, Before(_, _)) == [c \in S |-> 1 + Cardinality({d \in S : Before(d, c)})]

Size(list) == Cardinality(DOMAIN list)

BySeed(S) == Listed(S, LAMBDA d, c : Seed[d] < Seed[c])

\* Those of S who are in the matches, one match after the other, by points
\* where there is a result.
InTurn(ms, S) ==
  LET before(d, c) ==
        \E m, n \in ms :
          /\ d \in Who(m) /\ c \in Who(n)
          /\ \/ m[3] < n[3]
             \/ m = n /\ IF matches[m].confirmed THEN Above(m, d, c) ELSE Seed[d] < Seed[c]
  IN  Listed(S, before)

\* One list behind another.
Joined(list, more) ==
  [c \in DOMAIN list \cup DOMAIN more |->
     IF c \in DOMAIN list THEN list[c] ELSE Size(list) + more[c]]

-----------------------------------------------------------------------------
(* Groups *)

\* One group too few where they do not come out even.
GroupCount_Down(n) == IF n < format.max THEN 1 ELSE n \div format.max

GroupCount(n) == (n + format.max - 1) \div format.max

\* snake_seed_groups: the group of the i-th in a list of n.
GroupOf(i, n) ==
  LET k      == GroupCount(n)
      column == (i - 1) % k
  IN  1 + IF ((i - 1) \div k) % 2 = 0 THEN column ELSE k - 1 - column

Group(list, g) == {c \in DOMAIN list : GroupOf(list[c], Size(list)) = g}

\* Groups of the minimal size are refused.
Groupable_Larger(list) ==
  /\ Size(list) >= 2
  /\ \A g \in 1..GroupCount(Size(list)) : Cardinality(Group(list, g)) > format.min

\* A round can be made of the list.
Groupable(list) ==
  /\ Size(list) >= 2
  /\ \A g \in 1..GroupCount(Size(list)) : Cardinality(Group(list, g)) >= format.min

Fresh(who) == [placement |-> [c \in who |-> 0], confirmed |-> FALSE]

\* _generate_ffa_round_impl: the matches of a new round of pool p.
NewRound(p, list) ==
  [m \in {<<p, NextRound(p), g>> : g \in 1..GroupCount(Size(list))} |-> Fresh(Group(list, m[3]))]

Added(old, new) ==
  [m \in DOMAIN old \cup DOMAIN new |-> IF m \in DOMAIN old THEN old[m] ELSE new[m]]

\* The matches there are, and new ones (each set of them is evaluated once).
Create(new) == \E ms \in {new} : matches' = Added(matches, ms)

-----------------------------------------------------------------------------
(* The end of the tournament *)

\* is_deciding_match: the grand final, or the only group of its round.
Deciding(m) ==
  IF format.mode = "DE" THEN m[1] = "GF" ELSE RoundOf(m[1], m[2]) = {m}

\* _try_auto_complete_tournament, whatever the status was.
Completed(who) == [status |-> "COMPLETED", winner |-> who]

-----------------------------------------------------------------------------
(* Rounds *)

\* Bound: no first round is made over a round of losers.  Whoever is still
\* among the losers would be listed twice when they fall again, and be put
\* into two groups, which a list that is a function does not tell.
BeforeLosers == Pool("LB") = {}

\* A new first round, of everybody who takes part.  The service does not
\* look for earlier rounds, so a form sent twice makes two.
GenerateRound ==
  LET pool == IF format.mode = "DE" THEN "WB" ELSE "MAIN"
      list == BySeed(Active)
  IN  /\ generation < format.generations /\ BeforeLosers
      /\ Groupable(list)
      /\ Create(NewRound(pool, list))
      /\ generation' = generation + 1
      /\ UNCHANGED <<format, tournament, scores, roster, retractions>>

\* A pool whose latest round may be advanced, which the grand final does not
\* prevent; format.beyond bounds whether rounds beyond it are explored.
Ready(p) ==
  /\ Pool("GF") = {} \/ format.beyond
  /\ Finished(Latest(p))
  /\ \A m \in Latest(p) : ~Tied(m)
  /\ NextRound(p) < format.rounds

AdvanceSingle ==
  LET up == InTurn(Latest("MAIN"), Up(Latest("MAIN")))
  IN  /\ format.mode = "SE"
      /\ Ready("MAIN")
      /\ Groupable(up)
      /\ Create(NewRound("MAIN", up))
      /\ UNCHANGED <<format, tournament, scores, roster, generation, retractions>>

\* Few enough are left for a grand final, so no further round is made.
EndsWinners ==
  Cardinality(Up(Latest("WB"))) + Cardinality(Dropped(Latest("WB")))
    + Cardinality(Survivors("LB")) <= format.max

EndsLosers == Cardinality(Survivors("WB")) + Cardinality(Up(Latest("LB"))) <= format.max

\* The losers' own survivors are forgotten.
Losers_Fallen == InTurn(Latest("WB"), Dropped(Latest("WB")))

\* The next round of the losers: those who fall, and those still in it.
Losers == Joined(InTurn(Latest("WB"), Dropped(Latest("WB"))),
                 InTurn(Latest("LB"), Survivors("LB")))

AdvanceWinners ==
  LET up == InTurn(Latest("WB"), Up(Latest("WB")))
  IN  /\ format.mode = "DE"
      /\ Ready("WB")
      /\ ~EndsWinners
      /\ Groupable(up)
      /\ DOMAIN Losers # {} => Groupable(Losers)
      /\ Create(Added(NewRound("WB", up), NewRound("LB", Losers)))
      /\ UNCHANGED <<format, tournament, scores, roster, generation, retractions>>

AdvanceLosers ==
  LET up == InTurn(Latest("LB"), Up(Latest("LB")))
  IN  /\ format.mode = "DE"
      /\ Ready("LB")
      /\ ~EndsLosers
      /\ Groupable(up)
      /\ Create(NewRound("LB", up))
      /\ UNCHANGED <<format, tournament, scores, roster, generation, retractions>>

\* The size of the group is not checked again.
GenerateGrandFinal ==
  /\ format.mode = "DE"
  /\ Pool("GF") = {}
  /\ Cardinality(Survivors("WB")) + Cardinality(Survivors("LB")) >= 2
  /\ Create([m \in {<<"GF", 0, 1>>} |-> Fresh(Survivors("WB") \cup Survivors("LB"))])
  /\ UNCHANGED <<format, tournament, scores, roster, generation, retractions>>

-----------------------------------------------------------------------------
(* Results *)

\* The places explored, each somebody's: as seeded, and with the first so many
\* falling behind the others, format.upsets at most.
Placings(m) ==
  LET seeded == BySeed(Who(m))
      behind(k) == [c \in Who(m) |-> IF seeded[c] > k THEN seeded[c] - k
                                     ELSE seeded[c] - k + Cardinality(Who(m))]
  IN  {behind(k) : k \in {j \in 0..format.upsets : j < Cardinality(Who(m))}}

\* Everybody in the match gets a place of their own.
SetPlacements(m) ==
  /\ ~matches[m].confirmed
  /\ \E places \in Placings(m) : matches' = [matches EXCEPT ![m].placement = places]
  /\ UNCHANGED <<format, tournament, scores, roster, generation, retractions>>

\* The places are all set.
Placed(m) == \A c \in Who(m) : matches[m].placement[c] # 0

\* Whoever is first in a deciding match wins; nobody may be, if the first
\* has been removed since the places were set.
Decided(m) ==
  LET first == {c \in Who(m) : matches[m].placement[c] = 1}
  IN  IF Deciding(m) /\ first # {} THEN {Completed(c) : c \in first} ELSE {tournament}

ConfirmMatch(m) ==
  /\ ~matches[m].confirmed
  /\ Placed(m)
  /\ matches' = [matches EXCEPT ![m].confirmed = TRUE]
  /\ tournament' \in Decided(m)
  /\ UNCHANGED <<format, scores, roster, generation, retractions>>

\* Scores for everybody in the match, one of them the highest: the match is
\* confirmed by them, with whatever places it has.  No service asks whether
\* the tournament is one of places.  At most format.scores matches have
\* scores, and at most format.upsets better seeds lose to the highest.
EnterScores(m) ==
  /\ Cardinality(DOMAIN scores) < format.scores
  /\ ~matches[m].confirmed
  /\ Cardinality(Who(m)) >= 2
  /\ matches' = [matches EXCEPT ![m].confirmed = TRUE]
  /\ \E c \in Who(m) :
       /\ BySeed(Who(m))[c] <= format.upsets + 1
       /\ scores' = [n \in DOMAIN scores \cup {m} |-> IF n = m THEN c ELSE scores[n]]
       /\ tournament' = IF Deciding(m) THEN Completed(c) ELSE tournament
  /\ UNCHANGED <<format, roster, generation, retractions>>

\* The grand final is not looked at.
AlreadyAdvanced_InPool(m) == m[1] # "GF" /\ NextRound(m[1]) > m[2] + 1

\* ffa_round_already_advanced
AlreadyAdvanced(m) ==
  /\ m[1] # "GF"
  /\ Pool("GF") # {} \/ NextRound(m[1]) > m[2] + 1

\* The winner stays.
Reopened_KeepsWinner(m) ==
  IF tournament.status = "COMPLETED" /\ Deciding(m)
    THEN [tournament EXCEPT !.status = "ONGOING"]
    ELSE tournament

\* A completed tournament is reopened if this match decides it.
Reopened(m) ==
  IF tournament.status = "COMPLETED" /\ Deciding(m)
    THEN [status |-> "ONGOING", winner |-> None]
    ELSE tournament

\* Scores are cleared, places are not.
UnconfirmMatch(m) ==
  /\ retractions < format.retractions
  /\ matches[m].confirmed
  /\ ~AlreadyAdvanced(m)
  /\ matches' = [matches EXCEPT ![m].confirmed = FALSE]
  /\ tournament' = Reopened(m)
  /\ scores' = [n \in DOMAIN scores \ {m} |-> scores[n]]
  /\ retractions' = retractions + 1
  /\ UNCHANGED <<format, roster, generation>>

-----------------------------------------------------------------------------
(* The status, and participants leaving *)

\* change_status in one step; module TournamentBracket has its reads and
\* writes.
ChangeStatus(new) ==
  /\ new \in format.moves \cap Transitions[tournament.status]
  /\ tournament' = [tournament EXCEPT !.status = new]
  /\ UNCHANGED <<format, matches, scores, roster, generation, retractions>>

\* No more than format.removals participants leave.
MayLeave(c) ==
  /\ c \in Active
  /\ Cardinality(Active) > format.players - format.removals

\* The open matches of a participant.
Open(c) == {m \in DOMAIN matches : ~matches[m].confirmed /\ c \in Who(m)}

\* The participant is taken out of the open matches, whose places stay as
\* they are; whoever is left alone in one has won it.
RemoveParticipant(c) ==
  LET left(m)  == [x \in Who(m) \ {c} |-> matches[m].placement[x]]
      alone    == {m \in Open(c) : Cardinality(Who(m)) = 2}
      deciders == {m \in alone : Deciding(m)}
  IN  /\ MayLeave(c)
      /\ Running
      /\ roster' = [roster EXCEPT ![c] = "removed"]
      /\ matches' = [m \in DOMAIN matches |->
                       IF m \notin Open(c) THEN matches[m]
                       ELSE [placement |-> left(m), confirmed |-> m \in alone]]
      /\ tournament' \in IF deciders = {} THEN {tournament}
                         ELSE UNION {{Completed(x) : x \in DOMAIN left(m)} : m \in deciders}
      /\ UNCHANGED <<format, scores, generation, retractions>>

\* At other times the row is deleted, which the rows of matches refuse.
RemoveUnplaced(c) ==
  /\ MayLeave(c)
  /\ ~Running
  /\ \A m \in DOMAIN matches : c \notin Who(m)
  /\ roster' = [roster EXCEPT ![c] = "gone"]
  /\ UNCHANGED <<format, tournament, matches, scores, generation, retractions>>

-----------------------------------------------------------------------------

ResultConfirmed == \E m \in DOMAIN matches : ConfirmMatch(m)
Advance == AdvanceSingle \/ AdvanceWinners \/ AdvanceLosers

Next ==
  \/ GenerateRound
  \/ Advance
  \/ GenerateGrandFinal
  \/ \E m \in DOMAIN matches : SetPlacements(m)
  \/ ResultConfirmed
  \/ \E m \in DOMAIN matches : EnterScores(m)
  \/ \E m \in DOMAIN matches : UnconfirmMatch(m)
  \/ \E new \in Statuses : ChangeStatus(new)
  \/ \E c \in Contestants : RemoveParticipant(c) \/ RemoveUnplaced(c)

Spec == Init /\ [][Next]_vars
=============================================================================
