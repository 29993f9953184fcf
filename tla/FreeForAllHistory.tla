-------------------------- MODULE FreeForAllHistory --------------------------
(***************************************************************************)
(* What a free-for-all tournament promises.  History variable overtaken    *)
(* has the matches that were open when something was built over them: a    *)
(* round of losers is continued, and a grand final made, without waiting   *)
(* for their results, so what is entered there later counts for nothing.   *)
(* History variable basis has the matches the grand final was made from:   *)
(* the pools may go on after it, to no effect.                             *)
(***************************************************************************)
EXTENDS FreeForAll

VARIABLES overtaken, basis

historyVars == <<vars, overtaken, basis>>

HistoryInit == Init /\ overtaken = {} /\ basis = {}

\* The latest round of a pool is built over.
Continued(p) == NextRound(p)' # NextRound(p) \/ (p # "GF" /\ Pool("GF")' # Pool("GF"))

Observe ==
  /\ overtaken' = overtaken \cup
       UNION {{m \in Latest(p) : ~matches[m].confirmed} : p \in {q \in {"WB", "LB"} : Continued(q)}}
  /\ basis' = IF Pool("GF") = {} /\ Pool("GF")' # {} THEN Latest("WB") \cup Latest("LB") ELSE basis

HistoryNext == Next /\ Observe

HistorySpec == HistoryInit /\ [][HistoryNext]_historyVars

\* The grand final is due: advancing either pool says so.
GrandFinalDue == \/ Ready("WB") /\ EndsWinners
                 \/ Ready("LB") /\ EndsLosers

\* Places are set and confirmed and rounds advanced as long as they can be,
\* and the grand final is made when it is due.
PlayedSpec ==
  /\ HistorySpec
  /\ WF_historyVars((\E m \in DOMAIN matches : ~Placed(m) /\ SetPlacements(m)) /\ Observe)
  /\ WF_historyVars(ResultConfirmed /\ Observe)
  /\ WF_historyVars(Advance /\ Observe)
  /\ WF_historyVars(GrandFinalDue /\ GenerateGrandFinal /\ Observe)

-----------------------------------------------------------------------------
(* Shorthands *)

Everyone == {c \in Contestants : Seed[c] <= format.players}
Everybody == Active = Everyone      \* nobody has left

In(ms) == UNION {Who(m) : m \in ms}
Down(ms) == In(ms) \ Up(ms)

\* Who stays in after these matches: of those overtaken, everybody.
StillInAfter(ms) == Up(ms \ overtaken) \cup In(ms \cap overtaken)
StillIn(r) == StillInAfter(RoundOf("LB", r))

\* Who has been sent to the losers by a round of winners that was advanced.
Fallen == UNION {Down(RoundOf("WB", r)) : r \in 0..(NextRound("WB") - 2)}

\* Who is out, once nobody can win who is in neither pool any more.
Out == CASE format.mode = "SE" ->
              UNION {Down(RoundOf("MAIN", r)) : r \in 0..(NextRound("MAIN") - 2)}
         [] format.mode = "DE" ->
              UNION {In(RoundOf("LB", r)) \ StillIn(r) : r \in 0..(NextRound("LB") - 2)}

Current == CASE format.mode = "SE" -> {Latest("MAIN")}
             [] format.mode = "DE" -> {Latest("WB"), Latest("LB")}

\* Who has come first in a match: scores count before places.
First(m) ==
  {c \in Who(m) : IF m \in DOMAIN scores THEN scores[m] = c ELSE matches[m].placement[c] = 1}

-----------------------------------------------------------------------------
(* Type invariant *)

\* The groups of a round are as many as needed and as equal as possible,
\* within the limits, and the first seeds start in different groups
\* (snake_seed_groups).
GroupsBalanced ==
  Everybody =>
    \A m \in DOMAIN matches : m[1] # "GF" =>
      LET groups == RoundOf(m[1], m[2])
          size(n) == Cardinality(Who(n))
      IN  /\ size(m) \in format.min..format.max
          /\ \A n \in groups : size(m) <= size(n) + 1
          /\ (Cardinality(groups) - 1) * format.max < Cardinality(In(groups))
          /\ m[1] \in {"MAIN", "WB"} /\ m[2] = 0 =>
               \A c, d \in Who(m) :
                 Seed[c] <= Cardinality(groups) /\ Seed[d] <= Cardinality(groups) => c = d

\* Rounds and groups are numbered without gaps, nobody stands in two groups
\* of a round, and groups are balanced (_generate_ffa_round_impl).  Scores are
\* those of confirmed matches.
FfaTypeOK ==
  /\ format \in FfaFormats
  /\ tournament.status \in Statuses /\ tournament.winner \in Contestants \cup {None}
  /\ \A m \in DOMAIN matches :
       /\ m[1] \in {"MAIN", "WB", "LB", "GF"}
       /\ matches[m].confirmed \in BOOLEAN
       /\ matches[m].placement \in [Who(m) -> 0..format.players]
       /\ Who(m) \subseteq Contestants
       /\ \A r \in 0..m[2] : RoundOf(m[1], r) # {}
       /\ \A g \in 1..m[3] : <<m[1], m[2], g>> \in DOMAIN matches
       /\ \A n \in RoundOf(m[1], m[2]) \ {m} : Who(m) \cap Who(n) = {}
  /\ \A m \in DOMAIN scores :
       m \in DOMAIN matches /\ matches[m].confirmed /\ scores[m] \in Who(m)
  /\ roster \in [Contestants -> {"active", "removed", "gone"}]
  /\ generation \in 0..format.generations
  /\ retractions \in 0..format.retractions
  /\ basis \cup overtaken \subseteq DOMAIN matches
  /\ GroupsBalanced

-----------------------------------------------------------------------------
(* Invariants.  Where a first round is made twice everybody starts anew,   *)
(* and nothing of what went before counts.                                 *)

\* Nobody plays in a later round without a result that still puts them
\* there: what a round was built from can be neither retracted nor entered
\* anew (ffa_round_already_advanced), however the pools overtake each other.
\* Only who has fallen plays among the losers; whom the losers lose does not
\* come back (OnePlaceEach).  Whoever leaves stays in a final that is
\* confirmed, but not in open matches.
PlacesEarned ==
  generation <= 1 =>
    \A m \in DOMAIN matches :
      CASE m[1] \in {"MAIN", "WB"} -> m[2] > 0 => Who(m) \subseteq Up(RoundOf(m[1], m[2] - 1))
        [] m[1] = "LB" -> Who(m) \subseteq Fallen
        [] m[1] = "GF" -> Who(m) \cap Active \subseteq StillInAfter(basis)

\* Until the grand final is made, everybody who has not left stands in the
\* latest round of exactly one pool, or is out for good: no advancement
\* forgets anybody, lets anybody play on twice or brings anybody back
\* (_advance_ffa_wb, _advance_ffa_lb).
OnePlaceEach ==
  generation = 1 /\ Pool("GF") = {} =>
    \A c \in Active : Cardinality({ms \in Current : c \in In(ms)}) = IF c \in Out THEN 0 ELSE 1

\* Whoever the tournament names as winner has come first in a confirmed
\* deciding match, by scores if it was given any and else by places, or was
\* left alone in it, and the tournament is completed; and whoever comes first
\* in the last deciding match is named (confirm_ffa_match,
\* _confirm_match_impl, _process_defwin_entries,
\* retraction_reverts_completion).
ChampionStands ==
  LET finals == {m \in DOMAIN matches : Deciding(m) /\ matches[m].confirmed}
  IN  /\ tournament.winner # None =>
           /\ tournament.status = "COMPLETED"
           /\ \E m \in finals :
                tournament.winner \in First(m) \/ Who(m) = {tournament.winner}
      /\ generation <= 1 =>
           \A m \in finals : m[1] = "GF" \/ NextRound(m[1]) = m[2] + 1 =>
             First(m) \subseteq {tournament.winner}

-----------------------------------------------------------------------------
(* Liveness *)

\* Every group loses somebody, the points tell whom, and any number of
\* contestants can be grouped, and a double elimination does not end with
\* its first group.  Nothing validates these settings: with others rounds
\* repeat for ever, a pool is left that cannot go on, or the only survivor
\* of a first group waits for a grand final that takes two.
Workable ==
  /\ format.advance < format.min
  /\ format.advance <= Len(format.points)
  /\ \A n \in 2..format.players : GroupCount(n) * format.min <= n
  /\ format.mode = "DE" => format.players > format.max \/ format.advance > 1

\* A match of the latest round of a pool was confirmed by scores and has no
\* places, hence no points: all are tied, so the round cannot be advanced,
\* and places can only be set once the result is retracted.
Stalled == \E m \in DOMAIN scores : ~Placed(m) /\ m[2] = NextRound(m[1]) - 1

\* A free-for-all that is begun is won, unless somebody leaves, it is begun
\* again or scores are entered in place of places: with workable settings
\* there is always a result to enter, a round to advance or a grand final to
\* make (_confirm_match_impl, set_ffa_placements, advance_ffa_round).
FfaPlayedOut ==
  DOMAIN matches # {} /\ Workable
    ~> tournament.winner # None \/ ~Everybody \/ generation > 1 \/ Stalled
=============================================================================
