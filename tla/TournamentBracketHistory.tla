----------------------- MODULE TournamentBracketHistory ------------------------
(***************************************************************************)
(* What a bracket promises.  Two history variables tell apart what the     *)
(* code does not guard against: raced, that a request wrote on the         *)
(* strength of a status that had changed since it was read; marred, that   *)
(* a correction went through a walkover that was passed on, or came to an  *)
(* open match that everybody sent to it has left or whose next one is      *)
(* confirmed, that a contestant who leaves stood in an open match and,     *)
(* passed on from it, in a confirmed one, that a team was deleted out of a *)
(* bracket, or removed from matches that had changed since they were       *)
(* looked up.                                                              *)
(***************************************************************************)
EXTENDS TournamentBracket

VARIABLES raced, marred

historyVars == <<vars, raced, marred>>

HistoryInit == Init /\ raced = FALSE /\ marred = FALSE

\* A match that passed its contestant on without a result: it is confirmed,
\* or the one left in it stands in the next match; or an open match whose
\* next one is confirmed, or that everybody who was sent to it has left.
PassedOn(m) ==
  LET match == tournament.matches[m]
      next == tournament.matches[match.next]
      sole == Cardinality(match.entries) = 1
  IN  /\ match.next # None
      /\ \/ sole /\ (match.confirmed \/ Entrants(match.entries) \subseteq Entrants(next.entries))
         \/ ~match.confirmed /\ next.confirmed
         \/ /\ ~match.confirmed /\ match.entries = {}
            /\ \E x \in Feeders(tournament.matches, m) : tournament.matches[x].confirmed

\* The contestant stands in an open match and was passed on from it to one
\* that is confirmed.
LeftBehind(c) ==
  \E m \in DOMAIN OpenMatches(tournament.matches, c) :
    LET next == tournament.matches[m].next
    IN  /\ next # None
        /\ tournament.matches[next].confirmed
        /\ c \in Entrants(tournament.matches[next].entries)

Races(w) ==
  \/ /\ Serving(w, "generate")
     /\ tournament.status \notin {"REGISTRATION_CLOSED", "ONGOING"}
     /\ generation' # generation
  \/ /\ Serving(w, "write")
     /\ <<tournament.status, tournament.winner>> # <<request[w].status, request[w].winner>>
     /\ tournament' # tournament

Mars(w) ==
  \/ /\ Serving(w, "correction")
     /\ corrections' # corrections
     /\ \E m \in Affected(tournament.matches, request[w].match) : PassedOn(m)
  \/ request'[w].kind = "delete"
  \/ /\ Serving(w, "removal")
     /\ roster' # roster
     /\ request[w].links # OpenMatches(tournament.matches, request[w].team)

Observe ==
  /\ raced' = (raced \/ \E w \in Workers : Races(w))
  /\ marred' = \/ marred
               \/ \E w \in Workers : Mars(w)
               \/ \E c \in Contestants : roster'[c] # roster[c] /\ LeftBehind(c)

HistoryNext == Next /\ Observe

HistorySpec == HistoryInit /\ [][HistoryNext]_historyVars

\* The results of matches are entered, one after the other.
PlayedSpec == HistorySpec /\ WF_historyVars(ResultEntered /\ Observe)

-----------------------------------------------------------------------------
(* Shorthands *)

Match(m) == tournament.matches[m]
Who(m) == Entrants(Match(m).entries)

Everyone == {c \in Contestants : Seed[c] <= format.players}
Everybody == Active = Everyone      \* nobody has left

\* The match whose result decides an elimination.
Decisive == {m \in Matches : m[1] # "LB" /\ Deciding(format, m, Match(m).next)}

\* Who has taken a confirmed match: by score, or as its only contestant.
Taker(m) == IF Cardinality(Match(m).entries) = 1 THEN CHOOSE c \in Who(m) : TRUE
            ELSE Winner(Match(m).entries)

Lost(c) == {m \in Matches \ {ThirdPlace} :
              /\ Match(m).confirmed
              /\ Winner(Match(m).entries) \notin {c, None}
              /\ c \in Who(m)}

-----------------------------------------------------------------------------
(* Type invariant *)

\* Every match is routed within the bracket and its rows are of
\* contestants: taking back the match of a bracket reset leaves no link to
\* it (_unconfirm_match_impl).
BracketTypeOK ==
  /\ format \in Formats
  /\ tournament.status \in Statuses
  /\ tournament.winner \in Contestants \cup {None}
  /\ \A m \in Matches :
       /\ {Match(m).next, Match(m).loserNext} \subseteq Matches \cup {None}
       /\ Match(m).confirmed \in BOOLEAN
       /\ Match(m).entries \subseteq [who : Contestants, copy : Nat \ {0}, score : {None, 0, 1}]
  /\ roster \in [Contestants -> {"active", "removed", "gone"}]
  /\ \A w \in Workers :
       request[w].kind \in {"none", "generate", "scores", "correction", "status", "write",
                            "removal", "delete"}
  /\ generation \in 0..(format.regenerations + 1)
  /\ corrections \in 0..format.corrections
  /\ {raced, marred} \subseteq BOOLEAN

-----------------------------------------------------------------------------
(* Invariants *)

\* What a feeder x may send to match m: its winner or only contestant to
\* the next match, both contestants to a bracket reset, its loser to the
\* losers' bracket.
Sends(x, m) ==
  (IF Match(x).next # m THEN {}
   ELSE IF m = GrandFinal(1) THEN Who(x)
   ELSE IF Cardinality(Match(x).entries) = 1 THEN Who(x)
   ELSE {Winner(Match(x).entries)})
  \cup
  (IF Match(x).loserNext # m \/ Winner(Match(x).entries) = None THEN {}
   ELSE {Loser(Match(x).entries)})

\* Nobody stands in a later match without a result that put them there,
\* and nobody stands in a match twice: retracting a result takes out
\* whomever it had advanced, however far the cascade reaches, and two
\* reports of one match advance its winner once (_confirm_match_impl,
\* _unconfirm_match_impl).
EntriesEarned ==
  ~marred =>
    \A m \in Matches :
      /\ Cardinality(Who(m)) = Cardinality(Match(m).entries)
      /\ Feeders(tournament.matches, m) # {} =>
           \A c \in Who(m) :
             \/ m[2] = 1 /\ \E x \in Feeders(tournament.matches, m) : x[2] = 0 /\ Who(x) = {c}
             \/ \E x \in Feeders(tournament.matches, m) : c \in Sends(x, m)

\* The winner of every confirmed match stands in the next one and its
\* loser where losers are routed, unless they have left: no correction,
\* removal or second report loses a contestant (_advance_winner,
\* _advance_loser_to_lb).
ResultsCarried ==
  ~marred =>
    \A m \in Matches :
      LET winner == Winner(Match(m).entries)
      IN  Match(m).confirmed /\ winner # None =>
            /\ Match(m).next # None /\ winner \in Active => winner \in Who(Match(m).next)
            /\ Match(m).loserNext # None /\ Loser(Match(m).entries) \in Active
                 => Loser(Match(m).entries) \in Who(Match(m).loserNext)

\* When an elimination is won and nobody has left it, every other
\* contestant has been beaten: once in a single elimination; twice in a
\* double elimination, where only the loser of a grand final without a
\* reset may have lost once; and the winner was never beaten out
\* (_advance_loser_to_lb, _create_bracket_reset).
OthersBeaten ==
  tournament.winner # None /\ Everybody /\ ~marred /\ ~raced =>
    \A c \in Everyone :
      LET losses == Cardinality(Lost(c))
      IN  IF format.mode = "SE" THEN losses = (IF c = tournament.winner THEN 0 ELSE 1)
          ELSE IF c = tournament.winner THEN losses < 2
          ELSE losses = 2 \/ (losses = 1 /\ ~format.reset)

\* The tournament names a winner exactly while its deciding match is
\* confirmed, it is the one who took that match, and the tournament is
\* completed: confirming and retracting keep the row and the bracket
\* together (_try_auto_complete_tournament, retraction_reverts_completion).
WinnerStands ==
  ~raced /\ ~marred =>
    /\ tournament.winner # None =>
         /\ tournament.status = "COMPLETED"
         /\ \E m \in Decisive : Match(m).confirmed /\ Taker(m) = tournament.winner
    /\ \A m \in Decisive : Match(m).confirmed => Taker(m) = tournament.winner

\* In a round robin every two contestants meet exactly once and nobody
\* plays twice in a round (generate_round_robin_schedule).
PairsMeetOnce ==
  format.mode = "RR" /\ Everybody /\ ~marred /\ Matches # {} =>
    /\ \A c, d \in Everyone :
         c # d => Cardinality({m \in Matches : {c, d} \subseteq Who(m)}) = 1
    /\ \A m, n \in Matches : m[2] = n[2] /\ m # n => Who(m) \cap Who(n) = {}

\* The seeds are spread: in an elimination the first 2^k contestants meet
\* only when 2^k are left, and walkovers go to the first of them
\* (_standard_seed_order).
SeedsSpread ==
  format.mode # "RR" /\ Everybody /\ ~marred /\ Matches # {} =>
    LET list == Entries
        rounds == Rounds(list)
        First(k) == CHOOSE m \in Matches :
                      m[1] \in {"MAIN", "WB"} /\ m[2] = 0 /\ list[k] \in Who(m)
    IN  /\ \A k \in 0..(rounds - 1) : \A i, j \in 1..Pow2[k] :
             i # j => First(i)[3] \div Pow2[rounds - 1 - k] # First(j)[3] \div Pow2[rounds - 1 - k]
        /\ \A i \in 1..Len(list) :
             Cardinality(Who(First(i))) = 1 <=> i <= Pow2[rounds] - Len(list)

\* The draw is fair: every pair once, or the best seeds apart.
DrawFair == PairsMeetOnce /\ SeedsSpread

\* A bracket the code generates can be started: until a bracket reset
\* exists, the check made on a start finds no violation, however much has
\* been played or corrected (validate_bracket_for_start).
GeneratedStarts ==
  Matches # {} /\ GrandFinal(1) \notin Matches /\ Everybody /\ ~marred
    => Startable(format, tournament.matches)

-----------------------------------------------------------------------------
(* What a step may never do *)

\* The matches whose result a step undoes, within one bracket.
Undone == {m \in Matches : Match(m).confirmed
                             /\ ~(m \in Matches' /\ tournament'.matches[m].confirmed)}

\* Only a correction undoes results, and only of the match it is about and
\* of matches the administrator saw and acknowledged: what was played
\* since the page was loaded is refused, not cleared (the acknowledgement
\* gate of correct_match_result).
AcknowledgedOnly ==
  [][generation' = generation /\ ~marred' =>
       \A m \in Undone :
         \E w \in Workers : /\ Serving(w, "correction")
                            /\ m \in {request[w].match} \cup request[w].acknowledged
    ]_historyVars

-----------------------------------------------------------------------------
(* Liveness *)

PlayedOut ==
  /\ \A m \in Matches : ~Playable(format, Match(m))
  /\ format.mode # "RR" => tournament.winner # None

Disturbed == ~Everybody \/ marred \/ raced

\* A bracket that is made is played out, unless somebody leaves it: there
\* is a match to play as long as there is no winner, whatever is corrected
\* or generated anew.
BracketPlayedOut == Matches # {} ~> PlayedOut \/ Disturbed
=============================================================================
