----------------------------- MODULE BracketRules -----------------------------
(***************************************************************************)
(* The rules of one-on-one tournament brackets, as operators on a          *)
(* tournament record t:                                                    *)
(*    t.status, t.winner   the columns of the tournament's row             *)
(*    t.matches            a function from the existing matches to         *)
(*                         [next, loserNext, confirmed, entries]           *)
(* A match is <<bracket, round, order>>.  An entry is a contestant's row   *)
(* in a match; rows of one contestant in one match differ in "copy",       *)
(* since no constraint of the table forbids a second one.  Of a score      *)
(* only what decides a match is kept: 1 is the best score, 0 a lower one,  *)
(* None is unset.  f is the tournament's format: [mode, reset, ...].       *)
(***************************************************************************)
EXTENDS Integers, Sequences, FiniteSets

CONSTANT None            \* NULL

ThirdPlace == <<"P3", 0, 0>>
GrandFinal(order) == <<"GF", 0, order>>

-----------------------------------------------------------------------------
(* Entries *)

Fresh(who) == {[who |-> c, copy |-> 1, score |-> None] : c \in who}
Entrants(entries) == {e.who : e \in entries}

AddEntry(entries, who) ==
  entries \cup {[who |-> who, score |-> None,
                 copy |-> 1 + Cardinality({e \in entries : e.who = who})]}

\* determine_match_winner: None when it is a draw and when it is an error.
Winner(entries) ==
  LET best == {e \in entries : e.score = 1}
  IN  IF /\ Cardinality(entries) >= 2
         /\ \A e \in entries : e.score # None
         /\ Cardinality(best) = 1
        THEN (CHOOSE e \in best : TRUE).who
        ELSE None

\* _determine_loser, for a match of two entries with a winner.
Loser(entries) == (CHOOSE e \in entries : e.score = 0).who

\* The rows with the scores of a result: who wins, None for a draw.
WithResult(entries, who) ==
  {[e EXCEPT !.score = IF who \in {e.who, None} THEN 1 ELSE 0] : e \in entries}

\* A match without the rows of a contestant.
Vacated(match, who) == [match EXCEPT !.entries = {e \in @ : e.who # who}]

\* create_match_contestant and delete_contestant_from_match.
Sent(t, match, who) ==
  IF match = None THEN t
  ELSE [t EXCEPT !.matches[match].entries = AddEntry(@, who)]

Withdrawn(t, match, who) == [t EXCEPT !.matches[match] = Vacated(@, who)]

\* count_incoming_feeds, find_feeder_matches
Feeders(matches, match) ==
  {x \in DOMAIN matches : match \in {matches[x].next, matches[x].loserNext}}

-----------------------------------------------------------------------------
(* Generation.  list is the sequence of contestants in seed order. *)

\* The powers of two.
Pow2[k \in Nat] == IF k = 0 THEN 1 ELSE 2 * Pow2[k - 1]

Rounds(list) == CHOOSE p \in 1..Len(list) :
                  Pow2[p] >= Len(list) /\ Pow2[p - 1] < Len(list)

\* _standard_seed_order for Pow2[p] slots.
SeedOrder[p \in Nat] ==
  IF p = 0 THEN <<0>>
  ELSE LET half == SeedOrder[p - 1]
       IN  [i \in 1..Pow2[p] |-> IF i % 2 = 1 THEN half[(i + 1) \div 2]
                                 ELSE Pow2[p] - 1 - half[i \div 2]]

\* The contestants placed in the m-th match of the first round.
Placed(list, m) ==
  LET seeds == {SeedOrder[Rounds(list)][2 * m + k] : k \in {1, 2}}
  IN  {list[s + 1] : s \in {x \in seeds : x < Len(list)}}

Alone(list, m) == Cardinality(Placed(list, m)) = 1

\* Who stands in a match of the winners' tree when the bracket is made:
\* walkovers of the first round are advanced at once.
Starters(list, r, m) ==
  CASE r = 0 -> Placed(list, m)
    [] r = 1 -> UNION {Placed(list, k) : k \in {x \in {2 * m, 2 * m + 1} : Alone(list, x)}}
    [] OTHER -> {}

Tree(bracket, rounds) ==
  UNION {{<<bracket, r, m>> : m \in 0..(Pow2[rounds - 1 - r] - 1)} : r \in 0..(rounds - 1)}

Made(next, loserNext, confirmed, who) ==
  [next |-> next, loserNext |-> loserNext, confirmed |-> confirmed, entries |-> Fresh(who)]

\* generate_single_elimination_bracket
SingleElimination(list) ==
  LET rounds == Rounds(list)
      third == IF rounds >= 2 THEN {ThirdPlace} ELSE {}
      Main(r, m) ==
        Made(IF r < rounds - 1 THEN <<"MAIN", r + 1, m \div 2>> ELSE None,
             IF rounds >= 2 /\ r = rounds - 2 THEN ThirdPlace ELSE None,
             r = 0 /\ rounds > 1 /\ Alone(list, m),
             Starters(list, r, m))
  IN  [id \in Tree("MAIN", rounds) \cup third |->
         IF id = ThirdPlace THEN Made(None, None, FALSE, {}) ELSE Main(id[2], id[3])]

\* The number of matches in round r of the losers' bracket, of Pow2[p] slots.
LowerCount(p, r) == Pow2[p - 2 - ((r - 1) \div 2)]

Lower(p) ==
  UNION {{<<"LB", r, m>> : m \in 0..(LowerCount(p, r) - 1)} : r \in 1..(2 * (p - 1))}

\* Where the loser of a winners' match goes (_wb_loser_target); a walkover
\* of the first round has no loser and its link is cleared.
LoserTarget(list, r, m) ==
  LET round == IF r = 0 THEN 1 ELSE 2 * r
  IN  IF r = 0 /\ Alone(list, m) THEN None
      ELSE <<"LB", round, m % LowerCount(Rounds(list), round)>>

\* Where the winner of a losers' match goes (_lb_next).
LowerNext(p, r, m) ==
  IF r = 2 * (p - 1) THEN GrandFinal(0)
  ELSE <<"LB", r + 1, IF r % 2 = 1 THEN m ELSE m \div 2>>

\* Without regard to what the round before leads to.
DeadLower_FromAbove(list) ==
  LET p == Rounds(list)
  IN  Lower(p) \ {LoserTarget(list, id[2], id[3]) : id \in Tree("WB", p)}

\* _propagate_dead_lb_matches, walking the rounds forward: the matches of
\* the losers' bracket nothing leads to any more.
DeadLower(list) ==
  LET p == Rounds(list)
      fedFromAbove == {LoserTarget(list, id[2], id[3]) : id \in Tree("WB", p)}
      dead[r \in 0..(2 * (p - 1))] ==
        IF r = 0 THEN {}
        ELSE {m \in 0..(LowerCount(p, r) - 1) :
                /\ <<"LB", r, m>> \notin fedFromAbove
                /\ r = 1 \/ \A k \in 0..(LowerCount(p, r - 1) - 1) :
                              k \in dead[r - 1] \/ LowerNext(p, r - 1, k) # <<"LB", r, m>>}
  IN  UNION {{<<"LB", r, m>> : m \in dead[r]} : r \in 1..(2 * (p - 1))}

\* generate_double_elimination_bracket
DoubleElimination(list) ==
  LET p == Rounds(list)
      upper == Tree("WB", p)
      lower == Lower(p)
      Upper(r, m) ==
        Made(IF r < p - 1 THEN <<"WB", r + 1, m \div 2>> ELSE GrandFinal(0),
             LoserTarget(list, r, m), r = 0 /\ Alone(list, m), Starters(list, r, m))
      Losing(id) ==
        Made(IF id \in DeadLower(list) THEN None ELSE LowerNext(p, id[2], id[3]),
             None, FALSE, {})
  IN  [id \in upper \cup lower \cup {GrandFinal(0)} |->
         CASE id \in upper -> Upper(id[2], id[3])
           [] id \in lower -> Losing(id)
           [] OTHER -> Made(None, None, FALSE, {})]

\* All players rotate, the first one too.
CirclePairs_AllMove(list, r) ==
  LET n == Len(list) + (Len(list) % 2)
      At(j) == 1 + ((j - r) % n)
  IN  [j \in 1..(n \div 2) |-> {At(j - 1), At(n - j)}]

\* generate_round_robin_schedule: the pairs of round r, by the circle
\* method; an odd number of players is filled up with one who is none.
CirclePairs(list, r) ==
  LET n == Len(list) + (Len(list) % 2)
      At(j) == IF j = 0 THEN 1 ELSE 2 + ((j - 1 - r) % (n - 1))
  IN  [j \in 1..(n \div 2) |-> {At(j - 1), At(n - j)}]

\* generate_round_robin_bracket; whoever is paired with nobody sits out.
RoundRobin(list) ==
  LET n == Len(list) + (Len(list) % 2)
      Pair(id) == CirclePairs(list, id[2])[id[3]]
      real == {id \in {"RR"} \X (0..(n - 2)) \X (1..(n \div 2)) : Pair(id) \subseteq 1..Len(list)}
  IN  [id \in real |-> Made(None, None, FALSE, {list[k] : k \in Pair(id)})]

Bracket(f, list) ==
  CASE f.mode = "SE" -> SingleElimination(list)
    [] f.mode = "DE" -> DoubleElimination(list)
    [] f.mode = "RR" -> RoundRobin(list)

\* validate_bracket_for_start: no violation.  (Every round is numbered and
\* every link leads into the bracket.)
Startable(f, matches) ==
  LET ids == DOMAIN matches
      contestants == UNION {Entrants(matches[x].entries) : x \in ids}
      Of(brackets) == {x \in ids : x[1] \in brackets}
      lastRound == CHOOSE r \in {x[2] : x \in Of({"MAIN"})} :
                     \A x \in Of({"MAIN"}) : x[2] <= r
  IN  /\ ids # {}
      /\ Cardinality(contestants) >= IF f.mode = "DE" THEN 4 ELSE 2
      /\ f.mode = "SE" =>
           /\ \A x \in Of({"MAIN"}) : (matches[x].next = None) <=> (x[2] = lastRound)
           /\ \A x \in ids : matches[x].loserNext \in Of({"P3"}) \cup {None}
           /\ \A x \in Of({"P3"}) : matches[x].next = None
      /\ f.mode = "DE" =>
           /\ \A x \in Of({"GF"}) : matches[x].next = None /\ matches[x].loserNext = None
           /\ \A x \in Of({"WB"}) : /\ matches[x].next # None
                                    /\ matches[x].loserNext \in Of({"LB"}) \cup {None}
           /\ \A x \in Of({"LB"}) :
                /\ matches[x].next = None => Feeders(matches, x) = {}
                /\ matches[x].next \in Of({"LB", "GF"}) \cup {None}
      /\ f.mode = "RR" =>
           2 * Cardinality(ids) = Cardinality(contestants) * (Cardinality(contestants) - 1)

-----------------------------------------------------------------------------
(* Confirming a result *)

\* is_deciding_match, of a match that leads to "next".
Deciding(f, match, next) == match # ThirdPlace /\ f.mode \in {"SE", "DE"} /\ next = None

\* _try_auto_complete_tournament, from whatever status the tournament has.
Concluded(t, f, match, next, who) ==
  IF Deciding(f, match, next) THEN [t EXCEPT !.winner = who, !.status = "COMPLETED"] ELSE t

\* Only if no match feeds it.
PassOn_Unfed(t, match) ==
  LET entries == t.matches[match].entries
  IN  IF /\ Cardinality(entries) = 1
         /\ Feeders(t.matches, match) = {}
         /\ t.matches[match].next # None
        THEN [Sent(t, t.matches[match].next, (CHOOSE e \in entries : TRUE).who)
                EXCEPT !.matches[match].confirmed = TRUE]
        ELSE t

\* _try_lb_defwin_advance: a losers' match with a single feed passes its
\* only contestant on at once.
PassOn(t, match) ==
  LET entries == t.matches[match].entries
  IN  IF /\ Cardinality(entries) = 1
         /\ Cardinality(Feeders(t.matches, match)) <= 1
         /\ t.matches[match].next # None
        THEN [Sent(t, t.matches[match].next, (CHOOSE e \in entries : TRUE).who)
                EXCEPT !.matches[match].confirmed = TRUE]
        ELSE t

\* _is_lb_champion_winner asks for the scores of the losers' final.
LowerChampion(matches) ==
  LET finals == {x \in Feeders(matches, GrandFinal(0)) : x[1] = "LB"}
  IN  IF finals = {} THEN None ELSE Winner(matches[CHOOSE x \in finals : TRUE].entries)

\* Whoever wins the first grand final.
NeedsReset_Always(t, f, match, who) ==
  f.reset /\ match = GrandFinal(0) /\ t.matches[match].next = None

\* The champion of the losers' bracket won the first grand final.
NeedsReset(t, f, match, who) ==
  f.reset /\ match = GrandFinal(0) /\ t.matches[match].next = None
          /\ LowerChampion(t.matches) = who

\* _create_bracket_reset: the two meet once more.
WithReset(t) ==
  LET first == GrandFinal(0)
      second == GrandFinal(1)
  IN  [t EXCEPT !.matches =
         [x \in DOMAIN @ \cup {second} |->
            CASE x = second -> Made(None, None, FALSE, Entrants(@[first].entries))
              [] x = first  -> [@[first] EXCEPT !.next = second]
              [] OTHER      -> @[x]]]

\* _validate_match_confirmable, with _validate_match_scores before it: a
\* score for each entry, a draw only in a round robin, and one loser to
\* route where a loser is routed.
Playable(f, match) ==
  /\ ~match.confirmed
  /\ Cardinality(match.entries) >= 2
  /\ Cardinality(Entrants(match.entries)) = Cardinality(match.entries)
  /\ match.loserNext # None => Cardinality(match.entries) = 2

Outcomes(f, match) == Entrants(match.entries) \cup (IF f.mode = "RR" THEN {None} ELSE {})

\* The loser is not routed.
Confirmed_LoserOut(t, f, match, who) ==
  LET rows == WithResult(t.matches[match].entries, who)
      set == [t EXCEPT !.matches[match].entries = rows, !.matches[match].confirmed = TRUE]
      advanced == Sent(set, t.matches[match].next, who)
      done == IF NeedsReset(advanced, f, match, who) THEN WithReset(advanced) ELSE advanced
  IN  IF who = None THEN set ELSE Concluded(done, f, match, done.matches[match].next, who)

\* _confirm_match_impl of the match with the result "who wins".
Confirmed(t, f, match, who) ==
  LET rows == WithResult(t.matches[match].entries, who)
      set == [t EXCEPT !.matches[match].entries = rows, !.matches[match].confirmed = TRUE]
      lower == t.matches[match].loserNext
      advanced == Sent(set, t.matches[match].next, who)
      dropped == IF lower = None THEN advanced
                 ELSE PassOn(Sent(advanced, lower, Loser(rows)), lower)
      done == IF NeedsReset(dropped, f, match, who) THEN WithReset(dropped) ELSE dropped
  IN  IF who = None THEN set ELSE Concluded(done, f, match, done.matches[match].next, who)

-----------------------------------------------------------------------------
(* Retracting a result *)

\* One downstream match of the walk of classify_result_correction, with
\* the grandchild the undo of a passed-on walkover reaches.
LookAt(matches, walk, from, match) ==
  IF match = None \/ match \in walk.seen THEN walk
  ELSE IF matches[match].confirmed
    THEN [seen |-> walk.seen \cup {match}, todo |-> Append(walk.todo, match)]
  ELSE [walk EXCEPT !.seen = @ \cup {match} \cup
          (IF match = matches[from].loserNext THEN {matches[match].next} \ {None} ELSE {})]

\* Those behind the first match that is still to be walked past.
WalkOn(matches, walk) ==
  IF walk.todo = <<>> THEN walk
  ELSE LET x == Head(walk.todo)
           on == [walk EXCEPT !.todo = Tail(@)]
       IN  LookAt(matches, LookAt(matches, on, x, matches[x].next), x, matches[x].loserNext)

\* The walk from a match, breadth first; no match is walked past twice.
Walked(matches, match) ==
  LET walk[k \in Nat] == IF k = 0 THEN [seen |-> {match}, todo |-> <<match>>]
                         ELSE WalkOn(matches, walk[k - 1])
  IN  walk[Cardinality(DOMAIN matches)]

\* classify_result_correction: the matches a correction affects.
Affected(matches, match) == Walked(matches, match).seen \ {match}

HasReset(matches, match) == match = GrandFinal(0) /\ matches[match].next = GrandFinal(1)

\* acknowledgement_match_ids
AtStake(matches, match) ==
  {x \in Affected(matches, match) : HasReset(matches, match) \/ matches[x].confirmed}

\* The status is set back but not the winner.
Reopened_KeepsWinner(t, f, match) ==
  IF t.status = "COMPLETED" /\ Deciding(f, match, t.matches[match].next)
    THEN [t EXCEPT !.status = "ONGOING"] ELSE t

\* What retracting a deciding match undoes (retraction_reverts_completion).
Reopened(t, f, match) ==
  IF t.status = "COMPLETED" /\ Deciding(f, match, t.matches[match].next)
    THEN [t EXCEPT !.winner = None, !.status = "ONGOING"] ELSE t

\* The first grand final keeps its link.
WithoutReset_Dangling(t, match) ==
  IF ~HasReset(t.matches, match) THEN t
  ELSE [t EXCEPT !.matches = [x \in DOMAIN @ \ {GrandFinal(1)} |-> @[x]]]

\* The bracket-reset match goes with the first grand final's result.
WithoutReset(t, match) ==
  IF ~HasReset(t.matches, match) THEN t
  ELSE [t EXCEPT !.matches =
          [x \in DOMAIN @ \ {GrandFinal(1)} |->
             IF x = match THEN [@[x] EXCEPT !.next = None] ELSE @[x]]]

\* What undoing the result of a match takes, in this order: the winner
\* leaves the next match and the loser the losers' bracket, whose confirmed
\* results are undone first; a match without a winner by score undoes
\* nothing downstream.
Undoing(matches, match) ==
  LET rows == matches[match].entries
      next == matches[match].next
      lower == matches[match].loserNext
      Out(x, who) == IF x = None THEN <<>> ELSE <<[act |-> "withdraw", match |-> x, who |-> who]>>
      Back(x, who) ==
        IF x = None THEN <<>> ELSE <<[act |-> "undo", match |-> x, who |-> None]>> \o Out(x, who)
  IN  (IF Winner(rows) = None THEN <<>>
       ELSE Back(next, Winner(rows)) \o
            (IF lower = None THEN <<>>
             ELSE Back(lower, Loser(rows)) \o Out(matches[lower].next, Loser(rows))))
      \o <<[act |-> "clear", match |-> match, who |-> None]>>

Cleared(t, f, match) ==
  [Reopened(WithoutReset(t, match), f, match) EXCEPT
     !.matches[match].confirmed = FALSE,
     !.matches[match].entries = {[e EXCEPT !.score = None] : e \in @}]

\* One step of it: a result to be undone gives way to what that takes.
UndoOn(f, undo) ==
  IF undo.todo = <<>> THEN undo
  ELSE LET x == Head(undo.todo)
           t == undo.t
           rest == Tail(undo.todo)
           stands == x.match \in DOMAIN t.matches /\ t.matches[x.match].confirmed
       IN  CASE x.act = "undo" ->
                  [t |-> t, todo |-> IF stands THEN Undoing(t.matches, x.match) \o rest ELSE rest]
             [] x.act = "withdraw" -> [t |-> Withdrawn(t, x.match, x.who), todo |-> rest]
             [] x.act = "clear"    -> [t |-> Cleared(t, f, x.match), todo |-> rest]

\* _unconfirm_match_impl of a confirmed match.  No result is undone twice
\* (no bracket has a cycle, which the code guards against), and each takes
\* six steps at most and the one that leads to it.
Retracted(t, f, match) ==
  LET undo[k \in Nat] == IF k = 0 THEN [t |-> t, todo |-> Undoing(t.matches, match)]
                         ELSE UndoOn(f, undo[k - 1])
  IN  undo[6 * Cardinality(DOMAIN t.matches)].t

-----------------------------------------------------------------------------
(* Removing a contestant from a running bracket *)

\* The unconfirmed matches a contestant stands in, with where each leads to
\* (find_contestant_entries_for_participant_in_tournament, ..._for_team_...).
OpenMatches(matches, who) ==
  [x \in {y \in DOMAIN matches : ~matches[y].confirmed /\ who \in Entrants(matches[y].entries)}
     |-> matches[x].next]

\* One match of _process_defwin_entries, which leads to "next": an only
\* opponent left advances, unless it is there already, and the match is
\* confirmed if the removal names who did it.
Forfeited(t, f, match, next, confirming) ==
  LET rows == t.matches[match].entries
      sole == (CHOOSE e \in rows : TRUE).who
      there == next # None /\ sole \in Entrants(t.matches[next].entries)
      advanced == IF there THEN t ELSE Sent(t, next, sole)
      done == [advanced EXCEPT !.matches[match].confirmed = TRUE]
  IN  IF Cardinality(rows) # 1 THEN t
      ELSE IF confirming THEN Concluded(done, f, match, next, sole) ELSE advanced

\* handle_defwin_for_removed_participant / _team, of the matches in "links"
\* that still exist: the contestant's rows in them go first, then each is
\* looked at, in no particular order.
Removed(t, f, who, links, confirming) ==
  LET open == DOMAIN links \cap DOMAIN t.matches
      without == [t EXCEPT !.matches =
                    [x \in DOMAIN @ |-> IF x \in open THEN Vacated(@[x], who) ELSE @[x]]]
      Next(s) == LET x == CHOOSE x \in s.open : TRUE
                 IN  IF s.open = {} THEN s
                     ELSE [t |-> Forfeited(s.t, f, x, links[x], confirming), open |-> s.open \ {x}]
      after[k \in Nat] == IF k = 0 THEN [t |-> without, open |-> open] ELSE Next(after[k - 1])
  IN  after[Cardinality(open)].t
=============================================================================
