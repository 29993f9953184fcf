------------------------ MODULE TournamentBracketLossProofs ------------------------
(***************************************************************************)
(* Theorem about who has been beaten once an elimination is decided, for   *)
(* brackets of every size and whatever was corrected before.  The argument *)
(* looks at the last match of a contestant in each bracket.  Every match   *)
(* somebody stands in leads to the one that decides, and nothing is open   *)
(* behind a confirmed match, so that last match is confirmed.  Whoever won *)
(* it was sent on, to a later match; hence they lost it, or it is the      *)
(* final of its bracket.  Whoever lost in the winners' bracket stands in   *)
(* the losers' bracket, and whoever lost there stands nowhere after it.    *)
(*                                                                         *)
(* In a double elimination this takes that the finals of both brackets are *)
(* played by two, so that two meet in the grand final, one of whom has     *)
(* lost before; and that they meet again exactly if that one wins, which   *)
(* is an invariant of its own (ResetInv).                                  *)
(***************************************************************************)
EXTENDS TournamentBracketFlowProofs

-----------------------------------------------------------------------------
(* A bracket nobody has left *)

\* The bracket f has been drawn for the contestants P in the order of list,
\* and they are all there.
Whole(f, M, rank, list, P) ==
  /\ f \in Formats /\ f.mode # "RR"
  /\ M \in Brackets
  /\ Flow(f, M, rank) /\ Carried(M, P, {})
  /\ Drafted(f, list, P) /\ Drawn(Bracket(f, list), M)
  /\ Finals(f, M)

\* Contestant c lost match x.
Beaten(M, c, x) ==
  /\ M[x].confirmed
  /\ \E d, e : M[x].entries = {d, e} /\ d.score = 1 /\ e.score = 0 /\ e.who = c

LEMMA WholeParts ==
  ASSUME NEW f, NEW M, NEW rank, NEW list, NEW P, Whole(f, M, rank, list, P)
  PROVE  /\ f \in Formats /\ f.mode # "RR" /\ M \in Brackets /\ Flow(f, M, rank) /\ Layout(f, M, rank)
         /\ Finals(f, M)
         /\ rank \in [Ids -> Nat] /\ \A x \in DOMAIN M : x \in Ids /\ rank[x] \in Nat
         /\ None \notin DOMAIN M
         /\ \A x \in DOMAIN M : /\ Decided(M[x])
                                /\ M[x].next \in DOMAIN M \cup {None}
                                /\ M[x].loserNext \in DOMAIN M \cup {None}
<1>1. f \in Formats /\ f.mode # "RR" /\ M \in Brackets /\ Flow(f, M, rank) /\ Finals(f, M)
  BY DEF Whole
<1>2. Layout(f, M, rank) /\ \A x \in DOMAIN M : Decided(M[x])
  BY <1>1 DEF Flow, Scores
<1>3. rank \in [Ids -> Nat]
  BY <1>2 DEF Layout
<1>4. /\ DOMAIN M \subseteq Ids /\ None \notin DOMAIN M
      /\ \A x \in DOMAIN M : /\ M[x].next \in DOMAIN M \cup {None}
                             /\ M[x].loserNext \in DOMAIN M \cup {None}
  BY <1>1, BracketParts
<1> QED
  BY <1>1, <1>2, <1>3, <1>4

\* Who has lost a match, by its rows.
LEMMA BeatenForm ==
  ASSUME NEW f, NEW M, NEW rank, NEW list, NEW P, Whole(f, M, rank, list, P),
         NEW x \in DOMAIN M, NEW c
  PROVE  Beaten(M, c, x) <=> /\ M[x].confirmed
                             /\ Winner(M[x].entries) \notin {c, None}
                             /\ c \in Standing(M, x)
<1>1. M \in Brackets /\ Decided(M[x]) /\ Flow(f, M, rank)
  BY WholeParts
<1>2. M[x].entries \in Rows
  BY <1>1, MatchType
<1>3. \A d, e \in M[x].entries : d.who = e.who => d = e
  BY <1>1 DEF Flow, Pairs
<1>4. ASSUME NEW d, NEW e, M[x].entries = {d, e}, d.score = 1, e.score = 0
      PROVE  Winner(M[x].entries) = d.who /\ d.who # None /\ d.who # e.who
  <2>1. Winner(M[x].entries) = d.who /\ d.who # None
    BY <1>2, <1>4, DecidedRows
  <2>2. d # e
    BY <1>4
  <2>3. d.who # e.who
    BY <1>3, <1>4, <2>2
  <2> QED
    BY <2>1, <2>3
<1>5. ASSUME Beaten(M, c, x)
      PROVE  M[x].confirmed /\ Winner(M[x].entries) \notin {c, None} /\ c \in Standing(M, x)
  <2>1. PICK d, e : M[x].entries = {d, e} /\ d.score = 1 /\ e.score = 0 /\ e.who = c
    BY <1>5 DEF Beaten
  <2>2. Winner(M[x].entries) = d.who /\ d.who # None /\ d.who # c
    BY <1>4, <2>1
  <2>3. c \in Standing(M, x)
    BY <2>1, InStanding
  <2> QED
    BY <1>5, <2>2, <2>3 DEF Beaten
<1>6. ASSUME M[x].confirmed, Winner(M[x].entries) \notin {c, None}, c \in Standing(M, x)
      PROVE  Beaten(M, c, x)
  <2>1. PICK a \in M[x].entries : a.who = c
    BY <1>6, InStanding
  <2>2. ~\E e : M[x].entries = {e}
    <3> SUFFICES ASSUME NEW e, M[x].entries = {e} PROVE FALSE
      OBVIOUS
    <3>1. Cardinality(M[x].entries) = 1
      BY FS_Singleton
    <3>2. Winner(M[x].entries) = None
      BY <3>1 DEF Winner
    <3> QED
      BY <1>6, <3>2
  <2>3. PICK d, e : M[x].entries = {d, e} /\ d.score = 1 /\ e.score = 0
    BY <1>1, <1>6, <2>2 DEF Decided
  <2>4. d.who # c
    BY <1>4, <1>6, <2>3
  <2>5. e.who = c
    BY <2>1, <2>3, <2>4
  <2> QED
    BY <1>6, <2>3, <2>5 DEF Beaten
<1> QED
  BY <1>5, <1>6

\* A loser goes where losers go, or to a bracket reset.
LEMMA BeatenGives ==
  ASSUME NEW f, NEW M, NEW rank, NEW list, NEW P, Whole(f, M, rank, list, P),
         NEW x \in DOMAIN M, NEW k \in DOMAIN M, NEW c, Beaten(M, c, x), Gives(M, x, k, c)
  PROVE  M[x].loserNext = k \/ (x = GrandFinal(0) /\ k = GrandFinal(1))
<1>1. M \in Brackets /\ Flow(f, M, rank)
  BY WholeParts
<1>2. \A d, e \in M[x].entries : d.who = e.who => d = e
  BY <1>1 DEF Flow, Pairs
<1>3. PICK d, e : M[x].entries = {d, e} /\ d.score = 1 /\ e.score = 0 /\ e.who = c
  BY DEF Beaten
<1>4. PICK a \in M[x].entries :
        /\ a.who = c
        /\ \/ /\ M[x].next = k
              /\ k = GrandFinal(1) \/ M[x].entries = {a} \/ (M[x].confirmed /\ a.score = 1)
           \/ M[x].loserNext = k /\ M[x].confirmed /\ a.score = 0
  BY DEF Gives
<1>5. a = e
  BY <1>2, <1>3, <1>4
<1>6. M[x].loserNext = k \/ (M[x].next = k /\ k = GrandFinal(1))
  BY <1>3, <1>4, <1>5
<1>7. M[x].next = GrandFinal(1) => x = GrandFinal(0)
  BY <1>1, BracketParts
<1> QED
  BY <1>6, <1>7

\* Of some matches, one is the last.
LEMMA LastMatch ==
  ASSUME NEW M \in Brackets, NEW rank \in [Ids -> Nat], NEW V \in SUBSET DOMAIN M, V # {}
  PROVE  \E x \in V : \A y \in V : rank[y] <= rank[x]
<1> DEFINE Above(z) == {v \in V : rank[v] > rank[z]}
           T == {Cardinality(Above(z)) : z \in V}
<1>1. IsFiniteSet(DOMAIN M) /\ DOMAIN M \subseteq Ids
  BY BracketParts
<1>2. IsFiniteSet(V) /\ \A z \in V : rank[z] \in Nat
  BY <1>1, FS_Subset
<1>3. \A z \in V : IsFiniteSet(Above(z)) /\ Cardinality(Above(z)) \in Nat
  <2> SUFFICES ASSUME NEW z \in V PROVE IsFiniteSet(Above(z)) /\ Cardinality(Above(z)) \in Nat
    OBVIOUS
  <2>1. Above(z) \subseteq V
    OBVIOUS
  <2> HIDE DEF Above
  <2>2. IsFiniteSet(Above(z))
    BY <1>2, <2>1, FS_Subset
  <2> QED
    BY <2>2, FS_CardinalityType
<1>4. T \in SUBSET Nat /\ T # {}
  BY <1>3
<1>5. PICK n \in T : \A k \in T : n <= k
  BY <1>4, Least
<1>6. PICK x \in V : n = Cardinality(Above(x))
  BY <1>5
<1>7. ASSUME NEW y \in V, ~(rank[y] <= rank[x]) PROVE FALSE
  <2>1. rank[y] > rank[x] /\ rank[y] \in Nat /\ rank[x] \in Nat
    BY <1>2, <1>7
  <2>2. Above(y) \subseteq Above(x)
    <3>1. \A v \in V : rank[v] \in Nat
      BY <1>2
    <3> QED
      BY <2>1, <3>1
  <2>3. y \in Above(x) /\ y \notin Above(y)
    BY <2>1
  <2>4. Cardinality(Above(x)) <= Cardinality(Above(y))
    BY <1>5, <1>6
  <2>5. IsFiniteSet(Above(x)) /\ Cardinality(Above(x)) \in Nat /\ Cardinality(Above(y)) \in Nat
    BY <1>3
  <2> HIDE DEF Above
  <2>6. Cardinality(Above(y)) <= Cardinality(Above(x))
        /\ (Cardinality(Above(x)) = Cardinality(Above(y)) => Above(x) = Above(y))
    BY <2>2, <2>5, FS_Subset
  <2> QED
    BY <2>3, <2>4, <2>5, <2>6
<1> QED
  BY <1>7

\* The matches whose next ones lead on to match E all lead there.
LEMMA AllLead ==
  ASSUME NEW f, NEW M \in Brackets, NEW rank, Layout(f, M, rank), NEW E \in DOMAIN M,
         NEW V \in SUBSET DOMAIN M, \A z \in V : z = E \/ M[z].next \in V,
         NEW x \in V
  PROVE  Leads(M, x, E)
<1> SUFFICES ASSUME NEW S \in SUBSET DOMAIN M, E \in S, \A y \in S : Feeders(M, y) \subseteq S
             PROVE  x \in S
  BY DEF Leads
<1> SUFFICES ASSUME V \ S # {} PROVE FALSE
  OBVIOUS
<1> DEFINE R == V \ S
<1>1. rank \in [Ids -> Nat] /\ R \in SUBSET DOMAIN M /\ R # {}
  BY DEF Layout
<1>2. PICK z \in R : \A y \in R : rank[y] <= rank[z]
  <2> HIDE DEF R
  <2> QED
    BY <1>1, LastMatch
<1>3. z # E /\ M[z].next \in V
  BY <1>2
<1>4. M[z].next # None /\ z \in Ids /\ M[z].next \in Ids
  BY <1>3, BracketParts
<1>5. rank[z] < rank[M[z].next] /\ rank[z] \in Nat /\ rank[M[z].next] \in Nat
  BY <1>1, <1>4 DEF Layout
<1>6. M[z].next \in S
  BY <1>2, <1>3, <1>5
<1>7. z \in Feeders(M, M[z].next)
  BY DEF Feeders
<1> QED
  BY <1>2, <1>6, <1>7

\* Everybody in the bracket is one of those it was drawn for.
LEMMA StandersDrafted ==
  ASSUME NEW f, NEW M, NEW rank, NEW list, NEW P, Whole(f, M, rank, list, P),
         NEW m \in DOMAIN M
  PROVE  Standing(M, m) \subseteq P
<1> SUFFICES ASSUME NEW c \in Standing(M, m), c \notin P PROVE FALSE
  OBVIOUS
<1> DEFINE T == {rank[x] : x \in {y \in DOMAIN M : c \in Standing(M, y)}}
<1>1. f \in Formats /\ f.mode # "RR" /\ M \in Brackets /\ Flow(f, M, rank) /\ Layout(f, M, rank)
      /\ (\A x \in DOMAIN M : x \in Ids /\ rank[x] \in Nat)
  BY WholeParts
<1>2. T \in SUBSET Nat /\ T # {}
  BY <1>1
<1>3. PICK n \in T : \A k \in T : n <= k
  BY <1>2, Least
<1>4. PICK x \in DOMAIN M : c \in Standing(M, x) /\ n = rank[x]
  BY <1>3
<1>5. CASE x \notin Starting
  <2>1. PICK y \in DOMAIN M : Gives(M, y, x, c)
    BY <1>1, <1>4, <1>5 DEF Flow, Earned
  <2>2. c \in Standing(M, y) /\ y \in Feeders(M, x)
    BY <2>1, GivesForm
  <2>3. rank[y] < rank[x]
    BY <1>1, <2>2, Fed
  <2>4. rank[x] <= rank[y]
    BY <1>3, <1>4, <2>2
  <2> QED
    BY <1>1, <2>3, <2>4
<1>6. CASE x \in Starting
  <2>1. Drafted(f, list, P) /\ Drawn(Bracket(f, list), M)
    BY DEF Whole
  <2>2. list \in Seq(P) /\ list \in Seq(Contestants) /\ Len(list) >= IF f.mode = "DE" THEN 4 ELSE 2
    BY <2>1 DEF Drafted
  <2>3. Len(list) >= 2
    BY <2>2
  <2>4. x[1] \in {"MAIN", "WB"} /\ x[2] = 0
    <3>1. x[1] # "RR"
      <4> SUFFICES ASSUME x[1] = "RR" PROVE FALSE
        OBVIOUS
      <4>1. x \in DOMAIN Bracket(f, list)
        <5>1. x # GrandFinal(1)
          BY DEF GrandFinal
        <5> QED
          BY <2>1, <5>1 DEF Drawn
      <4>2. f.mode = "SE" \/ f.mode = "DE"
        BY <1>1, FormatsChecked
      <4>3. CASE f.mode = "SE"
        <5>1. x \in DOMAIN SingleElimination(list)
          BY <4>1, <4>3 DEF Bracket
        <5> QED
          BY <2>2, <2>3, <5>1, SingleEliminationLinks DEF ThirdPlace
      <4>4. CASE f.mode = "DE"
        <5>1. x \in DOMAIN DoubleElimination(list) /\ Len(list) >= 4
          BY <2>2, <4>1, <4>4 DEF Bracket
        <5> QED
          BY <2>2, <5>1, DoubleEliminationLinks
      <4> QED
        BY <4>2, <4>3, <4>4
    <3> QED
      BY <1>6, <3>1 DEF Starting
  <2>5. PICK m0 \in 0..(Pow2[Rounds(list) - 1] - 1) : x = <<FirstBracket(f), 0, m0>>
    BY <1>1, <2>1, <2>2, <2>4, FirstRoundOnly
  <2>6. Standing(M, x) = Placed(list, m0)
    <3>1. FirstRound(Bracket(f, list), list, FirstBracket(f))
      BY <1>1, <2>2, MadeFirstRound DEF FirstBracket
    <3>2. Rounds(list) \in Nat \ {0}
      BY <2>2, <2>3, RoundsType
    <3>3. FirstBracket(f) \in {"MAIN", "WB"}
      BY DEF FirstBracket
    <3>4. FirstRound(M, list, FirstBracket(f))
      BY <2>1, <3>1, <3>2, <3>3, DrawnFirstRound
    <3> QED
      BY <2>5, <3>4 DEF FirstRound, Standing
  <2>7. Placed(list, m0) \subseteq P
    <3>1. LET p == Rounds(list)
              low == SeedOrder[p - 1][m0 + 1]
          IN  /\ low \in 0..(Pow2[p - 1] - 1)
              /\ low < Len(list)
              /\ Pow2[p] - 1 - low \in Nat /\ low < Pow2[p] - 1 - low
              /\ Placed(list, m0) = {list[s + 1] : s \in {y \in {low, Pow2[p] - 1 - low} : y < Len(list)}}
      BY <2>2, <2>3, PlacedPair
    <3> DEFINE low == SeedOrder[Rounds(list) - 1][m0 + 1]
               high == Pow2[Rounds(list)] - 1 - low
    <3>2. low \in Nat /\ high \in Nat
          /\ Placed(list, m0) = {list[s + 1] : s \in {y \in {low, high} : y < Len(list)}}
      BY <3>1
    <3> HIDE DEF low, high
    <3>3. \A s \in {y \in {low, high} : y < Len(list)} : s + 1 \in 1..Len(list)
      BY <3>2, <2>2
    <3> QED
      BY <2>2, <3>2, <3>3
  <2> QED
    BY <1>4, <2>6, <2>7
<1> QED
  BY <1>5, <1>6

\* A match in which nothing is expected any more, and which leads on, has
\* sent somebody on.
LEMMA SendsOn ==
  ASSUME NEW f, NEW M, NEW rank, NEW list, NEW P, Whole(f, M, rank, list, P),
         NEW x \in DOMAIN M, Quiet(M, x), Standing(M, x) # {}, M[x].next # None
  PROVE  \E c : Gives(M, x, M[x].next, c) /\ c \in Standing(M, M[x].next)
<1>1. /\ f.mode # "RR" /\ M \in Brackets /\ Flow(f, M, rank) /\ Decided(M[x])
      /\ M[x].next \in DOMAIN M
  BY WholeParts
<1>2. M[x].entries # {} /\ \A e \in M[x].entries : e.who \in Standing(M, x)
  BY InStanding DEF Standing, Entrants
<1>3. \A e \in M[x].entries : e.who \in P
  BY <1>2, StandersDrafted
<1>4. Carried(M, P, {})
  BY DEF Whole
<1>5. CASE M[x].confirmed
  <2>1. PICK e \in M[x].entries : M[x].entries = {e} \/ e.score = 1
    BY <1>1, <1>5 DEF Decided
  <2>2. Gives(M, x, M[x].next, e.who)
    BY <1>5, <2>1 DEF Gives
  <2>3. e.who \in Standing(M, M[x].next)
    BY <1>1, <1>3, <1>4, <1>5, <2>1, <2>2 DEF Carried
  <2> QED
    BY <2>2, <2>3
<1>6. CASE ~M[x].confirmed
  <2>1. PICK e \in M[x].entries : M[x].entries = {e} /\ e.who \in Standing(M, M[x].next)
    BY <1>2, <1>6 DEF Quiet, Passing
  <2>2. Gives(M, x, M[x].next, e.who)
    BY <2>1 DEF Gives
  <2> QED
    BY <2>1, <2>2
<1> QED
  BY <1>5, <1>6

\* Whoever was in such a match has gone on with it, or lost it.
LEMMA GoesOn ==
  ASSUME NEW f, NEW M, NEW rank, NEW list, NEW P, Whole(f, M, rank, list, P),
         NEW x \in DOMAIN M, Quiet(M, x), NEW c \in Standing(M, x), M[x].next # None
  PROVE  \/ Gives(M, x, M[x].next, c) /\ c \in Standing(M, M[x].next)
         \/ Beaten(M, c, x)
<1>1. /\ f.mode # "RR" /\ M \in Brackets /\ Flow(f, M, rank) /\ Decided(M[x])
      /\ M[x].next \in DOMAIN M
  BY WholeParts
<1>2. PICK e \in M[x].entries : e.who = c
  BY InStanding
<1>3. c \in P /\ Carried(M, P, {})
  BY StandersDrafted DEF Whole
<1>4. CASE M[x].confirmed
  <2>1. (M[x].entries = {e} \/ e.score = 1) \/ Beaten(M, c, x)
    BY <1>1, <1>2, <1>4 DEF Decided, Beaten
  <2>2. CASE M[x].entries = {e} \/ e.score = 1
    <3>1. Gives(M, x, M[x].next, c)
      BY <1>2, <1>4, <2>2 DEF Gives
    <3>2. c \in Standing(M, M[x].next)
      BY <1>1, <1>3, <1>4, <3>1 DEF Carried
    <3> QED
      BY <3>1, <3>2
  <2> QED
    BY <2>1, <2>2
<1>5. CASE ~M[x].confirmed
  <2>1. PICK a \in M[x].entries : M[x].entries = {a} /\ a.who \in Standing(M, M[x].next)
    BY <1>2, <1>5 DEF Quiet, Passing
  <2>2. Gives(M, x, M[x].next, c)
    BY <1>2, <2>1 DEF Gives
  <2> QED
    BY <1>2, <2>1, <2>2
<1> QED
  BY <1>4, <1>5

\* A loser stands where losers are sent.
LEMMA FallsOn ==
  ASSUME NEW f, NEW M, NEW rank, NEW list, NEW P, Whole(f, M, rank, list, P),
         NEW x \in DOMAIN M, NEW c, Beaten(M, c, x)
  PROVE  /\ c \in Standing(M, x)
         /\ M[x].loserNext # None => /\ Gives(M, x, M[x].loserNext, c)
                                     /\ c \in Standing(M, M[x].loserNext)
<1>1. PICK d, e : M[x].entries = {d, e} /\ d.score = 1 /\ e.score = 0 /\ e.who = c
  BY DEF Beaten
<1>2. c \in Standing(M, x)
  BY <1>1, InStanding
<1>3. c \in P /\ Carried(M, P, {}) /\ M[x].confirmed
  BY <1>2, StandersDrafted DEF Whole, Beaten
<1>4. ASSUME M[x].loserNext # None
      PROVE  Gives(M, x, M[x].loserNext, c) /\ c \in Standing(M, M[x].loserNext)
  <2>1. M[x].loserNext \in DOMAIN M
    BY <1>4, WholeParts
  <2>2. Gives(M, x, M[x].loserNext, c)
    BY <1>1, <1>3 DEF Gives
  <2> QED
    BY <1>3, <2>1, <2>2 DEF Carried
<1> QED
  BY <1>2, <1>4

\* Whoever has come to a part of the bracket no link leaves does not leave it.
LEMMA NoWayBack ==
  ASSUME NEW f, NEW M, NEW rank, NEW list, NEW P, Whole(f, M, rank, list, P),
         NEW S \in SUBSET DOMAIN M, \A z \in S : {M[z].next, M[z].loserNext} \subseteq S \cup {None},
         NEW x \in S, NEW y \in DOMAIN M, NEW c \in Standing(M, x) \cap Standing(M, y),
         rank[x] <= rank[y]
  PROVE  y \in S
<1>1. /\ f.mode # "RR" /\ M \in Brackets /\ Flow(f, M, rank) /\ Layout(f, M, rank) /\ None \notin DOMAIN M
      /\ \A z \in DOMAIN M : z \in Ids /\ rank[z] \in Nat
  BY WholeParts
<1> DEFINE V == {z \in S : c \in Standing(M, z) /\ rank[z] <= rank[y]}
<1>2. V \in SUBSET DOMAIN M /\ V # {} /\ rank \in [Ids -> Nat]
  BY <1>1 DEF Layout
<1>3. PICK z \in V : \A v \in V : rank[v] <= rank[z]
  <2> HIDE DEF V
  <2> QED
    BY <1>1, <1>2, LastMatch
<1>4. SUFFICES ASSUME z # y PROVE FALSE
  BY <1>3
<1>5. c \in Standing(M, z) \cap Standing(M, y) /\ rank[z] <= rank[y] /\ z \in DOMAIN M
  BY <1>3
<1>6. PICK k \in DOMAIN M : Gives(M, z, k, c) /\ c \in Standing(M, k) /\ rank[k] <= rank[y]
  BY <1>1, <1>4, <1>5, Path
<1>7. k \in {M[z].next, M[z].loserNext} /\ z \in Feeders(M, k)
  BY <1>5, <1>6, GivesForm
<1>8. k \in V
  BY <1>1, <1>3, <1>6, <1>7
<1>9. rank[z] < rank[k]
  BY <1>1, <1>7, Fed
<1>10. rank[k] <= rank[z]
  BY <1>3, <1>8
<1> HIDE DEF V
<1> QED
  BY <1>1, <1>5, <1>9, <1>10

\* The first round is the one that was drawn.
LEMMA FirstRoundStands ==
  ASSUME NEW f, NEW M, NEW rank, NEW list, NEW P, Whole(f, M, rank, list, P)
  PROVE  /\ list \in Seq(P) /\ list \in Seq(Contestants) /\ Injective(list)
         /\ Len(list) \in Nat /\ Len(list) >= 2 /\ (f.mode = "DE" => Len(list) >= 4)
         /\ Rounds(list) \in Nat \ {0}
         /\ FirstRound(M, list, FirstBracket(f))
         /\ Drawn(Bracket(f, list), M)
<1>1. f \in Formats /\ f.mode # "RR"
  BY WholeParts
<1>2. Drafted(f, list, P) /\ Drawn(Bracket(f, list), M)
  BY DEF Whole
<1>3. /\ list \in Seq(P) /\ list \in Seq(Contestants) /\ Injective(list)
      /\ Len(list) >= IF f.mode = "DE" THEN 4 ELSE 2
  BY <1>2 DEF Drafted
<1>4. Len(list) \in Nat /\ Len(list) >= 2 /\ (f.mode = "DE" => Len(list) >= 4)
  BY <1>3
<1>5. Rounds(list) \in Nat \ {0}
  BY <1>3, <1>4, RoundsType
<1>6. FirstRound(Bracket(f, list), list, FirstBracket(f))
  BY <1>1, <1>3, MadeFirstRound DEF FirstBracket
<1>7. FirstBracket(f) \in {"MAIN", "WB"}
  BY DEF FirstBracket
<1>8. FirstRound(M, list, FirstBracket(f))
  BY <1>2, <1>5, <1>6, <1>7, DrawnFirstRound
<1> QED
  BY <1>2, <1>3, <1>4, <1>5, <1>8

\* Everybody starts in the first round.
LEMMA EverybodyStarts ==
  ASSUME NEW f, NEW M, NEW rank, NEW list, NEW P, Whole(f, M, rank, list, P), NEW c \in P
  PROVE  \E x \in DOMAIN M : x[1] = FirstBracket(f) /\ c \in Standing(M, x)
<1>1. /\ list \in Seq(P) /\ Injective(list) /\ Len(list) >= 2
      /\ FirstRound(M, list, FirstBracket(f))
  BY FirstRoundStands
<1>2. PICK k \in 1..Len(list) : list[k] = c
  BY DEF Whole, Drafted
<1>3. PICK m \in 0..(Pow2[Rounds(list) - 1] - 1) : c \in Placed(list, m)
  BY <1>1, <1>2, PlacedOnce
<1>4. /\ <<FirstBracket(f), 0, m>> \in DOMAIN M
      /\ Standing(M, <<FirstBracket(f), 0, m>>) = Placed(list, m)
  BY <1>1 DEF FirstRound, Standing
<1> QED
  BY <1>3, <1>4

-----------------------------------------------------------------------------
(* Who has been beaten in a single elimination *)

LEMMA SingleShaped ==
  ASSUME NEW f, NEW M, NEW rank, NEW list, NEW P, Whole(f, M, rank, list, P), f.mode = "SE"
  PROVE  /\ GrandFinal(0) \notin DOMAIN M /\ GrandFinal(1) \notin DOMAIN M
         /\ \A x \in DOMAIN M : /\ M[x].loserNext \in {None, ThirdPlace}
                                /\ M[x].next # ThirdPlace
                                /\ x # ThirdPlace => x[1] = "MAIN"
         /\ ThirdPlace \in DOMAIN M => M[ThirdPlace].next = None /\ M[ThirdPlace].loserNext = None
<1> DEFINE made == SingleElimination(list)
           p == Rounds(list)
<1>1. list \in Seq(Contestants) /\ Len(list) >= 2 /\ p \in Nat \ {0} /\ Drawn(Bracket(f, list), M)
  BY FirstRoundStands
<1>2. Drawn(made, M)
  BY <1>1 DEF Bracket
<1>3. /\ DOMAIN made = Tree("MAIN", p) \cup (IF p >= 2 THEN {ThirdPlace} ELSE {})
      /\ \A x \in Tree("MAIN", p) :
           /\ made[x].next = IF x[2] < p - 1 THEN <<"MAIN", x[2] + 1, x[3] \div 2>> ELSE None
           /\ made[x].loserNext = IF p >= 2 /\ x[2] = p - 2 THEN ThirdPlace ELSE None
      /\ p >= 2 => made[ThirdPlace] = Made(None, None, FALSE, {})
  BY <1>1, SingleEliminationForm
<1>4. \A x \in Tree("MAIN", p) : x[1] = "MAIN" /\ x \in Ids
  BY <1>1, TreeForm DEF Plans
<1>5. None \notin Ids /\ ThirdPlace \in Ids
  BY GrandFinals DEF ThirdPlace, Ids
<1>6. \A x \in DOMAIN made : /\ made[x].loserNext \in {None, ThirdPlace}
                             /\ made[x].next # ThirdPlace
                             /\ x # ThirdPlace => x[1] = "MAIN"
                             /\ x = ThirdPlace => made[x].next = None /\ made[x].loserNext = None
  <2> SUFFICES ASSUME NEW x \in DOMAIN made
               PROVE  /\ made[x].loserNext \in {None, ThirdPlace}
                      /\ made[x].next # ThirdPlace
                      /\ x # ThirdPlace => x[1] = "MAIN"
                      /\ x = ThirdPlace => made[x].next = None /\ made[x].loserNext = None
    OBVIOUS
  <2>1. CASE x \in Tree("MAIN", p)
    <3>1. x # ThirdPlace
      BY <1>4, <2>1 DEF ThirdPlace
    <3>2. made[x].next = None \/ made[x].next = <<"MAIN", x[2] + 1, x[3] \div 2>>
      BY <1>3, <2>1
    <3>3. ThirdPlace # None /\ ThirdPlace # <<"MAIN", x[2] + 1, x[3] \div 2>>
      BY <1>5 DEF ThirdPlace
    <3>4. made[x].next # ThirdPlace
      <4> HIDE DEF made
      <4> QED
        BY <3>2, <3>3
    <3> QED
      BY <1>3, <1>4, <2>1, <3>1, <3>4
  <2>2. CASE p >= 2 /\ x = ThirdPlace
    <3>1. made[x] = Made(None, None, FALSE, {})
      BY <1>3, <2>2
    <3>2. made[x].next = None /\ made[x].loserNext = None
      BY <3>1 DEF Made
    <3> QED
      BY <1>5, <2>2, <3>2
  <2> QED
    BY <1>3, <2>1, <2>2
<1>7. GrandFinal(0) \notin DOMAIN made /\ GrandFinal(1) \notin DOMAIN made
  BY <1>6 DEF GrandFinal, ThirdPlace
<1> HIDE DEF made
<1>8. GrandFinal(0) \notin DOMAIN M
  BY <1>2, <1>7, GrandFinals DEF Drawn
<1>9. GrandFinal(1) \notin DOMAIN M
  <2>1. M \in Brackets
    BY WholeParts
  <2> QED
    BY <1>8, <2>1, BracketParts
<1>10. DOMAIN M = DOMAIN made
       /\ \A x \in DOMAIN M : M[x].next = made[x].next /\ M[x].loserNext = made[x].loserNext
  BY <1>2, <1>7, <1>8, <1>9 DEF Drawn
<1> QED
  BY <1>6, <1>8, <1>9, <1>10

\* The matches in which c lost, but that for the third place.
Losses(M, c) == {x \in DOMAIN M \ {ThirdPlace} : Beaten(M, c, x)}

\* Whoever took the deciding match has not lost it, and all others in it have.
LEMMA TakesOrLoses ==
  ASSUME NEW f, NEW M, NEW rank, NEW list, NEW P, Whole(f, M, rank, list, P),
         NEW x \in DOMAIN M, M[x].confirmed
  PROVE  /\ Takes(M[x]) \in Standing(M, x)
         /\ \A c \in Standing(M, x) : Beaten(M, c, x) <=> c # Takes(M[x])
<1>1. M \in Brackets /\ Decided(M[x]) /\ Flow(f, M, rank)
  BY WholeParts
<1>2. M[x].entries \in Rows
  BY <1>1, MatchType
<1>3. CASE \E e : M[x].entries = {e}
  <2>1. PICK e : M[x].entries = {e}
    BY <1>3
  <2>2. Standing(M, x) = {e.who}
    BY <2>1 DEF Standing, Entrants
  <2>3. Cardinality(M[x].entries) = 1
    BY <2>1, FS_Singleton
  <2>4. Takes(M[x]) = e.who
    BY <2>2, <2>3 DEF Takes, Standing
  <2>5. ~Beaten(M, e.who, x)
    <3> SUFFICES ASSUME Beaten(M, e.who, x) PROVE FALSE
      OBVIOUS
    <3>1. PICK d, b : M[x].entries = {d, b} /\ d.score = 1 /\ b.score = 0
      BY DEF Beaten
    <3> QED
      BY <2>1, <3>1
  <2> QED
    BY <2>2, <2>4, <2>5
<1>4. CASE ~\E e : M[x].entries = {e}
  <2>1. PICK d, e : M[x].entries = {d, e} /\ d.score = 1 /\ e.score = 0
    BY <1>1, <1>4 DEF Decided
  <2>2. Takes(M[x]) = d.who
    BY <1>2, <2>1, TakenByScore
  <2>3. Winner(M[x].entries) = d.who /\ d.who # None
    BY <1>2, <2>1, DecidedRows
  <2>4. d.who \in Standing(M, x)
    BY <2>1, InStanding
  <2> QED
    BY <2>2, <2>3, <2>4, BeatenForm
<1> QED
  BY <1>3, <1>4

\* Who has lost a match but that for the third place plays on at most there.
LEMMA BeatenEnds ==
  ASSUME NEW f, NEW M, NEW rank, NEW list, NEW P, Whole(f, M, rank, list, P), f.mode = "SE",
         NEW x \in DOMAIN M, NEW c, Beaten(M, c, x), x # ThirdPlace,
         NEW y \in DOMAIN M, c \in Standing(M, y), rank[x] <= rank[y], y # x
  PROVE  y = ThirdPlace
<1>1. /\ f.mode # "RR" /\ M \in Brackets /\ Flow(f, M, rank)
      /\ rank \in [Ids -> Nat] /\ \A z \in DOMAIN M : z \in Ids /\ rank[z] \in Nat
  BY WholeParts
<1>2. c \in Standing(M, x) \cap Standing(M, y)
  BY FallsOn
<1>3. PICK k \in DOMAIN M : Gives(M, x, k, c) /\ c \in Standing(M, k) /\ rank[k] <= rank[y]
  BY <1>1, <1>2, Path
<1>4. GrandFinal(0) \notin DOMAIN M /\ M[x].loserNext \in {None, ThirdPlace} /\ None \notin DOMAIN M
  BY SingleShaped, WholeParts
<1>5. k = ThirdPlace
  BY <1>3, <1>4, BeatenGives
<1>6. M[ThirdPlace].next = None /\ M[ThirdPlace].loserNext = None
  BY <1>5, SingleShaped
<1> DEFINE S == {ThirdPlace}
<1>7. S \in SUBSET DOMAIN M /\ \A z \in S : {M[z].next, M[z].loserNext} \subseteq S \cup {None}
  BY <1>5, <1>6
<1>8. k \in S /\ c \in Standing(M, k) \cap Standing(M, y)
  BY <1>3, <1>5
<1>9. y \in S
  <2> HIDE DEF S
  <2> QED
    BY <1>3, <1>7, <1>8, NoWayBack
<1> QED
  BY <1>9

\* All but the match for the third place lead to the final.
LEMMA AllToFinal ==
  ASSUME NEW f, NEW M, NEW rank, NEW list, NEW P, Whole(f, M, rank, list, P), f.mode = "SE",
         NEW E \in Ends(f, M), NEW x \in DOMAIN M, x # ThirdPlace
  PROVE  Leads(M, x, E) /\ (M[x].next = None => x = E)
<1>1. /\ M \in Brackets /\ Layout(f, M, rank) /\ Finals(f, M)
      /\ \A z \in DOMAIN M : M[z].next \in DOMAIN M \cup {None}
  BY WholeParts
<1> DEFINE V == DOMAIN M \ {ThirdPlace}
<1>2. \A z \in V : M[z].next = None => z = E
  <2> SUFFICES ASSUME NEW z \in V, M[z].next = None PROVE z = E
    OBVIOUS
  <2>1. z[1] = "MAIN"
    BY SingleShaped
  <2>2. z \in Ends(f, M)
    BY <2>1 DEF Ends, Deciding
  <2> QED
    BY <1>1, <2>2 DEF Finals
<1>3. \A z \in V : z = E \/ M[z].next \in V
  BY <1>1, <1>2, SingleShaped
<1>4. E \in DOMAIN M
  BY DEF Ends
<1>5. V \in SUBSET DOMAIN M /\ x \in V
  OBVIOUS
<1>6. Leads(M, x, E)
  <2> HIDE DEF V
  <2> QED
    BY <1>1, <1>3, <1>4, <1>5, AllLead
<1> QED
  BY <1>2, <1>6

\* In a single elimination that is decided everybody has lost once, but for
\* the winner.
LEMMA SingleBeaten ==
  ASSUME NEW f, NEW M, NEW rank, NEW list, NEW P, Whole(f, M, rank, list, P), f.mode = "SE",
         NEW E \in Ends(f, M), M[E].confirmed, NEW c \in P
  PROVE  Cardinality(Losses(M, c)) = IF c = Takes(M[E]) THEN 0 ELSE 1
<1>1. /\ f.mode # "RR" /\ M \in Brackets /\ Flow(f, M, rank) /\ Layout(f, M, rank)
      /\ rank \in [Ids -> Nat] /\ DOMAIN M \subseteq Ids
      /\ \A z \in DOMAIN M : /\ z \in Ids /\ rank[z] \in Nat
                             /\ M[z].next \in DOMAIN M \cup {None}
  BY WholeParts
<1>2. E \in DOMAIN M /\ E # ThirdPlace
  BY DEF Ends, Deciding
<1>3. Settled(M, E)
  BY <1>1, <1>2 DEF Flow, Ordered
<1>4. \A x \in DOMAIN M \ {ThirdPlace} : Quiet(M, x) /\ rank[x] <= rank[E]
  <2> SUFFICES ASSUME NEW x \in DOMAIN M, x # ThirdPlace PROVE Quiet(M, x) /\ rank[x] <= rank[E]
    OBVIOUS
  <2>1. Leads(M, x, E)
    BY AllToFinal
  <2>2. Quiet(M, x)
    BY <1>3, <2>1 DEF Settled
  <2>3. None \notin Ids
    BY GrandFinals
  <2>4. rank[x] <= rank[E]
    BY <1>1, <1>2, <2>1, <2>3, LeadsUp
  <2> QED
    BY <2>2, <2>4
<1>5. ASSUME NEW x \in Losses(M, c), NEW y \in Losses(M, c) PROVE x = y
  <2>1. x \in DOMAIN M /\ y \in DOMAIN M /\ x # ThirdPlace /\ y # ThirdPlace
        /\ Beaten(M, c, x) /\ Beaten(M, c, y)
    BY <1>5 DEF Losses
  <2>2. c \in Standing(M, x) /\ c \in Standing(M, y)
    BY <2>1, FallsOn
  <2>3. rank[x] <= rank[y] \/ rank[y] <= rank[x]
    BY <1>1, <2>1
  <2> QED
    BY <2>1, <2>2, <2>3, BeatenEnds
<1>6. ASSUME c = Takes(M[E]) PROVE Losses(M, c) = {}
  <2> SUFFICES ASSUME NEW x \in Losses(M, c) PROVE FALSE
    OBVIOUS
  <2>1. x \in DOMAIN M /\ x # ThirdPlace /\ Beaten(M, c, x)
    BY DEF Losses
  <2>2. c \in Standing(M, E) /\ ~Beaten(M, c, E)
    BY <1>2, <1>6, TakesOrLoses
  <2>3. rank[x] <= rank[E] /\ x # E
    BY <1>4, <2>1, <2>2
  <2> QED
    BY <1>2, <2>1, <2>2, <2>3, BeatenEnds
<1>7. ASSUME c # Takes(M[E]) PROVE Losses(M, c) # {}
  <2> DEFINE V == {x \in DOMAIN M \ {ThirdPlace} : c \in Standing(M, x)}
  <2>1. PICK x0 \in DOMAIN M : x0[1] = "MAIN" /\ c \in Standing(M, x0)
    BY EverybodyStarts DEF FirstBracket
  <2>2. V \in SUBSET DOMAIN M /\ V # {}
    BY <2>1 DEF ThirdPlace
  <2>3. PICK y \in V : \A v \in V : rank[v] <= rank[y]
    <3> HIDE DEF V
    <3> QED
      BY <1>1, <2>2, LastMatch
  <2>4. y \in DOMAIN M /\ y # ThirdPlace /\ c \in Standing(M, y) /\ Quiet(M, y)
    BY <1>4, <2>3
  <2>5. Beaten(M, c, y)
    <3>1. CASE y = E
      BY <1>2, <1>7, <2>4, <3>1, TakesOrLoses
    <3>2. CASE y # E
      <4>1. M[y].next # None
        BY <2>4, <3>2, AllToFinal
      <4>2. M[y].next \in DOMAIN M /\ M[y].next # ThirdPlace /\ rank[y] < rank[M[y].next]
        BY <1>1, <2>4, <4>1, SingleShaped DEF Layout
      <4>3. c \notin Standing(M, M[y].next)
        <5> SUFFICES ASSUME c \in Standing(M, M[y].next) PROVE FALSE
          OBVIOUS
        <5>1. rank[M[y].next] <= rank[y]
          BY <2>3, <4>2
        <5> QED
          BY <1>1, <2>4, <4>2, <5>1
      <4> QED
        BY <2>4, <4>1, <4>3, GoesOn
    <3> QED
      BY <3>1, <3>2
  <2> QED
    BY <2>4, <2>5 DEF Losses
<1>8. CASE c = Takes(M[E])
  BY <1>6, <1>8, FS_EmptySet
<1>9. CASE c # Takes(M[E])
  <2>1. PICK x \in Losses(M, c) : TRUE
    BY <1>7, <1>9
  <2>2. Losses(M, c) = {x}
    BY <1>5, <2>1
  <2> QED
    BY <1>9, <2>2, FS_Singleton
<1> QED
  BY <1>8, <1>9
-----------------------------------------------------------------------------
(* The shape of a double elimination *)

\* The last match of the losers' bracket.
LowerFinal(list) == <<"LB", 2 * (Rounds(list) - 1), 0>>

Linked(M, list, x) ==
  \/ /\ x[1] = "WB"
     /\ M[x].next = GrandFinal(0) \/ (M[x].next # None /\ M[x].next[1] = "WB")
     /\ M[x].loserNext = None \/ M[x].loserNext[1] = "LB"
  \/ /\ x[1] = "LB"
     /\ M[x].next \in {None, GrandFinal(0)} \/ M[x].next[1] = "LB"
     /\ M[x].next = GrandFinal(0) => x = LowerFinal(list)
     /\ M[x].loserNext = None
  \/ /\ x \in {GrandFinal(0), GrandFinal(1)}
     /\ M[x].next \in {None, GrandFinal(1)}
     /\ M[x].loserNext = None

LEMMA MadeLinked ==
  ASSUME NEW list \in Seq(Contestants), Len(list) >= 4
  PROVE  LET made == DoubleElimination(list)
         IN  /\ \A x \in DOMAIN made : Linked(made, list, x)
             /\ LowerFinal(list) \in DOMAIN made
             /\ made[LowerFinal(list)].next = GrandFinal(0)
             /\ \A r \in 0..(Rounds(list) - 1) : \A m \in 0..(Pow2[Rounds(list) - 1 - r] - 1) :
                  /\ <<"WB", r, m>> \in DOMAIN made
                  /\ made[<<"WB", r, m>>].loserNext = LoserTarget(list, r, m)
                  /\ made[<<"WB", r, m>>].next = IF r < Rounds(list) - 1 THEN <<"WB", r + 1, m \div 2>>
                                                 ELSE GrandFinal(0)
<1> DEFINE made == DoubleElimination(list)
           p == Rounds(list)
<1>1. p \in Nat /\ p >= 2
  BY RoundsType
<1>2. /\ DOMAIN made = Tree("WB", p) \cup Lower(p) \cup {GrandFinal(0)}
      /\ \A x \in Tree("WB", p) :
           /\ made[x].next = IF x[2] < p - 1 THEN <<"WB", x[2] + 1, x[3] \div 2>> ELSE GrandFinal(0)
           /\ made[x].loserNext = LoserTarget(list, x[2], x[3])
      /\ \A x \in Lower(p) :
           made[x] = Made(IF x \in DeadLower(list) THEN None ELSE LowerNext(p, x[2], x[3]),
                          None, FALSE, {})
      /\ made[GrandFinal(0)] = Made(None, None, FALSE, {})
  BY DoubleEliminationForm
<1>3. /\ \A r, m : <<"WB", r, m>> \in Tree("WB", p) <=> r \in 0..(p - 1) /\ m \in 0..(Pow2[p - 1 - r] - 1)
      /\ \A x \in Tree("WB", p) : x \in Ids /\ x[1] = "WB" /\ x = <<"WB", x[2], x[3]>>
  BY <1>1, TreeForm DEF Plans
<1>4. /\ \A r, m : <<"LB", r, m>> \in Lower(p) <=> r \in 1..(2 * (p - 1)) /\ m \in 0..(LowerCount(p, r) - 1)
      /\ \A x \in Lower(p) : /\ x = <<"LB", x[2], x[3]>> /\ x[2] \in 1..(2 * (p - 1))
                             /\ x[3] \in 0..(LowerCount(p, x[2]) - 1)
  BY <1>1, LowerForm
<1>5. LowerCount(p, 2 * (p - 1)) = 1
  <2>1. p - 1 \in 1..(p - 1)
    BY <1>1
  <2>2. LowerCount(p, 2 * (p - 1)) = Pow2[p - 1 - (p - 1)]
    BY <1>1, <2>1, LowerCounts
  <2>3. p - 1 - (p - 1) = 0
    BY <1>1
  <2> QED
    BY <2>2, <2>3, Pow2Type
<1>6. None # GrandFinal(0) /\ None # GrandFinal(1)
  BY GrandFinals
<1> HIDE DEF made, p
<1>7. ASSUME NEW x \in Tree("WB", p) PROVE Linked(made, list, x)
  <2>1. x[1] = "WB"
    BY <1>3
  <2>2. made[x].next = GrandFinal(0) \/ made[x].next = <<"WB", x[2] + 1, x[3] \div 2>>
    BY <1>2
  <2>3. <<"WB", x[2] + 1, x[3] \div 2>> # None
    <3>1. x[2] \in Nat /\ x[3] \in Nat
      BY <1>3 DEF Ids
    <3>2. x[2] + 1 \in Nat /\ x[3] \div 2 \in Nat
      BY <3>1
    <3>3. <<"WB", x[2] + 1, x[3] \div 2>> \in Ids
      BY <3>2 DEF Ids
    <3> QED
      BY <3>3, GrandFinals
  <2>4. made[x].next = GrandFinal(0) \/ (made[x].next # None /\ made[x].next[1] = "WB")
    <3>1. CASE made[x].next = GrandFinal(0)
      BY <3>1
    <3>2. CASE made[x].next = <<"WB", x[2] + 1, x[3] \div 2>>
      <4>1. <<"WB", x[2] + 1, x[3] \div 2>>[1] = "WB"
        OBVIOUS
      <4> QED
        BY <3>2, <4>1, <2>3
    <3> QED
      BY <2>2, <3>1, <3>2
  <2>5. made[x].loserNext = None \/ made[x].loserNext[1] = "LB"
    <3>1. made[x].loserNext = LoserTarget(list, x[2], x[3])
      BY <1>2
    <3>2. LoserTarget(list, x[2], x[3]) = None \/ LoserTarget(list, x[2], x[3])[1] = "LB"
      BY DEF LoserTarget
    <3> QED
      BY <3>1, <3>2
  <2> QED
    BY <2>1, <2>4, <2>5 DEF Linked
<1>8. ASSUME NEW x \in Lower(p) PROVE Linked(made, list, x)
  <2>1. x[1] = "LB" /\ x = <<"LB", x[2], x[3]>>
    BY <1>4
  <2>2. made[x].next \in {None, LowerNext(p, x[2], x[3])} /\ made[x].loserNext = None
    BY <1>2 DEF Made
  <2>3. \/ LowerNext(p, x[2], x[3]) = GrandFinal(0) /\ x[2] = 2 * (p - 1)
        \/ LowerNext(p, x[2], x[3])[1] = "LB" /\ LowerNext(p, x[2], x[3]) # GrandFinal(0)
    BY DEF LowerNext, GrandFinal
  <2>4. ASSUME made[x].next = GrandFinal(0) PROVE x = LowerFinal(list)
    <3>1. x[2] = 2 * (p - 1)
      BY <1>6, <2>2, <2>3, <2>4
    <3>2. x[3] \in 0..0
      BY <1>4, <1>5, <3>1
    <3>3. x[3] = 0
      BY <3>2
    <3> QED
      BY <2>1, <3>1, <3>3 DEF LowerFinal, p
  <2> QED
    BY <2>1, <2>2, <2>3, <2>4 DEF Linked
<1>9. Linked(made, list, GrandFinal(0))
  BY <1>2 DEF Linked, Made
<1>10. \A x \in DOMAIN made : Linked(made, list, x)
  BY <1>2, <1>7, <1>8, <1>9
<1>11. LowerFinal(list) \in Lower(p)
  <2>1. 2 * (p - 1) \in 1..(2 * (p - 1))
    BY <1>1
  <2>2. 0 \in 0..(LowerCount(p, 2 * (p - 1)) - 1)
    BY <1>5
  <2> QED
    BY <1>4, <2>1, <2>2 DEF LowerFinal, p
<1>12. made[LowerFinal(list)].next = GrandFinal(0)
  <2>1. LowerFinal(list) \notin DeadLower(list)
    <3>1. p - 1 \in 0..(p - 1) /\ 0 \in 0..(Pow2[p - 1 - (p - 1)] - 1)
      <4>1. p - 1 - (p - 1) = 0
        BY <1>1
      <4> QED
        BY <1>1, <4>1, Pow2Type
    <3>2. <<"WB", p - 1, 0>> \in Tree("WB", p)
      BY <1>3, <3>1
    <3>3. LoserTarget(list, p - 1, 0) = LowerFinal(list)
      <4>1. p - 1 # 0
        BY <1>1
      <4>2. LoserTarget(list, p - 1, 0) = <<"LB", 2 * (p - 1), 0 % LowerCount(p, 2 * (p - 1))>>
        BY <4>1 DEF LoserTarget, p
      <4>3. 0 % LowerCount(p, 2 * (p - 1)) = 0
        BY <1>5
      <4> QED
        BY <4>2, <4>3 DEF LowerFinal, p
    <3>4. <<"WB", p - 1, 0>>[2] = p - 1 /\ <<"WB", p - 1, 0>>[3] = 0
      OBVIOUS
    <3>5. LowerFinal(list) \in {LoserTarget(list, id[2], id[3]) : id \in Tree("WB", p)}
      BY <3>2, <3>3, <3>4
    <3> QED
      BY <3>5, DeadLowerUnfolds DEF p
  <2>2. made[LowerFinal(list)].next = LowerNext(p, LowerFinal(list)[2], LowerFinal(list)[3])
    BY <1>2, <1>11, <2>1 DEF Made
  <2>3. LowerFinal(list)[2] = 2 * (p - 1)
    BY DEF LowerFinal, p
  <2> QED
    BY <2>2, <2>3 DEF LowerNext
<1>13. ASSUME NEW r \in 0..(p - 1), NEW m \in 0..(Pow2[p - 1 - r] - 1)
       PROVE  /\ <<"WB", r, m>> \in DOMAIN made
              /\ made[<<"WB", r, m>>].loserNext = LoserTarget(list, r, m)
              /\ made[<<"WB", r, m>>].next = IF r < p - 1 THEN <<"WB", r + 1, m \div 2>>
                                             ELSE GrandFinal(0)
  <2>1. <<"WB", r, m>> \in Tree("WB", p)
    BY <1>3
  <2>2. <<"WB", r, m>>[2] = r /\ <<"WB", r, m>>[3] = m
    OBVIOUS
  <2> QED
    BY <1>2, <2>1, <2>2
<1> QED
  BY <1>2, <1>10, <1>11, <1>12, <1>13 DEF made, p

\* A double elimination is linked as it was made, but for a bracket reset.
LEMMA DoubleLinked ==
  ASSUME NEW f, NEW M, NEW rank, NEW list, NEW P, Whole(f, M, rank, list, P), f.mode = "DE"
  PROVE  /\ \A x \in DOMAIN M : Linked(M, list, x)
         /\ LowerFinal(list) \in DOMAIN M
         /\ M[LowerFinal(list)].next = GrandFinal(0)
         /\ \A r \in 0..(Rounds(list) - 1) : \A m \in 0..(Pow2[Rounds(list) - 1 - r] - 1) :
              /\ <<"WB", r, m>> \in DOMAIN M
              /\ M[<<"WB", r, m>>].loserNext = LoserTarget(list, r, m)
              /\ M[<<"WB", r, m>>].next = IF r < Rounds(list) - 1 THEN <<"WB", r + 1, m \div 2>>
                                          ELSE GrandFinal(0)
<1> DEFINE made == DoubleElimination(list)
           p == Rounds(list)
           lf == LowerFinal(list)
           Slot(r, m) == <<"WB", r, m>>
<1>1. list \in Seq(Contestants) /\ Len(list) >= 4 /\ Drawn(Bracket(f, list), M)
  BY FirstRoundStands
<1>2. Drawn(made, M)
  BY <1>1 DEF Bracket
<1>3. /\ \A x \in DOMAIN made : Linked(made, list, x)
      /\ lf \in DOMAIN made
      /\ made[lf].next = GrandFinal(0)
      /\ \A r \in 0..(p - 1) : \A m \in 0..(Pow2[p - 1 - r] - 1) :
           /\ Slot(r, m) \in DOMAIN made
           /\ made[Slot(r, m)].loserNext = LoserTarget(list, r, m)
           /\ made[Slot(r, m)].next = IF r < p - 1 THEN <<"WB", r + 1, m \div 2>> ELSE GrandFinal(0)
  BY <1>1, MadeLinked
<1>4. lf # GrandFinal(0) /\ lf # GrandFinal(1) /\ \A r, m : Slot(r, m) # GrandFinal(0) /\ Slot(r, m) # GrandFinal(1)
  BY DEF LowerFinal, GrandFinal
<1>5. M \in Brackets
  BY WholeParts
<1> HIDE DEF made, p, lf, Slot
<1>6. /\ \A x \in DOMAIN made : /\ x \in DOMAIN M
                                /\ M[x].loserNext = made[x].loserNext
                                /\ x # GrandFinal(0) => M[x].next = made[x].next
      /\ \A x \in DOMAIN M : x \in DOMAIN made \/ x = GrandFinal(1)
      /\ GrandFinal(0) \in DOMAIN made => M[GrandFinal(0)].next \in {None, GrandFinal(1)}
  BY <1>2 DEF Drawn
<1>7. ASSUME NEW x \in DOMAIN M PROVE Linked(M, list, x)
  <2>1. CASE x = GrandFinal(1)
    <3>1. M[x].next = None /\ M[x].loserNext = None
      BY <1>5, <2>1, BracketParts
    <3> QED
      BY <2>1, <3>1 DEF Linked
  <2>2. CASE x = GrandFinal(0)
    <3>1. x # GrandFinal(1) /\ x \in DOMAIN made /\ Linked(made, list, x)
      BY <1>3, <1>6, <2>2, GrandFinals
    <3>2. x[1] = "GF"
      BY <2>2 DEF GrandFinal
    <3>3. made[x].loserNext = None
      BY <3>1, <3>2 DEF Linked
    <3> QED
      BY <1>6, <2>2, <3>1, <3>3 DEF Linked
  <2>3. CASE x # GrandFinal(0) /\ x # GrandFinal(1)
    <3>1. x \in DOMAIN made /\ M[x].next = made[x].next /\ M[x].loserNext = made[x].loserNext
      BY <1>6, <2>3
    <3>2. Linked(made, list, x)
      BY <1>3, <3>1
    <3> QED
      BY <3>1, <3>2 DEF Linked
  <2> QED
    BY <2>1, <2>2, <2>3
<1>8. lf \in DOMAIN M /\ M[lf].next = GrandFinal(0)
  BY <1>3, <1>4, <1>6
<1>9. \A r \in 0..(p - 1) : \A m \in 0..(Pow2[p - 1 - r] - 1) :
        /\ Slot(r, m) \in DOMAIN M
        /\ M[Slot(r, m)].loserNext = LoserTarget(list, r, m)
        /\ M[Slot(r, m)].next = IF r < p - 1 THEN <<"WB", r + 1, m \div 2>> ELSE GrandFinal(0)
  <2> SUFFICES ASSUME NEW r \in 0..(p - 1), NEW m \in 0..(Pow2[p - 1 - r] - 1)
               PROVE  /\ Slot(r, m) \in DOMAIN M
                      /\ M[Slot(r, m)].loserNext = LoserTarget(list, r, m)
                      /\ M[Slot(r, m)].next = IF r < p - 1 THEN <<"WB", r + 1, m \div 2>> ELSE GrandFinal(0)
    OBVIOUS
  <2> DEFINE x == Slot(r, m)
             on == IF r < p - 1 THEN <<"WB", r + 1, m \div 2>> ELSE GrandFinal(0)
             off == LoserTarget(list, r, m)
  <2>1. x \in DOMAIN made /\ made[x].loserNext = off /\ made[x].next = on
    BY <1>3
  <2>2. x # GrandFinal(0)
    BY <1>4
  <2> HIDE DEF x, on, off
  <2>3. x \in DOMAIN M /\ M[x].loserNext = off /\ M[x].next = on
    BY <1>6, <2>1, <2>2
  <2> QED
    BY <2>3 DEF x, on, off
<1> QED
  BY <1>7, <1>8, <1>9 DEF p, lf, Slot

\* The final of the winners' bracket.
UpperFinal(list) == <<"WB", Rounds(list) - 1, 0>>

\* A match of the winners' bracket by round and order.
Upper(M, list, x) ==
  /\ x = <<"WB", x[2], x[3]>>
  /\ x[2] \in 0..(Rounds(list) - 1) /\ x[3] \in 0..(Pow2[Rounds(list) - 1 - x[2]] - 1)
  /\ M[x].loserNext = LoserTarget(list, x[2], x[3])
  /\ M[x].next = IF x[2] < Rounds(list) - 1 THEN <<"WB", x[2] + 1, x[3] \div 2>> ELSE GrandFinal(0)
  /\ x[2] = Rounds(list) - 1 => x = UpperFinal(list)
  /\ x # UpperFinal(list) => M[x].next # GrandFinal(0) /\ M[x].loserNext # LowerFinal(list)

LEMMA UpperForm ==
  ASSUME NEW f, NEW M, NEW rank, NEW list, NEW P, Whole(f, M, rank, list, P), f.mode = "DE",
         NEW x \in DOMAIN M, x[1] = "WB"
  PROVE  Upper(M, list, x)
<1> DEFINE made == DoubleElimination(list)
           p == Rounds(list)
<1>1. list \in Seq(Contestants) /\ Len(list) >= 4 /\ Drawn(Bracket(f, list), M)
  BY FirstRoundStands
<1>2. p \in Nat /\ p >= 2
  BY <1>1, RoundsType
<1>3. x \in DOMAIN made
  BY <1>1 DEF Bracket, Drawn, GrandFinal
<1>4. DOMAIN made = Tree("WB", p) \cup Lower(p) \cup {GrandFinal(0)}
  BY <1>1, DoubleEliminationForm
<1>5. x \notin Lower(p)
  <2>1. \A y \in Lower(p) : y = <<"LB", y[2], y[3]>>
    BY <1>2, LowerForm
  <2> QED
    BY <2>1
<1>6. x \in Tree("WB", p)
  BY <1>3, <1>4, <1>5 DEF GrandFinal
<1>7. x = <<"WB", x[2], x[3]>> /\ x[2] \in 0..(p - 1) /\ x[3] \in 0..(Pow2[p - 1 - x[2]] - 1)
  BY <1>2, <1>6, TreeForm
<1>8. /\ M[x].loserNext = LoserTarget(list, x[2], x[3])
      /\ M[x].next = IF x[2] < p - 1 THEN <<"WB", x[2] + 1, x[3] \div 2>> ELSE GrandFinal(0)
  BY <1>7, DoubleLinked
<1>9. ASSUME x[2] = p - 1 PROVE x = UpperFinal(list)
  <2>1. p - 1 - x[2] = 0
    BY <1>2, <1>9
  <2>2. x[3] \in 0..(1 - 1)
    BY <1>7, <2>1, Pow2Type
  <2>3. x[3] = 0
    BY <2>2
  <2> QED
    BY <1>7, <1>9, <2>3 DEF UpperFinal
<1>10. ASSUME x # UpperFinal(list) PROVE M[x].next # GrandFinal(0) /\ M[x].loserNext # LowerFinal(list)
  <2>1. x[2] \in 0..(p - 1) /\ x[2] # p - 1
    BY <1>7, <1>9, <1>10
  <2>2. x[2] \in Nat /\ x[2] < p - 1
    BY <1>2, <2>1
  <2>3. M[x].next # GrandFinal(0)
    BY <1>8, <2>2 DEF GrandFinal
  <2>4. (IF x[2] = 0 THEN 1 ELSE 2 * x[2]) # 2 * (p - 1)
    BY <1>2, <2>2
  <2>5. LoserTarget(list, x[2], x[3]) # LowerFinal(list)
    <3>1. LowerFinal(list) # None
      <4>1. 2 * (p - 1) \in Nat
        BY <1>2
      <4>2. LowerFinal(list) \in Ids
        BY <4>1 DEF LowerFinal, Ids
      <4> QED
        BY <4>2, GrandFinals
    <3> QED
      BY <2>4, <3>1 DEF LoserTarget, LowerFinal
  <2> QED
    BY <1>8, <2>3, <2>5
<1> QED
  BY <1>7, <1>8, <1>9, <1>10 DEF Upper

-----------------------------------------------------------------------------
(* A double elimination whose first grand final is decided *)

\* The bracket is whole, and its first grand final is decided.
Played(f, M, rank, list, P) ==
  /\ Whole(f, M, rank, list, P) /\ f.mode = "DE"
  /\ GrandFinal(0) \in DOMAIN M /\ M[GrandFinal(0)].confirmed

\* A match somebody stands in leads to the first grand final, and nothing is
\* open in it.
LEMMA NothingOpen ==
  ASSUME NEW f, NEW M, NEW rank, NEW list, NEW P, Played(f, M, rank, list, P),
         NEW x \in DOMAIN M, x # GrandFinal(1), Standing(M, x) # {}
  PROVE  /\ Quiet(M, x)
         /\ x # GrandFinal(0) => M[x].next \in DOMAIN M
         /\ rank[x] <= rank[GrandFinal(0)]
<1> DEFINE E == GrandFinal(0)
           V == {z \in DOMAIN M : z = E \/ (z # GrandFinal(1) /\ M[z].next # None)}
<1>1. /\ Whole(f, M, rank, list, P) /\ f.mode = "DE" /\ f.mode # "RR"
      /\ M \in Brackets /\ Flow(f, M, rank) /\ Layout(f, M, rank) /\ Finals(f, M)
      /\ DOMAIN M \subseteq Ids /\ None \notin Ids
      /\ \A z \in DOMAIN M : M[z].next \in DOMAIN M \cup {None}
  BY WholeParts, GrandFinals DEF Played
<1>2. E \in DOMAIN M /\ M[E].confirmed /\ E # GrandFinal(1)
  BY GrandFinals DEF Played
<1>3. \A z \in DOMAIN M : Linked(M, list, z)
  BY <1>1, DoubleLinked
<1>4. ASSUME NEW z \in V, z # E PROVE M[z].next \in V
  <2>1. z \in DOMAIN M /\ z # GrandFinal(1) /\ M[z].next \in DOMAIN M /\ M[z].next # None
    BY <1>1, <1>4
  <2>2. M[z].next # GrandFinal(1)
    BY <1>1, <1>4, <2>1, BracketParts
  <2>3. ASSUME M[z].next # E PROVE M[M[z].next].next # None
    <3> DEFINE y == M[z].next
    <3>1. y \in DOMAIN M /\ y # E /\ y # GrandFinal(1) /\ z \in Feeders(M, y)
      BY <2>1, <2>2, <2>3 DEF Feeders
    <3> HIDE DEF y, E, V
    <3>2. Linked(M, list, y)
      BY <1>3, <3>1
    <3>3. y[1] = "WB" => M[y].next # None
      <4>1. None # GrandFinal(0) /\ GrandFinal(0)[1] = "GF" /\ GrandFinal(1)[1] = "GF"
        BY GrandFinals DEF GrandFinal
      <4> QED
        BY <3>2, <4>1 DEF Linked
    <3>4. y[1] = "LB" => M[y].next # None
      BY <1>1, <3>1 DEF Finals
    <3>5. M[y].next # None
      BY <3>1, <3>2, <3>3, <3>4 DEF Linked, E
    <3> QED
      BY <3>5 DEF y
  <2> HIDE DEF E
  <2> QED
    BY <2>1, <2>2, <2>3
<1>5. x = E \/ M[x].next # None
  <2> SUFFICES ASSUME x # E, M[x].next = None PROVE FALSE
    OBVIOUS
  <2>1. Linked(M, list, x)
    BY <1>3
  <2>2. M[x].entries # {}
    BY DEF Standing, Entrants
  <2>3. x[1] # "LB"
    BY <1>1, <2>2, NotDead
  <2>4. None # GrandFinal(0)
    BY GrandFinals
  <2> QED
    BY <2>1, <2>3, <2>4 DEF Linked
<1>6. x \in V
  BY <1>5
<1>7. V \in SUBSET DOMAIN M /\ \A z \in V : z = E \/ M[z].next \in V
  BY <1>4
<1> HIDE DEF V
<1>8. Leads(M, x, E)
  <2> HIDE DEF E
  <2> QED
    BY <1>1, <1>2, <1>6, <1>7, AllLead
<1>9. Settled(M, E)
  BY <1>1, <1>2 DEF Flow, Ordered
<1>10. Quiet(M, x)
  BY <1>8, <1>9 DEF Settled
<1>11. rank[x] <= rank[E]
  BY <1>1, <1>2, <1>8, LeadsUp
<1>12. x # E => M[x].next \in DOMAIN M
  <2> HIDE DEF E
  <2> QED
    BY <1>1, <1>5
<1> QED
  BY <1>10, <1>11, <1>12

\* Everybody who is not out there came down from somewhere: a contestant
\* comes to the losers' bracket by losing.
LEMMA FallsFrom ==
  ASSUME NEW f, NEW M, NEW rank, NEW list, NEW P, Whole(f, M, rank, list, P),
         NEW x \in DOMAIN M, NEW k \in DOMAIN M, NEW c, Gives(M, x, k, c), M[x].next # k
  PROVE  Beaten(M, c, x)
<1>1. M \in Brackets /\ Decided(M[x])
  BY WholeParts
<1>2. PICK e \in M[x].entries : e.who = c /\ M[x].confirmed /\ e.score = 0
  BY DEF Gives
<1>3. None # 0 /\ 0 # 1
  BY NoneApart
<1>4. ~\E d \in M[x].entries : M[x].entries = {d} /\ d.score = None
  BY <1>2, <1>3
<1>5. PICK d, g : M[x].entries = {d, g} /\ d.score = 1 /\ g.score = 0
  BY <1>1, <1>2, <1>4 DEF Decided
<1>6. e = g
  BY <1>2, <1>3, <1>5
<1> QED
  BY <1>2, <1>5, <1>6 DEF Beaten

\* Nobody is missing in the winners' bracket: every match of it has somebody.
LEMMA UpperFilled ==
  ASSUME NEW f, NEW M, NEW rank, NEW list, NEW P, Played(f, M, rank, list, P),
         NEW y \in DOMAIN M, y[1] = "WB"
  PROVE  Standing(M, y) # {}
<1> DEFINE p == Rounds(list)
           V == {x \in DOMAIN M : x[1] = "WB" /\ Standing(M, x) = {}}
           T == {x[2] : x \in V}
<1>1. /\ Whole(f, M, rank, list, P) /\ f.mode = "DE" /\ f.mode # "RR" /\ FirstBracket(f) = "WB"
      /\ list \in Seq(P) /\ Len(list) >= 2 /\ p \in Nat \ {0}
      /\ FirstRound(M, list, "WB")
  BY FirstRoundStands DEF Played, FirstBracket
<1>2. \A x \in DOMAIN M : x[1] = "WB" => x[2] \in 0..(p - 1)
  BY <1>1, UpperForm DEF Upper
<1> SUFFICES ASSUME V # {} PROVE FALSE
  OBVIOUS
<1>3. T \in SUBSET Nat /\ T # {}
  BY <1>1, <1>2
<1>4. PICK n \in T : \A k \in T : n <= k
  BY <1>3, Least
<1>5. PICK x \in V : n = x[2]
  BY <1>4
<1>6. /\ x \in DOMAIN M /\ x[1] = "WB" /\ x = <<"WB", x[2], x[3]>>
      /\ x[2] \in 0..(p - 1) /\ x[3] \in 0..(Pow2[p - 1 - x[2]] - 1)
      /\ Standing(M, x) = {}
  <2>1. x \in DOMAIN M /\ x[1] = "WB" /\ Standing(M, x) = {}
    BY <1>5
  <2>2. Upper(M, list, x)
    BY <1>1, <2>1, UpperForm
  <2> QED
    BY <2>1, <2>2 DEF Upper
<1> DEFINE r == x[2]
           m == x[3]
<1>7. ASSUME r = 0 PROVE FALSE
  <2>1. m \in 0..(Pow2[p - 1] - 1)
    <3>1. p - 1 - 0 = p - 1
      BY <1>1
    <3> QED
      BY <1>6, <1>7, <3>1
  <2>2. x = <<"WB", 0, m>>
    BY <1>6, <1>7
  <2>3. Standing(M, <<"WB", 0, m>>) = Placed(list, m)
    BY <1>1, <2>1 DEF FirstRound, Standing
  <2>4. Placed(list, m) # {}
    <3> DEFINE low == SeedOrder[p - 1][m + 1]
               high == Pow2[p] - 1 - low
    <3>1. /\ low < Len(list)
          /\ Placed(list, m) = {list[s + 1] : s \in {z \in {low, high} : z < Len(list)}}
      BY <1>1, <2>1, PlacedPair
    <3> HIDE DEF low, high
    <3>2. list[low + 1] \in Placed(list, m)
      BY <3>1
    <3> QED
      BY <3>2
  <2> HIDE DEF m
  <2> QED
    BY <1>6, <2>2, <2>3, <2>4
<1>8. ASSUME r # 0 PROVE FALSE
  <2>1. r \in Nat /\ r >= 1 /\ r - 1 \in 0..(p - 1) /\ r - 1 < p - 1 /\ m \in Nat
    BY <1>1, <1>6, <1>8
  <2>2. 2 * m \in 0..(Pow2[p - 1 - (r - 1)] - 1) /\ (2 * m) \div 2 = m /\ (r - 1) + 1 = r
    <3>1. p - 1 - r \in Nat /\ p - 1 - (r - 1) = (p - 1 - r) + 1
      BY <1>1, <1>6, <2>1
    <3>2. Pow2[p - 1 - (r - 1)] = 2 * Pow2[p - 1 - r] /\ Pow2[p - 1 - r] \in Nat
      BY <3>1, Pow2Type
    <3>3. m <= Pow2[p - 1 - r] - 1
      BY <1>6, <3>2
    <3> QED
      BY <2>1, <3>2, <3>3
  <2> DEFINE z == <<"WB", r - 1, 2 * m>>
  <2>3. z \in DOMAIN M
    BY <1>1, <2>1, <2>2, DoubleLinked
  <2>4. M[z].next = IF r - 1 < p - 1 THEN <<"WB", (r - 1) + 1, (2 * m) \div 2>> ELSE GrandFinal(0)
    <3>1. z[1] = "WB" /\ z[2] = r - 1 /\ z[3] = 2 * m
      OBVIOUS
    <3>2. M[z].next = IF z[2] < p - 1 THEN <<"WB", z[2] + 1, z[3] \div 2>> ELSE GrandFinal(0)
      <4> HIDE DEF z
      <4>1. Upper(M, list, z)
        BY <1>1, <2>3, <3>1, UpperForm
      <4> QED
        BY <4>1 DEF Upper
    <3> QED
      BY <3>1, <3>2
  <2>5. M[z].next = x
    BY <1>6, <2>1, <2>2, <2>4
  <2>6. z[1] = "WB" /\ z[2] = r - 1
    OBVIOUS
  <2> HIDE DEF z
  <2>7. Standing(M, z) # {}
    <3> SUFFICES ASSUME Standing(M, z) = {} PROVE FALSE
      OBVIOUS
    <3>1. z \in V
      BY <2>3, <2>6
    <3>2. r - 1 \in T
      BY <2>6, <3>1
    <3>3. n <= r - 1
      BY <1>4, <3>2
    <3> QED
      BY <1>5, <2>1, <3>3
  <2>8. z # GrandFinal(1)
    BY <2>6 DEF GrandFinal
  <2>9. Quiet(M, z)
    BY <2>3, <2>7, <2>8, NothingOpen
  <2>10. None \notin DOMAIN M
    BY <1>1, WholeParts
  <2>11. Standing(M, x) # {}
    BY <1>1, <1>6, <2>3, <2>5, <2>7, <2>9, <2>10, SendsOn
  <2> QED
    BY <1>6, <2>11
<1> QED
  BY <1>7, <1>8

\* Two matches that send somebody to a third send two contestants there, who
\* meet in it.
LEMMA TwoMeet ==
  ASSUME NEW f, NEW M, NEW rank, NEW list, NEW P, Whole(f, M, rank, list, P),
         NEW k \in DOMAIN M, Quiet(M, k), NEW x \in DOMAIN M, NEW y \in DOMAIN M, x # y,
         NEW a \in Standing(M, k), NEW b \in Standing(M, k), Gives(M, x, k, a), Gives(M, y, k, b)
  PROVE  /\ a # b /\ M[k].confirmed /\ Standing(M, k) = {a, b}
         /\ Takes(M[k]) = Winner(M[k].entries) /\ Winner(M[k].entries) \in {a, b}
         /\ \E c : Beaten(M, c, k)
<1>1. M \in Brackets /\ Flow(f, M, rank) /\ Decided(M[k]) /\ f.mode # "RR"
  BY WholeParts
<1>2. a # b
  BY <1>1, GivenByOne
<1>3. PICK d, e \in M[k].entries : d.who = a /\ e.who = b
  BY DEF Standing, Entrants
<1>4. d # e
  BY <1>2, <1>3
<1>5. M[k].confirmed
  BY <1>4 DEF Quiet, Passing
<1>6. ~\E g : M[k].entries = {g}
  BY <1>4
<1>7. PICK g, h : M[k].entries = {g, h} /\ g.score = 1 /\ h.score = 0
  BY <1>1, <1>5, <1>6 DEF Decided
<1>8. Standing(M, k) = {g.who, h.who}
  BY <1>7 DEF Standing, Entrants
<1>9. Standing(M, k) = {a, b}
  BY <1>2, <1>8
<1>10. M[k].entries \in Rows
  BY <1>1, MatchType
<1>11. Winner(M[k].entries) = g.who
  BY <1>7, <1>10, DecidedRows
<1>12. Takes(M[k]) = g.who
  BY <1>7, <1>10, TakenByScore
<1>13. Beaten(M, h.who, k)
  BY <1>5, <1>7 DEF Beaten
<1> QED
  BY <1>2, <1>5, <1>8, <1>9, <1>11, <1>12, <1>13

\* What is said of a match by its bracket, once the first grand final is
\* decided.
LEMMA PlayedParts ==
  ASSUME NEW f, NEW M, NEW rank, NEW list, NEW P, Played(f, M, rank, list, P)
  PROVE  /\ Whole(f, M, rank, list, P) /\ f.mode = "DE" /\ f.mode # "RR"
         /\ M \in Brackets /\ Flow(f, M, rank) /\ Layout(f, M, rank) /\ Finals(f, M)
         /\ rank \in [Ids -> Nat]
         /\ \A x \in DOMAIN M : x \in Ids /\ rank[x] \in Nat /\ Linked(M, list, x)
         /\ None \notin DOMAIN M
         /\ GrandFinal(0) \in DOMAIN M /\ M[GrandFinal(0)].confirmed
         /\ GrandFinal(0) # GrandFinal(1)
         /\ GrandFinal(0)[1] = "GF" /\ GrandFinal(1)[1] = "GF"
<1>1. /\ Whole(f, M, rank, list, P) /\ f.mode = "DE"
      /\ GrandFinal(0) \in DOMAIN M /\ M[GrandFinal(0)].confirmed
  BY DEF Played
<1>2. /\ M \in Brackets /\ Flow(f, M, rank) /\ Layout(f, M, rank) /\ Finals(f, M)
      /\ rank \in [Ids -> Nat] /\ None \notin DOMAIN M
      /\ \A x \in DOMAIN M : x \in Ids /\ rank[x] \in Nat
  BY <1>1, WholeParts
<1>3. \A x \in DOMAIN M : Linked(M, list, x)
  BY <1>1, DoubleLinked
<1>4. GrandFinal(0)[1] = "GF" /\ GrandFinal(1)[1] = "GF"
  BY DEF GrandFinal
<1> QED
  BY <1>1, <1>2, <1>3, <1>4, GrandFinals

\* Whoever loses in the winners' bracket goes to the losers' bracket.
LEMMA UpperLoser ==
  ASSUME NEW f, NEW M, NEW rank, NEW list, NEW P, Played(f, M, rank, list, P),
         NEW x \in DOMAIN M, x[1] = "WB", NEW c, Beaten(M, c, x)
  PROVE  /\ M[x].loserNext \in DOMAIN M /\ M[x].loserNext[1] = "LB"
         /\ Gives(M, x, M[x].loserNext, c) /\ c \in Standing(M, M[x].loserNext)
<1> DEFINE p == Rounds(list)
<1>1. /\ Whole(f, M, rank, list, P) /\ f.mode = "DE" /\ M \in Brackets /\ Flow(f, M, rank)
      /\ Linked(M, list, x)
  BY PlayedParts
<1>2. /\ list \in Seq(P) /\ Len(list) >= 2 /\ p \in Nat \ {0} /\ FirstRound(M, list, "WB")
  BY <1>1, FirstRoundStands DEF FirstBracket
<1>3. M[x].loserNext # None
  <2> SUFFICES ASSUME M[x].loserNext = None PROVE FALSE
    OBVIOUS
  <2> DEFINE m == x[3]
  <2>1. /\ x = <<"WB", x[2], x[3]>> /\ x[2] \in 0..(p - 1) /\ m \in 0..(Pow2[p - 1 - x[2]] - 1)
        /\ LoserTarget(list, x[2], m) = None
    <3>1. /\ x = <<"WB", x[2], x[3]>> /\ x[2] \in 0..(Rounds(list) - 1)
          /\ x[3] \in 0..(Pow2[Rounds(list) - 1 - x[2]] - 1)
          /\ M[x].loserNext = LoserTarget(list, x[2], x[3])
      <4>1. Upper(M, list, x)
        BY <1>1, UpperForm
      <4> QED
        BY <4>1 DEF Upper
    <3> QED
      BY <3>1
  <2>2. x[2] = 0 /\ Alone(list, m)
    <3> DEFINE round == IF x[2] = 0 THEN 1 ELSE 2 * x[2]
               order == m % LowerCount(p, round)
    <3>1. ~(x[2] = 0 /\ Alone(list, m)) => <<"LB", round, order>> = None
      BY <2>1 DEF LoserTarget
    <3>2. <<"LB", round, order>> # None
      <4>1. round \in 1..(2 * (p - 1)) \/ p = 1
        BY <1>2, <2>1
      <4>2. p >= 2
        BY <1>1, <1>2, FirstRoundStands, RoundsType
      <4>3. LowerCount(p, round) \in Nat \ {0}
        <5>1. p \in Nat /\ round \in 1..(2 * (p - 1))
          BY <1>2, <4>1, <4>2
        <5> HIDE DEF p, round
        <5>2. \A r \in 1..(2 * (p - 1)) : LowerCount(p, r) \in Nat \ {0}
          BY <4>2, <5>1, LowerForm
        <5> QED
          BY <5>1, <5>2
      <4>4. m \in Nat
        BY <2>1
      <4> HIDE DEF m
      <4>5. round \in Nat /\ order \in Nat
        BY <1>2, <4>1, <4>2, <4>3, <4>4
      <4> HIDE DEF round, order
      <4>6. <<"LB", round, order>> \in Ids
        BY <4>5 DEF Ids
      <4> QED
        BY <4>6, GrandFinals
    <3> QED
      BY <3>1, <3>2
  <2>3. m \in 0..(Pow2[p - 1] - 1)
    <3>1. p - 1 - 0 = p - 1
      BY <1>2
    <3> QED
      BY <2>1, <2>2, <3>1
  <2>4. Standing(M, x) = Placed(list, m)
    <3>1. Standing(M, <<"WB", 0, m>>) = Placed(list, m)
      BY <1>2, <2>3 DEF FirstRound, Standing
    <3> QED
      BY <2>1, <2>2, <3>1
  <2>5. PICK w : Placed(list, m) = {w}
    <3>1. \A k \in 0..(Pow2[p - 1] - 1) : Alone(list, k) <=> \E w : Placed(list, k) = {w}
      BY <1>2, StartersForm
    <3> HIDE DEF m
    <3> QED
      BY <2>2, <2>3, <3>1
  <2>6. PICK d, e : M[x].entries = {d, e} /\ d.score = 1 /\ e.score = 0
    BY DEF Beaten
  <2>7. d.who = w /\ e.who = w
    BY <2>4, <2>5, <2>6 DEF Standing, Entrants
  <2>8. d = e
    BY <1>1, <2>6, <2>7 DEF Flow, Pairs
  <2> QED
    BY <2>6, <2>8
<1>4. M[x].loserNext[1] = "LB"
  <2>1. x # GrandFinal(0) /\ x # GrandFinal(1)
    BY DEF GrandFinal
  <2> QED
    BY <1>1, <1>3, <2>1 DEF Linked
<1>5. M[x].loserNext \in DOMAIN M
  BY <1>1, <1>3, BracketParts
<1> QED
  BY <1>1, <1>3, <1>4, <1>5, FallsOn

\* Where a contestant's way through the winners' bracket ends.
LEMMA UpperLast ==
  ASSUME NEW f, NEW M, NEW rank, NEW list, NEW P, Played(f, M, rank, list, P), NEW c \in P
  PROVE  \E y \in DOMAIN M :
           /\ y[1] = "WB" /\ c \in Standing(M, y)
           /\ \/ Beaten(M, c, y)
              \/ y = UpperFinal(list) /\ Gives(M, y, GrandFinal(0), c) /\ c \in Standing(M, GrandFinal(0))
<1> DEFINE V == {y \in DOMAIN M : y[1] = "WB" /\ c \in Standing(M, y)}
<1>1. /\ Whole(f, M, rank, list, P) /\ f.mode = "DE" /\ M \in Brackets /\ Layout(f, M, rank)
      /\ rank \in [Ids -> Nat] /\ None \notin DOMAIN M /\ GrandFinal(1)[1] = "GF" /\ GrandFinal(0)[1] = "GF"
      /\ \A z \in DOMAIN M : z \in Ids /\ rank[z] \in Nat /\ Linked(M, list, z)
  BY PlayedParts
<1>2. V \in SUBSET DOMAIN M /\ V # {}
  BY <1>1, EverybodyStarts DEF FirstBracket
<1> HIDE DEF V
<1>3. PICK y \in V : \A v \in V : rank[v] <= rank[y]
  BY <1>1, <1>2, LastMatch
<1>4. y \in DOMAIN M /\ y[1] = "WB" /\ c \in Standing(M, y) /\ y # GrandFinal(1) /\ y # GrandFinal(0)
  BY <1>1, <1>3 DEF V
<1>5. Quiet(M, y) /\ M[y].next \in DOMAIN M /\ M[y].next # None
  BY <1>1, <1>4, NothingOpen
<1>6. \/ Gives(M, y, M[y].next, c) /\ c \in Standing(M, M[y].next)
      \/ Beaten(M, c, y)
  BY <1>1, <1>4, <1>5, GoesOn
<1>7. ASSUME M[y].next # GrandFinal(0), c \in Standing(M, M[y].next) PROVE FALSE
  <2>1. M[y].next[1] = "WB"
    BY <1>1, <1>4, <1>7 DEF Linked
  <2>2. M[y].next \in V
    BY <1>5, <1>7, <2>1 DEF V
  <2>3. rank[y] < rank[M[y].next]
    BY <1>1, <1>4, <1>5 DEF Layout
  <2>4. rank[M[y].next] <= rank[y]
    BY <1>3, <2>2
  <2> QED
    BY <1>1, <1>4, <1>5, <2>3, <2>4
<1>8. M[y].next = GrandFinal(0) => y = UpperFinal(list)
  <2>1. Upper(M, list, y)
    BY <1>1, <1>4, UpperForm
  <2>2. y # UpperFinal(list) => M[y].next # GrandFinal(0)
    BY <2>1 DEF Upper
  <2> QED
    BY <2>2
<1> QED
  BY <1>4, <1>6, <1>7, <1>8

\* Where a contestant's way through the losers' bracket ends.
LEMMA LowerLast ==
  ASSUME NEW f, NEW M, NEW rank, NEW list, NEW P, Played(f, M, rank, list, P),
         NEW x \in DOMAIN M, x[1] = "LB", NEW c \in Standing(M, x)
  PROVE  \E y \in DOMAIN M :
           /\ y[1] = "LB" /\ c \in Standing(M, y)
           /\ \/ Beaten(M, c, y)
              \/ y = LowerFinal(list) /\ Gives(M, y, GrandFinal(0), c) /\ c \in Standing(M, GrandFinal(0))
<1> DEFINE V == {y \in DOMAIN M : y[1] = "LB" /\ c \in Standing(M, y)}
<1>1. /\ Whole(f, M, rank, list, P) /\ f.mode = "DE" /\ M \in Brackets /\ Layout(f, M, rank)
      /\ rank \in [Ids -> Nat] /\ None \notin DOMAIN M /\ GrandFinal(1)[1] = "GF" /\ GrandFinal(0)[1] = "GF"
      /\ \A z \in DOMAIN M : z \in Ids /\ rank[z] \in Nat /\ Linked(M, list, z)
  BY PlayedParts
<1>2. V \in SUBSET DOMAIN M /\ V # {}
  OBVIOUS
<1> HIDE DEF V
<1>3. PICK y \in V : \A v \in V : rank[v] <= rank[y]
  BY <1>1, <1>2, LastMatch
<1>4. y \in DOMAIN M /\ y[1] = "LB" /\ c \in Standing(M, y) /\ y # GrandFinal(1) /\ y # GrandFinal(0)
  BY <1>1, <1>3 DEF V
<1>5. Quiet(M, y) /\ M[y].next \in DOMAIN M /\ M[y].next # None
  BY <1>1, <1>4, NothingOpen
<1>6. \/ Gives(M, y, M[y].next, c) /\ c \in Standing(M, M[y].next)
      \/ Beaten(M, c, y)
  BY <1>1, <1>4, <1>5, GoesOn
<1>7. ASSUME M[y].next # GrandFinal(0), c \in Standing(M, M[y].next) PROVE FALSE
  <2>1. M[y].next[1] = "LB"
    BY <1>1, <1>4, <1>5, <1>7 DEF Linked
  <2>2. M[y].next \in V
    BY <1>5, <1>7, <2>1 DEF V
  <2>3. rank[y] < rank[M[y].next]
    BY <1>1, <1>4, <1>5 DEF Layout
  <2>4. rank[M[y].next] <= rank[y]
    BY <1>3, <2>2
  <2> QED
    BY <1>1, <1>4, <1>5, <2>3, <2>4
<1>8. M[y].next = GrandFinal(0) => y = LowerFinal(list)
  BY <1>1, <1>4 DEF Linked
<1> QED
  BY <1>4, <1>6, <1>7, <1>8

\* Whoever is in the losers' bracket has lost in the winners' bracket.
LEMMA FellFrom ==
  ASSUME NEW f, NEW M, NEW rank, NEW list, NEW P, Played(f, M, rank, list, P),
         NEW x \in DOMAIN M, x[1] = "LB", NEW c \in Standing(M, x)
  PROVE  \E y \in DOMAIN M : y[1] = "WB" /\ Beaten(M, c, y)
<1> DEFINE T == {rank[y] : y \in {z \in DOMAIN M : z[1] = "LB" /\ c \in Standing(M, z)}}
<1>1. /\ Whole(f, M, rank, list, P) /\ f.mode = "DE" /\ M \in Brackets /\ Flow(f, M, rank)
      /\ Layout(f, M, rank) /\ None \notin DOMAIN M
      /\ GrandFinal(1)[1] = "GF" /\ GrandFinal(0)[1] = "GF"
      /\ \A z \in DOMAIN M : z \in Ids /\ rank[z] \in Nat /\ Linked(M, list, z)
  BY PlayedParts
<1>2. T \in SUBSET Nat /\ T # {}
  BY <1>1
<1>3. PICK n \in T : \A k \in T : n <= k
  BY <1>2, Least
<1>4. PICK y \in DOMAIN M : y[1] = "LB" /\ c \in Standing(M, y) /\ n = rank[y]
  BY <1>3
<1>5. y \notin Starting
  BY <1>4 DEF Starting
<1>6. PICK z \in DOMAIN M : Gives(M, z, y, c)
  BY <1>1, <1>4, <1>5 DEF Flow, Earned
<1>7. c \in Standing(M, z) /\ z \in Feeders(M, y) /\ (M[z].next = y \/ M[z].loserNext = y)
  BY <1>4, <1>6, GivesForm
<1>8. rank[z] < rank[y] /\ y # None
  BY <1>1, <1>4, <1>7 DEF Layout
<1>9. z[1] # "LB"
  <2> SUFFICES ASSUME z[1] = "LB" PROVE FALSE
    OBVIOUS
  <2>1. rank[z] \in T
    BY <1>7
  <2>2. n <= rank[z]
    BY <1>3, <2>1
  <2> QED
    BY <1>1, <1>4, <1>8, <2>2
<1>10. z[1] = "WB" /\ M[z].next # y
  BY <1>1, <1>4, <1>7, <1>8, <1>9 DEF Linked
<1>11. Beaten(M, c, z)
  BY <1>1, <1>4, <1>6, <1>10, FallsFrom
<1> QED
  BY <1>10, <1>11

\* Nobody plays in the winners' bracket after a loss there ...
LEMMA UpperOnce ==
  ASSUME NEW f, NEW M, NEW rank, NEW list, NEW P, Played(f, M, rank, list, P),
         NEW x \in DOMAIN M, x[1] = "WB", NEW c, Beaten(M, c, x),
         NEW y \in DOMAIN M, y[1] = "WB", c \in Standing(M, y), rank[x] <= rank[y]
  PROVE  y = x
<1> SUFFICES ASSUME y # x PROVE FALSE
  OBVIOUS
<1>1. /\ Whole(f, M, rank, list, P) /\ f.mode # "RR" /\ M \in Brackets /\ Flow(f, M, rank)
      /\ None \notin DOMAIN M /\ GrandFinal(1)[1] = "GF" /\ GrandFinal(0)[1] = "GF"
      /\ \A z \in DOMAIN M : z \in Ids /\ rank[z] \in Nat /\ Linked(M, list, z)
  BY PlayedParts
<1> DEFINE S == {z \in DOMAIN M : z[1] # "WB"}
<1>2. c \in Standing(M, x) \cap Standing(M, y)
  BY <1>1, FallsOn
<1>3. PICK k \in DOMAIN M : Gives(M, x, k, c) /\ c \in Standing(M, k) /\ rank[k] <= rank[y]
  BY <1>1, <1>2, Path
<1>4. M[x].loserNext = k
  BY <1>1, <1>3, BeatenGives
<1>5. k[1] = "LB"
  BY <1>1, <1>4 DEF Linked
<1>6. S \in SUBSET DOMAIN M /\ \A z \in S : {M[z].next, M[z].loserNext} \subseteq S \cup {None}
  <2> SUFFICES ASSUME NEW z \in S PROVE {M[z].next, M[z].loserNext} \subseteq S \cup {None}
    OBVIOUS
  <2>1. M[z].next \in DOMAIN M \cup {None} /\ M[z].loserNext \in DOMAIN M \cup {None}
    BY <1>1, BracketParts
  <2>2. Linked(M, list, z) /\ z[1] # "WB"
    BY <1>1
  <2>3. M[z].next = None \/ M[z].next[1] # "WB"
    BY <1>1, <2>2 DEF Linked
  <2>4. M[z].loserNext = None
    BY <2>2 DEF Linked
  <2> QED
    BY <2>1, <2>3, <2>4
<1>7. k \in S /\ c \in Standing(M, k) \cap Standing(M, y)
  BY <1>2, <1>3, <1>5
<1> HIDE DEF S
<1>8. y \in S
  BY <1>1, <1>3, <1>6, <1>7, NoWayBack
<1> QED
  BY <1>8 DEF S

\* ... and nowhere after a loss in the losers' bracket.
LEMMA LowerOut ==
  ASSUME NEW f, NEW M, NEW rank, NEW list, NEW P, Played(f, M, rank, list, P),
         NEW x \in DOMAIN M, x[1] = "LB", NEW c, Beaten(M, c, x),
         NEW y \in DOMAIN M, c \in Standing(M, y), rank[x] <= rank[y]
  PROVE  y = x
<1> SUFFICES ASSUME y # x PROVE FALSE
  OBVIOUS
<1>1. /\ Whole(f, M, rank, list, P) /\ f.mode # "RR" /\ M \in Brackets /\ Flow(f, M, rank)
      /\ None \notin DOMAIN M /\ GrandFinal(1)[1] = "GF" /\ GrandFinal(0)[1] = "GF"
      /\ \A z \in DOMAIN M : z \in Ids /\ rank[z] \in Nat /\ Linked(M, list, z)
  BY PlayedParts
<1>2. c \in Standing(M, x) \cap Standing(M, y)
  BY <1>1, FallsOn
<1>3. PICK k \in DOMAIN M : Gives(M, x, k, c)
  BY <1>1, <1>2, Path
<1>4. M[x].loserNext = k
  BY <1>1, <1>3, BeatenGives
<1> QED
  BY <1>1, <1>4 DEF Linked

\* Of the two contestants of a match, it is the winner who goes on.
LEMMA WinnerGiven ==
  ASSUME NEW f, NEW M, NEW rank, NEW list, NEW P, Whole(f, M, rank, list, P),
         NEW x \in DOMAIN M, NEW k, M[x].next = k, M[x].loserNext # k, k # GrandFinal(1),
         NEW c, Gives(M, x, k, c), NEW b, Beaten(M, b, x)
  PROVE  c = Winner(M[x].entries) /\ c # b
<1>1. M \in Brackets /\ Flow(f, M, rank)
  BY WholeParts
<1>2. M[x].entries \in Rows
  BY <1>1, MatchType
<1>3. PICK d, g : M[x].entries = {d, g} /\ d.score = 1 /\ g.score = 0 /\ g.who = b
  BY DEF Beaten
<1>4. d # g
  BY <1>3
<1>5. PICK e \in M[x].entries : e.who = c /\ (M[x].entries = {e} \/ e.score = 1)
  BY DEF Gives
<1>6. e = d
  BY <1>3, <1>4, <1>5
<1>7. Winner(M[x].entries) = d.who
  BY <1>2, <1>3, DecidedRows
<1>8. d.who # g.who
  BY <1>1, <1>3, <1>4 DEF Flow, Pairs
<1> QED
  BY <1>3, <1>5, <1>6, <1>7, <1>8
UpperDone(M, list, last) ==
  /\ last \in DOMAIN M /\ last[1] = "WB" /\ Quiet(M, last)
  /\ M[last].next = GrandFinal(0) /\ M[last].loserNext = LowerFinal(list)
  /\ \E a, b : Standing(M, last) = {a, b}
  /\ \E d : Beaten(M, d, last)

\* The final of the winners' bracket had two contestants, of whom one went
\* on to that of the losers' bracket.
LEMMA UpperFinalPlayed ==
  ASSUME NEW f, NEW M, NEW rank, NEW list, NEW P, Played(f, M, rank, list, P)
  PROVE  UpperDone(M, list, UpperFinal(list))
<1> DEFINE p == Rounds(list)
           last == UpperFinal(list)
           left == <<"WB", p - 2, 0>>
           right == <<"WB", p - 2, 1>>
<1>1. /\ Whole(f, M, rank, list, P) /\ f.mode = "DE" /\ None \notin DOMAIN M
      /\ GrandFinal(1)[1] = "GF" /\ GrandFinal(0)[1] = "GF"
  BY PlayedParts
<1>2. p \in Nat /\ p >= 2
  BY <1>1, FirstRoundStands, RoundsType
<1>3. p - 1 \in 0..(p - 1) /\ p - 2 \in 0..(p - 1) /\ p - 2 < p - 1 /\ (p - 2) + 1 = p - 1
      /\ p - 1 - (p - 1) = 0 /\ p - 1 - (p - 2) = 1
  BY <1>2
<1>4. Pow2[0] = 1 /\ Pow2[1] = 2
  <2>1. Pow2[0 + 1] = 2 * Pow2[0]
    BY Pow2Type
  <2> QED
    BY <2>1, Pow2Type
<1>5. 0 \in 0..(Pow2[p - 1 - (p - 1)] - 1) /\ 0 \in 0..(Pow2[p - 1 - (p - 2)] - 1)
      /\ 1 \in 0..(Pow2[p - 1 - (p - 2)] - 1)
  BY <1>3, <1>4
<1>6. /\ last \in DOMAIN M /\ left \in DOMAIN M /\ right \in DOMAIN M
      /\ last[1] = "WB" /\ left[1] = "WB" /\ right[1] = "WB"
      /\ left[2] = p - 2 /\ right[2] = p - 2 /\ left[3] = 0 /\ right[3] = 1 /\ left # right
      /\ last[2] = p - 1 /\ last[3] = 0
  <2>1. last \in DOMAIN M
    BY <1>1, <1>3, <1>5, DoubleLinked DEF UpperFinal
  <2>2. left \in DOMAIN M
    BY <1>1, <1>3, <1>5, DoubleLinked
  <2>3. right \in DOMAIN M
    BY <1>1, <1>3, <1>5, DoubleLinked
  <2> QED
    BY <2>1, <2>2, <2>3 DEF UpperFinal
<1>7. Upper(M, list, last) /\ Upper(M, list, left) /\ Upper(M, list, right)
  <2> HIDE DEF last, left, right
  <2> QED
    BY <1>1, <1>6, UpperForm
<1>8. M[left].next = last /\ M[right].next = last
  <2>1. M[left].next = <<"WB", (p - 2) + 1, 0 \div 2>> /\ M[right].next = <<"WB", (p - 2) + 1, 1 \div 2>>
    <3> HIDE DEF last, left, right
    <3> QED
      BY <1>3, <1>6, <1>7 DEF Upper
  <2>2. 0 \div 2 = 0 /\ 1 \div 2 = 0
    OBVIOUS
  <2> QED
    BY <1>3, <2>1, <2>2 DEF UpperFinal
<1>9. M[last].next = GrandFinal(0)
  <2> HIDE DEF last
  <2> QED
    BY <1>2, <1>6, <1>7 DEF Upper
<1>10. M[last].loserNext = LowerFinal(list)
  <2>1. M[last].loserNext = LoserTarget(list, p - 1, 0)
    <3> HIDE DEF last
    <3> QED
      BY <1>6, <1>7 DEF Upper
  <2>2. p - 1 # 0 /\ p - 1 \in 1..(p - 1)
    BY <1>2
  <2>3. LowerCount(p, 2 * (p - 1)) = 1
    BY <1>2, <1>3, <1>4, <2>2, LowerCounts
  <2>4. 0 % 1 = 0
    OBVIOUS
  <2> QED
    BY <2>1, <2>2, <2>3, <2>4 DEF LoserTarget, LowerFinal
<1>11. last # GrandFinal(1) /\ left # GrandFinal(1) /\ right # GrandFinal(1)
  BY <1>1, <1>6
<1> HIDE DEF p, last, left, right
<1>12. Standing(M, left) # {} /\ Standing(M, right) # {} /\ Standing(M, last) # {}
  BY <1>6, UpperFilled
<1>13. Quiet(M, left) /\ Quiet(M, right) /\ Quiet(M, last)
  BY <1>6, <1>11, <1>12, NothingOpen
<1>14. last # None
  BY <1>1, <1>6
<1>15. PICK a : Gives(M, left, last, a) /\ a \in Standing(M, last)
  BY <1>1, <1>6, <1>8, <1>12, <1>13, <1>14, SendsOn
<1>16. PICK b : Gives(M, right, last, b) /\ b \in Standing(M, last)
  BY <1>1, <1>6, <1>8, <1>12, <1>13, <1>14, SendsOn
<1>17. Standing(M, last) = {a, b} /\ \E d : Beaten(M, d, last)
  BY <1>1, <1>6, <1>13, <1>15, <1>16, TwoMeet
<1> QED
  BY <1>6, <1>9, <1>10, <1>13, <1>17 DEF last, UpperDone

\* The final of the losers' bracket had two contestants too: whoever comes
\* down from the final of the winners' bracket met somebody there.
LEMMA LowerFinalPlayed ==
  ASSUME NEW f, NEW M, NEW rank, NEW list, NEW P, Played(f, M, rank, list, P)
  PROVE  LET last == LowerFinal(list)
         IN  /\ last \in DOMAIN M /\ last[1] = "LB" /\ M[last].confirmed
             /\ M[last].next = GrandFinal(0) /\ M[last].loserNext = None
             /\ \E d : Beaten(M, d, last)
<1> DEFINE last == LowerFinal(list)
           top == UpperFinal(list)
<1>1. /\ Whole(f, M, rank, list, P) /\ f.mode = "DE" /\ M \in Brackets /\ Layout(f, M, rank)
      /\ rank \in [Ids -> Nat] /\ None \notin DOMAIN M
      /\ GrandFinal(1)[1] = "GF" /\ GrandFinal(0)[1] = "GF"
      /\ \A z \in DOMAIN M : z \in Ids /\ rank[z] \in Nat /\ Linked(M, list, z)
  BY PlayedParts
<1>2. last \in DOMAIN M /\ last[1] = "LB" /\ M[last].next = GrandFinal(0)
  BY <1>1, DoubleLinked DEF LowerFinal
<1>3. M[last].loserNext = None
  BY <1>1, <1>2 DEF Linked
<1>4. /\ top \in DOMAIN M /\ top[1] = "WB" /\ M[top].loserNext = last
      /\ (\E a, b : Standing(M, top) = {a, b})
      /\ (\E d : Beaten(M, d, top))
  <2>1. UpperDone(M, list, top)
    BY UpperFinalPlayed
  <2> HIDE DEF top
  <2> QED
    BY <2>1 DEF UpperDone
<1> HIDE DEF last, top
<1>5. PICK d : Beaten(M, d, top)
  BY <1>4
<1>6. Gives(M, top, last, d) /\ d \in Standing(M, last)
  BY <1>4, <1>5, UpperLoser
<1>7. PICK c \in P : c \notin Standing(M, top)
  <2>1. PICK a, b : Standing(M, top) = {a, b}
    BY <1>4
  <2>2. Drafted(f, list, P)
    BY <1>1 DEF Whole
  <2>3. Cardinality(P) = Len(list) /\ Len(list) >= 4
    BY <1>1, <2>2 DEF Drafted
  <2>4. Cardinality({a, b}) <= 2 /\ IsFiniteSet({a, b})
    <3>1. IsFiniteSet({a}) /\ Cardinality({a}) = 1
      BY FS_Singleton
    <3>2. IsFiniteSet({a} \cup {b}) /\ Cardinality({a} \cup {b}) <= 2
      BY <3>1, FS_AddElement
    <3>3. {a} \cup {b} = {a, b}
      OBVIOUS
    <3> QED
      BY <3>2, <3>3
  <2>5. ~(P \subseteq {a, b})
    <3> SUFFICES ASSUME P \subseteq {a, b} PROVE FALSE
      OBVIOUS
    <3>1. Cardinality(P) <= Cardinality({a, b})
      BY <2>4, FS_Subset
    <3>2. Cardinality({a, b}) \in Nat
      BY <2>4, FS_CardinalityType
    <3> QED
      BY <2>3, <2>4, <3>1, <3>2
  <2> QED
    BY <2>1, <2>5
<1>8. PICK y \in DOMAIN M : /\ y[1] = "WB" /\ c \in Standing(M, y)
                            /\ Beaten(M, c, y) \/ y = top
  BY UpperLast DEF top
<1>9. y # top /\ Beaten(M, c, y)
  BY <1>7, <1>8
<1> DEFINE low == M[y].loserNext
<1>10. low \in DOMAIN M /\ low[1] = "LB" /\ c \in Standing(M, low)
  BY <1>8, <1>9, UpperLoser
<1>11. low # last
  <2>1. Upper(M, list, y)
    BY <1>1, <1>8, UpperForm
  <2> QED
    BY <1>9, <2>1 DEF Upper, top, last
<1> DEFINE V == {z \in DOMAIN M : z[1] = "LB" /\ z # last /\ Standing(M, z) # {}}
<1>12. V \in SUBSET DOMAIN M /\ V # {}
  BY <1>10, <1>11
<1> HIDE DEF V
<1>13. PICK z \in V : \A v \in V : rank[v] <= rank[z]
  BY <1>1, <1>12, LastMatch
<1>14. z \in DOMAIN M /\ z[1] = "LB" /\ z # last /\ Standing(M, z) # {}
       /\ z # GrandFinal(0) /\ z # GrandFinal(1)
  BY <1>1, <1>13 DEF V
<1>15. Quiet(M, z) /\ M[z].next \in DOMAIN M
  BY <1>14, NothingOpen
<1>16. PICK e : Gives(M, z, M[z].next, e) /\ e \in Standing(M, M[z].next)
  BY <1>1, <1>14, <1>15, SendsOn
<1>17. M[z].next # GrandFinal(0) /\ M[z].next[1] = "LB"
  <2>1. Linked(M, list, z) /\ M[z].next # None
    BY <1>1, <1>14, <1>15
  <2>2. z # LowerFinal(list)
    BY <1>14 DEF last
  <2> QED
    BY <1>14, <2>1, <2>2 DEF Linked
<1>18. M[z].next = last
  <2> SUFFICES ASSUME M[z].next # last PROVE FALSE
    OBVIOUS
  <2>1. M[z].next \in V
    BY <1>15, <1>16, <1>17 DEF V
  <2>2. rank[z] < rank[M[z].next] /\ rank[M[z].next] <= rank[z]
    BY <1>1, <1>13, <1>14, <1>15, <2>1 DEF Layout
  <2> QED
    BY <1>1, <1>14, <1>15, <2>2
<1>19. Quiet(M, last)
  <2>1. last # GrandFinal(1)
    BY <1>1, <1>2
  <2> QED
    BY <1>2, <1>6, <2>1, NothingOpen
<1>20. top # z
  BY <1>4, <1>14
<1>21. Gives(M, z, last, e) /\ e \in Standing(M, last)
  BY <1>16, <1>18
<1>22. M[last].confirmed /\ \E g : Beaten(M, g, last)
  BY <1>1, <1>2, <1>4, <1>6, <1>14, <1>19, <1>20, <1>21, TwoMeet
<1> QED
  BY <1>2, <1>3, <1>22 DEF last

\* The grand final is between the winners of the two finals.
LEMMA FinalistsMeet ==
  ASSUME NEW f, NEW M, NEW rank, NEW list, NEW P, Played(f, M, rank, list, P)
  PROVE  LET last == LowerFinal(list)
             lower == Winner(M[last].entries)
             final == GrandFinal(0)
         IN  /\ \A c : Gives(M, last, final, c) <=> c = lower
             /\ \E a : a # lower /\ Standing(M, final) = {a, lower}
             /\ Takes(M[final]) = Winner(M[final].entries)
<1> DEFINE last == LowerFinal(list)
           lower == Winner(M[last].entries)
           final == GrandFinal(0)
           top == UpperFinal(list)
<1>1. /\ Whole(f, M, rank, list, P) /\ f.mode = "DE" /\ M \in Brackets /\ None \notin DOMAIN M
      /\ final \in DOMAIN M /\ M[final].confirmed /\ final # GrandFinal(1) /\ GrandFinal(1)[1] = "GF"
  BY PlayedParts
<1>2. /\ last \in DOMAIN M /\ last[1] = "LB" /\ M[last].confirmed
      /\ M[last].next = final /\ M[last].loserNext = None
      /\ (\E d : Beaten(M, d, last))
  BY LowerFinalPlayed
<1>3. /\ top \in DOMAIN M /\ top[1] = "WB" /\ Quiet(M, top) /\ M[top].next = final
      /\ (\E d : Beaten(M, d, top))
  BY UpperFinalPlayed DEF UpperDone
<1> HIDE DEF last, lower, final, top
<1>4. Quiet(M, last) /\ Quiet(M, final)
  BY <1>1, <1>2 DEF Quiet
<1>5. Standing(M, last) # {} /\ Standing(M, top) # {}
  BY <1>1, <1>2, <1>3, FallsOn
<1>6. final # None
  BY <1>1
<1>7. PICK a : Gives(M, top, final, a) /\ a \in Standing(M, final)
  BY <1>1, <1>3, <1>5, <1>6, SendsOn
<1>8. PICK b : Gives(M, last, final, b) /\ b \in Standing(M, final)
  BY <1>1, <1>2, <1>4, <1>5, <1>6, SendsOn
<1>9. ASSUME NEW c, Gives(M, last, final, c) PROVE c = lower
  <2>1. M[last].loserNext # final
    BY <1>1, <1>2, <1>6
  <2>2. c = Winner(M[last].entries)
    BY <1>1, <1>2, <1>9, <2>1, WinnerGiven
  <2> QED
    BY <2>2 DEF lower
<1>10. b = lower
  BY <1>8, <1>9
<1>11. top # last
  BY <1>2, <1>3
<1>12. /\ a # b /\ Standing(M, final) = {a, b}
       /\ Takes(M[final]) = Winner(M[final].entries)
  BY <1>1, <1>2, <1>3, <1>4, <1>7, <1>8, <1>11, TwoMeet
<1> QED
  BY <1>8, <1>9, <1>10, <1>12 DEF last, lower, final
-----------------------------------------------------------------------------
(* Who has been beaten in a double elimination *)

LEMMA TwoOf ==
  ASSUME NEW x, NEW y
  PROVE  /\ IsFiniteSet({x}) /\ Cardinality({x}) = 1
         /\ IsFiniteSet({x, y}) /\ (x # y => Cardinality({x, y}) = 2)
<1>1. IsFiniteSet({x}) /\ Cardinality({x}) = 1
  BY FS_Singleton
<1>2. IsFiniteSet({x} \cup {y}) /\ (y \notin {x} => Cardinality({x} \cup {y}) = 2)
  BY <1>1, FS_AddElement
<1>3. {x} \cup {y} = {x, y}
  OBVIOUS
<1> QED
  BY <1>1, <1>2, <1>3

\* The two of the grand final meet again after a reset.
LEMMA SecondSame ==
  ASSUME NEW f, NEW M, NEW rank, NEW list, NEW P, Played(f, M, rank, list, P),
         GrandFinal(1) \in DOMAIN M
  PROVE  Standing(M, GrandFinal(1)) = Standing(M, GrandFinal(0))
<1> DEFINE first == GrandFinal(0)
           second == GrandFinal(1)
<1>1. /\ Whole(f, M, rank, list, P) /\ M \in Brackets /\ Flow(f, M, rank)
      /\ first \in DOMAIN M /\ M[first].confirmed /\ first # second /\ None \notin DOMAIN M
  BY PlayedParts
<1>2. /\ M[first].next = second /\ second \notin Starting
      /\ \A x \in DOMAIN M : M[x].next = second => x = first
      /\ \A x \in DOMAIN M : M[x].loserNext # second
  BY <1>1, BracketParts, NotStarting
<1>3. ASSUME NEW c \in Standing(M, first) PROVE c \in Standing(M, second)
  <2>1. PICK e \in M[first].entries : e.who = c
    BY DEF Standing, Entrants
  <2>2. Gives(M, first, second, c)
    BY <1>2, <2>1 DEF Gives
  <2>3. c \in P /\ Carried(M, P, {})
    BY <1>1, StandersDrafted DEF Whole
  <2> QED
    BY <1>1, <2>2, <2>3 DEF Carried
<1>4. ASSUME NEW c \in Standing(M, second) PROVE c \in Standing(M, first)
  <2>1. PICK x \in DOMAIN M : Gives(M, x, second, c)
    BY <1>1, <1>2 DEF Flow, Earned
  <2>2. c \in Standing(M, x) /\ (M[x].next = second \/ M[x].loserNext = second)
    BY <2>1 DEF Gives, Standing, Entrants
  <2> QED
    BY <1>2, <2>2
<1> QED
  BY <1>3, <1>4

\* What a contestant has lost: once in each bracket unless they came to the
\* grand final ...
LEMMA OutBeaten ==
  ASSUME NEW f, NEW M, NEW rank, NEW list, NEW P, Played(f, M, rank, list, P),
         NEW c \in P, c \notin Standing(M, GrandFinal(0))
  PROVE  Cardinality(Losses(M, c)) = 2
<1>1. /\ Whole(f, M, rank, list, P) /\ rank \in [Ids -> Nat]
      /\ GrandFinal(1)[1] = "GF" /\ GrandFinal(0)[1] = "GF"
      /\ \A z \in DOMAIN M : z \in Ids /\ rank[z] \in Nat /\ Linked(M, list, z)
  BY PlayedParts
<1>2. PICK y \in DOMAIN M : y[1] = "WB" /\ Beaten(M, c, y)
  BY UpperLast
<1>3. M[y].loserNext \in DOMAIN M /\ M[y].loserNext[1] = "LB" /\ c \in Standing(M, M[y].loserNext)
  BY <1>2, UpperLoser
<1>4. PICK z \in DOMAIN M : z[1] = "LB" /\ Beaten(M, c, z)
  BY <1>3, LowerLast
<1>5. ASSUME NEW x \in Losses(M, c) PROVE x \in {y, z}
  <2>1. x \in DOMAIN M /\ Beaten(M, c, x)
    BY DEF Losses
  <2>2. c \in Standing(M, x) /\ c \in Standing(M, y) /\ c \in Standing(M, z)
    BY <1>1, <1>2, <1>4, <2>1, FallsOn
  <2>3. (rank[x] <= rank[y] \/ rank[y] <= rank[x]) /\ (rank[x] <= rank[z] \/ rank[z] <= rank[x])
    BY <1>1, <1>2, <1>4, <2>1
  <2>4. CASE x[1] = "WB"
    BY <1>2, <2>1, <2>2, <2>3, <2>4, UpperOnce
  <2>5. CASE x[1] = "LB"
    BY <1>4, <2>1, <2>2, <2>3, <2>5, LowerOut
  <2>6. CASE x = GrandFinal(0)
    BY <2>2, <2>6
  <2>7. CASE x = GrandFinal(1)
    BY <2>1, <2>2, <2>7, SecondSame
  <2> QED
    BY <1>1, <2>1, <2>4, <2>5, <2>6, <2>7 DEF Linked
<1>6. y # ThirdPlace /\ z # ThirdPlace /\ y # z
  BY <1>2, <1>4 DEF ThirdPlace
<1>7. Losses(M, c) = {y, z}
  BY <1>2, <1>4, <1>5, <1>6 DEF Losses
<1> QED
  BY <1>6, <1>7, TwoOf

\* The losses of a contestant in the winners' bracket.
Falls(M, c) == {x \in DOMAIN M : x[1] = "WB" /\ Beaten(M, c, x)}

\* ... of whom only the one from the losers' bracket has lost before.
LEMMA FinalistBeaten ==
  ASSUME NEW f, NEW M, NEW rank, NEW list, NEW P, Played(f, M, rank, list, P),
         NEW c \in Standing(M, GrandFinal(0))
  PROVE  /\ Losses(M, c) = Falls(M, c) \cup {x \in {GrandFinal(0), GrandFinal(1)} \cap DOMAIN M : Beaten(M, c, x)}
         /\ IF c = Winner(M[LowerFinal(list)].entries) THEN \E y : y[1] = "WB" /\ Falls(M, c) = {y}
            ELSE Falls(M, c) = {}
<1> DEFINE final == GrandFinal(0)
           last == LowerFinal(list)
           lower == Winner(M[last].entries)
<1>1. /\ Whole(f, M, rank, list, P) /\ rank \in [Ids -> Nat]
      /\ GrandFinal(1)[1] = "GF" /\ final[1] = "GF" /\ final \in DOMAIN M /\ final # GrandFinal(1)
      /\ \A z \in DOMAIN M : z \in Ids /\ rank[z] \in Nat /\ Linked(M, list, z)
  BY PlayedParts
<1>2. last \in DOMAIN M /\ last[1] = "LB"
  BY LowerFinalPlayed
<1>3. \A d : Gives(M, last, final, d) <=> d = lower
  BY FinalistsMeet
<1> HIDE DEF last, lower
<1>4. ASSUME NEW x \in DOMAIN M, x[1] = "LB", Beaten(M, c, x) PROVE FALSE
  <2>1. c \in Standing(M, x) /\ x # GrandFinal(1) /\ x # final
    BY <1>1, <1>4, FallsOn
  <2>2. rank[x] <= rank[final]
    BY <1>4, <2>1, NothingOpen
  <2>3. final = x
    BY <1>1, <1>4, <2>2, LowerOut
  <2> QED
    BY <2>1, <2>3
<1>5. Losses(M, c) = Falls(M, c) \cup {x \in {GrandFinal(0), GrandFinal(1)} \cap DOMAIN M : Beaten(M, c, x)}
  <2>1. ThirdPlace[1] = "P3"
    BY DEF ThirdPlace
  <2>2. \A x \in DOMAIN M : x[1] = "WB" \/ x[1] = "LB" \/ x \in {GrandFinal(0), GrandFinal(1)}
    BY <1>1 DEF Linked
  <2>3. \A x \in DOMAIN M : x \in {GrandFinal(0), GrandFinal(1)} => x # ThirdPlace
    BY <1>1, <2>1
  <2>4. \A x \in DOMAIN M : x[1] = "WB" => x # ThirdPlace
    BY <2>1
  <2> QED
    BY <1>4, <2>2, <2>3, <2>4 DEF Losses, Falls
<1>6. ASSUME c = lower PROVE \E y : y[1] = "WB" /\ Falls(M, c) = {y}
  <2>1. c \in Standing(M, last)
    BY <1>1, <1>2, <1>3, <1>6, GivesForm
  <2>2. PICK y \in DOMAIN M : y[1] = "WB" /\ Beaten(M, c, y)
    BY <1>2, <2>1, FellFrom
  <2>3. ASSUME NEW x \in Falls(M, c) PROVE x = y
    <3>1. x \in DOMAIN M /\ x[1] = "WB" /\ Beaten(M, c, x)
      BY DEF Falls
    <3>2. c \in Standing(M, x) /\ c \in Standing(M, y)
      BY <1>1, <2>2, <3>1, FallsOn
    <3>3. rank[x] <= rank[y] \/ rank[y] <= rank[x]
      BY <1>1, <2>2, <3>1
    <3> QED
      BY <2>2, <3>1, <3>2, <3>3, UpperOnce
  <2>4. y \in Falls(M, c)
    BY <2>2 DEF Falls
  <2> QED
    BY <2>2, <2>3, <2>4
<1>7. ASSUME c # lower PROVE Falls(M, c) = {}
  <2> SUFFICES ASSUME NEW x \in Falls(M, c) PROVE FALSE
    OBVIOUS
  <2>1. x \in DOMAIN M /\ x[1] = "WB" /\ Beaten(M, c, x)
    BY DEF Falls
  <2>2. M[x].loserNext \in DOMAIN M /\ M[x].loserNext[1] = "LB" /\ c \in Standing(M, M[x].loserNext)
    BY <2>1, UpperLoser
  <2>3. PICK z \in DOMAIN M : z[1] = "LB" /\ (Beaten(M, c, z) \/ (z = last /\ Gives(M, z, final, c)))
    BY <2>2, LowerLast DEF last
  <2> QED
    BY <1>3, <1>4, <1>7, <2>3
<1> QED
  BY <1>5, <1>6, <1>7 DEF lower, last

\* There is a reset exactly if the winner of the losers' bracket won.
Resets(f, M, list) ==
  GrandFinal(0) \in DOMAIN M /\ M[GrandFinal(0)].confirmed =>
    IF GrandFinal(1) \in DOMAIN M
      THEN Winner(M[LowerFinal(list)].entries) = Winner(M[GrandFinal(0)].entries)
      ELSE f.reset => Winner(M[LowerFinal(list)].entries) # Winner(M[GrandFinal(0)].entries)

\* The last grand final.
LastFinal(M) == IF GrandFinal(1) \in DOMAIN M THEN GrandFinal(1) ELSE GrandFinal(0)

LEMMA EndsLast ==
  ASSUME NEW f, NEW M, NEW rank, NEW list, NEW P, Played(f, M, rank, list, P),
         NEW E \in Ends(f, M)
  PROVE  E = LastFinal(M)
<1>1. /\ Finals(f, M) /\ GrandFinal(0) \in DOMAIN M /\ M \in Brackets /\ Flow(f, M, rank)
      /\ None \notin DOMAIN M
  BY PlayedParts
<1>2. E \in {GrandFinal(0), GrandFinal(1)}
  BY <1>1 DEF Finals
<1>3. E \in DOMAIN M /\ M[E].next = None
  BY DEF Ends, Deciding
<1>4. CASE GrandFinal(1) \in DOMAIN M
  <2>1. M[GrandFinal(0)].next = GrandFinal(1)
    BY <1>1, <1>4, BracketParts
  <2>2. E # GrandFinal(0)
    BY <1>1, <1>3, <1>4, <2>1
  <2> QED
    BY <1>2, <1>4, <2>2 DEF LastFinal
<1>5. CASE GrandFinal(1) \notin DOMAIN M
  BY <1>2, <1>3, <1>5 DEF LastFinal
<1> QED
  BY <1>4, <1>5

\* What it takes to be out of a double elimination.
LossesRight(f, M, E, c) ==
  LET losses == Cardinality(Losses(M, c))
  IN  IF c = Takes(M[E]) THEN losses < 2 ELSE losses = 2 \/ (losses = 1 /\ ~f.reset)

\* In a double elimination that is decided everybody has lost twice, but for
\* the winner and, if there is no reset, the other of the grand final.
LEMMA DoubleBeaten ==
  ASSUME NEW f, NEW M, NEW rank, NEW list, NEW P, Played(f, M, rank, list, P), Resets(f, M, list),
         NEW E \in Ends(f, M), M[E].confirmed, NEW c \in P
  PROVE  LossesRight(f, M, E, c)
<1> DEFINE first == GrandFinal(0)
           second == GrandFinal(1)
           lower == Winner(M[LowerFinal(list)].entries)
           took == Takes(M[E])
<1>1. /\ Whole(f, M, rank, list, P) /\ first \in DOMAIN M /\ M[first].confirmed /\ first # second
      /\ first[1] = "GF" /\ second[1] = "GF"
  BY PlayedParts
<1>2. E \in DOMAIN M /\ E = IF second \in DOMAIN M THEN second ELSE first
  BY EndsLast DEF LastFinal, Ends
<1>3. Standing(M, E) = Standing(M, first)
  BY <1>2, SecondSame
<1>4. took \in Standing(M, E) /\ \A d \in Standing(M, E) : Beaten(M, d, E) <=> d # took
  BY <1>1, <1>2, TakesOrLoses
<1>5. /\ Takes(M[first]) = Winner(M[first].entries)
      /\ \E a : a # lower /\ Standing(M, first) = {a, lower}
  BY FinalistsMeet
<1>6. PICK a : a # lower /\ Standing(M, first) = {a, lower}
  BY <1>5
<1>7. \A d \in Standing(M, first) : Beaten(M, d, first) <=> d # Takes(M[first])
  BY <1>1, TakesOrLoses
<1>8. CASE c \notin Standing(M, first)
  <2>1. Cardinality(Losses(M, c)) = 2
    BY <1>8, OutBeaten
  <2>2. c # took
    BY <1>3, <1>4, <1>8
  <2> QED
    BY <2>1, <2>2 DEF LossesRight
<1>9. CASE c \in Standing(M, first)
  <2> DEFINE F == Falls(M, c)
             G == {x \in {first, second} \cap DOMAIN M : Beaten(M, c, x)}
             L == Losses(M, c)
  <2>1. L = F \cup G
    BY <1>9, FinalistBeaten
  <2>2. IF c = lower THEN \E y : y[1] = "WB" /\ F = {y} ELSE F = {}
    BY <1>9, FinalistBeaten
  <2> HIDE DEF L, F
  <2>3. CASE second \notin DOMAIN M
    <3>1. E = first /\ G = IF c # took THEN {first} ELSE {}
      BY <1>1, <1>2, <1>4, <1>9, <2>3
    <3>2. f.reset => took # lower
      BY <1>1, <1>5, <2>3, <3>1 DEF Resets
    <3> HIDE DEF G, took, lower, first, second
    <3>3. CASE c = took
      <4>1. L = F
        BY <2>1, <3>1, <3>3
      <4>2. CASE c = lower
        <5>1. Cardinality(L) = 1
          BY <2>2, <4>1, <4>2, TwoOf
        <5> QED
          BY <3>3, <5>1 DEF LossesRight, L, took
      <4>3. CASE c # lower
        <5>1. Cardinality(L) = 0
          BY <2>2, <4>1, <4>3, FS_EmptySet
        <5> QED
          BY <3>3, <5>1 DEF LossesRight, L, took
      <4> QED
        BY <4>2, <4>3
    <3>4. CASE c # took /\ c = lower
      <4>1. PICK y : y[1] = "WB" /\ F = {y}
        BY <2>2, <3>4
      <4>2. L = {y, first}
        BY <2>1, <3>1, <3>4, <4>1
      <4>3. Cardinality(L) = 2
        BY <1>1, <4>1, <4>2, TwoOf
      <4> QED
        BY <3>4, <4>3 DEF LossesRight, L, took
    <3>5. CASE c # took /\ c # lower
      <4>1. L = {first}
        BY <2>1, <2>2, <3>1, <3>5
      <4>2. Cardinality(L) = 1
        BY <4>1, TwoOf
      <4>3. ~f.reset
        BY <1>3, <1>4, <1>6, <1>9, <3>2, <3>5
      <4>4. Cardinality(L) # 2
        BY <4>2
      <4> QED
        BY <3>5, <4>2, <4>3 DEF LossesRight, L, took
    <3> QED
      BY <3>3, <3>4, <3>5
  <2>4. CASE second \in DOMAIN M
    <3>1. Takes(M[first]) = lower
      BY <1>1, <1>5, <2>4 DEF Resets
    <3>2. /\ Beaten(M, c, first) <=> c # lower
          /\ Beaten(M, c, second) <=> c # took
      BY <1>2, <1>3, <1>4, <1>7, <1>9, <2>4, <3>1
    <3>3. G = (IF c # lower THEN {first} ELSE {}) \cup (IF c # took THEN {second} ELSE {})
      BY <1>1, <2>4, <3>2
    <3> HIDE DEF G, took, lower, first, second
    <3>4. \E y : L = {y} \cup (IF c # took THEN {second} ELSE {}) /\ y # second
      <4>1. CASE c = lower
        <5>1. PICK y : y[1] = "WB" /\ F = {y}
          BY <2>2, <4>1
        <5>2. L = {y} \cup (IF c # took THEN {second} ELSE {}) /\ y # second
          BY <1>1, <2>1, <3>3, <4>1, <5>1
        <5> QED
          BY <5>2
      <4>2. CASE c # lower
        <5>1. L = {first} \cup (IF c # took THEN {second} ELSE {})
          BY <2>1, <2>2, <3>3, <4>2
        <5> QED
          BY <1>1, <5>1
      <4> QED
        BY <4>1, <4>2
    <3>5. PICK y : L = {y} \cup (IF c # took THEN {second} ELSE {}) /\ y # second
      BY <3>4
    <3>6. CASE c = took
      <4>1. Cardinality(L) = 1
        BY <3>5, <3>6, TwoOf
      <4> QED
        BY <3>6, <4>1 DEF LossesRight, L, took
    <3>7. CASE c # took
      <4>1. L = {y, second} /\ y # second
        BY <3>5, <3>7
      <4>2. Cardinality(L) = 2
        BY <4>1, TwoOf
      <4> QED
        BY <3>7, <4>2 DEF LossesRight, L, took
    <3> QED
      BY <3>6, <3>7
  <2> QED
    BY <2>3, <2>4
<1> QED
  BY <1>8, <1>9
-----------------------------------------------------------------------------
(* The reset of a double elimination *)

LEMMA LowerFound ==
  ASSUME NEW M, NEW list, \A x \in DOMAIN M : Linked(M, list, x),
         LowerFinal(list) \in DOMAIN M, M[LowerFinal(list)].next = GrandFinal(0),
         GrandFinal(0) # None
  PROVE  LowerChampion(M) = Winner(M[LowerFinal(list)].entries)
<1> DEFINE last == LowerFinal(list)
           finals == {x \in Feeders(M, GrandFinal(0)) : x[1] = "LB"}
<1>1. last[1] = "LB" /\ last \in finals
  BY DEF LowerFinal, Feeders
<1>2. ASSUME NEW x \in finals PROVE x = last
  <2>1. x \in DOMAIN M /\ x[1] = "LB" /\ (M[x].next = GrandFinal(0) \/ M[x].loserNext = GrandFinal(0))
    BY DEF Feeders
  <2>2. GrandFinal(0)[1] = "GF" /\ GrandFinal(1)[1] = "GF"
    BY DEF GrandFinal
  <2> QED
    BY <2>1, <2>2 DEF Linked
<1>3. finals = {last}
  BY <1>1, <1>2
<1> QED
  BY <1>3 DEF LowerChampion

\* What a bracket has of its grand finals once the first is decided.
Closing(f, M, list) ==
  /\ LowerFinal(list) \in DOMAIN M /\ M[LowerFinal(list)].confirmed
  /\ LowerFinal(list) # GrandFinal(0) /\ LowerFinal(list)[1] = "LB"
  /\ M[LowerFinal(list)].next = GrandFinal(0)

LEMMA Closes ==
  ASSUME NEW f, NEW M, NEW rank, NEW list, NEW P, Whole(f, M, rank, list, P), f.mode = "DE",
         GrandFinal(0) \in DOMAIN M, M[GrandFinal(0)].confirmed
  PROVE  Closing(f, M, list)
<1>1. Played(f, M, rank, list, P)
  BY DEF Played
<1>2. /\ LowerFinal(list) \in DOMAIN M /\ M[LowerFinal(list)].confirmed
      /\ M[LowerFinal(list)].next = GrandFinal(0) /\ LowerFinal(list)[1] = "LB"
  BY <1>1, LowerFinalPlayed
<1>3. GrandFinal(0)[1] = "GF"
  BY DEF GrandFinal
<1> QED
  BY <1>2, <1>3 DEF Closing

\* Taking back results leaves the final of the losers' bracket while the
\* grand final is decided.
LEMMA RetractedResets ==
  ASSUME NEW f, f.mode = "DE", NEW t \in Tournaments, NEW rank, NEW list, NEW P,
         Whole(f, t.matches, rank, list, P), Resets(f, t.matches, list), NEW N, NEW r,
         Whole(f, N, r, list, P), NEW u, Backward(f, t, u), N = u.matches,
         Undoes(t.matches, N, HavingResult(t.matches))
  PROVE  Resets(f, N, list)
<1> DEFINE M == t.matches
           first == GrandFinal(0)
           second == GrandFinal(1)
           last == LowerFinal(list)
<1> SUFFICES ASSUME first \in DOMAIN N, N[first].confirmed
             PROVE  IF second \in DOMAIN N
                      THEN Winner(N[last].entries) = Winner(N[first].entries)
                      ELSE f.reset => Winner(N[last].entries) # Winner(N[first].entries)
  BY DEF Resets
<1>1. last \in DOMAIN N /\ N[last].confirmed
  BY Closes DEF Closing
<1>2. \A x \in DOMAIN N : N[x].confirmed =>
        /\ x \in DOMAIN M /\ M[x].confirmed /\ N[x].entries \subseteq M[x].entries
  BY DEF Backward, Undoes
<1>3. second \in DOMAIN N <=> second \in DOMAIN M
  BY DEF Backward, Undoes
<1>4. f.mode # "RR" /\ Flow(f, M, rank) /\ Flow(f, N, r)
  BY WholeParts
<1> HIDE DEF M, first, second, last
<1>5. ASSUME NEW x \in DOMAIN N, N[x].confirmed PROVE N[x].entries = M[x].entries
  BY <1>2, <1>4, <1>5, DecidedSame
<1>6. N[last].entries = M[last].entries /\ N[first].entries = M[first].entries
  BY <1>1, <1>5
<1>7. first \in DOMAIN M /\ M[first].confirmed
  BY <1>2
<1> QED
  BY <1>3, <1>6, <1>7 DEF Resets, M, first, second, last

\* A result of the first grand final is only recorded, and the two may meet
\* once more.
LEMMA FinalEntered ==
  ASSUME NEW f, NEW t \in Tournaments, NEW m \in DOMAIN t.matches,
         t.matches[m].next = None, t.matches[m].loserNext = None, NEW who \in Contestants
  PROVE  LET S == Scored(t, m, who)
         IN  Confirmed(t, f, m, who).matches
               = IF NeedsReset(S, f, m, who) THEN WithReset(S).matches ELSE S.matches
<1> DEFINE S == Scored(t, m, who)
           done == IF NeedsReset(S, f, m, who) THEN WithReset(S) ELSE S
           last == Concluded(done, f, m, done.matches[m].next, who)
<1> DEFINE advanced == Sent(S, t.matches[m].next, who)
           lower == t.matches[m].loserNext
           sent == PassOn(Sent(advanced, lower, Loser(WithResult(t.matches[m].entries, who))), lower)
           dropped == IF lower = None THEN advanced ELSE sent
           then == IF NeedsReset(dropped, f, m, who) THEN WithReset(dropped) ELSE dropped
           end == Concluded(then, f, m, then.matches[m].next, who)
<1>1. who # None
  BY NoneApart
<1>2. Confirmed(t, f, m, who) = last
  <2>1. Confirmed(t, f, m, who) = IF who = None THEN S ELSE end
    BY DEF Confirmed, Scored
  <2>2. advanced = S
    BY DEF Sent
  <2> HIDE DEF sent, advanced, S
  <2>3. dropped = S
    BY <2>2
  <2> HIDE DEF dropped
  <2>4. end = last
    BY <2>3
  <2> HIDE DEF end, last
  <2> QED
    BY <1>1, <2>1, <2>4
<1>3. S \in Tournaments /\ DOMAIN S.matches = DOMAIN t.matches
  BY ScoredType
<1>4. NeedsReset(S, f, m, who) => WithReset(S) \in Tournaments
  <2> SUFFICES ASSUME NeedsReset(S, f, m, who) PROVE WithReset(S) \in Tournaments
    OBVIOUS
  <2>1. m = GrandFinal(0) /\ S.matches[m].next = None
    BY DEF NeedsReset
  <2> HIDE DEF S
  <2> QED
    BY <1>3, <2>1, WithResetType
<1> HIDE DEF S
<1>5. done \in Tournaments
  BY <1>3, <1>4
<1> HIDE DEF done
<1>6. last.matches = done.matches
  BY <1>5, ConcludedType
<1> QED
  BY <1>2, <1>6 DEF done, S

LEMMA ScoredRows ==
  ASSUME NEW f, NEW t \in Tournaments, NEW rank, Flow(f, t.matches, rank),
         NEW m \in DOMAIN t.matches, NEW who \in Contestants \cup {None},
         Playable(f, t.matches[m]), who \in Outcomes(f, t.matches[m]), f.mode # "RR"
  PROVE  \E a, b : WithResult(t.matches[m].entries, who) = {a, b} /\ a.score = 1 /\ b.score = 0 /\ a.who = who
<1> DEFINE M == t.matches
<1>0. f.mode # "RR" =>
         \E a, b : /\ WithResult(M[m].entries, who) = {a, b} /\ a.score = 1 /\ b.score = 0
                   /\ a.who = who /\ b.who = Loser(WithResult(M[m].entries, who))
                   /\ b.who \in Contestants
  BY ScoredFlow
<1> QED
  BY <1>0

\* A result of the first grand final leads to a reset if it has to.
LEMMA FinalResets ==
  ASSUME NEW f, f.mode = "DE", NEW t \in Tournaments, NEW rank, NEW list, NEW P,
         Whole(f, t.matches, rank, list, P), NEW first \in DOMAIN t.matches, first = GrandFinal(0),
         NEW who \in Contestants, Playable(f, t.matches[first]),
         who \in Outcomes(f, t.matches[first])
  PROVE  Resets(f, Confirmed(t, f, first, who).matches, list)
<1> DEFINE M == t.matches
           second == GrandFinal(1)
           last == LowerFinal(list)
           set == Scored(t, first, who)
           S == set.matches
           N == Confirmed(t, f, first, who).matches
<1>1. /\ f.mode # "RR" /\ M \in Brackets /\ Flow(f, M, rank) /\ Finals(f, M) /\ None \notin DOMAIN M
      /\ first # second
  BY WholeParts, GrandFinals
<1>2. /\ \A x \in DOMAIN M : Linked(M, list, x)
      /\ last \in DOMAIN M /\ M[last].next = first
  BY DoubleLinked
<1>3. last[1] = "LB" /\ first[1] = "GF" /\ second[1] = "GF"
  BY DEF LowerFinal, GrandFinal
<1>4. ~M[first].confirmed
  BY DEF Playable
<1>5. second \notin DOMAIN M
  BY <1>1, <1>4 DEF Flow
<1>6. M[first].next = None /\ M[first].loserNext = None
  <2>1. M[first].next \in DOMAIN M \cup {None} /\ M[first].next \in {None, second}
    BY <1>1, BracketParts DEF Finals
  <2>2. Linked(M, list, first)
    BY <1>2
  <2>3. M[first].loserNext = None
    BY <1>3, <2>2 DEF Linked
  <2> HIDE DEF M, second
  <2> QED
    BY <1>5, <2>1, <2>3
<1>7. N = IF NeedsReset(set, f, first, who) THEN WithReset(set).matches ELSE S
  BY <1>6, FinalEntered
<1>8. set \in Tournaments /\ DOMAIN S = DOMAIN M
  BY ScoredType
<1>9. LinkedAs(M, S) /\ Flow(f, S, rank) /\ S[first].confirmed /\ S \in Brackets
      /\ \A x \in DOMAIN M \ {first} : S[x].entries = M[x].entries
  <2>1. Confirms(M, S, first)
    BY ScoredForm
  <2>2. LinkedAs(M, S) /\ Flow(f, S, rank) /\ S[first].confirmed /\ S \in Brackets
    BY <1>1, ScoredFlow
  <2> HIDE DEF M, S
  <2> QED
    BY <2>1, <2>2 DEF Confirms
<1>10. Winner(S[first].entries) = who
  <2>0. \E a, b : WithResult(M[first].entries, who) = {a, b} /\ a.score = 1 /\ b.score = 0 /\ a.who = who
    <3> HIDE DEF set, S, N, last, second
    <3>1. who \in Contestants \cup {None}
      OBVIOUS
    <3>2. /\ t \in Tournaments /\ Flow(f, t.matches, rank) /\ first \in DOMAIN t.matches /\ f.mode # "RR"
          /\ Playable(f, t.matches[first]) /\ who \in Outcomes(f, t.matches[first])
      BY <1>1
    <3> HIDE DEF M
    <3> DEFINE w == who
    <3>3. w \in Contestants \cup {None}
      BY <3>1
    <3>4. Playable(f, t.matches[first]) /\ w \in Outcomes(f, t.matches[first])
      BY <3>2
    <3> HIDE DEF w
    <3>5. \E a, b : WithResult(t.matches[first].entries, w) = {a, b} /\ a.score = 1 /\ b.score = 0 /\ a.who = w
      BY <3>2, <3>3, <3>4, ScoredRows
    <3> QED
      BY <3>5 DEF w, M
  <2>1. S[first].entries = WithResult(M[first].entries, who)
    BY ScoredForm
  <2>2. S[first].entries \in Rows
    <3> HIDE DEF S, M
    <3> QED
      BY <1>8, <1>9, MatchType DEF M
  <2> HIDE DEF S, M
  <2> QED
    BY <2>0, <2>1, <2>2, DecidedRows
<1> HIDE DEF set, M, N, second, last
<1>11. Winner(S[last].entries) = Winner(M[last].entries) /\ last # first /\ last # second
  BY <1>2, <1>3, <1>9
<1>12. LowerChampion(S) = Winner(S[last].entries)
  <2>1. ASSUME NEW x \in DOMAIN S PROVE Linked(S, list, x)
    <3>1. S[x].next = M[x].next /\ S[x].loserNext = M[x].loserNext /\ Linked(M, list, x)
      BY <1>2, <1>8, <1>9, <2>1 DEF LinkedAs
    <3> HIDE DEF S
    <3> QED
      BY <3>1 DEF Linked
  <2>2. last \in DOMAIN S /\ S[last].next = first /\ first # None
    BY <1>1, <1>2, <1>8, <1>9 DEF LinkedAs, M
  <2> HIDE DEF S
  <2> QED
    BY <2>1, <2>2, LowerFound DEF last
<1>13. S[first].next = None
  BY <1>6, <1>9 DEF LinkedAs, M
<1>14. NeedsReset(set, f, first, who) <=> f.reset /\ Winner(S[last].entries) = who
  BY <1>12, <1>13 DEF NeedsReset
<1>15. CASE NeedsReset(set, f, first, who)
  <2>1. /\ second \in DOMAIN N /\ N[first].entries = S[first].entries
        /\ N[last] = S[last]
    <3>1. N = [x \in DOMAIN S \cup {second} |->
                 CASE x = second -> Made(None, None, FALSE, Entrants(S[first].entries))
                   [] x = first  -> [S[first] EXCEPT !.next = second]
                   [] OTHER      -> S[x]]
      BY <1>7, <1>8, <1>15 DEF WithReset, Tournaments, second
    <3>2. first \in DOMAIN S /\ last \in DOMAIN S
      BY <1>2, <1>8 DEF M
    <3>3. S[first] \in MatchIn(DOMAIN S)
      BY <1>9, <3>2, MatchType
    <3> HIDE DEF S
    <3>4. N[first] = [S[first] EXCEPT !.next = second]
      BY <1>1, <3>1, <3>2
    <3>5. N[first].entries = S[first].entries
      BY <3>3, <3>4 DEF MatchIn
    <3>6. second \in DOMAIN N /\ N[last] = S[last]
      BY <1>1, <1>11, <3>1, <3>2
    <3> QED
      BY <3>5, <3>6
  <2> HIDE DEF S
  <2> QED
    BY <1>10, <1>14, <1>15, <2>1 DEF Resets, N, second, last
<1>16. CASE ~NeedsReset(set, f, first, who)
  <2>1. N = S
    BY <1>7, <1>16
  <2>2. second \notin DOMAIN S
    BY <1>5, <1>8
  <2> HIDE DEF S
  <2> QED
    BY <1>10, <1>14, <1>16, <2>1, <2>2 DEF Resets, N, second, last
<1> QED
  BY <1>15, <1>16 DEF N

\* Every result keeps it: once the grand final is decided, nothing below it
\* is open.
LEMMA ConfirmedResets ==
  ASSUME NEW f, f.mode = "DE", NEW t \in Tournaments, NEW rank, NEW list, NEW P,
         Whole(f, t.matches, rank, list, P), Resets(f, t.matches, list),
         NEW m \in DOMAIN t.matches, NEW who \in Contestants, Playable(f, t.matches[m]),
         who \in Outcomes(f, t.matches[m]),
         NEW N, N = Confirmed(t, f, m, who).matches, NEW r, Whole(f, N, r, list, P)
  PROVE  Resets(f, N, list)
<1> DEFINE M == t.matches
           first == GrandFinal(0)
           second == GrandFinal(1)
           last == LowerFinal(list)
           S == Scored(t, m, who).matches
<1>1. CASE m = first
  BY <1>1, FinalResets
<1>2. ASSUME m # first, first \in DOMAIN N, N[first].confirmed
      PROVE  IF second \in DOMAIN N
               THEN Winner(N[last].entries) = Winner(N[first].entries)
               ELSE f.reset => Winner(N[last].entries) # Winner(N[first].entries)
  <2>1. PICK done : Entered(t, f, m, who, done)
    BY ConfirmedEnters
  <2>2. N = done.matches /\ Grew(S, done.matches, m)
    <3>1. /\ done \in Tournaments
          /\ Confirmed(t, f, m, who) = Concluded(done, f, m, done.matches[m].next, who)
          /\ Grew(S, done.matches, m)
      BY <2>1 DEF Entered
    <3> HIDE DEF S
    <3> QED
      BY <3>1, ConcludedType
  <2>3. /\ f.mode # "RR" /\ M \in Brackets /\ Flow(f, M, rank) /\ Finals(f, M) /\ N \in Brackets
        /\ Flow(f, N, r)
    BY WholeParts
  <2>4. /\ DOMAIN S = DOMAIN M
        /\ \A x \in DOMAIN M : S[x].next = M[x].next
        /\ \A x \in DOMAIN M \ {m} : S[x].confirmed = M[x].confirmed /\ S[x].entries = M[x].entries
    <3>1. Confirms(M, S, m)
      BY ScoredForm
    <3> HIDE DEF M, S
    <3> QED
      BY <3>1 DEF Confirms, LinkedAs
  <2>5. ~M[m].confirmed
    BY DEF Playable
  <2>6. first \in DOMAIN M => M[first].next \in {None, second}
    BY <2>3 DEF Finals
  <2> HIDE DEF S
  <2>7. Grew(S, N, m)
    BY <2>2
  <2>8. first \in DOMAIN M /\ M[first].confirmed
    <3>1. first \in DOMAIN M /\ (S[first].confirmed \/ S[first].next # None)
      BY <1>2, <2>4, <2>7 DEF Grew
    <3>2. CASE S[first].confirmed
      BY <1>2, <2>4, <3>1, <3>2
    <3>3. CASE S[first].next # None
      <4>1. M[first].next = second
        BY <2>4, <2>6, <3>1, <3>3
      <4>2. second \in DOMAIN M
        BY <2>3, <2>4, <3>1, <3>3, <4>1, BracketParts
      <4> QED
        BY <2>3, <3>1, <4>2 DEF Flow
    <3> QED
      BY <3>1, <3>2, <3>3
  <2>9. last \in DOMAIN M /\ M[last].confirmed /\ last # m
    BY <2>5, <2>8, Closes DEF Closing
  <2> HIDE DEF M, first, second, last
  <2>10. ASSUME NEW x \in DOMAIN M, M[x].confirmed, x # m
         PROVE  N[x].entries = M[x].entries
    <3>1. x \in DOMAIN N /\ N[x].confirmed /\ M[x].entries \subseteq N[x].entries
      BY <2>4, <2>7, <2>10 DEF Grew
    <3> QED
      BY <2>3, <2>10, <3>1, DecidedSame
  <2>11. N[last].entries = M[last].entries /\ N[first].entries = M[first].entries
    BY <1>2, <2>8, <2>9, <2>10
  <2>12. second \in DOMAIN N <=> second \in DOMAIN M
    <3>1. ASSUME second \in DOMAIN N PROVE second \in DOMAIN M
      <4>1. N[first].next = second /\ second # None
        BY <2>3, <3>1, BracketParts DEF first, second
      <4>2. N[first].next = M[first].next
        BY <1>2, <2>4, <2>7, <2>8 DEF Grew
      <4>3. M[first].next \in DOMAIN M \cup {None}
        BY <2>3, <2>8, BracketParts
      <4> QED
        BY <4>1, <4>2, <4>3
    <3>2. ASSUME second \in DOMAIN M PROVE second \in DOMAIN N
      BY <2>4, <2>7, <3>2 DEF Grew
    <3> QED
      BY <3>1, <3>2
  <2>13. IF second \in DOMAIN M
           THEN Winner(M[last].entries) = Winner(M[first].entries)
           ELSE f.reset => Winner(M[last].entries) # Winner(M[first].entries)
    BY <2>8 DEF Resets, M, first, second, last
  <2> QED
    BY <2>11, <2>12, <2>13
<1>3. CASE m # first
  BY <1>2, <1>3 DEF Resets
<1> QED
  BY <1>1, <1>3

LEMMA MadeResets ==
  ASSUME NEW f \in Formats, f.mode = "DE", NEW list \in Seq(Contestants), Len(list) >= 4
  PROVE  Resets(f, Bracket(f, list), list)
<1> DEFINE M == Bracket(f, list)
           first == GrandFinal(0)
<1>1. \A x \in Ends(f, M) : ~M[x].confirmed
  BY BracketFinals
<1>2. first \in DOMAIN M => M[first].next = None
  BY MadeLinks
<1> HIDE DEF M
<1>3. first[1] = "GF" /\ first # ThirdPlace
  BY DEF GrandFinal, ThirdPlace
<1>4. first \in DOMAIN M => first \in Ends(f, M)
  BY <1>2, <1>3 DEF Ends, Deciding
<1> QED
  BY <1>1, <1>4 DEF Resets, M

-----------------------------------------------------------------------------
(* Every step keeps the resets *)

BracketSound == BracketInv /\ DrawInv /\ FlowInv /\ WinnerInv
\* Nobody has left the bracket and nothing spoilt it.
Unspoilt == Matches # {} /\ Everybody /\ ~marred /\ ~raced
ResetInv == Unspoilt /\ format.mode = "DE" => Resets(format, tournament.matches, Entries)
\* The bracket of t, with everybody who entered.
Full(f, t, list, P) == t \in Tournaments /\ \E rank : Whole(f, t.matches, rank, list, P)

LEMMA FullNow ==
  ASSUME BracketSound, Unspoilt, format.mode # "RR"
  PROVE  Full(format, tournament, Entries, Active)
<1> DEFINE M == tournament.matches
           list == Entries
           P == Active
<1>1. /\ tournament \in Tournaments /\ M \in Brackets /\ format \in Formats
  BY TournamentForm DEF BracketSound, BracketInv
<1>2. Len(list) >= (IF format.mode = "DE" THEN 4 ELSE 2) /\ Drawn(Bracket(format, list), M)
  BY DEF BracketSound, DrawInv, Unspoilt
<1>3. Drafted(format, list, P)
  BY <1>2, EntriesDrafted
<1>4. PICK rank : Flow(format, M, rank) /\ Carried(M, P, {})
  BY DEF BracketSound, FlowInv, Flowing, Unspoilt
<1>5. Finals(format, M)
  BY DEF BracketSound, WinnerInv, WinnerFirm, Unspoilt
<1> HIDE DEF M, list, P
<1>6. Whole(format, M, rank, list, P)
  BY <1>1, <1>2, <1>3, <1>4, <1>5 DEF Whole
<1> QED
  BY <1>1, <1>6 DEF Full, M, list, P

\* If it is unspoilt, so it was.
LEMMA FullNext ==
  ASSUME BracketSound, BracketSound', Drawing, Observe, Unspoilt', format'.mode # "RR"
  PROVE  /\ format' = format /\ Entries' = Entries /\ Active' = Active
         /\ Everybody /\ ~marred /\ ~raced
         /\ Full(format, tournament', Entries, Active)
<1>1. /\ Active' \subseteq Active /\ Everyone' = Everyone /\ format' = format
  BY DEF Drawing, Active, Everyone
<1>2. Active' = Active /\ Everybody
  BY <1>1 DEF BracketSound, DrawInv, Unspoilt, Everybody
<1>3. Entries' = Entries
  BY <1>2 DEF Entries
<1>4. ~marred /\ ~raced
  BY DEF Observe, Unspoilt
<1> DEFINE N == tournament'.matches
           list == Entries
           P == Active
<1>5. /\ tournament' \in Tournaments /\ format \in Formats
  BY <1>1 DEF BracketSound, BracketInv
<1>6. N \in Brackets
  <2> DEFINE new == tournament'
  <2>1. new \in Tournaments
    BY <1>5
  <2> HIDE DEF new
  <2>2. new.matches \in Brackets
    BY <2>1, TournamentForm
  <2> QED
    BY <2>2 DEF new
<1>7. Len(list) >= (IF format.mode = "DE" THEN 4 ELSE 2) /\ Drawn(Bracket(format, list), N)
  BY <1>1, <1>3 DEF BracketSound, DrawInv, Unspoilt
<1>8. Drafted(format, list, P)
  BY <1>7, EntriesDrafted
<1>9. PICK rank : Flow(format, N, rank) /\ Carried(N, P, {})
  BY <1>1, <1>2 DEF BracketSound, FlowInv, Flowing, Unspoilt
<1>10. Finals(format, N)
  BY <1>1 DEF BracketSound, WinnerInv, WinnerFirm, Unspoilt
<1>11. format.mode # "RR"
  BY <1>1
<1> HIDE DEF N, list, P
<1>12. Whole(format, N, rank, list, P)
  BY <1>5, <1>6, <1>7, <1>8, <1>9, <1>10, <1>11 DEF Whole
<1> QED
  BY <1>1, <1>2, <1>3, <1>4, <1>5, <1>12 DEF Full, N, list, P

LEMMA ResultKept ==
  ASSUME NEW f, f.mode = "DE", NEW list, NEW P, NEW t, Full(f, t, list, P),
         Resets(f, t.matches, list), NEW u, Full(f, u, list, P),
         NEW m \in DOMAIN t.matches, NEW who, Playable(f, t.matches[m]),
         who \in Outcomes(f, t.matches[m]), u = Confirmed(t, f, m, who)
  PROVE  Resets(f, u.matches, list)
<1>1. PICK rank : Whole(f, t.matches, rank, list, P)
  BY DEF Full
<1>2. PICK r : Whole(f, u.matches, r, list, P)
  BY DEF Full
<1>3. t \in Tournaments
  BY DEF Full
<1>4. who \in Contestants
  <2>1. t.matches[m].entries \in Rows
    BY <1>3, TournamentForm, MatchType
  <2>2. Entrants(t.matches[m].entries) \subseteq Contestants
    BY <2>1, EntrantsType
  <2> QED
    BY <2>2 DEF Outcomes
<1> DEFINE N == u.matches
<1>5. N = Confirmed(t, f, m, who).matches /\ Whole(f, N, r, list, P)
  BY <1>2
<1> HIDE DEF N
<1>6. Resets(f, N, list)
  BY <1>1, <1>3, <1>4, <1>5, ConfirmedResets
<1> QED
  BY <1>6 DEF N

LEMMA RetractionKept ==
  ASSUME NEW f, f.mode = "DE", NEW list, NEW P, NEW t, Full(f, t, list, P), Stands(f, t),
         Resets(f, t.matches, list), NEW C, Ready(t.matches, C),
         NEW m \in C \cap DOMAIN t.matches, t.matches[m].confirmed
  PROVE  LET u == Retracted(t, f, m)
         IN  Full(f, u, list, P) /\ Resets(f, u.matches, list)
<1> DEFINE M == t.matches
           u == Retracted(t, f, m)
           N == u.matches
           made == Bracket(f, list)
<1>1. PICK rank : Whole(f, M, rank, list, P)
  BY DEF Full
<1>2. t \in Tournaments /\ u \in Tournaments /\ N \in Brackets
  BY RetractedType, TournamentForm DEF Full
<1>3. /\ f \in Formats /\ f.mode # "RR" /\ Flow(f, M, rank) /\ Carried(M, P, {}) /\ Finals(f, M)
      /\ Drafted(f, list, P) /\ Drawn(made, M)
  BY <1>1 DEF Whole
<1>4. Backward(f, t, u) /\ Undoes(M, N, HavingResult(M))
  BY <1>2, <1>3, RetractedBackward
<1>5. Flow(f, N, rank) /\ Carried(N, P, {})
  BY <1>2, <1>3, RetractedFlow
<1>6. Finals(f, N)
  BY <1>4 DEF Backward
<1>7. Drawn(made, N)
  <2>1. list \in Seq(Contestants) /\ Len(list) >= IF f.mode = "DE" THEN 4 ELSE 2
    BY <1>3 DEF Drafted
  <2>2. LinksUp(made) /\ GrandFinal(1) \notin DOMAIN made
    BY <1>3, <2>1, MadeLinks
  <2> HIDE DEF made
  <2> QED
    BY <1>2, <1>3, <2>2, RetractedDraw
<1> HIDE DEF u, N
<1>8. Whole(f, N, rank, list, P)
  BY <1>2, <1>3, <1>5, <1>6, <1>7 DEF Whole
<1>9. N = u.matches
  BY DEF N
<1>10. Resets(f, N, list)
  BY <1>1, <1>2, <1>4, <1>8, <1>9, RetractedResets
<1> QED
  BY <1>2, <1>8, <1>9, <1>10 DEF Full, u

LEMMA EnterResultResets ==
  ASSUME BracketSound, format.mode = "DE", NEW list, NEW P, Full(format, tournament, list, P),
         Full(format, tournament', list, P), Resets(format, tournament.matches, list),
         NEW m \in Matches, NEW who, EnterResult(m, who)
  PROVE  Resets(format, tournament'.matches, list)
<1> DEFINE u == tournament'
<1>1. /\ m \in DOMAIN tournament.matches
      /\ Playable(format, tournament.matches[m]) /\ who \in Results(tournament.matches[m])
      /\ u = Confirmed(tournament, format, m, who)
  BY DEF EnterResult, Matches
<1>2. who \in Outcomes(format, tournament.matches[m])
  BY <1>1, ResultsPossible DEF BracketSound
<1>3. Full(format, u, list, P)
  OBVIOUS
<1> HIDE DEF u
<1>4. Resets(format, u.matches, list)
  BY <1>1, <1>2, <1>3, ResultKept
<1> QED
  BY <1>4 DEF u

LEMMA SubmitScoresResets ==
  ASSUME BracketSound, format.mode = "DE", NEW list, NEW P, Full(format, tournament, list, P),
         Full(format, tournament', list, P), Resets(format, tournament.matches, list),
         NEW w \in Workers, SubmitScores(w)
  PROVE  Resets(format, tournament'.matches, list)
<1> DEFINE u == tournament'
           m == request[w].match
           who == request[w].winner
<1>1. /\ m \in DOMAIN tournament.matches
      /\ Playable(format, tournament.matches[m])
      /\ u = Confirmed(tournament, format, m, who)
  BY DEF SubmitScores, StillValid, Known, Matches
<1>2. who \in Outcomes(format, tournament.matches[m])
  <2>1. Entrants(tournament.matches[m].entries) = request[w].entrants
    BY DEF SubmitScores, StillValid
  <2>2. who \in request[w].entrants \cup (IF format.mode = "RR" THEN {None} ELSE {})
    BY DEF SubmitScores, ReportInv, BracketSound, FlowInv
  <2> HIDE DEF m, who
  <2> QED
    BY <2>1, <2>2 DEF Outcomes
<1>3. Full(format, u, list, P)
  OBVIOUS
<1> HIDE DEF u, m, who
<1>4. Resets(format, u.matches, list)
  BY <1>1, <1>2, <1>3, ResultKept
<1> QED
  BY <1>4 DEF u

LEMMA CorrectResultResets ==
  ASSUME BracketSound, format.mode = "DE", NEW list, NEW P, Full(format, tournament, list, P),
         Full(format, tournament', list, P), Resets(format, tournament.matches, list),
         Stands(format, tournament), NEW w \in Workers, CorrectResult(w), Observe, ~marred'
  PROVE  Resets(format, tournament'.matches, list)
<1> DEFINE m == request[w].match
           M == tournament.matches
           C == {m} \cup Affected(M, m)
           retracted == Retracted(tournament, format, m)
           u == tournament'
<1>1. /\ Serving(w, "correction")
      /\ m \in Matches /\ m \in DOMAIN M /\ tournament \in Tournaments
      /\ Match(m).confirmed /\ M[m].confirmed
      /\ Cardinality(Match(m).entries) >= 2
      /\ corrections' = corrections + 1
      /\ \/ u = retracted
         \/ /\ Playable(format, retracted.matches[m])
            /\ \E who \in Outcomes(format, retracted.matches[m]) :
                 u = Confirmed(retracted, format, m, who)
  BY DEF CorrectResult, Known, Match, Matches, BracketSound, BracketInv
<1>2. corrections' # corrections
  BY <1>1, FormatsChecked DEF BracketSound, BracketInv
<1>3. \A x \in Affected(M, m) : ~PassedOn(x)
  <2>1. ~Mars(w)
    BY DEF Observe
  <2> QED
    BY <1>1, <1>2, <2>1 DEF Mars
<1>4. PICK rank : Flow(format, M, rank)
  BY DEF Full, Whole
<1>5. m \in DOMAIN retracted.matches
  <2> HIDE DEF m
  <2> QED
    BY <1>1, RetractedType DEF BracketSound, BracketInv
<1>6. Ready(M, C)
  <2> HIDE DEF m
  <2> QED
    BY <1>1, <1>3, <1>4, ReadyStart
<1>7. m \in C \cap DOMAIN M
  BY <1>1
<1>8. Full(format, u, list, P)
  OBVIOUS
<1>9. Full(format, retracted, list, P) /\ Resets(format, retracted.matches, list)
  <2> HIDE DEF m, C, u
  <2> QED
    BY <1>1, <1>6, <1>7, RetractionKept
<1> HIDE DEF retracted, m, u
<1>10. ASSUME NEW who \in Outcomes(format, retracted.matches[m]),
              Playable(format, retracted.matches[m]),
              u = Confirmed(retracted, format, m, who)
       PROVE  Resets(format, u.matches, list)
  BY <1>5, <1>8, <1>9, <1>10, ResultKept
<1>11. Resets(format, u.matches, list)
  BY <1>1, <1>9, <1>10
<1> QED
  BY <1>11 DEF u

LEMMA GenerateBracketResets ==
  ASSUME BracketSound, format.mode = "DE", NEW w \in Workers, GenerateBracket(w)
  PROVE  Resets(format, tournament'.matches, Entries)
<1> DEFINE list == Entries
           N == Bracket(format, list)
<1>1. /\ Len(list) >= 4 /\ format \in Formats
      /\ tournament'.matches = N
  BY DEF GenerateBracket, BracketSound, BracketInv, Tournaments
<1>2. list \in Seq(Contestants)
  BY <1>1, EntriesDrafted DEF Drafted
<1> HIDE DEF list
<1>3. Resets(format, N, list)
  BY <1>1, <1>2, MadeResets
<1> HIDE DEF N
<1> QED
  BY <1>1, <1>3 DEF list

\* Who leaves, or is deleted, is missing from then on.
LEMMA NobodyLeft ==
  ASSUME BracketSound, Active' = Active, Observe, ~marred'
  PROVE  /\ \A c \in Contestants : ~RemoveContestant(c) /\ ~RemoveUnplaced(c)
         /\ \A w \in Workers : ~RemoveTeam(w) /\ \A c \in Contestants : ~DeleteTeamEntries(w, c)
<1>1. ASSUME NEW c \in Active, NEW to \in {"removed", "gone"}, roster' = [roster EXCEPT ![c] = to]
      PROVE  FALSE
  <2>1. roster'[c] # "active"
    BY <1>1 DEF BracketSound, BracketInv, Active
  <2>2. c \in Active'
    OBVIOUS
  <2>3. roster'[c] = "active"
    BY <2>2 DEF Active
  <2> QED
    BY <2>1, <2>3
<1>2. ASSUME NEW w \in Workers, NEW c \in Contestants, DeleteTeamEntries(w, c)
      PROVE  FALSE
  <2>1. request' = [request EXCEPT ![w] = [kind |-> "delete", step |-> "winner", team |-> c]]
    BY <1>2 DEF DeleteTeamEntries, Take
  <2>2. request'[w].kind = "delete"
    BY <2>1 DEF BracketSound, BracketInv, RequestsOK
  <2>3. ~Mars(w)
    BY DEF Observe
  <2> QED
    BY <2>2, <2>3 DEF Mars
<1>3. \A c \in Contestants : ~RemoveContestant(c) /\ ~RemoveUnplaced(c)
  BY <1>1 DEF RemoveContestant, RemoveUnplaced, MayLeave
<1>4. \A w \in Workers : ~RemoveTeam(w)
  BY <1>1 DEF RemoveTeam, MayLeave
<1> QED
  BY <1>2, <1>3, <1>4

LEMMA StepResets ==
  ASSUME BracketSound, BracketSound', ResetInv, Next, Observe
  PROVE  ResetInv'
<1> SUFFICES ASSUME Unspoilt', format'.mode = "DE"
             PROVE  Resets(format', tournament'.matches, Entries')
  BY DEF ResetInv
<1> DEFINE list == Entries
           P == Active
           f == format
<1>1. Drawing
  BY StepDraws DEF BracketSound
<1>2. /\ format' = f /\ Entries' = list /\ Active' = Active
      /\ Everybody /\ ~marred /\ ~raced
      /\ Full(f, tournament', list, P)
  <2>1. format'.mode # "RR"
    OBVIOUS
  <2> QED
    BY <1>1, <2>1, FullNext
<1>3. f.mode = "DE" /\ ~marred'
  BY <1>2 DEF Unspoilt
<1>4. Matches # {} => /\ Full(f, tournament, list, P) /\ Resets(f, tournament.matches, list)
                      /\ Stands(f, tournament)
  <2> SUFFICES ASSUME Matches # {}
               PROVE  /\ Full(f, tournament, list, P) /\ Resets(f, tournament.matches, list)
                      /\ Stands(f, tournament)
    OBVIOUS
  <2>1. Unspoilt /\ f.mode # "RR"
    BY <1>2, <1>3 DEF Unspoilt
  <2>2. Full(f, tournament, list, P)
    BY <2>1, FullNow
  <2> QED
    BY <1>2, <1>3, <2>1, <2>2 DEF ResetInv, BracketSound, WinnerInv, WinnerFirm
<1> HIDE DEF list, P
<1>5. Resets(f, tournament'.matches, list)
  <2>1. ASSUME tournament'.matches = tournament.matches
        PROVE  Resets(f, tournament'.matches, list)
    <3>1. Matches # {}
      BY <2>1 DEF Unspoilt, Matches
    <3> QED
      BY <1>4, <2>1, <3>1
  <2>2. ASSUME NEW m \in Matches, NEW who \in Contestants \cup {None}, EnterResult(m, who)
        PROVE  Resets(f, tournament'.matches, list)
    BY <1>2, <1>3, <1>4, <2>2, EnterResultResets
  <2>3. ASSUME NEW w \in Workers, SubmitScores(w)
        PROVE  Resets(f, tournament'.matches, list)
    <3>1. Matches # {}
      BY <2>3 DEF SubmitScores, StillValid, Known
    <3> QED
      BY <1>2, <1>3, <1>4, <2>3, <3>1, SubmitScoresResets
  <2>4. ASSUME NEW w \in Workers, CorrectResult(w)
        PROVE  Resets(f, tournament'.matches, list)
    <3>1. Matches # {}
      BY <2>4 DEF CorrectResult, Known
    <3> QED
      BY <1>2, <1>3, <1>4, <2>4, <3>1, CorrectResultResets
  <2>5. ASSUME NEW w \in Workers, GenerateBracket(w)
        PROVE  Resets(f, tournament'.matches, list)
    BY <1>3, <2>5, GenerateBracketResets DEF list
  <2>6. ASSUME NEW w \in Workers,
               \/ RequestBracket(w)
               \/ \E m \in Matches : \E who \in Contestants \cup {None} : CheckScores(w, m, who)
               \/ \E m \in Matches : OpenCorrection(w, m)
               \/ \E new \in Statuses : ChangeStatus(w, new)
               \/ RereadTournament(w)
               \/ \E c \in Contestants, confirming \in BOOLEAN : FindTeamEntries(w, c, confirming)
               \/ DeleteTeamRow(w)
               \/ Abandon(w)
        PROVE  tournament'.matches = tournament.matches
    BY <2>6 DEF RequestBracket, CheckScores, OpenCorrection, ChangeStatus, RereadTournament,
       FindTeamEntries, DeleteTeamRow, Abandon
  <2>7. ASSUME NEW w \in Workers, WriteStatus(w) \/ ClearTeamWinner(w)
        PROVE  tournament'.matches = tournament.matches
    BY <2>7 DEF WriteStatus, ClearTeamWinner, BracketSound, BracketInv, Tournaments
  <2>8. /\ \A c \in Contestants : ~RemoveContestant(c) /\ ~RemoveUnplaced(c)
        /\ \A w \in Workers : ~RemoveTeam(w) /\ \A c \in Contestants : ~DeleteTeamEntries(w, c)
    BY <1>2, <1>3, NobodyLeft
  <2>9. CASE ResultEntered
    BY <2>2, <2>9 DEF ResultEntered
  <2> QED
    BY <2>1, <2>3, <2>4, <2>5, <2>6, <2>7, <2>8, <2>9 DEF Next
<1> QED
  BY <1>2, <1>5

LEMMA NextReset ==
  BracketSound /\ BracketSound' /\ ResetInv /\ [HistoryNext]_historyVars => ResetInv'
<1> SUFFICES ASSUME BracketSound, BracketSound', ResetInv, [HistoryNext]_historyVars PROVE ResetInv'
  OBVIOUS
<1>1. CASE HistoryNext
  BY <1>1, StepResets DEF HistoryNext
<1>2. CASE UNCHANGED historyVars
  <2> USE <1>2 DEF historyVars, vars
  <2>1. Active' = Active /\ Everyone' = Everyone
    BY DEF Active, Everyone
  <2>2. Entries' = Entries
    BY <2>1 DEF Entries
  <2> QED
    BY <2>1, <2>2 DEF ResetInv, Unspoilt, Everybody, Matches
<1> QED
  BY <1>1, <1>2

LEMMA InitReset == HistoryInit => ResetInv
<1> SUFFICES ASSUME HistoryInit PROVE Matches = {}
  BY DEF ResetInv, Unspoilt
<1>1. tournament.matches = <<>>
  BY DEF HistoryInit, Init
<1> QED
  BY <1>1 DEF Matches

-----------------------------------------------------------------------------
(* Everybody else is beaten *)

LEMMA LostForm ==
  ASSUME NEW rank, NEW list, NEW P, Whole(format, tournament.matches, rank, list, P), NEW c
  PROVE  Lost(c) = Losses(tournament.matches, c)
<1> DEFINE M == tournament.matches
<1>1. \A x \in DOMAIN M : Beaten(M, c, x) <=> /\ M[x].confirmed
                                             /\ Winner(M[x].entries) \notin {c, None}
                                             /\ c \in Standing(M, x)
  BY BeatenForm
<1>2. \A x : Standing(M, x) = Who(x) /\ Match(x) = M[x]
  BY DEF Standing, Who, Match
<1>3. Matches = DOMAIN M
  BY DEF Matches
<1> HIDE DEF M
<1> QED
  BY <1>1, <1>2, <1>3 DEF Lost, Losses, M

LEMMA EndsPlayed ==
  ASSUME NEW f, NEW M, NEW rank, NEW list, NEW P, Whole(f, M, rank, list, P), f.mode = "DE",
         NEW E \in Ends(f, M), M[E].confirmed
  PROVE  Played(f, M, rank, list, P)
<1>1. Finals(f, M) /\ M \in Brackets /\ Flow(f, M, rank)
  BY WholeParts
<1>2. LowerFinal(list) \in DOMAIN M /\ M[LowerFinal(list)].next = GrandFinal(0)
  BY DoubleLinked
<1>3. GrandFinal(0) \in DOMAIN M
  BY <1>1, <1>2, BracketParts, GrandFinals
<1>4. E \in {GrandFinal(0), GrandFinal(1)} /\ E \in DOMAIN M
  BY <1>1, <1>3 DEF Finals, Ends
<1>5. M[GrandFinal(0)].confirmed
  BY <1>1, <1>4 DEF Flow
<1> QED
  BY <1>3, <1>5 DEF Played

\* When an elimination is won and nobody has left it, every other contestant
\* has been beaten: once in a single elimination; twice in a double
\* elimination, where only the loser of a grand final without a reset may
\* have lost once; and the winner was never beaten out.  This holds for
\* brackets of every size, however often their results were corrected
\* (_advance_loser_to_lb, _create_bracket_reset).
THEOREM EverybodyElseBeaten == HistorySpec => []OthersBeaten
<1>1. BracketSound /\ ResetInv => OthersBeaten
  <2> SUFFICES ASSUME BracketSound, ResetInv, tournament.winner # None, Everybody, ~marred, ~raced,
                      NEW c \in Everyone
               PROVE  LET losses == Cardinality(Lost(c))
                      IN  IF format.mode = "SE" THEN losses = (IF c = tournament.winner THEN 0 ELSE 1)
                          ELSE IF c = tournament.winner THEN losses < 2
                          ELSE losses = 2 \/ (losses = 1 /\ ~format.reset)
    BY DEF OthersBeaten
  <2> DEFINE M == tournament.matches
             list == Entries
             P == Active
             f == format
  <2>1. Stands(f, tournament)
    BY DEF BracketSound, WinnerInv, WinnerFirm
  <2>2. PICK E \in Ends(f, M) : M[E].confirmed /\ Takes(M[E]) = tournament.winner
    BY <2>1 DEF Stands
  <2>3. E \in DOMAIN M /\ f.mode \in {"SE", "DE"}
    BY DEF Ends, Deciding
  <2>4. Unspoilt
    BY <2>3 DEF Unspoilt, Matches
  <2>5. Full(f, tournament, list, P)
    BY <2>3, <2>4, FullNow
  <2>6. c \in P
    BY DEF Everybody
  <2>7. f.mode = "DE" => Resets(f, M, list)
    BY <2>4 DEF ResetInv
  <2> HIDE DEF list, P
  <2>8. PICK rank : Whole(f, M, rank, list, P)
    BY <2>5 DEF Full
  <2>9. Lost(c) = Losses(M, c)
    BY <2>8, LostForm
  <2>10. CASE f.mode = "SE"
    <3>1. Cardinality(Losses(M, c)) = IF c = Takes(M[E]) THEN 0 ELSE 1
      BY <2>2, <2>6, <2>8, <2>10, SingleBeaten
    <3> QED
      BY <2>2, <2>9, <2>10, <3>1
  <2>11. CASE f.mode = "DE"
    <3>1. Played(f, M, rank, list, P)
      BY <2>2, <2>8, <2>11, EndsPlayed
    <3>2. LossesRight(f, M, E, c)
      BY <2>2, <2>6, <2>7, <2>11, <3>1, DoubleBeaten
    <3>3. IF c = Takes(M[E]) THEN Cardinality(Losses(M, c)) < 2
          ELSE Cardinality(Losses(M, c)) = 2 \/ (Cardinality(Losses(M, c)) = 1 /\ ~f.reset)
      BY <3>2 DEF LossesRight
    <3> QED
      BY <2>2, <2>9, <2>11, <3>3
  <2> QED
    BY <2>3, <2>10, <2>11
<1>2. HistorySpec => [](BracketInv /\ FlowInv)
  BY Flows
<1>3. HistorySpec => [](BracketInv /\ DrawInv)
  BY Drawings
<1>4. BracketInv /\ DrawInv /\ FlowInv /\ WinnerInv => BracketSound
  BY DEF BracketSound
<1> QED
  BY <1>1, <1>2, <1>3, <1>4, InitWinner, NextWinner, InitReset, NextReset, PTL DEF HistorySpec
=============================================================================
