---------------------- MODULE TournamentBracketFlowProofs ----------------------
(***************************************************************************)
(* Theorems about who moves where in a bracket, for any number of          *)
(* contestants and workers and any formats: how a contestant came to stand *)
(* in a match, that nobody is lost on the way, and that the tournament's   *)
(* row names whoever took the deciding match.  The argument is one about   *)
(* paths: with a result a contestant goes to one match at most, so all the *)
(* matches somebody stands in lie on one path, and what is behind a match  *)
(* that is still open is open too.                                         *)
(***************************************************************************)
EXTENDS TournamentBracketProofs

-----------------------------------------------------------------------------
(* The flow of contestants through matches M *)

Standing(M, m) == Entrants(M[m].entries)

\* Match x has sent contestant c to match m, or would have to: its winner,
\* its loser, the only one in it, and everybody to a bracket reset.
Gives(M, x, m, c) ==
  \E e \in M[x].entries :
    /\ e.who = c
    /\ \/ /\ M[x].next = m
          /\ m = GrandFinal(1) \/ M[x].entries = {e} \/ (M[x].confirmed /\ e.score = 1)
       \/ M[x].loserNext = m /\ M[x].confirmed /\ e.score = 0

\* An open match whose only contestant went on from it.
Passing(M, m) ==
  /\ ~M[m].confirmed
  /\ M[m].next # None
  /\ \E e \in M[m].entries : M[m].entries = {e} /\ e.who \in Standing(M, M[m].next)

\* Nothing more is expected from a match.
Quiet(M, m) == M[m].confirmed \/ M[m].entries = {} \/ Passing(M, m)

\* Match x is m or one of those that lead to m, over others if need be.
Leads(M, x, m) ==
  \A S \in SUBSET DOMAIN M : m \in S /\ (\A y \in S : Feeders(M, y) \subseteq S) => x \in S

Settled(M, m) == \A x \in DOMAIN M : Leads(M, x, m) => Quiet(M, x)

\* Neither the match nor any it leads to has sent somebody on.
Calm(M, m) == \A x \in DOMAIN M : Leads(M, m, x) => ~M[x].confirmed /\ ~Passing(M, x)

\* The links lead upwards, at most two of them to a match.
Layout(f, M, rank) ==
  /\ rank \in [Ids -> Nat]
  /\ rank[GrandFinal(0)] < rank[GrandFinal(1)]
  /\ \A x \in DOMAIN M :
       /\ M[x].next # None => rank[x] < rank[M[x].next]
       /\ M[x].loserNext # None => /\ rank[x] < rank[M[x].loserNext]
                                   /\ M[x].next # None
                                   /\ M[x].loserNext # M[x].next
                                   /\ M[x].loserNext # GrandFinal(0)
                                   /\ x # GrandFinal(0)
       /\ x \in Starting <=> rank[x] = 0
       /\ f.mode = "RR" => M[x].next = None /\ M[x].loserNext = None
       /\ \A a, b, c \in Feeders(M, x) : a = b \/ b = c \/ a = c

\* At most two contestants in a match, each once.
Pairs(M) ==
  \A x \in DOMAIN M :
    /\ \A d, e \in M[x].entries : d.who = e.who => d = e
    /\ \A c, d, e \in M[x].entries : c = d \/ d = e \/ c = e

Earned(M) ==
  \A m \in DOMAIN M \ Starting : \A c \in Standing(M, m) : \E x \in DOMAIN M : Gives(M, x, m, c)

\* In an elimination everybody starts in one match.
StartOnce(f, M) ==
  f.mode # "RR" =>
    \A x, y \in DOMAIN M \cap Starting : \A c \in Standing(M, x) \cap Standing(M, y) : x = y

\* Open matches have no scores; a confirmed one has a winner and a loser,
\* or only one contestant.
Decided(match) ==
  IF ~match.confirmed THEN \A e \in match.entries : e.score = None
  ELSE \/ \E e \in match.entries : match.entries = {e} /\ e.score = None
       \/ \E d, e \in match.entries : match.entries = {d, e} /\ d.score = 1 /\ e.score = 0

Scores(f, M) == f.mode # "RR" => \A x \in DOMAIN M : Decided(M[x])

\* Whoever was sent on came from a match nothing is open behind.
Ordered(M) == \A x \in DOMAIN M : M[x].confirmed \/ Passing(M, x) => Settled(M, x)

Flow(f, M, rank) ==
  /\ Layout(f, M, rank)
  /\ Pairs(M)
  /\ Earned(M)
  /\ StartOnce(f, M)
  /\ Scores(f, M)
  /\ Ordered(M)
  /\ GrandFinal(1) \in DOMAIN M => M[GrandFinal(0)].confirmed

\* Whoever has not left stands where a confirmed match sent them; the
\* matches E have yet to do so, or to take it back.
Carried(M, active, E) ==
  \A x \in DOMAIN M \ E : \A k \in DOMAIN M : \A c \in active :
    M[x].confirmed /\ Gives(M, x, k, c) => c \in Standing(M, k)

-----------------------------------------------------------------------------
(* Which matches lead to which *)

LEMMA LeadsSelf ==
  ASSUME NEW M, NEW m
  PROVE  Leads(M, m, m)
BY DEF Leads

LEMMA LeadsOn ==
  ASSUME NEW M, NEW m \in DOMAIN M, NEW y \in DOMAIN M, Leads(M, y, m), NEW x \in Feeders(M, y)
  PROVE  Leads(M, x, m)
BY DEF Leads

LEMMA LeadsOver ==
  ASSUME NEW M, NEW x, NEW y \in DOMAIN M, NEW z \in DOMAIN M, Leads(M, x, y), Leads(M, y, z)
  PROVE  Leads(M, x, z)
<1> SUFFICES ASSUME NEW S \in SUBSET DOMAIN M, z \in S, \A v \in S : Feeders(M, v) \subseteq S
             PROVE  x \in S
  BY DEF Leads
<1>1. y \in S
  BY DEF Leads
<1> QED
  BY <1>1 DEF Leads

\* The last step of the way, and the first.
LEMMA LeadsLast ==
  ASSUME NEW M, NEW x, NEW m \in DOMAIN M, Leads(M, x, m)
  PROVE  x \in DOMAIN M /\ (x = m \/ \E y \in Feeders(M, m) : Leads(M, x, y))
<1> DEFINE S == {m} \cup {z \in DOMAIN M : \E y \in Feeders(M, m) : Leads(M, z, y)}
<1>1. \A v : Feeders(M, v) \subseteq DOMAIN M
  BY DEF Feeders
<1>2. ASSUME NEW v \in S, NEW z \in Feeders(M, v) PROVE z \in S
  <2>1. z \in DOMAIN M
    BY <1>1
  <2>2. CASE v = m
    BY <2>1, <2>2, LeadsSelf
  <2>3. CASE v # m
    <3>1. PICK y \in Feeders(M, m) : Leads(M, v, y)
      BY <2>3
    <3>2. v \in DOMAIN M /\ y \in DOMAIN M
      BY <1>1, <2>3
    <3>3. Leads(M, z, y)
      BY <3>1, <3>2, LeadsOn
    <3> QED
      BY <2>1, <3>3
  <2> QED
    BY <2>2, <2>3
<1>3. S \in SUBSET DOMAIN M /\ m \in S
  OBVIOUS
<1> HIDE DEF S
<1>4. x \in S
  BY <1>2, <1>3 DEF Leads
<1> QED
  BY <1>4 DEF S

LEMMA LeadsFirst ==
  ASSUME NEW M, NEW x, NEW m \in DOMAIN M, Leads(M, x, m)
  PROVE  x = m \/ \E y \in DOMAIN M : x \in Feeders(M, y) /\ Leads(M, y, m)
<1> DEFINE S == {z \in DOMAIN M : /\ Leads(M, z, m)
                                  /\ z = m \/ \E y \in DOMAIN M : z \in Feeders(M, y) /\ Leads(M, y, m)}
<1>1. \A v : Feeders(M, v) \subseteq DOMAIN M
  BY DEF Feeders
<1>2. ASSUME NEW v \in S, NEW z \in Feeders(M, v) PROVE z \in S
  BY <1>1, LeadsOn
<1>3. S \in SUBSET DOMAIN M /\ m \in S
  BY LeadsSelf
<1> HIDE DEF S
<1>4. x \in S
  BY <1>2, <1>3 DEF Leads
<1> QED
  BY <1>4 DEF S

LEMMA LeadsUp ==
  ASSUME NEW f, NEW M, NEW rank, Layout(f, M, rank), DOMAIN M \subseteq Ids, None \notin Ids,
         NEW x, NEW m \in DOMAIN M, Leads(M, x, m)
  PROVE  x \in DOMAIN M /\ rank[x] <= rank[m] /\ (x # m => rank[x] < rank[m])
<1> DEFINE S == {z \in DOMAIN M : rank[z] <= rank[m] /\ (z # m => rank[z] < rank[m])}
<1>1. \A v \in DOMAIN M : rank[v] \in Nat /\ v # None
  BY DEF Layout
<1>2. ASSUME NEW v \in S, NEW z \in Feeders(M, v) PROVE z \in S
  <2>1. z \in DOMAIN M /\ v \in {M[z].next, M[z].loserNext} /\ v \in DOMAIN M
    BY DEF Feeders
  <2>2. rank[z] < rank[v]
    BY <1>1, <2>1 DEF Layout
  <2>3. rank[z] \in Nat /\ rank[v] \in Nat /\ rank[m] \in Nat /\ rank[v] <= rank[m]
    BY <1>1, <2>1
  <2> QED
    BY <2>1, <2>2, <2>3
<1>3. S \in SUBSET DOMAIN M /\ m \in S
  BY <1>1
<1> HIDE DEF S
<1>4. x \in S
  BY <1>2, <1>3 DEF Leads
<1> QED
  BY <1>4 DEF S

\* A match is settled if those that feed it are and it is quiet itself.
LEMMA SettledByFeeders ==
  ASSUME NEW M, NEW m \in DOMAIN M, Quiet(M, m), \A x \in Feeders(M, m) : Settled(M, x)
  PROVE  Settled(M, m)
<1> SUFFICES ASSUME NEW x \in DOMAIN M, Leads(M, x, m) PROVE Quiet(M, x)
  BY DEF Settled
<1>1. x = m \/ \E y \in Feeders(M, m) : Leads(M, x, y)
  BY LeadsLast
<1> QED
  BY <1>1 DEF Settled

LEMMA FeedersSettled ==
  ASSUME NEW M, NEW m \in DOMAIN M, Settled(M, m), NEW x \in Feeders(M, m)
  PROVE  Settled(M, x)
<1>1. x \in DOMAIN M
  BY DEF Feeders
<1>2. Leads(M, x, m)
  BY LeadsSelf, LeadsOn
<1> QED
  BY <1>1, <1>2, LeadsOver DEF Settled

\* Those behind a match that is not quiet are calm, and it is calm itself.
LEMMA CalmBehind ==
  ASSUME NEW M, Ordered(M), NEW m \in DOMAIN M, ~Quiet(M, m)
  PROVE  Calm(M, m)
BY DEF Ordered, Settled, Calm

LEMMA CalmOn ==
  ASSUME NEW M, NEW m \in DOMAIN M, Calm(M, m), NEW k \in DOMAIN M, m \in Feeders(M, k)
  PROVE  Calm(M, k)
<1>1. Leads(M, m, k)
  BY LeadsSelf, LeadsOn
<1> QED
  BY <1>1, LeadsOver DEF Calm
-----------------------------------------------------------------------------
(* The way of a contestant *)

LEMMA BracketParts ==
  ASSUME NEW M \in Brackets
  PROVE  /\ DOMAIN M \subseteq Ids /\ None \notin Ids /\ None \notin DOMAIN M
         /\ IsFiniteSet(DOMAIN M)
         /\ \A x \in DOMAIN M :
              /\ M[x].next \in DOMAIN M \cup {None}
              /\ M[x].loserNext \in DOMAIN M \cup {None}
              /\ M[x].next = GrandFinal(1) => x = GrandFinal(0)
              /\ M[x].loserNext # GrandFinal(1)
         /\ GrandFinal(1) \in DOMAIN M =>
              /\ GrandFinal(0) \in DOMAIN M
              /\ M[GrandFinal(0)].next = GrandFinal(1)
              /\ M[GrandFinal(1)].next = None
              /\ M[GrandFinal(1)].loserNext = None
<1>1. DOMAIN M \in Plans /\ ResetLinked(M)
  BY BracketsForm
<1>2. DOMAIN M \subseteq Ids /\ None \notin Ids /\ IsFiniteSet(DOMAIN M)
  BY <1>1, GrandFinals DEF Plans
<1>3. \A x \in DOMAIN M : /\ M[x].next \in DOMAIN M \cup {None}
                          /\ M[x].loserNext \in DOMAIN M \cup {None}
  BY MatchType
<1> QED
  BY <1>1, <1>2, <1>3 DEF ResetLinked

LEMMA InStanding ==
  ASSUME NEW M, NEW m, NEW c
  PROVE  c \in Standing(M, m) <=> \E e \in M[m].entries : e.who = c
BY DEF Standing, Entrants

LEMMA GivesForm ==
  ASSUME NEW M, NEW x \in DOMAIN M, NEW m \in DOMAIN M, NEW c, Gives(M, x, m, c)
  PROVE  /\ c \in Standing(M, x)
         /\ x \in Feeders(M, m)
         /\ M[x].next = m \/ M[x].loserNext = m
BY InStanding DEF Gives, Feeders

\* A match sends nobody to two others.
LEMMA GivesOnce ==
  ASSUME NEW f, NEW M \in Brackets, NEW rank, Flow(f, M, rank), NEW x \in DOMAIN M,
         NEW a \in DOMAIN M, NEW b \in DOMAIN M, NEW c, Gives(M, x, a, c), Gives(M, x, b, c)
  PROVE  a = b
<1>1. /\ a # None /\ b # None
      /\ M[x].next = GrandFinal(1) => x = GrandFinal(0)
      /\ M[x].loserNext # GrandFinal(1)
  BY BracketParts
<1>2. f.mode # "RR" /\ (M[x].loserNext # None => x # GrandFinal(0))
  BY <1>1 DEF Flow, Layout, Gives
<1>3. Decided(M[x])
  BY <1>2 DEF Flow, Scores
<1>4. \A d, e \in M[x].entries : d.who = e.who => d = e
  BY DEF Flow, Pairs
<1>5. None # 0 /\ None # 1
  BY NoneApart
<1>6. PICK e \in M[x].entries :
        /\ e.who = c
        /\ \/ /\ M[x].next = a
              /\ a = GrandFinal(1) \/ M[x].entries = {e} \/ (M[x].confirmed /\ e.score = 1)
           \/ M[x].loserNext = a /\ M[x].confirmed /\ e.score = 0
  BY DEF Gives
<1>7. PICK d \in M[x].entries :
        /\ d.who = c
        /\ \/ /\ M[x].next = b
              /\ b = GrandFinal(1) \/ M[x].entries = {d} \/ (M[x].confirmed /\ d.score = 1)
           \/ M[x].loserNext = b /\ M[x].confirmed /\ d.score = 0
  BY DEF Gives
<1>8. d = e
  BY <1>4, <1>6, <1>7
<1>9. ~(M[x].confirmed /\ e.score = 0 /\ M[x].entries = {e})
  BY <1>3, <1>5 DEF Decided
<1> QED
  BY <1>1, <1>2, <1>5, <1>6, <1>7, <1>8, <1>9

\* Nor does it send two to one match, but to a bracket reset.
LEMMA GivesOne ==
  ASSUME NEW f, NEW M \in Brackets, NEW rank, Flow(f, M, rank), NEW x \in DOMAIN M,
         NEW m \in DOMAIN M, m # GrandFinal(1), NEW a, NEW b, Gives(M, x, m, a), Gives(M, x, m, b)
  PROVE  a = b
<1>1. /\ m # None
      /\ M[x].next = m => M[x].loserNext # m
      /\ f.mode # "RR"
  BY BracketParts DEF Flow, Layout, Gives
<1>2. Decided(M[x])
  BY <1>1 DEF Flow, Scores
<1>3. PICK d \in M[x].entries :
        /\ d.who = a
        /\ \/ M[x].next = m /\ (M[x].entries = {d} \/ (M[x].confirmed /\ d.score = 1))
           \/ M[x].loserNext = m /\ M[x].confirmed /\ d.score = 0
  BY DEF Gives
<1>4. PICK e \in M[x].entries :
        /\ e.who = b
        /\ \/ M[x].next = m /\ (M[x].entries = {e} \/ (M[x].confirmed /\ e.score = 1))
           \/ M[x].loserNext = m /\ M[x].confirmed /\ e.score = 0
  BY DEF Gives
<1>5. CASE M[x].entries = {d} \/ M[x].entries = {e}
  BY <1>3, <1>4, <1>5
<1>6. CASE M[x].confirmed /\ d.score = e.score /\ d.score \in {0, 1}
  BY <1>2, <1>3, <1>4, <1>6, NoneApart DEF Decided
<1> QED
  BY <1>1, <1>3, <1>4, <1>5, <1>6

\* Whoever stands in two matches went from the lower one, by its result or
\* as the only one in it, to a match that is not above the other.
OnTheWay(M, rank, n) ==
  \A x \in DOMAIN M : \A y \in DOMAIN M : \A c \in Standing(M, x) \cap Standing(M, y) :
    x # y /\ rank[x] <= rank[y] /\ rank[y] <= n =>
      /\ rank[x] < rank[y]
      /\ \E k \in DOMAIN M : Gives(M, x, k, c) /\ c \in Standing(M, k) /\ rank[k] <= rank[y]

LEMMA OnTheWayUp ==
  ASSUME NEW f, NEW M \in Brackets, NEW rank, Flow(f, M, rank), f.mode # "RR",
         NEW n \in Nat, OnTheWay(M, rank, n)
  PROVE  OnTheWay(M, rank, n + 1)
<1>1. /\ DOMAIN M \subseteq Ids
      /\ rank \in [Ids -> Nat]
      /\ \A x \in DOMAIN M : rank[x] \in Nat /\ (x \in Starting <=> rank[x] = 0)
      /\ \A x \in DOMAIN M : \A k \in DOMAIN M : \A c : Gives(M, x, k, c) => rank[x] < rank[k]
  <2>1. DOMAIN M \subseteq Ids /\ None \notin DOMAIN M
    BY BracketParts
  <2> QED
    BY <2>1 DEF Flow, Layout, Gives
<1>2. ASSUME NEW x \in DOMAIN M, NEW c \in Standing(M, x), x \notin Starting
      PROVE  \E z \in DOMAIN M : Gives(M, z, x, c) /\ c \in Standing(M, z) /\ rank[z] < rank[x]
  BY <1>1, <1>2, GivesForm DEF Flow, Earned
<1>3. ASSUME NEW x \in DOMAIN M, NEW y \in DOMAIN M, NEW c \in Standing(M, x) \cap Standing(M, y),
             x # y, rank[x] <= rank[y], rank[y] = n + 1
      PROVE  /\ rank[x] < rank[y]
             /\ \E k \in DOMAIN M : Gives(M, x, k, c) /\ c \in Standing(M, k) /\ rank[k] <= rank[y]
  <2>1. PICK z \in DOMAIN M : Gives(M, z, y, c) /\ c \in Standing(M, z) /\ rank[z] < rank[y]
    BY <1>1, <1>2, <1>3
  <2>2. rank[x] \in Nat /\ rank[y] \in Nat /\ rank[z] \in Nat /\ rank[z] <= n
    BY <1>1, <1>3, <2>1
  <2>3. CASE z = x
    BY <1>3, <2>1, <2>2, <2>3
  <2>4. CASE z # x /\ rank[x] <= rank[z]
    <3>1. /\ rank[x] < rank[z]
          /\ \E k \in DOMAIN M : Gives(M, x, k, c) /\ c \in Standing(M, k) /\ rank[k] <= rank[z]
      BY <1>3, <2>1, <2>2, <2>4 DEF OnTheWay
    <3> QED
      BY <1>1, <1>3, <2>2, <3>1
  <2>5. CASE z # x /\ rank[z] < rank[x] /\ rank[x] <= n
    <3>1. PICK k \in DOMAIN M : Gives(M, z, k, c) /\ rank[k] <= rank[x]
      BY <1>3, <2>1, <2>2, <2>5 DEF OnTheWay
    <3>2. k = y
      BY <2>1, <3>1, GivesOnce
    <3> QED
      BY <1>3, <2>2, <2>5, <3>1, <3>2
  <2>6. CASE z # x /\ rank[z] < rank[x] /\ rank[x] = n + 1
    <3>1. PICK v \in DOMAIN M : Gives(M, v, x, c) /\ c \in Standing(M, v) /\ rank[v] < rank[x]
      BY <1>1, <1>2, <1>3, <2>6
    <3>2. rank[v] \in Nat /\ rank[v] <= n
      BY <1>1, <1>3, <2>6, <3>1
    <3>3. v # z
      BY <1>3, <2>1, <3>1, GivesOnce
    <3>4. CASE rank[z] <= rank[v]
      <4>1. PICK k \in DOMAIN M : Gives(M, z, k, c) /\ rank[k] <= rank[v]
        BY <2>1, <3>1, <3>2, <3>3, <3>4 DEF OnTheWay
      <4>2. k = y
        BY <2>1, <4>1, GivesOnce
      <4> QED
        BY <1>3, <2>2, <3>2, <4>1, <4>2
    <3>5. CASE rank[v] <= rank[z]
      <4>1. PICK k \in DOMAIN M : Gives(M, v, k, c) /\ rank[k] <= rank[z]
        BY <2>1, <2>2, <3>1, <3>3, <3>5 DEF OnTheWay
      <4>2. k = x
        BY <3>1, <4>1, GivesOnce
      <4> QED
        BY <2>2, <2>6, <4>1, <4>2
    <3> QED
      BY <2>2, <3>2, <3>4, <3>5
  <2> QED
    BY <1>3, <2>2, <2>3, <2>4, <2>5, <2>6
<1> QED
  BY <1>1, <1>3 DEF OnTheWay

LEMMA Path ==
  ASSUME NEW f, NEW M \in Brackets, NEW rank, Flow(f, M, rank), f.mode # "RR",
         NEW x \in DOMAIN M, NEW y \in DOMAIN M, NEW c \in Standing(M, x) \cap Standing(M, y),
         x # y, rank[x] <= rank[y]
  PROVE  /\ rank[x] < rank[y]
         /\ \E k \in DOMAIN M : Gives(M, x, k, c) /\ c \in Standing(M, k) /\ rank[k] <= rank[y]
<1> DEFINE S == {n \in Nat : OnTheWay(M, rank, n)}
<1>1. \A z \in DOMAIN M : rank[z] \in Nat /\ (z \in Starting <=> rank[z] = 0)
  BY BracketParts DEF Flow, Layout
<1>2. 0 \in S
  <2>1. ASSUME NEW a \in DOMAIN M, NEW b \in DOMAIN M, NEW d \in Standing(M, a) \cap Standing(M, b),
               a # b, rank[a] <= rank[b], rank[b] <= 0
        PROVE  FALSE
    BY <1>1, <2>1 DEF Flow, StartOnce
  <2> QED
    BY <2>1 DEF OnTheWay
<1>3. ASSUME NEW n \in Nat, n \in S PROVE n + 1 \in S
  BY <1>3, OnTheWayUp
<1> HIDE DEF S
<1>4. Nat \subseteq S
  BY <1>2, <1>3, Induction
<1>5. OnTheWay(M, rank, rank[y])
  BY <1>1, <1>4 DEF S
<1> QED
  BY <1>1, <1>5 DEF OnTheWay

\* Two matches never send the same contestant to one.
LEMMA GivenByOne ==
  ASSUME NEW f, NEW M \in Brackets, NEW rank, Flow(f, M, rank), NEW x \in DOMAIN M,
         NEW y \in DOMAIN M, NEW m \in DOMAIN M, NEW c, Gives(M, x, m, c), Gives(M, y, m, c)
  PROVE  x = y
<1>1. /\ f.mode # "RR" /\ rank[x] < rank[m] /\ rank[y] < rank[m]
      /\ rank[x] \in Nat /\ rank[y] \in Nat /\ rank[m] \in Nat
  BY BracketParts DEF Flow, Layout, Gives
<1>2. c \in Standing(M, x) \cap Standing(M, y)
  BY GivesForm
<1>3. ASSUME NEW a \in {x, y}, NEW b \in {x, y}, a # b, rank[a] <= rank[b] PROVE FALSE
  <2>1. PICK k \in DOMAIN M : Gives(M, a, k, c) /\ rank[k] <= rank[b]
    BY <1>1, <1>2, <1>3, Path
  <2>2. k = m
    BY <2>1, GivesOnce
  <2> QED
    BY <1>1, <2>1, <2>2
<1> QED
  BY <1>1, <1>3

\* Whoever stands in a match and in one it leads to was sent on from it.
LEMMA SentOn ==
  ASSUME NEW f, NEW M \in Brackets, NEW rank, Flow(f, M, rank), NEW x \in DOMAIN M,
         NEW m \in DOMAIN M, rank[x] < rank[m],
         f.mode # "RR", NEW c \in Standing(M, x) \cap Standing(M, m)
  PROVE  \E k \in DOMAIN M : Gives(M, x, k, c) /\ c \in Standing(M, k) /\ rank[k] <= rank[m]
<1>1. rank[x] \in Nat /\ rank[m] \in Nat
  BY BracketParts DEF Flow, Layout
<1> QED
  BY <1>1, Path
\* An open match that somebody went on from has nobody else in it.
LEMMA WentOn ==
  ASSUME NEW f, NEW M \in Brackets, NEW rank, Flow(f, M, rank), f.mode # "RR",
         NEW x \in DOMAIN M, ~M[x].confirmed, NEW m \in DOMAIN M, rank[x] < rank[m],
         NEW c \in Standing(M, x) \cap Standing(M, m)
  PROVE  /\ Passing(M, x)
         /\ \E e \in M[x].entries : M[x].entries = {e} /\ e.who = c
<1>1. PICK k \in DOMAIN M : Gives(M, x, k, c) /\ c \in Standing(M, k)
  BY SentOn
<1>2. /\ k # None
      /\ M[x].next = GrandFinal(1) => x = GrandFinal(0)
  BY BracketParts
<1>3. x = GrandFinal(0) => GrandFinal(1) \notin DOMAIN M
  BY DEF Flow
<1>4. PICK e \in M[x].entries : e.who = c /\ M[x].next = k /\ M[x].entries = {e}
  BY <1>1, <1>2, <1>3 DEF Gives
<1> QED
  BY <1>1, <1>2, <1>4 DEF Passing

\* An open match sends somebody on only by passing them on.
LEMMA OpenGives ==
  ASSUME NEW f, NEW M \in Brackets, NEW rank, Flow(f, M, rank),
         NEW x \in DOMAIN M, ~M[x].confirmed, NEW m \in DOMAIN M, NEW c, Gives(M, x, m, c)
  PROVE  /\ M[x].next = m /\ m # None
         /\ \E e \in M[x].entries : M[x].entries = {e} /\ e.who = c
         /\ c \in Standing(M, m) => Passing(M, x)
<1>2. /\ m # None
      /\ M[x].next = GrandFinal(1) => x = GrandFinal(0)
  BY BracketParts
<1>3. x = GrandFinal(0) => GrandFinal(1) \notin DOMAIN M
  BY DEF Flow
<1>4. PICK e \in M[x].entries : e.who = c /\ M[x].next = m /\ M[x].entries = {e}
  BY <1>2, <1>3 DEF Gives
<1> QED
  BY <1>2, <1>4 DEF Passing

LEMMA Fed ==
  ASSUME NEW f, NEW M \in Brackets, NEW rank, Layout(f, M, rank),
         NEW m \in DOMAIN M, NEW x \in Feeders(M, m)
  PROVE  /\ x \in DOMAIN M /\ x # m
         /\ rank[x] \in Nat /\ rank[m] \in Nat /\ rank[x] < rank[m]
         /\ m \notin Starting /\ f.mode # "RR"
<1>1. x \in DOMAIN M /\ m \in {M[x].next, M[x].loserNext}
  BY DEF Feeders
<1>2. rank[x] \in Nat /\ rank[m] \in Nat /\ m # None
  BY <1>1, BracketParts DEF Layout
<1>3. rank[x] < rank[m] /\ f.mode # "RR"
  BY <1>1, <1>2 DEF Layout
<1> QED
  BY <1>1, <1>2, <1>3 DEF Layout

\* Whoever sent somebody to where they stand is settled.
LEMMA GiverSettled ==
  ASSUME NEW f, NEW M \in Brackets, NEW rank, Flow(f, M, rank), NEW x \in DOMAIN M,
         NEW m \in DOMAIN M, NEW c \in Standing(M, m), Gives(M, x, m, c)
  PROVE  Settled(M, x)
<1>1. M[x].confirmed \/ Passing(M, x)
  BY OpenGives
<1> QED
  BY <1>1 DEF Flow, Ordered

\* What feeds a match of two is settled.
LEMMA BehindPair ==
  ASSUME NEW f, NEW M \in Brackets, NEW rank, Flow(f, M, rank), NEW m \in DOMAIN M,
         NEW a \in Standing(M, m), NEW b \in Standing(M, m), a # b
  PROVE  \A x \in Feeders(M, m) : Settled(M, x)
<1> SUFFICES ASSUME NEW x \in Feeders(M, m) PROVE Settled(M, x)
  OBVIOUS
<1>1. x \in DOMAIN M /\ m \notin Starting
  BY Fed DEF Flow
<1>2. PICK y \in DOMAIN M : Gives(M, y, m, a)
  BY <1>1 DEF Flow, Earned
<1>3. PICK z \in DOMAIN M : Gives(M, z, m, b)
  BY <1>1 DEF Flow, Earned
<1>4. Settled(M, y) /\ Settled(M, z)
  BY <1>2, <1>3, GiverSettled
<1>5. CASE m = GrandFinal(1)
  <2>1. x = GrandFinal(0)
    BY <1>1, <1>5, BracketParts DEF Feeders
  <2>2. M[x].confirmed
    BY <1>5, <2>1 DEF Flow
  <2> QED
    BY <1>1, <2>2 DEF Flow, Ordered
<1>6. CASE m # GrandFinal(1)
  <2>1. y # z
    BY <1>2, <1>3, <1>6, GivesOne
  <2>2. y \in Feeders(M, m) /\ z \in Feeders(M, m)
    BY <1>2, <1>3, GivesForm
  <2>3. x = y \/ x = z
    BY <2>1, <2>2 DEF Flow, Layout
  <2> QED
    BY <1>4, <2>3
<1> QED
  BY <1>5, <1>6

-----------------------------------------------------------------------------
(* The same links *)

LEMMA LinkedLeads ==
  ASSUME NEW M, NEW N, LinkedAs(M, N)
  PROVE  /\ DOMAIN N = DOMAIN M
         /\ \A m : Feeders(N, m) = Feeders(M, m)
         /\ \A x, m : Leads(N, x, m) <=> Leads(M, x, m)
         /\ \A f, rank : Layout(f, M, rank) => Layout(f, N, rank)
<1>1. DOMAIN N = DOMAIN M /\ \A m : Feeders(N, m) = Feeders(M, m)
  BY DEF LinkedAs, Feeders
<1>2. \A x, m : Leads(N, x, m) <=> Leads(M, x, m)
  BY <1>1 DEF Leads
<1>3. ASSUME NEW f, NEW rank, Layout(f, M, rank) PROVE Layout(f, N, rank)
  BY <1>1, <1>3 DEF Layout, LinkedAs
<1> QED
  BY <1>1, <1>2, <1>3

-----------------------------------------------------------------------------
(* A contestant is taken out of open matches *)

\* The rows of contestant c in the matches K go.
Shrinks(M, N, K, c) ==
  /\ LinkedAs(M, N)
  /\ \A x \in DOMAIN M :
       /\ N[x].confirmed = M[x].confirmed
       /\ N[x].entries = IF x \in K THEN {e \in M[x].entries : e.who # c} ELSE M[x].entries

LEMMA ShrinksForm ==
  ASSUME NEW M, NEW N, NEW K, NEW c, Shrinks(M, N, K, c), NEW x \in DOMAIN M
  PROVE  /\ N[x].entries \subseteq M[x].entries
         /\ Standing(N, x) = IF x \in K THEN Standing(M, x) \ {c} ELSE Standing(M, x)
<1>1. N[x].entries = IF x \in K THEN {e \in M[x].entries : e.who # c} ELSE M[x].entries
  BY DEF Shrinks
<1> QED
  BY <1>1 DEF Standing, Entrants

\* The matches are open; where the contestant was passed on from one of
\* them, they are taken out of the next one too, and the other way round.
LEMMA Shrunk ==
  ASSUME NEW f, NEW M \in Brackets, NEW rank, Flow(f, M, rank),
         NEW N \in Brackets, NEW K, NEW c, Shrinks(M, N, K, c),
         \A x \in K : x \in DOMAIN M /\ ~M[x].confirmed,
         \A x \in DOMAIN M : Passing(M, x) /\ c \in Standing(M, x) => (x \in K <=> M[x].next \in K)
  PROVE  /\ Flow(f, N, rank)
         /\ \A x \in DOMAIN M : Passing(N, x) => Passing(M, x)
         /\ \A x \in DOMAIN M : Calm(M, x) => Calm(N, x)
         /\ \A x \in DOMAIN M : Settled(M, x) => Settled(N, x)
<1>1. /\ DOMAIN N = DOMAIN M
      /\ \A x, m : Leads(N, x, m) <=> Leads(M, x, m)
      /\ Layout(f, N, rank)
  BY LinkedLeads DEF Shrinks, Flow
<1>2. \A x \in DOMAIN M : /\ N[x].next = M[x].next /\ N[x].loserNext = M[x].loserNext
                          /\ N[x].confirmed = M[x].confirmed
                          /\ x \notin K => N[x].entries = M[x].entries
  BY DEF Shrinks, LinkedAs
<1>3. \A x \in DOMAIN M : /\ N[x].entries \subseteq M[x].entries
                          /\ Standing(N, x) \subseteq Standing(M, x)
                          /\ x \in K => c \notin Standing(N, x)
                          /\ x \in K => N[x].entries = {e \in M[x].entries : e.who # c}
                          /\ \A d \in Standing(M, x) : d # c \/ x \notin K => d \in Standing(N, x)
  <2> SUFFICES ASSUME NEW x \in DOMAIN M
               PROVE  /\ N[x].entries \subseteq M[x].entries
                      /\ Standing(N, x) = IF x \in K THEN Standing(M, x) \ {c} ELSE Standing(M, x)
                      /\ x \in K => N[x].entries = {e \in M[x].entries : e.who # c}
    OBVIOUS
  <2>1. x \in K => N[x].entries = {e \in M[x].entries : e.who # c}
    BY DEF Shrinks
  <2> QED
    BY <2>1, ShrinksForm
<1>4. /\ Layout(f, M, rank) /\ Pairs(M) /\ Earned(M) /\ StartOnce(f, M) /\ Scores(f, M) /\ Ordered(M)
      /\ GrandFinal(1) \in DOMAIN M => M[GrandFinal(0)].confirmed
  BY DEF Flow
<1>5. Pairs(N)
  BY <1>1, <1>3, <1>4 DEF Pairs
<1>6. StartOnce(f, N)
  BY <1>1, <1>3, <1>4 DEF StartOnce
<1>7. Scores(f, N)
  <2> SUFFICES ASSUME f.mode # "RR", NEW x \in DOMAIN M PROVE Decided(N[x])
    BY <1>1 DEF Scores
  <2>1. Decided(M[x])
    BY <1>4 DEF Scores
  <2> QED
    BY <1>2, <1>3, <2>1 DEF Decided
<1>8. ASSUME NEW m \in DOMAIN M \ Starting, NEW d \in Standing(N, m)
      PROVE  \E x \in DOMAIN M : Gives(N, x, m, d)
  <2>1. d \in Standing(M, m)
    BY <1>3
  <2>2. PICK x \in DOMAIN M : Gives(M, x, m, d)
    BY <1>4, <2>1 DEF Earned
  <2>3. CASE x \notin K
    BY <1>2, <2>2, <2>3 DEF Gives
  <2>4. CASE x \in K
    <3>1. /\ M[x].next = m /\ Passing(M, x) /\ \E e \in M[x].entries : M[x].entries = {e} /\ e.who = d
      BY <2>1, <2>2, <2>4, OpenGives
    <3>2. d \in Standing(M, x)
      BY <2>2, GivesForm
    <3>3. d # c
      BY <1>3, <2>4, <3>1, <3>2
    <3>4. N[x].entries = M[x].entries
      BY <1>3, <2>4, <3>1, <3>3
    <3> QED
      BY <1>2, <2>2, <3>4 DEF Gives
  <2> QED
    BY <2>3, <2>4
<1>9. ASSUME NEW x \in DOMAIN M, Passing(N, x) PROVE Passing(M, x)
  <2>1. PICK e \in N[x].entries : N[x].entries = {e} /\ e.who \in Standing(N, N[x].next)
    BY <1>9 DEF Passing
  <2>2. ~M[x].confirmed /\ M[x].next # None /\ M[x].next \in DOMAIN M
    BY <1>2, <1>9, BracketParts DEF Passing
  <2>3. e.who \in Standing(M, M[x].next) /\ e.who \in Standing(M, x)
    BY <1>2, <1>3, <2>1, <2>2, InStanding
  <2>4. x \in Feeders(M, M[x].next)
    BY <2>2 DEF Feeders
  <2>5. rank[x] < rank[M[x].next] /\ f.mode # "RR"
    BY <1>4, <2>2, <2>4, Fed
  <2> QED
    BY <2>2, <2>3, <2>5, WentOn
<1>10. ASSUME NEW x \in DOMAIN M, Quiet(M, x) PROVE Quiet(N, x)
  <2>1. CASE M[x].confirmed
    BY <1>2, <2>1 DEF Quiet
  <2>2. CASE M[x].entries = {}
    BY <1>3, <2>2 DEF Quiet
  <2>3. CASE Passing(M, x)
    <3>1. PICK e \in M[x].entries : M[x].entries = {e} /\ e.who \in Standing(M, M[x].next)
      BY <2>3 DEF Passing
    <3>2. M[x].next \in DOMAIN M /\ M[x].next # None /\ ~M[x].confirmed
      BY <2>3, BracketParts DEF Passing
    <3>3. CASE x \in K /\ e.who = c
      BY <1>3, <3>1, <3>3 DEF Quiet
    <3>4. CASE x \notin K \/ e.who # c
      <4>1. N[x].entries = {e}
        BY <1>2, <1>3, <3>1, <3>4
      <4>2. e.who # c \/ M[x].next \notin K
        BY <2>3, <3>1, <3>4, InStanding
      <4>3. e.who \in Standing(N, M[x].next)
        BY <1>3, <3>1, <3>2, <4>2
      <4> QED
        BY <1>2, <3>2, <4>1, <4>3 DEF Quiet, Passing
    <3> QED
      BY <3>3, <3>4
  <2> QED
    BY <1>10, <2>1, <2>2, <2>3 DEF Quiet
<1>11. \A x \in DOMAIN M : Settled(M, x) => Settled(N, x)
  BY <1>1, <1>10 DEF Settled
<1>14. Ordered(N)
  BY <1>1, <1>2, <1>4, <1>9, <1>11 DEF Ordered
<1>12. Earned(N)
  BY <1>1, <1>8 DEF Earned
<1>13. GrandFinal(1) \in DOMAIN N => N[GrandFinal(0)].confirmed
  BY <1>1, <1>2, <1>4, BracketParts
<1> QED
  BY <1>1, <1>2, <1>5, <1>6, <1>7, <1>9, <1>11, <1>12, <1>13, <1>14 DEF Flow, Calm

LEMMA ShrunkCarried ==
  ASSUME NEW M \in Brackets, NEW N, NEW K, NEW c, Shrinks(M, N, K, c),
         \A x \in K : x \in DOMAIN M /\ ~M[x].confirmed,
         NEW active, NEW E, NEW now \in SUBSET active, NEW F, Carried(M, active, E), E \subseteq F,
         \/ c \notin now
         \/ \A x \in DOMAIN M \ F : \A k \in K : M[x].confirmed => ~Gives(M, x, k, c)
  PROVE  Carried(N, now, F)
<1>1. DOMAIN N = DOMAIN M
  BY DEF Shrinks, LinkedAs
<1> SUFFICES ASSUME NEW x \in DOMAIN M \ F, NEW k \in DOMAIN M, NEW d \in now,
                    N[x].confirmed, Gives(N, x, k, d)
             PROVE  d \in Standing(N, k)
  BY <1>1 DEF Carried
<1>2. M[x].confirmed /\ x \notin K
  BY DEF Shrinks
<1>3. Gives(M, x, k, d)
  BY <1>2 DEF Shrinks, LinkedAs, Gives
<1>4. d \in Standing(M, k)
  BY <1>2, <1>3 DEF Carried
<1>5. k \notin K \/ d # c
  BY <1>2, <1>3
<1> QED
  BY <1>4, <1>5, ShrinksForm
-----------------------------------------------------------------------------
(* A contestant is sent to a match *)

Grows(M, N, k, c) ==
  /\ LinkedAs(M, N)
  /\ \A x \in DOMAIN M :
       /\ N[x].confirmed = M[x].confirmed
       /\ x # k => N[x].entries = M[x].entries
  /\ \E e : /\ e.who = c /\ e.score = None
            /\ N[k].entries = M[k].entries \cup {e}

\* Somebody has a place in the match they are sent to.
LEMMA RoomFor ==
  ASSUME NEW f, NEW M \in Brackets, NEW rank, Flow(f, M, rank), NEW k \in DOMAIN M,
         NEW x \in DOMAIN M, NEW c, Gives(M, x, k, c), c \notin Standing(M, k)
  PROVE  \A d, e \in M[k].entries : d = e
<1> SUFFICES ASSUME NEW d \in M[k].entries, NEW e \in M[k].entries, d # e PROVE FALSE
  OBVIOUS
<1> DEFINE a == d.who
           b == e.who
<1>1. a \in Standing(M, k) /\ b \in Standing(M, k) /\ a # b
  BY InStanding DEF Flow, Pairs
<1> HIDE DEF a, b
<1>2. k \notin Starting /\ f.mode # "RR"
  BY GivesForm, Fed DEF Flow
<1>3. PICK y \in DOMAIN M : Gives(M, y, k, a)
  BY <1>1, <1>2 DEF Flow, Earned
<1>4. PICK z \in DOMAIN M : Gives(M, z, k, b)
  BY <1>1, <1>2 DEF Flow, Earned
<1>5. c # a /\ c # b
  BY <1>1
<1>6. CASE k = GrandFinal(1)
  <2>1. x = y /\ x = z
    <3>1. \A v \in DOMAIN M : \A d1 : Gives(M, v, k, d1) => v = GrandFinal(0)
      BY <1>6, GivesForm, BracketParts
    <3> QED
      BY <1>3, <1>4, <3>1
  <2>2. a \in Standing(M, x) /\ b \in Standing(M, x) /\ c \in Standing(M, x)
    BY <1>3, <1>4, <2>1, GivesForm
  <2>3. \A u, v, w \in M[x].entries : u = v \/ v = w \/ u = w
    BY DEF Flow, Pairs
  <2> QED
    BY <1>1, <1>5, <2>2, <2>3, InStanding
<1>7. CASE k # GrandFinal(1)
  <2>1. y # z /\ x # y /\ x # z
    BY <1>1, <1>3, <1>4, <1>5, <1>7, GivesOne
  <2>2. x \in Feeders(M, k) /\ y \in Feeders(M, k) /\ z \in Feeders(M, k)
    BY <1>3, <1>4, GivesForm
  <2> QED
    BY <2>1, <2>2 DEF Flow, Layout
<1> QED
  BY <1>6, <1>7

LEMMA Grown ==
  ASSUME NEW f, NEW M \in Brackets, NEW rank, Flow(f, M, rank),
         NEW N \in Brackets, NEW k \in DOMAIN M, NEW c, Grows(M, N, k, c),
         NEW x \in DOMAIN M, Gives(M, x, k, c), \A y \in Feeders(M, x) : Settled(M, y),
         c \notin Standing(M, k), Calm(M, k)
  PROVE  /\ Flow(f, N, rank)
         /\ \A y \in DOMAIN M : Passing(N, y) => Passing(M, y) \/ y = x
         /\ \A active, E : Carried(M, active, E) => Carried(N, active, E)
<1>1. /\ DOMAIN N = DOMAIN M
      /\ \A y : Feeders(N, y) = Feeders(M, y)
      /\ \A y, m : Leads(N, y, m) <=> Leads(M, y, m)
      /\ Layout(f, N, rank)
  BY LinkedLeads DEF Grows, Flow
<1>2. \A y \in DOMAIN M : /\ N[y].next = M[y].next /\ N[y].loserNext = M[y].loserNext
                          /\ N[y].confirmed = M[y].confirmed
                          /\ y # k => N[y].entries = M[y].entries
  BY DEF Grows, LinkedAs
<1>3. PICK e : e.who = c /\ e.score = None /\ N[k].entries = M[k].entries \cup {e}
  BY DEF Grows
<1>4. /\ Layout(f, M, rank) /\ Pairs(M) /\ Earned(M) /\ StartOnce(f, M) /\ Scores(f, M) /\ Ordered(M)
      /\ GrandFinal(1) \in DOMAIN M => M[GrandFinal(0)].confirmed
  BY DEF Flow
<1>5. /\ \A y \in DOMAIN M : y # k => Standing(N, y) = Standing(M, y)
      /\ Standing(N, k) = Standing(M, k) \cup {c}
  BY <1>2, <1>3 DEF Standing, Entrants
<1>6. x \in Feeders(M, k) /\ c \in Standing(M, x)
  BY GivesForm
<1>7. x # k /\ k \notin Starting /\ f.mode # "RR" /\ rank[x] < rank[k] /\ rank[x] \in Nat /\ rank[k] \in Nat
  BY <1>4, <1>6, Fed
<1>8. ~M[k].confirmed /\ ~Passing(M, k)
  BY LeadsSelf DEF Calm
<1>9. Pairs(N)
  <2>1. \A d \in M[k].entries : d.who # c
    BY InStanding
  <2>2. \A d1, d2 \in M[k].entries : d1 = d2
    BY RoomFor
  <2> QED
    BY <1>1, <1>2, <1>3, <1>4, <2>1, <2>2 DEF Pairs
<1>10. StartOnce(f, N)
  BY <1>1, <1>4, <1>5, <1>7 DEF StartOnce
<1>11. Scores(f, N)
  <2> SUFFICES ASSUME f.mode # "RR", NEW y \in DOMAIN M PROVE Decided(N[y])
    BY <1>1 DEF Scores
  <2>1. Decided(M[y])
    BY <1>4 DEF Scores
  <2> QED
    BY <1>2, <1>3, <1>8, <2>1 DEF Decided
<1>12. ASSUME NEW y \in DOMAIN M, y # k, NEW m \in DOMAIN M, NEW d
       PROVE  Gives(N, y, m, d) <=> Gives(M, y, m, d)
  BY <1>2, <1>12 DEF Gives
<1>13. Earned(N)
  <2> SUFFICES ASSUME NEW m \in DOMAIN M, m \notin Starting, NEW d \in Standing(N, m)
               PROVE  \E y \in DOMAIN M : Gives(N, y, m, d)
    BY <1>1 DEF Earned
  <2>1. CASE m = k /\ d = c
    BY <1>7, <1>12, <2>1
  <2>2. CASE ~(m = k /\ d = c)
    <3>1. d \in Standing(M, m)
      BY <1>5, <2>2
    <3>2. PICK y \in DOMAIN M : Gives(M, y, m, d)
      BY <1>4, <3>1 DEF Earned
    <3>3. y # k
      BY <1>8, <3>1, <3>2, OpenGives
    <3> QED
      BY <1>12, <3>2, <3>3
  <2> QED
    BY <2>1, <2>2
<1>14. ASSUME NEW y \in DOMAIN M, Passing(N, y) PROVE Passing(M, y) \/ y = x
  <2>1. PICK d \in N[y].entries : N[y].entries = {d} /\ d.who \in Standing(N, N[y].next)
    BY <1>14 DEF Passing
  <2>2. ~M[y].confirmed /\ M[y].next # None /\ M[y].next \in DOMAIN M
    BY <1>2, <1>14, BracketParts DEF Passing
  <2>3. CASE y # k /\ d.who \in Standing(M, M[y].next)
    BY <1>2, <2>1, <2>2, <2>3 DEF Passing
  <2>4. CASE y # k /\ d.who \notin Standing(M, M[y].next)
    <3>1. M[y].next = k /\ d.who = c
      BY <1>2, <1>5, <2>1, <2>2, <2>4
    <3>2. Gives(M, y, k, c)
      BY <1>2, <2>1, <2>4, <3>1 DEF Gives
    <3> QED
      BY <3>2, GivenByOne
  <2>5. CASE y = k
    <3>1. d = e
      BY <1>3, <2>1, <2>5
    <3>2. k \in Feeders(M, M[k].next)
      BY <2>2, <2>5 DEF Feeders
    <3>3. rank[k] < rank[M[k].next] /\ rank[M[k].next] \in Nat /\ M[k].next # k
      BY <1>4, <2>2, <2>5, <3>2, Fed
    <3>4. c \in Standing(M, M[k].next)
      BY <1>2, <1>3, <1>5, <2>1, <2>2, <2>5, <3>1, <3>3
    <3>5. PICK j \in DOMAIN M : Gives(M, x, j, c) /\ c \in Standing(M, j)
      BY <1>6, <1>7, <2>2, <2>5, <3>3, <3>4, SentOn
    <3> QED
      BY <3>5, GivesOnce
  <2> QED
    BY <2>3, <2>4, <2>5
<1>15. ASSUME NEW y \in DOMAIN M, y # k, Quiet(M, y) PROVE Quiet(N, y)
  <2>1. CASE M[y].confirmed \/ M[y].entries = {}
    BY <1>2, <1>15, <2>1 DEF Quiet
  <2>2. CASE Passing(M, y)
    <3>1. M[y].next \in DOMAIN M
      BY <2>2, BracketParts DEF Passing
    <3> QED
      BY <1>2, <1>5, <1>15, <2>2, <3>1 DEF Quiet, Passing
  <2> QED
    BY <1>15, <2>1, <2>2 DEF Quiet
<1>16. Ordered(N)
  <2> SUFFICES ASSUME NEW y \in DOMAIN M, N[y].confirmed \/ Passing(N, y)
               PROVE  Settled(N, y)
    BY <1>1 DEF Ordered
  <2>1. ASSUME NEW v \in DOMAIN M, Settled(M, v), ~Leads(M, k, v) PROVE Settled(N, v)
    BY <1>1, <1>15, <2>1 DEF Settled
  <2>2. CASE y # x
    <3>1. M[y].confirmed \/ Passing(M, y)
      BY <1>2, <1>14, <2>2
    <3> QED
      BY <1>4, <2>1, <3>1 DEF Ordered, Calm
  <2>3. CASE y = x
    <3>1. ASSUME NEW v \in Feeders(N, x) PROVE Settled(N, v)
      <4>1. v \in Feeders(M, x) /\ v \in DOMAIN M
        BY <1>1, <3>1 DEF Feeders
      <4>2. ~Leads(M, k, v)
        <5> SUFFICES ASSUME Leads(M, k, v) PROVE FALSE
          OBVIOUS
        <5>1. rank[k] <= rank[v] /\ rank[v] < rank[x] /\ rank[v] \in Nat
          BY <1>4, <4>1, Fed, LeadsUp, BracketParts
        <5> QED
          BY <1>7, <5>1
      <4> QED
        BY <2>1, <4>1, <4>2
    <3>2. Quiet(N, x)
      BY <2>3 DEF Quiet
    <3> QED
      BY <1>1, <2>3, <3>1, <3>2, SettledByFeeders
  <2> QED
    BY <2>2, <2>3
<1>17. ASSUME NEW active, NEW E, Carried(M, active, E) PROVE Carried(N, active, E)
  <2> SUFFICES ASSUME NEW y \in DOMAIN M \ E, NEW m \in DOMAIN M, NEW d \in active,
                      N[y].confirmed, Gives(N, y, m, d)
               PROVE  d \in Standing(N, m)
    BY <1>1 DEF Carried
  <2>1. y # k /\ M[y].confirmed
    BY <1>2, <1>8
  <2>2. d \in Standing(M, m)
    BY <1>12, <1>17, <2>1 DEF Carried
  <2> QED
    BY <1>5, <2>2
<1>18. GrandFinal(1) \in DOMAIN N => N[GrandFinal(0)].confirmed
  BY <1>1, <1>2, <1>4, BracketParts
<1> QED
  BY <1>1, <1>9, <1>10, <1>11, <1>13, <1>14, <1>16, <1>17, <1>18 DEF Flow

-----------------------------------------------------------------------------
(* A match is confirmed *)

\* Match x is confirmed, with other scores.
Confirms(M, N, x) ==
  /\ LinkedAs(M, N)
  /\ N[x].confirmed
  /\ Standing(N, x) = Standing(M, x)
  /\ \A y \in DOMAIN M \ {x} : N[y].confirmed = M[y].confirmed /\ N[y].entries = M[y].entries

LEMMA ConfirmedFlow ==
  ASSUME NEW f, NEW M \in Brackets, NEW rank, Flow(f, M, rank),
         NEW N \in Brackets, NEW x \in DOMAIN M, Confirms(M, N, x),
         \A y \in Feeders(M, x) : Settled(M, y),
         f.mode # "RR" => Decided(N[x]),
         \A d, e \in N[x].entries : d.who = e.who => d = e,
         \A c, d, e \in N[x].entries : c = d \/ d = e \/ c = e,
         \/ N[x].entries = M[x].entries
         \/ ~M[x].confirmed /\ \E d, e \in M[x].entries : d # e
  PROVE  /\ Flow(f, N, rank)
         /\ \A y \in DOMAIN M : Passing(N, y) => Passing(M, y)
         /\ \A active, E, F : Carried(M, active, E) /\ E \subseteq F /\ x \in F => Carried(N, active, F)
<1>1. /\ DOMAIN N = DOMAIN M
      /\ \A y : Feeders(N, y) = Feeders(M, y)
      /\ \A y, m : Leads(N, y, m) <=> Leads(M, y, m)
      /\ Layout(f, N, rank)
  BY LinkedLeads DEF Confirms, Flow
<1>2. /\ N[x].confirmed
      /\ \A y \in DOMAIN M : /\ N[y].next = M[y].next /\ N[y].loserNext = M[y].loserNext
                             /\ y # x => N[y].confirmed = M[y].confirmed /\ N[y].entries = M[y].entries
  BY DEF Confirms, LinkedAs
<1>3. /\ Layout(f, M, rank) /\ Pairs(M) /\ Earned(M) /\ StartOnce(f, M) /\ Scores(f, M) /\ Ordered(M)
      /\ GrandFinal(1) \in DOMAIN M => M[GrandFinal(0)].confirmed
  BY DEF Flow
<1>4. \A y \in DOMAIN M : Standing(N, y) = Standing(M, y)
  BY <1>2 DEF Confirms, Standing
<1>5. Pairs(N)
  <2> SUFFICES ASSUME NEW y \in DOMAIN M
               PROVE  /\ \A d, e \in N[y].entries : d.who = e.who => d = e
                      /\ \A c, d, e \in N[y].entries : c = d \/ d = e \/ c = e
    BY <1>1 DEF Pairs
  <2>1. CASE y = x
    BY <2>1
  <2>2. CASE y # x
    BY <1>2, <1>3, <2>2 DEF Pairs
  <2> QED
    BY <2>1, <2>2
<1>6. StartOnce(f, N)
  BY <1>1, <1>3, <1>4 DEF StartOnce
<1>7. Scores(f, N)
  <2> SUFFICES ASSUME f.mode # "RR", NEW y \in DOMAIN M PROVE Decided(N[y])
    BY <1>1 DEF Scores
  <2>1. CASE y = x
    BY <2>1
  <2>2. CASE y # x
    BY <1>2, <1>3, <2>2 DEF Scores, Decided
  <2> QED
    BY <2>1, <2>2
<1>8. ASSUME NEW y \in DOMAIN M, NEW m \in DOMAIN M, NEW d, d \in Standing(M, m), Gives(M, y, m, d)
      PROVE  Gives(N, y, m, d)
  <2>1. CASE y # x
    BY <1>2, <1>8, <2>1 DEF Gives
  <2>2. CASE y = x /\ N[x].entries = M[x].entries
    BY <1>2, <1>8, <2>2 DEF Gives
  <2>3. CASE y = x /\ ~M[x].confirmed /\ \E d1, e \in M[x].entries : d1 # e
    BY <1>8, <2>3, OpenGives
  <2> QED
    BY <2>1, <2>2, <2>3
<1>9. Earned(N)
  BY <1>1, <1>3, <1>4, <1>8 DEF Earned
<1>10. ASSUME NEW y \in DOMAIN M, y # x PROVE Passing(N, y) <=> Passing(M, y)
  <2>1. M[y].next # None => M[y].next \in DOMAIN M
    BY BracketParts
  <2> QED
    BY <1>2, <1>4, <1>10, <2>1 DEF Passing
<1>11. ~Passing(N, x)
  BY <1>2 DEF Passing
<1>12. ASSUME NEW y \in DOMAIN M, Quiet(M, y) PROVE Quiet(N, y)
  BY <1>2, <1>10, <1>12 DEF Quiet
<1>13. ASSUME NEW y \in DOMAIN M, Settled(M, y) PROVE Settled(N, y)
  BY <1>1, <1>12, <1>13 DEF Settled
<1>14. Settled(N, x)
  <2>1. \A y \in Feeders(N, x) : Settled(N, y)
    BY <1>1, <1>13 DEF Feeders
  <2>2. Quiet(N, x)
    BY <1>2 DEF Quiet
  <2> QED
    BY <1>1, <2>1, <2>2, SettledByFeeders
<1>15. Ordered(N)
  BY <1>1, <1>2, <1>3, <1>10, <1>13, <1>14 DEF Ordered
<1>16. GrandFinal(1) \in DOMAIN N => N[GrandFinal(0)].confirmed
  BY <1>1, <1>2, <1>3, BracketParts
<1>17. ASSUME NEW active, NEW E, NEW F, Carried(M, active, E), E \subseteq F, x \in F
       PROVE  Carried(N, active, F)
  <2> SUFFICES ASSUME NEW y \in DOMAIN M \ F, NEW m \in DOMAIN M, NEW d \in active,
                      N[y].confirmed, Gives(N, y, m, d)
               PROVE  d \in Standing(M, m)
    BY <1>1, <1>4 DEF Carried
  <2>1. y # x /\ y \notin E
    BY <1>17
  <2>2. M[y].confirmed /\ Gives(M, y, m, d)
    BY <1>2, <2>1 DEF Gives
  <2> QED
    BY <1>17, <2>1, <2>2 DEF Carried
<1> QED
  BY <1>1, <1>5, <1>6, <1>7, <1>9, <1>10, <1>11, <1>15, <1>16, <1>17 DEF Flow
-----------------------------------------------------------------------------
(* A match is open again *)

\* Match x loses its scores.
Opens(M, N, x) ==
  /\ LinkedAs(M, N)
  /\ ~N[x].confirmed
  /\ N[x].entries = {[e EXCEPT !.score = None] : e \in M[x].entries}
  /\ \A y \in DOMAIN M \ {x} : N[y].confirmed = M[y].confirmed /\ N[y].entries = M[y].entries

\* Those it had sent on are gone from where they went, and what it leads
\* to is calm.
LEMMA Opened ==
  ASSUME NEW f, NEW M \in Brackets, NEW rank, Flow(f, M, rank),
         NEW N \in Brackets, NEW x \in DOMAIN M, Opens(M, N, x), M[x].confirmed,
         ~(x = GrandFinal(0) /\ GrandFinal(1) \in DOMAIN M),
         \A k \in DOMAIN M : x \in Feeders(M, k) => Calm(M, k),
         \A k \in DOMAIN M : \A c : Gives(M, x, k, c) => c \notin Standing(M, k)
  PROVE  /\ Flow(f, N, rank)
         /\ Calm(N, x)
         /\ \A y \in DOMAIN M : Passing(N, y) => Passing(M, y)
         /\ \A y \in DOMAIN M : Calm(M, y) => Calm(N, y)
         /\ \A active, E, F : Carried(M, active, E) /\ E \subseteq F \cup {x} => Carried(N, active, F)
<1>1. /\ DOMAIN N = DOMAIN M
      /\ \A y : Feeders(N, y) = Feeders(M, y)
      /\ \A y, m : Leads(N, y, m) <=> Leads(M, y, m)
      /\ Layout(f, N, rank)
  BY LinkedLeads DEF Opens, Flow
<1>2. /\ ~N[x].confirmed
      /\ \A y \in DOMAIN M : /\ N[y].next = M[y].next /\ N[y].loserNext = M[y].loserNext
                             /\ y # x => N[y].confirmed = M[y].confirmed /\ N[y].entries = M[y].entries
  BY DEF Opens, LinkedAs
<1>3. /\ Layout(f, M, rank) /\ Pairs(M) /\ Earned(M) /\ StartOnce(f, M) /\ Scores(f, M) /\ Ordered(M)
      /\ GrandFinal(1) \in DOMAIN M => M[GrandFinal(0)].confirmed
  BY DEF Flow
<1>4. /\ \A e \in M[x].entries : \E d \in N[x].entries : d.who = e.who
      /\ \A d \in N[x].entries : d.score = None /\ \E e \in M[x].entries : d = [e EXCEPT !.score = None] /\ d.who = e.who
  <2>1. M[x].entries \subseteq Row
    BY MatchType
  <2>2. N[x].entries = {[e EXCEPT !.score = None] : e \in M[x].entries}
    BY DEF Opens
  <2>3. \A e \in M[x].entries : [e EXCEPT !.score = None].who = e.who /\ [e EXCEPT !.score = None].score = None
    BY <2>1 DEF Row
  <2>4. \A e \in M[x].entries : [e EXCEPT !.score = None] \in N[x].entries
    BY <2>2
  <2> QED
    BY <2>2, <2>3, <2>4
<1>5. \A y \in DOMAIN M : Standing(N, y) = Standing(M, y)
  <2>1. Standing(N, x) = Standing(M, x)
    <3>1. \A c : c \in Standing(N, x) <=> c \in Standing(M, x)
      BY <1>4, InStanding
    <3> QED
      BY <3>1
  <2> QED
    BY <1>2, <2>1 DEF Standing
<1>6. Pairs(N)
  <2> SUFFICES ASSUME NEW y \in DOMAIN M
               PROVE  /\ \A d, e \in N[y].entries : d.who = e.who => d = e
                      /\ \A c, d, e \in N[y].entries : c = d \/ d = e \/ c = e
    BY <1>1 DEF Pairs
  <2>1. CASE y = x
    <3>1. /\ \A d, e \in M[x].entries : d.who = e.who => d = e
          /\ \A c, d, e \in M[x].entries : c = d \/ d = e \/ c = e
      BY <1>3 DEF Pairs
    <3>2. ASSUME NEW d \in N[x].entries, NEW e \in N[x].entries, d.who = e.who PROVE d = e
      BY <1>4, <3>1, <3>2
    <3>3. ASSUME NEW c \in N[x].entries, NEW d \in N[x].entries, NEW e \in N[x].entries
          PROVE  c = d \/ d = e \/ c = e
      BY <1>4, <3>1, <3>2
    <3> QED
      BY <2>1, <3>2, <3>3
  <2>2. CASE y # x
    BY <1>2, <1>3, <2>2 DEF Pairs
  <2> QED
    BY <2>1, <2>2
<1>7. StartOnce(f, N)
  BY <1>1, <1>3, <1>5 DEF StartOnce
<1>8. Scores(f, N)
  <2> SUFFICES ASSUME f.mode # "RR", NEW y \in DOMAIN M PROVE Decided(N[y])
    BY <1>1 DEF Scores
  <2>1. CASE y = x
    BY <1>2, <1>4, <2>1 DEF Decided
  <2>2. CASE y # x
    BY <1>2, <1>3, <2>2 DEF Scores, Decided
  <2> QED
    BY <2>1, <2>2
<1>9. Earned(N)
  <2> SUFFICES ASSUME NEW m \in DOMAIN M, m \notin Starting, NEW d \in Standing(M, m)
               PROVE  \E y \in DOMAIN M : Gives(N, y, m, d)
    BY <1>1, <1>5 DEF Earned
  <2>1. PICK y \in DOMAIN M : Gives(M, y, m, d)
    BY <1>3 DEF Earned
  <2>2. y # x
    BY <2>1
  <2> QED
    BY <1>2, <2>1, <2>2 DEF Gives
<1>10. ASSUME NEW y \in DOMAIN M, y # x PROVE Passing(N, y) <=> Passing(M, y)
  <2>1. M[y].next # None => M[y].next \in DOMAIN M
    BY BracketParts
  <2> QED
    BY <1>2, <1>5, <1>10, <2>1 DEF Passing
<1>11. ~Passing(N, x)
  <2> SUFFICES ASSUME Passing(N, x) PROVE FALSE
    OBVIOUS
  <2>1. PICK d \in N[x].entries : N[x].entries = {d} /\ d.who \in Standing(N, N[x].next)
    BY DEF Passing
  <2>2. M[x].next # None /\ M[x].next \in DOMAIN M
    BY <1>2, BracketParts DEF Passing
  <2>3. PICK e \in M[x].entries : e.who = d.who
    BY <1>4, <2>1
  <2>4. \A g \in M[x].entries : g = e
    <3> SUFFICES ASSUME NEW g \in M[x].entries PROVE g = e
      OBVIOUS
    <3>1. g.who = d.who
      BY <1>4, <2>1
    <3> QED
      BY <1>3, <2>3, <3>1 DEF Pairs
  <2>5. Gives(M, x, M[x].next, d.who)
    <3>1. M[x].entries = {e}
      BY <2>4
    <3> QED
      BY <2>3, <3>1 DEF Gives
  <2>6. d.who \in Standing(M, M[x].next)
    BY <1>2, <1>5, <2>1, <2>2
  <2> QED
    BY <2>2, <2>5, <2>6
<1>12. \A y \in DOMAIN M : Passing(N, y) => Passing(M, y)
  BY <1>10, <1>11
<1>13. \A y \in DOMAIN M : Calm(M, y) => Calm(N, y)
  BY <1>1, <1>2, <1>12 DEF Calm
<1>14. Calm(N, x)
  <2> SUFFICES ASSUME NEW y \in DOMAIN M, Leads(M, x, y) PROVE ~N[y].confirmed /\ ~Passing(N, y)
    BY <1>1 DEF Calm
  <2>1. CASE y = x
    BY <1>2, <1>11, <2>1
  <2>2. CASE y # x
    <3>1. PICK k \in DOMAIN M : x \in Feeders(M, k) /\ Leads(M, k, y)
      BY <2>2, LeadsFirst
    <3>2. Calm(N, k)
      BY <1>13, <3>1
    <3> QED
      BY <1>1, <3>1, <3>2 DEF Calm
  <2> QED
    BY <2>1, <2>2
<1>15. Ordered(N)
  <2> SUFFICES ASSUME NEW y \in DOMAIN M, N[y].confirmed \/ Passing(N, y),
                      NEW z \in DOMAIN M, Leads(N, z, y)
               PROVE  Quiet(N, z)
    BY <1>1 DEF Ordered, Settled
  <2>1. y # x
    BY <1>2, <1>11
  <2>2. Settled(M, y)
    BY <1>2, <1>3, <1>10, <2>1 DEF Ordered
  <2>3. z # x
    BY <1>1, <1>14 DEF Calm
  <2>4. Quiet(M, z)
    BY <1>1, <2>2 DEF Settled
  <2> QED
    BY <1>2, <1>10, <2>3, <2>4 DEF Quiet
<1>16. ASSUME NEW active, NEW E, NEW F, Carried(M, active, E), E \subseteq F \cup {x}
       PROVE  Carried(N, active, F)
  <2> SUFFICES ASSUME NEW y \in DOMAIN M \ F, NEW m \in DOMAIN M, NEW d \in active,
                      N[y].confirmed, Gives(N, y, m, d)
               PROVE  d \in Standing(M, m)
    BY <1>1, <1>5 DEF Carried
  <2>1. y # x /\ y \notin E
    BY <1>2, <1>16
  <2>2. M[y].confirmed /\ Gives(M, y, m, d)
    BY <1>2, <2>1 DEF Gives
  <2> QED
    BY <1>16, <2>1, <2>2 DEF Carried
<1>17. GrandFinal(1) \in DOMAIN N => N[GrandFinal(0)].confirmed
  BY <1>1, <1>2, <1>3, BracketParts
<1> QED
  BY <1>1, <1>6, <1>7, <1>8, <1>9, <1>12, <1>13, <1>14, <1>15, <1>16, <1>17 DEF Flow

-----------------------------------------------------------------------------
(* The match of a bracket reset *)

LEMMA NoReset ==
  ASSUME NEW M \in Brackets, GrandFinal(1) \notin DOMAIN M
  PROVE  \A x \in DOMAIN M : M[x].next # GrandFinal(1) /\ M[x].loserNext # GrandFinal(1)
<1>1. GrandFinal(1) # None
  BY GrandFinals
<1> QED
  BY <1>1, BracketParts

\* N has the match of a bracket reset, M has not; the first grand final
\* leads there, and else there is no difference.
HasSecond(M, N) ==
  LET first == GrandFinal(0)
      second == GrandFinal(1)
  IN  /\ first \in DOMAIN M /\ second \notin DOMAIN M
      /\ DOMAIN N = DOMAIN M \cup {second}
      /\ M[first].next = None /\ N[first].next = second
      /\ M[first].confirmed /\ N[first].confirmed
      /\ \A x \in DOMAIN M : /\ x # first => N[x].next = M[x].next
                             /\ N[x].loserNext = M[x].loserNext
                             /\ N[x].confirmed = M[x].confirmed
                             /\ N[x].entries = M[x].entries

LEMMA SecondForm ==
  ASSUME NEW M \in Brackets, NEW N \in Brackets, HasSecond(M, N)
  PROVE  /\ \A m \in DOMAIN M : Feeders(N, m) = Feeders(M, m)
         /\ Feeders(N, GrandFinal(1)) = {GrandFinal(0)}
         /\ \A x, m \in DOMAIN M : Leads(N, x, m) <=> Leads(M, x, m)
         /\ \A m \in DOMAIN M : ~Leads(N, GrandFinal(1), m)
         /\ \A x \in DOMAIN M : Passing(N, x) <=> Passing(M, x)
         /\ \A x, m \in DOMAIN M : \A c : Gives(N, x, m, c) <=> Gives(M, x, m, c)
         /\ \A m \in DOMAIN N : \A c : ~Gives(N, GrandFinal(1), m, c)
<1> DEFINE first == GrandFinal(0)
           second == GrandFinal(1)
<1>1. /\ None \notin DOMAIN N /\ None \notin DOMAIN M
      /\ \A x \in DOMAIN M : M[x].next # second /\ M[x].loserNext # second
      /\ N[second].next = None /\ N[second].loserNext = None
      /\ first # second /\ second # None
  BY BracketParts, NoReset, GrandFinals DEF HasSecond
<1>2. /\ DOMAIN N = DOMAIN M \cup {second}
      /\ first \in DOMAIN M /\ second \notin DOMAIN M
      /\ M[first].next = None /\ N[first].next = second
      /\ \A x \in DOMAIN M : /\ x # first => N[x].next = M[x].next
                             /\ N[x].loserNext = M[x].loserNext
                             /\ N[x].confirmed = M[x].confirmed
                             /\ N[x].entries = M[x].entries
  BY DEF HasSecond
<1>3. \A m \in DOMAIN M : Feeders(N, m) = Feeders(M, m)
  <2> SUFFICES ASSUME NEW m \in DOMAIN M, NEW x PROVE x \in Feeders(N, m) <=> x \in Feeders(M, m)
    OBVIOUS
  <2>1. CASE x = second
    BY <1>1, <1>2, <2>1 DEF Feeders
  <2>2. CASE x = first
    BY <1>1, <1>2, <2>2 DEF Feeders
  <2>3. CASE x # first /\ x # second
    BY <1>1, <1>2, <2>3 DEF Feeders
  <2> QED
    BY <2>1, <2>2, <2>3
<1>4. Feeders(N, second) = {first}
  <2> SUFFICES ASSUME NEW x PROVE x \in Feeders(N, second) <=> x = first
    OBVIOUS
  <2>1. CASE x = second
    BY <1>1, <1>2, <2>1 DEF Feeders
  <2>2. CASE x = first
    BY <1>1, <1>2, <2>2 DEF Feeders
  <2>3. CASE x # first /\ x # second
    BY <1>1, <1>2, <2>3 DEF Feeders
  <2> QED
    BY <2>1, <2>2, <2>3
<1>5. \A m : Feeders(M, m) \subseteq DOMAIN M
  BY DEF Feeders
<1>6. ASSUME NEW x \in DOMAIN N, NEW m \in DOMAIN M, Leads(N, x, m) PROVE Leads(M, x, m)
  <2> SUFFICES ASSUME NEW S \in SUBSET DOMAIN M, m \in S, \A y \in S : Feeders(M, y) \subseteq S
               PROVE  x \in S
    BY DEF Leads
  <2>1. S \in SUBSET DOMAIN N /\ \A y \in S : Feeders(N, y) \subseteq S
    BY <1>2, <1>3
  <2> QED
    BY <1>6, <2>1 DEF Leads
<1>7. ASSUME NEW x \in DOMAIN M, NEW m \in DOMAIN M, Leads(M, x, m) PROVE Leads(N, x, m)
  <2> SUFFICES ASSUME NEW S \in SUBSET DOMAIN N, m \in S, \A y \in S : Feeders(N, y) \subseteq S
               PROVE  x \in S
    BY DEF Leads
  <2>1. /\ S \cap DOMAIN M \in SUBSET DOMAIN M
        /\ m \in S \cap DOMAIN M
        /\ \A y \in S \cap DOMAIN M : Feeders(M, y) \subseteq S \cap DOMAIN M
    BY <1>3, <1>5
  <2> QED
    BY <1>7, <2>1 DEF Leads
<1>8. \A m \in DOMAIN M : ~Leads(N, second, m)
  <2> SUFFICES ASSUME NEW m \in DOMAIN M, Leads(N, second, m) PROVE FALSE
    OBVIOUS
  <2>1. Leads(M, second, m)
    BY <1>2, <1>6
  <2> QED
    BY <1>2, <2>1, LeadsLast
<1>9. \A x \in DOMAIN M : Passing(N, x) <=> Passing(M, x)
  <2> SUFFICES ASSUME NEW x \in DOMAIN M PROVE Passing(N, x) <=> Passing(M, x)
    OBVIOUS
  <2>1. M[x].next # None => M[x].next \in DOMAIN M
    BY BracketParts
  <2>2. CASE x = first
    BY <2>2 DEF Passing, HasSecond
  <2>3. CASE x # first
    BY <1>2, <2>1, <2>3 DEF Passing, Standing
  <2> QED
    BY <2>2, <2>3
<1>10. \A x, m \in DOMAIN M : \A c : Gives(N, x, m, c) <=> Gives(M, x, m, c)
  <2> SUFFICES ASSUME NEW x \in DOMAIN M, NEW m \in DOMAIN M, NEW c
               PROVE  Gives(N, x, m, c) <=> Gives(M, x, m, c)
    OBVIOUS
  <2>1. N[x].next = m <=> M[x].next = m
    BY <1>1, <1>2
  <2> QED
    BY <1>2, <2>1 DEF Gives
<1>11. \A m \in DOMAIN N : \A c : ~Gives(N, second, m, c)
  BY <1>1, <1>2 DEF Gives
<1> QED
  BY <1>3, <1>4, <1>6, <1>7, <1>8, <1>9, <1>10, <1>11, <1>2

LEMMA SecondGone ==
  ASSUME NEW f, NEW rank, NEW N \in Brackets, Flow(f, N, rank), NEW M \in Brackets, HasSecond(M, N)
  PROVE  /\ Flow(f, M, rank)
         /\ \A y \in DOMAIN M : Calm(N, y) => Calm(M, y)
         /\ \A active, E : Carried(N, active, E) => Carried(M, active, E)
<1> DEFINE first == GrandFinal(0)
           second == GrandFinal(1)
<1>1. /\ DOMAIN N = DOMAIN M \cup {second}
      /\ first \in DOMAIN M /\ second \notin DOMAIN M
      /\ M[first].next = None /\ N[first].next = second
      /\ \A x \in DOMAIN M : /\ x # first => N[x].next = M[x].next
                             /\ N[x].loserNext = M[x].loserNext
                             /\ N[x].confirmed = M[x].confirmed
                             /\ N[x].entries = M[x].entries
  BY DEF HasSecond
<1>2. /\ \A m \in DOMAIN M : Feeders(N, m) = Feeders(M, m)
      /\ \A x, m \in DOMAIN M : Leads(N, x, m) <=> Leads(M, x, m)
      /\ \A m \in DOMAIN M : ~Leads(N, second, m)
      /\ \A x \in DOMAIN M : Passing(N, x) <=> Passing(M, x)
      /\ \A x, m \in DOMAIN M : \A c : Gives(N, x, m, c) <=> Gives(M, x, m, c)
      /\ \A m \in DOMAIN N : \A c : ~Gives(N, second, m, c)
  BY SecondForm
<1>3. /\ Layout(f, N, rank) /\ Pairs(N) /\ Earned(N) /\ StartOnce(f, N) /\ Scores(f, N) /\ Ordered(N)
  BY DEF Flow
<1>4. Layout(f, M, rank)
  <2>1. f.mode # "RR" /\ M[first].loserNext = None
    <3>1. second # None
      BY GrandFinals
    <3> QED
      BY <1>1, <1>3, <3>1 DEF Layout
  <2> SUFFICES ASSUME NEW x \in DOMAIN M
               PROVE  /\ M[x].next # None => rank[x] < rank[M[x].next]
                      /\ M[x].loserNext # None => /\ rank[x] < rank[M[x].loserNext]
                                                  /\ M[x].next # None
                                                  /\ M[x].loserNext # M[x].next
                                                  /\ M[x].loserNext # GrandFinal(0)
                                                  /\ x # GrandFinal(0)
                      /\ x \in Starting <=> rank[x] = 0
                      /\ \A a, b, c \in Feeders(M, x) : a = b \/ b = c \/ a = c
    BY <1>3, <2>1 DEF Layout
  <2>2. /\ x \in DOMAIN N
        /\ x \in Starting <=> rank[x] = 0
        /\ \A a, b, c \in Feeders(N, x) : a = b \/ b = c \/ a = c
    BY <1>1, <1>3 DEF Layout
  <2>3. CASE x = first
    BY <1>1, <1>2, <2>1, <2>2, <2>3
  <2>4. CASE x # first
    <3>1. /\ N[x].next # None => rank[x] < rank[N[x].next]
          /\ N[x].loserNext # None => /\ rank[x] < rank[N[x].loserNext]
                                      /\ N[x].next # None
                                      /\ N[x].loserNext # N[x].next
                                      /\ N[x].loserNext # GrandFinal(0)
                                      /\ x # GrandFinal(0)
      BY <1>3, <2>2 DEF Layout
    <3>2. N[x].next = M[x].next /\ N[x].loserNext = M[x].loserNext
      BY <1>1, <2>4
    <3> QED
      BY <1>2, <2>2, <3>1, <3>2
  <2> QED
    BY <2>3, <2>4
<1>5. Pairs(M)
  BY <1>1, <1>3 DEF Pairs
<1>6. \A m \in DOMAIN M : Standing(N, m) = Standing(M, m)
  BY <1>1 DEF Standing
<1>7. Earned(M)
  BY <1>1, <1>2, <1>3, <1>6 DEF Earned
<1>8. StartOnce(f, M)
  BY <1>1, <1>3, <1>6 DEF StartOnce
<1>9. Scores(f, M)
  BY <1>1, <1>3 DEF Scores, Decided
<1>10. \A y \in DOMAIN M : Quiet(N, y) <=> Quiet(M, y)
  BY <1>1, <1>2 DEF Quiet
<1>11. Ordered(M)
  BY <1>1, <1>2, <1>3, <1>10 DEF Ordered, Settled
<1>12. \A y \in DOMAIN M : Calm(N, y) => Calm(M, y)
  BY <1>1, <1>2 DEF Calm
<1>13. ASSUME NEW active, NEW E, Carried(N, active, E) PROVE Carried(M, active, E)
  BY <1>1, <1>2, <1>6, <1>13 DEF Carried
<1> QED
  BY <1>1, <1>4, <1>5, <1>7, <1>8, <1>9, <1>11, <1>12, <1>13 DEF Flow

LEMMA SecondMade ==
  ASSUME NEW f, NEW rank, NEW M \in Brackets, Flow(f, M, rank), f.mode # "RR",
         NEW N \in Brackets, HasSecond(M, N),
         N[GrandFinal(1)].entries = Fresh(Standing(M, GrandFinal(0))), ~N[GrandFinal(1)].confirmed
  PROVE  /\ Flow(f, N, rank)
         /\ \A active, E : Carried(M, active, E) => Carried(N, active, E)
<1> DEFINE first == GrandFinal(0)
           second == GrandFinal(1)
<1>1. /\ DOMAIN N = DOMAIN M \cup {second}
      /\ first \in DOMAIN M /\ second \notin DOMAIN M
      /\ M[first].next = None /\ N[first].next = second
      /\ N[first].confirmed
      /\ \A x \in DOMAIN M : /\ x # first => N[x].next = M[x].next
                             /\ N[x].loserNext = M[x].loserNext
                             /\ N[x].confirmed = M[x].confirmed
                             /\ N[x].entries = M[x].entries
  BY DEF HasSecond
<1>2. /\ \A m \in DOMAIN M : Feeders(N, m) = Feeders(M, m)
      /\ Feeders(N, second) = {first}
      /\ \A x, m \in DOMAIN M : Leads(N, x, m) <=> Leads(M, x, m)
      /\ \A m \in DOMAIN M : ~Leads(N, second, m)
      /\ \A x \in DOMAIN M : Passing(N, x) <=> Passing(M, x)
      /\ \A x, m \in DOMAIN M : \A c : Gives(N, x, m, c) <=> Gives(M, x, m, c)
      /\ \A m \in DOMAIN N : \A c : ~Gives(N, second, m, c)
  BY SecondForm
<1>3. /\ Layout(f, M, rank) /\ Pairs(M) /\ Earned(M) /\ StartOnce(f, M) /\ Scores(f, M) /\ Ordered(M)
  BY DEF Flow
<1>4. /\ N[second].next = None /\ N[second].loserNext = None /\ None \notin DOMAIN N
      /\ first # second /\ second # None /\ first \in Ids /\ second \in Ids
  BY <1>1, BracketParts, GrandFinals
<1>5. second \notin Starting
  BY NotStarting
<1>6. Layout(f, N, rank)
  <2>1. M[first].loserNext = None /\ rank[first] < rank[second] /\ rank[first] \in Nat /\ rank[second] \in Nat
    BY <1>1, <1>3, <1>4 DEF Layout
  <2> SUFFICES ASSUME NEW x \in DOMAIN N
               PROVE  /\ N[x].next # None => rank[x] < rank[N[x].next]
                      /\ N[x].loserNext # None => /\ rank[x] < rank[N[x].loserNext]
                                                  /\ N[x].next # None
                                                  /\ N[x].loserNext # N[x].next
                                                  /\ N[x].loserNext # GrandFinal(0)
                                                  /\ x # GrandFinal(0)
                      /\ x \in Starting <=> rank[x] = 0
                      /\ \A a, b, c \in Feeders(N, x) : a = b \/ b = c \/ a = c
    BY <1>3 DEF Layout
  <2>2. CASE x = second
    BY <1>2, <1>4, <1>5, <2>1, <2>2
  <2>3. x # second => /\ x \in DOMAIN M
                      /\ x \in Starting <=> rank[x] = 0
                      /\ \A a, b, c \in Feeders(M, x) : a = b \/ b = c \/ a = c
    BY <1>1, <1>3 DEF Layout
  <2>4. CASE x = first
    BY <1>1, <1>2, <1>4, <2>1, <2>3, <2>4
  <2>5. CASE x # first /\ x # second
    <3>1. /\ M[x].next # None => rank[x] < rank[M[x].next]
          /\ M[x].loserNext # None => /\ rank[x] < rank[M[x].loserNext]
                                      /\ M[x].next # None
                                      /\ M[x].loserNext # M[x].next
                                      /\ M[x].loserNext # GrandFinal(0)
                                      /\ x # GrandFinal(0)
      BY <1>3, <2>3, <2>5 DEF Layout
    <3>2. N[x].next = M[x].next /\ N[x].loserNext = M[x].loserNext
      BY <1>1, <2>3, <2>5
    <3> QED
      BY <1>2, <2>3, <2>5, <3>1, <3>2
  <2> QED
    BY <2>2, <2>4, <2>5
<1>7. /\ \A m \in DOMAIN M : Standing(N, m) = Standing(M, m)
      /\ Standing(N, second) = Standing(M, first)
  BY <1>1, FreshEntrants DEF Standing
<1>8. /\ \A e \in N[second].entries : e = [who |-> e.who, copy |-> 1, score |-> None]
      /\ \A e \in N[second].entries : e.score = None /\ e.who \in Standing(M, first)
  <2>1. \A e \in N[second].entries : \E c \in Standing(M, first) : e = [who |-> c, copy |-> 1, score |-> None]
    BY DEF Fresh
  <2> QED
    BY <2>1
<1>9. Pairs(N)
  <2> SUFFICES ASSUME NEW y \in DOMAIN N
               PROVE  /\ \A d, e \in N[y].entries : d.who = e.who => d = e
                      /\ \A c, d, e \in N[y].entries : c = d \/ d = e \/ c = e
    BY DEF Pairs
  <2>1. CASE y = second
    <3>1. \A d, e \in N[second].entries : d.who = e.who => d = e
      BY <1>8
    <3>2. ASSUME NEW c \in N[second].entries, NEW d \in N[second].entries, NEW e \in N[second].entries
          PROVE  c = d \/ d = e \/ c = e
      <4>1. PICK a1 \in M[first].entries : a1.who = c.who
        BY <1>8, InStanding
      <4>2. PICK a2 \in M[first].entries : a2.who = d.who
        BY <1>8, InStanding
      <4>3. PICK a3 \in M[first].entries : a3.who = e.who
        BY <1>8, InStanding
      <4>4. a1 = a2 \/ a2 = a3 \/ a1 = a3
        BY <1>1, <1>3 DEF Pairs
      <4> QED
        BY <3>1, <4>1, <4>2, <4>3, <4>4
    <3> QED
      BY <2>1, <3>1, <3>2
  <2>2. CASE y # second
    BY <1>1, <1>3, <2>2 DEF Pairs
  <2> QED
    BY <2>1, <2>2
<1>10. Earned(N)
  <2> SUFFICES ASSUME NEW m \in DOMAIN N, m \notin Starting, NEW d \in Standing(N, m)
               PROVE  \E y \in DOMAIN N : Gives(N, y, m, d)
    BY DEF Earned
  <2>1. CASE m = second
    <3>1. PICK e \in N[first].entries : e.who = d
      BY <1>1, <1>7, <2>1, InStanding
    <3>2. Gives(N, first, second, d)
      BY <1>1, <3>1 DEF Gives
    <3> QED
      BY <1>1, <2>1, <3>2
  <2>2. CASE m # second
    <3>1. m \in DOMAIN M /\ d \in Standing(M, m)
      BY <1>1, <1>7, <2>2
    <3>2. PICK y \in DOMAIN M : Gives(M, y, m, d)
      BY <1>3, <3>1 DEF Earned
    <3> QED
      BY <1>1, <1>2, <3>1, <3>2
  <2> QED
    BY <2>1, <2>2
<1>11. StartOnce(f, N)
  BY <1>1, <1>3, <1>5, <1>7 DEF StartOnce
<1>12. Scores(f, N)
  <2> SUFFICES ASSUME NEW y \in DOMAIN N PROVE Decided(N[y])
    BY DEF Scores
  <2>1. CASE y = second
    BY <1>8, <2>1 DEF Decided
  <2>2. CASE y # second
    <3>1. y \in DOMAIN M /\ Decided(M[y])
      BY <1>1, <1>3, <2>2 DEF Scores
    <3> QED
      BY <1>1, <3>1 DEF Decided
  <2> QED
    BY <2>1, <2>2
<1>13. \A y \in DOMAIN M : Quiet(N, y) <=> Quiet(M, y)
  BY <1>1, <1>2 DEF Quiet
<1>14. Ordered(N)
  <2> SUFFICES ASSUME NEW y \in DOMAIN N, N[y].confirmed \/ Passing(N, y),
                      NEW z \in DOMAIN N, Leads(N, z, y)
               PROVE  Quiet(N, z)
    BY DEF Ordered, Settled
  <2>1. y # second
    BY <1>4 DEF Passing
  <2>2. y \in DOMAIN M /\ Settled(M, y)
    BY <1>1, <1>2, <1>3, <2>1 DEF Ordered
  <2>3. z \in DOMAIN M
    BY <1>1, <1>2, <2>2
  <2>4. Quiet(M, z)
    BY <1>2, <2>2, <2>3 DEF Settled
  <2> QED
    BY <1>13, <2>3, <2>4
<1>15. ASSUME NEW active, NEW E, Carried(M, active, E) PROVE Carried(N, active, E)
  <2> SUFFICES ASSUME NEW y \in DOMAIN N \ E, NEW m \in DOMAIN N, NEW d \in active,
                      N[y].confirmed, Gives(N, y, m, d)
               PROVE  d \in Standing(N, m)
    BY DEF Carried
  <2>1. y # second
    BY <1>2
  <2>2. CASE m = second
    <3>1. y = first
      BY <1>2, <2>2, GivesForm
    <3> QED
      BY <1>1, <1>7, <2>2, <3>1, GivesForm
  <2>3. CASE m # second
    BY <1>1, <1>2, <1>7, <1>15, <2>1, <2>3 DEF Carried
  <2> QED
    BY <2>2, <2>3
<1> QED
  BY <1>1, <1>6, <1>9, <1>10, <1>11, <1>12, <1>14, <1>15 DEF Flow
-----------------------------------------------------------------------------
(* A result is entered *)

\* What the operations on tournaments do to their matches.
LEMMA SentGrows ==
  ASSUME NEW t \in Tournaments, NEW k \in DOMAIN t.matches, NEW c \in Contestants
  PROVE  Grows(t.matches, Sent(t, k, c).matches, k, c)
<1> DEFINE M == t.matches
           N == Sent(t, k, c).matches
           e == [who |-> c, score |-> None,
                 copy |-> 1 + Cardinality({d \in M[k].entries : d.who = c})]
<1>1. M \in [DOMAIN M -> MatchIn(DOMAIN M)] /\ k # None
  BY TournamentForm, BracketsForm, BracketParts
<1>2. N = [M EXCEPT ![k].entries = AddEntry(@, c)]
  BY <1>1 DEF Sent, Tournaments
<1>3. N = [M EXCEPT ![k].entries = M[k].entries \cup {e}]
  BY <1>2 DEF AddEntry
<1>4. e.who = c /\ e.score = None
  OBVIOUS
<1> HIDE DEF e, M, N
<1>5. /\ LinkedAs(M, N)
      /\ \A x \in DOMAIN M : N[x].confirmed = M[x].confirmed /\ (x # k => N[x].entries = M[x].entries)
      /\ N[k].entries = M[k].entries \cup {e}
  BY <1>1, <1>3 DEF LinkedAs, MatchIn, M
<1> QED
  BY <1>4, <1>5 DEF Grows, M, N

LEMMA ConfirmsForm ==
  ASSUME NEW t \in Tournaments, NEW x \in DOMAIN t.matches
  PROVE  LET N == AsConfirmed(t, x).matches
         IN  Confirms(t.matches, N, x) /\ N[x].entries = t.matches[x].entries
<1> DEFINE M == t.matches
           N == AsConfirmed(t, x).matches
<1>1. M \in [DOMAIN M -> MatchIn(DOMAIN M)]
  BY TournamentForm, BracketsForm
<1>2. N = [M EXCEPT ![x].confirmed = TRUE]
  BY DEF AsConfirmed, Tournaments
<1> HIDE DEF M, N
<1>3. /\ LinkedAs(M, N) /\ N[x].confirmed /\ N[x].entries = M[x].entries
      /\ \A y \in DOMAIN M \ {x} : N[y].confirmed = M[y].confirmed /\ N[y].entries = M[y].entries
  BY <1>1, <1>2 DEF LinkedAs, MatchIn, M
<1> QED
  BY <1>3 DEF Confirms, Standing, M, N

LEMMA ScoredForm ==
  ASSUME NEW t \in Tournaments, NEW x \in DOMAIN t.matches, NEW who \in Contestants \cup {None}
  PROVE  LET N == Scored(t, x, who).matches
         IN  Confirms(t.matches, N, x) /\ N[x].entries = WithResult(t.matches[x].entries, who)
<1> DEFINE M == t.matches
           N == Scored(t, x, who).matches
           rows == WithResult(M[x].entries, who)
<1>1. M \in [DOMAIN M -> MatchIn(DOMAIN M)] /\ M[x].entries \in Rows
  BY TournamentForm, BracketsForm, MatchType
<1>2. N = [M EXCEPT ![x].entries = rows, ![x].confirmed = TRUE]
  BY DEF Scored, Tournaments
<1>3. Entrants(rows) = Entrants(M[x].entries)
  BY <1>1, ResultEntrants
<1> HIDE DEF M, N, rows
<1>4. /\ LinkedAs(M, N) /\ N[x].confirmed /\ N[x].entries = rows
      /\ \A y \in DOMAIN M \ {x} : N[y].confirmed = M[y].confirmed /\ N[y].entries = M[y].entries
  BY <1>1, <1>2 DEF LinkedAs, MatchIn, M
<1> QED
  BY <1>3, <1>4 DEF Confirms, Standing, M, N, rows

\* The rows of a result.
LEMMA ResultRows ==
  ASSUME NEW rows \in Rows, NEW d \in rows, NEW e \in rows, rows = {d, e}, d.who # e.who
  PROVE  /\ \A who \in Contestants \cup {None} :
              /\ \A a, b \in WithResult(rows, who) : a.who = b.who => a = b
              /\ \A a, b, c \in WithResult(rows, who) : a = b \/ b = c \/ a = c
         /\ \E a, b : /\ WithResult(rows, d.who) = {a, b}
                      /\ a.who = d.who /\ a.score = 1
                      /\ b.who = e.who /\ b.score = 0
         /\ Loser(WithResult(rows, d.who)) = e.who
<1>1. rows \subseteq Row /\ d.who \in Contestants /\ e.who \in Contestants
      /\ d.who # None /\ e.who # None
  BY NoneApart DEF Rows, Row
<1> DEFINE R(x, who) == [x EXCEPT !.score = IF who \in {x.who, None} THEN 1 ELSE 0]
<1>2. \A who : WithResult(rows, who) = {R(d, who), R(e, who)}
  BY DEF WithResult
<1>3. \A who : R(d, who).who = d.who /\ R(e, who).who = e.who
  BY <1>1 DEF Row
<1>4. R(d, d.who).score = 1 /\ R(e, d.who).score = 0
  BY <1>1 DEF Row
<1> HIDE DEF R
<1>5. Loser({R(d, d.who), R(e, d.who)}) = e.who
  <2> DEFINE set == {R(d, d.who), R(e, d.who)}
             l == CHOOSE r \in set : r.score = 0
  <2>1. \E r \in set : r.score = 0
    BY <1>4
  <2>2. l \in set /\ l.score = 0
    BY <2>1
  <2>3. l = R(e, d.who)
    BY <1>4, <2>2
  <2> QED
    BY <1>3, <2>3 DEF Loser
<1> QED
  BY <1>2, <1>3, <1>4, <1>5

\* Two contestants play an open match.
LEMMA PlayableRows ==
  ASSUME NEW f, NEW M \in Brackets, NEW rank, Flow(f, M, rank), NEW x \in DOMAIN M,
         Playable(f, M[x])
  PROVE  /\ ~M[x].confirmed
         /\ \E d, e \in M[x].entries : M[x].entries = {d, e} /\ d # e /\ d.who # e.who
<1> DEFINE rows == M[x].entries
<1>1. ~M[x].confirmed /\ Cardinality(rows) >= 2
  BY DEF Playable
<1>2. /\ \A d, e \in rows : d.who = e.who => d = e
      /\ \A c, d, e \in rows : c = d \/ d = e \/ c = e
  BY DEF Flow, Pairs
<1> HIDE DEF rows
<1>3. \E d, e \in rows : d # e
  <2> SUFFICES ASSUME \A d, e \in rows : d = e PROVE FALSE
    OBVIOUS
  <2>1. CASE rows = {}
    BY <1>1, <2>1, FS_EmptySet
  <2>2. CASE rows # {}
    <3>1. PICK d \in rows : rows = {d}
      BY <2>2
    <3>2. Cardinality({d}) = 1
      BY FS_Singleton
    <3> QED
      BY <1>1, <3>1, <3>2
  <2> QED
    BY <2>1, <2>2
<1>4. PICK d \in rows, e \in rows : d # e
  BY <1>3
<1>5. rows = {d, e} /\ d.who # e.who
  BY <1>2, <1>4
<1> QED
  BY <1>1, <1>4, <1>5 DEF rows

LEMMA PlayableCalm ==
  ASSUME NEW f, NEW M \in Brackets, NEW rank, Flow(f, M, rank), NEW x \in DOMAIN M,
         ~M[x].confirmed, NEW d \in M[x].entries, NEW e \in M[x].entries, d # e
  PROVE  /\ ~Quiet(M, x)
         /\ Calm(M, x)
         /\ \A k \in DOMAIN M : x \in Feeders(M, k) =>
              Calm(M, k) /\ Standing(M, x) \cap Standing(M, k) = {}
<1>1. ~Quiet(M, x)
  BY DEF Quiet, Passing
<1>2. Calm(M, x)
  BY <1>1, CalmBehind DEF Flow
<1>3. ASSUME NEW k \in DOMAIN M, x \in Feeders(M, k), NEW c \in Standing(M, x) \cap Standing(M, k)
      PROVE  FALSE
  <2>1. f.mode # "RR" /\ rank[x] < rank[k]
    BY <1>3, Fed DEF Flow
  <2> QED
    BY <1>3, <2>1, WentOn
<1> QED
  BY <1>1, <1>2, <1>3, CalmOn

\* One who won or lost is sent on.
LEMMA SentFlow ==
  ASSUME NEW f, NEW t \in Tournaments, NEW rank, Flow(f, t.matches, rank),
         NEW k \in DOMAIN t.matches, NEW c \in Contestants,
         NEW x \in DOMAIN t.matches, Gives(t.matches, x, k, c),
         \A y \in Feeders(t.matches, x) : Settled(t.matches, y),
         c \notin Standing(t.matches, k), Calm(t.matches, k)
  PROVE  LET N == Sent(t, k, c).matches
         IN  /\ Flow(f, N, rank)
             /\ N \in Brackets /\ Grows(t.matches, N, k, c)
             /\ \A d : d \in Standing(N, k) <=> d \in Standing(t.matches, k) \/ d = c
             /\ \A y \in DOMAIN t.matches : Passing(N, y) => Passing(t.matches, y) \/ y = x
             /\ \A y \in DOMAIN t.matches : Calm(t.matches, y) /\ ~Leads(t.matches, y, x) => Calm(N, y)
             /\ \A active, E : Carried(t.matches, active, E) => Carried(N, active, E)
<1> DEFINE M == t.matches
           N == Sent(t, k, c).matches
<1>1. M \in Brackets /\ N \in Brackets
  BY SentType, TournamentForm
<1>2. Grows(M, N, k, c)
  BY SentGrows
<1> HIDE DEF N
<1>3. /\ Flow(f, N, rank)
      /\ \A y \in DOMAIN M : Passing(N, y) => Passing(M, y) \/ y = x
      /\ \A active, E : Carried(M, active, E) => Carried(N, active, E)
  BY <1>1, <1>2, Grown
<1>4. \A y \in DOMAIN M : Calm(M, y) /\ ~Leads(M, y, x) => Calm(N, y)
  <2>1. /\ DOMAIN N = DOMAIN M
        /\ \A y, m : Leads(N, y, m) <=> Leads(M, y, m)
        /\ \A y \in DOMAIN M : N[y].confirmed = M[y].confirmed
    BY <1>2, LinkedLeads DEF Grows
  <2> QED
    BY <1>3, <2>1 DEF Calm
<1>5. \A d : d \in Standing(N, k) <=> d \in Standing(M, k) \/ d = c
  BY <1>2 DEF Grows, Standing, Entrants
<1> QED
  BY <1>1, <1>2, <1>3, <1>4, <1>5 DEF N
LEMMA CarriedOut ==
  ASSUME NEW M, NEW active, NEW E, NEW x, Carried(M, active, E \cup {x}),
         \A k \in DOMAIN M : \A c : Gives(M, x, k, c) => c \in Standing(M, k)
  PROVE  Carried(M, active, E)
BY DEF Carried

\* A losers' match with a single feed passes its only contestant on.
LEMMA PassOnFlow ==
  ASSUME NEW f, NEW t \in Tournaments, NEW rank, Flow(f, t.matches, rank),
         NEW k \in DOMAIN t.matches, NEW x \in Feeders(t.matches, k),
         t.matches[x].confirmed, Calm(t.matches, k)
  PROVE  LET N == PassOn(t, k).matches
         IN  /\ Flow(f, N, rank)
             /\ \A active, E : Carried(t.matches, active, E) => Carried(N, active, E)
<1> DEFINE M == t.matches
           rows == M[k].entries
           next == M[k].next
           who == (CHOOSE e \in rows : TRUE).who
           sent == Sent(t, next, who)
           passed == AsConfirmed(sent, k)
<1>1. CASE PassOn(t, k) = t
  BY <1>1
<1>2. CASE /\ Cardinality(rows) = 1 /\ Cardinality(Feeders(M, k)) <= 1 /\ next # None
           /\ PassOn(t, k) = passed
  <2>1. M \in Brackets /\ rows \in Rows /\ IsFiniteSet(DOMAIN M) /\ next \in DOMAIN M
    BY <1>2, TournamentForm, MatchType, BracketParts
  <2>2. PICK e : rows = {e}
    BY <1>2, <2>1, FS_Singleton DEF Rows
  <2>3. who = e.who /\ who \in Contestants /\ who \in Standing(M, k)
    <3>1. who = e.who
      BY <2>2
    <3>2. who \in Contestants
      BY <1>2, <2>1, SoleType
    <3> QED
      BY <2>2, <3>1, <3>2, InStanding
  <2> HIDE DEF who
  <2>4. \A y \in Feeders(M, k) : y = x
    <3>1. IsFiniteSet(Feeders(M, k))
      BY <2>1, FS_Subset DEF Feeders
    <3>2. IsFiniteSet({x}) /\ Cardinality({x}) = 1
      BY FS_Singleton
    <3>3. {x} \subseteq Feeders(M, k)
      OBVIOUS
    <3>4. Cardinality(Feeders(M, k)) \in Nat
      BY <3>1, FS_CardinalityType
    <3>5. Cardinality({x}) <= Cardinality(Feeders(M, k))
      BY <3>1, <3>3, FS_Subset
    <3>6. Cardinality(Feeders(M, k)) = Cardinality({x})
      BY <1>2, <3>2, <3>4, <3>5
    <3>7. {x} = Feeders(M, k)
      BY <3>1, <3>3, <3>6, FS_Subset
    <3> QED
      BY <3>7
  <2>5. x \in DOMAIN M /\ Settled(M, x) /\ f.mode # "RR"
    BY <2>1, Fed DEF Flow, Ordered, Feeders
  <2>6. ~M[k].confirmed /\ ~Passing(M, k)
    BY LeadsSelf DEF Calm
  <2>7. Gives(M, k, next, who)
    BY <2>2, <2>3 DEF Gives
  <2>8. who \notin Standing(M, next)
    BY <1>2, <2>2, <2>3, <2>6 DEF Passing
  <2>9. k \in Feeders(M, next) /\ k # next
    <3>1. k \in Feeders(M, next)
      BY DEF Feeders
    <3> QED
      BY <2>1, <3>1, Fed DEF Flow
  <2>10. Calm(M, next)
    BY <2>1, <2>9, CalmOn
  <2>11. sent \in Tournaments
    BY <2>3, SentType
  <2> HIDE DEF sent
  <2> DEFINE S == sent.matches
  <2>12. /\ Flow(f, S, rank) /\ S \in Brackets /\ Grows(M, S, next, who)
         /\ who \in Standing(S, next)
         /\ \A active, E : Carried(M, active, E) => Carried(S, active, E)
    <3>1. \A y \in Feeders(M, k) : Settled(M, y)
      BY <2>4, <2>5
    <3>2. /\ next \in DOMAIN t.matches /\ who \in Contestants
          /\ Gives(t.matches, k, next, who) /\ who \notin Standing(t.matches, next)
          /\ Calm(t.matches, next) /\ \A y \in Feeders(t.matches, k) : Settled(t.matches, y)
      BY <2>1, <2>3, <2>7, <2>8, <2>10, <3>1
    <3> HIDE DEF next
    <3>3. /\ Flow(f, Sent(t, next, who).matches, rank)
          /\ Sent(t, next, who).matches \in Brackets
          /\ Grows(t.matches, Sent(t, next, who).matches, next, who)
      BY <3>2, SentFlow
    <3>4. who \in Standing(Sent(t, next, who).matches, next)
      BY <3>2, SentFlow
    <3>5. \A active, E : Carried(t.matches, active, E) => Carried(Sent(t, next, who).matches, active, E)
      BY <3>2, SentFlow
    <3> QED
      BY <3>3, <3>4, <3>5 DEF sent
  <2>13. /\ DOMAIN S = DOMAIN M /\ S[k].entries = {e} /\ S[x].confirmed /\ S[k].next = next
         /\ S[k].confirmed = M[k].confirmed
         /\ \A y \in Feeders(S, k) : y = x
    <3>1. Feeders(S, k) = Feeders(M, k) /\ DOMAIN S = DOMAIN M
      BY <2>12, LinkedLeads DEF Grows
    <3> QED
      BY <2>2, <2>4, <2>5, <2>9, <2>12, <3>1 DEF Grows, LinkedAs
  <2>14. e.score = None
    <3>1. Decided(M[k])
      BY <2>5 DEF Flow, Scores
    <3> QED
      BY <2>2, <2>6, <3>1 DEF Decided
  <2> DEFINE N == passed.matches
  <2>15. N \in Brackets /\ Confirms(S, N, k) /\ N[k].entries = S[k].entries
    BY <2>11, <2>13, ConfirmsForm, ConfirmType, TournamentForm
  <2> HIDE DEF S, N
  <2>16. Decided(N[k])
    BY <2>13, <2>14, <2>15 DEF Decided, Confirms
  <2>17. Settled(S, x)
    BY <2>5, <2>12, <2>13 DEF Flow, Ordered
  <2>18. /\ \A c, d \in N[k].entries : c.who = d.who => c = d
         /\ \A a, c, d \in N[k].entries : a = c \/ c = d \/ a = d
    BY <2>13, <2>15
  <2>19. /\ Flow(f, N, rank)
         /\ \A active, E, F : Carried(S, active, E) /\ E \subseteq F /\ k \in F => Carried(N, active, F)
    BY <2>12, <2>13, <2>15, <2>16, <2>17, <2>18, ConfirmedFlow
  <2>20. ASSUME NEW active, NEW E, Carried(M, active, E) PROVE Carried(N, active, E)
    <3>1. Carried(N, active, E \cup {k})
      BY <2>12, <2>19, <2>20
    <3>2. /\ DOMAIN N = DOMAIN S /\ N[k].next = next
          /\ Standing(N, next) = Standing(S, next)
      BY <2>1, <2>9, <2>13, <2>15 DEF Confirms, LinkedAs, Standing
    <3>3. ASSUME NEW j \in DOMAIN N, NEW c, Gives(N, k, j, c) PROVE c \in Standing(N, j)
      <4>1. c = who /\ j = next
        BY <2>3, <2>13, <2>14, <2>15, <3>2, <3>3, NoneApart DEF Gives
      <4> QED
        BY <2>12, <3>2, <4>1
    <3> QED
      BY <3>1, <3>3, CarriedOut
  <2> QED
    BY <1>2, <2>19, <2>20 DEF N
<1> QED
  BY <1>1, <1>2 DEF PassOn, AsConfirmed
\* A result sends the winner on, and the loser.
LEMMA SendFlow ==
  ASSUME NEW f, NEW t \in Tournaments, NEW rank, Flow(f, t.matches, rank), f.mode # "RR",
         NEW m \in DOMAIN t.matches, t.matches[m].confirmed,
         NEW k \in DOMAIN t.matches, NEW c \in Contestants,
         Gives(t.matches, m, k, c), c \notin Standing(t.matches, k), Calm(t.matches, k)
  PROVE  LET N == Sent(t, k, c).matches
         IN  /\ Flow(f, N, rank)
             /\ N \in Brackets /\ LinkedAs(t.matches, N)
             /\ N[m].confirmed /\ N[m].entries = t.matches[m].entries
             /\ \A y \in DOMAIN t.matches : \A d : d \in Standing(t.matches, y) => d \in Standing(N, y)
             /\ \A y \in DOMAIN t.matches \ {k} : \A d : d \in Standing(N, y) => d \in Standing(t.matches, y)
             /\ c \in Standing(N, k)
             /\ \A y \in DOMAIN t.matches : m \in Feeders(t.matches, y) /\ Calm(t.matches, y) => Calm(N, y)
             /\ \A active, E : Carried(t.matches, active, E) => Carried(N, active, E)
<1> DEFINE M == t.matches
           N == Sent(t, k, c).matches
<1>1. M \in Brackets
  BY TournamentForm
<1>2. \A y \in Feeders(M, m) : Settled(M, y)
  <2>1. Settled(M, m)
    BY DEF Flow, Ordered
  <2> QED
    BY <2>1, FeedersSettled
<1>3. Flow(f, N, rank) /\ N \in Brackets /\ Grows(M, N, k, c)
  BY <1>2, SentFlow
<1>4. \A y \in DOMAIN M : Calm(M, y) /\ ~Leads(M, y, m) => Calm(N, y)
  BY <1>2, SentFlow
<1>5. \A active, E : Carried(M, active, E) => Carried(N, active, E)
  BY <1>2, SentFlow
<1>6. m \in Feeders(M, k) /\ m # k
  <2>1. m \in Feeders(M, k)
    BY GivesForm
  <2> QED
    BY <1>1, <2>1, Fed DEF Flow
<1> HIDE DEF N
<1>7. /\ \A y \in DOMAIN M : \A d : d \in Standing(M, y) => d \in Standing(N, y)
      /\ \A y \in DOMAIN M \ {k} : \A d : d \in Standing(N, y) => d \in Standing(M, y)
      /\ c \in Standing(N, k)
  BY <1>3 DEF Grows, Standing, Entrants
<1>8. ASSUME NEW y \in DOMAIN M, m \in Feeders(M, y), Calm(M, y) PROVE Calm(N, y)
  <2>1. ~Leads(M, y, m)
    <3> SUFFICES ASSUME Leads(M, y, m) PROVE FALSE
      OBVIOUS
    <3>1. rank[y] <= rank[m] /\ rank[m] < rank[y] /\ rank[m] \in Nat /\ rank[y] \in Nat
      BY <1>1, <1>8, Fed, LeadsUp, BracketParts DEF Flow
    <3> QED
      BY <3>1
  <2> QED
    BY <1>4, <1>8, <2>1
<1>9. /\ LinkedAs(M, N) /\ N[m].confirmed /\ N[m].entries = M[m].entries
  BY <1>3, <1>6 DEF Grows
<1> QED
  BY <1>3, <1>5, <1>7, <1>8, <1>9 DEF N
\* A result of a match of two is entered.
LEMMA ScoredFlow ==
  ASSUME NEW f, NEW t \in Tournaments, NEW rank, Flow(f, t.matches, rank),
         NEW m \in DOMAIN t.matches, NEW who \in Contestants \cup {None},
         Playable(f, t.matches[m]), who \in Outcomes(f, t.matches[m])
  PROVE  LET M == t.matches
             N == Scored(t, m, who).matches
             rows == WithResult(M[m].entries, who)
         IN  /\ Flow(f, N, rank)
             /\ N \in Brackets /\ LinkedAs(M, N)
             /\ N[m].confirmed /\ N[m].entries = rows
             /\ \A active, E : Carried(M, active, E) => Carried(N, active, E \cup {m})
             /\ \A k \in DOMAIN M : m \in Feeders(M, k) =>
                  Calm(N, k) /\ \A c \in Standing(N, m) : c \notin Standing(N, k)
             /\ f.mode # "RR" =>
                  \E a, b : /\ rows = {a, b} /\ a.score = 1 /\ b.score = 0
                            /\ a.who = who /\ b.who = Loser(rows) /\ b.who \in Contestants
             /\ who = None => f.mode = "RR"
<1> DEFINE M == t.matches
           N == Scored(t, m, who).matches
           old == M[m].entries
           rows == WithResult(old, who)
<1>1. M \in Brackets /\ old \in Rows
  BY TournamentForm, MatchType
<1>2. ~M[m].confirmed
  BY <1>1, PlayableRows
<1>3. PICK d \in old, e \in old : old = {d, e} /\ d # e /\ d.who # e.who
  BY <1>1, PlayableRows
<1>4. N \in Brackets
  BY ScoredType, TournamentForm
<1>5. Confirms(M, N, m) /\ N[m].entries = rows
  BY ScoredForm
<1>6. LinkedAs(M, N) /\ N[m].confirmed
  BY <1>5 DEF Confirms
<1>7. /\ \A a, b \in rows : a.who = b.who => a = b
      /\ \A a, b, c \in rows : a = b \/ b = c \/ a = c
  <2>1. \A w \in Contestants \cup {None} :
          /\ \A a, b \in WithResult(old, w) : a.who = b.who => a = b
          /\ \A a, b, c \in WithResult(old, w) : a = b \/ b = c \/ a = c
    <3> HIDE DEF old
    <3> QED
      BY <1>1, <1>3, ResultRows
  <2> QED
    BY <2>1
<1>8. f.mode # "RR" => who \in {d.who, e.who} /\ who # None
  <2>1. None \notin Entrants(old)
    BY <1>1, EntrantsType, NoneApart
  <2>2. f.mode # "RR" => who \in Entrants(old)
    BY DEF Outcomes
  <2> QED
    BY <1>3, <2>1, <2>2 DEF Entrants
<1>9. f.mode # "RR" =>
        \E a, b : /\ rows = {a, b} /\ a.score = 1 /\ b.score = 0
                  /\ a.who = who /\ b.who = Loser(rows) /\ b.who \in Contestants
  <2> SUFFICES ASSUME f.mode # "RR"
               PROVE  \E a, b : /\ rows = {a, b} /\ a.score = 1 /\ b.score = 0
                                /\ a.who = who /\ b.who = Loser(rows) /\ b.who \in Contestants
    OBVIOUS
  <2>2. ASSUME NEW x \in old, NEW y \in old, old = {x, y}, x.who # y.who, who = x.who
        PROVE  \E a, b : /\ rows = {a, b} /\ a.score = 1 /\ b.score = 0
                         /\ a.who = who /\ b.who = Loser(rows) /\ b.who \in Contestants
    <3>0. y.who \in Contestants
      BY <1>1 DEF Rows, Row
    <3>1. Loser(WithResult(old, x.who)) = y.who
      BY <1>1, <2>2, ResultRows
    <3>2. PICK a, b : /\ WithResult(old, x.who) = {a, b}
                      /\ a.who = x.who /\ a.score = 1 /\ b.who = y.who /\ b.score = 0
      BY <1>1, <2>2, ResultRows
    <3> QED
      BY <2>2, <3>0, <3>1, <3>2
  <2>3. old = {e, d}
    BY <1>3
  <2> HIDE DEF rows, old
  <2> QED
    BY <1>3, <1>8, <2>2, <2>3
<1> HIDE DEF rows, N
<1>10. f.mode # "RR" => Decided(N[m])
  BY <1>5, <1>6, <1>9 DEF Decided
<1>11. \A y \in Feeders(M, m) : Settled(M, y)
  <2>1. d.who \in Standing(M, m) /\ e.who \in Standing(M, m)
    BY InStanding
  <2> QED
    BY <1>1, <1>3, <2>1, BehindPair
<1>12. Flow(f, N, rank)
  BY <1>1, <1>2, <1>3, <1>4, <1>5, <1>7, <1>10, <1>11, ConfirmedFlow
<1>13. \A y \in DOMAIN M : Passing(N, y) => Passing(M, y)
  BY <1>1, <1>2, <1>3, <1>4, <1>5, <1>7, <1>10, <1>11, ConfirmedFlow
<1>14. \A active, E, F : Carried(M, active, E) /\ E \subseteq F /\ m \in F => Carried(N, active, F)
  BY <1>1, <1>2, <1>3, <1>4, <1>5, <1>7, <1>10, <1>11, ConfirmedFlow
<1>15. ASSUME NEW active, NEW E, Carried(M, active, E) PROVE Carried(N, active, E \cup {m})
  BY <1>14, <1>15
<1>16. /\ DOMAIN N = DOMAIN M /\ \A x, k : Leads(N, x, k) <=> Leads(M, x, k)
  BY <1>6, LinkedLeads
<1>17. \A k \in DOMAIN M : m \in Feeders(M, k) => Calm(M, k) /\ Standing(M, m) \cap Standing(M, k) = {}
  BY <1>1, <1>2, <1>3, PlayableCalm
<1>18. \A y \in DOMAIN M : Standing(N, y) = Standing(M, y)
  BY <1>5 DEF Confirms, Standing
<1>19. ASSUME NEW k \in DOMAIN M, m \in Feeders(M, k)
       PROVE  Calm(N, k) /\ \A c \in Standing(N, m) : c \notin Standing(N, k)
  <2>1. Calm(M, k) /\ Standing(M, m) \cap Standing(M, k) = {}
    BY <1>17, <1>19
  <2>2. ~Leads(M, k, m)
    <3> SUFFICES ASSUME Leads(M, k, m) PROVE FALSE
      OBVIOUS
    <3>1. rank[k] <= rank[m] /\ rank[m] < rank[k] /\ rank[m] \in Nat /\ rank[k] \in Nat
      BY <1>1, <1>19, Fed, LeadsUp, BracketParts DEF Flow
    <3> QED
      BY <3>1
  <2>3. Calm(N, k)
    <3> SUFFICES ASSUME NEW x \in DOMAIN M, Leads(M, k, x) PROVE ~N[x].confirmed /\ ~Passing(N, x)
      BY <1>16 DEF Calm
    <3> QED
      BY <1>5, <1>13, <2>1, <2>2 DEF Calm, Confirms
  <2> QED
    BY <1>18, <1>19, <2>1, <2>3
<1> QED
  BY <1>4, <1>5, <1>6, <1>8, <1>9, <1>12, <1>15, <1>19 DEF rows, N
\* The two of the first grand final meet once more.
LEMMA ResetFlow ==
  ASSUME NEW f, NEW t \in Tournaments, NEW rank, Flow(f, t.matches, rank),
         NEW m \in DOMAIN t.matches, t.matches[m].confirmed,
         NEW who \in Contestants, NeedsReset(t, f, m, who)
  PROVE  LET N == WithReset(t).matches
         IN  /\ Flow(f, N, rank)
             /\ \A active, E : Carried(t.matches, active, E) => Carried(N, active, E)
<1> DEFINE M == t.matches
           N == WithReset(t).matches
           first == GrandFinal(0)
           second == GrandFinal(1)
<1>1. m = first /\ M[first].next = None /\ LowerChampion(M) = who
  BY DEF NeedsReset
<1>2. M \in Brackets /\ N \in Brackets /\ second \notin DOMAIN M
  BY <1>1, WithResetType, TournamentForm
<1>3. f.mode # "RR"
  <2>1. who # None
    BY NoneApart
  <2>2. PICK x \in Feeders(M, first) : x[1] = "LB"
    BY <1>1, <2>1 DEF LowerChampion
  <2> QED
    BY <1>1, <1>2, <2>2, Fed DEF Flow
<1>4. N = [x \in DOMAIN M \cup {second} |->
             CASE x = second -> Made(None, None, FALSE, Entrants(M[first].entries))
               [] x = first  -> [M[first] EXCEPT !.next = second]
               [] OTHER      -> M[x]]
  BY DEF WithReset, Tournaments
<1>5. M[first] \in MatchIn(DOMAIN M) /\ first # second
  BY <1>1, <1>2, MatchType, GrandFinals
<1> HIDE DEF N
<1>6. /\ N[second] = Made(None, None, FALSE, Entrants(M[first].entries))
      /\ N[first] = [M[first] EXCEPT !.next = second]
      /\ \A x \in DOMAIN M : x # first => N[x] = M[x]
      /\ DOMAIN N = DOMAIN M \cup {second}
  BY <1>1, <1>2, <1>4, <1>5
<1>7. HasSecond(M, N)
  <2>1. /\ N[first].next = second /\ N[first].loserNext = M[first].loserNext
        /\ N[first].confirmed = M[first].confirmed /\ N[first].entries = M[first].entries
    BY <1>5, <1>6 DEF MatchIn
  <2> QED
    BY <1>1, <1>2, <1>6, <2>1 DEF HasSecond
<1>8. N[second].entries = Fresh(Standing(M, first)) /\ ~N[second].confirmed
  BY <1>6 DEF Made, Standing
<1>9. Flow(f, N, rank)
  BY <1>2, <1>3, <1>7, <1>8, SecondMade
<1>10. \A active, E : Carried(M, active, E) => Carried(N, active, E)
  BY <1>2, <1>3, <1>7, <1>8, SecondMade
<1> QED
  BY <1>9, <1>10 DEF N

LEMMA ConfirmedFlows ==
  ASSUME NEW f, NEW t \in Tournaments, NEW rank, Flow(f, t.matches, rank),
         NEW active, Carried(t.matches, active, {}),
         NEW m \in DOMAIN t.matches, NEW who \in Contestants \cup {None},
         Playable(f, t.matches[m]), who \in Outcomes(f, t.matches[m])
  PROVE  LET N == Confirmed(t, f, m, who).matches
         IN  Flow(f, N, rank) /\ Carried(N, active, {})
<1> DEFINE M == t.matches
           rows == WithResult(M[m].entries, who)
           set == Scored(t, m, who)
           S == set.matches
           next == M[m].next
           lower == M[m].loserNext
           advanced == Sent(set, next, who)
           sent == Sent(advanced, lower, Loser(rows))
           dropped == IF lower = None THEN advanced ELSE PassOn(sent, lower)
           done == IF NeedsReset(dropped, f, m, who) THEN WithReset(dropped) ELSE dropped
           last == Concluded(done, f, m, done.matches[m].next, who)
<1>1. Confirmed(t, f, m, who) = IF who = None THEN set ELSE last
  BY DEF Confirmed, Scored
<1>2. /\ M \in Brackets /\ S \in Brackets /\ set \in Tournaments /\ LinkedAs(M, S) /\ Flow(f, S, rank)
      /\ S[m].confirmed /\ S[m].entries = rows
      /\ who = None => f.mode = "RR"
  <2>1. M \in Brackets /\ S \in Brackets /\ set \in Tournaments
    BY ScoredType, TournamentForm
  <2>2. Flow(f, S, rank) /\ LinkedAs(M, S)
    BY ScoredFlow
  <2>3. S[m].confirmed
    BY ScoredFlow
  <2>5. S[m].entries = rows
    <3>1. Scored(t, m, who).matches[m].entries = WithResult(t.matches[m].entries, who)
      BY ScoredForm
    <3> QED
      BY <3>1
  <2>4. who = None => f.mode = "RR"
    BY ScoredFlow
  <2> HIDE DEF M, S, set, rows
  <2> QED
    BY <2>1, <2>2, <2>3, <2>4, <2>5
<1>3. Carried(S, active, {m})
  <2>1. \A E : Carried(M, active, E) => Carried(S, active, E \cup {m})
    BY ScoredFlow
  <2>2. {} \cup {m} = {m}
    OBVIOUS
  <2> HIDE DEF S, M
  <2> QED
    BY <2>1, <2>2 DEF M
<1>4. \A k \in DOMAIN M : m \in Feeders(M, k) =>
        Calm(S, k) /\ \A c \in Standing(S, m) : c \notin Standing(S, k)
  BY ScoredFlow
<1>5. f.mode # "RR" =>
         \E a, b : /\ rows = {a, b} /\ a.score = 1 /\ b.score = 0
                   /\ a.who = who /\ b.who = Loser(rows) /\ b.who \in Contestants
  BY ScoredFlow
<1>6. /\ next \in DOMAIN M \cup {None} /\ lower \in DOMAIN M \cup {None}
      /\ None \notin DOMAIN M
      /\ f.mode = "RR" => next = None /\ lower = None
      /\ lower # None => next # None /\ lower # next /\ m # GrandFinal(0)
      /\ next = GrandFinal(1) => m = GrandFinal(0)
  BY <1>2, BracketParts DEF Flow, Layout
<1>7. DOMAIN S = DOMAIN M /\ S[m].next = next /\ S[m].loserNext = lower
      /\ \A k : Feeders(S, k) = Feeders(M, k)
  BY <1>2, LinkedLeads DEF LinkedAs
<1>8. next # GrandFinal(1)
  <2> SUFFICES ASSUME next = GrandFinal(1) PROVE FALSE
    OBVIOUS
  <2>1. m = GrandFinal(0) /\ GrandFinal(1) \in DOMAIN M
    BY <1>6, GrandFinals
  <2>2. M[m].confirmed
    BY <2>1 DEF Flow
  <2> QED
    BY <2>2 DEF Playable
<1> HIDE DEF set, rows, next, lower
<1>9. CASE who = None \/ f.mode = "RR"
  <2>1. Carried(S, active, {})
    <3>1. \A k \in DOMAIN S : \A c : ~Gives(S, m, k, c)
      BY <1>2, <1>6, <1>7, <1>9 DEF Gives
    <3>2. Carried(S, active, {} \cup {m})
      BY <1>3
    <3> HIDE DEF S
    <3> QED
      BY <3>1, <3>2, CarriedOut
  <2>2. advanced = set
    BY <1>2, <1>6, <1>9 DEF Sent
  <2>3. dropped = set
    BY <1>2, <1>6, <1>9, <2>2
  <2> HIDE DEF advanced, dropped
  <2>4. who # None => /\ Flow(f, done.matches, rank) /\ Carried(done.matches, active, {})
                      /\ done \in Tournaments
    <3> SUFFICES ASSUME who # None
                 PROVE  /\ Flow(f, done.matches, rank) /\ Carried(done.matches, active, {})
                        /\ done \in Tournaments
      OBVIOUS
    <3>1. CASE NeedsReset(dropped, f, m, who)
      <4>1. who \in Contestants
        OBVIOUS
      <4>2. GrandFinal(0) \in DOMAIN set.matches /\ set.matches[GrandFinal(0)].next = None
        BY <1>7, <2>3, <3>1 DEF NeedsReset
      <4>3. WithReset(set) \in Tournaments
        BY <1>2, <4>2, WithResetType
      <4>4. Flow(f, WithReset(set).matches, rank)
        BY <1>2, <1>7, <2>3, <3>1, <4>1, ResetFlow
      <4>5. Carried(WithReset(set).matches, active, {})
        BY <1>2, <1>7, <2>1, <2>3, <3>1, <4>1, ResetFlow
      <4> QED
        BY <2>3, <3>1, <4>3, <4>4, <4>5
    <3>2. CASE ~NeedsReset(dropped, f, m, who)
      BY <1>2, <2>1, <2>3, <3>2
    <3> QED
      BY <3>1, <3>2
  <2> HIDE DEF done
  <2>5. who # None => last.matches = done.matches
    BY <2>4, ConcludedType
  <2> HIDE DEF last
  <2> QED
    BY <1>1, <1>2, <2>1, <2>4, <2>5
<1>10. CASE who # None /\ f.mode # "RR"
  <2>1. PICK a, b : /\ rows = {a, b} /\ a.score = 1 /\ b.score = 0
                    /\ a.who = who /\ b.who = Loser(rows) /\ b.who \in Contestants
    BY <1>5, <1>10
  <2>2. who \in Contestants /\ 0 # 1
    BY <1>10
  <2> DEFINE loser == Loser(rows)
  <2> HIDE DEF loser
  <2>3. who \in Standing(S, m) /\ loser \in Standing(S, m) /\ loser = b.who /\ loser \in Contestants
    BY <1>2, <2>1, InStanding DEF loser
  <2> DEFINE A == advanced.matches
  <2>4. /\ advanced \in Tournaments
        /\ Flow(f, A, rank) /\ LinkedAs(M, A)
        /\ A[m].confirmed /\ A[m].entries = rows
        /\ next # None => who \in Standing(A, next)
        /\ lower # None => Calm(A, lower) /\ loser \notin Standing(A, lower)
        /\ Carried(A, active, {m})
    <3>1. CASE next = None
      <4>1. advanced = set /\ lower = None
        BY <1>6, <3>1 DEF Sent
      <4> HIDE DEF advanced
      <4> QED
        BY <1>2, <1>3, <3>1, <4>1
    <3>2. CASE next # None
      <4>1. /\ next \in DOMAIN S /\ m \in Feeders(S, next) /\ m \in DOMAIN S
            /\ lower # None => lower \in DOMAIN S /\ m \in Feeders(S, lower)
        BY <1>6, <1>7, <3>2 DEF Feeders
      <4>2. Gives(S, m, next, who)
        <5>1. a \in S[m].entries /\ a.who = who /\ a.score = 1 /\ S[m].next = next /\ S[m].confirmed
          BY <1>2, <1>7, <2>1
        <5> HIDE DEF S
        <5> QED
          BY <5>1 DEF Gives
      <4>3. who \notin Standing(S, next) /\ Calm(S, next)
        <5>1. next \in DOMAIN M /\ m \in Feeders(M, next)
          BY <1>7, <4>1
        <5> HIDE DEF M, S
        <5> QED
          BY <1>4, <2>3, <5>1
      <4>4. advanced \in Tournaments
        BY <1>2, <2>2, SentType
      <4>0. /\ set \in Tournaments /\ Flow(f, S, rank) /\ f.mode # "RR"
            /\ m \in DOMAIN S /\ S[m].confirmed /\ next \in DOMAIN S /\ who \in Contestants
            /\ Gives(S, m, next, who) /\ who \notin Standing(S, next) /\ Calm(S, next)
        <5> HIDE DEF S
        <5> QED
          BY <1>2, <1>10, <2>2, <4>1, <4>2, <4>3
      <4> HIDE DEF M
      <4>5. Flow(f, A, rank) /\ LinkedAs(S, A) /\ A[m].confirmed /\ A[m].entries = S[m].entries
        <5>1. Flow(f, A, rank)
          BY <4>0, SendFlow
        <5>2. LinkedAs(S, A)
          BY <4>0, SendFlow
        <5>3. A[m].confirmed
          BY <4>0, SendFlow
        <5>4. A[m].entries = S[m].entries
          <6>1. Grows(S, A, next, who)
            BY <4>0, SentGrows
          <6>2. m # next
            BY <1>2, <4>0, <4>1, Fed DEF Flow
          <6> HIDE DEF S, A
          <6> QED
            BY <4>0, <6>1, <6>2 DEF Grows
        <5> QED
          BY <5>1, <5>2, <5>3, <5>4
      <4>6. who \in Standing(A, next)
        BY <4>0, SendFlow
      <4>7. \A y \in DOMAIN S \ {next} : \A d : d \in Standing(A, y) => d \in Standing(S, y)
        BY <4>0, SendFlow
      <4>8. \A y \in DOMAIN S : m \in Feeders(S, y) /\ Calm(S, y) => Calm(A, y)
        BY <4>0, SendFlow
      <4>9. \A E : Carried(S, active, E) => Carried(A, active, E)
        BY <4>0, SendFlow
      <4>10. LinkedAs(M, A)
        BY <1>2, <4>5 DEF LinkedAs
      <4>11. lower # None => Calm(A, lower) /\ loser \notin Standing(A, lower)
        <5> SUFFICES ASSUME lower # None PROVE Calm(A, lower) /\ loser \notin Standing(A, lower)
          OBVIOUS
        <5>1. lower \in DOMAIN S /\ m \in Feeders(S, lower) /\ lower # next
          BY <1>6, <4>1
        <5>2. lower \in DOMAIN M /\ m \in Feeders(M, lower)
          BY <1>7, <5>1
        <5>3. Calm(S, lower) /\ loser \notin Standing(S, lower)
          <6> HIDE DEF M, S
          <6> QED
            BY <1>4, <2>3, <5>2
        <5> HIDE DEF S, A
        <5> QED
          BY <4>7, <4>8, <5>1, <5>3
      <4> HIDE DEF A, advanced
      <4> QED
        BY <1>2, <1>3, <4>4, <4>5, <4>6, <4>9, <4>10, <4>11
    <3> QED
      BY <3>1, <3>2
  <2> HIDE DEF advanced
  <2>5. /\ DOMAIN A = DOMAIN M /\ A[m].next = next /\ A[m].loserNext = lower
        /\ A \in Brackets
    BY <2>4, TournamentForm DEF LinkedAs, next, lower
  <2>6. ASSUME NEW N \in Brackets, LinkedAs(M, N), N[m].confirmed, N[m].entries = rows,
               Carried(N, active, {m}),
               next # None => who \in Standing(N, next),
               lower # None => loser \in Standing(N, lower)
        PROVE  Carried(N, active, {})
    <3>1. DOMAIN N = DOMAIN M /\ N[m].next = next /\ N[m].loserNext = lower
      BY <2>6 DEF LinkedAs, next, lower
    <3>2. ASSUME NEW k \in DOMAIN N, NEW c, Gives(N, m, k, c) PROVE c \in Standing(N, k)
      <4>1. PICK e \in rows :
              /\ e.who = c
              /\ \/ next = k /\ (rows = {e} \/ e.score = 1)
                 \/ lower = k /\ e.score = 0
        BY <1>8, <2>6, <3>1, <3>2 DEF Gives
      <4>2. k # None
        BY <1>6, <3>1
      <4>3. e = a \/ e = b
        BY <2>1, <4>1
      <4>4. a # b
        BY <2>1
      <4> QED
        BY <2>1, <2>3, <2>6, <4>1, <4>2, <4>3, <4>4
    <3>3. Carried(N, active, {} \cup {m})
      BY <2>6
    <3> QED
      BY <3>2, <3>3, CarriedOut
  <2>7. /\ dropped \in Tournaments /\ Flow(f, dropped.matches, rank)
        /\ Carried(dropped.matches, active, {})
        /\ m \in DOMAIN dropped.matches /\ dropped.matches[m].confirmed
    <3>1. CASE lower = None
      <4>1. dropped = advanced
        BY <3>1
      <4>2. Carried(A, active, {})
        BY <2>4, <2>5, <2>6, <3>1
      <4> HIDE DEF dropped
      <4> QED
        BY <2>4, <2>5, <4>1, <4>2
    <3>2. CASE lower # None
      <4> DEFINE T == sent.matches
      <4>1. lower \in DOMAIN A /\ m \in DOMAIN A /\ m \in Feeders(A, lower) /\ lower # next /\ next \in DOMAIN A
        BY <1>6, <2>5, <3>2 DEF Feeders
      <4>2. Gives(A, m, lower, loser)
        BY <2>1, <2>3, <2>4, <2>5 DEF Gives
      <4>3. sent = Sent(advanced, lower, loser)
        BY DEF loser
      <4> HIDE DEF sent
      <4>4. sent \in Tournaments
        BY <2>3, <2>4, <4>3, SentType
      <4>0. /\ advanced \in Tournaments /\ Flow(f, A, rank) /\ f.mode # "RR"
            /\ m \in DOMAIN A /\ A[m].confirmed /\ lower \in DOMAIN A /\ loser \in Contestants
            /\ Gives(A, m, lower, loser) /\ loser \notin Standing(A, lower) /\ Calm(A, lower)
        BY <1>10, <2>3, <2>4, <3>2, <4>1, <4>2
      <4> HIDE DEF M
      <4>5. Flow(f, T, rank) /\ LinkedAs(A, T) /\ T[m].confirmed /\ T[m].entries = A[m].entries
        <5>1. Flow(f, T, rank)
          BY <4>0, <4>3, SendFlow
        <5>2. LinkedAs(A, T)
          BY <4>0, <4>3, SendFlow
        <5>3. T[m].confirmed
          BY <4>0, <4>3, SendFlow
        <5>4. T[m].entries = A[m].entries
          BY <4>0, <4>3, SendFlow
        <5> QED
          BY <5>1, <5>2, <5>3, <5>4
      <4>6. loser \in Standing(T, lower)
        BY <4>0, <4>3, SendFlow
      <4>7. \A y \in DOMAIN A : \A d : d \in Standing(A, y) => d \in Standing(T, y)
        BY <4>0, <4>3, SendFlow
      <4>8. \A y \in DOMAIN A : m \in Feeders(A, y) /\ Calm(A, y) => Calm(T, y)
        BY <4>0, <4>3, SendFlow
      <4>9. \A E : Carried(A, active, E) => Carried(T, active, E)
        BY <4>0, <4>3, SendFlow
      <4>10. T \in Brackets /\ LinkedAs(M, T) /\ DOMAIN T = DOMAIN A /\ \A k : Feeders(T, k) = Feeders(A, k)
        <5>1. T \in Brackets /\ LinkedAs(M, T)
          BY <2>4, <4>4, <4>5, TournamentForm DEF LinkedAs
        <5> QED
          BY <4>5, <5>1, LinkedLeads
      <4> HIDE DEF T, A
      <4>11. Carried(T, active, {})
        <5>1. Carried(T, active, {m})
          BY <2>4, <4>9
        <5>2. next # None => who \in Standing(T, next)
          BY <2>4, <4>1, <4>7
        <5> QED
          BY <2>4, <2>6, <4>5, <4>6, <4>10, <5>1, <5>2
      <4>12. Calm(T, lower) /\ m \in Feeders(T, lower) /\ lower \in DOMAIN T
        BY <2>4, <3>2, <4>1, <4>8, <4>10
      <4>13. Flow(f, PassOn(sent, lower).matches, rank)
        BY <4>4, <4>5, <4>12, PassOnFlow DEF T
      <4>14. \A E : Carried(T, active, E) => Carried(PassOn(sent, lower).matches, active, E)
        BY <4>4, <4>5, <4>12, PassOnFlow DEF T
      <4>15. PassOn(sent, lower) \in Tournaments /\ Keeps(T, PassOn(sent, lower).matches)
        BY <4>4, <4>12, PassOnType DEF T
      <4>16. m \in DOMAIN PassOn(sent, lower).matches /\ PassOn(sent, lower).matches[m].confirmed
        BY <4>1, <4>5, <4>10, <4>15 DEF Keeps
      <4>17. dropped = PassOn(sent, lower)
        BY <3>2
      <4> HIDE DEF dropped
      <4> QED
        BY <4>11, <4>13, <4>14, <4>15, <4>16, <4>17
    <3> QED
      BY <3>1, <3>2
  <2> HIDE DEF dropped
  <2>8. /\ Flow(f, done.matches, rank) /\ Carried(done.matches, active, {})
        /\ done \in Tournaments
    <3>1. CASE NeedsReset(dropped, f, m, who)
      <4>1. GrandFinal(0) \in DOMAIN dropped.matches /\ dropped.matches[GrandFinal(0)].next = None
        BY <2>7, <3>1 DEF NeedsReset
      <4>2. WithReset(dropped) \in Tournaments
        BY <2>7, <4>1, WithResetType
      <4>3. Flow(f, WithReset(dropped).matches, rank)
        BY <2>2, <2>7, <3>1, ResetFlow
      <4>4. Carried(WithReset(dropped).matches, active, {})
        BY <2>2, <2>7, <3>1, ResetFlow
      <4> QED
        BY <3>1, <4>2, <4>3, <4>4
    <3>2. CASE ~NeedsReset(dropped, f, m, who)
      BY <2>7, <3>2
    <3> QED
      BY <3>1, <3>2
  <2> HIDE DEF done
  <2>9. last.matches = done.matches
    BY <2>8, ConcludedType
  <2> HIDE DEF last
  <2> QED
    BY <1>1, <1>10, <2>8, <2>9
<1> QED
  BY <1>9, <1>10

-----------------------------------------------------------------------------
(* A contestant leaves *)

\* The rows are the same but in two matches.
SameRowsBut(M, N, m, k) == \A y \in DOMAIN M : y # m /\ y # k => N[y].entries = M[y].entries

\* A match that the only opponent left has won sends them on.
LEMMA ForfeitedLinks ==
  ASSUME NEW f, NEW t \in Tournaments, NEW m \in DOMAIN t.matches, NEW e, t.matches[m].entries = {e},
         NEW confirming \in BOOLEAN
  PROVE  LET N == Forfeited(t, f, m, t.matches[m].next, confirming).matches
         IN  /\ LinkedAs(t.matches, N)
             /\ SameRowsBut(t.matches, N, m, t.matches[m].next)
<1> DEFINE M == t.matches
           next == M[m].next
           sole == (CHOOSE d \in M[m].entries : TRUE).who
           there == next # None /\ sole \in Entrants(M[next].entries)
           advanced == IF there THEN t ELSE Sent(t, next, sole)
           done == AsConfirmed(advanced, m)
           new == Forfeited(t, f, m, next, confirming)
           A == advanced.matches
           N == done.matches
<1>1. /\ M \in Brackets /\ next \in DOMAIN M \cup {None} /\ None \notin DOMAIN M
      /\ e.who \in Contestants
  <2>1. M \in Brackets
    BY TournamentForm
  <2>2. next \in DOMAIN M \cup {None} /\ M[m].entries \subseteq Row
    BY <2>1, MatchType
  <2> QED
    BY <2>1, <2>2, BracketParts DEF Row
<1>2. Cardinality(M[m].entries) = 1 /\ sole = e.who
  <2>1. Cardinality({e}) = 1
    BY FS_Singleton
  <2> QED
    BY <2>1
<1>3. new = IF confirming THEN Concluded(done, f, m, next, sole) ELSE advanced
  BY <1>2 DEF Forfeited, AsConfirmed
<1> HIDE DEF sole
<1>4. advanced = t \/ (next \in DOMAIN M /\ advanced = Sent(t, next, e.who))
  BY <1>1, <1>2 DEF Sent
<1> HIDE DEF advanced
<1>5. advanced \in Tournaments /\ LinkedAs(M, A)
      /\ \A y \in DOMAIN M \ {next} : A[y].entries = M[y].entries
  <2>1. CASE advanced = t
    BY <2>1 DEF LinkedAs
  <2>2. CASE next \in DOMAIN M /\ advanced = Sent(t, next, e.who)
    <3>1. Grows(M, A, next, e.who)
      BY <1>1, <2>2, SentGrows
    <3>2. advanced \in Tournaments
      BY <1>1, <2>2, SentType
    <3> HIDE DEF A
    <3> QED
      BY <3>1, <3>2 DEF Grows
  <2> QED
    BY <1>4, <2>1, <2>2
<1>6. Confirms(A, N, m)
  BY <1>5, ConfirmsForm DEF LinkedAs
<1>7. done \in Tournaments
  BY <1>5, ConfirmType
<1> HIDE DEF done
<1>8. Concluded(done, f, m, next, sole).matches = N
  BY <1>1, <1>2, <1>7, ConcludedType
<1> HIDE DEF A, N, M
<1>9. LinkedAs(M, N) /\ \A y \in DOMAIN M \ {m, next} : N[y].entries = M[y].entries
  BY <1>5, <1>6 DEF Confirms, LinkedAs
<1>10. new.matches = A \/ new.matches = N
  BY <1>3, <1>8 DEF A
<1> HIDE DEF new
<1>11. LinkedAs(M, new.matches) /\ \A y \in DOMAIN M \ {m, next} : new.matches[y].entries = M[y].entries
  BY <1>5, <1>9, <1>10
<1> QED
  BY <1>11 DEF new, M, SameRowsBut

\* The only opponent left in a match goes on, and the match may be confirmed.
LEMMA ForfeitedFlow ==
  ASSUME NEW f, NEW t \in Tournaments, NEW rank, Flow(f, t.matches, rank),
         NEW active, Carried(t.matches, active, {}),
         NEW m \in DOMAIN t.matches, NEW e, t.matches[m].entries = {e},
         ~t.matches[m].confirmed \/ f.mode = "RR",
         \A y \in Feeders(t.matches, m) : Settled(t.matches, y),
         t.matches[m].next # None => /\ e.who \notin Standing(t.matches, t.matches[m].next)
                                     /\ Calm(t.matches, t.matches[m].next),
         NEW confirming \in BOOLEAN
  PROVE  LET N == Forfeited(t, f, m, t.matches[m].next, confirming).matches
         IN  Flow(f, N, rank) /\ Carried(N, active, {})
<1> DEFINE M == t.matches
           next == M[m].next
           sole == (CHOOSE d \in M[m].entries : TRUE).who
           there == next # None /\ sole \in Entrants(M[next].entries)
           advanced == IF there THEN t ELSE Sent(t, next, sole)
           done == AsConfirmed(advanced, m)
           new == Forfeited(t, f, m, next, confirming)
           A == advanced.matches
           N == done.matches
<1>1. /\ M \in Brackets /\ next \in DOMAIN M \cup {None} /\ None \notin DOMAIN M
      /\ e.who \in Contestants
  <2>1. M \in Brackets
    BY TournamentForm
  <2>2. next \in DOMAIN M \cup {None} /\ M[m].entries \subseteq Row
    BY <2>1, MatchType
  <2> QED
    BY <2>1, <2>2, BracketParts DEF Row
<1>2. Cardinality(M[m].entries) = 1 /\ sole = e.who
  <2>1. Cardinality({e}) = 1
    BY FS_Singleton
  <2> QED
    BY <2>1
<1>3. new = IF confirming THEN Concluded(done, f, m, next, sole) ELSE advanced
  BY <1>2 DEF Forfeited, AsConfirmed
<1> HIDE DEF sole
<1>4. advanced = IF next = None THEN t ELSE Sent(t, next, e.who)
  BY <1>2 DEF Sent, Standing
<1>5. e.score = None \/ f.mode = "RR"
  BY DEF Flow, Scores, Decided
<1>6. advanced \in Tournaments
  BY <1>1, <1>4, SentType
<1> HIDE DEF advanced
<1>7. /\ Flow(f, A, rank) /\ Carried(A, active, {}) /\ LinkedAs(M, A)
      /\ A[m].entries = {e}
      /\ next # None => e.who \in Standing(A, next)
      /\ \A y \in Feeders(A, m) : Settled(A, y)
      /\ \A y \in DOMAIN M \ {next} : A[y].entries = M[y].entries
  <2>1. CASE next = None
    <3>1. A = M
      BY <1>4, <2>1
    <3>2. LinkedAs(M, M)
      BY DEF LinkedAs
    <3> HIDE DEF A
    <3> QED
      BY <2>1, <3>1, <3>2
  <2>2. CASE next # None
    <3>1. next \in DOMAIN M /\ m \in Feeders(M, next)
      BY <1>1, <2>2 DEF Feeders
    <3>2. m # next /\ f.mode # "RR"
      BY <1>1, <3>1, Fed DEF Flow
    <3>3. Gives(M, m, next, e.who) /\ e.who \notin Standing(M, next) /\ Calm(M, next)
      BY <2>2 DEF Gives
    <3>4. advanced = Sent(t, next, e.who)
      BY <1>4, <2>2
    <3>14. /\ next \in DOMAIN M /\ e.who \in Contestants /\ Gives(M, m, next, e.who)
           /\ e.who \notin Standing(M, next) /\ Calm(M, next)
      BY <1>1, <3>1, <3>3
    <3> HIDE DEF next
    <3>5. Flow(f, A, rank)
      BY <3>4, <3>14, SentFlow, SMTT(60)
    <3>6. Carried(A, active, {})
      <4>1. \A E : Carried(M, active, E) => Carried(A, active, E)
        BY <3>4, <3>14, SentFlow
      <4> HIDE DEF A
      <4> QED
        BY <4>1
    <3>7. e.who \in Standing(A, next)
      BY <3>4, <3>14, SentFlow
    <3>8. Grows(M, A, next, e.who)
      BY <1>1, <3>1, <3>4, SentGrows
    <3> HIDE DEF A
    <3>9. LinkedAs(M, A) /\ A[m].entries = {e} /\ A[m].confirmed = M[m].confirmed
          /\ \A y \in DOMAIN M \ {next} : A[y].entries = M[y].entries
      BY <3>2, <3>8 DEF Grows
    <3>10. A[m].next = next
      BY <3>9 DEF LinkedAs, next
    <3>11. Passing(A, m)
      BY <2>2, <3>2, <3>7, <3>9, <3>10 DEF Passing
    <3>12. Settled(A, m) /\ m \in DOMAIN A
      BY <3>5, <3>9, <3>11 DEF Flow, Ordered, LinkedAs
    <3>13. \A y \in Feeders(A, m) : Settled(A, y)
      BY <3>12, FeedersSettled
    <3> QED
      BY <3>5, <3>6, <3>7, <3>9, <3>13
  <2> QED
    BY <2>1, <2>2
<1>8. A \in Brackets /\ m \in DOMAIN A /\ DOMAIN A = DOMAIN M /\ A[m].next = next
  BY <1>6, <1>7, TournamentForm DEF LinkedAs
<1>9. Confirms(A, N, m) /\ N[m].entries = A[m].entries
  BY <1>6, <1>8, ConfirmsForm
<1>10. N \in Brackets /\ done \in Tournaments
  BY <1>6, ConfirmType, TournamentForm
<1> HIDE DEF done
<1>11. Concluded(done, f, m, next, sole).matches = N
  BY <1>1, <1>2, <1>10, ConcludedType
<1> HIDE DEF A, N
<1>12. f.mode # "RR" => Decided(N[m])
  BY <1>5, <1>7, <1>9 DEF Decided, Confirms
<1>19. /\ \A c, d \in N[m].entries : c.who = d.who => c = d
       /\ \A a, c, d \in N[m].entries : a = c \/ c = d \/ a = d
  BY <1>7, <1>9
<1>20. \A y \in Feeders(A, m) : Settled(A, y)
  BY <1>7
<1>21. Flow(f, A, rank)
  BY <1>7
<1>13. Flow(f, N, rank)
  BY <1>8, <1>9, <1>10, <1>12, <1>19, <1>20, <1>21, ConfirmedFlow
<1>14. \A E, F : Carried(A, active, E) /\ E \subseteq F /\ m \in F => Carried(N, active, F)
  BY <1>8, <1>9, <1>10, <1>12, <1>19, <1>20, <1>21, ConfirmedFlow
<1>15. Carried(N, active, {})
  <2>1. Carried(N, active, {m})
    BY <1>7, <1>14
  <2>2. DOMAIN N = DOMAIN M /\ N[m].next = next
        /\ \A k \in DOMAIN M : e.who \in Standing(A, k) => e.who \in Standing(N, k)
    BY <1>8, <1>9 DEF Confirms, LinkedAs, Standing
  <2>3. f.mode = "RR" => N[m].next = None /\ N[m].loserNext = None
    BY <1>8, <1>13, <2>2 DEF Flow, Layout
  <2>4. ASSUME NEW k \in DOMAIN N, NEW c, Gives(N, m, k, c) PROVE c \in Standing(N, k)
    <3>1. c = e.who /\ k = next
      BY <1>1, <1>5, <1>7, <1>9, <2>2, <2>3, <2>4, NoneApart DEF Gives
    <3> QED
      BY <1>1, <1>7, <2>2, <3>1
  <2>5. Carried(N, active, {} \cup {m})
    BY <2>1
  <2> QED
    BY <2>4, <2>5, CarriedOut
<1>17. new.matches = A \/ new.matches = N
  BY <1>3, <1>11 DEF A
<1> HIDE DEF new
<1>18. Flow(f, new.matches, rank) /\ Carried(new.matches, active, {})
  BY <1>7, <1>13, <1>15, <1>17
<1> QED
  BY <1>18 DEF new

\* The rows of a contestant in the matches K go.
LEMMA WithoutShrinks ==
  ASSUME NEW t \in Tournaments, NEW c, NEW K
  PROVE  /\ Shrinks(t.matches, Without(t, c, K).matches, K, c)
         /\ Without(t, c, K).matches \in Brackets
<1> DEFINE M == t.matches
           N == [x \in DOMAIN M |-> IF x \in K THEN Vacated(M[x], c) ELSE M[x]]
<1>1. M \in [DOMAIN M -> MatchIn(DOMAIN M)]
  BY TournamentForm, BracketsForm
<1>2. Without(t, c, K).matches = N
  BY DEF Without, Tournaments
<1> HIDE DEF M
<1>3. Shrinks(M, N, K, c)
  <2> SUFFICES ASSUME NEW x \in DOMAIN M
               PROVE  /\ N[x].next = M[x].next /\ N[x].loserNext = M[x].loserNext
                      /\ N[x].confirmed = M[x].confirmed
                      /\ N[x].entries = IF x \in K THEN {e \in M[x].entries : e.who # c} ELSE M[x].entries
    BY DEF Shrinks, LinkedAs
  <2>1. M[x] \in MatchIn(DOMAIN M)
    BY <1>1
  <2>2. /\ Vacated(M[x], c).next = M[x].next
        /\ Vacated(M[x], c).loserNext = M[x].loserNext
        /\ Vacated(M[x], c).confirmed = M[x].confirmed
        /\ Vacated(M[x], c).entries = {e \in M[x].entries : e.who # c}
    BY <2>1, VacatedType
  <2>3. CASE x \in K
    <3>1. N[x] = Vacated(M[x], c)
      BY <2>3
    <3> HIDE DEF N
    <3> QED
      BY <2>2, <2>3, <3>1
  <2>4. CASE x \notin K
    BY <2>4
  <2> QED
    BY <2>3, <2>4
<1>4. Without(t, c, K).matches \in Brackets
  BY WithoutType, TournamentForm
<1> QED
  BY <1>2, <1>3, <1>4 DEF M

\* The open matches of a contestant, and the only one in it left behind.
LEMMA OpenMatchesForm ==
  ASSUME NEW M, NEW c
  PROVE  /\ DOMAIN OpenMatches(M, c) = {x \in DOMAIN M : ~M[x].confirmed /\ c \in Standing(M, x)}
         /\ \A x \in DOMAIN OpenMatches(M, c) : OpenMatches(M, c)[x] = M[x].next
BY DEF OpenMatches, Standing

LEMMA VacantMatch ==
  ASSUME NEW f, NEW M \in Brackets, NEW rank, Flow(f, M, rank), f.mode # "RR",
         NEW x \in DOMAIN M, ~M[x].confirmed, NEW c \in Standing(M, x),
         NEW e \in M[x].entries, e.who # c
  PROVE  /\ {d \in M[x].entries : d.who # c} = {e}
         /\ \A y \in Feeders(M, x) : Settled(M, y)
         /\ M[x].next # None => /\ M[x].next \in DOMAIN M
                                /\ M[x].next # x
                                /\ Calm(M, M[x].next)
                                /\ e.who \notin Standing(M, M[x].next)
                                /\ c \notin Standing(M, M[x].next)
         /\ \A y \in DOMAIN M : ~M[y].confirmed /\ c \in Standing(M, y) /\ y # x =>
              \A d \in M[y].entries : d.who = c
<1>1. PICK b \in M[x].entries : b.who = c
  BY InStanding
<1>2. \A d \in M[x].entries : d = b \/ d = e
  BY <1>1 DEF Flow, Pairs
<1>3. e.who \in Standing(M, x) /\ b # e
  BY <1>1, InStanding
<1>4. \A y \in Feeders(M, x) : Settled(M, y)
  BY <1>3, BehindPair
<1>5. \A k \in DOMAIN M : x \in Feeders(M, k) => Calm(M, k) /\ Standing(M, x) \cap Standing(M, k) = {}
  BY <1>1, <1>3, PlayableCalm
<1>6. ASSUME M[x].next # None
      PROVE  /\ M[x].next \in DOMAIN M /\ M[x].next # x
             /\ Calm(M, M[x].next)
             /\ e.who \notin Standing(M, M[x].next) /\ c \notin Standing(M, M[x].next)
  <2>1. M[x].next \in DOMAIN M /\ x \in Feeders(M, M[x].next)
    BY <1>6, BracketParts DEF Feeders
  <2>2. M[x].next # x
    BY <2>1, Fed DEF Flow
  <2>3. Calm(M, M[x].next) /\ Standing(M, x) \cap Standing(M, M[x].next) = {}
    BY <1>5, <2>1
  <2> QED
    BY <1>3, <2>1, <2>2, <2>3
<1>7. ASSUME NEW y \in DOMAIN M, ~M[y].confirmed, c \in Standing(M, y), y # x,
             NEW d \in M[y].entries
      PROVE  d.who = c
  <2>1. rank[x] \in Nat /\ rank[y] \in Nat /\ c \in Standing(M, x) \cap Standing(M, y)
    BY <1>7, BracketParts DEF Flow, Layout
  <2>2. CASE rank[x] < rank[y]
    <3>1. \E a \in M[x].entries : M[x].entries = {a}
      BY <1>7, <2>1, <2>2, WentOn
    <3> QED
      BY <1>3, <3>1
  <2>3. CASE rank[y] < rank[x]
    <3>1. \E a \in M[y].entries : M[y].entries = {a} /\ a.who = c
      BY <1>7, <2>1, <2>3, WentOn
    <3> QED
      BY <1>7, <3>1
  <2>4. CASE rank[x] = rank[y]
    BY <1>7, <2>1, <2>4, Path
  <2> QED
    BY <2>1, <2>2, <2>3, <2>4
<1>8. {d \in M[x].entries : d.who # c} = {e}
  BY <1>1, <1>2
<1> QED
  BY <1>4, <1>6, <1>7, <1>8

\* The contestant is taken out of their open matches.
LEMMA WithoutFlow ==
  ASSUME NEW f, NEW t \in Tournaments, NEW rank, Flow(f, t.matches, rank),
         NEW active, Carried(t.matches, active, {}), NEW c,
         \A x \in DOMAIN OpenMatches(t.matches, c) :
           t.matches[x].next # None =>
             ~(t.matches[t.matches[x].next].confirmed /\ c \in Standing(t.matches, t.matches[x].next))
  PROVE  LET M == t.matches
             K == DOMAIN OpenMatches(M, c)
             N == Without(t, c, K).matches
         IN  /\ Flow(f, N, rank) /\ Carried(N, active \ {c}, {})
             /\ N \in Brackets /\ Shrinks(M, N, K, c)
             /\ \A x \in DOMAIN M : Calm(M, x) => Calm(N, x)
             /\ \A x \in DOMAIN M : Settled(M, x) => Settled(N, x)
<1> DEFINE M == t.matches
           K == DOMAIN OpenMatches(M, c)
           N == Without(t, c, K).matches
<1>1. M \in Brackets
  BY TournamentForm
<1>2. K = {x \in DOMAIN M : ~M[x].confirmed /\ c \in Standing(M, x)}
  BY OpenMatchesForm
<1> HIDE DEF K
<1>3. Shrinks(M, N, K, c) /\ N \in Brackets
  BY WithoutShrinks
<1> HIDE DEF N
<1>4. \A x \in K : x \in DOMAIN M /\ ~M[x].confirmed
  BY <1>2
<1>5. ASSUME NEW x \in DOMAIN M, Passing(M, x), c \in Standing(M, x)
      PROVE  x \in K <=> M[x].next \in K
  <2>1. x \in K
    BY <1>2, <1>5 DEF Passing
  <2>2. M[x].next # None /\ c \in Standing(M, M[x].next)
    BY <1>5, InStanding DEF Passing
  <2>3. M[x].next \in DOMAIN M
    BY <1>1, <2>2, BracketParts
  <2>4. ~M[M[x].next].confirmed
    BY <2>1, <2>2 DEF K
  <2> QED
    BY <1>2, <2>1, <2>2, <2>3, <2>4
<1>6. Flow(f, N, rank)
  BY <1>1, <1>3, <1>4, <1>5, Shrunk
<1>7. /\ \A x \in DOMAIN M : Calm(M, x) => Calm(N, x)
      /\ \A x \in DOMAIN M : Settled(M, x) => Settled(N, x)
  BY <1>1, <1>3, <1>4, <1>5, Shrunk
<1>8. Carried(N, active \ {c}, {})
  BY <1>1, <1>3, <1>4, ShrunkCarried
<1> QED
  BY <1>3, <1>6, <1>7, <1>8 DEF N, K

LEMMA RemovedFlow ==
  ASSUME NEW f, NEW t \in Tournaments, NEW rank, Flow(f, t.matches, rank),
         NEW active, Carried(t.matches, active, {}), NEW c, NEW confirming \in BOOLEAN,
         \A x \in DOMAIN OpenMatches(t.matches, c) :
           t.matches[x].next # None =>
             ~(t.matches[t.matches[x].next].confirmed /\ c \in Standing(t.matches, t.matches[x].next))
  PROVE  LET N == Removed(t, f, c, OpenMatches(t.matches, c), confirming).matches
         IN  Flow(f, N, rank) /\ Carried(N, active \ {c}, {})
<1> DEFINE M == t.matches
           links == OpenMatches(M, c)
           K == DOMAIN links
           N == Without(t, c, K).matches
           now == active \ {c}
           Done(s) == /\ Flow(f, s.t.matches, rank) /\ Carried(s.t.matches, now, {})
                      /\ LinkedAs(M, s.t.matches)
                      /\ f.mode # "RR" => \A x \in s.open : s.t.matches[x].entries = {}
           A == {s \in [t : Tournaments, open : SUBSET K] : s.t.matches = N \/ Done(s)}
<1>1. M \in Brackets
  BY TournamentForm
<1>2. K = {x \in DOMAIN M : ~M[x].confirmed /\ c \in Standing(M, x)}
      /\ \A x \in K : links[x] = M[x].next
  BY OpenMatchesForm
<1>3. Flow(f, N, rank) /\ Carried(N, now, {}) /\ N \in Brackets
  BY WithoutFlow
<1>4. Shrinks(M, N, K, c)
  BY WithoutFlow
<1>5. \A x \in DOMAIN M : Calm(M, x) => Calm(N, x)
  BY WithoutFlow
<1>6. \A x \in DOMAIN M : Settled(M, x) => Settled(N, x)
  BY WithoutFlow
<1>7. Without(t, c, K) \in Tournaments
  BY WithoutType
<1>8. K \cap DOMAIN M = K /\ IsFiniteSet(K)
  BY <1>1, <1>2, BracketParts, FS_Subset
<1>9. [t |-> Without(t, c, K \cap DOMAIN M), open |-> K \cap DOMAIN M] \in A
  <2> HIDE DEF K, M
  <2>1. [t |-> Without(t, c, K), open |-> K] \in A
    BY <1>7
  <2> QED
    BY <1>8, <2>1
<1> HIDE DEF N, K, links, M, now
<1>10. LinkedAs(M, N) /\ DOMAIN N = DOMAIN M
       /\ \A x \in DOMAIN M : Feeders(N, x) = Feeders(M, x)
  BY <1>4, LinkedLeads DEF Shrinks, LinkedAs
<1>11. ASSUME NEW s \in A PROVE Looked(f, links, confirming, s) \in A
  <2> DEFINE x == CHOOSE x \in s.open : TRUE
             new == Forfeited(s.t, f, x, links[x], confirming)
             S == s.t.matches
  <2>1. CASE s.open = {}
    BY <2>1 DEF Looked
  <2>2. CASE s.open # {}
    <3>1. s.t \in Tournaments /\ s.open \in SUBSET K /\ x \in s.open /\ x \in K /\ x \in DOMAIN M
      BY <1>2, <2>2
    <3>2. Looked(f, links, confirming, s) = [t |-> new, open |-> s.open \ {x}]
      BY <2>2 DEF Looked
    <3> HIDE DEF x
    <3>3. LinkedAs(M, S) /\ DOMAIN S = DOMAIN M /\ S[x].next = M[x].next /\ links[x] = M[x].next
          /\ S \in Brackets /\ \A y \in DOMAIN M : S[y].next = M[y].next
      <4>1. LinkedAs(M, S)
        BY <1>10
      <4> HIDE DEF A
      <4> QED
        BY <1>2, <3>1, <4>1, TournamentForm DEF LinkedAs
    <3>4. new \in Tournaments
      BY <3>1, <3>3, ForfeitedType
    <3>5. CASE Cardinality(S[x].entries) # 1
      <4>1. new = s.t
        BY <3>5 DEF Forfeited
      <4> HIDE DEF new
      <4> QED
        BY <3>1, <3>2, <4>1
    <3>6. CASE Cardinality(S[x].entries) = 1
      <4>1. PICK e : S[x].entries = {e}
        <5>1. IsFiniteSet(S[x].entries)
          BY <3>1, <3>3, MatchType
        <5> QED
          BY <3>6, <5>1, FS_Singleton
      <4>2. /\ Flow(f, S, rank) /\ Carried(S, now, {})
            /\ ~S[x].confirmed \/ f.mode = "RR"
            /\ \A y \in Feeders(S, x) : Settled(S, y)
            /\ S[x].next # None => e.who \notin Standing(S, S[x].next) /\ Calm(S, S[x].next)
            /\ f.mode # "RR" =>
                 \A y \in s.open \ {x} : S[y].entries = {} /\ y # S[x].next
        <5>1. CASE f.mode = "RR"
          <6>1. Flow(f, S, rank) /\ Carried(S, now, {})
            BY <1>3
          <6>2. S[x].next = None /\ Feeders(S, x) = {}
            BY <3>1, <3>3, <5>1, <6>1, Fed DEF Flow, Layout
          <6> HIDE DEF S, A
          <6> QED
            BY <5>1, <6>1, <6>2
        <5>2. CASE f.mode # "RR"
          <6>1. S = N
            BY <3>1, <4>1, <5>2
          <6>2. N[x].entries = {d \in M[x].entries : d.who # c}
            BY <1>4, <3>1 DEF Shrinks
          <6>3. e \in M[x].entries /\ e.who # c
            BY <4>1, <6>1, <6>2
          <6>4. ~M[x].confirmed /\ c \in Standing(M, x)
            BY <1>2, <3>1
          <6>5. /\ \A y \in Feeders(M, x) : Settled(M, y)
                /\ M[x].next # None => /\ M[x].next \in DOMAIN M
                                       /\ Calm(M, M[x].next)
                                       /\ e.who \notin Standing(M, M[x].next)
                                       /\ c \notin Standing(M, M[x].next)
                /\ \A y \in DOMAIN M : ~M[y].confirmed /\ c \in Standing(M, y) /\ y # x =>
                     \A d \in M[y].entries : d.who = c
            <7>1. Flow(f, M, rank)
              BY DEF M
            <7> QED
              BY <1>1, <3>1, <5>2, <6>3, <6>4, <7>1, VacantMatch
          <6>6. ASSUME NEW y \in s.open \ {x} PROVE S[y].entries = {} /\ y # S[x].next
            <7>1. y \in DOMAIN M /\ y \in K /\ ~M[y].confirmed /\ c \in Standing(M, y) /\ y # None
              BY <1>1, <1>2, <3>1, BracketParts
            <7>2. N[y].entries = {d \in M[y].entries : d.who # c}
              BY <1>4, <7>1 DEF Shrinks
            <7>3. N[y].entries = {}
              BY <6>5, <7>1, <7>2
            <7>4. S[x].next = M[x].next
              BY <3>3
            <7> QED
              BY <6>1, <6>5, <7>1, <7>3, <7>4
          <6>7. \A y \in Feeders(S, x) : Settled(S, y)
            <7>1. \A y \in Feeders(M, x) : y \in DOMAIN M /\ Settled(M, y)
              BY <6>5 DEF Feeders
            <7> QED
              BY <1>6, <1>10, <3>1, <6>1, <7>1
          <6>8. M[x].next # None => e.who \notin Standing(N, M[x].next) /\ Calm(N, M[x].next)
            <7> SUFFICES ASSUME M[x].next # None
                         PROVE  e.who \notin Standing(N, M[x].next) /\ Calm(N, M[x].next)
              OBVIOUS
            <7>1. /\ M[x].next \in DOMAIN M /\ Calm(M, M[x].next) /\ e.who \notin Standing(M, M[x].next)
              BY <6>5
            <7>2. N[M[x].next].entries \subseteq M[M[x].next].entries
              BY <1>4, <7>1, ShrinksForm
            <7>3. e.who \notin Standing(N, M[x].next)
              BY <7>1, <7>2, InStanding
            <7> QED
              BY <1>5, <7>1, <7>3
          <6>9. ~N[x].confirmed
            BY <1>4, <3>1, <6>4 DEF Shrinks
          <6> QED
            BY <1>3, <3>3, <5>2, <6>1, <6>6, <6>7, <6>8, <6>9
        <5> QED
          BY <5>1, <5>2
      <4>3. new = Forfeited(s.t, f, x, S[x].next, confirming)
        BY <3>3
      <4> HIDE DEF new, A
      <4>4. x \in DOMAIN S
        BY <3>1, <3>3
      <4>11. /\ s.t \in Tournaments /\ Flow(f, S, rank) /\ Carried(S, now, {})
             /\ x \in DOMAIN S /\ S[x].entries = {e}
             /\ ~S[x].confirmed \/ f.mode = "RR"
             /\ \A y \in Feeders(S, x) : Settled(S, y)
             /\ S[x].next # None => e.who \notin Standing(S, S[x].next) /\ Calm(S, S[x].next)
        BY <3>1, <4>1, <4>2, <4>4
      <4>5. Flow(f, new.matches, rank) /\ Carried(new.matches, now, {})
        <5>1. Flow(f, new.matches, rank)
          BY <4>3, <4>11, ForfeitedFlow
        <5>2. Carried(new.matches, now, {})
          BY <4>3, <4>11, ForfeitedFlow
        <5> QED
          BY <5>1, <5>2
      <4>6. LinkedAs(S, new.matches)
        BY <3>1, <4>1, <4>3, <4>4, ForfeitedLinks
      <4>7. SameRowsBut(S, new.matches, x, S[x].next)
        BY <3>1, <4>1, <4>3, <4>4, ForfeitedLinks
      <4>8. LinkedAs(M, new.matches)
        BY <3>3, <4>6 DEF LinkedAs
      <4>9. f.mode # "RR" => \A y \in s.open \ {x} : new.matches[y].entries = {}
        <5> SUFFICES ASSUME f.mode # "RR", NEW y \in s.open \ {x} PROVE new.matches[y].entries = {}
          OBVIOUS
        <5>1. y \in DOMAIN S /\ y # x
          BY <1>2, <3>1, <3>3
        <5>2. S[y].entries = {} /\ y # S[x].next
          BY <4>2
        <5> HIDE DEF S
        <5> QED
          BY <4>7, <5>1, <5>2 DEF SameRowsBut
      <4>10. Done([t |-> new, open |-> s.open \ {x}])
        BY <4>5, <4>8, <4>9
      <4> HIDE DEF Done
      <4> QED
        BY <3>1, <3>2, <3>4, <4>10 DEF A
    <3> QED
      BY <3>5, <3>6
  <2> QED
    BY <2>1, <2>2
<1>12. \E s \in A : Removed(t, f, c, links, confirming) = s.t
  <2> HIDE DEF A
  <2> QED
    BY <1>8, <1>9, <1>11, RemovedBy DEF K, M
<1>13. \A s \in A : Flow(f, s.t.matches, rank) /\ Carried(s.t.matches, now, {})
  BY <1>3
<1> HIDE DEF A
<1> QED
  BY <1>12, <1>13 DEF links, M, now
-----------------------------------------------------------------------------
(* The steps of a retraction *)

ToUndo(x) == [act |-> "undo", match |-> x, who |-> None]
TakeOut(x, c) == [act |-> "withdraw", match |-> x, who |-> c]
ToClear(x) == [act |-> "clear", match |-> x, who |-> None]

\* A step goes before others.
LEMMA Before ==
  ASSUME NEW s \in Steps, NEW rest \in Seq(Steps)
  PROVE  /\ <<s>> \o rest \in Seq(Steps) /\ <<s>> \o rest # <<>>
         /\ Head(<<s>> \o rest) = s /\ Tail(<<s>> \o rest) = rest
OBVIOUS

LEMMA Appended ==
  ASSUME NEW a \in Seq(Steps), NEW b \in Seq(Steps), NEW c \in Seq(Steps)
  PROVE  (a \o b) \o c = a \o (b \o c) /\ <<>> \o a = a /\ a \o <<>> = a
OBVIOUS

\* One sequence before another.
Joined(s, r) == s \o r

LEMMA Regrouped ==
  ASSUME NEW a \in Seq(Steps), NEW b \in Seq(Steps), NEW c \in Seq(Steps)
  PROVE  Joined(a, b) \in Seq(Steps) /\ Joined(Joined(a, b), c) = Joined(a, Joined(b, c))
BY Concatenated, Appended DEF Joined

LEMMA AppendedAll ==
  ASSUME NEW u, NEW w, NEW v, NEW l, NEW o, NEW c, NEW rest,
         {u, w, v, l, o, c, rest} \subseteq Seq(Steps)
  PROVE  Joined(Joined(Joined(Joined(u, w), Joined(Joined(v, l), o)), c), rest)
           = Joined(u, Joined(w, Joined(v, Joined(l, Joined(o, Joined(c, rest))))))
<1> DEFINE uw == Joined(u, w)
           vl == Joined(v, l)
           vlo == Joined(vl, o)
           last == Joined(c, rest)
           end == Joined(o, last)
           lend == Joined(l, end)
           vlend == Joined(v, lend)
<1>1. uw \in Seq(Steps) /\ vl \in Seq(Steps) /\ last \in Seq(Steps)
  BY Regrouped
<1>2. vlo \in Seq(Steps) /\ end \in Seq(Steps)
  BY <1>1, Regrouped
<1>3. Joined(uw, vlo) \in Seq(Steps) /\ lend \in Seq(Steps)
  BY <1>1, <1>2, Regrouped
<1>4. vlend \in Seq(Steps)
  BY <1>3, Regrouped
<1>5. Joined(Joined(Joined(uw, vlo), c), rest) = Joined(Joined(uw, vlo), last)
  BY <1>3, Regrouped
<1>6. Joined(Joined(uw, vlo), last) = Joined(uw, Joined(vlo, last))
  BY <1>1, <1>2, Regrouped
<1>7. Joined(vlo, last) = Joined(vl, end)
  BY <1>1, Regrouped
<1>8. Joined(vl, end) = vlend
  BY <1>2, Regrouped
<1>9. Joined(uw, vlend) = Joined(u, Joined(w, vlend))
  BY <1>4, Regrouped
<1> QED
  BY <1>5, <1>6, <1>7, <1>8, <1>9

LEMMA StepsForm ==
  ASSUME NEW x \in Ids, NEW c \in Contestants
  PROVE  ToUndo(x) \in Steps /\ TakeOut(x, c) \in Steps /\ ToClear(x) \in Steps
BY DEF ToUndo, TakeOut, ToClear, Steps, Acts

\* An undoing, and what is to do next in it.
At(t, todo) == [t |-> t, todo |-> todo]
Then(s, rest) == <<s>> \o rest

\* What a step does.
LEMMA StepTaken ==
  ASSUME NEW f, NEW t, NEW s \in Steps, NEW rest \in Seq(Steps)
  PROVE  /\ Then(s, rest) \in Seq(Steps)
         /\ UndoOn(f, At(t, Then(s, rest))) =
               CASE s.act = "undo" ->
                      At(t, IF s.match \in DOMAIN t.matches /\ t.matches[s.match].confirmed
                              THEN Joined(Undoing(t.matches, s.match), rest) ELSE rest)
                 [] s.act = "withdraw" -> At(Withdrawn(t, s.match, s.who), rest)
                 [] s.act = "clear"    -> At(Cleared(t, f, s.match), rest)
<1> DEFINE u == At(t, Then(s, rest))
<1>1. /\ u.todo # <<>> /\ Head(u.todo) = s /\ Tail(u.todo) = rest /\ u.t = t
      /\ Then(s, rest) \in Seq(Steps)
  BY Before DEF At, Then
<1> HIDE DEF u
<1>2. UndoOn(f, u) =
             CASE s.act = "undo" ->
                    At(t, IF s.match \in DOMAIN t.matches /\ t.matches[s.match].confirmed
                            THEN Joined(Undoing(t.matches, s.match), rest) ELSE rest)
               [] s.act = "withdraw" -> At(Withdrawn(t, s.match, s.who), rest)
               [] s.act = "clear"    -> At(Cleared(t, f, s.match), rest)
  BY <1>1 DEF UndoOn, At, Joined
<1> QED
  BY <1>1, <1>2 DEF u

LEMMA UndoTaken ==
  ASSUME NEW f, NEW t, NEW x \in Ids, NEW rest \in Seq(Steps)
  PROVE  /\ Then(ToUndo(x), rest) \in Seq(Steps)
         /\ UndoOn(f, At(t, Then(ToUndo(x), rest))) =
              At(t, IF x \in DOMAIN t.matches /\ t.matches[x].confirmed
                      THEN Joined(Undoing(t.matches, x), rest) ELSE rest)
<1>1. ToUndo(x) \in Steps
  BY DEF ToUndo, Steps, Acts
<1>2. ToUndo(x).act = "undo" /\ ToUndo(x).match = x
  BY DEF ToUndo
<1> QED
  BY <1>1, <1>2, StepTaken

LEMMA TakeOutTaken ==
  ASSUME NEW f, NEW t, NEW x \in Ids, NEW c \in Contestants, NEW rest \in Seq(Steps)
  PROVE  /\ Then(TakeOut(x, c), rest) \in Seq(Steps)
         /\ UndoOn(f, At(t, Then(TakeOut(x, c), rest))) = At(Withdrawn(t, x, c), rest)
<1>1. TakeOut(x, c) \in Steps
  BY StepsForm
<1>2. TakeOut(x, c).act = "withdraw" /\ TakeOut(x, c).match = x /\ TakeOut(x, c).who = c
  BY DEF TakeOut
<1> QED
  BY <1>1, <1>2, StepTaken

LEMMA ClearTaken ==
  ASSUME NEW f, NEW t, NEW x \in Ids, NEW rest \in Seq(Steps)
  PROVE  /\ Then(ToClear(x), rest) \in Seq(Steps)
         /\ UndoOn(f, At(t, Then(ToClear(x), rest))) = At(Cleared(t, f, x), rest)
<1>1. ToClear(x) \in Steps
  BY DEF ToClear, Steps, Acts
<1>2. ToClear(x).act = "clear" /\ ToClear(x).match = x
  BY DEF ToClear
<1> QED
  BY <1>1, <1>2, StepTaken

\* What undoing the result of a match takes.
LEMMA UndoingForm ==
  ASSUME NEW M \in Brackets, NEW x \in DOMAIN M, NEW rest \in Seq(Steps)
  PROVE  LET rows == M[x].entries
             next == M[x].next
             lower == M[x].loserNext
             won == Winner(rows)
             lost == Loser(rows)
             last == <<ToClear(x)>> \o rest
         IN  /\ last \in Seq(Steps)
             /\ won = None \/ (next = None /\ lower = None) => Undoing(M, x) \o rest = last
             /\ won # None /\ next # None /\ lower = None =>
                  Undoing(M, x) \o rest = <<ToUndo(next)>> \o (<<TakeOut(next, won)>> \o last)
             /\ won # None /\ next # None /\ lower # None =>
                  LET beyond == M[lower].next
                      end == IF beyond = None THEN last ELSE <<TakeOut(beyond, lost)>> \o last
                  IN  /\ end \in Seq(Steps)
                      /\ <<ToUndo(lower)>> \o (<<TakeOut(lower, lost)>> \o end) \in Seq(Steps)
                      /\ Undoing(M, x) \o rest =
                           <<ToUndo(next)>> \o (<<TakeOut(next, won)>> \o
                             (<<ToUndo(lower)>> \o (<<TakeOut(lower, lost)>> \o end)))
<1> DEFINE rows == M[x].entries
           next == M[x].next
           lower == M[x].loserNext
           beyond == M[lower].next
           won == Winner(rows)
           lost == Loser(rows)
           Out(y, who) == IF y = None THEN <<>> ELSE <<TakeOut(y, who)>>
           Back(y, who) == IF y = None THEN <<>> ELSE <<ToUndo(y)>> \o Out(y, who)
           Clear == <<ToClear(x)>>
           last == Clear \o rest
<1>1. /\ next \in DOMAIN M \cup {None}
      /\ lower \in DOMAIN M \cup {None}
      /\ rows \in Rows /\ x \in Ids /\ DOMAIN M \subseteq Ids
  BY MatchType, BracketParts
<1>2. lower # None => beyond \in DOMAIN M \cup {None}
  BY <1>1, MatchType
<1>3. Undoing(M, x) =
        (IF won = None THEN <<>>
         ELSE Back(next, won) \o
              (IF lower = None THEN <<>> ELSE Back(lower, lost) \o Out(beyond, lost)))
        \o Clear
  BY DEF Undoing, ToUndo, TakeOut, ToClear
<1>4. won \in Contestants \cup {None} /\ (won # None => lost \in Contestants)
  BY <1>1, WinnerType
<1>5. \A y \in DOMAIN M : \A c \in Contestants :
        ToUndo(y) \in Steps /\ TakeOut(y, c) \in Steps
  BY <1>1, StepsForm
<1>6. ToClear(x) \in Steps
  BY <1>1 DEF ToClear, Steps, Acts
<1>7. Clear \in Seq(Steps) /\ last \in Seq(Steps)
  BY <1>6, Before, OneStep
<1> HIDE DEF rows, next, lower, beyond, won, lost, Clear
<1>8. CASE won = None
  <2>1. Undoing(M, x) = <<>> \o Clear
    BY <1>3, <1>8
  <2>2. Undoing(M, x) \o rest = last
    BY <1>7, <2>1, Appended
  <2> QED
    BY <1>7, <1>8, <2>2 DEF rows, next, lower, won, lost, Clear
<1>9. CASE won # None /\ next = None /\ lower = None
  <2>1. Undoing(M, x) = (<<>> \o <<>>) \o Clear
    BY <1>3, <1>9
  <2>2. Undoing(M, x) \o rest = last
    BY <1>7, <2>1, Appended, OneStep
  <2> QED
    BY <1>7, <1>9, <2>2 DEF rows, next, lower, won, lost, Clear
<1>10. CASE won # None /\ next # None /\ lower = None
  <2> DEFINE u == <<ToUndo(next)>>
             w == <<TakeOut(next, won)>>
  <2>1. u \in Seq(Steps) /\ w \in Seq(Steps) /\ <<>> \in Seq(Steps)
    BY <1>1, <1>4, <1>5, <1>10, OneStep
  <2>2. Undoing(M, x) = ((u \o w) \o <<>>) \o Clear
    BY <1>3, <1>10
  <2> HIDE DEF u, w
  <2>3. Undoing(M, x) \o rest = u \o (w \o last)
    <3>1. u \o w \in Seq(Steps)
      BY <2>1, Concatenated
    <3>2. Undoing(M, x) = (u \o w) \o Clear
      BY <2>2, <3>1, Appended
    <3>3. ((u \o w) \o Clear) \o rest = (u \o w) \o last
      BY <1>7, <3>1, Appended
    <3>4. (u \o w) \o last = u \o (w \o last)
      BY <1>7, <2>1, Appended
    <3> QED
      BY <3>2, <3>3, <3>4
  <2> QED
    BY <1>7, <1>10, <2>3 DEF rows, next, lower, won, lost, u, w, Clear
<1>11. CASE won # None /\ next # None /\ lower # None
  <2> DEFINE u == <<ToUndo(next)>>
             w == <<TakeOut(next, won)>>
             v == <<ToUndo(lower)>>
             l == <<TakeOut(lower, lost)>>
             o == Out(beyond, lost)
             end == IF beyond = None THEN last ELSE <<TakeOut(beyond, lost)>> \o last
  <2>1. u \in Seq(Steps) /\ w \in Seq(Steps) /\ v \in Seq(Steps) /\ l \in Seq(Steps) /\ <<>> \in Seq(Steps)
    BY <1>1, <1>4, <1>5, <1>11, OneStep
  <2>2. o \in Seq(Steps)
    <3>1. beyond # None => <<TakeOut(beyond, lost)>> \in Seq(Steps)
      BY <1>2, <1>4, <1>5, <1>11, OneStep
    <3> QED
      BY <2>1, <3>1
  <2>3. Undoing(M, x) = ((u \o w) \o ((v \o l) \o o)) \o Clear
    BY <1>3, <1>11
  <2>4. o \o last = end
    BY <1>7, Appended
  <2> HIDE DEF u, w, v, l, o, end
  <2>5. end \in Seq(Steps)
    BY <1>7, <2>2, <2>4, Concatenated
  <2>6. l \o end \in Seq(Steps)
    BY <2>1, <2>5, Concatenated
  <2>7. v \o (l \o end) \in Seq(Steps)
    BY <2>1, <2>6, Concatenated
  <2>8. (((u \o w) \o ((v \o l) \o o)) \o Clear) \o rest = u \o (w \o (v \o (l \o (o \o last))))
    <3>1. Joined(Joined(Joined(Joined(u, w), Joined(Joined(v, l), o)), Clear), rest)
            = Joined(u, Joined(w, Joined(v, Joined(l, Joined(o, Joined(Clear, rest))))))
      <4>1. {u, w, v, l, o, Clear, rest} \subseteq Seq(Steps)
        BY <1>7, <2>1, <2>2
      <4> QED
        BY <4>1, AppendedAll
    <3> QED
      BY <3>1, Zenon DEF Joined
  <2> DEFINE all == ((u \o w) \o ((v \o l) \o o)) \o Clear
             form == u \o (w \o (v \o (l \o end)))
  <2>9. all \o rest = form
    BY <2>4, <2>8, Zenon
  <2>10. Undoing(M, x) = all
    BY <2>3
  <2>14. Undoing(M, x) \o rest = form
    <3> HIDE DEF all, form
    <3> QED
      BY <2>9, <2>10
  <2>11. /\ <<ToUndo(lower)>> \o (<<TakeOut(lower, lost)>> \o end) \in Seq(Steps)
         /\ Undoing(M, x) \o rest =
              <<ToUndo(next)>> \o (<<TakeOut(next, won)>> \o
                (<<ToUndo(lower)>> \o (<<TakeOut(lower, lost)>> \o end)))
    BY <2>7, <2>14, Zenon DEF u, w, v, l
  <2>12. LET end1 == IF beyond = None THEN last ELSE <<TakeOut(beyond, lost)>> \o last
         IN  /\ end1 \in Seq(Steps)
             /\ <<ToUndo(lower)>> \o (<<TakeOut(lower, lost)>> \o end1) \in Seq(Steps)
             /\ Undoing(M, x) \o rest =
                  <<ToUndo(next)>> \o (<<TakeOut(next, won)>> \o
                    (<<ToUndo(lower)>> \o (<<TakeOut(lower, lost)>> \o end1)))
    BY <2>5, <2>11, Zenon DEF end
  <2> QED
    BY <1>7, <1>11, <2>12, Zenon DEF last, beyond, lower, rows, next, won, lost, Clear
<1>12. CASE won # None /\ next = None /\ lower # None
  BY <1>7, <1>12 DEF rows, next, lower, won, Clear
<1> QED
  BY <1>8, <1>9, <1>10, <1>11, <1>12
-----------------------------------------------------------------------------
(* Results are undone *)

HavingResult(M) == {x \in DOMAIN M : M[x].confirmed}

\* What undoing results of matches C relies on: they lead to matches of C,
\* which nobody left while they are open, and no walkover is among them.
Ready(M, C) ==
  \A x \in C \cap DOMAIN M : M[x].confirmed =>
    /\ \A n \in {M[x].next, M[x].loserNext} \ {None} :
         n \in C /\ (~M[n].confirmed => Calm(M, n))
    /\ M[x].next # None => \A e \in M[x].entries : M[x].entries # {e}

\* From M to N, results were undone from rank r on.
Backed(M, N, rank, r) ==
  /\ DOMAIN N \subseteq DOMAIN M /\ DOMAIN M \ {GrandFinal(1)} \subseteq DOMAIN N
  /\ GrandFinal(1) \in DOMAIN M \ DOMAIN N => r <= rank[GrandFinal(0)]
  /\ \A y \in DOMAIN N :
       /\ N[y].loserNext = M[y].loserNext
       /\ N[y].next = M[y].next \/ (y = GrandFinal(0) /\ N[y].next = None)
       /\ N[y].confirmed => M[y].confirmed /\ N[y].entries = M[y].entries
       /\ \A c \in Standing(N, y) : c \in Standing(M, y)
       /\ Calm(M, y) => Calm(N, y)
       /\ rank[y] < r => /\ N[y].confirmed = M[y].confirmed
                         /\ N[y].entries = M[y].entries
                         /\ N[y].next = M[y].next

LEMMA BackedSelf ==
  ASSUME NEW M, NEW rank, NEW r
  PROVE  Backed(M, M, rank, r)
BY DEF Backed

LEMMA BackedOn ==
  ASSUME NEW M, NEW N, NEW P, NEW rank, NEW r, Backed(M, N, rank, r), Backed(N, P, rank, r)
  PROVE  Backed(M, P, rank, r)
<1>1. /\ DOMAIN P \subseteq DOMAIN M /\ DOMAIN M \ {GrandFinal(1)} \subseteq DOMAIN P
      /\ GrandFinal(1) \in DOMAIN M \ DOMAIN P => r <= rank[GrandFinal(0)]
  BY DEF Backed
<1>2. ASSUME NEW y \in DOMAIN P
      PROVE  /\ P[y].loserNext = M[y].loserNext
             /\ P[y].next = M[y].next \/ (y = GrandFinal(0) /\ P[y].next = None)
             /\ P[y].confirmed => M[y].confirmed /\ P[y].entries = M[y].entries
             /\ \A c \in Standing(P, y) : c \in Standing(M, y)
             /\ Calm(M, y) => Calm(P, y)
             /\ rank[y] < r => /\ P[y].confirmed = M[y].confirmed
                               /\ P[y].entries = M[y].entries
                               /\ P[y].next = M[y].next
  <2>1. y \in DOMAIN N
    BY DEF Backed
  <2> QED
    BY <2>1 DEF Backed
<1> QED
  BY <1>1, <1>2 DEF Backed

LEMMA BackedFrom ==
  ASSUME NEW M \in Brackets, NEW N, NEW rank \in [Ids -> Nat], NEW r \in Nat, NEW s \in Nat, s <= r,
         Backed(M, N, rank, r)
  PROVE  Backed(M, N, rank, s)
<1>1. /\ DOMAIN N \subseteq DOMAIN M /\ DOMAIN M \subseteq Ids /\ GrandFinal(0) \in Ids
      /\ \A y \in DOMAIN N : rank[y] \in Nat
      /\ rank[GrandFinal(0)] \in Nat
  BY BracketParts, GrandFinals DEF Backed
<1>2. \A y \in DOMAIN N : rank[y] < s => rank[y] < r
  BY <1>1
<1>3. r <= rank[GrandFinal(0)] => s <= rank[GrandFinal(0)]
  BY <1>1
<1> QED
  BY <1>2, <1>3 DEF Backed

LEMMA BackedReady ==
  ASSUME NEW M \in Brackets, NEW N \in Brackets, NEW rank, NEW r, NEW C,
         Backed(M, N, rank, r), Ready(M, C),
         \A x \in DOMAIN N : M[x].confirmed /\ ~N[x].confirmed => Calm(N, x)
  PROVE  Ready(N, C)
<1> SUFFICES ASSUME NEW x \in C \cap DOMAIN N, N[x].confirmed
             PROVE  /\ \A n \in {N[x].next, N[x].loserNext} \ {None} :
                         n \in C /\ (~N[n].confirmed => Calm(N, n))
                    /\ N[x].next # None => \A e \in N[x].entries : N[x].entries # {e}
  BY DEF Ready
<1>1. /\ x \in C \cap DOMAIN M /\ M[x].confirmed /\ N[x].entries = M[x].entries
      /\ N[x].next = M[x].next \/ N[x].next = None
      /\ N[x].loserNext = M[x].loserNext
  BY DEF Backed
<1>2. /\ \A n \in {M[x].next, M[x].loserNext} \ {None} :
           n \in C /\ (~M[n].confirmed => Calm(M, n))
      /\ M[x].next # None => \A e \in M[x].entries : M[x].entries # {e}
  BY <1>1 DEF Ready
<1>3. ASSUME NEW n \in {N[x].next, N[x].loserNext} \ {None}
      PROVE  n \in C /\ (~N[n].confirmed => Calm(N, n))
  <2>1. n \in {M[x].next, M[x].loserNext} \ {None}
    BY <1>1
  <2>2. n \in C /\ (~M[n].confirmed => Calm(M, n))
    BY <1>2, <2>1
  <2>3. n \in DOMAIN N
    BY <1>3, BracketParts
  <2> QED
    BY <2>2, <2>3 DEF Backed
<1> QED
  BY <1>1, <1>2, <1>3

\* Rows go from open matches of rank r and beyond.
LEMMA ShrunkBacked ==
  ASSUME NEW f, NEW M \in Brackets, NEW rank, Flow(f, M, rank), NEW C, Ready(M, C),
         NEW N \in Brackets, NEW K, NEW c, Shrinks(M, N, K, c), NEW r,
         \A x \in K : x \in DOMAIN M /\ ~M[x].confirmed /\ ~(rank[x] < r),
         \A x \in DOMAIN M : Passing(M, x) /\ c \in Standing(M, x) => (x \in K <=> M[x].next \in K)
  PROVE  /\ Flow(f, N, rank) /\ Ready(N, C) /\ Backed(M, N, rank, r)
         /\ HavingResult(N) = HavingResult(M)
<1>1. \A x \in K : x \in DOMAIN M /\ ~M[x].confirmed
  OBVIOUS
<1>2. Flow(f, N, rank)
  BY <1>1, Shrunk
<1>3. \A x \in DOMAIN M : Calm(M, x) => Calm(N, x)
  BY <1>1, Shrunk
<1>4. DOMAIN N = DOMAIN M
      /\ \A x \in DOMAIN M : /\ N[x].next = M[x].next /\ N[x].loserNext = M[x].loserNext
                             /\ N[x].confirmed = M[x].confirmed
                             /\ x \notin K => N[x].entries = M[x].entries
  BY DEF Shrinks, LinkedAs
<1>5. \A x \in DOMAIN M : \A d \in Standing(N, x) : d \in Standing(M, x)
  BY ShrinksForm, InStanding
<1>6. Backed(M, N, rank, r)
  BY <1>1, <1>3, <1>4, <1>5 DEF Backed
<1>7. Ready(N, C)
  BY <1>4, <1>6, BackedReady
<1>8. HavingResult(N) = HavingResult(M)
  BY <1>4 DEF HavingResult
<1> QED
  BY <1>2, <1>6, <1>7, <1>8

LEMMA WithdrawnForm ==
  ASSUME NEW t \in Tournaments, NEW n \in DOMAIN t.matches, NEW c
  PROVE  LET N == Withdrawn(t, n, c).matches
         IN  /\ Withdrawn(t, n, c) \in Tournaments /\ N \in Brackets
             /\ Shrinks(t.matches, N, {n}, c)
<1> DEFINE N == Withdrawn(t, n, c).matches
<1>1. Withdrawn(t, n, c) \in Tournaments /\ SameButRows(t.matches, N)
  BY WithdrawnType
<1>2. N \in Brackets
  BY <1>1, TournamentForm
<1>3. t.matches \in [DOMAIN t.matches -> MatchIn(DOMAIN t.matches)]
  BY TournamentForm, BracketsForm
<1>4. N = [t.matches EXCEPT ![n] = Vacated(@, c)]
  BY DEF Withdrawn, Tournaments
<1>5. \A x \in DOMAIN t.matches :
        N[x].entries = IF x \in {n} THEN {e \in t.matches[x].entries : e.who # c} ELSE t.matches[x].entries
  <2>1. Vacated(t.matches[n], c).entries = {e \in t.matches[n].entries : e.who # c}
    BY <1>3, VacatedType
  <2>2. \A x \in DOMAIN t.matches : N[x] = IF x = n THEN Vacated(t.matches[n], c) ELSE t.matches[x]
    BY <1>4
  <2> HIDE DEF N
  <2> QED
    BY <2>1, <2>2
<1> HIDE DEF N
<1>6. Shrinks(t.matches, N, {n}, c)
  BY <1>1, <1>5 DEF SameButRows, Shrinks, LinkedAs
<1> QED
  BY <1>1, <1>2, <1>6 DEF N
\* Whom a result sent to an open match, which sent nobody on, is taken out.
LEMMA TakenOut ==
  ASSUME NEW f, NEW t \in Tournaments, NEW rank, Flow(f, t.matches, rank), NEW C, Ready(t.matches, C),
         NEW active, NEW E, Carried(t.matches, active, E),
         NEW x \in DOMAIN t.matches, x \in E, t.matches[x].confirmed,
         NEW n \in DOMAIN t.matches, NEW c, Gives(t.matches, x, n, c),
         ~t.matches[n].confirmed, Calm(t.matches, n)
  PROVE  LET N == Withdrawn(t, n, c).matches
         IN  /\ Flow(f, N, rank) /\ Carried(N, active, E) /\ Ready(N, C)
             /\ Backed(t.matches, N, rank, rank[n])
             /\ HavingResult(N) = HavingResult(t.matches)
             /\ c \notin Standing(N, n) /\ Calm(N, n) /\ n \in DOMAIN N /\ ~N[n].confirmed
<1> DEFINE M == t.matches
           N == Withdrawn(t, n, c).matches
<1>1. M \in Brackets /\ N \in Brackets /\ Shrinks(M, N, {n}, c)
  BY WithdrawnForm, TournamentForm
<1> HIDE DEF N
<1>2. rank[n] \in Nat
  BY <1>1, BracketParts DEF Flow, Layout
<1>3. \A y \in {n} : y \in DOMAIN M /\ ~M[y].confirmed /\ ~(rank[y] < rank[n])
  BY <1>2
<1>4. ASSUME NEW y \in DOMAIN M, Passing(M, y), c \in Standing(M, y)
      PROVE  y \in {n} <=> M[y].next \in {n}
  <2>1. y # n
    BY <1>4, LeadsSelf DEF Calm
  <2>2. ASSUME M[y].next = n PROVE FALSE
    <3>1. Gives(M, y, n, c)
      BY <1>4, <2>2, InStanding DEF Passing, Gives
    <3>2. y = x
      BY <1>1, <3>1, GivenByOne
    <3> QED
      BY <1>4, <3>2 DEF Passing
  <2> QED
    BY <2>1, <2>2
<1>5. Flow(f, N, rank) /\ Ready(N, C) /\ Backed(M, N, rank, rank[n]) /\ HavingResult(N) = HavingResult(M)
  <2>1. \A y \in DOMAIN M : Passing(M, y) /\ c \in Standing(M, y) => (y \in {n} <=> M[y].next \in {n})
    BY <1>4
  <2>2. Flow(f, M, rank) /\ Ready(M, C)
    OBVIOUS
  <2> DEFINE r == rank[n]
             K == {n}
  <2>3. /\ \A y \in K : y \in DOMAIN M /\ ~M[y].confirmed /\ ~(rank[y] < r)
        /\ \A y \in DOMAIN M : Passing(M, y) /\ c \in Standing(M, y) => (y \in K <=> M[y].next \in K)
        /\ Shrinks(M, N, K, c)
    BY <1>1, <1>3, <2>1
  <2> HIDE DEF M, r, K
  <2>4. Flow(f, N, rank) /\ Ready(N, C) /\ Backed(M, N, rank, r) /\ HavingResult(N) = HavingResult(M)
    BY <1>1, <2>2, <2>3, ShrunkBacked
  <2> QED
    BY <2>4 DEF r
<1>6. \A y \in DOMAIN M \ E : \A k \in {n} : M[y].confirmed => ~Gives(M, y, k, c)
  BY <1>1, GivenByOne
<1>7. Carried(N, active, E)
  <2>1. /\ \A y \in {n} : y \in DOMAIN M /\ ~M[y].confirmed
        /\ active \in SUBSET active /\ E \subseteq E /\ Carried(M, active, E)
    BY <1>3
  <2> HIDE DEF M
  <2> QED
    BY <1>1, <1>6, <2>1, ShrunkCarried
<1>8. c \notin Standing(N, n) /\ n \in DOMAIN N /\ ~N[n].confirmed
  <2>1. Standing(N, n) = Standing(M, n) \ {c}
    BY <1>1, ShrinksForm
  <2> QED
    BY <1>1, <2>1 DEF Shrinks, LinkedAs
<1>9. Calm(N, n)
  BY <1>5, <1>8 DEF Backed
<1> QED
  BY <1>5, <1>7, <1>8, <1>9 DEF N

\* Nothing of M is gone in N.
LeftAlone(f, rank, C, active, E, M, N) ==
  /\ Flow(f, N, rank) /\ Carried(N, active, E) /\ Ready(N, C)
  /\ \A r : Backed(M, N, rank, r)
  /\ HavingResult(N) = HavingResult(M)

\* Who is not there is not taken out.
LEMMA NotTakenOut ==
  ASSUME NEW f, NEW t \in Tournaments, NEW rank, Flow(f, t.matches, rank), NEW C, Ready(t.matches, C),
         NEW active, NEW E, Carried(t.matches, active, E),
         NEW n \in DOMAIN t.matches, NEW c, c \notin Standing(t.matches, n)
  PROVE  LeftAlone(f, rank, C, active, E, t.matches, Withdrawn(t, n, c).matches)
<1> DEFINE M == t.matches
           N == Withdrawn(t, n, c).matches
<1>1. M \in Brackets /\ N \in Brackets /\ Shrinks(M, N, {n}, c)
  BY WithdrawnForm, TournamentForm
<1> HIDE DEF N
<1>2. {e \in M[n].entries : e.who # c} = M[n].entries
  BY InStanding
<1>3. Shrinks(M, N, {}, c)
  BY <1>1, <1>2 DEF Shrinks
<1>4. Flow(f, N, rank) /\ Ready(N, C) /\ (\A r : Backed(M, N, rank, r)) /\ HavingResult(N) = HavingResult(M)
  BY <1>1, <1>3, ShrunkBacked
<1>5. Carried(N, active, E)
  BY <1>1, <1>3, ShrunkCarried
<1> QED
  BY <1>4, <1>5 DEF N, LeftAlone

\* The row of a match without its result, and of one that loses its reset.
LEMMA OpensForm ==
  ASSUME NEW t \in Tournaments, NEW x \in DOMAIN t.matches
  PROVE  /\ AsOpen(t, x) \in Tournaments
         /\ Opens(t.matches, AsOpen(t, x).matches, x)
<1> DEFINE M == t.matches
           N == AsOpen(t, x).matches
<1>1. /\ AsOpen(t, x) \in Tournaments
      /\ DOMAIN N = DOMAIN M
      /\ \A y \in DOMAIN M : /\ N[y].next = M[y].next
                             /\ N[y].loserNext = M[y].loserNext
                             /\ N[y].confirmed = (M[y].confirmed /\ y # x)
  BY OpenType
<1>2. M \in [DOMAIN M -> MatchIn(DOMAIN M)]
  BY TournamentForm, BracketsForm
<1>3. N = [M EXCEPT ![x].confirmed = FALSE, ![x].entries = {[e EXCEPT !.score = None] : e \in @}]
  BY DEF AsOpen, Tournaments
<1>4. N[x].entries = {[e EXCEPT !.score = None] : e \in M[x].entries}
  BY <1>2, <1>3 DEF MatchIn
<1>5. \A y \in DOMAIN M \ {x} : N[y].entries = M[y].entries
  BY <1>2, <1>3
<1> HIDE DEF N
<1>6. \A y \in DOMAIN M : M[y].confirmed \in BOOLEAN
  BY <1>2 DEF MatchIn
<1> QED
  BY <1>1, <1>4, <1>5, <1>6 DEF Opens, LinkedAs, N

LEMMA WithoutResetForm ==
  ASSUME NEW f, NEW t \in Tournaments, NEW rank, Flow(f, t.matches, rank),
         GrandFinal(0) \in DOMAIN t.matches, HasReset(t.matches, GrandFinal(0))
  PROVE  LET N == WithoutReset(t, GrandFinal(0))
         IN  N \in Tournaments /\ HasSecond(N.matches, t.matches)
<1> DEFINE M == t.matches
           first == GrandFinal(0)
           second == GrandFinal(1)
           N == WithoutReset(t, first).matches
<1>1. M \in Brackets /\ M \in [DOMAIN M -> MatchIn(DOMAIN M)] /\ first # second
  BY TournamentForm, BracketsForm, GrandFinals
<1>2. M[first].next = second /\ second \in DOMAIN M
  <2>1. M[first].next = second
    BY DEF HasReset
  <2>2. second # None
    BY GrandFinals
  <2> QED
    BY <1>1, <2>1, <2>2, BracketParts
<1>3. M[first].confirmed
  BY <1>2 DEF Flow
<1>4. /\ WithoutReset(t, first) \in Tournaments
  BY WithoutResetType
<1>5. N = [y \in DOMAIN M \ {second} |-> IF y = first THEN [M[y] EXCEPT !.next = None] ELSE M[y]]
  BY DEF WithoutReset, Tournaments
<1>6. /\ M[first] \in MatchIn(DOMAIN M)
  BY <1>1
<1> HIDE DEF N
<1>7. /\ DOMAIN N = DOMAIN M \ {second}
      /\ N[first] = [M[first] EXCEPT !.next = None]
      /\ \A y \in DOMAIN N : y # first => N[y] = M[y]
  BY <1>1, <1>5
<1>8. /\ N[first].next = None /\ N[first].loserNext = M[first].loserNext
      /\ N[first].confirmed = M[first].confirmed /\ N[first].entries = M[first].entries
  BY <1>6, <1>7 DEF MatchIn
<1>9. HasSecond(N, M)
  BY <1>1, <1>2, <1>3, <1>7, <1>8 DEF HasSecond
<1> QED
  BY <1>4, <1>9 DEF N
\* Match x is open again: nobody stands any more where it had sent them.
LEMMA ReopenedFlow ==
  ASSUME NEW f, NEW t \in Tournaments, NEW rank, Flow(f, t.matches, rank), NEW C, Ready(t.matches, C),
         NEW active, NEW E, NEW x \in DOMAIN t.matches, Carried(t.matches, active, E \cup {x}),
         t.matches[x].confirmed,
         ~(x = GrandFinal(0) /\ GrandFinal(1) \in DOMAIN t.matches),
         \A k \in DOMAIN t.matches : x \in Feeders(t.matches, k) => Calm(t.matches, k),
         \A k \in DOMAIN t.matches : \A c : Gives(t.matches, x, k, c) => c \notin Standing(t.matches, k)
  PROVE  LET N == AsOpen(t, x).matches
         IN  /\ AsOpen(t, x) \in Tournaments
             /\ Flow(f, N, rank) /\ Carried(N, active, E) /\ Ready(N, C)
             /\ Backed(t.matches, N, rank, rank[x])
             /\ HavingResult(N) = HavingResult(t.matches) \ {x}
             /\ Calm(N, x) /\ x \in DOMAIN N /\ ~N[x].confirmed
<1> DEFINE M == t.matches
           N == AsOpen(t, x).matches
<1>1. M \in Brackets /\ AsOpen(t, x) \in Tournaments /\ N \in Brackets /\ Opens(M, N, x)
  BY OpensForm, TournamentForm
<1> HIDE DEF N
<1>2. rank[x] \in Nat
  BY <1>1, BracketParts DEF Flow, Layout
<1>3. /\ Flow(f, N, rank)
      /\ Calm(N, x)
      /\ \A y \in DOMAIN M : Calm(M, y) => Calm(N, y)
  BY <1>1, Opened
<1>4. Carried(N, active, E)
  BY <1>1, Opened
<1>5. /\ DOMAIN N = DOMAIN M
      /\ ~N[x].confirmed
      /\ N[x].entries = {[e EXCEPT !.score = None] : e \in M[x].entries}
      /\ \A y \in DOMAIN M : N[y].next = M[y].next /\ N[y].loserNext = M[y].loserNext
      /\ \A y \in DOMAIN M \ {x} : N[y].confirmed = M[y].confirmed /\ N[y].entries = M[y].entries
  BY <1>1 DEF Opens, LinkedAs
<1>6. Standing(N, x) = Standing(M, x)
  <2>1. M[x].entries \in Rows
    BY <1>1, MatchType
  <2> QED
    BY <1>5, <2>1, ScorelessEntrants DEF Standing
<1>7. Backed(M, N, rank, rank[x])
  <2>1. ASSUME NEW y \in DOMAIN N, rank[y] < rank[x] PROVE y # x
    BY <1>2, <2>1
  <2>2. ASSUME NEW y \in DOMAIN N, NEW c \in Standing(N, y) PROVE c \in Standing(M, y)
    BY <1>5, <1>6, <2>2 DEF Standing
  <2> QED
    BY <1>3, <1>5, <2>1, <2>2 DEF Backed
<1>8. Ready(N, C)
  <2>1. \A y \in DOMAIN N : M[y].confirmed /\ ~N[y].confirmed => Calm(N, y)
    BY <1>3, <1>5
  <2>2. Ready(M, C)
    OBVIOUS
  <2> DEFINE r == rank[x]
  <2>3. Backed(M, N, rank, r)
    BY <1>7
  <2> HIDE DEF M, r
  <2> QED
    BY <1>1, <2>1, <2>2, <2>3, BackedReady
<1>9. HavingResult(N) = HavingResult(M) \ {x}
  BY <1>5 DEF HavingResult
<1> QED
  BY <1>1, <1>3, <1>4, <1>5, <1>7, <1>8, <1>9 DEF N

\* The match of a bracket reset goes with its first one's result.
LEMMA SecondGoneBacked ==
  ASSUME NEW f, NEW rank, NEW M \in Brackets, Flow(f, M, rank), NEW C, Ready(M, C),
         NEW N \in Brackets, HasSecond(N, M), ~M[GrandFinal(1)].confirmed
  PROVE  /\ Ready(N, C) /\ Backed(M, N, rank, rank[GrandFinal(0)])
         /\ HavingResult(N) = HavingResult(M)
<1> DEFINE first == GrandFinal(0)
           second == GrandFinal(1)
<1>1. /\ DOMAIN M = DOMAIN N \cup {second}
      /\ first \in DOMAIN N /\ second \notin DOMAIN N
      /\ N[first].next = None /\ M[first].next = second
      /\ \A x \in DOMAIN N : /\ x # first => N[x].next = M[x].next
                             /\ N[x].loserNext = M[x].loserNext
                             /\ N[x].confirmed = M[x].confirmed
                             /\ N[x].entries = M[x].entries
  BY DEF HasSecond
<1>2. \A y \in DOMAIN N : Calm(M, y) => Calm(N, y)
  BY SecondGone
<1>3. rank[first] \in Nat
  BY <1>1, BracketParts DEF Flow, Layout
<1>4. Backed(M, N, rank, rank[first])
  <2>1. \A y \in DOMAIN N : rank[y] < rank[first] => y # first
    BY <1>3
  <2>2. \A y \in DOMAIN N : Standing(N, y) = Standing(M, y)
    BY <1>1 DEF Standing
  <2> QED
    BY <1>1, <1>2, <1>3, <2>1, <2>2 DEF Backed
<1>5. Ready(N, C)
  <2> DEFINE r == rank[first]
  <2>1. Backed(M, N, rank, r) /\ \A x \in DOMAIN N : M[x].confirmed /\ ~N[x].confirmed => Calm(N, x)
    BY <1>1, <1>4
  <2> HIDE DEF r
  <2> QED
    BY <2>1, BackedReady
<1>6. HavingResult(N) = HavingResult(M)
  BY <1>1 DEF HavingResult
<1> QED
  BY <1>4, <1>5, <1>6

\* What clearing a match does, once nobody it sent on is left there.
LEMMA ClearedFlow ==
  ASSUME NEW f, NEW t \in Tournaments, NEW rank, Flow(f, t.matches, rank), NEW C, Ready(t.matches, C),
         NEW active, NEW E, NEW x \in DOMAIN t.matches, Carried(t.matches, active, E \cup {x}),
         t.matches[x].confirmed,
         \A k \in DOMAIN t.matches : x \in Feeders(t.matches, k) => Calm(t.matches, k),
         \A k \in DOMAIN t.matches \ {GrandFinal(1)} : \A c :
           Gives(t.matches, x, k, c) => c \notin Standing(t.matches, k)
  PROVE  LET N == Cleared(t, f, x).matches
         IN  /\ Cleared(t, f, x) \in Tournaments
             /\ Flow(f, N, rank) /\ Carried(N, active, E) /\ Ready(N, C)
             /\ Backed(t.matches, N, rank, rank[x])
             /\ HavingResult(N) = HavingResult(t.matches) \ {x}
             /\ Calm(N, x) /\ x \in DOMAIN N /\ ~N[x].confirmed
<1> DEFINE M == t.matches
           mid == WithoutReset(t, x)
           back == Reopened(mid, f, x)
           first == GrandFinal(0)
           second == GrandFinal(1)
<1>1. M \in Brackets /\ first # second /\ None # second
  BY TournamentForm, GrandFinals
<1>2. Cleared(t, f, x) = AsOpen(back, x)
  BY DEF Cleared, AsOpen
<1>3. mid \in Tournaments
  BY WithoutResetType
<1>4. back \in Tournaments /\ back.matches = mid.matches
  BY <1>3, ReopenedType
<1> HIDE DEF mid, back
<1>5. CASE x = first /\ second \in DOMAIN M
  <2> DEFINE N == mid.matches
             P == AsOpen(back, x).matches
  <2>1. M[first].next = second /\ HasReset(M, first)
    BY <1>1, <1>5, BracketParts DEF HasReset
  <2>2. HasSecond(N, M) /\ N \in Brackets
    <3>1. WithoutReset(t, first) \in Tournaments /\ HasSecond(WithoutReset(t, first).matches, M)
      BY <1>5, <2>1, WithoutResetForm
    <3> QED
      BY <1>5, <3>1, TournamentForm DEF mid
  <2> HIDE DEF N, P
  <2>3. x \in Feeders(M, second)
    BY <1>5, <2>1 DEF Feeders
  <2>4. Calm(M, second) /\ ~M[second].confirmed
    BY <1>5, <2>3, LeadsSelf DEF Calm
  <2>5. Flow(f, N, rank) /\ Carried(N, active, E \cup {x})
    BY <1>1, <2>2, SecondGone
  <2>6. Ready(N, C) /\ Backed(M, N, rank, rank[x]) /\ HavingResult(N) = HavingResult(M)
    <3>1. Ready(M, C) /\ Flow(f, M, rank)
      OBVIOUS
    <3>2. Ready(N, C) /\ Backed(M, N, rank, rank[first]) /\ HavingResult(N) = HavingResult(M)
      <4> HIDE DEF M
      <4> QED
        BY <1>1, <2>2, <2>4, <3>1, SecondGoneBacked
    <3> QED
      BY <1>5, <3>2
  <2>7. /\ x \in DOMAIN N /\ N[x].confirmed /\ second \notin DOMAIN N /\ N[x].next = None
    <3>1. /\ first \in DOMAIN N /\ N[first].confirmed /\ second \notin DOMAIN N
          /\ N[first].next = None
      <4> HIDE DEF M
      <4> QED
        BY <2>2 DEF HasSecond
    <3>2. x = first
      BY <1>5
    <3> HIDE DEF first, second
    <3> QED
      BY <3>1, <3>2, Zenon
  <2>8. N[x].loserNext = None
    BY <1>5, <2>5, <2>7 DEF Flow, Layout
  <2>9. /\ \A k \in DOMAIN N : x \notin Feeders(N, k)
        /\ \A k \in DOMAIN N : \A c : ~Gives(N, x, k, c)
    BY <2>2, <2>7, <2>8, BracketParts DEF Feeders, Gives
  <2>10. back.matches = N
    BY <1>4 DEF N
  <2>11. /\ AsOpen(back, x) \in Tournaments
         /\ Flow(f, P, rank) /\ Carried(P, active, E) /\ Ready(P, C)
         /\ Backed(N, P, rank, rank[x])
         /\ HavingResult(P) = HavingResult(N) \ {x}
         /\ Calm(P, x) /\ x \in DOMAIN P /\ ~P[x].confirmed
    <3>1. /\ back \in Tournaments /\ Flow(f, back.matches, rank) /\ Ready(back.matches, C)
          /\ Carried(back.matches, active, E \cup {x})
          /\ x \in DOMAIN back.matches /\ back.matches[x].confirmed
          /\ ~(x = GrandFinal(0) /\ GrandFinal(1) \in DOMAIN back.matches)
          /\ \A k \in DOMAIN back.matches : x \in Feeders(back.matches, k) => Calm(back.matches, k)
          /\ \A k \in DOMAIN back.matches : \A c : Gives(back.matches, x, k, c) => c \notin Standing(back.matches, k)
      BY <1>4, <2>5, <2>6, <2>7, <2>9, <2>10
    <3>2. LET O == AsOpen(back, x).matches
          IN  /\ AsOpen(back, x) \in Tournaments
              /\ Flow(f, O, rank) /\ Carried(O, active, E) /\ Ready(O, C)
              /\ Backed(back.matches, O, rank, rank[x])
              /\ HavingResult(O) = HavingResult(back.matches) \ {x}
              /\ Calm(O, x) /\ x \in DOMAIN O /\ ~O[x].confirmed
      BY <3>1, ReopenedFlow
    <3> QED
      BY <2>10, <3>2 DEF P
  <2>12. Backed(M, P, rank, rank[x])
    BY <2>6, <2>11, BackedOn
  <2> QED
    BY <1>2, <2>6, <2>11, <2>12 DEF P
<1>6. CASE ~(x = first /\ second \in DOMAIN M)
  <2> DEFINE P == AsOpen(back, x).matches
  <2>1. ~HasReset(M, x)
    BY <1>1, <1>6, BracketParts DEF HasReset
  <2>2. back.matches = M
    BY <1>4, <2>1 DEF mid, WithoutReset
  <2>3. \A k \in DOMAIN M : \A c : Gives(M, x, k, c) => c \notin Standing(M, k)
    <3>1. ASSUME NEW k \in DOMAIN M, NEW c, Gives(M, x, k, c), k = second PROVE FALSE
      <4>1. M[x].next = second \/ M[x].loserNext = second
        BY <3>1, GivesForm
      <4>2. x = first
        BY <1>1, <4>1, BracketParts
      <4> QED
        BY <1>6, <3>1, <4>2
    <3> QED
      BY <3>1
  <2>4. /\ back \in Tournaments /\ Flow(f, back.matches, rank) /\ Ready(back.matches, C)
        /\ Carried(back.matches, active, E \cup {x})
        /\ x \in DOMAIN back.matches /\ back.matches[x].confirmed
        /\ ~(x = GrandFinal(0) /\ GrandFinal(1) \in DOMAIN back.matches)
        /\ \A k \in DOMAIN back.matches : x \in Feeders(back.matches, k) => Calm(back.matches, k)
        /\ \A k \in DOMAIN back.matches : \A c : Gives(back.matches, x, k, c) => c \notin Standing(back.matches, k)
    BY <1>4, <1>6, <2>2, <2>3
  <2>5. LET O == AsOpen(back, x).matches
        IN  /\ AsOpen(back, x) \in Tournaments
            /\ Flow(f, O, rank) /\ Carried(O, active, E) /\ Ready(O, C)
            /\ Backed(back.matches, O, rank, rank[x])
            /\ HavingResult(O) = HavingResult(back.matches) \ {x}
            /\ Calm(O, x) /\ x \in DOMAIN O /\ ~O[x].confirmed
    BY <2>4, ReopenedFlow
  <2> QED
    BY <1>2, <2>2, <2>5
<1> QED
  BY <1>5, <1>6
\* The rows of a match of two that has a result.
LEMMA DecidedRows ==
  ASSUME NEW rows \in Rows, NEW d \in rows, NEW e \in rows, rows = {d, e}, d.score = 1, e.score = 0
  PROVE  Winner(rows) = d.who /\ Loser(rows) = e.who /\ d.who # None
<1>1. /\ IsFiniteSet(rows) /\ rows \subseteq Row /\ None # 0 /\ None # 1 /\ d # e
      /\ d.who # None
  BY NoneApart DEF Rows, Row
<1>2. {r \in rows : r.score = 1} = {d} /\ (CHOOSE r \in {d} : TRUE) = d
  OBVIOUS
<1>3. Cardinality({d}) = 1
  BY FS_Singleton
<1>4. Cardinality(rows) >= 2
  <2>1. IsFiniteSet({d}) /\ d \notin {e} /\ Cardinality({e}) = 1 /\ IsFiniteSet({e})
    BY <1>1, FS_Singleton
  <2>2. Cardinality({e} \cup {d}) = Cardinality({e}) + 1
    BY <2>1, FS_AddElement
  <2>3. rows = {e} \cup {d}
    OBVIOUS
  <2> QED
    BY <2>1, <2>2, <2>3
<1>5. Winner(rows) = d.who
  <2>1. \A r \in rows : r.score # None
    BY <1>1
  <2> DEFINE best == {r \in rows : r.score = 1}
  <2>2. best = {d} /\ Cardinality(best) = 1
    BY <1>2, <1>3
  <2>3. Winner(rows) = (CHOOSE r \in best : TRUE).who
    <3> HIDE DEF best
    <3>1. Winner(rows) = IF /\ Cardinality(rows) >= 2
                            /\ \A r \in rows : r.score # None
                            /\ Cardinality(best) = 1
                           THEN (CHOOSE r \in best : TRUE).who
                           ELSE None
      BY DEF Winner, best
    <3> QED
      BY <1>4, <2>1, <2>2, <3>1
  <2> HIDE DEF best
  <2> QED
    BY <1>2, <2>2, <2>3
<1>6. Loser(rows) = e.who
  <2> DEFINE l == CHOOSE r \in rows : r.score = 0
  <2>1. \E r \in rows : r.score = 0
    OBVIOUS
  <2>2. l \in rows /\ l.score = 0
    BY <2>1
  <2>3. l = e
    BY <2>2
  <2> QED
    BY <2>3 DEF Loser
<1> QED
  BY <1>1, <1>5, <1>6

\* A match with the same row sends the same contestants.
LEMMA GivesSame ==
  ASSUME NEW M, NEW N, NEW x, N[x].confirmed = M[x].confirmed, N[x].entries = M[x].entries,
         N[x].next = M[x].next, N[x].loserNext = M[x].loserNext, NEW m, NEW c
  PROVE  Gives(N, x, m, c) <=> Gives(M, x, m, c)
BY DEF Gives

-----------------------------------------------------------------------------
(* The steps of an undoing *)

LEMMA OnUndoing ==
  ASSUME NEW M \in Brackets, NEW x \in DOMAIN M, NEW rest \in Seq(Steps)
  PROVE  LET rows == M[x].entries
             next == M[x].next
             lower == M[x].loserNext
             won == Winner(rows)
             lost == Loser(rows)
             last == Then(ToClear(x), rest)
         IN  /\ last \in Seq(Steps)
             /\ won = None \/ (next = None /\ lower = None) => Joined(Undoing(M, x), rest) = last
             /\ won # None /\ next # None /\ lower = None =>
                  Joined(Undoing(M, x), rest) = Then(ToUndo(next), Then(TakeOut(next, won), last))
             /\ won # None /\ next # None /\ lower # None =>
                  LET beyond == M[lower].next
                      end == IF beyond = None THEN last ELSE Then(TakeOut(beyond, lost), last)
                  IN  /\ end \in Seq(Steps)
                      /\ Then(ToUndo(lower), Then(TakeOut(lower, lost), end)) \in Seq(Steps)
                      /\ Joined(Undoing(M, x), rest) =
                           Then(ToUndo(next), Then(TakeOut(next, won),
                             Then(ToUndo(lower), Then(TakeOut(lower, lost), end))))
BY UndoingForm, Zenon DEF Then, Joined

\* From t, after k steps, the undoing comes to u, after j: six steps are
\* taken for each result that is gone, and d others.
Undid(f, rank, C, active, E, r, t, k, u, j, d) ==
  /\ u \in Tournaments
  /\ Flow(f, u.matches, rank) /\ Carried(u.matches, active, E) /\ Ready(u.matches, C)
  /\ Backed(t.matches, u.matches, rank, r)
  /\ j \in Nat
  /\ j + 6 * Cardinality(HavingResult(u.matches)) <= k + d + 6 * Cardinality(HavingResult(t.matches))

LEMMA ResultsCounted ==
  ASSUME NEW t \in Tournaments
  PROVE  IsFiniteSet(HavingResult(t.matches)) /\ Cardinality(HavingResult(t.matches)) \in Nat
<1>1. IsFiniteSet(DOMAIN t.matches)
  BY TournamentForm, BracketParts
<1>2. HavingResult(t.matches) \in SUBSET DOMAIN t.matches
  BY DEF HavingResult
<1> QED
  BY <1>1, <1>2, FS_Subset, FS_CardinalityType

LEMMA UndidOn ==
  ASSUME NEW f, NEW rank \in [Ids -> Nat], NEW C, NEW active, NEW E, NEW r \in Nat, NEW s \in Nat, s <= r,
         NEW t \in Tournaments, NEW k \in Nat, NEW u, NEW j, NEW d \in Nat,
         Undid(f, rank, C, active, E, s, t, k, u, j, d),
         NEW v, NEW i, NEW e \in Nat, Undid(f, rank, C, active, E, r, u, j, v, i, e),
         NEW o, o = d + e
  PROVE  Undid(f, rank, C, active, E, s, t, k, v, i, o)
<1>1. u \in Tournaments /\ v \in Tournaments /\ j \in Nat /\ i \in Nat
  BY DEF Undid
<1>2. /\ Cardinality(HavingResult(t.matches)) \in Nat
      /\ Cardinality(HavingResult(u.matches)) \in Nat
      /\ Cardinality(HavingResult(v.matches)) \in Nat
  BY <1>1, ResultsCounted
<1>3. i + 6 * Cardinality(HavingResult(v.matches)) <= k + (d + e) + 6 * Cardinality(HavingResult(t.matches))
  <2> DEFINE a == Cardinality(HavingResult(t.matches))
             b == Cardinality(HavingResult(u.matches))
             c == Cardinality(HavingResult(v.matches))
  <2>1. j + 6 * b <= k + d + 6 * a /\ i + 6 * c <= j + e + 6 * b
    BY DEF Undid
  <2>2. a \in Nat /\ b \in Nat /\ c \in Nat
    BY <1>2
  <2> HIDE DEF a, b, c
  <2>3. i + 6 * c <= k + (d + e) + 6 * a
    BY <1>1, <2>1, <2>2
  <2> QED
    BY <2>3 DEF a, c
<1>4. Backed(t.matches, u.matches, rank, s) /\ Backed(u.matches, v.matches, rank, r)
  BY DEF Undid
<1>5. u.matches \in Brackets
  BY <1>1, TournamentForm
<1>6. Backed(u.matches, v.matches, rank, s)
  BY <1>4, <1>5, BackedFrom
<1>7. Backed(t.matches, v.matches, rank, s)
  BY <1>4, <1>6, BackedOn
<1>8. i + 6 * Cardinality(HavingResult(v.matches)) <= k + o + 6 * Cardinality(HavingResult(t.matches))
  BY <1>3
<1> QED
  BY <1>1, <1>7, <1>8 DEF Undid

\* From t, after k steps, the result of match x is gone.
CameTo(f, rank, C, active, g, E, t, k, x, rest) ==
  \E u, j :
    /\ Undid(f, rank, C, active, E, rank[x], t, k, u, j, 0)
    /\ g[j] = At(u, rest)
    /\ x \in DOMAIN u.matches /\ ~u.matches[x].confirmed /\ Calm(u.matches, x)

\* The undoing g of a tournament with matches among D can undo match x.
CanUndo(f, rank, C, active, D, g, x) ==
  \A t \in Tournaments : \A E \in SUBSET Ids : \A rest \in Seq(Steps) : \A k \in Nat :
    /\ Flow(f, t.matches, rank) /\ Carried(t.matches, active, E) /\ Ready(t.matches, C)
    /\ DOMAIN t.matches \subseteq D
    /\ x \in C \cap DOMAIN t.matches /\ t.matches[x].confirmed
    /\ g[k] = At(t, Joined(Undoing(t.matches, x), rest))
    => CameTo(f, rank, C, active, g, E, t, k, x, rest)

Goes(f, g) == \A i \in Nat : g[i + 1] = UndoOn(f, g[i])

\* From t, after k steps, match n is undone and c taken out of it.
TookBack(f, rank, C, active, g, E, r, t, k, n, c, rest) ==
  \E u, j :
    /\ Undid(f, rank, C, active, E, r, t, k, u, j, 2)
    /\ g[j] = At(u, rest)
    /\ n \in DOMAIN u.matches /\ ~u.matches[n].confirmed /\ Calm(u.matches, n)
    /\ c \notin Standing(u.matches, n)

\* Taking back whom match x sent to match n, which is undone first.
LEMMA TakenBack ==
  ASSUME NEW f, NEW rank \in [Ids -> Nat], NEW C, NEW active, NEW D, NEW g,
         Goes(f, g),
         NEW E \in SUBSET Ids, NEW t \in Tournaments,
         Flow(f, t.matches, rank), Carried(t.matches, active, E), Ready(t.matches, C),
         DOMAIN t.matches \subseteq D,
         NEW x \in DOMAIN t.matches, x \in E, t.matches[x].confirmed,
         NEW n \in DOMAIN t.matches, n \in C, NEW c \in Contestants, Gives(t.matches, x, n, c),
         NEW r \in Nat, r <= rank[n], rank[x] < r,
         ~t.matches[n].confirmed => Calm(t.matches, n),
         CanUndo(f, rank, C, active, D, g, n),
         NEW rest \in Seq(Steps), NEW k \in Nat,
         g[k] = At(t, Then(ToUndo(n), Then(TakeOut(n, c), rest)))
  PROVE  TookBack(f, rank, C, active, g, E, r, t, k, n, c, rest)
<1>1. /\ t.matches \in Brackets /\ DOMAIN t.matches \subseteq Ids
      /\ x \in Ids /\ n \in Ids /\ rank[n] \in Nat /\ rank[x] \in Nat
  BY TournamentForm, BracketParts
<1> DEFINE last == Then(TakeOut(n, c), rest)
<1>2. last \in Seq(Steps)
  BY <1>1, TakeOutTaken
<1>3. \E v, i : /\ Undid(f, rank, C, active, E, r, t, k, v, i, 1)
                /\ g[i] = At(v, last)
                /\ n \in DOMAIN v.matches /\ ~v.matches[n].confirmed /\ Calm(v.matches, n)
  <2>0. Cardinality(HavingResult(t.matches)) \in Nat
    BY ResultsCounted
  <2>3. \A l \in Seq(Steps) : UndoOn(f, At(t, Then(ToUndo(n), l))) =
              At(t, IF n \in DOMAIN t.matches /\ t.matches[n].confirmed
                      THEN Joined(Undoing(t.matches, n), l) ELSE l)
    BY <1>1, UndoTaken
  <2>1. CASE t.matches[n].confirmed
    <3>1. g[k + 1] = At(t, Joined(Undoing(t.matches, n), last))
      <4>1. g[k + 1] = UndoOn(f, g[k])
        BY DEF Goes
      <4> HIDE DEF last
      <4>2. UndoOn(f, At(t, Then(ToUndo(n), last))) =
              At(t, IF n \in DOMAIN t.matches /\ t.matches[n].confirmed
                      THEN Joined(Undoing(t.matches, n), last) ELSE last)
        BY <1>2, <2>3
      <4> QED
        BY <2>1, <4>1, <4>2 DEF last
    <3> HIDE DEF last
    <3>2. PICK v, i : /\ Undid(f, rank, C, active, E, rank[n], t, k + 1, v, i, 0)
                      /\ g[i] = At(v, last)
                      /\ n \in DOMAIN v.matches /\ ~v.matches[n].confirmed /\ Calm(v.matches, n)
      <4>1. /\ k + 1 \in Nat
            /\ Flow(f, t.matches, rank) /\ Carried(t.matches, active, E) /\ Ready(t.matches, C)
            /\ DOMAIN t.matches \subseteq D
            /\ n \in C \cap DOMAIN t.matches /\ t.matches[n].confirmed
            /\ g[k + 1] = At(t, Joined(Undoing(t.matches, n), last))
        BY <2>1, <3>1
      <4> QED
        BY <1>2, <4>1 DEF CanUndo, CameTo
    <3>3. Undid(f, rank, C, active, E, r, t, k, v, i, 1)
      <4>1. Backed(t.matches, v.matches, rank, r)
        BY <1>1, <3>2, BackedFrom DEF Undid
      <4>2. /\ Cardinality(HavingResult(v.matches)) \in Nat
        BY <3>2, ResultsCounted DEF Undid
      <4>3. i + 6 * Cardinality(HavingResult(v.matches)) <= k + 1 + 6 * Cardinality(HavingResult(t.matches))
        BY <2>0, <3>2, <4>2 DEF Undid
      <4> QED
        BY <3>2, <4>1, <4>3 DEF Undid
    <3> QED
      BY <3>2, <3>3
  <2>2. CASE ~t.matches[n].confirmed
    <3>1. g[k + 1] = At(t, last)
      <4>1. g[k + 1] = UndoOn(f, g[k])
        BY DEF Goes
      <4> HIDE DEF last
      <4>2. UndoOn(f, At(t, Then(ToUndo(n), last))) =
              At(t, IF n \in DOMAIN t.matches /\ t.matches[n].confirmed
                      THEN Joined(Undoing(t.matches, n), last) ELSE last)
        BY <1>2, <2>3
      <4> QED
        BY <2>2, <4>1, <4>2 DEF last
    <3>2. Undid(f, rank, C, active, E, r, t, k, t, k + 1, 1)
      <4>1. Backed(t.matches, t.matches, rank, r)
        BY BackedSelf
      <4>2. k + 1 + 6 * Cardinality(HavingResult(t.matches)) <= k + 1 + 6 * Cardinality(HavingResult(t.matches))
        BY <2>0
      <4> QED
        BY <4>1, <4>2 DEF Undid
    <3> QED
      BY <2>2, <3>1, <3>2
  <2> QED
    BY <2>1, <2>2
<1>4. PICK v, i : /\ Undid(f, rank, C, active, E, r, t, k, v, i, 1)
                  /\ g[i] = At(v, last)
                  /\ n \in DOMAIN v.matches /\ ~v.matches[n].confirmed /\ Calm(v.matches, n)
  BY <1>3
<1>5. /\ v \in Tournaments /\ i \in Nat
      /\ Flow(f, v.matches, rank) /\ Carried(v.matches, active, E) /\ Ready(v.matches, C)
      /\ Backed(t.matches, v.matches, rank, r)
  BY <1>4 DEF Undid
<1>6. /\ x \in DOMAIN v.matches /\ v.matches[x].confirmed
      /\ v.matches[x].entries = t.matches[x].entries
      /\ v.matches[x].next = t.matches[x].next
      /\ v.matches[x].loserNext = t.matches[x].loserNext
  <2>1. x # GrandFinal(1)
    <3>1. n # None /\ (t.matches[x].next = n \/ t.matches[x].loserNext = n)
      <4>1. n # None
        BY <1>1, BracketParts
      <4> QED
        BY <4>1, GivesForm
    <3>2. ASSUME x = GrandFinal(1) PROVE t.matches[x].next = None /\ t.matches[x].loserNext = None
      BY <1>1, <3>2, BracketParts
    <3> QED
      BY <3>1, <3>2
  <2> QED
    BY <1>5, <2>1 DEF Backed
<1>7. Gives(v.matches, x, n, c)
  BY <1>6, GivesSame
<1> DEFINE u == Withdrawn(v, n, c)
<1>8. g[i + 1] = At(u, rest)
  <2>1. g[i + 1] = UndoOn(f, g[i])
    BY <1>5 DEF Goes
  <2>2. UndoOn(f, At(v, Then(TakeOut(n, c), rest))) = At(u, rest)
    BY <1>1, TakeOutTaken
  <2> QED
    BY <1>4, <2>1, <2>2
<1>9. u \in Tournaments
  BY <1>5, WithdrawnType
<1> HIDE DEF u
<1>10. /\ Flow(f, u.matches, rank) /\ Carried(u.matches, active, E) /\ Ready(u.matches, C)
       /\ Backed(v.matches, u.matches, rank, rank[n])
       /\ HavingResult(u.matches) = HavingResult(v.matches)
       /\ c \notin Standing(u.matches, n) /\ Calm(u.matches, n)
       /\ n \in DOMAIN u.matches /\ ~u.matches[n].confirmed
  <2>1. /\ v \in Tournaments /\ Flow(f, v.matches, rank) /\ Ready(v.matches, C)
        /\ Carried(v.matches, active, E)
        /\ x \in DOMAIN v.matches /\ x \in E /\ v.matches[x].confirmed
        /\ n \in DOMAIN v.matches /\ Gives(v.matches, x, n, c)
        /\ ~v.matches[n].confirmed /\ Calm(v.matches, n)
    BY <1>4, <1>5, <1>6, <1>7
  <2>2. LET N == Withdrawn(v, n, c).matches
        IN  /\ Flow(f, N, rank) /\ Carried(N, active, E) /\ Ready(N, C)
            /\ Backed(v.matches, N, rank, rank[n])
            /\ HavingResult(N) = HavingResult(v.matches)
            /\ c \notin Standing(N, n) /\ Calm(N, n) /\ n \in DOMAIN N /\ ~N[n].confirmed
    BY <2>1, TakenOut
  <2> QED
    BY <2>2 DEF u
<1>11. Undid(f, rank, C, active, E, r, v, i, u, i + 1, 1)
  <2>1. Backed(v.matches, u.matches, rank, r)
    <3>1. v.matches \in Brackets
      BY <1>5, TournamentForm
    <3> QED
      BY <1>1, <1>10, <3>1, BackedFrom
  <2>2. Cardinality(HavingResult(v.matches)) \in Nat
    BY <1>5, ResultsCounted
  <2> QED
    BY <1>5, <1>9, <1>10, <2>1, <2>2 DEF Undid
<1> DEFINE h == i + 1
<1>12. Undid(f, rank, C, active, E, r, v, i, u, h, 1) /\ 1 \in Nat /\ 2 = 1 + 1 /\ r <= r
  BY <1>11
<1> HIDE DEF h
<1>13. Undid(f, rank, C, active, E, r, t, k, u, h, 2)
  BY <1>4, <1>12, UndidOn
<1> QED
  BY <1>8, <1>10, <1>13 DEF h, TookBack

LEMMA CarriedMore ==
  ASSUME NEW M, NEW active, NEW E, NEW F, E \subseteq F, Carried(M, active, E)
  PROVE  Carried(M, active, F)
BY DEF Carried

\* Below where results were undone, nothing changed.
LEMMA Unchanged ==
  ASSUME NEW M, NEW N, NEW rank, NEW r, Backed(M, N, rank, r),
         NEW x \in DOMAIN M, x # GrandFinal(1), rank[x] < r
  PROVE  /\ x \in DOMAIN N
         /\ N[x].confirmed = M[x].confirmed /\ N[x].entries = M[x].entries
         /\ N[x].next = M[x].next /\ N[x].loserNext = M[x].loserNext
         /\ \A m, c : Gives(N, x, m, c) <=> Gives(M, x, m, c)
<1>1. /\ x \in DOMAIN N
      /\ N[x].confirmed = M[x].confirmed /\ N[x].entries = M[x].entries
      /\ N[x].next = M[x].next /\ N[x].loserNext = M[x].loserNext
  BY DEF Backed
<1> QED
  BY <1>1, GivesSame

\* Nobody is left of whom a match sent to match n.
Gone(M, n, c) == n \in DOMAIN M => Calm(M, n) /\ c \notin Standing(M, n)

LEMMA GoneOn ==
  ASSUME NEW M, NEW N, NEW rank, NEW r, Backed(M, N, rank, r), NEW n, NEW c, Gone(M, n, c)
  PROVE  Gone(N, n, c)
BY DEF Gone, Backed

\* Nobody is left of whom match x sent on.
AllGone(M, x) ==
  \A n \in {M[x].next, M[x].loserNext} \ {None} : \E c : Gives(M, x, n, c) /\ Gone(M, n, c)

\* All but the last step of the undoing of match x is done.
Nearly(f, rank, C, active, E, t, k, v, i, x) ==
  Undid(f, rank, C, active, E \cup {x}, rank[x] + 1, t, k, v, i, 5)

\* At last the match itself is cleared.
LEMMA ClearedAfter ==
  ASSUME NEW f, NEW rank \in [Ids -> Nat], NEW C, NEW active, NEW g, Goes(f, g), NEW E,
         NEW t \in Tournaments, NEW k \in Nat, NEW x \in Ids, NEW rest \in Seq(Steps),
         NEW v, NEW i, Nearly(f, rank, C, active, E, t, k, v, i, x),
         g[i] = At(v, Then(ToClear(x), rest)),
         x \in DOMAIN v.matches, v.matches[x].confirmed,
         AllGone(v.matches, x)
  PROVE  CameTo(f, rank, C, active, g, E, t, k, x, rest)
<1>0. /\ Undid(f, rank, C, active, E \cup {x}, rank[x] + 1, t, k, v, i, 5)
      /\ \A n \in {v.matches[x].next, v.matches[x].loserNext} \ {None} :
           \E c : Gives(v.matches, x, n, c) /\ Gone(v.matches, n, c)
  BY DEF Nearly, AllGone
<1> DEFINE M == v.matches
           u == Cleared(v, f, x)
           r == rank[x]
<1>1. /\ v \in Tournaments /\ i \in Nat /\ r \in Nat /\ M \in Brackets
      /\ Flow(f, M, rank) /\ Carried(M, active, E \cup {x}) /\ Ready(M, C)
      /\ Backed(t.matches, M, rank, r + 1)
  BY <1>0, TournamentForm DEF Undid
<1>2. \A n \in DOMAIN M : x \in Feeders(M, n) => n \in {M[x].next, M[x].loserNext} \ {None}
  <2>1. None \notin DOMAIN M
    BY <1>1, BracketParts
  <2> QED
    BY <2>1 DEF Feeders
<1>3. ASSUME NEW n \in DOMAIN M, x \in Feeders(M, n)
      PROVE  Calm(M, n)
  BY <1>0, <1>2, <1>3 DEF Gone
<1>4. ASSUME NEW n \in DOMAIN M \ {GrandFinal(1)}, NEW c, Gives(M, x, n, c)
      PROVE  c \notin Standing(M, n)
  <2>1. x \in Feeders(M, n)
    BY <1>4, GivesForm
  <2>2. PICK d : Gives(M, x, n, d) /\ Gone(M, n, d)
    BY <1>0, <1>2, <2>1
  <2>3. c = d
    BY <1>1, <1>4, <2>2, GivesOne
  <2> QED
    BY <2>2, <2>3 DEF Gone
<1>5. /\ u \in Tournaments
      /\ Flow(f, u.matches, rank) /\ Carried(u.matches, active, E) /\ Ready(u.matches, C)
      /\ Backed(M, u.matches, rank, r)
      /\ HavingResult(u.matches) = HavingResult(M) \ {x}
      /\ Calm(u.matches, x) /\ x \in DOMAIN u.matches /\ ~u.matches[x].confirmed
  <2>1. /\ v \in Tournaments /\ Flow(f, v.matches, rank) /\ Ready(v.matches, C)
        /\ x \in DOMAIN v.matches /\ Carried(v.matches, active, E \cup {x})
        /\ v.matches[x].confirmed
        /\ \A n \in DOMAIN v.matches : x \in Feeders(v.matches, n) => Calm(v.matches, n)
        /\ \A n \in DOMAIN v.matches \ {GrandFinal(1)} : \A c :
             Gives(v.matches, x, n, c) => c \notin Standing(v.matches, n)
    BY <1>1, <1>3, <1>4
  <2>2. LET N == Cleared(v, f, x).matches
        IN  /\ Cleared(v, f, x) \in Tournaments
            /\ Flow(f, N, rank) /\ Carried(N, active, E) /\ Ready(N, C)
            /\ Backed(v.matches, N, rank, rank[x])
            /\ HavingResult(N) = HavingResult(v.matches) \ {x}
            /\ Calm(N, x) /\ x \in DOMAIN N /\ ~N[x].confirmed
    BY <2>1, ClearedFlow
  <2> QED
    BY <2>2
<1>6. g[i + 1] = At(u, rest)
  <2>1. g[i + 1] = UndoOn(f, g[i])
    BY <1>1 DEF Goes
  <2>2. UndoOn(f, At(v, Then(ToClear(x), rest))) = At(u, rest)
    BY ClearTaken
  <2> QED
    BY <2>1, <2>2
<1> HIDE DEF u
<1>7. Backed(t.matches, u.matches, rank, r)
  <2>1. Backed(t.matches, M, rank, r)
    <3>1. t.matches \in Brackets /\ r + 1 \in Nat /\ r <= r + 1
      BY <1>1, TournamentForm
    <3> DEFINE s == r + 1
    <3>2. Backed(t.matches, M, rank, s) /\ s \in Nat /\ r <= s
      BY <1>1, <3>1
    <3> HIDE DEF s, r
    <3> QED
      BY <1>1, <3>1, <3>2, BackedFrom
  <2> QED
    BY <1>5, <2>1, BackedOn
<1>8. i + 1 + 6 * Cardinality(HavingResult(u.matches)) <= k + 0 + 6 * Cardinality(HavingResult(t.matches))
  <2> DEFINE a == Cardinality(HavingResult(t.matches))
             b == Cardinality(HavingResult(M))
             c == Cardinality(HavingResult(u.matches))
  <2>1. a \in Nat /\ b \in Nat /\ IsFiniteSet(HavingResult(M))
    BY <1>1, ResultsCounted
  <2>2. x \in HavingResult(M)
    BY DEF HavingResult
  <2>6. HavingResult(u.matches) = HavingResult(M) \ {x}
    BY <1>5
  <2>7. Cardinality(HavingResult(M) \ {x}) = Cardinality(HavingResult(M)) - 1
    <3> HIDE DEF M
    <3> QED
      BY <2>1, <2>2, FS_RemoveElement
  <2>3. c = b - 1
    BY <2>6, <2>7
  <2>4. i + 6 * b <= k + 5 + 6 * a
    BY <1>0 DEF Undid
  <2> HIDE DEF a, b, c
  <2>5. i + 1 + 6 * c <= k + 0 + 6 * a
    BY <1>1, <2>1, <2>3, <2>4
  <2> QED
    BY <2>5 DEF a, c
<1>9. Undid(f, rank, C, active, E, r, t, k, u, i + 1, 0)
  BY <1>1, <1>5, <1>7, <1>8 DEF Undid
<1> QED
  BY <1>5, <1>6, <1>9 DEF CameTo

\* Who won and who lost a match that leads on.
LEMMA ReadyRows ==
  ASSUME NEW f, NEW M \in Brackets, NEW rank, Flow(f, M, rank), NEW C, Ready(M, C),
         NEW x \in C \cap DOMAIN M, M[x].confirmed, M[x].next # None
  PROVE  LET rows == M[x].entries
             won == Winner(rows)
             lost == Loser(rows)
         IN  /\ won \in Contestants /\ won # None /\ lost \in Contestants
             /\ Gives(M, x, M[x].next, won)
             /\ M[x].loserNext # None => Gives(M, x, M[x].loserNext, lost)
             /\ f.mode # "RR" /\ x # GrandFinal(1)
<1>1. f.mode # "RR"
  BY DEF Flow, Layout
<1>2. Decided(M[x]) /\ \A e \in M[x].entries : M[x].entries # {e}
  BY <1>1 DEF Flow, Scores, Ready
<1>3. PICK d \in M[x].entries, e \in M[x].entries :
        M[x].entries = {d, e} /\ d.score = 1 /\ e.score = 0
  BY <1>2 DEF Decided
<1>4. M[x].entries \in Rows
  BY MatchType
<1>5. Winner(M[x].entries) = d.who /\ Loser(M[x].entries) = e.who /\ d.who # None
  BY <1>3, <1>4, DecidedRows
<1>6. d.who \in Contestants /\ e.who \in Contestants
  BY <1>4 DEF Rows, Row
<1>7. x # GrandFinal(1)
  BY BracketParts
<1>8. Gives(M, x, M[x].next, d.who)
  BY <1>3 DEF Gives
<1>9. Gives(M, x, M[x].loserNext, e.who)
  BY <1>3 DEF Gives
<1> QED
  BY <1>1, <1>5, <1>6, <1>7, <1>8, <1>9
\* Nobody stands where they would go from a match they are not in.
LEMMA NotBeyond ==
  ASSUME NEW f, NEW M \in Brackets, NEW rank, Flow(f, M, rank), f.mode # "RR",
         NEW x \in DOMAIN M, NEW m \in DOMAIN M, NEW c, Gives(M, x, m, c), c \notin Standing(M, m),
         M[m].next # None
  PROVE  c \notin Standing(M, M[m].next)
<1> DEFINE y == M[m].next
<1>1. SUFFICES ASSUME c \in Standing(M, y) PROVE FALSE
  OBVIOUS
<1>2. /\ y \in DOMAIN M /\ y \in Ids /\ x \in Ids /\ m \in Ids
  BY BracketParts
<1>3. /\ rank \in [Ids -> Nat] /\ rank[x] < rank[m] /\ rank[m] < rank[y]
  <2>1. M[x].next = m \/ M[x].loserNext = m
    BY GivesForm
  <2>2. m # None
    BY <1>2, BracketParts
  <2> QED
    BY <2>1, <2>2 DEF Flow, Layout
<1>4. rank[x] < rank[y]
  BY <1>2, <1>3
<1>5. c \in Standing(M, x) \cap Standing(M, y)
  BY <1>1, GivesForm
<1> HIDE DEF y
<1>6. PICK k \in DOMAIN M : Gives(M, x, k, c) /\ c \in Standing(M, k)
  BY <1>2, <1>4, <1>5, SentOn
<1>7. k = m
  BY <1>6, GivesOnce
<1> QED
  BY <1>6, <1>7

\* An undoing may have taken fewer steps.
LEMMA UndidLess ==
  ASSUME NEW f, NEW rank, NEW C, NEW active, NEW E, NEW r, NEW t \in Tournaments, NEW k \in Nat,
         NEW u, NEW j, NEW d \in Nat, NEW e \in Nat, d <= e, Undid(f, rank, C, active, E, r, t, k, u, j, d)
  PROVE  Undid(f, rank, C, active, E, r, t, k, u, j, e)
<1>1. u \in Tournaments /\ j \in Nat
  BY DEF Undid
<1> DEFINE a == Cardinality(HavingResult(t.matches))
           b == Cardinality(HavingResult(u.matches))
<1>2. a \in Nat /\ b \in Nat
  BY <1>1, ResultsCounted
<1>3. j + 6 * b <= k + d + 6 * a
  BY DEF Undid
<1> HIDE DEF a, b
<1>4. j + 6 * b <= k + e + 6 * a
  BY <1>1, <1>2, <1>3
<1> QED
  BY <1>4 DEF Undid, a, b

NoneTook(f, rank, C, active, g, E, r, t, k, v, rest) ==
  \E u, j : /\ Undid(f, rank, C, active, E, r, t, k, u, j, 5) /\ g[j] = At(u, rest)
            /\ Backed(v.matches, u.matches, rank, r)

\* Withdrawing who is not there is a step of it.
LEMMA NoneTakenOut ==
  ASSUME NEW f, NEW rank \in [Ids -> Nat], NEW C, NEW active, NEW g, Goes(f, g), NEW E,
         NEW t \in Tournaments, NEW k \in Nat, NEW r \in Nat,
         NEW v, NEW i, Undid(f, rank, C, active, E, r, t, k, v, i, 4),
         NEW n \in DOMAIN v.matches, NEW c \in Contestants, c \notin Standing(v.matches, n),
         NEW rest \in Seq(Steps), g[i] = At(v, Then(TakeOut(n, c), rest))
  PROVE  NoneTook(f, rank, C, active, g, E, r, t, k, v, rest)
<1> DEFINE u == Withdrawn(v, n, c)
           j == i + 1
<1>1. /\ v \in Tournaments /\ i \in Nat /\ v.matches \in Brackets /\ n \in Ids
      /\ Flow(f, v.matches, rank) /\ Carried(v.matches, active, E) /\ Ready(v.matches, C)
  BY TournamentForm, BracketParts DEF Undid
<1>2. g[j] = At(u, rest)
  <2>1. g[i + 1] = UndoOn(f, g[i])
    BY <1>1 DEF Goes
  <2>2. UndoOn(f, At(v, Then(TakeOut(n, c), rest))) = At(u, rest)
    BY <1>1, TakeOutTaken
  <2> QED
    BY <2>1, <2>2
<1>3. u \in Tournaments
  BY <1>1, WithdrawnType
<1>4. LeftAlone(f, rank, C, active, E, v.matches, Withdrawn(v, n, c).matches)
  <2>1. /\ v \in Tournaments /\ Flow(f, v.matches, rank) /\ Ready(v.matches, C)
        /\ Carried(v.matches, active, E)
        /\ n \in DOMAIN v.matches /\ c \notin Standing(v.matches, n)
    BY <1>1
  <2> HIDE DEF u, j
  <2> QED
    BY <2>1, NotTakenOut
<1>5. Undid(f, rank, C, active, E, r, v, i, u, j, 1)
  <2>1. Cardinality(HavingResult(v.matches)) \in Nat
    BY <1>1, ResultsCounted
  <2>2. j + 6 * Cardinality(HavingResult(u.matches)) <= i + 1 + 6 * Cardinality(HavingResult(v.matches))
    BY <1>1, <1>4, <2>1 DEF LeftAlone
  <2> QED
    BY <1>1, <1>3, <1>4, <2>2 DEF Undid, LeftAlone
<1> HIDE DEF u, j
<1> DEFINE a == 4
           b == 1
           d == 5
<1>6. /\ a \in Nat /\ b \in Nat /\ d = a + b /\ r <= r
      /\ Undid(f, rank, C, active, E, r, t, k, v, i, a)
      /\ Undid(f, rank, C, active, E, r, v, i, u, j, b)
  BY <1>5
<1> HIDE DEF a, b, d
<1>7. Undid(f, rank, C, active, E, r, t, k, u, j, d)
  BY <1>6, UndidOn
<1> QED
  BY <1>2, <1>6, <1>7 DEF d, NoneTook, Undid
\* A match whose result goes nowhere.
LEMMA UndoneLast ==
  ASSUME NEW f, NEW rank \in [Ids -> Nat], NEW C, NEW active, NEW D, NEW g, Goes(f, g),
         NEW E \in SUBSET Ids, NEW t \in Tournaments,
         Flow(f, t.matches, rank), Carried(t.matches, active, E), Ready(t.matches, C),
         NEW x \in C \cap DOMAIN t.matches, t.matches[x].confirmed, t.matches[x].next = None,
         NEW rest \in Seq(Steps), NEW k \in Nat, g[k] = At(t, Joined(Undoing(t.matches, x), rest))
  PROVE  CameTo(f, rank, C, active, g, E, t, k, x, rest)
<1>1. t.matches \in Brackets /\ x \in Ids
  BY TournamentForm, BracketParts
<1>2. t.matches[x].loserNext = None
  BY DEF Flow, Layout
<1>3. g[k] = At(t, Then(ToClear(x), rest))
  BY <1>1, <1>2, OnUndoing
<1>4. Nearly(f, rank, C, active, E, t, k, t, k, x)
  <2>1. Cardinality(HavingResult(t.matches)) \in Nat
    BY ResultsCounted
  <2>2. Carried(t.matches, active, E \cup {x})
    BY CarriedMore
  <2>3. k + 6 * Cardinality(HavingResult(t.matches)) <= k + 5 + 6 * Cardinality(HavingResult(t.matches))
    BY <2>1
  <2> QED
    BY <2>2, <2>3, BackedSelf DEF Undid, Nearly
<1>5. AllGone(t.matches, x) /\ x \in DOMAIN t.matches
  BY <1>2 DEF AllGone
<1> QED
  BY <1>1, <1>3, <1>4, <1>5, ClearedAfter

\* In the undoing of match x, match n is undone and c taken out of it.
FirstTook(f, rank, C, active, g, E, t, k, x, n, c, rest) ==
  \E u, j :
    /\ Undid(f, rank, C, active, E \cup {x}, rank[x] + 1, t, k, u, j, 2)
    /\ g[j] = At(u, rest)
    /\ Gone(u.matches, n, c)
    /\ n \in DOMAIN u.matches

\* A match whose winner went on: first that is undone, and they are taken back.
LEMMA UndoneNext ==
  ASSUME NEW f, NEW rank \in [Ids -> Nat], NEW C, NEW active, NEW D, NEW g, Goes(f, g),
         NEW E \in SUBSET Ids, NEW t \in Tournaments, NEW x,
         Flow(f, t.matches, rank), Carried(t.matches, active, E \cup {x}), Ready(t.matches, C),
         DOMAIN t.matches \subseteq D,
         x \in C \cap DOMAIN t.matches, t.matches[x].confirmed,
         NEW n, n \in {t.matches[x].next, t.matches[x].loserNext} \ {None}, x # GrandFinal(1),
         NEW c \in Contestants, Gives(t.matches, x, n, c),
         \A m \in D \cap Ids : rank[x] < rank[m] => CanUndo(f, rank, C, active, D, g, m),
         NEW rest \in Seq(Steps), NEW k \in Nat,
         g[k] = At(t, Then(ToUndo(n), Then(TakeOut(n, c), rest)))
  PROVE  FirstTook(f, rank, C, active, g, E, t, k, x, n, c, rest)
<1>1. /\ t.matches \in Brackets /\ x \in Ids /\ n \in DOMAIN t.matches /\ n \in Ids
      /\ E \cup {x} \in SUBSET Ids /\ x \in E \cup {x}
  BY TournamentForm, BracketParts
<1>2. rank[x] < rank[n] /\ rank[n] \in Nat /\ rank[x] \in Nat
  BY <1>1 DEF Flow, Layout
<1>3. rank[x] + 1 \in Nat /\ rank[x] + 1 <= rank[n] /\ rank[x] < rank[x] + 1
  BY <1>2
<1>4. n \in C /\ (~t.matches[n].confirmed => Calm(t.matches, n))
  BY DEF Ready
<1>5. CanUndo(f, rank, C, active, D, g, n)
  BY <1>1, <1>2
<1> DEFINE r == rank[x] + 1
           F == E \cup {x}
<1>7. /\ F \in SUBSET Ids /\ t \in Tournaments
      /\ Flow(f, t.matches, rank) /\ Carried(t.matches, active, F) /\ Ready(t.matches, C)
      /\ DOMAIN t.matches \subseteq D
      /\ x \in DOMAIN t.matches /\ x \in F /\ t.matches[x].confirmed
      /\ n \in DOMAIN t.matches /\ n \in C /\ Gives(t.matches, x, n, c)
      /\ r \in Nat /\ r <= rank[n] /\ rank[x] < r
      /\ ~t.matches[n].confirmed => Calm(t.matches, n)
      /\ CanUndo(f, rank, C, active, D, g, n)
  BY <1>1, <1>3, <1>4, <1>5
<1> HIDE DEF r, F
<1>8. TookBack(f, rank, C, active, g, F, r, t, k, n, c, rest)
  BY <1>7, TakenBack
<1> QED
  BY <1>8 DEF TookBack, FirstTook, Gone, r, F
\* Matches beyond x can be undone, and so can match x.
LEMMA UndoneOne ==
  ASSUME NEW f, NEW rank \in [Ids -> Nat], NEW C, NEW active, NEW D, NEW g, Goes(f, g), NEW x,
         \A m \in D \cap Ids : rank[x] < rank[m] => CanUndo(f, rank, C, active, D, g, m)
  PROVE  CanUndo(f, rank, C, active, D, g, x)
<1> SUFFICES ASSUME NEW t \in Tournaments, NEW E \in SUBSET Ids, NEW rest \in Seq(Steps), NEW k \in Nat,
                    Flow(f, t.matches, rank), Carried(t.matches, active, E), Ready(t.matches, C),
                    DOMAIN t.matches \subseteq D,
                    x \in C \cap DOMAIN t.matches, t.matches[x].confirmed,
                    g[k] = At(t, Joined(Undoing(t.matches, x), rest))
             PROVE  CameTo(f, rank, C, active, g, E, t, k, x, rest)
  BY DEF CanUndo
<1> DEFINE M == t.matches
           next == M[x].next
           lower == M[x].loserNext
           won == Winner(M[x].entries)
           lost == Loser(M[x].entries)
           last == Then(ToClear(x), rest)
           r == rank[x] + 1
           F == E \cup {x}
<1>1. /\ M \in Brackets /\ x \in Ids /\ x \in DOMAIN M
      /\ next \in DOMAIN M \cup {None} /\ lower \in DOMAIN M \cup {None} /\ None \notin DOMAIN M
  BY TournamentForm, BracketParts
<1>2. CASE next = None
  BY <1>2, UndoneLast
<1>3. CASE next # None
  <2>1. /\ won \in Contestants /\ won # None /\ lost \in Contestants
        /\ Gives(M, x, next, won)
        /\ lower # None => Gives(M, x, lower, lost)
        /\ f.mode # "RR" /\ x # GrandFinal(1)
    <3>1. LET rows == t.matches[x].entries
              w == Winner(rows)
              l == Loser(rows)
          IN  /\ w \in Contestants /\ w # None /\ l \in Contestants
              /\ Gives(t.matches, x, t.matches[x].next, w)
              /\ t.matches[x].loserNext # None => Gives(t.matches, x, t.matches[x].loserNext, l)
              /\ f.mode # "RR" /\ x # GrandFinal(1)
      BY <1>1, <1>3, ReadyRows
    <3> QED
      BY <3>1
  <2>2. /\ last \in Seq(Steps)
        /\ lower = None => Joined(Undoing(M, x), rest) = Then(ToUndo(next), Then(TakeOut(next, won), last))
        /\ lower # None =>
             LET beyond == M[lower].next
                 end == IF beyond = None THEN last ELSE Then(TakeOut(beyond, lost), last)
             IN  /\ end \in Seq(Steps)
                 /\ Then(ToUndo(lower), Then(TakeOut(lower, lost), end)) \in Seq(Steps)
                 /\ Joined(Undoing(M, x), rest) =
                      Then(ToUndo(next), Then(TakeOut(next, won),
                        Then(ToUndo(lower), Then(TakeOut(lower, lost), end))))
    BY <1>1, <1>3, <2>1, OnUndoing
  <2>3. Carried(M, active, F)
    BY CarriedMore
  <2>4. rank[x] \in Nat /\ r \in Nat /\ rank[x] < r /\ r <= r
    BY <1>1
  <2>5. ASSUME NEW s \in Seq(Steps), g[k] = At(t, Then(ToUndo(next), Then(TakeOut(next, won), s)))
        PROVE  FirstTook(f, rank, C, active, g, E, t, k, x, next, won, s)
    <3>1. /\ Carried(t.matches, active, E \cup {x})
          /\ next \in {t.matches[x].next, t.matches[x].loserNext} \ {None}
          /\ x # GrandFinal(1) /\ won \in Contestants /\ Gives(t.matches, x, next, won)
      BY <1>3, <2>1, <2>3
    <3> HIDE DEF next, won
    <3> QED
      BY <2>5, <3>1, UndoneNext
  <2>6. CASE lower = None
    <3>1. PICK u, j :
            /\ Undid(f, rank, C, active, E \cup {x}, rank[x] + 1, t, k, u, j, 2)
            /\ g[j] = At(u, last)
            /\ Gone(u.matches, next, won)
      BY <2>2, <2>5, <2>6 DEF FirstTook
    <3>2. Backed(M, u.matches, rank, r)
      BY <3>1 DEF Undid
    <3>3. /\ x \in DOMAIN u.matches
          /\ u.matches[x].confirmed = M[x].confirmed
          /\ u.matches[x].next = M[x].next /\ u.matches[x].loserNext = M[x].loserNext
          /\ \A m, c : Gives(u.matches, x, m, c) <=> Gives(M, x, m, c)
      <4> HIDE DEF M, r
      <4> QED
        BY <1>1, <2>1, <2>4, <3>2, Unchanged
    <3>4. AllGone(u.matches, x)
      BY <2>1, <2>6, <3>1, <3>3 DEF AllGone
    <3>5. Nearly(f, rank, C, active, E, t, k, u, j, x)
      <4>1. 2 \in Nat /\ 5 \in Nat /\ 2 <= 5
        OBVIOUS
      <4> DEFINE a == 2
                 b == 5
      <4>2. a \in Nat /\ b \in Nat /\ a <= b /\ Undid(f, rank, C, active, F, r, t, k, u, j, a)
        BY <3>1
      <4> HIDE DEF F, r, a, b
      <4>3. Undid(f, rank, C, active, F, r, t, k, u, j, b)
        BY <4>2, UndidLess
      <4> QED
        BY <4>3 DEF Nearly, b, F, r
    <3> QED
      BY <1>1, <3>1, <3>3, <3>4, <3>5, ClearedAfter
  <2>7. CASE lower # None
    <3> DEFINE beyond == M[lower].next
               end == IF beyond = None THEN last ELSE Then(TakeOut(beyond, lost), last)
               then == Then(ToUndo(lower), Then(TakeOut(lower, lost), end))
    <3>1. end \in Seq(Steps) /\ then \in Seq(Steps)
          /\ g[k] = At(t, Then(ToUndo(next), Then(TakeOut(next, won), then)))
      BY <2>2, <2>7
    <3> HIDE DEF then
    <3>2. PICK u, j :
            /\ Undid(f, rank, C, active, E \cup {x}, rank[x] + 1, t, k, u, j, 2)
            /\ g[j] = At(u, then)
            /\ Gone(u.matches, next, won)
      BY <2>5, <3>1 DEF FirstTook
    <3>3. /\ Backed(M, u.matches, rank, r) /\ u \in Tournaments /\ j \in Nat
          /\ Flow(f, u.matches, rank) /\ Carried(u.matches, active, E \cup {x}) /\ Ready(u.matches, C)
      BY <3>2 DEF Undid
    <3>4. /\ x \in DOMAIN u.matches
          /\ u.matches[x].confirmed = M[x].confirmed
          /\ u.matches[x].next = M[x].next /\ u.matches[x].loserNext = M[x].loserNext
          /\ \A m, c : Gives(u.matches, x, m, c) <=> Gives(M, x, m, c)
      <4> HIDE DEF M, r
      <4> QED
        BY <1>1, <2>1, <2>4, <3>3, Unchanged
    <3>5. FirstTook(f, rank, C, active, g, E, u, j, x, lower, lost, end)
      <4>1. /\ u \in Tournaments /\ j \in Nat
            /\ Flow(f, u.matches, rank) /\ Carried(u.matches, active, E \cup {x}) /\ Ready(u.matches, C)
            /\ DOMAIN u.matches \subseteq D
            /\ x \in C \cap DOMAIN u.matches /\ u.matches[x].confirmed
            /\ lower \in {u.matches[x].next, u.matches[x].loserNext} \ {None} /\ x # GrandFinal(1)
            /\ lost \in Contestants /\ Gives(u.matches, x, lower, lost)
            /\ end \in Seq(Steps)
        BY <2>1, <2>7, <3>1, <3>3, <3>4 DEF Backed
      <4>2. g[j] = At(u, Then(ToUndo(lower), Then(TakeOut(lower, lost), end)))
        BY <3>2 DEF then
      <4> HIDE DEF lower, lost, end
      <4> QED
        BY <4>1, <4>2, UndoneNext
    <3> HIDE DEF end
    <3>6. PICK v, i :
            /\ Undid(f, rank, C, active, E \cup {x}, rank[x] + 1, u, j, v, i, 2)
            /\ g[i] = At(v, end)
            /\ Gone(v.matches, lower, lost)
            /\ lower \in DOMAIN v.matches
      BY <3>5 DEF FirstTook
    <3>7. Undid(f, rank, C, active, F, r, t, k, v, i, 4)
      <4> DEFINE a == 2
                 b == 4
      <4>1. /\ a \in Nat /\ b \in Nat /\ b = a + a
            /\ Undid(f, rank, C, active, F, r, t, k, u, j, a)
            /\ Undid(f, rank, C, active, F, r, u, j, v, i, a)
        BY <3>2, <3>6
      <4> HIDE DEF F, r, a, b
      <4>2. Undid(f, rank, C, active, F, r, t, k, v, i, b)
        BY <2>4, <4>1, UndidOn
      <4> QED
        BY <4>2 DEF b
    <3>8. /\ Backed(u.matches, v.matches, rank, r) /\ Backed(M, v.matches, rank, r)
          /\ v \in Tournaments /\ v.matches \in Brackets
          /\ Flow(f, v.matches, rank)
      BY <3>6, <3>7, TournamentForm DEF Undid
    <3>9. /\ x \in DOMAIN v.matches
          /\ v.matches[x].confirmed = M[x].confirmed
          /\ v.matches[x].next = M[x].next /\ v.matches[x].loserNext = M[x].loserNext
          /\ \A m, c : Gives(v.matches, x, m, c) <=> Gives(M, x, m, c)
      <4> HIDE DEF M, r
      <4> QED
        BY <1>1, <2>1, <2>4, <3>8, Unchanged
    <3>10. Gone(v.matches, next, won)
      <4> HIDE DEF next, won, r
      <4> QED
        BY <3>2, <3>8, GoneOn
    <3>11. \E w, l : Undid(f, rank, C, active, F, r, t, k, w, l, 5) /\ g[l] = At(w, last)
                     /\ Gone(w.matches, next, won) /\ Gone(w.matches, lower, lost)
      <4>1. CASE beyond = None
        <5> DEFINE a == 4
                   b == 5
        <5>1. /\ a \in Nat /\ b \in Nat /\ a <= b /\ Undid(f, rank, C, active, F, r, t, k, v, i, a)
          BY <3>7
        <5>2. g[i] = At(v, last)
          BY <3>6, <4>1 DEF end
        <5> HIDE DEF F, r, a, b, last
        <5>3. Undid(f, rank, C, active, F, r, t, k, v, i, b)
          BY <5>1, UndidLess
        <5> QED
          BY <3>6, <3>10, <5>2, <5>3 DEF b
      <4>2. CASE beyond # None
        <5>1. lower # GrandFinal(0) /\ v.matches[lower].next = beyond
          BY <1>1, <2>7, <3>6, <3>8 DEF Flow, Layout, Backed
        <5>2. beyond \in DOMAIN v.matches
          BY <3>6, <3>8, <4>2, <5>1, BracketParts
        <5>3. Gives(v.matches, x, lower, lost) /\ lost \notin Standing(v.matches, lower)
          BY <2>1, <2>7, <3>6, <3>9 DEF Gone
        <5>4. lost \notin Standing(v.matches, beyond)
          <6>1. lost \notin Standing(v.matches, v.matches[lower].next)
            <7>1. /\ v.matches \in Brackets /\ Flow(f, v.matches, rank) /\ f.mode # "RR"
                  /\ x \in DOMAIN v.matches /\ lower \in DOMAIN v.matches
                  /\ Gives(v.matches, x, lower, lost) /\ lost \notin Standing(v.matches, lower)
                  /\ v.matches[lower].next # None
              BY <2>1, <3>6, <3>8, <3>9, <4>2, <5>1, <5>3
            <7> HIDE DEF lower, lost
            <7> QED
              BY <7>1, NotBeyond
          <6> QED
            BY <5>1, <6>1
        <5>5. g[i] = At(v, Then(TakeOut(beyond, lost), last))
          BY <3>6, <4>2 DEF end
        <5>7. NoneTook(f, rank, C, active, g, F, r, t, k, v, last)
          <6>1. /\ r \in Nat /\ Undid(f, rank, C, active, F, r, t, k, v, i, 4)
                /\ beyond \in DOMAIN v.matches /\ lost \in Contestants
                /\ lost \notin Standing(v.matches, beyond) /\ last \in Seq(Steps)
                /\ g[i] = At(v, Then(TakeOut(beyond, lost), last))
            BY <2>1, <2>2, <2>4, <3>7, <5>2, <5>4, <5>5
          <6> HIDE DEF F, r, last, beyond, lost
          <6> QED
            BY <6>1, NoneTakenOut
        <5>6. \E w, l : Undid(f, rank, C, active, F, r, t, k, w, l, 5) /\ g[l] = At(w, last)
                        /\ Backed(v.matches, w.matches, rank, r)
          BY <5>7 DEF NoneTook
        <5> QED
          BY <3>6, <3>10, <5>6, GoneOn
      <4> QED
        BY <4>1, <4>2
    <3>12. PICK w, l : Undid(f, rank, C, active, F, r, t, k, w, l, 5) /\ g[l] = At(w, last)
                     /\ Gone(w.matches, next, won) /\ Gone(w.matches, lower, lost)
      BY <3>11
    <3>13. Backed(M, w.matches, rank, r)
      BY <3>12 DEF Undid
    <3>14. /\ x \in DOMAIN w.matches
           /\ w.matches[x].confirmed = M[x].confirmed
           /\ w.matches[x].next = M[x].next /\ w.matches[x].loserNext = M[x].loserNext
           /\ \A m, c : Gives(w.matches, x, m, c) <=> Gives(M, x, m, c)
      <4> HIDE DEF M, r
      <4> QED
        BY <1>1, <2>1, <2>4, <3>13, Unchanged
    <3>15. AllGone(w.matches, x)
      BY <2>1, <2>7, <3>12, <3>14 DEF AllGone
    <3>16. Nearly(f, rank, C, active, E, t, k, w, l, x)
      BY <3>12 DEF Nearly
    <3> QED
      BY <1>1, <3>12, <3>14, <3>15, <3>16, ClearedAfter
  <2> QED
    BY <2>6, <2>7
<1> QED
  BY <1>2, <1>3
\* Every match can be undone: those that are beyond all others first.
LEMMA UndoneAll ==
  ASSUME NEW f, NEW rank \in [Ids -> Nat], NEW C, NEW active, NEW D \in SUBSET Ids, IsFiniteSet(D),
         NEW g, Goes(f, g), NEW x \in D
  PROVE  CanUndo(f, rank, C, active, D, g, x)
<1> DEFINE Above(y) == {m \in D : rank[y] < rank[m]}
           S == {n \in Nat : \A y \in D : Cardinality(Above(y)) < n => CanUndo(f, rank, C, active, D, g, y)}
<1>1. \A y \in D : IsFiniteSet(Above(y)) /\ Cardinality(Above(y)) \in Nat
  BY FS_Subset, FS_CardinalityType
<1>2. ASSUME NEW y \in D, NEW m \in D, rank[y] < rank[m]
      PROVE  Cardinality(Above(m)) < Cardinality(Above(y))
  <2>1. /\ rank[y] \in Nat /\ rank[m] \in Nat
        /\ \A z \in D : rank[z] \in Nat
    OBVIOUS
  <2>2. Above(m) \subseteq Above(y)
    BY <1>2, <2>1
  <2>3. m \in Above(y) /\ m \notin Above(m)
    BY <1>2, <2>1
  <2> DEFINE a == Above(m)
             b == Above(y)
  <2>4. a \subseteq b /\ a # b /\ IsFiniteSet(b)
    BY <1>1, <2>2, <2>3
  <2> HIDE DEF a, b
  <2>5. Cardinality(a) <= Cardinality(b) /\ (Cardinality(a) = Cardinality(b) => a = b)
    BY <2>4, FS_Subset
  <2>6. Cardinality(a) \in Nat /\ Cardinality(b) \in Nat
    BY <1>1 DEF a, b
  <2>7. Cardinality(a) < Cardinality(b)
    BY <2>4, <2>5, <2>6
  <2> QED
    BY <2>7 DEF a, b
<1> HIDE DEF Above
<1>3. 0 \in S
  BY <1>1
<1>4. ASSUME NEW n \in Nat, n \in S PROVE n + 1 \in S
  <2>1. ASSUME NEW y \in D, Cardinality(Above(y)) < n + 1
        PROVE  CanUndo(f, rank, C, active, D, g, y)
    <3>1. ASSUME NEW m \in D \cap Ids, rank[y] < rank[m]
          PROVE  CanUndo(f, rank, C, active, D, g, m)
      <4>1. Cardinality(Above(m)) < Cardinality(Above(y))
        BY <1>2, <3>1
      <4>2. Cardinality(Above(m)) \in Nat /\ Cardinality(Above(y)) \in Nat
        BY <1>1
      <4>3. Cardinality(Above(m)) < n
        BY <2>1, <4>1, <4>2
      <4> QED
        BY <1>4, <4>3
    <3> QED
      BY <3>1, UndoneOne
  <2>2. n + 1 \in Nat
    OBVIOUS
  <2> QED
    BY <2>1, <2>2
<1>5. Nat \subseteq S
  <2>1. \A n \in Nat : n \in S => n + 1 \in S
    BY <1>4
  <2> HIDE DEF S
  <2> QED
    BY <1>3, <2>1, Induction
<1> DEFINE n == Cardinality(Above(x)) + 1
<1>6. n \in Nat /\ Cardinality(Above(x)) < n
  BY <1>1
<1>7. n \in S
  BY <1>5, <1>6
<1> QED
  BY <1>6, <1>7

\* Whoever is not affected by a correction had nothing to do with it.
LEMMA ReadyStart ==
  ASSUME tournament \in Tournaments, NEW f, NEW rank, Flow(f, tournament.matches, rank),
         NEW match \in Matches, Match(match).confirmed, Cardinality(Match(match).entries) >= 2,
         \A m \in Affected(tournament.matches, match) : ~PassedOn(m)
  PROVE  Ready(tournament.matches, {match} \cup Affected(tournament.matches, match))
<1> DEFINE M == tournament.matches
           affected == Affected(M, match)
           seen == Walked(M, match).seen
           C == {match} \cup affected
<1>1. M \in Brackets /\ match \in DOMAIN M /\ None \notin DOMAIN M
  BY TournamentForm, BracketParts DEF Matches
<1>2. /\ match \in seen
      /\ seen \subseteq DOMAIN M
      /\ \A x \in seen : x = match \/ M[x].confirmed => Passed(M, seen, x)
  BY <1>1, WalkedFollows
<1>3. affected = seen \ {match}
  BY DEF Affected
<1>4. \A m \in affected : ~PassedOn(m)
  OBVIOUS
<1>5. C = seen /\ M[match].confirmed
  BY <1>2, <1>3 DEF Match
<1> HIDE DEF seen, affected, C
<1>6. ASSUME NEW x \in seen, M[x].confirmed, NEW n \in {M[x].next, M[x].loserNext} \ {None}
      PROVE  n \in seen
  <2>1. ASSUME NEW y \in seen, ~M[y].confirmed, M[y].next = x PROVE FALSE
    <3>1. y \in affected
      BY <1>3, <1>5, <2>1
    <3>2. PassedOn(y)
      BY <1>1, <1>2, <1>6, <2>1 DEF PassedOn
    <3> QED
      BY <1>4, <3>1, <3>2
  <2> QED
    BY <1>2, <1>6, <2>1 DEF Passed
<1>7. ASSUME NEW x \in seen, M[x].confirmed, NEW n \in {M[x].next, M[x].loserNext} \ {None},
             ~M[n].confirmed
      PROVE  Calm(M, n)
  <2>1. n \in affected /\ n \in DOMAIN M /\ x \in DOMAIN M
    BY <1>2, <1>3, <1>5, <1>6, <1>7
  <2>2. ~PassedOn(n)
    BY <1>4, <2>1
  <2>3. CASE ~Quiet(M, n)
    BY <2>1, <2>3, CalmBehind DEF Flow
  <2>4. CASE Passing(M, n)
    <3>1. PICK e \in M[n].entries : M[n].entries = {e} /\ e.who \in Standing(M, M[n].next)
      BY <2>4 DEF Passing
    <3>2. Cardinality(M[n].entries) = 1
      BY <3>1, FS_Singleton
    <3>3. Entrants(M[n].entries) \subseteq Entrants(M[M[n].next].entries)
      BY <3>1 DEF Entrants, Standing
    <3>4. PassedOn(n)
      BY <2>4, <3>2, <3>3 DEF PassedOn, Passing
    <3> QED
      BY <2>2, <3>4
  <2>5. CASE M[n].entries = {}
    <3>1. x \in Feeders(M, n)
      BY <1>7, <2>1 DEF Feeders
    <3>2. M[n].next = None
      BY <1>7, <2>1, <2>2, <2>5, <3>1 DEF PassedOn
    <3>3. M[n].loserNext = None
      BY <2>1, <3>2 DEF Flow, Layout
    <3>4. \A y \in DOMAIN M : n \notin Feeders(M, y)
      BY <1>1, <3>2, <3>3 DEF Feeders
    <3>5. \A z \in DOMAIN M : Leads(M, n, z) => z = n
      BY <3>4, LeadsFirst
    <3> QED
      BY <1>7, <3>2, <3>5 DEF Calm, Passing
  <2> QED
    BY <1>7, <2>3, <2>4, <2>5 DEF Quiet
<1>8. ASSUME NEW x \in seen, M[x].confirmed, M[x].next # None, NEW e \in M[x].entries, M[x].entries = {e}
      PROVE  FALSE
  <2>1. Cardinality(M[x].entries) = 1
    BY <1>8, FS_Singleton
  <2>2. CASE x = match
    BY <2>1, <2>2 DEF Match
  <2>3. CASE x # match
    <3>1. x \in affected
      BY <1>3, <2>3
    <3>2. PassedOn(x)
      BY <1>8, <2>1 DEF PassedOn
    <3> QED
      BY <1>4, <3>1, <3>2
  <2> QED
    BY <2>2, <2>3
<1>9. Ready(M, seen)
  BY <1>6, <1>7, <1>8 DEF Ready
<1> QED
  BY <1>5, <1>9 DEF C, affected
\* What a retraction comes to.
LEMMA RetractedFlow ==
  ASSUME NEW f, NEW t \in Tournaments, NEW rank, Flow(f, t.matches, rank), NEW C, Ready(t.matches, C),
         NEW active, Carried(t.matches, active, {}),
         NEW match \in C \cap DOMAIN t.matches, t.matches[match].confirmed
  PROVE  LET N == Retracted(t, f, match).matches
         IN  Flow(f, N, rank) /\ Carried(N, active, {})
<1> DEFINE D == DOMAIN t.matches
           K == IF match = GrandFinal(1) THEN {match} ELSE D
           A == UndoneIn(t.matches, K)
           n == 6 * Cardinality(D)
<1>1. /\ D \in SUBSET Ids /\ IsFiniteSet(D) /\ Cardinality(D) \in Nat /\ match \in Ids
      /\ t.matches \in Brackets
  BY TournamentForm, BracketParts, FS_CardinalityType
<1>2. FirstUndo(t, match) \in A /\ \A u \in A : UndoOn(f, u) \in A
  <2>1. \A x \in DOMAIN t.matches :
          {t.matches[x].next, t.matches[x].loserNext} \subseteq DOMAIN t.matches \cup {None}
    BY <1>1, BracketParts
  <2>2. match = GrandFinal(1) => t.matches[match].next = None /\ t.matches[match].loserNext = None
    BY <1>1, BracketParts
  <2>3. Closed(t.matches, K) /\ match \in K
    BY <2>1, <2>2 DEF Closed
  <2> HIDE DEF K
  <2> QED
    BY <2>3, UndoneWithin
<1> HIDE DEF A
<1>3. PICK g \in [Nat -> A] :
        /\ g[0] = FirstUndo(t, match)
        /\ \A k \in Nat : g[k + 1] = UndoOn(f, g[k])
        /\ Retracted(t, f, match) = g[n].t
  BY <1>2, RetractedSteps
<1>4. Goes(f, g)
  BY <1>3 DEF Goes
<1>5. /\ g[0] = FirstUndo(t, match)
      /\ Retracted(t, f, match) = g[n].t
  BY <1>3
<1>6. CanUndo(f, rank, C, active, D, g, match)
  <2>1. rank \in [Ids -> Nat]
    BY DEF Flow, Layout
  <2> HIDE DEF D
  <2>2. match \in D
    BY DEF D
  <2> QED
    BY <1>1, <1>4, <2>1, <2>2, UndoneAll
<1>7. g[0] = At(t, Joined(Undoing(t.matches, match), <<>>)) /\ <<>> \in Seq(Steps)
  <2>1. Undoing(t.matches, match) \in Seq(Steps)
    <3>1. FirstUndo(t, match) \in [t : Tournaments, todo : Seq(Due(t.matches, K))]
      BY <1>2 DEF A, UndoneIn
    <3>2. Undoing(t.matches, match) \in Seq(Due(t.matches, K))
      BY <3>1 DEF FirstUndo
    <3>3. Due(t.matches, K) \subseteq Steps
      BY DEF Due
    <3> HIDE DEF K
    <3> DEFINE s == Undoing(t.matches, match)
               S == Due(t.matches, K)
    <3>4. s \in Seq(S) /\ S \subseteq Steps
      BY <3>2, <3>3
    <3> HIDE DEF s, S
    <3>5. s \in Seq(Steps)
      BY <3>4
    <3> QED
      BY <3>5 DEF s
  <2>2. Undoing(t.matches, match) \o <<>> = Undoing(t.matches, match) /\ <<>> \in Seq(Steps)
    <3> DEFINE s == Undoing(t.matches, match)
    <3>1. s \in Seq(Steps)
      BY <2>1
    <3> HIDE DEF s
    <3>2. s \o <<>> = s /\ <<>> \in Seq(Steps)
      BY <3>1
    <3> QED
      BY <3>2 DEF s
  <2> QED
    BY <1>5, <2>2 DEF FirstUndo, At, Joined
<1>8. CameTo(f, rank, C, active, g, {}, t, 0, match, <<>>)
  <2>1. {} \in SUBSET Ids /\ 0 \in Nat
    OBVIOUS
  <2> QED
    BY <1>6, <1>7, <2>1 DEF CanUndo
<1>9. PICK u, j : Undid(f, rank, C, active, {}, rank[match], t, 0, u, j, 0) /\ g[j] = At(u, <<>>)
  BY <1>8 DEF CameTo
<1>10. /\ u \in Tournaments /\ j \in Nat
       /\ Flow(f, u.matches, rank) /\ Carried(u.matches, active, {})
       /\ j + 6 * Cardinality(HavingResult(u.matches)) <= 0 + 0 + 6 * Cardinality(HavingResult(t.matches))
  BY <1>9 DEF Undid
<1>11. j <= n
  <2>1. /\ Cardinality(HavingResult(u.matches)) \in Nat
        /\ Cardinality(HavingResult(t.matches)) \in Nat
    BY <1>10, ResultsCounted
  <2>2. Cardinality(HavingResult(t.matches)) <= Cardinality(D)
    <3>1. HavingResult(t.matches) \in SUBSET D
      BY DEF HavingResult
    <3> HIDE DEF D
    <3> QED
      BY <1>1, <3>1, FS_Subset
  <2> DEFINE a == Cardinality(HavingResult(u.matches))
             b == Cardinality(HavingResult(t.matches))
             c == Cardinality(D)
  <2>3. a \in Nat /\ b \in Nat /\ c \in Nat /\ b <= c /\ j + 6 * a <= 6 * b
    BY <1>1, <1>10, <2>1, <2>2
  <2> HIDE DEF a, b, c
  <2>4. j <= 6 * c
    BY <1>10, <2>3
  <2> QED
    BY <2>4 DEF c
<1> DEFINE S == {i \in Nat : g[j + i] = At(u, <<>>)}
<1>12. 0 \in S
  BY <1>9, <1>10
<1>13. ASSUME NEW i \in Nat, i \in S PROVE i + 1 \in S
  <2>1. g[j + i] = At(u, <<>>) /\ j + i \in Nat /\ j + (i + 1) = (j + i) + 1 /\ i + 1 \in Nat
    BY <1>10, <1>13
  <2>2. g[(j + i) + 1] = UndoOn(f, g[j + i])
    BY <1>4, <2>1 DEF Goes
  <2>3. UndoOn(f, At(u, <<>>)) = At(u, <<>>)
    BY DEF UndoOn, At
  <2> QED
    BY <2>1, <2>2, <2>3
<1>14. Nat \subseteq S
  <2>1. \A i \in Nat : i \in S => i + 1 \in S
    BY <1>13
  <2> HIDE DEF S
  <2> QED
    BY <1>12, <2>1, Induction
<1>15. g[n] = At(u, <<>>)
  <2>1. n \in Nat
    BY <1>1
  <2> HIDE DEF n
  <2>2. n - j \in Nat /\ j + (n - j) = n
    BY <1>10, <1>11, <2>1
  <2>3. n - j \in S
    BY <1>14, <2>2
  <2> QED
    BY <2>2, <2>3
<1>16. Retracted(t, f, match) = u
  BY <1>5, <1>15 DEF At
<1> QED
  BY <1>10, <1>16
-----------------------------------------------------------------------------
(* The brackets that are made *)

\* How far up the matches of a bracket of p rounds are.
Rank(p) ==
  [x \in Ids |-> CASE x[1] \in {"MAIN", "WB"} -> x[2]
                   [] x[1] = "LB" -> x[2] + 1
                   [] x[1] = "P3" -> p + 1
                   [] x[1] = "GF" -> 2 * p + 1 + x[3]
                   [] x[1] = "RR" -> 0]

LEMMA RankForm ==
  ASSUME NEW p \in Nat
  PROVE  /\ Rank(p) \in [Ids -> Nat]
         /\ \A x \in Ids : /\ x[1] \in {"MAIN", "WB"} => Rank(p)[x] = x[2]
                           /\ x[1] = "LB" => Rank(p)[x] = x[2] + 1
                           /\ x[1] = "P3" => Rank(p)[x] = p + 1
                           /\ x[1] = "GF" => Rank(p)[x] = 2 * p + 1 + x[3]
                           /\ x[1] = "RR" => Rank(p)[x] = 0
         /\ Rank(p)[GrandFinal(0)] = 2 * p + 1
         /\ Rank(p)[GrandFinal(0)] < Rank(p)[GrandFinal(1)]
<1>1. ASSUME NEW x \in Ids
      PROVE  /\ Rank(p)[x] \in Nat
             /\ x[1] \in {"MAIN", "WB"} => Rank(p)[x] = x[2]
             /\ x[1] = "LB" => Rank(p)[x] = x[2] + 1
             /\ x[1] = "P3" => Rank(p)[x] = p + 1
             /\ x[1] = "GF" => Rank(p)[x] = 2 * p + 1 + x[3]
             /\ x[1] = "RR" => Rank(p)[x] = 0
  <2>1. x[1] \in {"MAIN", "WB", "LB", "GF", "P3", "RR"} /\ x[2] \in Nat /\ x[3] \in Nat
    BY DEF Ids
  <2> QED
    BY <2>1 DEF Rank
<1>2. Rank(p) \in [Ids -> Nat]
  <2> DEFINE Of(x) == CASE x[1] \in {"MAIN", "WB"} -> x[2]
                        [] x[1] = "LB" -> x[2] + 1
                        [] x[1] = "P3" -> p + 1
                        [] x[1] = "GF" -> 2 * p + 1 + x[3]
                        [] x[1] = "RR" -> 0
  <2>1. Rank(p) = [x \in Ids |-> Of(x)]
    BY DEF Rank
  <2> HIDE DEF Of
  <2>2. \A x \in Ids : Of(x) \in Nat
    BY <1>1, <2>1
  <2> QED
    BY <2>1, <2>2
<1>3. \A o \in {0, 1} : GrandFinal(o) \in Ids /\ GrandFinal(o)[1] = "GF" /\ GrandFinal(o)[3] = o
  BY DEF GrandFinal, Ids
<1>4. Rank(p)[GrandFinal(0)] = 2 * p + 1 + 0 /\ Rank(p)[GrandFinal(1)] = 2 * p + 1 + 1
  BY <1>1, <1>3
<1> QED
  BY <1>1, <1>2, <1>4

LEMMA AtMostTwo ==
  ASSUME NEW S, NEW u, NEW v, S \subseteq {u, v}
  PROVE  \A a, b, c \in S : a = b \/ b = c \/ a = c
OBVIOUS

\* The matches a match of the next round is for.
LEMMA HalfOf ==
  ASSUME NEW m \in Nat, NEW k \in Nat, k \div 2 = m
  PROVE  k \in {2 * m, 2 * m + 1}
OBVIOUS

LEMMA FreshPairs ==
  ASSUME NEW W, \A a, b, c \in W : a = b \/ b = c \/ a = c
  PROVE  /\ \A d, e \in Fresh(W) : d.who = e.who => d = e
         /\ \A c, d, e \in Fresh(W) : c = d \/ d = e \/ c = e
         /\ \A e \in Fresh(W) : e.score = None
         /\ \A w : W = {w} => Fresh(W) = {[who |-> w, copy |-> 1, score |-> None]}
<1>1. \A e \in Fresh(W) : e.who \in W /\ e = [who |-> e.who, copy |-> 1, score |-> None]
  BY DEF Fresh
<1>2. \A d, e \in Fresh(W) : d.who = e.who => d = e
  <2>1. TAKE d, e \in Fresh(W)
  <2>2. d = [who |-> d.who, copy |-> 1, score |-> None] /\ e = [who |-> e.who, copy |-> 1, score |-> None]
    BY <1>1
  <2> QED
    BY <2>2
<1>3. \A c, d, e \in Fresh(W) : c = d \/ d = e \/ c = e
  BY <1>1, <1>2
<1>4. \A e \in Fresh(W) : e.score = None
  <2>1. TAKE e \in Fresh(W)
  <2>2. e = [who |-> e.who, copy |-> 1, score |-> None]
    BY <1>1
  <2> QED
    BY <2>2
<1>5. \A w : W = {w} => Fresh(W) = {[who |-> w, copy |-> 1, score |-> None]}
  BY DEF Fresh
<1> QED
  BY <1>2, <1>3, <1>4, <1>5
\* One or two.
Few(W) == \A a, b, c \in W : a = b \/ b = c \/ a = c

\* Whom the draw places in a match of the first round, and advances at once.
LEMMA StartersForm ==
  ASSUME NEW S, NEW list \in Seq(S), Len(list) >= 2
  PROVE  LET p == Rounds(list)
         IN  /\ \A m \in 0..(Pow2[p - 1] - 1) :
                  /\ Few(Placed(list, m))
                  /\ Alone(list, m) <=> \E w : Placed(list, m) = {w}
             /\ p >= 2 => \A m \in 0..(Pow2[p - 2] - 1) :
                  /\ Few(Starters(list, 1, m))
                  /\ \A c \in Starters(list, 1, m) : \E k \in {2 * m, 2 * m + 1} :
                       k \in 0..(Pow2[p - 1] - 1) /\ Alone(list, k) /\ c \in Placed(list, k)
<1> DEFINE p == Rounds(list)
<1>1. p \in Nat \ {0}
  BY RoundsType
<1>2. ASSUME NEW m \in 0..(Pow2[p - 1] - 1)
      PROVE  /\ Few(Placed(list, m))
             /\ Alone(list, m) <=> \E w : Placed(list, m) = {w}
  <2> DEFINE low == SeedOrder[p - 1][m + 1]
             high == Pow2[p] - 1 - low
             W == Placed(list, m)
  <2>1. W = {list[s + 1] : s \in {x \in {low, high} : x < Len(list)}}
    BY <1>2, PlacedPair
  <2> HIDE DEF low, high, W
  <2>2. W \subseteq {list[low + 1], list[high + 1]}
    BY <2>1
  <2>3. Few(W)
    BY <2>2, AtMostTwo DEF Few
  <2>4. IsFiniteSet(W)
    <3>1. IsFiniteSet({list[low + 1], list[high + 1]})
      <4>1. IsFiniteSet({list[low + 1]}) /\ IsFiniteSet({list[high + 1]})
        BY FS_Singleton
      <4>2. {list[low + 1], list[high + 1]} = {list[low + 1]} \cup {list[high + 1]}
        OBVIOUS
      <4> QED
        BY <4>1, <4>2, FS_Union
    <3> QED
      BY <2>2, <3>1, FS_Subset
  <2>5. Cardinality(W) = 1 <=> \E w : W = {w}
    BY <2>4, FS_Singleton
  <2> QED
    BY <2>3, <2>5 DEF W, Alone
<1>3. ASSUME p >= 2, NEW m \in 0..(Pow2[p - 2] - 1)
      PROVE  /\ Few(Starters(list, 1, m))
             /\ \A c \in Starters(list, 1, m) : \E k \in {2 * m, 2 * m + 1} :
                  k \in 0..(Pow2[p - 1] - 1) /\ Alone(list, k) /\ c \in Placed(list, k)
  <2>1. Pow2[p - 1] = 2 * Pow2[p - 2] /\ Pow2[p - 2] \in Nat
    <3> DEFINE q == p - 1
    <3>1. q \in Nat \ {0} /\ q - 1 \in Nat /\ p - 2 = q - 1
      BY <1>1, <1>3
    <3> HIDE DEF q, p
    <3>2. Pow2[q] = 2 * Pow2[q - 1] /\ Pow2[q - 1] \in Nat
      BY <3>1, Pow2Grows, Pow2Type
    <3> QED
      BY <3>1, <3>2 DEF q
  <2> HIDE DEF p
  <2>2. \A k \in {2 * m, 2 * m + 1} : k \in 0..(Pow2[p - 1] - 1)
    BY <1>3, <2>1
  <2>3. Starters(list, 1, m) = UNION {Placed(list, k) : k \in {x \in {2 * m, 2 * m + 1} : Alone(list, x)}}
    BY DEF Starters
  <2>4. \A c \in Starters(list, 1, m) : \E k \in {2 * m, 2 * m + 1} :
          k \in 0..(Pow2[p - 1] - 1) /\ Alone(list, k) /\ c \in Placed(list, k)
    BY <2>2, <2>3
  <2>5. Few(Starters(list, 1, m))
    <3> DEFINE u == CHOOSE w : Placed(list, 2 * m) = {w}
               v == CHOOSE w : Placed(list, 2 * m + 1) = {w}
    <3>1. \A c \in Starters(list, 1, m) : c = u \/ c = v
      <4>1. \A k \in {2 * m, 2 * m + 1} : Alone(list, k) => \E w : Placed(list, k) = {w}
        BY <1>2, <2>2 DEF p
      <4>2. Alone(list, 2 * m) => Placed(list, 2 * m) = {u}
        BY <4>1
      <4>3. Alone(list, 2 * m + 1) => Placed(list, 2 * m + 1) = {v}
        BY <4>1
      <4> HIDE DEF u, v
      <4> QED
        BY <2>4, <4>2, <4>3
    <3> HIDE DEF u, v
    <3>2. Starters(list, 1, m) \subseteq {u, v}
      BY <3>1
    <3> QED
      BY <3>2, AtMostTwo DEF Few
  <2> QED
    BY <2>4, <2>5
<1> QED
  BY <1>2, <1>3
\* The contestants of list are placed in the first round of the bracket,
\* and those who are alone there in the second; nobody else is anywhere.
Opening(M, list, bracket) ==
  LET p == Rounds(list)
      tree == Tree(bracket, p)
  IN  /\ tree \subseteq DOMAIN M
      /\ \A x \in DOMAIN M :
           /\ M[x].entries = Fresh(IF x \in tree THEN Starters(list, x[2], x[3]) ELSE {})
           /\ M[x].confirmed = (x \in tree /\ x[2] = 0 /\ p > 1 /\ Alone(list, x[3]))
           /\ x \in Starting => x \in tree
      /\ \A x \in tree : IF x[2] < p - 1 THEN M[x].next = <<bracket, x[2] + 1, x[3] \div 2>>
                         ELSE M[x].next \notin tree

LEMMA OpeningFlow ==
  ASSUME NEW S, NEW list \in Seq(S), Len(list) >= 2, Injective(list), NEW bracket \in {"MAIN", "WB"},
         NEW M \in Brackets, Opening(M, list, bracket), LinksUp(M), GrandFinal(1) \notin DOMAIN M,
         NEW f, NEW rank, Layout(f, M, rank), NEW active
  PROVE  Flow(f, M, rank) /\ Carried(M, active, {})
<1> DEFINE p == Rounds(list)
           tree == Tree(bracket, p)
           Here(x) == IF x \in tree THEN Starters(list, x[2], x[3]) ELSE {}
           Row1(w) == [who |-> w, copy |-> 1, score |-> None]
<1>1. p \in Nat \ {0}
  BY RoundsType
<1>2. /\ tree \subseteq DOMAIN M
      /\ \A x \in DOMAIN M :
           /\ M[x].entries = Fresh(Here(x))
           /\ M[x].confirmed = (x \in tree /\ x[2] = 0 /\ p > 1 /\ Alone(list, x[3]))
           /\ x \in Starting => x \in tree
      /\ \A x \in tree : IF x[2] < p - 1 THEN M[x].next = <<bracket, x[2] + 1, x[3] \div 2>>
                         ELSE M[x].next \notin tree
  BY DEF Opening
<1>3. /\ \A r, m : <<bracket, r, m>> \in tree <=> r \in 0..(p - 1) /\ m \in 0..(Pow2[p - 1 - r] - 1)
      /\ \A x \in tree : /\ x = <<bracket, x[2], x[3]>>
                         /\ x[2] \in 0..(p - 1)
                         /\ x[3] \in 0..(Pow2[p - 1 - x[2]] - 1)
  <2> HIDE DEF p
  <2> QED
    BY <1>1, TreeForm
<1>4. /\ \A m \in 0..(Pow2[p - 1] - 1) :
           /\ Few(Placed(list, m))
           /\ Alone(list, m) <=> \E w : Placed(list, m) = {w}
      /\ p >= 2 => \A m \in 0..(Pow2[p - 2] - 1) :
           /\ Few(Starters(list, 1, m))
           /\ \A c \in Starters(list, 1, m) : \E k \in {2 * m, 2 * m + 1} :
                k \in 0..(Pow2[p - 1] - 1) /\ Alone(list, k) /\ c \in Placed(list, k)
  BY StartersForm
<1>5. /\ \A m : Starters(list, 0, m) = Placed(list, m)
      /\ \A m : Starters(list, 1, m) = UNION {Placed(list, k) : k \in {x \in {2 * m, 2 * m + 1} : Alone(list, x)}}
      /\ \A r, m : r # 0 /\ r # 1 => Starters(list, r, m) = {}
  BY DEF Starters
<1>6. /\ \A m \in 0..(Pow2[p - 1] - 1) : \A o \in 0..(Pow2[p - 1] - 1) :
           \A c \in Placed(list, m) \cap Placed(list, o) : m = o
  <2>1. ASSUME NEW m \in 0..(Pow2[p - 1] - 1), NEW o \in 0..(Pow2[p - 1] - 1),
               NEW c \in Placed(list, m) \cap Placed(list, o)
        PROVE  m = o
    <3> DEFINE s == {i \in {SeedOrder[Rounds(list)][2 * m + k] : k \in {1, 2}} : i < Len(list)}
    <3>1. \E i \in s : c = list[i + 1]
      BY DEF Placed
    <3>2. \E k \in 1..Len(list) : c = list[k]
      <4> DEFINE low == SeedOrder[p - 1][m + 1]
                 high == Pow2[p] - 1 - low
      <4>1. /\ low \in 0..(Pow2[p - 1] - 1) /\ low < Len(list) /\ high \in Nat
            /\ Placed(list, m) = {list[i + 1] : i \in {x \in {low, high} : x < Len(list)}}
        BY PlacedPair
      <4>2. Len(list) \in Nat /\ Pow2[p - 1] \in Nat
        <5>1. p - 1 \in Nat
          BY <1>1
        <5>2. Len(list) \in Nat
          BY Z3
        <5> DEFINE q == p - 1
        <5> HIDE DEF p, q
        <5>3. Pow2[q] \in Nat
          BY <5>1, Pow2Type DEF q
        <5> QED
          BY <5>2, <5>3 DEF q
      <4> HIDE DEF low, high, p
      <4>3. \A i \in {x \in {low, high} : x < Len(list)} : i + 1 \in 1..Len(list)
        BY <4>1, <4>2
      <4> QED
        BY <4>1, <4>3
    <3>3. PICK k \in 1..Len(list) : c = list[k]
      BY <3>2
    <3> QED
      BY <3>3, PlacedOnce
  <2> QED
    BY <2>1
<1>7. None \notin DOMAIN M /\ DOMAIN M \subseteq Ids
  BY BracketParts
<1> HIDE DEF p, tree, Here
<1>8. \A x \in DOMAIN M : Standing(M, x) = Here(x)
  BY <1>2, FreshEntrants DEF Standing
<1>9. \A x \in tree : x[2] = 0 => x[3] \in 0..(Pow2[p - 1] - 1) /\ x \in Starting /\ Here(x) = Placed(list, x[3])
  <2>1. TAKE x \in tree
  <2>2. ASSUME x[2] = 0 PROVE x[3] \in 0..(Pow2[p - 1] - 1) /\ x = <<bracket, 0, x[3]>>
    <3>1. p - 1 - 0 = p - 1
      BY <1>1
    <3> QED
      BY <1>3, <2>2, <3>1
  <2>3. Pow2[p - 1] \in Nat
    <3>1. p - 1 \in Nat
      BY <1>1
    <3> QED
      BY <3>1, Pow2Type
  <2>4. ASSUME x[2] = 0 PROVE x \in Starting
    BY <2>2, <2>3, <2>4 DEF Starting
  <2> QED
    BY <1>5, <2>2, <2>4 DEF Here
<1>10. \A x \in tree : x[2] = 1 =>
         p >= 2 /\ x[3] \in 0..(Pow2[p - 2] - 1) /\ Here(x) = Starters(list, 1, x[3])
  <2>1. TAKE x \in tree
  <2>2. ASSUME x[2] = 1 PROVE p >= 2 /\ x[3] \in 0..(Pow2[p - 2] - 1)
    <3>1. 1 \in 0..(p - 1) /\ p - 1 - 1 = p - 2
      BY <1>1, <1>3, <2>2
    <3> QED
      BY <1>1, <1>3, <2>2, <3>1
  <2> QED
    BY <2>2 DEF Here
<1>11. \A x \in DOMAIN M : x \notin tree \/ (x[2] # 0 /\ x[2] # 1) => Here(x) = {}
  BY <1>5 DEF Here
<1>12. \A x \in DOMAIN M : Few(Here(x))
  <2>1. TAKE x \in DOMAIN M
  <2>2. CASE x \in tree /\ x[2] = 0
    BY <1>4, <1>9, <2>2
  <2>3. CASE x \in tree /\ x[2] = 1
    BY <1>4, <1>10, <2>3
  <2>4. CASE x \notin tree \/ (x[2] # 0 /\ x[2] # 1)
    BY <1>11, <2>4 DEF Few
  <2> QED
    BY <2>2, <2>3, <2>4
<1>13. \A x \in DOMAIN M :
         /\ \A d, e \in M[x].entries : d.who = e.who => d = e
         /\ \A c, d, e \in M[x].entries : c = d \/ d = e \/ c = e
         /\ \A e \in M[x].entries : e.score = None
         /\ \A w : Here(x) = {w} => M[x].entries = {Row1(w)}
  <2>1. TAKE x \in DOMAIN M
  <2> DEFINE W == Here(x)
  <2>2. M[x].entries = Fresh(W) /\ \A a, b, c \in W : a = b \/ b = c \/ a = c
    BY <1>2, <1>12 DEF Few
  <2> HIDE DEF W
  <2>3. /\ \A d, e \in Fresh(W) : d.who = e.who => d = e
        /\ \A c, d, e \in Fresh(W) : c = d \/ d = e \/ c = e
        /\ \A e \in Fresh(W) : e.score = None
        /\ \A w : W = {w} => Fresh(W) = {Row1(w)}
    BY <2>2, FreshPairs
  <2> QED
    BY <2>2, <2>3 DEF W
<1>14. Pairs(M)
  BY <1>13 DEF Pairs
\* Walkovers, and where those who are alone in them stand.
<1>15. ASSUME NEW x \in tree, x[2] = 0, p > 1, Alone(list, x[3])
       PROVE  \E w : /\ M[x].entries = {Row1(w)} /\ Here(x) = {w}
                     /\ M[x].next = <<bracket, 1, x[3] \div 2>>
                     /\ M[x].next \in tree /\ w \in Here(M[x].next)
  <2>1. x[3] \in 0..(Pow2[p - 1] - 1) /\ Here(x) = Placed(list, x[3])
    BY <1>9, <1>15
  <2>2. PICK w : Placed(list, x[3]) = {w}
    BY <1>4, <1>15, <2>1
  <2>3. M[x].entries = {Row1(w)}
    BY <1>2, <1>13, <2>1, <2>2
  <2>4. M[x].next = <<bracket, 1, x[3] \div 2>>
    BY <1>1, <1>2, <1>15
  <2> DEFINE r == 0
             m == x[3]
  <2>5. r \in 0..(p - 1) /\ r < p - 1 /\ m \in 0..(Pow2[p - 1 - r] - 1)
    BY <1>1, <1>3, <1>15
  <2>6. r + 1 \in 0..(p - 1) /\ m \div 2 \in 0..(Pow2[p - 1 - (r + 1)] - 1)
    <3> HIDE DEF r, m
    <3> QED
      BY <1>1, <2>5, NextRound
  <2>7. <<bracket, 1, m \div 2>> \in tree
    BY <1>3, <2>6
  <2>8. m \in {2 * (m \div 2), 2 * (m \div 2) + 1}
    <3>1. m \in Nat
      BY <2>1
    <3> HIDE DEF m
    <3> QED
      BY <3>1
  <2>9. w \in Starters(list, 1, m \div 2)
    BY <1>5, <1>15, <2>2, <2>8
  <2>10. w \in Here(<<bracket, 1, m \div 2>>)
    BY <2>7, <2>9 DEF Here
  <2> QED
    BY <2>1, <2>2, <2>3, <2>4, <2>7, <2>10
<1>16. Earned(M)
  <2> SUFFICES ASSUME NEW m \in DOMAIN M \ Starting, NEW c \in Standing(M, m)
               PROVE  \E x \in DOMAIN M : Gives(M, x, m, c)
    BY DEF Earned
  <2>1. m \in tree /\ m[2] = 1
    BY <1>8, <1>9, <1>11
  <2>2. PICK k \in {2 * m[3], 2 * m[3] + 1} :
          k \in 0..(Pow2[p - 1] - 1) /\ Alone(list, k) /\ c \in Placed(list, k)
    BY <1>4, <1>8, <1>10, <2>1
  <2> DEFINE x == <<bracket, 0, k>>
  <2>3. x \in tree /\ x[2] = 0 /\ x[3] = k /\ p > 1
    <3>1. 0 \in 0..(p - 1) /\ p - 1 - 0 = p - 1 /\ p > 1
      BY <1>1, <1>10, <2>1
    <3> QED
      BY <1>3, <2>2, <3>1
  <2> HIDE DEF x
  <2>4. PICK w : /\ M[x].entries = {Row1(w)} /\ Here(x) = {w}
                 /\ M[x].next = <<bracket, 1, x[3] \div 2>>
    BY <1>15, <2>2, <2>3
  <2>5. c = w
    BY <1>9, <2>2, <2>3, <2>4
  <2>6. m = <<bracket, 1, m[3]>> /\ m[3] \in Nat
    <3>1. m[3] \in 0..(Pow2[p - 2] - 1)
      BY <1>10, <2>1
    <3> QED
      BY <1>3, <2>1, <3>1
  <2>7. k \div 2 = m[3]
    <3> DEFINE i == m[3]
    <3>1. i \in Nat /\ k \in {2 * i, 2 * i + 1}
      BY <2>2, <2>6
    <3> HIDE DEF i
    <3>2. k \div 2 = i
      BY <3>1
    <3> QED
      BY <3>2 DEF i
  <2>8. M[x].next = m
    BY <2>3, <2>4, <2>6, <2>7
  <2>9. Row1(w) \in M[x].entries /\ Row1(w).who = c
    BY <2>4, <2>5
  <2>10. x \in DOMAIN M
    BY <1>2, <2>3
  <2> HIDE DEF Row1
  <2> QED
    BY <2>4, <2>8, <2>9, <2>10 DEF Gives
<1>17. StartOnce(f, M)
  <2>1. ASSUME NEW x \in DOMAIN M \cap Starting, NEW y \in DOMAIN M \cap Starting,
               NEW c \in Standing(M, x) \cap Standing(M, y)
        PROVE  x = y
    <3>1. ASSUME NEW z \in DOMAIN M \cap Starting PROVE z \in tree /\ z[2] = 0
      <4>1. z \in tree
        BY <1>2
      <4>2. z = <<bracket, z[2], z[3]>>
        BY <1>3, <4>1
      <4>3. bracket # "RR"
        OBVIOUS
      <4> QED
        BY <4>1, <4>2, <4>3, NotStarting
    <3>2. x[3] = y[3]
      BY <1>6, <1>8, <1>9, <2>1, <3>1
    <3> QED
      BY <1>3, <3>1, <3>2
  <2> QED
    BY <2>1 DEF StartOnce
<1>18. \A x \in DOMAIN M : M[x].confirmed =>
         \E w : /\ M[x].entries = {Row1(w)}
                /\ M[x].next \in DOMAIN M /\ w \in Standing(M, M[x].next)
  <2>1. ASSUME NEW x \in DOMAIN M, M[x].confirmed
        PROVE  \E w : /\ M[x].entries = {Row1(w)}
                      /\ M[x].next \in DOMAIN M /\ w \in Standing(M, M[x].next)
    <3>1. x \in tree /\ x[2] = 0 /\ p > 1 /\ Alone(list, x[3])
      BY <1>2, <2>1
    <3>2. PICK w : M[x].entries = {Row1(w)} /\ M[x].next \in tree /\ w \in Here(M[x].next)
      BY <1>15, <3>1
    <3> QED
      BY <1>2, <1>8, <3>2
  <2> QED
    BY <2>1
<1>19. Scores(f, M)
  <2>1. ASSUME NEW x \in DOMAIN M PROVE Decided(M[x])
    <3>1. CASE ~M[x].confirmed
      BY <1>13, <3>1 DEF Decided
    <3>2. CASE M[x].confirmed
      BY <1>13, <1>18, <3>2 DEF Decided
    <3> QED
      BY <3>1, <3>2
  <2> QED
    BY <2>1 DEF Scores
<1>20. ASSUME NEW x \in DOMAIN M, Passing(M, x) PROVE FALSE
  <2>1. PICK e \in M[x].entries : M[x].entries = {e} /\ e.who \in Standing(M, M[x].next)
    BY <1>20 DEF Passing
  <2>2. M[x].next # None /\ ~M[x].confirmed
    BY <1>20 DEF Passing
  <2>3. M[x].next \in DOMAIN M
    BY <2>2, BracketParts
  <2>4. Here(x) = {e.who} /\ e.who \in Here(M[x].next)
    <3>1. Standing(M, x) = {e.who}
      BY <2>1 DEF Standing, Entrants
    <3> QED
      BY <1>8, <2>1, <2>3, <3>1
  <2>5. x \in tree /\ M[x].next \in tree
    BY <1>11, <2>3, <2>4
  <2>6. M[x].next[2] = x[2] + 1 /\ x[2] \in 0..(p - 1) /\ x[2] < p - 1
    BY <1>2, <1>3, <2>5
  <2>7. x[2] = 0
    <3>1. M[x].next[2] \in {0, 1}
      BY <1>11, <2>3, <2>4
    <3> QED
      BY <2>6, <3>1
  <2>8. Alone(list, x[3]) /\ p > 1
    <3>1. x[3] \in 0..(Pow2[p - 1] - 1) /\ Here(x) = Placed(list, x[3])
      BY <1>9, <2>5, <2>7
    <3>2. Alone(list, x[3])
      BY <1>4, <2>4, <3>1
    <3>3. p > 1
      BY <1>1, <2>6, <2>7
    <3> QED
      BY <3>2, <3>3
  <2> QED
    BY <1>2, <2>2, <2>5, <2>7, <2>8
<1>21. Ordered(M)
  <2>1. ASSUME NEW x \in DOMAIN M, M[x].confirmed PROVE Settled(M, x)
    <3>1. x \in Starting
      BY <1>2, <1>9, <2>1
    <3>2. Feeders(M, x) = {}
      BY <3>1 DEF LinksUp, Feeders
    <3>3. \A z \in DOMAIN M : Leads(M, z, x) => z = x
      BY <3>2, LeadsLast
    <3> QED
      BY <2>1, <3>3 DEF Settled, Quiet
  <2> QED
    BY <1>20, <2>1 DEF Ordered
<1>22. Flow(f, M, rank)
  BY <1>14, <1>16, <1>17, <1>19, <1>21 DEF Flow
<1>23. Carried(M, active, {})
  <2> SUFFICES ASSUME NEW x \in DOMAIN M, NEW k \in DOMAIN M, NEW c, M[x].confirmed, Gives(M, x, k, c)
               PROVE  c \in Standing(M, k)
    BY DEF Carried
  <2>1. PICK w : /\ M[x].entries = {Row1(w)}
                 /\ M[x].next \in DOMAIN M /\ w \in Standing(M, M[x].next)
    BY <1>18
  <2>2. c = w /\ None # 0
    BY <2>1, NoneApart DEF Gives
  <2>3. M[x].next = k
    BY <2>1, <2>2 DEF Gives
  <2> QED
    BY <2>1, <2>2, <2>3
<1> QED
  BY <1>22, <1>23
LEMMA TreeFeeds ==
  ASSUME NEW bracket \in {"MAIN", "WB"}, NEW p \in Nat \ {0}, NEW x \in Tree(bracket, p),
         NEW y \in Tree(bracket, p), x = <<bracket, y[2] + 1, y[3] \div 2>>
  PROVE  y \in {<<bracket, x[2] - 1, 2 * x[3]>>, <<bracket, x[2] - 1, 2 * x[3] + 1>>}
<1> DEFINE a == y[2]
           k == y[3]
           m == x[3]
<1>1. y = <<bracket, a, k>> /\ a \in Nat
  BY TreeForm
<1>2. y \in Ids /\ x \in Ids
  BY TreeForm DEF Plans
<1>3. k \in Nat /\ m \in Nat
  BY <1>2 DEF Ids
<1>4. x[2] = a + 1 /\ k \div 2 = m
  OBVIOUS
<1> HIDE DEF a, k, m
<1>5. k \in {2 * m, 2 * m + 1}
  BY <1>3, <1>4, HalfOf
<1>6. x[2] - 1 = a
  BY <1>1, <1>4
<1>7. y \in {<<bracket, x[2] - 1, 2 * m>>, <<bracket, x[2] - 1, 2 * m + 1>>}
  BY <1>1, <1>5, <1>6
<1> QED
  BY <1>7 DEF m

\* The first round is what starts.
LEMMA TreeStarting ==
  ASSUME NEW bracket \in {"MAIN", "WB"}, NEW p \in Nat \ {0}, NEW x \in Tree(bracket, p)
  PROVE  /\ x \in Ids /\ x[1] = bracket /\ x[2] \in 0..(p - 1)
         /\ Rank(p)[x] = x[2]
         /\ x \in Starting <=> x[2] = 0
<1>1. x = <<bracket, x[2], x[3]>> /\ x[2] \in 0..(p - 1)
  BY TreeForm
<1>2. x \in Ids
  BY TreeForm DEF Plans
<1>3. x[3] \in Nat
  BY <1>2 DEF Ids
<1>4. x[1] = bracket
  BY <1>1
<1>5. Rank(p)[x] = x[2]
  <2>1. p \in Nat
    OBVIOUS
  <2> QED
    BY <1>2, <1>4, <2>1, RankForm
<1>6. x[2] = 0 => x \in Starting
  BY <1>1, <1>3 DEF Starting
<1>7. x[2] # 0 => x \notin Starting
  <2>1. bracket # "RR"
    OBVIOUS
  <2> QED
    BY <1>1, <2>1, NotStarting
<1> QED
  BY <1>1, <1>2, <1>4, <1>5, <1>6, <1>7

LEMMA SingleEliminationLayout ==
  ASSUME NEW list \in Seq(Contestants), Len(list) >= 2, NEW f, f.mode = "SE"
  PROVE  Layout(f, SingleElimination(list), Rank(Rounds(list)))
<1> DEFINE p == Rounds(list)
           M == SingleElimination(list)
           tree == Tree("MAIN", p)
           rank == Rank(p)
           u == <<"MAIN", p - 2, 0>>
           v == <<"MAIN", p - 2, 1>>
<1>1. p \in Nat \ {0} /\ p \in Nat
  BY RoundsType
<1>2. /\ DOMAIN M = tree \cup (IF p >= 2 THEN {ThirdPlace} ELSE {})
      /\ \A x \in tree :
           /\ M[x].next = IF x[2] < p - 1 THEN <<"MAIN", x[2] + 1, x[3] \div 2>> ELSE None
           /\ M[x].loserNext = IF p >= 2 /\ x[2] = p - 2 THEN ThirdPlace ELSE None
      /\ p >= 2 => M[ThirdPlace] = Made(None, None, FALSE, {})
  BY SingleEliminationForm
<1>3. \A x \in tree : /\ x \in Ids /\ x[1] = "MAIN" /\ x[2] \in 0..(p - 1)
                      /\ rank[x] = x[2]
                      /\ x \in Starting <=> x[2] = 0
  <2> HIDE DEF p
  <2> QED
    BY <1>1, TreeStarting
<1>4. /\ \A r, m : <<"MAIN", r, m>> \in tree <=> r \in 0..(p - 1) /\ m \in 0..(Pow2[p - 1 - r] - 1)
      /\ \A x \in tree : /\ x = <<"MAIN", x[2], x[3]>>
                         /\ x[3] \in 0..(Pow2[p - 1 - x[2]] - 1)
  <2> HIDE DEF p
  <2> QED
    BY <1>1, TreeForm
<1>5. ThirdPlace \in Ids /\ ThirdPlace[1] = "P3" /\ ThirdPlace \notin Starting /\ None \notin Ids
  BY NotStarting, GrandFinals DEF ThirdPlace, Ids
<1>6. rank \in [Ids -> Nat] /\ rank[GrandFinal(0)] < rank[GrandFinal(1)] /\ rank[ThirdPlace] = p + 1
  <2> HIDE DEF p
  <2> QED
    BY <1>1, <1>5, RankForm
<1>7. p >= 2 => M[ThirdPlace].next = None /\ M[ThirdPlace].loserNext = None
  <2>1. Made(None, None, FALSE, {}).next = None /\ Made(None, None, FALSE, {}).loserNext = None
    BY DEF Made
  <2> HIDE DEF M, p
  <2> QED
    BY <1>2, <2>1
<1>8. ASSUME NEW x \in tree, x[2] < p - 1
      PROVE  /\ <<"MAIN", x[2] + 1, x[3] \div 2>> \in tree
             /\ rank[<<"MAIN", x[2] + 1, x[3] \div 2>>] = x[2] + 1
  <2> DEFINE r == x[2]
             m == x[3]
  <2>1. r \in 0..(p - 1) /\ r < p - 1 /\ m \in 0..(Pow2[p - 1 - r] - 1)
    BY <1>3, <1>4, <1>8
  <2>2. r + 1 \in 0..(p - 1) /\ m \div 2 \in 0..(Pow2[p - 1 - (r + 1)] - 1)
    <3> HIDE DEF r, m, p
    <3> QED
      BY <1>1, <2>1, NextRound
  <2> HIDE DEF r, m, p, rank, tree
  <2>3. <<"MAIN", r + 1, m \div 2>> \in tree
    BY <1>4, <2>2
  <2>4. <<"MAIN", r + 1, m \div 2>>[2] = r + 1
    OBVIOUS
  <2>5. rank[<<"MAIN", r + 1, m \div 2>>] = r + 1
    BY <1>3, <2>3, <2>4
  <2> QED
    BY <2>3, <2>5 DEF r, m
<1> HIDE DEF p, M, tree, rank
<1>9. ASSUME NEW x \in DOMAIN M, x \notin tree
      PROVE  p >= 2 /\ x = ThirdPlace
  BY <1>2, <1>9
<1>10. GrandFinal(0)[1] = "GF"
  BY DEF GrandFinal
<1>11. ASSUME NEW x \in tree
       PROVE  /\ M[x].next # None => rank[x] < rank[M[x].next]
              /\ M[x].loserNext # None => /\ rank[x] < rank[M[x].loserNext]
                                          /\ M[x].next # None
                                          /\ M[x].loserNext # M[x].next
                                          /\ M[x].loserNext # GrandFinal(0)
                                          /\ x # GrandFinal(0)
              /\ x \in Starting <=> rank[x] = 0
  <2>1. x[2] \in 0..(p - 1) /\ rank[x] = x[2] /\ x[1] = "MAIN"
    BY <1>3
  <2>2. CASE x[2] < p - 1
    <3> DEFINE n == <<"MAIN", x[2] + 1, x[3] \div 2>>
    <3>1. M[x].next = n
      BY <1>2, <2>2
    <3>2. n \in tree /\ rank[n] = x[2] + 1
      BY <1>8, <2>2
    <3> HIDE DEF n
    <3>3. n \in Ids /\ n[1] = "MAIN"
      BY <1>3, <3>2
    <3>4. M[x].loserNext \in {None, ThirdPlace}
      BY <1>2
    <3>5. rank[x] < rank[n] /\ rank[x] < rank[ThirdPlace]
      BY <1>1, <1>6, <2>1, <3>2
    <3>6. n # None /\ ThirdPlace # n /\ ThirdPlace # GrandFinal(0) /\ x # GrandFinal(0)
      BY <1>5, <1>10, <2>1, <3>3
    <3> QED
      BY <1>3, <3>1, <3>4, <3>5, <3>6
  <2>3. CASE ~(x[2] < p - 1)
    <3>1. M[x].next = None
      BY <1>2, <2>3
    <3>2. M[x].loserNext = None
      <4>1. x[2] # p - 2
        BY <1>1, <2>1, <2>3
      <4> QED
        BY <1>2, <4>1
    <3> QED
      BY <1>3, <3>1, <3>2
  <2> QED
    BY <2>2, <2>3
<1>12. ASSUME NEW x \in tree
       PROVE  \A a, b, c \in Feeders(M, x) : a = b \/ b = c \/ a = c
  <2> DEFINE s == <<"MAIN", x[2] - 1, 2 * x[3]>>
             t == <<"MAIN", x[2] - 1, 2 * x[3] + 1>>
  <2>1. ASSUME NEW y \in Feeders(M, x) PROVE y \in {s, t}
    <3>1. y \in DOMAIN M /\ x \in {M[y].next, M[y].loserNext}
      BY <2>1 DEF Feeders
    <3>2. x # None /\ x # ThirdPlace
      BY <1>3, <1>5
    <3>3. y \in tree
      BY <1>7, <1>9, <3>1, <3>2
    <3>4. M[y].loserNext # x
      BY <1>2, <3>2, <3>3
    <3>5. x = <<"MAIN", y[2] + 1, y[3] \div 2>>
      BY <1>2, <3>1, <3>2, <3>3, <3>4
    <3> QED
      BY <1>1, <3>3, <3>5, TreeFeeds DEF tree
  <2> HIDE DEF s, t
  <2>2. Feeders(M, x) \subseteq {s, t}
    BY <2>1
  <2> DEFINE S == Feeders(M, x)
  <2> HIDE DEF S
  <2>3. \A a, b, c \in S : a = b \/ b = c \/ a = c
    BY <2>2, AtMostTwo DEF S
  <2> QED
    BY <2>3 DEF S
<1>13. ASSUME NEW x \in DOMAIN M, x \notin tree
       PROVE  /\ M[x].next = None /\ M[x].loserNext = None
              /\ x \notin Starting /\ rank[x] # 0
              /\ \A a, b, c \in Feeders(M, x) : a = b \/ b = c \/ a = c
  <2>1. p >= 2 /\ x = ThirdPlace
    BY <1>9, <1>13
  <2>2. ASSUME NEW y \in Feeders(M, x) PROVE y \in {u, v}
    <3>1. y \in DOMAIN M /\ x \in {M[y].next, M[y].loserNext}
      BY <2>2 DEF Feeders
    <3>2. y \in tree
      BY <1>5, <1>7, <1>9, <2>1, <3>1
    <3>3. M[y].next # x
      <4>1. CASE y[2] < p - 1
        <5>1. M[y].next \in tree
          BY <1>2, <1>8, <3>2, <4>1
        <5> QED
          BY <1>3, <1>5, <2>1, <5>1
      <4>2. CASE ~(y[2] < p - 1)
        BY <1>2, <1>5, <2>1, <3>2, <4>2
      <4> QED
        BY <4>1, <4>2
    <3>4. y[2] = p - 2
      <4>1. M[y].loserNext = ThirdPlace /\ ThirdPlace # None
        BY <1>5, <2>1, <3>1, <3>3
      <4> QED
        BY <1>2, <3>2, <4>1
    <3>5. y = <<"MAIN", p - 2, y[3]>> /\ y[3] \in 0..(Pow2[p - 1 - (p - 2)] - 1)
      BY <1>4, <3>2, <3>4
    <3>6. p - 1 - (p - 2) = 1 /\ Pow2[1] = 2
      <4>1. Pow2[0 + 1] = 2 * Pow2[0] /\ Pow2[0] = 1
        BY Pow2Type
      <4> QED
        BY <1>1, <4>1
    <3>7. y[3] \in 0..1
      BY <3>5, <3>6
    <3> QED
      BY <3>5, <3>7
  <2> HIDE DEF u, v
  <2>3. Feeders(M, x) \subseteq {u, v}
    BY <2>2
  <2> DEFINE S == Feeders(M, x)
  <2> HIDE DEF S
  <2>4. \A a, b, c \in S : a = b \/ b = c \/ a = c
    BY <2>3, AtMostTwo DEF S
  <2>5. rank[x] # 0
    BY <1>1, <1>6, <2>1
  <2> QED
    BY <1>5, <1>7, <2>1, <2>4, <2>5 DEF S
<1>14. ASSUME NEW x \in DOMAIN M
       PROVE  /\ M[x].next # None => rank[x] < rank[M[x].next]
              /\ M[x].loserNext # None => /\ rank[x] < rank[M[x].loserNext]
                                          /\ M[x].next # None
                                          /\ M[x].loserNext # M[x].next
                                          /\ M[x].loserNext # GrandFinal(0)
                                          /\ x # GrandFinal(0)
              /\ x \in Starting <=> rank[x] = 0
              /\ \A a, b, c \in Feeders(M, x) : a = b \/ b = c \/ a = c
  <2>1. CASE x \in tree
    BY <1>11, <1>12, <2>1
  <2>2. CASE x \notin tree
    BY <1>13, <2>2
  <2> QED
    BY <2>1, <2>2
<1>15. Layout(f, M, rank)
  BY <1>6, <1>14 DEF Layout
<1> QED
  BY <1>15 DEF M, rank, p

LEMMA SingleEliminationOpening ==
  ASSUME NEW list \in Seq(Contestants), Len(list) >= 2
  PROVE  Opening(SingleElimination(list), list, "MAIN")
<1> DEFINE p == Rounds(list)
           M == SingleElimination(list)
           tree == Tree("MAIN", p)
           Over(x) == x[2] = 0 /\ p > 1 /\ Alone(list, x[3])
           Among(x) == Starters(list, x[2], x[3])
           Next1(x) == IF x[2] < p - 1 THEN <<"MAIN", x[2] + 1, x[3] \div 2>> ELSE None
<1>1. /\ DOMAIN M = tree \cup (IF p >= 2 THEN {ThirdPlace} ELSE {})
      /\ \A x \in tree : /\ M[x].next = Next1(x)
                         /\ M[x].confirmed = Over(x)
                         /\ M[x].entries = Fresh(Among(x))
      /\ p >= 2 => M[ThirdPlace] = Made(None, None, FALSE, {})
  BY SingleEliminationForm
<1>2. ThirdPlace \notin Starting /\ None \notin tree
  <2>1. p \in Nat \ {0}
    BY RoundsType
  <2>2. tree \subseteq Ids
    <3> HIDE DEF p
    <3> QED
      BY <2>1, TreeForm DEF Plans
  <2> QED
    BY <2>2, NotStarting, GrandFinals
<1>3. Made(None, None, FALSE, {}).confirmed = FALSE /\ Made(None, None, FALSE, {}).entries = Fresh({})
  BY DEF Made
<1> HIDE DEF M, tree, Over, Among
<1>4. ASSUME NEW x \in DOMAIN M, x \notin tree
      PROVE  M[x].confirmed = FALSE /\ M[x].entries = Fresh({}) /\ x \notin Starting
  BY <1>1, <1>2, <1>3, <1>4
<1>5. \A x \in DOMAIN M :
        /\ M[x].entries = Fresh(IF x \in tree THEN Among(x) ELSE {})
        /\ M[x].confirmed = (x \in tree /\ Over(x))
        /\ x \in Starting => x \in tree
  <2>1. TAKE x \in DOMAIN M
  <2>2. CASE x \in tree
    <3>1. M[x].confirmed = Over(x) /\ M[x].entries = Fresh(Among(x))
      BY <1>1, <2>2
    <3>2. Over(x) = (x \in tree /\ Over(x))
      BY <2>2 DEF Over
    <3> QED
      BY <2>2, <3>1, <3>2
  <2>3. CASE x \notin tree
    BY <1>4, <2>3
  <2> QED
    BY <2>2, <2>3
<1>6. \A x \in tree : IF x[2] < p - 1 THEN M[x].next = <<"MAIN", x[2] + 1, x[3] \div 2>>
                      ELSE M[x].next \notin tree
  BY <1>1, <1>2
<1>7. tree \subseteq DOMAIN M
  BY <1>1
<1> QED
  BY <1>5, <1>6, <1>7 DEF Opening, M, tree, Over, Among
\* How many matches there are in a round of the losers' bracket.
LEMMA LowerCounts ==
  ASSUME NEW p \in Nat, p >= 2
  PROVE  /\ LowerCount(p, 1) = Pow2[p - 2]
         /\ \A j \in 1..(p - 1) : LowerCount(p, 2 * j) = Pow2[p - 1 - j]
<1>1. LowerCount(p, 1) = Pow2[p - 2]
  <2>1. (1 - 1) \div 2 = 0 /\ p - 2 - 0 = p - 2
    OBVIOUS
  <2> QED
    BY <2>1 DEF LowerCount
<1>2. ASSUME NEW j \in 1..(p - 1) PROVE LowerCount(p, 2 * j) = Pow2[p - 1 - j]
  <2>1. (2 * j - 1) \div 2 = j - 1
    OBVIOUS
  <2>2. p - 2 - (j - 1) = p - 1 - j
    OBVIOUS
  <2> QED
    BY <2>1, <2>2 DEF LowerCount
<1> QED
  BY <1>1, <1>2

LEMMA Modulo ==
  ASSUME NEW a \in Nat \ {0}, NEW k \in Nat, NEW m \in Nat
  PROVE  /\ k < 2 * a /\ k % a = m => k = m \/ k = m + a
         /\ k < a => k % a = k
<1>1. k < a => k % a = k
  OBVIOUS
<1>2. ASSUME k < 2 * a, k % a = m, k >= a PROVE k = m + a
  <2> DEFINE d == k - a
  <2>1. d \in Nat /\ k = d + a /\ d < a
    BY <1>2
  <2> HIDE DEF d
  <2>2. k % a = d
    <3>1. k = a * 1 + d /\ d \in 0..(a - 1)
      BY <2>1
    <3> QED
      BY <2>1, <3>1
  <2> QED
    BY <1>2, <2>1, <2>2
<1> QED
  BY <1>1, <1>2

\* The losers' matches the losers of the winners' bracket go to.
LEMMA LoserTargetFrom ==
  ASSUME NEW list \in Seq(Contestants), Len(list) >= 4,
         NEW x \in Lower(Rounds(list)), NEW y \in Tree("WB", Rounds(list)),
         LoserTarget(list, y[2], y[3]) = x
  PROVE  LET p == Rounds(list)
         IN  IF x[2] = 1 THEN y \in {<<"WB", 0, x[3]>>, <<"WB", 0, x[3] + Pow2[p - 2]>>}
             ELSE y[2] >= 1 /\ x[2] = 2 * y[2] /\ y = <<"WB", y[2], x[3]>>
<1> DEFINE p == Rounds(list)
           r == y[2]
           k == y[3]
           i == x[2]
           m == x[3]
           round == IF r = 0 THEN 1 ELSE 2 * r
<1>1. p \in Nat /\ p >= 2 /\ p \in Nat \ {0}
  BY RoundsType
<1>0. x \in Lower(p) /\ y \in Tree("WB", p)
  OBVIOUS
<1>2. y = <<"WB", r, k>> /\ r \in 0..(p - 1) /\ k \in 0..(Pow2[p - 1 - r] - 1)
  <2> HIDE DEF p
  <2> QED
    BY <1>0, <1>1, TreeForm
<1>3. x = <<"LB", i, m>> /\ x \in Ids
  <2> HIDE DEF p
  <2> QED
    BY <1>0, <1>1, LowerForm DEF Plans
<1>4. m \in Nat
  BY <1>3 DEF Ids
<1>5. x # None
  BY <1>3, GrandFinals
<1>6. x = <<"LB", round, k % LowerCount(p, round)>>
  <2>1. LoserTarget(list, r, k) \in {None, <<"LB", round, k % LowerCount(p, round)>>}
    BY DEF LoserTarget
  <2> QED
    BY <1>5, <2>1
<1>7. i = round /\ m = k % LowerCount(p, round)
  BY <1>3, <1>6
<1> HIDE DEF r, k, i, m, p
<1>8. CASE r = 0
  <2>1. i = 1 /\ m = k % LowerCount(p, 1)
    BY <1>7, <1>8
  <2> DEFINE q == p - 1
             a == Pow2[p - 2]
  <2>2. q \in Nat \ {0} /\ p - 1 - 0 = q /\ p - 2 = q - 1
    BY <1>1
  <2>3. Pow2[q] = 2 * a /\ a \in Nat \ {0}
    <3> HIDE DEF q
    <3>1. q - 1 \in Nat
      BY <2>2
    <3>2. Pow2[q] = 2 * Pow2[q - 1] /\ Pow2[q - 1] \in Nat \ {0}
      BY <2>2, <3>1, Pow2Grows, Pow2Type
    <3> QED
      BY <2>2, <3>2
  <2>4. LowerCount(p, 1) = a
    BY <1>1, LowerCounts
  <2>5. k \in Nat /\ k < 2 * a
    BY <1>2, <1>8, <2>2, <2>3
  <2> HIDE DEF a
  <2>6. k = m \/ k = m + a
    BY <1>4, <2>1, <2>3, <2>4, <2>5, Modulo
  <2>7. y \in {<<"WB", 0, m>>, <<"WB", 0, m + a>>}
    BY <1>2, <1>8, <2>6
  <2> QED
    BY <2>1, <2>7 DEF i, m, p, a
<1>9. CASE r # 0
  <2>1. r \in 1..(p - 1) /\ i = 2 * r /\ m = k % LowerCount(p, 2 * r)
    BY <1>2, <1>7, <1>9
  <2> DEFINE a == Pow2[p - 1 - r]
  <2>2. LowerCount(p, 2 * r) = a
    BY <1>1, <2>1, LowerCounts
  <2>3. a \in Nat \ {0}
    <3>1. p - 1 - r \in Nat
      BY <1>1, <2>1
    <3> QED
      BY <3>1, Pow2Grows
  <2>4. k \in Nat /\ k < a
    BY <1>2, <2>3
  <2> HIDE DEF a
  <2>5. k = m
    BY <1>4, <2>1, <2>2, <2>3, <2>4, Modulo
  <2>6. i # 1 /\ r >= 1 /\ y = <<"WB", r, m>>
    BY <1>2, <2>1, <2>5
  <2> QED
    BY <2>1, <2>6 DEF i, m, p, r
<1> QED
  BY <1>8, <1>9

\* The losers' matches the winners of losers' matches go to.
LEMMA LowerNextFrom ==
  ASSUME NEW p \in Nat, p >= 2, NEW y \in Lower(p), NEW x, LowerNext(p, y[2], y[3]) = x
  PROVE  \/ x = GrandFinal(0) /\ y = <<"LB", 2 * (p - 1), 0>>
         \/ /\ y[2] # 2 * (p - 1) /\ x[1] = "LB" /\ x[2] = y[2] + 1
            /\ y[2] % 2 = 1 => y = <<"LB", x[2] - 1, x[3]>>
            /\ y[2] % 2 # 1 => y \in {<<"LB", x[2] - 1, 2 * x[3]>>, <<"LB", x[2] - 1, 2 * x[3] + 1>>}
<1> DEFINE r == y[2]
           k == y[3]
<1>1. y = <<"LB", r, k>> /\ r \in 1..(2 * (p - 1)) /\ k \in 0..(LowerCount(p, r) - 1)
  BY LowerForm
<1>2. LowerCount(p, r) \in Nat
  BY <1>1, LowerForm
<1>3. k \in Nat
  BY <1>1, <1>2
<1>4. LowerNext(p, r, k) = x
  OBVIOUS
<1> HIDE DEF r, k
<1>5. CASE r = 2 * (p - 1)
  <2>1. x = GrandFinal(0)
    BY <1>4, <1>5 DEF LowerNext
  <2>2. LowerCount(p, r) = 1
    <3> DEFINE j == p - 1
    <3>1. j \in 1..(p - 1) /\ r = 2 * j /\ p - 1 - j = 0
      BY <1>5
    <3> HIDE DEF j
    <3>2. LowerCount(p, 2 * j) = Pow2[p - 1 - j]
      BY <3>1, LowerCounts
    <3> QED
      BY <3>1, <3>2, Pow2Type
  <2>3. k = 0
    BY <1>1, <2>2
  <2> QED
    BY <1>1, <1>5, <2>1, <2>3
<1>6. CASE r # 2 * (p - 1) /\ r % 2 = 1
  <2>1. x = <<"LB", r + 1, k>>
    BY <1>4, <1>6 DEF LowerNext
  <2>2. x[2] = r + 1 /\ x[3] = k /\ x[2] - 1 = r /\ x[1] = "LB"
    BY <1>1, <2>1
  <2> QED
    BY <1>1, <1>6, <2>2 DEF r
<1>7. CASE r # 2 * (p - 1) /\ r % 2 # 1
  <2> DEFINE m == k \div 2
  <2>1. x = <<"LB", r + 1, m>>
    BY <1>4, <1>7 DEF LowerNext
  <2>2. m \in Nat
    BY <1>3
  <2>3. k \in {2 * m, 2 * m + 1}
    BY <1>3, <2>2, HalfOf
  <2> HIDE DEF m
  <2>4. x[2] = r + 1 /\ x[3] = m /\ x[2] - 1 = r /\ x[1] = "LB"
    BY <1>1, <2>1
  <2>5. y \in {<<"LB", x[2] - 1, 2 * x[3]>>, <<"LB", x[2] - 1, 2 * x[3] + 1>>}
    BY <1>1, <2>3, <2>4
  <2> QED
    BY <1>7, <2>4, <2>5 DEF r
<1> QED
  BY <1>5, <1>6, <1>7
LEMMA DoubleEliminationLayout ==
  ASSUME NEW list \in Seq(Contestants), Len(list) >= 4, NEW f, f.mode = "DE"
  PROVE  Layout(f, DoubleElimination(list), Rank(Rounds(list)))
<1> DEFINE p == Rounds(list)
           M == DoubleElimination(list)
           upper == Tree("WB", p)
           lower == Lower(p)
           rank == Rank(p)
           Final == GrandFinal(0)
           Onward(x) == IF x \in DeadLower(list) THEN None ELSE LowerNext(p, x[2], x[3])
           Up(x) == <<"WB", x[2] + 1, x[3] \div 2>>
           Down(x) == LoserTarget(list, x[2], x[3])
           Two(W) == \A a, b, c \in W : a = b \/ b = c \/ a = c
<1>1. p \in Nat \ {0} /\ p \in Nat /\ p >= 2
  BY RoundsType
<1>2. /\ DOMAIN M = upper \cup lower \cup {Final}
      /\ \A x \in upper : /\ M[x].next = IF x[2] < p - 1 THEN Up(x) ELSE Final
                          /\ M[x].loserNext = Down(x)
      /\ \A x \in lower : M[x] = Made(Onward(x), None, FALSE, {})
      /\ M[Final] = Made(None, None, FALSE, {})
  BY DoubleEliminationForm
<1>3. /\ \A x \in upper : /\ x \in Ids /\ x[1] = "WB" /\ x[2] \in 0..(p - 1)
                          /\ rank[x] = x[2]
                          /\ x \in Starting <=> x[2] = 0
  <2> HIDE DEF p
  <2> QED
    BY <1>1, TreeStarting
<1>4. /\ \A r, m : <<"WB", r, m>> \in upper <=> r \in 0..(p - 1) /\ m \in 0..(Pow2[p - 1 - r] - 1)
      /\ \A x \in upper : /\ x = <<"WB", x[2], x[3]>>
                          /\ x[3] \in 0..(Pow2[p - 1 - x[2]] - 1)
  <2> HIDE DEF p
  <2> QED
    BY <1>1, TreeForm
<1>5. \A x \in lower : /\ x \in Ids /\ x[1] = "LB" /\ x[2] \in 1..(2 * (p - 1))
                       /\ x = <<"LB", x[2], x[3]>> /\ x[3] \in 0..(LowerCount(p, x[2]) - 1)
                       /\ x \notin Starting
  <2>1. /\ lower \subseteq Ids
        /\ \A x \in lower : /\ x = <<"LB", x[2], x[3]>>
                            /\ x[2] \in 1..(2 * (p - 1))
                            /\ x[3] \in 0..(LowerCount(p, x[2]) - 1)
    <3> HIDE DEF p
    <3> QED
      BY <1>1, LowerForm DEF Plans
  <2> HIDE DEF lower, p
  <2> QED
    BY <2>1, NotStarting
<1>6. Final \in Ids /\ Final[1] = "GF" /\ Final \notin Starting /\ None \notin Ids
  BY NotStarting, GrandFinals DEF GrandFinal
<1>7. /\ rank \in [Ids -> Nat] /\ rank[Final] < rank[GrandFinal(1)] /\ rank[Final] = 2 * p + 1
      /\ \A x \in lower : rank[x] = x[2] + 1
  <2> HIDE DEF p, lower
  <2> QED
    BY <1>1, <1>5, RankForm
<1>8. ASSUME NEW x \in upper, x[2] < p - 1
      PROVE  Up(x) \in upper /\ rank[Up(x)] = x[2] + 1
  <2> DEFINE r == x[2]
             m == x[3]
  <2>1. r \in 0..(p - 1) /\ r < p - 1 /\ m \in 0..(Pow2[p - 1 - r] - 1)
    BY <1>3, <1>4, <1>8
  <2>2. r + 1 \in 0..(p - 1) /\ m \div 2 \in 0..(Pow2[p - 1 - (r + 1)] - 1)
    <3> HIDE DEF r, m, p
    <3> QED
      BY <1>1, <2>1, NextRound
  <2> HIDE DEF r, m, p, rank, upper
  <2>3. <<"WB", r + 1, m \div 2>> \in upper
    BY <1>4, <2>2
  <2>4. <<"WB", r + 1, m \div 2>>[2] = r + 1
    OBVIOUS
  <2>5. rank[<<"WB", r + 1, m \div 2>>] = r + 1
    BY <1>3, <2>3, <2>4
  <2> QED
    BY <2>3, <2>5 DEF r, m
<1>9. \A x \in upper : Down(x) \in lower \cup {None}
  <2>1. TAKE x \in upper
  <2> DEFINE r == x[2]
             m == x[3]
  <2>2. r \in 0..(p - 1) /\ m \in Nat
    <3>1. x \in Ids
      BY <1>3
    <3> QED
      BY <1>3, <3>1 DEF Ids
  <2> HIDE DEF r, m
  <2>3. LoserTarget(list, r, m) \in Lower(p) \cup {None}
    BY <2>2, LoserTargetType
  <2> QED
    BY <2>3 DEF r, m
<1>10. \A x \in lower : LowerNext(p, x[2], x[3]) \in lower \cup {Final}
  <2>1. TAKE x \in lower
  <2>2. x[2] \in 1..(2 * (p - 1)) /\ x[3] \in 0..(LowerCount(p, x[2]) - 1)
    BY <1>5
  <2> DEFINE r == x[2]
             m == x[3]
  <2> HIDE DEF p, r, m
  <2>3. LowerNext(p, r, m) \in Lower(p) \cup {GrandFinal(0)}
    BY <1>1, <2>2, LowerNextType DEF r, m
  <2> QED
    BY <2>3 DEF r, m
<1>11. \A x \in upper : \A y \in lower : Down(x) = y =>
         IF y[2] = 1 THEN x \in {<<"WB", 0, y[3]>>, <<"WB", 0, y[3] + Pow2[p - 2]>>}
         ELSE x[2] >= 1 /\ y[2] = 2 * x[2] /\ x = <<"WB", x[2], y[3]>>
  BY LoserTargetFrom
<1>12. \A y \in lower : \A x : LowerNext(p, y[2], y[3]) = x =>
         \/ x = Final /\ y = <<"LB", 2 * (p - 1), 0>>
         \/ /\ y[2] # 2 * (p - 1) /\ x[1] = "LB" /\ x[2] = y[2] + 1
            /\ y[2] % 2 = 1 => y = <<"LB", x[2] - 1, x[3]>>
            /\ y[2] % 2 # 1 => y \in {<<"LB", x[2] - 1, 2 * x[3]>>, <<"LB", x[2] - 1, 2 * x[3] + 1>>}
  <2> HIDE DEF p
  <2> QED
    BY <1>1, LowerNextFrom
<1>13. /\ \A x \in lower : M[x].next = Onward(x) /\ M[x].loserNext = None
       /\ M[Final].next = None /\ M[Final].loserNext = None
  <2>1. \A n : Made(n, None, FALSE, {}).next = n /\ Made(n, None, FALSE, {}).loserNext = None
    BY DEF Made
  <2> HIDE DEF M, p, Onward, lower, upper, Final
  <2> QED
    BY <1>2, <2>1
<1>14. \A x \in lower : Onward(x) \in {None, LowerNext(p, x[2], x[3])}
  OBVIOUS
<1> HIDE DEF p, M, upper, lower, rank, Final, Onward, Up, Down
<1>15. \A y \in DOMAIN M : y \in upper \/ y \in lower \/ y = Final
  BY <1>2
<1>16. ASSUME NEW x \in upper
       PROVE  /\ M[x].next # None => rank[x] < rank[M[x].next]
              /\ M[x].loserNext # None => /\ rank[x] < rank[M[x].loserNext]
                                          /\ M[x].next # None
                                          /\ M[x].loserNext # M[x].next
                                          /\ M[x].loserNext # Final
                                          /\ x # Final
              /\ x \in Starting <=> rank[x] = 0
  <2>1. x[2] \in 0..(p - 1) /\ rank[x] = x[2] /\ x[1] = "WB"
    BY <1>3
  <2> DEFINE n == M[x].next
             l == M[x].loserNext
  <2>2. n # None /\ rank[x] < rank[n] /\ n[1] # "LB"
    <3>1. CASE x[2] < p - 1
      <4>1. n = Up(x) /\ Up(x) \in upper /\ rank[Up(x)] = x[2] + 1
        BY <1>2, <1>8, <3>1
      <4>2. n \in Ids /\ n[1] = "WB" /\ rank[n] = x[2] + 1
        BY <1>3, <4>1
      <4> QED
        BY <1>6, <2>1, <4>2
    <3>2. CASE ~(x[2] < p - 1)
      <4>1. n = Final
        BY <1>2, <3>2
      <4>2. rank[x] < rank[Final]
        BY <1>1, <1>7, <2>1
      <4> QED
        BY <1>6, <4>1, <4>2
    <3> QED
      BY <3>1, <3>2
  <2>3. ASSUME l # None PROVE rank[x] < rank[l] /\ l[1] = "LB"
    <3>1. l \in lower /\ Down(x) = l
      BY <1>2, <1>9, <2>3
    <3>2. rank[l] = l[2] + 1 /\ l[2] \in 1..(2 * (p - 1)) /\ l[1] = "LB"
      BY <1>5, <1>7, <3>1
    <3>3. IF l[2] = 1 THEN x[2] = 0 ELSE l[2] = 2 * x[2]
      <4>1. \A m : <<"WB", 0, m>>[2] = 0
        OBVIOUS
      <4> QED
        BY <1>11, <3>1, <4>1
    <3> QED
      BY <1>1, <2>1, <3>2, <3>3
  <2>4. x # Final /\ (l # None => l # n /\ l # Final)
    BY <1>6, <2>1, <2>2, <2>3
  <2> QED
    BY <1>3, <2>2, <2>3, <2>4
<1>17. ASSUME NEW x \in lower
       PROVE  /\ M[x].next # None => rank[x] < rank[M[x].next]
              /\ M[x].loserNext = None
              /\ x \notin Starting /\ rank[x] # 0
  <2>1. rank[x] = x[2] + 1 /\ x[2] \in 1..(2 * (p - 1)) /\ x \notin Starting
    BY <1>5, <1>7
  <2> DEFINE n == M[x].next
  <2>2. ASSUME n # None PROVE rank[x] < rank[n]
    <3>1. n = LowerNext(p, x[2], x[3])
      BY <1>13, <1>14, <2>2
    <3>2. n \in lower \/ n = Final
      BY <1>10, <3>1
    <3>3. CASE n = Final
      BY <1>1, <1>7, <2>1, <3>3
    <3>4. CASE n \in lower
      <4>1. n # Final
        BY <1>5, <1>6, <3>4
      <4>2. n[2] = x[2] + 1
        BY <1>12, <3>1, <4>1
      <4>3. rank[n] = n[2] + 1
        BY <1>7, <3>4
      <4> QED
        BY <1>1, <2>1, <4>2, <4>3
    <3> QED
      BY <3>2, <3>3, <3>4
  <2> QED
    BY <1>1, <1>13, <2>1, <2>2
\* What leads to a match.
<1>18. ASSUME NEW x \in DOMAIN M, NEW y \in Feeders(M, x)
       PROVE  /\ x \in Ids
              /\ \/ y \in upper /\ (M[y].next = x \/ Down(y) = x)
                 \/ y \in lower /\ LowerNext(p, y[2], y[3]) = x
  <2>1. x \in Ids /\ x # None
    BY <1>3, <1>5, <1>6, <1>15
  <2>2. y \in DOMAIN M /\ x \in {M[y].next, M[y].loserNext}
    BY <1>18 DEF Feeders
  <2>3. CASE y \in upper
    BY <1>2, <2>1, <2>2, <2>3
  <2>4. CASE y \in lower
    BY <1>13, <1>14, <2>1, <2>2, <2>4
  <2>5. CASE y = Final
    BY <1>13, <2>1, <2>2, <2>5
  <2> QED
    BY <1>15, <2>1, <2>2, <2>3, <2>4, <2>5
<1>19. ASSUME NEW x \in upper PROVE Two(Feeders(M, x))
  <2> DEFINE s == <<"WB", x[2] - 1, 2 * x[3]>>
             t == <<"WB", x[2] - 1, 2 * x[3] + 1>>
  <2>0. x[1] = "WB" /\ x \in DOMAIN M /\ x # Final /\ x \notin lower /\ x # None
    BY <1>2, <1>3, <1>5, <1>6
  <2>1. ASSUME NEW y \in Feeders(M, x) PROVE y \in {s, t}
    <3>1. y \in upper /\ M[y].next = x
      BY <1>9, <1>10, <1>18, <2>0
    <3>2. x = Up(y)
      BY <1>2, <2>0, <3>1
    <3> QED
      BY <1>1, <3>1, <3>2, TreeFeeds DEF upper, Up
  <2> HIDE DEF s, t
  <2>2. Feeders(M, x) \subseteq {s, t}
    BY <2>1
  <2> DEFINE W == Feeders(M, x)
  <2> HIDE DEF W
  <2>3. Two(W)
    BY <2>2, AtMostTwo DEF W
  <2> QED
    BY <2>3 DEF W
<1>20. Two(Feeders(M, Final))
  <2> DEFINE s == <<"WB", p - 1, 0>>
             t == <<"LB", 2 * (p - 1), 0>>
  <2>0. Final \in DOMAIN M
    BY <1>2
  <2>1. ASSUME NEW y \in Feeders(M, Final) PROVE y \in {s, t}
    <3>1. CASE y \in lower /\ LowerNext(p, y[2], y[3]) = Final
      <4>1. Final[1] # "LB"
        BY <1>6
      <4> QED
        BY <1>12, <3>1, <4>1
    <3>2. CASE y \in upper
      <4>1. Down(y) # Final
        BY <1>5, <1>6, <1>9, <3>2
      <4>2. M[y].next = Final
        <5>1. y \notin lower
          BY <1>3, <1>5, <3>2
        <5> QED
          BY <1>18, <2>0, <4>1, <5>1
      <4>3. ~(y[2] < p - 1)
        BY <1>2, <1>3, <1>6, <1>8, <3>2, <4>2
      <4>4. y[2] = p - 1 /\ y = <<"WB", y[2], y[3]>> /\ y[3] \in 0..(Pow2[p - 1 - y[2]] - 1)
        BY <1>1, <1>3, <1>4, <3>2, <4>3
      <4>5. p - 1 - (p - 1) = 0 /\ Pow2[0] = 1
        BY <1>1, Pow2Type
      <4>6. y[3] = 0
        BY <4>4, <4>5
      <4> QED
        BY <4>4, <4>6
    <3> QED
      BY <1>18, <2>0, <3>1, <3>2
  <2> HIDE DEF s, t
  <2>2. Feeders(M, Final) \subseteq {s, t}
    BY <2>1
  <2> DEFINE W == Feeders(M, Final)
  <2> HIDE DEF W
  <2>3. Two(W)
    BY <2>2, AtMostTwo DEF W
  <2> QED
    BY <2>3 DEF W
<1>21. ASSUME NEW x \in lower PROVE Two(Feeders(M, x))
  <2> DEFINE i == x[2]
             m == x[3]
  <2>0. x[1] = "LB" /\ x \in DOMAIN M /\ x # Final /\ x \notin upper /\ i \in 1..(2 * (p - 1))
    BY <1>2, <1>3, <1>5, <1>6
  <2>1. ASSUME NEW y \in Feeders(M, x), y \in upper
        PROVE  IF i = 1 THEN y \in {<<"WB", 0, m>>, <<"WB", 0, m + Pow2[p - 2]>>}
               ELSE y[2] >= 1 /\ i = 2 * y[2] /\ y = <<"WB", y[2], m>>
    <3>1. M[y].next # x
      <4>1. CASE y[2] < p - 1
        BY <1>2, <1>8, <2>0, <2>1, <4>1
      <4>2. CASE ~(y[2] < p - 1)
        BY <1>2, <2>0, <2>1, <4>2
      <4> QED
        BY <4>1, <4>2
    <3>2. y \notin lower
      BY <1>3, <1>5, <2>1
    <3>3. Down(y) = x
      BY <1>18, <2>0, <2>1, <3>1, <3>2
    <3> QED
      BY <1>11, <2>1, <3>3
  <2>2. ASSUME NEW y \in Feeders(M, x), y \notin upper
        PROVE  /\ y \in lower /\ i = y[2] + 1
               /\ y[2] % 2 = 1 => y = <<"LB", i - 1, m>>
               /\ y[2] % 2 # 1 => y \in {<<"LB", i - 1, 2 * m>>, <<"LB", i - 1, 2 * m + 1>>}
    <3>1. y \in lower /\ LowerNext(p, y[2], y[3]) = x
      BY <1>18, <2>0, <2>2
    <3> QED
      BY <1>12, <2>0, <3>1
  <2> DEFINE W == Feeders(M, x)
  <2>3. CASE i = 1
    <3> DEFINE s == <<"WB", 0, m>>
               t == <<"WB", 0, m + Pow2[p - 2]>>
    <3>1. ASSUME NEW y \in W PROVE y \in {s, t}
      <4>1. y \in upper
        <5>1. ASSUME y \notin upper PROVE FALSE
          <6>1. y \in lower /\ i = y[2] + 1
            BY <2>2, <5>1
          <6>2. y[2] \in 1..(2 * (p - 1))
            BY <1>5, <6>1
          <6> QED
            BY <1>1, <2>3, <6>1, <6>2
        <5> QED
          BY <5>1
      <4> QED
        BY <2>1, <2>3, <4>1
    <3> HIDE DEF s, t, W
    <3>2. W \subseteq {s, t}
      BY <3>1
    <3> QED
      BY <3>2, AtMostTwo DEF W
  <2>4. CASE i # 1 /\ i % 2 = 1
    <3> DEFINE s == <<"LB", i - 1, 2 * m>>
               t == <<"LB", i - 1, 2 * m + 1>>
    <3>1. ASSUME NEW y \in W PROVE y \in {s, t}
      <4>1. y \notin upper
        <5>1. ASSUME y \in upper PROVE FALSE
          <6>1. y[2] >= 1 /\ i = 2 * y[2]
            BY <2>1, <2>4, <5>1
          <6> DEFINE r == y[2]
          <6>2. r \in 0..(p - 1)
            BY <1>3, <5>1
          <6> HIDE DEF r, i
          <6>3. i % 2 = 0
            BY <1>1, <6>1, <6>2 DEF r
          <6> QED
            BY <2>4, <6>3
        <5> QED
          BY <5>1
      <4>2. /\ y \in lower /\ i = y[2] + 1
            /\ y[2] % 2 # 1 => y \in {<<"LB", i - 1, 2 * m>>, <<"LB", i - 1, 2 * m + 1>>}
        BY <2>2, <4>1
      <4>3. y[2] % 2 # 1
        <5> DEFINE r == y[2]
        <5>1. r \in 1..(2 * (p - 1)) /\ i = r + 1
          BY <1>5, <4>2
        <5> HIDE DEF r, i
        <5>2. r % 2 # 1
          BY <1>1, <2>4, <5>1
        <5> QED
          BY <5>2 DEF r
      <4> QED
        BY <4>2, <4>3
    <3> HIDE DEF s, t, W
    <3>2. W \subseteq {s, t}
      BY <3>1
    <3> QED
      BY <3>2, AtMostTwo DEF W
  <2>5. CASE i # 1 /\ i % 2 # 1
    <3> DEFINE j == i \div 2
               s == <<"WB", j, m>>
               t == <<"LB", i - 1, m>>
    <3>1. ASSUME NEW y \in W PROVE y \in {s, t}
      <4>1. CASE y \in upper
        <5>1. i = 2 * y[2] /\ y = <<"WB", y[2], m>>
          BY <2>1, <2>5, <4>1
        <5>2. y[2] = j
          <6> DEFINE r == y[2]
          <6>1. r \in 0..(p - 1) /\ i = 2 * r
            BY <1>3, <4>1, <5>1
          <6> HIDE DEF r, i
          <6> QED
            BY <1>1, <6>1 DEF r
        <5> QED
          BY <5>1, <5>2
      <4>2. CASE y \notin upper
        <5>1. /\ y \in lower /\ i = y[2] + 1
              /\ y[2] % 2 = 1 => y = <<"LB", i - 1, m>>
          BY <2>2, <4>2
        <5>2. y[2] % 2 = 1
          <6> DEFINE r == y[2]
          <6>1. r \in 1..(2 * (p - 1)) /\ i = r + 1
            BY <1>5, <5>1
          <6> HIDE DEF r, i
          <6>2. r % 2 = 1
            BY <1>1, <2>5, <6>1
          <6> QED
            BY <6>2 DEF r
        <5> QED
          BY <5>1, <5>2
      <4> QED
        BY <4>1, <4>2
    <3> HIDE DEF s, t, W
    <3>2. W \subseteq {s, t}
      BY <3>1
    <3> QED
      BY <3>2, AtMostTwo DEF W
  <2> QED
    BY <2>3, <2>4, <2>5
<1>22. ASSUME NEW x \in DOMAIN M
       PROVE  /\ M[x].next # None => rank[x] < rank[M[x].next]
              /\ M[x].loserNext # None => /\ rank[x] < rank[M[x].loserNext]
                                          /\ M[x].next # None
                                          /\ M[x].loserNext # M[x].next
                                          /\ M[x].loserNext # Final
                                          /\ x # Final
              /\ x \in Starting <=> rank[x] = 0
              /\ Two(Feeders(M, x))
  <2>1. CASE x \in upper
    BY <1>16, <1>19, <2>1
  <2>2. CASE x \in lower
    BY <1>17, <1>21, <2>2
  <2>3. CASE x = Final
    <3>1. rank[Final] # 0
      BY <1>1, <1>7
    <3> QED
      BY <1>6, <1>13, <1>20, <2>3, <3>1
  <2> QED
    BY <1>15, <2>1, <2>2, <2>3
<1>23. Layout(f, M, rank)
  BY <1>7, <1>22 DEF Layout, Final
<1> QED
  BY <1>23 DEF M, rank, p
LEMMA DoubleEliminationOpening ==
  ASSUME NEW list \in Seq(Contestants), Len(list) >= 4
  PROVE  Opening(DoubleElimination(list), list, "WB")
<1> DEFINE p == Rounds(list)
           M == DoubleElimination(list)
           tree == Tree("WB", p)
           lower == Lower(p)
           Final == GrandFinal(0)
           Onward(x) == IF x \in DeadLower(list) THEN None ELSE LowerNext(p, x[2], x[3])
           Over(x) == x[2] = 0 /\ Alone(list, x[3])
           Among(x) == Starters(list, x[2], x[3])
           Next1(x) == IF x[2] < p - 1 THEN <<"WB", x[2] + 1, x[3] \div 2>> ELSE Final
<1>1. /\ DOMAIN M = tree \cup lower \cup {Final}
      /\ \A x \in tree : /\ M[x].next = Next1(x)
                         /\ M[x].confirmed = Over(x)
                         /\ M[x].entries = Fresh(Among(x))
      /\ \A x \in lower : M[x] = Made(Onward(x), None, FALSE, {})
      /\ M[Final] = Made(None, None, FALSE, {})
  BY DoubleEliminationForm
<1>2. p \in Nat \ {0} /\ p \in Nat /\ p >= 2
  BY RoundsType
<1>3. Final \notin Starting /\ Final \notin tree /\ \A x \in lower : x \notin Starting
  <2>1. \A x \in tree : x = <<"WB", x[2], x[3]>>
    <3> HIDE DEF p
    <3> QED
      BY <1>2, TreeForm
  <2>2. \A x \in lower : x = <<"LB", x[2], x[3]>>
    <3> HIDE DEF p
    <3> QED
      BY <1>2, LowerForm
  <2>3. Final[1] = "GF" /\ \A a, b : <<"WB", a, b>>[1] = "WB"
    BY DEF GrandFinal
  <2> HIDE DEF tree, lower, Final
  <2>4. Final \notin tree
    BY <2>1, <2>3
  <2>5. \A x \in lower : x \notin Starting
    BY <2>2, NotStarting
  <2> QED
    BY <2>4, <2>5, NotStarting DEF Final
<1>4. \A n : Made(n, None, FALSE, {}).confirmed = FALSE /\ Made(n, None, FALSE, {}).entries = Fresh({})
  BY DEF Made
<1> HIDE DEF M, tree, lower, Over, Among, Onward, Next1, Final
<1>5. ASSUME NEW x \in DOMAIN M, x \notin tree
      PROVE  M[x].confirmed = FALSE /\ M[x].entries = Fresh({}) /\ x \notin Starting
  BY <1>1, <1>3, <1>4, <1>5
<1>6. \A x \in DOMAIN M :
        /\ M[x].entries = Fresh(IF x \in tree THEN Among(x) ELSE {})
        /\ M[x].confirmed = (x \in tree /\ Over(x))
        /\ x \in Starting => x \in tree
  <2>1. TAKE x \in DOMAIN M
  <2>2. CASE x \in tree
    <3>1. M[x].confirmed = Over(x) /\ M[x].entries = Fresh(Among(x))
      BY <1>1, <2>2
    <3>2. Over(x) = (x \in tree /\ Over(x))
      BY <2>2 DEF Over
    <3> QED
      BY <2>2, <3>1, <3>2
  <2>3. CASE x \notin tree
    BY <1>5, <2>3
  <2> QED
    BY <2>2, <2>3
<1>7. \A x \in tree : IF x[2] < p - 1 THEN M[x].next = <<"WB", x[2] + 1, x[3] \div 2>>
                      ELSE M[x].next \notin tree
  BY <1>1, <1>3 DEF Next1
<1>8. tree \subseteq DOMAIN M
  BY <1>1
<1>9. \A x \in DOMAIN M : M[x].confirmed = (x \in tree /\ x[2] = 0 /\ p > 1 /\ Alone(list, x[3]))
  <2>1. TAKE x \in DOMAIN M
  <2>2. Over(x) = (x[2] = 0 /\ p > 1 /\ Alone(list, x[3]))
    BY <1>2 DEF Over
  <2>3. M[x].confirmed = (x \in tree /\ Over(x))
    BY <1>6
  <2> QED
    BY <2>2, <2>3
<1> QED
  BY <1>6, <1>7, <1>8, <1>9 DEF Opening, M, tree, Among

\* All matches of a round robin are open, and nothing follows from them.
LEMMA RoundRobinFlow ==
  ASSUME NEW list \in Seq(Contestants), Len(list) >= 2, NEW f, f.mode = "RR", NEW active
  PROVE  /\ Flow(f, RoundRobin(list), Rank(0))
         /\ Carried(RoundRobin(list), active, {})
<1> DEFINE M == RoundRobin(list)
           rank == Rank(0)
           h == Half(list)
           Among(x) == {list[k] : k \in PairOf(h, x[2], x[3])}
<1>1. DOMAIN M = Meetings(list) /\ \A x \in DOMAIN M : M[x] = Made(None, None, FALSE, Among(x))
  BY RoundRobinForm
<1>2. h \in Nat \ {0}
  BY HalfType
<1>3. \A x \in DOMAIN M : /\ x = <<"RR", x[2], x[3]>>
                          /\ x[2] \in 0..(2 * h - 2) /\ x[3] \in 1..h
  BY <1>1, MeetingForm
<1> HIDE DEF M, rank, h
<1>4. \A x \in DOMAIN M : /\ M[x].next = None /\ M[x].loserNext = None /\ M[x].confirmed = FALSE
                          /\ M[x].entries = Fresh(Among(x))
  <2>1. \A W : /\ Made(None, None, FALSE, W).next = None /\ Made(None, None, FALSE, W).loserNext = None
               /\ Made(None, None, FALSE, W).confirmed = FALSE
               /\ Made(None, None, FALSE, W).entries = Fresh(W)
    BY DEF Made
  <2> HIDE DEF Among
  <2> QED
    BY <1>1, <2>1
<1>5. \A x \in DOMAIN M : x \in Ids /\ x \in Starting /\ x[1] = "RR" /\ x # None
  <2>1. TAKE x \in DOMAIN M
  <2>2. x[2] \in Nat /\ x[3] \in Nat
    BY <1>2, <1>3
  <2>3. x \in Ids /\ x \in Starting /\ x[1] = "RR"
    BY <1>3, <2>2 DEF Ids, Starting
  <2> QED
    BY <2>3, GrandFinals
<1>6. /\ rank \in [Ids -> Nat] /\ rank[GrandFinal(0)] < rank[GrandFinal(1)]
      /\ \A x \in DOMAIN M : rank[x] = 0
  BY <1>5, RankForm DEF rank
<1>7. \A x \in DOMAIN M : Feeders(M, x) = {}
  BY <1>4, <1>5 DEF Feeders
<1>8. Layout(f, M, rank)
  BY <1>4, <1>5, <1>6, <1>7 DEF Layout
<1>9. \A x \in DOMAIN M : \A a, b, c \in Among(x) : a = b \/ b = c \/ a = c
  <2>1. TAKE x \in DOMAIN M
  <2> DEFINE s == Seat(h, x[2], x[3] - 1)
             t == Seat(h, x[2], 2 * h - x[3])
  <2>2. PairOf(h, x[2], x[3]) = {s, t}
    BY DEF PairOf
  <2> HIDE DEF s, t
  <2>3. Among(x) \subseteq {list[s], list[t]}
    BY <2>2
  <2> HIDE DEF Among
  <2> DEFINE W == Among(x)
  <2> HIDE DEF W
  <2>4. \A a, b, c \in W : a = b \/ b = c \/ a = c
    BY <2>3, AtMostTwo DEF W
  <2> QED
    BY <2>4 DEF W
<1> HIDE DEF Among
<1>10. Pairs(M)
  <2>1. ASSUME NEW x \in DOMAIN M
        PROVE  /\ \A d, e \in M[x].entries : d.who = e.who => d = e
               /\ \A c, d, e \in M[x].entries : c = d \/ d = e \/ c = e
    <3> DEFINE W == Among(x)
    <3>1. M[x].entries = Fresh(W) /\ \A a, b, c \in W : a = b \/ b = c \/ a = c
      BY <1>4, <1>9
    <3> HIDE DEF W
    <3>2. /\ \A d, e \in Fresh(W) : d.who = e.who => d = e
          /\ \A c, d, e \in Fresh(W) : c = d \/ d = e \/ c = e
      BY <3>1, FreshPairs
    <3> QED
      BY <3>1, <3>2
  <2> QED
    BY <2>1 DEF Pairs
<1>11. Earned(M) /\ StartOnce(f, M) /\ Scores(f, M)
  BY <1>5 DEF Earned, StartOnce, Scores
<1>12. Ordered(M)
  BY <1>4 DEF Ordered, Passing
<1>13. GrandFinal(1) \notin DOMAIN M
  <2>1. GrandFinal(1)[1] = "GF"
    BY DEF GrandFinal
  <2> QED
    BY <1>5, <2>1
<1>14. Flow(f, M, rank)
  BY <1>8, <1>10, <1>11, <1>12, <1>13 DEF Flow
<1>15. Carried(M, active, {})
  BY <1>4 DEF Carried
<1> QED
  BY <1>14, <1>15 DEF M, rank

\* However a bracket is generated.
LEMMA BracketFlow ==
  ASSUME NEW f \in Formats, NEW list \in Seq(Contestants), Injective(list),
         Len(list) >= IF f.mode = "DE" THEN 4 ELSE 2, NEW active
  PROVE  \E rank : Flow(f, Bracket(f, list), rank) /\ Carried(Bracket(f, list), active, {})
<1> DEFINE M == Bracket(f, list)
<1>1. f.mode \in {"SE", "DE", "RR"}
  BY FormatsChecked
<1>2. M \in Brackets
  BY BracketType
<1>3. LinksUp(M) /\ GrandFinal(1) \notin DOMAIN M
  BY MadeLinks
<1>4. Len(list) >= 2 /\ (f.mode = "DE" => Len(list) >= 4)
  OBVIOUS
<1>5. CASE f.mode = "SE"
  <2> DEFINE rank == Rank(Rounds(list))
  <2>1. M = SingleElimination(list)
    BY <1>5 DEF Bracket
  <2>2. Layout(f, SingleElimination(list), rank) /\ Opening(SingleElimination(list), list, "MAIN")
    BY <1>4, <1>5, SingleEliminationLayout, SingleEliminationOpening
  <2>3. Layout(f, M, rank) /\ Opening(M, list, "MAIN")
    BY <2>1, <2>2
  <2> HIDE DEF M, rank
  <2>4. Flow(f, M, rank) /\ Carried(M, active, {})
    BY <1>2, <1>3, <1>4, <2>3, OpeningFlow
  <2> QED
    BY <2>4 DEF M
<1>6. CASE f.mode = "DE"
  <2> DEFINE rank == Rank(Rounds(list))
  <2>1. M = DoubleElimination(list)
    BY <1>6 DEF Bracket
  <2>2. Layout(f, DoubleElimination(list), rank) /\ Opening(DoubleElimination(list), list, "WB")
    BY <1>4, <1>6, DoubleEliminationLayout, DoubleEliminationOpening
  <2>3. Layout(f, M, rank) /\ Opening(M, list, "WB")
    BY <2>1, <2>2
  <2> HIDE DEF M, rank
  <2>4. Flow(f, M, rank) /\ Carried(M, active, {})
    BY <1>2, <1>3, <1>4, <2>3, OpeningFlow
  <2> QED
    BY <2>4 DEF M
<1>7. CASE f.mode = "RR"
  <2>1. M = RoundRobin(list)
    BY <1>7 DEF Bracket
  <2>2. Flow(f, RoundRobin(list), Rank(0)) /\ Carried(RoundRobin(list), active, {})
    BY <1>4, <1>7, RoundRobinFlow
  <2> QED
    BY <2>1, <2>2
<1> QED
  BY <1>1, <1>5, <1>6, <1>7
-----------------------------------------------------------------------------
(* Every step keeps the flow *)

Flowing ==
  \E rank : Flow(format, tournament.matches, rank) /\ Carried(tournament.matches, Active, {})

\* A report names who was in the match when it was read.
ReportInv ==
  \A w \in Workers : Serving(w, "scores") =>
    request[w].winner \in request[w].entrants \cup (IF format.mode = "RR" THEN {None} ELSE {})

FlowInv == ReportInv /\ (~marred => Flowing)

LEMMA FavouriteStands ==
  ASSUME BracketInv, NEW m \in Matches, tournament.matches[m].entries # {}
  PROVE  Favourite(tournament.matches[m]) \in Entrants(tournament.matches[m].entries)
<1> DEFINE E == Entrants(tournament.matches[m].entries)
           Best(c) == \A d \in E : Seed[c] <= Seed[d]
           T == {Seed[c] : c \in E}
<1>1. E \subseteq Contestants
  <2>1. tournament.matches \in Brackets /\ m \in DOMAIN tournament.matches
    BY TournamentForm DEF BracketInv, Matches
  <2>2. tournament.matches[m].entries \in Rows
    BY <2>1, MatchType
  <2> QED
    BY <2>2, EntrantsType
<1>2. E # {}
  BY DEF Entrants
<1> HIDE DEF E
<1>3. T \in SUBSET Nat /\ T # {}
  BY <1>1, <1>2, SeedsDiffer
<1>4. PICK x \in T : \A y \in T : x <= y
  <2> HIDE DEF T
  <2> QED
    BY <1>3, Least
<1>5. \E c \in E : Best(c)
  <2>1. PICK c \in E : x = Seed[c]
    BY <1>4
  <2>2. \A d \in E : Seed[c] <= Seed[d]
    BY <1>4, <2>1
  <2> QED
    BY <2>2
<1>6. (CHOOSE c \in E : Best(c)) \in E
  <2> HIDE DEF Best
  <2> QED
    BY <1>5
<1> QED
  BY <1>6 DEF Favourite, E

LEMMA ResultsPossible ==
  ASSUME BracketInv, NEW m \in Matches, Playable(format, tournament.matches[m]),
         NEW who \in Results(tournament.matches[m])
  PROVE  who \in Outcomes(format, tournament.matches[m])
<1>1. tournament.matches[m].entries # {}
  <2>1. Cardinality(tournament.matches[m].entries) >= 2
    BY DEF Playable
  <2> QED
    BY <2>1, FS_EmptySet
<1>2. Favourite(tournament.matches[m]) \in Outcomes(format, tournament.matches[m])
  BY <1>1, FavouriteStands DEF Outcomes
<1> QED
  BY <1>2 DEF Results

LEMMA InitFlow == HistoryInit => FlowInv
<1> SUFFICES ASSUME HistoryInit PROVE FlowInv
  OBVIOUS
<1>1. ReportInv
  BY DEF HistoryInit, Init, ReportInv, Serving, Idle
<1>2. Flowing
  <2> DEFINE M == tournament.matches
             rank == Rank(0)
  <2>1. DOMAIN M = {}
    BY DEF HistoryInit, Init
  <2>2. rank \in [Ids -> Nat] /\ rank[GrandFinal(0)] < rank[GrandFinal(1)]
    BY RankForm
  <2> HIDE DEF M, rank
  <2>3. Flow(format, M, rank)
    BY <2>1, <2>2 DEF Flow, Layout, Pairs, Earned, StartOnce, Scores, Ordered
  <2>4. Carried(M, Active, {})
    BY <2>1 DEF Carried
  <2> QED
    BY <2>3, <2>4 DEF Flowing, M
<1> QED
  BY <1>1, <1>2 DEF FlowInv

\* Fewer are left to be carried on.
LEMMA CarriedFewer ==
  ASSUME NEW M, NEW a, Carried(M, a, {}), NEW b, b \subseteq a
  PROVE  Carried(M, b, {})
BY DEF Carried

LEMMA SameFlow ==
  ASSUME Flowing, format' = format, tournament'.matches = tournament.matches, Active' \subseteq Active
  PROVE  Flowing'
<1>1. PICK rank : Flow(format, tournament.matches, rank) /\ Carried(tournament.matches, Active, {})
  BY DEF Flowing
<1>2. Carried(tournament.matches, Active', {})
  BY <1>1, CarriedFewer
<1> QED
  BY <1>1, <1>2 DEF Flowing

LEMMA EnterResultFlows ==
  ASSUME BracketInv, Flowing, NEW m \in Matches, NEW who \in Contestants \cup {None}, EnterResult(m, who)
  PROVE  Flowing'
<1> DEFINE N == Confirmed(tournament, format, m, who).matches
<1>1. /\ m \in DOMAIN tournament.matches /\ tournament \in Tournaments
      /\ Playable(format, tournament.matches[m]) /\ who \in Results(tournament.matches[m])
  BY DEF EnterResult, Matches, BracketInv
<1>2. who \in Outcomes(format, tournament.matches[m])
  BY <1>1, ResultsPossible
<1>3. PICK rank : Flow(format, tournament.matches, rank) /\ Carried(tournament.matches, Active, {})
  BY DEF Flowing
<1>4. Flow(format, N, rank) /\ Carried(N, Active, {})
  <2> DEFINE active == Active
  <2>1. Flow(format, tournament.matches, rank) /\ Carried(tournament.matches, active, {})
    BY <1>3
  <2> HIDE DEF active
  <2>2. Flow(format, N, rank) /\ Carried(N, active, {})
    BY <1>1, <1>2, <2>1, ConfirmedFlows
  <2> QED
    BY <2>2 DEF active
<1>5. format' = format /\ tournament'.matches = N /\ Active' = Active
  BY DEF EnterResult, Active
<1> HIDE DEF N
<1> QED
  BY <1>4, <1>5 DEF Flowing

LEMMA SubmitScoresFlows ==
  ASSUME BracketInv, ReportInv, Flowing, NEW w \in Workers, SubmitScores(w)
  PROVE  Flowing'
<1> DEFINE m == request[w].match
           who == request[w].winner
           N == Confirmed(tournament, format, m, who).matches
<1>1. /\ m \in DOMAIN tournament.matches /\ tournament \in Tournaments
      /\ Playable(format, tournament.matches[m])
      /\ who \in Contestants \cup {None}
  BY DEF SubmitScores, StillValid, Known, Matches, BracketInv, Serving, RequestsOK, RequestOK
<1>2. who \in Outcomes(format, tournament.matches[m])
  <2>1. Entrants(tournament.matches[m].entries) = request[w].entrants
    BY DEF SubmitScores, StillValid
  <2>2. who \in request[w].entrants \cup (IF format.mode = "RR" THEN {None} ELSE {})
    BY DEF SubmitScores, ReportInv
  <2> HIDE DEF m, who
  <2> QED
    BY <2>1, <2>2 DEF Outcomes
<1>3. PICK rank : Flow(format, tournament.matches, rank) /\ Carried(tournament.matches, Active, {})
  BY DEF Flowing
<1>4. tournament'.matches = N /\ format' = format /\ Active' = Active
  BY DEF SubmitScores, Active
<1>5. Flow(format, N, rank) /\ Carried(N, Active, {})
  <2> DEFINE active == Active
  <2>1. Flow(format, tournament.matches, rank) /\ Carried(tournament.matches, active, {})
    BY <1>3
  <2> HIDE DEF active, m, who
  <2>2. Flow(format, N, rank) /\ Carried(N, active, {})
    BY <1>1, <1>2, <2>1, ConfirmedFlows
  <2> QED
    BY <2>2 DEF active
<1> HIDE DEF N
<1> QED
  BY <1>4, <1>5 DEF Flowing

LEMMA CorrectResultFlows ==
  ASSUME BracketInv, Flowing, NEW w \in Workers, CorrectResult(w), Observe, ~marred'
  PROVE  Flowing'
<1> DEFINE m == request[w].match
           M == tournament.matches
           C == {m} \cup Affected(M, m)
           retracted == Retracted(tournament, format, m)
           active == Active
<1>1. /\ Serving(w, "correction")
      /\ m \in Matches /\ m \in DOMAIN M /\ tournament \in Tournaments
      /\ Match(m).confirmed /\ M[m].confirmed
      /\ Cardinality(Match(m).entries) >= 2
      /\ corrections' = corrections + 1
      /\ format' = format /\ Active' = Active
      /\ \/ tournament' = retracted
         \/ /\ Playable(format, retracted.matches[m])
            /\ \E who \in Outcomes(format, retracted.matches[m]) :
                 tournament' = Confirmed(retracted, format, m, who)
  BY DEF CorrectResult, Known, Match, Matches, Active, BracketInv
<1>2. corrections' # corrections
  BY <1>1, FormatsChecked DEF BracketInv
<1>3. \A x \in Affected(M, m) : ~PassedOn(x)
  <2>1. ~Mars(w)
    BY DEF Observe
  <2> QED
    BY <1>1, <1>2, <2>1 DEF Mars
<1>4. PICK rank : Flow(format, M, rank) /\ Carried(M, active, {})
  BY DEF Flowing
<1>5. retracted \in Tournaments /\ m \in DOMAIN retracted.matches
  <2> HIDE DEF m
  <2> QED
    BY <1>1, RetractedType DEF BracketInv
<1>6. Ready(M, C)
  <2> HIDE DEF m, active
  <2> QED
    BY <1>1, <1>3, <1>4, ReadyStart
<1>7. Flow(format, retracted.matches, rank) /\ Carried(retracted.matches, active, {})
  <2>1. m \in C \cap DOMAIN M
    BY <1>1
  <2> HIDE DEF m, active, C
  <2> QED
    BY <1>1, <1>4, <1>6, <2>1, RetractedFlow
<1>8. CASE tournament' = retracted
  <2> HIDE DEF retracted
  <2> QED
    BY <1>1, <1>7, <1>8 DEF Flowing
<1>9. ASSUME NEW who \in Outcomes(format, retracted.matches[m]),
             Playable(format, retracted.matches[m]),
             tournament' = Confirmed(retracted, format, m, who)
      PROVE  Flowing'
  <2>1. who \in Contestants \cup {None}
    <3> HIDE DEF retracted, m
    <3>1. retracted.matches[m].entries \in Rows
      BY <1>5, TournamentForm, MatchType
    <3>2. Entrants(retracted.matches[m].entries) \subseteq Contestants
      BY <3>1, EntrantsType
    <3> QED
      BY <1>9, <3>2 DEF Outcomes
  <2> DEFINE N == Confirmed(retracted, format, m, who).matches
  <2>2. Flow(format, N, rank) /\ Carried(N, active, {})
    <3> HIDE DEF retracted, m, active
    <3> QED
      BY <1>5, <1>7, <1>9, <2>1, ConfirmedFlows
  <2>3. tournament'.matches = N
    BY <1>9
  <2> HIDE DEF N
  <2> QED
    BY <1>1, <2>2, <2>3 DEF Flowing
<1> QED
  BY <1>1, <1>8, <1>9

LEMMA GenerateBracketFlows ==
  ASSUME BracketInv, NEW w \in Workers, GenerateBracket(w)
  PROVE  Flowing'
<1> DEFINE list == Entries
           active == Active
<1>1. /\ Len(list) >= IF format.mode = "DE" THEN 4 ELSE 2
      /\ format' = format /\ Active' = Active /\ format \in Formats
      /\ tournament'.matches = Bracket(format, list)
  BY DEF GenerateBracket, BracketInv, Active, Tournaments
<1>2. Drafted(format, list, Active)
  BY <1>1, EntriesDrafted
<1>3. list \in Seq(Contestants) /\ Injective(list)
  BY <1>2 DEF Drafted
<1> HIDE DEF list, active
<1>4. \E rank : Flow(format, Bracket(format, list), rank) /\ Carried(Bracket(format, list), active, {})
  BY <1>1, <1>3, BracketFlow
<1> QED
  BY <1>1, <1>4 DEF Flowing, active
\* A contestant who leaves what they were in, without having been passed on
\* from an open match to one that is over.
LEMMA LeavingFlows ==
  ASSUME BracketInv, Flowing, Observe, ~marred', NEW c \in Active, NEW confirming \in BOOLEAN,
         format' = format, roster' = [roster EXCEPT ![c] = "removed"],
         tournament' = Removed(tournament, format, c, OpenMatches(tournament.matches, c), confirming)
  PROVE  Flowing'
<1> DEFINE M == tournament.matches
           active == Active
           N == Removed(tournament, format, c, OpenMatches(M, c), confirming).matches
<1>1. PICK rank : Flow(format, M, rank) /\ Carried(M, active, {})
  BY DEF Flowing
<1>2. c \in Contestants /\ roster[c] = "active" /\ roster'[c] = "removed"
      /\ Active' = active \ {c} /\ tournament \in Tournaments
  BY DEF BracketInv, Active
<1>3. ~LeftBehind(c)
  BY <1>2 DEF Observe
<1>4. \A x \in DOMAIN OpenMatches(M, c) :
        M[x].next # None => ~(M[M[x].next].confirmed /\ c \in Standing(M, M[x].next))
  BY <1>3 DEF LeftBehind, Standing
<1>5. Flow(format, N, rank) /\ Carried(N, active \ {c}, {})
  <2> HIDE DEF active
  <2> QED
    BY <1>1, <1>2, <1>4, RemovedFlow
<1>6. tournament'.matches = N
  OBVIOUS
<1> HIDE DEF N, active
<1> QED
  BY <1>2, <1>5, <1>6 DEF Flowing

LEMMA RemoveTeamFlows ==
  ASSUME BracketInv, Flowing, Observe, ~marred', NEW w \in Workers, RemoveTeam(w)
  PROVE  Flowing'
<1> DEFINE r == request[w]
           c == r.team
<1>1. /\ Serving(w, "removal") /\ c \in Active /\ format' = format
      /\ roster' = [roster EXCEPT ![c] = "removed"]
      /\ tournament' = IF r.generation # generation THEN tournament
                       ELSE Removed(tournament, format, c, r.links, r.confirming)
  BY DEF RemoveTeam, MayLeave
<1>2. r.confirming \in BOOLEAN
  BY <1>1 DEF BracketInv, RequestsOK, RequestOK, Serving
<1>3. c \in Contestants /\ roster[c] = "active" /\ roster'[c] = "removed" /\ Active' \subseteq Active
  BY <1>1 DEF BracketInv, Active
<1>4. r.links = OpenMatches(tournament.matches, c)
  <2>1. ~Mars(w)
    BY DEF Observe
  <2>2. roster' # roster
    BY <1>3
  <2> QED
    BY <1>1, <2>1, <2>2 DEF Mars
<1> HIDE DEF c
<1>5. CASE r.generation # generation
  BY <1>1, <1>3, <1>5, SameFlow
<1>6. CASE r.generation = generation
  <2>1. tournament' = Removed(tournament, format, c, OpenMatches(tournament.matches, c), r.confirming)
    BY <1>1, <1>4, <1>6
  <2> DEFINE confirming == r.confirming
  <2>2. confirming \in BOOLEAN
    BY <1>2
  <2>3. tournament' = Removed(tournament, format, c, OpenMatches(tournament.matches, c), confirming)
    BY <2>1
  <2> HIDE DEF confirming
  <2> QED
    BY <1>1, <2>2, <2>3, LeavingFlows
<1> QED
  BY <1>5, <1>6

LEMMA StepFlows ==
  ASSUME BracketInv, ReportInv, Flowing, Next, Observe, ~marred'
  PROVE  Flowing'
<1>1. CASE ResultEntered
  BY <1>1, EnterResultFlows DEF ResultEntered
<1>2. ASSUME NEW c \in Contestants, RemoveContestant(c)
      PROVE  Flowing'
  <2> DEFINE confirming == TRUE
  <2>1. /\ confirming \in BOOLEAN /\ c \in Active /\ format' = format
        /\ roster' = [roster EXCEPT ![c] = "removed"]
        /\ tournament' = Removed(tournament, format, c, OpenMatches(tournament.matches, c), confirming)
    BY <1>2 DEF RemoveContestant, MayLeave
  <2> HIDE DEF confirming
  <2> QED
    BY <2>1, LeavingFlows
<1>3. ASSUME NEW c \in Contestants, RemoveUnplaced(c)
      PROVE  Flowing'
  <2>1. format' = format /\ tournament'.matches = tournament.matches /\ Active' \subseteq Active
    BY <1>3 DEF RemoveUnplaced, Active, BracketInv, Tournaments
  <2> QED
    BY <2>1, SameFlow
<1>4. ASSUME NEW w \in Workers,
             \/ RequestBracket(w)
             \/ \E m \in Matches : \E who \in Contestants \cup {None} : CheckScores(w, m, who)
             \/ \E m \in Matches : OpenCorrection(w, m)
             \/ \E new \in Statuses : ChangeStatus(w, new)
             \/ RereadTournament(w)
             \/ \E c \in Contestants, confirming \in BOOLEAN : FindTeamEntries(w, c, confirming)
             \/ Abandon(w)
      PROVE  Flowing'
  <2>1. UNCHANGED <<format, tournament, roster>>
    BY <1>4 DEF RequestBracket, CheckScores, OpenCorrection, ChangeStatus, RereadTournament,
       FindTeamEntries, Abandon
  <2>2. Active' \subseteq Active
    BY <2>1 DEF Active
  <2> QED
    BY <2>1, <2>2, SameFlow
<1>5. ASSUME NEW w \in Workers, WriteStatus(w) \/ ClearTeamWinner(w)
      PROVE  Flowing'
  <2>1. UNCHANGED <<format, roster>> /\ tournament'.matches = tournament.matches
    BY <1>5 DEF WriteStatus, ClearTeamWinner, BracketInv, Tournaments
  <2>2. Active' \subseteq Active
    BY <2>1 DEF Active
  <2> QED
    BY <2>1, <2>2, SameFlow
<1>6. ASSUME NEW w \in Workers, DeleteTeamRow(w)
      PROVE  Flowing'
  <2>1. UNCHANGED <<format, tournament>> /\ roster' = [roster EXCEPT ![request[w].team] = "gone"]
    BY <1>6 DEF DeleteTeamRow
  <2>2. Active' \subseteq Active
    BY <2>1 DEF BracketInv, Active
  <2> QED
    BY <2>1, <2>2, SameFlow
<1>7. ASSUME NEW w \in Workers, NEW c \in Contestants, DeleteTeamEntries(w, c)
      PROVE  FALSE
  <2>1. request' = [request EXCEPT ![w] = [kind |-> "delete", step |-> "winner", team |-> c]]
    BY <1>7 DEF DeleteTeamEntries, Take
  <2>2. request'[w].kind = "delete"
    BY <2>1 DEF BracketInv, RequestsOK
  <2>3. ~Mars(w)
    BY DEF Observe
  <2> QED
    BY <2>2, <2>3 DEF Mars
<1> QED
  BY <1>1, <1>2, <1>3, <1>4, <1>5, <1>6, <1>7, GenerateBracketFlows, SubmitScoresFlows,
     CorrectResultFlows, RemoveTeamFlows DEF Next

\* Reports are made with what was read.
LEMMA StepReports ==
  ASSUME BracketInv, ReportInv, Next
  PROVE  ReportInv'
<1> USE DEF BracketInv, RequestsOK
<1>1. format' = format
  BY DEF Next, ResultEntered, EnterResult, RequestBracket, GenerateBracket, CheckScores,
     SubmitScores, OpenCorrection, CorrectResult, ChangeStatus, RereadTournament, WriteStatus,
     FindTeamEntries, RemoveTeam, DeleteTeamEntries, ClearTeamWinner, DeleteTeamRow, Abandon,
     RemoveContestant, RemoveUnplaced
<1> DEFINE Sound(r) == r.kind = "scores" =>
             r.winner \in r.entrants \cup (IF format.mode = "RR" THEN {None} ELSE {})
<1>2. \A w \in Workers : Sound(request[w])
  BY DEF ReportInv, Serving
<1>3. Sound(Idle)
  BY DEF Idle
<1>4. ASSUME \A w \in Workers : Sound(request'[w])
      PROVE  ReportInv'
  BY <1>1, <1>4 DEF ReportInv, Serving
<1> SUFFICES ASSUME NEW v \in Workers PROVE Sound(request'[v])
  BY <1>4
<1>5. ASSUME NEW w \in Workers, NEW r, Sound(r), request' = [request EXCEPT ![w] = r]
      PROVE  Sound(request'[v])
  <2>1. request'[v] = IF v = w THEN r ELSE request[v]
    BY <1>5
  <2> HIDE DEF Sound
  <2> QED
    BY <1>2, <1>5, <2>1
<1>6. ASSUME NEW w \in Workers, NEW m \in Matches, NEW who \in Contestants \cup {None},
             CheckScores(w, m, who)
      PROVE  Sound(request'[v])
  <2> DEFINE r == [kind |-> "scores", match |-> m, winner |-> who, generation |-> generation,
                   entrants |-> Entrants(tournament.matches[m].entries)]
  <2>1. request' = [request EXCEPT ![w] = r]
    BY <1>6 DEF CheckScores, Take
  <2>2. who \in Outcomes(format, tournament.matches[m])
    BY <1>6, ResultsPossible DEF CheckScores
  <2>3. r.winner = who /\ r.entrants = Entrants(tournament.matches[m].entries)
    OBVIOUS
  <2>4. Sound(r)
    BY <2>2, <2>3 DEF Outcomes
  <2> HIDE DEF r, Sound
  <2> QED
    BY <1>5, <2>1, <2>4
<1>7. ASSUME NEW w \in Workers,
             GenerateBracket(w) \/ SubmitScores(w) \/ CorrectResult(w) \/ WriteStatus(w)
               \/ RemoveTeam(w) \/ DeleteTeamRow(w) \/ Abandon(w)
      PROVE  Sound(request'[v])
  <2>1. request' = [request EXCEPT ![w] = Idle]
    BY <1>7 DEF GenerateBracket, SubmitScores, CorrectResult, WriteStatus, RemoveTeam,
       DeleteTeamRow, Abandon, Answer
  <2> HIDE DEF Sound
  <2> QED
    BY <1>3, <1>5, <2>1
<1>8. ASSUME NEW w \in Workers,
             \/ RequestBracket(w)
             \/ \E m \in Matches : OpenCorrection(w, m)
             \/ \E new \in Statuses : ChangeStatus(w, new)
             \/ RereadTournament(w)
             \/ \E c \in Contestants, confirming \in BOOLEAN : FindTeamEntries(w, c, confirming)
             \/ \E c \in Contestants : DeleteTeamEntries(w, c)
             \/ ClearTeamWinner(w)
      PROVE  Sound(request'[v])
  <2>1. \E r : r.kind # "scores" /\ request' = [request EXCEPT ![w] = r]
    <3>1. CASE RequestBracket(w)
      BY <3>1 DEF RequestBracket, Take
    <3>2. ASSUME NEW m \in Matches, OpenCorrection(w, m)
          PROVE  \E r : r.kind # "scores" /\ request' = [request EXCEPT ![w] = r]
      BY <3>2 DEF OpenCorrection, Take
    <3>3. ASSUME NEW new \in Statuses, ChangeStatus(w, new)
          PROVE  \E r : r.kind # "scores" /\ request' = [request EXCEPT ![w] = r]
      BY <3>3 DEF ChangeStatus, Take
    <3>4. CASE RereadTournament(w)
      <4> DEFINE q == [kind |-> "write", new |-> request[w].new, status |-> request[w].status,
                       winner |-> request[w].winner,
                       rowStatus |-> tournament.status, rowWinner |-> tournament.winner]
      <4>1. request' = [request EXCEPT ![w] = q] /\ q.kind = "write"
        BY <3>4 DEF RereadTournament
      <4> HIDE DEF q
      <4> QED
        BY <4>1
    <3>5. ASSUME NEW c \in Contestants, NEW confirming \in BOOLEAN, FindTeamEntries(w, c, confirming)
          PROVE  \E r : r.kind # "scores" /\ request' = [request EXCEPT ![w] = r]
      BY <3>5 DEF FindTeamEntries, Take
    <3>6. ASSUME NEW c \in Contestants, DeleteTeamEntries(w, c)
          PROVE  \E r : r.kind # "scores" /\ request' = [request EXCEPT ![w] = r]
      BY <3>6 DEF DeleteTeamEntries, Take
    <3>7. CASE ClearTeamWinner(w)
      <4> DEFINE q == [request[w] EXCEPT !.step = "row"]
      <4>1. request' = [request EXCEPT ![w] = q]
        BY <3>7 DEF ClearTeamWinner
      <4>2. q.kind = "delete"
        BY <3>7 DEF ClearTeamWinner, Serving, RequestOK
      <4> HIDE DEF q
      <4> QED
        BY <4>1, <4>2
    <3> QED
      BY <1>8, <3>1, <3>2, <3>3, <3>4, <3>5, <3>6, <3>7
  <2>2. PICK r : r.kind # "scores" /\ request' = [request EXCEPT ![w] = r]
    BY <2>1
  <2>3. Sound(r)
    BY <2>2
  <2> HIDE DEF Sound
  <2> QED
    BY <1>5, <2>2, <2>3
<1>9. ASSUME request' = request PROVE Sound(request'[v])
  BY <1>2, <1>9
<1> HIDE DEF Sound
<1>10. CASE ResultEntered
  BY <1>9, <1>10 DEF ResultEntered, EnterResult
<1>11. ASSUME NEW c \in Contestants, RemoveContestant(c) \/ RemoveUnplaced(c)
       PROVE  Sound(request'[v])
  BY <1>9, <1>11 DEF RemoveContestant, RemoveUnplaced
<1> QED
  BY <1>6, <1>7, <1>8, <1>10, <1>11 DEF Next

LEMMA NextFlow == BracketInv /\ FlowInv /\ [HistoryNext]_historyVars => FlowInv'
<1> SUFFICES ASSUME BracketInv, FlowInv, [HistoryNext]_historyVars PROVE FlowInv'
  OBVIOUS
<1>1. CASE HistoryNext
  <2>1. ReportInv'
    BY <1>1, StepReports DEF HistoryNext, FlowInv
  <2>2. ASSUME ~marred' PROVE Flowing'
    <3>1. ~marred
      BY <1>1, <2>2 DEF HistoryNext, Observe
    <3> QED
      BY <1>1, <2>2, <3>1, StepFlows DEF HistoryNext, FlowInv
  <2> QED
    BY <2>1, <2>2 DEF FlowInv
<1>2. CASE UNCHANGED historyVars
  <2> USE <1>2 DEF historyVars, vars
  <2>1. ReportInv'
    BY DEF FlowInv, ReportInv, Serving
  <2>2. Active' \subseteq Active
    BY DEF Active
  <2>3. Flowing => Flowing'
    BY <2>2, SameFlow
  <2> QED
    BY <2>1, <2>3 DEF FlowInv
<1> QED
  BY <1>1, <1>2

LEMMA Flows == HistorySpec => [](BracketInv /\ FlowInv)
<1>1. HistorySpec => []BracketInv
  BY InitInv, NextInv, PTL DEF HistorySpec
<1> QED
  BY <1>1, InitFlow, NextFlow, PTL DEF HistorySpec
-----------------------------------------------------------------------------
(* Entries are earned, and results carried on *)

LEMMA EachOnce ==
  ASSUME NEW rows \in Rows, \A d, e \in rows : d.who = e.who => d = e
  PROVE  Cardinality(Entrants(rows)) = Cardinality(rows)
<1> DEFINE f == [e \in rows |-> e.who]
           who == Entrants(rows)
<1>1. IsFiniteSet(rows)
  BY DEF Rows
<1>2. /\ \A c \in who : \E e \in rows : c = e.who
      /\ \A e \in rows : e.who \in who
  BY DEF Entrants
<1> HIDE DEF who
<1>3. f \in Bijection(rows, who)
  <2>1. f \in [rows -> who]
    BY <1>2
  <2>2. \A a, b \in DOMAIN f : f[a] = f[b] => a = b
    OBVIOUS
  <2>3. \A c \in who : \E e \in rows : f[e] = c
    BY <1>2
  <2> HIDE DEF f
  <2> QED
    BY <2>1, <2>2, <2>3 DEF Bijection, Injection, IsInjective, Surjection
<1>4. ExistsBijection(rows, who)
  <2> HIDE DEF f
  <2> QED
    BY <1>3 DEF ExistsBijection
<1>5. Cardinality(who) = Cardinality(rows)
  BY <1>1, <1>4, FS_Bijection
<1> QED
  BY <1>5 DEF who

\* What a confirmed match of two gave, it sends.
LEMMA GivenSent ==
  ASSUME NEW rank, Flow(format, tournament.matches, rank), tournament.matches \in Brackets,
         NEW x \in Matches, NEW m \in Matches, NEW c, Gives(tournament.matches, x, m, c)
  PROVE  x \in Feeders(tournament.matches, m) /\ c \in Sends(x, m)
<1> DEFINE M == tournament.matches
           rows == M[x].entries
<1>1. x \in DOMAIN M /\ m \in DOMAIN M /\ None \notin DOMAIN M /\ rows \in Rows /\ M \in Brackets
  BY BracketParts, MatchType DEF Matches
<1>2. x \in Feeders(M, m) /\ c \in Standing(M, x)
  BY <1>1, GivesForm
<1>3. Who(x) = Standing(M, x) /\ Match(x) = M[x]
  BY DEF Who, Match, Standing
<1>4. PICK e \in rows :
        /\ e.who = c
        /\ \/ /\ M[x].next = m
              /\ m = GrandFinal(1) \/ rows = {e} \/ (M[x].confirmed /\ e.score = 1)
           \/ M[x].loserNext = m /\ M[x].confirmed /\ e.score = 0
  BY DEF Gives
<1>5. format.mode # "RR"
  BY <1>1, <1>4 DEF Flow, Layout
<1>6. ASSUME M[x].confirmed, e.score \in {0, 1}, rows # {e}
      PROVE  /\ e.score = 1 => Winner(rows) = c
             /\ e.score = 0 => Loser(rows) = c
             /\ Winner(rows) # None
  <2>1. Decided(M[x])
    BY <1>1, <1>5 DEF Flow, Scores
  <2>2. PICK d, b \in rows : rows = {d, b} /\ d.score = 1 /\ b.score = 0
    BY <1>6, <2>1 DEF Decided
  <2>3. Winner(rows) = d.who /\ Loser(rows) = b.who /\ d.who # None
    <3> HIDE DEF rows
    <3> QED
      BY <1>1, <2>2, DecidedRows
  <2>4. (e.score = 1 => e = d) /\ (e.score = 0 => e = b)
    BY <2>2
  <2> QED
    BY <1>4, <2>3, <2>4
<1>7. rows = {e} => Cardinality(rows) = 1
  BY FS_Singleton
<1>8. ASSUME rows = {e}, M[x].confirmed PROVE e.score # 0
  <2>1. Decided(M[x])
    BY <1>1, <1>5 DEF Flow, Scores
  <2> QED
    BY <1>8, <2>1, NoneApart DEF Decided
<1>9. Sends(x, m) =
        (IF M[x].next # m THEN {}
         ELSE IF m = GrandFinal(1) THEN Standing(M, x)
         ELSE IF Cardinality(rows) = 1 THEN Standing(M, x)
         ELSE {Winner(rows)})
        \cup
        (IF M[x].loserNext # m \/ Winner(rows) = None THEN {} ELSE {Loser(rows)})
  BY <1>3 DEF Sends
<1> HIDE DEF M, rows
<1>10. c \in Sends(x, m)
  <2>1. CASE M[x].next = m /\ (m = GrandFinal(1) \/ rows = {e})
    BY <1>2, <1>7, <1>9, <2>1
  <2>2. CASE M[x].next = m /\ M[x].confirmed /\ e.score = 1 /\ rows # {e}
    <3>1. Winner(rows) = c
      BY <1>6, <2>2
    <3> QED
      BY <1>2, <1>9, <2>2, <3>1
  <2>3. CASE M[x].loserNext = m /\ M[x].confirmed /\ e.score = 0
    BY <1>6, <1>8, <1>9, <2>3
  <2> QED
    BY <1>4, <2>1, <2>2, <2>3
<1> QED
  BY <1>2, <1>10 DEF M

\* Whatever has been played, reported twice, corrected or vacated: nobody
\* stands in a later match but through the result of a match that leads to
\* it, and nobody stands in a match twice (_confirm_match_impl,
\* _unconfirm_match_impl, handle_defwin_for_removed_participant).
THEOREM EntriesAreEarned == HistorySpec => []EntriesEarned
<1>1. BracketInv /\ FlowInv => EntriesEarned
  <2> SUFFICES ASSUME BracketInv, FlowInv, ~marred, NEW m \in Matches
               PROVE  /\ Cardinality(Who(m)) = Cardinality(Match(m).entries)
                      /\ Feeders(tournament.matches, m) # {} =>
                           \A c \in Who(m) :
                             \E x \in Feeders(tournament.matches, m) : c \in Sends(x, m)
    BY DEF EntriesEarned
  <2> DEFINE M == tournament.matches
  <2>1. PICK rank : Flow(format, M, rank)
    BY DEF FlowInv, Flowing
  <2>2. M \in Brackets /\ m \in DOMAIN M /\ Who(m) = Standing(M, m) /\ Match(m) = M[m]
    BY TournamentForm DEF BracketInv, Matches, Who, Match, Standing
  <2> HIDE DEF M
  <2>3. Cardinality(Who(m)) = Cardinality(Match(m).entries)
    <3>1. M[m].entries \in Rows
      BY <2>2, MatchType
    <3>2. \A d, e \in M[m].entries : d.who = e.who => d = e
      BY <2>1, <2>2 DEF Flow, Pairs
    <3> QED
      BY <2>2, <3>1, <3>2, EachOnce DEF Standing
  <2>4. ASSUME Feeders(M, m) # {} PROVE m \notin Starting
    <3>1. PICK x \in DOMAIN M : m \in {M[x].next, M[x].loserNext}
      BY <2>4 DEF Feeders
    <3>2. Layout(format, M, rank)
      BY <2>1 DEF Flow
    <3>3. m # None /\ m \in Ids /\ x \in Ids
      BY <2>2, BracketParts
    <3>4. rank[x] < rank[m] /\ rank[x] \in Nat /\ rank[m] \in Nat
      BY <3>1, <3>2, <3>3 DEF Layout
    <3>5. rank[m] # 0
      BY <3>4
    <3> QED
      BY <2>2, <3>2, <3>5 DEF Layout
  <2>5. ASSUME Feeders(M, m) # {}, NEW c \in Who(m)
        PROVE  \E x \in Feeders(M, m) : c \in Sends(x, m)
    <3>1. PICK x \in DOMAIN M : Gives(M, x, m, c)
      BY <2>1, <2>2, <2>4, <2>5 DEF Flow, Earned
    <3>2. x \in Feeders(M, m) /\ c \in Sends(x, m)
      BY <2>1, <2>2, <3>1, GivenSent DEF M, Matches
    <3> QED
      BY <3>2
  <2> QED
    BY <2>3, <2>5 DEF M
<1> QED
  BY <1>1, Flows, PTL

\* And whoever a result sent on, and has not left, stands where it sent
\* them: no correction, removal or second report loses a contestant
\* (_advance_winner, _advance_loser_to_lb).
THEOREM ResultsAreCarried == HistorySpec => []ResultsCarried
<1>1. BracketInv /\ FlowInv => ResultsCarried
  <2> SUFFICES ASSUME BracketInv, FlowInv, ~marred, NEW m \in Matches,
                      Match(m).confirmed, Winner(Match(m).entries) # None
               PROVE  LET winner == Winner(Match(m).entries)
                      IN  /\ Match(m).next # None /\ winner \in Active => winner \in Who(Match(m).next)
                          /\ Match(m).loserNext # None /\ Loser(Match(m).entries) \in Active
                               => Loser(Match(m).entries) \in Who(Match(m).loserNext)
    BY DEF ResultsCarried
  <2> DEFINE M == tournament.matches
             rows == M[m].entries
             n == M[m].next
             l == M[m].loserNext
  <2>1. PICK rank : Flow(format, M, rank) /\ Carried(M, Active, {})
    BY DEF FlowInv, Flowing
  <2>2. M \in Brackets /\ m \in DOMAIN M /\ Match(m) = M[m] /\ \A x : Who(x) = Standing(M, x)
    BY TournamentForm DEF BracketInv, Matches, Who, Match, Standing
  <2> HIDE DEF M
  <2>3. /\ rows \in Rows /\ n \in DOMAIN M \cup {None} /\ l \in DOMAIN M \cup {None}
        /\ None \notin DOMAIN M
    BY <2>2, BracketParts, MatchType
  <2>4. CASE n = None /\ l = None
    BY <2>2, <2>4
  <2>5. CASE n # None \/ l # None
    <3>1. format.mode # "RR"
      BY <2>1, <2>2, <2>5 DEF Flow, Layout
    <3>2. Decided(M[m])
      BY <2>1, <2>2, <3>1 DEF Flow, Scores
    <3>3. Cardinality(rows) # 1
      <4>1. Cardinality(rows) >= 2
        BY <2>2 DEF Winner
      <4> HIDE DEF rows
      <4> QED
        BY <4>1
    <3>4. PICK d, e \in rows : rows = {d, e} /\ d.score = 1 /\ e.score = 0
      <4>1. \A e \in rows : rows # {e}
        BY <3>3, FS_Singleton
      <4> QED
        BY <2>2, <3>2, <4>1 DEF Decided
    <3>5. Winner(rows) = d.who /\ Loser(rows) = e.who
      <4> HIDE DEF rows
      <4> QED
        BY <2>3, <3>4, DecidedRows
    <3>6. Gives(M, m, n, d.who) /\ Gives(M, m, l, e.who)
      BY <2>2, <3>4 DEF Gives
    <3>7. /\ n # None /\ d.who \in Active => d.who \in Standing(M, n)
          /\ l # None /\ e.who \in Active => e.who \in Standing(M, l)
      BY <2>1, <2>2, <2>3, <3>6 DEF Carried
    <3> QED
      BY <2>2, <3>5, <3>7
  <2> QED
    BY <2>4, <2>5
<1> QED
  BY <1>1, Flows, PTL
-----------------------------------------------------------------------------
(* Who wins the tournament *)

\* The matches whose results decide.
Ends(f, M) == {x \in DOMAIN M : x[1] # "LB" /\ Deciding(f, x, M[x].next)}

\* One match decides, in a double elimination a grand final; what leads
\* nowhere in the losers' bracket has nothing leading to it.
Finals(f, M) ==
  /\ \A x, y \in Ends(f, M) : x = y
  /\ GrandFinal(0) \in DOMAIN M =>
       /\ M[GrandFinal(0)].next \in {None, GrandFinal(1)}
       /\ Ends(f, M) \subseteq {GrandFinal(0), GrandFinal(1)}
  /\ \A x \in DOMAIN M : x[1] = "LB" /\ M[x].next = None => Feeders(M, x) = {}

Takes(match) ==
  IF Cardinality(match.entries) = 1 THEN CHOOSE c \in Entrants(match.entries) : TRUE
  ELSE Winner(match.entries)

\* The row of the tournament and the bracket agree.
Stands(f, t) ==
  /\ t.winner # None => /\ t.status = "COMPLETED"
                        /\ \E x \in Ends(f, t.matches) : t.matches[x].confirmed
  /\ \A x \in Ends(f, t.matches) : t.matches[x].confirmed => Takes(t.matches[x]) = t.winner

\* The rows of a confirmed match are not some of another's.
LEMMA DecidedSame ==
  ASSUME NEW f, f.mode # "RR", NEW M, NEW rank, Flow(f, M, rank), NEW x \in DOMAIN M, M[x].confirmed,
         NEW N, NEW r, Flow(f, N, r), NEW y \in DOMAIN N, N[y].confirmed,
         M[x].entries \subseteq N[y].entries
  PROVE  M[x].entries = N[y].entries /\ Takes(M[x]) = Takes(N[y])
<1>1. Decided(M[x]) /\ Decided(N[y])
  BY DEF Flow, Scores
<1>2. \A c, d, e \in N[y].entries : c = d \/ d = e \/ c = e
  BY DEF Flow, Pairs
<1>3. M[x].entries = N[y].entries
  BY <1>1, <1>2, NoneApart DEF Decided
<1> QED
  BY <1>3 DEF Takes

\* A bracket as it was made: without the match of a bracket reset.
Bare(M) ==
  [x \in DOMAIN M \ {GrandFinal(1)} |->
     IF x = GrandFinal(0) THEN [M[x] EXCEPT !.next = None] ELSE M[x]]

LEMMA BareForm ==
  ASSUME NEW f, NEW M \in Brackets, Finals(f, M), LinksUp(M)
  PROVE  LET made == Bare(M)
         IN  GrandFinal(1) \notin DOMAIN made /\ LinksUp(made) /\ Drawn(made, M)
<1> DEFINE made == Bare(M)
<1>1. M \in [DOMAIN M -> MatchIn(DOMAIN M)]
  BY BracketsForm
<1>2. DOMAIN made = DOMAIN M \ {GrandFinal(1)}
  BY DEF Bare
<1>3. \A x \in DOMAIN made :
        /\ made[x].loserNext = M[x].loserNext
        /\ x # GrandFinal(0) => made[x].next = M[x].next
        /\ x = GrandFinal(0) => made[x].next = None
        /\ made[x].entries = M[x].entries
  BY <1>1 DEF Bare, MatchIn
<1> HIDE DEF made
<1>4. LinksUp(made)
  BY <1>2, <1>3, NotStarting DEF LinksUp
<1>5. GrandFinal(0) \in DOMAIN M => M[GrandFinal(0)].next \in {None, GrandFinal(1)}
  BY DEF Finals
<1> QED
  BY <1>2, <1>3, <1>4, <1>5 DEF Drawn, made

\* What decides is the same whatever has become of a bracket.
LEMMA FinalsKept ==
  ASSUME NEW f, NEW M \in Brackets, NEW N \in Brackets, Finals(f, M),
         NEW made, GrandFinal(1) \notin DOMAIN made, Drawn(made, M), Drawn(made, N)
  PROVE  Finals(f, N)
<1> DEFINE first == GrandFinal(0)
           second == GrandFinal(1)
<1>1. /\ DOMAIN M \ {second} = DOMAIN made /\ DOMAIN N \ {second} = DOMAIN made
      /\ \A x \in DOMAIN made :
           /\ M[x].loserNext = made[x].loserNext /\ N[x].loserNext = made[x].loserNext
           /\ x # first => M[x].next = made[x].next /\ N[x].next = made[x].next
           /\ x = first => N[x].next \in {None, second}
  BY DEF Drawn
<1>2. first # second /\ first[1] # "LB" /\ second[1] # "LB" /\ second # None
  BY GrandFinals DEF GrandFinal
<1>3. /\ second \in DOMAIN M => first \in DOMAIN M
      /\ second \in DOMAIN N => /\ first \in DOMAIN N /\ N[first].next = second
                                /\ N[second].next = None /\ N[second].loserNext = None
      /\ None \notin DOMAIN N
  BY BracketParts
<1> HIDE DEF first, second
<1>4. CASE first \notin DOMAIN made
  <2>1. DOMAIN M = DOMAIN N /\ first \notin DOMAIN N
    BY <1>1, <1>2, <1>3, <1>4
  <2>2. \A x \in DOMAIN N : N[x].next = M[x].next /\ N[x].loserNext = M[x].loserNext
    BY <1>1, <1>2, <1>3, <1>4, <2>1
  <2>3. Ends(f, N) = Ends(f, M)
    BY <2>1, <2>2 DEF Ends
  <2>4. \A x : Feeders(N, x) = Feeders(M, x)
    BY <2>1, <2>2 DEF Feeders
  <2> QED
    BY <2>1, <2>2, <2>3, <2>4 DEF Finals, first
<1>5. CASE first \in DOMAIN made
  <2>1. first \in DOMAIN M /\ first \in DOMAIN N
    BY <1>1, <1>5
  <2>2. \A x \in DOMAIN N \ {first, second} : x \in DOMAIN M /\ N[x].next = M[x].next
    BY <1>1
  <2>3. Ends(f, M) \subseteq {first, second}
    BY <2>1 DEF Finals, first, second
  <2>4. Ends(f, N) \subseteq {first, second}
    BY <2>2, <2>3 DEF Ends
  <2>5. second \in DOMAIN N => first \notin Ends(f, N)
    BY <1>2, <1>3, <2>1 DEF Ends, Deciding
  <2>6. Ends(f, N) \subseteq DOMAIN N
    BY DEF Ends
  <2>7. \A x, y \in Ends(f, N) : x = y
    BY <2>4, <2>5, <2>6
  <2>8. N[first].next \in {None, second}
    BY <1>1, <1>5
  <2>9. ASSUME NEW x \in DOMAIN N, x[1] = "LB", N[x].next = None
        PROVE  Feeders(N, x) = {}
    <3>1. x # first /\ x # second /\ x # None
      BY <1>2, <1>3, <2>9
    <3>2. x \in DOMAIN M /\ M[x].next = None
      BY <2>2, <2>9, <3>1
    <3>3. Feeders(M, x) = {}
      BY <2>9, <3>2 DEF Finals
    <3>4. ASSUME NEW y \in Feeders(N, x) PROVE y \in Feeders(M, x)
      <4>1. y \in DOMAIN N /\ x \in {N[y].next, N[y].loserNext}
        BY <3>4 DEF Feeders
      <4>2. y # second
        BY <1>3, <3>1, <4>1
      <4>3. y \in DOMAIN made
        BY <1>1, <4>1, <4>2
      <4>4. N[y].loserNext = M[y].loserNext /\ (x = N[y].next => N[y].next = M[y].next)
        BY <1>1, <1>2, <2>8, <3>1, <4>1, <4>3
      <4> QED
        BY <1>1, <4>1, <4>3, <4>4 DEF Feeders
    <3> QED
      BY <3>3, <3>4
  <2> QED
    BY <2>1, <2>4, <2>7, <2>8, <2>9 DEF Finals, first, second
<1> QED
  BY <1>4, <1>5
\* One match decides a bracket that is made, and it is yet to be played.
LEMMA OpeningUndecided ==
  ASSUME NEW S, NEW list \in Seq(S), Len(list) >= 2, NEW bracket \in {"MAIN", "WB"},
         NEW M, Opening(M, list, bracket), NEW f, NEW x \in Ends(f, M)
  PROVE  ~M[x].confirmed
<1> DEFINE p == Rounds(list)
           tree == Tree(bracket, p)
<1>1. p \in Nat \ {0}
  BY RoundsType
<1>2. /\ \A y \in DOMAIN M : M[y].confirmed = (y \in tree /\ y[2] = 0 /\ p > 1 /\ Alone(list, y[3]))
      /\ \A y \in tree : y[2] < p - 1 => M[y].next = <<bracket, y[2] + 1, y[3] \div 2>>
  BY DEF Opening
<1>3. \A id \in tree : /\ id = <<bracket, id[2], id[3]>>
                       /\ id[3] \in 0..(Pow2[p - 1 - id[2]] - 1)
  <2> HIDE DEF p
  <2> QED
    BY <1>1, TreeForm
<1> HIDE DEF p, tree
<1>4. x \in DOMAIN M /\ M[x].next = None
  BY DEF Ends, Deciding
<1> SUFFICES ASSUME M[x].confirmed PROVE FALSE
  OBVIOUS
<1>5. x \in tree /\ x[2] = 0 /\ p > 1
  BY <1>2, <1>4
<1>6. x[3] \in Nat
  BY <1>3, <1>5
<1>7. <<bracket, x[2] + 1, x[3] \div 2>> \in Ids
  <2>1. x[2] + 1 \in Nat /\ x[3] \div 2 \in Nat
    BY <1>5, <1>6
  <2> QED
    BY <2>1 DEF Ids
<1>8. M[x].next = <<bracket, x[2] + 1, x[3] \div 2>>
  BY <1>1, <1>2, <1>5
<1> QED
  BY <1>4, <1>7, <1>8, GrandFinals

LEMMA SingleEliminationFinals ==
  ASSUME NEW S, NEW list \in Seq(S), Len(list) >= 2, NEW f
  PROVE  Finals(f, SingleElimination(list))
<1> DEFINE M == SingleElimination(list)
           p == Rounds(list)
           tree == Tree("MAIN", p)
<1>1. /\ \A x \in DOMAIN M : \/ x \in tree /\ x[1] = "MAIN"
                             \/ x = ThirdPlace /\ x[1] = "P3"
      /\ \A x \in tree : (M[x].next = None) <=> (x[2] = p - 1)
  BY SingleEliminationLinks
<1>2. p \in Nat \ {0}
  BY RoundsType
<1>3. \A id \in tree : /\ id = <<"MAIN", id[2], id[3]>>
                       /\ id[3] \in 0..(Pow2[p - 1 - id[2]] - 1)
  <2> HIDE DEF p
  <2> QED
    BY <1>2, TreeForm
<1> HIDE DEF M, p, tree
<1>4. ASSUME NEW x \in Ends(f, M) PROVE x = <<"MAIN", p - 1, 0>>
  <2>1. x \in DOMAIN M /\ M[x].next = None /\ x # ThirdPlace
    BY DEF Ends, Deciding
  <2>2. x \in tree /\ x[2] = p - 1
    BY <1>1, <2>1
  <2>3. x[3] \in 0..(Pow2[p - 1 - (p - 1)] - 1) /\ p - 1 - (p - 1) = 0
    BY <1>2, <1>3, <2>2
  <2>4. x[3] = 0
    <3> DEFINE k == p - 1 - (p - 1)
    <3>1. k = 0 /\ x[3] \in 0..(Pow2[k] - 1)
      BY <2>3
    <3> HIDE DEF k
    <3>2. Pow2[k] = 1
      BY <3>1, Pow2Type
    <3> QED
      BY <3>1, <3>2
  <2> QED
    BY <1>3, <2>2, <2>4
<1>5. GrandFinal(0) \notin DOMAIN M
  <2>1. GrandFinal(0)[1] = "GF"
    BY DEF GrandFinal
  <2> QED
    BY <1>1, <2>1
<1> QED
  BY <1>1, <1>4, <1>5 DEF Finals, M

LEMMA DoubleEliminationFinals ==
  ASSUME NEW list \in Seq(Contestants), Len(list) >= 4, NEW f
  PROVE  Finals(f, DoubleElimination(list))
<1> DEFINE M == DoubleElimination(list)
<1>1. \A x \in DOMAIN M :
        \/ x[1] = "WB" /\ M[x].next # None
        \/ /\ x[1] = "LB"
           /\ M[x].next = None => \A y \in DOMAIN M : x \notin {M[y].next, M[y].loserNext}
        \/ x = GrandFinal(0) /\ x[1] = "GF" /\ M[x].next = None
  BY DoubleEliminationLinks
<1> HIDE DEF M
<1>2. Ends(f, M) \subseteq {GrandFinal(0)}
  BY <1>1 DEF Ends, Deciding
<1>3. GrandFinal(0) \in DOMAIN M => M[GrandFinal(0)].next = None
  <2>1. GrandFinal(0)[1] = "GF"
    BY DEF GrandFinal
  <2> QED
    BY <1>1, <2>1
<1>4. \A x \in DOMAIN M : x[1] = "LB" /\ M[x].next = None => Feeders(M, x) = {}
  BY <1>1 DEF Feeders
<1> QED
  BY <1>2, <1>3, <1>4 DEF Finals, M

LEMMA BracketFinals ==
  ASSUME NEW f \in Formats, NEW list \in Seq(Contestants),
         Len(list) >= IF f.mode = "DE" THEN 4 ELSE 2
  PROVE  /\ Finals(f, Bracket(f, list))
         /\ \A x \in Ends(f, Bracket(f, list)) : ~Bracket(f, list)[x].confirmed
<1> DEFINE M == Bracket(f, list)
<1>1. f.mode \in {"SE", "DE", "RR"} /\ Len(list) >= 2 /\ (f.mode = "DE" => Len(list) >= 4)
  BY FormatsChecked
<1>2. CASE f.mode = "SE"
  <2>1. M = SingleElimination(list)
    BY <1>2 DEF Bracket
  <2>2. Finals(f, M) /\ Opening(M, list, "MAIN")
    BY <1>1, <2>1, SingleEliminationFinals, SingleEliminationOpening
  <2> HIDE DEF M
  <2>3. \A x \in Ends(f, M) : ~M[x].confirmed
    BY <1>1, <2>2, OpeningUndecided
  <2> QED
    BY <2>2, <2>3 DEF M
<1>3. CASE f.mode = "DE"
  <2>1. M = DoubleElimination(list)
    BY <1>3 DEF Bracket
  <2>2. Finals(f, M) /\ Opening(M, list, "WB")
    BY <1>1, <1>3, <2>1, DoubleEliminationFinals, DoubleEliminationOpening
  <2> HIDE DEF M
  <2>3. \A x \in Ends(f, M) : ~M[x].confirmed
    BY <1>1, <2>2, OpeningUndecided
  <2> QED
    BY <2>2, <2>3 DEF M
<1>4. CASE f.mode = "RR"
  <2>1. M = RoundRobin(list)
    BY <1>4 DEF Bracket
  <2>2. \A x \in DOMAIN M : x[1] = "RR"
    <3>1. DOMAIN M = Meetings(list)
      BY <1>1, <2>1, RoundRobinForm
    <3>2. Half(list) \in Nat \ {0}
      BY <1>1, HalfType
    <3> HIDE DEF M
    <3>3. \A x \in DOMAIN M : x = <<"RR", x[2], x[3]>>
      BY <1>1, <3>1, <3>2, MeetingForm
    <3> QED
      BY <3>3
  <2>3. GrandFinal(0)[1] = "GF"
    BY DEF GrandFinal
  <2> HIDE DEF M
  <2>4. Ends(f, M) = {}
    BY <1>4 DEF Ends, Deciding
  <2>5. Finals(f, M)
    BY <2>2, <2>3, <2>4 DEF Finals
  <2> QED
    BY <2>4, <2>5 DEF M
<1> QED
  BY <1>1, <1>2, <1>3, <1>4
LEMMA LayoutLinksUp ==
  ASSUME NEW f, NEW M \in Brackets, NEW rank, Layout(f, M, rank)
  PROVE  LinksUp(M)
<1> SUFFICES ASSUME NEW x \in DOMAIN M
             PROVE  M[x].next \notin Starting /\ M[x].loserNext \notin Starting
  BY DEF LinksUp
<1>1. M[x].next \in DOMAIN M \cup {None} /\ M[x].loserNext \in DOMAIN M \cup {None} /\ x \in Ids
  BY MatchType
<1>2. /\ rank \in [Ids -> Nat]
      /\ M[x].next # None => rank[x] < rank[M[x].next]
      /\ M[x].loserNext # None => rank[x] < rank[M[x].loserNext]
      /\ \A y \in DOMAIN M : y \in Starting <=> rank[y] = 0
  BY DEF Layout
<1>3. rank[x] \in Nat
  BY <1>1, <1>2
<1>4. M[x].next \notin Starting
  BY <1>1, <1>2, <1>3, NotStarting
<1>5. M[x].loserNext \notin Starting
  BY <1>1, <1>2, <1>3, NotStarting
<1> QED
  BY <1>4, <1>5

\* What the result of match m brings about elsewhere: rows are added, what
\* leads somewhere still does, and no match that decides is confirmed.
Grew(M, N, m) ==
  /\ m \in DOMAIN M /\ M[m].confirmed
  /\ DOMAIN M \subseteq DOMAIN N
  /\ \A x \in DOMAIN M :
       /\ M[x].entries \subseteq N[x].entries
       /\ M[x].confirmed => N[x].confirmed
       /\ M[x].next # None \/ x # m => N[x].next = M[x].next
  /\ \A x \in DOMAIN N :
       /\ N[x].confirmed => x \in DOMAIN M /\ (M[x].confirmed \/ M[x].next # None)
       /\ x \notin DOMAIN M => N[x].next = None

LEMMA GrewSelf ==
  ASSUME NEW M, NEW m \in DOMAIN M, M[m].confirmed
  PROVE  Grew(M, M, m)
BY DEF Grew

LEMMA GrewOn ==
  ASSUME NEW A, NEW B, NEW C, NEW m, Grew(A, B, m), Grew(B, C, m)
  PROVE  Grew(A, C, m)
<1>1. m \in DOMAIN A /\ A[m].confirmed /\ \A x \in DOMAIN A : x \in DOMAIN B /\ x \in DOMAIN C
  BY DEF Grew
<1>2. \A x \in DOMAIN A : /\ A[x].entries \subseteq C[x].entries
                          /\ A[x].confirmed => C[x].confirmed
  BY <1>1 DEF Grew
<1>3. \A x \in DOMAIN A : A[x].next # None \/ x # m => C[x].next = A[x].next
  BY <1>1 DEF Grew
<1>4. ASSUME NEW x \in DOMAIN C, C[x].confirmed
      PROVE  x \in DOMAIN A /\ (A[x].confirmed \/ A[x].next # None)
  <2>1. x \in DOMAIN B /\ (B[x].confirmed \/ B[x].next # None)
    BY <1>4 DEF Grew
  <2>2. CASE B[x].confirmed
    BY <2>1, <2>2 DEF Grew
  <2>3. CASE B[x].next # None
    <3>1. x \in DOMAIN A
      BY <2>1, <2>3 DEF Grew
    <3>2. x = m \/ B[x].next = A[x].next
      BY <3>1 DEF Grew
    <3> QED
      BY <1>1, <2>3, <3>1, <3>2
  <2> QED
    BY <2>1, <2>2, <2>3
<1>5. ASSUME NEW x \in DOMAIN C, x \notin DOMAIN A PROVE C[x].next = None
  <2>1. CASE x \in DOMAIN B
    <3>1. x # m /\ B[x].next = None
      BY <1>1, <1>5, <2>1 DEF Grew
    <3> QED
      BY <2>1, <3>1 DEF Grew
  <2>2. CASE x \notin DOMAIN B
    BY <2>2 DEF Grew
  <2> QED
    BY <2>1, <2>2
<1> QED
  BY <1>1, <1>2, <1>3, <1>4, <1>5 DEF Grew

LEMMA SentGrew ==
  ASSUME NEW t \in Tournaments, NEW k \in DOMAIN t.matches \cup {None}, NEW c \in Contestants,
         NEW m \in DOMAIN t.matches, t.matches[m].confirmed
  PROVE  Grew(t.matches, Sent(t, k, c).matches, m)
<1>1. CASE k = None
  BY <1>1, GrewSelf DEF Sent
<1>2. CASE k # None
  <2>1. Grows(t.matches, Sent(t, k, c).matches, k, c)
    BY <1>2, SentGrows
  <2> DEFINE M == t.matches
             N == Sent(t, k, c).matches
  <2> HIDE DEF M, N
  <2>2. Grows(M, N, k, c) /\ m \in DOMAIN M /\ M[m].confirmed
    BY <2>1 DEF M, N
  <2>3. /\ DOMAIN N = DOMAIN M
        /\ \A x \in DOMAIN M : /\ N[x].next = M[x].next /\ N[x].confirmed = M[x].confirmed
                               /\ M[x].entries \subseteq N[x].entries
    BY <2>2 DEF Grows, LinkedAs
  <2>4. Grew(M, N, m)
    BY <2>2, <2>3 DEF Grew
  <2> QED
    BY <2>4 DEF M, N
<1> QED
  BY <1>1, <1>2

LEMMA PassOnGrew ==
  ASSUME NEW t \in Tournaments, NEW k \in DOMAIN t.matches,
         NEW m \in DOMAIN t.matches, t.matches[m].confirmed
  PROVE  Grew(t.matches, PassOn(t, k).matches, m)
<1> DEFINE M == t.matches
           rows == M[k].entries
           next == M[k].next
           sole == (CHOOSE e \in rows : TRUE).who
           sent == Sent(t, next, sole)
           passed == AsConfirmed(sent, k)
<1>1. rows \in Rows /\ next \in DOMAIN M \cup {None}
  BY TournamentForm, MatchType
<1>2. CASE PassOn(t, k) = t
  BY <1>2, GrewSelf
<1>3. CASE next # None /\ Cardinality(rows) = 1 /\ PassOn(t, k) = passed
  <2>1. sole \in Contestants
    BY <1>1, <1>3, SoleType
  <2>2. sent \in Tournaments /\ Grew(M, sent.matches, m) /\ SameButRows(M, sent.matches)
    <3> HIDE DEF next, sole
    <3> QED
      BY <1>1, <2>1, SentType, SentGrew
  <2>3. k \in DOMAIN sent.matches /\ sent.matches[k].next # None
    <3> HIDE DEF sent
    <3> QED
      BY <1>3, <2>2 DEF SameButRows
  <2>4. Confirms(sent.matches, passed.matches, k) /\ passed.matches[k].entries = sent.matches[k].entries
    <3> HIDE DEF sent
    <3> QED
      BY <2>2, <2>3, ConfirmsForm
  <2>5. m \in DOMAIN sent.matches /\ sent.matches[m].confirmed
    <3> HIDE DEF sent
    <3> QED
      BY <2>2 DEF Grew
  <2> DEFINE A == sent.matches
             B == passed.matches
  <2> HIDE DEF A, B, sent, passed, M
  <2>6. Confirms(A, B, k) /\ B[k].entries = A[k].entries /\ k \in DOMAIN A /\ A[k].next # None
        /\ m \in DOMAIN A /\ A[m].confirmed /\ Grew(M, A, m)
    BY <2>2, <2>3, <2>4, <2>5 DEF A, B
  <2>7. Grew(A, B, m)
    <3>1. /\ DOMAIN B = DOMAIN A
          /\ \A x \in DOMAIN A : B[x].next = A[x].next
          /\ B[k].confirmed /\ B[k].entries = A[k].entries
          /\ \A x \in DOMAIN A \ {k} : B[x].confirmed = A[x].confirmed /\ B[x].entries = A[x].entries
      BY <2>6 DEF Confirms, LinkedAs
    <3> QED
      BY <2>6, <3>1 DEF Grew
  <2>8. Grew(M, B, m)
    BY <2>6, <2>7, GrewOn
  <2> QED
    BY <1>3, <2>8 DEF B, M
<1>4. PassOn(t, k) = t \/ (next # None /\ Cardinality(rows) = 1 /\ PassOn(t, k) = passed)
  BY DEF PassOn, AsConfirmed
<1> QED
  BY <1>2, <1>3, <1>4

LEMMA WithResetGrew ==
  ASSUME NEW t \in Tournaments, GrandFinal(0) \in DOMAIN t.matches,
         t.matches[GrandFinal(0)].confirmed, t.matches[GrandFinal(0)].next = None
  PROVE  Grew(t.matches, WithReset(t).matches, GrandFinal(0))
<1> DEFINE first == GrandFinal(0)
           second == GrandFinal(1)
           M == t.matches
           N == WithReset(t).matches
           who == Entrants(M[first].entries)
<1>0. first # second
  BY GrandFinals
<1>1. N = [x \in DOMAIN M \cup {second} |->
               CASE x = second -> Made(None, None, FALSE, who)
                 [] x = first  -> [M[first] EXCEPT !.next = second]
                 [] OTHER      -> M[x]]
  BY DEF WithReset, Tournaments
<1>2. M \in Brackets /\ M \in [DOMAIN M -> MatchIn(DOMAIN M)] /\ second \notin DOMAIN M
  BY TournamentForm, BracketsForm, WithResetType
<1>3. /\ Made(None, None, FALSE, who).next = None /\ Made(None, None, FALSE, who).confirmed = FALSE
  BY DEF Made
<1> HIDE DEF who
<1>4. /\ DOMAIN N = DOMAIN M \cup {second}
      /\ N[second].next = None /\ N[second].confirmed = FALSE
  <2> DEFINE made == Made(None, None, FALSE, who)
  <2> HIDE DEF second, first, M, N, made
  <2>1. N = [x \in DOMAIN M \cup {second} |->
               CASE x = second -> made
                 [] x = first  -> [M[first] EXCEPT !.next = second]
                 [] OTHER      -> M[x]]
    BY <1>1 DEF made
  <2>2. N[second] = made
    BY <1>0, <2>1
  <2> QED
    BY <1>3, <2>1, <2>2 DEF made
<1>5. \A x \in DOMAIN M : /\ N[x].entries = M[x].entries /\ N[x].confirmed = M[x].confirmed
                          /\ x # first => N[x].next = M[x].next
  <2> HIDE DEF second, first, M, N
  <2> QED
    BY <1>1, <1>2 DEF MatchIn
<1>6. first \in DOMAIN M /\ M[first].confirmed /\ M[first].next = None
  OBVIOUS
<1> HIDE DEF M, N, first, second
<1> QED
  <2>1. Grew(M, N, first)
    BY <1>2, <1>4, <1>5, <1>6 DEF Grew
  <2> QED
    BY <2>1 DEF M, N, first
\* The tournament with the result of match m, before it may be concluded.
Entered(t, f, m, who, done) ==
  /\ done \in Tournaments
  /\ Confirmed(t, f, m, who) = Concluded(done, f, m, done.matches[m].next, who)
  /\ Grew(Scored(t, m, who).matches, done.matches, m)
  /\ done.status = t.status /\ done.winner = t.winner

LEMMA SameColumns ==
  ASSUME NEW t \in Tournaments
  PROVE  /\ \A k, c : Sent(t, k, c).status = t.status /\ Sent(t, k, c).winner = t.winner
         /\ \A m : AsConfirmed(t, m).status = t.status /\ AsConfirmed(t, m).winner = t.winner
         /\ \A m, who : Scored(t, m, who).status = t.status /\ Scored(t, m, who).winner = t.winner
         /\ WithReset(t).status = t.status /\ WithReset(t).winner = t.winner
         /\ \A m : PassOn(t, m).status = t.status /\ PassOn(t, m).winner = t.winner
<1>1. \A k, c : Sent(t, k, c).status = t.status /\ Sent(t, k, c).winner = t.winner
  BY DEF Tournaments, Sent
<1>2. \A m : AsConfirmed(t, m).status = t.status /\ AsConfirmed(t, m).winner = t.winner
  BY DEF Tournaments, AsConfirmed
<1>3. \A m, who : Scored(t, m, who).status = t.status /\ Scored(t, m, who).winner = t.winner
  BY DEF Tournaments, Scored
<1>4. WithReset(t).status = t.status /\ WithReset(t).winner = t.winner
  BY DEF Tournaments, WithReset
<1>5. ASSUME NEW m PROVE PassOn(t, m).status = t.status /\ PassOn(t, m).winner = t.winner
  BY DEF Tournaments, PassOn, Sent
<1> QED
  BY <1>1, <1>2, <1>3, <1>4, <1>5

LEMMA ConfirmedEnters ==
  ASSUME NEW t \in Tournaments, NEW f, NEW m \in DOMAIN t.matches, NEW who \in Contestants,
         Playable(f, t.matches[m])
  PROVE  \E done : Entered(t, f, m, who, done)
<1> DEFINE rows == WithResult(t.matches[m].entries, who)
           set == Scored(t, m, who)
           next == t.matches[m].next
           lower == t.matches[m].loserNext
           advanced == Sent(set, next, who)
           sent == Sent(advanced, lower, Loser(rows))
           dropped == IF lower = None THEN advanced ELSE PassOn(sent, lower)
           done == IF NeedsReset(dropped, f, m, who) THEN WithReset(dropped) ELSE dropped
           last == Concluded(done, f, m, done.matches[m].next, who)
<1>1. Confirmed(t, f, m, who) = last
  <2>1. Confirmed(t, f, m, who) = IF who = None THEN set ELSE last
    BY DEF Confirmed, Scored
  <2> HIDE DEF last, set
  <2> QED
    BY <2>1, NoneApart
<1>2. /\ set \in Tournaments /\ m \in DOMAIN set.matches /\ set.matches[m].confirmed
      /\ set.status = t.status /\ set.winner = t.winner
      /\ next \in DOMAIN set.matches \cup {None} /\ lower \in DOMAIN set.matches \cup {None}
  <2>1. set \in Tournaments /\ DOMAIN set.matches = DOMAIN t.matches
    BY ScoredType
  <2>2. Confirms(t.matches, set.matches, m)
    BY ScoredForm
  <2>3. set.matches[m].confirmed
    <3> HIDE DEF set
    <3> QED
      BY <2>2 DEF Confirms
  <2>4. set.status = t.status /\ set.winner = t.winner
    BY SameColumns
  <2>5. next \in DOMAIN t.matches \cup {None} /\ lower \in DOMAIN t.matches \cup {None}
    BY TournamentForm, MatchType
  <2> HIDE DEF set, next, lower
  <2> QED
    BY <2>1, <2>3, <2>4, <2>5
<1>3. Loser(rows) \in Contestants
  BY PlayableLoser, NoneApart
<1> DEFINE loser == Loser(rows)
           S == set.matches
           Holds(u) == /\ u \in Tournaments /\ u.status = t.status /\ u.winner = t.winner
                       /\ Grew(S, u.matches, m)
                       /\ m \in DOMAIN u.matches /\ u.matches[m].confirmed
                       /\ \A k \in DOMAIN S : k \in DOMAIN u.matches
<1> HIDE DEF set, rows, next, lower, loser
<1>4. Holds(set)
  BY <1>2, GrewSelf
<1>5. ASSUME NEW u, NEW v, Holds(u), v \in Tournaments, v.status = u.status, v.winner = u.winner,
             Grew(u.matches, v.matches, m)
      PROVE  Holds(v)
  <2>1. Grew(S, v.matches, m)
    <3> HIDE DEF S
    <3> QED
      BY <1>5, GrewOn
  <2>2. m \in DOMAIN v.matches /\ v.matches[m].confirmed /\ \A k \in DOMAIN S : k \in DOMAIN v.matches
    BY <1>5 DEF Grew
  <2> QED
    BY <1>5, <2>1, <2>2
<1>6. ASSUME NEW u, Holds(u), NEW k \in DOMAIN S \cup {None}, NEW c \in Contestants
      PROVE  Holds(Sent(u, k, c))
  <2> DEFINE v == Sent(u, k, c)
  <2>1. k \in DOMAIN u.matches \cup {None}
    BY <1>6
  <2>2. v \in Tournaments /\ Grew(u.matches, v.matches, m) /\ v.status = u.status /\ v.winner = u.winner
    BY <1>6, <2>1, SentType, SentGrew
  <2> HIDE DEF v, Holds
  <2>3. Holds(v)
    BY <1>5, <1>6, <2>2
  <2> QED
    BY <2>3 DEF v
<1>7. Holds(advanced)
  <2> HIDE DEF Holds
  <2> QED
    BY <1>2, <1>4, <1>6
<1>8. Holds(sent)
  <2> HIDE DEF Holds, advanced
  <2>1. Holds(Sent(advanced, lower, loser))
    BY <1>2, <1>3, <1>6, <1>7 DEF loser
  <2> QED
    BY <2>1 DEF loser
<1> HIDE DEF advanced, sent
<1>9. Holds(dropped)
  <2>1. CASE lower = None
    BY <1>7, <2>1
  <2>2. CASE lower # None
    <3> DEFINE v == PassOn(sent, lower)
    <3>1. lower \in DOMAIN sent.matches
      BY <1>2, <1>8, <2>2
    <3>2. v \in Tournaments /\ Grew(sent.matches, v.matches, m)
          /\ v.status = sent.status /\ v.winner = sent.winner
      BY <1>8, <3>1, PassOnType, PassOnGrew, SameColumns
    <3> HIDE DEF v, Holds
    <3>3. Holds(v)
      BY <1>5, <1>8, <3>2
    <3> QED
      BY <2>2, <3>3 DEF v
  <2> QED
    BY <2>1, <2>2
<1> HIDE DEF dropped
<1>10. Holds(done)
  <2>1. CASE NeedsReset(dropped, f, m, who)
    <3> DEFINE v == WithReset(dropped)
    <3>1. m = GrandFinal(0) /\ dropped.matches[m].next = None
      BY <2>1 DEF NeedsReset
    <3>2. v \in Tournaments /\ Grew(dropped.matches, v.matches, m)
          /\ v.status = dropped.status /\ v.winner = dropped.winner
      BY <1>9, <3>1, WithResetType, WithResetGrew, SameColumns
    <3> HIDE DEF v, Holds
    <3>3. Holds(v)
      BY <1>5, <1>9, <3>2
    <3> QED
      BY <2>1, <3>3 DEF v
  <2>2. CASE ~NeedsReset(dropped, f, m, who)
    BY <1>9, <2>2
  <2> QED
    BY <2>1, <2>2
<1> HIDE DEF done
<1>11. Entered(t, f, m, who, done)
  BY <1>1, <1>10 DEF Entered, set
<1> QED
  BY <1>11
\* A match with contestants has something leading to it, or is one of those
\* that have their contestants from the draw.
LEMMA NotDead ==
  ASSUME NEW f, NEW M \in Brackets, NEW rank, Flow(f, M, rank), Finals(f, M), NEW m \in DOMAIN M,
         M[m].entries # {}, M[m].next = None
  PROVE  m[1] # "LB"
<1> SUFFICES ASSUME m[1] = "LB" PROVE FALSE
  OBVIOUS
<1>1. Feeders(M, m) = {}
  BY DEF Finals
<1>2. m \notin Starting
  <2>1. m \in Ids
    BY MatchType
  <2>2. m = <<m[1], m[2], m[3]>>
    BY <2>1 DEF Ids
  <2> QED
    BY <2>2, NotStarting
<1>3. PICK e \in M[m].entries : TRUE
  OBVIOUS
<1>4. e.who \in Standing(M, m)
  BY <1>3, InStanding
<1>5. PICK x \in DOMAIN M : Gives(M, x, m, e.who)
  BY <1>2, <1>4 DEF Flow, Earned
<1>6. x \in Feeders(M, m)
  BY <1>5 DEF Gives, Feeders
<1> QED
  BY <1>1, <1>6

\* Who has taken a match of two that was won.
LEMMA TakenByScore ==
  ASSUME NEW match, match.entries \in Rows, NEW d, NEW e, match.entries = {d, e}, d.score = 1, e.score = 0
  PROVE  Takes(match) = d.who
<1>1. Winner(match.entries) = d.who
  BY DecidedRows
<1>2. Cardinality(match.entries) = 2
  <2>1. d # e
    BY NoneApart
  <2>2. IsFiniteSet({e}) /\ Cardinality({e}) = 1 /\ d \notin {e}
    BY <2>1, FS_Singleton
  <2>3. Cardinality({e} \cup {d}) = Cardinality({e}) + 1
    BY <2>2, FS_AddElement
  <2>4. match.entries = {e} \cup {d}
    OBVIOUS
  <2> QED
    BY <2>2, <2>3, <2>4
<1> QED
  BY <1>1, <1>2 DEF Takes

\* A result that is entered names the winner of the tournament if it
\* decides, and nobody else.
LEMMA ConfirmedStands ==
  ASSUME NEW f, NEW t \in Tournaments, NEW rank, Flow(f, t.matches, rank),
         NEW active, Carried(t.matches, active, {}),
         NEW m \in DOMAIN t.matches, NEW who \in Contestants \cup {None},
         Playable(f, t.matches[m]), who \in Outcomes(f, t.matches[m]),
         Finals(f, t.matches), Stands(f, t)
  PROVE  LET u == Confirmed(t, f, m, who) IN Finals(f, u.matches) /\ Stands(f, u)
<1> DEFINE M == t.matches
           set == Scored(t, m, who)
           S == set.matches
           u == Confirmed(t, f, m, who)
           N == u.matches
<1>1. M \in Brackets /\ u \in Tournaments /\ N \in Brackets
  BY TournamentForm, ConfirmedType
<1>2. Flow(f, N, rank)
  BY ConfirmedFlows
<1>3. Finals(f, N)
  <2> DEFINE made == Bare(M)
  <2>1. LinksUp(M)
    BY <1>1, LayoutLinksUp DEF Flow
  <2>2. GrandFinal(1) \notin DOMAIN made /\ LinksUp(made) /\ Drawn(made, M)
    BY <1>1, <2>1, BareForm
  <2> HIDE DEF made
  <2>3. Drawn(made, N)
    BY <2>2, ConfirmedDraw
  <2> HIDE DEF M, N
  <2> QED
    BY <1>1, <2>2, <2>3, FinalsKept DEF M
<1>4. /\ \A x \in Ends(f, M) : x \in DOMAIN M /\ M[x].next = None /\ f.mode # "RR"
      /\ \A x \in Ends(f, N) : x \in DOMAIN N /\ N[x].next = None /\ f.mode # "RR"
  BY DEF Ends, Deciding
<1>5. ~M[m].confirmed
  BY DEF Playable
<1>6. /\ DOMAIN S = DOMAIN M
      /\ S[m].confirmed /\ S[m].entries = WithResult(M[m].entries, who)
      /\ \A x \in DOMAIN M : S[x].next = M[x].next
      /\ \A x \in DOMAIN M \ {m} : S[x].confirmed = M[x].confirmed /\ S[x].entries = M[x].entries
  <2>1. Confirms(M, S, m) /\ S[m].entries = WithResult(M[m].entries, who)
    BY ScoredForm
  <2> HIDE DEF M, S
  <2> QED
    BY <2>1 DEF Confirms, LinkedAs
<1>0. f.mode # "RR" =>
         \E a, b : /\ WithResult(M[m].entries, who) = {a, b} /\ a.score = 1 /\ b.score = 0
                   /\ a.who = who /\ b.who = Loser(WithResult(M[m].entries, who))
                   /\ b.who \in Contestants
  BY ScoredFlow
<1>7. CASE who = None
  <2>1. u = set
    BY <1>7 DEF Confirmed, Scored
  <2>2. f.mode = "RR"
    BY <1>7, ScoredFlow
  <2>3. u.winner = t.winner
    <3> HIDE DEF set, u
    <3> QED
      BY <2>1, SameColumns DEF set
  <2>4. Ends(f, M) = {} /\ Ends(f, N) = {}
    BY <1>4, <2>2
  <2> HIDE DEF u
  <2> QED
    BY <1>3, <2>3, <2>4 DEF Stands, u
<1>8. CASE who # None
  <2>1. PICK done : Entered(t, f, m, who, done)
    BY <1>8, ConfirmedEnters
  <2> DEFINE D == done.matches
  <2>2. /\ done \in Tournaments /\ u = Concluded(done, f, m, D[m].next, who) /\ Grew(S, D, m)
        /\ done.status = t.status /\ done.winner = t.winner
    BY <2>1 DEF Entered
  <2> HIDE DEF u, set
  <2>3. N = D
    BY <2>2, ConcludedType
  <2> HIDE DEF M, S, D, N
  <2>4. /\ m \in DOMAIN M /\ m \in DOMAIN N /\ N[m].confirmed
        /\ \A x \in DOMAIN M : /\ x \in DOMAIN N /\ S[x].entries \subseteq N[x].entries
                               /\ S[x].confirmed => N[x].confirmed
                               /\ M[x].next # None \/ x # m => N[x].next = M[x].next
        /\ \A x \in DOMAIN N :
             N[x].confirmed => x \in DOMAIN M /\ (S[x].confirmed \/ M[x].next # None)
    BY <1>6, <2>2, <2>3 DEF Grew, M
  <2>5. ASSUME Deciding(f, m, N[m].next) PROVE Finals(f, N) /\ Stands(f, u)
    <3>1. u.winner = who /\ u.status = "COMPLETED"
      BY <2>2, <2>3, <2>5 DEF Concluded, Tournaments
    <3>2. f.mode # "RR" /\ N[m].next = None
      BY <2>5 DEF Deciding
    <3>3. PICK a, b : /\ WithResult(M[m].entries, who) = {a, b} /\ a.score = 1 /\ b.score = 0 /\ a.who = who
      BY <1>0, <3>2
    <3>4. a \in N[m].entries /\ b \in N[m].entries /\ a # b
      BY <1>6, <2>4, <3>3, NoneApart
    <3>5. N[m].entries = {a, b}
      BY <1>2, <2>4, <3>4 DEF Flow, Pairs
    <3>6. N[m].entries \in Rows
      BY <1>1, <2>4, MatchType
    <3>7. Takes(N[m]) = who
      BY <3>3, <3>5, <3>6, TakenByScore
    <3>8. m[1] # "LB"
      BY <1>1, <1>2, <1>3, <2>4, <3>2, <3>4, NotDead
    <3>9. m \in Ends(f, N)
      BY <2>4, <2>5, <3>8 DEF Ends
    <3>10. \A x \in Ends(f, N) : x = m
      BY <1>3, <3>9 DEF Finals
    <3> QED
      BY <1>3, <2>4, <3>1, <3>7, <3>9, <3>10 DEF Stands, N
  <2>6. ASSUME ~Deciding(f, m, N[m].next) PROVE Finals(f, N) /\ Stands(f, u)
    <3>1. u.winner = t.winner /\ u.status = t.status
      BY <2>2, <2>3, <2>6 DEF Concluded
    <3>2. ASSUME NEW x \in Ends(f, N), N[x].confirmed
          PROVE  x \in Ends(f, M) /\ M[x].confirmed /\ Takes(N[x]) = Takes(M[x])
      <4>1. x # m /\ x \in DOMAIN N /\ N[x].next = None
        BY <1>4, <2>6, <3>2 DEF Ends
      <4>2. x \in DOMAIN M /\ N[x].next = M[x].next
        BY <2>4, <3>2, <4>1
      <4>3. S[x].confirmed
        BY <2>4, <3>2, <4>1, <4>2
      <4>4. M[x].confirmed /\ M[x].entries \subseteq N[x].entries
        BY <1>6, <2>4, <4>1, <4>2, <4>3
      <4>5. x \in Ends(f, M)
        BY <4>1, <4>2 DEF Ends
      <4>6. f.mode # "RR" /\ Flow(f, M, rank)
        BY <1>4, <4>5 DEF M
      <4>7. Takes(M[x]) = Takes(N[x])
        BY <1>2, <3>2, <4>1, <4>2, <4>4, <4>6, DecidedSame
      <4> QED
        BY <4>4, <4>5, <4>7
    <3>3. ASSUME NEW x \in Ends(f, M), M[x].confirmed
          PROVE  x \in Ends(f, N) /\ N[x].confirmed
      <4>1. x # m /\ x \in DOMAIN M
        BY <1>4, <1>5, <3>3 DEF M
      <4>2. x \in DOMAIN N /\ N[x].confirmed /\ N[x].next = M[x].next
        BY <1>6, <2>4, <3>3, <4>1
      <4> QED
        BY <4>2 DEF Ends
    <3>4. /\ t.winner # None => t.status = "COMPLETED" /\ \E x \in Ends(f, M) : M[x].confirmed
          /\ \A x \in Ends(f, M) : M[x].confirmed => Takes(M[x]) = t.winner
      BY DEF Stands, M
    <3>5. /\ u.winner # None => u.status = "COMPLETED" /\ \E x \in Ends(f, N) : N[x].confirmed
          /\ \A x \in Ends(f, N) : N[x].confirmed => Takes(N[x]) = u.winner
      BY <3>1, <3>2, <3>3, <3>4
    <3> QED
      BY <1>3, <3>5 DEF Stands, N
  <2> HIDE DEF N, u
  <2> QED
    BY <2>5, <2>6 DEF N, u
<1> QED
  BY <1>7, <1>8
-----------------------------------------------------------------------------
(* The winner when a result is taken back *)

LEMMA WithdrawnLess ==
  ASSUME NEW t \in Tournaments, NEW n, NEW c
  PROVE  LET N == Withdrawn(t, n, c).matches
         IN  \A x \in DOMAIN t.matches : N[x].entries \subseteq t.matches[x].entries
<1> DEFINE N == Withdrawn(t, n, c).matches
<1>1. CASE n \in DOMAIN t.matches
  <2>1. Shrinks(t.matches, N, {n}, c)
    BY <1>1, WithdrawnForm
  <2> HIDE DEF N
  <2>2. \A x \in DOMAIN t.matches : N[x].entries \subseteq t.matches[x].entries
    BY <2>1 DEF Shrinks
  <2> QED
    BY <2>2 DEF N
<1>2. CASE n \notin DOMAIN t.matches
  <2>1. N = [t.matches EXCEPT ![n] = Vacated(@, c)]
    BY DEF Withdrawn, Tournaments
  <2> HIDE DEF N
  <2>2. \A x \in DOMAIN t.matches : N[x].entries \subseteq t.matches[x].entries
    BY <1>2, <2>1
  <2> QED
    BY <2>2 DEF N
<1> QED
  BY <1>1, <1>2

LEMMA OpenedRows ==
  ASSUME NEW t \in Tournaments, NEW x
  PROVE  LET N == AsOpen(t, x).matches
         IN  /\ DOMAIN N = DOMAIN t.matches
             /\ \A y \in DOMAIN t.matches :
                  /\ N[y].next = t.matches[y].next
                  /\ N[y].loserNext = t.matches[y].loserNext
                  /\ N[y].confirmed = (t.matches[y].confirmed /\ y # x)
                  /\ y # x => N[y].entries = t.matches[y].entries
<1> DEFINE M == t.matches
           N == AsOpen(t, x).matches
<1>1. /\ DOMAIN N = DOMAIN M
      /\ \A y \in DOMAIN M : /\ N[y].next = M[y].next
                             /\ N[y].loserNext = M[y].loserNext
                             /\ N[y].confirmed = (M[y].confirmed /\ y # x)
  BY OpenType
<1>2. M \in [DOMAIN M -> MatchIn(DOMAIN M)]
  BY TournamentForm, BracketsForm
<1>3. N = [M EXCEPT ![x].confirmed = FALSE, ![x].entries = {[e EXCEPT !.score = None] : e \in @}]
  BY DEF AsOpen, Tournaments
<1>4. \A y \in DOMAIN M \ {x} : N[y].entries = M[y].entries
  BY <1>2, <1>3
<1> HIDE DEF N, M
<1> QED
  BY <1>1, <1>4 DEF N, M

\* The links alone make the difference.
LEMMA FinalsLinked ==
  ASSUME NEW f, NEW M, NEW N, LinkedAs(M, N)
  PROVE  Ends(f, N) = Ends(f, M) /\ (Finals(f, M) => Finals(f, N))
<1>1. Ends(f, N) = Ends(f, M)
  BY DEF LinkedAs, Ends
<1>2. \A x : Feeders(N, x) = Feeders(M, x)
  BY DEF LinkedAs, Feeders
<1> QED
  BY <1>1, <1>2 DEF LinkedAs, Finals

\* How a tournament may look while a result of t is taken back.
Backward(f, t, v) ==
  /\ Finals(f, v.matches)
  /\ v.winner \in {t.winner, None}
  /\ \A x \in DOMAIN v.matches :
       /\ x # GrandFinal(0) => v.matches[x].next = t.matches[x].next
       /\ v.matches[x].confirmed => /\ v.matches[x].next = t.matches[x].next
                                    /\ v.matches[x].entries \subseteq t.matches[x].entries
  /\ GrandFinal(1) \in DOMAIN t.matches \ DOMAIN v.matches =>
       GrandFinal(0) \in DOMAIN v.matches /\ ~v.matches[GrandFinal(0)].confirmed
  /\ v.winner # None => /\ v.status = "COMPLETED"
                        /\ \E x \in Ends(f, v.matches) : v.matches[x].confirmed
  /\ \A x \in Ends(f, v.matches) : v.matches[x].confirmed => v.winner = t.winner

LEMMA WithdrawnBackward ==
  ASSUME NEW f, NEW t, NEW v \in Tournaments, Backward(f, t, v), NEW n, NEW c
  PROVE  Backward(f, t, Withdrawn(v, n, c))
<1> DEFINE u == Withdrawn(v, n, c)
           M == v.matches
           N == u.matches
<1>1. /\ u.status = v.status /\ u.winner = v.winner /\ SameButRows(M, N)
      /\ \A x \in DOMAIN M : N[x].entries \subseteq M[x].entries
  BY WithdrawnType, WithdrawnLess
<1> HIDE DEF u, M, N
<1>2. /\ DOMAIN N = DOMAIN M
      /\ \A x \in DOMAIN M : N[x].next = M[x].next /\ N[x].confirmed = M[x].confirmed
      /\ LinkedAs(M, N)
  BY <1>1 DEF SameButRows, LinkedAs
<1>3. Finals(f, N) /\ Ends(f, N) = Ends(f, M)
  BY <1>2, FinalsLinked DEF Backward, M
<1>4. Ends(f, M) \subseteq DOMAIN M
  BY DEF Ends
<1> QED
  BY <1>1, <1>2, <1>3, <1>4 DEF Backward, M, N, u

\* Without the match of a bracket reset the first grand final decides.
LEMMA FinalsWithoutSecond ==
  ASSUME NEW f, NEW M, NEW N, Finals(f, M), GrandFinal(0) \in DOMAIN M,
         DOMAIN N = DOMAIN M \ {GrandFinal(1)}, None \notin DOMAIN N,
         N[GrandFinal(0)].next = None,
         \A x \in DOMAIN N : /\ x # GrandFinal(0) => N[x].next = M[x].next
                             /\ N[x].loserNext = M[x].loserNext
  PROVE  Finals(f, N) /\ Ends(f, N) \subseteq {GrandFinal(0)}
<1> DEFINE first == GrandFinal(0)
           second == GrandFinal(1)
<1>1. Ends(f, M) \subseteq {first, second} /\ first # second /\ first[1] # "LB"
  BY GrandFinals DEF Finals, GrandFinal
<1>2. ASSUME NEW x \in Ends(f, N) PROVE x = first
  <2>1. x \in DOMAIN M /\ x # second /\ (x # first => x \in Ends(f, M))
    BY <1>2 DEF Ends
  <2> QED
    BY <1>1, <2>1
<1>3. ASSUME NEW x \in DOMAIN N, x[1] = "LB", N[x].next = None PROVE Feeders(N, x) = {}
  <2>1. x # first
    BY <1>1, <1>3
  <2>2. Feeders(M, x) = {} /\ x \in DOMAIN M
    BY <1>3, <2>1 DEF Finals
  <2>3. ASSUME NEW y \in Feeders(N, x) PROVE y \in Feeders(M, x)
    <3>1. y \in DOMAIN N /\ x \in {N[y].next, N[y].loserNext}
      BY DEF Feeders
    <3>2. y = first => x # N[y].next
      BY <1>3
    <3> QED
      BY <3>1, <3>2 DEF Feeders
  <2> QED
    BY <2>2, <2>3
<1> QED
  BY <1>2, <1>3 DEF Finals

LEMMA ReopenedForm ==
  ASSUME NEW t \in Tournaments, NEW f, NEW x
  PROVE  /\ t.status = "COMPLETED" /\ Deciding(f, x, t.matches[x].next) => Reopened(t, f, x).winner = None
         /\ ~(t.status = "COMPLETED" /\ Deciding(f, x, t.matches[x].next)) => Reopened(t, f, x) = t
         /\ AsOpen(t, x).status = t.status /\ AsOpen(t, x).winner = t.winner
BY DEF Reopened, AsOpen, Tournaments

LEMMA ClearedBackward ==
  ASSUME NEW f, NEW t, t.matches \in Brackets, NEW v \in Tournaments, Backward(f, t, v),
         DOMAIN t.matches \ {GrandFinal(1)} \subseteq DOMAIN v.matches,
         NEW x \in DOMAIN t.matches, f.mode # "RR" => x[1] # "LB" \/ t.matches[x].next # None
  PROVE  Backward(f, t, Cleared(v, f, x))
<1> DEFINE first == GrandFinal(0)
           second == GrandFinal(1)
           mid == WithoutReset(v, x)
           back == Reopened(mid, f, x)
           u == AsOpen(back, x)
           M == v.matches
           N == u.matches
<1>1. Cleared(v, f, x) = u
  BY DEF Cleared, AsOpen
<1>2. /\ first # second /\ first[1] # "LB" /\ second # None
      /\ second \in DOMAIN t.matches => first \in DOMAIN t.matches
      /\ second \in DOMAIN M => first \in DOMAIN M
      /\ None \notin DOMAIN M
      /\ x # second => x \in DOMAIN M
  BY GrandFinals, TournamentForm, BracketParts DEF GrandFinal
<1>3. /\ mid \in Tournaments
      /\ mid.status = v.status /\ mid.winner = v.winner
  <2>1. x \in DOMAIN v.matches \/ x # GrandFinal(0)
    BY <1>2
  <2>2. mid \in Tournaments
    BY <2>1, WithoutResetType
  <2>3. mid.status = v.status /\ mid.winner = v.winner
    BY DEF WithoutReset, Tournaments
  <2> QED
    BY <2>2, <2>3
<1>4. back \in Tournaments /\ back.matches = mid.matches
  <2> HIDE DEF mid
  <2> QED
    BY <1>3, ReopenedType
<1>5. /\ u.winner = back.winner /\ u.status = back.status
      /\ DOMAIN N = DOMAIN mid.matches
      /\ \A y \in DOMAIN N :
           /\ N[y].next = mid.matches[y].next
           /\ N[y].loserNext = mid.matches[y].loserNext
           /\ N[y].confirmed = (mid.matches[y].confirmed /\ y # x)
           /\ y # x => N[y].entries = mid.matches[y].entries
  <2>1. u.winner = back.winner /\ u.status = back.status
    <3> HIDE DEF back
    <3> QED
      BY <1>4, ReopenedForm
  <2>2. /\ DOMAIN N = DOMAIN back.matches
        /\ \A y \in DOMAIN back.matches :
           /\ N[y].next = back.matches[y].next
           /\ N[y].loserNext = back.matches[y].loserNext
           /\ N[y].confirmed = (back.matches[y].confirmed /\ y # x)
           /\ y # x => N[y].entries = back.matches[y].entries
    <3> HIDE DEF back
    <3> QED
      BY <1>4, OpenedRows
  <2> HIDE DEF mid, back, u
  <2> QED
    BY <1>4, <2>1, <2>2
<1>6. /\ v.status = "COMPLETED" /\ Deciding(f, x, mid.matches[x].next) => u.winner = None
      /\ ~(v.status = "COMPLETED" /\ Deciding(f, x, mid.matches[x].next))
           => u.winner = v.winner /\ u.status = v.status
  <2>1. /\ mid.status = "COMPLETED" /\ Deciding(f, x, mid.matches[x].next) => back.winner = None
        /\ ~(mid.status = "COMPLETED" /\ Deciding(f, x, mid.matches[x].next)) => back = mid
    <3> HIDE DEF mid
    <3> QED
      BY <1>3, ReopenedForm
  <2> HIDE DEF back, u, mid
  <2> QED
    BY <1>3, <1>5, <2>1
<1>7. HasReset(M, x) =>
         /\ x = first /\ M[first].next = second
         /\ mid.matches = [y \in DOMAIN M \ {second} |->
                             IF y = x THEN [M[y] EXCEPT !.next = None] ELSE M[y]]
  BY DEF WithoutReset, HasReset, Tournaments
<1>8. ~HasReset(M, x) => mid = v
  BY DEF WithoutReset
<1>9. M \in Brackets /\ M \in [DOMAIN M -> MatchIn(DOMAIN M)]
  BY TournamentForm, BracketsForm
<1>10. /\ Finals(f, M) /\ v.winner \in {t.winner, None}
       /\ \A y \in DOMAIN M :
            /\ y # first => M[y].next = t.matches[y].next
            /\ M[y].confirmed => M[y].next = t.matches[y].next /\ M[y].entries \subseteq t.matches[y].entries
       /\ second \in DOMAIN t.matches \ DOMAIN M => first \in DOMAIN M /\ ~M[first].confirmed
       /\ v.winner # None => v.status = "COMPLETED" /\ \E y \in Ends(f, M) : M[y].confirmed
       /\ \A y \in Ends(f, M) : M[y].confirmed => v.winner = t.winner
  BY DEF Backward
<1> HIDE DEF mid, back, u, M, N
<1>11. CASE HasReset(M, x)
  <2>1. x = first /\ M[first].next = second /\ first \in DOMAIN M /\ second \in DOMAIN M
    <3>1. x = first /\ M[first].next = second /\ first \in DOMAIN M
      BY <1>2, <1>7, <1>11
    <3>2. M[first].next \in DOMAIN M \cup {None}
      BY <1>9, <3>1, MatchType
    <3> QED
      BY <1>2, <3>1, <3>2
  <2>2. /\ DOMAIN mid.matches = DOMAIN M \ {second}
        /\ mid.matches[first].next = None
        /\ \A y \in DOMAIN M \ {second, first} : mid.matches[y] = M[y]
        /\ mid.matches[first].loserNext = M[first].loserNext
    <3>1. mid.matches = [y \in DOMAIN M \ {second} |->
                             IF y = x THEN [M[y] EXCEPT !.next = None] ELSE M[y]]
      BY <1>7, <1>11
    <3>2. M[first] \in MatchIn(DOMAIN M)
      BY <1>9, <2>1
    <3> DEFINE z == [M[first] EXCEPT !.next = None]
    <3>3. z.next = None /\ z.loserNext = M[first].loserNext
      BY <3>2 DEF MatchIn
    <3> HIDE DEF first, second, z
    <3>4. mid.matches = [y \in DOMAIN M \ {second} |-> IF y = first THEN z ELSE M[y]]
      BY <2>1, <3>1 DEF z
    <3> QED
      BY <1>2, <2>1, <3>3, <3>4
  <2>3. /\ DOMAIN N = DOMAIN M \ {second} /\ N[first].next = None /\ ~N[first].confirmed
        /\ first \in DOMAIN N
        /\ \A y \in DOMAIN N : /\ y # first => /\ N[y].next = M[y].next /\ N[y].confirmed = M[y].confirmed
                                               /\ N[y].entries = M[y].entries
                               /\ N[y].loserNext = M[y].loserNext
    <3> HIDE DEF first, second
    <3>1. first \in DOMAIN N /\ DOMAIN N = DOMAIN M \ {second}
      BY <1>2, <1>5, <2>1, <2>2
    <3>2. N[first].next = None /\ ~N[first].confirmed /\ N[first].loserNext = M[first].loserNext
      BY <1>5, <2>1, <2>2, <3>1
    <3>3. ASSUME NEW y \in DOMAIN N, y # first
          PROVE  /\ N[y].next = M[y].next /\ N[y].confirmed = M[y].confirmed
                 /\ N[y].entries = M[y].entries /\ N[y].loserNext = M[y].loserNext
      <4>1. mid.matches[y] = M[y] /\ M[y] \in MatchIn(DOMAIN M)
        BY <1>9, <2>2, <3>1, <3>3
      <4> QED
        BY <1>5, <2>1, <3>3, <4>1 DEF MatchIn
    <3> QED
      BY <3>1, <3>2, <3>3
  <2>4. Finals(f, N) /\ Ends(f, N) \subseteq {first}
    <3>1. None \notin DOMAIN N
      BY <1>2, <2>3
    <3> QED
      BY <1>10, <2>1, <2>3, <3>1, FinalsWithoutSecond
  <2>5. \A y \in Ends(f, N) : ~N[y].confirmed
    BY <2>3, <2>4
  <2>6. u.winner = None
    <3>1. CASE v.winner = None
      BY <1>6, <3>1
    <3>2. CASE v.winner # None
      <4>1. v.status = "COMPLETED" /\ \E y \in Ends(f, M) : TRUE
        BY <1>10, <3>2
      <4>2. f.mode \in {"SE", "DE"}
        BY <4>1 DEF Ends, Deciding
      <4>3. first # ThirdPlace
        BY DEF GrandFinal, ThirdPlace
      <4>4. Deciding(f, x, mid.matches[x].next)
        BY <2>1, <2>2, <4>2, <4>3 DEF Deciding
      <4> QED
        BY <1>6, <4>1, <4>4
    <3> QED
      BY <3>1, <3>2
  <2>7. Backward(f, t, u)
    <3> HIDE DEF first, second
    <3>1. \A y \in DOMAIN N : /\ y # first => N[y].next = t.matches[y].next
                              /\ N[y].confirmed => /\ N[y].next = t.matches[y].next
                                                   /\ N[y].entries \subseteq t.matches[y].entries
      BY <1>10, <2>3
    <3>2. second \in DOMAIN t.matches \ DOMAIN N => first \in DOMAIN N /\ ~N[first].confirmed
      BY <2>3
    <3> QED
      BY <2>4, <2>5, <2>6, <3>1, <3>2 DEF Backward, N, first, second
  <2> QED
    BY <1>1, <2>7
<1>12. CASE ~HasReset(M, x)
  <2>1. mid = v
    BY <1>8, <1>12
  <2>2. /\ DOMAIN N = DOMAIN M
        /\ \A y \in DOMAIN N :
             /\ N[y].next = M[y].next
             /\ N[y].loserNext = M[y].loserNext
             /\ N[y].confirmed = (M[y].confirmed /\ y # x)
             /\ y # x => N[y].entries = M[y].entries
    BY <1>5, <2>1 DEF M
  <2>3. Finals(f, N) /\ Ends(f, N) = Ends(f, M) /\ Ends(f, M) \subseteq DOMAIN M
    <3>1. LinkedAs(M, N)
      BY <2>2 DEF LinkedAs
    <3> QED
      BY <1>10, <3>1, FinalsLinked DEF Ends
  <2>4. /\ \A y \in DOMAIN N : /\ y # first => N[y].next = t.matches[y].next
                               /\ N[y].confirmed => /\ N[y].next = t.matches[y].next
                                                    /\ N[y].entries \subseteq t.matches[y].entries
        /\ second \in DOMAIN t.matches \ DOMAIN N => first \in DOMAIN N /\ ~N[first].confirmed
    BY <1>10, <2>2
  <2>5. CASE v.status = "COMPLETED" /\ Deciding(f, x, M[x].next)
    <3>1. u.winner = None
      BY <1>6, <2>1, <2>5 DEF M
    <3>2. \A y \in Ends(f, N) : ~N[y].confirmed
      <4>1. CASE x \in DOMAIN M
        <5>1. f.mode # "RR" /\ M[x].next = None
          BY <2>5 DEF Deciding
        <5>2. x[1] # "LB"
          BY <1>2, <1>10, <4>1, <5>1
        <5>3. x \in Ends(f, M)
          BY <2>5, <4>1, <5>2 DEF Ends
        <5>4. \A y \in Ends(f, M) : y = x
          BY <1>10, <5>3 DEF Finals
        <5> QED
          BY <2>2, <2>3, <5>4
      <4>2. CASE x \notin DOMAIN M
        <5>1. x = second /\ first \in DOMAIN M /\ ~M[first].confirmed
          BY <1>2, <1>10, <4>2
        <5>2. Ends(f, M) \subseteq {first, second}
          BY <1>10, <5>1 DEF Finals
        <5> QED
          BY <2>2, <2>3, <4>2, <5>1, <5>2
      <4> QED
        BY <4>1, <4>2
    <3>3. Backward(f, t, u)
      <4> HIDE DEF first, second
      <4> QED
        BY <2>3, <2>4, <3>1, <3>2 DEF Backward, N, first, second
    <3> QED
      BY <1>1, <3>3
  <2>6. CASE ~(v.status = "COMPLETED" /\ Deciding(f, x, M[x].next))
    <3>1. u.winner = v.winner /\ u.status = v.status
      BY <1>6, <2>1, <2>6 DEF M
    <3>2. v.winner # None => \E y \in Ends(f, N) : N[y].confirmed
      <4> SUFFICES ASSUME v.winner # None PROVE \E y \in Ends(f, N) : N[y].confirmed
        OBVIOUS
      <4>1. PICK y \in Ends(f, M) : M[y].confirmed
        BY <1>10
      <4>2. v.status = "COMPLETED"
        BY <1>10
      <4>3. y # x
        BY <2>6, <4>2 DEF Ends
      <4> QED
        BY <2>2, <2>3, <4>1, <4>3
    <3>3. \A y \in Ends(f, N) : N[y].confirmed => u.winner = t.winner
      BY <1>10, <2>2, <2>3, <3>1
    <3>4. Backward(f, t, u)
      <4> HIDE DEF first, second
      <4> QED
        BY <1>10, <2>3, <2>4, <3>1, <3>2, <3>3 DEF Backward, N, first, second
    <3> QED
      BY <1>1, <3>4
  <2> QED
    BY <2>5, <2>6
<1> QED
  BY <1>11, <1>12
LEMMA UndoneBackward ==
  ASSUME NEW f, NEW t \in Tournaments, NEW C, NEW u \in UndoneIn(t.matches, C), Backward(f, t, u.t),
         \A x \in C : f.mode # "RR" => x[1] # "LB" \/ t.matches[x].next # None
  PROVE  Backward(f, t, UndoOn(f, u).t)
<1> DEFINE S == Due(t.matches, C)
<1>1. /\ u.t \in Tournaments /\ u.todo \in Seq(S) /\ Undoes(t.matches, u.t.matches, C)
      /\ t.matches \in Brackets
  BY TournamentForm DEF UndoneIn
<1>2. CASE u.todo = <<>>
  BY <1>2 DEF UndoOn
<1>3. CASE u.todo # <<>>
  <2> DEFINE x == Head(u.todo)
             rest == Tail(u.todo)
             stands == x.match \in DOMAIN u.t.matches /\ u.t.matches[x.match].confirmed
  <2>1. x \in S
    <3> HIDE DEF S
    <3> QED
      BY <1>1, <1>3, Rest
  <2>2. /\ x.act \in Acts
        /\ x.act = "clear" => x.match \in C /\ x.match \in DOMAIN t.matches
    BY <2>1 DEF Due, Steps
  <2> HIDE DEF x, rest, S
  <2>3. UndoOn(f, u) =
          CASE x.act = "undo" ->
                 [t |-> u.t, todo |-> IF stands THEN Undoing(u.t.matches, x.match) \o rest ELSE rest]
            [] x.act = "withdraw" -> [t |-> Withdrawn(u.t, x.match, x.who), todo |-> rest]
            [] x.act = "clear"    -> [t |-> Cleared(u.t, f, x.match), todo |-> rest]
    BY <1>3 DEF UndoOn, x, rest
  <2>4. CASE x.act = "undo"
    <3>1. UndoOn(f, u).t = u.t
      BY <2>3, <2>4
    <3> QED
      BY <3>1
  <2>5. CASE x.act = "withdraw"
    <3>1. UndoOn(f, u).t = Withdrawn(u.t, x.match, x.who)
      BY <2>3, <2>5
    <3>2. Backward(f, t, Withdrawn(u.t, x.match, x.who))
      BY <1>1, WithdrawnBackward
    <3> QED
      BY <3>1, <3>2
  <2>6. CASE x.act = "clear"
    <3>1. UndoOn(f, u).t = Cleared(u.t, f, x.match)
      BY <2>3, <2>6
    <3>2. DOMAIN t.matches \ {GrandFinal(1)} \subseteq DOMAIN u.t.matches
      BY <1>1 DEF Undoes
    <3>3. x.match \in DOMAIN t.matches
          /\ (f.mode # "RR" => x.match[1] # "LB" \/ t.matches[x.match].next # None)
      BY <2>2, <2>6
    <3>4. Backward(f, t, Cleared(u.t, f, x.match))
      BY <1>1, <3>2, <3>3, ClearedBackward
    <3> QED
      BY <3>1, <3>4
  <2> QED
    BY <2>2, <2>4, <2>5, <2>6 DEF Acts
<1> QED
  BY <1>2, <1>3

\* Taking back results takes back the winner of the tournament with the
\* match that decided, and only then.
LEMMA RetractedBackward ==
  ASSUME NEW f, NEW t \in Tournaments, NEW rank, Flow(f, t.matches, rank), NEW C, Ready(t.matches, C),
         NEW active, Carried(t.matches, active, {}),
         NEW match \in C \cap DOMAIN t.matches, t.matches[match].confirmed,
         Finals(f, t.matches), Stands(f, t)
  PROVE  LET u == Retracted(t, f, match)
         IN  Backward(f, t, u) /\ Undoes(t.matches, u.matches, HavingResult(t.matches))
<1> DEFINE M == t.matches
           K == {x \in DOMAIN M : M[x].confirmed}
           A == {u \in UndoneIn(M, K) : Backward(f, t, u.t)}
           last == Retracted(t, f, match)
<1>1. M \in Brackets /\ IsFiniteSet(DOMAIN M) /\ match \in K
  BY TournamentForm, BracketsForm DEF Plans
<1>2. Closed(M, K)
  <2>1. \A x \in DOMAIN M : {M[x].next, M[x].loserNext} \subseteq DOMAIN M \cup {None}
    BY <1>1, MatchType
  <2> QED
    BY <2>1 DEF Closed
<1>3. Backward(f, t, t)
  BY DEF Backward, Stands
<1>4. \A x \in K : f.mode # "RR" => x[1] # "LB" \/ M[x].next # None
  <2> SUFFICES ASSUME NEW x \in K, f.mode # "RR", M[x].next = None PROVE x[1] # "LB"
    OBVIOUS
  <2>1. x \in DOMAIN M /\ Decided(M[x]) /\ M[x].confirmed
    BY DEF Flow, Scores
  <2>2. M[x].entries # {}
    BY <2>1 DEF Decided
  <2> HIDE DEF M, K
  <2> QED
    BY <1>1, <2>1, <2>2, NotDead DEF M
<1> HIDE DEF K
<1>5. FirstUndo(t, match) \in A
  <2>1. FirstUndo(t, match) \in UndoneIn(M, K)
    BY <1>1, <1>2, UndoneWithin
  <2>2. FirstUndo(t, match).t = t
    BY DEF FirstUndo
  <2> QED
    BY <1>3, <2>1, <2>2
<1>6. ASSUME NEW u \in A PROVE UndoOn(f, u) \in A
  <2>1. UndoOn(f, u) \in UndoneIn(M, K)
    BY <1>1, <1>2, UndoneWithin
  <2>2. Backward(f, t, UndoOn(f, u).t)
    BY <1>4, UndoneBackward
  <2> QED
    BY <2>1, <2>2
<1>7. \E u \in A : last = u.t
  <2> HIDE DEF A
  <2> QED
    BY <1>1, <1>5, <1>6, RetractedBy
<1> QED
  BY <1>7 DEF UndoneIn, K, HavingResult

\* The winner that is left is who took the deciding match.
LEMMA RetractedStands ==
  ASSUME NEW f, NEW t \in Tournaments, NEW rank, Flow(f, t.matches, rank), NEW C, Ready(t.matches, C),
         NEW active, Carried(t.matches, active, {}),
         NEW match \in C \cap DOMAIN t.matches, t.matches[match].confirmed,
         Finals(f, t.matches), Stands(f, t)
  PROVE  LET u == Retracted(t, f, match) IN Finals(f, u.matches) /\ Stands(f, u)
<1> DEFINE M == t.matches
           last == Retracted(t, f, match)
<1>8. Backward(f, t, last) /\ Undoes(M, last.matches, HavingResult(M))
  BY RetractedBackward
<1> DEFINE N == last.matches
<1>9. Flow(f, N, rank)
  BY RetractedFlow
<1> HIDE DEF last, M, N
<1>10. /\ Finals(f, N)
       /\ \A x \in DOMAIN N : N[x].confirmed => N[x].next = M[x].next /\ N[x].entries \subseteq M[x].entries
       /\ last.winner # None => last.status = "COMPLETED" /\ \E x \in Ends(f, N) : N[x].confirmed
       /\ \A x \in Ends(f, N) : N[x].confirmed => last.winner = t.winner
  BY <1>8 DEF Backward, M, N
<1>11. \A x \in DOMAIN N : x \in DOMAIN M /\ (N[x].confirmed => M[x].confirmed)
  BY <1>8 DEF Undoes, N
<1>12. ASSUME NEW x \in Ends(f, N), N[x].confirmed PROVE Takes(N[x]) = last.winner
  <2>1. x \in DOMAIN N /\ x \in DOMAIN M /\ M[x].confirmed /\ N[x].next = M[x].next
        /\ N[x].entries \subseteq M[x].entries /\ f.mode # "RR"
    BY <1>10, <1>11, <1>12 DEF Ends, Deciding
  <2>2. x \in Ends(f, M)
    BY <1>12, <2>1 DEF Ends
  <2>3. Takes(M[x]) = t.winner
    BY <2>1, <2>2 DEF Stands, M
  <2>4. Flow(f, M, rank)
    BY DEF M
  <2>5. Takes(N[x]) = Takes(M[x])
    BY <1>9, <1>12, <2>1, <2>4, DecidedSame
  <2> QED
    BY <1>10, <1>12, <2>3, <2>5
<1> QED
  BY <1>10, <1>12 DEF Stands, N, last
-----------------------------------------------------------------------------
(* The winner when a contestant leaves *)

\* What becomes of a match with one contestant that is won by forfeit.
WonBy(f, t, m, e, confirming, new) ==
  /\ new.matches[m].entries = {e}
  /\ \A y \in DOMAIN t.matches \ {m} : new.matches[y].confirmed = t.matches[y].confirmed
  /\ new.matches[m].confirmed = (confirming \/ t.matches[m].confirmed)
  /\ IF confirming /\ Deciding(f, m, t.matches[m].next)
       THEN new.winner = e.who /\ new.status = "COMPLETED"
       ELSE new.winner = t.winner /\ new.status = t.status

LEMMA ForfeitedRows ==
  ASSUME NEW f, NEW t \in Tournaments, NEW m \in DOMAIN t.matches, NEW e, t.matches[m].entries = {e},
         t.matches[m].next # m, NEW confirming \in BOOLEAN
  PROVE  WonBy(f, t, m, e, confirming, Forfeited(t, f, m, t.matches[m].next, confirming))
<1> DEFINE M == t.matches
           next == M[m].next
           sole == (CHOOSE d \in M[m].entries : TRUE).who
           there == next # None /\ sole \in Entrants(M[next].entries)
           advanced == IF there THEN t ELSE Sent(t, next, sole)
           done == AsConfirmed(advanced, m)
           last == Concluded(done, f, m, next, sole)
           new == Forfeited(t, f, m, next, confirming)
           A == advanced.matches
           N == done.matches
<1>1. /\ M \in Brackets /\ next \in DOMAIN M \cup {None} /\ None \notin DOMAIN M
      /\ e.who \in Contestants
  <2>1. M \in Brackets
    BY TournamentForm
  <2>2. next \in DOMAIN M \cup {None} /\ M[m].entries \subseteq Row
    BY <2>1, MatchType
  <2> QED
    BY <2>1, <2>2, BracketParts DEF Row
<1>2. Cardinality(M[m].entries) = 1 /\ sole = e.who
  <2>1. Cardinality({e}) = 1
    BY FS_Singleton
  <2> QED
    BY <2>1
<1>3. new = IF confirming THEN last ELSE advanced
  BY <1>2 DEF Forfeited, AsConfirmed
<1>4. M[m].confirmed \in BOOLEAN
  BY <1>1, MatchType
<1> HIDE DEF sole
<1>5. advanced = t \/ (next \in DOMAIN M /\ advanced = Sent(t, next, e.who))
  BY <1>1, <1>2 DEF Sent
<1> HIDE DEF advanced
<1>6. /\ advanced \in Tournaments /\ DOMAIN A = DOMAIN M
      /\ A[m].entries = {e}
      /\ \A y \in DOMAIN M : A[y].confirmed = M[y].confirmed
      /\ advanced.winner = t.winner /\ advanced.status = t.status
  <2>1. CASE advanced = t
    BY <2>1
  <2>2. CASE next \in DOMAIN M /\ advanced = Sent(t, next, e.who)
    <3>1. Grows(M, A, next, e.who)
      BY <1>1, <2>2, SentGrows
    <3>2. advanced \in Tournaments /\ advanced.winner = t.winner /\ advanced.status = t.status
      BY <1>1, <2>2, SentType
    <3>3. m # next /\ M[m].entries = {e}
      OBVIOUS
    <3> HIDE DEF A, M, next
    <3> QED
      BY <3>1, <3>2, <3>3 DEF Grows, LinkedAs, M
  <2> QED
    BY <1>5, <2>1, <2>2
<1>7. Confirms(A, N, m) /\ N[m].entries = A[m].entries
  <2>1. advanced \in Tournaments /\ m \in DOMAIN A
    BY <1>6
  <2> QED
    BY <2>1, ConfirmsForm
<1>8. done \in Tournaments /\ done.winner = advanced.winner /\ done.status = advanced.status
  BY <1>6, ConfirmType, SameColumns
<1> HIDE DEF done
<1>9. /\ last.matches = N
      /\ Deciding(f, m, next) => last.winner = sole /\ last.status = "COMPLETED"
      /\ ~Deciding(f, m, next) => last.winner = done.winner /\ last.status = done.status
  <2>1. last.matches = N
    BY <1>1, <1>2, <1>8, ConcludedType
  <2>2. /\ Deciding(f, m, next) => last.winner = sole /\ last.status = "COMPLETED"
        /\ ~Deciding(f, m, next) => last = done
    BY <1>8 DEF Concluded, Tournaments
  <2> HIDE DEF last
  <2> QED
    BY <2>1, <2>2
<1> HIDE DEF A, N, last, new
<1>10. N[m].entries = {e} /\ N[m].confirmed /\ \A y \in DOMAIN M \ {m} : N[y].confirmed = M[y].confirmed
  BY <1>6, <1>7 DEF Confirms, M
<1>11. CASE confirming
  <2>1. new = last /\ new.matches = N
    BY <1>3, <1>9, <1>11
  <2> HIDE DEF M, next
  <2>2. /\ new.matches[m].entries = {e}
        /\ \A y \in DOMAIN M \ {m} : new.matches[y].confirmed = M[y].confirmed
        /\ new.matches[m].confirmed = TRUE
        /\ Deciding(f, m, next) => new.winner = e.who /\ new.status = "COMPLETED"
        /\ ~Deciding(f, m, next) => new.winner = t.winner /\ new.status = t.status
    <3>1. N[m].confirmed = TRUE
      <4>1. m \in DOMAIN done.matches /\ done.matches \in Brackets
        BY <1>6, <1>7, <1>8, TournamentForm DEF Confirms, LinkedAs, N, M
      <4> QED
        BY <1>10, <4>1, MatchType DEF N
    <3> QED
      BY <1>2, <1>6, <1>8, <1>9, <1>10, <2>1, <3>1
  <2> QED
    BY <1>11, <2>2 DEF new, next, M, WonBy
<1>12. CASE ~confirming
  <2>1. new = advanced /\ new.matches = A
    BY <1>3, <1>12 DEF A
  <2> QED
    BY <1>4, <1>6, <1>12, <2>1 DEF new, A, WonBy
<1> QED
  BY <1>11, <1>12

\* The only opponent left in the deciding match has won the tournament.
LEMMA ForfeitedStands ==
  ASSUME NEW f, NEW t \in Tournaments, Finals(f, t.matches), Stands(f, t),
         NEW m \in DOMAIN t.matches, NEW e, t.matches[m].entries = {e},
         ~t.matches[m].confirmed, t.matches[m].next # m,
         t.matches[m].next # None => ~t.matches[t.matches[m].next].confirmed,
         t.matches[m].next = None => m[1] # "LB",
         NEW confirming \in BOOLEAN
  PROVE  LET new == Forfeited(t, f, m, t.matches[m].next, confirming)
         IN  Finals(f, new.matches) /\ Stands(f, new)
<1> DEFINE M == t.matches
           next == M[m].next
           new == Forfeited(t, f, m, next, confirming)
           N == new.matches
<1>1. LinkedAs(M, N)
  BY ForfeitedLinks
<1>2. SameRowsBut(M, N, m, next)
  BY ForfeitedLinks
<1>3. /\ N[m].entries = {e}
      /\ \A y \in DOMAIN M \ {m} : N[y].confirmed = M[y].confirmed
      /\ N[m].confirmed = (confirming \/ M[m].confirmed)
      /\ IF confirming /\ Deciding(f, m, next)
           THEN new.winner = e.who /\ new.status = "COMPLETED"
           ELSE new.winner = t.winner /\ new.status = t.status
  <2>1. WonBy(f, t, m, e, confirming, new)
    BY ForfeitedRows
  <2> HIDE DEF new
  <2> QED
    BY <2>1 DEF WonBy
<1> HIDE DEF new, N
<1>4. Finals(f, N) /\ Ends(f, N) = Ends(f, M) /\ Ends(f, M) \subseteq DOMAIN M /\ DOMAIN N = DOMAIN M
  BY <1>1, FinalsLinked DEF Ends, LinkedAs
<1>5. /\ t.winner # None => t.status = "COMPLETED" /\ \E x \in Ends(f, M) : M[x].confirmed
      /\ \A x \in Ends(f, M) : M[x].confirmed => Takes(M[x]) = t.winner
  BY DEF Stands
<1>6. CASE confirming /\ Deciding(f, m, next)
  <2>1. m \in Ends(f, M)
    BY <1>6 DEF Ends, Deciding
  <2>2. \A x \in Ends(f, M) : x = m
    BY <2>1 DEF Finals
  <2>3. Takes(N[m]) = e.who
    <3>1. Cardinality({e}) = 1
      BY FS_Singleton
    <3>2. \A c : c \in Entrants({e}) <=> c = e.who
      BY DEF Entrants
    <3>3. (CHOOSE c \in Entrants({e}) : TRUE) = e.who
      BY <3>2
    <3> QED
      BY <1>3, <3>1, <3>3 DEF Takes
  <2> QED
    BY <1>3, <1>4, <1>6, <2>1, <2>2, <2>3 DEF Stands, N, new
<1>7. CASE ~(confirming /\ Deciding(f, m, next))
  <2>1. m \in Ends(f, M) => ~confirming
    BY <1>7 DEF Ends
  <2>2. ASSUME NEW x \in Ends(f, M)
        PROVE  /\ N[x].confirmed <=> M[x].confirmed
               /\ M[x].confirmed => Takes(N[x]) = Takes(M[x])
    <3>1. CASE x = m
      BY <1>3, <2>1, <3>1
    <3>2. CASE x # m
      <4>1. N[x].confirmed <=> M[x].confirmed
        BY <1>3, <1>4, <3>2
      <4>2. ASSUME M[x].confirmed PROVE Takes(N[x]) = Takes(M[x])
        <5>1. x # next
          BY <4>2, <1>4, TournamentForm, BracketParts
        <5>2. N[x].entries = M[x].entries
          BY <1>2, <1>4, <3>2, <5>1 DEF SameRowsBut
        <5> QED
          BY <5>2 DEF Takes
      <4> QED
        BY <4>1, <4>2
    <3> QED
      BY <3>1, <3>2
  <2>3. new.winner = t.winner /\ new.status = t.status
    BY <1>3, <1>7
  <2> QED
    BY <1>4, <1>5, <2>2, <2>3 DEF Stands, N, new
<1> QED
  BY <1>6, <1>7
\* Who leaves their open matches leaves no result.
LEMMA WithoutStands ==
  ASSUME NEW f, NEW t \in Tournaments, Finals(f, t.matches), Stands(f, t), NEW c, NEW K,
         \A x \in K : x \in DOMAIN t.matches => ~t.matches[x].confirmed
  PROVE  LET new == Without(t, c, K)
         IN  /\ new \in Tournaments /\ LinkedAs(t.matches, new.matches)
             /\ Finals(f, new.matches) /\ Stands(f, new)
<1> DEFINE M == t.matches
           new == Without(t, c, K)
           N == new.matches
<1>1. new \in Tournaments
  BY WithoutType
<1>2. Shrinks(M, N, K, c)
  BY WithoutShrinks
<1>3. new.winner = t.winner /\ new.status = t.status
  BY DEF Without, Tournaments
<1> HIDE DEF new, N
<1>4. LinkedAs(M, N)
  BY <1>2 DEF Shrinks
<1>5. Ends(f, N) = Ends(f, M) /\ Finals(f, N)
  BY <1>4, FinalsLinked DEF M
<1>6. ASSUME NEW x \in Ends(f, M)
      PROVE  /\ N[x].confirmed <=> M[x].confirmed
             /\ M[x].confirmed => Takes(N[x]) = Takes(M[x])
  <2>1. x \in DOMAIN M
    BY DEF Ends
  <2>2. N[x].confirmed = M[x].confirmed
        /\ N[x].entries = IF x \in K THEN {e \in M[x].entries : e.who # c} ELSE M[x].entries
    BY <1>2, <2>1 DEF Shrinks
  <2>3. M[x].confirmed => x \notin K
    BY <2>1 DEF M
  <2>4. M[x].confirmed => N[x].entries = M[x].entries
    BY <2>2, <2>3
  <2> HIDE DEF M
  <2>5. ASSUME M[x].confirmed PROVE Takes(N[x]) = Takes(M[x])
    <3>1. N[x].entries = M[x].entries
      BY <2>4, <2>5
    <3> QED
      BY <3>1 DEF Takes
  <2> QED
    BY <2>2, <2>5
<1>7. Stands(f, new)
  BY <1>3, <1>5, <1>6 DEF Stands, M, N
<1> QED
  BY <1>1, <1>4, <1>5, <1>7 DEF new, M, N

\* In a round robin no match decides.
LEMMA RoundRobinStands ==
  ASSUME NEW f, f.mode = "RR", NEW t \in Tournaments, Finals(f, t.matches), Stands(f, t),
         NEW m \in DOMAIN t.matches, NEW e, t.matches[m].entries = {e}, t.matches[m].next # m,
         NEW confirming \in BOOLEAN
  PROVE  LET new == Forfeited(t, f, m, t.matches[m].next, confirming)
         IN  Finals(f, new.matches) /\ Stands(f, new)
<1> DEFINE new == Forfeited(t, f, m, t.matches[m].next, confirming)
           N == new.matches
<1>1. LinkedAs(t.matches, N)
  BY ForfeitedLinks
<1>2. WonBy(f, t, m, e, confirming, new)
  BY ForfeitedRows
<1> HIDE DEF new, N
<1>3. Finals(f, N) /\ Ends(f, N) = {}
  <2>1. Finals(f, N)
    BY <1>1, FinalsLinked
  <2>2. Ends(f, N) = {}
    BY DEF Ends, Deciding
  <2> QED
    BY <2>1, <2>2
<1>4. t.winner = None
  BY DEF Stands, Ends, Deciding
<1>5. new.winner = None
  BY <1>2, <1>4 DEF WonBy, Deciding
<1> QED
  BY <1>3, <1>5 DEF Stands, new, N
\* A contestant who leaves, and the walkovers that follow, leave the winner
\* to the deciding match.
LEMMA RemovedStands ==
  ASSUME NEW f, NEW t \in Tournaments, NEW rank, Flow(f, t.matches, rank),
         NEW c, NEW confirming \in BOOLEAN, Finals(f, t.matches), Stands(f, t)
  PROVE  LET new == Removed(t, f, c, OpenMatches(t.matches, c), confirming)
         IN  Finals(f, new.matches) /\ Stands(f, new)
<1> DEFINE M == t.matches
           links == OpenMatches(M, c)
           K == DOMAIN links
           left == Without(t, c, K)
           N == left.matches
           Empty(s) == f.mode # "RR" => \A x \in s.open : s.t.matches[x].entries = {}
           A == {s \in [t : Tournaments, open : SUBSET K] :
                   /\ LinkedAs(M, s.t.matches) /\ Finals(f, s.t.matches) /\ Stands(f, s.t)
                   /\ s.t = left \/ Empty(s)}
<1>1. M \in Brackets
  BY TournamentForm
<1>2. K = {x \in DOMAIN M : ~M[x].confirmed /\ c \in Standing(M, x)}
      /\ \A x \in K : links[x] = M[x].next
  BY OpenMatchesForm
<1>3. left \in Tournaments /\ LinkedAs(M, N) /\ Finals(f, N) /\ Stands(f, left)
  <2>1. \A x \in K : x \in DOMAIN t.matches => ~t.matches[x].confirmed
    BY <1>2
  <2> HIDE DEF K
  <2> QED
    BY <2>1, WithoutStands
<1>4. Shrinks(M, N, K, c)
  BY WithoutShrinks
<1>5. K \cap DOMAIN M = K /\ IsFiniteSet(K)
  BY <1>1, <1>2, BracketParts, FS_Subset
<1>6. [t |-> Without(t, c, K \cap DOMAIN M), open |-> K \cap DOMAIN M] \in A
  <2> HIDE DEF K, M, Empty
  <2>1. [t |-> left, open |-> K] \in A
    <3> HIDE DEF left
    <3> QED
      BY <1>3
  <2> QED
    BY <1>5, <2>1
<1> HIDE DEF N, K, links, left, M
<1>7. ASSUME NEW s \in A PROVE Looked(f, links, confirming, s) \in A
  <2> DEFINE x == CHOOSE x \in s.open : TRUE
             new == Forfeited(s.t, f, x, links[x], confirming)
             S == s.t.matches
  <2>1. CASE s.open = {}
    BY <1>7, <2>1 DEF Looked
  <2>2. CASE s.open # {}
    <3>1. s.t \in Tournaments /\ s.open \in SUBSET K /\ x \in s.open /\ x \in K /\ x \in DOMAIN M
      BY <1>2, <2>2
    <3>2. Looked(f, links, confirming, s) = [t |-> new, open |-> s.open \ {x}]
      BY <2>2 DEF Looked
    <3> HIDE DEF x
    <3>3. /\ LinkedAs(M, S) /\ Finals(f, S) /\ Stands(f, s.t)
          /\ s.t = left \/ Empty(s)
      OBVIOUS
    <3> HIDE DEF A
    <3>4. DOMAIN S = DOMAIN M /\ S[x].next = M[x].next /\ links[x] = M[x].next /\ S \in Brackets
      BY <1>2, <3>1, <3>3, TournamentForm DEF LinkedAs
    <3>5. new \in Tournaments
      BY <3>1, <3>4, ForfeitedType
    <3>6. CASE Cardinality(S[x].entries) # 1
      <4>1. new = s.t
        BY <3>6 DEF Forfeited
      <4>2. s.t = left \/ Empty([t |-> s.t, open |-> s.open \ {x}])
        BY <3>3
      <4> HIDE DEF new, Empty
      <4>3. [t |-> s.t, open |-> s.open \ {x}] \in A
        BY <3>1, <3>3, <4>2 DEF A
      <4> QED
        BY <3>2, <4>1, <4>3
    <3>7. CASE Cardinality(S[x].entries) = 1
      <4>1. PICK e : S[x].entries = {e}
        <5>1. IsFiniteSet(S[x].entries)
          BY <3>1, <3>4, MatchType
        <5> QED
          BY <3>7, <5>1, FS_Singleton
      <4>2. S[x].next # x
        <5>1. Layout(f, M, rank)
          BY DEF Flow, M
        <5>2. x # None /\ x \in Ids
          BY <1>1, <3>1, BracketParts, MatchType
        <5>3. M[x].next = x => rank[x] < rank[x]
          BY <3>1, <5>1, <5>2 DEF Layout
        <5>4. rank[x] \in Nat
          BY <5>1, <5>2 DEF Layout
        <5> QED
          BY <3>4, <5>3, <5>4
      <4>3. ASSUME f.mode # "RR"
            PROVE  /\ ~S[x].confirmed
                   /\ S[x].next # None => ~S[S[x].next].confirmed
                   /\ S[x].next = None => x[1] # "LB"
                   /\ \A y \in s.open \ {x} : S[y].entries = {} /\ y # S[x].next
        <5>1. s.t = left /\ S = N
          BY <3>1, <3>3, <4>1, <4>3 DEF N
        <5>2. N[x].entries = {d \in M[x].entries : d.who # c}
          BY <1>4, <3>1 DEF Shrinks
        <5>3. e \in M[x].entries /\ e.who # c
          BY <4>1, <5>1, <5>2
        <5>4. ~M[x].confirmed /\ c \in Standing(M, x)
          BY <1>2, <3>1
        <5>5. Flow(f, M, rank) /\ Finals(f, M)
          BY DEF M
        <5>6. /\ M[x].next # None => /\ M[x].next \in DOMAIN M
                                     /\ Calm(M, M[x].next)
                                     /\ c \notin Standing(M, M[x].next)
              /\ \A y \in DOMAIN M : ~M[y].confirmed /\ c \in Standing(M, y) /\ y # x =>
                   \A d \in M[y].entries : d.who = c
          BY <1>1, <3>1, <4>3, <5>3, <5>4, <5>5, VacantMatch
        <5>7. ~S[x].confirmed
          BY <1>4, <3>1, <5>1, <5>4 DEF Shrinks
        <5>8. S[x].next # None => ~S[S[x].next].confirmed
          <6> SUFFICES ASSUME M[x].next # None PROVE ~N[M[x].next].confirmed
            BY <3>4, <5>1
          <6>1. ~M[M[x].next].confirmed
            BY <5>6, LeadsSelf DEF Calm
          <6> QED
            BY <1>4, <5>6, <6>1 DEF Shrinks
        <5>9. S[x].next = None => x[1] # "LB"
          <6>1. M[x].entries # {}
            BY <5>3
          <6> QED
            BY <1>1, <3>1, <3>4, <5>5, <6>1, NotDead
        <5>10. ASSUME NEW y \in s.open \ {x} PROVE S[y].entries = {} /\ y # S[x].next
          <6>1. y \in DOMAIN M /\ y \in K /\ ~M[y].confirmed /\ c \in Standing(M, y) /\ y # None
            BY <1>1, <1>2, <3>1, BracketParts
          <6>2. N[y].entries = {d \in M[y].entries : d.who # c}
            BY <1>4, <6>1 DEF Shrinks
          <6>3. N[y].entries = {}
            BY <5>6, <6>1, <6>2
          <6> QED
            BY <3>4, <5>1, <5>6, <6>1, <6>3
        <5> QED
          BY <5>7, <5>8, <5>9, <5>10
      <4>4. new = Forfeited(s.t, f, x, S[x].next, confirming)
        BY <3>4
      <4> HIDE DEF new
      <4>5. s.t \in Tournaments /\ x \in DOMAIN S
        BY <3>1, <3>4
      <4>6. LinkedAs(S, new.matches) /\ SameRowsBut(S, new.matches, x, S[x].next)
        BY <4>1, <4>4, <4>5, ForfeitedLinks
      <4>7. Finals(f, new.matches) /\ Stands(f, new)
        <5>1. CASE f.mode = "RR"
          BY <3>3, <4>1, <4>2, <4>4, <4>5, <5>1, RoundRobinStands
        <5>2. CASE f.mode # "RR"
          <6>1. /\ ~S[x].confirmed
                /\ S[x].next # None => ~S[S[x].next].confirmed
                /\ S[x].next = None => x[1] # "LB"
            BY <4>3, <5>2
          <6> QED
            BY <3>3, <4>1, <4>2, <4>4, <4>5, <6>1, ForfeitedStands
        <5> QED
          BY <5>1, <5>2
      <4>8. LinkedAs(M, new.matches)
        BY <3>3, <4>6 DEF LinkedAs
      <4>9. Empty([t |-> new, open |-> s.open \ {x}])
        <5> SUFFICES ASSUME f.mode # "RR", NEW y \in s.open \ {x} PROVE new.matches[y].entries = {}
          OBVIOUS
        <5>1. y \in DOMAIN S /\ y # x
          BY <1>2, <3>1, <3>4
        <5>2. S[y].entries = {} /\ y # S[x].next
          BY <4>3
        <5> HIDE DEF S
        <5> QED
          BY <4>6, <5>1, <5>2 DEF SameRowsBut
      <4> HIDE DEF Empty
      <4>10. [t |-> new, open |-> s.open \ {x}] \in A
        BY <3>1, <3>5, <4>7, <4>8, <4>9 DEF A
      <4> QED
        BY <3>2, <4>10 DEF new
    <3> QED
      BY <3>6, <3>7
  <2> QED
    BY <2>1, <2>2
<1>8. \E s \in A : Removed(t, f, c, links, confirming) = s.t
  <2> HIDE DEF A
  <2> QED
    BY <1>5, <1>6, <1>7, RemovedBy DEF K, M
<1>9. \A s \in A : Finals(f, s.t.matches) /\ Stands(f, s.t)
  OBVIOUS
<1> HIDE DEF A
<1> QED
  BY <1>8, <1>9 DEF links, M
-----------------------------------------------------------------------------
(* Every step keeps the winner *)

WinnerFirm == Finals(format, tournament.matches) /\ Stands(format, tournament)

\* A change of the status in progress is one that was allowed; deleting a
\* team mars the bracket.
PromiseInv ==
  \A w \in Workers :
    /\ Serving(w, "delete") => marred
    /\ Serving(w, "status") \/ Serving(w, "write") => request[w].new \in Transitions[request[w].status]

WinnerInv == PromiseInv /\ (~raced /\ ~marred => WinnerFirm)

LEMMA InitWinner == HistoryInit => WinnerInv
<1> SUFFICES ASSUME HistoryInit PROVE WinnerInv
  OBVIOUS
<1>1. PromiseInv
  BY DEF HistoryInit, Init, PromiseInv, Serving, Idle
<1>2. DOMAIN tournament.matches = {} /\ tournament.winner = None
  BY DEF HistoryInit, Init
<1>3. WinnerFirm
  BY <1>2 DEF WinnerFirm, Finals, Stands, Ends
<1> QED
  BY <1>1, <1>3 DEF WinnerInv

LEMMA SameStanding ==
  ASSUME WinnerFirm, format' = format, tournament'.matches = tournament.matches,
         tournament'.winner = tournament.winner,
         tournament.winner # None => tournament'.status = tournament.status
  PROVE  WinnerFirm'
BY DEF WinnerFirm, Stands

\* Who took the deciding match stands in it.
LEMMA TakerStands ==
  ASSUME NEW f, NEW M \in Brackets, NEW rank, Flow(f, M, rank), NEW x \in Ends(f, M), M[x].confirmed
  PROVE  Takes(M[x]) \in Standing(M, x)
<1>1. x \in DOMAIN M /\ f.mode # "RR" /\ M[x].entries \in Rows
  BY MatchType DEF Ends, Deciding
<1>2. Decided(M[x])
  BY <1>1 DEF Flow, Scores
<1>3. CASE \E e \in M[x].entries : M[x].entries = {e}
  <2>1. PICK e \in M[x].entries : M[x].entries = {e}
    BY <1>3
  <2>2. Cardinality(M[x].entries) = 1
    BY <2>1, FS_Singleton
  <2>3. e.who \in Entrants(M[x].entries)
    BY <2>1 DEF Entrants
  <2> QED
    BY <2>2, <2>3 DEF Takes, Standing
<1>4. CASE \E d, e \in M[x].entries : M[x].entries = {d, e} /\ d.score = 1 /\ e.score = 0
  <2>1. PICK d, e \in M[x].entries : M[x].entries = {d, e} /\ d.score = 1 /\ e.score = 0
    BY <1>4
  <2>2. Takes(M[x]) = d.who
    BY <1>1, <2>1, TakenByScore
  <2> QED
    BY <2>1, <2>2, InStanding
<1> QED
  BY <1>2, <1>3, <1>4 DEF Decided

\* A change of the status that nothing raced starts at the status the
\* tournament has, and a completed one has no way out.
LEMMA WriteStatusStands ==
  ASSUME BracketInv, PromiseInv, WinnerFirm, Observe, ~raced', NEW w \in Workers, WriteStatus(w)
  PROVE  WinnerFirm'
<1> DEFINE r == request[w]
<1>1. /\ Serving(w, "write") /\ format' = format
      /\ tournament' = [tournament EXCEPT
                          !.status = IF r.new # r.rowStatus THEN r.new ELSE @,
                          !.winner = IF r.winner # r.rowWinner THEN r.winner ELSE @]
  BY DEF WriteStatus
<1>2. r.new \in Transitions[r.status]
  BY <1>1 DEF PromiseInv
<1>3. ~Races(w)
  BY DEF Observe
<1> HIDE DEF r
<1>4. CASE tournament' = tournament
  BY <1>1, <1>4, SameStanding
<1>5. CASE tournament' # tournament
  <2>1. tournament.status = r.status /\ tournament.winner = r.winner
    BY <1>1, <1>3, <1>5 DEF Races, r
  <2>2. tournament'.winner = tournament.winner /\ tournament'.matches = tournament.matches
    BY <1>1, <2>1 DEF BracketInv, Tournaments
  <2>3. tournament.winner = None
    <3>1. tournament.status # "COMPLETED"
      BY <1>2, <2>1 DEF Transitions
    <3> QED
      BY <3>1 DEF WinnerFirm, Stands
  <2> QED
    BY <1>1, <2>2, <2>3, SameStanding
<1> QED
  BY <1>4, <1>5

\* A bracket made while the tournament has no winner.
LEMMA GenerateBracketStands ==
  ASSUME BracketInv, WinnerFirm, Observe, ~raced', NEW w \in Workers, GenerateBracket(w)
  PROVE  WinnerFirm'
<1> DEFINE list == Entries
           M == Bracket(format, list)
<1>1. /\ Serving(w, "generate") /\ generation' = generation + 1
      /\ Len(list) >= IF format.mode = "DE" THEN 4 ELSE 2
      /\ format' = format /\ format \in Formats
      /\ tournament'.matches = M /\ tournament'.winner = tournament.winner
  BY DEF GenerateBracket, BracketInv, Tournaments
<1>2. ~Races(w)
  BY DEF Observe
<1>3. generation' # generation
  BY <1>1 DEF BracketInv
<1>4. tournament.winner = None
  BY <1>1, <1>2, <1>3 DEF Races, WinnerFirm, Stands
<1>5. Drafted(format, list, Active)
  BY <1>1, EntriesDrafted
<1>6. list \in Seq(Contestants)
  BY <1>5 DEF Drafted
<1> HIDE DEF list
<1>7. Finals(format, M) /\ \A x \in Ends(format, M) : ~M[x].confirmed
  BY <1>1, <1>6, BracketFinals
<1> HIDE DEF M
<1> QED
  BY <1>1, <1>4, <1>7 DEF WinnerFirm, Stands

LEMMA EnterResultStands ==
  ASSUME BracketInv, Flowing, WinnerFirm, NEW m \in Matches, NEW who \in Contestants \cup {None},
         EnterResult(m, who)
  PROVE  WinnerFirm'
<1> DEFINE u == Confirmed(tournament, format, m, who)
           active == Active
<1>1. /\ m \in DOMAIN tournament.matches /\ tournament \in Tournaments
      /\ Playable(format, tournament.matches[m]) /\ who \in Results(tournament.matches[m])
      /\ format' = format /\ tournament' = u
  BY DEF EnterResult, Matches, BracketInv
<1>2. who \in Outcomes(format, tournament.matches[m])
  BY <1>1, ResultsPossible
<1>3. PICK rank : Flow(format, tournament.matches, rank) /\ Carried(tournament.matches, active, {})
  BY DEF Flowing
<1>4. Finals(format, tournament.matches) /\ Stands(format, tournament)
  BY DEF WinnerFirm
<1> HIDE DEF active
<1>5. Finals(format, u.matches) /\ Stands(format, u)
  BY <1>1, <1>2, <1>3, <1>4, ConfirmedStands
<1> HIDE DEF u
<1> QED
  BY <1>1, <1>5 DEF WinnerFirm

LEMMA SubmitScoresStands ==
  ASSUME BracketInv, ReportInv, Flowing, WinnerFirm, NEW w \in Workers, SubmitScores(w)
  PROVE  WinnerFirm'
<1> DEFINE m == request[w].match
           who == request[w].winner
           u == Confirmed(tournament, format, m, who)
           active == Active
<1>1. /\ m \in DOMAIN tournament.matches /\ tournament \in Tournaments
      /\ Playable(format, tournament.matches[m])
      /\ who \in Contestants \cup {None}
      /\ format' = format /\ tournament' = u
  BY DEF SubmitScores, StillValid, Known, Matches, BracketInv, Serving, RequestsOK, RequestOK
<1>2. who \in Outcomes(format, tournament.matches[m])
  <2>1. Entrants(tournament.matches[m].entries) = request[w].entrants
    BY DEF SubmitScores, StillValid
  <2>2. who \in request[w].entrants \cup (IF format.mode = "RR" THEN {None} ELSE {})
    BY DEF SubmitScores, ReportInv
  <2> HIDE DEF m, who
  <2> QED
    BY <2>1, <2>2 DEF Outcomes
<1>3. PICK rank : Flow(format, tournament.matches, rank) /\ Carried(tournament.matches, active, {})
  BY DEF Flowing
<1>4. Finals(format, tournament.matches) /\ Stands(format, tournament)
  BY DEF WinnerFirm
<1> HIDE DEF active, m, who
<1>5. Finals(format, u.matches) /\ Stands(format, u)
  BY <1>1, <1>2, <1>3, <1>4, ConfirmedStands
<1> HIDE DEF u
<1> QED
  BY <1>1, <1>5 DEF WinnerFirm
LEMMA CorrectResultStands ==
  ASSUME BracketInv, Flowing, WinnerFirm, NEW w \in Workers, CorrectResult(w), Observe, ~marred'
  PROVE  WinnerFirm'
<1> DEFINE m == request[w].match
           M == tournament.matches
           C == {m} \cup Affected(M, m)
           retracted == Retracted(tournament, format, m)
           active == Active
<1>1. /\ Serving(w, "correction")
      /\ m \in Matches /\ m \in DOMAIN M /\ tournament \in Tournaments
      /\ Match(m).confirmed /\ M[m].confirmed
      /\ Cardinality(Match(m).entries) >= 2
      /\ corrections' = corrections + 1
      /\ format' = format
      /\ \/ tournament' = retracted
         \/ /\ Playable(format, retracted.matches[m])
            /\ \E who \in Outcomes(format, retracted.matches[m]) :
                 tournament' = Confirmed(retracted, format, m, who)
  BY DEF CorrectResult, Known, Match, Matches, BracketInv
<1>2. corrections' # corrections
  BY <1>1, FormatsChecked DEF BracketInv
<1>3. \A x \in Affected(M, m) : ~PassedOn(x)
  <2>1. ~Mars(w)
    BY DEF Observe
  <2> QED
    BY <1>1, <1>2, <2>1 DEF Mars
<1>4. PICK rank : Flow(format, M, rank) /\ Carried(M, active, {})
  BY DEF Flowing
<1>5. retracted \in Tournaments /\ m \in DOMAIN retracted.matches
  <2> HIDE DEF m
  <2> QED
    BY <1>1, RetractedType DEF BracketInv
<1>6. Ready(M, C)
  <2> HIDE DEF m, active
  <2> QED
    BY <1>1, <1>3, <1>4, ReadyStart
<1>7. Finals(format, M) /\ Stands(format, tournament) /\ m \in C \cap DOMAIN M
  BY <1>1 DEF WinnerFirm
<1>8. Flow(format, retracted.matches, rank) /\ Carried(retracted.matches, active, {})
  <2> HIDE DEF m, active, C
  <2> QED
    BY <1>1, <1>4, <1>6, <1>7, RetractedFlow
<1>9. Finals(format, retracted.matches) /\ Stands(format, retracted)
  <2> HIDE DEF m, active, C
  <2> QED
    BY <1>1, <1>4, <1>6, <1>7, RetractedStands
<1>10. CASE tournament' = retracted
  <2> HIDE DEF retracted
  <2> QED
    BY <1>1, <1>9, <1>10 DEF WinnerFirm
<1>11. ASSUME NEW who \in Outcomes(format, retracted.matches[m]),
              Playable(format, retracted.matches[m]),
              tournament' = Confirmed(retracted, format, m, who)
       PROVE  WinnerFirm'
  <2>1. who \in Contestants \cup {None}
    <3> HIDE DEF retracted, m
    <3>1. retracted.matches[m].entries \in Rows
      BY <1>5, TournamentForm, MatchType
    <3>2. Entrants(retracted.matches[m].entries) \subseteq Contestants
      BY <3>1, EntrantsType
    <3> QED
      BY <1>11, <3>2 DEF Outcomes
  <2> DEFINE u == Confirmed(retracted, format, m, who)
  <2>2. Finals(format, u.matches) /\ Stands(format, u)
    <3> HIDE DEF retracted, m, active
    <3> QED
      BY <1>5, <1>8, <1>9, <1>11, <2>1, ConfirmedStands
  <2>3. tournament' = u
    BY <1>11
  <2> HIDE DEF u
  <2> QED
    BY <1>1, <2>2, <2>3 DEF WinnerFirm
<1> QED
  BY <1>1, <1>10, <1>11

LEMMA LeavingStands ==
  ASSUME BracketInv, Flowing, WinnerFirm, NEW c, NEW confirming \in BOOLEAN, format' = format,
         tournament' = Removed(tournament, format, c, OpenMatches(tournament.matches, c), confirming)
  PROVE  WinnerFirm'
<1> DEFINE u == Removed(tournament, format, c, OpenMatches(tournament.matches, c), confirming)
<1>1. PICK rank : Flow(format, tournament.matches, rank)
  BY DEF Flowing
<1>2. tournament \in Tournaments /\ Finals(format, tournament.matches) /\ Stands(format, tournament)
  BY DEF WinnerFirm, BracketInv
<1>3. Finals(format, u.matches) /\ Stands(format, u)
  BY <1>1, <1>2, RemovedStands
<1>4. tournament' = u
  OBVIOUS
<1> HIDE DEF u
<1> QED
  BY <1>3, <1>4 DEF WinnerFirm

LEMMA RemoveTeamStands ==
  ASSUME BracketInv, Flowing, WinnerFirm, Observe, ~marred', NEW w \in Workers, RemoveTeam(w)
  PROVE  WinnerFirm'
<1> DEFINE r == request[w]
           c == r.team
           confirming == r.confirming
<1>1. /\ Serving(w, "removal") /\ c \in Active /\ format' = format
      /\ roster' = [roster EXCEPT ![c] = "removed"]
      /\ tournament' = IF r.generation # generation THEN tournament
                       ELSE Removed(tournament, format, c, r.links, confirming)
  BY DEF RemoveTeam, MayLeave
<1>2. confirming \in BOOLEAN
  BY <1>1 DEF BracketInv, RequestsOK, RequestOK, Serving
<1>3. roster[c] = "active" /\ roster'[c] = "removed"
  BY <1>1 DEF BracketInv, Active
<1>4. r.links = OpenMatches(tournament.matches, c)
  <2>1. ~Mars(w)
    BY DEF Observe
  <2>2. roster' # roster
    BY <1>3
  <2> QED
    BY <1>1, <2>1, <2>2 DEF Mars
<1> HIDE DEF c, confirming
<1>5. CASE tournament' = tournament
  BY <1>1, <1>5, SameStanding
<1>6. CASE tournament' = Removed(tournament, format, c, r.links, confirming)
  BY <1>1, <1>2, <1>4, <1>6, LeavingStands
<1> QED
  BY <1>1, <1>5, <1>6

\* Who can be deleted is in no match, hence is not the winner.
LEMMA RemoveUnplacedStands ==
  ASSUME BracketInv, Flowing, WinnerFirm, NEW c \in Contestants, RemoveUnplaced(c)
  PROVE  WinnerFirm'
<1> DEFINE M == tournament.matches
<1>1. /\ format' = format
      /\ tournament' = [tournament EXCEPT !.winner = IF @ = c THEN None ELSE @]
      /\ \A m \in Matches : c \notin Entrants(M[m].entries)
  BY DEF RemoveUnplaced
<1>2. tournament.winner # c
  <2> SUFFICES ASSUME tournament.winner = c PROVE FALSE
    OBVIOUS
  <2>1. c # None
    BY NoneApart
  <2>2. PICK x \in Ends(format, M) : M[x].confirmed
    BY <2>1 DEF WinnerFirm, Stands
  <2>3. Takes(M[x]) = c
    BY <2>2 DEF WinnerFirm, Stands
  <2>4. PICK rank : Flow(format, M, rank)
    BY DEF Flowing
  <2>5. M \in Brackets
    BY TournamentForm DEF BracketInv
  <2>6. c \in Standing(M, x)
    BY <2>2, <2>3, <2>4, <2>5, TakerStands
  <2>7. x \in Matches
    BY DEF Ends, Matches
  <2> QED
    BY <1>1, <2>6, <2>7 DEF Standing
<1>3. tournament'.matches = M /\ tournament'.winner = tournament.winner
      /\ tournament'.status = tournament.status
  BY <1>1, <1>2 DEF BracketInv, Tournaments
<1> QED
  BY <1>1, <1>3, SameStanding

LEMMA StepStands ==
  ASSUME BracketInv, FlowInv, WinnerInv, Next, Observe, ~raced', ~marred'
  PROVE  WinnerFirm'
<1>1. ~marred /\ ~raced
  BY DEF Observe
<1>2. ReportInv /\ Flowing /\ WinnerFirm /\ PromiseInv
  BY <1>1 DEF FlowInv, WinnerInv
<1>3. CASE ResultEntered
  BY <1>2, <1>3, EnterResultStands DEF ResultEntered
<1>4. ASSUME NEW c \in Contestants, RemoveContestant(c)
      PROVE  WinnerFirm'
  <2> DEFINE confirming == TRUE
  <2>1. /\ confirming \in BOOLEAN /\ format' = format
        /\ tournament' = Removed(tournament, format, c, OpenMatches(tournament.matches, c), confirming)
    BY <1>4 DEF RemoveContestant
  <2> HIDE DEF confirming
  <2> QED
    BY <1>2, <2>1, LeavingStands
<1>5. ASSUME NEW w \in Workers,
             \/ RequestBracket(w)
             \/ \E m \in Matches : \E who \in Contestants \cup {None} : CheckScores(w, m, who)
             \/ \E m \in Matches : OpenCorrection(w, m)
             \/ \E new \in Statuses : ChangeStatus(w, new)
             \/ RereadTournament(w)
             \/ \E c \in Contestants, confirming \in BOOLEAN : FindTeamEntries(w, c, confirming)
             \/ DeleteTeamRow(w)
             \/ Abandon(w)
      PROVE  WinnerFirm'
  <2>1. UNCHANGED <<format, tournament>>
    BY <1>5 DEF RequestBracket, CheckScores, OpenCorrection, ChangeStatus, RereadTournament,
       FindTeamEntries, DeleteTeamRow, Abandon
  <2> QED
    BY <1>2, <2>1, SameStanding
<1>6. ASSUME NEW w \in Workers, ClearTeamWinner(w)
      PROVE  FALSE
  BY <1>1, <1>2, <1>6 DEF ClearTeamWinner, PromiseInv
<1>7. ASSUME NEW w \in Workers, NEW c \in Contestants, DeleteTeamEntries(w, c)
      PROVE  FALSE
  <2>1. request' = [request EXCEPT ![w] = [kind |-> "delete", step |-> "winner", team |-> c]]
    BY <1>7 DEF DeleteTeamEntries, Take
  <2>2. request'[w].kind = "delete"
    BY <2>1 DEF BracketInv, RequestsOK
  <2>3. ~Mars(w)
    BY DEF Observe
  <2> QED
    BY <2>2, <2>3 DEF Mars
<1> QED
  BY <1>2, <1>3, <1>4, <1>5, <1>6, <1>7, GenerateBracketStands, SubmitScoresStands,
     CorrectResultStands, RemoveTeamStands, RemoveUnplacedStands, WriteStatusStands DEF Next
LEMMA StepPromises ==
  ASSUME BracketInv, PromiseInv, Next, Observe
  PROVE  PromiseInv'
<1> USE DEF BracketInv, RequestsOK
<1> DEFINE Kept(r) == /\ r.kind = "delete" => marred'
                      /\ r.kind \in {"status", "write"} => r.new \in Transitions[r.status]
<1>1. \A w \in Workers : Kept(request[w])
  BY DEF PromiseInv, Serving, Observe
<1>2. Kept(Idle)
  BY DEF Idle
<1>3. ASSUME \A w \in Workers : Kept(request'[w])
      PROVE  PromiseInv'
  BY <1>3 DEF PromiseInv, Serving
<1> SUFFICES ASSUME NEW v \in Workers PROVE Kept(request'[v])
  BY <1>3
<1>4. ASSUME NEW w \in Workers, NEW r, Kept(r), request' = [request EXCEPT ![w] = r]
      PROVE  Kept(request'[v])
  <2>1. request'[v] = IF v = w THEN r ELSE request[v]
    BY <1>4
  <2> HIDE DEF Kept
  <2> QED
    BY <1>1, <1>4, <2>1
<1>5. ASSUME NEW w \in Workers,
             GenerateBracket(w) \/ SubmitScores(w) \/ CorrectResult(w) \/ WriteStatus(w)
               \/ RemoveTeam(w) \/ DeleteTeamRow(w) \/ Abandon(w)
      PROVE  Kept(request'[v])
  <2>1. request' = [request EXCEPT ![w] = Idle]
    BY <1>5 DEF GenerateBracket, SubmitScores, CorrectResult, WriteStatus, RemoveTeam,
       DeleteTeamRow, Abandon, Answer
  <2> HIDE DEF Kept
  <2> QED
    BY <1>2, <1>4, <2>1
<1>6. ASSUME NEW w \in Workers,
             \/ RequestBracket(w)
             \/ \E m \in Matches : OpenCorrection(w, m)
             \/ \E m \in Matches : \E who \in Contestants \cup {None} : CheckScores(w, m, who)
             \/ \E c \in Contestants, confirming \in BOOLEAN : FindTeamEntries(w, c, confirming)
      PROVE  Kept(request'[v])
  <2>1. \E r : r.kind \notin {"delete", "status", "write"} /\ request' = [request EXCEPT ![w] = r]
    <3>1. CASE RequestBracket(w)
      BY <3>1 DEF RequestBracket, Take
    <3>2. ASSUME NEW m \in Matches, OpenCorrection(w, m)
          PROVE  \E r : r.kind \notin {"delete", "status", "write"} /\ request' = [request EXCEPT ![w] = r]
      BY <3>2 DEF OpenCorrection, Take
    <3>3. ASSUME NEW m \in Matches, NEW who \in Contestants \cup {None}, CheckScores(w, m, who)
          PROVE  \E r : r.kind \notin {"delete", "status", "write"} /\ request' = [request EXCEPT ![w] = r]
      BY <3>3 DEF CheckScores, Take
    <3>4. ASSUME NEW c \in Contestants, NEW confirming \in BOOLEAN, FindTeamEntries(w, c, confirming)
          PROVE  \E r : r.kind \notin {"delete", "status", "write"} /\ request' = [request EXCEPT ![w] = r]
      BY <3>4 DEF FindTeamEntries, Take
    <3> QED
      BY <1>6, <3>1, <3>2, <3>3, <3>4
  <2>2. PICK r : r.kind \notin {"delete", "status", "write"} /\ request' = [request EXCEPT ![w] = r]
    BY <2>1
  <2>3. Kept(r)
    BY <2>2
  <2> HIDE DEF Kept
  <2> QED
    BY <1>4, <2>2, <2>3
<1>7. ASSUME NEW w \in Workers, NEW new \in Statuses, ChangeStatus(w, new)
      PROVE  Kept(request'[v])
  <2> DEFINE r == [kind |-> "status", new |-> new,
                   status |-> tournament.status, winner |-> tournament.winner]
  <2>1. request' = [request EXCEPT ![w] = r]
    BY <1>7 DEF ChangeStatus, Take
  <2>2. Kept(r)
    BY <1>7 DEF ChangeStatus
  <2> HIDE DEF r, Kept
  <2> QED
    BY <1>4, <2>1, <2>2
<1>8. ASSUME NEW w \in Workers, RereadTournament(w)
      PROVE  Kept(request'[v])
  <2> DEFINE q == request[w]
             r == [kind |-> "write", new |-> q.new, status |-> q.status, winner |-> q.winner,
                   rowStatus |-> tournament.status, rowWinner |-> tournament.winner]
  <2>1. request' = [request EXCEPT ![w] = r]
    BY <1>8 DEF RereadTournament
  <2>2. q.new \in Transitions[q.status]
    BY <1>8 DEF RereadTournament, PromiseInv
  <2>3. Kept(r)
    <3> HIDE DEF q
    <3> QED
      BY <2>2
  <2> HIDE DEF r, Kept
  <2> QED
    BY <1>4, <2>1, <2>3
<1>9. ASSUME NEW w \in Workers, NEW r, r.kind = "delete", request' = [request EXCEPT ![w] = r]
      PROVE  Kept(request'[v])
  <2>1. request'[w].kind = "delete"
    BY <1>9
  <2>2. Mars(w)
    BY <2>1 DEF Mars
  <2>3. marred'
    BY <2>2 DEF Observe
  <2>4. Kept(r)
    BY <1>9, <2>3
  <2> HIDE DEF Kept
  <2> QED
    BY <1>4, <1>9, <2>4
<1>10. ASSUME NEW w \in Workers, NEW c \in Contestants, DeleteTeamEntries(w, c)
       PROVE  Kept(request'[v])
  <2> DEFINE r == [kind |-> "delete", step |-> "winner", team |-> c]
  <2>1. request' = [request EXCEPT ![w] = r] /\ r.kind = "delete"
    BY <1>10 DEF DeleteTeamEntries, Take
  <2> HIDE DEF r, Kept
  <2> QED
    BY <1>9, <2>1
<1>11. ASSUME NEW w \in Workers, ClearTeamWinner(w)
       PROVE  Kept(request'[v])
  <2> DEFINE r == [request[w] EXCEPT !.step = "row"]
  <2>1. request' = [request EXCEPT ![w] = r]
    BY <1>11 DEF ClearTeamWinner
  <2>2. r.kind = "delete"
    BY <1>11 DEF ClearTeamWinner, Serving, RequestOK
  <2> HIDE DEF r, Kept
  <2> QED
    BY <1>9, <2>1, <2>2
<1>12. ASSUME request' = request PROVE Kept(request'[v])
  BY <1>1, <1>12
<1> HIDE DEF Kept
<1>13. CASE ResultEntered
  BY <1>12, <1>13 DEF ResultEntered, EnterResult
<1>14. ASSUME NEW c \in Contestants, RemoveContestant(c) \/ RemoveUnplaced(c)
       PROVE  Kept(request'[v])
  BY <1>12, <1>14 DEF RemoveContestant, RemoveUnplaced
<1> QED
  BY <1>5, <1>6, <1>7, <1>8, <1>10, <1>11, <1>13, <1>14 DEF Next

LEMMA NextWinner ==
  BracketInv /\ FlowInv /\ WinnerInv /\ [HistoryNext]_historyVars => WinnerInv'
<1> SUFFICES ASSUME BracketInv, FlowInv, WinnerInv, [HistoryNext]_historyVars PROVE WinnerInv'
  OBVIOUS
<1>1. CASE HistoryNext
  <2>1. PromiseInv'
    BY <1>1, StepPromises DEF HistoryNext, WinnerInv
  <2>2. ~raced' /\ ~marred' => WinnerFirm'
    BY <1>1, StepStands DEF HistoryNext
  <2> QED
    BY <2>1, <2>2 DEF WinnerInv
<1>2. CASE UNCHANGED historyVars
  <2> USE <1>2 DEF historyVars, vars
  <2>1. PromiseInv'
    BY DEF WinnerInv, PromiseInv, Serving
  <2>2. WinnerFirm => WinnerFirm'
    BY SameStanding
  <2> QED
    BY <2>1, <2>2 DEF WinnerInv
<1> QED
  BY <1>1, <1>2

\* Unless a change of the status raced a result, or the bracket is marred,
\* the tournament names a winner exactly while its deciding match is
\* confirmed: the one who took that match, and the tournament is completed.
\* This holds through corrections, walkovers, second reports and brackets
\* made anew (_try_auto_complete_tournament, retraction_reverts_completion).
THEOREM WinnerAndBracketAgree == HistorySpec => []WinnerStands
<1>1. WinnerInv => WinnerStands
  <2> SUFFICES ASSUME WinnerInv, ~raced, ~marred
               PROVE  /\ tournament.winner # None =>
                           /\ tournament.status = "COMPLETED"
                           /\ \E m \in Decisive : Match(m).confirmed /\ Taker(m) = tournament.winner
                      /\ \A m \in Decisive : Match(m).confirmed => Taker(m) = tournament.winner
    BY DEF WinnerStands
  <2>1. Decisive = Ends(format, tournament.matches)
    BY DEF Decisive, Ends, Match, Matches
  <2>2. \A m : Taker(m) = Takes(tournament.matches[m]) /\ Match(m) = tournament.matches[m]
    BY DEF Taker, Takes, Match, Who
  <2>3. Stands(format, tournament)
    BY DEF WinnerInv, WinnerFirm
  <2> QED
    BY <2>1, <2>2, <2>3 DEF Stands
<1>2. HistorySpec => [](BracketInv /\ FlowInv)
  BY Flows
<1> QED
  BY <1>1, <1>2, InitWinner, NextWinner, PTL DEF HistorySpec
=============================================================================
