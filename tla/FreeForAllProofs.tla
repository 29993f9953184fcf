--------------------------- MODULE FreeForAllProofs ---------------------------
(***************************************************************************)
(* Theorems about FreeForAll: type correctness, and what a free-for-all    *)
(* tournament promises, for any number of contestants and any formats.     *)
(***************************************************************************)
EXTENDS FreeForAllHistory, FiniteSetTheorems, TLAPS

-----------------------------------------------------------------------------
(* Groups *)

(* What the integers divided by k are. *)
LEMMA Division ==
  ASSUME NEW a \in Nat, NEW k \in Nat \ {0}
  PROVE  /\ a \div k \in Nat /\ a % k \in 0..(k - 1)
         /\ a = k * (a \div k) + (a % k)
OBVIOUS

(* Rounding up. *)
LEMMA RoundedUp ==
  ASSUME NEW n \in Nat, NEW k \in Nat \ {0}
  PROVE  /\ (n + k - 1) \div k \in Nat
         /\ n > 0 => (n + k - 1) \div k > 0
         /\ n = 0 => (n + k - 1) \div k = 0
         /\ n <= k * ((n + k - 1) \div k)
<1>1. n + k - 1 \in Nat
  OBVIOUS
<1> DEFINE q == (n + k - 1) \div k
           r == (n + k - 1) % k
<1>2. q \in Nat /\ r \in 0..(k - 1) /\ n + k - 1 = k * q + r
  BY <1>1, Division
<1>3. n > 0 => q # 0
  BY <1>2
<1>4. n = 0 => q = 0
  <2> SUFFICES ASSUME n = 0, q >= 1 PROVE FALSE
    BY <1>2
  <2>1. k * q >= k
    BY <1>2
  <2> QED
    BY <1>2, <2>1
<1> QED
  BY <1>2, <1>3, <1>4

(* A list that is not empty makes at least one group. *)
LEMMA GroupsExist ==
  ASSUME NEW n \in Nat, format \in FfaFormats
  PROVE  /\ GroupCount(n) \in Nat
         /\ n > 0 => GroupCount(n) > 0
         /\ n = 0 => GroupCount(n) = 0
<1>1. format.max \in Nat \ {0}
  BY FormatsChecked
<1> QED
  BY <1>1, RoundedUp DEF GroupCount

(* Everybody in a list is in one of the groups. *)
LEMMA GroupsHave ==
  ASSUME NEW n \in Nat, NEW i \in 1..n, format \in FfaFormats
  PROVE  GroupOf(i, n) \in 1..GroupCount(n)
<1> DEFINE k == GroupCount(n)
<1>1. k \in Nat \ {0}
  BY GroupsExist
<1>2. (i - 1) % k \in 0..(k - 1) 
  BY <1>1, Division
<1> HIDE DEF k
<1> QED
  BY <1>1, <1>2 DEF GroupOf, k

-----------------------------------------------------------------------------
(* Lists *)

Pools == {"MAIN", "WB", "LB", "GF"}
Keys == Pools \X Nat \X (Nat \ {0})
Entries == [placement : UNION {[S -> Nat] : S \in SUBSET Contestants}, confirmed : BOOLEAN]

\* A list numbers those in it.
IsList(list) ==
  /\ DOMAIN list \subseteq Contestants /\ IsFiniteSet(DOMAIN list)
  /\ Size(list) \in Nat
  /\ \A c \in DOMAIN list : list[c] \in 1..Size(list)

FfaShape ==
  /\ format \in FfaFormats
  /\ tournament \in [status : Statuses, winner : Contestants \cup {None}]
  /\ matches \in [DOMAIN matches -> Entries] /\ DOMAIN matches \subseteq Keys
  /\ roster \in [Contestants -> {"active", "removed", "gone"}]
  /\ generation \in 0..format.generations
  /\ retractions \in 0..format.retractions

\* Nobody is in two groups of a round.
Apart ==
  \A m, n \in DOMAIN matches :
    m # n /\ m[1] = n[1] /\ m[2] = n[2] => Who(m) \cap Who(n) = {}

(* What a match is. *)
LEMMA EntryShape ==
  ASSUME NEW e \in Entries
  PROVE  /\ e = [placement |-> e.placement, confirmed |-> e.confirmed]
         /\ e.placement \in [DOMAIN e.placement -> Nat]
         /\ DOMAIN e.placement \subseteq Contestants
         /\ e.confirmed \in BOOLEAN
BY DEF Entries

LEMMA MatchShape ==
  ASSUME FfaShape, NEW m \in DOMAIN matches
  PROVE  /\ matches[m] \in Entries
         /\ matches[m].placement \in [Who(m) -> Nat] /\ Who(m) \subseteq Contestants
         /\ matches[m].confirmed \in BOOLEAN
         /\ m[1] \in Pools /\ m[2] \in Nat /\ m[3] \in Nat \ {0} /\ m = <<m[1], m[2], m[3]>>
<1>1. matches[m] \in Entries /\ m \in Keys
  BY DEF FfaShape
<1>2. m[1] \in Pools /\ m[2] \in Nat /\ m[3] \in Nat \ {0} /\ m = <<m[1], m[2], m[3]>>
  BY <1>1 DEF Keys
<1> QED
  BY <1>1, <1>2, EntryShape DEF Who

(* Sets of contestants are finite. *)
LEMMA Few ==
  ASSUME NEW S \in SUBSET Contestants
  PROVE  IsFiniteSet(S) /\ Cardinality(S) \in Nat
BY SeedsDiffer, FS_Subset, FS_CardinalityType

(* Whoever is not counted is behind those who are. *)
LEMMA Position ==
  ASSUME NEW S \in SUBSET Contestants, NEW T \in SUBSET S, NEW c \in S \ T
  PROVE  1 + Cardinality(T) \in 1..Cardinality(S)
<1>1. /\ IsFiniteSet(S) /\ Cardinality(S) \in Nat
      /\ IsFiniteSet(T) /\ Cardinality(T) \in Nat
  BY Few
<1>2. Cardinality(T) <= Cardinality(S) /\ (Cardinality(S) = Cardinality(T) => S = T)
  BY <1>1, FS_Subset
<1> QED
  BY <1>1, <1>2

(* Nobody is above themselves. *)
LEMMA PointsAreNumbers ==
  ASSUME format \in FfaFormats, NEW m, NEW c
  PROVE  Points(m, c) \in Int
<1>1. format.points \in Seq(Int)
  BY FormatsChecked
<1> QED
  BY <1>1 DEF Points

LEMMA NotAboveOneself ==
  ASSUME format \in FfaFormats, NEW m, NEW c \in Contestants
  PROVE  ~Above(m, c, c)
BY PointsAreNumbers, SeedsDiffer DEF Above

LEMMA SeededList ==
  ASSUME NEW S \in SUBSET Contestants
  PROVE  IsList(BySeed(S)) /\ DOMAIN BySeed(S) = S
<1>1. ASSUME NEW c \in S PROVE BySeed(S)[c] \in 1..Cardinality(S)
  <2> DEFINE T == {d \in S : Seed[d] < Seed[c]}
  <2>1. T \in SUBSET S /\ c \in S \ T
    BY SeedsDiffer
  <2>2. 1 + Cardinality(T) \in 1..Cardinality(S)
    BY <2>1, Position
  <2> QED
    BY <2>2 DEF BySeed, Listed
<1>2. DOMAIN BySeed(S) = S
  BY DEF BySeed, Listed
<1> QED
  BY <1>1, <1>2, Few DEF IsList, Size

LEMMA ListInTurn ==
  ASSUME FfaShape, Apart, NEW ms \in SUBSET DOMAIN matches, NEW p, NEW r,
         \A m \in ms : m[1] = p /\ m[2] = r, NEW S \in SUBSET Contestants
  PROVE  IsList(InTurn(ms, S)) /\ DOMAIN InTurn(ms, S) = S
<1> DEFINE before(d, c) ==
             \E m, n \in ms :
               /\ d \in Who(m) /\ c \in Who(n)
               /\ \/ m[3] < n[3]
                  \/ m = n /\ IF matches[m].confirmed THEN Above(m, d, c) ELSE Seed[d] < Seed[c]
<1>1. ASSUME NEW c \in S PROVE InTurn(ms, S)[c] \in 1..Cardinality(S)
  <2> DEFINE T == {d \in S : before(d, c)}
  <2>1. ~before(c, c)
    <3> SUFFICES ASSUME NEW m \in ms, NEW n \in ms, c \in Who(m), c \in Who(n),
                        \/ m[3] < n[3]
                        \/ m = n /\ IF matches[m].confirmed THEN Above(m, c, c)
                                                            ELSE Seed[c] < Seed[c]
                 PROVE  FALSE
      OBVIOUS
    <3>1. m = n
      BY DEF Apart
    <3>2. m[3] \in Nat
      BY MatchShape
    <3>3. ~Above(m, c, c) /\ ~(Seed[c] < Seed[c])
      BY NotAboveOneself, SeedsDiffer DEF FfaShape
    <3> QED
      BY <3>1, <3>2, <3>3
  <2>2. T \in SUBSET S /\ c \in S \ T
    BY <2>1
  <2>3. 1 + Cardinality(T) \in 1..Cardinality(S)
    BY <2>2, Position
  <2>4. InTurn(ms, S)[c] = 1 + Cardinality(T)
    BY DEF InTurn, Listed
  <2> QED
    BY <2>3, <2>4
<1>2. DOMAIN InTurn(ms, S) = S
  BY DEF InTurn, Listed
<1> QED
  BY <1>1, <1>2, Few DEF IsList, Size

LEMMA JoinedList ==
  ASSUME NEW list, NEW more, IsList(list), IsList(more), DOMAIN list \cap DOMAIN more = {}
  PROVE  /\ IsList(Joined(list, more))
         /\ DOMAIN Joined(list, more) = DOMAIN list \cup DOMAIN more
<1> DEFINE both == Joined(list, more)
<1>1. DOMAIN both = DOMAIN list \cup DOMAIN more
  BY DEF Joined
<1>2. Cardinality(DOMAIN both) = Size(list) + Size(more)
  <2>1. Cardinality(DOMAIN list \cap DOMAIN more) = 0
    BY FS_EmptySet
  <2> QED
    BY <1>1, <2>1, FS_Union DEF IsList, Size
<1>3. ASSUME NEW c \in DOMAIN both PROVE both[c] \in 1..(Size(list) + Size(more))
  BY <1>1 DEF Joined, IsList
<1> QED
  BY <1>1, <1>2, <1>3, Few DEF IsList, Size

-----------------------------------------------------------------------------
(* Rounds *)

\* The rounds of a pool are numbered without gaps, and so are their groups.
RoundsInOrder ==
  /\ \A p \in Pools : NextRound(p) \in Nat /\ Rounds(p) = 0..(NextRound(p) - 1)
  /\ \A m \in DOMAIN matches : \A g \in 1..m[3] : <<m[1], m[2], g>> \in DOMAIN matches

\* Which pools there are, and that there is one grand final.
PoolsOfMode ==
  \A m \in DOMAIN matches :
    /\ format.mode = "SE" => m[1] = "MAIN"
    /\ format.mode = "DE" => m[1] \in {"WB", "LB", "GF"}
    /\ m[1] = "GF" => m = <<"GF", 0, 1>>

\* At most one contestant of a match is its first.
OneFirst ==
  \A m \in DOMAIN matches : \A c, d \in Who(m) :
    matches[m].placement[c] = 1 /\ matches[m].placement[d] = 1 => c = d

\* Who takes part is one of those who did at the start, and nothing is played
\* before there is a first round.
Entrants ==
  /\ Active \subseteq Everyone
  /\ \A m \in DOMAIN matches : /\ Who(m) \subseteq Everyone
                               /\ \A c \in Who(m) : matches[m].placement[c] <= format.players
  /\ generation = 0 => DOMAIN matches = {}

BaseInv == FfaShape /\ Apart /\ RoundsInOrder /\ PoolsOfMode /\ OneFirst /\ Entrants

\* What is new: rounds after the latest of their pools, or the grand final.
Growth(new) ==
  /\ \A m \in DOMAIN new :
       /\ m \in Keys /\ m[2] = NextRound(m[1])
       /\ new[m] \in Entries /\ ~new[m].confirmed
       /\ DOMAIN new[m].placement \subseteq Everyone
       /\ \A c \in DOMAIN new[m].placement : new[m].placement[c] = 0
       /\ \A g \in 1..m[3] : <<m[1], m[2], g>> \in DOMAIN new
       /\ format.mode = "SE" => m[1] = "MAIN"
       /\ format.mode = "DE" => m[1] \in {"WB", "LB", "GF"}
       /\ m[1] = "GF" => m = <<"GF", 0, 1>>
  /\ \A m, n \in DOMAIN new :
       m # n /\ m[1] = n[1] => DOMAIN new[m].placement \cap DOMAIN new[n].placement = {}

(* Rounds without gaps end where the next begins. *)
LEMMA AfterTheLast ==
  ASSUME NEW S, NEW k \in Nat, S = 0..(k - 1)
  PROVE  (IF S = {} THEN 0 ELSE 1 + CHOOSE r \in S : \A q \in S : q <= r) = k
<1>1. CASE k = 0
  BY <1>1
<1>2. CASE k > 0
  <2>1. k - 1 \in S /\ \A q \in S : q <= k - 1
    BY <1>2
  <2>2. \A r \in S : (\A q \in S : q <= r) => r = k - 1
    BY <2>1
  <2> DEFINE last == CHOOSE r \in S : \A q \in S : q <= r
  <2>3. last = k - 1
    BY <2>1, <2>2
  <2> HIDE DEF last
  <2>4. (IF S = {} THEN 0 ELSE 1 + last) = k
    BY <2>1, <2>3
  <2> QED
    BY <2>4 DEF last
<1> QED
  BY <1>1, <1>2

LEMMA NextIs ==
  ASSUME NEW p, NEW k \in Nat, Rounds(p) = 0..(k - 1)
  PROVE  NextRound(p) = k
BY AfterTheLast DEF NextRound

LEMMA NextIsNew ==
  ASSUME NEW p, NEW k \in Nat, Rounds(p)' = 0..(k - 1)
  PROVE  NextRound(p)' = k
BY AfterTheLast DEF NextRound

(* A match of a pool is in a round before the next. *)
LEMMA RoundBehind ==
  ASSUME FfaShape, RoundsInOrder, NEW m \in DOMAIN matches
  PROVE  /\ m[1] \in Pools /\ m[2] \in 0..(NextRound(m[1]) - 1) /\ NextRound(m[1]) \in Nat
         /\ m \in RoundOf(m[1], m[2])
<1>1. m[1] \in Pools
  BY MatchShape
<1>2. m \in Pool(m[1])
  BY DEF Pool
<1>3. m[2] \in Rounds(m[1])
  BY <1>2 DEF Rounds
<1> QED
  BY <1>1, <1>2, <1>3 DEF RoundsInOrder, RoundOf

(* A new round, of a list of contestants. *)
LEMMA NewRoundGrows ==
  ASSUME BaseInv, NEW p \in Pools, NEW list, DOMAIN list \subseteq Everyone,
         p # "GF", format.mode = "SE" => p = "MAIN", format.mode = "DE" => p \in {"WB", "LB"}
  PROVE  /\ Growth(NewRound(p, list))
         /\ \A m \in DOMAIN NewRound(p, list) : m[1] = p
         /\ \A m \in DOMAIN NewRound(p, list) :
              DOMAIN NewRound(p, list)[m].placement = Group(list, m[3])
         /\ DOMAIN list # {} => DOMAIN NewRound(p, list) # {}
         /\ DOMAIN list = {} => DOMAIN NewRound(p, list) = {}
<1> DEFINE k == GroupCount(Size(list))
           new == NewRound(p, list)
<1>1. format \in FfaFormats /\ NextRound(p) \in Nat
  BY DEF BaseInv, FfaShape, RoundsInOrder
<1>2. /\ Size(list) \in Nat /\ IsFiniteSet(DOMAIN list)
      /\ DOMAIN list = {} <=> Size(list) = 0
  BY Few, FS_EmptySet DEF Size, Everyone
<1>3. k \in Nat /\ (DOMAIN list = {} <=> k = 0)
  BY <1>1, <1>2, GroupsExist
<1> HIDE DEF k
<1>4. DOMAIN new = {<<p, NextRound(p), g>> : g \in 1..k}
  BY DEF NewRound, k
<1>5. ASSUME NEW m \in DOMAIN new
      PROVE  /\ m \in Keys /\ m[1] = p /\ m[2] = NextRound(p) /\ m[3] \in 1..k
             /\ m = <<p, NextRound(p), m[3]>>
             /\ \A g \in 1..m[3] : <<m[1], m[2], g>> \in DOMAIN new
  <2>1. PICK g \in 1..k : m = <<p, NextRound(p), g>>
    BY <1>4
  <2> QED
    BY <1>1, <1>3, <1>4, <2>1 DEF Keys
<1>6. ASSUME NEW m \in DOMAIN new PROVE new[m] = Fresh(Group(list, m[3]))
  BY DEF NewRound
<1>7. ASSUME NEW g PROVE Group(list, g) \subseteq DOMAIN list
  BY DEF Group
<1>8. ASSUME NEW who \in SUBSET Everyone
      PROVE  /\ Fresh(who) \in Entries /\ ~Fresh(who).confirmed
             /\ DOMAIN Fresh(who).placement = who
             /\ \A c \in who : Fresh(who).placement[c] = 0
  <2>1. who \in SUBSET Contestants
    BY DEF Everyone
  <2>2. [c \in who |-> 0] \in [who -> Nat]
    OBVIOUS
  <2> QED
    BY <2>1, <2>2 DEF Fresh, Entries
<1>9. ASSUME NEW m \in DOMAIN new, NEW n \in DOMAIN new, m # n
      PROVE  Group(list, m[3]) \cap Group(list, n[3]) = {}
  <2>1. m[3] # n[3]
    BY <1>5, <1>9
  <2> QED
    BY <2>1 DEF Group
<1>10. ASSUME NEW m \in DOMAIN new
       PROVE  /\ new[m] \in Entries /\ ~new[m].confirmed
              /\ DOMAIN new[m].placement = Group(list, m[3])
              /\ Group(list, m[3]) \subseteq Everyone
              /\ \A c \in DOMAIN new[m].placement : new[m].placement[c] = 0
  <2>1. Group(list, m[3]) \in SUBSET Everyone
    BY <1>7
  <2> QED
    BY <1>6, <1>8, <2>1
<1>11. k # 0 => DOMAIN new # {}
  <2> SUFFICES ASSUME k # 0 PROVE DOMAIN new # {}
    OBVIOUS
  <2>1. 1 \in 1..k
    BY <1>3
  <2> QED
    BY <1>4, <2>1
<1>12. k = 0 => DOMAIN new = {}
  BY <1>4
<1> HIDE DEF new
<1>13. Growth(new)
  BY <1>5, <1>9, <1>10 DEF Growth
<1> QED
  BY <1>3, <1>5, <1>10, <1>11, <1>12, <1>13 DEF new

-----------------------------------------------------------------------------
(* What a step does to the rounds *)

NewOf(new, p) == {m \in DOMAIN new : m[1] = p}

(* Where no match is added, the rounds stay as they are. *)
LEMMA SameRounds ==
  ASSUME DOMAIN matches' = DOMAIN matches, NEW p
  PROVE  /\ Pool(p)' = Pool(p) /\ Rounds(p)' = Rounds(p) /\ NextRound(p)' = NextRound(p)
         /\ Latest(p)' = Latest(p) /\ \A r : RoundOf(p, r)' = RoundOf(p, r)
<1>1. Pool(p)' = Pool(p)
  BY DEF Pool
<1>2. Rounds(p)' = Rounds(p)
  BY <1>1 DEF Rounds
<1>3. NextRound(p)' = NextRound(p)
  BY <1>2 DEF NextRound
<1>4. \A r : RoundOf(p, r)' = RoundOf(p, r)
  BY <1>1 DEF RoundOf
<1>5. Latest(p)' = Latest(p)
  BY <1>1, <1>3 DEF Latest, RoundOf
<1> QED
  BY <1>1, <1>2, <1>3, <1>4, <1>5

(* What is added is new, and a round after those there are. *)
LEMMA Grown ==
  ASSUME FfaShape, RoundsInOrder, NEW new, Growth(new), matches' = Added(matches, new)
  PROVE  /\ DOMAIN matches' = DOMAIN matches \cup DOMAIN new
         /\ DOMAIN matches \cap DOMAIN new = {}
         /\ \A m \in DOMAIN matches : matches'[m] = matches[m] /\ Who(m)' = Who(m)
         /\ \A m \in DOMAIN new : matches'[m] = new[m] /\ Who(m)' = DOMAIN new[m].placement
<1>1. ASSUME NEW m \in DOMAIN matches, m \in DOMAIN new PROVE FALSE
  <2>1. m[2] \in 0..(NextRound(m[1]) - 1) /\ NextRound(m[1]) \in Nat
    BY <1>1, RoundBehind
  <2>2. m[2] = NextRound(m[1])
    BY <1>1 DEF Growth
  <2> QED
    BY <2>1, <2>2
<1>2. DOMAIN matches' = DOMAIN matches \cup DOMAIN new
  BY DEF Added
<1>3. /\ \A m \in DOMAIN matches : matches'[m] = matches[m]
      /\ \A m \in DOMAIN new : matches'[m] = new[m]
  BY <1>1 DEF Added
<1> QED
  BY <1>1, <1>2, <1>3 DEF Who

LEMMA GrownRounds ==
  ASSUME FfaShape, RoundsInOrder, NEW new, Growth(new), matches' = Added(matches, new),
         NEW p \in Pools
  PROVE  /\ Pool(p)' = Pool(p) \cup NewOf(new, p)
         /\ NextRound(p)' \in Nat /\ Rounds(p)' = 0..(NextRound(p)' - 1)
         /\ \A r \in 0..(NextRound(p) - 1) : RoundOf(p, r)' = RoundOf(p, r)
         /\ NewOf(new, p) = {} => NextRound(p)' = NextRound(p) /\ Latest(p)' = Latest(p)
         /\ NewOf(new, p) # {} =>
              NextRound(p)' = NextRound(p) + 1 /\ Latest(p)' = NewOf(new, p)
<1> DEFINE k == NextRound(p)
<1>1. k \in Nat /\ Rounds(p) = 0..(k - 1)
  BY DEF RoundsInOrder
<1>2. Pool(p)' = Pool(p) \cup NewOf(new, p)
  BY Grown DEF Pool, NewOf
<1>3. \A m \in NewOf(new, p) : m[2] = k
  BY DEF Growth, NewOf
<1>4. \A m \in Pool(p) : m[2] \in 0..(k - 1)
  BY <1>1 DEF Rounds
<1> HIDE DEF k
<1>5. \A r \in 0..(k - 1) : RoundOf(p, r)' = RoundOf(p, r)
  BY <1>1, <1>2, <1>3 DEF RoundOf
<1>6. CASE NewOf(new, p) = {}
  <2>1. Pool(p)' = Pool(p)
    BY <1>2, <1>6
  <2>2. Rounds(p)' = Rounds(p)
    BY <2>1 DEF Rounds
  <2>3. NextRound(p)' = NextRound(p)
    BY <2>2 DEF NextRound
  <2>4. Latest(p)' = Latest(p)
    BY <2>1, <2>3 DEF Latest, RoundOf
  <2> QED
    BY <1>1, <1>2, <1>5, <1>6, <2>2, <2>3, <2>4 DEF k
<1>7. CASE NewOf(new, p) # {}
  <2>1. Rounds(p)' = Rounds(p) \cup {k}
    BY <1>2, <1>3, <1>7 DEF Rounds
  <2>2. Rounds(p)' = 0..k
    BY <1>1, <2>1
  <2>3. NextRound(p)' = k + 1
    <3>1. k + 1 \in Nat /\ Rounds(p)' = 0..((k + 1) - 1)
      BY <1>1, <2>2
    <3> QED
      BY <3>1, NextIsNew
  <2>4. {m \in Pool(p)' : m[2] = k} = NewOf(new, p)
    BY <1>1, <1>2, <1>3, <1>4
  <2>5. Latest(p)' = {m \in Pool(p)' : m[2] = NextRound(p)' - 1}
    BY DEF Latest, RoundOf
  <2>6. Latest(p)' = NewOf(new, p)
    BY <1>1, <2>3, <2>4, <2>5
  <2> QED
    BY <1>1, <1>2, <1>5, <1>7, <2>2, <2>3, <2>6 DEF k
<1> QED
  BY <1>6, <1>7

(* New matches keep what holds of all. *)
LEMMA GrowthKeeps ==
  ASSUME BaseInv, NEW new, Growth(new), matches' = Added(matches, new),
         UNCHANGED <<format, tournament, roster, retractions>>,
         generation' \in 0..format.generations, generation' = 0 => DOMAIN new = {} /\ generation = 0
  PROVE  BaseInv'
<1>0. FfaShape /\ Apart /\ RoundsInOrder /\ PoolsOfMode /\ OneFirst /\ Entrants
  BY DEF BaseInv
<1>1. /\ DOMAIN matches' = DOMAIN matches \cup DOMAIN new
      /\ DOMAIN matches \cap DOMAIN new = {}
      /\ \A m \in DOMAIN matches : matches'[m] = matches[m] /\ Who(m)' = Who(m)
      /\ \A m \in DOMAIN new : matches'[m] = new[m] /\ Who(m)' = DOMAIN new[m].placement
  BY <1>0, Grown
<1>2. FfaShape'
  <2>1. \A m \in DOMAIN matches' : matches'[m] \in Entries /\ m \in Keys
    BY <1>0, <1>1 DEF FfaShape, Growth
  <2>2. matches' = [m \in DOMAIN matches' |-> matches'[m]]
    BY DEF Added
  <2>3. matches' \in [DOMAIN matches' -> Entries] /\ DOMAIN matches' \subseteq Keys
    BY <2>1, <2>2
  <2> QED
    BY <1>0, <2>3 DEF FfaShape
<1>3. Apart'
  <2> SUFFICES ASSUME NEW m \in DOMAIN matches', NEW n \in DOMAIN matches',
                      m # n, m[1] = n[1], m[2] = n[2]
               PROVE  Who(m)' \cap Who(n)' = {}
    BY DEF Apart
  <2>1. CASE m \in DOMAIN matches /\ n \in DOMAIN matches
    BY <1>0, <1>1, <2>1 DEF Apart
  <2>2. CASE m \in DOMAIN new /\ n \in DOMAIN new
    BY <1>1, <2>2 DEF Growth
  <2>3. ASSUME NEW o \in DOMAIN matches, NEW q \in DOMAIN new, o[1] = q[1], o[2] = q[2]
        PROVE  FALSE
    <3>1. o[2] \in 0..(NextRound(o[1]) - 1) /\ NextRound(o[1]) \in Nat
      BY <1>0, RoundBehind
    <3>2. q[2] = NextRound(q[1])
      BY DEF Growth
    <3> QED
      BY <2>3, <3>1, <3>2
  <2> QED
    BY <1>1, <2>1, <2>2, <2>3
<1>4. RoundsInOrder'
  <2>1. \A p \in Pools : NextRound(p)' \in Nat /\ Rounds(p)' = 0..(NextRound(p)' - 1)
    BY <1>0, GrownRounds
  <2>2. \A m \in DOMAIN matches' : \A g \in 1..m[3] : <<m[1], m[2], g>> \in DOMAIN matches'
    BY <1>0, <1>1 DEF RoundsInOrder, Growth
  <2> QED
    BY <2>1, <2>2 DEF RoundsInOrder
<1>5. PoolsOfMode'
  BY <1>0, <1>1 DEF PoolsOfMode, Growth
<1>6. OneFirst'
  <2> SUFFICES ASSUME NEW m \in DOMAIN matches', NEW c \in Who(m)', NEW d \in Who(m)',
                      matches'[m].placement[c] = 1, matches'[m].placement[d] = 1
               PROVE  c = d
    BY DEF OneFirst
  <2>1. CASE m \in DOMAIN matches
    BY <1>0, <1>1, <2>1 DEF OneFirst
  <2>2. CASE m \in DOMAIN new
    BY <1>1, <2>2 DEF Growth
  <2> QED
    BY <1>1, <2>1, <2>2
<1>7. Entrants'
  <2>1. Active' = Active /\ Everyone' = Everyone
    BY DEF Active, Everyone
  <2>2. format.players \in Nat
    BY <1>0, FormatsChecked DEF FfaShape
  <2>3. ASSUME NEW m \in DOMAIN matches'
        PROVE  /\ Who(m)' \subseteq Everyone
               /\ \A c \in Who(m)' : matches'[m].placement[c] <= format.players
    <3>1. CASE m \in DOMAIN matches
      BY <1>0, <1>1, <3>1 DEF Entrants
    <3>2. CASE m \in DOMAIN new
      BY <1>1, <2>2, <3>2 DEF Growth
    <3> QED
      BY <1>1, <3>1, <3>2
  <2>4. generation' = 0 => DOMAIN matches' = {}
    BY <1>0, <1>1 DEF Entrants
  <2> QED
    BY <1>0, <2>1, <2>3, <2>4 DEF Entrants
<1> QED
  BY <1>2, <1>3, <1>4, <1>5, <1>6, <1>7 DEF BaseInv

(* Changes to matches that are there keep what holds of all. *)
LEMMA ChangeKeeps ==
  ASSUME BaseInv, UNCHANGED <<format, generation>>,
         DOMAIN matches' = DOMAIN matches, matches' \in [DOMAIN matches -> Entries],
         tournament' \in [status : Statuses, winner : Contestants \cup {None}],
         roster' \in [Contestants -> {"active", "removed", "gone"}], Active' \subseteq Active,
         retractions' \in 0..format.retractions,
         \A m \in DOMAIN matches :
           /\ Who(m)' \subseteq Who(m)
           /\ \A c \in Who(m)' : matches'[m].placement[c] <= format.players
           /\ \A c, d \in Who(m)' :
                matches'[m].placement[c] = 1 /\ matches'[m].placement[d] = 1 => c = d
  PROVE  BaseInv'
<1>0. FfaShape /\ Apart /\ RoundsInOrder /\ PoolsOfMode /\ OneFirst /\ Entrants
  BY DEF BaseInv
<1>1. FfaShape'
  BY <1>0 DEF FfaShape
<1>2. Apart'
  BY <1>0 DEF Apart
<1>3. RoundsInOrder'
  BY <1>0, SameRounds DEF RoundsInOrder
<1>4. PoolsOfMode'
  BY <1>0 DEF PoolsOfMode
<1>5. OneFirst'
  BY DEF OneFirst
<1>6. Entrants'
  BY <1>0 DEF Entrants, Everyone
<1> QED
  BY <1>1, <1>2, <1>3, <1>4, <1>5, <1>6 DEF BaseInv

-----------------------------------------------------------------------------
(* What the actions do *)

(* Nobody goes on, falls or survives who does not stand in a match. *)
LEMMA InMatches ==
  ASSUME BaseInv, NEW ms \in SUBSET DOMAIN matches, NEW p
  PROVE  /\ Up(ms) \subseteq Everyone /\ Dropped(ms) \subseteq Everyone
         /\ Survivors(p) \subseteq Everyone
         /\ Latest(p) \subseteq DOMAIN matches
         /\ Up(ms) \subseteq In(ms) /\ Dropped(ms) \subseteq In(ms)
         /\ Survivors(p) \subseteq In(Latest(p))
<1>1. \A m \in DOMAIN matches : Top(m) \subseteq Who(m) /\ Who(m) \subseteq Everyone
  BY DEF BaseInv, Entrants, Top
<1>2. Latest(p) \subseteq DOMAIN matches
  BY DEF Latest, RoundOf, Pool
<1> QED
  BY <1>1, <1>2 DEF Up, Dropped, Survivors, In

\* Who is in new matches.
Seated(new) == UNION {DOMAIN new[m].placement : m \in DOMAIN new}

(* Whoever is in a list is in a group of the round that is made of it. *)
LEMMA EverybodyGrouped ==
  ASSUME BaseInv, NEW p \in Pools, NEW list, IsList(list)
  PROVE  Seated(NewRound(p, list)) = DOMAIN list
<1> DEFINE new == NewRound(p, list)
           k == GroupCount(Size(list))
<1>1. /\ DOMAIN new = {<<p, NextRound(p), g>> : g \in 1..k}
      /\ \A m \in DOMAIN new : DOMAIN new[m].placement = Group(list, m[3])
  BY DEF NewRound, Fresh
<1>2. ASSUME NEW c \in DOMAIN list PROVE c \in Seated(new)
  <2>1. GroupOf(list[c], Size(list)) \in 1..k
    BY GroupsHave DEF IsList, BaseInv, FfaShape
  <2> DEFINE g == GroupOf(list[c], Size(list))
             m == <<p, NextRound(p), g>>
  <2>2. m \in DOMAIN new /\ m[3] = g
    BY <1>1, <2>1
  <2>3. c \in Group(list, m[3])
    BY <2>2 DEF Group
  <2> QED
    BY <1>1, <2>2, <2>3 DEF Seated
<1>3. \A g : Group(list, g) \subseteq DOMAIN list
  BY DEF Group
<1> QED
  BY <1>1, <1>2, <1>3 DEF Seated

OnlyOf(new, p) == \A m \in DOMAIN new : m[1] = p

(* Two rounds of different pools grow as one does. *)
LEMMA TwoRoundsGrow ==
  ASSUME FfaShape, RoundsInOrder, NEW a, NEW b, Growth(a), Growth(b), NEW p, NEW q, p # q,
         OnlyOf(a, p), OnlyOf(b, q)
  PROVE  /\ Growth(Added(a, b))
         /\ NewOf(Added(a, b), p) = DOMAIN a /\ NewOf(Added(a, b), q) = DOMAIN b
         /\ \A m \in DOMAIN a : Added(a, b)[m] = a[m]
         /\ \A m \in DOMAIN b : Added(a, b)[m] = b[m]
<1> DEFINE new == Added(a, b)
<1>1. /\ DOMAIN new = DOMAIN a \cup DOMAIN b
      /\ \A m \in DOMAIN a : new[m] = a[m]
      /\ \A m \in DOMAIN b : new[m] = b[m]
  BY DEF Added, OnlyOf
<1> HIDE DEF new
<1>2. NewOf(new, p) = DOMAIN a /\ NewOf(new, q) = DOMAIN b
  BY <1>1 DEF NewOf, OnlyOf
<1>3. ASSUME NEW m \in DOMAIN new
      PROVE  /\ m \in Keys /\ m[2] = NextRound(m[1])
             /\ new[m] \in Entries /\ ~new[m].confirmed
             /\ DOMAIN new[m].placement \subseteq Everyone
             /\ \A c \in DOMAIN new[m].placement : new[m].placement[c] = 0
             /\ \A g \in 1..m[3] : <<m[1], m[2], g>> \in DOMAIN new
             /\ format.mode = "SE" => m[1] = "MAIN"
             /\ format.mode = "DE" => m[1] \in {"WB", "LB", "GF"}
             /\ m[1] = "GF" => m = <<"GF", 0, 1>>
  <2>1. CASE m \in DOMAIN a
    BY <1>1, <2>1 DEF Growth
  <2>2. CASE m \in DOMAIN b
    BY <1>1, <2>2 DEF Growth
  <2> QED
    BY <1>1, <2>1, <2>2
<1>4. ASSUME NEW m \in DOMAIN new, NEW n \in DOMAIN new, m # n, m[1] = n[1]
      PROVE  DOMAIN new[m].placement \cap DOMAIN new[n].placement = {}
  <2>1. CASE m \in DOMAIN a /\ n \in DOMAIN a
    BY <1>1, <1>4, <2>1 DEF Growth
  <2>2. CASE m \in DOMAIN b /\ n \in DOMAIN b
    BY <1>1, <1>4, <2>2 DEF Growth
  <2>3. \A o \in DOMAIN a, u \in DOMAIN b : o[1] # u[1]
    BY DEF OnlyOf
  <2> QED
    BY <1>1, <1>4, <2>1, <2>2, <2>3
<1>5. Growth(new)
  BY <1>3, <1>4 DEF Growth
<1> QED
  BY <1>1, <1>2, <1>5 DEF new

(* Who is in a new first round. *)
LEMMA GenerateDoes ==
  ASSUME BaseInv, GenerateRound
  PROVE  \E p, new :
           /\ p \in {"MAIN", "WB"} /\ p = IF format.mode = "DE" THEN "WB" ELSE "MAIN"
           /\ Growth(new) /\ matches' = Added(matches, new)
           /\ NewOf(new, p) = DOMAIN new /\ DOMAIN new # {}
           /\ Seated(new) = Active
<1> DEFINE p == IF format.mode = "DE" THEN "WB" ELSE "MAIN"
           list == BySeed(Active)
           new == NewRound(p, list)
<1>1. format.mode \in {"SE", "DE"} /\ Active \in SUBSET Everyone /\ Active \in SUBSET Contestants
  BY FormatsChecked DEF BaseInv, FfaShape, Entrants, Active
<1>2. IsList(list) /\ DOMAIN list = Active
  BY <1>1, SeededList
<1>3. matches' = Added(matches, new)
  BY DEF GenerateRound, Create
<1>4. Size(list) >= 2
  BY DEF GenerateRound, Groupable
<1>5. DOMAIN list # {}
  BY <1>4, FS_EmptySet DEF Size
<1>6. p \in Pools /\ p # "GF" /\ (format.mode = "SE" => p = "MAIN")
      /\ (format.mode = "DE" => p \in {"WB", "LB"})
  BY <1>1 DEF Pools
<1> HIDE DEF p, list
<1>7. /\ Growth(new) /\ DOMAIN new # {} /\ \A m \in DOMAIN new : m[1] = p
  BY <1>1, <1>2, <1>5, <1>6, NewRoundGrows
<1>8. Seated(new) = Active
  BY <1>2, <1>6, EverybodyGrouped
<1> HIDE DEF new
<1>9. NewOf(new, p) = DOMAIN new
  BY <1>7 DEF NewOf
<1>10. p \in {"MAIN", "WB"} /\ p = IF format.mode = "DE" THEN "WB" ELSE "MAIN"
  BY DEF p
<1> QED
  BY <1>3, <1>7, <1>8, <1>9, <1>10

(* The list of those who go on from the latest round. *)
LEMMA LatestInTurn ==
  ASSUME BaseInv, NEW p, NEW S \in SUBSET Everyone
  PROVE  IsList(InTurn(Latest(p), S)) /\ DOMAIN InTurn(Latest(p), S) = S
<1>1. Latest(p) \in SUBSET DOMAIN matches
  BY DEF Latest, RoundOf, Pool
<1>2. \A m \in Latest(p) : m[1] = p /\ m[2] = NextRound(p) - 1
  BY DEF Latest, RoundOf, Pool
<1>3. S \in SUBSET Contestants
  BY DEF Everyone
<1> QED
  BY <1>1, <1>2, <1>3, ListInTurn DEF BaseInv

(* A round of those who go on from the latest. *)
LEMMA RoundOfTheBest ==
  ASSUME BaseInv, NEW p \in Pools, p # "GF",
         format.mode = "SE" => p = "MAIN", format.mode = "DE" => p \in {"WB", "LB"},
         NEW S \in SUBSET Everyone
  PROVE  LET new == NewRound(p, InTurn(Latest(p), S))
         IN  /\ Growth(new) /\ \A m \in DOMAIN new : m[1] = p
             /\ NewOf(new, p) = DOMAIN new
             /\ S # {} => DOMAIN new # {}
             /\ Seated(new) = S
<1> DEFINE list == InTurn(Latest(p), S)
<1>1. IsList(list) /\ DOMAIN list = S
  BY LatestInTurn
<1> HIDE DEF list
<1>2. /\ Growth(NewRound(p, list)) /\ \A m \in DOMAIN NewRound(p, list) : m[1] = p
      /\ S # {} => DOMAIN NewRound(p, list) # {}
  BY <1>1, NewRoundGrows
<1>3. Seated(NewRound(p, list)) = S
  BY <1>1, EverybodyGrouped
<1>4. NewOf(NewRound(p, list), p) = DOMAIN NewRound(p, list)
  BY <1>2 DEF NewOf
<1> QED
  BY <1>2, <1>3, <1>4 DEF list

(* Groups can only be made of somebody. *)
LEMMA GroupableIsThere ==
  ASSUME NEW list, Groupable(list)
  PROVE  DOMAIN list # {}
BY FS_EmptySet DEF Groupable, Size

LEMMA AdvanceSingleDoes ==
  ASSUME BaseInv, AdvanceSingle
  PROVE  \E new : /\ Growth(new) /\ matches' = Added(matches, new)
                  /\ NewOf(new, "MAIN") = DOMAIN new /\ DOMAIN new # {}
                  /\ Seated(new) = Up(Latest("MAIN"))
<1> DEFINE S == Up(Latest("MAIN"))
           new == NewRound("MAIN", InTurn(Latest("MAIN"), S))
<1>1. S \in SUBSET Everyone /\ Latest("MAIN") \in SUBSET DOMAIN matches
  BY InMatches DEF Latest, RoundOf, Pool
<1>2. DOMAIN InTurn(Latest("MAIN"), S) = S
  BY <1>1, LatestInTurn
<1>3. S # {} /\ matches' = Added(matches, new) /\ format.mode = "SE"
  BY <1>2, GroupableIsThere DEF AdvanceSingle, Create
<1>4. /\ Growth(new) /\ NewOf(new, "MAIN") = DOMAIN new /\ DOMAIN new # {} /\ Seated(new) = S
  BY <1>1, <1>3, RoundOfTheBest DEF Pools
<1> QED
  BY <1>3, <1>4

LEMMA AdvanceLosersDoes ==
  ASSUME BaseInv, AdvanceLosers
  PROVE  \E new : /\ Growth(new) /\ matches' = Added(matches, new)
                  /\ NewOf(new, "LB") = DOMAIN new /\ DOMAIN new # {}
                  /\ Seated(new) = Up(Latest("LB"))
<1> DEFINE S == Up(Latest("LB"))
           new == NewRound("LB", InTurn(Latest("LB"), S))
<1>1. S \in SUBSET Everyone /\ Latest("LB") \in SUBSET DOMAIN matches
  BY InMatches DEF Latest, RoundOf, Pool
<1>2. DOMAIN InTurn(Latest("LB"), S) = S
  BY <1>1, LatestInTurn
<1>3. S # {} /\ matches' = Added(matches, new) /\ format.mode = "DE"
  BY <1>2, GroupableIsThere DEF AdvanceLosers, Create
<1>4. /\ Growth(new) /\ NewOf(new, "LB") = DOMAIN new /\ DOMAIN new # {} /\ Seated(new) = S
  BY <1>1, <1>3, RoundOfTheBest DEF Pools
<1> QED
  BY <1>3, <1>4

(* Winners go on and losers fall; the losers' next round has these, and those
   still in it. *)
LEMMA AdvanceWinnersDoes ==
  ASSUME BaseInv, AdvanceWinners
  PROVE  \E upper, lower :
           /\ matches' = Added(matches, Added(upper, lower)) /\ Growth(Added(upper, lower))
           /\ NewOf(Added(upper, lower), "WB") = DOMAIN upper /\ DOMAIN upper # {}
           /\ NewOf(Added(upper, lower), "LB") = DOMAIN lower
           /\ \A m \in DOMAIN upper : Added(upper, lower)[m] = upper[m]
           /\ \A m \in DOMAIN lower : Added(upper, lower)[m] = lower[m]
           /\ Seated(upper) = Up(Latest("WB"))
           /\ Seated(lower) \subseteq Dropped(Latest("WB")) \cup Survivors("LB")
           /\ Dropped(Latest("WB")) \cap Survivors("LB") = {} =>
                Seated(lower) = Dropped(Latest("WB")) \cup Survivors("LB")
           /\ DOMAIN lower = {} <=> Dropped(Latest("WB")) \cup Survivors("LB") = {}
<1> DEFINE S == Up(Latest("WB"))
           down == Dropped(Latest("WB"))
           still == Survivors("LB")
           upper == NewRound("WB", InTurn(Latest("WB"), S))
           lower == NewRound("LB", Losers)
<1>0. FfaShape /\ RoundsInOrder
  BY DEF BaseInv
<1>1. /\ S \in SUBSET Everyone /\ down \in SUBSET Everyone /\ still \in SUBSET Everyone
  BY InMatches DEF Latest, RoundOf, Pool
<1>2. DOMAIN InTurn(Latest("WB"), S) = S
  BY <1>1, LatestInTurn
<1>3. S # {} /\ matches' = Added(matches, Added(upper, lower)) /\ format.mode = "DE"
  BY <1>2, GroupableIsThere DEF AdvanceWinners, Create
<1>4. /\ Growth(upper) /\ \A m \in DOMAIN upper : m[1] = "WB"
      /\ DOMAIN upper # {} /\ Seated(upper) = S
  BY <1>1, <1>3, RoundOfTheBest DEF Pools
<1>5. /\ IsList(InTurn(Latest("WB"), down)) /\ DOMAIN InTurn(Latest("WB"), down) = down
      /\ IsList(InTurn(Latest("LB"), still)) /\ DOMAIN InTurn(Latest("LB"), still) = still
  BY <1>1, LatestInTurn
<1>6. DOMAIN Losers = down \cup still
  BY <1>5 DEF Losers, Joined
<1>7. /\ Growth(lower) /\ \A m \in DOMAIN lower : m[1] = "LB"
      /\ \A m \in DOMAIN lower : DOMAIN lower[m].placement = Group(Losers, m[3])
      /\ DOMAIN lower = {} <=> down \cup still = {}
  <2>1. DOMAIN Losers \subseteq Everyone /\ "LB" \in Pools
    BY <1>1, <1>6 DEF Pools
  <2>2. /\ Growth(NewRound("LB", Losers)) /\ \A m \in DOMAIN NewRound("LB", Losers) : m[1] = "LB"
        /\ \A m \in DOMAIN NewRound("LB", Losers) :
              DOMAIN NewRound("LB", Losers)[m].placement = Group(Losers, m[3])
        /\ DOMAIN Losers # {} => DOMAIN NewRound("LB", Losers) # {}
        /\ DOMAIN Losers = {} => DOMAIN NewRound("LB", Losers) = {}
    BY <1>3, <2>1, NewRoundGrows
  <2> QED
    BY <1>6, <2>2
<1>8. Seated(lower) \subseteq down \cup still
  BY <1>6, <1>7 DEF Seated, Group
<1>9. down \cap still = {} => Seated(lower) = down \cup still
  <2> SUFFICES ASSUME down \cap still = {} PROVE Seated(lower) = down \cup still
    OBVIOUS
  <2>1. IsList(Losers)
    BY <1>5, JoinedList DEF Losers
  <2> QED
    BY <1>6, <2>1, EverybodyGrouped DEF Pools
<1> HIDE DEF S, down, still, upper, lower
<1>10. /\ Growth(Added(upper, lower))
       /\ NewOf(Added(upper, lower), "WB") = DOMAIN upper
       /\ NewOf(Added(upper, lower), "LB") = DOMAIN lower
       /\ \A m \in DOMAIN upper : Added(upper, lower)[m] = upper[m]
       /\ \A m \in DOMAIN lower : Added(upper, lower)[m] = lower[m]
  <2>1. "WB" # "LB"
    OBVIOUS
  <2> DEFINE p == "WB"
             q == "LB"
  <2>2. p # q /\ OnlyOf(upper, p) /\ OnlyOf(lower, q)
    BY <1>4, <1>7 DEF OnlyOf
  <2>3. Growth(upper) /\ Growth(lower)
    BY <1>4, <1>7
  <2> HIDE DEF p, q
  <2>4. /\ Growth(Added(upper, lower))
        /\ NewOf(Added(upper, lower), p) = DOMAIN upper
        /\ NewOf(Added(upper, lower), q) = DOMAIN lower
        /\ \A m \in DOMAIN upper : Added(upper, lower)[m] = upper[m]
        /\ \A m \in DOMAIN lower : Added(upper, lower)[m] = lower[m]
    BY <1>0, <2>2, <2>3, TwoRoundsGrow
  <2> QED
    BY <2>4 DEF p, q
<1> USE DEF S, down, still
<1> QED
  BY <1>3, <1>4, <1>7, <1>8, <1>9, <1>10

(* The grand final has those who are left of both pools. *)
LEMMA GrandFinalDoes ==
  ASSUME BaseInv, GenerateGrandFinal
  PROVE  \E new : /\ Growth(new) /\ matches' = Added(matches, new)
                  /\ NewOf(new, "GF") = DOMAIN new /\ DOMAIN new = {<<"GF", 0, 1>>}
                  /\ Seated(new) = Survivors("WB") \cup Survivors("LB")
<1> DEFINE S == Survivors("WB") \cup Survivors("LB")
           final == <<"GF", 0, 1>>
           new == [m \in {final} |-> Fresh(S)]
<1>1. S \in SUBSET Everyone
  BY InMatches
<1>2. matches' = Added(matches, new) /\ Pool("GF") = {} /\ format.mode = "DE"
  BY DEF GenerateGrandFinal, Create
<1>3. NextRound("GF") = 0
  BY <1>2 DEF NextRound, Rounds
<1>4. /\ Fresh(S) \in Entries /\ ~Fresh(S).confirmed /\ DOMAIN Fresh(S).placement = S
      /\ \A c \in S : Fresh(S).placement[c] = 0
  <2>1. S \in SUBSET Contestants /\ [c \in S |-> 0] \in [S -> Nat]
    BY <1>1 DEF Everyone
  <2> QED
    BY <2>1 DEF Fresh, Entries
<1>5. final[1] = "GF" /\ final[2] = 0 /\ final[3] = 1 /\ final \in Keys
  BY DEF Keys, Pools
<1>6. DOMAIN new = {final} /\ new[final] = Fresh(S)
  OBVIOUS
<1>7. NewOf(new, "GF") = DOMAIN new
  BY <1>5, <1>6 DEF NewOf
<1>8. Seated(new) = S
  BY <1>4, <1>6 DEF Seated
<1> HIDE DEF S, new
<1>9. \A g \in 1..final[3] : <<final[1], final[2], g>> = final
  BY <1>5
<1>10. Growth(new)
  BY <1>1, <1>2, <1>3, <1>4, <1>5, <1>6, <1>9 DEF Growth
<1> QED
  BY <1>2, <1>6, <1>7, <1>8, <1>10 DEF S

(* More are counted of a larger set. *)
LEMMA Fewer ==
  ASSUME NEW U \in SUBSET Contestants, NEW T \in SUBSET U, NEW c \in U \ T
  PROVE  Cardinality(T) < Cardinality(U)
<1>1. Cardinality(T) \in Nat /\ Cardinality(U) \in Nat /\ IsFiniteSet(U)
  BY Few
<1>2. Cardinality(T) <= Cardinality(U) /\ (Cardinality(U) = Cardinality(T) => U = T)
  BY <1>1, FS_Subset
<1> QED
  BY <1>1, <1>2

(* In a list by seed everybody has a place of their own. *)
LEMMA SeedsTell ==
  ASSUME NEW S \in SUBSET Contestants, NEW c \in S, NEW d \in S, c # d
  PROVE  BySeed(S)[c] # BySeed(S)[d]
<1> DEFINE T(e) == {x \in S : Seed[x] < Seed[e]}
<1>1. \A e \in S : BySeed(S)[e] = 1 + Cardinality(T(e)) /\ T(e) \in SUBSET Contestants
  BY DEF BySeed, Listed
<1>2. \A e \in S : Seed[e] \in Nat
  BY SeedsDiffer
<1>3. Seed[c] # Seed[d]
  BY SeedsDiffer
<1>4. ASSUME NEW e \in S, NEW x \in S, Seed[e] < Seed[x]
      PROVE  Cardinality(T(e)) < Cardinality(T(x))
  <2>1. T(e) \in SUBSET T(x) /\ e \in T(x) \ T(e)
    BY <1>2, <1>4
  <2> QED
    BY <1>1, <2>1, Fewer
<1>5. \A e \in S : Cardinality(T(e)) \in Nat
  BY <1>1, Few
<1> HIDE DEF T
<1>6. CASE Seed[c] < Seed[d]
  BY <1>1, <1>4, <1>5, <1>6
<1>7. CASE Seed[d] < Seed[c]
  BY <1>1, <1>4, <1>5, <1>7
<1> QED
  BY <1>2, <1>3, <1>6, <1>7

(* There are no more contestants than the format has players. *)
LEMMA EveryoneFits ==
  ASSUME format \in FfaFormats, NEW S \in SUBSET Everyone
  PROVE  Cardinality(S) \in Nat /\ Cardinality(S) <= format.players
<1>1. format.players \in Nat /\ S \in SUBSET Contestants
  BY FormatsChecked DEF Everyone
<1> DEFINE N == 1..format.players
           seed == [c \in S |-> Seed[c]]
<1>2. IsFiniteSet(N) /\ Cardinality(N) = format.players
  BY <1>1, FS_Interval
<1>3. seed \in Injection(S, N)
  BY <1>1, SeedsDiffer DEF Everyone, Injection, IsInjective
<1>4. Cardinality(S) <= Cardinality(N)
  BY <1>2, <1>3, FS_Injection
<1> QED
  BY <1>1, <1>2, <1>4, Few

(* Everybody in a match gets a place of their own. *)
LEMMA PlacesAre ==
  ASSUME BaseInv, NEW m \in DOMAIN matches, NEW places \in Placings(m)
  PROVE  /\ places \in [Who(m) -> Nat]
         /\ \A c \in Who(m) : places[c] \in 1..format.players
         /\ \A c, d \in Who(m) : places[c] = 1 /\ places[d] = 1 => c = d
<1> DEFINE n == Cardinality(Who(m))
           seeded == BySeed(Who(m))
<1>1. Who(m) \in SUBSET Everyone /\ Who(m) \in SUBSET Contestants /\ format \in FfaFormats
  BY DEF BaseInv, Entrants, FfaShape, Everyone
<1>2. n \in Nat /\ n <= format.players /\ format.players \in Nat /\ format.upsets \in Nat
  BY <1>1, EveryoneFits, FormatsChecked
<1>3. \A c \in Who(m) : seeded[c] \in 1..n
  BY <1>1, SeededList DEF IsList, Size
<1>4. \A c, d \in Who(m) : seeded[c] = seeded[d] => c = d
  BY <1>1, SeedsTell
<1>5. PICK k \in {j \in 0..format.upsets : j < n} :
        places = [c \in Who(m) |-> IF seeded[c] > k THEN seeded[c] - k ELSE seeded[c] - k + n]
  BY DEF Placings
<1> HIDE DEF n, seeded
<1>6. k \in Nat /\ k < n
  BY <1>2, <1>5
<1>7. ASSUME NEW c \in Who(m)
      PROVE  places[c] \in 1..n /\ (places[c] = 1 => seeded[c] = k + 1)
  <2>1. seeded[c] \in 1..n
    BY <1>3
  <2>2. places[c] = IF seeded[c] > k THEN seeded[c] - k ELSE seeded[c] - k + n
    BY <1>5
  <2> QED
    BY <1>2, <1>6, <2>1, <2>2
<1>8. \A c \in Who(m) : places[c] \in Nat /\ places[c] \in 1..format.players
  BY <1>2, <1>7
<1>9. places \in [Who(m) -> Nat]
  BY <1>5, <1>8
<1>10. \A c, d \in Who(m) : places[c] = 1 /\ places[d] = 1 => c = d
  BY <1>4, <1>7
<1> QED
  BY <1>8, <1>9, <1>10

\* A step that makes no matches: whoever leaves a match has left the
\* tournament, and a result that something was built on stays.
Touched ==
  /\ UNCHANGED <<format, generation>>
  /\ DOMAIN matches' = DOMAIN matches
  /\ Active' \subseteq Active
  /\ \A m \in DOMAIN matches :
       /\ Who(m)' \subseteq Who(m) /\ Who(m) \cap Active' \subseteq Who(m)'
       /\ matches[m].confirmed => matches'[m].placement = matches[m].placement
       /\ matches[m].confirmed /\ AlreadyAdvanced(m) => matches'[m].confirmed

(* One match replaced by another with the same contestants. *)
LEMMA OneReplaced ==
  ASSUME BaseInv, NEW m \in DOMAIN matches, NEW e \in Entries,
         matches' = [matches EXCEPT ![m] = e],
         DOMAIN e.placement = Who(m),
         \A c \in Who(m) : e.placement[c] <= format.players,
         \A c, d \in Who(m) : e.placement[c] = 1 /\ e.placement[d] = 1 => c = d,
         matches[m].confirmed => /\ e.placement = matches[m].placement
                                 /\ AlreadyAdvanced(m) => e.confirmed,
         UNCHANGED <<format, generation, roster>>,
         tournament' \in [status : Statuses, winner : Contestants \cup {None}],
         retractions' \in 0..format.retractions
  PROVE  BaseInv' /\ Touched
<1>1. FfaShape /\ OneFirst /\ Entrants
  BY DEF BaseInv
<1>2. matches \in [DOMAIN matches -> Entries]
  BY <1>1 DEF FfaShape
<1>3. /\ matches' \in [DOMAIN matches -> Entries] /\ DOMAIN matches' = DOMAIN matches
      /\ matches'[m] = e /\ \A n \in DOMAIN matches \ {m} : matches'[n] = matches[n]
  BY <1>2
<1>4. \A n \in DOMAIN matches : Who(n)' = Who(n)
  BY <1>3 DEF Who
<1>5. Active' = Active
  BY DEF Active
<1>6. ASSUME NEW n \in DOMAIN matches
      PROVE  /\ \A c \in Who(n)' : matches'[n].placement[c] <= format.players
             /\ \A c, d \in Who(n)' :
                  matches'[n].placement[c] = 1 /\ matches'[n].placement[d] = 1 => c = d
  BY <1>1, <1>3, <1>4 DEF Entrants, OneFirst
<1>7. BaseInv'
  BY <1>1, <1>3, <1>4, <1>5, <1>6, ChangeKeeps DEF FfaShape
<1>8. Touched
  BY <1>3, <1>4, <1>5 DEF Touched
<1> QED
  BY <1>7, <1>8

LEMMA SetPlacementsTouches ==
  ASSUME BaseInv, NEW m \in DOMAIN matches, SetPlacements(m)
  PROVE  BaseInv' /\ Touched
<1>1. PICK places \in Placings(m) : matches' = [matches EXCEPT ![m].placement = places]
  BY DEF SetPlacements
<1> DEFINE e == [placement |-> places, confirmed |-> FALSE]
<1>2. matches[m] = [placement |-> matches[m].placement, confirmed |-> matches[m].confirmed]
  BY MatchShape, EntryShape DEF BaseInv
<1>3. matches' = [matches EXCEPT ![m] = e]
  <2>1. matches' = [matches EXCEPT ![m] = [matches[m] EXCEPT !.placement = places]]
    BY <1>1
  <2>2. [matches[m] EXCEPT !.placement = places]
          = [placement |-> places, confirmed |-> matches[m].confirmed]
    BY <1>2
  <2>3. matches[m].confirmed = FALSE
    BY MatchShape DEF SetPlacements, BaseInv
  <2> QED
    BY <2>1, <2>2, <2>3, Zenon
<1>4. /\ places \in [Who(m) -> Nat] /\ \A c \in Who(m) : places[c] \in 1..format.players
      /\ \A c, d \in Who(m) : places[c] = 1 /\ places[d] = 1 => c = d
  BY PlacesAre
<1>5. Who(m) \in SUBSET Contestants
  BY MatchShape DEF BaseInv
<1>6. e \in Entries /\ DOMAIN e.placement = Who(m) /\ e.placement = places
  BY <1>4, <1>5 DEF Entries
<1>7. UNCHANGED <<format, tournament, roster, generation, retractions>> /\ ~matches[m].confirmed
  BY DEF SetPlacements
<1>8. /\ tournament' \in [status : Statuses, winner : Contestants \cup {None}]
      /\ retractions' \in 0..format.retractions
  BY <1>7 DEF BaseInv, FfaShape
<1>9. \A c \in Who(m) : e.placement[c] <= format.players
  <2>1. format.players \in Nat
    BY FormatsChecked DEF BaseInv, FfaShape
  <2> QED
    BY <1>4, <1>6, <2>1
<1> HIDE DEF e
<1> QED
  BY <1>3, <1>4, <1>6, <1>7, <1>8, <1>9, OneReplaced

(* Confirming a match, or taking the confirmation back. *)
LEMMA ConfirmedChanges ==
  ASSUME BaseInv, NEW m \in DOMAIN matches, NEW b \in BOOLEAN,
         matches' = [matches EXCEPT ![m].confirmed = b],
         matches[m].confirmed /\ AlreadyAdvanced(m) => b,
         UNCHANGED <<format, generation, roster>>,
         tournament' \in [status : Statuses, winner : Contestants \cup {None}],
         retractions' \in 0..format.retractions
  PROVE  BaseInv' /\ Touched
<1> DEFINE e == [placement |-> matches[m].placement, confirmed |-> b]
<1>1. /\ matches[m] = [placement |-> matches[m].placement, confirmed |-> matches[m].confirmed]
      /\ matches[m] \in Entries
  BY MatchShape, EntryShape DEF BaseInv
<1>2. matches' = [matches EXCEPT ![m] = e]
  <2>1. matches' = [matches EXCEPT ![m] = [matches[m] EXCEPT !.confirmed = b]]
    OBVIOUS
  <2>2. [matches[m] EXCEPT !.confirmed = b] = e
    BY <1>1
  <2> QED
    BY <2>1, <2>2
<1>3. e \in Entries /\ e.placement = matches[m].placement /\ e.confirmed = b
  BY <1>1 DEF Entries
<1>4. DOMAIN e.placement = Who(m)
  BY <1>3 DEF Who
<1>5. \A c \in Who(m) : e.placement[c] <= format.players
  BY <1>3 DEF BaseInv, Entrants
<1>6. \A c, d \in Who(m) : e.placement[c] = 1 /\ e.placement[d] = 1 => c = d
  BY <1>3 DEF BaseInv, OneFirst
<1> HIDE DEF e
<1> QED
  BY <1>2, <1>3, <1>4, <1>5, <1>6, OneReplaced

LEMMA ConfirmMatchTouches ==
  ASSUME BaseInv, NEW m \in DOMAIN matches, ConfirmMatch(m)
  PROVE  BaseInv' /\ Touched
<1>1. tournament \in [status : Statuses, winner : Contestants \cup {None}]
      /\ retractions \in 0..format.retractions
  BY DEF BaseInv, FfaShape
<1>2. \A c \in Who(m) : Completed(c) \in [status : Statuses, winner : Contestants \cup {None}]
  BY MatchShape DEF Completed, Statuses, BaseInv
<1>3. tournament' \in [status : Statuses, winner : Contestants \cup {None}]
  BY <1>1, <1>2 DEF ConfirmMatch, Decided
<1> QED
  BY <1>1, <1>3, ConfirmedChanges DEF ConfirmMatch

LEMMA EnterScoresTouches ==
  ASSUME BaseInv, NEW m \in DOMAIN matches, EnterScores(m)
  PROVE  BaseInv' /\ Touched
<1>1. tournament \in [status : Statuses, winner : Contestants \cup {None}]
      /\ retractions \in 0..format.retractions
  BY DEF BaseInv, FfaShape
<1>2. \A c \in Who(m) : Completed(c) \in [status : Statuses, winner : Contestants \cup {None}]
  BY MatchShape DEF Completed, Statuses, BaseInv
<1>3. tournament' \in [status : Statuses, winner : Contestants \cup {None}]
  BY <1>1, <1>2 DEF EnterScores
<1>4. /\ matches' = [matches EXCEPT ![m].confirmed = TRUE]
      /\ UNCHANGED <<format, generation, roster, retractions>>
  BY DEF EnterScores
<1> QED
  BY <1>1, <1>3, <1>4, ConfirmedChanges

LEMMA UnconfirmMatchTouches ==
  ASSUME BaseInv, NEW m \in DOMAIN matches, UnconfirmMatch(m)
  PROVE  BaseInv' /\ Touched
<1>1. tournament \in [status : Statuses, winner : Contestants \cup {None}]
      /\ retractions \in 0..format.retractions
  BY DEF BaseInv, FfaShape
<1>2. Reopened(m) \in [status : Statuses, winner : Contestants \cup {None}]
  BY <1>1 DEF Reopened, Statuses
<1>3. retractions' \in 0..format.retractions
  <2>1. format.retractions \in Nat
    BY FormatsChecked DEF BaseInv, FfaShape
  <2> QED
    BY <1>1, <2>1 DEF UnconfirmMatch
<1> QED
  BY <1>2, <1>3, ConfirmedChanges DEF UnconfirmMatch

LEMMA ChangeStatusTouches ==
  ASSUME BaseInv, NEW new, ChangeStatus(new)
  PROVE  BaseInv' /\ Touched
<1>1. FfaShape
  BY DEF BaseInv
<1>2. new \in Statuses
  BY <1>1, FormatsChecked DEF ChangeStatus, FfaShape
<1>3. tournament' \in [status : Statuses, winner : Contestants \cup {None}]
  BY <1>1, <1>2 DEF ChangeStatus, FfaShape
<1>4. UNCHANGED <<format, matches, roster, generation, retractions>>
  BY DEF ChangeStatus
<1>5. Active' = Active /\ \A m : Who(m)' = Who(m)
  BY <1>4 DEF Active, Who
<1>6. \A m \in DOMAIN matches :
        /\ \A c \in Who(m)' : matches'[m].placement[c] <= format.players
        /\ \A c, d \in Who(m)' :
             matches'[m].placement[c] = 1 /\ matches'[m].placement[d] = 1 => c = d
  BY <1>4, <1>5 DEF BaseInv, Entrants, OneFirst
<1>7. BaseInv'
  BY <1>1, <1>3, <1>4, <1>5, <1>6, ChangeKeeps DEF FfaShape
<1>8. Touched
  BY <1>4, <1>5 DEF Touched
<1> QED
  BY <1>7, <1>8

LEMMA RemoveUnplacedTouches ==
  ASSUME BaseInv, NEW c \in Contestants, RemoveUnplaced(c)
  PROVE  BaseInv' /\ Touched
<1>1. FfaShape
  BY DEF BaseInv
<1>2. /\ UNCHANGED <<format, tournament, matches, generation, retractions>>
      /\ roster' = [roster EXCEPT ![c] = "gone"]
      /\ \A m \in DOMAIN matches : c \notin Who(m)
  BY DEF RemoveUnplaced
<1>3. roster' \in [Contestants -> {"active", "removed", "gone"}] /\ Active' = Active \ {c}
  BY <1>1, <1>2 DEF FfaShape, Active
<1>4. \A m : Who(m)' = Who(m)
  BY <1>2 DEF Who
<1>5. \A m \in DOMAIN matches :
        /\ \A d \in Who(m)' : matches'[m].placement[d] <= format.players
        /\ \A d, e \in Who(m)' :
             matches'[m].placement[d] = 1 /\ matches'[m].placement[e] = 1 => d = e
  BY <1>2, <1>4 DEF BaseInv, Entrants, OneFirst
<1>6. BaseInv'
  BY <1>1, <1>2, <1>3, <1>4, <1>5, ChangeKeeps DEF FfaShape
<1>7. Touched
  BY <1>2, <1>3, <1>4 DEF Touched
<1> QED
  BY <1>6, <1>7

(* The open matches of whoever leaves, after it. *)
LEMMA RemovalDoes ==
  ASSUME BaseInv, NEW c \in Contestants, RemoveParticipant(c)
  PROVE  /\ matches' \in [DOMAIN matches -> Entries] /\ DOMAIN matches' = DOMAIN matches
         /\ \A m \in DOMAIN matches \ Open(c) : matches'[m] = matches[m]
         /\ \A m \in Open(c) :
              /\ Who(m)' = Who(m) \ {c} /\ ~matches[m].confirmed /\ c \in Who(m)
              /\ \A x \in Who(m)' : matches'[m].placement[x] = matches[m].placement[x]
              /\ matches'[m].confirmed <=> Cardinality(Who(m)) = 2
<1> DEFINE left(m) == [x \in Who(m) \ {c} |-> matches[m].placement[x]]
           alone   == {m \in Open(c) : Cardinality(Who(m)) = 2}
           rest(m) == [placement |-> left(m), confirmed |-> m \in alone]
<1>1. matches' = [m \in DOMAIN matches |-> IF m \notin Open(c) THEN matches[m] ELSE rest(m)]
  BY DEF RemoveParticipant
<1>2. ASSUME NEW m \in Open(c)
      PROVE  /\ m \in DOMAIN matches /\ ~matches[m].confirmed /\ c \in Who(m)
             /\ left(m) \in [Who(m) \ {c} -> Nat] /\ Who(m) \subseteq Contestants
  <2>1. m \in DOMAIN matches /\ ~matches[m].confirmed /\ c \in Who(m)
    BY DEF Open
  <2>2. matches[m].placement \in [Who(m) -> Nat] /\ Who(m) \subseteq Contestants
    BY <2>1, MatchShape DEF BaseInv
  <2> QED
    BY <2>1, <2>2
<1> HIDE DEF left, rest
<1>3. ASSUME NEW m \in Open(c)
      PROVE  /\ matches'[m].placement = left(m) /\ matches'[m].confirmed = (m \in alone)
             /\ matches'[m] \in Entries
  <2>1. matches'[m] = rest(m)
    BY <1>1, <1>2
  <2>2. rest(m).placement = left(m) /\ rest(m).confirmed = (m \in alone)
    BY DEF rest
  <2>3. left(m) \in UNION {[S -> Nat] : S \in SUBSET Contestants}
    <3>1. Who(m) \ {c} \in SUBSET Contestants
      BY <1>2
    <3> QED
      BY <1>2, <3>1
  <2>4. (m \in alone) \in BOOLEAN
    OBVIOUS
  <2>5. rest(m) \in Entries
    BY <2>3, <2>4 DEF Entries, rest
  <2> QED
    BY <2>1, <2>2, <2>5, Zenon
<1>4. ASSUME NEW m \in Open(c)
      PROVE  /\ Who(m)' = Who(m) \ {c}
             /\ \A x \in Who(m)' : matches'[m].placement[x] = matches[m].placement[x]
             /\ matches'[m].confirmed <=> m \in alone
  <2>1. matches'[m].placement = left(m) /\ matches'[m].confirmed = (m \in alone)
    BY <1>3
  <2>2. DOMAIN left(m) = Who(m) \ {c}
        /\ \A x \in Who(m) \ {c} : left(m)[x] = matches[m].placement[x]
    BY DEF left
  <2>3. Who(m)' = Who(m) \ {c}
    BY <2>1, <2>2 DEF Who
  <2> QED
    BY <2>1, <2>2, <2>3
<1>5. \A m \in DOMAIN matches \ Open(c) : matches'[m] = matches[m] /\ matches'[m] \in Entries
  BY <1>1, MatchShape DEF BaseInv
<1>6. matches' \in [DOMAIN matches -> Entries] /\ DOMAIN matches' = DOMAIN matches
  <2>1. matches' = [m \in DOMAIN matches |-> matches'[m]]
    BY <1>1
  <2>2. \A m \in DOMAIN matches : matches'[m] \in Entries
    BY <1>3, <1>5
  <2> QED
    BY <2>1, <2>2
<1> QED
  BY <1>2, <1>4, <1>5, <1>6

LEMMA RemoveParticipantTouches ==
  ASSUME BaseInv, NEW c \in Contestants, RemoveParticipant(c)
  PROVE  BaseInv' /\ Touched
<1>1. FfaShape /\ OneFirst /\ Entrants
  BY DEF BaseInv
<1>2. UNCHANGED <<format, generation, retractions>> /\ roster' = [roster EXCEPT ![c] = "removed"]
  BY DEF RemoveParticipant
<1>3. roster' \in [Contestants -> {"active", "removed", "gone"}] /\ Active' = Active \ {c}
  BY <1>1, <1>2 DEF FfaShape, Active
<1>4. /\ matches' \in [DOMAIN matches -> Entries] /\ DOMAIN matches' = DOMAIN matches
      /\ \A m \in DOMAIN matches \ Open(c) : matches'[m] = matches[m]
      /\ \A m \in Open(c) :
              /\ Who(m)' = Who(m) \ {c} /\ ~matches[m].confirmed /\ c \in Who(m)
              /\ \A x \in Who(m)' : matches'[m].placement[x] = matches[m].placement[x]
  BY RemovalDoes
<1>5. \A m \in DOMAIN matches \ Open(c) : Who(m)' = Who(m)
  BY <1>4 DEF Who
<1>6. ASSUME NEW m \in DOMAIN matches
      PROVE  /\ Who(m)' \subseteq Who(m) /\ Who(m) \cap Active' \subseteq Who(m)'
             /\ \A x \in Who(m)' : matches'[m].placement[x] = matches[m].placement[x]
  BY <1>3, <1>4, <1>5
<1>7. tournament' \in [status : Statuses, winner : Contestants \cup {None}]
  <2>1. \A x \in Contestants :
          Completed(x) \in [status : Statuses, winner : Contestants \cup {None}]
    BY DEF Completed, Statuses
  <2>2. \A m \in DOMAIN matches : Who(m) \subseteq Contestants
    BY <1>1, MatchShape
  <2>3. tournament' \in {tournament} \cup {Completed(x) : x \in Contestants}
    BY <2>2 DEF RemoveParticipant, Open
  <2> QED
    BY <1>1, <2>1, <2>3 DEF FfaShape
<1>8. ASSUME NEW m \in DOMAIN matches
      PROVE  /\ Who(m)' \subseteq Who(m)
             /\ \A x \in Who(m)' : matches'[m].placement[x] <= format.players
             /\ \A x, y \in Who(m)' :
                  matches'[m].placement[x] = 1 /\ matches'[m].placement[y] = 1 => x = y
  BY <1>1, <1>6 DEF Entrants, OneFirst
<1>9. BaseInv'
  BY <1>1, <1>2, <1>3, <1>4, <1>7, <1>8, ChangeKeeps DEF FfaShape
<1>10. Touched
  BY <1>2, <1>3, <1>4, <1>5, <1>6 DEF Touched
<1> QED
  BY <1>9, <1>10

-----------------------------------------------------------------------------
(* What holds of every round *)

LEMMA BaseInit ==
  ASSUME Init
  PROVE  BaseInv /\ DOMAIN matches = {}
<1>1. matches = <<>> /\ DOMAIN matches = {}
  BY DEF Init
<1>2. format \in FfaFormats /\ format.generations \in Nat /\ format.retractions \in Nat
  BY FormatsChecked DEF Init
<1>3. FfaShape
  <2>1. matches \in [DOMAIN matches -> Entries] /\ DOMAIN matches \subseteq Keys
    BY <1>1
  <2>2. roster \in [Contestants -> {"active", "removed", "gone"}]
    BY DEF Init
  <2>3. tournament \in [status : Statuses, winner : Contestants \cup {None}]
    BY DEF Init, Statuses
  <2> QED
    BY <1>2, <2>1, <2>2, <2>3 DEF FfaShape, Init
<1>4. \A p : Pool(p) = {}
  BY <1>1 DEF Pool
<1>5. \A p : Rounds(p) = {}
  BY <1>4 DEF Rounds
<1>6. \A p : NextRound(p) = 0
  BY <1>5 DEF NextRound
<1>7. RoundsInOrder
  BY <1>1, <1>5, <1>6 DEF RoundsInOrder
<1>8. Entrants
  BY <1>1 DEF Entrants, Active, Everyone, Init
<1> QED
  BY <1>1, <1>3, <1>7, <1>8 DEF BaseInv, Apart, PoolsOfMode, OneFirst

(* Only what is there can be built on. *)
LEMMA NotBeforeTheFirst ==
  ASSUME BaseInv
  PROVE  /\ \A p : Finished(Latest(p)) => generation # 0 /\ generation \in Nat
         /\ Survivors("WB") \cup Survivors("LB") # {} => generation # 0 /\ generation \in Nat
<1>1. generation \in Nat
  BY FormatsChecked DEF BaseInv, FfaShape
<1>2. generation = 0 => DOMAIN matches = {}
  BY DEF BaseInv, Entrants
<1>3. generation = 0 => \A p : Latest(p) = {}
  BY <1>2 DEF Latest, RoundOf, Pool
<1> QED
  BY <1>1, <1>3 DEF Finished, Survivors

(* The rounds after each action that makes matches. *)
LEMMA GrowthOf ==
  ASSUME BaseInv,
         GenerateRound \/ AdvanceSingle \/ AdvanceWinners \/ AdvanceLosers \/ GenerateGrandFinal
  PROVE  BaseInv'
<1>1. UNCHANGED <<format, tournament, roster, retractions>>
  BY DEF GenerateRound, AdvanceSingle, AdvanceWinners, AdvanceLosers, GenerateGrandFinal
<1>2. generation \in 0..format.generations /\ format.generations \in Nat
  BY FormatsChecked DEF BaseInv, FfaShape
<1>3. CASE GenerateRound
  <2>1. generation' = generation + 1 /\ generation < format.generations
    BY <1>3 DEF GenerateRound
  <2>2. PICK p, new : Growth(new) /\ matches' = Added(matches, new)
    BY <1>3, GenerateDoes
  <2>3. generation' \in 0..format.generations /\ generation' # 0
    BY <1>2, <2>1
  <2> QED
    BY <1>1, <2>2, <2>3, GrowthKeeps
<1>4. ASSUME generation' = generation, generation # 0,
             \E new : Growth(new) /\ matches' = Added(matches, new)
      PROVE  BaseInv'
  BY <1>1, <1>2, <1>4, GrowthKeeps
<1>5. CASE AdvanceSingle
  BY <1>4, <1>5, NotBeforeTheFirst, AdvanceSingleDoes DEF AdvanceSingle, Ready
<1>6. CASE AdvanceWinners
  BY <1>4, <1>6, NotBeforeTheFirst, AdvanceWinnersDoes DEF AdvanceWinners, Ready
<1>7. CASE AdvanceLosers
  BY <1>4, <1>7, NotBeforeTheFirst, AdvanceLosersDoes DEF AdvanceLosers, Ready
<1>8. CASE GenerateGrandFinal
  <2>1. Survivors("WB") \cup Survivors("LB") # {}
    <3> SUFFICES ASSUME Survivors("WB") = {}, Survivors("LB") = {} PROVE FALSE
      OBVIOUS
    <3>1. Cardinality(Survivors("WB")) = 0 /\ Cardinality(Survivors("LB")) = 0
      BY FS_EmptySet
    <3> QED
      BY <1>8, <3>1 DEF GenerateGrandFinal
  <2> QED
    BY <1>4, <1>8, <2>1, NotBeforeTheFirst, GrandFinalDoes DEF GenerateGrandFinal
<1> QED
  BY <1>3, <1>5, <1>6, <1>7, <1>8

LEMMA BaseNext ==
  ASSUME BaseInv, Next
  PROVE  /\ BaseInv'
         /\ \/ GenerateRound \/ AdvanceSingle \/ AdvanceWinners \/ AdvanceLosers
            \/ GenerateGrandFinal \/ Touched
<1>1. CASE GenerateRound \/ Advance \/ GenerateGrandFinal
  BY <1>1, GrowthOf DEF Advance
<1>2. CASE \E m \in DOMAIN matches : SetPlacements(m)
  BY <1>2, SetPlacementsTouches
<1>3. CASE ResultConfirmed
  BY <1>3, ConfirmMatchTouches DEF ResultConfirmed
<1>4. CASE \E m \in DOMAIN matches : UnconfirmMatch(m)
  BY <1>4, UnconfirmMatchTouches
<1>7. CASE \E m \in DOMAIN matches : EnterScores(m)
  BY <1>7, EnterScoresTouches
<1>5. CASE \E new \in Statuses : ChangeStatus(new)
  BY <1>5, ChangeStatusTouches
<1>6. CASE \E c \in Contestants : RemoveParticipant(c) \/ RemoveUnplaced(c)
  BY <1>6, RemoveParticipantTouches, RemoveUnplacedTouches
<1> QED
  BY <1>1, <1>2, <1>3, <1>4, <1>5, <1>6, <1>7 DEF Next, Advance

-----------------------------------------------------------------------------
(* What was built on, and what was built over *)

\* Rounds before the latest are decided, or were overtaken by the next.
Built ==
  generation <= 1 =>
    \A m \in DOMAIN matches :
      m[1] # "GF" /\ m[2] + 1 < NextRound(m[1]) =>
        matches[m].confirmed \/ (m[1] = "LB" /\ m \in overtaken)

\* So are the matches the grand final was made from.
Based ==
  Pool("GF") # {} => \A m \in basis : m[1] # "GF" /\ (matches[m].confirmed \/ m \in overtaken)

Recorded == basis \cup overtaken \subseteq DOMAIN matches

\* Before there is a grand final, only the losers can have been overtaken.
LosersOvertaken ==
  generation <= 1 /\ Pool("GF") = {} =>
    \A m \in overtaken : m[1] = "LB" /\ m[2] + 1 < NextRound("LB")

RecordInv == BaseInv /\ Built /\ Based /\ Recorded /\ LosersOvertaken

\* A step that makes matches.
Extended(new) ==
  /\ Growth(new) /\ matches' = Added(matches, new)
  /\ UNCHANGED <<format, tournament, scores, roster, retractions>>
  /\ generation <= generation'
  /\ generation' <= 1 =>
       \A p \in {"MAIN", "WB"} :
         NewOf(new, p) # {} => \A m \in Latest(p) : matches[m].confirmed

LEMMA GenerateExtends ==
  ASSUME BaseInv, GenerateRound
  PROVE  \E p, new :
           /\ p \in {"MAIN", "WB"} /\ p = IF format.mode = "DE" THEN "WB" ELSE "MAIN"
           /\ Extended(new) /\ NewOf(new, p) = DOMAIN new /\ DOMAIN new # {}
           /\ Seated(new) = Active
<1>1. PICK p, new :
         /\ p \in {"MAIN", "WB"} /\ p = IF format.mode = "DE" THEN "WB" ELSE "MAIN"
         /\ Growth(new) /\ matches' = Added(matches, new)
         /\ NewOf(new, p) = DOMAIN new /\ DOMAIN new # {}
         /\ Seated(new) = Active
  BY GenerateDoes
<1>2. generation \in Nat /\ generation' = generation + 1
  BY FormatsChecked DEF BaseInv, FfaShape, GenerateRound
<1>3. generation' <= 1 => \A q : Latest(q) = {}
  BY <1>2 DEF BaseInv, Entrants, Latest, RoundOf, Pool
<1>4. Extended(new)
  BY <1>1, <1>2, <1>3 DEF Extended, GenerateRound
<1> QED
  BY <1>1, <1>4

LEMMA AdvanceSingleExtends ==
  ASSUME BaseInv, AdvanceSingle
  PROVE  \E new : /\ Extended(new)
                  /\ NewOf(new, "MAIN") = DOMAIN new /\ DOMAIN new # {}
                  /\ Seated(new) = Up(Latest("MAIN"))
<1>1. PICK new : /\ Growth(new) /\ matches' = Added(matches, new)
                 /\ NewOf(new, "MAIN") = DOMAIN new /\ DOMAIN new # {}
                 /\ Seated(new) = Up(Latest("MAIN"))
  BY AdvanceSingleDoes
<1>2. generation' = generation /\ generation \in Nat
  BY FormatsChecked DEF BaseInv, FfaShape, AdvanceSingle
<1>3. \A m \in Latest("MAIN") : matches[m].confirmed
  BY DEF AdvanceSingle, Ready, Finished
<1>4. NewOf(new, "WB") = {}
  BY <1>1 DEF NewOf
<1>5. Extended(new)
  BY <1>1, <1>2, <1>3, <1>4 DEF Extended, AdvanceSingle
<1> QED
  BY <1>1, <1>5

LEMMA AdvanceLosersExtends ==
  ASSUME BaseInv, AdvanceLosers
  PROVE  \E new : /\ Extended(new)
                  /\ NewOf(new, "LB") = DOMAIN new /\ DOMAIN new # {}
                  /\ Seated(new) = Up(Latest("LB"))
<1>1. PICK new : /\ Growth(new) /\ matches' = Added(matches, new)
                 /\ NewOf(new, "LB") = DOMAIN new /\ DOMAIN new # {}
                 /\ Seated(new) = Up(Latest("LB"))
  BY AdvanceLosersDoes
<1>2. generation' = generation /\ generation \in Nat
  BY FormatsChecked DEF BaseInv, FfaShape, AdvanceLosers
<1>3. NewOf(new, "WB") = {} /\ NewOf(new, "MAIN") = {}
  BY <1>1 DEF NewOf
<1>4. Extended(new)
  BY <1>1, <1>2, <1>3 DEF Extended, AdvanceLosers
<1> QED
  BY <1>1, <1>4

LEMMA AdvanceWinnersExtends ==
  ASSUME BaseInv, AdvanceWinners
  PROVE  \E upper, lower :
           /\ Extended(Added(upper, lower))
           /\ NewOf(Added(upper, lower), "WB") = DOMAIN upper /\ DOMAIN upper # {}
           /\ NewOf(Added(upper, lower), "LB") = DOMAIN lower
           /\ \A m \in DOMAIN upper : Added(upper, lower)[m] = upper[m]
           /\ \A m \in DOMAIN lower : Added(upper, lower)[m] = lower[m]
           /\ Seated(upper) = Up(Latest("WB"))
           /\ Seated(lower) \subseteq Dropped(Latest("WB")) \cup Survivors("LB")
           /\ Dropped(Latest("WB")) \cap Survivors("LB") = {} =>
                Seated(lower) = Dropped(Latest("WB")) \cup Survivors("LB")
           /\ DOMAIN lower = {} <=> Dropped(Latest("WB")) \cup Survivors("LB") = {}
<1> DEFINE down == Dropped(Latest("WB"))
           still == Survivors("LB")
           best == Up(Latest("WB"))
<1>1. PICK upper, lower :
           /\ matches' = Added(matches, Added(upper, lower)) /\ Growth(Added(upper, lower))
           /\ NewOf(Added(upper, lower), "WB") = DOMAIN upper /\ DOMAIN upper # {}
           /\ NewOf(Added(upper, lower), "LB") = DOMAIN lower
           /\ \A m \in DOMAIN upper : Added(upper, lower)[m] = upper[m]
           /\ \A m \in DOMAIN lower : Added(upper, lower)[m] = lower[m]
           /\ Seated(upper) = best
           /\ Seated(lower) \subseteq down \cup still
           /\ down \cap still = {} => Seated(lower) = down \cup still
           /\ DOMAIN lower = {} <=> down \cup still = {}
  BY AdvanceWinnersDoes
<1> DEFINE new == Added(upper, lower)
<1> HIDE DEF down, still, best, new
<1>2. generation' = generation /\ generation \in Nat
  BY FormatsChecked DEF BaseInv, FfaShape, AdvanceWinners
<1>3. \A m \in Latest("WB") : matches[m].confirmed
  BY DEF AdvanceWinners, Ready, Finished
<1>4. Growth(new) /\ matches' = Added(matches, new)
  BY <1>1 DEF new
<1>5. NewOf(new, "MAIN") = {}
  <2>1. format.mode = "DE"
    BY DEF AdvanceWinners
  <2> QED
    BY <1>4, <2>1 DEF NewOf, Growth
<1>6. Extended(new)
  BY <1>2, <1>3, <1>4, <1>5 DEF Extended, AdvanceWinners
<1> USE DEF down, still, best, new
<1> QED
  BY <1>1, <1>6

LEMMA GrandFinalExtends ==
  ASSUME BaseInv, GenerateGrandFinal
  PROVE  \E new : /\ Extended(new)
                  /\ NewOf(new, "GF") = DOMAIN new /\ DOMAIN new = {<<"GF", 0, 1>>}
                  /\ Seated(new) = Survivors("WB") \cup Survivors("LB")
<1>1. PICK new : /\ Growth(new) /\ matches' = Added(matches, new)
                 /\ NewOf(new, "GF") = DOMAIN new /\ DOMAIN new = {<<"GF", 0, 1>>}
                 /\ Seated(new) = Survivors("WB") \cup Survivors("LB")
  BY GrandFinalDoes
<1>2. generation' = generation /\ generation \in Nat
  BY FormatsChecked DEF BaseInv, FfaShape, GenerateGrandFinal
<1>3. NewOf(new, "WB") = {} /\ NewOf(new, "MAIN") = {}
  BY <1>1 DEF NewOf
<1>4. Extended(new)
  BY <1>1, <1>2, <1>3 DEF Extended, GenerateGrandFinal
<1> QED
  BY <1>1, <1>4

(* What a step that makes no matches records. *)
LEMMA TouchedObserves ==
  ASSUME Touched, Observe
  PROVE  UNCHANGED <<overtaken, basis>>
<1>1. Pool("GF")' = Pool("GF") /\ \A p : NextRound(p)' = NextRound(p)
  BY SameRounds DEF Touched
<1>2. \A q : ~Continued(q)
  BY <1>1 DEF Continued
<1>3. overtaken' = overtaken \cup UNION {{m \in Latest(p) : ~matches[m].confirmed} : p \in {}}
  BY <1>2 DEF Observe
<1>4. overtaken' = overtaken
  BY <1>3
<1>5. basis' = basis
  BY <1>1 DEF Observe
<1> QED
  BY <1>4, <1>5

(* An old result stays, one that was built on above all. *)
LEMMA TouchedKeeps ==
  ASSUME RecordInv, Touched, Observe, BaseInv'
  PROVE  RecordInv'
<1>0. BaseInv /\ FfaShape /\ RoundsInOrder /\ Built /\ Based /\ Recorded /\ LosersOvertaken
  BY DEF RecordInv, BaseInv
<1>1. UNCHANGED <<overtaken, basis, generation>> /\ DOMAIN matches' = DOMAIN matches
  BY TouchedObserves DEF Touched
<1>2. Pool("GF")' = Pool("GF") /\ \A p : NextRound(p)' = NextRound(p)
  BY <1>1, SameRounds
<1>3. \A m \in DOMAIN matches :
        matches[m].confirmed /\ AlreadyAdvanced(m) => matches'[m].confirmed
  BY DEF Touched
<1>4. ASSUME NEW m \in DOMAIN matches, m[1] # "GF", m[2] + 1 < NextRound(m[1])
      PROVE  AlreadyAdvanced(m)
  BY <1>4 DEF AlreadyAdvanced
<1>5. Built'
  BY <1>0, <1>1, <1>2, <1>3, <1>4 DEF Built
<1>6. Based'
  BY <1>0, <1>1, <1>2, <1>3 DEF Based, AlreadyAdvanced, Recorded
<1>7. Recorded' /\ LosersOvertaken'
  BY <1>0, <1>1, <1>2 DEF Recorded, LosersOvertaken
<1> QED
  BY <1>5, <1>6, <1>7 DEF RecordInv

(* New rounds are built on results, but for the losers'. *)
LEMMA ExtendedKeeps ==
  ASSUME RecordInv, NEW new, Extended(new), Observe, BaseInv'
  PROVE  RecordInv'
<1>0. BaseInv /\ FfaShape /\ RoundsInOrder /\ Built /\ Based /\ Recorded /\ LosersOvertaken
      /\ Growth(new) /\ matches' = Added(matches, new)
  BY DEF RecordInv, BaseInv, Extended
<1>1. /\ DOMAIN matches' = DOMAIN matches \cup DOMAIN new
      /\ \A m \in DOMAIN matches : matches'[m] = matches[m]
  BY <1>0, Grown
<1>2. \A p \in Pools :
        /\ Pool(p)' = Pool(p) \cup NewOf(new, p) /\ NextRound(p) \in Nat
        /\ NewOf(new, p) = {} => NextRound(p)' = NextRound(p)
        /\ NewOf(new, p) # {} => NextRound(p)' = NextRound(p) + 1
  BY <1>0, GrownRounds DEF RoundsInOrder
<1>3. \A p : Latest(p) \subseteq DOMAIN matches
             /\ \A m \in Latest(p) : m[1] = p /\ m[2] = NextRound(p) - 1
  BY DEF Latest, RoundOf, Pool
<1>4. overtaken \subseteq overtaken'
  BY DEF Observe
<1>5. generation <= 1 \/ ~(generation' <= 1)
  <2>1. generation \in Nat /\ generation' \in Nat /\ generation <= generation'
    BY <1>0, FormatsChecked DEF BaseInv, FfaShape, Extended
  <2> QED
    BY <2>1
<1>6. ASSUME NEW m \in overtaken' \ overtaken
      PROVE  /\ m \in DOMAIN matches /\ ~matches[m].confirmed
             /\ m[1] \in {"WB", "LB"} /\ m[2] + 1 = NextRound(m[1]) /\ Continued(m[1])
  <2>1. PICK p \in {"WB", "LB"} : Continued(p) /\ m \in Latest(p) /\ ~matches[m].confirmed
    BY DEF Observe
  <2>2. NextRound(p) \in Nat
    BY <1>2 DEF Pools
  <2> QED
    BY <1>3, <2>1, <2>2
<1>7. Built'
  <2> SUFFICES ASSUME generation' <= 1, NEW m \in DOMAIN matches', m[1] # "GF",
                      m[2] + 1 < NextRound(m[1])'
               PROVE  matches'[m].confirmed \/ (m[1] = "LB" /\ m \in overtaken')
    BY DEF Built
  <2>1. m \in DOMAIN matches
    <3> SUFFICES ASSUME m \in DOMAIN new PROVE FALSE
      BY <1>1
    <3>1. m[2] = NextRound(m[1]) /\ m[1] \in Pools
      BY <1>0 DEF Growth, Keys
    <3> QED
      BY <1>2, <3>1
  <2>2. m[1] \in Pools /\ m[2] \in Nat
    BY <1>0, <2>1, MatchShape
  <2>3. CASE m[2] + 1 < NextRound(m[1])
    BY <1>0, <1>1, <1>4, <1>5, <2>1, <2>3 DEF Built
  <2>4. CASE ~(m[2] + 1 < NextRound(m[1]))
    <3>1. NewOf(new, m[1]) # {} /\ m[2] = NextRound(m[1]) - 1 /\ NextRound(m[1])' # NextRound(m[1])
      BY <1>2, <2>2, <2>4
    <3>2. m \in Latest(m[1])
      BY <2>1, <3>1 DEF Latest, RoundOf, Pool
    <3>3. CASE m[1] \in {"MAIN", "WB"}
      BY <1>1, <2>1, <3>1, <3>2, <3>3 DEF Extended
    <3>4. CASE m[1] = "LB"
      <4>1. Continued("LB")
        BY <3>1, <3>4 DEF Continued
      <4>2. matches[m].confirmed \/ m \in overtaken'
        BY <3>2, <3>4, <4>1 DEF Observe
      <4> QED
        BY <1>1, <2>1, <3>4, <4>2
    <3> QED
      BY <2>2, <3>3, <3>4 DEF Pools
  <2> QED
    BY <2>3, <2>4
<1>8. Based'
  <2>1. CASE Pool("GF") # {}
    <3>1. basis' = basis
      BY <2>1 DEF Observe
    <3> QED
      BY <1>0, <1>1, <1>4, <2>1, <3>1 DEF Based, Recorded
  <2>2. CASE Pool("GF") = {} /\ Pool("GF")' # {}
    <3>1. basis' = Latest("WB") \cup Latest("LB")
      BY <2>2 DEF Observe
    <3>2. Continued("WB") /\ Continued("LB")
      BY <2>2 DEF Continued
    <3>3. \A m \in basis' : m \in DOMAIN matches /\ m[1] # "GF"
                            /\ (matches[m].confirmed \/ m \in overtaken')
      BY <1>3, <3>1, <3>2 DEF Observe
    <3> QED
      BY <1>1, <3>3 DEF Based
  <2>3. CASE Pool("GF")' = {}
    BY <2>3 DEF Based
  <2> QED
    BY <2>1, <2>2, <2>3
<1>9. Recorded'
  <2>1. basis' \subseteq DOMAIN matches
    BY <1>0, <1>3 DEF Observe, Recorded
  <2> QED
    BY <1>0, <1>1, <1>6, <2>1 DEF Recorded
<1>10. LosersOvertaken'
  <2> SUFFICES ASSUME generation' <= 1, Pool("GF")' = {}, NEW m \in overtaken'
               PROVE  m[1] = "LB" /\ m[2] + 1 < NextRound("LB")'
    BY DEF LosersOvertaken
  <2>1. Pool("GF") = {} /\ "LB" \in Pools /\ "WB" \in Pools
    BY <1>2 DEF Pools
  <2>2. CASE m \in overtaken
    <3>1. m[1] = "LB" /\ m[2] + 1 < NextRound("LB")
      BY <1>0, <1>5, <2>1, <2>2 DEF LosersOvertaken
    <3>2. m[2] \in Nat
      BY <1>0, <2>2, MatchShape DEF Recorded
    <3> QED
      BY <1>2, <2>1, <3>1, <3>2
  <2>3. CASE m \notin overtaken
    <3>1. /\ m \in DOMAIN matches /\ ~matches[m].confirmed
          /\ m[1] \in {"WB", "LB"} /\ m[2] + 1 = NextRound(m[1])
          /\ NextRound(m[1])' # NextRound(m[1])
      BY <1>6, <2>1, <2>3 DEF Continued
    <3>2. NewOf(new, m[1]) # {} /\ NextRound(m[1])' = NextRound(m[1]) + 1 /\ m[2] \in Nat
      BY <1>0, <1>2, <2>1, <3>1, MatchShape
    <3>3. m \in Latest(m[1])
      BY <3>1, <3>2 DEF Latest, RoundOf, Pool
    <3>4. m[1] # "WB"
      BY <3>1, <3>2, <3>3 DEF Extended
    <3> QED
      BY <1>2, <2>1, <3>1, <3>2, <3>4
  <2> QED
    BY <2>2, <2>3
<1> QED
  BY <1>7, <1>8, <1>9, <1>10 DEF RecordInv

LEMMA RecordInit ==
  ASSUME HistoryInit
  PROVE  RecordInv
<1>1. BaseInv /\ DOMAIN matches = {} /\ overtaken = {} /\ basis = {}
  BY BaseInit DEF HistoryInit
<1> QED
  BY <1>1 DEF RecordInv, Built, Based, Recorded, LosersOvertaken

(* A step makes matches or leaves those there are. *)
LEMMA RecordNext ==
  ASSUME RecordInv, Next, Observe
  PROVE  /\ RecordInv'
         /\ \/ GenerateRound \/ AdvanceSingle \/ AdvanceWinners \/ AdvanceLosers
            \/ GenerateGrandFinal \/ Touched
         /\ Touched \/ \E new : Extended(new)
<1>1. /\ BaseInv /\ BaseInv'
      /\ \/ GenerateRound \/ AdvanceSingle \/ AdvanceWinners \/ AdvanceLosers
         \/ GenerateGrandFinal \/ Touched
  BY BaseNext DEF RecordInv
<1>2. Touched \/ \E new : Extended(new)
  BY <1>1, GenerateExtends, AdvanceSingleExtends, AdvanceWinnersExtends, AdvanceLosersExtends,
     GrandFinalExtends
<1> QED
  BY <1>1, <1>2, TouchedKeeps, ExtendedKeeps

LEMMA RecordStutter ==
  ASSUME RecordInv, UNCHANGED historyVars
  PROVE  RecordInv'
<1> USE DEF historyVars, vars
<1>1. DOMAIN matches' = DOMAIN matches
  OBVIOUS
<1>2. \A p : Pool(p)' = Pool(p) /\ Rounds(p)' = Rounds(p) /\ NextRound(p)' = NextRound(p)
  BY <1>1, SameRounds
<1>3. BaseInv'
  BY <1>2 DEF RecordInv, BaseInv, FfaShape, Apart, RoundsInOrder, PoolsOfMode, OneFirst,
     Entrants, Who, Active, Everyone
<1> QED
  BY <1>2, <1>3 DEF RecordInv, Built, Based, Recorded, LosersOvertaken

LEMMA StutterTouches ==
  ASSUME UNCHANGED historyVars
  PROVE  Touched /\ Observe
<1>1. UNCHANGED <<format, matches, roster, generation, overtaken, basis>>
  BY DEF historyVars, vars
<1>2. Active' = Active /\ \A m : Who(m)' = Who(m)
  BY <1>1 DEF Active, Who
<1>3. Pool("GF")' = Pool("GF") /\ \A p : NextRound(p)' = NextRound(p)
  BY <1>1, SameRounds
<1>4. \A q : ~Continued(q)
  BY <1>3 DEF Continued
<1>5. overtaken' = overtaken \cup
        UNION {{m \in Latest(p) : ~matches[m].confirmed} : p \in {q \in {"WB", "LB"} : Continued(q)}}
  <2>1. {q \in {"WB", "LB"} : Continued(q)} = {}
    BY <1>4
  <2> QED
    BY <1>1, <2>1
<1>6. Observe
  BY <1>1, <1>3, <1>5 DEF Observe
<1> QED
  BY <1>1, <1>2, <1>6 DEF Touched

(* What was built on stays as it was. *)
THEOREM RecordHolds == HistorySpec => []RecordInv
<1>1. HistoryInit => RecordInv
  BY RecordInit
<1>2. RecordInv /\ [HistoryNext]_historyVars => RecordInv'
  BY RecordNext, RecordStutter DEF HistoryNext
<1> QED
  BY <1>1, <1>2, PTL DEF HistorySpec

-----------------------------------------------------------------------------
(* Scores *)

\* Scores are those of a result, and the highest is somebody's.
ScoresOfResults ==
  \A m \in DOMAIN scores : m \in DOMAIN matches /\ matches[m].confirmed /\ scores[m] \in Who(m)

(* What confirming a match, or taking that back, leaves. *)
LEMMA ConfirmedIs ==
  ASSUME BaseInv, NEW m \in DOMAIN matches, NEW b \in BOOLEAN,
         matches' = [matches EXCEPT ![m].confirmed = b]
  PROVE  /\ DOMAIN matches' = DOMAIN matches
         /\ \A n \in DOMAIN matches \ {m} : matches'[n] = matches[n]
         /\ matches'[m].confirmed = b /\ matches'[m].placement = matches[m].placement
         /\ \A n \in DOMAIN matches : Who(n)' = Who(n)
<1>1. FfaShape /\ matches \in [DOMAIN matches -> Entries]
  BY DEF BaseInv, FfaShape
<1>2. matches' = [matches EXCEPT ![m] = [matches[m] EXCEPT !.confirmed = b]]
  OBVIOUS
<1>3. matches[m] = [placement |-> matches[m].placement, confirmed |-> matches[m].confirmed]
  BY <1>1, MatchShape, EntryShape
<1>4. [matches[m] EXCEPT !.confirmed = b] = [placement |-> matches[m].placement, confirmed |-> b]
  BY <1>3
<1>5. /\ DOMAIN matches' = DOMAIN matches
      /\ \A n \in DOMAIN matches \ {m} : matches'[n] = matches[n]
      /\ matches'[m] = [placement |-> matches[m].placement, confirmed |-> b]
  BY <1>1, <1>2, <1>4
<1>6. matches'[m].confirmed = b /\ matches'[m].placement = matches[m].placement
  BY <1>5
<1> QED
  BY <1>5, <1>6 DEF Who

(* Results that stay keep their scores. *)
LEMMA ScoresKept ==
  ASSUME ScoresOfResults, scores' = scores, DOMAIN matches \subseteq DOMAIN matches',
         \A m \in DOMAIN scores :
           matches[m].confirmed => matches'[m].confirmed /\ Who(m)' = Who(m)
  PROVE  ScoresOfResults'
BY DEF ScoresOfResults

LEMMA ScoresNext ==
  ASSUME RecordInv, ScoresOfResults, Next
  PROVE  ScoresOfResults'
<1>1. BaseInv /\ FfaShape /\ RoundsInOrder /\ matches \in [DOMAIN matches -> Entries]
  BY DEF RecordInv, BaseInv, FfaShape
<1>2. CASE GenerateRound \/ Advance \/ GenerateGrandFinal
  <2>1. PICK new : Extended(new)
    BY <1>1, <1>2, GenerateExtends, AdvanceSingleExtends, AdvanceWinnersExtends,
       AdvanceLosersExtends, GrandFinalExtends DEF Advance
  <2>2. scores' = scores /\ Growth(new) /\ matches' = Added(matches, new)
    BY <2>1 DEF Extended
  <2>3. /\ DOMAIN matches' = DOMAIN matches \cup DOMAIN new
        /\ \A m \in DOMAIN matches : matches'[m] = matches[m] /\ Who(m)' = Who(m)
    BY <1>1, <2>2, Grown
  <2> QED
    BY <2>2, <2>3, ScoresKept DEF ScoresOfResults
<1>3. ASSUME NEW m \in DOMAIN matches, SetPlacements(m) PROVE ScoresOfResults'
  <2>1. scores' = scores /\ ~matches[m].confirmed
    BY <1>3 DEF SetPlacements
  <2>2. PICK places \in Placings(m) : matches' = [matches EXCEPT ![m].placement = places]
    BY <1>3 DEF SetPlacements
  <2>3. matches' = [matches EXCEPT ![m] = [matches[m] EXCEPT !.placement = places]]
    BY <2>2
  <2>4. DOMAIN matches' = DOMAIN matches /\ \A n \in DOMAIN matches \ {m} : matches'[n] = matches[n]
    BY <1>1, <2>3
  <2>5. \A n \in DOMAIN scores : n \in DOMAIN matches \ {m}
    BY <2>1 DEF ScoresOfResults
  <2> QED
    BY <2>1, <2>4, <2>5, ScoresKept DEF Who
<1>4. ASSUME NEW m \in DOMAIN matches, ConfirmMatch(m) PROVE ScoresOfResults'
  <2>1. scores' = scores /\ matches' = [matches EXCEPT ![m].confirmed = TRUE]
    BY <1>4 DEF ConfirmMatch
  <2> QED
    BY <1>1, <2>1, ConfirmedIs, ScoresKept DEF ScoresOfResults
<1>5. ASSUME NEW m \in DOMAIN matches, EnterScores(m) PROVE ScoresOfResults'
  <2>1. matches' = [matches EXCEPT ![m].confirmed = TRUE]
    BY <1>5 DEF EnterScores
  <2>2. PICK c \in Who(m) :
          scores' = [n \in DOMAIN scores \cup {m} |-> IF n = m THEN c ELSE scores[n]]
    BY <1>5 DEF EnterScores
  <2>3. /\ DOMAIN matches' = DOMAIN matches /\ matches'[m].confirmed = TRUE
        /\ \A n \in DOMAIN matches \ {m} : matches'[n] = matches[n]
        /\ \A n \in DOMAIN matches : Who(n)' = Who(n)
    BY <1>1, <2>1, ConfirmedIs
  <2>4. scores'[m] = c /\ DOMAIN scores' = DOMAIN scores \cup {m}
        /\ \A n \in DOMAIN scores \ {m} : scores'[n] = scores[n]
    BY <2>2
  <2> QED
    BY <2>3, <2>4 DEF ScoresOfResults
<1>6. ASSUME NEW m \in DOMAIN matches, UnconfirmMatch(m) PROVE ScoresOfResults'
  <2>1. /\ matches' = [matches EXCEPT ![m].confirmed = FALSE]
        /\ scores' = [n \in DOMAIN scores \ {m} |-> scores[n]]
    BY <1>6 DEF UnconfirmMatch
  <2>2. /\ DOMAIN matches' = DOMAIN matches
        /\ \A n \in DOMAIN matches \ {m} : matches'[n] = matches[n]
        /\ \A n \in DOMAIN matches : Who(n)' = Who(n)
    BY <1>1, <2>1, ConfirmedIs
  <2>3. DOMAIN scores' = DOMAIN scores \ {m} /\ \A n \in DOMAIN scores' : scores'[n] = scores[n]
    BY <2>1
  <2> QED
    BY <2>2, <2>3 DEF ScoresOfResults
<1>7. ASSUME NEW new, ChangeStatus(new) PROVE ScoresOfResults'
  <2>1. UNCHANGED <<matches, scores>>
    BY <1>7 DEF ChangeStatus
  <2> QED
    BY <2>1, ScoresKept DEF Who
<1>8. ASSUME NEW c \in Contestants, RemoveParticipant(c) PROVE ScoresOfResults'
  <2>1. /\ DOMAIN matches' = DOMAIN matches
        /\ \A m \in DOMAIN matches \ Open(c) : matches'[m] = matches[m]
    BY <1>1, <1>8, RemovalDoes
  <2>2. scores' = scores
    BY <1>8 DEF RemoveParticipant
  <2>3. \A m \in DOMAIN scores : m \in DOMAIN matches \ Open(c)
    BY DEF ScoresOfResults, Open
  <2> QED
    BY <2>1, <2>2, <2>3, ScoresKept DEF Who
<1>9. ASSUME NEW c \in Contestants, RemoveUnplaced(c) PROVE ScoresOfResults'
  <2>1. UNCHANGED <<matches, scores>>
    BY <1>9 DEF RemoveUnplaced
  <2> QED
    BY <2>1, ScoresKept DEF Who
<1> QED
  BY <1>2, <1>3, <1>4, <1>5, <1>6, <1>7, <1>8, <1>9 DEF Next, ResultConfirmed

(* Scores come and go with the result they make (_confirm_match_impl,
   _unconfirm_match_impl). *)
THEOREM ScoresHold == HistorySpec => []ScoresOfResults
<1>1. HistoryInit => ScoresOfResults
  BY DEF HistoryInit, Init, ScoresOfResults
<1>2. RecordInv /\ ScoresOfResults /\ [HistoryNext]_historyVars => ScoresOfResults'
  <2>1. ASSUME ScoresOfResults, UNCHANGED historyVars PROVE ScoresOfResults'
    BY <2>1 DEF ScoresOfResults, Who, historyVars, vars
  <2> QED
    BY <2>1, ScoresNext DEF HistoryNext
<1> QED
  BY <1>1, <1>2, RecordHolds, PTL DEF HistorySpec

-----------------------------------------------------------------------------
(* Who wins *)

Finals == {m \in DOMAIN matches : Deciding(m) /\ matches[m].confirmed}

\* The winner came first in a final, or was left alone in it.
WinnerHasFinal ==
  tournament.winner # None =>
    /\ tournament.status = "COMPLETED"
    /\ \E m \in Finals : tournament.winner \in First(m) \/ Who(m) = {tournament.winner}

\* Nothing comes after the match.
Last(m) == m[1] = "GF" \/ NextRound(m[1]) = m[2] + 1

FirstIsWinner ==
  generation <= 1 =>
    \A m \in Finals : Last(m) => First(m) \subseteq {tournament.winner}

\* A step that leaves the result of a match.
SameResult(m) ==
  /\ matches'[m] = matches[m]
  /\ m \in DOMAIN scores' <=> m \in DOMAIN scores
  /\ m \in DOMAIN scores => scores'[m] = scores[m]

LEMMA SameFirst ==
  ASSUME NEW m, SameResult(m)
  PROVE  Who(m)' = Who(m) /\ First(m)' = First(m)
BY DEF SameResult, First, Who

(* Both of these are what ChampionStands says. *)
LEMMA ChampionIs == ChampionStands <=> WinnerHasFinal /\ FirstIsWinner
BY DEF ChampionStands, WinnerHasFinal, FirstIsWinner, Finals, Last

(* There is one last deciding match. *)
LEMMA OneLastFinal ==
  ASSUME BaseInv, NEW m \in DOMAIN matches, NEW n \in DOMAIN matches,
         Deciding(m), Deciding(n), Last(m), Last(n)
  PROVE  m = n
<1>1. format.mode \in {"SE", "DE"}
  BY FormatsChecked DEF BaseInv, FfaShape
<1>2. CASE format.mode = "DE"
  BY <1>2 DEF Deciding, BaseInv, PoolsOfMode
<1>3. CASE format.mode = "SE"
  <2>1. m[1] = "MAIN" /\ n[1] = "MAIN"
    BY <1>3 DEF BaseInv, PoolsOfMode
  <2>2. m[2] \in Nat /\ n[2] \in Nat
    BY MatchShape DEF BaseInv
  <2>3. m[2] = n[2]
    BY <2>1, <2>2 DEF Last
  <2>4. n \in RoundOf("MAIN", n[2]) /\ RoundOf("MAIN", m[2]) = {m}
    BY <1>3, <2>1 DEF RoundOf, Pool, Deciding
  <2> QED
    BY <2>3, <2>4
<1> QED
  BY <1>1, <1>2, <1>3

(* An open deciding match is the last one. *)
LEMMA OpenFinalIsLast ==
  ASSUME RecordInv, generation <= 1, NEW m \in DOMAIN matches, Deciding(m),
         ~matches[m].confirmed \/ ~AlreadyAdvanced(m)
  PROVE  Last(m)
<1>1. BaseInv /\ FfaShape /\ RoundsInOrder /\ Built
  BY DEF RecordInv, BaseInv
<1>2. format.mode \in {"SE", "DE"}
  BY <1>1, FormatsChecked DEF FfaShape
<1>3. CASE format.mode = "DE"
  BY <1>3 DEF Deciding, Last
<1>4. CASE format.mode = "SE"
  <2>1. m[1] = "MAIN"
    BY <1>1, <1>4 DEF BaseInv, PoolsOfMode
  <2>2. m[2] \in 0..(NextRound(m[1]) - 1) /\ NextRound(m[1]) \in Nat
    BY <1>1, RoundBehind
  <2>3. ~(m[2] + 1 < NextRound(m[1]))
    BY <1>1, <2>1, <2>2 DEF Built, AlreadyAdvanced
  <2> QED
    BY <2>2, <2>3 DEF Last
<1> QED
  BY <1>2, <1>3, <1>4

(* Whether a match decides does not change unless matches are made. *)
LEMMA SameFinals ==
  ASSUME DOMAIN matches' = DOMAIN matches, format' = format, NEW m
  PROVE  Deciding(m)' = Deciding(m) /\ Last(m)' = Last(m)
<1>1. (\A r : RoundOf(m[1], r)' = RoundOf(m[1], r)) /\ NextRound(m[1])' = NextRound(m[1])
  BY SameRounds
<1> QED
  BY <1>1 DEF Deciding, Last

(* New matches are no finals, and old ones stay what they are. *)
LEMMA ExtendedFinals ==
  ASSUME RecordInv, NEW new, Extended(new)
  PROVE  /\ Finals' = Finals
         /\ \A m \in Finals : SameResult(m)
         /\ \A m \in Finals : Last(m)' => Last(m)
<1>0. BaseInv /\ FfaShape /\ RoundsInOrder /\ Growth(new) /\ matches' = Added(matches, new)
      /\ format' = format /\ scores' = scores
  BY DEF RecordInv, BaseInv, Extended
<1>1. /\ DOMAIN matches' = DOMAIN matches \cup DOMAIN new
      /\ \A m \in DOMAIN matches : matches'[m] = matches[m]
      /\ \A m \in DOMAIN new : matches'[m] = new[m]
  BY <1>0, Grown
<1>2. ASSUME NEW m \in DOMAIN matches
      PROVE  (Deciding(m)' <=> Deciding(m)) /\ (Last(m)' => Last(m))
  <2>1. m[1] \in Pools /\ m[2] \in 0..(NextRound(m[1]) - 1) /\ NextRound(m[1]) \in Nat
    BY <1>0, RoundBehind
  <2>2. /\ RoundOf(m[1], m[2])' = RoundOf(m[1], m[2])
        /\ NextRound(m[1])' = NextRound(m[1]) \/ NextRound(m[1])' = NextRound(m[1]) + 1
    BY <1>0, <2>1, GrownRounds
  <2>3. Deciding(m)' <=> Deciding(m)
    BY <1>0, <2>2 DEF Deciding
  <2>4. Last(m)' => Last(m)
    BY <2>1, <2>2 DEF Last
  <2> QED
    BY <2>3, <2>4
<1>3. \A m \in DOMAIN new : ~matches'[m].confirmed
  BY <1>0, <1>1 DEF Growth
<1>4. Finals' = Finals
  BY <1>1, <1>2, <1>3 DEF Finals
<1> QED
  BY <1>0, <1>1, <1>2, <1>4 DEF Finals, SameResult

ChampionInv == RecordInv /\ ScoresOfResults /\ WinnerHasFinal /\ FirstIsWinner

LEMMA ExtendedChampion ==
  ASSUME ChampionInv, NEW new, Extended(new), BaseInv'
  PROVE  WinnerHasFinal' /\ FirstIsWinner'
<1>1. RecordInv /\ WinnerHasFinal /\ FirstIsWinner
  BY DEF ChampionInv
<1>2. /\ Finals' = Finals
      /\ \A m \in Finals : Who(m)' = Who(m) /\ First(m)' = First(m)
      /\ \A m \in Finals : Last(m)' => Last(m)
  BY <1>1, ExtendedFinals, SameFirst
<1>3. tournament' = tournament /\ generation <= generation'
  BY DEF Extended
<1>4. WinnerHasFinal'
  BY <1>1, <1>2, <1>3 DEF WinnerHasFinal
<1>5. generation' <= 1 => generation <= 1
  <2>1. generation \in Nat /\ generation' \in Nat
    BY <1>1, FormatsChecked DEF RecordInv, BaseInv, FfaShape
  <2> QED
    BY <1>3, <2>1
<1>6. FirstIsWinner'
  BY <1>1, <1>2, <1>3, <1>5 DEF FirstIsWinner
<1> QED
  BY <1>4, <1>6

(* Where the tournament's row stays, and the finals do. *)
LEMMA SameChampion ==
  ASSUME ChampionInv, tournament' = tournament, UNCHANGED <<format, generation>>,
         DOMAIN matches' = DOMAIN matches,
         NEW F \in SUBSET Finals, Finals' = F,
         \A m \in F : SameResult(m),
         tournament.winner # None => F = Finals
  PROVE  WinnerHasFinal' /\ FirstIsWinner'
<1>1. WinnerHasFinal /\ FirstIsWinner
  BY DEF ChampionInv
<1>2. \A m \in F : Who(m)' = Who(m) /\ First(m)' = First(m)
  BY SameFirst
<1>3. \A m : Last(m)' = Last(m)
  BY SameFinals
<1>4. WinnerHasFinal'
  BY <1>1, <1>2 DEF WinnerHasFinal
<1>5. FirstIsWinner'
  BY <1>1, <1>2, <1>3 DEF FirstIsWinner
<1> QED
  BY <1>4, <1>5

LEMMA SetPlacementsChampion ==
  ASSUME ChampionInv, NEW m \in DOMAIN matches, SetPlacements(m)
  PROVE  WinnerHasFinal' /\ FirstIsWinner'
<1>1. PICK places \in Placings(m) : matches' = [matches EXCEPT ![m].placement = places]
  BY DEF SetPlacements
<1>2. BaseInv /\ FfaShape
  BY DEF ChampionInv, RecordInv, BaseInv
<1>3. matches \in [DOMAIN matches -> Entries]
  BY <1>2 DEF FfaShape
<1>4. /\ DOMAIN matches' = DOMAIN matches
      /\ \A n \in DOMAIN matches \ {m} : matches'[n] = matches[n]
      /\ matches'[m].confirmed = matches[m].confirmed
  <2>1. matches' = [matches EXCEPT ![m] = [matches[m] EXCEPT !.placement = places]]
    BY <1>1
  <2>2. matches[m] = [placement |-> matches[m].placement, confirmed |-> matches[m].confirmed]
    BY <1>2, MatchShape, EntryShape
  <2>3. [matches[m] EXCEPT !.placement = places].confirmed = matches[m].confirmed
    BY <2>2
  <2>4. matches'[m] = [matches[m] EXCEPT !.placement = places]
    BY <2>1
  <2>5. /\ DOMAIN matches' = DOMAIN matches
        /\ \A n \in DOMAIN matches \ {m} : matches'[n] = matches[n]
    BY <1>3, <2>1
  <2> QED
    BY <2>3, <2>4, <2>5
<1>5. ~matches[m].confirmed /\ UNCHANGED <<format, tournament, scores, generation>>
  BY DEF SetPlacements
<1>6. m \notin Finals /\ Finals' = Finals
  BY <1>4, <1>5, SameFinals DEF Finals
<1>7. \A n \in Finals : SameResult(n)
  BY <1>4, <1>5, <1>6 DEF Finals, SameResult
<1> QED
  BY <1>4, <1>5, <1>6, <1>7, SameChampion

LEMMA ConfirmMatchChampion ==
  ASSUME ChampionInv, NEW m \in DOMAIN matches, ConfirmMatch(m)
  PROVE  WinnerHasFinal' /\ FirstIsWinner'
<1>0. RecordInv /\ BaseInv /\ FfaShape /\ WinnerHasFinal /\ FirstIsWinner /\ ScoresOfResults
  BY DEF ChampionInv, RecordInv, BaseInv
<1>1. /\ ~matches[m].confirmed /\ matches' = [matches EXCEPT ![m].confirmed = TRUE]
      /\ UNCHANGED <<format, scores, generation>>
  BY DEF ConfirmMatch
<1>2. /\ DOMAIN matches' = DOMAIN matches
      /\ \A n \in DOMAIN matches \ {m} : matches'[n] = matches[n]
      /\ matches'[m].confirmed = TRUE /\ matches'[m].placement = matches[m].placement
      /\ \A n \in DOMAIN matches : Who(n)' = Who(n)
  BY <1>0, <1>1, ConfirmedIs
<1>3. \A n : Deciding(n)' = Deciding(n) /\ Last(n)' = Last(n)
  BY <1>1, <1>2, SameFinals
<1>4. Finals' = Finals \cup (IF Deciding(m) THEN {m} ELSE {}) /\ m \notin Finals
  BY <1>1, <1>2, <1>3 DEF Finals
<1> DEFINE first == {c \in Who(m) : matches[m].placement[c] = 1}
<1>5. First(m)' = first
  <2>1. m \notin DOMAIN scores
    BY <1>0, <1>1 DEF ScoresOfResults
  <2> QED
    BY <1>1, <1>2, <2>1 DEF First
<1>6. \A n \in Finals : n \in Finals' /\ SameResult(n)
  BY <1>1, <1>2, <1>4 DEF Finals, SameResult
<1>7. CASE Deciding(m) /\ first # {}
  <2>1. PICK c \in first : tournament' = Completed(c)
    BY <1>7 DEF ConfirmMatch, Decided
  <2>2. tournament'.winner = c /\ tournament'.status = "COMPLETED"
    BY <2>1 DEF Completed
  <2>3. m \in Finals' /\ c \in First(m)'
    BY <1>4, <1>5, <1>7
  <2>4. WinnerHasFinal'
    BY <2>2, <2>3 DEF WinnerHasFinal
  <2>5. ASSUME generation <= 1, NEW n \in Finals', Last(n)
        PROVE  First(n)' \subseteq {c}
    <3>1. n \in DOMAIN matches /\ Deciding(n)
      BY <1>2, <1>3, <1>4, <1>7 DEF Finals
    <3>2. Last(m)
      BY <1>0, <1>1, <1>7, <2>5, OpenFinalIsLast
    <3>3. n = m
      BY <1>0, <1>7, <2>5, <3>1, <3>2, OneLastFinal
    <3>4. first \subseteq {c}
      BY <1>0 DEF BaseInv, OneFirst
    <3> QED
      BY <1>5, <3>3, <3>4
  <2>6. FirstIsWinner'
    BY <1>1, <1>3, <2>2, <2>5 DEF FirstIsWinner
  <2> QED
    BY <2>4, <2>6
<1>8. CASE ~(Deciding(m) /\ first # {})
  <2>1. tournament' = tournament
    BY <1>8 DEF ConfirmMatch, Decided
  <2>2. WinnerHasFinal'
    BY <1>0, <1>6, <2>1, SameFirst DEF WinnerHasFinal
  <2>3. ASSUME NEW n \in Finals'
        PROVE  First(n)' = {} \/ (n \in Finals /\ First(n)' = First(n))
    BY <1>4, <1>5, <1>6, <1>8, SameFirst
  <2>4. FirstIsWinner'
    BY <1>0, <1>1, <1>3, <2>1, <2>3 DEF FirstIsWinner
  <2> QED
    BY <2>2, <2>4
<1> QED
  BY <1>7, <1>8

LEMMA EnterScoresChampion ==
  ASSUME ChampionInv, NEW m \in DOMAIN matches, EnterScores(m)
  PROVE  WinnerHasFinal' /\ FirstIsWinner'
<1>0. RecordInv /\ BaseInv /\ FfaShape
  BY DEF ChampionInv, RecordInv, BaseInv
<1>1. /\ ~matches[m].confirmed /\ matches' = [matches EXCEPT ![m].confirmed = TRUE]
      /\ UNCHANGED <<format, generation>>
  BY DEF EnterScores
<1>2. PICK c \in Who(m) :
        /\ scores' = [n \in DOMAIN scores \cup {m} |-> IF n = m THEN c ELSE scores[n]]
        /\ tournament' = IF Deciding(m) THEN Completed(c) ELSE tournament
  BY DEF EnterScores
<1>3. /\ DOMAIN matches' = DOMAIN matches
      /\ \A n \in DOMAIN matches \ {m} : matches'[n] = matches[n]
      /\ matches'[m].confirmed = TRUE
      /\ \A n \in DOMAIN matches : Who(n)' = Who(n)
  BY <1>0, <1>1, ConfirmedIs
<1>4. \A n : Deciding(n)' = Deciding(n) /\ Last(n)' = Last(n)
  BY <1>1, <1>3, SameFinals
<1>5. Finals' = Finals \cup (IF Deciding(m) THEN {m} ELSE {}) /\ m \notin Finals
  BY <1>1, <1>3, <1>4 DEF Finals
<1>6. First(m)' = {c}
  BY <1>2, <1>3 DEF First
<1>7. CASE Deciding(m)
  <2>1. tournament'.winner = c /\ tournament'.status = "COMPLETED"
    BY <1>2, <1>7 DEF Completed
  <2>2. WinnerHasFinal'
    BY <1>5, <1>6, <1>7, <2>1 DEF WinnerHasFinal
  <2>3. ASSUME generation <= 1, NEW n \in Finals', Last(n) PROVE n = m
    <3>1. n \in DOMAIN matches /\ Deciding(n)
      BY <1>3, <1>4, <1>5, <1>7 DEF Finals
    <3>2. Last(m)
      BY <1>0, <1>1, <1>7, <2>3, OpenFinalIsLast
    <3> QED
      BY <1>0, <1>7, <2>3, <3>1, <3>2, OneLastFinal
  <2>4. FirstIsWinner'
    BY <1>1, <1>4, <1>6, <2>1, <2>3 DEF FirstIsWinner
  <2> QED
    BY <2>2, <2>4
<1>8. CASE ~Deciding(m)
  <2>1. tournament' = tournament /\ Finals' = Finals
    BY <1>2, <1>5, <1>8
  <2>2. \A n \in Finals : SameResult(n)
    BY <1>2, <1>3, <1>5 DEF Finals, SameResult
  <2> QED
    BY <1>1, <1>3, <2>1, <2>2, SameChampion
<1> QED
  BY <1>7, <1>8

LEMMA UnconfirmMatchChampion ==
  ASSUME ChampionInv, NEW m \in DOMAIN matches, UnconfirmMatch(m)
  PROVE  WinnerHasFinal' /\ FirstIsWinner'
<1>0. RecordInv /\ BaseInv /\ FfaShape /\ WinnerHasFinal /\ FirstIsWinner
  BY DEF ChampionInv, RecordInv, BaseInv
<1>1. /\ matches[m].confirmed /\ matches' = [matches EXCEPT ![m].confirmed = FALSE]
      /\ scores' = [n \in DOMAIN scores \ {m} |-> scores[n]]
      /\ ~AlreadyAdvanced(m) /\ UNCHANGED <<format, generation>> /\ tournament' = Reopened(m)
  BY DEF UnconfirmMatch
<1>2. /\ DOMAIN matches' = DOMAIN matches
      /\ \A n \in DOMAIN matches \ {m} : matches'[n] = matches[n]
      /\ matches'[m].confirmed = FALSE
  BY <1>0, <1>1, ConfirmedIs
<1>3. \A n : Deciding(n)' = Deciding(n) /\ Last(n)' = Last(n)
  BY <1>1, <1>2, SameFinals
<1>4. Finals' = Finals \ {m} /\ (m \in Finals <=> Deciding(m))
  BY <1>1, <1>2, <1>3 DEF Finals
<1>5. \A n \in Finals' : SameResult(n)
  BY <1>1, <1>2, <1>4 DEF Finals, SameResult
<1>6. CASE tournament.status = "COMPLETED" /\ Deciding(m)
  <2>1. tournament'.winner = None
    BY <1>1, <1>6 DEF Reopened
  <2>2. WinnerHasFinal'
    BY <2>1 DEF WinnerHasFinal
  <2>3. ASSUME generation <= 1, NEW n \in Finals' PROVE ~Last(n)
    <3>1. n \in DOMAIN matches /\ Deciding(n) /\ n # m
      BY <1>4 DEF Finals
    <3>2. Last(m)
      BY <1>0, <1>1, <1>6, <2>3, OpenFinalIsLast
    <3> QED
      BY <1>0, <1>6, <3>1, <3>2, OneLastFinal
  <2>4. FirstIsWinner'
    BY <1>1, <1>3, <2>3 DEF FirstIsWinner
  <2> QED
    BY <2>2, <2>4
<1>7. CASE ~(tournament.status = "COMPLETED" /\ Deciding(m))
  <2>1. tournament' = tournament
    BY <1>1, <1>7 DEF Reopened
  <2>2. tournament.winner # None => Finals' = Finals
    BY <1>0, <1>4, <1>7 DEF WinnerHasFinal
  <2>3. Finals' \in SUBSET Finals
    BY <1>4
  <2> QED
    BY <1>1, <1>2, <1>5, <2>1, <2>2, <2>3, SameChampion
<1> QED
  BY <1>6, <1>7

LEMMA ChangeStatusChampion ==
  ASSUME ChampionInv, NEW new, ChangeStatus(new)
  PROVE  WinnerHasFinal' /\ FirstIsWinner'
<1>1. /\ UNCHANGED <<format, matches, scores, generation>> /\ new \in Transitions[tournament.status]
      /\ tournament' = [tournament EXCEPT !.status = new]
  BY DEF ChangeStatus
<1>2. tournament \in [status : Statuses, winner : Contestants \cup {None}]
  BY DEF ChampionInv, RecordInv, BaseInv, FfaShape
<1>3. tournament.status # "COMPLETED"
  BY <1>1 DEF Transitions
<1>4. tournament.winner = None
  BY <1>3 DEF ChampionInv, WinnerHasFinal
<1>5. tournament'.winner = tournament.winner
  BY <1>1, <1>2
<1>6. WinnerHasFinal'
  BY <1>4, <1>5 DEF WinnerHasFinal
<1>7. \A n : Deciding(n)' = Deciding(n) /\ Last(n)' = Last(n)
  BY <1>1, SameFinals
<1>8. FirstIsWinner'
  BY <1>1, <1>5, <1>7 DEF ChampionInv, FirstIsWinner, Finals, First, Who
<1> QED
  BY <1>6, <1>8

(* Of two, one is left. *)
LEMMA OneLeft ==
  ASSUME NEW S, Cardinality(S) = 2, IsFiniteSet(S), NEW c \in S, NEW x \in S \ {c}
  PROVE  S \ {c} = {x}
<1>1. Cardinality(S \ {c}) = 1 /\ IsFiniteSet(S \ {c})
  BY FS_RemoveElement
<1>2. Cardinality((S \ {c}) \ {x}) = 0 /\ IsFiniteSet((S \ {c}) \ {x})
  BY <1>1, FS_RemoveElement
<1>3. (S \ {c}) \ {x} = {}
  BY <1>2, FS_EmptySet
<1> QED
  BY <1>3

LEMMA RemoveParticipantChampion ==
  ASSUME ChampionInv, NEW c \in Contestants, RemoveParticipant(c)
  PROVE  WinnerHasFinal' /\ FirstIsWinner'
<1>0. RecordInv /\ BaseInv /\ FfaShape /\ WinnerHasFinal /\ FirstIsWinner
  BY DEF ChampionInv, RecordInv, BaseInv
<1> DEFINE deciders == {m \in {n \in Open(c) : Cardinality(Who(n)) = 2} : Deciding(m)}
<1>1. /\ DOMAIN matches' = DOMAIN matches
      /\ \A m \in DOMAIN matches \ Open(c) : matches'[m] = matches[m]
      /\ \A m \in Open(c) :
           /\ Who(m)' = Who(m) \ {c} /\ ~matches[m].confirmed /\ c \in Who(m)
           /\ matches'[m].confirmed <=> Cardinality(Who(m)) = 2
      /\ UNCHANGED <<format, scores, generation>>
  BY <1>0, RemovalDoes DEF RemoveParticipant
<1>2. \A n : Deciding(n)' = Deciding(n) /\ Last(n)' = Last(n)
  BY <1>1, SameFinals
<1>3. Finals \cap Open(c) = {} /\ Open(c) \subseteq DOMAIN matches
  BY DEF Finals, Open
<1>4. Finals' = Finals \cup deciders
  BY <1>1, <1>2, <1>3 DEF Finals
<1>5. tournament.winner = None
  BY <1>0 DEF WinnerHasFinal, RemoveParticipant, Running
<1>6. CASE deciders = {}
  <2>1. tournament' = tournament
    BY <1>6 DEF RemoveParticipant
  <2>2. Finals' = Finals
    BY <1>4, <1>6
  <2>3. \A m \in Finals : SameResult(m)
    BY <1>1, <1>3 DEF Finals, SameResult
  <2> QED
    BY <1>1, <2>1, <2>2, <2>3, SameChampion
<1>7. CASE deciders # {}
  <2>1. PICK m \in deciders : \E x \in Who(m) \ {c} : tournament' = Completed(x)
    BY <1>7 DEF RemoveParticipant
  <2>2. PICK x \in Who(m) \ {c} : tournament' = Completed(x)
    BY <2>1
  <2>3. m \in Open(c) /\ Cardinality(Who(m)) = 2 /\ Deciding(m) /\ m \in DOMAIN matches
        /\ ~matches[m].confirmed /\ c \in Who(m)
    BY <1>1, <1>3, <2>1
  <2>4. Who(m)' = {x}
    BY <1>0, <1>1, <2>2, <2>3, OneLeft, Few, MatchShape
  <2>5. tournament'.winner = x /\ tournament'.status = "COMPLETED"
    BY <2>2 DEF Completed
  <2>6. WinnerHasFinal'
    BY <1>4, <2>1, <2>4, <2>5 DEF WinnerHasFinal
  <2>7. ASSUME generation <= 1, NEW n \in Finals', Last(n), NEW d \in First(n)'
        PROVE  d = x
    <3>1. CASE n \in Finals
      <4>1. SameResult(n) /\ n \in DOMAIN matches
        BY <1>1, <1>3, <3>1 DEF Finals, SameResult
      <4>2. d \in First(n) /\ d \in Who(n)
        BY <2>7, <4>1, SameFirst DEF First
      <4>3. tournament.winner = d
        BY <1>0, <2>7, <3>1, <4>2 DEF FirstIsWinner
      <4>4. d \in Contestants
        BY <1>0, <4>1, <4>2, MatchShape
      <4> QED
        BY <1>5, <4>3, <4>4, NobodyIsNone
    <3>2. CASE n \in deciders
      <4>1. n \in DOMAIN matches /\ Deciding(n)
        BY <1>3, <3>2
      <4>2. Last(m)
        BY <1>0, <2>3, <2>7, OpenFinalIsLast
      <4>3. n = m
        BY <1>0, <2>3, <2>7, <4>1, <4>2, OneLastFinal
      <4> QED
        BY <2>4, <2>7, <4>3 DEF First
    <3> QED
      BY <1>4, <3>1, <3>2
  <2>8. FirstIsWinner'
    BY <1>1, <1>2, <2>5, <2>7 DEF FirstIsWinner
  <2> QED
    BY <2>6, <2>8
<1> QED
  BY <1>6, <1>7

LEMMA RemoveUnplacedChampion ==
  ASSUME ChampionInv, NEW c \in Contestants, RemoveUnplaced(c)
  PROVE  WinnerHasFinal' /\ FirstIsWinner'
<1>1. UNCHANGED <<format, tournament, matches, scores, generation>>
  BY DEF RemoveUnplaced
<1>2. Finals' = Finals /\ \A m \in Finals : SameResult(m)
  BY <1>1, SameFinals DEF Finals, SameResult
<1> QED
  BY <1>1, <1>2, SameChampion

LEMMA ChampionNext ==
  ASSUME ChampionInv, Next, Observe
  PROVE  ChampionInv'
<1>1. RecordInv /\ RecordInv' /\ BaseInv /\ BaseInv' /\ ScoresOfResults'
  BY RecordNext, ScoresNext DEF ChampionInv, RecordInv
<1>2. CASE GenerateRound \/ Advance \/ GenerateGrandFinal
  <2>1. \E new : Extended(new)
    BY <1>1, <1>2, GenerateExtends, AdvanceSingleExtends, AdvanceWinnersExtends,
       AdvanceLosersExtends, GrandFinalExtends DEF Advance
  <2> QED
    BY <1>1, <2>1, ExtendedChampion DEF ChampionInv
<1>3. CASE \E m \in DOMAIN matches : SetPlacements(m)
  BY <1>1, <1>3, SetPlacementsChampion DEF ChampionInv
<1>4. CASE ResultConfirmed
  BY <1>1, <1>4, ConfirmMatchChampion DEF ChampionInv, ResultConfirmed
<1>5. CASE \E m \in DOMAIN matches : UnconfirmMatch(m)
  BY <1>1, <1>5, UnconfirmMatchChampion DEF ChampionInv
<1>8. CASE \E m \in DOMAIN matches : EnterScores(m)
  BY <1>1, <1>8, EnterScoresChampion DEF ChampionInv
<1>6. CASE \E new \in Statuses : ChangeStatus(new)
  BY <1>1, <1>6, ChangeStatusChampion DEF ChampionInv
<1>7. CASE \E c \in Contestants : RemoveParticipant(c) \/ RemoveUnplaced(c)
  BY <1>1, <1>7, RemoveParticipantChampion, RemoveUnplacedChampion DEF ChampionInv
<1> QED
  BY <1>2, <1>3, <1>4, <1>5, <1>6, <1>7, <1>8 DEF Next

(* Whoever is named as winner has come first in a confirmed deciding match,
   by scores if it was given any and else by places, or was left alone in
   it, and the tournament is completed; and whoever comes first in the last
   of them is named (confirm_ffa_match, _confirm_match_impl,
   _process_defwin_entries, retraction_reverts_completion). *)
THEOREM ChampionHolds == HistorySpec => []ChampionStands
<1>1. HistoryInit => ChampionInv
  <2> SUFFICES ASSUME HistoryInit PROVE ChampionInv
    OBVIOUS
  <2>1. RecordInv /\ DOMAIN matches = {}
    BY RecordInit, BaseInit DEF HistoryInit
  <2>2. tournament.winner = None
    BY DEF HistoryInit, Init
  <2> QED
    BY <2>1, <2>2 DEF ChampionInv, ScoresOfResults, WinnerHasFinal, FirstIsWinner, Finals,
       HistoryInit, Init
<1>2. ChampionInv /\ [HistoryNext]_historyVars => ChampionInv'
  <2>1. ASSUME ChampionInv, UNCHANGED historyVars PROVE ChampionInv'
    <3>1. RecordInv'
      BY <2>1, RecordStutter DEF ChampionInv
    <3>2. UNCHANGED <<format, tournament, matches, scores, generation>>
      BY <2>1 DEF historyVars, vars
    <3>3. Finals' = Finals /\ \A m \in Finals : SameResult(m)
      BY <3>2, SameFinals DEF Finals, SameResult
    <3>5. ScoresOfResults'
      BY <2>1, <3>2 DEF ChampionInv, ScoresOfResults, Who
    <3>4. WinnerHasFinal' /\ FirstIsWinner'
      BY <2>1, <3>2, <3>3, SameChampion
    <3> QED
      BY <3>1, <3>4, <3>5 DEF ChampionInv
  <2> QED
    BY <2>1, ChampionNext DEF HistoryNext
<1>3. ChampionInv => ChampionStands
  BY ChampionIs DEF ChampionInv
<1> QED
  BY <1>1, <1>2, <1>3, PTL DEF HistorySpec

-----------------------------------------------------------------------------
(* Who has earned a place *)

WinnersEarned ==
  \A m \in DOMAIN matches :
    m[1] \in {"MAIN", "WB"} /\ m[2] > 0 => Who(m) \subseteq Up(RoundOf(m[1], m[2] - 1))

LosersEarned == \A m \in DOMAIN matches : m[1] = "LB" => Who(m) \subseteq Fallen

FinalEarned ==
  \A m \in DOMAIN matches : m[1] = "GF" => Who(m) \cap Active \subseteq StillInAfter(basis)

LEMMA EarnedIs ==
  ASSUME FfaShape
  PROVE  PlacesEarned <=> (generation <= 1 => WinnersEarned /\ LosersEarned /\ FinalEarned)
<1>1. \A m \in DOMAIN matches : m[1] \in {"MAIN", "WB"} \/ m[1] = "LB" \/ m[1] = "GF"
  BY MatchShape DEF Pools
<1> QED
  BY <1>1 DEF PlacesEarned, WinnersEarned, LosersEarned, FinalEarned

LEMMA EarnedThen ==
  ASSUME FfaShape', generation' <= 1 => WinnersEarned' /\ LosersEarned' /\ FinalEarned'
  PROVE  PlacesEarned'
<1>1. \A m \in DOMAIN matches' : m[1] \in Pools
  BY DEF FfaShape, Keys
<1> QED
  BY <1>1 DEF PlacesEarned, WinnersEarned, LosersEarned, FinalEarned, Pools

(* The same match has the same best. *)
LEMMA SameTop ==
  ASSUME NEW m, matches'[m] = matches[m], format' = format
  PROVE  Top(m)' = Top(m) /\ Who(m)' = Who(m)
<1>1. Who(m)' = Who(m)
  BY DEF Who
<1>2. \A c : Points(m, c)' = Points(m, c)
  BY DEF Points
<1>3. \A c, d : Above(m, c, d)' = Above(m, c, d)
  BY <1>2 DEF Above
<1> QED
  BY <1>1, <1>3 DEF Top

(* A result that something was built on. *)
LEMMA ResultStays ==
  ASSUME BaseInv, BaseInv', Touched, NEW m \in DOMAIN matches,
         matches[m].confirmed, AlreadyAdvanced(m)
  PROVE  matches'[m] = matches[m]
<1>1. m \in DOMAIN matches'
  BY DEF Touched
<1>2. matches[m] \in Entries /\ matches'[m] \in Entries
  BY <1>1 DEF BaseInv, FfaShape
<1>3. matches'[m].placement = matches[m].placement /\ matches'[m].confirmed /\ matches[m].confirmed
  BY DEF Touched
<1>4. matches[m].confirmed = TRUE /\ matches'[m].confirmed = TRUE
  BY <1>2, <1>3, EntryShape
<1> QED
  BY <1>2, <1>3, <1>4, EntryShape

(* What the rounds before the latest are. *)
LEMMA TouchedRounds ==
  ASSUME RecordInv, RecordInv', Touched, generation <= 1,
         NEW p, NEW r \in Nat, r + 1 < NextRound(p), p # "GF"
  PROVE  /\ RoundOf(p, r)' = RoundOf(p, r)
         /\ \A m \in RoundOf(p, r) : m \notin overtaken \/ p # "LB" => matches'[m] = matches[m]
<1>1. RoundOf(p, r)' = RoundOf(p, r)
  BY SameRounds DEF Touched
<1>2. \A m \in RoundOf(p, r) : m \in DOMAIN matches /\ m[1] = p /\ m[2] = r
  BY DEF RoundOf, Pool
<1>3. ASSUME NEW m \in RoundOf(p, r), m \notin overtaken \/ p # "LB"
      PROVE  matches'[m] = matches[m]
  <2>1. matches[m].confirmed
    BY <1>2, <1>3 DEF RecordInv, Built
  <2>2. NextRound(p) \in Nat
    BY <1>2, RoundBehind DEF RecordInv, BaseInv
  <2>3. AlreadyAdvanced(m)
    BY <1>2, <2>2 DEF AlreadyAdvanced
  <2> QED
    BY <1>2, <2>1, <2>3, ResultStays DEF RecordInv
<1> QED
  BY <1>1, <1>3

LEMMA TouchedUp ==
  ASSUME RecordInv, RecordInv', Touched, generation <= 1,
         NEW p \in {"MAIN", "WB"}, NEW r \in Nat, r + 1 < NextRound(p)
  PROVE  Up(RoundOf(p, r))' = Up(RoundOf(p, r)) /\ Down(RoundOf(p, r))' = Down(RoundOf(p, r))
<1>1. /\ RoundOf(p, r)' = RoundOf(p, r)
      /\ \A m \in RoundOf(p, r) : matches'[m] = matches[m]
  BY TouchedRounds
<1>2. \A m \in RoundOf(p, r) : Top(m)' = Top(m) /\ Who(m)' = Who(m)
  BY <1>1, SameTop DEF Touched
<1>3. Up(RoundOf(p, r))' = Up(RoundOf(p, r)) /\ In(RoundOf(p, r))' = In(RoundOf(p, r))
  BY <1>1, <1>2 DEF Up, In
<1> QED
  BY <1>3 DEF Down

LEMMA TouchedFallen ==
  ASSUME RecordInv, RecordInv', Touched, generation <= 1
  PROVE  Fallen' = Fallen
<1>1. NextRound("WB")' = NextRound("WB") /\ NextRound("WB") \in Nat
  BY SameRounds DEF Touched, RecordInv, BaseInv, RoundsInOrder, Pools
<1>2. \A r \in 0..(NextRound("WB") - 2) : Down(RoundOf("WB", r))' = Down(RoundOf("WB", r))
  BY <1>1, TouchedUp
<1> QED
  BY <1>1, <1>2 DEF Fallen

LEMMA TouchedEarned ==
  ASSUME RecordInv, RecordInv', PlacesEarned, Touched, Observe
  PROVE  PlacesEarned'
<1>0. BaseInv /\ FfaShape /\ FfaShape' /\ Built /\ Based /\ Recorded
  BY DEF RecordInv, BaseInv
<1> SUFFICES ASSUME generation' <= 1 PROVE WinnersEarned' /\ LosersEarned' /\ FinalEarned'
  BY <1>0, EarnedThen
<1>1. /\ UNCHANGED <<overtaken, basis, generation, format>> /\ DOMAIN matches' = DOMAIN matches
      /\ \A m \in DOMAIN matches : /\ Who(m)' \subseteq Who(m)
                                   /\ Who(m) \cap Active' \subseteq Who(m)'
      /\ Active' \subseteq Active
  BY TouchedObserves DEF Touched
<1>2. generation <= 1 /\ WinnersEarned /\ LosersEarned /\ FinalEarned
  BY <1>0, <1>1, EarnedIs
<1>3. ASSUME NEW m \in DOMAIN matches, m[1] \in {"MAIN", "WB"}, m[2] > 0
      PROVE  Who(m)' \subseteq Up(RoundOf(m[1], m[2] - 1))'
  <2>1. m[2] - 1 \in Nat /\ (m[2] - 1) + 1 < NextRound(m[1])
    BY <1>0, <1>3, RoundBehind DEF RecordInv, BaseInv
  <2>2. Up(RoundOf(m[1], m[2] - 1))' = Up(RoundOf(m[1], m[2] - 1))
    BY <1>2, <1>3, <2>1, TouchedUp
  <2> QED
    BY <1>1, <1>2, <1>3, <2>2 DEF WinnersEarned
<1>4. WinnersEarned'
  BY <1>1, <1>3 DEF WinnersEarned
<1>5. LosersEarned'
  BY <1>1, <1>2, TouchedFallen DEF LosersEarned
<1>6. ASSUME NEW m \in DOMAIN matches, m[1] = "GF", NEW c \in Who(m)' \cap Active'
      PROVE  c \in StillInAfter(basis)'
  <2>1. c \in StillInAfter(basis)
    BY <1>1, <1>2, <1>6 DEF FinalEarned
  <2>2. Pool("GF") # {}
    BY <1>6 DEF Pool
  <2>3. CASE c \in Up(basis \ overtaken)
    <3>1. PICK b \in basis \ overtaken : c \in Top(b)
      BY <2>3 DEF Up
    <3>2. b \in DOMAIN matches /\ b[1] # "GF" /\ matches[b].confirmed
      BY <1>0, <2>2, <3>1 DEF Based, Recorded
    <3>3. AlreadyAdvanced(b)
      BY <2>2, <3>2 DEF AlreadyAdvanced
    <3>4. Top(b)' = Top(b)
      BY <1>0, <1>1, <3>2, <3>3, ResultStays, SameTop DEF RecordInv
    <3> QED
      BY <1>1, <3>1, <3>4 DEF StillInAfter, Up
  <2>4. CASE c \in In(basis \cap overtaken)
    <3>1. PICK b \in basis \cap overtaken : c \in Who(b)
      BY <2>4 DEF In
    <3>2. c \in Who(b)'
      BY <1>0, <1>1, <1>6, <3>1 DEF Recorded
    <3> QED
      BY <1>1, <3>1, <3>2 DEF StillInAfter, In
  <2> QED
    BY <2>1, <2>3, <2>4 DEF StillInAfter
<1>7. FinalEarned'
  BY <1>1, <1>6 DEF FinalEarned
<1> QED
  BY <1>4, <1>5, <1>7

\* Whoever is in new matches has earned it.
NewEarned(new) ==
  \A m \in DOMAIN new :
    /\ m[1] \in {"MAIN", "WB"} /\ NextRound(m[1]) > 0 =>
         DOMAIN new[m].placement \subseteq Up(Latest(m[1]))
    /\ m[1] = "LB" =>
         DOMAIN new[m].placement \subseteq
           Fallen \cup (IF NewOf(new, "WB") = {} THEN {} ELSE Down(Latest("WB")))
    /\ m[1] = "GF" =>
         DOMAIN new[m].placement \subseteq Survivors("WB") \cup Survivors("LB")

(* Rounds before the new ones are as they were. *)
LEMMA ExtendedUp ==
  ASSUME RecordInv, NEW new, Extended(new), NEW p \in Pools, NEW r \in 0..(NextRound(p) - 1)
  PROVE  /\ RoundOf(p, r)' = RoundOf(p, r)
         /\ Up(RoundOf(p, r))' = Up(RoundOf(p, r)) /\ Down(RoundOf(p, r))' = Down(RoundOf(p, r))
<1>0. FfaShape /\ RoundsInOrder /\ Growth(new) /\ matches' = Added(matches, new)
      /\ format' = format
  BY DEF RecordInv, BaseInv, Extended
<1>1. \A m \in DOMAIN matches : matches'[m] = matches[m]
  BY <1>0, Grown
<1>2. RoundOf(p, r)' = RoundOf(p, r) /\ RoundOf(p, r) \subseteq DOMAIN matches
  BY <1>0, GrownRounds DEF RoundOf, Pool
<1>3. \A m \in RoundOf(p, r) : Top(m)' = Top(m) /\ Who(m)' = Who(m)
  BY <1>0, <1>1, <1>2, SameTop
<1>4. Up(RoundOf(p, r))' = Up(RoundOf(p, r)) /\ In(RoundOf(p, r))' = In(RoundOf(p, r))
  BY <1>2, <1>3 DEF Up, In
<1> QED
  BY <1>2, <1>4 DEF Down

LEMMA ExtendedFallen ==
  ASSUME RecordInv, NEW new, Extended(new), BaseInv'
  PROVE  /\ Fallen \subseteq Fallen'
         /\ NewOf(new, "WB") # {} /\ NextRound("WB") > 0 => Down(Latest("WB")) \subseteq Fallen'
<1>0. FfaShape /\ RoundsInOrder /\ Growth(new) /\ matches' = Added(matches, new)
  BY DEF RecordInv, BaseInv, Extended
<1>1. /\ NextRound("WB") \in Nat
      /\ NewOf(new, "WB") = {} => NextRound("WB")' = NextRound("WB")
      /\ NewOf(new, "WB") # {} => NextRound("WB")' = NextRound("WB") + 1
  BY <1>0, GrownRounds DEF RoundsInOrder, Pools
<1>2. \A r \in 0..(NextRound("WB") - 1) : Down(RoundOf("WB", r))' = Down(RoundOf("WB", r))
  BY ExtendedUp DEF Pools
<1>3. \A r \in 0..(NextRound("WB") - 2) :
        r \in 0..(NextRound("WB") - 1) /\ r \in 0..(NextRound("WB")' - 2)
  BY <1>1
<1>4. Fallen \subseteq Fallen'
  BY <1>2, <1>3 DEF Fallen
<1>5. ASSUME NewOf(new, "WB") # {}, NextRound("WB") > 0 PROVE Down(Latest("WB")) \subseteq Fallen'
  <2>1. PICK r \in 0..(NextRound("WB") - 1) :
          r = NextRound("WB") - 1 /\ r \in 0..(NextRound("WB")' - 2)
    BY <1>1, <1>5
  <2>2. Latest("WB") = RoundOf("WB", r)
    BY <2>1 DEF Latest
  <2>3. Down(RoundOf("WB", r))' = Down(RoundOf("WB", r))
    BY <1>2, <2>1
  <2> QED
    BY <2>1, <2>2, <2>3 DEF Fallen
<1> QED
  BY <1>4, <1>5

(* Who survives in the pools stays in after what the grand final is made of. *)
LEMMA SurvivorsStay ==
  ASSUME RecordInv, NEW new, Extended(new), Observe, Pool("GF") = {}, Pool("GF")' # {}
  PROVE  Survivors("WB") \cup Survivors("LB") \subseteq StillInAfter(basis)'
<1>0. FfaShape /\ RoundsInOrder /\ Growth(new) /\ matches' = Added(matches, new)
      /\ format' = format
  BY DEF RecordInv, BaseInv, Extended
<1>1. \A m \in DOMAIN matches : matches'[m] = matches[m]
  BY <1>0, Grown
<1>2. basis' = Latest("WB") \cup Latest("LB")
  BY DEF Observe
<1>3. Continued("WB") /\ Continued("LB")
  BY DEF Continued
<1>4. \A m \in Latest("WB") \cup Latest("LB") :
        m \in DOMAIN matches /\ (matches[m].confirmed \/ m \in overtaken')
  BY <1>3 DEF Observe, Latest, RoundOf, Pool
<1>5. ASSUME NEW m \in basis', NEW c,
             c \in IF matches[m].confirmed THEN Top(m) ELSE Who(m)
      PROVE  c \in StillInAfter(basis)'
  <2>1. m \in DOMAIN matches /\ (matches[m].confirmed \/ m \in overtaken')
    BY <1>2, <1>4
  <2>2. Top(m)' = Top(m) /\ Who(m)' = Who(m) /\ Top(m) \subseteq Who(m)
    BY <1>0, <1>1, <2>1, SameTop DEF Top
  <2>3. CASE m \in overtaken'
    <3>1. c \in Who(m)'
      BY <1>5, <2>2
    <3> QED
      BY <2>3, <3>1 DEF StillInAfter, In
  <2>4. CASE m \notin overtaken'
    <3>1. c \in Top(m)'
      BY <1>5, <2>1, <2>2, <2>4
    <3> QED
      BY <2>4, <3>1 DEF StillInAfter, Up
  <2> QED
    BY <2>3, <2>4
<1> QED
  BY <1>2, <1>5 DEF Survivors

LEMMA ExtendedEarned ==
  ASSUME RecordInv, RecordInv', PlacesEarned, NEW new, Extended(new), Observe,
         generation' <= 1 => NewEarned(new)
  PROVE  PlacesEarned'
<1>0. /\ BaseInv /\ FfaShape /\ FfaShape' /\ RoundsInOrder /\ Built /\ Based /\ Recorded
      /\ Growth(new) /\ matches' = Added(matches, new) /\ UNCHANGED <<format, roster>>
  BY DEF RecordInv, BaseInv, Extended
<1> SUFFICES ASSUME generation' <= 1 PROVE WinnersEarned' /\ LosersEarned' /\ FinalEarned'
  BY <1>0, EarnedThen
<1>1. generation <= 1
  <2>1. generation \in Nat /\ generation' \in Nat /\ generation <= generation'
    BY <1>0, FormatsChecked DEF FfaShape, Extended
  <2> QED
    BY <2>1
<1>2. WinnersEarned /\ LosersEarned /\ FinalEarned
  BY <1>0, <1>1, EarnedIs
<1>3. /\ DOMAIN matches' = DOMAIN matches \cup DOMAIN new
      /\ \A m \in DOMAIN matches : matches'[m] = matches[m] /\ Who(m)' = Who(m)
      /\ \A m \in DOMAIN new : Who(m)' = DOMAIN new[m].placement
  BY <1>0, Grown
<1>4. \A m \in DOMAIN new : m[1] \in Pools /\ m[2] = NextRound(m[1]) /\ m[2] \in Nat
  BY <1>0 DEF Growth, RoundsInOrder, Keys
<1>5. ASSUME NEW m \in DOMAIN matches', m[1] \in {"MAIN", "WB"}, m[2] > 0
      PROVE  Who(m)' \subseteq Up(RoundOf(m[1], m[2] - 1))'
  <2> DEFINE r == m[2] - 1
  <2>1. m[1] \in Pools
    BY <1>5 DEF Pools
  <2>2. CASE m \in DOMAIN matches
    <3>1. r \in 0..(NextRound(m[1]) - 1)
      BY <1>0, <1>5, <2>2, RoundBehind
    <3> HIDE DEF r
    <3>2. Up(RoundOf(m[1], r))' = Up(RoundOf(m[1], r))
      BY <2>1, <3>1, ExtendedUp
    <3>3. Who(m) \subseteq Up(RoundOf(m[1], r))
      BY <1>2, <1>5, <2>2 DEF WinnersEarned, r
    <3>4. Who(m)' \subseteq Up(RoundOf(m[1], r))'
      BY <1>3, <2>2, <3>2, <3>3
    <3> QED
      BY <3>4 DEF r
  <2>3. CASE m \in DOMAIN new
    <3>1. r \in 0..(NextRound(m[1]) - 1) /\ r = NextRound(m[1]) - 1 /\ NextRound(m[1]) > 0
      BY <1>4, <1>5, <2>3
    <3> HIDE DEF r
    <3>2. Up(RoundOf(m[1], r))' = Up(RoundOf(m[1], r)) /\ Latest(m[1]) = RoundOf(m[1], r)
      BY <2>1, <3>1, ExtendedUp DEF Latest
    <3>3. DOMAIN new[m].placement \subseteq Up(RoundOf(m[1], r))
      BY <1>5, <2>3, <3>1, <3>2 DEF NewEarned
    <3>4. Who(m)' \subseteq Up(RoundOf(m[1], r))'
      BY <1>3, <2>3, <3>2, <3>3
    <3> QED
      BY <3>4 DEF r
  <2> QED
    BY <1>3, <2>2, <2>3
<1>6. WinnersEarned'
  BY <1>5 DEF WinnersEarned
<1>7. /\ Fallen \subseteq Fallen'
      /\ NewOf(new, "WB") # {} /\ NextRound("WB") > 0 => Down(Latest("WB")) \subseteq Fallen'
  BY <1>0, ExtendedFallen DEF RecordInv
<1>8. NextRound("WB") = 0 => Down(Latest("WB")) = {}
  BY <1>0 DEF RoundsInOrder, Rounds, Latest, RoundOf, Pools, Down, In
<1>9. LosersEarned'
  <2> SUFFICES ASSUME NEW m \in DOMAIN matches', m[1] = "LB" PROVE Who(m)' \subseteq Fallen'
    BY DEF LosersEarned
  <2>1. CASE m \in DOMAIN matches
    BY <1>2, <1>3, <1>7, <2>1 DEF LosersEarned
  <2>2. CASE m \in DOMAIN new
    <3>1. Who(m)' \subseteq Fallen \cup (IF NewOf(new, "WB") = {} THEN {} ELSE Down(Latest("WB")))
      BY <1>3, <2>2 DEF NewEarned
    <3>2. NextRound("WB") \in Nat
      BY <1>0 DEF RoundsInOrder, Pools
    <3> QED
      BY <1>7, <1>8, <3>1, <3>2
  <2> QED
    BY <1>3, <2>1, <2>2
<1>10. FinalEarned'
  <2> SUFFICES ASSUME NEW m \in DOMAIN matches', m[1] = "GF"
               PROVE  Who(m)' \cap Active' \subseteq StillInAfter(basis)'
    BY DEF FinalEarned
  <2>1. Active' = Active
    BY <1>0 DEF Active
  <2>2. CASE m \in DOMAIN matches
    <3>1. Pool("GF") # {}
      BY <2>2 DEF Pool
    <3>2. basis' = basis /\ overtaken \subseteq overtaken'
      BY <3>1 DEF Observe
    <3>3. \A b \in basis : b \in DOMAIN matches /\ (b \in overtaken <=> b \in overtaken')
      BY <1>0, <3>1, <3>2 DEF Based, Recorded, Observe
    <3>4. \A b \in basis : Top(b)' = Top(b) /\ Who(b)' = Who(b)
      BY <1>0, <1>3, <3>3, SameTop
    <3>5. basis' \ overtaken' = basis \ overtaken /\ basis' \cap overtaken' = basis \cap overtaken
      BY <3>2, <3>3
    <3>6. StillInAfter(basis)' = StillInAfter(basis)
      BY <3>4, <3>5 DEF StillInAfter, Up, In
    <3> QED
      BY <1>2, <1>3, <2>1, <2>2, <3>6 DEF FinalEarned
  <2>3. CASE m \in DOMAIN new
    <3>1. m = <<"GF", 0, 1>> /\ NextRound("GF") = 0
      BY <1>0, <2>3 DEF Growth
    <3>2. Pool("GF") = {}
      BY <1>0, <3>1 DEF RoundsInOrder, Rounds, Pools
    <3>3. Pool("GF")' # {}
      BY <2>3, <1>3 DEF Pool
    <3>4. Who(m)' \subseteq Survivors("WB") \cup Survivors("LB")
      BY <1>3, <2>3 DEF NewEarned
    <3> QED
      BY <3>2, <3>3, <3>4, SurvivorsStay
  <2> QED
    BY <1>3, <2>2, <2>3
<1> QED
  BY <1>6, <1>9, <1>10

(* Nobody drops from one match and goes on from another. *)
LEMMA DroppedDown ==
  ASSUME BaseInv, NEW p
  PROVE  Dropped(Latest(p)) = Down(Latest(p))
<1>1. \A m, n \in Latest(p) : m # n => Who(m) \cap Who(n) = {}
  BY DEF BaseInv, Apart, Latest, RoundOf, Pool
<1>2. \A m : Top(m) \subseteq Who(m)
  BY DEF Top
<1> QED
  BY <1>1, <1>2 DEF Dropped, Down, In, Up

LEMMA SurvivorsHaveFallen ==
  ASSUME RecordInv, PlacesEarned, generation <= 1
  PROVE  In(Latest("LB")) \subseteq Fallen /\ Survivors("LB") \subseteq Fallen
<1>1. BaseInv /\ FfaShape
  BY DEF RecordInv, BaseInv
<1>2. LosersEarned
  BY <1>1, EarnedIs
<1>3. In(Latest("LB")) \subseteq Fallen
  BY <1>2 DEF LosersEarned, In, Latest, RoundOf, Pool
<1> QED
  BY <1>1, <1>3, InMatches

LEMMA NewAreEarned ==
  ASSUME RecordInv, PlacesEarned, generation' <= 1,
         GenerateRound \/ AdvanceSingle \/ AdvanceWinners \/ AdvanceLosers \/ GenerateGrandFinal
  PROVE  \E new : Extended(new) /\ NewEarned(new)
<1>0. BaseInv /\ FfaShape /\ RoundsInOrder
  BY DEF RecordInv, BaseInv
<1>1. CASE GenerateRound
  <2>1. PICK p, new : p \in {"MAIN", "WB"} /\ Extended(new) /\ NewOf(new, p) = DOMAIN new
    BY <1>0, <1>1, GenerateExtends
  <2>2. generation = 0
    BY <1>0, <1>1, FormatsChecked DEF FfaShape, GenerateRound
  <2>3. DOMAIN matches = {}
    BY <1>0, <2>2 DEF BaseInv, Entrants
  <2>4. \A q : NextRound(q) = 0
    <3>1. \A q : Rounds(q) = {}
      BY <2>3 DEF Rounds, Pool
    <3> QED
      BY <3>1 DEF NextRound
  <2>5. \A m \in DOMAIN new : m[1] \in {"MAIN", "WB"}
    BY <2>1 DEF NewOf
  <2>6. NewEarned(new)
    BY <2>4, <2>5 DEF NewEarned
  <2> QED
    BY <2>1, <2>6
<1>2. CASE AdvanceSingle
  <2>1. PICK new : /\ Extended(new) /\ NewOf(new, "MAIN") = DOMAIN new
                   /\ Seated(new) = Up(Latest("MAIN"))
    BY <1>0, <1>2, AdvanceSingleExtends
  <2>2. \A m \in DOMAIN new : m[1] = "MAIN" /\ DOMAIN new[m].placement \subseteq Up(Latest("MAIN"))
    BY <2>1 DEF NewOf, Seated
  <2>3. NewEarned(new)
    BY <2>2 DEF NewEarned
  <2> QED
    BY <2>1, <2>3
<1>3. CASE AdvanceLosers
  <2>1. PICK new : /\ Extended(new) /\ NewOf(new, "LB") = DOMAIN new
                   /\ Seated(new) = Up(Latest("LB"))
    BY <1>0, <1>3, AdvanceLosersExtends
  <2>2. Up(Latest("LB")) \subseteq In(Latest("LB"))
    BY DEF Up, In, Top
  <2>3. generation <= 1
    BY <1>3 DEF AdvanceLosers
  <2>4. In(Latest("LB")) \subseteq Fallen
    BY <2>3, SurvivorsHaveFallen
  <2>5. \A m \in DOMAIN new : m[1] = "LB" /\ DOMAIN new[m].placement \subseteq Fallen
    BY <2>1, <2>2, <2>4 DEF NewOf, Seated
  <2>6. NewEarned(new)
    BY <2>5 DEF NewEarned
  <2> QED
    BY <2>1, <2>6
<1>4. CASE AdvanceWinners
  <2> DEFINE down == Dropped(Latest("WB"))
             still == Survivors("LB")
             best == Up(Latest("WB"))
  <2>1. PICK upper, lower :
           /\ Extended(Added(upper, lower))
           /\ NewOf(Added(upper, lower), "WB") = DOMAIN upper /\ DOMAIN upper # {}
           /\ NewOf(Added(upper, lower), "LB") = DOMAIN lower
           /\ \A m \in DOMAIN upper : Added(upper, lower)[m] = upper[m]
           /\ \A m \in DOMAIN lower : Added(upper, lower)[m] = lower[m]
           /\ Seated(upper) = best
           /\ Seated(lower) \subseteq down \cup still
    BY <1>0, <1>4, AdvanceWinnersExtends
  <2>2. generation <= 1
    BY <1>4 DEF AdvanceWinners
  <2>3. still \subseteq Fallen /\ down = Down(Latest("WB"))
    BY <1>0, <2>2, SurvivorsHaveFallen, DroppedDown
  <2> HIDE DEF down, still, best
  <2>4. DOMAIN Added(upper, lower) = DOMAIN upper \cup DOMAIN lower
    BY DEF Added
  <2>5. ASSUME NEW m \in DOMAIN upper
        PROVE  m[1] = "WB" /\ DOMAIN Added(upper, lower)[m].placement \subseteq best
    BY <2>1 DEF NewOf, Seated
  <2>6. ASSUME NEW m \in DOMAIN lower
        PROVE  m[1] = "LB" /\ DOMAIN Added(upper, lower)[m].placement \subseteq down \cup still
    BY <2>1 DEF NewOf, Seated
  <2>7. NewEarned(Added(upper, lower))
    <3> DEFINE new == Added(upper, lower)
    <3>1. NewOf(new, "WB") # {}
      BY <2>1
    <3>2. \A m \in DOMAIN new :
            \/ m[1] = "WB" /\ DOMAIN new[m].placement \subseteq Up(Latest("WB"))
            \/ m[1] = "LB" /\ DOMAIN new[m].placement \subseteq Fallen \cup Down(Latest("WB"))
      BY <2>3, <2>4, <2>5, <2>6 DEF best
    <3> HIDE DEF new
    <3>3. NewEarned(new)
      BY <3>1, <3>2 DEF NewEarned
    <3> QED
      BY <3>3 DEF new
  <2> QED
    BY <2>1, <2>7
<1>5. CASE GenerateGrandFinal
  <2>1. PICK new : /\ Extended(new) /\ NewOf(new, "GF") = DOMAIN new
                   /\ Seated(new) = Survivors("WB") \cup Survivors("LB")
    BY <1>0, <1>5, GrandFinalExtends
  <2>2. \A m \in DOMAIN new :
          m[1] = "GF" /\ DOMAIN new[m].placement \subseteq Survivors("WB") \cup Survivors("LB")
    BY <2>1 DEF NewOf, Seated
  <2>3. NewEarned(new)
    BY <2>2 DEF NewEarned
  <2> QED
    BY <2>1, <2>3
<1> QED
  BY <1>1, <1>2, <1>3, <1>4, <1>5

LEMMA EarnedNext ==
  ASSUME RecordInv, PlacesEarned, Next, Observe
  PROVE  PlacesEarned'
<1>1. RecordInv' /\ BaseInv
  BY RecordNext DEF RecordInv
<1>2. CASE Touched
  BY <1>1, <1>2, TouchedEarned
<1>3. CASE GenerateRound \/ AdvanceSingle \/ AdvanceWinners \/ AdvanceLosers \/ GenerateGrandFinal
  <2>1. CASE generation' <= 1
    <3>1. PICK new : Extended(new) /\ NewEarned(new)
      BY <1>3, <2>1, NewAreEarned
    <3> QED
      BY <1>1, <3>1, ExtendedEarned
  <2>2. CASE ~(generation' <= 1)
    BY <2>2 DEF PlacesEarned
  <2> QED
    BY <2>1, <2>2
<1> QED
  BY <1>2, <1>3, RecordNext

(* Nobody plays in a later round without a result that still puts them
   there: what a round was built from can be neither retracted nor entered
   anew (ffa_round_already_advanced), however the pools overtake each
   other. *)
THEOREM PlacesHold == HistorySpec => []PlacesEarned
<1>1. HistoryInit => PlacesEarned
  BY BaseInit DEF HistoryInit, PlacesEarned
<1>2. RecordInv /\ PlacesEarned /\ [HistoryNext]_historyVars => PlacesEarned'
  <2>1. ASSUME RecordInv, PlacesEarned, UNCHANGED historyVars PROVE PlacesEarned'
    BY <2>1, StutterTouches, RecordStutter, TouchedEarned
  <2> QED
    BY <2>1, EarnedNext DEF HistoryNext
<1> QED
  BY <1>1, <1>2, RecordHolds, PTL DEF HistorySpec

-----------------------------------------------------------------------------
(* Where everybody stands *)

MainOut == UNION {Down(RoundOf("MAIN", r)) : r \in 0..(NextRound("MAIN") - 2)}
LosersOut == UNION {In(RoundOf("LB", r)) \ StillIn(r) : r \in 0..(NextRound("LB") - 2)}

MainStand ==
  generation = 1 /\ format.mode = "SE" =>
    \A c \in Active : c \in In(Latest("MAIN")) <=> c \notin MainOut

\* Nobody is in both pools, or out and still in one.
PoolsStand ==
  generation = 1 /\ format.mode = "DE" /\ Pool("GF") = {} =>
    /\ In(Latest("WB")) \cap In(Latest("LB")) = {}
    /\ (In(Latest("WB")) \cup In(Latest("LB"))) \cap LosersOut = {}
    /\ Active \subseteq In(Latest("WB")) \cup In(Latest("LB")) \cup LosersOut

LEMMA OnePlaceIs ==
  ASSUME FfaShape, MainStand, PoolsStand
  PROVE  OnePlaceEach
<1> SUFFICES ASSUME generation = 1, Pool("GF") = {}, NEW c \in Active
             PROVE  Cardinality({ms \in Current : c \in In(ms)}) = IF c \in Out THEN 0 ELSE 1
  BY DEF OnePlaceEach
<1> DEFINE at == {ms \in Current : c \in In(ms)}
<1>1. format.mode \in {"SE", "DE"}
  BY FormatsChecked DEF FfaShape
<1>2. Cardinality({}) = 0 /\ \A x : Cardinality({x}) = 1
  BY FS_EmptySet, FS_Singleton
<1>3. CASE format.mode = "SE"
  <2>1. Current = {Latest("MAIN")} /\ Out = MainOut
    BY <1>3 DEF Current, Out, MainOut
  <2>2. c \in In(Latest("MAIN")) <=> c \notin MainOut
    BY <1>3 DEF MainStand
  <2>3. CASE c \in In(Latest("MAIN"))
    <3>1. at = {Latest("MAIN")}
      BY <2>1, <2>3
    <3> HIDE DEF at
    <3>2. Cardinality(at) = 1
      BY <1>2, <3>1
    <3> QED
      BY <2>1, <2>2, <2>3, <3>2 DEF at
  <2>4. CASE c \notin In(Latest("MAIN"))
    <3>1. at = {}
      BY <2>1, <2>4
    <3> HIDE DEF at
    <3>2. Cardinality(at) = 0
      BY <1>2, <3>1
    <3> QED
      BY <2>1, <2>2, <2>4, <3>2 DEF at
  <2> QED
    BY <2>3, <2>4
<1>4. CASE format.mode = "DE"
  <2>1. Current = {Latest("WB"), Latest("LB")} /\ Out = LosersOut
    BY <1>4 DEF Current, Out, LosersOut
  <2>2. /\ ~(c \in In(Latest("WB")) /\ c \in In(Latest("LB")))
        /\ c \in In(Latest("WB")) \/ c \in In(Latest("LB")) <=> c \notin LosersOut
    BY <1>4 DEF PoolsStand
  <2>3. ASSUME NEW ms \in Current, at = {ms}, c \in In(ms) PROVE Cardinality(at) = IF c \in Out THEN 0 ELSE 1
    <3>1. c \notin Out
      BY <2>1, <2>2, <2>3
    <3> HIDE DEF at
    <3>2. Cardinality(at) = 1
      BY <1>2, <2>3
    <3> QED
      BY <3>1, <3>2
  <2>4. CASE c \in In(Latest("WB"))
    <3>1. at = {Latest("WB")}
      BY <2>1, <2>2, <2>4
    <3> QED
      BY <2>1, <2>3, <2>4, <3>1
  <2>5. CASE c \in In(Latest("LB"))
    <3>1. at = {Latest("LB")}
      BY <2>1, <2>2, <2>5
    <3> QED
      BY <2>1, <2>3, <2>5, <3>1
  <2>6. CASE c \notin In(Latest("WB")) /\ c \notin In(Latest("LB"))
    <3>1. at = {}
      BY <2>1, <2>6
    <3> HIDE DEF at
    <3>2. Cardinality(at) = 0
      BY <1>2, <3>1
    <3> QED
      BY <2>1, <2>2, <2>6, <3>2 DEF at
  <2> QED
    BY <2>4, <2>5, <2>6
<1> QED
  BY <1>1, <1>3, <1>4

(* Nobody moves in a step that makes no matches, but those who leave. *)
LEMMA TouchedIn ==
  ASSUME Touched, NEW p
  PROVE  /\ In(Latest(p))' \subseteq In(Latest(p))
         /\ In(Latest(p)) \cap Active' \subseteq In(Latest(p))'
<1>1. Latest(p)' = Latest(p) /\ Latest(p) \subseteq DOMAIN matches
  BY SameRounds DEF Touched, Latest, RoundOf, Pool
<1>2. \A m \in Latest(p) : Who(m)' \subseteq Who(m) /\ Who(m) \cap Active' \subseteq Who(m)'
  BY <1>1 DEF Touched
<1> QED
  BY <1>1, <1>2 DEF In

LEMMA TouchedOut ==
  ASSUME RecordInv, RecordInv', Touched, Observe, generation <= 1
  PROVE  MainOut' = MainOut /\ LosersOut' = LosersOut
<1>1. \A p : NextRound(p)' = NextRound(p)
  BY SameRounds DEF Touched
<1>2. NextRound("MAIN") \in Nat /\ NextRound("LB") \in Nat
  BY DEF RecordInv, BaseInv, RoundsInOrder, Pools
<1>3. \A r \in 0..(NextRound("MAIN") - 2) : Down(RoundOf("MAIN", r))' = Down(RoundOf("MAIN", r))
  BY <1>2, TouchedUp
<1>4. MainOut' = MainOut
  BY <1>1, <1>3 DEF MainOut
<1>5. ASSUME NEW r \in 0..(NextRound("LB") - 2)
      PROVE  (In(RoundOf("LB", r)) \ StillIn(r))' = In(RoundOf("LB", r)) \ StillIn(r)
  <2> DEFINE R == RoundOf("LB", r)
             A == R \ overtaken
             B == R \cap overtaken
  <2>1. /\ RoundOf("LB", r)' = R /\ R \subseteq DOMAIN matches
        /\ \A m \in A : matches'[m] = matches[m]
    BY <1>2, TouchedRounds DEF RoundOf, Pool
  <2>2. overtaken' = overtaken
    BY TouchedObserves
  <2>3. \A m \in A : Top(m)' = Top(m) /\ Who(m)' = Who(m)
    BY <2>1, SameTop DEF Touched
  <2>4. \A m \in B : Who(m)' \subseteq Who(m)
    BY <2>1 DEF Touched
  <2>5. \A m \in A, n \in B : Who(m) \cap Who(n) = {}
    BY DEF RecordInv, BaseInv, Apart, RoundOf, Pool
  <2>6. \A c : c \in In(R) \ StillIn(r) <=>
                 (\E m \in A : c \in Who(m)) /\ ~(\E m \in A : c \in Top(m))
    BY <2>5 DEF StillIn, StillInAfter, In, Up
  <2>7. \A c : c \in (In(RoundOf("LB", r)) \ StillIn(r))' <=>
                 /\ \E m \in R : c \in Who(m)'
                 /\ ~(\E m \in A : c \in Top(m)') /\ ~(\E m \in B : c \in Who(m)')
    BY <2>1, <2>2 DEF StillIn, StillInAfter, In, Up
  <2>8. \A c : c \in (In(RoundOf("LB", r)) \ StillIn(r))' <=> c \in In(R) \ StillIn(r)
    BY <2>3, <2>4, <2>5, <2>6, <2>7
  <2> QED
    BY <2>8
<1>6. LosersOut' = LosersOut
  BY <1>1, <1>5 DEF LosersOut
<1> QED
  BY <1>4, <1>6

LEMMA TouchedStand ==
  ASSUME RecordInv, RecordInv', MainStand, PoolsStand, Touched, Observe
  PROVE  MainStand' /\ PoolsStand'
<1>1. UNCHANGED <<format, generation>> /\ Pool("GF")' = Pool("GF") /\ Active' \subseteq Active
  BY SameRounds DEF Touched
<1>2. \A p : /\ In(Latest(p))' \subseteq In(Latest(p))
             /\ In(Latest(p)) \cap Active' \subseteq In(Latest(p))'
  BY TouchedIn
<1>3. generation <= 1 => MainOut' = MainOut /\ LosersOut' = LosersOut
  BY TouchedOut
<1>4. MainStand'
  BY <1>1, <1>2, <1>3 DEF MainStand
<1>5. PoolsStand'
  <2> SUFFICES ASSUME generation' = 1, format'.mode = "DE", Pool("GF")' = {}
               PROVE  /\ In(Latest("WB"))' \cap In(Latest("LB"))' = {}
                      /\ (In(Latest("WB"))' \cup In(Latest("LB"))') \cap LosersOut' = {}
                      /\ Active' \subseteq In(Latest("WB"))' \cup In(Latest("LB"))' \cup LosersOut'
    BY DEF PoolsStand
  <2>1. /\ In(Latest("WB")) \cap In(Latest("LB")) = {}
        /\ (In(Latest("WB")) \cup In(Latest("LB"))) \cap LosersOut = {}
        /\ Active \subseteq In(Latest("WB")) \cup In(Latest("LB")) \cup LosersOut
    BY <1>1 DEF PoolsStand
  <2>2. LosersOut' = LosersOut
    BY <1>1, <1>3
  <2>3. /\ In(Latest("WB"))' \subseteq In(Latest("WB"))
        /\ In(Latest("LB"))' \subseteq In(Latest("LB"))
        /\ In(Latest("WB")) \cap Active' \subseteq In(Latest("WB"))'
        /\ In(Latest("LB")) \cap Active' \subseteq In(Latest("LB"))'
    BY <1>2
  <2> QED
    BY <1>1, <2>1, <2>2, <2>3
<1> QED
  BY <1>4, <1>5

(* Who stands in the latest round. *)
LEMMA GrownIn ==
  ASSUME FfaShape, RoundsInOrder, NEW new, Growth(new), matches' = Added(matches, new),
         NEW p \in Pools
  PROVE  /\ NewOf(new, p) = {} => In(Latest(p))' = In(Latest(p))
         /\ NewOf(new, p) # {} =>
              In(Latest(p))' = UNION {DOMAIN new[m].placement : m \in NewOf(new, p)}
<1>1. /\ \A m \in DOMAIN matches : Who(m)' = Who(m)
      /\ \A m \in DOMAIN new : Who(m)' = DOMAIN new[m].placement
  BY Grown
<1>2. /\ NewOf(new, p) = {} => Latest(p)' = Latest(p)
      /\ NewOf(new, p) # {} => Latest(p)' = NewOf(new, p)
  BY GrownRounds
<1>3. Latest(p) \subseteq DOMAIN matches /\ NewOf(new, p) \subseteq DOMAIN new
  BY DEF Latest, RoundOf, Pool, NewOf
<1> QED
  BY <1>1, <1>2, <1>3 DEF In

LEMMA ExtendedIn ==
  ASSUME RecordInv, NEW new, Extended(new), NEW p \in Pools
  PROVE  /\ NewOf(new, p) = {} => In(Latest(p))' = In(Latest(p))
         /\ NewOf(new, p) # {} =>
              In(Latest(p))' = UNION {DOMAIN new[m].placement : m \in NewOf(new, p)}
BY GrownIn DEF RecordInv, BaseInv, Extended

LEMMA ExtendedMainOut ==
  ASSUME RecordInv, NEW new, Extended(new)
  PROVE  /\ NewOf(new, "MAIN") = {} => MainOut' = MainOut
         /\ NewOf(new, "MAIN") # {} => MainOut' = MainOut \cup Down(Latest("MAIN"))
<1>0. FfaShape /\ RoundsInOrder /\ Growth(new) /\ matches' = Added(matches, new)
  BY DEF RecordInv, BaseInv, Extended
<1> DEFINE k == NextRound("MAIN")
<1>1. /\ k \in Nat
      /\ NewOf(new, "MAIN") = {} => NextRound("MAIN")' = k
      /\ NewOf(new, "MAIN") # {} => NextRound("MAIN")' = k + 1
  BY <1>0, GrownRounds DEF RoundsInOrder, Pools
<1>2. \A r \in 0..(k - 1) : Down(RoundOf("MAIN", r))' = Down(RoundOf("MAIN", r))
  BY ExtendedUp DEF Pools
<1>3. MainOut' = UNION {Down(RoundOf("MAIN", r))' : r \in 0..(NextRound("MAIN")' - 2)}
  BY DEF MainOut
<1>4. MainOut = UNION {Down(RoundOf("MAIN", r)) : r \in 0..(k - 2)}
  BY DEF MainOut
<1>5. Latest("MAIN") = RoundOf("MAIN", k - 1)
  BY DEF Latest
<1>6. k = 0 => Down(Latest("MAIN")) = {}
  BY <1>0 DEF RoundsInOrder, Rounds, Latest, RoundOf, Pools, Down, In
<1> HIDE DEF k
<1>7. CASE NewOf(new, "MAIN") = {}
  <2>1. \A r \in 0..(k - 2) : r \in 0..(k - 1)
    BY <1>1
  <2> QED
    BY <1>1, <1>2, <1>3, <1>4, <1>7, <2>1
<1>8. CASE NewOf(new, "MAIN") # {}
  <2>1. MainOut' = UNION {Down(RoundOf("MAIN", r)) : r \in 0..(k - 1)}
    <3>1. (k + 1) - 2 = k - 1
      BY <1>1
    <3> QED
      BY <1>1, <1>2, <1>3, <1>8, <3>1
  <2>2. CASE k = 0
    <3>1. 0..(k - 1) = {} /\ 0..(k - 2) = {}
      BY <2>2
    <3> QED
      BY <1>4, <1>6, <1>8, <2>1, <2>2, <3>1
  <2>3. CASE k > 0
    <3>1. 0..(k - 1) = (0..(k - 2)) \cup {k - 1}
      BY <1>1, <2>3
    <3> QED
      BY <1>4, <1>5, <1>8, <2>1, <3>1
  <2> QED
    BY <1>1, <2>2, <2>3
<1> QED
  BY <1>7, <1>8

(* Before there is a grand final, whoever drops out of the losers' latest round
   is out, and nobody else. *)
LEMMA ExtendedLosersOut ==
  ASSUME RecordInv, NEW new, Extended(new), Observe, generation <= 1,
         Pool("GF") = {}, Pool("GF")' = {}
  PROVE  /\ NewOf(new, "LB") = {} => LosersOut' = LosersOut
         /\ NewOf(new, "LB") # {} =>
              LosersOut' = LosersOut \cup (In(Latest("LB")) \ Survivors("LB"))
<1>0. FfaShape /\ RoundsInOrder /\ Growth(new) /\ matches' = Added(matches, new)
      /\ format' = format /\ LosersOvertaken /\ Recorded
  BY DEF RecordInv, BaseInv, Extended
<1> DEFINE k == NextRound("LB")
           out(r) == In(RoundOf("LB", r)) \ StillIn(r)
<1>1. /\ k \in Nat
      /\ NewOf(new, "LB") = {} => NextRound("LB")' = k
      /\ NewOf(new, "LB") # {} => NextRound("LB")' = k + 1
  BY <1>0, GrownRounds DEF RoundsInOrder, Pools
<1>2. \A m \in DOMAIN matches : matches'[m] = matches[m] /\ Top(m)' = Top(m) /\ Who(m)' = Who(m)
  BY <1>0, Grown, SameTop
<1>3. ASSUME NEW r \in 0..(k - 1)
      PROVE  RoundOf("LB", r)' = RoundOf("LB", r) /\ RoundOf("LB", r) \subseteq DOMAIN matches
  BY <1>0, GrownRounds DEF RoundOf, Pool, Pools
<1>4. ASSUME NEW m \in overtaken' \ overtaken
      PROVE  m[1] = "LB" => m \in Latest("LB") /\ ~matches[m].confirmed
  BY DEF Observe, Latest, RoundOf, Pool
<1>5. \A m \in Latest("LB") : m[1] = "LB" /\ m[2] = k - 1 /\ m \in DOMAIN matches
  BY DEF Latest, RoundOf, Pool
<1>6. ASSUME NEW r \in 0..(k - 2)
      PROVE  out(r)' = out(r)
  <2>1. r \in 0..(k - 1) /\ r # k - 1
    BY <1>1
  <2>2. \A m \in RoundOf("LB", r) : m[1] = "LB" /\ m[2] = r
    BY DEF RoundOf, Pool
  <2>3. \A m \in RoundOf("LB", r) : m \in overtaken' <=> m \in overtaken
    BY <1>4, <1>5, <2>1, <2>2 DEF Observe
  <2>4. RoundOf("LB", r)' = RoundOf("LB", r) /\ RoundOf("LB", r) \subseteq DOMAIN matches
    BY <1>3, <2>1
  <2>5. (RoundOf("LB", r) \ overtaken)' = RoundOf("LB", r) \ overtaken
        /\ (RoundOf("LB", r) \cap overtaken)' = RoundOf("LB", r) \cap overtaken
    BY <2>3, <2>4
  <2> QED
    BY <1>2, <2>4, <2>5 DEF StillIn, StillInAfter, In, Up
<1>7. LosersOut = UNION {out(r) : r \in 0..(k - 2)}
      /\ LosersOut' = UNION {out(r)' : r \in 0..(NextRound("LB")' - 2)}
  BY DEF LosersOut
<1>8. CASE NewOf(new, "LB") = {}
  <2> HIDE DEF k, out
  <2> QED
    BY <1>1, <1>6, <1>7, <1>8
<1>9. CASE NewOf(new, "LB") # {} /\ k = 0
  <2>1. Latest("LB") = {}
    BY <1>0, <1>9 DEF RoundsInOrder, Rounds, Latest, RoundOf, Pools
  <2>2. In(Latest("LB")) = {}
    BY <2>1 DEF In
  <2> HIDE DEF k, out
  <2>3. 0..(k - 2) = {} /\ 0..(NextRound("LB")' - 2) = {}
    BY <1>1, <1>9
  <2> QED
    BY <1>7, <1>9, <2>2, <2>3
<1>10. CASE NewOf(new, "LB") # {} /\ k > 0
  <2>1. NextRound("LB")' # NextRound("LB")
    BY <1>1, <1>10
  <2>2. Continued("LB")
    BY <2>1 DEF Continued
  <2>3. ASSUME NEW m \in Latest("LB") PROVE m \in overtaken' <=> ~matches[m].confirmed
    <3>1. m \notin overtaken
      BY <1>0, <1>1, <1>5 DEF LosersOvertaken
    <3>2. ~matches[m].confirmed => m \in overtaken'
      BY <2>2 DEF Observe
    <3> QED
      BY <1>4, <1>5, <3>1, <3>2
  <2>4. PICK r \in 0..(k - 1) : r = k - 1
    BY <1>1, <1>10
  <2>5. Latest("LB") = RoundOf("LB", r)
    BY <2>4 DEF Latest
  <2>6. RoundOf("LB", r)' = RoundOf("LB", r) /\ RoundOf("LB", r) \subseteq DOMAIN matches
    BY <1>3
  <2>7. \A c : c \in Survivors("LB") <=>
                 \/ \E m \in Latest("LB") : matches[m].confirmed /\ c \in Top(m)
                 \/ \E m \in Latest("LB") : ~matches[m].confirmed /\ c \in Who(m)
    BY DEF Survivors
  <2>8. \A c : c \in StillIn(r)' <=>
                 \/ \E m \in RoundOf("LB", r)' : m \notin overtaken' /\ c \in Top(m)'
                 \/ \E m \in RoundOf("LB", r)' : m \in overtaken' /\ c \in Who(m)'
    BY DEF StillIn, StillInAfter, Up, In
  <2>9. \A c : c \in StillIn(r)' <=> c \in Survivors("LB")
    BY <1>2, <2>3, <2>5, <2>6, <2>7, <2>8
  <2>10. In(RoundOf("LB", r))' = In(Latest("LB"))
    BY <1>2, <2>5, <2>6 DEF In
  <2>11. out(r)' = In(Latest("LB")) \ Survivors("LB")
    BY <2>9, <2>10
  <2> HIDE DEF out
  <2>12. 0..(NextRound("LB")' - 2) = (0..(k - 2)) \cup {r}
    BY <1>1, <1>10, <2>4
  <2> HIDE DEF k
  <2>13. \A c : c \in LosersOut' <=> (\E q \in 0..(k - 2) : c \in out(q)') \/ c \in out(r)'
    BY <1>7, <2>12
  <2>14. \A c : c \in LosersOut <=> \E q \in 0..(k - 2) : c \in out(q)'
    BY <1>6, <1>7
  <2> DEFINE gone == In(Latest("LB")) \ Survivors("LB")
  <2>15. out(r)' = gone
    BY <2>11
  <2> HIDE DEF gone
  <2>16. LosersOut' = LosersOut \cup gone
    BY <2>13, <2>14, <2>15
  <2> QED
    BY <1>10, <2>16 DEF gone
<1> QED
  BY <1>1, <1>8, <1>9, <1>10

LEMMA GenerateStand ==
  ASSUME RecordInv, RecordInv', GenerateRound, Observe
  PROVE  MainStand' /\ PoolsStand'
<1>0. BaseInv /\ FfaShape /\ RoundsInOrder
  BY DEF RecordInv, BaseInv
<1>1. PICK p, new :
         /\ p \in {"MAIN", "WB"} /\ p = IF format.mode = "DE" THEN "WB" ELSE "MAIN"
         /\ Extended(new) /\ NewOf(new, p) = DOMAIN new /\ DOMAIN new # {}
         /\ Seated(new) = Active
  BY <1>0, GenerateExtends
<1> SUFFICES ASSUME generation' = 1 PROVE MainStand' /\ PoolsStand'
  BY DEF MainStand, PoolsStand
<1>2. DOMAIN matches = {} /\ generation <= 1
  <2>1. generation = 0
    BY <1>0, FormatsChecked DEF FfaShape, GenerateRound
  <2> QED
    BY <1>0, <2>1 DEF BaseInv, Entrants
<1>3. UNCHANGED <<format, roster>> /\ Active' = Active
  BY <1>1 DEF Extended, Active
<1>4. \A q : Pool(q) = {} /\ Latest(q) = {} /\ In(Latest(q)) = {}
  BY <1>2 DEF Pool, Latest, RoundOf, In
<1>5. In(Latest(p))' = Active
  <2>1. NewOf(new, p) # {} /\ p \in Pools
    BY <1>1 DEF Pools
  <2>2. In(Latest(p))' = UNION {DOMAIN new[m].placement : m \in NewOf(new, p)}
    BY <1>1, <2>1, ExtendedIn
  <2> QED
    BY <1>1, <2>2 DEF Seated
<1>6. MainOut = {} /\ LosersOut = {}
  <2>1. \A q, r : RoundOf(q, r) = {}
    BY <1>4 DEF RoundOf
  <2>2. \A q, r : In(RoundOf(q, r)) = {}
    BY <2>1 DEF In
  <2> QED
    BY <2>2 DEF MainOut, LosersOut, Down
<1>7. Down(Latest("MAIN")) = {}
  BY <1>4 DEF Down
<1>8. MainOut' = {}
  BY <1>1, <1>6, <1>7, ExtendedMainOut
<1>9. CASE format.mode = "SE"
  <2>1. p = "MAIN" /\ format'.mode = "SE"
    BY <1>1, <1>3, <1>9
  <2>2. MainStand'
    BY <1>3, <1>5, <1>8, <2>1 DEF MainStand
  <2>3. PoolsStand'
    BY <2>1 DEF PoolsStand
  <2> QED
    BY <2>2, <2>3
<1>10. CASE format.mode = "DE"
  <2>1. p = "WB" /\ format'.mode = "DE"
    BY <1>1, <1>3, <1>10
  <2>2. NewOf(new, "LB") = {} /\ NewOf(new, "GF") = {}
    BY <1>1, <2>1 DEF NewOf
  <2>3. In(Latest("LB"))' = {}
    BY <1>1, <1>4, <2>2, ExtendedIn DEF Pools
  <2>4. Growth(new) /\ matches' = Added(matches, new)
    BY <1>1 DEF Extended
  <2>5. Pool("GF")' = {}
    BY <1>0, <1>4, <2>2, <2>4, GrownRounds DEF Pools
  <2>6. LosersOut' = {}
    BY <1>1, <1>2, <1>4, <1>6, <2>2, <2>5, ExtendedLosersOut
  <2>7. PoolsStand'
    BY <1>3, <1>5, <2>1, <2>3, <2>6 DEF PoolsStand
  <2>8. MainStand'
    BY <2>1 DEF MainStand
  <2> QED
    BY <2>7, <2>8
<1> QED
  BY <1>0, <1>9, <1>10, FormatsChecked DEF FfaShape

LEMMA AdvanceSingleStand ==
  ASSUME RecordInv, MainStand, AdvanceSingle
  PROVE  MainStand' /\ PoolsStand'
<1>0. BaseInv
  BY DEF RecordInv
<1>1. PICK new : /\ Extended(new) /\ NewOf(new, "MAIN") = DOMAIN new /\ DOMAIN new # {}
                 /\ Seated(new) = Up(Latest("MAIN"))
  BY <1>0, AdvanceSingleExtends
<1>2. /\ UNCHANGED <<format, roster, generation>> /\ format.mode = "SE" /\ Active' = Active
  BY DEF AdvanceSingle, Active
<1>3. In(Latest("MAIN"))' = Up(Latest("MAIN"))
  <2>1. In(Latest("MAIN"))' = UNION {DOMAIN new[m].placement : m \in NewOf(new, "MAIN")}
    BY <1>1, ExtendedIn DEF Pools
  <2> QED
    BY <1>1, <2>1 DEF Seated
<1>4. MainOut' = MainOut \cup Down(Latest("MAIN"))
  BY <1>1, ExtendedMainOut
<1>5. Up(Latest("MAIN")) \subseteq In(Latest("MAIN"))
      /\ Down(Latest("MAIN")) = In(Latest("MAIN")) \ Up(Latest("MAIN"))
  BY DEF Up, In, Top, Down
<1>6. MainStand'
  BY <1>2, <1>3, <1>4, <1>5 DEF MainStand
<1>7. PoolsStand'
  BY <1>2 DEF PoolsStand
<1> QED
  BY <1>6, <1>7

LEMMA AdvanceLosersStand ==
  ASSUME RecordInv, PoolsStand, AdvanceLosers, Observe
  PROVE  MainStand' /\ PoolsStand'
<1>0. BaseInv /\ FfaShape /\ RoundsInOrder
  BY DEF RecordInv, BaseInv
<1>1. PICK new : /\ Extended(new) /\ NewOf(new, "LB") = DOMAIN new /\ DOMAIN new # {}
                 /\ Seated(new) = Up(Latest("LB"))
  BY <1>0, AdvanceLosersExtends
<1>2. /\ UNCHANGED <<format, roster, generation>> /\ format.mode = "DE" /\ Active' = Active
  BY DEF AdvanceLosers, Active
<1>3. MainStand'
  BY <1>2 DEF MainStand
<1> SUFFICES ASSUME generation' = 1, Pool("GF")' = {} PROVE PoolsStand'
  BY <1>3 DEF PoolsStand
<1>4. NewOf(new, "WB") = {} /\ NewOf(new, "GF") = {}
  BY <1>1 DEF NewOf
<1>5. Pool("GF") = {}
  BY <1>0, <1>1, <1>4, GrownRounds DEF Pools, Extended
<1>6. In(Latest("WB"))' = In(Latest("WB")) /\ In(Latest("LB"))' = Up(Latest("LB"))
  <2>1. In(Latest("LB"))' = UNION {DOMAIN new[m].placement : m \in NewOf(new, "LB")}
    BY <1>1, ExtendedIn DEF Pools
  <2>2. In(Latest("WB"))' = In(Latest("WB"))
    BY <1>1, <1>4, ExtendedIn DEF Pools
  <2> QED
    BY <1>1, <2>1, <2>2 DEF Seated
<1>7. Survivors("LB") = Up(Latest("LB"))
  <2>1. \A m \in Latest("LB") : matches[m].confirmed
    BY DEF AdvanceLosers, Ready, Finished
  <2> QED
    BY <2>1 DEF Survivors, Up
<1>8. LosersOut' = LosersOut \cup (In(Latest("LB")) \ Up(Latest("LB")))
  BY <1>1, <1>2, <1>5, <1>7, ExtendedLosersOut
<1>9. Up(Latest("LB")) \subseteq In(Latest("LB"))
  BY DEF Up, In, Top
<1>10. /\ In(Latest("WB")) \cap In(Latest("LB")) = {}
       /\ (In(Latest("WB")) \cup In(Latest("LB"))) \cap LosersOut = {}
       /\ Active \subseteq In(Latest("WB")) \cup In(Latest("LB")) \cup LosersOut
  BY <1>2, <1>5 DEF PoolsStand
<1> QED
  BY <1>2, <1>6, <1>8, <1>9, <1>10 DEF PoolsStand

(* The three sets of a double elimination, after the winners are advanced. *)
LEMMA ThreeSets ==
  ASSUME NEW W, NEW L, NEW O, W \cap L = {}, (W \cup L) \cap O = {},
         NEW up \in SUBSET W, NEW still \in SUBSET L
  PROVE  /\ up \cap ((W \ up) \cup still) = {}
         /\ (up \cup ((W \ up) \cup still)) \cap (O \cup (L \ still)) = {}
         /\ W \cup L \cup O = up \cup ((W \ up) \cup still) \cup (O \cup (L \ still))
OBVIOUS

LEMMA AdvanceWinnersStand ==
  ASSUME RecordInv, PoolsStand, AdvanceWinners, Observe
  PROVE  MainStand' /\ PoolsStand'
<1>0. BaseInv /\ FfaShape /\ RoundsInOrder
  BY DEF RecordInv, BaseInv
<1> DEFINE W == In(Latest("WB"))
           L == In(Latest("LB"))
           down == Dropped(Latest("WB"))
           still == Survivors("LB")
           best == Up(Latest("WB"))
<1>1. PICK upper, lower :
           /\ Extended(Added(upper, lower))
           /\ NewOf(Added(upper, lower), "WB") = DOMAIN upper /\ DOMAIN upper # {}
           /\ NewOf(Added(upper, lower), "LB") = DOMAIN lower
           /\ \A m \in DOMAIN upper : Added(upper, lower)[m] = upper[m]
           /\ \A m \in DOMAIN lower : Added(upper, lower)[m] = lower[m]
           /\ Seated(upper) = best
           /\ down \cap still = {} => Seated(lower) = down \cup still
           /\ DOMAIN lower = {} <=> down \cup still = {}
  BY <1>0, AdvanceWinnersExtends
<1>2. /\ UNCHANGED <<format, roster, generation>> /\ format.mode = "DE" /\ Active' = Active
  BY DEF AdvanceWinners, Active
<1>3. MainStand'
  BY <1>2 DEF MainStand
<1> SUFFICES ASSUME generation' = 1, Pool("GF")' = {} PROVE PoolsStand'
  BY <1>3 DEF PoolsStand
<1>4. Pool("GF") = {}
  BY <1>0, <1>1, GrownRounds DEF Pools, Extended
<1>5. /\ W \cap L = {} /\ (W \cup L) \cap LosersOut = {} /\ Active \subseteq W \cup L \cup LosersOut
  BY <1>2, <1>4 DEF PoolsStand
<1>6. best \subseteq W /\ down = W \ best /\ still \subseteq L
  BY <1>0, InMatches, DroppedDown DEF Down, Latest, RoundOf, Pool
<1>7. Seated(lower) = down \cup still
  BY <1>1, <1>5, <1>6
<1>8. In(Latest("WB"))' = best
  <2>1. In(Latest("WB"))' = UNION {DOMAIN Added(upper, lower)[m].placement : m \in DOMAIN upper}
    BY <1>1, ExtendedIn DEF Pools
  <2>2. UNION {DOMAIN Added(upper, lower)[m].placement : m \in DOMAIN upper} = Seated(upper)
    BY <1>1 DEF Seated
  <2> QED
    BY <1>1, <2>1, <2>2
<1>9. CASE DOMAIN lower = {}
  <2>1. In(Latest("LB"))' = L
    BY <1>1, <1>9, ExtendedIn DEF Pools
  <2>2. LosersOut' = LosersOut
    BY <1>1, <1>2, <1>4, <1>9, ExtendedLosersOut
  <2>3. best = W
    BY <1>1, <1>6, <1>9
  <2> QED
    BY <1>2, <1>5, <1>8, <2>1, <2>2, <2>3 DEF PoolsStand
<1>10. CASE DOMAIN lower # {}
  <2>1. In(Latest("LB"))' = down \cup still
    <3>1. In(Latest("LB"))' = UNION {DOMAIN Added(upper, lower)[m].placement : m \in DOMAIN lower}
      BY <1>1, <1>10, ExtendedIn DEF Pools
    <3> QED
      BY <1>1, <1>7, <3>1 DEF Seated
  <2>2. LosersOut' = LosersOut \cup (L \ still)
    BY <1>1, <1>2, <1>4, <1>10, ExtendedLosersOut
  <2> HIDE DEF W, L, down, still, best
  <2>3. /\ best \cap (down \cup still) = {}
        /\ (best \cup (down \cup still)) \cap (LosersOut \cup (L \ still)) = {}
        /\ W \cup L \cup LosersOut = best \cup (down \cup still) \cup (LosersOut \cup (L \ still))
    BY <1>5, <1>6, ThreeSets
  <2> QED
    BY <1>2, <1>5, <1>8, <2>1, <2>2, <2>3 DEF PoolsStand
<1> QED
  BY <1>9, <1>10

LEMMA GrandFinalStand ==
  ASSUME RecordInv, GenerateGrandFinal
  PROVE  MainStand' /\ PoolsStand'
<1>1. PICK new : /\ Extended(new)
                 /\ NewOf(new, "GF") = DOMAIN new /\ DOMAIN new = {<<"GF", 0, 1>>}
  BY GrandFinalExtends DEF RecordInv
<1>2. Pool("GF")' # {}
  BY <1>1, GrownRounds DEF Pools, RecordInv, BaseInv, Extended
<1>3. format' = format /\ format.mode = "DE"
  BY DEF GenerateGrandFinal
<1> QED
  BY <1>2, <1>3 DEF MainStand, PoolsStand

(* Until the grand final is made, everybody who has not left stands in the
   latest round of exactly one pool, or is out for good: no advancement
   forgets anybody, lets anybody play on twice or brings anybody back
   (_advance_ffa_wb, _advance_ffa_lb). *)
THEOREM OnePlaceHolds == HistorySpec => []OnePlaceEach
<1> DEFINE StandInv == RecordInv /\ MainStand /\ PoolsStand
<1>1. HistoryInit => StandInv
  <2> SUFFICES ASSUME HistoryInit PROVE StandInv
    OBVIOUS
  <2>1. generation = 0
    BY DEF HistoryInit, Init
  <2> QED
    BY <2>1, RecordInit DEF MainStand, PoolsStand
<1>2. StandInv /\ [HistoryNext]_historyVars => StandInv'
  <2> SUFFICES ASSUME RecordInv, MainStand, PoolsStand, [HistoryNext]_historyVars PROVE StandInv'
    OBVIOUS
  <2>1. CASE UNCHANGED historyVars
    BY <2>1, StutterTouches, RecordStutter, TouchedStand
  <2>2. CASE HistoryNext
    <3>1. /\ RecordInv' /\ Observe
          /\ \/ GenerateRound \/ AdvanceSingle \/ AdvanceWinners \/ AdvanceLosers
             \/ GenerateGrandFinal \/ Touched
      BY <2>2, RecordNext DEF HistoryNext
    <3>2. CASE Touched
      BY <3>1, <3>2, TouchedStand
    <3>3. CASE GenerateRound
      BY <3>1, <3>3, GenerateStand
    <3>4. CASE AdvanceSingle
      BY <3>1, <3>4, AdvanceSingleStand
    <3>5. CASE AdvanceWinners
      BY <3>1, <3>5, AdvanceWinnersStand
    <3>6. CASE AdvanceLosers
      BY <3>1, <3>6, AdvanceLosersStand
    <3>7. CASE GenerateGrandFinal
      BY <3>1, <3>7, GrandFinalStand
    <3> QED
      BY <3>1, <3>2, <3>3, <3>4, <3>5, <3>6, <3>7
  <2> QED
    BY <2>1, <2>2
<1>3. StandInv => OnePlaceEach
  BY OnePlaceIs DEF RecordInv, BaseInv
<1> QED
  BY <1>1, <1>2, <1>3, PTL DEF HistorySpec

-----------------------------------------------------------------------------
(* How large groups are *)

(* More of a factor is more of a product. *)
LEMMA More ==
  ASSUME NEW k \in Nat, NEW a \in Nat, NEW b \in Nat, a < b
  PROVE  k * a + k <= k * b
<1>1. PICK d \in Nat : b = a + 1 + d
  <2>1. b - a - 1 \in Nat /\ b = a + 1 + (b - a - 1)
    OBVIOUS
  <2> QED
    BY <2>1
<1>2. k * b = k * a + k + k * d
  BY <1>1
<1>3. k * d \in Nat
  OBVIOUS
<1> QED
  BY <1>2, <1>3

(* There is one way to divide with a rest. *)
LEMMA OneDivision ==
  ASSUME NEW k \in Nat \ {0}, NEW q \in Nat, NEW x \in 0..(k - 1)
  PROVE  (k * q + x) \div k = q /\ (k * q + x) % k = x
<1> DEFINE a == k * q + x
           r == a \div k
           y == a % k
<1>1. a \in Nat /\ k * q \in Nat
  OBVIOUS
<1>2. r \in Nat /\ y \in 0..(k - 1) /\ a = k * r + y
  BY <1>1, Division
<1> HIDE DEF r, y
<1>3. ~(q < r)
  <2> SUFFICES ASSUME q < r PROVE FALSE
    OBVIOUS
  <2>1. k * q + k <= k * r
    BY <1>2, More
  <2> QED
    BY <1>1, <1>2, <2>1
<1>4. ~(r < q)
  <2> SUFFICES ASSUME r < q PROVE FALSE
    OBVIOUS
  <2>1. k * r + k <= k * q
    BY <1>2, More
  <2> QED
    BY <1>1, <1>2, <2>1
<1>5. r = q
  BY <1>2, <1>3, <1>4
<1>6. y = x
  BY <1>1, <1>2, <1>5
<1> QED
  BY <1>5, <1>6 DEF r, y

(* No more groups than needed, and no fewer. *)
LEMMA GroupsSuffice ==
  ASSUME NEW n \in Nat \ {0}, format \in FfaFormats
  PROVE  /\ GroupCount(n) \in Nat \ {0}
         /\ n <= GroupCount(n) * format.max
         /\ (GroupCount(n) - 1) * format.max < n
<1> DEFINE max == format.max
           k == GroupCount(n)
           r == (n + max - 1) % max
<1>1. max \in Nat \ {0}
  BY FormatsChecked
<1>2. k \in Nat \ {0} /\ n <= max * k
  BY <1>1, RoundedUp DEF GroupCount
<1>3. r \in 0..(max - 1) /\ n + max - 1 = max * k + r
  <2>1. n + max - 1 \in Nat
    BY <1>1
  <2>2. n + max - 1 = max * ((n + max - 1) \div max) + r /\ r \in 0..(max - 1)
    <3> HIDE DEF max
    <3> QED
      BY <1>1, <2>1, Division
  <2> QED
    BY <2>2 DEF GroupCount
<1> HIDE DEF max, k, r
<1>4. (k - 1) * max = max * k - max /\ k * max = max * k
  BY <1>1, <1>2
<1> QED
  BY <1>1, <1>2, <1>3, <1>4 DEF max, k

Row(i, k) == (i - 1) \div k
Column(g, r, k) == IF r % 2 = 0 THEN g - 1 ELSE k - g

(* The position of a group's contestant in a row. *)
LEMMA InRow ==
  ASSUME NEW n \in Nat \ {0}, format \in FfaFormats, NEW g \in 1..GroupCount(n)
  PROVE  LET k == GroupCount(n)
         IN  /\ \A i \in 1..n : GroupOf(i, n) = g =>
                  /\ Row(i, k) \in Nat
                  /\ i = k * Row(i, k) + Column(g, Row(i, k), k) + 1
             /\ \A r \in Nat :
                  LET i == k * r + Column(g, r, k) + 1
                  IN  i \in Nat \ {0} /\ Row(i, k) = r /\ GroupOf(i, n) = g
                      /\ Column(g, r, k) \in 0..(k - 1)
<1> DEFINE k == GroupCount(n)
<1>1. k \in Nat \ {0}
  BY GroupsSuffice
<1>2. ASSUME NEW i \in 1..n, GroupOf(i, n) = g
      PROVE  Row(i, k) \in Nat /\ i = k * Row(i, k) + Column(g, Row(i, k), k) + 1
  <2> DEFINE r == (i - 1) \div k
             x == (i - 1) % k
  <2>0. i - 1 \in Nat /\ k \in Nat \ {0}
    BY <1>1
  <2>1. r \in Nat /\ x \in 0..(k - 1) /\ i - 1 = k * r + x
    <3> HIDE DEF k
    <3> QED
      BY <2>0, Division
  <2>2. g = 1 + IF r % 2 = 0 THEN x ELSE k - 1 - x
    BY <1>2 DEF GroupOf
  <2> HIDE DEF r, x, k
  <2>3. x = Column(g, r, k)
    BY <1>1, <2>1, <2>2 DEF Column, k
  <2>4. i = k * r + x + 1
    BY <1>1, <2>1
  <2> QED
    BY <2>1, <2>3, <2>4 DEF Row, r
<1>3. ASSUME NEW r \in Nat
      PROVE  LET i == k * r + Column(g, r, k) + 1
             IN  i \in Nat \ {0} /\ Row(i, k) = r /\ GroupOf(i, n) = g
                 /\ Column(g, r, k) \in 0..(k - 1)
  <2> DEFINE x == Column(g, r, k)
             i == k * r + x + 1
  <2>1. x \in 0..(k - 1) /\ k * r \in Nat
    BY <1>1 DEF Column
  <2>2. i - 1 = k * r + x /\ i \in Nat \ {0}
    BY <1>1, <2>1
  <2>3. (i - 1) \div k = r /\ (i - 1) % k = x
    BY <1>1, <2>1, <2>2, OneDivision
  <2>4. GroupOf(i, n) = 1 + IF r % 2 = 0 THEN x ELSE k - 1 - x
    BY <2>3 DEF GroupOf
  <2>5. GroupOf(i, n) = g
    BY <1>1, <2>4 DEF Column
  <2> QED
    BY <2>1, <2>2, <2>3, <2>5 DEF Row
<1> QED
  BY <1>2, <1>3

\* Everybody in the list has a place of their own.
OnePlaceList(list) ==
  IsList(list) /\ \A c, d \in DOMAIN list : list[c] = list[d] => c = d

(* Every place is somebody's. *)
LEMMA EveryPlace ==
  ASSUME NEW list, OnePlaceList(list), NEW i \in 1..Size(list)
  PROVE  \E c \in DOMAIN list : list[c] = i
<1> DEFINE S == DOMAIN list
           n == Size(list)
           place == [c \in S |-> list[c]]
<1>1. IsFiniteSet(S) /\ Cardinality(S) = n /\ n \in Nat
  BY DEF OnePlaceList, IsList, Size
<1>2. IsFiniteSet(1..n) /\ Cardinality(1..n) = n
  BY <1>1, FS_Interval
<1>3. place \in Injection(S, 1..n)
  BY DEF OnePlaceList, IsList, Injection, IsInjective
<1>4. place \in Surjection(S, 1..n)
  BY <1>1, <1>2, <1>3, FS_Injection
<1> QED
  BY <1>4 DEF Surjection

(* The rows a group has somebody in. *)
LEMMA RowsOfGroup ==
  ASSUME format \in FfaFormats, NEW list, OnePlaceList(list), Size(list) # 0,
         NEW g \in 1..GroupCount(Size(list))
  PROVE  LET k    == GroupCount(Size(list))
             q    == Size(list) \div k
             rows == {Row(list[c], k) : c \in Group(list, g)}
         IN  /\ Cardinality(Group(list, g)) = Cardinality(rows)
             /\ rows = 0..(q - 1) \/ (rows = 0..q /\ k * q < Size(list))
<1> DEFINE n == Size(list)
           k == GroupCount(n)
           q == n \div k
           y == n % k
           rows == {Row(list[c], k) : c \in Group(list, g)}
           row == [c \in Group(list, g) |-> Row(list[c], k)]
<1>1. n \in Nat \ {0} /\ k \in Nat \ {0}
  BY GroupsSuffice DEF OnePlaceList, IsList
<1>2. q \in Nat /\ y \in 0..(k - 1) /\ n = k * q + y
  <2> HIDE DEF n, k
  <2> QED
    BY <1>1, Division
<1>3. \A c \in Group(list, g) : c \in DOMAIN list /\ list[c] \in 1..n /\ GroupOf(list[c], n) = g
  BY DEF Group, OnePlaceList, IsList
<1>4. /\ \A i \in 1..n : GroupOf(i, n) = g =>
           /\ Row(i, k) \in Nat
           /\ i = k * Row(i, k) + Column(g, Row(i, k), k) + 1
      /\ \A r \in Nat :
           /\ k * r + Column(g, r, k) + 1 \in Nat \ {0}
           /\ Row(k * r + Column(g, r, k) + 1, k) = r
           /\ GroupOf(k * r + Column(g, r, k) + 1, n) = g
           /\ Column(g, r, k) \in 0..(k - 1)
  BY <1>1, InRow
<1>5. row \in Bijection(Group(list, g), rows)
  <2>1. row \in [Group(list, g) -> rows]
    OBVIOUS
  <2>2. \A x \in rows : \E c \in Group(list, g) : row[c] = x
    OBVIOUS
  <2>3. ASSUME NEW c \in Group(list, g), NEW d \in Group(list, g), row[c] = row[d]
        PROVE  c = d
    <3>1. Row(list[c], k) = Row(list[d], k)
      BY <2>3
    <3>2. list[c] = list[d]
      BY <1>3, <1>4, <3>1
    <3> QED
      BY <1>3, <3>2 DEF OnePlaceList
  <2> QED
    BY <2>1, <2>2, <2>3 DEF Bijection, Injection, IsInjective, Surjection
<1>6. Cardinality(Group(list, g)) = Cardinality(rows)
  <2>1. IsFiniteSet(Group(list, g))
    BY FS_Subset DEF Group, OnePlaceList, IsList
  <2>2. ExistsBijection(Group(list, g), rows)
    BY <1>5 DEF ExistsBijection
  <2> QED
    BY <2>1, <2>2, FS_Bijection
<1>7. rows \subseteq 0..q
  <2> SUFFICES ASSUME NEW c \in Group(list, g) PROVE Row(list[c], k) \in 0..q
    OBVIOUS
  <2> DEFINE r == Row(list[c], k)
  <2>1. r \in Nat /\ list[c] = k * r + Column(g, r, k) + 1 /\ list[c] \in 1..n
    BY <1>3, <1>4
  <2>2. Column(g, r, k) \in 0..(k - 1)
    BY <1>4, <2>1
  <2> HIDE DEF r, n, k, q, y
  <2>3. ~(q < r)
    <3> SUFFICES ASSUME q < r PROVE FALSE
      OBVIOUS
    <3>1. k * q + k <= k * r /\ k * q \in Nat /\ k * r \in Nat
      BY <1>1, <1>2, <2>1, More
    <3> QED
      BY <1>1, <1>2, <2>1, <2>2, <3>1
  <2> QED
    BY <1>2, <2>1, <2>3 DEF r
<1>8. ASSUME NEW r \in Nat, k * r + Column(g, r, k) + 1 <= n PROVE r \in rows
  <2> DEFINE i == k * r + Column(g, r, k) + 1
  <2>1. i \in 1..n /\ Row(i, k) = r /\ GroupOf(i, n) = g
    BY <1>1, <1>4, <1>8
  <2>2. PICK c \in DOMAIN list : list[c] = i
    <3> HIDE DEF i
    <3> QED
      BY <2>1, EveryPlace
  <2>3. c \in Group(list, g)
    BY <2>1, <2>2 DEF Group
  <2> QED
    BY <2>1, <2>2, <2>3
<1>9. 0..(q - 1) \subseteq rows
  <2> SUFFICES ASSUME NEW r \in 0..(q - 1) PROVE r \in rows
    OBVIOUS
  <2>0. r \in Nat /\ r < q
    BY <1>2
  <2>1. Column(g, r, k) \in 0..(k - 1)
    BY <1>4, <2>0
  <2>2. k * r + k <= k * q /\ k * q \in Nat /\ k * r \in Nat
    <3> HIDE DEF k, q
    <3> QED
      BY <1>1, <1>2, <2>0, More
  <2>3. k * r + Column(g, r, k) + 1 <= n
    <3> HIDE DEF k, q, y, n
    <3> QED
      BY <1>1, <1>2, <2>1, <2>2
  <2> QED
    BY <1>8, <2>0, <2>3
<1>10. ASSUME q \in rows PROVE k * q < n
  <2>1. PICK c \in Group(list, g) : Row(list[c], k) = q
    BY <1>10
  <2>2. list[c] = k * q + Column(g, q, k) + 1 /\ list[c] \in 1..n
    BY <1>3, <1>4, <2>1
  <2>3. Column(g, q, k) \in 0..(k - 1)
    <3> HIDE DEF k, q, n
    <3> QED
      BY <1>2, <1>4
  <2>4. k * q \in Nat
    <3> HIDE DEF k, q, n
    <3> QED
      BY <1>1, <1>2
  <2> HIDE DEF k, q, n
  <2> QED
    BY <1>1, <2>2, <2>3, <2>4
<1>11. rows = 0..(q - 1) \/ (rows = 0..q /\ k * q < n)
  <2> HIDE DEF rows, q
  <2>1. CASE q \in rows
    <3>1. 0..q \subseteq rows
      BY <1>2, <1>9, <2>1
    <3> QED
      BY <1>7, <1>10, <2>1, <3>1
  <2>2. CASE q \notin rows
    <3>1. rows \subseteq 0..(q - 1)
      BY <1>2, <1>7, <2>2
    <3> QED
      BY <1>9, <3>1
  <2> QED
    BY <2>1, <2>2
<1> QED
  BY <1>6, <1>11

(* Groups are as equal as possible, and not too large. *)
LEMMA GroupSizes ==
  ASSUME format \in FfaFormats, NEW list, OnePlaceList(list), Size(list) # 0,
         NEW g \in 1..GroupCount(Size(list))
  PROVE  LET q == Size(list) \div GroupCount(Size(list))
         IN  /\ q \in Nat
             /\ Cardinality(Group(list, g)) \in {q, q + 1}
             /\ Cardinality(Group(list, g)) <= format.max
<1> DEFINE n == Size(list)
           k == GroupCount(n)
           q == n \div k
           size == Cardinality(Group(list, g))
<1>1. /\ n \in Nat \ {0} /\ k \in Nat \ {0} /\ format.max \in Nat /\ n <= k * format.max
  BY GroupsSuffice, FormatsChecked DEF OnePlaceList, IsList
<1>2. q \in Nat /\ n % k \in 0..(k - 1) /\ n = k * q + (n % k)
  <2> HIDE DEF n, k
  <2> QED
    BY <1>1, Division
<1> DEFINE rows == {Row(list[c], k) : c \in Group(list, g)}
<1>3. size = Cardinality(rows) /\ (rows = 0..(q - 1) \/ (rows = 0..q /\ k * q < n))
  BY RowsOfGroup
<1> HIDE DEF rows, size, k, q, n
<1>4. size = q \/ (size = q + 1 /\ k * q < n)
  <2>1. Cardinality(0..(q - 1)) = q
    BY <1>2, FS_Interval
  <2>2. Cardinality(0..q) = q + 1
    BY <1>2, FS_Interval
  <2> QED
    BY <1>3, <2>1, <2>2
<1>5. ~(format.max < q)
  <2> SUFFICES ASSUME format.max < q PROVE FALSE
    OBVIOUS
  <2>1. k * format.max + k <= k * q /\ k * format.max \in Nat /\ k * q \in Nat
    BY <1>1, <1>2, More
  <2> QED
    BY <1>1, <1>2, <2>1
<1>6. k * q < n => q # format.max
  BY <1>1
<1>7. size <= format.max
  BY <1>1, <1>2, <1>4, <1>5, <1>6
<1> QED
  BY <1>2, <1>4, <1>7 DEF size, k, q, n

-----------------------------------------------------------------------------
(* Everybody in a list has a place of their own *)

(* Of two contestants of a match one is above the other. *)
LEMMA OneAbove ==
  ASSUME format \in FfaFormats, NEW m, NEW c \in Contestants, NEW d \in Contestants,
         NEW e \in Contestants
  PROVE  /\ c # d => Above(m, c, d) \/ Above(m, d, c)
         /\ Above(m, c, d) /\ Above(m, d, e) => Above(m, c, e)
<1>1. Points(m, c) \in Int /\ Points(m, d) \in Int /\ Points(m, e) \in Int
  BY PointsAreNumbers
<1>2. Seed[c] \in Nat /\ Seed[d] \in Nat /\ Seed[e] \in Nat /\ (Seed[c] = Seed[d] => c = d)
  BY SeedsDiffer
<1> QED
  BY <1>1, <1>2 DEF Above

LEMMA SeededPlaces ==
  ASSUME NEW S \in SUBSET Contestants
  PROVE  OnePlaceList(BySeed(S))
BY SeededList, SeedsTell DEF OnePlaceList

LEMMA TurnTells ==
  ASSUME FfaShape, Apart, NEW ms \in SUBSET DOMAIN matches, NEW p, NEW r,
         \A m \in ms : m[1] = p /\ m[2] = r, NEW S \in SUBSET In(ms)
  PROVE  OnePlaceList(InTurn(ms, S))
<1> DEFINE order(m, d, c) == IF matches[m].confirmed THEN Above(m, d, c) ELSE Seed[d] < Seed[c]
           before(d, c) ==
             \E m, n \in ms :
               /\ d \in Who(m) /\ c \in Who(n)
               /\ \/ m[3] < n[3]
                  \/ m = n /\ IF matches[m].confirmed THEN Above(m, d, c) ELSE Seed[d] < Seed[c]
           T(c) == {d \in S : before(d, c)}
<1>1. /\ format \in FfaFormats
      /\ \A m \in ms : Who(m) \subseteq Contestants /\ m[3] \in Nat /\ m = <<p, r, m[3]>>
  BY MatchShape DEF FfaShape
<1>2. S \in SUBSET Contestants
  BY <1>1 DEF In
<1>3. \A m, n \in ms : \A c : c \in Who(m) /\ c \in Who(n) => m = n
  BY DEF Apart
<1>4. ASSUME NEW m \in ms, NEW c \in Who(m), NEW d \in Who(m), NEW e \in Who(m)
      PROVE  /\ ~order(m, c, c)
             /\ c # d => order(m, c, d) \/ order(m, d, c)
             /\ order(m, c, d) /\ order(m, d, e) => order(m, c, e)
  <2>1. c \in Contestants /\ d \in Contestants /\ e \in Contestants
    BY <1>1
  <2>2. Seed[c] \in Nat /\ Seed[d] \in Nat /\ Seed[e] \in Nat /\ (Seed[c] = Seed[d] => c = d)
    BY <2>1, SeedsDiffer
  <2>3. CASE matches[m].confirmed
    BY <1>1, <2>1, <2>3, OneAbove, NotAboveOneself
  <2>4. CASE ~matches[m].confirmed
    BY <2>2, <2>4
  <2> QED
    BY <2>3, <2>4
<1>5. ASSUME NEW c, NEW d
      PROVE  before(d, c) <=> \E m, n \in ms : /\ d \in Who(m) /\ c \in Who(n)
                                               /\ m[3] < n[3] \/ (m = n /\ order(m, d, c))
  OBVIOUS
<1> HIDE DEF before, order
<1>6. ASSUME NEW c \in S PROVE ~before(c, c)
  <2> SUFFICES ASSUME NEW m \in ms, NEW n \in ms, c \in Who(m), c \in Who(n),
                      m[3] < n[3] \/ (m = n /\ order(m, c, c))
               PROVE  FALSE
    BY <1>5
  <2>1. m = n
    BY <1>3
  <2> QED
    BY <1>1, <1>4, <2>1
<1>7. ASSUME NEW c \in S, NEW d \in S, c # d PROVE before(c, d) \/ before(d, c)
  <2>1. PICK m \in ms, n \in ms : c \in Who(m) /\ d \in Who(n)
    BY DEF In
  <2>2. CASE m = n
    BY <1>4, <1>5, <1>7, <2>1, <2>2
  <2>3. CASE m # n
    <3>1. m[3] # n[3]
      BY <1>1, <2>3
    <3>2. m[3] < n[3] \/ n[3] < m[3]
      BY <1>1, <3>1
    <3> QED
      BY <1>5, <2>1, <3>2
  <2> QED
    BY <2>2, <2>3
<1>8. ASSUME NEW c \in S, NEW d \in S, NEW e \in S, before(c, d), before(d, e)
      PROVE  before(c, e)
  <2>1. PICK m \in ms, n \in ms : /\ c \in Who(m) /\ d \in Who(n)
                                  /\ m[3] < n[3] \/ (m = n /\ order(m, c, d))
    BY <1>5, <1>8
  <2>2. PICK u \in ms, v \in ms : /\ d \in Who(u) /\ e \in Who(v)
                                  /\ u[3] < v[3] \/ (u = v /\ order(u, d, e))
    BY <1>5, <1>8
  <2>3. n = u
    BY <1>3, <2>1, <2>2
  <2>4. m[3] < v[3] \/ (m = v /\ order(m, c, e))
    <3>1. m[3] \in Nat /\ n[3] \in Nat /\ v[3] \in Nat
      BY <1>1
    <3>2. CASE m = n /\ n = v
      BY <1>1, <1>4, <2>1, <2>2, <2>3, <3>1, <3>2
    <3>3. CASE m # n \/ n # v
      BY <2>1, <2>2, <2>3, <3>1, <3>3
    <3> QED
      BY <3>2, <3>3
  <2> QED
    BY <1>5, <2>1, <2>2, <2>4
<1>9. ASSUME NEW c \in S, NEW d \in S, before(c, d)
      PROVE  Cardinality(T(c)) < Cardinality(T(d))
  <2>1. T(c) \in SUBSET T(d) /\ c \in T(d) \ T(c)
    BY <1>6, <1>8, <1>9
  <2>2. T(d) \in SUBSET Contestants
    BY <1>2
  <2> HIDE DEF T
  <2> QED
    BY <2>1, <2>2, Fewer
<1>10. \A c \in S : Cardinality(T(c)) \in Nat
  BY <1>2, Few
<1>11. \A c \in S : InTurn(ms, S)[c] = 1 + Cardinality(T(c))
  BY DEF InTurn, Listed, before
<1> HIDE DEF T
<1>12. ASSUME NEW c \in S, NEW d \in S, c # d PROVE InTurn(ms, S)[c] # InTurn(ms, S)[d]
  BY <1>7, <1>9, <1>10, <1>11, <1>12
<1>13. IsList(InTurn(ms, S)) /\ DOMAIN InTurn(ms, S) = S
  BY <1>2, ListInTurn
<1> QED
  BY <1>12, <1>13 DEF OnePlaceList

(* Those of the latest round of a pool. *)
LEMMA LatestPlaces ==
  ASSUME BaseInv, NEW p, NEW S \in SUBSET In(Latest(p))
  PROVE  OnePlaceList(InTurn(Latest(p), S))
<1>1. Latest(p) \in SUBSET DOMAIN matches
  BY DEF Latest, RoundOf, Pool
<1>2. \A m \in Latest(p) : m[1] = p /\ m[2] = NextRound(p) - 1
  BY DEF Latest, RoundOf, Pool
<1> QED
  BY <1>1, <1>2, TurnTells DEF BaseInv

LEMMA JoinedPlaces ==
  ASSUME NEW list, NEW more, OnePlaceList(list), OnePlaceList(more),
         DOMAIN list \cap DOMAIN more = {}
  PROVE  OnePlaceList(Joined(list, more))
<1> DEFINE both == Joined(list, more)
<1>1. IsList(both) /\ DOMAIN both = DOMAIN list \cup DOMAIN more
  BY JoinedList DEF OnePlaceList
<1>2. /\ Size(list) \in Nat /\ \A c \in DOMAIN list : list[c] \in 1..Size(list)
      /\ Size(more) \in Nat /\ \A c \in DOMAIN more : more[c] \in 1..Size(more)
  BY DEF OnePlaceList, IsList
<1>3. \A c \in DOMAIN both : both[c] = IF c \in DOMAIN list THEN list[c] ELSE Size(list) + more[c]
  BY DEF Joined
<1> HIDE DEF both
<1>4. ASSUME NEW c \in DOMAIN both, NEW d \in DOMAIN both, both[c] = both[d]
      PROVE  c = d
  <2>1. CASE c \in DOMAIN list /\ d \in DOMAIN list
    BY <1>3, <1>4, <2>1 DEF OnePlaceList
  <2>2. CASE c \notin DOMAIN list /\ d \notin DOMAIN list
    <3>1. c \in DOMAIN more /\ d \in DOMAIN more
      BY <1>1, <2>2
    <3>2. Size(list) + more[c] = Size(list) + more[d]
      BY <1>3, <1>4, <2>2
    <3>3. more[c] = more[d]
      BY <1>2, <3>1, <3>2
    <3> QED
      BY <3>1, <3>3 DEF OnePlaceList
  <2>3. CASE c \in DOMAIN list /\ d \notin DOMAIN list
    <3>1. d \in DOMAIN more /\ list[c] = Size(list) + more[d]
      BY <1>1, <1>3, <1>4, <2>3
    <3> QED
      BY <1>2, <2>3, <3>1
  <2>4. CASE c \notin DOMAIN list /\ d \in DOMAIN list
    <3>1. c \in DOMAIN more /\ list[d] = Size(list) + more[c]
      BY <1>1, <1>3, <1>4, <2>4
    <3> QED
      BY <1>2, <2>4, <3>1
  <2> QED
    BY <2>1, <2>2, <2>3, <2>4
<1> QED
  BY <1>1, <1>4 DEF OnePlaceList, both

-----------------------------------------------------------------------------
(* Groups are balanced *)

SizeOf(seats, m) == Cardinality(seats[m])

\* Who sits where is spread evenly, within the limits.
Even(seats) ==
  /\ \A m \in DOMAIN seats : SizeOf(seats, m) \in format.min..format.max
  /\ \A m, n \in DOMAIN seats : SizeOf(seats, m) <= SizeOf(seats, n) + 1
  /\ (Cardinality(DOMAIN seats) - 1) * format.max
       < Cardinality(UNION {seats[m] : m \in DOMAIN seats})

\* The first seeds do not meet.
SeedsApart(seats) ==
  \A m \in DOMAIN seats : \A c, d \in seats[m] :
    Seed[c] <= Cardinality(DOMAIN seats) /\ Seed[d] <= Cardinality(DOMAIN seats) => c = d

Seats(ms) == [m \in ms |-> Who(m)]
SeatsOf(new, p) == [m \in NewOf(new, p) |-> DOMAIN new[m].placement]

RoundsEven ==
  Everybody =>
    \A m \in DOMAIN matches : m[1] # "GF" =>
      /\ Even(Seats(RoundOf(m[1], m[2])))
      /\ m[1] \in {"MAIN", "WB"} /\ m[2] = 0 => SeedsApart(Seats(RoundOf(m[1], m[2])))

(* This is what GroupsBalanced says. *)
LEMMA BalancedIs == RoundsEven => GroupsBalanced
<1> SUFFICES ASSUME RoundsEven, Everybody, NEW m \in DOMAIN matches, m[1] # "GF"
             PROVE  LET groups == RoundOf(m[1], m[2])
                        size(n) == Cardinality(Who(n))
                    IN  /\ size(m) \in format.min..format.max
                        /\ \A n \in groups : size(m) <= size(n) + 1
                        /\ (Cardinality(groups) - 1) * format.max < Cardinality(In(groups))
                        /\ m[1] \in {"MAIN", "WB"} /\ m[2] = 0 =>
                             \A c, d \in Who(m) :
                               Seed[c] <= Cardinality(groups) /\ Seed[d] <= Cardinality(groups)
                                 => c = d
  BY DEF GroupsBalanced
<1> DEFINE groups == RoundOf(m[1], m[2])
<1>1. m \in groups
  BY DEF RoundOf, Pool
<1>2. DOMAIN Seats(groups) = groups /\ \A n \in groups : Seats(groups)[n] = Who(n)
  BY DEF Seats
<1>3. UNION {Seats(groups)[n] : n \in groups} = In(groups)
  BY <1>2 DEF In
<1>4. Even(Seats(groups))
      /\ (m[1] \in {"MAIN", "WB"} /\ m[2] = 0 => SeedsApart(Seats(groups)))
  BY DEF RoundsEven
<1> HIDE DEF groups
<1>5. /\ Cardinality(Who(m)) \in format.min..format.max
      /\ \A n \in groups : Cardinality(Who(m)) <= Cardinality(Who(n)) + 1
      /\ (Cardinality(groups) - 1) * format.max < Cardinality(In(groups))
  <2>1. \A n \in groups : SizeOf(Seats(groups), n) = Cardinality(Who(n))
    BY <1>2 DEF SizeOf
  <2>2. /\ \A n \in groups : SizeOf(Seats(groups), n) \in format.min..format.max
        /\ \A u, n \in groups : SizeOf(Seats(groups), u) <= SizeOf(Seats(groups), n) + 1
        /\ (Cardinality(groups) - 1) * format.max < Cardinality(In(groups))
    BY <1>2, <1>3, <1>4 DEF Even
  <2> QED
    BY <1>1, <2>1, <2>2
<1>6. m[1] \in {"MAIN", "WB"} /\ m[2] = 0 =>
        \A c, d \in Who(m) :
          Seed[c] <= Cardinality(groups) /\ Seed[d] <= Cardinality(groups) => c = d
  BY <1>1, <1>2, <1>4 DEF SeedsApart
<1> QED
  BY <1>5, <1>6 DEF groups

(* The groups a round is made of. *)
LEMMA NewRoundIs ==
  ASSUME BaseInv, NEW p \in Pools, NEW list, IsList(list)
  PROVE  LET new == NewRound(p, list)
             k   == GroupCount(Size(list))
         IN  /\ NewOf(new, p) = DOMAIN new /\ OnlyOf(new, p)
             /\ Cardinality(DOMAIN new) = k
             /\ \A m \in DOMAIN new : /\ m[3] \in 1..k
                                      /\ DOMAIN new[m].placement = Group(list, m[3])
             /\ UNION {DOMAIN new[m].placement : m \in DOMAIN new} = DOMAIN list
<1> DEFINE new == NewRound(p, list)
           k == GroupCount(Size(list))
           key == [g \in 1..k |-> <<p, NextRound(p), g>>]
<1>1. k \in Nat
  BY GroupsExist DEF IsList, BaseInv, FfaShape
<1>2. DOMAIN new = {<<p, NextRound(p), g>> : g \in 1..k}
  BY DEF NewRound
<1>3. \A m \in DOMAIN new : DOMAIN new[m].placement = Group(list, m[3])
  BY DEF NewRound, Fresh
<1>4. Seated(new) = DOMAIN list
  BY EverybodyGrouped
<1> HIDE DEF new, k
<1>5. \A m \in DOMAIN new : m[1] = p /\ m[3] \in 1..k
  BY <1>2
<1>6. key \in Bijection(1..k, DOMAIN new)
  BY <1>2 DEF Bijection, Injection, IsInjective, Surjection
<1>7. Cardinality(DOMAIN new) = k
  <2>1. IsFiniteSet(1..k) /\ Cardinality(1..k) = k
    BY <1>1, FS_Interval
  <2>2. ExistsBijection(1..k, DOMAIN new)
    BY <1>6 DEF ExistsBijection
  <2> QED
    BY <2>1, <2>2, FS_Bijection
<1>8. NewOf(new, p) = DOMAIN new /\ OnlyOf(new, p)
  BY <1>5 DEF NewOf, OnlyOf
<1> QED
  BY <1>3, <1>4, <1>5, <1>7, <1>8 DEF new, k, Seated

(* A list that can be grouped makes a round that is even. *)
LEMMA RoundIsEven ==
  ASSUME BaseInv, NEW p \in Pools, NEW list, OnePlaceList(list), Groupable(list)
  PROVE  Even(SeatsOf(NewRound(p, list), p))
<1> DEFINE new == NewRound(p, list)
           n == Size(list)
           k == GroupCount(n)
           seats == SeatsOf(new, p)
<1>1. IsList(list) /\ n \in Nat /\ n >= 2 /\ format \in FfaFormats
  BY DEF OnePlaceList, IsList, Groupable, BaseInv, FfaShape
<1>2. /\ NewOf(new, p) = DOMAIN new /\ Cardinality(DOMAIN new) = k
      /\ \A m \in DOMAIN new : m[3] \in 1..k /\ DOMAIN new[m].placement = Group(list, m[3])
      /\ UNION {DOMAIN new[m].placement : m \in DOMAIN new} = DOMAIN list
  BY <1>1, NewRoundIs
<1>3. /\ DOMAIN seats = DOMAIN new
      /\ \A m \in DOMAIN new : seats[m] = Group(list, m[3])
      /\ UNION {seats[m] : m \in DOMAIN seats} = DOMAIN list
  BY <1>2 DEF SeatsOf
<1>4. (k - 1) * format.max < n
  <2>1. n \in Nat \ {0}
    BY <1>1
  <2> HIDE DEF n
  <2> QED
    BY <1>1, <2>1, GroupsSuffice
<1> DEFINE q == n \div k
<1>5. ASSUME NEW g \in 1..k
      PROVE  /\ Cardinality(Group(list, g)) \in {q, q + 1} /\ q \in Nat
             /\ Cardinality(Group(list, g)) <= format.max
             /\ Cardinality(Group(list, g)) >= format.min
  <2>1. n # 0
    BY <1>1
  <2> QED
    BY <1>1, <2>1, GroupSizes DEF Groupable
<1>6. format.min \in Nat /\ format.max \in Nat
  BY <1>1, FormatsChecked
<1> HIDE DEF new, k, q, seats
<1>7. ASSUME NEW m \in DOMAIN seats
      PROVE  /\ SizeOf(seats, m) \in {q, q + 1} /\ q \in Nat
             /\ SizeOf(seats, m) \in format.min..format.max
  <2>1. SizeOf(seats, m) = Cardinality(Group(list, m[3])) /\ m[3] \in 1..k
    BY <1>2, <1>3 DEF SizeOf
  <2> QED
    BY <1>5, <1>6, <2>1
<1>8. Cardinality(UNION {seats[m] : m \in DOMAIN seats}) = n
  BY <1>3 DEF Size
<1>9. \A m, o \in DOMAIN seats : SizeOf(seats, m) <= SizeOf(seats, o) + 1
  BY <1>7
<1>10. (Cardinality(DOMAIN seats) - 1) * format.max
         < Cardinality(UNION {seats[m] : m \in DOMAIN seats})
  BY <1>2, <1>3, <1>4, <1>8
<1>11. Even(seats)
  BY <1>7, <1>9, <1>10 DEF Even
<1> QED
  BY <1>11 DEF seats, new

(* The first seeds are put into different groups. *)
LEMMA FirstSeedsApart ==
  ASSUME BaseInv, NEW p \in Pools, Groupable(BySeed(Active))
  PROVE  SeedsApart(SeatsOf(NewRound(p, BySeed(Active)), p))
<1> DEFINE list == BySeed(Active)
           new == NewRound(p, list)
           n == Size(list)
           k == GroupCount(n)
           seats == SeatsOf(new, p)
<1>1. Active \in SUBSET Contestants
  BY DEF Active
<1>2. OnePlaceList(list) /\ DOMAIN list = Active
  BY <1>1, SeededPlaces, SeededList
<1>3. IsList(list) /\ n \in Nat \ {0} /\ format \in FfaFormats
  BY <1>2 DEF OnePlaceList, IsList, Groupable, BaseInv, FfaShape
<1>4. /\ NewOf(new, p) = DOMAIN new /\ Cardinality(DOMAIN new) = k
      /\ \A m \in DOMAIN new : m[3] \in 1..k /\ DOMAIN new[m].placement = Group(list, m[3])
  BY <1>3, NewRoundIs
<1>5. DOMAIN seats = DOMAIN new /\ \A m \in DOMAIN new : seats[m] = Group(list, m[3])
  BY <1>4 DEF SeatsOf
<1>6. k \in Nat \ {0}
  BY <1>3, GroupsSuffice
<1>7. ASSUME NEW c \in Active, Seed[c] <= k
      PROVE  list[c] \in 1..k
  <2> DEFINE T == {d \in Active : Seed[d] < Seed[c]}
             below == 1..(Seed[c] - 1)
             seed == [d \in T |-> Seed[d]]
  <2>1. Seed[c] \in Nat \ {0} /\ c \in Contestants
    BY <1>1, SeedsDiffer
  <2>2. seed \in Injection(T, below)
    <3>1. \A d \in T : Seed[d] \in below
      BY <1>1, <2>1, SeedsDiffer
    <3>2. \A d, e \in T : Seed[d] = Seed[e] => d = e
      BY <1>1, SeedsDiffer
    <3> QED
      BY <3>1, <3>2 DEF Injection, IsInjective
  <2>3. IsFiniteSet(below) /\ Cardinality(below) = Seed[c] - 1
    <3>1. Seed[c] - 1 \in Int /\ 1 \in Int /\ Seed[c] - 1 >= 0
      BY <2>1
    <3>2. /\ IsFiniteSet(1..(Seed[c] - 1))
          /\ Cardinality(1..(Seed[c] - 1))
               = IF 1 > Seed[c] - 1 THEN 0 ELSE (Seed[c] - 1) - 1 + 1
      BY ONLY <3>1, FS_Interval
    <3> QED
      BY <3>1, <3>2
  <2> HIDE DEF below, seed
  <2>4. Cardinality(T) <= Seed[c] - 1 /\ Cardinality(T) \in Nat
    BY <1>1, <2>2, <2>3, FS_Injection, Few
  <2>5. list[c] = 1 + Cardinality(T)
    BY <1>7 DEF BySeed, Listed
  <2> HIDE DEF list, T, k
  <2> QED
    BY <1>6, <1>7, <2>1, <2>4, <2>5
<1>8. ASSUME NEW i \in 1..k PROVE GroupOf(i, n) = i
  <2> HIDE DEF n
  <2>1. i - 1 = k * 0 + (i - 1) /\ i - 1 \in 0..(k - 1)
    BY <1>6
  <2>2. (k * 0 + (i - 1)) \div k = 0 /\ (k * 0 + (i - 1)) % k = i - 1
    <3> HIDE DEF k
    <3> QED
      BY <1>6, <2>1, OneDivision
  <2>3. (i - 1) \div k = 0 /\ (i - 1) % k = i - 1
    BY <2>1, <2>2
  <2> QED
    BY <2>3 DEF GroupOf
<1> HIDE DEF list, new, n, k, seats
<1>9. ASSUME NEW m \in DOMAIN seats, NEW c \in seats[m], NEW d \in seats[m],
             Seed[c] <= k, Seed[d] <= k
      PROVE  c = d
  <2>1. c \in Active /\ d \in Active /\ GroupOf(list[c], n) = GroupOf(list[d], n)
    BY <1>2, <1>5 DEF Group, n
  <2>2. list[c] = list[d]
    BY <1>7, <1>8, <1>9, <2>1
  <2> QED
    BY <1>2, <2>1, <2>2 DEF OnePlaceList
<1>10. SeedsApart(seats)
  BY <1>4, <1>5, <1>9 DEF SeedsApart
<1> QED
  BY <1>10 DEF seats, new, list

\* Nobody is in the latest rounds of both pools.
PoolsSplit == In(Latest("WB")) \cap In(Latest("LB")) = {}

(* Groups stay as they are as long as nobody leaves. *)
LEMMA SameEven ==
  ASSUME NEW R, NEW S, format' = format, Seats(S)' = Seats(R)
  PROVE  /\ Even(Seats(R)) => Even(Seats(S))'
         /\ SeedsApart(Seats(R)) => SeedsApart(Seats(S))'
<1> DEFINE before == Seats(R)
           after == Seats(S)'
<1>1. after = before
  OBVIOUS
<1>2. Even(Seats(S))' <=>
        /\ \A m \in DOMAIN after : Cardinality(after[m]) \in format.min..format.max
        /\ \A m, n \in DOMAIN after : Cardinality(after[m]) <= Cardinality(after[n]) + 1
        /\ (Cardinality(DOMAIN after) - 1) * format.max
             < Cardinality(UNION {after[m] : m \in DOMAIN after})
  BY DEF Even, SizeOf
<1>3. Even(Seats(R)) <=>
        /\ \A m \in DOMAIN before : Cardinality(before[m]) \in format.min..format.max
        /\ \A m, n \in DOMAIN before : Cardinality(before[m]) <= Cardinality(before[n]) + 1
        /\ (Cardinality(DOMAIN before) - 1) * format.max
             < Cardinality(UNION {before[m] : m \in DOMAIN before})
  BY DEF Even, SizeOf
<1>4. SeedsApart(Seats(S))' <=>
        \A m \in DOMAIN after : \A c, d \in after[m] :
          Seed[c] <= Cardinality(DOMAIN after) /\ Seed[d] <= Cardinality(DOMAIN after) => c = d
  BY DEF SeedsApart
<1>5. SeedsApart(Seats(R)) <=>
        \A m \in DOMAIN before : \A c, d \in before[m] :
          Seed[c] <= Cardinality(DOMAIN before) /\ Seed[d] <= Cardinality(DOMAIN before) => c = d
  BY DEF SeedsApart
<1> HIDE DEF after, before
<1> QED
  BY <1>1, <1>2, <1>3, <1>4, <1>5

LEMMA TouchedEven ==
  ASSUME BaseInv, RoundsEven, PoolsSplit, Touched
  PROVE  RoundsEven' /\ PoolsSplit'
<1>1. PoolsSplit'
  BY TouchedIn DEF PoolsSplit
<1>2. RoundsEven'
  <2> SUFFICES ASSUME Everybody', NEW m \in DOMAIN matches', m[1] # "GF"
               PROVE  /\ Even(Seats(RoundOf(m[1], m[2])))'
                      /\ m[1] \in {"MAIN", "WB"} /\ m[2] = 0 =>
                           SeedsApart(Seats(RoundOf(m[1], m[2])))'
    BY DEF RoundsEven
  <2>1. format' = format /\ DOMAIN matches' = DOMAIN matches /\ Active' \subseteq Active
    BY DEF Touched
  <2>2. Everyone' = Everyone /\ Active \subseteq Everyone
    BY <2>1 DEF Everyone, BaseInv, Entrants
  <2>3. Everybody /\ Active' = Everyone
    BY <2>1, <2>2 DEF Everybody
  <2>4. ASSUME NEW n \in DOMAIN matches PROVE Who(n)' = Who(n)
    BY <2>3 DEF Touched, BaseInv, Entrants
  <2> DEFINE R == RoundOf(m[1], m[2])
  <2>5. RoundOf(m[1], m[2])' = R /\ R \subseteq DOMAIN matches
    BY <2>1, SameRounds DEF RoundOf, Pool
  <2>6. Seats(RoundOf(m[1], m[2]))' = Seats(R)
    BY <2>4, <2>5 DEF Seats
  <2>7. Even(Seats(R)) /\ (m[1] \in {"MAIN", "WB"} /\ m[2] = 0 => SeedsApart(Seats(R)))
    BY <2>1, <2>3 DEF RoundsEven
  <2> QED
    BY <2>1, <2>6, <2>7, SameEven
<1> QED
  BY <1>1, <1>2

\* New rounds are as even as all are.
NewEven(new) ==
  \A p \in {"MAIN", "WB", "LB"} : NewOf(new, p) # {} =>
    /\ Even(SeatsOf(new, p))
    /\ p \in {"MAIN", "WB"} /\ NextRound(p) = 0 => SeedsApart(SeatsOf(new, p))

LEMMA GrownEven ==
  ASSUME BaseInv, RoundsEven, NEW new, Growth(new), matches' = Added(matches, new),
         UNCHANGED <<format, roster>>, NewEven(new)
  PROVE  RoundsEven'
<1>0. FfaShape /\ RoundsInOrder
  BY DEF BaseInv
<1> SUFFICES ASSUME Everybody', NEW m \in DOMAIN matches', m[1] # "GF"
             PROVE  /\ Even(Seats(RoundOf(m[1], m[2])))'
                    /\ m[1] \in {"MAIN", "WB"} /\ m[2] = 0 =>
                         SeedsApart(Seats(RoundOf(m[1], m[2])))'
  BY DEF RoundsEven
<1>1. /\ DOMAIN matches' = DOMAIN matches \cup DOMAIN new
      /\ \A n \in DOMAIN matches : Who(n)' = Who(n)
      /\ \A n \in DOMAIN new : Who(n)' = DOMAIN new[n].placement
  BY <1>0, Grown
<1>2. Everybody
  BY DEF Everybody, Active, Everyone
<1>3. CASE m \in DOMAIN matches
  <2> DEFINE R == RoundOf(m[1], m[2])
  <2>1. RoundOf(m[1], m[2])' = R
    BY <1>0, <1>3, RoundBehind, GrownRounds
  <2>2. R \subseteq DOMAIN matches
    BY DEF RoundOf, Pool
  <2>3. Seats(RoundOf(m[1], m[2]))' = Seats(R)
    BY <1>1, <2>1, <2>2 DEF Seats
  <2>4. Even(Seats(R)) /\ (m[1] \in {"MAIN", "WB"} /\ m[2] = 0 => SeedsApart(Seats(R)))
    BY <1>2, <1>3 DEF RoundsEven
  <2> QED
    BY <2>3, <2>4, SameEven
<1>4. CASE m \in DOMAIN new
  <2> DEFINE p == m[1]
             seats == SeatsOf(new, p)
  <2>1. m[2] = NextRound(p) /\ p \in Pools /\ m \in NewOf(new, p)
    BY <1>4 DEF Growth, Keys, NewOf
  <2>2. p \in {"MAIN", "WB", "LB"}
    BY <2>1 DEF Pools
  <2>3. NextRound(p)' = NextRound(p) + 1 /\ Latest(p)' = NewOf(new, p) /\ NextRound(p) \in Nat
    BY <1>0, <2>1, GrownRounds DEF RoundsInOrder
  <2>4. RoundOf(m[1], m[2])' = NewOf(new, p)
    BY <2>1, <2>3 DEF Latest, RoundOf
  <2>5. Seats(RoundOf(m[1], m[2]))' = seats
    BY <1>1, <2>4 DEF Seats, SeatsOf, NewOf
  <2>6. Even(seats) /\ (m[1] \in {"MAIN", "WB"} /\ m[2] = 0 => SeedsApart(seats))
    BY <2>1, <2>2 DEF NewEven
  <2> HIDE DEF seats
  <2>7. Even(Seats(RoundOf(m[1], m[2])))'
    <3> DEFINE after == Seats(RoundOf(m[1], m[2]))'
    <3>1. Even(Seats(RoundOf(m[1], m[2])))' <=>
            /\ \A n \in DOMAIN after : Cardinality(after[n]) \in format.min..format.max
            /\ \A u, n \in DOMAIN after : Cardinality(after[u]) <= Cardinality(after[n]) + 1
            /\ (Cardinality(DOMAIN after) - 1) * format.max
                 < Cardinality(UNION {after[n] : n \in DOMAIN after})
      BY DEF Even, SizeOf
    <3>2. after = seats
      BY <2>5
    <3> HIDE DEF after
    <3> QED
      BY <2>6, <3>1, <3>2 DEF Even, SizeOf
  <2>8. ASSUME m[1] \in {"MAIN", "WB"}, m[2] = 0
        PROVE  SeedsApart(Seats(RoundOf(m[1], m[2])))'
    <3> DEFINE after == Seats(RoundOf(m[1], m[2]))'
    <3>1. SeedsApart(Seats(RoundOf(m[1], m[2])))' <=>
            \A n \in DOMAIN after : \A c, d \in after[n] :
              Seed[c] <= Cardinality(DOMAIN after) /\ Seed[d] <= Cardinality(DOMAIN after)
                => c = d
      BY DEF SeedsApart
    <3>2. after = seats
      BY <2>5
    <3> HIDE DEF after
    <3> QED
      BY <2>6, <2>8, <3>1, <3>2 DEF SeedsApart
  <2> QED
    BY <2>7, <2>8
<1> QED
  BY <1>1, <1>3, <1>4

(* A pool of its own mode only. *)
LEMMA NoOtherPools ==
  ASSUME BaseInv
  PROVE  /\ format.mode = "SE" => In(Latest("WB")) = {} /\ In(Latest("LB")) = {}
         /\ format.mode \in {"SE", "DE"}
<1>1. format.mode \in {"SE", "DE"}
  BY FormatsChecked DEF BaseInv, FfaShape
<1>2. format.mode = "SE" => Pool("WB") = {} /\ Pool("LB") = {}
  BY DEF BaseInv, PoolsOfMode, Pool
<1> QED
  BY <1>1, <1>2 DEF Latest, RoundOf, In

LEMMA GenerateEven ==
  ASSUME BaseInv, RoundsEven, PoolsSplit, GenerateRound
  PROVE  RoundsEven' /\ PoolsSplit'
<1> DEFINE p == IF format.mode = "DE" THEN "WB" ELSE "MAIN"
           list == BySeed(Active)
           new == NewRound(p, list)
<1>1. /\ matches' = Added(matches, new) /\ Groupable(list) /\ BeforeLosers
      /\ UNCHANGED <<format, roster>>
  BY DEF GenerateRound, Create
<1>2. Active \in SUBSET Contestants /\ Active \subseteq Everyone
  BY DEF Active, BaseInv, Entrants
<1>3. OnePlaceList(list) /\ IsList(list) /\ DOMAIN list = Active
  BY <1>2, SeededPlaces, SeededList
<1>4. p \in Pools /\ p # "GF" /\ (format.mode = "SE" => p = "MAIN")
      /\ (format.mode = "DE" => p \in {"WB", "LB"}) /\ p # "LB"
  BY DEF Pools
<1>5. SeedsApart(SeatsOf(new, p))
  BY <1>1, <1>4, FirstSeedsApart
<1> HIDE DEF p, list
<1>6. Growth(new) /\ \A m \in DOMAIN new : m[1] = p
  BY <1>2, <1>3, <1>4, NewRoundGrows
<1>7. Even(SeatsOf(new, p))
  BY <1>1, <1>3, <1>4, RoundIsEven
<1> HIDE DEF new
<1>8. \A q : q # p => NewOf(new, q) = {}
  BY <1>6 DEF NewOf
<1>9. NewEven(new)
  BY <1>5, <1>7, <1>8 DEF NewEven
<1>10. RoundsEven'
  BY <1>1, <1>6, <1>9, GrownEven
<1>11. In(Latest("LB"))' = {}
  <2>1. In(Latest("LB"))' = In(Latest("LB"))
    BY <1>1, <1>4, <1>6, <1>8, GrownIn DEF BaseInv, Pools
  <2> QED
    BY <1>1, <2>1 DEF BeforeLosers, Latest, RoundOf, In
<1> QED
  BY <1>10, <1>11 DEF PoolsSplit

(* The best of a pool go on in a round of their own. *)
LEMMA BestEven ==
  ASSUME BaseInv, NEW p \in {"MAIN", "WB", "LB"}, NEW S \in SUBSET In(Latest(p)),
         format.mode = "SE" => p = "MAIN", format.mode = "DE" => p \in {"WB", "LB"},
         Groupable(InTurn(Latest(p), S)), Finished(Latest(p))
  PROVE  LET new == NewRound(p, InTurn(Latest(p), S))
         IN  /\ Growth(new) /\ OnlyOf(new, p) /\ NewOf(new, p) = DOMAIN new /\ DOMAIN new # {}
             /\ Even(SeatsOf(new, p)) /\ NextRound(p) # 0
             /\ UNION {DOMAIN new[m].placement : m \in DOMAIN new} = S
<1> DEFINE list == InTurn(Latest(p), S)
           new == NewRound(p, list)
<1>1. Latest(p) \subseteq DOMAIN matches /\ In(Latest(p)) \subseteq Everyone
  BY InMatches DEF BaseInv, Entrants, In, Latest, RoundOf, Pool
<1>2. OnePlaceList(list) /\ IsList(list) /\ DOMAIN list = S
  BY <1>1, LatestPlaces, LatestInTurn
<1>3. p \in Pools /\ p # "GF" /\ Groupable(list) /\ S \subseteq Everyone
  BY <1>1 DEF Pools
<1>4. NextRound(p) # 0
  <2>1. PICK m \in Latest(p) : TRUE
    BY DEF Finished
  <2>2. m \in DOMAIN matches /\ m[1] = p
    BY <2>1 DEF Latest, RoundOf, Pool
  <2> QED
    BY <2>2, RoundBehind DEF BaseInv
<1> HIDE DEF list
<1>5. /\ Growth(new)
      /\ DOMAIN list # {} => DOMAIN new # {}
  BY <1>2, <1>3, NewRoundGrows
<1>6. Even(SeatsOf(new, p))
  BY <1>2, <1>3, RoundIsEven
<1>7. /\ NewOf(new, p) = DOMAIN new /\ OnlyOf(new, p)
      /\ UNION {DOMAIN new[m].placement : m \in DOMAIN new} = S
  BY <1>2, <1>3, NewRoundIs
<1>8. DOMAIN list # {}
  BY <1>3, GroupableIsThere
<1> HIDE DEF new
<1>9. Growth(new)
  BY <1>5
<1>10. DOMAIN new # {}
  BY <1>5, <1>8
<1> QED
  BY <1>4, <1>6, <1>7, <1>9, <1>10 DEF new, list

LEMMA AdvanceSingleEven ==
  ASSUME BaseInv, RoundsEven, PoolsSplit, AdvanceSingle
  PROVE  RoundsEven' /\ PoolsSplit'
<1> DEFINE S == Up(Latest("MAIN"))
           new == NewRound("MAIN", InTurn(Latest("MAIN"), S))
<1>1. /\ matches' = Added(matches, new) /\ Groupable(InTurn(Latest("MAIN"), S))
      /\ UNCHANGED <<format, roster>> /\ format.mode = "SE" /\ Finished(Latest("MAIN"))
  BY DEF AdvanceSingle, Create, Ready
<1>2. S \in SUBSET In(Latest("MAIN"))
  BY InMatches DEF Latest, RoundOf, Pool
<1>3. /\ Growth(new) /\ OnlyOf(new, "MAIN") /\ NewOf(new, "MAIN") = DOMAIN new
      /\ Even(SeatsOf(new, "MAIN")) /\ NextRound("MAIN") # 0
  BY <1>1, <1>2, BestEven
<1> HIDE DEF new
<1>4. NewOf(new, "WB") = {} /\ NewOf(new, "LB") = {}
  BY <1>3 DEF OnlyOf, NewOf
<1>5. RoundsEven'
  BY <1>1, <1>3, <1>4, GrownEven DEF NewEven
<1>6. In(Latest("WB"))' = In(Latest("WB")) /\ In(Latest("LB"))' = In(Latest("LB"))
  BY <1>1, <1>3, <1>4, GrownIn DEF BaseInv, Pools
<1> QED
  BY <1>5, <1>6 DEF PoolsSplit

LEMMA AdvanceLosersEven ==
  ASSUME BaseInv, RoundsEven, PoolsSplit, AdvanceLosers
  PROVE  RoundsEven' /\ PoolsSplit'
<1> DEFINE S == Up(Latest("LB"))
           new == NewRound("LB", InTurn(Latest("LB"), S))
<1>1. /\ matches' = Added(matches, new) /\ Groupable(InTurn(Latest("LB"), S))
      /\ UNCHANGED <<format, roster>> /\ format.mode = "DE" /\ Finished(Latest("LB"))
  BY DEF AdvanceLosers, Create, Ready
<1>2. S \in SUBSET In(Latest("LB"))
  BY InMatches DEF Latest, RoundOf, Pool
<1>3. /\ Growth(new) /\ OnlyOf(new, "LB") /\ NewOf(new, "LB") = DOMAIN new /\ DOMAIN new # {}
      /\ Even(SeatsOf(new, "LB"))
      /\ UNION {DOMAIN new[m].placement : m \in DOMAIN new} = S
  BY <1>1, <1>2, BestEven
<1> HIDE DEF new
<1>4. NewOf(new, "WB") = {} /\ NewOf(new, "MAIN") = {}
  BY <1>3 DEF OnlyOf, NewOf
<1>5. RoundsEven'
  BY <1>1, <1>3, <1>4, GrownEven DEF NewEven
<1>6. In(Latest("WB"))' = In(Latest("WB")) /\ In(Latest("LB"))' = S
  <2>1. In(Latest("WB"))' = In(Latest("WB"))
    BY <1>1, <1>3, <1>4, GrownIn DEF BaseInv, Pools
  <2>2. In(Latest("LB"))' = UNION {DOMAIN new[m].placement : m \in NewOf(new, "LB")}
    BY <1>1, <1>3, GrownIn DEF BaseInv, Pools
  <2> QED
    BY <1>3, <2>1, <2>2
<1> QED
  BY <1>2, <1>5, <1>6 DEF PoolsSplit

LEMMA AdvanceWinnersEven ==
  ASSUME BaseInv, RoundsEven, PoolsSplit, AdvanceWinners
  PROVE  RoundsEven' /\ PoolsSplit'
<1> DEFINE S == Up(Latest("WB"))
           down == Dropped(Latest("WB"))
           still == Survivors("LB")
           upper == NewRound("WB", InTurn(Latest("WB"), S))
           lower == NewRound("LB", Losers)
           new == Added(upper, lower)
<1>1. /\ matches' = Added(matches, new) /\ Groupable(InTurn(Latest("WB"), S))
      /\ DOMAIN Losers # {} => Groupable(Losers)
      /\ UNCHANGED <<format, roster>> /\ format.mode = "DE" /\ Finished(Latest("WB"))
  BY DEF AdvanceWinners, Create, Ready
<1>2. /\ S \in SUBSET In(Latest("WB")) /\ down \in SUBSET In(Latest("WB"))
      /\ still \in SUBSET In(Latest("LB")) /\ down \subseteq Everyone /\ still \subseteq Everyone
  BY InMatches DEF Latest, RoundOf, Pool
<1>3. S \cap down = {}
  BY DroppedDown DEF Down
<1>4. down \cap still = {}
  BY <1>2 DEF PoolsSplit
<1>5. /\ Growth(upper) /\ OnlyOf(upper, "WB") /\ DOMAIN upper # {} /\ NewOf(upper, "WB") = DOMAIN upper
      /\ Even(SeatsOf(upper, "WB")) /\ NextRound("WB") # 0
      /\ UNION {DOMAIN upper[m].placement : m \in DOMAIN upper} = S
  BY <1>1, <1>2, BestEven
<1>6. OnePlaceList(Losers) /\ DOMAIN Losers = down \cup still
  <2> DEFINE falling == InTurn(Latest("WB"), down)
             staying == InTurn(Latest("LB"), still)
  <2>1. /\ OnePlaceList(falling) /\ OnePlaceList(staying)
        /\ DOMAIN falling = down /\ DOMAIN staying = still
    BY <1>2, LatestPlaces, LatestInTurn
  <2>2. Losers = Joined(falling, staying)
    BY DEF Losers
  <2> HIDE DEF falling, staying, down, still
  <2>3. IsList(falling) /\ IsList(staying) /\ DOMAIN falling \cap DOMAIN staying = {}
    BY <1>4, <2>1 DEF OnePlaceList
  <2>4. OnePlaceList(Joined(falling, staying))
    BY <2>1, <2>3, JoinedPlaces
  <2>5. DOMAIN Joined(falling, staying) = down \cup still
    BY <2>1, <2>3, JoinedList
  <2> QED
    BY <2>2, <2>4, <2>5
<1>7. /\ Growth(lower) /\ OnlyOf(lower, "LB") /\ NewOf(lower, "LB") = DOMAIN lower
      /\ UNION {DOMAIN lower[m].placement : m \in DOMAIN lower} = down \cup still
      /\ DOMAIN Losers = {} => DOMAIN lower = {}
  <2>1. "LB" \in Pools /\ DOMAIN Losers \subseteq Everyone /\ IsList(Losers)
    BY <1>2, <1>6 DEF Pools, OnePlaceList
  <2>2. /\ Growth(NewRound("LB", Losers))
        /\ DOMAIN Losers = {} => DOMAIN NewRound("LB", Losers) = {}
    BY <1>1, <2>1, NewRoundGrows
  <2>3. /\ OnlyOf(NewRound("LB", Losers), "LB")
        /\ NewOf(NewRound("LB", Losers), "LB") = DOMAIN NewRound("LB", Losers)
        /\ UNION {DOMAIN NewRound("LB", Losers)[m].placement : m \in DOMAIN NewRound("LB", Losers)}
             = DOMAIN Losers
    BY <2>1, NewRoundIs
  <2> QED
    BY <1>6, <2>2, <2>3
<1>8. DOMAIN lower # {} => Even(SeatsOf(lower, "LB"))
  <2>1. "LB" \in Pools
    BY DEF Pools
  <2> QED
    BY <1>1, <1>6, <1>7, <2>1, RoundIsEven
<1> HIDE DEF S, down, still, upper, lower
<1>9. /\ Growth(new)
      /\ NewOf(new, "WB") = DOMAIN upper /\ NewOf(new, "LB") = DOMAIN lower
      /\ \A m \in DOMAIN upper : new[m] = upper[m]
      /\ \A m \in DOMAIN lower : new[m] = lower[m]
  <2> DEFINE p == "WB"
             q == "LB"
  <2>1. p # q /\ OnlyOf(upper, p) /\ OnlyOf(lower, q) /\ Growth(upper) /\ Growth(lower)
        /\ FfaShape /\ RoundsInOrder
    BY <1>5, <1>7 DEF BaseInv
  <2> HIDE DEF p, q
  <2>2. /\ Growth(Added(upper, lower))
        /\ NewOf(Added(upper, lower), p) = DOMAIN upper
        /\ NewOf(Added(upper, lower), q) = DOMAIN lower
        /\ \A m \in DOMAIN upper : Added(upper, lower)[m] = upper[m]
        /\ \A m \in DOMAIN lower : Added(upper, lower)[m] = lower[m]
    BY <2>1, TwoRoundsGrow
  <2> QED
    BY <2>2 DEF p, q
<1> HIDE DEF new
<1>10. /\ SeatsOf(new, "WB") = SeatsOf(upper, "WB") /\ SeatsOf(new, "LB") = SeatsOf(lower, "LB")
  BY <1>5, <1>7, <1>9 DEF SeatsOf
<1>11. NewOf(new, "MAIN") = {}
  BY <1>1, <1>9 DEF NewOf, Growth
<1>12. NewEven(new)
  BY <1>5, <1>8, <1>9, <1>10, <1>11 DEF NewEven
<1>13. RoundsEven'
  BY <1>1, <1>9, <1>12, GrownEven
<1>14. In(Latest("WB"))' = S
  <2>1. In(Latest("WB"))' = UNION {DOMAIN new[m].placement : m \in DOMAIN upper}
    BY <1>1, <1>5, <1>9, GrownIn DEF BaseInv, Pools
  <2>2. UNION {DOMAIN new[m].placement : m \in DOMAIN upper}
          = UNION {DOMAIN upper[m].placement : m \in DOMAIN upper}
    BY <1>9
  <2> QED
    BY <1>5, <2>1, <2>2
<1>15. CASE DOMAIN lower = {}
  <2>1. In(Latest("LB"))' = In(Latest("LB"))
    BY <1>1, <1>9, <1>15, GrownIn DEF BaseInv, Pools
  <2> QED
    BY <1>2, <1>13, <1>14, <2>1 DEF PoolsSplit
<1>16. CASE DOMAIN lower # {}
  <2>1. In(Latest("LB"))' = UNION {DOMAIN new[m].placement : m \in DOMAIN lower}
    BY <1>1, <1>9, <1>16, GrownIn DEF BaseInv, Pools
  <2>2. UNION {DOMAIN new[m].placement : m \in DOMAIN lower}
          = UNION {DOMAIN lower[m].placement : m \in DOMAIN lower}
    BY <1>9
  <2>3. In(Latest("LB"))' = down \cup still
    BY <1>7, <2>1, <2>2
  <2> QED
    BY <1>2, <1>3, <1>13, <1>14, <2>3 DEF PoolsSplit
<1> QED
  BY <1>15, <1>16

LEMMA GrandFinalEven ==
  ASSUME BaseInv, RoundsEven, PoolsSplit, GenerateGrandFinal
  PROVE  RoundsEven' /\ PoolsSplit'
<1>1. PICK new : /\ Growth(new) /\ matches' = Added(matches, new)
                 /\ NewOf(new, "GF") = DOMAIN new
  BY GrandFinalDoes
<1>2. \A p \in {"MAIN", "WB", "LB"} : NewOf(new, p) = {}
  BY <1>1 DEF NewOf
<1>3. UNCHANGED <<format, roster>>
  BY DEF GenerateGrandFinal
<1>4. RoundsEven'
  BY <1>1, <1>2, <1>3, GrownEven DEF NewEven
<1>5. In(Latest("WB"))' = In(Latest("WB")) /\ In(Latest("LB"))' = In(Latest("LB"))
  BY <1>1, <1>2, GrownIn DEF BaseInv, Pools
<1> QED
  BY <1>4, <1>5 DEF PoolsSplit

(* What the invariants say of types is what FfaTypeOK does. *)
LEMMA TypeIs ==
  ASSUME RecordInv, ScoresOfResults, RoundsEven
  PROVE  FfaTypeOK
<1>0. BaseInv /\ FfaShape /\ Apart /\ RoundsInOrder /\ Entrants /\ Recorded
  BY DEF RecordInv, BaseInv
<1>1. format.players \in Nat
  BY <1>0, FormatsChecked DEF FfaShape
<1>2. ASSUME NEW m \in DOMAIN matches
      PROVE  /\ m[1] \in {"MAIN", "WB", "LB", "GF"}
             /\ matches[m].confirmed \in BOOLEAN
             /\ matches[m].placement \in [Who(m) -> 0..format.players]
             /\ Who(m) \subseteq Contestants
             /\ \A r \in 0..m[2] : RoundOf(m[1], r) # {}
             /\ \A g \in 1..m[3] : <<m[1], m[2], g>> \in DOMAIN matches
             /\ \A n \in RoundOf(m[1], m[2]) \ {m} : Who(m) \cap Who(n) = {}
  <2>1. /\ m[1] \in Pools /\ matches[m].confirmed \in BOOLEAN /\ Who(m) \subseteq Contestants
        /\ matches[m].placement \in [Who(m) -> Nat] /\ m[2] \in Nat
    BY <1>0, MatchShape
  <2>2. matches[m].placement \in [Who(m) -> 0..format.players]
    BY <1>0, <1>1, <2>1 DEF Entrants
  <2>3. ASSUME NEW r \in 0..m[2] PROVE RoundOf(m[1], r) # {}
    <3>1. m[2] \in 0..(NextRound(m[1]) - 1) /\ NextRound(m[1]) \in Nat
      BY <1>0, RoundBehind
    <3>2. r \in Rounds(m[1])
      BY <1>0, <2>1, <3>1 DEF RoundsInOrder
    <3> QED
      BY <3>2 DEF Rounds, RoundOf
  <2>4. \A n \in RoundOf(m[1], m[2]) \ {m} : Who(m) \cap Who(n) = {}
    BY <1>0 DEF Apart, RoundOf, Pool
  <2>5. \A g \in 1..m[3] : <<m[1], m[2], g>> \in DOMAIN matches
    BY <1>0 DEF RoundsInOrder
  <2> QED
    BY <2>1, <2>2, <2>3, <2>4, <2>5 DEF Pools
<1>3. GroupsBalanced
  BY BalancedIs
<1>4. /\ format \in FfaFormats
      /\ tournament.status \in Statuses /\ tournament.winner \in Contestants \cup {None}
      /\ roster \in [Contestants -> {"active", "removed", "gone"}]
      /\ generation \in 0..format.generations /\ retractions \in 0..format.retractions
      /\ basis \cup overtaken \subseteq DOMAIN matches
  BY <1>0 DEF FfaShape, Recorded
<1> QED
  BY <1>2, <1>3, <1>4 DEF FfaTypeOK, ScoresOfResults

(* Rounds and groups are numbered without gaps, nobody stands in two groups
   of a round, and the groups of a round are as many as needed, as equal as
   possible and within the limits, with the first seeds in different ones
   (snake_seed_groups, _generate_ffa_round_impl). *)
THEOREM FfaTypesHold == HistorySpec => []FfaTypeOK
<1> DEFINE EvenInv == RecordInv /\ RoundsEven /\ PoolsSplit
<1>1. HistoryInit => EvenInv
  <2> SUFFICES ASSUME HistoryInit PROVE EvenInv
    OBVIOUS
  <2>1. RecordInv /\ DOMAIN matches = {}
    BY RecordInit, BaseInit DEF HistoryInit
  <2>2. \A p : Latest(p) = {}
    BY <2>1 DEF Latest, RoundOf, Pool
  <2> QED
    BY <2>1, <2>2 DEF RoundsEven, PoolsSplit, In
<1>2. EvenInv /\ [HistoryNext]_historyVars => EvenInv'
  <2> SUFFICES ASSUME RecordInv, RoundsEven, PoolsSplit, [HistoryNext]_historyVars
               PROVE  EvenInv'
    OBVIOUS
  <2>0. BaseInv
    BY DEF RecordInv
  <2>1. CASE UNCHANGED historyVars
    BY <2>0, <2>1, StutterTouches, RecordStutter, TouchedEven
  <2>2. CASE HistoryNext
    <3>1. /\ RecordInv'
          /\ \/ GenerateRound \/ AdvanceSingle \/ AdvanceWinners \/ AdvanceLosers
             \/ GenerateGrandFinal \/ Touched
      BY <2>2, RecordNext DEF HistoryNext
    <3>2. CASE Touched
      BY <2>0, <3>1, <3>2, TouchedEven
    <3>3. CASE GenerateRound
      BY <2>0, <3>1, <3>3, GenerateEven
    <3>4. CASE AdvanceSingle
      BY <2>0, <3>1, <3>4, AdvanceSingleEven
    <3>5. CASE AdvanceWinners
      BY <2>0, <3>1, <3>5, AdvanceWinnersEven
    <3>6. CASE AdvanceLosers
      BY <2>0, <3>1, <3>6, AdvanceLosersEven
    <3>7. CASE GenerateGrandFinal
      BY <2>0, <3>1, <3>7, GrandFinalEven
    <3> QED
      BY <3>1, <3>2, <3>3, <3>4, <3>5, <3>6, <3>7
  <2> QED
    BY <2>1, <2>2
<1>3. EvenInv /\ ScoresOfResults => FfaTypeOK
  BY TypeIs
<1> QED
  BY <1>1, <1>2, <1>3, ScoresHold, PTL DEF HistorySpec
=============================================================================
