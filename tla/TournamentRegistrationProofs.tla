--------------------- MODULE TournamentRegistrationProofs ---------------------
(***************************************************************************)
(* Theorems about TournamentRegistration, for any number of users, teams   *)
(* and workers, any limits, and any number of requests: the limits of a    *)
(* tournament, and what holds of teams and users no two requests met over. *)
(***************************************************************************)
EXTENDS TournamentRegistrationHistory, FiniteSetTheorems, TLAPS

-----------------------------------------------------------------------------
(* Types *)

(* What the changes of rows yield are rows. *)
LEMMA RowTypes ==
  ASSUME RegistrationTypeOK
  PROVE  /\ \A rows \in [Users -> Rows] : \A users, teams :
              /\ Detached(rows, teams) \in [Users -> Rows]
              /\ Deleted(rows, users) \in [Users -> Rows]
              /\ Marked(rows, users) \in [Users -> Rows]
              /\ \A playing : Gone(rows, users, playing) \in [Users -> Rows]
         /\ \A teams : \A state \in {"removed", "deleted"} :
              WithoutTeams(teams, state) \in [Teams -> TeamRows]
<1>1. ASSUME NEW rows \in [Users -> Rows], NEW users, NEW teams
      PROVE  /\ Detached(rows, teams) \in [Users -> Rows]
             /\ Deleted(rows, users) \in [Users -> Rows]
             /\ Marked(rows, users) \in [Users -> Rows]
             /\ \A playing : Gone(rows, users, playing) \in [Users -> Rows]
  <2>1. \A u \in Users : [rows[u] EXCEPT !.team = None] \in Rows
    BY DEF Rows
  <2>2. \A u \in Users : [row |-> rows[u].row, state |-> "absent", team |-> None] \in Rows
    BY DEF Rows
  <2>3. \A u \in Users : [rows[u] EXCEPT !.state = "removed"] \in Rows
    BY DEF Rows
  <2>4. Detached(rows, teams) \in [Users -> Rows]
    BY <2>1 DEF Detached
  <2>5. Deleted(rows, users) \in [Users -> Rows]
    BY <2>2 DEF Deleted
  <2>6. Marked(rows, users) \in [Users -> Rows]
    BY <2>3 DEF Marked
  <2> QED
    BY <2>4, <2>5, <2>6 DEF Gone
<1>2. ASSUME NEW teams, NEW state \in {"removed", "deleted"}
      PROVE  WithoutTeams(teams, state) \in [Teams -> TeamRows]
  <2>1. team \in [Teams -> TeamRows]
    BY DEF RegistrationTypeOK
  <2>2. \A t \in Teams : [team[t] EXCEPT !.state = state] \in TeamRows
    BY <2>1 DEF TeamRows
  <2> QED
    BY <2>1, <2>2 DEF WithoutTeams
<1> QED
  BY <1>1, <1>2

(* Giving up locks takes them from nobody else. *)
LEMMA ReleaseType ==
  ASSUME RegistrationTypeOK, NEW w \in Workers
  PROVE  /\ Released(w) \in [Teams \cup {Tournament} -> Workers \cup {None}]
         /\ \A v \in Workers : Released(w)[Tournament] = v => holder[Tournament] = v /\ v # w
<1>1. holder \in [Teams \cup {Tournament} -> Workers \cup {None}]
  BY DEF RegistrationTypeOK
<1>2. None \notin Workers
  BY ValuesDiffer
<1> QED
  BY <1>1, <1>2 DEF Released

(* A request's data is well-formed. *)
LEMMA RequestType ==
  ASSUME RegistrationTypeOK, NEW kind \in Kinds, NEW u \in Users \cup {None},
         NEW t \in Teams \cup {None}
  PROVE  NoRequest \in Asked /\ Request(kind, u, t) \in Asked /\ NoSweep \in Sweeps
<1>1. NoRequest \in Asked
  BY LimitsAreNumbers DEF NoRequest, Asked, Kinds, Statuses
<1>2. NoSweep \in Sweeps
  BY DEF NoSweep, Sweeps
<1>3. (IF u = None THEN 0 ELSE participant[u].row) \in 0..MaxRows
  BY LimitsAreNumbers DEF RegistrationTypeOK, Rows
<1>4. NoRequest.status \in Statuses
  BY DEF NoRequest, Statuses
<1> QED
  BY <1>1, <1>2, <1>3, <1>4 DEF Request, Asked

(* A request that ends leaves well-formed workers, if the rows are. *)
LEMMA AnswerType ==
  ASSUME RegistrationTypeOK, NEW w \in Workers, Answer(w),
         UNCHANGED <<limits, ticketed, requests>>, status' \in Statuses,
         participant' \in [Users -> Rows], team' \in [Teams -> TeamRows]
  PROVE  RegistrationTypeOK'
<1>1. /\ pc \in [Workers -> Labels] /\ request \in [Workers -> Asked]
      /\ sweep \in [Workers -> Sweeps]
      /\ \A v \in Workers : holder[Tournament] = v => pc[v] \in {"commit", "sweep"}
      /\ limits \in Limits /\ ticketed \in SUBSET Users /\ requests \in 0..limits.requests
  BY DEF RegistrationTypeOK
<1>2. NoRequest \in Asked /\ NoSweep \in Sweeps
  BY RequestType DEF Kinds
<1>3. /\ pc' \in [Workers -> Labels] /\ request' \in [Workers -> Asked]
      /\ sweep' \in [Workers -> Sweeps]
  BY <1>1, <1>2 DEF Answer, Labels
<1>4. /\ holder' \in [Teams \cup {Tournament} -> Workers \cup {None}]
      /\ \A v \in Workers : holder'[Tournament] = v => pc'[v] \in {"commit", "sweep"}
  BY <1>1, ReleaseType DEF Answer
<1> QED
  BY <1>1, <1>3, <1>4 DEF RegistrationTypeOK

(* So does one that goes on in another transaction. *)
LEMMA GoOnType ==
  ASSUME RegistrationTypeOK, NEW w \in Workers, NEW next \in Labels, GoOn(w, next),
         UNCHANGED <<limits, status, ticketed, team, requests>>,
         participant' \in [Users -> Rows]
  PROVE  RegistrationTypeOK'
<1>1. /\ pc \in [Workers -> Labels]
      /\ \A v \in Workers : holder[Tournament] = v => pc[v] \in {"commit", "sweep"}
  BY DEF RegistrationTypeOK
<1>2. pc' \in [Workers -> Labels]
  BY <1>1 DEF GoOn
<1>3. /\ holder' \in [Teams \cup {Tournament} -> Workers \cup {None}]
      /\ \A v \in Workers : holder'[Tournament] = v => pc'[v] \in {"commit", "sweep"}
  BY <1>1, ReleaseType DEF GoOn
<1> QED
  BY <1>2, <1>3 DEF RegistrationTypeOK, GoOn

(* A request that begins holds no lock yet. *)
LEMMA BeginType ==
  ASSUME RegistrationTypeOK, NEW w \in Workers, NEW r \in Asked, NEW next \in Labels,
         Begin(w, r, next)
  PROVE  RegistrationTypeOK'
<1>1. /\ pc \in [Workers -> Labels] /\ request \in [Workers -> Asked]
      /\ limits.requests \in Nat /\ requests \in 0..limits.requests
      /\ \A v \in Workers : holder[Tournament] = v => pc[v] \in {"commit", "sweep"}
  BY LimitsAreNumbers DEF RegistrationTypeOK
<1>2. requests' \in 0..limits.requests
  BY <1>1 DEF Begin
<1>3. pc' \in [Workers -> Labels] /\ request' \in [Workers -> Asked]
  BY <1>1 DEF Begin
<1>4. \A v \in Workers : holder'[Tournament] = v => pc'[v] \in {"commit", "sweep"}
  BY <1>1 DEF Begin
<1> QED
  BY <1>2, <1>3, <1>4 DEF RegistrationTypeOK, Begin

(* Every request begins well-formed. *)
LEMMA AskTypes ==
  ASSUME RegistrationTypeOK, NEW w \in Workers, Ask(w)
  PROVE  RegistrationTypeOK'
<1>1. ASSUME NEW kind \in Kinds, NEW u \in Users \cup {None}, NEW t \in Teams \cup {None},
             NEW next \in Labels, Begin(w, Request(kind, u, t), next)
      PROVE  RegistrationTypeOK'
  BY <1>1, RequestType, BeginType
<1>2. ASSUME RequestPurge(w) PROVE RegistrationTypeOK'
  BY <1>1, <1>2 DEF RequestPurge, Kinds, Labels
<1>3. ASSUME NEW s \in Statuses, RequestStatus(w, s) PROVE RegistrationTypeOK'
  <2>1. Request("status", None, None) \in Asked
    BY RequestType DEF Kinds
  <2>2. [Request("status", None, None) EXCEPT !.status = s] \in Asked
    BY <2>1 DEF Asked
  <2> QED
    BY <1>3, <2>2, BeginType DEF RequestStatus, Labels
<1>4. ASSUME NEW u \in Users,
             \/ RequestJoin(w, u) \/ RequestAdd(w, u) \/ RequestLeave(w, u)
             \/ RequestCreateTeam(w, u)
      PROVE  RegistrationTypeOK'
  BY <1>1, <1>4 DEF RequestJoin, RequestAdd, RequestLeave, RequestCreateTeam, Kinds, Labels
<1>5. ASSUME NEW u \in Users, RequestRemove(w, u) PROVE RegistrationTypeOK'
  <2>1. participant[u].team \in Teams \cup {None}
    BY DEF RegistrationTypeOK, Rows
  <2> QED
    BY <1>1, <1>5, <2>1 DEF RequestRemove, Kinds, Labels
<1>6. ASSUME NEW t \in Teams, RequestDeleteTeam(w, t) PROVE RegistrationTypeOK'
  BY <1>1, <1>6 DEF RequestDeleteTeam, Kinds, Labels
<1>7. ASSUME NEW u \in Users, NEW t \in Teams,
             \/ RequestJoinTeam(w, u, t) \/ RequestAddMember(w, u, t)
             \/ RequestLeaveTeam(w, u, t) \/ RequestRemoveMember(w, u, t)
             \/ RequestTransfer(w, u, t)
      PROVE  RegistrationTypeOK'
  BY <1>1, <1>7 DEF RequestJoinTeam, RequestAddMember, RequestLeaveTeam,
                    RequestRemoveMember, RequestTransfer, Kinds, Labels
<1> QED
  BY <1>2, <1>3, <1>4, <1>5, <1>6, <1>7 DEF Ask

(* Writing the team of a participation keeps the rows well-formed. *)
LEMMA WriteTeamType ==
  ASSUME RegistrationTypeOK, NEW w \in Workers, NEW t \in Teams \cup {None}, WriteTeam(w, t)
  PROVE  participant' \in [Users -> Rows]
<1>1. participant \in [Users -> Rows]
  BY DEF RegistrationTypeOK
<1>2. \A u \in Users : [participant[u] EXCEPT !.team = t] \in Rows
  BY <1>1 DEF Rows
<1> QED
  BY <1>1, <1>2 DEF WriteTeam

(* The locks taken are those of requests on the way to their commit. *)
LEMMA LockTypes ==
  ASSUME RegistrationTypeOK, NEW w \in Workers,
         LockTeam(w) \/ LockTournament(w) \/ ListTicketless(w)
  PROVE  RegistrationTypeOK'
<1>0. /\ pc \in [Workers -> Labels] /\ request \in [Workers -> Asked]
      /\ holder \in [Teams \cup {Tournament} -> Workers \cup {None}]
      /\ sweep \in [Workers -> Sweeps] /\ participant \in [Users -> Rows]
      /\ \A v \in Workers : holder[Tournament] = v => pc[v] \in {"commit", "sweep"}
  BY DEF RegistrationTypeOK
<1>1. CASE LockTeam(w)
  <2>1. request[w].team # Tournament
    BY <1>0, ValuesDiffer DEF Asked
  <2>2. /\ holder' \in [Teams \cup {Tournament} -> Workers \cup {None}]
        /\ holder'[Tournament] = holder[Tournament]
    BY <1>0, <1>1, <2>1 DEF LockTeam
  <2>3. pc[w] = "team" /\ pc' = [pc EXCEPT ![w] = "tournament"]
    BY <1>1 DEF LockTeam, At
  <2>4. pc' \in [Workers -> Labels]
    BY <1>0, <2>3 DEF Labels
  <2>5. \A v \in Workers : holder'[Tournament] = v => pc'[v] \in {"commit", "sweep"}
    BY <1>0, <2>2, <2>3
  <2> QED
    BY <1>1, <2>2, <2>4, <2>5 DEF LockTeam, RegistrationTypeOK
<1>2. CASE LockTournament(w)
  <2>1. holder' \in [Teams \cup {Tournament} -> Workers \cup {None}] /\ holder'[Tournament] = w
    BY <1>0, <1>2 DEF LockTournament
  <2>2. pc' \in [Workers -> Labels] /\ pc'[w] = "commit"
    BY <1>0, <1>2 DEF LockTournament, Labels
  <2>3. request' \in [Workers -> Asked]
    <3> DEFINE u == request[w].user
    <3>1. CASE request[w].kind # "create"
      BY <1>0, <1>2, <3>1 DEF LockTournament
    <3>2. CASE request[w].kind = "create"
      <4>1. u \in Users
        BY <1>2, <3>2 DEF LockTournament, Admitted, Active
      <4>2. participant[u].row \in 0..MaxRows
        BY <1>0, <4>1 DEF Rows
      <4>3. [request[w] EXCEPT !.row = participant[u].row] \in Asked
        BY <1>0, <4>2 DEF Asked
      <4> QED
        BY <1>0, <1>2, <3>2, <4>3 DEF LockTournament
    <3> QED
      BY <3>1, <3>2
  <2>4. \A v \in Workers : holder'[Tournament] = v => pc'[v] \in {"commit", "sweep"}
    BY <2>1, <2>2
  <2> QED
    BY <1>2, <2>1, <2>2, <2>3, <2>4 DEF LockTournament, RegistrationTypeOK
<1>3. CASE ListTicketless(w)
  <2>1. holder' \in [Teams \cup {Tournament} -> Workers \cup {None}] /\ holder'[Tournament] = w
    BY <1>0, <1>3 DEF ListTicketless
  <2>2. pc' \in [Workers -> Labels] /\ pc'[w] = "sweep"
    BY <1>0, <1>3 DEF ListTicketless, Labels
  <2>3. sweep' \in [Workers -> Sweeps]
    <3>1. PICK successor \in [Teams -> Users \cup {None}] :
            sweep' = [sweep EXCEPT ![w] =
              [listed |-> {<<u, participant[u].row>> : u \in Ticketless},
               doomed |-> {t \in Teams : Members(t) # {} /\ Members(t) \subseteq Ticketless},
               successor |-> successor, playing |-> Playing]]
      BY <1>3 DEF ListTicketless
    <3>2. \A u \in Ticketless : <<u, participant[u].row>> \in Users \X (0..MaxRows)
      BY <1>0 DEF Ticketless, Active, Rows
    <3>3. [listed |-> {<<u, participant[u].row>> : u \in Ticketless},
           doomed |-> {t \in Teams : Members(t) # {} /\ Members(t) \subseteq Ticketless},
           successor |-> successor, playing |-> Playing] \in Sweeps
      BY <3>2 DEF Sweeps, Playing
    <3> QED
      BY <1>0, <3>1, <3>3
  <2>4. \A v \in Workers : holder'[Tournament] = v => pc'[v] \in {"commit", "sweep"}
    BY <2>1, <2>2
  <2> QED
    BY <1>3, <2>1, <2>2, <2>3, <2>4 DEF ListTicketless, RegistrationTypeOK
<1> QED
  BY <1>1, <1>2, <1>3

(* A row that a registration takes up or inserts is well-formed. *)
LEMMA RegisterType ==
  ASSUME RegistrationTypeOK, NEW w \in Workers, Register(w)
  PROVE  participant' \in [Users -> Rows]
<1> DEFINE u == request[w].user
           row == [row |-> IF participant[u].state = "removed" THEN participant[u].row
                                                               ELSE participant[u].row + 1,
                   state |-> "active", team |-> None]
<1>1. participant \in [Users -> Rows] /\ participant' = [participant EXCEPT ![u] = row]
  BY DEF RegistrationTypeOK, Register
<1>2. ASSUME u \in Users PROVE row \in Rows
  <2>1. participant[u].row \in 0..MaxRows
    BY <1>1, <1>2 DEF Rows
  <2>2. participant[u].state # "removed" => participant[u].row < MaxRows
    BY DEF Register
  <2> QED
    BY <2>1, <2>2, LimitsAreNumbers DEF Rows
<1> HIDE DEF row
<1> QED
  BY <1>1, <1>2

(* Handing a team over keeps the lock only for the removal still under way. *)
LEMMA HandOverType ==
  ASSUME RegistrationTypeOK, NEW w \in Workers, NEW t \in Teams, HandOver(w, t)
  PROVE  RegistrationTypeOK'
<1>0. /\ team \in [Teams -> TeamRows] /\ sweep \in [Workers -> Sweeps]
      /\ \A v \in Workers : holder[Tournament] = v => pc[v] \in {"commit", "sweep"}
  BY DEF RegistrationTypeOK
<1>1. sweep[w].successor \in [Teams -> Users \cup {None}]
  BY <1>0 DEF Sweeps
<1>2. [team[t] EXCEPT !.captain = sweep[w].successor[t]] \in TeamRows
  BY <1>0, <1>1 DEF TeamRows
<1>3. team' \in [Teams -> TeamRows]
  BY <1>0, <1>2 DEF HandOver
<1>4. [sweep[w] EXCEPT !.successor[t] = None] \in Sweeps
  BY <1>0, <1>1 DEF Sweeps
<1>5. sweep' \in [Workers -> Sweeps]
  BY <1>0, <1>4 DEF HandOver
<1>6. /\ holder' \in [Teams \cup {Tournament} -> Workers \cup {None}]
      /\ \A v \in Workers : holder'[Tournament] = v => pc'[v] \in {"commit", "sweep"}
  BY <1>0, ReleaseType DEF HandOver
<1> QED
  BY <1>3, <1>5, <1>6 DEF HandOver, RegistrationTypeOK

(* Every step of a request keeps the types. *)
LEMMA StepTypes ==
  ASSUME RegistrationTypeOK, NEW w \in Workers, Step(w)
  PROVE  RegistrationTypeOK'
<1>0. /\ status \in Statuses /\ participant \in [Users -> Rows]
      /\ team \in [Teams -> TeamRows] /\ request \in [Workers -> Asked]
  BY DEF RegistrationTypeOK
<1>1. /\ request[w].user \in Users \cup {None} /\ request[w].team \in Teams \cup {None}
      /\ request[w].status \in Statuses
  BY <1>0 DEF Asked
<1>2. CASE LockTeam(w) \/ LockTournament(w) \/ ListTicketless(w)
  BY <1>2, LockTypes
<1>3. CASE ChangeStatus(w) \/ Abandon(w)
  BY <1>0, <1>1, <1>3, AnswerType DEF ChangeStatus, Abandon
<1>4. CASE Register(w)
  <2>1. participant' \in [Users -> Rows]
    BY <1>4, RegisterType
  <2> QED
    BY <1>0, <1>4, <2>1, AnswerType DEF Register
<1>5. CASE CreateTeam(w)
  <2>1. PICK t \in Teams :
          /\ team' = [team EXCEPT ![t] = [state |-> "active", captain |-> request[w].user]]
          /\ WriteTeam(w, t)
    BY <1>5 DEF CreateTeam
  <2>2. [state |-> "active", captain |-> request[w].user] \in TeamRows
    BY <1>1 DEF TeamRows
  <2>3. team' \in [Teams -> TeamRows]
    BY <1>0, <2>1, <2>2
  <2>4. participant' \in [Users -> Rows]
    BY <2>1, WriteTeamType
  <2> QED
    BY <1>0, <1>5, <2>3, <2>4, AnswerType DEF CreateTeam
<1>6. CASE JoinTeam(w) \/ AddMember(w)
  <2>1. participant' \in [Users -> Rows]
    BY <1>1, <1>6, WriteTeamType DEF JoinTeam, AddMember
  <2> QED
    BY <1>0, <1>6, <2>1, AnswerType DEF JoinTeam, AddMember
<1>7. CASE RemoveParticipant(w)
  <2>1. participant' \in [Users -> Rows] /\ team' \in [Teams -> TeamRows]
    BY <1>0, <1>7, RowTypes DEF RemoveParticipant
  <2> QED
    BY <1>0, <1>7, <2>1, AnswerType DEF RemoveParticipant
<1>8. CASE \E t \in Teams : HandOver(w, t)
  BY <1>8, HandOverType
<1>9. CASE Sweep(w)
  <2>1. participant' \in [Users -> Rows] /\ team' \in [Teams -> TeamRows]
    BY <1>0, <1>9, RowTypes DEF Sweep
  <2> QED
    BY <1>0, <1>9, <2>1, AnswerType DEF Sweep
<1>10. CASE Leave(w)
  <2>1. participant' \in [Users -> Rows]
    BY <1>0, <1>10, RowTypes DEF Leave
  <2> QED
    BY <1>0, <1>10, <2>1, AnswerType DEF Leave
<1>11. CASE QuitTeam(w)
  <2>1. participant' \in [Users -> Rows]
    BY <1>11, WriteTeamType DEF QuitTeam
  <2> QED
    BY <1>11, <2>1, GoOnType DEF QuitTeam, Labels
<1>12. CASE TransferCaptain(w)
  <2>1. \A t \in Teams : [team[t] EXCEPT !.captain = request[w].user] \in TeamRows
    BY <1>0, <1>1 DEF TeamRows
  <2>2. team' \in [Teams -> TeamRows]
    BY <1>0, <1>12, <2>1 DEF TransferCaptain
  <2> QED
    BY <1>0, <1>12, <2>2, AnswerType DEF TransferCaptain
<1>13. CASE CheckEmpty(w)
  <2>1. PICK next \in Labels : GoOn(w, next)
    BY <1>13 DEF CheckEmpty, Labels
  <2> QED
    BY <1>0, <1>13, <2>1, GoOnType DEF CheckEmpty
<1>14. CASE RetireTeam(w)
  <2>1. participant' \in [Users -> Rows] /\ team' \in [Teams -> TeamRows]
    BY <1>0, <1>14, RowTypes DEF RetireTeam
  <2> QED
    BY <1>0, <1>14, <2>1, AnswerType DEF RetireTeam
<1>15. CASE ClearMembers(w)
  <2>1. participant' \in [Users -> Rows]
    BY <1>0, <1>15, RowTypes DEF ClearMembers
  <2> QED
    BY <1>15, <2>1, GoOnType DEF ClearMembers, Labels
<1>16. CASE DeleteTeam(w)
  <2>1. team' \in [Teams -> TeamRows]
    BY <1>16, RowTypes DEF DeleteTeam
  <2> QED
    BY <1>0, <1>16, <2>1, AnswerType DEF DeleteTeam
<1> QED
  BY <1>2, <1>3, <1>4, <1>5, <1>6, <1>7, <1>8, <1>9, <1>10, <1>11, <1>12, <1>13,
     <1>14, <1>15, <1>16 DEF Step

(* The first state is well-formed, and every step keeps it so. *)
LEMMA InitTypes == Init => RegistrationTypeOK
<1> SUFFICES ASSUME Init PROVE RegistrationTypeOK
  OBVIOUS
<1>1. NoRequest \in Asked /\ NoSweep \in Sweeps
  BY LimitsAreNumbers DEF NoRequest, Asked, Kinds, Statuses, NoSweep, Sweeps
<1>2. participant \in [Users -> Rows]
  BY LimitsAreNumbers DEF Init, Rows
<1>3. team \in [Teams -> TeamRows]
  BY DEF Init, TeamRows
<1>4. /\ holder \in [Teams \cup {Tournament} -> Workers \cup {None}]
      /\ \A w \in Workers : holder[Tournament] # w
  BY ValuesDiffer DEF Init
<1>5. limits.requests \in Nat
  BY LimitsAreNumbers DEF Init
<1> QED
  BY <1>1, <1>2, <1>3, <1>4, <1>5 DEF Init, RegistrationTypeOK, Statuses, Labels

LEMMA NextTypes == RegistrationTypeOK /\ [Next]_vars => RegistrationTypeOK'
<1> SUFFICES ASSUME RegistrationTypeOK, [Next]_vars PROVE RegistrationTypeOK'
  OBVIOUS
<1>1. CASE UNCHANGED vars
  BY <1>1 DEF vars, RegistrationTypeOK
<1>2. CASE Next
  BY <1>2, AskTypes, StepTypes DEF Next
<1> QED
  BY <1>1, <1>2

\* In every state the tournament, its participants, its teams and the requests
\* have their types, and only a request between its lock and its commit has
\* the tournament's row locked.
THEOREM TypesRegistration == Spec => []RegistrationTypeOK
<1> QED
  BY InitTypes, NextTypes, PTL DEF Spec

-----------------------------------------------------------------------------
(* Limits *)

\* Who is about to commit has the lock, and what was counted under it holds.
CountedUnderLock ==
  \A w \in Workers : pc[w] = "commit" =>
    /\ holder[Tournament] = w
    /\ request[w].kind \in {"join", "add"} => Cardinality(Active) < limits.players
    /\ request[w].kind = "create" => Cardinality(ActiveTeams) < limits.teams

LimitInv == RegistrationTypeOK /\ WithinLimits /\ CountedUnderLock

(* A step that adds none leaves no more of them. *)
LEMMA NoMore ==
  ASSUME NEW S, NEW T, IsFiniteSet(S), T \subseteq S
  PROVE  Cardinality(T) \in Nat /\ Cardinality(S) \in Nat /\ Cardinality(T) <= Cardinality(S)
BY FS_Subset, FS_CardinalityType

(* A step that adds one leaves at most one more of them. *)
LEMMA OneMore ==
  ASSUME NEW S, NEW x, IsFiniteSet(S)
  PROVE  IsFiniteSet(S \cup {x}) /\ Cardinality(S \cup {x}) <= Cardinality(S) + 1
<1>1. Cardinality(S) \in Nat
  BY FS_CardinalityType
<1>2. /\ IsFiniteSet(S \cup {x})
      /\ \/ Cardinality(S \cup {x}) = Cardinality(S)
         \/ Cardinality(S \cup {x}) = Cardinality(S) + 1
  BY FS_AddElement
<1> QED
  BY <1>1, <1>2

(* Participants and teams are finitely many. *)
LEMMA FinitelyMany ==
  /\ IsFiniteSet(Active) /\ IsFiniteSet(ActiveTeams)
  /\ Cardinality(Active) \in Nat /\ Cardinality(ActiveTeams) \in Nat
<1>1. Active \subseteq Users /\ ActiveTeams \subseteq Teams
  BY DEF Active, ActiveTeams
<1>2. IsFiniteSet(Active) /\ IsFiniteSet(ActiveTeams)
  BY <1>1, SetsAreFinite, FS_Subset
<1> QED
  BY <1>2, FS_CardinalityType

(* Only a registration adds a participant. *)
LEMMA RegisterAdds ==
  ASSUME RegistrationTypeOK, NEW w \in Workers, Ask(w) \/ Step(w), ~Register(w)
  PROVE  Active' \subseteq Active
<1>0. participant \in [Users -> Rows]
  BY DEF RegistrationTypeOK
<1>1. ASSUME participant' = participant PROVE Active' \subseteq Active
  BY <1>1 DEF Active
<1>2. ASSUME NEW t, WriteTeam(w, t) PROVE Active' \subseteq Active
  <2>1. participant' = [participant EXCEPT ![request[w].user].team = t]
    BY <1>2 DEF WriteTeam
  <2>2. ASSUME NEW u \in Users PROVE participant'[u].state = participant[u].state
    BY <1>0, <2>1 DEF Rows
  <2> QED
    BY <2>2 DEF Active
<1>3. ASSUME NEW users, NEW teams, NEW playing,
             participant' = Detached(Gone(participant, users, playing), teams)
      PROVE  Active' \subseteq Active
  <2> DEFINE rows == Gone(participant, users, playing)
  <2>1. ASSUME NEW u \in Users
        PROVE  rows[u] \in Rows /\ (rows[u].state = "active" => participant[u].state = "active")
    BY <1>0 DEF Gone, Marked, Deleted, Rows
  <2> HIDE DEF rows
  <2>2. ASSUME NEW u \in Users PROVE participant'[u].state = rows[u].state
    BY <1>3, <2>1 DEF Detached, Rows, rows
  <2> QED
    BY <2>1, <2>2 DEF Active
<1>4. ASSUME NEW teams, participant' = Detached(participant, teams)
      PROVE  Active' \subseteq Active
  <2>1. ASSUME NEW u \in Users PROVE participant'[u].state = participant[u].state
    BY <1>0, <1>4 DEF Detached, Rows
  <2> QED
    BY <2>1 DEF Active
<1>5. ASSUME NEW users, participant' = Deleted(participant, users) PROVE Active' \subseteq Active
  BY <1>5 DEF Active, Deleted
<1>6. CASE Ask(w)
  BY <1>1, <1>6 DEF Ask, RequestPurge, RequestStatus, RequestJoin, RequestAdd, RequestLeave,
     RequestCreateTeam, RequestRemove, RequestDeleteTeam, RequestJoinTeam, RequestAddMember,
     RequestLeaveTeam, RequestRemoveMember, RequestTransfer, Begin
<1>7. CASE \/ LockTeam(w) \/ LockTournament(w) \/ ChangeStatus(w) \/ ListTicketless(w)
           \/ (\E t \in Teams : HandOver(w, t)) \/ TransferCaptain(w) \/ CheckEmpty(w)
           \/ DeleteTeam(w) \/ Abandon(w)
  BY <1>1, <1>7 DEF LockTeam, LockTournament, ChangeStatus, ListTicketless, HandOver,
     TransferCaptain, CheckEmpty, DeleteTeam, Abandon
<1>8. CASE CreateTeam(w) \/ JoinTeam(w) \/ AddMember(w) \/ QuitTeam(w)
  BY <1>2, <1>8 DEF CreateTeam, JoinTeam, AddMember, QuitTeam
<1>9. CASE RemoveParticipant(w) \/ Sweep(w)
  BY <1>3, <1>9 DEF RemoveParticipant, Sweep
<1>10. CASE RetireTeam(w) \/ ClearMembers(w)
  BY <1>4, <1>10 DEF RetireTeam, ClearMembers
<1>11. CASE Leave(w)
  BY <1>1, <1>5, <1>11 DEF Leave
<1> QED
  BY <1>6, <1>7, <1>8, <1>9, <1>10, <1>11 DEF Step

(* Only the founding of a team adds one. *)
LEMMA CreateTeamAdds ==
  ASSUME RegistrationTypeOK, NEW w \in Workers, Ask(w) \/ Step(w), ~CreateTeam(w)
  PROVE  ActiveTeams' \subseteq ActiveTeams
<1>0. team \in [Teams -> TeamRows]
  BY DEF RegistrationTypeOK
<1>1. ASSUME team' = team PROVE ActiveTeams' \subseteq ActiveTeams
  BY <1>1 DEF ActiveTeams
<1>2. ASSUME NEW teams, NEW state \in {"removed", "deleted"},
             team' = WithoutTeams(teams, state)
      PROVE  ActiveTeams' \subseteq ActiveTeams
  <2>1. ASSUME NEW t \in Teams, team'[t].state = "active" PROVE team[t].state = "active"
    BY <1>0, <1>2, <2>1 DEF WithoutTeams, TeamRows
  <2> QED
    BY <2>1 DEF ActiveTeams
<1>3. ASSUME NEW t \in Teams \cup {None}, NEW u, team' = [team EXCEPT ![t].captain = u]
      PROVE  ActiveTeams' \subseteq ActiveTeams
  <2>1. ASSUME NEW x \in Teams PROVE team'[x].state = team[x].state
    BY <1>0, <1>3 DEF TeamRows
  <2> QED
    BY <2>1 DEF ActiveTeams
<1>4. CASE Ask(w)
  BY <1>1, <1>4 DEF Ask, RequestPurge, RequestStatus, RequestJoin, RequestAdd, RequestLeave,
     RequestCreateTeam, RequestRemove, RequestDeleteTeam, RequestJoinTeam, RequestAddMember,
     RequestLeaveTeam, RequestRemoveMember, RequestTransfer, Begin
<1>5. CASE \/ LockTeam(w) \/ LockTournament(w) \/ ChangeStatus(w) \/ ListTicketless(w)
           \/ Register(w) \/ JoinTeam(w) \/ Leave(w) \/ AddMember(w) \/ QuitTeam(w)
           \/ CheckEmpty(w) \/ ClearMembers(w) \/ Abandon(w)
  BY <1>1, <1>5 DEF LockTeam, LockTournament, ChangeStatus, ListTicketless, Register,
     JoinTeam, Leave, AddMember, QuitTeam, CheckEmpty, ClearMembers, Abandon
<1>6. CASE RemoveParticipant(w) \/ Sweep(w) \/ RetireTeam(w) \/ DeleteTeam(w)
  BY <1>2, <1>6 DEF RemoveParticipant, Sweep, RetireTeam, DeleteTeam
<1>7. CASE TransferCaptain(w)
  <2>1. request[w].team \in Teams \cup {None}
    BY DEF RegistrationTypeOK, Asked
  <2> QED
    BY <1>3, <1>7, <2>1 DEF TransferCaptain
<1>8. CASE \E t \in Teams : HandOver(w, t)
  BY <1>3, <1>8 DEF HandOver
<1> QED
  BY <1>4, <1>5, <1>6, <1>7, <1>8 DEF Step

(* Whoever is about to commit after another's step was so before it, and a
   worker gets there by its lock alone. *)
LEMMA CommitKept ==
  ASSUME LimitInv, NEW w \in Workers, Ask(w) \/ Step(w),
         NEW v \in Workers, pc'[v] = "commit", ~LockTournament(w)
  PROVE  /\ v # w /\ pc[v] = "commit" /\ pc[w] # "commit"
         /\ request'[v] = request[v] /\ holder'[Tournament] = v
<1>0. /\ pc \in [Workers -> Labels] /\ request \in [Workers -> Asked]
      /\ holder \in [Teams \cup {Tournament} -> Workers \cup {None}]
      /\ None \notin Workers
  BY ValuesDiffer DEF LimitInv, RegistrationTypeOK
<1>1. /\ \A x \in Workers \ {w} : pc'[x] = pc[x] /\ request'[x] = request[x]
      /\ pc'[w] # "commit"
      /\ holder' = holder \/ holder' = Released(w) \/ LockTeam(w) \/ ListTicketless(w)
  <2>1. CASE Ask(w)
    BY <1>0, <2>1 DEF Ask, RequestPurge, RequestStatus, RequestJoin, RequestAdd, RequestLeave,
       RequestCreateTeam, RequestRemove, RequestDeleteTeam, RequestJoinTeam,
       RequestAddMember, RequestLeaveTeam, RequestRemoveMember, RequestTransfer, Begin
  <2>2. CASE Answer(w)
    BY <1>0, <2>2 DEF Answer
  <2>3. CASE \E next \in Labels \ {"commit"} : GoOn(w, next)
    BY <1>0, <2>3 DEF GoOn
  <2>4. CASE LockTeam(w) \/ ListTicketless(w) \/ (\E t \in Teams : HandOver(w, t))
    BY <1>0, <2>4 DEF LockTeam, ListTicketless, HandOver
  <2> QED
    BY <2>1, <2>2, <2>3, <2>4 DEF Step, ChangeStatus, Register, CreateTeam, JoinTeam,
       RemoveParticipant, Sweep, Leave, AddMember, QuitTeam, TransferCaptain, CheckEmpty,
       RetireTeam, ClearMembers, DeleteTeam, Abandon, Labels
<1>2. v # w /\ pc[v] = "commit" /\ request'[v] = request[v]
  BY <1>1
<1>3. holder[Tournament] = v
  BY <1>2 DEF LimitInv, CountedUnderLock
<1>4. pc[w] # "commit"
  BY <1>2, <1>3 DEF LimitInv, CountedUnderLock
<1>5. holder'[Tournament] = v
  <2>1. CASE holder' = holder
    BY <1>3, <2>1
  <2>2. CASE holder' = Released(w)
    BY <1>0, <1>2, <1>3, <2>2 DEF Released
  <2>3. CASE LockTeam(w)
    BY <1>0, <1>3, <2>3, ValuesDiffer DEF LockTeam, Asked
  <2>4. CASE ListTicketless(w)
    BY <1>0, <1>2, <1>3, <2>4 DEF ListTicketless, Writable
  <2> QED
    BY <1>1, <2>1, <2>2, <2>3, <2>4
<1> QED
  BY <1>2, <1>4, <1>5

(* A registration fills a place that was counted as free. *)
LEMMA RegisterWithin ==
  ASSUME LimitInv, NEW w \in Workers, Register(w)
  PROVE  Cardinality(Active') <= limits.players
<1> DEFINE u == request[w].user
<1>1. Cardinality(Active) < limits.players /\ limits.players \in Nat
  BY LimitsAreNumbers DEF Register, At, LimitInv, CountedUnderLock, RegistrationTypeOK
<1>2. Active' \subseteq Active \cup {u}
  BY DEF Register, LimitInv, RegistrationTypeOK, Active
<1>3. /\ IsFiniteSet(Active \cup {u})
      /\ Cardinality(Active \cup {u}) <= Cardinality(Active) + 1
  BY FinitelyMany, OneMore
<1>4. Cardinality(Active') <= Cardinality(Active \cup {u}) /\ Cardinality(Active') \in Nat
      /\ Cardinality(Active \cup {u}) \in Nat
  BY <1>2, <1>3, NoMore
<1> QED
  BY <1>1, <1>3, <1>4, FinitelyMany

(* So does the founding of a team. *)
LEMMA CreateTeamWithin ==
  ASSUME LimitInv, NEW w \in Workers, CreateTeam(w)
  PROVE  Cardinality(ActiveTeams') <= limits.teams
<1>1. Cardinality(ActiveTeams) < limits.teams /\ limits.teams \in Nat
  BY LimitsAreNumbers DEF CreateTeam, At, LimitInv, CountedUnderLock, RegistrationTypeOK
<1>2. PICK t \in Teams :
        team' = [team EXCEPT ![t] = [state |-> "active", captain |-> request[w].user]]
  BY DEF CreateTeam
<1>3. ActiveTeams' \subseteq ActiveTeams \cup {t}
  BY <1>2 DEF LimitInv, RegistrationTypeOK, ActiveTeams
<1>4. /\ IsFiniteSet(ActiveTeams \cup {t})
      /\ Cardinality(ActiveTeams \cup {t}) <= Cardinality(ActiveTeams) + 1
  BY FinitelyMany, OneMore
<1>5. /\ Cardinality(ActiveTeams') <= Cardinality(ActiveTeams \cup {t})
      /\ Cardinality(ActiveTeams') \in Nat /\ Cardinality(ActiveTeams \cup {t}) \in Nat
  BY <1>3, <1>4, NoMore
<1> QED
  BY <1>1, <1>4, <1>5, FinitelyMany

(* Every step keeps within the limits. *)
LEMMA NextLimits == LimitInv /\ [Next]_vars => LimitInv'
<1> SUFFICES ASSUME LimitInv, [Next]_vars PROVE LimitInv'
  OBVIOUS
<1>0. /\ limits.players \in Nat /\ limits.teams \in Nat
      /\ pc \in [Workers -> Labels] /\ request \in [Workers -> Asked]
      /\ holder \in [Teams \cup {Tournament} -> Workers \cup {None}]
      /\ RegistrationTypeOK
  BY LimitsAreNumbers DEF LimitInv, RegistrationTypeOK
<1>1. RegistrationTypeOK'
  BY <1>0, NextTypes
<1>2. CASE UNCHANGED vars
  BY <1>1, <1>2 DEF vars, LimitInv, WithinLimits, CountedUnderLock, Active, ActiveTeams
<1>3. ASSUME NEW w \in Workers, Ask(w) \/ Step(w) PROVE LimitInv'
  <2>0. limits' = limits
    BY <1>3 DEF Ask, Step, RequestPurge, RequestStatus, RequestJoin, RequestAdd, RequestLeave,
       RequestCreateTeam, RequestRemove, RequestDeleteTeam, RequestJoinTeam,
       RequestAddMember, RequestLeaveTeam, RequestRemoveMember, RequestTransfer, Begin,
       LockTeam, LockTournament, ChangeStatus, Register, CreateTeam, JoinTeam,
       RemoveParticipant, ListTicketless, HandOver, Sweep, Leave, AddMember, QuitTeam,
       TransferCaptain, CheckEmpty, RetireTeam, ClearMembers, DeleteTeam, Abandon
  <2>1. ~Register(w) => /\ Cardinality(Active') \in Nat
                        /\ Cardinality(Active') <= Cardinality(Active)
    BY <1>0, <1>3, RegisterAdds, FinitelyMany, NoMore
  <2>2. ~CreateTeam(w) => /\ Cardinality(ActiveTeams') \in Nat
                          /\ Cardinality(ActiveTeams') <= Cardinality(ActiveTeams)
    BY <1>0, <1>3, CreateTeamAdds, FinitelyMany, NoMore
  <2>3. WithinLimits'
    BY <1>0, <2>0, <2>1, <2>2, RegisterWithin, CreateTeamWithin, FinitelyMany
       DEF LimitInv, WithinLimits
  <2>4. CASE LockTournament(w)
    <3>1. /\ holder[Tournament] \in {None, w} /\ holder'[Tournament] = w
          /\ pc' = [pc EXCEPT ![w] = "commit"] /\ participant' = participant /\ team' = team
          /\ Admitted(w)
      BY <1>0, <2>4 DEF LockTournament, Writable
    <3>2. /\ Active' = Active /\ ActiveTeams' = ActiveTeams
      BY <3>1 DEF Active, ActiveTeams
    <3>3. \A v \in Workers \ {w} : pc'[v] # "commit"
      BY <1>0, <3>1, ValuesDiffer DEF LimitInv, CountedUnderLock
    <3>4. request'[w].kind = request[w].kind
      BY <1>0, <2>4 DEF LockTournament, Asked
    <3>5. /\ request[w].kind \in {"join", "add"} => Cardinality(Active) < limits.players
          /\ request[w].kind = "create" => Cardinality(ActiveTeams) < limits.teams
      BY <3>1 DEF Admitted, MayRegister
    <3> QED
      BY <1>1, <2>0, <2>3, <3>1, <3>2, <3>3, <3>4, <3>5 DEF LimitInv, CountedUnderLock
  <2>5. CASE ~LockTournament(w)
    <3>1. ASSUME NEW v \in Workers, pc'[v] = "commit"
          PROVE  /\ holder'[Tournament] = v
                 /\ request'[v].kind \in {"join", "add"} => Cardinality(Active') < limits'.players
                 /\ request'[v].kind = "create" => Cardinality(ActiveTeams') < limits'.teams
      <4>1. /\ pc[v] = "commit" /\ pc[w] # "commit"
            /\ request'[v] = request[v] /\ holder'[Tournament] = v
        BY <1>3, <2>5, <3>1, CommitKept
      <4>2. ~Register(w) /\ ~CreateTeam(w)
        BY <4>1 DEF Register, CreateTeam, At
      <4> QED
        BY <1>0, <2>0, <2>1, <2>2, <4>1, <4>2, FinitelyMany DEF LimitInv, CountedUnderLock
    <3> QED
      BY <1>1, <2>3, <3>1 DEF LimitInv, CountedUnderLock
  <2> QED
    BY <2>4, <2>5
<1> QED
  BY <1>2, <1>3 DEF Next

\* Whichever requests arrive together, however often a place is given up and
\* taken again, and wherever a request dies, the tournament has no more
\* participants and no more teams than it allows.
THEOREM LimitsKept == Spec => []WithinLimits
<1>1. Init => LimitInv
  BY InitTypes DEF Init, LimitInv, WithinLimits, CountedUnderLock
<1> QED
  BY <1>1, NextLimits, PTL DEF Spec, LimitInv


-----------------------------------------------------------------------------
(* What a request knows *)

\* Whoever and whatever two requests are about at once is on record.
OverlapsKnown == Meet \subseteq contended

Busy(w) == pc[w] # "idle"

\* The requests for a user, and those for a team.
UserKinds == Kinds \ {"none", "purge", "status", "deleteTeam"}
TeamKinds == {"joinTeam", "addMember", "leaveTeam", "removeMember", "transfer", "deleteTeam"}
ClosingSteps == {"empty", "clear", "delete", "retire"}

\* A request's kind says what it is about, and its step of what kind it is.
Formed(w) ==
  LET r == request[w]
  IN  /\ Busy(w) <=> r.kind # "none"
      /\ r.kind \in UserKinds => r.user \in Users
      /\ r.kind \in TeamKinds => r.team \in Teams
      /\ r.kind = "create" => r.team = None
      /\ pc[w] \in ClosingSteps => r.kind \in {"leaveTeam", "removeMember", "deleteTeam"}
      /\ pc[w] = "sweep" => r.kind = "purge"
      /\ Busy(w) /\ r.team # None => team[r.team].state # "unborn"

\* What a request knows of its user stays so while it is the only one about
\* that user: which team the user is in, and whether the user takes part.
KnowsUser(w) ==
  LET r == request[w]
      u == r.user
  IN  u \notin contended =>
        /\ r.kind \in {"joinTeam", "addMember"} => participant[u].team = None
        /\ At(w, "commit", {"create"}) => participant[u].team = None
        /\ At(w, "commit", {"create"}) => u \in Active
        /\ At(w, "commit", {"join", "add"}) => u \notin Active
        /\ At(w, "write", {"leaveTeam", "removeMember"}) =>
             participant[u].team \in {r.team, None}

\* What a request knows of its team stays so while it is the only one about
\* that team: that it is there, has room, and who leads it.
KnowsTeam(w) ==
  LET r == request[w]
      u == r.user
      t == r.team
  IN  t \notin contended =>
        /\ r.kind = "joinTeam" => team[t].state = "active"
        /\ (At(w, "commit", {"joinTeam"}) \/ r.kind = "addMember") => HasRoom(t)
        /\ (At(w, "write", {"leaveTeam", "removeMember"}) /\ team[t].captain = u) =>
             r.kind = "leaveTeam" /\ Members(t) \subseteq {u}
        /\ r.kind = "transfer" /\ u \notin contended => u \in Members(t)

\* What a removal of ticketless participants knows of a team it is the only one
\* about: its successors are members who stay, and a captain who does not stay
\* has a successor or leads a team that is removed as well.
KnowsSweep(w) ==
  LET s == sweep[w]
  IN  pc[w] = "sweep" => \A t \in Teams :
        /\ s.successor[t] # None =>
             /\ \A ref \in s.listed : ref[1] # s.successor[t]
             /\ t \notin contended /\ s.successor[t] \notin contended =>
                  s.successor[t] \in Members(t)
        /\ LET c == team[t].captain
           IN  (/\ t \notin contended /\ c \notin contended
                /\ team[t].state = "active" /\ c \in Members(t)
                /\ \E ref \in s.listed : ref[1] = c)
                  => t \in s.doomed \/ s.successor[t] # None

KnownInv ==
  /\ OverlapsKnown
  /\ \A w \in Workers : Formed(w) /\ KnowsUser(w) /\ KnowsTeam(w) /\ KnowsSweep(w)

\* Nobody is in a team that was never founded.
TeamsBorn == \A u \in Users : participant[u].team # None => team[participant[u].team].state # "unborn"

\* A team without its captain is about to be deleted, and has nobody left.
TeamsLed ==
  \A t \in ActiveTeams \ (contended \cup leaderless) :
    \/ team[t].captain \in contended
    \/ team[t].captain \in Members(t)
    \/ Closing(t) /\ Members(t) = {}

TeamInv ==
  /\ RegistrationTypeOK
  /\ contended \subseteq Users \cup Teams
  /\ KnownInv /\ TeamsBorn /\ MembersOfActiveTeams /\ TeamsNotOverfull /\ TeamsLed

-----------------------------------------------------------------------------
(* What a step changes *)

(* What is there of each variable. *)
LEMMA Typed ==
  ASSUME RegistrationTypeOK
  PROVE  /\ participant \in [Users -> Rows] /\ team \in [Teams -> TeamRows]
         /\ pc \in [Workers -> Labels] /\ request \in [Workers -> Asked]
         /\ sweep \in [Workers -> Sweeps]
         /\ limits.players \in Nat /\ limits.teams \in Nat /\ limits.size \in Nat
         /\ \A w \in Workers : /\ request[w].user \in Users \cup {None}
                               /\ request[w].team \in Teams \cup {None}
                               /\ sweep[w].doomed \subseteq Teams
                               /\ sweep[w].successor \in [Teams -> Users \cup {None}]
         /\ \A u \in Users : participant[u].team \in Teams \cup {None}
         /\ None \notin Users /\ None \notin Teams
BY LimitsAreNumbers, ValuesDiffer DEF RegistrationTypeOK, Rows, Asked, Sweeps

(* A request that begins changes nothing but what its worker is to do. *)
LEMMA AskChanges ==
  ASSUME NEW w \in Workers, Ask(w)
  PROVE  /\ pc[w] = "idle"
         /\ UNCHANGED <<limits, status, ticketed, participant, team, holder, sweep>>
         /\ \E r, next : /\ request' = [request EXCEPT ![w] = r]
                         /\ pc' = [pc EXCEPT ![w] = next]
BY DEF Ask, RequestPurge, RequestStatus, RequestJoin, RequestAdd, RequestLeave,
   RequestCreateTeam, RequestRemove, RequestDeleteTeam, RequestJoinTeam, RequestAddMember,
   RequestLeaveTeam, RequestRemoveMember, RequestTransfer, Begin

(* A step is one worker's, and leaves the limits and the other workers alone. *)
LEMMA OthersKept ==
  ASSUME RegistrationTypeOK, NEW w \in Workers, Ask(w) \/ Step(w)
  PROVE  /\ limits' = limits
         /\ \A v \in Workers \ {w} :
              /\ pc'[v] = pc[v] /\ request'[v] = request[v] /\ sweep'[v] = sweep[v]
              /\ About(v)' = About(v)
<1>0. /\ pc \in [Workers -> Labels] /\ request \in [Workers -> Asked]
      /\ sweep \in [Workers -> Sweeps]
  BY DEF RegistrationTypeOK
<1>1. /\ limits' = limits
      /\ \A v \in Workers \ {w} :
           pc'[v] = pc[v] /\ request'[v] = request[v] /\ sweep'[v] = sweep[v]
  <2>1. CASE Ask(w)
    BY <1>0, <2>1, AskChanges
  <2>2. ASSUME Answer(w)
        PROVE  \A v \in Workers \ {w} :
                 pc'[v] = pc[v] /\ request'[v] = request[v] /\ sweep'[v] = sweep[v]
    BY <1>0, <2>2 DEF Answer
  <2>3. ASSUME NEW next, GoOn(w, next)
        PROVE  \A v \in Workers \ {w} :
                 pc'[v] = pc[v] /\ request'[v] = request[v] /\ sweep'[v] = sweep[v]
    BY <1>0, <2>3 DEF GoOn
  <2>4. CASE LockTeam(w) \/ LockTournament(w) \/ ListTicketless(w)
             \/ (\E t \in Teams : HandOver(w, t))
    BY <1>0, <2>4 DEF LockTeam, LockTournament, ListTicketless, HandOver
  <2>5. CASE QuitTeam(w) \/ CheckEmpty(w) \/ ClearMembers(w)
    BY <2>3, <2>5 DEF QuitTeam, CheckEmpty, ClearMembers
  <2>6. CASE \/ ChangeStatus(w) \/ Register(w) \/ CreateTeam(w) \/ JoinTeam(w)
             \/ RemoveParticipant(w) \/ Sweep(w) \/ Leave(w) \/ AddMember(w)
             \/ TransferCaptain(w) \/ RetireTeam(w) \/ DeleteTeam(w) \/ Abandon(w)
    BY <2>2, <2>6 DEF ChangeStatus, Register, CreateTeam, JoinTeam, RemoveParticipant,
       Sweep, Leave, AddMember, TransferCaptain, RetireTeam, DeleteTeam, Abandon
  <2> QED
    BY <2>1, <2>4, <2>5, <2>6 DEF Step
<1>2. ASSUME NEW v \in Workers \ {w} PROVE About(v)' = About(v)
  BY <1>1 DEF About
<1> QED
  BY <1>1, <1>2

(* What two requests are not about at once, only one of them is about. *)
LEMMA Alone ==
  ASSUME OverlapsKnown, NEW w \in Workers, NEW v \in Workers \ {w},
         NEW x \in Users \cup Teams, x \notin contended, x \in About(v)
  PROVE  x \notin About(w)
BY DEF OverlapsKnown, Meet

(* What a worker's request is about. *)
LEMMA AboutThese ==
  ASSUME NEW w \in Workers
  PROVE  /\ request[w].user # None => request[w].user \in About(w)
         /\ request[w].team # None => request[w].team \in About(w)
         /\ \A ref \in sweep[w].listed : ref[1] \in About(w)
         /\ sweep[w].doomed \subseteq About(w)
         /\ \A t \in Teams : sweep[w].successor[t] # None =>
              t \in About(w) /\ sweep[w].successor[t] \in About(w)
BY DEF About

(* Rows that are detached from teams are those in them, and are so. *)
LEMMA DetachedRow ==
  ASSUME NEW rows \in [Users -> Rows], NEW teams \in SUBSET Teams, NEW u \in Users, RegistrationTypeOK
  PROVE  /\ rows[u].team \notin teams => Detached(rows, teams)[u] = rows[u]
         /\ rows[u].team \in teams =>
              Detached(rows, teams)[u] = [rows[u] EXCEPT !.team = None]
         /\ Detached(rows, teams)[u].team \notin teams
         /\ Detached(rows, teams)[u].state = rows[u].state
BY ValuesDiffer DEF Detached, Rows

(* Rows that go are those of the users told. *)
LEMMA GoneRow ==
  ASSUME NEW rows \in [Users -> Rows], NEW users, NEW playing, NEW u \in Users \ users
  PROVE  Gone(rows, users, playing)[u] = rows[u]
BY DEF Gone, Deleted, Marked

(* A participation changes only if the step's request is about the user, or
   takes everybody out of a team it is about. *)
LEMMA UserChange ==
  ASSUME RegistrationTypeOK, NEW w \in Workers, Ask(w) \/ Step(w), Formed(w),
         NEW u \in Users, u \notin About(w)
  PROVE  \/ participant'[u] = participant[u]
         \/ /\ participant'[u] = [participant[u] EXCEPT !.team = None]
            /\ participant[u].team \in Teams \cap About(w)
<1>0. /\ participant \in [Users -> Rows] /\ None \notin Users /\ None \notin Teams
      /\ request[w].team \in Teams \cup {None} /\ sweep[w].doomed \subseteq Teams
  BY Typed
<1>1. /\ u # request[w].user /\ \A ref \in sweep[w].listed : ref[1] # u
      /\ sweep[w].doomed \subseteq About(w)
      /\ request[w].team # None => request[w].team \in About(w)
  BY <1>0, AboutThese
<1>2. ASSUME NEW t, WriteTeam(w, t) PROVE participant'[u] = participant[u]
  BY <1>0, <1>1, <1>2 DEF WriteTeam
<1>3. ASSUME NEW teams \in SUBSET Teams, teams \subseteq About(w),
             NEW users, u \notin users, NEW playing,
             participant' = Detached(Gone(participant, users, playing), teams)
      PROVE  \/ participant'[u] = participant[u]
             \/ /\ participant'[u] = [participant[u] EXCEPT !.team = None]
                /\ participant[u].team \in Teams \cap About(w)
  <2>1. Gone(participant, users, playing) \in [Users -> Rows]
    BY <1>0, RowTypes
  <2>2. Gone(participant, users, playing)[u] = participant[u]
    BY <1>0, <1>3, GoneRow
  <2> QED
    BY <1>3, <2>1, <2>2, DetachedRow
<1>4. ASSUME NEW t \in Teams, t \in About(w), participant' = Detached(participant, {t})
      PROVE  \/ participant'[u] = participant[u]
             \/ /\ participant'[u] = [participant[u] EXCEPT !.team = None]
                /\ participant[u].team \in Teams \cap About(w)
  <2>1. {t} \in SUBSET Teams
    OBVIOUS
  <2> QED
    BY <1>0, <1>4, <2>1, DetachedRow
<1>5. CASE Ask(w)
  BY <1>5, AskChanges
<1>6. CASE \/ LockTeam(w) \/ LockTournament(w) \/ ChangeStatus(w) \/ ListTicketless(w)
           \/ (\E t \in Teams : HandOver(w, t)) \/ TransferCaptain(w) \/ CheckEmpty(w)
           \/ DeleteTeam(w) \/ Abandon(w)
  BY <1>6 DEF LockTeam, LockTournament, ChangeStatus, ListTicketless, HandOver,
     TransferCaptain, CheckEmpty, DeleteTeam, Abandon
<1>7. CASE CreateTeam(w) \/ JoinTeam(w) \/ AddMember(w) \/ QuitTeam(w)
  BY <1>2, <1>7 DEF CreateTeam, JoinTeam, AddMember, QuitTeam
<1>8. CASE Register(w)
  BY <1>0, <1>1, <1>8 DEF Register
<1>9. CASE Leave(w)
  BY <1>0, <1>1, <1>9 DEF Leave, Deleted
<1>10. CASE RemoveParticipant(w)
  <2> DEFINE there == IF Present(w) THEN {request[w].user} ELSE {}
             t == request[w].team
             teams == IF Playing /\ t # None /\ Members(t) \ there = {} THEN {t} ELSE {}
  <2>1. participant' = Detached(Gone(participant, there, Playing), teams)
    BY <1>10 DEF RemoveParticipant
  <2>2. u \notin there /\ teams \in SUBSET Teams /\ teams \subseteq About(w)
    BY <1>0, <1>1
  <2> HIDE DEF there, teams
  <2> QED
    BY <1>3, <2>1, <2>2
<1>11. CASE Sweep(w)
  <2>1. participant' = Detached(Gone(participant, Listed(w), sweep[w].playing), sweep[w].doomed)
    BY <1>11 DEF Sweep
  <2>2. u \notin Listed(w)
    BY <1>1 DEF Listed
  <2> QED
    BY <1>0, <1>1, <1>3, <2>1, <2>2
<1>12. CASE RetireTeam(w) \/ ClearMembers(w)
  <2>1. request[w].team \in Teams /\ request[w].team \in About(w)
    BY <1>0, <1>1, <1>12 DEF RetireTeam, ClearMembers, Formed, ClosingSteps, TeamKinds
  <2>2. participant' = Detached(participant, {request[w].team})
    BY <1>12 DEF RetireTeam, ClearMembers
  <2> QED
    BY <1>4, <2>1, <2>2
<1> QED
  BY <1>5, <1>6, <1>7, <1>8, <1>9, <1>10, <1>11, <1>12 DEF Step

(* A team's row changes only if the step's request is about the team, or founds
   it: another one leads it, or it goes and nobody is in it any more. *)
LEMMA TeamChange ==
  ASSUME RegistrationTypeOK, NEW w \in Workers, Ask(w) \/ Step(w), Formed(w), NEW t \in Teams
  PROVE  \/ team'[t] = team[t]
         \/ /\ t \in About(w)
            /\ team'[t].captain \in About(w)
            /\ team'[t].state = team[t].state
            /\ (TransferCaptain(w) /\ t = request[w].team) \/ HandOver(w, t)
         \/ /\ t \in About(w)
            /\ Exists(t) /\ team'[t].state \in {"removed", "deleted"}
            /\ \A u \in Users : participant'[u].team # t
         \/ /\ CreateTeam(w) /\ WriteTeam(w, t)
            /\ team[t].state = "unborn"
            /\ team'[t] = [state |-> "active", captain |-> request[w].user]
            /\ request[w].user \in Users \cap About(w)
<1>0. /\ participant \in [Users -> Rows] /\ team \in [Teams -> TeamRows]
      /\ None \notin Users /\ None \notin Teams
      /\ request[w].team \in Teams \cup {None} /\ sweep[w].doomed \subseteq Teams
      /\ request[w].user \in Users \cup {None}
  BY Typed
<1>1. /\ sweep[w].doomed \subseteq About(w)
      /\ request[w].team # None => request[w].team \in About(w)
      /\ request[w].user # None => request[w].user \in About(w)
      /\ \A x \in Teams : sweep[w].successor[x] # None =>
              x \in About(w) /\ sweep[w].successor[x] \in About(w)
  BY AboutThese
<1>2. ASSUME NEW teams \in SUBSET Teams, teams \subseteq About(w),
             NEW state \in {"removed", "deleted"}, team' = WithoutTeams(teams, state),
             \A u \in Users : participant'[u].team \notin teams
      PROVE  \/ team'[t] = team[t]
             \/ /\ t \in About(w)
                /\ Exists(t) /\ team'[t].state \in {"removed", "deleted"}
                /\ \A u \in Users : participant'[u].team # t
  <2>1. CASE t \in teams /\ Exists(t)
    <3>1. team'[t] = [team[t] EXCEPT !.state = state]
      BY <1>2, <2>1 DEF WithoutTeams
    <3>2. team'[t].state = state
      BY <1>0, <3>1 DEF TeamRows
    <3> QED
      BY <1>2, <2>1, <3>2
  <2>2. CASE ~(t \in teams /\ Exists(t))
    BY <1>2, <2>2 DEF WithoutTeams
  <2> QED
    BY <2>1, <2>2
<1>3. ASSUME NEW rows \in [Users -> Rows], NEW teams \in SUBSET Teams,
             participant' = Detached(rows, teams)
      PROVE  \A u \in Users : participant'[u].team \notin teams
  BY <1>3, DetachedRow
<1>5. CASE Ask(w)
  BY <1>5, AskChanges
<1>6. CASE \/ LockTeam(w) \/ LockTournament(w) \/ ChangeStatus(w) \/ ListTicketless(w)
           \/ Register(w) \/ JoinTeam(w) \/ Leave(w) \/ AddMember(w) \/ QuitTeam(w)
           \/ CheckEmpty(w) \/ ClearMembers(w) \/ Abandon(w)
  BY <1>6 DEF LockTeam, LockTournament, ChangeStatus, ListTicketless, Register,
     JoinTeam, Leave, AddMember, QuitTeam, CheckEmpty, ClearMembers, Abandon
<1>7. CASE TransferCaptain(w)
  <2>1. request[w].team \in Teams /\ request[w].user \in Users
    BY <1>7 DEF TransferCaptain, At, Formed, UserKinds, TeamKinds, Kinds
  <2>2. team' = [team EXCEPT ![request[w].team].captain = request[w].user]
    BY <1>7 DEF TransferCaptain
  <2>3. CASE t = request[w].team
    <3>1. team'[t] = [team[t] EXCEPT !.captain = request[w].user]
      BY <1>0, <2>2, <2>3
    <3>2. team'[t].captain = request[w].user /\ team'[t].state = team[t].state
      BY <1>0, <3>1 DEF TeamRows
    <3> QED
      BY <1>0, <1>1, <1>7, <2>1, <2>3, <3>2
  <2>4. CASE t # request[w].team
    BY <1>0, <2>2, <2>4
  <2> QED
    BY <2>3, <2>4
<1>8. CASE \E x \in Teams : HandOver(w, x)
  <2>1. PICK x \in Teams : HandOver(w, x)
    BY <1>8
  <2>2. /\ team' = [team EXCEPT ![x].captain = sweep[w].successor[x]]
        /\ sweep[w].successor[x] # None
    BY <2>1 DEF HandOver
  <2>3. CASE t = x
    <3>1. team'[t] = [team[t] EXCEPT !.captain = sweep[w].successor[x]]
      BY <1>0, <2>2, <2>3
    <3>2. team'[t].captain = sweep[w].successor[x] /\ team'[t].state = team[t].state
      BY <1>0, <3>1 DEF TeamRows
    <3> QED
      BY <1>1, <2>1, <2>2, <2>3, <3>2
  <2>4. CASE t # x
    BY <1>0, <2>2, <2>4
  <2> QED
    BY <2>3, <2>4
<1>9. CASE CreateTeam(w)
  <2>1. PICK x \in Teams :
          /\ team[x].state = "unborn"
          /\ team' = [team EXCEPT ![x] = [state |-> "active", captain |-> request[w].user]]
          /\ WriteTeam(w, x)
    BY <1>9 DEF CreateTeam
  <2>2. request[w].user \in Users
    BY <1>9 DEF CreateTeam, At, Formed, UserKinds, Kinds
  <2>3. CASE t = x
    BY <1>0, <1>1, <1>9, <2>1, <2>2, <2>3
  <2>4. CASE t # x
    BY <1>0, <2>1, <2>4
  <2> QED
    BY <2>3, <2>4
<1>10. CASE RemoveParticipant(w)
  <2> DEFINE there == IF Present(w) THEN {request[w].user} ELSE {}
             x == request[w].team
             teams == IF Playing /\ x # None /\ Members(x) \ there = {} THEN {x} ELSE {}
             rows == Gone(participant, there, Playing)
  <2>1. participant' = Detached(rows, teams) /\ team' = WithoutTeams(teams, "removed")
    BY <1>10 DEF RemoveParticipant
  <2>2. teams \in SUBSET Teams /\ teams \subseteq About(w)
    BY <1>0, <1>1
  <2>3. rows \in [Users -> Rows]
    BY <1>0, RowTypes
  <2> HIDE DEF rows, teams
  <2>4. \A u \in Users : participant'[u].team \notin teams
    BY <1>3, <2>1, <2>2, <2>3
  <2> QED
    BY <1>2, <2>1, <2>2, <2>4
<1>11. CASE Sweep(w)
  <2> DEFINE rows == Gone(participant, Listed(w), sweep[w].playing)
             state == IF sweep[w].playing THEN "removed" ELSE "deleted"
  <2>1. /\ participant' = Detached(rows, sweep[w].doomed)
        /\ team' = WithoutTeams(sweep[w].doomed, state)
    BY <1>11 DEF Sweep
  <2>2. rows \in [Users -> Rows] /\ state \in {"removed", "deleted"}
    BY <1>0, RowTypes
  <2> HIDE DEF rows, state
  <2>3. \A u \in Users : participant'[u].team \notin sweep[w].doomed
    BY <1>0, <1>3, <2>1, <2>2
  <2> QED
    BY <1>0, <1>1, <1>2, <2>1, <2>2, <2>3
<1>12. CASE RetireTeam(w) \/ DeleteTeam(w)
  <2>1. request[w].team \in Teams /\ request[w].team \in About(w)
    BY <1>0, <1>1, <1>12 DEF RetireTeam, DeleteTeam, Formed, ClosingSteps, TeamKinds
  <2>2. \E state \in {"removed", "deleted"} : team' = WithoutTeams({request[w].team}, state)
    BY <1>12 DEF RetireTeam, DeleteTeam
  <2>3. \A u \in Users : participant'[u].team \notin {request[w].team}
    <3>1. CASE RetireTeam(w)
      BY <1>0, <1>3, <2>1, <3>1 DEF RetireTeam
    <3>2. CASE DeleteTeam(w)
      BY <3>2 DEF DeleteTeam, Unreferenced
    <3> QED
      BY <1>12, <3>1, <3>2
  <2> QED
    BY <1>2, <2>1, <2>2, <2>3
<1> QED
  BY <1>5, <1>6, <1>7, <1>8, <1>9, <1>10, <1>11, <1>12 DEF Step

(* Somebody gets into a team only by joining it, being added, or founding it. *)
LEMMA TeamEntered ==
  ASSUME RegistrationTypeOK, NEW w \in Workers, Ask(w) \/ Step(w), Formed(w),
         NEW u \in Users, NEW t \in Teams, participant'[u].team = t, participant[u].team # t
  PROVE  /\ u = request[w].user
         /\ \/ (JoinTeam(w) \/ AddMember(w)) /\ t = request[w].team
            \/ /\ CreateTeam(w) /\ team[t].state = "unborn"
               /\ team'[t] = [state |-> "active", captain |-> u]
         /\ participant'[u].state = participant[u].state
<1>0. /\ participant \in [Users -> Rows] /\ team \in [Teams -> TeamRows]
      /\ None \notin Users /\ None \notin Teams
      /\ request[w].team \in Teams \cup {None} /\ sweep[w].doomed \subseteq Teams
  BY Typed
<1>1. ASSUME NEW x, WriteTeam(w, x)
      PROVE  u = request[w].user /\ x = t /\ participant'[u].state = participant[u].state
  BY <1>0, <1>1 DEF WriteTeam, Rows
<1>2. ASSUME NEW users, NEW playing, NEW teams,
             participant' = Detached(Gone(participant, users, playing), teams)
      PROVE  FALSE
  <2>1. Gone(participant, users, playing)[u].team \in {participant[u].team, None}
    BY <1>0 DEF Gone, Deleted, Marked, Rows
  <2>2. participant'[u].team \in {Gone(participant, users, playing)[u].team, None}
    <3>1. Gone(participant, users, playing) \in [Users -> Rows]
      BY <1>0, RowTypes
    <3> QED
      BY <1>2, <3>1 DEF Detached, Rows
  <2> QED
    BY <1>0, <2>1, <2>2
<1>3. ASSUME NEW teams, participant' = Detached(participant, teams) PROVE FALSE
  BY <1>0, <1>3 DEF Detached, Rows
<1>5. CASE Ask(w)
  BY <1>5, AskChanges
<1>6. CASE \/ LockTeam(w) \/ LockTournament(w) \/ ChangeStatus(w) \/ ListTicketless(w)
           \/ (\E x \in Teams : HandOver(w, x)) \/ TransferCaptain(w) \/ CheckEmpty(w)
           \/ DeleteTeam(w) \/ Abandon(w)
  BY <1>6 DEF LockTeam, LockTournament, ChangeStatus, ListTicketless, HandOver,
     TransferCaptain, CheckEmpty, DeleteTeam, Abandon
<1>7. CASE JoinTeam(w) \/ AddMember(w)
  BY <1>1, <1>7 DEF JoinTeam, AddMember
<1>8. CASE CreateTeam(w)
  <2>1. PICK x \in Teams :
          /\ team[x].state = "unborn"
          /\ team' = [team EXCEPT ![x] = [state |-> "active", captain |-> request[w].user]]
          /\ WriteTeam(w, x)
    BY <1>8 DEF CreateTeam
  <2> QED
    BY <1>0, <1>1, <1>8, <2>1
<1>9. CASE QuitTeam(w)
  BY <1>0, <1>1, <1>9 DEF QuitTeam
<1>10. CASE Register(w)
  BY <1>0, <1>10 DEF Register
<1>11. CASE Leave(w)
  BY <1>0, <1>11 DEF Leave, Deleted
<1>12. CASE RemoveParticipant(w) \/ Sweep(w)
  BY <1>2, <1>12 DEF RemoveParticipant, Sweep
<1>13. CASE RetireTeam(w) \/ ClearMembers(w)
  BY <1>3, <1>13 DEF RetireTeam, ClearMembers
<1> QED
  BY <1>5, <1>6, <1>7, <1>8, <1>9, <1>10, <1>11, <1>12, <1>13 DEF Step
(* Whoever was no member of a team before has just entered it. *)
LEMMA MemberEntered ==
  ASSUME RegistrationTypeOK, NEW w \in Workers, Ask(w) \/ Step(w), Formed(w),
         NEW t \in Teams, NEW u \in Users, u \in Members(t)', u \notin Members(t)
  PROVE  /\ u = request[w].user
         /\ \/ (JoinTeam(w) \/ AddMember(w)) /\ t = request[w].team
            \/ /\ CreateTeam(w) /\ team[t].state = "unborn"
               /\ team'[t] = [state |-> "active", captain |-> u]
<1>0. participant \in [Users -> Rows] /\ None \notin Teams
  BY Typed
<1>1. participant'[u].team = t /\ participant'[u].state = "active"
  BY DEF Members, Active
<1>2. CASE participant[u].team # t
  BY <1>1, <1>2, TeamEntered
<1>3. CASE participant[u].team = t
  <2>1. u \notin Active /\ u \in Active'
    BY <1>1, <1>3 DEF Members, Active
  <2>2. Register(w)
    BY <2>1, RegisterAdds
  <2>3. participant'[u] = participant[u] \/ participant'[u].team = None
    BY <1>0, <2>2 DEF Register
  <2> QED
    BY <1>0, <1>1, <2>1, <2>3 DEF Active
<1> QED
  BY <1>2, <1>3

(* A team gets no member by a request about others. *)
LEMMA MembersStay ==
  ASSUME RegistrationTypeOK, NEW w \in Workers, Ask(w) \/ Step(w), Formed(w),
         NEW t \in Teams, t \notin About(w), team[t].state # "unborn"
  PROVE  Members(t)' \subseteq Members(t)
<1>1. Members(t)' \subseteq Users
  BY DEF Members, Active
<1>2. t # request[w].team
  BY Typed, AboutThese
<1> QED
  BY <1>1, <1>2, MemberEntered

(* A member no step's request is about stays one, of a team it is not about. *)
LEMMA MemberStays ==
  ASSUME RegistrationTypeOK, NEW w \in Workers, Ask(w) \/ Step(w), Formed(w),
         NEW t \in Teams, t \notin About(w), NEW u \in Members(t), u \notin About(w)
  PROVE  u \in Members(t)'
<1>1. u \in Users /\ u \in Active /\ participant[u].team = t
  BY DEF Members, Active
<1>2. participant'[u] = participant[u]
  BY <1>1, UserChange
<1> QED
  BY <1>1, <1>2 DEF Members, Active

(* Some of the members are no more than all. *)
LEMMA MembersCount ==
  ASSUME NEW t, NEW n \in Nat
  PROVE  /\ IsFiniteSet(Members(t)) /\ Cardinality(Members(t)) \in Nat
         /\ \A S \in SUBSET Members(t) : /\ IsFiniteSet(S) /\ Cardinality(S) \in Nat
                                        /\ Cardinality(S) <= Cardinality(Members(t))
<1>1. Members(t) \subseteq Users
  BY DEF Members, Active
<1>2. IsFiniteSet(Members(t))
  BY <1>1, SetsAreFinite, FS_Subset
<1> QED
  BY <1>2, FS_Subset, FS_CardinalityType

-----------------------------------------------------------------------------
(* What another's step leaves of what a request knows *)

LEMMA OtherFormed ==
  ASSUME RegistrationTypeOK, NEW w \in Workers, Ask(w) \/ Step(w), Formed(w),
         NEW v \in Workers \ {w}, Formed(v)
  PROVE  Formed(v)'
<1>1. /\ pc'[v] = pc[v] /\ request'[v] = request[v]
      /\ request[v].team # None => request[v].team \in Teams
  BY OthersKept, Typed
<1>2. ASSUME Busy(v), request[v].team # None
      PROVE  team'[request[v].team].state # "unborn"
  <2> DEFINE t == request[v].team
  <2>1. t \in Teams /\ team[t].state # "unborn"
    BY <1>1, <1>2 DEF Formed
  <2> HIDE DEF t
  <2>2. team'[t].state # "unborn"
    BY <2>1, TeamChange DEF Exists
  <2> QED
    BY <2>2 DEF t
<1> QED
  BY <1>1, <1>2 DEF Formed, Busy

LEMMA OtherKnowsUser ==
  ASSUME RegistrationTypeOK, OverlapsKnown, contended \subseteq contended',
         NEW w \in Workers, Ask(w) \/ Step(w), Formed(w),
         NEW v \in Workers \ {w}, Formed(v), KnowsUser(v)
  PROVE  KnowsUser(v)'
<1> DEFINE u == request[v].user
<1>1. /\ pc'[v] = pc[v] /\ request'[v] = request[v]
      /\ u \in Users \cup {None} /\ None \notin Users
      /\ u # None => u \in About(v)
  BY OthersKept, Typed, AboutThese
<1>2. CASE u \notin Users
  <2>1. request[v].kind \notin UserKinds
    BY <1>2 DEF Formed
  <2> QED
    BY <1>1, <2>1 DEF KnowsUser, At, UserKinds, Kinds
<1>3. CASE u \in Users /\ u \notin contended'
  <2>1. u \notin About(w)
    BY <1>1, <1>3, Alone
  <2> HIDE DEF u
  <2>2. /\ participant[u].team = None => participant'[u].team = None
        /\ participant'[u].team \in {participant[u].team, None}
        /\ participant'[u].state = participant[u].state
    <3>1. participant[u] \in Rows
      BY <1>3, Typed
    <3> QED
      BY <1>3, <2>1, <3>1, UserChange DEF Rows
  <2>3. /\ request[v].kind \in {"joinTeam", "addMember"} => participant[u].team = None
        /\ At(v, "commit", {"create"}) => participant[u].team = None /\ u \in Active
        /\ At(v, "commit", {"join", "add"}) => u \notin Active
        /\ At(v, "write", {"leaveTeam", "removeMember"}) =>
             participant[u].team \in {request[v].team, None}
    BY <1>3 DEF KnowsUser, u
  <2>4. u \in Active' <=> u \in Active
    BY <1>3, <2>2 DEF Active
  <2>5. /\ request[v].kind \in {"joinTeam", "addMember"} => participant'[u].team = None
        /\ At(v, "commit", {"create"}) => participant'[u].team = None /\ u \in Active'
        /\ At(v, "commit", {"join", "add"}) => u \notin Active'
        /\ At(v, "write", {"leaveTeam", "removeMember"}) =>
             participant'[u].team \in {request[v].team, None}
    BY <2>2, <2>3, <2>4
  <2> QED
    BY <1>1, <2>5 DEF KnowsUser, At, u
<1>4. CASE u \in contended'
  BY <1>1, <1>4 DEF KnowsUser
<1> QED
  BY <1>2, <1>3, <1>4

LEMMA OtherKnowsTeam ==
  ASSUME RegistrationTypeOK, OverlapsKnown, contended \subseteq contended',
         NEW w \in Workers, Ask(w) \/ Step(w), Formed(w),
         NEW v \in Workers \ {w}, Formed(v), KnowsTeam(v)
  PROVE  KnowsTeam(v)'
<1>0. PICK u, t : u = request[v].user /\ t = request[v].team
  OBVIOUS
<1>1. /\ pc'[v] = pc[v] /\ request'[v] = request[v] /\ limits' = limits
      /\ u \in Users \cup {None} /\ None \notin Users
      /\ t \in Teams \cup {None} /\ None \notin Teams
      /\ u # None => u \in About(v)
      /\ t # None => t \in About(v)
      /\ limits.size \in Nat
  BY <1>0, OthersKept, Typed, AboutThese
<1>2. CASE t \notin Teams
  <2>1. request[v].kind \notin TeamKinds
    BY <1>0, <1>2 DEF Formed
  <2> QED
    BY <1>0, <1>1, <2>1 DEF KnowsTeam, At, TeamKinds
<1>3. CASE t \in contended'
  BY <1>0, <1>1, <1>3 DEF KnowsTeam
<1>4. CASE t \in Teams /\ t \notin contended' /\ request[v].kind \notin TeamKinds
  BY <1>0, <1>1, <1>4 DEF KnowsTeam, At, TeamKinds
<1>5. CASE t \in Teams /\ t \notin contended' /\ request[v].kind \in TeamKinds
  <2>1. t \notin About(w)
    BY <1>1, <1>5, Alone
  <2>2. team[t].state # "unborn"
    BY <1>0, <1>1, <1>5 DEF Formed, Busy, TeamKinds
  <2>3. team'[t] = team[t]
    BY <1>5, <2>1, <2>2, TeamChange
  <2>4. Members(t)' \subseteq Members(t)
    BY <1>5, <2>1, <2>2, MembersStay
  <2>5. HasRoom(t) => HasRoom(t)'
    <3>1. /\ Cardinality(Members(t)) \in Nat /\ Cardinality(Members(t)') \in Nat
          /\ Cardinality(Members(t)') <= Cardinality(Members(t))
      BY <2>4, MembersCount
    <3> QED
      BY <1>1, <3>1 DEF HasRoom
  <2>6. ASSUME request[v].kind = "transfer", u \notin contended'
        PROVE  u \in Members(t)'
    <3>1. u \in Users /\ u \in About(v)
      BY <1>0, <1>1, <2>6 DEF Formed, UserKinds, Kinds
    <3>2. u \notin About(w)
      BY <2>6, <3>1, Alone
    <3>3. u \in Members(t)
      BY <1>0, <1>5, <2>6 DEF KnowsTeam
    <3> QED
      BY <1>5, <2>1, <3>1, <3>2, <3>3, MemberStays
  <2>7. /\ request[v].kind = "joinTeam" => team[t].state = "active"
        /\ (At(v, "commit", {"joinTeam"}) \/ request[v].kind = "addMember") => HasRoom(t)
        /\ (At(v, "write", {"leaveTeam", "removeMember"}) /\ team[t].captain = u) =>
             request[v].kind = "leaveTeam" /\ Members(t) \subseteq {u}
    BY <1>0, <1>5 DEF KnowsTeam
  <2>8. /\ request[v].kind = "joinTeam" => team'[t].state = "active"
        /\ (At(v, "commit", {"joinTeam"}) \/ request[v].kind = "addMember") => HasRoom(t)'
        /\ (At(v, "write", {"leaveTeam", "removeMember"}) /\ team'[t].captain = u) =>
             request[v].kind = "leaveTeam" /\ Members(t)' \subseteq {u}
    BY <2>3, <2>4, <2>5, <2>7
  <2> QED
    BY <1>0, <1>1, <2>6, <2>8 DEF KnowsTeam, At
<1> QED
  BY <1>2, <1>3, <1>4, <1>5
LEMMA OtherKnowsSweep ==
  ASSUME RegistrationTypeOK, OverlapsKnown, contended \subseteq contended',
         NEW w \in Workers, Ask(w) \/ Step(w), Formed(w),
         NEW v \in Workers \ {w}, KnowsSweep(v)
  PROVE  KnowsSweep(v)'
<1>1. /\ pc'[v] = pc[v] /\ sweep'[v] = sweep[v]
      /\ None \notin Users /\ None \notin Teams
      /\ sweep[v].successor \in [Teams -> Users \cup {None}]
      /\ sweep[v].listed \subseteq Users \X (0..MaxRows)
  BY OthersKept, Typed DEF Sweeps
<1>2. SUFFICES ASSUME pc[v] = "sweep", NEW t \in Teams
               PROVE  /\ sweep[v].successor[t] # None =>
                           /\ \A ref \in sweep[v].listed : ref[1] # sweep[v].successor[t]
                           /\ t \notin contended' /\ sweep[v].successor[t] \notin contended' =>
                                sweep[v].successor[t] \in Members(t)'
                      /\ (/\ t \notin contended' /\ team'[t].captain \notin contended'
                          /\ team'[t].state = "active" /\ team'[t].captain \in Members(t)'
                          /\ \E ref \in sweep[v].listed : ref[1] = team'[t].captain)
                            => t \in sweep[v].doomed \/ sweep[v].successor[t] # None
  BY <1>1 DEF KnowsSweep
<1>3. /\ sweep[v].successor[t] # None =>
           /\ \A ref \in sweep[v].listed : ref[1] # sweep[v].successor[t]
           /\ t \notin contended /\ sweep[v].successor[t] \notin contended =>
                sweep[v].successor[t] \in Members(t)
      /\ (/\ t \notin contended /\ team[t].captain \notin contended
          /\ team[t].state = "active" /\ team[t].captain \in Members(t)
          /\ \E ref \in sweep[v].listed : ref[1] = team[t].captain)
            => t \in sweep[v].doomed \/ sweep[v].successor[t] # None
  BY <1>2 DEF KnowsSweep
<1>4. ASSUME sweep[v].successor[t] # None,
             t \notin contended', sweep[v].successor[t] \notin contended'
      PROVE  sweep[v].successor[t] \in Members(t)'
  <2>1. PICK x \in Users : x = sweep[v].successor[t]
    BY <1>1, <1>4
  <2>2. t \in About(v) /\ x \in About(v)
    BY <1>4, <2>1, AboutThese
  <2>3. t \notin About(w) /\ x \notin About(w)
    BY <1>4, <2>1, <2>2, Alone
  <2>4. x \in Members(t)
    BY <1>3, <1>4, <2>1
  <2>5. x \in Members(t)'
    BY <2>3, <2>4, MemberStays
  <2> QED
    BY <2>1, <2>5
<1>5. ASSUME t \notin contended', team'[t].captain \notin contended',
             team'[t].state = "active", team'[t].captain \in Members(t)',
             NEW ref \in sweep[v].listed, ref[1] = team'[t].captain
      PROVE  t \in sweep[v].doomed \/ sweep[v].successor[t] # None
  <2>1. PICK c \in Users : c = team'[t].captain /\ c = ref[1]
    BY <1>1, <1>5
  <2>2. c \in About(v)
    BY <2>1, AboutThese
  <2>3. c \notin About(w)
    BY <1>5, <2>1, <2>2, Alone
  <2>4. team'[t] = team[t]
    <3>1. /\ team'[t].captain \notin About(w)
          /\ team'[t].state \notin {"removed", "deleted"}
          /\ team'[t] # [state |-> "active", captain |-> request[w].user]
               \/ request[w].user \notin About(w)
      BY <1>5, <2>1, <2>3
    <3> QED
      BY <3>1, TeamChange
  <2>5. participant'[c].team = t /\ c \in Active'
    BY <1>5, <2>1 DEF Members
  <2>6. participant'[c] = participant[c]
    <3>1. participant[c] \in Rows
      BY Typed
    <3> QED
      BY <1>1, <2>3, <2>5, <3>1, UserChange DEF Rows
  <2>7. c \in Members(t)
    BY <2>5, <2>6 DEF Members, Active
  <2> QED
    BY <1>3, <1>5, <2>1, <2>4, <2>7
<1> QED
  BY <1>3, <1>4, <1>5

-----------------------------------------------------------------------------
(* What a request knows once it begins, and after each of its own steps *)

(* Whoever is a member of a team with one member at most is all there is. *)
LEMMA OnlyMember ==
  ASSUME NEW t, NEW u \in Members(t), Cardinality(Members(t)) <= 1
  PROVE  Members(t) \subseteq {u}
<1>1. PICK S : S = Members(t)
  OBVIOUS
<1>2. IsFiniteSet(S) /\ Cardinality(S) \in Nat /\ u \in S /\ Cardinality(S) <= 1
  BY <1>1, MembersCount
<1>3. IsFiniteSet(S \ {u}) /\ Cardinality(S \ {u}) = Cardinality(S) - 1
  BY <1>2, FS_RemoveElement
<1>4. Cardinality(S \ {u}) \in Nat
  BY <1>3, FS_CardinalityType
<1>5. S \ {u} = {}
  BY <1>2, <1>3, <1>4, FS_EmptySet
<1> QED
  BY <1>1, <1>5

(* What a request's view and service have read before it begins. *)
LEMMA AskReads ==
  ASSUME RegistrationTypeOK, TeamsBorn, NEW w \in Workers, Ask(w),
         NEW r, r = request'[w]
  PROVE  /\ pc'[w] \in {"team", "tournament", "write", "clear"}
         /\ pc'[w] = "clear" => r.kind = "deleteTeam"
         /\ r.kind # "none"
         /\ r.kind \in UserKinds => r.user \in Users
         /\ r.kind \in TeamKinds => r.team \in Teams
         /\ r.kind = "create" => r.team = None
         /\ r.team # None => team[r.team].state # "unborn"
         /\ r.kind \in {"joinTeam", "addMember"} => participant[r.user].team = None
         /\ r.kind = "joinTeam" => team[r.team].state = "active"
         /\ r.kind = "addMember" => HasRoom(r.team)
         /\ r.kind \in {"leaveTeam", "removeMember", "transfer"} => r.user \in Members(r.team)
         /\ r.kind \in {"leaveTeam", "removeMember"} /\ team[r.team].captain = r.user =>
              r.kind = "leaveTeam" /\ Members(r.team) \subseteq {r.user}
         /\ r.kind = "leave" => status = "REGISTRATION_OPEN"
<1>0. /\ participant \in [Users -> Rows] /\ pc \in [Workers -> Labels]
      /\ request \in [Workers -> Asked]
      /\ None \notin Users /\ None \notin Teams
  BY Typed
<1>1. ASSUME NEW kind, NEW u, NEW t, NEW next, Begin(w, Request(kind, u, t), next)
      PROVE  r.kind = kind /\ r.user = u /\ r.team = t /\ pc'[w] = next
  BY <1>0, <1>1 DEF Begin, Request
<1>2. ASSUME RequestPurge(w) \/ (\E s \in Statuses : RequestStatus(w, s))
      PROVE  pc'[w] = "tournament" /\ r.kind \in {"purge", "status"} /\ r.team = None
  <2>1. CASE RequestPurge(w)
    BY <1>1, <2>1 DEF RequestPurge
  <2>2. ASSUME NEW s \in Statuses, RequestStatus(w, s)
        PROVE  pc'[w] = "tournament" /\ r.kind = "status" /\ r.team = None
    BY <1>0, <2>2 DEF RequestStatus, Begin, Request
  <2> QED
    BY <1>2, <2>1, <2>2
<1>3. ASSUME NEW u \in Users, RequestJoin(w, u) \/ RequestAdd(w, u) \/ RequestCreateTeam(w, u)
      PROVE  /\ pc'[w] = "tournament" /\ r.kind \in {"join", "add", "create"}
             /\ r.user = u /\ r.team = None
  BY <1>1, <1>3 DEF RequestJoin, RequestAdd, RequestCreateTeam
<1>4. ASSUME NEW u \in Users, RequestLeave(w, u)
      PROVE  /\ pc'[w] = "write" /\ r.kind = "leave" /\ r.user = u /\ r.team = None
             /\ status = "REGISTRATION_OPEN"
  BY <1>1, <1>4 DEF RequestLeave
<1>5. ASSUME NEW u \in Users, RequestRemove(w, u)
      PROVE  /\ pc'[w] = "tournament" /\ r.kind = "remove" /\ r.user = u
             /\ r.team # None => team[r.team].state # "unborn"
  BY <1>1, <1>5 DEF RequestRemove, TeamsBorn
<1>6. ASSUME NEW t \in Teams, RequestDeleteTeam(w, t)
      PROVE  pc'[w] = "clear" /\ r.kind = "deleteTeam" /\ r.team = t /\ Exists(t)
  BY <1>1, <1>6 DEF RequestDeleteTeam
<1>7. ASSUME NEW u \in Users, NEW t \in Teams, RequestJoinTeam(w, u, t) \/ RequestAddMember(w, u, t)
      PROVE  /\ \/ pc'[w] = "team" /\ r.kind = "joinTeam" /\ team[t].state = "active"
                \/ pc'[w] = "write" /\ r.kind = "addMember" /\ HasRoom(t)
             /\ r.user = u /\ r.team = t /\ Exists(t)
             /\ participant[u].team = None
  BY <1>1, <1>7 DEF RequestJoinTeam, RequestAddMember, TeamFound, Exists, Teamless
<1>8. ASSUME NEW u \in Users, NEW t \in Teams,
             RequestLeaveTeam(w, u, t) \/ RequestRemoveMember(w, u, t) \/ RequestTransfer(w, u, t)
      PROVE  /\ pc'[w] = "write" /\ r.kind \in {"leaveTeam", "removeMember", "transfer"}
             /\ r.user = u /\ r.team = t /\ Exists(t) /\ u \in Members(t)
             /\ r.kind # "transfer" /\ team[t].captain = u =>
                  r.kind = "leaveTeam" /\ Members(t) \subseteq {u}
  <2>1. CASE RequestLeaveTeam(w, u, t)
    BY <1>1, <2>1, OnlyMember DEF RequestLeaveTeam, TeamFound, Exists, CaptainMayLeave
  <2>2. CASE RequestRemoveMember(w, u, t) \/ RequestTransfer(w, u, t)
    BY <1>1, <2>2 DEF RequestRemoveMember, RequestTransfer
  <2> QED
    BY <1>8, <2>1, <2>2
<1>9. CASE RequestPurge(w) \/ (\E s \in Statuses : RequestStatus(w, s))
  BY <1>2, <1>9 DEF UserKinds, TeamKinds, Kinds
<1>10. CASE \E u \in Users : \/ RequestJoin(w, u) \/ RequestAdd(w, u) \/ RequestLeave(w, u)
                             \/ RequestCreateTeam(w, u) \/ RequestRemove(w, u)
  BY <1>3, <1>4, <1>5, <1>10 DEF UserKinds, TeamKinds, Kinds
<1>11. CASE \E t \in Teams : RequestDeleteTeam(w, t)
  BY <1>0, <1>6, <1>11 DEF Exists, UserKinds, TeamKinds, Kinds
<1>12. CASE \E u \in Users, t \in Teams : RequestJoinTeam(w, u, t) \/ RequestAddMember(w, u, t)
  BY <1>0, <1>7, <1>12 DEF Exists, UserKinds, TeamKinds, Kinds
<1>13. CASE \E u \in Users, t \in Teams :
              \/ RequestLeaveTeam(w, u, t) \/ RequestRemoveMember(w, u, t)
              \/ RequestTransfer(w, u, t)
  BY <1>0, <1>8, <1>13 DEF Exists, UserKinds, TeamKinds, Kinds
<1> QED
  BY <1>9, <1>10, <1>11, <1>12, <1>13 DEF Ask
(* A request knows what it has read as it begins. *)
LEMMA AskKnows ==
  ASSUME RegistrationTypeOK, TeamsBorn, NEW w \in Workers, Ask(w)
  PROVE  Formed(w)' /\ KnowsUser(w)' /\ KnowsTeam(w)' /\ KnowsSweep(w)'
<1>1. PICK r : r = request'[w]
  OBVIOUS
<1>2. /\ pc'[w] \in {"team", "tournament", "write", "clear"}
      /\ pc'[w] = "clear" => r.kind = "deleteTeam"
      /\ r.kind # "none"
      /\ r.kind \in UserKinds => r.user \in Users
      /\ r.kind \in TeamKinds => r.team \in Teams
      /\ r.kind = "create" => r.team = None
      /\ r.team # None => team[r.team].state # "unborn"
      /\ r.kind \in {"joinTeam", "addMember"} => participant[r.user].team = None
      /\ r.kind = "joinTeam" => team[r.team].state = "active"
      /\ r.kind = "addMember" => HasRoom(r.team)
      /\ r.kind \in {"leaveTeam", "removeMember", "transfer"} => r.user \in Members(r.team)
      /\ r.kind \in {"leaveTeam", "removeMember"} /\ team[r.team].captain = r.user =>
           r.kind = "leaveTeam" /\ Members(r.team) \subseteq {r.user}
  BY <1>1, AskReads
<1>3. participant' = participant /\ team' = team /\ limits' = limits
  BY AskChanges, OthersKept
<1>4. \A t : Members(t)' = Members(t) /\ (HasRoom(t)' <=> HasRoom(t))
  BY <1>3 DEF Members, Active, HasRoom
<1>5. Formed(w)'
  BY <1>1, <1>2, <1>3 DEF Formed, Busy, ClosingSteps
<1>6. KnowsUser(w)'
  <2>1. r.kind \in {"leaveTeam", "removeMember"} => participant[r.user].team = r.team
    BY <1>2 DEF Members
  <2> QED
    BY <1>1, <1>2, <1>3, <2>1 DEF KnowsUser, At
<1>7. KnowsTeam(w)'
  <2>1. /\ Members(r.team)' = Members(r.team)
        /\ HasRoom(r.team)' <=> HasRoom(r.team)
    BY <1>4
  <2>2. Members(request[w].team)' = Members(r.team)
    BY <1>1, <1>3 DEF Members, Active
  <2>3. HasRoom(request[w].team)' <=> HasRoom(r.team)
    BY <1>3, <2>2 DEF HasRoom
  <2> QED
    BY <1>1, <1>2, <1>3, <2>2, <2>3 DEF KnowsTeam, At
<1>8. KnowsSweep(w)'
  BY <1>2 DEF KnowsSweep
<1> QED
  BY <1>5, <1>6, <1>7, <1>8

(* Whoever has answered knows nothing. *)
LEMMA AnswerKnows ==
  ASSUME RegistrationTypeOK, NEW w \in Workers, Answer(w)
  PROVE  Formed(w)' /\ KnowsUser(w)' /\ KnowsTeam(w)' /\ KnowsSweep(w)'
<1>1. pc'[w] = "idle" /\ request'[w] = NoRequest
  BY Typed DEF Answer
<1>2. NoRequest.kind = "none" /\ NoRequest.team = None
  BY DEF NoRequest
<1> QED
  BY <1>1, <1>2 DEF Formed, KnowsUser, KnowsTeam, KnowsSweep, At, Busy, ClosingSteps,
     UserKinds, TeamKinds

(* The successors that are listed are members who stay, and every team whose
   captain does not stay has one or is to be removed. *)
LEMMA ListKnows ==
  ASSUME RegistrationTypeOK, NEW w \in Workers, ListTicketless(w)
  PROVE  KnowsSweep(w)'
<1>0. sweep \in [Workers -> Sweeps] /\ None \notin Users
  BY Typed
<1>1. PICK successor \in [Teams -> Users \cup {None}] :
        /\ \A t \in Teams : successor[t] \in Successors(t)
        /\ sweep' = [sweep EXCEPT ![w] =
             [listed |-> {<<u, participant[u].row>> : u \in Ticketless},
              doomed |-> {t \in Teams : Members(t) # {} /\ Members(t) \subseteq Ticketless},
              successor |-> successor, playing |-> Playing]]
  BY DEF ListTicketless
<1>2. participant' = participant /\ team' = team
  BY DEF ListTicketless
<1>3. \A t : Members(t)' = Members(t)
  BY <1>2 DEF Members, Active
<1>4. /\ sweep'[w].successor = successor
      /\ sweep'[w].listed = {<<u, participant[u].row>> : u \in Ticketless}
      /\ sweep'[w].doomed = {t \in Teams : Members(t) # {} /\ Members(t) \subseteq Ticketless}
  BY <1>0, <1>1
<1>5. ASSUME NEW t \in Teams, successor[t] # None
      PROVE  /\ \A ref \in sweep'[w].listed : ref[1] # successor[t]
             /\ successor[t] \in Members(t)'
  <2>1. successor[t] \in Members(t) \ Ticketless
    BY <1>1, <1>5 DEF Successors
  <2> QED
    BY <1>3, <1>4, <2>1
<1>6. ASSUME NEW t \in Teams, team[t].captain \in Members(t),
             NEW ref \in sweep'[w].listed, ref[1] = team[t].captain
      PROVE  t \in sweep'[w].doomed \/ successor[t] # None
  <2>1. team[t].captain \in Ticketless
    BY <1>4, <1>6
  <2>2. participant[team[t].captain].team = t
    BY <1>6 DEF Members
  <2>3. CASE Members(t) \ Ticketless = {}
    BY <1>4, <1>6, <2>3
  <2>4. CASE Members(t) \ Ticketless # {}
    <3>1. successor[t] \in Members(t)
      BY <1>1, <2>1, <2>2, <2>4 DEF Successors
    <3>2. Members(t) \subseteq Users
      BY DEF Members, Active
    <3> QED
      BY <1>0, <3>1, <3>2
  <2> QED
    BY <2>3, <2>4
<1>7. \A t \in Teams :
        /\ successor[t] # None =>
             /\ \A ref \in sweep'[w].listed : ref[1] # successor[t]
             /\ successor[t] \in Members(t)'
        /\ (team'[t].captain \in Members(t)'
            /\ \E ref \in sweep'[w].listed : ref[1] = team'[t].captain)
              => t \in sweep'[w].doomed \/ successor[t] # None
  BY <1>2, <1>3, <1>5, <1>6
<1> QED
  BY <1>4, <1>7 DEF KnowsSweep

(* A handover leaves the others as they are, and to the team's new captain
   nothing will happen. *)
LEMMA HandOverKnows ==
  ASSUME RegistrationTypeOK, contended \subseteq contended', NEW w \in Workers, KnowsSweep(w),
         NEW x \in Teams, HandOver(w, x)
  PROVE  KnowsSweep(w)'
<1>0. /\ sweep \in [Workers -> Sweeps] /\ team \in [Teams -> TeamRows]
      /\ sweep[w].successor \in [Teams -> Users \cup {None}]
  BY Typed
<1>1. /\ pc[w] = "sweep" /\ sweep[w].successor[x] # None
      /\ team' = [team EXCEPT ![x].captain = sweep[w].successor[x]]
      /\ sweep' = [sweep EXCEPT ![w].successor[x] = None]
      /\ participant' = participant
  BY DEF HandOver
<1>2. \A t : Members(t)' = Members(t)
  BY <1>1 DEF Members, Active
<1>3. /\ sweep'[w].listed = sweep[w].listed /\ sweep'[w].doomed = sweep[w].doomed
      /\ sweep'[w].successor = [sweep[w].successor EXCEPT ![x] = None]
  BY <1>0, <1>1 DEF Sweeps
<1>4. /\ sweep'[w].successor[x] = None
      /\ \A t \in Teams \ {x} : sweep'[w].successor[t] = sweep[w].successor[t]
  BY <1>0, <1>3
<1>5. /\ team'[x].captain = sweep[w].successor[x]
      /\ \A t \in Teams \ {x} : team'[t] = team[t]
  BY <1>0, <1>1 DEF TeamRows
<1>6. \A ref \in sweep[w].listed : ref[1] # sweep[w].successor[x]
  BY <1>1 DEF KnowsSweep
<1>7. \A t \in Teams \ {x} :
        /\ sweep[w].successor[t] # None =>
             /\ \A ref \in sweep[w].listed : ref[1] # sweep[w].successor[t]
             /\ t \notin contended /\ sweep[w].successor[t] \notin contended =>
                  sweep[w].successor[t] \in Members(t)
        /\ (/\ t \notin contended /\ team[t].captain \notin contended
            /\ team[t].state = "active" /\ team[t].captain \in Members(t)
            /\ \E ref \in sweep[w].listed : ref[1] = team[t].captain)
              => t \in sweep[w].doomed \/ sweep[w].successor[t] # None
  BY <1>1 DEF KnowsSweep
<1>8. ASSUME NEW t \in Teams
      PROVE  /\ sweep'[w].successor[t] # None =>
                  /\ \A ref \in sweep'[w].listed : ref[1] # sweep'[w].successor[t]
                  /\ t \notin contended' /\ sweep'[w].successor[t] \notin contended' =>
                       sweep'[w].successor[t] \in Members(t)'
             /\ (/\ t \notin contended' /\ team'[t].captain \notin contended'
                 /\ team'[t].state = "active" /\ team'[t].captain \in Members(t)'
                 /\ \E ref \in sweep'[w].listed : ref[1] = team'[t].captain)
                   => t \in sweep'[w].doomed \/ sweep'[w].successor[t] # None
  <2>1. CASE t = x
    BY <1>3, <1>4, <1>5, <1>6, <2>1
  <2>2. CASE t # x
    BY <1>2, <1>3, <1>4, <1>5, <1>7, <2>2
  <2> QED
    BY <2>1, <2>2
<1> QED
  BY <1>8 DEF KnowsSweep

(* After each of its own steps a request knows what it needs. *)
LEMMA StepKnows ==
  ASSUME RegistrationTypeOK, contended \subseteq contended', NEW w \in Workers, Step(w),
         Formed(w), KnowsUser(w), KnowsTeam(w), KnowsSweep(w)
  PROVE  Formed(w)' /\ KnowsUser(w)' /\ KnowsTeam(w)' /\ KnowsSweep(w)'
<1>0. pc \in [Workers -> Labels] /\ request \in [Workers -> Asked]
  BY Typed
<1>1. ASSUME NEW next \in ClosingSteps, GoOn(w, next), team' = team,
             request[w].kind \in {"leaveTeam", "removeMember", "deleteTeam"}, Busy(w)
      PROVE  Formed(w)' /\ KnowsUser(w)' /\ KnowsTeam(w)' /\ KnowsSweep(w)'
  <2>1. pc'[w] = next /\ request'[w] = request[w]
    BY <1>0, <1>1 DEF GoOn
  <2> QED
    BY <1>1, <2>1 DEF Formed, KnowsUser, KnowsTeam, KnowsSweep, At, Busy, ClosingSteps
<1>2. CASE LockTeam(w) \/ LockTournament(w)
  <2>1. /\ participant' = participant /\ team' = team /\ limits' = limits
        /\ pc[w] # "idle" /\ pc'[w] \in {"tournament", "commit"}
        /\ pc'[w] = "commit" => Admitted(w)
    BY <1>0, <1>2 DEF LockTeam, LockTournament, At
  <2>2. /\ request'[w].kind = request[w].kind /\ request'[w].user = request[w].user
        /\ request'[w].team = request[w].team
    BY <1>0, <1>2 DEF LockTeam, LockTournament, Asked
  <2>3. /\ \A t : Members(t)' = Members(t) /\ (HasRoom(t)' <=> HasRoom(t))
        /\ Active' = Active
    BY <2>1 DEF Members, Active, HasRoom
  <2>4. /\ Members(request[w].team)' = Members(request[w].team)
        /\ HasRoom(request[w].team)' <=> HasRoom(request[w].team)
    BY <2>1, <2>2 DEF Members, Active, HasRoom
  <2>5. pc'[w] = "commit" =>
          /\ request[w].kind \in {"join", "add"} => request[w].user \notin Active
          /\ request[w].kind = "create" =>
               request[w].user \in Active /\ participant[request[w].user].team = None
          /\ request[w].kind = "joinTeam" => HasRoom(request[w].team)
    BY <2>1 DEF Admitted, MayRegister
  <2>6. Formed(w)'
    BY <2>1, <2>2 DEF Formed, Busy, ClosingSteps
  <2>7. KnowsUser(w)'
    BY <2>1, <2>2, <2>3, <2>5 DEF KnowsUser, At
  <2>8. KnowsTeam(w)'
    BY <2>1, <2>2, <2>4, <2>5 DEF KnowsTeam, At
  <2>9. KnowsSweep(w)'
    BY <2>1 DEF KnowsSweep
  <2> QED
    BY <2>6, <2>7, <2>8, <2>9
<1>3. CASE \/ ChangeStatus(w) \/ Register(w) \/ CreateTeam(w) \/ JoinTeam(w)
           \/ RemoveParticipant(w) \/ Sweep(w) \/ Leave(w) \/ AddMember(w)
           \/ TransferCaptain(w) \/ RetireTeam(w) \/ DeleteTeam(w) \/ Abandon(w)
  <2>1. Answer(w)
    BY <1>3 DEF ChangeStatus, Register, CreateTeam, JoinTeam, RemoveParticipant,
       Sweep, Leave, AddMember, TransferCaptain, RetireTeam, DeleteTeam, Abandon
  <2> QED
    BY <2>1, AnswerKnows
<1>4. CASE QuitTeam(w) \/ CheckEmpty(w) \/ ClearMembers(w)
  <2>1. \E next \in ClosingSteps : GoOn(w, next)
    BY <1>4 DEF QuitTeam, CheckEmpty, ClearMembers, ClosingSteps
  <2>2. /\ team' = team /\ Busy(w)
        /\ request[w].kind \in {"leaveTeam", "removeMember", "deleteTeam"}
    BY <1>4 DEF QuitTeam, CheckEmpty, ClearMembers, ClosingSteps, At, Formed, Busy
  <2> QED
    BY <1>1, <2>1, <2>2
<1>5. CASE ListTicketless(w) \/ (\E t \in Teams : HandOver(w, t))
  <2>1. /\ request' = request /\ pc'[w] = "sweep" /\ pc[w] # "idle"
        /\ request[w].kind = "purge"
    BY <1>0, <1>5 DEF ListTicketless, HandOver, At, Formed
  <2>2. request[w].team # None => team'[request[w].team].state # "unborn"
    <3>1. request[w].team # None =>
            request[w].team \in Teams /\ team[request[w].team].state # "unborn"
      BY <2>1, Typed DEF Formed, Busy
    <3>2. PICK t : t = request[w].team
      OBVIOUS
    <3>3. t \in Teams /\ team[t].state # "unborn" => team'[t].state # "unborn"
      BY TeamChange DEF Exists
    <3> QED
      BY <3>1, <3>2, <3>3
  <2>3. Formed(w)' /\ KnowsUser(w)' /\ KnowsTeam(w)'
    BY <2>1, <2>2 DEF Formed, KnowsUser, KnowsTeam, At, Busy, ClosingSteps, UserKinds,
       TeamKinds
  <2> QED
    BY <1>5, <2>3, ListKnows, HandOverKnows
<1> QED
  BY <1>2, <1>3, <1>4, <1>5 DEF Step
-----------------------------------------------------------------------------
(* What a step leaves of the teams *)

(* Nobody gets into a team that was never founded. *)
LEMMA BornKept ==
  ASSUME RegistrationTypeOK, TeamsBorn, NEW w \in Workers, Ask(w) \/ Step(w), Formed(w)
  PROVE  TeamsBorn'
<1> SUFFICES ASSUME NEW u \in Users, NEW t, t = participant'[u].team, t # None
             PROVE  team'[t].state # "unborn"
  BY DEF TeamsBorn
<1>0. None \notin Teams /\ t \in Teams
  <2>1. RegistrationTypeOK'
    BY NextTypes DEF Next
  <2> QED
    BY <2>1, ValuesDiffer DEF RegistrationTypeOK, Rows
<1>1. CASE participant[u].team = t
  <2>1. team[t].state # "unborn"
    BY <1>1 DEF TeamsBorn
  <2> QED
    BY <1>0, <2>1, TeamChange DEF Exists
<1>2. CASE participant[u].team # t
  <2>1. \/ (JoinTeam(w) \/ AddMember(w)) /\ t = request[w].team
        \/ team'[t] = [state |-> "active", captain |-> u]
    BY <1>0, <1>2, TeamEntered
  <2>2. CASE (JoinTeam(w) \/ AddMember(w)) /\ t = request[w].team
    <3>1. team[t].state # "unborn" /\ team' = team
      BY <1>0, <2>2 DEF Formed, Busy, JoinTeam, AddMember, At
    <3> QED
      BY <3>1
  <2> QED
    BY <2>1, <2>2
<1> QED
  BY <1>1, <1>2

(* Nobody gets into, or is left in, a team that goes, but by an administrator
   who puts them there. *)
LEMMA StandKept ==
  ASSUME RegistrationTypeOK, MembersOfActiveTeams, contended \subseteq contended',
         adopted' = {u \in Users : participant'[u].team # None /\ (u \in adopted \/ Adopts(u))},
         NEW w \in Workers, Ask(w) \/ Step(w), Formed(w), KnowsTeam(w)
  PROVE  MembersOfActiveTeams'
<1> SUFFICES ASSUME NEW u \in Users, u \notin contended', u \notin adopted',
                    NEW t \in Teams, t \notin contended', participant'[u].team = t
             PROVE  team'[t].state = "active"
  BY DEF MembersOfActiveTeams
<1>0. /\ u \notin adopted /\ ~Adopts(u)
      /\ pc \in [Workers -> Labels] /\ team \in [Teams -> TeamRows]
  BY Typed
<1>1. CASE participant[u].team = t
  <2>1. team[t].state = "active"
    BY <1>0, <1>1 DEF MembersOfActiveTeams
  <2> QED
    BY <2>1, TeamChange
<1>2. CASE participant[u].team # t
  <2>1. /\ u = request[w].user
        /\ \/ (JoinTeam(w) \/ AddMember(w)) /\ t = request[w].team
           \/ team'[t] = [state |-> "active", captain |-> u]
    BY <1>2, TeamEntered
  <2>2. CASE JoinTeam(w) /\ t = request[w].team
    <3>1. request[w].kind = "joinTeam" /\ team' = team
      BY <2>2 DEF JoinTeam, At
    <3>2. team[t].state = "active"
      BY <2>2, <3>1 DEF KnowsTeam
    <3> QED
      BY <3>1, <3>2
  <2>3. CASE AddMember(w) /\ t = request[w].team
    <3>1. /\ At(w, "write", {"addMember"}) /\ Exists(t) /\ team' = team
          /\ pc' = [pc EXCEPT ![w] = "idle"]
      BY <2>3 DEF AddMember, Answer
    <3>2. pc'[w] = "idle"
      BY <1>0, <3>1
    <3>3. team[t].state # "removed"
      BY <1>0, <2>1, <2>3, <3>1, <3>2 DEF Adopts
    <3> QED
      BY <3>1, <3>3 DEF Exists
  <2> QED
    BY <2>1, <2>2, <2>3
<1> QED
  BY <1>1, <1>2

(* A team is joined only while it has room, and founded by one. *)
LEMMA SizeKept ==
  ASSUME RegistrationTypeOK, TeamsBorn, TeamsNotOverfull, contended \subseteq contended',
         NEW w \in Workers, Ask(w) \/ Step(w), Formed(w), KnowsTeam(w)
  PROVE  TeamsNotOverfull'
<1> SUFFICES ASSUME NEW t \in Teams \ contended'
             PROVE  Cardinality(Members(t)') <= limits'.size \/ Cardinality(Members(t)') <= 1
  BY DEF TeamsNotOverfull
<1>0. /\ limits' = limits /\ limits.size \in Nat /\ Cardinality(Members(t)) \in Nat
      /\ Members(t)' \subseteq Users
  BY OthersKept, Typed, MembersCount DEF Members, Active
<1>1. Cardinality(Members(t)) <= limits.size \/ Cardinality(Members(t)) <= 1
  BY DEF TeamsNotOverfull
<1>2. CASE Members(t)' \subseteq Members(t)
  <2>1. Cardinality(Members(t)') \in Nat /\ Cardinality(Members(t)') <= Cardinality(Members(t))
    BY <1>2, MembersCount
  <2> QED
    BY <1>0, <1>1, <2>1
<1>3. ASSUME NEW u \in Users, u \in Members(t)', u \notin Members(t)
      PROVE  Cardinality(Members(t)') <= limits.size \/ Cardinality(Members(t)') <= 1
  <2>1. /\ u = request[w].user
        /\ \A x \in Members(t)' : x \in Members(t) \/ x = u
        /\ \/ (JoinTeam(w) \/ AddMember(w)) /\ t = request[w].team
           \/ CreateTeam(w) /\ team[t].state = "unborn"
    <3>1. ASSUME NEW x \in Users, x \in Members(t)', x \notin Members(t)
          PROVE  /\ x = request[w].user
                 /\ \/ (JoinTeam(w) \/ AddMember(w)) /\ t = request[w].team
                    \/ CreateTeam(w) /\ team[t].state = "unborn"
      BY <3>1, MemberEntered
    <3> QED
      BY <1>0, <1>3, <3>1
  <2>2. PICK S : S = Members(t)
    OBVIOUS
  <2>3. IsFiniteSet(S) /\ Cardinality(S) \in Nat /\ Members(t)' \subseteq S \cup {u}
    BY <2>1, <2>2, MembersCount
  <2>4. /\ IsFiniteSet(S \cup {u}) /\ Cardinality(S \cup {u}) <= Cardinality(S) + 1
        /\ Cardinality(Members(t)') \in Nat /\ Cardinality(S \cup {u}) \in Nat
        /\ Cardinality(Members(t)') <= Cardinality(S \cup {u})
    BY <2>3, OneMore, NoMore
  <2>5. CASE (JoinTeam(w) \/ AddMember(w)) /\ t = request[w].team
    <3>1. HasRoom(t)
      BY <2>5 DEF KnowsTeam, JoinTeam, AddMember, At
    <3>2. Cardinality(S) < limits.size
      BY <2>2, <3>1 DEF HasRoom
    <3> QED
      BY <1>0, <2>3, <2>4, <3>2
  <2>6. CASE CreateTeam(w) /\ team[t].state = "unborn"
    <3>1. S = {}
      BY <2>2, <2>6, Typed DEF TeamsBorn, Members, Active
    <3>2. Cardinality(S) = 0
      BY <2>3, <3>1, FS_EmptySet
    <3> QED
      BY <2>3, <2>4, <3>2
  <2> QED
    BY <2>1, <2>5, <2>6
<1> QED
  BY <1>0, <1>2, <1>3
(* Whoever a step makes the captain of a team is a member of it. *)
LEMMA CaptainTaken ==
  ASSUME RegistrationTypeOK, NEW w \in Workers, Ask(w) \/ Step(w),
         Formed(w), KnowsUser(w), KnowsTeam(w), KnowsSweep(w),
         NEW t \in Teams, t \notin contended, team'[t] # team[t], team'[t].state = "active",
         NEW c, c = team'[t].captain, c \notin contended
  PROVE  c \in Members(t)'
<1>0. /\ participant \in [Users -> Rows] /\ team \in [Teams -> TeamRows]
      /\ sweep[w].successor \in [Teams -> Users \cup {None}]
  BY Typed
<1>1. \/ TransferCaptain(w) /\ t = request[w].team
      \/ HandOver(w, t)
      \/ /\ CreateTeam(w) /\ WriteTeam(w, t)
         /\ team'[t] = [state |-> "active", captain |-> request[w].user]
         /\ request[w].user \in Users
  BY TeamChange
<1>2. ASSUME participant' = participant PROVE Members(t)' = Members(t)
  BY <1>2 DEF Members, Active
<1>3. CASE TransferCaptain(w) /\ t = request[w].team
  <2>1. team'[t] = [team[t] EXCEPT !.captain = request[w].user]
    BY <1>0, <1>3 DEF TransferCaptain
  <2>2. c = request[w].user
    BY <1>0, <2>1 DEF TeamRows
  <2>3. c \in Members(t) /\ participant' = participant
    BY <1>3, <2>2 DEF TransferCaptain, At, KnowsTeam
  <2> QED
    BY <1>2, <2>3
<1>4. CASE HandOver(w, t)
  <2>1. /\ pc[w] = "sweep" /\ sweep[w].successor[t] # None /\ participant' = participant
        /\ team'[t] = [team[t] EXCEPT !.captain = sweep[w].successor[t]]
    BY <1>0, <1>4 DEF HandOver
  <2>2. c = sweep[w].successor[t]
    BY <1>0, <2>1 DEF TeamRows
  <2>3. c \in Members(t)
    BY <2>1, <2>2 DEF KnowsSweep
  <2> QED
    BY <1>2, <2>1, <2>3
<1>5. CASE /\ CreateTeam(w) /\ WriteTeam(w, t)
           /\ team'[t] = [state |-> "active", captain |-> request[w].user]
           /\ request[w].user \in Users
  <2>1. c = request[w].user /\ c \in Users
    BY <1>5
  <2>2. c \in Active
    BY <1>5, <2>1 DEF CreateTeam, KnowsUser
  <2>3. participant'[c] = [participant[c] EXCEPT !.team = t]
    BY <1>0, <1>5, <2>1 DEF WriteTeam
  <2>4. participant'[c].team = t /\ participant'[c].state = "active"
    BY <1>0, <2>1, <2>2, <2>3 DEF Rows, Active
  <2> QED
    BY <2>1, <2>4 DEF Members, Active
<1> QED
  BY <1>1, <1>3, <1>4, <1>5

(* A captain leaves a team for good, or leaves it empty to a request that is
   about to delete it. *)
LEMMA CaptainGoes ==
  ASSUME RegistrationTypeOK, NEW w \in Workers, Ask(w) \/ Step(w),
         Formed(w), KnowsUser(w), KnowsTeam(w), KnowsSweep(w),
         NEW t \in Teams, t \notin contended, team'[t] = team[t], team[t].state = "active",
         NEW c \in Members(t), c = team[t].captain, c \notin contended, c \notin Members(t)'
  PROVE  Left(t) \/ (Closing(t)' /\ Members(t)' = {})
<1>0. /\ participant \in [Users -> Rows] /\ team \in [Teams -> TeamRows]
      /\ pc \in [Workers -> Labels] /\ None \notin Users /\ None \notin Teams
      /\ sweep[w].doomed \subseteq Teams /\ request[w].team \in Teams \cup {None}
  BY Typed
<1>1. c \in Users /\ c \in Active /\ participant[c].team = t /\ participant[c].state = "active"
  BY DEF Members, Active
<1>2. participant'[c] # participant[c]
  BY <1>1 DEF Members, Active
<1>3. \A u \in Users : participant'[u].team # t => u \notin Members(t)'
  BY DEF Members
<1>4. Members(t)' \subseteq Users
  BY DEF Members, Active
<1>5. ASSUME NEW teams \in SUBSET Teams, t \in teams, NEW state \in {"removed", "deleted"},
             team' = WithoutTeams(teams, state)
      PROVE  FALSE
  <2>1. team'[t] = [team[t] EXCEPT !.state = state]
    BY <1>5 DEF WithoutTeams, Exists
  <2>2. team'[t].state = state
    BY <1>0, <2>1 DEF TeamRows
  <2> QED
    BY <2>2
<1>6. ASSUME NEW users, NEW teams \in SUBSET Teams, NEW playing, NEW state \in {"removed", "deleted"},
             participant' = Detached(Gone(participant, users, playing), teams),
             team' = WithoutTeams(teams, state)
      PROVE  c \in users
  <2>1. SUFFICES ASSUME c \notin users PROVE FALSE
    OBVIOUS
  <2>2. PICK rows : rows = Gone(participant, users, playing)
    OBVIOUS
  <2>3. rows[c] = participant[c] /\ rows \in [Users -> Rows]
    <3>1. \A u \in Users \ users : Gone(participant, users, playing)[u] = participant[u]
      BY <1>0, GoneRow
    <3>2. Gone(participant, users, playing) \in [Users -> Rows]
      BY <1>0, RowTypes
    <3> QED
      BY <1>1, <2>1, <2>2, <3>1, <3>2
  <2>4. t \in teams
    <3>1. rows[c].team \notin teams => Detached(rows, teams)[c] = rows[c]
      BY <1>1 DEF Detached
    <3> QED
      BY <1>1, <1>2, <1>6, <2>2, <2>3, <3>1
  <2> QED
    BY <1>5, <1>6, <2>4
<1>7. CASE Ask(w)
  BY <1>2, <1>7, AskChanges
<1>8. CASE \/ LockTeam(w) \/ LockTournament(w) \/ ChangeStatus(w) \/ ListTicketless(w)
           \/ (\E x \in Teams : HandOver(w, x)) \/ TransferCaptain(w) \/ CheckEmpty(w)
           \/ DeleteTeam(w) \/ Abandon(w)
  BY <1>2, <1>8 DEF LockTeam, LockTournament, ChangeStatus, ListTicketless, HandOver,
     TransferCaptain, CheckEmpty, DeleteTeam, Abandon
<1>9. CASE Register(w)
  <2>1. c = request[w].user
    BY <1>0, <1>2, <1>9 DEF Register
  <2> QED
    BY <1>1, <1>9, <2>1 DEF Register, KnowsUser
<1>10. CASE CreateTeam(w) \/ JoinTeam(w) \/ AddMember(w)
  <2>1. c = request[w].user
    <3>1. \E x : WriteTeam(w, x)
      BY <1>10 DEF CreateTeam, JoinTeam, AddMember
    <3> QED
      BY <1>0, <1>2, <3>1 DEF WriteTeam
  <2>2. participant[c].team = None
    BY <1>10, <2>1 DEF CreateTeam, JoinTeam, AddMember, KnowsUser, At
  <2> QED
    BY <1>0, <1>1, <2>2
<1>11. CASE RemoveParticipant(w)
  <2> DEFINE there == IF Present(w) THEN {request[w].user} ELSE {}
             x == request[w].team
             teams == IF Playing /\ x # None /\ Members(x) \ there = {} THEN {x} ELSE {}
  <2>1. /\ participant' = Detached(Gone(participant, there, Playing), teams)
        /\ team' = WithoutTeams(teams, "removed")
    BY <1>11 DEF RemoveParticipant
  <2>2. teams \in SUBSET Teams
    BY <1>0
  <2>3. c \in there => c = request[w].user
    OBVIOUS
  <2> HIDE DEF there, teams
  <2>4. c = request[w].user
    BY <1>6, <2>1, <2>2, <2>3
  <2>5. At(w, "commit", {"remove"}) /\ pc'[w] = "idle"
    BY <1>0, <1>11 DEF RemoveParticipant, Answer
  <2> QED
    BY <2>4, <2>5 DEF Left
<1>12. CASE Leave(w)
  <2>1. c = request[w].user
    BY <1>0, <1>1, <1>2, <1>12 DEF Leave, Deleted
  <2>2. At(w, "write", {"leave"}) /\ pc'[w] = "idle"
    BY <1>0, <1>12 DEF Leave, Answer
  <2> QED
    BY <2>1, <2>2 DEF Left
<1>13. CASE Sweep(w)
  <2> DEFINE state == IF sweep[w].playing THEN "removed" ELSE "deleted"
  <2>1. /\ participant' =
             Detached(Gone(participant, Listed(w), sweep[w].playing), sweep[w].doomed)
        /\ team' = WithoutTeams(sweep[w].doomed, state)
        /\ state \in {"removed", "deleted"}
        /\ pc[w] = "sweep" /\ sweep[w].successor[t] = None
    BY <1>13 DEF Sweep
  <2> HIDE DEF state
  <2>2. c \in Listed(w)
    BY <1>0, <1>6, <2>1
  <2>3. \E ref \in sweep[w].listed : ref[1] = c
    BY <2>2 DEF Listed
  <2>4. t \in sweep[w].doomed
    BY <2>1, <2>3 DEF KnowsSweep
  <2> QED
    BY <1>0, <1>5, <2>1, <2>4
<1>14. CASE QuitTeam(w)
  <2>1. c = request[w].user
    BY <1>0, <1>2, <1>14 DEF QuitTeam, WriteTeam
  <2>2. t = request[w].team
    BY <1>0, <1>1, <1>14, <2>1 DEF QuitTeam, KnowsUser, At
  <2>3. Members(t) \subseteq {c}
    BY <1>14, <2>1, <2>2 DEF QuitTeam, KnowsTeam
  <2>4. Members(t)' = {}
    <3>1. ASSUME NEW u \in Users, u \in Members(t)' PROVE FALSE
      <4>1. u \notin Members(t)
        BY <2>3, <3>1
      <4>2. JoinTeam(w) \/ AddMember(w) \/ CreateTeam(w)
        BY <3>1, <4>1, MemberEntered
      <4> QED
        BY <1>10, <1>14, <4>2 DEF JoinTeam, AddMember, CreateTeam, QuitTeam, At
    <3> QED
      BY <1>4, <3>1
  <2>5. pc'[w] = "empty" /\ request'[w].team = t
    BY <1>0, <1>14, <2>2 DEF QuitTeam, GoOn
  <2> QED
    BY <2>4, <2>5 DEF Closing
<1>15. CASE RetireTeam(w) \/ ClearMembers(w)
  <2>1. request[w].team \in Teams
    BY <1>15 DEF RetireTeam, ClearMembers, Formed, ClosingSteps, TeamKinds
  <2>2. participant' = Detached(participant, {request[w].team})
    BY <1>15 DEF RetireTeam, ClearMembers
  <2>3. t = request[w].team
    BY <1>0, <1>1, <1>2, <2>2 DEF Detached
  <2>4. Members(t)' = {}
    <3>1. \A u \in Users : participant'[u].team # t
      <4>1. \A u \in Users : participant[u] \in Rows
        BY <1>0
      <4> QED
        BY <1>0, <4>1, <2>2, <2>3 DEF Detached, Rows
    <3> QED
      BY <1>3, <1>4, <3>1
  <2>5. CASE ClearMembers(w)
    <3>1. pc'[w] = "delete" /\ request'[w].team = t
      BY <1>0, <2>3, <2>5 DEF ClearMembers, GoOn
    <3> QED
      BY <2>4, <3>1 DEF Closing
  <2>6. CASE RetireTeam(w)
    BY <1>5, <2>3, <2>6 DEF RetireTeam
  <2> QED
    BY <1>15, <2>5, <2>6
<1> QED
  BY <1>7, <1>8, <1>9, <1>10, <1>11, <1>12, <1>13, <1>14, <1>15 DEF Step

(* Nobody else joins a team that a request is about to delete. *)
LEMMA EmptyStays ==
  ASSUME RegistrationTypeOK, OverlapsKnown, NEW w \in Workers, Ask(w) \/ Step(w), Formed(w),
         NEW t \in Teams, t \notin contended, team[t].state = "active",
         Closing(t), Members(t) = {}
  PROVE  Members(t)' = {}
<1>1. Members(t)' \subseteq Users
  BY DEF Members, Active
<1>2. ASSUME NEW u \in Users, u \in Members(t)' PROVE FALSE
  <2>1. (JoinTeam(w) \/ AddMember(w)) /\ t = request[w].team
    BY <1>2, MemberEntered
  <2>2. PICK v \in Workers :
          request[v].team = t /\ pc[v] \in {"empty", "clear", "delete", "retire"}
    BY DEF Closing
  <2>3. v # w
    BY <2>1, <2>2 DEF JoinTeam, AddMember, At
  <2>4. t \in About(v) /\ t \in About(w)
    BY <2>1, <2>2, Typed, AboutThese
  <2> QED
    BY <2>3, <2>4, Alone
<1> QED
  BY <1>1, <1>2

(* Every team no requests met over keeps its captain, or is about to go. *)
LEMMA LedKept ==
  ASSUME RegistrationTypeOK, OverlapsKnown, TeamsLed, contended \subseteq contended',
         leaderless' = leaderless \cup {t \in Teams : Left(t)},
         NEW w \in Workers, Ask(w) \/ Step(w),
         Formed(w), KnowsUser(w), KnowsTeam(w), KnowsSweep(w)
  PROVE  TeamsLed'
<1> SUFFICES ASSUME NEW t \in Teams, t \notin contended', t \notin leaderless',
                    team'[t].state = "active", team'[t].captain \notin contended',
                    team'[t].captain \notin Members(t)'
             PROVE  Closing(t)' /\ Members(t)' = {}
  BY DEF TeamsLed, ActiveTeams
<1>1. ~Left(t) /\ t \notin leaderless
  OBVIOUS
<1>2. team'[t] = team[t]
  BY CaptainTaken
<1>3. PICK c : c = team[t].captain
  OBVIOUS
<1>4. c \in Members(t) \/ (Closing(t) /\ Members(t) = {})
  BY <1>1, <1>2, <1>3 DEF TeamsLed, ActiveTeams
<1>5. CASE c \in Members(t)
  BY <1>1, <1>2, <1>3, <1>5, CaptainGoes
<1>6. CASE Closing(t) /\ Members(t) = {}
  <2>1. Members(t)' = {}
    BY <1>2, <1>6, EmptyStays
  <2> QED
    BY <1>1, <1>6, <2>1 DEF Left
<1> QED
  BY <1>4, <1>5, <1>6
-----------------------------------------------------------------------------
(* The invariant *)

(* Nobody has met anybody yet, and every team is founded and led. *)
LEMMA InitTeams == HistoryInit => TeamInv
<1> SUFFICES ASSUME HistoryInit PROVE TeamInv
  OBVIOUS
<1>1. /\ contended = {} /\ leaderless = {} /\ adopted = {}
      /\ pc = [w \in Workers |-> "idle"] /\ request = [w \in Workers |-> NoRequest]
      /\ sweep = [w \in Workers |-> NoSweep]
      /\ RegistrationTypeOK
  BY InitTypes DEF HistoryInit, Init
<1>2. \A w \in Workers : About(w) = {}
  BY <1>1 DEF About, NoRequest, NoSweep
<1>3. OverlapsKnown
  BY <1>2 DEF OverlapsKnown, Meet
<1>4. ASSUME NEW w \in Workers
      PROVE  Formed(w) /\ KnowsUser(w) /\ KnowsTeam(w) /\ KnowsSweep(w)
  <2>1. pc[w] = "idle" /\ request[w] = NoRequest
    BY <1>1
  <2>2. NoRequest.kind = "none" /\ NoRequest.team = None
    BY DEF NoRequest
  <2> QED
    BY <2>1, <2>2 DEF Formed, KnowsUser, KnowsTeam, KnowsSweep, At, Busy, ClosingSteps,
       UserKinds, TeamKinds
<1>5. \A t \in Teams :
        /\ team[t].state \in {"unborn", "active"}
        /\ team[t].state = "active" => team[t].captain \in Members(t)
        /\ team[t].state = "unborn" => Members(t) = {}
        /\ Cardinality(Members(t)) <= limits.size
  BY DEF HistoryInit, Init
<1>6. \A u \in Users : participant[u].team # None =>
        participant[u].team \in Teams /\ u \in Members(participant[u].team)
  BY DEF HistoryInit, Init, Members, Active
<1>7. TeamsBorn /\ MembersOfActiveTeams
  <2>1. ASSUME NEW u \in Users, participant[u].team # None
        PROVE  team[participant[u].team].state = "active"
    <3>1. PICK t \in Teams : t = participant[u].team /\ u \in Members(t)
      BY <1>6, <2>1
    <3> QED
      BY <1>5, <3>1
  <2> QED
    BY <2>1, ValuesDiffer DEF TeamsBorn, MembersOfActiveTeams
<1>8. TeamsNotOverfull /\ TeamsLed
  BY <1>5 DEF TeamsNotOverfull, TeamsLed, ActiveTeams
<1> QED
  BY <1>1, <1>3, <1>4, <1>7, <1>8 DEF TeamInv, KnownInv

(* Every step keeps the invariant. *)
LEMMA NextTeams == TeamInv /\ [HistoryNext]_historyVars => TeamInv'
<1> SUFFICES ASSUME TeamInv, [HistoryNext]_historyVars PROVE TeamInv'
  OBVIOUS
<1>0. /\ RegistrationTypeOK /\ OverlapsKnown /\ TeamsBorn /\ MembersOfActiveTeams /\ TeamsNotOverfull
      /\ TeamsLed /\ contended \subseteq Users \cup Teams
      /\ \A w \in Workers : Formed(w) /\ KnowsUser(w) /\ KnowsTeam(w) /\ KnowsSweep(w)
  BY DEF TeamInv, KnownInv
<1>1. CASE HistoryNext
  <2>1. PICK w \in Workers : Ask(w) \/ Step(w)
    BY <1>1 DEF HistoryNext, Next
  <2>2. /\ contended' = contended \cup Meet'
        /\ leaderless' = leaderless \cup {t \in Teams : Left(t)}
        /\ contended \subseteq contended'
        /\ adopted' = {u \in Users : /\ participant'[u].team # None
                                     /\ u \in adopted \/ Adopts(u)}
    BY <1>1 DEF HistoryNext
  <2>3. RegistrationTypeOK'
    BY <1>0, <1>1, NextTypes DEF HistoryNext
  <2>4. Meet' \subseteq Users \cup Teams
    BY DEF Meet
  <2>5. OverlapsKnown' /\ contended' \subseteq Users \cup Teams
    BY <1>0, <2>2, <2>4 DEF OverlapsKnown
  <2>6. ASSUME NEW v \in Workers
        PROVE  Formed(v)' /\ KnowsUser(v)' /\ KnowsTeam(v)' /\ KnowsSweep(v)'
    <3>1. CASE v = w
      <4>1. Formed(w)' /\ KnowsUser(w)' /\ KnowsTeam(w)' /\ KnowsSweep(w)'
        BY <1>0, <2>1, <2>2, AskKnows, StepKnows
      <4> QED
        BY <3>1, <4>1
    <3>2. CASE v # w
      BY <1>0, <2>1, <2>2, <3>2, OtherFormed, OtherKnowsUser, OtherKnowsTeam, OtherKnowsSweep
    <3> QED
      BY <3>1, <3>2
  <2>7. TeamsBorn' /\ MembersOfActiveTeams' /\ TeamsNotOverfull'
    BY <1>0, <2>1, <2>2, BornKept, StandKept, SizeKept
  <2>8. TeamsLed'
    BY <1>0, <2>1, <2>2, LedKept
  <2> QED
    BY <2>3, <2>5, <2>6, <2>7, <2>8 DEF TeamInv, KnownInv
<1>2. CASE UNCHANGED historyVars
  <2>1. UNCHANGED vars /\ UNCHANGED <<contended, leaderless, adopted>>
    BY <1>2 DEF historyVars
  <2>2. /\ limits' = limits /\ participant' = participant /\ team' = team /\ pc' = pc
        /\ request' = request /\ sweep' = sweep
    BY <2>1 DEF vars
  <2>3. RegistrationTypeOK'
    BY <1>0, <2>1, NextTypes
  <2>4. \A w \in Workers : About(w)' = About(w)
    BY <2>2 DEF About
  <2>5. OverlapsKnown'
    BY <1>0, <2>1, <2>4 DEF OverlapsKnown, Meet
  <2>6. ASSUME NEW w \in Workers
        PROVE  Formed(w)' /\ KnowsUser(w)' /\ KnowsTeam(w)' /\ KnowsSweep(w)'
    <3>0. Formed(w) /\ KnowsUser(w) /\ KnowsTeam(w) /\ KnowsSweep(w)
      BY <1>0
    <3>1. contended' = contended
      BY <2>1
    <3>2. Formed(w)'
      BY <2>2, <3>0 DEF Formed, At, Busy
    <3>3. KnowsUser(w)'
      BY <2>2, <3>0, <3>1 DEF KnowsUser, At, Busy, Members, Active
    <3>4. KnowsTeam(w)'
      BY <2>2, <3>0, <3>1 DEF KnowsTeam, At, Busy, HasRoom, Members, Active
    <3>5. KnowsSweep(w)'
      BY <2>1, <2>2, <3>0 DEF KnowsSweep, At, Busy, Members, Active
    <3> QED
      BY <3>2, <3>3, <3>4, <3>5
  <2>7. TeamsBorn' /\ MembersOfActiveTeams' /\ TeamsNotOverfull' /\ TeamsLed'
    BY <1>0, <2>1, <2>2 DEF TeamsBorn, MembersOfActiveTeams, TeamsNotOverfull, TeamsLed, Members,
       Active, ActiveTeams, Closing
  <2> QED
    BY <1>0, <2>1, <2>3, <2>5, <2>6, <2>7 DEF TeamInv, KnownInv
<1> QED
  BY <1>1, <1>2

\* However often members come and go, and however many requests run at once, a
\* team has more members than it may have only if requests met over it: joining
\* counts under the team's lock, and adding a member counts under none, but
\* nobody else is about the team meanwhile.
THEOREM TeamsKeepTheirSize == HistorySpec => []TeamsNotOverfull
<1> QED
  BY InitTeams, NextTeams, PTL DEF HistorySpec, TeamInv

\* However teams are left, retired, purged or deleted, nobody is left in one
\* that is gone, not even with a participation marked as removed, unless an
\* administrator has put them into a team that was removed already, or requests
\* met over the user or the team.
THEOREM TeamsOfMembersStand == HistorySpec => []MembersOfActiveTeams
<1> QED
  BY InitTeams, NextTeams, PTL DEF HistorySpec, TeamInv

\* A team is led by one of its members, unless its captain left the tournament
\* or requests met over the team or its captain: whoever takes a team over is
\* a member, and a captain leaves a team last.
THEOREM TeamsAreLed == HistorySpec => []CaptainLeads
<1>1. TeamInv => CaptainLeads
  BY DEF TeamInv, TeamsLed, CaptainLeads
<1> QED
  BY <1>1, InitTeams, NextTeams, PTL DEF HistorySpec

(* Who enters a team was in none, unless requests met over the user. *)
LEMMA StepLeavesFirst ==
  ASSUME TeamInv, HistoryNext, NEW u \in Users, u \notin contended', participant[u].team # None
  PROVE  participant'[u].team \in {participant[u].team, None}
<1>1. PICK w \in Workers : Ask(w) \/ Step(w)
  BY DEF HistoryNext, Next
<1>2. /\ RegistrationTypeOK /\ RegistrationTypeOK' /\ Formed(w) /\ KnowsUser(w)
      /\ u \notin contended
  BY NextTypes DEF TeamInv, KnownInv, HistoryNext
<1>3. participant'[u].team \in Teams \cup {None}
  BY <1>2 DEF RegistrationTypeOK, Rows
<1>4. ASSUME NEW t \in Teams, participant'[u].team = t, participant[u].team # t PROVE FALSE
  <2>1. /\ u = request[w].user
        /\ \/ (JoinTeam(w) \/ AddMember(w)) /\ t = request[w].team
           \/ /\ CreateTeam(w) /\ team[t].state = "unborn"
              /\ team'[t] = [state |-> "active", captain |-> u]
    BY <1>1, <1>2, <1>4, TeamEntered
  <2>2. request[w].kind \in {"joinTeam", "addMember"} \/ At(w, "commit", {"create"})
    BY <2>1 DEF JoinTeam, AddMember, CreateTeam, At
  <2> QED
    BY <1>2, <2>1, <2>2 DEF KnowsUser
<1> QED
  BY <1>3, <1>4

\* Nobody gets from one team into another without leaving the first, unless
\* requests met over them: joining a team writes what its view has checked,
\* and nobody else changed it meanwhile.
THEOREM FirstTeamLeft == HistorySpec => TeamLeftFirst
<1>1. TeamInv /\ [HistoryNext]_historyVars =>
        [\A u \in Users \ contended' :
           participant[u].team # None => participant'[u].team \in {participant[u].team, None}
        ]_historyVars
  <2> SUFFICES ASSUME TeamInv, HistoryNext, NEW u \in Users \ contended',
                      participant[u].team # None
               PROVE  participant'[u].team \in {participant[u].team, None}
    OBVIOUS
  <2> QED
    BY StepLeavesFirst
<1> QED
  BY <1>1, InitTeams, NextTeams, PTL DEF HistorySpec, TeamLeftFirst
-----------------------------------------------------------------------------
(* The roster of a tournament that is played *)

\* A request that has seen no other status knows whether play is on.
StatusKnown ==
  \A w \in Workers \ overtaken :
    /\ At(w, "write", {"leave"}) => status = "REGISTRATION_OPEN"
    /\ pc[w] = "sweep" => sweep[w].playing = Playing

RosterInv == TeamInv /\ StatusKnown

(* A request sees another status in time, or is overtaken. *)
LEMMA NextRoster == RosterInv /\ [HistoryNext]_historyVars => RosterInv'
<1> SUFFICES ASSUME RosterInv, [HistoryNext]_historyVars PROVE RosterInv'
  OBVIOUS
<1>1. CASE HistoryNext
  <2>1. PICK w \in Workers : Ask(w) \/ Step(w)
    BY <1>1 DEF HistoryNext, Next
  <2>2. TeamInv' /\ RegistrationTypeOK /\ TeamsBorn /\ StatusKnown
    BY NextTeams DEF RosterInv, TeamInv
  <2>3. /\ pc \in [Workers -> Labels] /\ request \in [Workers -> Asked]
        /\ sweep \in [Workers -> Sweeps]
    BY <2>2, Typed
  <2>4. ASSUME NEW v \in Workers, v \notin overtaken',
               At(v, "write", {"leave"})' \/ pc'[v] = "sweep"
        PROVE  /\ At(v, "write", {"leave"})' => status' = "REGISTRATION_OPEN"
               /\ pc'[v] = "sweep" => sweep'[v].playing = Playing'
    <3>1. v \notin overtaken /\ (pc[v] = "idle" \/ status' = status)
      BY <1>1, <2>4 DEF HistoryNext, At
    <3>2. CASE v # w
      <4>1. pc'[v] = pc[v] /\ request'[v] = request[v] /\ sweep'[v] = sweep[v]
        BY <2>1, <2>2, <3>2, OthersKept
      <4>2. status' = status
        BY <2>4, <3>1, <4>1 DEF At
      <4>3. /\ At(v, "write", {"leave"}) => status = "REGISTRATION_OPEN"
            /\ pc[v] = "sweep" => sweep[v].playing = Playing
        BY <2>2, <3>1 DEF StatusKnown
      <4> QED
        BY <4>1, <4>2, <4>3 DEF At, Playing
    <3>3. CASE v = w /\ Ask(w)
      <4>1. PICK r : r = request'[w]
        OBVIOUS
      <4>2. pc'[w] # "sweep" /\ status' = status
        BY <2>2, <3>3, AskChanges, AskReads
      <4>3. r.kind = "leave" => status = "REGISTRATION_OPEN"
        BY <2>2, <3>3, <4>1, AskReads
      <4> QED
        BY <3>3, <4>1, <4>2, <4>3 DEF At
    <3>4. CASE v = w /\ Step(w)
      <4>1. pc'[w] \in {"write", "sweep"}
        BY <2>4, <3>4 DEF At
      <4>2. CASE LockTeam(w) \/ LockTournament(w)
        BY <2>3, <4>1, <4>2 DEF LockTeam, LockTournament
      <4>3. CASE ListTicketless(w)
        <5>1. sweep'[w].playing = Playing /\ pc'[w] = "sweep" /\ status' = status
          BY <2>3, <4>3 DEF ListTicketless
        <5> QED
          BY <3>4, <5>1 DEF At, Playing
      <4>4. CASE \E t \in Teams : HandOver(w, t)
        <5>1. /\ sweep'[w].playing = sweep[w].playing /\ pc'[w] = "sweep" /\ pc[w] = "sweep"
              /\ status' = status
          BY <2>3, <4>4 DEF HandOver, Sweeps
        <5>2. sweep[w].playing = Playing
          BY <2>2, <3>1, <3>4, <5>1 DEF StatusKnown
        <5> QED
          BY <3>4, <5>1, <5>2 DEF At, Playing
      <4>5. ASSUME Answer(w) PROVE pc'[w] = "idle"
        BY <2>3, <4>5 DEF Answer
      <4>6. ASSUME NEW next, GoOn(w, next) PROVE pc'[w] = next
        BY <2>3, <4>6 DEF GoOn
      <4>7. CASE QuitTeam(w) \/ CheckEmpty(w) \/ ClearMembers(w)
        BY <4>1, <4>6, <4>7 DEF QuitTeam, CheckEmpty, ClearMembers
      <4>8. CASE \/ ChangeStatus(w) \/ Register(w) \/ CreateTeam(w) \/ JoinTeam(w)
                 \/ RemoveParticipant(w) \/ Sweep(w) \/ Leave(w) \/ AddMember(w)
                 \/ TransferCaptain(w) \/ RetireTeam(w) \/ DeleteTeam(w) \/ Abandon(w)
        BY <4>1, <4>5, <4>8 DEF ChangeStatus, Register, CreateTeam, JoinTeam,
           RemoveParticipant, Sweep, Leave, AddMember, TransferCaptain, RetireTeam,
           DeleteTeam, Abandon
      <4> QED
        BY <3>4, <4>2, <4>3, <4>4, <4>7, <4>8 DEF Step
    <3> QED
      BY <2>1, <3>2, <3>3, <3>4
  <2> QED
    BY <2>2, <2>4 DEF RosterInv, StatusKnown
<1>2. CASE UNCHANGED historyVars
  <2>1. UNCHANGED vars /\ overtaken' = overtaken
    BY <1>2 DEF historyVars
  <2>2. TeamInv'
    BY NextTeams DEF RosterInv
  <2> QED
    BY <2>1, <2>2 DEF RosterInv, StatusKnown, At, Playing, vars
<1> QED
  BY <1>1, <1>2

(* A participation that goes while the bracket is played goes by a request that
   was overtaken. *)
LEMMA StepKeepsRoster ==
  ASSUME RosterInv, HistoryNext, NEW u \in Users, Playing,
         participant[u].state # "absent", participant'[u].state = "absent"
  PROVE  \E w \in overtaken : pc'[w] = "idle"
<1>1. PICK w \in Workers : Ask(w) \/ Step(w)
  BY DEF HistoryNext, Next
<1>2. /\ RegistrationTypeOK /\ StatusKnown
      /\ participant \in [Users -> Rows] /\ pc \in [Workers -> Labels]
  BY Typed DEF RosterInv, TeamInv
<1>3. ASSUME NEW users, NEW teams,
             participant' = Detached(Gone(participant, users, TRUE), teams)
      PROVE  FALSE
  <2>1. PICK rows : rows = Gone(participant, users, TRUE)
    OBVIOUS
  <2>2. rows = Marked(participant, users) /\ rows \in [Users -> Rows]
    BY <1>2, <2>1, RowTypes DEF Gone
  <2>3. rows[u].state # "absent"
    BY <1>2, <2>2 DEF Marked, Rows
  <2>4. participant'[u].state = rows[u].state
    BY <1>3, <2>1, <2>2 DEF Detached, Rows
  <2> QED
    BY <2>3, <2>4
<1>4. ASSUME NEW teams, participant' = Detached(participant, teams) PROVE FALSE
  <2>1. participant'[u].state = participant[u].state
    BY <1>2, <1>4 DEF Detached, Rows
  <2> QED
    BY <2>1
<1>5. ASSUME NEW t, WriteTeam(w, t) PROVE FALSE
  <2>1. participant'[u].state = participant[u].state
    BY <1>2, <1>5 DEF WriteTeam, Rows
  <2> QED
    BY <2>1
<1>6. CASE Ask(w)
  BY <1>6, AskChanges
<1>7. CASE \/ LockTeam(w) \/ LockTournament(w) \/ ChangeStatus(w) \/ ListTicketless(w)
           \/ (\E t \in Teams : HandOver(w, t)) \/ TransferCaptain(w) \/ CheckEmpty(w)
           \/ DeleteTeam(w) \/ Abandon(w)
  BY <1>7 DEF LockTeam, LockTournament, ChangeStatus, ListTicketless, HandOver,
     TransferCaptain, CheckEmpty, DeleteTeam, Abandon
<1>8. CASE CreateTeam(w) \/ JoinTeam(w) \/ AddMember(w) \/ QuitTeam(w)
  BY <1>5, <1>8 DEF CreateTeam, JoinTeam, AddMember, QuitTeam
<1>9. CASE Register(w)
  BY <1>2, <1>9 DEF Register
<1>10. CASE RetireTeam(w) \/ ClearMembers(w)
  BY <1>4, <1>10 DEF RetireTeam, ClearMembers
<1>11. CASE RemoveParticipant(w)
  <2>1. Playing = TRUE
    BY DEF Playing
  <2> QED
    BY <1>3, <1>11, <2>1 DEF RemoveParticipant
<1>12. CASE Sweep(w)
  <2>1. /\ participant' = Detached(Gone(participant, Listed(w), sweep[w].playing), sweep[w].doomed)
        /\ pc[w] = "sweep" /\ pc'[w] = "idle"
    BY <1>2, <1>12 DEF Sweep, Answer
  <2>2. CASE w \in overtaken
    BY <2>1, <2>2
  <2>3. CASE w \notin overtaken
    <3>1. sweep[w].playing = Playing
      BY <1>2, <2>1, <2>3 DEF StatusKnown
    <3>2. sweep[w].playing = TRUE
      BY <3>1 DEF Playing
    <3> QED
      BY <1>3, <2>1, <3>2
  <2> QED
    BY <2>2, <2>3
<1>13. CASE Leave(w)
  <2>1. At(w, "write", {"leave"}) /\ pc'[w] = "idle"
    BY <1>2, <1>13 DEF Leave, Answer
  <2>2. w \in overtaken
    BY <1>2, <2>1 DEF StatusKnown, Playing
  <2> QED
    BY <2>1, <2>2
<1> QED
  BY <1>1, <1>6, <1>7, <1>8, <1>9, <1>10, <1>11, <1>12, <1>13 DEF Step

\* While a tournament is played no participation is deleted but by a request
\* that has seen its status change: leaving was checked while registration was
\* open, and a removal marks the row if it saw the tournament being played.
THEOREM RosterStays == HistorySpec => RosterKept
<1>1. HistoryInit => RosterInv
  BY InitTeams DEF HistoryInit, RosterInv, StatusKnown, Init, At
<1>2. RosterInv /\ [HistoryNext]_historyVars =>
        [\A u \in Users :
           (Playing /\ participant[u].state # "absent" /\ participant'[u].state = "absent")
           => \E w \in overtaken : pc'[w] = "idle" ]_historyVars
  <2> SUFFICES ASSUME RosterInv, HistoryNext, NEW u \in Users, Playing,
                      participant[u].state # "absent", participant'[u].state = "absent"
               PROVE  \E w \in overtaken : pc'[w] = "idle"
    OBVIOUS
  <2> QED
    BY StepKeepsRoster
<1> QED
  BY <1>1, <1>2, NextRoster, PTL DEF HistorySpec, RosterKept
=============================================================================
