------------------------ MODULE TournamentRegistration ------------------------
(***************************************************************************)
(* The participants and teams of a team tournament: joining and leaving    *)
(* it, by users and administrators, and founding, joining, leading,        *)
(* leaving and deleting teams.  Some requests lock the tournament's row    *)
(* from their checks to their commit and some lock nothing, so a request   *)
(* advances one database transaction, or one locking read, at a time.      *)
(***************************************************************************)
EXTENDS Naturals, FiniteSets

CONSTANTS
  Users, Teams, Workers,
  Tournament,   \* the row that requests lock besides those of teams
  None,
  Limits,       \* the limits explored: [players, teams, size] of the tournament, where
                \* size is that of a team, and the bound [requests] of those begun
  MaxRows       \* bound: rows a user's participations take, one after another

ASSUME SetsAreFinite == IsFiniteSet(Users) /\ IsFiniteSet(Teams)
ASSUME LimitsAreNumbers ==
  /\ Limits \subseteq [players : Nat, teams : Nat, size : Nat, requests : Nat]
  /\ MaxRows \in Nat \ {0}
ASSUME ValuesDiffer ==
  /\ None \notin Users \cup Teams \cup Workers
  /\ Tournament \notin Teams \cup {None}

VARIABLES
  limits,       \* the tournament's limits, fixed meanwhile
  status,       \* the tournament's status
  ticketed,     \* users with a ticket for the party
  participant,  \* user -> the row of their participation, the last one if deleted
  team,         \* team -> its row
  holder,       \* row -> the worker whose transaction has locked it
  pc,           \* worker -> what its request does next
  request,      \* worker -> what its request is about, as first read
  sweep,        \* worker -> what a removal of ticketless participants has listed
  requests      \* requests begun

vars == <<limits, status, ticketed, participant, team, holder, pc, request, sweep, requests>>

Statuses == {"REGISTRATION_OPEN", "REGISTRATION_CLOSED", "ONGOING", "PAUSED",
             "COMPLETED", "CANCELLED"}

\* _VALID_STATUS_TRANSITIONS, once registration has opened.
Transitions ==
  [REGISTRATION_OPEN   |-> {"REGISTRATION_CLOSED", "CANCELLED"},
   REGISTRATION_CLOSED |-> {"ONGOING", "REGISTRATION_OPEN", "CANCELLED"},
   ONGOING             |-> {"PAUSED", "COMPLETED", "CANCELLED"},
   PAUSED              |-> {"ONGOING", "CANCELLED"},
   COMPLETED           |-> {},
   CANCELLED           |-> {}]

Registration == {"REGISTRATION_OPEN", "REGISTRATION_CLOSED"}

\* The bracket is active: rows are kept and marked as removed.
Playing == status \in {"ONGOING", "PAUSED"}

Active == {u \in Users : participant[u].state = "active"}
ActiveTeams == {t \in Teams : team[t].state = "active"}
Members(t) == {u \in Active : participant[u].team = t}

\* A team's row is there, though it may be marked as removed: find_team and the
\* administrators' views do not look at the mark.
Exists(t) == team[t].state \in {"active", "removed"}

NoRequest == [kind |-> "none", user |-> None, row |-> 0, team |-> None,
              status |-> "REGISTRATION_OPEN"]
NoSweep == [listed |-> {}, doomed |-> {}, successor |-> [t \in Teams |-> None],
            playing |-> FALSE]

\* Registration is under way, or play has begun: whoever is in a team is a
\* member of one that exists, led by one of its members.
Init ==
  /\ limits \in Limits
  /\ status \in {"REGISTRATION_OPEN", "REGISTRATION_CLOSED", "ONGOING"}
  /\ ticketed \in SUBSET Users
  /\ participant \in
       [Users -> {[row |-> 0, state |-> "absent", team |-> None]}
                 \cup [row : {1}, state : {"active"}, team : Teams \cup {None}]]
  /\ team \in [Teams -> [state : {"unborn", "active"}, captain : Users \cup {None}]]
  /\ \A t \in Teams :
       /\ team[t].state = "active" => team[t].captain \in Members(t)
       /\ team[t].state = "unborn" => team[t].captain = None /\ Members(t) = {}
       /\ Cardinality(Members(t)) <= limits.size
  /\ Cardinality(Active) <= limits.players
  /\ Cardinality(ActiveTeams) <= limits.teams
  /\ holder = [r \in Teams \cup {Tournament} |-> None]
  /\ pc = [w \in Workers |-> "idle"]
  /\ request = [w \in Workers |-> NoRequest]
  /\ sweep = [w \in Workers |-> NoSweep]
  /\ requests = 0

-----------------------------------------------------------------------------
(* Requests and locks *)

Request(kind, u, t) ==
  [kind |-> kind, user |-> u, row |-> IF u = None THEN 0 ELSE participant[u].row,
   team |-> t, status |-> NoRequest.status]

\* A request begins: what its view and its service read before they first
\* lock or write a row.
Begin(w, r, next) ==
  /\ pc[w] = "idle"
  /\ requests < limits.requests
  /\ requests' = requests + 1
  /\ request' = [request EXCEPT ![w] = r]
  /\ pc' = [pc EXCEPT ![w] = next]
  /\ UNCHANGED <<limits, status, ticketed, participant, team, holder, sweep>>

At(w, label, kinds) == pc[w] = label /\ request[w].kind \in kinds

Writable_Always(w, r) == TRUE

\* The row a worker is about to write or lock is not locked by another.
Writable(w, r) == holder[r] \in {None, w}

Released_Never(w) == holder

\* The locks a worker holds end with its transaction.
Released(w) == [r \in DOMAIN holder |-> IF holder[r] = w THEN None ELSE holder[r]]

\* The transaction ends, and the request goes on or is answered.
GoOn(w, next) ==
  /\ pc' = [pc EXCEPT ![w] = next]
  /\ holder' = Released(w)
  /\ UNCHANGED <<request, sweep>>
Answer(w) ==
  /\ pc' = [pc EXCEPT ![w] = "idle"]
  /\ holder' = Released(w)
  /\ request' = [request EXCEPT ![w] = NoRequest]
  /\ sweep' = [sweep EXCEPT ![w] = NoSweep]

\* A request ends without a further effect: a check refuses it, a row it
\* wants to write is gone or still referred to, the database resolves a
\* deadlock against it, or its process dies.
Abandon(w) ==
  /\ pc[w] # "idle"
  /\ Answer(w)
  /\ UNCHANGED <<limits, status, ticketed, participant, team, requests>>

\* The participation a request has read is still there, if marked as removed.
Present(w) ==
  /\ participant[request[w].user].state # "absent"
  /\ participant[request[w].user].row = request[w].row

-----------------------------------------------------------------------------
(* Rows *)

\* Whoever is marked as removed is not looked at.
Detached_Active(rows, teams) ==
  [u \in Users |-> IF rows[u].team \in teams /\ rows[u].state = "active"
                   THEN [rows[u] EXCEPT !.team = None] ELSE rows[u]]

\* Nobody is in one of these teams any more, those marked as removed included.
Detached(rows, teams) ==
  [u \in Users |-> IF rows[u].team \in teams THEN [rows[u] EXCEPT !.team = None]
                                             ELSE rows[u]]

\* The rows of these users are deleted, or only marked.
Deleted(rows, users) ==
  [u \in Users |-> IF u \in users
                   THEN [row |-> rows[u].row, state |-> "absent", team |-> None]
                   ELSE rows[u]]
Marked(rows, users) ==
  [u \in Users |-> IF u \in users THEN [rows[u] EXCEPT !.state = "removed"] ELSE rows[u]]

Gone_Deleted(rows, users, playing) == Deleted(rows, users)

\* While the bracket is played, its matches refer to the rows.
Gone(rows, users, playing) ==
  IF playing THEN Marked(rows, users) ELSE Deleted(rows, users)

\* The teams' rows are deleted, or only marked.
WithoutTeams(teams, state) ==
  [t \in Teams |-> IF t \in teams /\ Exists(t)
                   THEN [team[t] EXCEPT !.state = state] ELSE team[t]]

\* A row in a deleted team is ruled out by its foreign key.
Unreferenced(t) == \A u \in Users : participant[u].team # t

WriteTeam(w, t) ==
  participant' = [participant EXCEPT ![request[w].user].team = t]

-----------------------------------------------------------------------------
(* Requests that lock the tournament: what they check before and after *)

\* The site's views find a team's row only if it is not marked as removed.
TeamFound(t) == team[t].state = "active"

Teamless_Unchecked(u) == TRUE

\* A view refuses whoever is in a team already.
Teamless(u) == participant[u].team = None

RequestJoin(w, u) ==
  /\ status = "REGISTRATION_OPEN"
  /\ Begin(w, Request("join", u, None), "tournament")
RequestAdd(w, u) == Begin(w, Request("add", u, None), "tournament")
RequestCreateTeam(w, u) == Begin(w, Request("create", u, None), "tournament")
RequestRemove(w, u) ==
  /\ participant[u].state # "absent"
  /\ Begin(w, Request("remove", u, participant[u].team), "tournament")
RequestPurge(w) == Begin(w, Request("purge", None, None), "tournament")
RequestStatus(w, s) ==
  /\ s \in Transitions[status]
  /\ Begin(w, [Request("status", None, None) EXCEPT !.status = s], "tournament")
RequestJoinTeam(w, u, t) ==
  /\ status = "REGISTRATION_OPEN"
  /\ TeamFound(t)
  /\ u \in Active /\ Teamless(u)
  /\ Begin(w, Request("joinTeam", u, t), "team")

\* join_team locks the team before the tournament.
LockTeam(w) ==
  /\ At(w, "team", {"joinTeam"})
  /\ holder[request[w].team] = None
  /\ Exists(request[w].team)
  /\ Present(w)
  /\ holder' = [holder EXCEPT ![request[w].team] = w]
  /\ pc' = [pc EXCEPT ![w] = "tournament"]
  /\ UNCHANGED <<limits, status, ticketed, participant, team, request, sweep, requests>>

HasRoom_ForOneMore(t) == Cardinality(Members(t)) <= limits.size
HasRoom(t) == Cardinality(Members(t)) < limits.size

\* What each request checks once it has the lock.
MayRegister(u) == u \notin Active /\ Cardinality(Active) < limits.players
Admitted(w) ==
  LET u == request[w].user
  IN  \/ /\ request[w].kind = "join" /\ status = "REGISTRATION_OPEN"
         /\ u \in ticketed /\ MayRegister(u)
      \/ request[w].kind = "add" /\ status \in Registration /\ MayRegister(u)
      \/ /\ request[w].kind = "create" /\ Cardinality(ActiveTeams) < limits.teams
         /\ u \in Active /\ participant[u].team = None
      \/ request[w].kind = "joinTeam" /\ HasRoom(request[w].team)
      \/ request[w].kind = "remove"

LockTournament(w) ==
  /\ pc[w] = "tournament"
  /\ Writable(w, Tournament)
  /\ Admitted(w)
  /\ holder' = [holder EXCEPT ![Tournament] = w]
  /\ pc' = [pc EXCEPT ![w] = "commit"]
  \* The participation is read anew by those that were given a user.
  /\ request' = IF request[w].kind = "create"
                THEN [request EXCEPT ![w].row = participant[request[w].user].row]
                ELSE request
  /\ UNCHANGED <<limits, status, ticketed, participant, team, sweep, requests>>

\* A status is written without a lock, but waits for whoever has it.
ChangeStatus(w) ==
  /\ At(w, "tournament", {"status"})
  /\ Writable(w, Tournament)
  /\ status' = request[w].status
  /\ Answer(w)
  /\ UNCHANGED <<limits, ticketed, participant, team, requests>>

-----------------------------------------------------------------------------
(* Requests that lock the tournament: what they commit *)

\* A row marked as removed is taken up again, without its team; else a new
\* one is inserted.
Register(w) ==
  LET u == request[w].user
      marked == participant[u].state = "removed"
  IN  /\ At(w, "commit", {"join", "add"})
      /\ ~marked => participant[u].row < MaxRows
      /\ participant' = [participant EXCEPT ![u] =
           [row |-> IF marked THEN @.row ELSE @.row + 1, state |-> "active", team |-> None]]
      /\ Answer(w)
      /\ UNCHANGED <<limits, status, ticketed, team, requests>>

\* The team is inserted and its captain put into it.
CreateTeam(w) ==
  /\ At(w, "commit", {"create"})
  /\ Present(w)
  /\ \E t \in Teams :
       /\ team[t].state = "unborn"
       /\ team' = [team EXCEPT ![t] = [state |-> "active", captain |-> request[w].user]]
       /\ WriteTeam(w, t)
  /\ Answer(w)
  /\ UNCHANGED <<limits, status, ticketed, requests>>

JoinTeam(w) ==
  /\ At(w, "commit", {"joinTeam"})
  /\ Present(w)
  /\ WriteTeam(w, request[w].team)
  /\ Answer(w)
  /\ UNCHANGED <<limits, status, ticketed, team, requests>>

\* A participant removed while the bracket is played is only marked, and so is
\* the team it leaves empty: the one it was in before the lock.
RemoveParticipant(w) ==
  LET u == request[w].user
      t == request[w].team
      there == IF Present(w) THEN {u} ELSE {}
      emptied == Playing /\ t # None /\ Members(t) \ there = {}
      teams == IF emptied THEN {t} ELSE {}
      rows == Gone(participant, there, Playing)
  IN  /\ At(w, "commit", {"remove"})
      /\ \A x \in teams : Writable(w, x)
      /\ participant' = Detached(rows, teams)
      /\ team' = WithoutTeams(teams, "removed")
      /\ Answer(w)
      /\ UNCHANGED <<limits, status, ticketed, requests>>

\* Those without a ticket, by the row each has now.
Ticketless == Active \ ticketed
Listed(w) == {u \in Users : <<u, participant[u].row>> \in sweep[w].listed
                            /\ participant[u].state # "absent"}

Successors_Nobody(t) == {None}

\* A team of a ticketless captain goes to one of the members who stay.
Successors(t) ==
  IF /\ team[t].captain \in Ticketless
     /\ participant[team[t].captain].team = t
     /\ Members(t) \ Ticketless # {}
  THEN Members(t) \ Ticketless ELSE {None}

\* _handle_team_captains: which captains to replace and which teams to delete.
ListTicketless(w) ==
  /\ At(w, "tournament", {"purge"})
  /\ Writable(w, Tournament)
  /\ status \in Registration \cup {"ONGOING", "PAUSED"}
  /\ Ticketless # {}
  /\ \E successor \in [Teams -> Users \cup {None}] :
       /\ \A t \in Teams : successor[t] \in Successors(t)
       /\ sweep' = [sweep EXCEPT ![w] =
            [listed |-> {<<u, participant[u].row>> : u \in Ticketless},
             doomed |-> {t \in Teams : Members(t) # {} /\ Members(t) \subseteq Ticketless},
             successor |-> successor, playing |-> Playing]]
  /\ holder' = [holder EXCEPT ![Tournament] = w]
  /\ pc' = [pc EXCEPT ![w] = "sweep"]
  /\ UNCHANGED <<limits, status, ticketed, participant, team, request, requests>>

\* update_team_captain commits, and so gives up the lock.
HandOver(w, t) ==
  /\ pc[w] = "sweep"
  /\ sweep[w].successor[t] # None
  /\ Exists(t) /\ Writable(w, t)
  /\ team' = [team EXCEPT ![t].captain = sweep[w].successor[t]]
  /\ sweep' = [sweep EXCEPT ![w].successor[t] = None]
  /\ holder' = Released(w)
  /\ UNCHANGED <<limits, status, ticketed, participant, pc, request, requests>>

\* The listed rows, and the teams that had no other members, go in one commit.
Sweep(w) ==
  LET doomed == sweep[w].doomed
      rows == Gone(participant, Listed(w), sweep[w].playing)
  IN  /\ pc[w] = "sweep"
      /\ \A t \in Teams : sweep[w].successor[t] = None
      /\ \A t \in doomed : Writable(w, t)
      /\ participant' = Detached(rows, doomed)
      /\ team' = WithoutTeams(doomed, IF sweep[w].playing THEN "removed" ELSE "deleted")
      /\ Answer(w)
      /\ UNCHANGED <<limits, status, ticketed, requests>>

-----------------------------------------------------------------------------
(* Requests that lock nothing: their checks *)

RequestLeave(w, u) ==
  /\ status = "REGISTRATION_OPEN"
  /\ u \in Active
  /\ Begin(w, Request("leave", u, None), "write")

\* An administrator adds a participant: to any team there is, one marked as
\* removed included.
RequestAddMember(w, u, t) ==
  /\ Exists(t)
  /\ u \in Active /\ Teamless(u) /\ HasRoom(t)
  /\ Begin(w, Request("addMember", u, t), "write")

\* A captain may leave a team only as its last member.
CaptainMayLeave(u, t) == team[t].captain = u => Cardinality(Members(t)) <= 1

RequestLeaveTeam(w, u, t) ==
  /\ status = "REGISTRATION_OPEN"
  /\ TeamFound(t)
  /\ u \in Members(t)
  /\ CaptainMayLeave(u, t)
  /\ Begin(w, Request("leaveTeam", u, t), "write")

\* A captain on the site or an administrator, who find other teams.
RequestRemoveMember(w, u, t) ==
  /\ Exists(t)
  /\ u \in Members(t) /\ u # team[t].captain
  /\ Begin(w, Request("removeMember", u, t), "write")

RequestTransfer(w, u, t) ==
  /\ Exists(t)
  /\ u \in Members(t) /\ u # team[t].captain
  /\ Begin(w, Request("transfer", u, t), "write")

RequestDeleteTeam(w, t) ==
  /\ Exists(t)
  /\ Begin(w, Request("deleteTeam", None, t), "clear")

-----------------------------------------------------------------------------
(* Requests that lock nothing: their commits *)

Leave(w) ==
  /\ At(w, "write", {"leave"})
  /\ participant' = IF Present(w) THEN Deleted(participant, {request[w].user})
                                  ELSE participant
  /\ Answer(w)
  /\ UNCHANGED <<limits, status, ticketed, team, requests>>

\* The foreign key needs the team's row, and waits for its lock.
AddMember(w) ==
  /\ At(w, "write", {"addMember"})
  /\ Present(w)
  /\ Exists(request[w].team) /\ Writable(w, request[w].team)
  /\ WriteTeam(w, request[w].team)
  /\ Answer(w)
  /\ UNCHANGED <<limits, status, ticketed, team, requests>>

\* leave_team and remove_team_member.
QuitTeam(w) ==
  /\ At(w, "write", {"leaveTeam", "removeMember"})
  /\ Present(w)
  /\ WriteTeam(w, None)
  /\ GoOn(w, "empty")
  /\ UNCHANGED <<limits, status, ticketed, team, requests>>

TransferCaptain(w) ==
  LET t == request[w].team
  IN  /\ At(w, "write", {"transfer"})
      /\ Exists(t) /\ Writable(w, t)
      /\ team' = [team EXCEPT ![t].captain = request[w].user]
      /\ Answer(w)
      /\ UNCHANGED <<limits, status, ticketed, participant, requests>>

\* A team left empty is deleted, or marked while the bracket is played.
CheckEmpty(w) ==
  /\ pc[w] = "empty"
  /\ Members(request[w].team) = {}
  /\ GoOn(w, CASE request[w].kind = "leaveTeam" -> "delete"
               [] request[w].kind = "removeMember" /\ Playing -> "retire"
               [] OTHER -> "clear")
  /\ UNCHANGED <<limits, status, ticketed, participant, team, requests>>

RetireTeam(w) ==
  LET t == request[w].team
  IN  /\ pc[w] = "retire"
      /\ Writable(w, t)
      /\ participant' = Detached(participant, {t})
      /\ team' = WithoutTeams({t}, "removed")
      /\ Answer(w)
      /\ UNCHANGED <<limits, status, ticketed, requests>>

\* delete_team and remove_team_member put the members out of the team first.
ClearMembers(w) ==
  /\ pc[w] = "clear"
  /\ participant' = Detached(participant, {request[w].team})
  /\ GoOn(w, "delete")
  /\ UNCHANGED <<limits, status, ticketed, team, requests>>

DeleteTeam(w) ==
  LET t == request[w].team
  IN  /\ pc[w] = "delete"
      /\ Writable(w, t)
      /\ Unreferenced(t)
      /\ team' = WithoutTeams({t}, "deleted")
      /\ Answer(w)
      /\ UNCHANGED <<limits, status, ticketed, participant, requests>>

-----------------------------------------------------------------------------
Ask(w) ==
  \/ RequestPurge(w)
  \/ \E s \in Statuses : RequestStatus(w, s)
  \/ \E u \in Users : \/ RequestJoin(w, u) \/ RequestAdd(w, u) \/ RequestLeave(w, u)
                      \/ RequestCreateTeam(w, u) \/ RequestRemove(w, u)
  \/ \E t \in Teams : RequestDeleteTeam(w, t)
  \/ \E u \in Users, t \in Teams :
       \/ RequestJoinTeam(w, u, t) \/ RequestAddMember(w, u, t)
       \/ RequestLeaveTeam(w, u, t) \/ RequestRemoveMember(w, u, t)
       \/ RequestTransfer(w, u, t)

Step(w) ==
  \/ LockTeam(w) \/ LockTournament(w) \/ ChangeStatus(w)
  \/ Register(w) \/ CreateTeam(w) \/ JoinTeam(w) \/ RemoveParticipant(w)
  \/ ListTicketless(w) \/ (\E t \in Teams : HandOver(w, t)) \/ Sweep(w)
  \/ Leave(w) \/ AddMember(w) \/ QuitTeam(w) \/ TransferCaptain(w)
  \/ CheckEmpty(w) \/ RetireTeam(w) \/ ClearMembers(w) \/ DeleteTeam(w)
  \/ Abandon(w)

Next == \E w \in Workers : Ask(w) \/ Step(w)

Spec == Init /\ [][Next]_vars

-----------------------------------------------------------------------------
Labels == {"idle", "team", "tournament", "commit", "write", "empty", "clear", "delete",
           "retire", "sweep"}
Kinds == {"none", "join", "add", "create", "joinTeam", "remove", "purge", "status", "leave",
          "addMember", "leaveTeam", "removeMember", "transfer", "deleteTeam"}
Rows == [row : 0..MaxRows, state : {"absent", "active", "removed"}, team : Teams \cup {None}]
TeamRows == [state : {"unborn", "active", "removed", "deleted"}, captain : Users \cup {None}]
Asked == [kind : Kinds, user : Users \cup {None}, row : 0..MaxRows,
          team : Teams \cup {None}, status : Statuses]
Sweeps == [listed : SUBSET (Users \X (0..MaxRows)), doomed : SUBSET Teams,
           successor : [Teams -> Users \cup {None}], playing : BOOLEAN]

\* Every variable has its type, and a transaction's locks end with it: only a
\* request between its lock and its commit holds the tournament's row.
RegistrationTypeOK ==
  /\ limits \in Limits
  /\ status \in Statuses
  /\ ticketed \in SUBSET Users
  /\ participant \in [Users -> Rows]
  /\ team \in [Teams -> TeamRows]
  /\ holder \in [Teams \cup {Tournament} -> Workers \cup {None}]
  /\ pc \in [Workers -> Labels]
  /\ request \in [Workers -> Asked]
  /\ sweep \in [Workers -> Sweeps]
  /\ requests \in 0..limits.requests
  /\ \A w \in Workers : holder[Tournament] = w => pc[w] \in {"commit", "sweep"}

\* The tournament never has more participants or teams than it allows,
\* whichever requests arrive together (get_tournament_for_update).
WithinLimits ==
  /\ Cardinality(Active) <= limits.players
  /\ Cardinality(ActiveTeams) <= limits.teams
=============================================================================
