--------------------- MODULE TournamentRegistrationHistory ---------------------
(***************************************************************************)
(* TournamentRegistration with a record of who met whom, and the           *)
(* properties that hold only where no two requests met.  The record        *)
(* follows the steps and restricts none.                                   *)
(***************************************************************************)
EXTENDS TournamentRegistration

VARIABLES
  contended,   \* users and teams that two requests were about at once
  leaderless,  \* teams left by a captain nobody replaced
  adopted,     \* users an administrator has put into a team that was removed already
  overtaken    \* workers whose request has seen the status change

historyVars == <<vars, contended, leaderless, adopted, overtaken>>

\* The users and teams a worker's request is about.
About(w) == ({request[w].user, request[w].team} \ {None})
            \cup {ref[1] : ref \in sweep[w].listed}
            \cup sweep[w].doomed
            \cup {t \in Teams : sweep[w].successor[t] # None}
            \cup ({sweep[w].successor[t] : t \in Teams} \ {None})

Meet == {x \in Users \cup Teams :
           \E w, v \in Workers : w # v /\ x \in About(w) /\ x \in About(v)}

\* A worker's request is about to delete an empty team.
Closing(t) == \E w \in Workers :
                request[w].team = t /\ pc[w] \in {"empty", "clear", "delete", "retire"}

\* A captain leaves the tournament, or a worker dies before it has deleted the
\* team it emptied.
Left(t) ==
  \/ \E w \in Workers : /\ \/ At(w, "write", {"leave"})
                           \/ At(w, "commit", {"remove"})
                        /\ pc'[w] = "idle"
                        /\ request[w].user = team[t].captain
  \/ Closing(t) /\ ~Closing(t)' /\ Members(t)' = {}

\* An administrator puts a user into a team that is marked as removed.
Adopts(u) ==
  \E w \in Workers : /\ At(w, "write", {"addMember"}) /\ pc'[w] = "idle"
                      /\ request[w].user = u
                      /\ team[request[w].team].state = "removed"
                      /\ participant'[u].team = request[w].team

HistoryInit == Init /\ contended = {} /\ leaderless = {} /\ adopted = {} /\ overtaken = {}

HistoryNext ==
  /\ Next
  /\ contended' = contended \cup Meet'
  /\ leaderless' = leaderless \cup {t \in Teams : Left(t)}
  /\ adopted' = {u \in Users : participant'[u].team # None /\ (u \in adopted \/ Adopts(u))}
  /\ overtaken' = {w \in Workers : /\ pc'[w] # "idle"
                                   /\ w \in overtaken \/ (pc[w] # "idle" /\ status' # status)}

HistorySpec == HistoryInit /\ [][HistoryNext]_historyVars

-----------------------------------------------------------------------------
\* A team has at most as many members as it may have, unless requests met over
\* it: join_team counts under two locks, admin_add_member under none.  The limit
\* may be 0, and a team is founded all the same.
TeamsNotOverfull ==
  \A t \in Teams \ contended :
    Cardinality(Members(t)) <= limits.size \/ Cardinality(Members(t)) <= 1

\* A team that goes has taken everybody out, those whose participation is
\* marked as removed included, whose rows would keep it from being deleted.
\* Only an administrator, who finds removed teams as well, puts somebody into
\* one (admin_add_member); else requests must have met over the user or the team.
MembersOfActiveTeams ==
  \A u \in Users \ (contended \cup adopted) :
    LET t == participant[u].team IN t \in Teams \ contended => team[t].state = "active"

\* A team is led by one of its members, unless its captain left the tournament
\* altogether, which nothing replaces, or requests met over the team or over
\* its captain: leaving, transfers, removals and the purge of participants
\* without tickets keep it so (leave_team, transfer_captain,
\* _handle_team_captains).
CaptainLeads ==
  \A t \in ActiveTeams \ (contended \cup leaderless) :
    team[t].captain \in contended \/ Closing(t) \/ team[t].captain \in Members(t)

\* While a tournament is played, no participant's row is deleted, which its
\* matches and statistics need, except by a request that saw another status.
RosterKept ==
  [][ \A u \in Users :
        (Playing /\ participant[u].state # "absent" /\ participant'[u].state = "absent")
        => \E w \in overtaken : pc'[w] = "idle" ]_historyVars

\* Nobody changes teams without leaving the first one, unless requests met
\* over them: join_team does not look again at the team its view looked at.
TeamLeftFirst ==
  [][ \A u \in Users \ contended' :
        participant[u].team # None => participant'[u].team \in {participant[u].team, None}
    ]_historyVars
=============================================================================
