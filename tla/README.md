# A formal model of BYCEPS

BYCEPS runs LAN parties: it sells tickets in a web shop, lets their holders
choose seats and check in, and runs tournaments. It is a Flask application on
SQLAlchemy and PostgreSQL. This directory specifies its core in TLA+, checks the
specifications with TLC on small instances, and proves the main results with
TLAPS for instances of any size.

## How the program runs, and what a step is

uWSGI runs several processes with threads; a request is served by one thread
with a database session of its own. PostgreSQL works at its default isolation
level READ COMMITTED. The services modelled here follow one pattern:

1. load rows (SELECT) and build domain objects from them,
2. let a pure function of a `*_domain_service` decide,
3. write rows and `commit()`.

There are no row locks and no version columns on this path, so between (1)
and (3) any other request may commit. Longer operations commit several times.
The tournaments are the exception: most of their writers lock the row of the
tournament, or of a team, and keep it until they commit, but some operations lock
late, give up the lock in between, or take none.
A step in these modules is therefore one database round trip whose effect
others can see, or whose result the request goes on to use: a SELECT the
decision depends on, or a committed transaction. What happens between two
such steps is private to the thread and belongs to the later step.

A request that raises, or whose process dies, loses its uncommitted work and
nothing else; nothing resumes it.

## Inventory

| component | state | operations | interacts with | what is hard | what must hold |
|---|---|---|---|---|---|
| shop orders (`shop/order`) | order row with payment state, orderer, number; line items with recorded results; payments | place, mark as paid, update orderer, cancel, fulfil | stock; ticketing (creates and revokes tickets); gateways | four to eight commits per request, stale payment state, crash between payment and tickets | unique numbers; a canceled order stays canceled; paid orders get exactly what was ordered; canceled ones keep none of it |
| stock (`shop/product`) | quantity per product, CHECK >= 0 | decrease, increase | orders | concurrent orders for the last items; repeated cancellation | never negative, never lost, never more than on sale |
| payment gateways (`shop/payment`) | none of their own besides payments | capture, webhook | orders | slow calls between check and payment; repeated notifications | one payment per order |
| cancellation requests | request with state, unique per order | create, accept | orders | request committed before the order is canceled | an accepted request has a canceled order |
| tickets (`ticketing`) | ticket row: revoked, user, managers, seat, checked-in flag; check-ins | create, revoke, appoint, withdraw, occupy, release, check in, revert | orders, seating, users | checks on rows read earlier; seat released in a transaction before the revocation | no revoked ticket keeps a seat or checks in; one ticket per seat |
| seating (`seating`) | seats, groups, occupancy of groups by bundles, reservation preconditions | occupy, switch, release group | tickets, bundles | a group over seats that single tickets take | a bundle occupies all seats of its group or none |
| tournaments (`lan_tournament`): registration | tournament status and limits, participants, teams, captains | join, leave, found, join and leave teams, transfer, remove, purge users without tickets, status | users, tickets | locks on some paths and not on others, a lock given up by a helper that commits | never more participants or teams than allowed; teams keep their size and a captain; nobody in two teams |
| tournaments: brackets | matches with links, contestants, scores; status and winner | generate, report, confirm, correct with its cascade, remove contestants | registration | corrections over two brackets, walkovers, results on stale pages | entries and results agree; the winner has beaten all; every bracket can be finished |
| tournaments: free-for-all | rounds of groups in pools, places, points | generate, place, confirm, retract, advance, grand final | registration | pools that overtake each other, settings nobody validates, odd numbers | nobody is forgotten, plays twice, or plays on without the result for it |
| users, authentication, tokens | account flags, credentials, session and verification tokens | create, suspend, delete, log in, reset | tickets, orders | single-use tokens used twice | a token works once; deleted users have no session |
| the rest | content, configuration, reports | single-row edits | none that matters here | none beyond lost updates of a row | |

`PROJECT.json` lists every part of `byceps/services` with its status, and the
hazards at their lines.

## Modules

| module | contents |
|---|---|
| `ShopOrder` | the shop: workers that serve requests for orders, step by step |
| `ShopOrderHistory` | `ShopOrder` with two history variables, and all properties of the shop |
| `OrderLifecycle` | abstract specification: an order and the stock, each change in one step |
| `MCShopOrder` | constants of the instances TLC checks |
| `ShopOrderProofs` | proofs of type correctness, about orders whose requests do not overlap, of the refinement, and about order numbers and the stock |
| `ShopOrderFulfilmentProofs` | proofs about what is issued, recorded and revoked for an order |
| `Ticketing` | tickets and seats: reservation, seat groups, users, check-in, revocation |
| `TicketingHistory` | `Ticketing` with a history variable, and all properties of tickets and seats |
| `MCTicketing` | constants of the instances TLC checks |
| `TicketingProofs` | proofs of type correctness, of the order of seats, and about tickets no two requests were about at once |
| `TournamentRegistration` | participants and teams: requests step by step, with the row locks |
| `TournamentRegistrationHistory` | a record of which requests met, and what holds where none did |
| `TournamentRegistrationProofs` | proofs of type correctness and of the limits, about teams and users no two requests met over, and about the roster |
| `BracketRules` | the rules of one-on-one brackets as pure operators: generation, results, corrections, removals |
| `TournamentBracket` | a tournament played by these rules, by overlapping requests |
| `TournamentBracketHistory` | `TournamentBracket` with two history variables, and all properties of brackets |
| `TournamentBracketProofs` | proofs of type correctness, of the draw, that what is generated can be started, and that a correction undoes only what was acknowledged |
| `TournamentBracketFlowProofs` | proofs about who stands where in a bracket because of which results, and about the winner |
| `TournamentBracketLossProofs` | proof that everybody else has been beaten when an elimination is won |
| `FreeForAll` | free-for-all tournaments with one pool or two |
| `FreeForAllHistory` | `FreeForAll` with two history variables, and all properties of them |
| `FreeForAllProofs` | proofs of all their invariants |
| `MCTournamentRegistration`, `MCTournamentBracket`, `MCFreeForAll` | constants of the instances TLC checks |

### The shop

State. `stock`, `sequence`, `paymentState`, `orderNumber`, `placedBy`,
`lineItems`, `processingResult` and `payments` are columns; an order without a
row has payment state "none". `issued` is the set of tickets and bundles with
the order, product and owner they were created for, and `revoked` the IDs of
those revoked. `pc` and `req` hold, per worker, the next step of its request and
the data it has loaded.

| request | code | steps |
|---|---|---|
| place an order | site view `order`, `place_order` | `SubmitCart`, `GenerateOrderNumber` (a commit of its own), `PersistOrder` |
| pay | PayPal and Stripe views, admin view, `mark_order_as_paid` | `FindOpenOrder`/`RefuseCapture` (gateways only), `LoadOrderToPay`, `AddPayment`, `SetPaid`, `RereadPaidOrder` |
| fulfil, after paying | `actions.ticket`, `actions.ticket_bundle` | per line item `CreateTickets` or repeated `CreateBundle`, then `UpdateProcessingResult` |
| change the orderer | `update_orderer` | `LoadOrderToUpdate`, `ReadPayments`, `SetOrderer` |
| cancel | `cancel_order` | `LoadOrderToCancel`, `SetCanceled`, `RereadCanceledOrder`, then per line item `RevokeTickets`, `RevokeBundle` or `RevokeNothingRecorded` (the KeyError) |
| any | process dies, or a step raises | `Crash` |

The helpers above the actions (`NextNumber`, `IsCanceled`, `CanceledState`,
`Restocked`, ...) are the decisions of the domain service and the results of
single statements; each is followed in the same place by the faulty variants
that `PROJECT.json` uses to show that the properties can fail.

Simplifications, all of which leave the order of reads and commits alone:
quantities stand for the content of line items; a bundle stands for the tickets
in it; IDs are taken from a finite set, the next free ones first, since generated
UUIDs are never repeated; the cart is offered only if the stock suffices at that
moment, which is what the order form does; the e-mail, the signal and the log
entries of a request come after or with its last commit and are left out.

History. The promises of the shop hold per order as long as the requests for
that order do not overlap, whatever happens to the other orders, and some need
no such condition. `ShopOrderHistory` therefore records which orders were ever
served by two workers at once (`contended`) and which lost a request half way
(`interrupted`). The two variables only observe.

### Tickets and seats

State. `revoked`, `seatOf`, `usedBy` and `checkedIn` are columns of `tickets`,
`occupancy` has the row of `seat_group_occupancies` per seat group, and
`checkIns` and `reverts` count the rows of `ticket_checkins` and the log entries
about reversals. Bundles, groups, categories and blocked seats never change
while requests are served, so they are constants; a bundle is revoked exactly if
its tickets are.

| request | code | steps |
|---|---|---|
| take a seat | site view `occupy_seat`, `ticket_seat_management_service.occupy_seat` | `LoadToOccupy`, `CheckSeat`, `OccupySeat` |
| give it up | site view `release_seat`, `release_seat` | `LoadToRelease`, `ReleaseSeat` |
| hand over | site views `appoint_user` and `withdraw_user`, `appoint_user` | `LoadToAppoint`, `AppointUser` |
| check in, revert | admin views, `check_in_user`, `revert_user_check_in` | `LoadToCheckIn`, `CheckIn`; `LoadToRevert`, `RevertCheckIn` |
| revoke tickets | shop, `revoke_tickets` | `LoadToRevoke`, per ticket `Visit` and, if it has a seat, `ReleaseVisited` (a commit of its own), then `MarkRevoked` |
| occupy a group | admin view, `seat_group_service.occupy_group` | `LoadToOccupyGroup`, `ChooseBundle`, `CheckGroup`, `OccupyGroup` |
| release a group | admin view, `release_group` | `LoadToReleaseGroup`, `FindOccupancy`, `ReleaseGroup` |
| revoke a bundle | shop, `revoke_bundle` | `LoadToRevokeBundle`, then as for releasing a group if it occupies one, then `MarkRevoked` |
| any | process dies, a step raises, or the request is refused on other grounds | `Abandon` |

A session keeps the rows it has loaded and does not see later changes of them
until it commits: `seen` and `valid` in `req` are the tickets as loaded, and
`expired` says that a commit came in between, after which they are read again.
The unique columns are part of `OccupySeat` and `OccupyGroup`: a conflict aborts
the transaction. Tickets exist from the start; `ShopOrder` has their creation.

History. `contended` has the tickets two requests were about at the same time.
What the database itself ensures holds of all tickets; the rest is stated for
the others.

### Registration and teams

State. `participant` has the row of each user's participation (its number counts
the rows they have had, as deletion and registration make a new ID), `team` that
of each team, and `holder` the worker that has locked a row; `pc`, `request` and
`sweep` are what a worker's request does next and what it has read.

| request | code | steps |
|---|---|---|
| join, add | site view `join`, admin view `add_participant` | `RequestJoin` or `RequestAdd`, `LockTournament`, `Register` |
| found a team | site view `create_team` | `RequestCreateTeam`, `LockTournament`, `CreateTeam` |
| join a team | site view `join_team` | `RequestJoinTeam`, `LockTeam`, `LockTournament`, `JoinTeam` |
| be added to a team | `admin_add_member` (no lock) | `RequestAddMember`, `AddMember` |
| leave a team, be removed from it | `leave_team`, `remove_team_member` | `RequestLeaveTeam` or `RequestRemoveMember`, `QuitTeam`, and for the last member `CheckEmpty`, then `RetireTeam` or `ClearMembers` and `DeleteTeam` |
| leave, be removed | `leave_tournament`, `admin_remove_participant` | `RequestLeave`, `Leave`; `RequestRemove`, `LockTournament`, `RemoveParticipant` |
| purge users without tickets | `remove_participants_without_tickets` | `RequestPurge`, `LockTournament`, `ListTicketless`, per captain `HandOver` (a commit that releases the lock), `Sweep` |
| transfer, delete a team | `transfer_captain`, `delete_team` | `RequestTransfer`, `TransferCaptain`; `RequestDeleteTeam`, `ClearMembers`, `DeleteTeam` |
| change the status | `change_status` | `RequestStatus`, `ChangeStatus` |
| any | process dies, or a step raises | `Abandon`, which releases the locks |

The site's views take a team marked as removed for one that does not exist
(`TeamFound`: joining and leaving a team); those of administrators, and the views
of a captain that only look for the row, do not (`Exists`).

Left out: the limits and the tickets are fixed while requests are served, names
are not modelled, and the rows of matches that refuse a deletion are module
`TournamentBracket`'s.

History. `contended` has the users and teams two requests met over, `leaderless`
the teams whose captain has left the tournament, `adopted` the users that an
administrator has put into a team that was removed, until they leave it. The limits
hold regardless; the rest is stated for the others.

### Brackets

`BracketRules` translates the functions of `tournament_match_service` as operators
on a record of the tournament (status, winner, matches with their links, flag and
entries); `TournamentBracket` has the requests that apply them. A score is only
1 for the best, 0, or None. `Contestants` are any finite set and `Seed` numbers
them in the order the database returns them. What the code does with a queue or by
calling itself (the walk of a classification, the cascade of a retraction, the
forfeits of a removal) is a step on a record with a list, or set, of what is left
to do, taken a number of times by a recursive function: the modules are without
recursive operators, so that they can be reasoned about.

| request | code | actions |
|---|---|---|
| generate, regenerate | admin view `generate_bracket`, the three generators | `RequestBracket`, `GenerateBracket` |
| report as a contestant | site view `set_score`, `set_match_scores` | `CheckScores`, `SubmitScores` |
| enter as an administrator | `admin_set_and_confirm_match`, `confirm_match` | `EnterResult` |
| correct | `classify_result_correction`, `correct_match_result`, `unconfirm_match` | `OpenCorrection` (the page), `CorrectResult` |
| change the status | `change_status`, which locks nothing | `ChangeStatus`, `RereadTournament`, `WriteStatus` |
| remove a contestant | `_remove_single_participant_bracket_aware`, `_process_defwin_entries` | `RemoveContestant`, `RemoveUnplaced`; a team's last member `FindTeamEntries`, `RemoveTeam` |
| delete a team | `delete_team` | `DeleteTeamEntries`, `ClearTeamWinner`, `DeleteTeamRow` |
| any | process dies | `Abandon` |

Simplifications: the checks of the admin pages on the status are a subset of what
the forms sent from older pages can do, so the actions check what the services
check; the match of a bracket reset keeps its identity when it is made anew.
History variables: `raced`, that a change of the status or a generation wrote on
the strength of a status read before; `marred`, that a correction went through a
walkover that was passed on, or came to an open match that everybody sent to it has
left or whose next one is confirmed, that a contestant who leaves stood in an open
match and, passed on from it, in a confirmed one, that a team was deleted, or that a
removed team's matches had changed since they were looked up. The properties hold without them, and what happens with them
is listed under the hazards and the findings.

### Free-for-all tournaments

State. A match is <<pool, round, group>> with the places of its contestants; the
points are a function of the places and the point table. `scores` has, for the
matches that were given scores, who has the highest. All writers lock the
tournament before they read, so each operation is one action.

| operation | code | action |
|---|---|---|
| first round | `generate_ffa_round` | `GenerateRound` |
| places, confirmation | `set_ffa_placements`, `confirm_ffa_match` | `SetPlacements`, `ConfirmMatch` |
| a result by scores | `admin_set_and_confirm_match`, `set_match_scores` | `EnterScores` |
| retraction | `unconfirm_match` with `ffa_round_already_advanced` | `UnconfirmMatch` |
| next round | `advance_ffa_round` | `AdvanceSingle`, `AdvanceWinners`, `AdvanceLosers` |
| grand final | `generate_ffa_grand_final` | `GenerateGrandFinal` |
| status, removal | `change_status`, `_process_defwin_entries` | `ChangeStatus` (in one step), `RemoveParticipant`, `RemoveUnplaced` |

Rows come in the order of the seeds where a query has no ORDER BY. A list of
contestants, as `snake_seed_groups` deals them out, is a function from those in it
to their positions, so nobody is in a list twice. The code can build such a list:
a first round of winners made once more after a round of losers lets people fall
who are among the losers already, and neither a check nor a constraint keeps them
out of two groups. `GenerateRound` therefore stops there (bound `BeforeLosers`);
before that, and in single elimination at any time, a first round is made twice.
Contestants are participants: how a team drops out of a free-for-all, with its last
member or deleted (`delete_team` removes its rows of confirmed matches, too), and the
limit `max_teams` on a first round are left out.
The services that take scores do not look at the game format, only the pages hide
their form, so `EnterScores` is possible in every open match of two or more. It
confirms the match with the places it has, none as a rule; a retraction clears the
scores and keeps the places.
The cumulative points of the grand final only order its rows and are left out.
History variables: `overtaken` has the matches of losers, or winners, that
were open when a round or the grand final was made over them, whose results count
for nothing; `basis` has the matches the grand final was made from.

## Runs

| run | instance | shows |
|---|---|---|
| `shop_contention` | 1 order, 2 workers, 2 users, a ticket product and a bundle product; carts with one ticket, a ticket and a bundle, or two bundles; 2 payments; crashes | under every interleaving: no stock is lost, tickets are backed by payments, recorded IDs are of existing tickets, orders never reopen. For an order whose requests did not overlap: canceled is final, tickets exist only as ordered and belong to the orderer, items of paid orders are valid, and at rest the order is settled |
| `shop_lifecycle` | 2 orders, 2 workers, a bundle product of which one is left and a product without fulfilment; crashes; requests for one order one after the other | types, unique numbers, exact stock, and refinement of `OrderLifecycle` |
| `shop_progress` | as `shop_contention` with one user and one payment, no crashes, fair workers | a paid order that is not canceled is fulfilled |
| `shop_cancel_twice` | 2 workers | finding: two overlapping cancellations both restock |
| `shop_cancel_unfulfilled` | 2 workers | finding: a canceled order keeps tickets |
| `shop_pay_paid` | 1 worker | finding: a second payment is recorded before it is refused |
| `ticketing_single` | 2 single tickets, 2 seats of which one suits both, a third seat that is part of a group, 2 users, at most 2 check-ins begun with one ticket; crashes | under every interleaving: types, one ticket per seat, nobody takes a seat of a group. For a ticket no two requests were about at once: check-ins are accounted for, a revoked ticket has no seat and gets nothing any more, a checked-in user stays |
| `ticketing_groups` | 2 bundles of 2 tickets, 2 groups of 2 seats, 2 occupancies; crashes | a bundle sits together or not at all; no seat of a group is taken without an occupancy |
| `ticketing_revoked_seat` | as `ticketing_single` | finding: a revoked ticket gets a seat |
| `tournament_registration` | 3 users, 2 teams of at most 2, 2 workers; room for 2 participants and 1 team with 3 requests, for 3 and 2 with 2 requests; at most 2 rows per user; crashes | the limits hold under every interleaving, and no row is deleted in a played tournament but by a request that saw another status; where no two requests met, teams keep their size, their captain, and active members, and nobody is in two |
| `tournament_brackets` | 2 to 8 contestants in the formats of `MCTournamentBracket`, each with its bounds on corrections, generations, removals, status changes and overlapping requests | entries are earned and results carried on through every cascade; the winner has beaten everybody and is the one named; pairs meet once and seeds are spread; generated brackets pass the check on start; only what was acknowledged is undone; every bracket can be played out |
| `tournament_ffa` | 3 to 8 contestants in the formats of `MCFreeForAll`: one pool and two, groups of at most 2 or 3, with bounds on retractions, generations, removals and rounds | nobody plays on without the result for it; until the grand final everybody is in one pool or out; the champion has won the final that counts, by scores or by places; groups are balanced; with workable settings somebody wins, unless scores without places hold up a pool |

Bounds. Two workers suffice for every race of two requests, and each request is
a straight line of steps; a third worker adds interleavings but no new kind of
overlap. `MaxNumber` = 2 or 3 lets a checkout fail after its number was drawn and
another one succeed. `MaxPayments` = 2 stops only the start of a third payment.
Two IDs more than one order can use let an order be fulfilled twice. One order
is enough where the properties speak of one order; the stock and the numbers
relate several, and are checked with two.
Two tickets that want the same seat, and two bundles that want the same group,
are what the unique columns are for; two check-ins let a ticket be handed over
after a reversal, and two overlap. `MaxOccupancies` = 2 lets a group be occupied
again after it was released. Workers are interchangeable, so both passing runs of
ticketing use that symmetry.

In tournaments each format is a tournament of its own with its bounds, chosen so
that each difficulty occurs in the smallest bracket that has it: 3 contestants for
a walkover, 5 for one in the losers' bracket, 8 for a cascade over two rounds of
both brackets and, with groups of two, for losers that join others still in.
Two of the free-for-all formats begin a second time, one with each number of pools,
two let participants leave, and two have results by scores. `upsets` bounds the results explored: the large brackets go as seeded (in a
free-for-all, `upsets` counts how many of the first may fall behind), since there
the structure is the question; teams of four, two of which leave, go as seeded as well,
where what matters is what several removals leave behind; `beyond` says whether rounds made after the grand
final are explored. In `tournament_registration` the limit on requests is one more
than overlap at a time, so that a third meets what the two have left.

Deadlock is not checked in the shop: when every order is canceled and every number is used,
the system rests; likewise a tournament that is over, or the bound on requests. In the runs of ticketing deadlock is checked: some request can
always be begun.

Fairness. `HistoryFairSpec` assumes only that a worker in the middle of a
request takes its next step (weak fairness of `Continue`): a thread runs on, and
no step waits for another request. Nothing is assumed about new requests,
gateway answers or crashes. For brackets, `PlayedSpec` assumes that results are
entered while some match can be played, and for free-for-all tournaments that
places are set, matches confirmed, rounds advanced, and the grand final made once
advancing says it is due: that is what people do to finish a tournament, and the
liveness properties say that the code always leaves them something to do, except
where a free-for-all is `Stalled`: the latest round of a pool was confirmed by scores
only, is tied, and takes no places before it is retracted.
Retractions, removals, changes of the status and, in a free-for-all, scores are not
assumed to happen, but may.

## Findings

Four statements of the repository do not hold of the code; each has a run, and
`PROJECT.json` quotes both sides. The cause is the same in all of them: the
decision is taken on what was loaded, and committed without comparing again.
The model shows related behaviour that no line of the repository denies as
clearly, visible by dropping the conditions in the properties: a late payment
sets a canceled order to paid although the admin views say "The payment state
cannot be changed anymore."; a process that stops after the payment leaves a
paid order without tickets, and marking it as paid again is refused; a change of
the orderer during a payment leaves the tickets with the former orderer.

In ticketing, a check-in may be committed for a ticket revoked or handed over
after it was loaded, and the revocation of a bundle may release the group of
another bundle that took the seats in between.

In tournaments, removals that name nobody (of a team's last member) advance an only
opponent and leave the match open, and four things follow when several do: a team
removed from an open match that it was passed on from keeps its row in the next
match if that one is confirmed; a correction that comes to such an open match whose
next one is confirmed lists that next one but walks no further, while its retraction
cascades on, past what the administrator acknowledged; and a retraction through a
walkover whose only contestant has since left the next match leaves a grand final
completed with two contestants; and when both have gone from an open match, one of
them passed on before, corrections of the two matches behind it send a winner
through it once more, while the retraction does not reach the next match, so that
somebody stands there whom no match leading to it sends. (The last takes four rounds
of a tree, more than TLC's instances have; the proof of `EntriesEarned` came upon it.)
All four are among what `marred` records. Further,
the audit entry of a retraction may list scores as cleared that
the cascade leaves, because it stops at a walkover that was passed on, and the
match behind it keeps its confirmation but loses a row. A change of the status may
take back a completion with its winner. A removal from a double elimination can
leave a match that is never played. A captain who leaves the tournament stays the
captain of a team. An administrator may put a participant into a team that is marked
as removed: `admin_add_member` and the administrators' views find such teams, while
the site's views do not, so the members see no team. A comment on retractions says
"FFA results are placements, not scores.", but scores are accepted for a match of a
free-for-all: the highest names the winner of a final that has no places, or other
ones; and in a pool the match has no points, so that its round is tied and takes no
places either until it is retracted. In a free-for-all, advancing either pool can be impossible
while the grand final is not due yet (eight contestants in groups of exactly two:
with two winners left, the three losers cannot be grouped); a double elimination
whose contestants fit into one group can stop after it, for advancing counts those
who fall and says that the grand final is due, while the grand final takes the
survivors only and refuses a single one (`Workable` leaves such settings out); the
grand final leaves out whoever has just fallen from the last round of winners, and
it is no obstacle to advancing the pools afterwards. These are hazards in
`PROJECT.json`, with the condition under which the properties exclude them.

## Proofs

Proved for any number of workers, users, orders, products, items and any carts
and stock, from `ConstantsAssumption` only:

- `TypeCorrect`: `Spec => []TypeOK`. It includes that the stock is never
  negative. The invariant adds to the types that a busy worker has the data its
  next step uses (an order, a user, a product where one is read), that the
  number of items created matches, and that every placed order has an orderer
  (`TypeInv`); there is one lemma per kind of request.
- `CanceledStaysCanceled`: `HistorySpec => CanceledIsFinal`. The inductive
  invariant `HistoryInv` says that overlapping requests are on record
  (`OverlapsKnown`), and that what a worker has loaded of an order without
  overlaps is what is stored (`SeenIsStored`). It is needed because the step
  that writes the payment state does not read it: it is right only because the
  loaded state is. Another worker's step cannot make it stale, since a step
  changes only the order its own worker serves (`StepIsLocal`).
- `ShopImplementsLifecycle`: `IsolatedSpec => ImplementsLifecycle`, the
  refinement of `OrderLifecycle`. By the same invariant the three steps that
  change payment states, line items or stock (`LifeChange`) are the abstract
  steps Place, Pay and Cancel, and all others are stuttering.
- `NumbersUnique`: `HistorySpec => []OrderNumbersUnique`, and `PlacedStaysPlaced`:
  `HistorySpec => NeverReopened`, both whichever requests overlap or die. A number
  is drawn in one transaction and stored in a later one, so uniqueness of the
  stored numbers alone is not inductive: `NumberInv` adds that no two checkouts
  hold the same number (`NumbersApart`) and that an order being placed has no row
  and is no other request's (`CheckoutAlone`, because its id is fresh). The latter
  is also why placing an order overwrites none. Only `GenerateOrderNumber` and
  `PersistOrder` need the argument; what all other steps leave alone is one lemma
  (`OtherSteps`).
- `StockNeverLost`: `HistorySpec => []NoStockLost`, and `StockStaysExact`:
  `HistorySpec => []StockExact`. What orders hold of a product is the cardinality
  of a set of units, each a pair of the order and a number (`HeldUnits`), so that
  an order that is placed or canceled adds or takes away as many units as it has
  (`OrderJoins`, `OrderLeaves`). `StockInv` adds to the inequality that the units
  are finitely many. Only a cancellation of an order that is canceled already puts
  stock back without an order that held it, and that takes two requests for one
  order; hence the equation as long as there were none (`ExactInv`, on top of
  `HistoryInv`).
- `ItemsArePaidFor`: `HistorySpec => []IssuedPerPayment`, whichever requests
  overlap or die. The bound alone is not inductive, since items are created long
  after the payment they are created for. `PaymentInv` therefore counts the items
  issued for a line item together with those still `Pledged`: a request pledges
  the quantity of the line item when it commits its payment, as pairs of the
  worker and a number, and each creation redeems as many as it issues
  (`PledgeRedeemed`). It rests on `FulfilmentInv`, which says what a request knows
  of the line item it is at and of those it has left (`WorkOK`), and that an ID is
  issued once (`ItemInv`).
- `ItemsAreOrdered`: `HistorySpec => []IssuedAsOrdered`. Without overlaps only one
  request at a time may pledge anything, and only while nothing is issued yet;
  `OrderedInv` says so with the same count, bounded by one line item, and adds what
  the request under way knows of the order (`ServedOK`): its orderer and its state.
- `OrdersAreSettled`: `HistorySpec => []Settled`. `SettledInv` says of every order
  without overlaps and deaths either that it is `Done`, or how far its one request
  has come (`HalfWay`): the line items still to do have nothing, those left behind
  have everything and have it recorded, and, in a cancellation, are revoked.

Proved for any number of workers, users, tickets, bundles, seats and groups, from
`TicketingAssumption` only (tickets and seats are finite sets, and a bundle has a
ticket, which `create_ticket_bundle` sees to):

- `TicketingTypeCorrect`: `Spec => []TypeOK`. The invariant adds, by the step a
  worker is at, what the data of its request must contain (`Fits`). That a bundle
  can be seated in a group of the same size is a lemma of its own
  (`SeatingMatches`), from the library's theorem on finite sets of the same
  cardinality.
- `SeatsStayExclusive`: `HistorySpec => []SeatsExclusive`, and `GroupSeatsInOrder`:
  `HistorySpec => []GroupSeatsAccounted`. The three parts are inductive together
  with `TypeInv` (`SeatInv`), whose part about `occupy_seat` records that the checks
  passed; five steps change seats or occupancies (`SeatChange`), and there is a
  lemma for each kind. Seats that were taken by then are the business of the unique
  columns, and releasing a group is right because the tickets that lose their
  seats are all that can sit there under the row that is removed.
- `CheckInsAgree`, `RevokedTicketsUnseated`, `RevokedStaysInert` and
  `CheckedInUserStays`: `HistorySpec` implies `[]CheckInsAccounted`,
  `[]RevokedHaveNoSeat`, `RevokedIsInert` and `CheckedInUserFixed`. A request
  decides on the rows it has loaded and writes later, so none of the four is
  inductive: `LoadInv` adds that two requests about one ticket are on record, and
  that what a request has loaded of a ticket without overlaps is what is stored.
- `BundlesSitTogether`: `HistorySpec => []GroupSeatedWhole`. `GroupInv` adds to
  `LoadInv` that a bundle occupies one group at most, which the unique column sees
  to, and that a bundle without overlaps has all seats of its group: occupying a
  group gives each ticket a seat and each seat a ticket (`SeatingCovers`), and
  nobody but a request about the bundle moves its tickets (`BundleSeatChange`).

Proved for any number of users, teams and workers and any limits, from
`SetsAreFinite`, `LimitsAreNumbers` and `ValuesDiffer`:

- `TypesRegistration`: `Spec => []RegistrationTypeOK`. It includes that only a
  request between its lock and its commit holds the tournament's lock.
- `LimitsKept`: `Spec => []WithinLimits`. The count of participants or teams is
  compared with the limit in one step and written in a later one, so
  `WithinLimits` alone is not inductive: `LimitInv` adds that whoever is at that
  commit holds the lock of the tournament and that its count still holds
  (`CountedUnderLock`). Every request that adds a row takes the lock, and those
  that take none, or lose it, only remove rows or change their team.

- `TeamsKeepTheirSize`, `TeamsOfMembersStand` and `TeamsAreLed`: `HistorySpec`
  implies `[]TeamsNotOverfull`, `[]MembersOfActiveTeams` and `[]CaptainLeads`. A
  request reads the team and the participation in its view, or before it has any
  lock, and relies on them when it writes. The inductive invariant `TeamInv` says
  that overlaps are on record (`OverlapsKnown`) and what a request under way knows
  of users and teams only it is about (`KnownInv`): that the team to be founded is
  not there yet (`Formed`), who the user is and which team they are in
  (`KnowsUser`), that the team has room, or nobody left (`KnowsTeam`), and that a
  sweep has a member who stays as the successor of every captain who does not
  (`KnowsSweep`). There is one lemma on what another worker's step leaves of each
  part (`OtherKnowsUser`, ...), and one on what a request's own step makes of it
  (`StepKnows`). `TeamsBorn` adds that nobody is in a team before
  it is founded. `MembersOfActiveTeams` is kept because a team is retired or deleted
  in the transaction that takes everybody out, also those marked as removed, and
  because nobody enters a removed team but through `admin_add_member`, which
  `adopted` records (`StandKept`).
- `FirstTeamLeft`: `HistorySpec => TeamLeftFirst`, from the same invariant, and
  `RosterStays`: `HistorySpec => RosterKept`, which adds that a request that no
  change of the status has overtaken goes by the status there is (`StatusKnown`).

Proved for any number of contestants, any seeds and any settings, also unworkable
ones, from `NobodyIsNone`, `SeedsDiffer` and `FormatsChecked`:

- `FfaTypesHold`: `HistorySpec => []FfaTypeOK`. Its part on groups rests on two
  lemmas about `snake_seed_groups`: every list gives each position to one
  contestant (`EveryPlace`), and of each full row of the snake a group has exactly
  one, of the last row one at most (`InRow`, `RowsOfGroup`), so that groups differ
  by one at most and the first seeds stand apart (`FirstSeedsApart`). `RoundsEven` says so of every round, and is inductive
  together with `PoolsSplit`: nobody is in the latest rounds of both pools, so the
  list of the next losers is as long as its two parts.
- `RecordHolds`: `HistorySpec => []RecordInv`, the invariant the next three rest
  on. It adds to the shape of rounds and pools (`BaseInv`) that every match with a
  later round of its pool is confirmed, or is one of losers on record as overtaken
  (`Built`), that the same holds of what the grand final was made from (`Based`),
  and that before the grand final nobody but losers is overtaken
  (`LosersOvertaken`). Retraction preserves it because of exactly what
  `ffa_round_already_advanced` looks at.
- `PlacesHold`: `HistorySpec => []PlacesEarned`, and `OnePlaceHolds`:
  `HistorySpec => []OnePlaceEach`. The latter counts pools; inductive is that the
  latest round of a single pool has exactly who is not out (`MainStand`), and that
  the latest rounds of two pools are disjoint, have nobody who is out, and with
  those who are out are everybody who has not left (`PoolsStand`).
- `ChampionHolds`: `HistorySpec => []ChampionStands`, in its two directions
  (`WinnerHasFinal`, `FirstIsWinner`). It needs that there is one last deciding
  match, that a place is given once (`OneFirst`), and that scores come and go with
  the result they make (`ScoresHold`), so that the places of a result entered after a
  retraction are not outdone by scores of the one before.

Proved for any number of contestants and workers and any formats, from `NoneApart`,
`SeedsDiffer` and `FormatsChecked`. The generators and the two walks over a bracket
are recursive functions; induction is used in the form that a set with 0 and all
successors has all natural numbers (`Induction`), and what a walk keeps step by step
holds at its end (`Iterated`, `RetractedBy`, `RemovedBy`):

- `BracketTypesHold`: `HistorySpec => []BracketTypeOK`. To the types `BracketInv`
  adds what the match of a bracket reset needs (`ResetLinked`): only the first
  grand final leads to it, as long as it stands, and it leads nowhere. That is why
  taking it back leaves no link into nothing. That every bracket generated is
  linked within itself needs the shape of the trees (`TreeForm`, `LowerForm`).
- `AcknowledgedOnlyHolds`: `HistorySpec => AcknowledgedOnly`. The page that is
  acknowledged is filled by a walk breadth first, the retraction goes depth first.
  What the walk has seen is closed: with a confirmed match it has the confirmed ones
  it leads to (`WalkedFollows`; the walk ends, for what it has done and what it has
  to do are never more than it has seen), unless a walkover that was passed on
  stopped it, which `marred` records. And a retraction that starts in a closed set
  undoes nothing outside it (`RetractedUndoes`).
- `DrawIsFair`: `HistorySpec => []DrawFair`. About the order of seeds it is proved,
  by induction on its size, that each seed has one place (`SeedsHavePlaces`) and
  that the best 2^k lie in different parts of 2^(p-k) places (`SeedsApart`); about
  the circle method, that a pair tells the round it meets in (`MeetingTellsRound`)
  and that every two meet (`EveryTwoMeet`). `DrawInv` says that, as long as nobody
  has left, the bracket is the one drawn up for the active contestants (`Drawn`):
  the same matches and links but for a bracket reset, and the same contestants where
  the draw put them. A cascade keeps it because no link leads to such a match
  (`LinksUp`).
- `GeneratedBracketStarts`: `HistorySpec => []GeneratedStarts`, from `DrawInv` and
  the links that are made (`SingleEliminationLinks`, `DoubleEliminationLinks`), with
  what nothing leads to in the losers' bracket (`DeadLowerUnfolds`), and from the
  number of pairs of a round robin (`MeetingsCounted`).
- `EntriesAreEarned`: `HistorySpec => []EntriesEarned`, and `ResultsAreCarried`:
  `HistorySpec => []ResultsCarried`. Neither is inductive: a result that is taken
  back, or a contestant who leaves, could leave somebody in a later match for whom
  it was the only reason, or could reach a match whose own result stands. What
  prevents it is a fact about the whole bracket (`Flow`): every match that is
  confirmed, or whose only contestant went on from it, has nothing open behind it
  (`Ordered`, `Settled`), so whatever can still change leads to matches that have
  sent nobody on (`Calm`). With it goes that links lead up, two to a match at most
  (`Layout`), and that nobody starts twice (`StartOnce`); it follows that the
  matches somebody stands in are on one path (`OnTheWay`). `FlowInv` says so of
  every bracket that is not `marred`, and of a report that is under way that it
  names somebody who was in the match when it was read (`ReportInv`).
  A step is taken apart into changes of rows and flags that each keep `Flow`:
  somebody is taken out (`Shrinks`), sent on (`Grows`), a match is confirmed
  (`Confirms`) or opened (`Opens`), a reset is made or taken back (`HasSecond`).
  Of a retraction it is proved, from the top of the bracket down, that undoing a
  match comes to its end, with nobody left of whom it sent on (`CanUndo`,
  `Undid`, `AllGone`), if the results it reaches lead to each other and no walkover
  is among them (`Ready`); the latter is what `marred` is about. That each bracket
  made has the layout is proved from the generators, with the rounds of both
  brackets as the order of its matches (`Rank`).
  The proof came upon a bracket larger than TLC's instances in which `EntriesEarned`
  did not hold: the last case under the findings on removals. `marred` records it
  since, at the correction that meets a match everybody has left.
- `WinnerAndBracketAgree`: `HistorySpec => []WinnerStands`. One match decides, in a
  double elimination the last grand final (`Finals`), and the row of the tournament
  agrees with it (`Stands`). A retraction breaks the agreement for a moment: what
  it keeps at every step is that it only takes back (`Backward`), and at its end
  the winner is gone exactly if the result that decided is. `WinnerInv` needs also
  what a change of the status under way may write (`PromiseInv`).
- `EverybodyElseBeaten`: `HistorySpec => []OthersBeaten`. In a bracket nobody has
  left (`Whole`), everybody starts, every match leads to the one that decides, and
  once that is confirmed nothing is open (`NothingOpen`). The last match of a
  contestant in a bracket is then one they lost, or its final (`LastMatch`). For a
  double elimination (`Played`) this takes that both finals are played by two
  (`UpperFinalPlayed`, `LowerFinalPlayed`), that two meet in the grand final of
  whom one has lost before (`FinalistsMeet`), and that they meet again exactly if
  that one wins it (`Resets`), which is kept by every report and correction and is
  an invariant of its own (`ResetInv`).

Only model-checked:

- `PaidIsFulfilled`, `BracketPlayedOut` and `FfaPlayedOut`, which are liveness under
  fairness, out of the reach of the proof system.
- The three findings of the shop and the one of ticketing, which are
  counterexamples.

So every invariant and every action property that a passing run checks is proved.

## Plan

1. (done) Shop orders: `ShopOrder`, its history, its life cycle, proofs.
2. (done) Tickets and seats: `Ticketing`, its history, proofs.
3. (done) Tournaments: registration with its proofs, brackets, free-for-all.
4. `Account`: verification tokens, password reset, session tokens, suspension
   and deletion.
5. Cancellation requests on top of `ShopOrder`.
6. (done) Theorems: every safety property of the shop, of tickets and seats, of
   registration and of free-for-all tournaments.
7. (done) Theorems about brackets: types, acknowledged corrections, the draw and the
   start, who stands where because of which results, the winner, and who was beaten.

## Not modelled

Everything with status `not_modelled` in `PROJECT.json`, with the reason there:
content, configuration, notifications and reports are edited one row at a time
or only read; items 4 and 5 of the plan are open. Within the
shop: the shipped flag, notes, invoices, e-mails, log entries, prices, and the
actions registered per product number. Within the tournaments: high scores,
comments, notifications, images and names, edits of limits and settings, podiums
and standings (read-only).
