# EntailsNG in TLA+

EntailsNG is a Django monolith for LAN parties: registrations and payments, a
seat plan, an entrance with scanners, clans, teams, tournaments, mails, backups.
All state is in one PostgreSQL database, apart from uploaded media, a few marker
files, and a cache in Redis. Several processes work on it at a time:

| process | started by | what it does |
|---|---|---|
| web workers (gunicorn) | `entrypoint.sh` | requests of guests and of the orga |
| mail worker | `process_email_queue --daemon --interval 5` | sends the outbox |
| clan worker | `process_clan_seat_holds --daemon --interval 60` | ends holds and orders of clans, cancels overdue registrations |
| guest photo worker | `purge_guest_photos --daemon` | erases expired photos |
| backup worker (optional) | `process_backup_jobs --daemon` | creates and restores backups |
| browsers at the door | `static/js/checkin-scanner.js` | scan tickets, take photos, show the guest list |

The program coordinates them with row locks, constraints, compare-and-set
updates, versions in forms, a transactional outbox and, for backups, `flock`
files. This project models the parts where an order of steps nobody tried could
break a promise of the program.

## Inventory

For each part: its state, its operations, what is hard, what makes it correct.

**emails** (`src/emails/`). One `OutgoingEmail` row per mail: status, attempts,
due time, lease, expiry, sensitive content; the switch `is_enabled`; the file
`mail-paused.json`. A round of a worker recovers stale rows, claims a batch,
renews the lease before each transmission, transmits, confirms; the orga retries,
sends now, cleans up; a deleted account erases its rows. *Hard:* several workers,
leases that lapse, a crash between transmission and confirmation. *Correct when*
no content is transmitted by two workers under valid leases, none after its
confirmation, one-time codes leave the table with the final status, and every
mail reaches one.

**backups** (`src/backups/`). Jobs, the journal, the live, previous and candidate
database, media directories, the maintenance marker, the access lock, the pause
of the mail, caches. Create; prepare and restore in phases; rollback; recovery at
the start of the worker. *Hard:* a crash or an exception between any two steps,
requests let in before the marker appeared. *Correct when* no reader meets a
mixture of two states, the previous state can be brought back as long as the
journal says so, and maintenance ends. A recovery that fails in phase `prepared`
is the one place where the code gives this up (finding 4).

**events and seating** (`src/events/`, `src/seating/`). Status and dates of the
events, which one is active, its id in the cache; `EventRegistration` (payment,
check-in); `SeatingCell`; `ClanSeatAllocation`, `ClanSeatHold`,
`ClanSeatPayment`. Open, finish, edit events; register, pay, take a payment back,
cancel; reserve and assign seats; select, order and hand out the seats of a clan;
the worker's rounds. *Hard:* places are counted over registrations and prepaid
seats, each change has to be followed in three other tables, and deadlines pass
while others book. *Correct when* capacity and quotas are kept, ticket, payment
and seat agree, the worker never takes a paid place, and one event is active.

**the door** (`events/views.py`, `static/js/checkin-scanner.js`). Requests look
at ticket, guest and event and take the locks later; devices give up waiting,
load lists in any order, and ask for photos. *Correct when* nobody comes in who
may not at that moment, and the list catches up with what its helper was told.

**tournaments** (`src/tournaments/`). Tournament (mode, status, released
playoffs), registrations (seed, group, forfeited), matches with edges to the next
ones, Swiss rounds, draws, teams, invitations. Found and join teams; register;
draw; generate; score and correct; walkovers, withdrawals, deletion; release;
confirm, reset, restart as a new edition. *Hard:* corrections and withdrawals at
any moment ripple through a tree; rounds and draws are published from previews;
rosters freeze with the start. *Correct when* every slot is what the results in
front of it say, nothing that was played is undone, the tournament can always be
played to its end, nobody plays twice, and what is published is what was shown.

**users** (`src/users/`). Accounts, codes, sessions and password links, lockouts,
bans of accounts and addresses, guest photos. *Hard:* a view saves what it read
before a ban; deletion touches every other part; photos are replaced while purged.
*Correct when* what a ban or a deletion closes stays closed, and no fresh photo
is purged.

**clans** (`src/clans/`). Memberships, requests, administrators, succession.
*Correct when* a clan has an administrator and nobody is in two.

**knowledge, contact** (`src/knowledge/`, `src/contact/`). Forms with the version
they show; a form with a token, limits and three locks. *Correct when* no save is
lost under another, and a form is accepted once.

**configuration, news, info, sponsors, media_designer, config, docker, nginx**:
settings and content edited by one form and one save, rendering, deployment. Not
modelled (see the end).

## The modules and the code

| module | models | uses |
|---|---|---|
| `EmailOutbox` | the outbox rows, the mail workers, the orga's actions on rows | |
| `MailPromise` | what the outbox promises about a row, without workers and leases | implemented by `EmailOutbox` (`PromiseKept`) |
| `BackupRestore` | job queue, backup worker, journal, maintenance gate, readers | |
| `SeatBooking` | one event: registrations, seats, clan seats, orders, workers | |
| `EventDesk` | the events among each other: who is active, saves that overlap, the cache | |
| `Entrance` | requests of the check-in desk, and one device of a helper | `EventDesk` |
| `Venue` | the composition of the three | `SeatBooking`, `Entrance` |
| `MatchTree` | operators on matches that feed each other | |
| `Bracket` | single and double elimination | `MatchTree` |
| `GroupStage` | leagues, groups with playoffs | `MatchTree` |
| `Tournament` | the composition of the two on the same rows | `Bracket`, instance of `GroupStage` |
| `Swiss` | rounds in the Swiss system: preview, publication, corrections | |
| `Draws` | the draw of the first round; new editions | |
| `FreeForAll` | a match of all teams, scored from several pages | |
| `Contest` | the composition of the three | `Swiss`, `Draws`, `FreeForAll` |
| `Accounts` | accounts, codes, logins, sessions, bans | |
| `Clans` | memberships, administrators, requests | `Accounts` |
| `Teams` | teams, invitations, applications, entries over several events | `Clans` |
| `GuestPhotos` | records and files, uploads, the purge | `Accounts` |
| `Knowledge` | spaces and pages edited from forms | `Accounts` |
| `Contact` | the contact form | |
| `Portal` | the composition of the people's parts; deletion of an account | the six above |
| `EmailOutboxProofs`, `BackupRestoreProofs`, `SeatBookingProofs` | theorems about the module of that name | TLAPS |
| `VenueProofs` | theorems about the events, the door and the composition of the venue | `SeatBookingProofs` |
| `PortalProofs` | theorems about accounts, photos, knowledge base and contact form in `Portal` | TLAPS |
| `MembershipProofs` | theorems about clans and teams in `Portal` | `PortalProofs` |
| `TournamentProofs` | theorems about the knockout trees of `Tournament`, and the lemmas about `MatchTree` and `Bracket` | TLAPS |
| `ContestProofs` | theorems about Swiss tournaments and the match of all in `Contest` | TLAPS |
| `MC…` | definitions a `.cfg` needs, and which part runs with which inputs | the module of the same name |

`map` in `PROJECT.json` names the lines of every definition. Every definition
under a comment that says *Mutant* is a form of the next one with a plausible
mistake. It is part of no specification; it shows that the property it is paired
with in `PROJECT.json` notices the mistake.

**Compositions.** `Venue`, `Contest`, `Portal` and `Tournament` put parts together
that lock different rows, or that never run in one tournament. A variable
(`part`, `stage`, `focus`, `mode`) chosen at the start says which part moves; what
another part may do to it (a ban, a deletion, another event, a payment) moves with
it. The states of parts that do not meet are so added and not multiplied. Where
parts do meet in one transaction, they meet in one action: `DeleteAccount` in
`Portal` is `DeleteRow`, `LeaveClans`, `LeaveTeams` and `AccountGone` together; the
guest (`DeleteOwn`) and the orga (`AnonymizeAccount`) reach it with different guards.

### EmailOutbox
`mail[m]` is the row of mail `m`; `enabled` and `halted` are the switch and the
file. Per worker, `pc` is the place in `process_pending_emails`, `stale` and
`picked` what it has read, `batch` and `cur` what it has claimed and is sending,
`left` what is left of its lease by its own clock. `delivered` is a history
variable: the acceptances by the mail server. A step of a worker is one statement
of the database or one transmission: `BeginPoll`, `ReadStale`, `RecoverStale`
(compare-and-set on the values read), `Claim` (`SKIP LOCKED`), `TakeNext`,
`RenewLease`, `Transmit` (outside any transaction; the answer may be lost),
`Confirm`, `Crash` at any step. `SendNow`, `RetryOutgoing`, `CleanupOld`,
`DeleteSelected`, `EraseAccount`, `SwitchMail`, `SwitchHalt` are requests that
write the same rows. `Tick` shortens leases, waits and lifetimes together.

### BackupRestore
Databases and media directories are numbers: the version of the content. `live`,
`old`, `cand`, `media`, `snapshot`, `phase` (of the journal), `marker`, `locked`,
`mailPaused`, `mailWas`. `reader[r]` is a request on its way through the
middleware: marker looked at, shared lock taken, marker looked at again, served.
Each renaming, deletion, copy, marker and journal write of the worker is its own
action, because between any two the process may end (`Crash`) or an exception be
raised (`TryFails`, `RollbackFails`, the `Fault` disjuncts); which handler or
`finally` runs next is part of the action. `exposed` is history: it is set when a
recovery that fails in phase `prepared` leaves its maintenance and so removes the marker
before `services.py:397` writes it again (`OpensTooEarly`). A behaviour may begin with the
mail paused by an earlier restore.

### SeatBooking, EventDesk, Entrance
`reg[u]` is the payment status of a registration, `seat` and `by` status and
registration of a cell, `hold`, `claimed`, `used` the `ClanSeatHold`, `order[k]`
the `ClanSeatPayment`, `financed`, `funded`, `was` its items. Every service takes
its row locks first and is one action; `sync_seat_status_with_payment` reads the
cell without a lock and saves it later (`TakePaymentBack`, then `SyncSeat`), and
the deadline worker reads a list first (`ReadOverdue`, `CancelOverdue`).

`EventDesk` keeps what `SeatBooking` sees of other events as one step
(`OtherEvent`) in detail: a save is a look, a write and a commit. `save[w]` is the
save of an organiser, `Rows` the rows it has locked; opening and finishing lock
before they look, the form and the payment check do not. `Write` is `Event.save`,
which deactivates the others and empties the cache inside the transaction;
`cached` is `active_main_event_id`, `filling` the answer a page has read and not
cached yet.

`Entrance` has the requests on the server (`request`: of the device, given up by
it, of another desk), each in two steps: `Look` (what the view checks before the
locks) and `Act` (`check_in`, `check_out` or the photo under the locks, where
`can_check_in` is asked again). The device is `checkin-scanner.js`: one request
at a time, three seconds of pause, the pending photo, lists with a generation.
Every change of a check-in is numbered (`changes`), so that one can say how old
what the device shows is.

### MatchTree, Bracket, GroupStage, Tournament
`match` maps `<<bracket_type, round, number>>` to slots, winner, loser, status
and result type; `Tree` is the graph the generation writes. `CheckAndAdvance` is
`check_and_advance_match`; its recursion is a stack with the set `visited` of the
code, because that set matters (finding 3). `Scored` is `update_match_score`,
`Repaired` is `repair_descendants`, `Forfeited` is
`forfeit_team_in_active_tournaments`. `GroupStage` adds scores, tables
(`Keyed`, `Mini`, `Placed` follow `_calculate_standings_base`), the proposal of the
playoffs, which every result rebuilds until the release, and the release. Teams
are named by their place in the draw. The `Preview…` operators are what
`brackets.py` shows before it writes anything, built in the code (and here)
independently of the matches it writes afterwards.

### Swiss, Draws, FreeForAll
A round, a draw and a new edition are published in two requests. `token` and
`drafts` are the signed previews with the digest (`Digest`, `SourceDigest`) of all
they depend on. A match of `Swiss` is named by its teams: a round is a function from
pairs, and the one team with a bye, to results. `Standings` are the tables with Buchholz
and Sonneborn-Berger; `Pair` is the strict pairing and the one with the fewest
repetitions, as the lightest of all `Matchings`; the first round is the same pairing on
an empty table. `Draws` has the pairs twice: as the draft
shows them and as the generator reads them off the order (`PairsDrafted`,
`WrittenRound`). In `FreeForAll` every organiser has a `page`; a result is
accepted when its version is the page's.

### Accounts, Clans, Teams, GuestPhotos, Knowledge, Contact
`account[u]` is the row of a user; `grants` the sessions and password links with
what they remember of the row; `pending` the request of each browser between its
read and its write. `era` counts the bans, so that one can say that a grant is
older than a ban. What a page of the code can do is one operator (`ProfileForm`,
`BanForm`, `ManageMember`, `LeaveClan`, `EntryPage`, `RestartPage`, `ListAction`):
the disjunction of the services it may call. In `Clans` only the session of a request is older than the row
(`request`); in `Teams` handlers lock everything and are one step. `memberships[c]`
and `roster[t]` are functions from the users that have a row (the tables allow one
each) to the row, in which `place` is the number of older rows: the code reads the
order of creation only to find the oldest (`Oldest`). A grant carries the `era` of the
session or link it goes back to, and `saved`, the era in which a password change of its
own was saved for it. `emptied` says of a team that it was archived without a player
because a Swiss tournament keeps its row (`Historic`). `GuestPhotos`
writes a file, commits the record, removes the old file; the purge works
through what it read at its start and may die (`PurgeDies`). `Knowledge` keeps
for each revision the version its editor had seen. `Contact` takes its three
advisory locks in three steps.

## The runs

| run | instance | states | shows |
|---|---|---|---|
| `email_safety` | 1 mail, 2 daemons, 1 admin, 2 attempts, lease 2, lifetime 3, 1 reset, 1 crash | 762 k | no two transmissions under valid leases, none after the confirmation, the promise is kept |
| `email_liveness` | 2 mails (one sensitive), 1 daemon, 1 reset, 1 crash | 498 k | codes are in the table exactly while the mail may go out; every mail settles |
| `backup_safety` | 2 jobs at a time, 1 reader, 2 crashes, 2 exceptions | 390 k | until a recovery lifts the marker too early, readers see one version, the previous state can be brought back, a restore takes effect as a whole or not at all; maintenance ends or waits for the operator; jobs settle |
| `venue_safety` | seats: 2 members, 1 outsider, 1 seat, 2 places, quota 1. events: 2 events, 2 organisers. door: 1 ticket, 1 save at a time. device: 1 ticket, 1 device, 1 other desk | 1.3 M | see the properties |
| `seat_liveness` | 1 member, 2 seats, bans, account deletion | 74 k | quota, check-in only of the paid, orders settle, the deadline is enforced |
| `tournament_safety` | trees of 2 to 5 teams, two of which may withdraw or be deleted; a league of up to 4, groups of up to 5 teams | 472 k | see the properties |
| `contest_safety` | Swiss: 4 teams, 2 and 3 rounds; draw: 4 teams, 2 editions; race: 3 teams, 2 organisers | 531 k | see the properties |
| `people_safety` | 3 users, 2 clans, 2 teams, 3 tournaments (one of them Swiss) of 2 events; 3 pages, 2 editors; 2 posts, 3 forms | 838 k | see the properties |
| `seat_quota` | as `seat_liveness`, another event may be activated | | violated, finding 1 |
| `event_cache` | 1 event, 1 organiser, pages | | violated, finding 2 |
| `bracket_blocked` | 9 teams, double elimination, two withdrawals | | violated, finding 3 |
| `backup_open` | as `backup_safety` | | violated, finding 4 |

### The properties
*Outbox.* `NoConcurrentSend`: a transmission under a valid lease is the only one.
`NoSendAfterConfirmation`: none starts once the row is confirmed.
`SecretsExactlyWhileQueued`: content with a one-time code is there if and only if
the row may still be sent. `PromiseKept`: the refinement of `MailPromise`.
`EventuallySettled`: every queued mail reaches a final status.

*Backups.* `ReadersSeeOneVersion` (with caches and archives),
`PreviousStateRecoverable`, `MailHeldAfterRestore`, `RestoreIsAllOrNothing` (when
maintenance ends, database and media are of one version), `MaintenanceEnds`,
`JobsSettle`. The first two and the fourth hold until a recovery that fails in phase
`prepared` has lifted the marker (`exposed`), and say nothing afterwards.
`OpenRestoreIsLocked`, what `docs/backups.md` says of a restore that is still open, has
no such exception: finding 4.

*Seats.* `CapacityKept` counts registrations and prepaid seats;
`TicketsAndSeats` is the type of the state and three relations between its tables:
a clan's seat is free or its member's (`ClanSeatsKept`), every ticket is backed by
one payment (`TicketsBacked`), a seat says what its registration says
(`SeatMatchesTicket`); `ClanProtection` keeps outsiders off a held seat;
`WorkerSparesPaid` forbids the worker to take a paid place; `QuotaKept`;
`InsideAndSeated`; `OrdersSettle`; `DeadlineEnforced`.

*Events and door.* `EventsInOrder`: one event is active at most, and a save that
nobody crossed changes no event but its own and revives none. `AdmittedRightly`:
whoever comes in may at that very moment, whatever changed since the request
looked; nobody goes out but by a button pressed on somebody who was inside; no
photo of a refused guest is kept. `ListCatchesUp`: when the last list has arrived,
it is not older than anything the device was told. `CacheFollows`: finding 2.

*Trees and groups.* `TreeSound`: slots follow results, nobody has two matches open,
review means decided (`TreeConsistent`). `TreeFlows`: no match waits for nothing.
`LivesCounted`: in a decided tree everybody but the champion has lost once, or
twice. `StageSound`: playoffs follow the groups, the release stands, direct
comparison decides, everybody meets everybody once. `PreviewKept`: generation
writes the tree, or the playoffs, that the preview showed. `ResultsStand`: what was
started or played is never undone by anything but its own correction, in trees
(`PlayedStaysInTrees`) and in playoffs (`PlayedStaysInPlayoffs`).

*Contest.* `RoundsConsistent`: tables of published rounds stand, repetitions are
unavoidable, the bye goes to the last. `PublishedAsShown`, `DrawsAsApproved`: what
is published is what the form showed, once, on an unchanged state.
`PlacesStand`: places are complete, and only changed or confirmed by somebody who
saw them.

*People.* `AccountsClosed`: no session and no link from before a ban opens the account
after it, a deletion is final. Excepted is a session that saved a password change of its
own since the ban (see the observations). `TeamsSound`: one team per game, captains among
their players, fields, invitations. Excepted is a team whose last player left and whose
row was kept for a Swiss tournament: it may be active without its captain and stay entered
where it does not belong, as long as the tournament is not played; what is played has teams
that could start, each with a captain who plays, without exception. `ClansAdministered`,
`RostersLocked`, `PhotosKept`, `StaleFormsRefused` (knowledge base and contact form).

### The bounds, and why they are enough
- *Outbox.* Rows are independent except for the batch, so one row with two daemons
  and an administrator has all races on a row; the second instance has two rows
  for the batch. Lease 2 lets a lease lapse between claim and transmission and a
  renewal come in time; lifetime 3 lets a mail expire before, within and after a
  lease; two attempts reach the retry and the final failure.
- *Backups.* Two numbers for jobs, which are used again when a job is gone, give any
  sequence of backups and restores with a second one queued while the first is
  interrupted; one reader, let in before the marker, during the drain or later; two crashes
  and two exceptions let a recovery be interrupted as well. Three versions of the content.
  `ReadersAreSafe` and the theorems beside it cover any number of jobs and readers.
- *Seats.* Two places with three users, so the event is full before everybody is
  in; one seat that everybody wants; quota 1 is the boundary. The second instance
  has two seats for one person: moving, and a quota exceeded by a seat given up.
  It leaves out the activation of another event, because of finding 1. Where another
  event may become the active one (part `rival`), at most one user is registered at a
  time (`Few`); the theorems on seats cover any number of them beside another event.
- *Events.* Two events and two organisers are what a replacement and an overlap
  need; one save per organiser at a time. Pages matter to the door and the
  cache, not to the saves, and are left out of this part. Organisers are alike
  (symmetry, as for seats and members); whether the check-in asks for photos does not
  matter to seats and saves.
- *Door.* One ticket: requests for different guests lock different rows. One
  request beside one save at a time in part `door`, where photos are asked for (without
  them a look compares less, as in `device`); three at a time (the device's, one it
  gave up, another desk's) in part `device`, on a day when no event changes.
  `MaxChanges` 2 lets a guest go in and out; "load more" is left out.
- *Trees.* Five teams need a bracket of eight with three byes, two of which meet
  in the loser bracket. Larger ones were explored by hand: 8 teams in a double
  elimination and 4 teams of which three move end without an error. With 9 teams
  `NoStuckMatch` fails: finding 3. Groups of two and three teams have an odd and an
  even round robin; the three results make ties on points with other goals.
- *Swiss, draw, race.* Four teams have three rounds without repetition, so two
  and three rounds are below and at the limit; the bye appears when one leaves. One
  draft and one copy form at a time; `Explored` limits the shuffles, `Sheets` the
  results of a race (two winners, a shared place, a disqualification, a missing
  place); the model leaves out the formula that proposes a number of rounds, and
  taking an entry back.
- *People.* One ban of one user (`MaxEra`), one session or link at a time, bans in
  the parts accounts, clans and solo teams; `MaxWaiting` 1 invitation or
  application at a time; two of the users play in tournaments of one player
  (`Soloists`), one of which is Swiss; `MaxEmptied` 1 team archived without a player at a
  time; the first event may end. With accounts in focus one member changes to the
  address that the third user would register with (`Wished`), who may take the one the
  member gave up; both addresses may be banned. Forms for the space and forms for its
  pages are in focus one at a time, because neither save looks at the other's rows
  (`knowledge/services.py`); three pages can exceed the depth by two moves. Limits of the code are small
  constants (`MaxFails`, `MaxTries`, `MaxIssued`, `HourLimit`).
- `CHECK_DEADLOCK FALSE` is set where the system may stop: the bounded sets of
  jobs, changes, forms or posts are used up, a tournament is confirmed or
  cancelled.

## Fairness
- *Outbox.* Weak fairness of the clock, of `BeginPoll` and of the steps of every
  daemon: the daemon polls every 5 seconds and docker restarts it
  (`docker-compose.yml`). Nothing is assumed of the orga, of the mail server's
  answer or of the switches; `EventuallySettled` asks for a switch that stays on.
- *Backups.* Weak fairness of the start and the steps of the worker, and of a
  request that waits for the lock or is being served: requests end (gunicorn's
  timeout). Nobody is obliged to send one, and the operator need not retry.
- *Seats.* Weak fairness of the passing of a payment deadline and of the second
  half of the unlocked synchronisation; strong fairness of the worker's steps: it
  wakes every 60 seconds and waits in PostgreSQL's queue of a row lock, so it is
  not overtaken for ever. No guest, clan or organiser is obliged to do anything.
- *The rest.* None: people decide, so there are no liveness properties. That a
  tournament can always be played on is a safety property (`TreeFlows`, parts of
  `StageSound` and `RoundsConsistent`).

## Proofs
Eight modules hold theorems, one or two per part; TLAPS checks them to the last leaf.
They hold for every value of the constants that satisfies the named assumptions
of the modules they are about (`WorkersAssumption`, `ClansAssumption`, …: a name
for "nobody" is not in use, limits are numbers, subsets are subsets). TLC
evaluates the same assumptions in every run.

| theorem | module | statement |
|---|---|---|
| `TypeCorrect`, `InductiveInvariant` | `EmailOutboxProofs` | `TypeOK`, and the invariant below |
| `ExclusiveSend` | | `Spec => []NoConcurrentSend` |
| `SentStaysSent` | | `Spec => NoSendAfterConfirmation` |
| `OutboxKeepsPromise` | | `Spec => PromiseKept`, the refinement of `MailPromise` |
| `SecretsGoWithTheQueue` | | `Spec => []SecretsExactlyWhileQueued` |
| `OneJobAtATime` | `BackupRestoreProofs` | `Spec => []TypeOK` |
| `MailStaysHeld` | | `Spec => []MailHeldAfterRestore` |
| `ReadersAreSafe` | | `Spec => []ReadersSeeOneVersion` |
| `PreviousStateKept` | | `Spec => []PreviousStateRecoverable` |
| `RestoreLeavesNoMixture` | | `Spec => RestoreIsAllOrNothing` |
| `TicketsAndSeatsAgree` | `SeatBookingProofs` | `RivalSpec => []TicketsAndSeats` |
| `CapacityNeverExceeded` | | `RivalSpec => []CapacityKept` |
| `OnlyPaidGuestsInside` | | `RivalSpec => []InsideAndSeated` |
| `ClanSeatsProtected` | | `RivalSpec => ClanProtection` |
| `WorkerLooksAgain` | | `RivalSpec => WorkerSparesPaid` |
| `ClansKeepTheirQuota` | | `Spec => []QuotaKept` |
| `EventsStayInOrder` | `VenueProofs` | `DeskSpec(…) => EventsInOrder` |
| `GuestsAdmittedRightly` | | `EntranceSpec(…) => AdmittedRightly` |
| `ListsCatchUp` | | `EntranceSpec(…) => []ListCatchesUp` |
| `VenueIsSafe` | | `VenueSpec(…)` implies all of the above on seats but the quota, `EventsInOrder` and the properties of the door |
| `BansHold` | `PortalProofs` | `AccountsSpec(…) => []AccountsClosed` |
| `PeopleStayClosedOut` | | `PortalSpec(…) => []AccountsClosed` |
| `PhotosAreKept` | | `PortalSpec(…) => PhotosKept` |
| `LateFormsAreRefused` | | `PortalSpec(…) => []StaleFormsRefused` |
| `ClansStayAdministered` | `MembershipProofs` | `PortalSpec(…) => ClansAdministered`, if a clan that exists at first has an administrator |
| `TeamsStaySound` | | `PortalSpec(…) => []TeamsSound` |
| `RostersStayLocked` | | `PortalSpec(…) => RostersLocked` |
| `TreesSound` | `TournamentProofs` | `TournamentSpec => []TreeSound` |
| `LivesAreCounted` | | `TournamentSpec => []LivesCounted` |
| `PlayedMatchesStand` | | `TournamentSpec => [][PlayedStaysInTrees]_tournamentVars`, one half of `ResultsStand` |
| `RacePlacesStand` | `ContestProofs` | `ContestSpec => PlacesStand` |
| `SwissRoundsAreConsistent` | | `ContestSpec => []RoundsConsistent` |
| `SwissPublishedAsShown` | | `ContestSpec => PublishedAsShown` |

None of these properties is inductive as it stands. What has to be added is what
the code relies on without saying it:

*Outbox.* `NoConcurrentSend` says nothing of a worker that has renewed its lease
and is about to transmit. `IInv` adds: a row that waits or is being sent has
attempts left and was not confirmed, one that is `SENT` was (`RowInv`); a worker
between renewal and confirmation has at most one row in `cur`, and time left on a
lease only after a renewal (`WorkInv`); while a worker sends within its lease, the
row is its own with that very lease, unless the content was erased under it
(`LeaseInv`). Two workers with time left would both own the row. For the
refinement, `RoundPromise`, `ResetPromise` and `OutsidePromise` show that each step
maps to a step of `MailPromise` or a stutter (an acceptance is recorded before the
row can be confirmed, and a confirmed row belongs to no batch).

*Backups.* `CoreInv` says where the worker can be for which purpose and what the
journal says there (`JobInv`, `PlaceInv`); that the lock is held with the marker
and with nobody inside (`LockInv`); and that the mail is paused from the pause on
and held only while paused (`MailInv`). `SwitchInv` follows the two databases, the
candidate and the safety copy step by step: until the renaming the live database
is the one of the snapshot, after it the old one is. `SiteInv` says what a reader
would meet: while the journal leaves the switch open nobody is in, otherwise
database and media are of one version. Both hold only until `exposed`: an exception in
phase `prepared` of a recovery reopens the site before `services.py:397` writes the
marker again (finding 4), and the three theorems say, as their properties do, nothing of
what comes after. They cover every behaviour before it, in every phase, with any
number of crashes and exceptions. `TypeOK` and `MailHeldAfterRestore` have no such
exception.

*Seats.* `IInv` is `TypeOK` with: holds agree with their order (`OrdersInv`);
nobody has two seats, and a seat the form still has to write is that of a guest
whose payment was taken back (`OneSeatEach`), which is what keeps the late
`SyncSeat` harmless; a deleted account has no paid ticket (`InsideInv`); and the three
relations of `TicketsAndSeats`. Capacity is preserved by the counting under the lock of
the event, with lemmas about the cardinality of the two counted sets. Everything is
proved for `RivalSpec`, in which another event may be activated at any moment, so it
holds for `Spec` as well (`SpecIsRival`). Only the quota needs `Spec`: by finding 1 it
is false of `RivalSpec`. `QInv` adds that allocations are open only while the event is
active, and that a hold without payment belongs to one, on a seat that is not blocked.

*Events.* A save that was written and activates its event has turned all others off,
and there is one of them at a time (`ActivationsApart`); what a save looked at holds
until another one crosses it (`LookHolds`).

*Door.* A request that was let through came by an active event or by a link, and an
answer tells of no change that was not made (`RequestInv`); a load of the list that
is not aborted is younger than all the device was told (`ListInv`): the generation in
`checkin-scanner.js` gives just that. `VenueIsSafe` is the composition: the part that
rests is untouched, and each step of another part is a step of `RivalSpec`,
`DeskSpec` or `EntranceSpec`, or a stutter.

*Accounts and photos.* `RowsInv` says what a row is by itself (who is active has a
confirmed address, who is deleted has none, who is banned is not active) and that
addresses have one owner. `GrantsInv` and `RequestsInv` are the point: a session, a
link or a request that remembers the present version of a row was made since the
last ban or saved its own password since, and the object a password page holds is one the
row may go back to. For the
photos, an upload has written its file lately (`UploadsInv`), no two records share a
file, what a purge remembers is true as long as the record has that file (`TodoInv`),
and a purge that looks at files knows those of the records or finds them too young
(`KnownInv`). Deletion reaches all parts in one action; `PhotosRest` lets the proof
leave aside the parts that do not move.

*Clans.* `ClansInv`: every clan but those in `late` has an administrator whose account
exists (`Led`), and no user is a member of two. What the run checks of one step
(`AdminsKept`) is shown with it, operation by operation: whoever removes or demotes is
an administrator that stays (`OneStays`), the last one is protected, and who leaves
hands over to the oldest active member. `OldestIsOne` says that there is an oldest one,
by the least element of a set of numbers. Accounts matter through their invariant:
a revoked ban (`ModeratedRows`) makes no deleted account active.

*Teams.* `TeamsSound` becomes inductive (`TeamsInv`) with facts the code never
states. A team that is entered in a tournament that is not over has its game and its event
(`EntryOK`, `Bound`), so that two such teams in one tournament are rivals for the same
players; of a team that was emptied this holds only while the tournament is played, for
which `Fit` admits it. And an open invitation is from no team in play (`InviteOK`): a start
closes them, an archive too, and so does the deletion of an account for the teams it leaves.
What empties a team (`TeamEmptied`) leaves its entries, none of them in play. All ways into a team go through `AdmitKeeps`, all ways
out through `FewerPlayers` or `TeamGoes`, and all saves of a team alone through
`SamePlayersKeep`. `LockedStay` is what `RostersLocked` says of one step; it is proved
along with the invariant, and only the deletion of an account needs more than the guard
of the handler: its check (`MayLeaveTeams`) covers every team of the user.

*Forms.* A page tree has no loop and bounded depth after every move: the chain of a
page is the least set with it that is closed upwards (`Chain`), without recursion. The
lemmas show that the chain of a moved page is its old part below the move and the
chain of the new parent, provided the parent is not below the page, which is what
`ValidParent` checks. For the contact form the three advisory locks exclude each
other (`LocksHeld`), a post with the lock of its token is the first one (`FirstPost`),
and limits that were looked at under a lock still hold when the mail is queued; a tick
of the clock only makes fewer mails count.

*Trees.* `TreeSound` says of every match behind another what it may hold; but what keeps
it true while a cascade of results runs is the whole tree, so the invariant `TreeInv` is
about the tree as a graph. It has these parts:
- `Hung`: the matches are those of the tree, each one `Fair` by itself (a result names
  teams of the match; an open match has none).
- `Follows`: a slot holds what its feeder sends, an active winner or loser has arrived, and
  no match is decided before its feeders. `Flows` takes a set of slots for which the arrival
  is still due; it is empty between the actions and not within them.
- `Begins`: nobody begins in two slots without a feeder. With `Follows` and a tree in which
  every slot has one feeder at most, a team's places lie on one way through the tree
  (`TwoTeams`), so one open match per team is a consequence (`OneOpen`) and need not be assumed.
- `Reset`: the second grand final exists only behind a decided first, with its teams.

`Shape` is what the lemmas ask of the tree itself: the edges climb in a `rank`, every slot has
at most one feeder, `below` is closed, and no edge leads to the second grand final.
`KnownShape` proves it of the trees `Rounds`, `WinnerTo` and `LoserTo` make for every size, from
the arithmetic of powers of two (`Lands`, `EveryWayLands`: each way ends in a slot that
exists and is nobody else's). On it, one step of `check_and_advance_match`, its runs (`Runs`, over
any number of steps), `CheckAll`, a score, a correction that blanks and rebuilds all that is
`below`, the grand final and a withdrawal each keep `Sound`; the lemmas `RegisterTree` to
`ResetTree` put an action together from them. That generation makes a sound tree
(`GeneratedSound`) needs that the seed order is a permutation (`SeedOrderIs`) and that the first
round leaves no match empty: more than half of the places are taken, and the seeds of a match
add up to the number of places and one. Where the proof needs induction over the
numbers it uses sets of numbers (`InductionBySet`), as for the Swiss rounds. TLC checked
`TreeInv` on the instance of `tournament_safety` (471 725 states), the part that follows too.

*Lives.* `Sound` lets a team vanish from the tree, so it does not say that who is out has
lost. The invariant therefore also has `Told`, for every team that did not withdraw:
- `Begun`: it stands in a match of the first round. The seed order must reach every
  place (`Ordered`) and every active team must be in the line-up (`Line`).
- `Honest`: in a decided match it is the winner or the loser, never neither. A forfeit of two
  absent teams or a bye must not swallow a third.
- `Twice`: the second grand final exists exactly when the team of the upper half lost the first
  one, and has the same two teams in the same places.

Every operation keeps it (`KeepsTells` for `check_and_advance`, `FirstTells`, `CorrectedTells`
and `SameTells` for scores, `LoseTells` and `ForfeitedTells` for withdrawals, `WithoutTells` for
a deletion). A correction blanks matches, and the team could lose its start: nothing in
the first round is below another match (`Nested`). The counting is done in a decided tree.
`KnownSides` splits the trees of every size in two: winners of upper matches stay in the upper
half (`Sides`), their losers fall to the lower half (double) or out of the tree (single). A team
that loses up there never comes back (`WonBefore`), so it loses there once (`OneUpperLoss`).
As an active team always moves on (`HasArrived`) and ranks end at `4 * k + 11` (`WayEnds`), who
never loses in a half wins its last match (`WinsUpper`, `WinsLower`); `GrandStory` is the account of the one or two grand finals. `DoubleCounts` and
`SingleCounts` add it up.

*Played.* `PlayedStaysInTrees` compares two states. What it rests on beyond `TreeInv` is
`Paired`: in a running tournament a match being played has two teams. `NothingUndone`
says what may happen to the matches of one tree, and each operation is followed through it: `check_and_advance`
touches no match that is played or decided and fills only empty slots (`StaysPaired` and the
lemmas after it); a correction blanks what is below it, and `Repairable` has refused it
if any of that was started or decided by hand (`CorrectionSpares`); a deletion
first decides the open matches of the team, so that the place it then empties is in none
(`ForfeitedTells`, `EmptiedUpheld`).

*Races.* A match is done only in a tournament that has left "running"
(`DoneIsReviewed`): without it, a confirmation could reach "finished" from a state
of which `PlacesComplete` says nothing.

*Swiss rounds.* The pairing is a search for a least weight, and everything rests on what
it finds. `PairIsSound`: a plan pairs every active team once; if it repeats a pair or a
bye, every way to pair the field does; the bye is with the last of the table who may have
it. `PairExists`: with repetitions allowed there is a plan for every field of two or more,
because sums of numbers are numbers (`SumIsNat`), lexicographic order on tuples of
numbers is well-founded (`LightestExists`) and every finite set of even size can be paired
(`MatchingExists`). These are inductions over data. The theorem on natural induction takes
a predicate, which no prover here can instantiate; `InductionBySet` takes the *set* of
numbers instead and follows from the well-founded order of the numbers. `SwissInv` then
says of every round that it was sound when it was drawn (`SoundIn`), over the prefix of
rounds before it: results, withdrawals and seeds may change only the last round
(`InPlaceKeeps`), and a new one only reads the others (`NewRoundKeeps`). For the
publication, `TokenOK` says of a held preview that it belongs to a tournament with a
decided game, so no reset can come in between; that no round was taken away since; and
that the tables of its rounds are those of the present ones. Equal digests therefore mean
equal states (`DigestDecides`), though the digest leaves the tables out.

The proofs changed the model in five places: where the worker goes after a
maintenance (`AfterLeave` in `BackupRestore`) was a `CASE` with arms that overlap,
of which TLC takes the first and TLA+ any; and the depth of a page tree (`Chain` in
`Knowledge`) was a recursion that ends only without loops, which is what was to be
shown; the rows of clans and teams were sequences filtered by `SelectSeq`, about
which nothing can be proved without induction over their length. As functions they
have the same states. And `Swiss` numbered the matches of a round, counted lost pairs in
sequences and paired recursively; as functions from sets of teams, with sums and lightest
elements instead of folds, it is shorter, and TLC finds as many states as before. In
`MatchTree` and `Bracket`, folds over filtered sequences became functions of the position in
the order of the tree, again with the same states.

*Only model-checked.* Liveness under fairness (`EventuallySettled`,
`MaintenanceEnds`, `JobsSettle`, `OrdersSettle`, `DeadlineEnforced`) is out of the
prover's reach. `TreeFlows` is no theorem: from nine teams on it is false (finding 3), and
that it holds of the smaller trees is a fact about their shape that only TLC can enumerate.
`StageSound`, `PreviewKept` and the half of `ResultsStand` that is about playoffs rest on the
sorted tables of `GroupStage`, and `DrawsAsApproved` on filtered and sorted sequences.

## Findings
1. **Two active holds on a quota of one** (`seat_quota`). Activating another
   event deactivates this one by `queryset.update`, without the signal that ends
   its holds. A held seat that is blocked meanwhile still counts for the clan when
   the event is active again, on top of the new selection. The form and
   `open_registration` refuse to activate a second event; a direct save, or a form
   that was validated before the other save (part `events` of `venue_safety`), does
   not.
2. **An open event nobody sees** (`event_cache`). `Event.save` empties the cache of
   the active event before the commit; a page that asks in between caches that no
   event is active, for up to 300 seconds: the site shows none, and the entrance
   refuses everybody.
3. **A blocked loser bracket with nine teams** (`bracket_blocked`). One call of
   `check_and_advance_match` visits each match once; a match visited while its
   second feeder is open is not looked at again when the same call closes it.

4. **A restore that is open on an open site** (`backup_open`). `recover_interrupted`
   takes a restore in phase `prepared` into maintenance and rolls it back; if that raises,
   the `finally` of `maintenance` removes the marker (`services.py:131`), because the job
   is still running, and only `services.py:397` writes it again. In between, requests
   meet a media directory that may be half replaced, and what they edit in the database
   stays when the next recovery rolls back.

`PROJECT.json` quotes the lines.

## Observations
Met while reading and modelling, without a run.

*Backups.* The comment at `services.py:55` promises one step where two
saves can be separated by the death of the web process.

*Mails.* A mail taken while sending is switched off and on again counts an
attempt; an administrator may retry a mail whose content was erased on expiry.

*Seats.* `seating/services.py:99` reads a seat without a lock, so the form can
overwrite a block (`seating/views.py:541`). `max_guests = 0` means unlimited for
registrations and zero for orders of clans. `admin_toggle_block_seat` does not
raise the plan's revision. An outsider assigned to a blocked seat with a dormant
hold claims it.

*Events and door.* `update_payment_check_api` with an object read before another
activation deactivates the event activated meanwhile (`events/views.py:888`,
`events/models.py:262`); a form validated before `finish_event` commits overwrites
`FINISHED`; both are saves that crossed in `EventsInOrder`. The button of a stale
list labelled "Einchecken" checks a guest out, because the API flips the present
state. A scan completed while the photo dialog is open makes the photo of one guest
go to the next (`uploadGuestPhoto` reads the pending registration only when the
file arrives). `toggle_check_in_api` answers a check-out that somebody else was
faster with `is_checked_in: true`; the list corrects it. A refused check-in rolls
the photo's row back but leaves its file to the purge. Emptying the cache on commit
would leave a page that has read and not written yet.

*Trees.* A team of the winner bracket that withdraws in the ready grand final makes
the second one ready with itself in it (`matches.py:459`,
`docs/tournament-result-management.md:64`). Resetting a bracket removes matches
that have been started; a walkover given by hand becomes an automatic one when its
loser withdraws later. Deleting a team of a group leaves a gap that no longer
counts in the table: playoffs are then exempt from `PlayoffsFollowGroups`.

*Swiss, draws, races.* A reset draw saves no `updated_at`, so a draft made before
its publication may be valid again, and posting the published one again reports
success though nothing is generated. Publishing a Swiss draw stores the drawn order
as seeds. A team that withdraws after a race's result was entered keeps its place
(`forfeits.py:46`), against `docs/tournament-result-management.md:70`; when all
withdraw the match can only be reset.

*People.* The password form saves the whole user it read and can write an old
address back (exempt as `putBack` in `AccountsClosed`). The same form keeps its
session (`users/views.py:411`), with a hash over `session_version`
(`users/models.py:143`) as it is when the form is saved: a request from a session older
than a ban, under way while the ban came and was revoked, carries this session over the
revocation, against `docs/user-bans.md:34` (exempt as `saved` in `AccountsClosed`, and in the
theorems `BansHold` and `PeopleStayClosedOut`, which state the same property). A clan founded by a request
older than the deletion of its founder has nobody (exempt as `late`). A ban is a
`queryset.update` without the signal that closes invitations
(`users/moderation.py:123`, `docs/team-recruitment.md:51`): they stay open and come
back to life with the revocation, and acceptance is refused meanwhile. When the last
player leaves a team that was in a Swiss tournament, `Team.delete` only archives it
(`tournaments/models.py:666`, 698), with its captain, who is no player any more, and with
its entries in other tournaments. It can be reactivated without a player
(`tournaments/views.py:1041`), and an entry it still has in an open tournament keeps that
tournament from starting until the entry is taken back, because `validate_start_roster`
refuses it (exempt as `emptied` in `TeamsSound` and `TeamsStaySound`). A game may be
saved with a team size of 0 (`tournaments/models.py:68` sets no minimum); a team founded
for it has more players than the game takes. `TeamsAssumption` leaves such games out.

## Abstractions, and what is not modelled
*General.* Permissions, wording, log entries; checks for stale forms where an
action on the current state stands for an accepted form, except where a module is
about them (`Swiss`, `Draws`, `FreeForAll`, `Knowledge`, `Contact`).

*Outbox.* Templates, SMTP settings, test mails, the health page.

*Backups.* Format and encryption of archives, uploads, retention, a missing key.

*Seats, events, door.* One priced ticket type; limits and prices are constants; the
editor saves one seat at a time and deletes none; `FINISHED` and `CANCELLED` are
one status in `SeatBooking`; what the readiness report says of an event's own
details is in order in `EventDesk`; codes, QR images, the rate limit of the scanner.

*Trees, groups.* `DRAFT`, `REGISTRATION_OPEN` and `REGISTRATION_CLOSED` are one
status; edits of the raw status or of `is_forfeited` in the administration;
`force=True` of the reset; groups of free-for-all matches.

*Teams.* Invitation codes and their limits; "open" covers open and closed entries;
an archived solo team is any of several equal ones; a team of an event deactivated
without being finished.

*People.* Limits per client address in the user views, membership rights, names and
birthdays, raw edits and hard deletions in the administration, attachments and
sanitising in the knowledge base. `_erase_account_sessions` is done or lost.

*Not modelled at all:* `configuration` (singletons of one form, read through
caches with a short life), `news`, `info`, `sponsors` (a save per form),
`media_designer` (rendering), deployment. They have no protocol a model could
check. The remaining lines of `tournaments/views.py`, the administration classes
and `configuration/translations.py` are permissions, pages and texts.

## Plan
Done: the outbox, backups, seats, events and door, trees, groups, Swiss rounds,
draws, races, accounts, clans, teams, photos, knowledge, contact; the proofs listed
above. Open, in order of importance:

1. A proof of the other half of `ResultsStand`, about playoffs, and one about groups.
2. The composition of `EmailOutbox` and `BackupRestore` on the mail pause, where
   `guarded_email` reads the pause before it takes the access lock.
3. The lock order of all services as one module: no cycle of waiting.
4. The client of the seat plan (`static/js/seating.js`) beside `reserve_seat_api`.
