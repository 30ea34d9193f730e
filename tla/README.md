# Verification of the network-map backend

TLA+ models of the Express/Prisma backend in `src/` (coverage map, fibre network,
field sales, society permissions, partner network), the TLC configurations that
check them on small instances, and TLAPS proofs of what holds for every instance.

## The system

The program is one Node process over one PostgreSQL database. Every endpoint is
an async handler: route → service → repository, each repository call an `await`
on a statement of its own. Three facts about that shape every model here:

* **Handlers interleave at every await.** Node runs one handler at a time, but
  between two repository calls of one request any other request may run.
  Whatever a handler read is a local that may be stale when it is used.
* **Transactions are the exception.** Most services read, decide and write in
  separate statements. Where a repository opens `prisma.$transaction`, it runs
  at READ COMMITTED: a statement sees what is committed when it starts, and only
  row locks (`FOR UPDATE`, or an UPDATE) and unique indexes serialise.
* **A request may stop anywhere.** A database error or a restart between two
  calls leaves what was written; there is no retry and no outbox.

Liveness arises in two places: transactions that wait for each other's row locks
must all end, and the refresher of connection readings must come to every
customer. Elsewhere nothing in the request path waits for anything but the
database, and an unfinished request is simply an error.

### Components

| component | state | operations | interacts with | what is hard | what makes it correct |
|---|---|---|---|---|---|
| **leads** `src/src/modules/leads` | `Lead`, `LeadStatusEvent`, `LeadCall` | `capture`, `changeStatus`, `logCall`, lists | earnings (conversion, revocation), buildings (match), push | status and claim are read long before they are written | first referral keeps the claim; history ends at the status; due list follows the last call; a call does not undo a conversion |
| **earnings, payouts** `earnings` | `PartnerEarning`, `PartnerPayment` | `recordConversion`, `revokeConversion`, `markPaid`, `statementFor` | leads, rate card, partners | payment and revocation overlap; `amountOwed` read before the transaction | one earning per lead, frozen; paid means backed by a payment; payment = what it settled |
| **rate card** `rate-card` | `RateCard` (append-only) | `findRate`, `current` | earnings | reprice between clock and insert | amount is the one in force at conversion |
| **field sales** `sales` | `BuildingAssignment`, `BuildingVisit`, `VisitActivity`, `Inquiry`, meetings | `assignBuildings`, `checkIn`, `checkOut`, `addActivity`, images, inquiries | users (team), visit tasks (hand-over) | one path locks, another does not; check-then-create | at most one ACTIVE holder of a building; one open visit per user |
| **visit plans and tasks** `visit-tasks` | `VisitTask`, series, uploads | plan, import, update series, hand over, done | sales | series edited while days are done; upload checked against a changed file | done days are never rewritten; a task follows the holder |
| **society permissions** `permission-buildings` | `Building` (source PERMISSION), `Permission`, `SocietySurvey`, `PermissionVisit` | add, visit, edit, approve/reject, survey save/submit, materials approve/reject, mark live | buildings (edit, status), zones | checks before the lock repeated under it, or not | approval follows the status; approved stays Accepted; history tells every change; survey order |
| **buildings and wings** `buildings` | `Building`, `BuildingDetails`, `BuildingWing`, `Photo` | create, edit, wings, bulk live, bulk OLT, import, delete | societies, fibres, OLT | totals derived from a stale read of the wings | totals and Live of a complete building are those of its wings |
| **OLT readings** `lib/olt-*.js` | bucket, cache, in-flight map, pause, snapshots | `lookup`, `acquire`, sync tick, reachability list | customers, an external API | rate limit, 429 pause, waiting callers, stale answers | never more requests in a window than the key allows; a waiting caller is answered |
| **customers** `customers` | `Customer`, connection snapshot | create, edit, import, snapshots | OLT readings, buildings | a slow reading saved over a changed username | a snapshot belongs to the username it is stored with |
| **fibre network** `fibers`, `closures`, `pops`, `fiber-routes` | fibres, points, closures, splitters and outputs, POPs, OLTs | geometry, ends, outputs, ratios, deletes | buildings | check before the transaction, unconditional overwrite of an output | an output feeds one thing; no output beyond the ratio; nothing deleted that is in use |
| **users and visibility** `users`, `lib/visibility.js` | `User`, zones, managers | create, edit, deactivate, assign | everything | hierarchy edits | no cycle of managers; scope fails closed |
| **partner onboarding** `partner-auth`, `partner-invites`, `partner-referrals`, `partners` | OTP challenges, invites, referrals, `Partner`, bank accounts | OTP request/verify, invite use, submit, approve, reject, bypass | rate limit, SMS/e-mail | attempts and uses counted by read and write | an invite is used once; a code dies after its attempts; approval order |
| **reference data** `operators`, `zones`, `cities`, `building-types` | rows with unique names | CRUD | buildings | polygon geometry | referential guards |
| **authentication, middleware** | JWT, in-memory throttles | `auth`, `rate-limit`, error mapping | every route | — | a throttle is per key |
| **stats, dashboards, logs, releases, uploads** | append-only logs, files | reads, file I/O | everything | — | — |

`PROJECT.json` lists the same components with their files and status, and the
hazards, each at the line where it bites.

## Modules

| component | modules | run |
|---|---|---|
| leads, earnings, payouts, rate card | `PartnerMoney`, `PartnerStatement`; abstract: `CommissionLedger`; proofs: `PartnerMoneyProofs` | `PartnerMoneyOverlap`, `…InTurn`, `…Failures`, `…PaidDeleted` |
| field sales: assignment; overlap of plan requests | `BuildingHandover`; abstract: `HolderRegister`; proofs: `BuildingHandoverProofs` | `BuildingHandoverLeaders`, `…Ends`, `…InTurn`, `…TwoHolders` |
| visit plans, pairing, field work, what sales is shown | `VisitPlan`, `PlanSheet`, `VisitMatching`, `VisitDay`, `FieldVisits`, `SalesDesk`; proofs: `VisitPlanProofs`, `VisitsProofs` | `Visits` (`MCVisits`) |
| OLT readings and reachability | `OltReadings`, `MCOlt`; proofs: `OltReadingsProofs` | `Olt` |
| societies, buildings, wings | `SocietyPermission`, `BuildingWings`, `BuildingAccess`; abstract: `SocietyWorkflow`; proofs: `RegisterProofs`, `RegistryProofs` | `Registry` (`MCRegistry`) |
| customers | `CustomerRegister`, `CustomerList`; proofs: `RegisterProofs`, `RegistryProofs` | `Registry` |
| fibre network | `FiberNetwork`, `NetworkAccess`; proofs: `FiberNetworkProofs`, `RegisterProofs` | `Registry`, `Downstream` |
| partner onboarding | `PartnerOnboarding`, `OneTimeCode`; proofs: `RegisterProofs` | `Registry` |
| users | `Team`; proofs: `RegisterProofs` | `Registry` |
| the registers together | `MCRegistry`; proofs: `RegistryProofs` | `Registry` |

The models of `Registry` and of `Visits` do not interact in the code but by rows
that one of them treats as given, so each of these two runs checks several small
models side by side: `part`, chosen in the initial state, says which model a
behaviour is one of, and the variables of the others keep their values. A
property of such a run is a conjunction over the parts it is about.

The order of the work was: money, hand-overs, the plan and the visits, societies
and buildings, OLT readings, the registers (customers, network, partners, staff),
and last what is shown of all these (lists, statements, desks). What is left is
under *Not modelled*; what is checked but not proved is under *Only model-checked*.

## PartnerMoney

`PartnerMoney.tla` models `leads` and `earnings`. `leads`, `earning`, `payments`
are the tables (`earning` is a function of the lead, because `leadId` is unique);
`event` and `call` keep the newest row of the two history tables per lead; `now`
is the month on the server's clock; `req` holds the requests in flight.

A request is a record: `at` names the repository call it makes next, the rest
are the handler's locals. One action is one repository call and the code up to
the next, so the interleaving is exactly the program's:

| code | actions |
|---|---|
| `capture` (`lead-capture.service.js`) | `Capture` (find the claim) → `CreateLead` → `RecordEvent` |
| `changeStatus` (`lead.service.js`) | `ChangeStatus` (read the lead) → `FindForLead` → … → `UpdateLead` → `RecordEvent` |
| `recordConversion` (`earning.service.js`) | `FindExisting` (and the rate) → `CreateEarning` (unique index: a 409 on a second row) |
| `revokeConversion` | `FindToRevoke` → `DeleteEarning` |
| `logCall` (`lead-call.service.js`) | `LogCall` → `CreateCall` → `UpdateCalled` → `RecordEvent` |
| `markPaid`, `recordPayment` | `MarkPaid` (what is owed) → `RecordPayment` (one transaction) |
| database error, restart | `Fail` |
| the clock | `NextMonth` |

Data is reduced to what properties tell apart: a customer is a mobile number, a
plan a value, a date its month, an amount owed the *set* of earnings it sums.
Roles are left out (an administrator may make every one of these requests), and
so are notes, payment methods and pushes. The rate card is a constant: rows are
only ever added, and a row is given with the month from which it is in force.

Operators marked *Fault* are slips the code might have had; each takes the place
of the definition below it to test that a property notices.

### PartnerStatement

`PartnerStatement.tla` adds what is read from these tables: a partner's statement
(`StatementFor`), what is owed and what was paid, by partner and month
(`OwedByPartnerMonth`, `PaidByPartnerMonth`). They are written apart in the code;
`StatementsAgree` says they tell one story.

### CommissionLedger

What the earnings services promise, with no requests: earn once, withdraw while
owed, settle at one stroke exactly what the payment was made out for. Nothing
else ever happens to an earning. `ImplementsLedger` maps `account` to `earning`.

### Runs

| run | instance | shows |
|---|---|---|
| `PartnerMoneyOverlap` | two requests at a time, one partner, two leads, two months with a reprice between them, two payments | `PaidIsBacked`, `AmountIsRateInForce`, `EarningIsFrozen` hold whatever overlaps |
| `PartnerMoneyInTurn` | one request at a time, a flat-paid and a rate-card partner, two customers, all statuses and outcomes | `TypeOK`, `ClaimChain`, `FirstClaim` and `LeadAtRestAgrees` (`ConvertedIffEarned`, `DueListIsRight`, `HistoryEndsAtStatus` of a lead no request works on): what the services promise when requests do not overlap |
| `PartnerMoneyFailures` | one request at a time, each of which may die at any await | `ImplementsLedger`, `PaidLeadStays` and `BooksAgree` (a payment is what it settled, and the statement and lists agree with it): the books survive crashes |
| `PartnerMoneyPaidDeleted` | two requests at a time, the smallest tables that show it | what a comment in the code promises and overlapping requests break; a finding |

Why the bounds are enough: two requests are the smallest number that overlap,
and every violation below needs two; two leads give a claim and its duplicate or
two earnings in one month; two months separate partner-months and put a reprice
between clock and insert; two payments allow a re-stamp. All statuses and
outcomes are enumerated in the run with one request, where the state space
allows it; the overlapping runs move leads into and out of CONVERTED, which is
where the money is, and log the calls the finding needs. No run assumes
fairness: every property is a safety property, and none of these handlers waits.

### What the model shows about the code

Under one request at a time everything promised holds, crashes included (except
that a crash may of course leave a lead CONVERTED without its event, or an
earning ahead of its status, which is why
`LeadAtRestAgrees` is in the run without failures). With two at a time, promises
fail that rest on a check and a write in separate awaits, with no transaction,
lock, conditional update or index behind them. One has a run and is listed
under `findings`: a paid earning is deleted. Likewise a month may be paid twice and
a customer claimed twice. Three more show when the instance of their run is given a second
worker: `ConvertedIffEarned` (of two status changes the one that found the earning
writes last), a call's update undoes a conversion made since its read, and `PaymentCoversItsEarnings` (an earning that converts
between `markPaid`'s read and its transaction). What *survives* overlap is
what has an index or a condition in the write itself: one earning per lead, no
re-stamped payment, frozen amounts, backed payments.

### Proofs

`PartnerMoneyProofs.tla` proves, for any sets of requests, partners, customers
and plans and any rate card that satisfies the assumptions of `PartnerMoney`:

* `TypeCorrect`: `Spec => [](TypeOK /\ LocalsOK)`. `TypeOK` alone is not
  inductive: `CreateEarning` writes what the handler has carried over three
  awaits, so its locals must be good *and still true of the tables*.
  `LocalsOK` says for each step what the handler relies on: that the lead it
  read exists, that a claim it found is on the same customer, that the amount it
  computed is what the rate card has in force for that plan and month. It is
  stable because leads are only appended, never deleted and never change hands
  (`LocalOKStable`). One lemma per action follows.
* `PaidAlwaysBacked`: inductive on top of those, since `Settled` filters on the
  partner and month that `RecordPayment` writes into the payment.
* `AmountAlwaysInForce`: from `LocalsOK` at the insert and the fact that an
  earning's partner, plan, month and amount never change.
* `EarningsAreFrozen`: the action property, from the same invariants.
* `ClaimChainHolds`: a duplicate points at an earlier lead of the same customer;
  the claim found is a lead in the table, and a new lead has a larger index.

Assumed: only the named assumptions of `PartnerMoney` (bounds are naturals, the
rate card is a set of rows unique on plan and month, null is no value).
`FindOpen` picks the oldest claim; that it exists is the least-number principle
(`LeastNatural`), proved from well-founded induction on the naturals.

The second part of `PartnerMoneyProofs.tla` proves what holds only of requests that
come in turn. Its hypothesis is `OneAtATime` (`Worker` has one element at most), which is
not a claim about the server but the condition under which the services keep these
promises: every one of them fails with two workers. A request may still die at any
await, unless said otherwise. Any number of leads, partners, customers and payments.

* `RequestsKeepTheLedger`: `Spec => ImplementsLedger`. Every call of every handler
  is a step of `CommissionLedger` or changes no money.
* `PaymentsCoverTheirEarnings`, `PaidIsKept` (which overlapping requests break: the
  finding), `PaidLeadsStay`, `FirstClaimHolds`.
* `LeadsAtRestAgree` also needs `~MayFail`: a request that dies between two writes
  does leave a lead whose history or due list is behind.

The invariant is that what a handler has read is still so (`AllFresh`): for each
place it can be at, what it knows of the lead, the earning, the claims and what is
owed, which is exactly what its next write goes by. Alone, nobody else can have
changed it; that is the one fact `OneAtATime` gives. For `LeadsAtRestAgree` it is
extended by what a half-done handler still owes its lead (`OweOK`: the event not
yet recorded, the earning whose lead is not yet converted), so that all other leads
always agree (`RestAgree`).

`BooksStayRight` adds, for finitely many partners, the statements (`BooksAgree`): a
payment is the sum of what it settled, a statement's months add up to it, what it
calls paid is what payments were made for, and what is owed in all is what the
statements leave open. The three figures come from three queries that group the
same earnings differently, so the proof is about sums. `SumUnfolds` takes a sum
apart at whichever element its definition chooses; by induction over the size of
the set (a least counterexample, since the library's induction takes an operator)
the sum does not depend on that choice (`SumOfTwo`), and from it comes the one lemma
the queries need: a sum over a set is the sum of the sums over its parts, whatever
they are grouped by (`SumOfParts`). `StatementFor`, `OwedByPartnerMonth` and
`PaidByPartnerMonth` are then three groupings of one finite set of earnings.

Only model-checked: what the findings say.

## BuildingHandover

`BuildingHandover.tla` models the part of `sales` and `visit-tasks` where two
people's work meets: the `BuildingAssignment` rows that say who holds a building,
and the `VisitTask` rows planned there, which a hand-over must clean up. Here
most writes are in transactions with row locks, so the grain is finer than in
PartnerMoney: one action is one SQL statement, or one row of a statement that
may have to wait for a lock.

`row` and `task` are the tables. A new row gets its id at the insert and is not
visible to others before the commit; all other uncommitted writes, and the locks
a transaction holds, stay in the request's record (`closed`, `opened`, `gone`,
`born`, `moved`; `locked`, `shared`, `held`), so that `RollBack` is to drop them.
`ActiveTo` and `SeenBy` are what a statement of one transaction sees under READ
COMMITTED. `Waits` lists, for every waiting statement, whose locks it needs;
`Deadlocked` and `BreakDeadlock` are PostgreSQL's deadlock detector. These are the
external definitions of the map.

| code | actions |
|---|---|
| `assignBuildings` (`sales.service.js`) | `StartAssign`, then `reassign` |
| `createTask` (`visit-task.service.js`) | `StartPlan` → `CheckTarget` → `reassign` if the building is not the person's → `CreateTask`, in a statement of its own |
| `updateTask` | `StartMove` → `CheckTarget` → without a hand-over `Overwrite`/`WriteTask`; with one `LockTask` → `WriteTask` → `reassign` in one transaction |
| `deleteTask` | `StartDelete` → `LockTask` → `DropTask` |
| `import` | `StartImport` → `FindReplaceable` → `reassign` → `Drop` ("replace") → `Plant` in one transaction |
| `reassign` (`sales.repository.js`) | `LockBuilding`, `Recheck` (only with `allowedHolderIds`, that is for a team leader) → `FindPrev`, `FindStranded`, `Drop` ("release", `lib/handover-tasks.js`) → `FindActive`, `Close` → `Open` → `Commit` |
| rollback of any kind | `Fail`, `BreakDeadlock` |

What is abstracted: an executive has at most one task per building that matters
here, all of them today or later and not visited; team leaders hold no building;
series have one task. A request refused by its first checks does not start.
`updatedAt`, which the optimistic check of `lockUnchanged` compares, is a version.

`HolderRegister.tla` is what assigning promises: a register that holds, for each
building, nobody or one executive, and changes from one executive to another in
one step for several buildings at once. `ImplementsRegister` maps it to the
ACTIVE rows others can see.

### Runs

| run | instance | shows |
|---|---|---|
| `BuildingHandoverLeaders` | two team leaders who share buildings, assigning and importing, two requests at a time, rolled back at any statement | `OneHolder`, `HeldStaysHeld`, `ImplementsRegister`: the locking path is an atomic register |
| `BuildingHandoverEnds` | a manager and a leader, all five requests, two at a time | `TypeOK`, `LeaderTakesOnlyOwn`, `EditLands` (an edit writes to the task its checks saw) whatever overlaps, and `EveryRequestEnds` although requests do deadlock |
| `BuildingHandoverInTurn` | one request at a time, all kinds | `PlanStaysSound` (`NoStrandedTask` and `NoTwinTask`), `DropsOnlyStranded` |
| `…TwoHolders` | two requests at a time, a manager's | `OneHolder` broken by requests that overlap; a finding |

Two buildings are the fewest that can be locked in two orders, two requests the
fewest that overlap; a third request in the runs that allow it comes after an
earlier one has committed. Requests are finite (`MaxRequest`), so the system
stops and deadlock is not checked; that no request is stuck is
`EveryRequestEnds`. Its fairness is weak fairness of every request's next
statement (Node and PostgreSQL go on with what does not wait: a released row lock
wakes its waiter, and a statement once able to run stays able until it runs or
its transaction is ended) and of the deadlock detector, which runs after
`deadlock_timeout`. New requests and failures are not fair.

### What the model shows about the code

Team leaders' hand-overs are serialised by the Building locks, and hold up
against a manager's, who takes none: a leader never takes a building from
outside the team. But the path without the lock breaks the promise it is
documented with: two managers (or a manager and anybody) who assign one building
at once both leave an ACTIVE row. And a hand-over that commits between
`createTask`'s two steps strands the new task. The first is a finding with a run. Two more promises
of the visit plan hold in turn only: with a second worker in the instance of
`BuildingHandoverInTurn`, the clean-up deletes by ids read before, whoever the task
belongs to by then (`DropsOnlyStranded`), and the same task is inserted twice
(`NoTwinTask`).

### Proofs

`BuildingHandoverProofs.tla` proves, for any sets of requests, buildings, people
and teams:

* `TypeCorrect`: `Spec => []TypeOK`.
* `LeadersTakeOnlyTheirOwn`: whoever else assigns, managers included, a team
  leader's commit takes a building only from the leader's own team.
* `HeldBuildingsStayHeld`: no commit leaves a held building without a holder.
* `LeadersKeepOneHolder` and `LeadersImplementRegister`: if no manager assigns,
  at most one ACTIVE row of a building is ever committed, and hand-overs
  implement the atomic register. These two assume `Manager = {}` because the code
  takes the Building lock only for a team leader; with a manager in it the
  instance of `BuildingHandoverTwoHolders` refutes the first.

All five rest on one inductive invariant, `IInv`. `TypeOK` says nothing of what a
request may do with the ids it carries, so `IInv` adds, for each request by the
step it is at, `LocalOK`: what it has written uncommitted is what its statements
write (`WritesOK`), the rows it will close and has opened are still the rows it
thinks they are (`RowsOK`), and a leader who has passed the recheck holds the
Building locks and has found nobody outside the team (`LeaderOK`). Between
requests it adds `Apart`: neither closes or opens a row the other has inserted, and
a building one has locked is neither locked nor inserted into by the other. Other
requests see a request only through what it commits, so the argument is split at
that point: a step is `Steady`, when it changes no row that others can see, or it
is a `Commit`. One lemma per action shows that it keeps `LocalOK` of its own
request and is `Steady`, which carries `LocalOK` of the others. `CommitOK` shows
that a commit takes nothing from under another request: what a leader has found
out about a building stays true because inserting an assignment takes a share of
the Building row (its foreign key), which waits for the leader's lock. That is why
a manager, who takes no lock first, cannot break `LeaderTakesOnlyOwn`, and can
break `OneHolder`, with another manager.

The second part of `BuildingHandoverProofs.tla` proves what becomes of the tasks, on
top of `IInv`:

* `PlanStaysSoundInTurn` and `OnlyStrandedAreDropped`, for requests in turn
  (`OneAtATime`, without which both are false) that start from a sound plan
  (`FirstPlan`: the seeded tasks are at buildings of their own person, none twice).
  Transactions may be rolled back at any statement. The invariant, `TInv`, says that
  the tables *as others see them* are sound at every moment (`PlanIsSound`: one
  holder for a building, no task of anybody else there, no task twice), and of the
  request what its statements have established so far: `SiteFits`, buildings it
  does not hand over are already the person's and a form's task is not there yet;
  `SheetFits`, an import has all the person's tasks in `old` and plants one per
  building; `DropsFit`, the clean-up finds every task of a previous holder there
  and no other; `ShutsFit`, it closes every open assignment of those buildings.
  Then a commit (`CommitTurn`) turns one sound plan into the next: after it the
  buildings handed over are the person's, and of the tasks there only the person's
  are left. A rollback takes back what others have never seen.
* `EditsLand`, whatever overlaps. The invariant `EInv` says that from its lock on,
  the task a request edits or deletes is as it was read and is none that its own
  hand-over drops, that a request holds the lock of every task it will write, and
  that no two requests hold the same. The reason the clean-up spares the edited
  task is that the edit comes first: by then the task is the new person's, and the
  previous holders are others. `~MayFail`, as in the run, because
  `EditLands` speaks of every way past "commit", and a rollback writes nothing.

Assumed: the named assumptions of `BuildingHandover` (first holders and teams are
executives, roles are disjoint, a building starts with one holder, null is no
value). Only model-checked: `EveryRequestEnds` (liveness).

## Visits

`Visits` is five models of field sales side by side (`MCVisits`); a behaviour is
one of the part it starts with.

`VisitMatching.tla` is `matchDay` and `taskStatus` of `lib/visit-task-status.js`, as
operators over sets of tasks and visits (`Pass` folds over the tasks in the order of
their starts). Status is never stored: whether a task is visited, locked for
edits or overdue is computed at each read. So what matters is how the pairing of
*today's* visits relates to the pairing of the next read. `VisitDay.tla` (part
`day`) makes that a behaviour: a day's tasks are given, check-ins come in, time
goes by. `VisitPlan.tla` (part `plan`) uses the same pairing over several days
while the plan itself changes; `PlanSheet.tla` (part `sheet`) is what one row of
an uploaded sheet asks for, on the day it is read; `FieldVisits.tla` (parts `field`
and `fieldInTurn`) is what the executive does on the spot; `SalesDesk.tla` (part
`desk`) is what the people of sales are shown of all this.

| code | definitions |
|---|---|
| `parseRow`, `lib/visit-plan.js` | `PlanSheet`: `Kind`, `ParseWeekly`, `ParseMonthly`, `ExpandDates`, `RepeatWeeks` |
| `createTask`, `updateTask`, `deleteTask` with scope | `CreateTask`, `UpdateTask`, `DeleteTask`; `LaterInSeries` and `Targets` choose the rows, `CheckTargetDays` refuses, `HandOver` cleans up |
| `preview`, `import`, `removeUpload` | `Preview`, `Import` (`ImportChecks`, `ImportPlan`: `Replaceable`, `Creates`, `Assigns`), `RemoveUpload` |
| `listTasks`, `listUploads`, `uploadTaskList` | `ListTasks`, `SeriesLaterCount`, `ListUploads`, `UploadTaskList` |
| `checkIn`, `checkOut`, activities, photos, inquiries, meetings (`sales.service.js`) | `BeginX`, the reads and checks → `X`, the write; photos read twice, `ReadActivity` → `SetActivityImages` |
| lists, map, picker, history, dashboard | `SalesDesk`: `Pool`, `ListMyBuildings`, `MapBuildings`, `TeamMembers`, `ReadsHistory`, `Dashboard`, `Meetings` |

In `VisitPlan` requests come in turn and are single actions (`BuildingHandover`
has the overlap); in `FieldVisits` they are split at the await between the read
that judges and the write, and part `field` runs two at once.

What the run shows:

* `DayIsPairedBest`: the pairing is a full matching at each building, and a visit
  is counted outside a window only for want of one in it; `DayGoesForward`: a
  further check-in never takes the visit from a task that had one, and a task's
  status only goes forward.
* `SheetRowIsRead`: a row plans exactly the days it asks for, whichever of the two
  templates it uses, on whatever day it is read.
* `PlanIsSound`: nobody has two tasks alike (`PlanHasNoTwins`); a preview without
  an error comes true (`PreviewIsTrue`); the lists count what is there, and the
  "later in the series" they offer is what an edit with that scope changes
  (`ListsTellThePlan`).
* `WorkedTasksAreKept`: a task with a visit survives every edit, import, hand-over
  and removal of an upload, and only a sheet's new task may take its visit; nothing
  is planned for, or moved to, a day that has passed.
* `FieldRowsFit`: whatever overlaps, activities, inquiries and meetings fit the
  visits and people they name; in turn nobody has two open visits and what was
  checked out is fixed; the map and lists show what their reader may check in at,
  a manager sees what the team holds, dashboards add up, pages repeat and skip
  nothing.
* `VisitsTypeOK`: the types of the parts.

Bounds: a day of three minutes with every choice of up to three tasks at two
buildings, all windows (before, in and after each other, overlapping, all-day)
and up to three check-ins — three of each are the fewest where a task can win a
visit, lose it to a second task and find a third taken. The plan has two days,
three tasks, two executives of whom the leader has one, three sheets (a series,
two people, a hand-over within the sheet) and two uploads, so that an upload is
replaced by another and a series crosses midnight. A sheet's week has two days
and its horizon four, which keeps every boundary of the real 7 and 92 on its own
side of the others. Field work has two people on one visit (solo and along) and
photos with room for one, so that two uploads meet the limit. The desk has one
manager, two leaders, one executive and an administrator. Leaders and the two
requests that overlap are interchangeable (symmetry).

### Proofs

`VisitPlanProofs.tla` proves of `VisitPlan`, for any people, teams, buildings, sheets,
patches and bounds, `WorkIsKept` (`WorkStaysKept`) and that nobody has the same task
twice (`PlanStaysFit`, with the types of the plan), that previews come true and lists
tell the plan (`PlanStaysTold`); of `PlanSheet`, for weeks of any length, any horizon
and any row, `RowMeansItsDays` (`RowStaysRead`); of `FieldVisits`, for any people,
buildings and number of requests under way, `FieldRecordsFit` (`FieldStaysFit`) and,
with one request at a time, `OneOpenVisit` and `KeptWhenClosed` (`ClosedVisitsStay`);
and of `SalesDesk`, for any people, zones and buildings, `DeskShowsWhatIsThere`
(`DeskStaysTrue`). `VisitsProofs.tla` proves as theorems of the run's `MCSpec` every
property the run checks: `WorkedTasksAreKept` and `PlanIsSound`
(`WorkedTasksStayKept`, `PlanAlwaysSound`: its plan is one of those), `SheetRowIsRead`
(`SheetRowStaysRead`: so are its rows), `FieldRowsFit` (`FieldRowsStayFit`),
`VisitsTypeOK` (`VisitsStayTyped`), `DayIsPairedBest` and `DayGoesForward`
(`DayStaysPairedBest`, `DayKeepsGoingForward`: for any set of buildings, any number of
tasks and visits, and days of any length).

Assumed are that bounds are numbers (`VisitDayAssumption`), that a blank cell, one that
is no date and a missing column are told apart and are no numbers, and that null is no
person, time or kind of request (`CellAssumption`); of a plan (`PlanSetup`) that leaders
have executives and that what is asked for is of the kinds of a task's fields; of the
field work (`FieldSetup`) that null is none of its values; and of the desk (`DeskSetup`)
that people are finitely many and report to sales managers or nobody.

* A pass is a fold of the library over a set, which names a function by `CHOOSE`.
  That there is such a function is shown by the sizes of the sets (`PassExists`), and
  then that the last task takes its visit when all others have (`PassOfLast`). From
  this each fact about a pass follows for every finite set of tasks, since otherwise
  there would be a smallest set where it fails (`SmallestSet`).
* `PassPairs`, `PassMatches`, `PassLeaves`: pairs are right, nobody is paired twice,
  and a task left without a visit leaves none that it could have had. With
  `MatchesAre` for both passes, that as many tasks count as there are visits for is
  counting pairs at a building (`BuildingIsComplete`).
* That a further visit takes nothing away compares two runs of `matchDay`, one
  with fewer visits than the other (`Outdoes`): whatever is still unused in the first
  is unused in the second, and whoever has a visit in the first has one in the second.
  Each turn keeps that (`TakeOutdoes`), also one that a task takes in only one of the
  two because the other run's first pass has served it already (`TakeBehind`).
* The same is shown of tasks: one that has no visit can be left out and the pairs are
  as before. So a deletion and a hand-over take nothing from a worked task, since
  what they drop has no visit, or none of the day (`StrandedTasks` spares who was
  visited today, and earlier days are no one's to change); and a creation or an edit
  has been refused if it would (`CheckTargetDays`). An import is not checked like
  that: its new tasks may take a visit, which is why the property excepts it, but the
  tasks they take it from stay (`Replaceable` leaves out what was visited today).
* The invariant of the plan is its types, that check-ins are not ahead of the day and
  numbered as they come (`VisitsFit`), so that visits have one order, and that nobody
  has a task twice. The last needs for an import that a row's day replaces whatever
  its person had on it, or that is kept and then the row makes no task
  (`CreatedAreNew`), and that of two rows that ask for one day the first has it
  (`PlannedDiffer`).
* That a row plans the days it asks for comes down to its weekly form: the days from a
  date to so many weeks on that fall on its weekday are that date and every seventh
  day after it (`WeekdayIs`, from the uniqueness of quotient and remainder,
  `QuotientIs`), and a row without an error never ends beyond what `expandDates`
  refuses.
* A preview adds up over people, and an import changes sets. `SumOfSizes` says that a
  sum of sizes of sets that have nothing in common is the size of all of them, in
  whatever order it is taken: the tasks made are told apart by who they are for, and
  those dropped by the one executive their building is handed to, since a building
  planned for two is an error (`AssignsAreOne`). What is replaced and what is dropped
  with a building is counted once because a person's share leaves out the former.
* Field work judges a request in one step and writes in another. `FieldInv` says what
  is still true of a request when it is written, whatever came between (`Pending`): a
  visit that was read is there and is of the same person and building, as rows are
  added and closed and never removed (`Later`); so an inquiry fits its visit even when
  that was checked out meanwhile. With one request at a time more is still so
  (`StillSo`: no visit was open, or the visit read is), which is what keeps to one open
  visit and what was checked out fixed.
* The desk's invariant is that whoever leads is a team leader and that whatever is
  held can be seen and is held by a manager or an executive (`DeskInv`). A manager sees
  what the team holds because a scope is the manager and all who report to them; the
  dashboard adds up since activities have one author each (`DashboardAdds`, with
  `SumOfSizes`). Meetings are listed newest first by counting how many are not older;
  that the pages in a row are the list (`PagesCover`) goes by the first page where they
  would not be.
* The invariant of the day, `DayOK`, says that tasks and visits are finitely many and
  told apart by their ids: sorted by start and by time, ties by id, they are in one
  order, which is why reads made apart agree on the pairs.

## OltReadings

`OltReadings.tla` models the one client of the OLT monitoring API per process and
everyone who calls it. A tick is the time of one token. `tokens`, `paused`, `cache`
and `call` are `lib/olt-optical.js`'s bucket, pause, cache and in-flight map (a
`call` is `None`, waiting for so many ticks, or `Sent`); `reader` holds what each
page and the refresher is at; `held` is the refresher's hold-back; `username`,
`conn`, `order` are columns of `Customer`. `credit` and `overtaken` are history.

| code | actions |
|---|---|
| `acquire`, `reserve` (`olt-optical.js`) | `TakeTokenIfFree`, `TakeToken` → `Wake` |
| `lookup`, `fetchOne`, `notePause` | `Lookup` → `Answer`, `Refused` (a 429: pause; calls that wait give up when they wake in it) |
| refill, pause, cache lifetime | `Tick`, `PauseEnds`, `Expires` |
| building page, customer page, refresh (`customer.service.js`) | `OpenPage` → `PageLookup` … → `ClosePage` (at the answers or at the deadline) |
| `olt-sync.js` | `StartRound` → `RoundLookup` … → `EndRound` (`ToHold`, `MassLimit`) |
| `olt-reachability.js` | `FetchOlts` → `OltsAnswered` |
| edit of a Username | `Rename` |

`BudgetIsKept`: no call goes out beyond the budget or in a pause, also not one that
was waiting when the 429 came. `ReadingIsOfUsername`: a stored reading is of the
Username the customer has, unless somebody was reading while it was changed.
`EveryoneIsChecked`: once pages and edits are quiet the refresher comes to every
customer again and again, even if up to `HoldRounds` of the others fail for ever.

Its fairness: time passes and pauses end (`Tick`, `PauseEnds`), timers of waiting
calls fire (`Wake`), the API's calls end, with an answer or with the request's
timeout (`Answer`, `OltsAnswered`: a timeout is an answer that says nothing), and
the refresher's interval keeps firing (`StartRound`, `RoundLookup`, `EndRound`).
Requests, edits and 429s are not fair, and there are `MaxEvents` of them: a client
that reloads pages for ever, or an API that always answers 429, does starve the
refresher, by design. A row that never gets an answer stays least recently checked,
and is read again as soon as its hold-back is over. The property is therefore of up
to `HoldRounds` such rows: a round looks up one row at least, so these cannot take
all the rounds between one's return and its next. With more it depends on how full
the rounds are, and `HoldRounds` + 1 full rounds of failing rows do starve everybody
behind them (TLC finds it in this instance without the bound); with the code's 30
rows a minute and half an hour that is some 900 rows without an answer at once.

`MCOlt` gives the instance: three customers of whom pages and edits touch two, one
Username, a burst of two and a page, one row a round held back for one round. Either
the third customer has no Username, and all events are ahead: the smallest instance
where a cached answer, a shared call, a waiting call and one refused are all
possible at once. Or all three have the Username and one event is left, so that one
fails for ever and the other two are read in turn. One Username and one customer
without it are enough for what a stored reading may get wrong: `None` and `u1` are
two.

### Proofs

`OltReadingsProofs.tla` proves, for any customers, pages, calls and Usernames and any
burst, wait, round and hold-back:

* `CallsStayWithinBudget`. What a call that goes out proves about the past is kept
  in `credit`, what is left of the budget at the API. The invariant
  (`BucketOK`) relates the future to it: `tokens`, which a waiting call has driven
  below zero, never exceed `credit`; each waiting call waits for a different tick,
  and for none later than the last token owed; and a call that waits no longer
  finds a credit of one. So however many wait, they wake one per token.
* `ReadingsAreOfTheirUsername`. `ReadersOK` follows the Username from the row a
  reader took, through the call it shares or the cache it hits, to the write: unless
  an edit overtook a reader, the rows it holds have the Username it asks about, and
  its answers are of it.
* `TypeCorrect`.

Assumed: `OltReadingsAssumption` (numbers are numbers, the states of a call differ
from waiting times). Only model-checked: `EveryoneIsChecked` (liveness), and what
`order` holds: the round takes the customers by a sequence that is filtered, and
what a filtered sequence holds takes induction over its length.

## Registry

`MCRegistry` runs the models of the registers side by side.

| part | module | code | actions |
|---|---|---|---|
| `permission` | `SocietyPermission` | `permission-building.service.js`, `.repository.js`, `approval.js`, `survey.js`, society branches of `building.service.js`, deletion of a zone | `Start` (the read and first checks of any request) → `Add`, `AddVisit`, `Edit`, `Approve`, `Reject`, `SaveSurvey`, `SubmitSurvey`, `ApproveMaterials`, `RejectMaterials`, `MarkLive`, `UpdateStatus`, `Delete`; `CountZone` → `DeleteZone`; `WhereSql`, `StageSql` are the list |
| `wings` | `BuildingWings` | `replaceWings`, `updateBuilding`, Live switches, `lib/building-wings.js` | `Read` → `ReplaceWings`, `UpdateBuilding`, `UpdateSociety`, `SetLive` → `SetWingsLive` |
| `access` | `BuildingAccess` | list filter, read rule and write rules of buildings, nearby check, bulk actions | `CreateBuilding`, `BulkCreateBuildings`, `Move`, `SetLive`, `Approve`, `Remove`; the rules are functions of the registry |
| `customers` | `CustomerRegister` | `customer.service.js`: form, import | `CreateCustomer`, `UpdateCustomer`, `DeleteCustomer` → `ApplyOne`; `ImportCustomers` (`Plan`) → `ApplyImport` |
| `list` | `CustomerList` | `lib/customer-list.js` and its callers | `RefreshCustomers`, readings and ageing; the queries are functions of the table |
| `network` | `FiberNetwork` | `fiber.service.js`, `closure.service.js`, PON ports of `pop.service.js` | `BeginCreate`/`BeginUpdate`/`BeginRatio` → `WriteX`; `CutFiber`, `RestoreFiber`, `DeleteX`, `AddSplitter`, `SetInput`, `SetOutput`, `UpdateOlt`, `SyncOlts` |
| `sight` | `NetworkAccess` | `lib/visibility.js` and its callers | `CreateFiber`, `UpdateFiber`, `Feed`, … each with what it asks of its actor |
| `joining`, `joiningOverlap` | `PartnerOnboarding` | `partner-auth` registration, invites, referrals, `partners` | `BeginX` → `FinishX`; registration in three writes, between which it may `BreakOff` |
| `codes` | `OneTimeCode` | one-time codes | `BeginRequestOtp` → `CreateChallenge` → SMS; `BeginVerifyOtp` → `BumpAttempts` or `ConsumeOtp` |
| `team` | `Team` | `user.service.js` | `CreateUser`, `BulkCreateUsers`, `UpdateUser`, `BulkAssignZones`, `SetAccess` |

`SocietyWorkflow.tla` is the life cycle that `approval.js` and `survey.js` describe:
sent, decided, surveyed, materials, live. `ImplementsWorkflow` maps a society's
approval, survey and Live to it, under two requests that overlap. Every society
request reads before it takes the row's lock, and reads and judges again under it;
that is `Start` and the action that follows.

| property | what it says, and what could break it |
|---|---|
| `ApprovalIsConsistent` | status, approval, zone and newest history row of a society fit, although edits, visits and decisions overlap |
| `JudgedUnderLock` | a request let through before an approval changes nothing after it, nor does a surveyor outside zones and stage |
| `ImplementsWorkflow` | every step of every request is a step of the life cycle |
| `TotalsAreDerived` | once all wings are placed the home pass, and a building's Live, are the wings', and no more are placed than typed |
| `ScopesAgree` | lists show what their reader may open: societies (with stages and badges), buildings, customers (with counts and pages), fibres and the cables shown with their sites; what else a closure names starts there; changes stay within what the actor may open; an OLT serves what it is given |
| `HiddenButCounted` | a society not yet approved stays hidden, and still a duplicate is told |
| `CustomersAreKept` | in turn: one customer per Username, an import erases nothing, a sheet that names no number twice changes nothing when it comes again |
| `NetworkHolds` | in turn: a fed fibre starts where its splitter is, only its own edit takes its light, cuts keep their segment |
| `PartnersJoinOnce` | in turn: one live link, one account by it, codes guessed and used no more than allowed; also when requests overlap and break off: nobody waits for approval or has it without papers |
| `TeamFits` | reporting links and ticks stay right across promotions and bulk edits, and of the staff there is managers move only zones of their own (not said of the zones a new account gets, nor of the administrator) |
| `RegistryTypeOK` | the types of the parts |

Bounds: one society with two overlapping requests and two zones (one to move to,
one outside the surveyor's); a building of two wings with an old and new ids; two
buildings near each other or not, ten people, one per role that is told apart;
two customers with two Usernames and numbers, sheets of two rows out of seven
chosen so that each rule of matching and each clash between rows occurs; two
fibres over two lines, one splitter, one closure, outputs up to two; a POP of one
zone; two newcomers with two links
and one introduction; two accounts beside the administrator. Requests are single
or overlap by two as the table says: the properties "in turn" fail with two, as
*What the models show* tells. Workers, fibres, newcomers, bank accounts and the
two other members of staff come in interchangeable pairs, which no property tells
apart, so the run uses symmetry: all pairs but the accounts are swapped at once,
since no part has two of them.
Nothing here waits, so there is no fairness.

### Proofs

`RegistryProofs.tla` proves, for any requests that overlap, any societies,
zones and people:

* `SocietyTypesHold` and `ApprovalStaysConsistent`. The inductive invariant is `TypeOK`,
  what `ApprovalIsConsistent` says row by row (`RowsFit`), and what is known of a
  request between its read and its write (`RolesFit`): only which role may have
  asked for it. Nothing it has *read* is in the invariant, since every handler reads
  again under the lock; that is why overlap cannot break it. `RowStep` reduces the
  eleven writes to one statement about one row, its history and the zone sweep.
* `RowsAreJudgedUnderLock`: every write is judged on the row as it is then.
* `RequestsFollowWorkflow`: `Spec => ImplementsWorkflow`. The abstraction of a row
  is computed from it field by field, so the proof goes by what a write does to the
  approval, the survey and Live, and matches it with the step of `SocietyWorkflow`
  that does the same.

Assumed: `RolesAssumption` and `NullAssumption` (roles are strings, null and the
deleted row are no values of a column).

`RegisterProofs.tla` proves of `BuildingWings` the two parts of `TotalsAreDerived`
(`TotalsFollowWings`, `WingsStayWithinCount`) for any number of wings and any
home passes, in turn (`WorkersInTurn`; the two approvals of a society may still come
between the steps of another request). The invariant is that what a request has seen
is still so, except that between the two writes of a Live switch the building has
the Live its wings are yet to get. The sum of the wings' home passes is never
unfolded for that: what matters is that the row has the sum *of these wings*. Its
second hypothesis, `WingSizes`, says that wings are finitely many and null and "not
sent" are no counts.

`FiberNetworkProofs.tla` proves the three parts of `NetworkHolds` for any fibres,
closures, splitters and ratios, in turn (`OneAtATime`): `FeedsStayFit`, `LightStays`
and `CutsStay`. `FedBy` reads a row of the table of splitters that is not the
fibre's own, so the invariant is about that table: each fibre is on one output at
most (`FedOnce`, the unique index on `toFiberId`), and whoever is on an output is a
fibre that exists, starts at that splitter or its closure and has no port
(`FedRight`). It is the second that makes deletions safe: a splitter that goes with
a line, or with a closure, would otherwise leave a fibre dark that starts there, and
`OnPoints` finds that fibre only because it starts there. Of a request between its
check and its write the invariant says that what it read is still so (`ReadOK`),
among it that a new ratio is still above all outputs in use; overlapping requests
break that, and with it all three. Steps that rewire nobody share one lemma
(`QuietStep`), the transactions of `createFiber` and `updateFiber` another
(`Rewired`), over what each operator on the table does to the feeds (`OutputSet`,
`ReleasedFeeds`, `ClaimedFeeds`, `DrawnFeeds`). `Setup` says that ratios are bounded
numbers, lines have two points or more, requests carry values of their fields or
`Keep`, and null is no fibre, closure or output.

`RegisterProofs.tla` has the other registers too: it makes an instance of each model and
proves, of that model by itself:

| theorem | of | says | assumes |
|---|---|---|---|
| `CodesStayKept` | `OneTimeCode` | types; guesses capped, codes open once and are not sent too soon, every session is of a proven number | `OneAtATime` |
| `ApprovalNeedsPapers` | `PartnerOnboarding` | types; nobody is approved without papers, whatever overlaps and breaks off | — |
| `OneLinkWorks`, `SubmittedIsApproved` | same | one live link for a person; from submission on only an approver changes the account | `OneAtATime` |
| `LinkOpensOneAccount` | same | no two accounts from one link | `OneAtATime`, `~MayFail` |
| `ReportsAndTicksFit`, `ManagersMoveOnlyTheirZones` | `Team` | surveyors report to managers, ticks fit roles, zones move by the manager's | `TeamSetup` |
| `HiddenIsHidden`, `ListsAndWritesAgree` | `BuildingAccess` | who sees a society; whoever is listed or written may be read; OLTs | `Askers`: whoever asks has a role of the schema; finitely many buildings |
| `NetworkSeenAlike` | `NetworkAccess` | cables shown could be opened, and another fibre a closure names starts there; nothing hangs on a site that is gone | `SightSetup` |
| `CustomersStayKept` | `CustomerRegister` | types; one customer per Username, the same sheet again writes nothing, an import erases nothing | `OneAtATime`, `CustomerSetup` |
| `ListsStayAgreed` | `CustomerList` | types; a list is its reader's, filters are disjoint and complete, counts and pages are of the list, list and PON agree | `ListSetup` |

All also assume that null is no value of a column; `…Setup` says that, and that the
requests enumerated carry values of their fields. The invariants:

* `CodesInv` and `TurnInv`: a request in flight holds what it read, and in turn that
  is still so. Between the two writes of a registration the new account is known to
  the request only (`TurnInv`), which is where an account may be left without its
  link if it breaks off.
* `TeamInv` adds to the types that there is one ADMIN (`OneAdmin`): a promotion may
  neither take the office nor give it, and everything the ADMIN is exempt from rests
  on that.
* `SightInv` adds that a splitter on a line is owned by a closure or fibre that is
  there (`HubIsOwned`).
* `CustomersInv`: between the read and the write of an import the plan that was made
  is the one the table still asks for. That the same sheet writes nothing again is
  about a plan made row by row, each row seeing what earlier rows claimed; the proof
  goes over the rows by a least counterexample, keeping that after `n` rows the
  first reading has put into the table exactly what they ask for (`Told`) and the
  second takes the same customers again (`TakenAgain`).
* `ListsStayAgreed` needs no more than the types and that a customer has a time of
  reading if and only if they have a reading. The work is in the paging: a page
  is a piece of *some* sorted sequence of the rows, so two pages asked for one after
  the other fit together only because the order is total. Two initial segments of
  one size of a total order are the same set (`SameStart`), hence a later page
  starts where the earlier one ended (`LaterPage`), and the pages up to the last
  hold every row once (`PagesAreWhole`).

`RegistryProofs.tla` brings these and `FiberNetworkProofs`
together as `MCRegistry` does the models, and proves the properties of the run
themselves, as theorems of `MCSpec`: `HiddenIsCounted`, `TotalsFollow`,
`NetworkStaysFit`, `PartnersJoin`, `StaffFits`, `CustomersStay`, `ScopesStayAgreed`,
`RegistryStaysTyped`. While `part` names a
model a step is one of that model; while it names another the variables stand
still, and the property says nothing or is kept. The sets of the run stay any sets
but for those that `MCRegistry` itself writes out.

`ScopesStayAgreed` puts four things together: `ListsAndWritesAgree`,
`NetworkSeenAlike`, `ListsStayAgreed` and, proved there, that the lists of societies and
their badges agree with what a row allows its reader (`ListsOfSocieties`: the stages of
the workflow are disjoint, so a badge over two of them is the sum of two lists).
Its hypothesis `Reading` says that the people of the run have the roles
their routes let in, that buildings and societies are finitely many, and that null
and "not sent" are no values of a column. The roles are a hypothesis and not
computed because `PersonRole` is built with `@@` of the module TLC, of which the
provers know nothing.

`RegistryStaysTyped` puts the types together (`RegistryTypeOK`), of every model as the run
instantiates it (`EachIsItsModel`). Its hypothesis `RegistrySets` collects those of
the models. Two of the types are proved for it alone: `AccessTypesHold`, and
`WingTypesHold` for wings, there without taking requests in turn. The home pass of a
building is bounded by what its wings could have, and is a sum folded over them:
`SumExists` shows, by the least number of wings for which it would not, that
the recursive function in `MapThenFoldSet` exists, and `SumIsBounded` bounds it by
the smallest set of wings whose sum would be too large (`SmallestSet`). Both take
the least counterexample, not induction by a theorem of the library.

What the attempts showed of the models: `NothingDangles` of `NetworkAccess` was not
inductive until the deletion of a closure also dropped what hung on it, as the code
does; and a scope of the building list is one of three disjoint cases.

`Downstream` has the same instance and one property, a promise in a comment of
`lib/visibility.js` which the code breaks.

## What the models show about the code

Three findings have a run: `PaidIsNeverDeleted` (`PartnerMoneyPaidDeleted`),
`OneHolder` for managers (`BuildingHandoverTwoHolders`) and `DownstreamIsTold`
(`Downstream`: of the fibres behind a cut a reader is told only of those they drew
themselves, since the zone is dropped before the filter that needs it).

Others were met in the models but have no run of their own; the formula named, if
any, stands in its module and fails when put into the run of its part.

* Societies and buildings: a complete society marked live keeps wings that are not
  (`SocietyLiveIsDerived`). A submitted survey can be saved again without wings or
  materials and then approved. The badge of submitted surveys also counts
  societies that are live already and in no waiting stage's list.
* Visit plans: a sheet's import does not ask what `checkTargetDays` asks of a form,
  so a new task may take the visit of one that was visited and locked
  (`VisitedStaysVisited`). A row whose end is more than
  184 days after its Date silently plans nothing, and a Date alone may be any
  number of days ahead in a sheet though a form is refused beyond 92.
* Field work: two check-ins at once open two visits; a photo may be written after
  the check-out, and of two at once one is lost; a meeting's day is the UTC day.
  A team leader's free building of the zone is on the list, its history is a 404
  (`HistoryOfWhatIsListed`).
* Customers: a slow reading is saved over a Username changed meanwhile
  (`ReadingIsNeverOfOldUsername`). A sheet with two rows of one number may change
  things when uploaded again (`ReuploadNeverChanges`). With overlap, one Username
  may be given twice and an import overwrites an edit.
* Who sees fibres: `getClosure` filters the cables through a closure by what the
  reader could open, and then sends the fibres its splitters' outputs feed as they
  are; `getFiber` does the same with what the splitters on a line feed and what feeds
  them. So the owner of a closure is told name and status of another zone's fibre
  (`NamedIsOpenable`). A splitter's new input is only looked up, not asked for
  (`UpdateSplitter`), as it is for a new splitter.
* Network: a synchronisation with the monitoring API may leave fibres on ports the
  OLT no longer has (`PortsExist`). An update that names another feed and no points
  drops the old feed and never claims the new one (`FeedIsAsAsked`). A fibre may feed itself
  through a splitter on its own line. With overlap a ratio is reduced below an
  output that is being used, and a cut made during a redraw is lost. An editor who
  moves another's fibre out of their own zones is answered 404 after the save.
* Partners: a declined introduction that is reopened stands beside a newer one
  (`OneOpenIntroduction`); a joined one may be moved back and its account replaced
  (`JoinedStaysJoined`). If a registration breaks off after the account was made,
  its link stays live; with overlap two accounts may come of one link, and guesses
  of a code that overlap share one count.
* Staff: zones sent along with a role that works by none leave the old ones
  (`ZonesFitRole`); who reported to a sales manager or team leader still does after
  their demotion (`SalesReportFits`).

## The runs

| run | properties | size |
|---|---|---|
| `PartnerMoneyOverlap` | `PaidIsBacked`, `AmountIsRateInForce`, `EarningIsFrozen` | 6,577,450 |
| `PartnerMoneyInTurn` | `TypeOK`, `LeadAtRestAgrees`, `ClaimChain`, `FirstClaim` | 2,046,365 |
| `PartnerMoneyFailures` | `BooksAgree`, `PaidLeadStays`, `ImplementsLedger` | 1,965,762 |
| `BuildingHandoverLeaders` | `OneHolder`, `HeldStaysHeld`, `ImplementsRegister` | 270,515 |
| `BuildingHandoverEnds` | `TypeOK`, `EveryRequestEnds`, `LeaderTakesOnlyOwn`, `EditLands` | 61,178 |
| `BuildingHandoverInTurn` | `PlanStaysSound`, `DropsOnlyStranded` | 157,495 |
| `Visits` | seven, see above | 548,728 |
| `Olt` | `ReadingIsOfUsername`, `BudgetIsKept`, `EveryoneIsChecked` | 491,499 |
| `Registry` | eleven, see above | 686,330 |
| `PartnerMoneyPaidDeleted`, `BuildingHandoverTwoHolders`, `Downstream` | one each, violated | — |

Sizes are distinct states. Deadlock is not checked in the runs of `BuildingHandover`,
in `Visits`, `Registry` and `Downstream`: there the bounds on rows, days or requests
are reached and the system may stop.

## Only model-checked

Of the properties of the passing runs these have no theorem:

* `EveryRequestEnds`, `EveryoneIsChecked`: liveness, which is out of the prover's reach.

## Not modelled

* Stats, dashboards of the administrator, logs, releases, file uploads: reads,
  appends and file I/O; server and configuration: wiring.
* Rendering, wording of messages, e-mail, push and SMS contents, storage of files,
  layout of spreadsheets, search text, exports, name matching in sheets.
* Geometry: polygons of zones, distances, positions, lengths, waypoints.
* Passwords, pincodes, JWT, rate limits by address (libraries).
* Single-row edits guarded by a unique index: operators, cities, building types,
  POP devices; photos of societies and buildings but who may add and remove them.
* Of statements, the months with leads and no earning; `markMonthPaid`, which no
  route calls; the partner list and the testing bypass of one-time codes.
