# OpsPick (mini-task-manager): TLA+ models and proofs

OpsPick is a task manager for teams: a NestJS server over MySQL, a Next.js front
end, and mobile apps.  Its own core logic is on the server, under `src/src/`, and
the part with the most moving pieces is the *planner*: recurring series that cron
jobs, board syncs and user requests turn into dated runs with cards, at the same
time and without database transactions, and whose checklists, completions and reviews
many requests then write to the same rows.  The second is money: the plan of a user, and
the subscription of a workspace, each one row that payment systems, coupons,
administrators and cron jobs write.  The third is who belongs to a workspace.  This
directory holds the models of these parts, their checks, and proofs about them.

    tlc -config planner_generation.cfg MCPlannerRuns     # model-check one run
    tlapm PlannerRunsProofs.tla                          # check the proofs

## 1. Inventory

One Node process (`ecosystem.config.cjs`: `instances: 1`) serves all requests and
runs the cron jobs.  Requests and jobs interleave at every `await`; apart from the
creation and deletion of an organization nothing opens a transaction.  A restart
loses whatever was in progress.

| Component | State | Operations | What is hard | What makes it correct |
|---|---|---|---|---|
| **Planner** (`modules/tasks/recurring-tasks.*`) | templates (series with a cursor: last sequence, count, next date), occurrences (runs), cards | generate (2-hourly and midnight cron, and each board view), board sync (purge, repair), attach, detach, duplicate, pause, skip next, delete card, delete series | overlapping generators with stale copies of the cursor; check-then-insert; failures between card, link and run; a sync that brings back what is being deleted | each date of a series recorded once and never lost; runs and cards name each other; due runs appear; deleted series leave nothing |
| **Checklists, completion, review** (same service, `TasksService.update`) | checklist of the template and of each card, column of each card, state of each run | PATCH a card, edit the template, mirror a checklist, complete, submit, approve, reject, move to Done | checklists written whole from stale reads; two reviewers; a card moved to Done while its run is reviewed; failures between card, template and run | a run that requires approval is completed by a review (the code does not keep this: `run_approval`); a decision is made on a submitted run; a Done card had nothing open; the mirror unticks nothing whose title the template keeps, and leaves no ghosts |
| **Recurrence rules** (`recurrence.util.ts`) | none (pure) | next due date, stop | calendar edges: short months, leap days, weekends, weeks counted from a start | later, unless the rule does not repeat; no drift, no chosen day missed |
| **Tasks** (`tasks.service.ts`) | cards with JSON subtasks, comments, files | create, update, delete, move | JSON columns written whole by concurrent PATCHes; status moves against checklists | a Done card has a complete checklist |
| **Due reminders** | keys already notified, kept in the run | minute cron | two jobs overlap; marks written after sending | one reminder for each key |
| **User plans and coupons** (`src/plans/`) | plan, expiry and source on the user; Apple subscriptions; coupons | order, verify, Apple notification, restore, expiry cron | retries, late notifications, stale reads by the cron, one row for two sources | highest active plan wins (not kept: `user_plans_highest`); every plan has its source; expired plans end; coupons used at most n times, but for overlaps |
| **Plan limits, storage** | bytes used, seats, workspaces | upload, delete, limit checks | check-then-insert at the limit; double deletes | storage used is the sum of the files |
| **Organization billing** (`modules/billing/`) | subscription, payments, invoices | trial, order, verify, cancel, downgrade, grant, webhook, trial cron, sync of the owner's plan | whole rows saved from stale reads; late and repeated webhooks; the hourly job against a payment | every plan has a reason; a plan in force stays; the invoice is what was charged; trials end |
| **Organizations, members, invitations** (`modules/invitations/`) | members with a status, invitations with a status, the accounts of those invited | invite, accept, expire, cancel, resend, remove | check, then write, with nothing locked; no unique key on members; a cancellation deletes an account | what is settled stays settled; duplicates are bounded |
| **Accounts, sign-in** | users, one-time codes, tokens | signup, verify, reset, phone code, delete account | a code used twice; concurrent signups | each code used once |
| Projects, workflows, sprints, epics, sites | rows | CRUD | - | permission checks |
| Automations, webhooks, integrations, AI | configuration rows | calls to outside services | fire and forget | - |
| Front end, mobile | caches | polling | - | - |

How they interact: a controller calls its service; services call each other
directly (`tasks.service` and `recurring-tasks.service` call each other in both
directions); all shared state is in MySQL.  Viewing a planner board (the front end
polls it) generates due runs and then repairs the board, so reads write.

## 2. Modules

| Module | What it is |
|---|---|
| `PlannerRuns` | the planner: one process per request or job, one action per statement between two awaits |
| `MCPlannerRuns` | small calendars and the calls each process may make |
| `PlannerRunsProofs` | the inductive invariant holds: types, schedule, uniqueness, no date lost |
| `PlannerCardsProofs` | runs and cards agree, overlapping generators and the end of a series |
| `Recurrence` | the next date of every kind of rule, and the series it yields |
| `MCRecurrence` | the calendar of 2026 to 2029 and families of rules |
| `RecurrenceProofs` | series move forward, months and years do not drift, weeks are complete, the weekly fallback is dead code, weekends are skipped |
| `UserPlans` | the plans of the users: orders, payments, coupons, Apple subscriptions, the daily job |
| `MCUserPlans` | the calls each process may make |
| `UserPlansProofs` | types, every plan has its source, the overrun of a coupon is bounded |
| `SeriesLedger` | the abstract planner: a series and the ledger of its runs, without processes, cards or cursors |
| `PlannerLedgerProofs` | `PlannerRuns` implements `SeriesLedger` |
| `RunReview`, `MCRunReview` | the runs of one series after generation: checklist, mirror, completion, review; what clients send |
| `RunReviewProofs` | types, reviews, the move to Done, kept ticks, no ghosts |
| `OrderBook` | the abstract billing: the orders, what was returned with, and the bills, without requests, webhooks or rows |
| `OrgBilling`, `MCOrgBilling` | the subscription of one workspace, its payments and invoices; the calls each process may make |
| `OrgBillingProofs` | types, every plan has a reason, a plan in force stays, invoices are as charged, `OrgBilling` implements `OrderBook` |
| `Workspaces`, `MCWorkspaces` | invitations, memberships and accounts of one workspace |
| `WorkspacesProofs` | types, duplicates bounded, settled invitations |

How they fit together.  `PlannerRuns` and `Recurrence` meet in `ScheduleAssumption`: a
series' rule gives later and later dates.  `Recurrence` shows, and `RecurrenceProofs` proves
as `SeriesMoveForward`, that every rule of the program that repeats does.  A rule that does
not repeat (`repeat` NONE or absent) makes no series, but `updateTemplate` stores it in one
without a look at it (`recurring-tasks.service.ts:1434-1436`); such a series stays on its
date and is outside `PlannerRuns`.  `PlannerRuns` INSTANCEs `SeriesLedger` with a refinement
mapping and checks and proves its specification (`KeepsLedger`); `OrgBilling` does the same
with `OrderBook` (`KeepsBook`). `RunReview` begins where `PlannerRuns` ends: with runs that
exist, each with its card.  `OrgBilling` has the other end of `UserPlans`' `Sync`
(`StartSync`, `SaveSync`).  `Workspaces` has the seat limit of the plan as a constant,
`OrgBilling` the number of members as a variable that anyone may change.

### PlannerRuns

State and code:

| Variable | Code |
|---|---|
| `tpl` | `recurring_task_templates`: id, `lastSequence`, `generatedCount`, `nextDueDate`, `isPaused` |
| `occ` | `recurring_task_occurrences`, with the unique key on (template, sequence) from the migration |
| `task` | `tasks`: id, `recurringTemplateId`, `recurrenceSequence` |
| `start` | `startDueDate` of every series ever created, so that runs of a deleted series keep a meaning |
| `pc`, `loc` | where each request or job is, and what it remembers across its awaits |
| `today` | `nowYmd()` |
| `dropped` | history: runs whose row was deleted |
| `faults` | failed statements and crashes so far |

A process is one call in progress.  `check`, `date`, `create`, `link`, `record`,
`advance` are the awaits of `generateOccurrencesForTemplate`; `map` to `each` and
`mcreate` to `mrecord` those of `syncBoardTasks` with its purge and repair; the
rest belong to `deleteSeries`, `TasksService.delete`, `skipNextOccurrence`,
`attachRecurrenceToTask` and `updateRecurrenceFromTask`.  What a process read
stays in `loc` and goes stale there, as in the code: the run that `removeOccurrenceForTask`
looks up and then deletes (`Unhook`, `Drop`), the card a detach has read (`StartDetach`,
`DetachPause`, `DetachCard`), the series a copy is made of (`StartDuplicate`, `Duplicate`),
the run whose state is set (`StartStatus`, `SetRunState`).  `SyncSkipRun`, which writes
nothing, is one step.  `Fail` is a statement that
throws, with the recovery the code has at that place (next template, next run,
plain delete, or the end of the request); `Crash` is the end of the Node process.

Abstractions: titles, assignees, checklists and notifications are left out; a
series has one rule; COMPLETED stands for SUBMITTED too; one project; the limits
on how many rows a query returns (500 templates, 5000 runs) and the 25 cycles per
generation lie above the bounds.  `InsertCard` is the insert of
`tasksService.create`; the other statements of a card's creation do not touch
planner tables.

### SeriesLedger and the refinement

The ledger says what the planner promises of a series and nothing else: from the day it
begins, its runs get rows one by one, in the order of their sequence numbers, on the dates
of the rule; rows may be deleted, the record of what was recorded never skips.  The mapping:
`start` is `start`, a row is the id, series, sequence and date of an occurrence (`RunRow`),
the ledger is what has a row or had one (`Recorded`).  Cards, cursors, processes, jobs and
failures are forgotten.  A generator's insert is `Record`, with the guard that
every run between the first and this one is in the ledger, which the stale cursor it worked
from must satisfy; deletions are `Remove`; everything else stutters.

### Recurrence

A date is a day number and the calendar is a constant (month starts and the weekday of day
0), so that the proofs hold for every calendar with months of 28 to 31 days.  `NextDue` is
`computeNextRecurringDueDate` branch by branch.  A rule that does not repeat gives back the
date it was given, not even moved off a weekend (`recurrence.util.ts:99-101`); the DTO lets
such a rule through (`recurrence.dto.ts:23,36-38`), and the generation of a series that has
it advances the sequence on one date, 25 times at most, where the loop's guard stops it
(`recurring-tasks.service.ts:358`).  The model assumes local midnights 24 hours apart: in a
time zone with daylight saving the weekly search, which adds 24-hour steps, can differ
(listed as a hazard).

### UserPlans

| Variable | Code |
|---|---|
| `user` | `users`: `current_plan`, `plan_expires_at`, `plan_billing_source` |
| `workspace` | the plan of the newest subscription of the workspace a user owns |
| `apple` | `apple_subscriptions`, unique by original transaction id |
| `coupon`, `redemptions` | one row of `coupon_codes`, and its rows in `coupon_redemptions` |
| `orders` | Razorpay's orders; paid or not |
| `store` | the App Store's view of a subscription |
| `shop` | how the installation is set up: with Apple, with a coupon, and whether that takes the whole price off |
| `pc`, `loc` | where each request or job is, and what it remembers across its awaits |
| `bought`, `charged`, `missed`, `misled` | history: plans activated, periods Apple charged, redemptions the count does not show, subscriptions of which a notification told a period that was not charged |

An order goes through `coupon`, `used` (the price), `charge`; a verification, or an
order the coupon pays in full, through `redeem`, `again`, `record`, `count` (`redeem`
checks the coupon once more), `activate`, `save`, `sync`.  `recomputeEffectivePlan` is
`read`, `rows`, `save`, `sync`; the daily job repeats it from `next` for each user it
found, an Apple purchase or notification reaches it from `upsert`, `end` or `keep`.
The administrator reads the coupon in one step and saves it in another, with the count
it had.  `Fail` is any statement that throws or a restart; the notification handler
catches and saves the row it has read.

`Sync` is `syncUserPlanToOwnedOrganizations`: it finds the subscription with its
`plan` relation loaded, sets `planId`, and saves.  The ORM writes the relation it has
loaded, not the changed id, so the workspace keeps its plan; `billing.service.ts:90`
clears the relation for this reason.  Nothing here is stated about `workspace` yet:
that belongs to the organization billing of the plan below.

Abstractions: time counts days and a payment buys `Month` of them; a plan is its
index in `PLAN_ORDER`; one coupon, valid for every plan, without an expiry date; one
workspace for each owner.  `CheckCoupon` and `CheckUsed` are the two queries of
`validateForPlan`; `Upsert` is its read and its save in one step, because the unique
key refuses a second insert and a row never changes its owner.  At most one administrator edits
a coupon at a time (`UserPlansAssumption`).

What a request says is what its sender chose to say.  `verifyPayment` checks that the order was
paid, and takes the plan and the coupon from the request and the user from the session; it
compares none of them with the order (`plans.service.ts:202-229`), and neither does
`StartVerify`, which names any user, plan and coupon beside a paid order.  The payload of a
notification is decoded and its signature is not verified (`apple-iap.service.ts:138-149,237`),
so that `StartNotification` takes any message of `Notices` at any time, about any subscription
that is linked.  `PlansHaveSources` therefore does not say that a plan was paid for.  It says
what is left, and what the recomputations could break: a plan and its end on the user row are
those of an activation of this user, for which there was a paid order or a full coupon, or
those of a subscription that Apple sold and this user linked, with the end of a period that was
charged or, if it was `misled`, told.

### RunReview

| Variable | Code |
|---|---|
| `approval`, `steps` | `requiresApproval` and `templateSubtasks` of the series |
| `cards` | for each run the `subtasks` of its card, a set of items (id, title, ticked), and its column |
| `states` | `state` of the occurrence: PENDING, SUBMITTED, COMPLETED |
| `made` | the ids `generateUuid` has made |
| `pc`, `loc` | where each request is, and the card, list, template steps and runs it has read |
| `requests`, `faults` | bounds |
| `overtaken`, `alone`, `returned` | history: reviews that were overtaken, whether requests came one at a time, runs that became pending again |

`TasksService.update` is `patch` (write the card), `template` and `write` (read the series,
write its steps), `reload`, `pending`, `readRun`, `mirror` (the checklist on each pending run,
last sequence first) and `sync`: the run follows the card after any change of its column, so
that a move between two columns that are not Done makes a submitted run pending again.
`updateTemplate` enters at `update`.  `completeTaskWithRecurringAction` is `rule`, `move`,
`submit`, `previous`; `move` writes the column the client named, whichever it is, or the one
that was read if it named none (`recurring-tasks.service.ts:1255-1257`).  `reviewOccurrence` is
`review`.

The items of a run are clones with ids of their own (`Clone`, line 95).  A PATCH puts the ids of
its card's items into the template (`SaveTemplate`, line 1369), and the mirror matches the steps
with the items of each other card by title, then by the title the step had before, found by its
id, then by id (`Wanted`, lines 1547-1572).  So an item that is renamed on one card has, for
the others, an id that the old template does not know: it finds no match, and they get a new
item without the tick.  What clients do to a list is a set of edits (`Edits`: rename, drop,
tick, add).

Abstractions: a list is a set, and where the order matters (who takes which of two equal
titles) any order is allowed; the completion rule is the default ALL_CHECKLIST; runs that are
skipped or whose card is deleted are those of `PlannerRuns`.

### OrgBilling

| Variable | Code |
|---|---|
| `sub` | the workspace's row of `subscriptions`: plan, status, end of trial |
| `payments`, `invoices` | rows by Razorpay order; `seats` is `userCount` in the payment's metadata |
| `members` | active members, as `getOrganizationUsage` counts them |
| `orders` | Razorpay's orders, paid or not |
| `pc`, `loc` | where each request, webhook or job is, with the row it has read (`copy`) |
| `granted`, `tried`, `kept`, `overtaken`, `verified`, `shown`, `repeated`, `spoiled` | history, as the module's comments say |

Every write of the subscription is `Save`: TypeORM writes the row as it was read, with the
columns the handler has changed.  `verifyPayment` has seven awaits (`activate` to `invoice`)
and saves the row twice; `cancelSubscription` saves, then runs `downgradeToFree`, which the
hourly job shares.  `Effective` is the plan whose limits `getOrganizationUsage` applies.
A handler that sets every column the model has (the trial, the grant, the downgrade) remembers
no copy of the row.  A grant makes the row ACTIVE: `adminSetOrganizationPlan` takes a status,
and its only caller (`admin.service.ts:78`) passes none.

`verifyPayment` activates the plan the request names, for the workspace it names, and compares
neither with the order whose payment is signed (`billing.service.ts:223-271`); so does
`StartVerify`, with any plan, the free one too.  A webhook's signature is looked at only if the
request has one (`billing.service.ts:455`), so that `StartWebhook` takes a `payment.captured` or a
`payment.failed` of any order with a row at any time, and `StartEnded` a
`subscription.cancelled` (which is looked up in a column that holds the id of a payment, so
that none of Razorpay's own finds a row).  `PlanHasReason` therefore says that a plan was named
by a verification that had a paid order to show, not that the order was for it.

### OrderBook and the refinement

The book says what a customer may rely on once an order is placed, however late, often or out
of order requests and webhooks come: the order does not change but that it is paid; it is
billed after the customer has returned with it; and the bill is the only one, for the seats of
the order.  An order of which that does not hold is *loose*, and the book lists the three ways
it may become so: returned with twice, marked failed, truly or not, or nothing kept of it when
it was placed.  The mapping: `book` is `orders`, `confirmed` is `verified`, `bills` is
`invoices`, `loose` is `Loose`: the histories `spoiled` and `repeated`, and verified orders
without a row.  `StartVerify` is `Confirm`, `CreateInvoice` is `Bill`, `SaveFailed` is
`MarkFailed`; trials, grants, the job, captured payments and every step between stutter.

### Workspaces

| Variable | Code |
|---|---|
| `invites` | `organization_invitations`: address, status, and whether `expires_at` has passed |
| `rows`, `joins` | the ACTIVE rows of `organization_members`, without the owner's, and how many were ever inserted |
| `accounts` | the `users` row of each person invited |
| `pc`, `loc`, `overtaken` | where each request is; history: requests on an invitation that was settled under them |

`acceptInvitation` is `member`, `join`, `accepted`; `cancelInvitation` is `cancel`,
`invitee`, `memberships`, `delete`.  A membership that was removed is never read again, and a
person who was removed and accepts a new invitation gets a second row, so a removed row is
dropped from `rows`.  The foreign keys do what the entities declare: a membership of an
account that is gone is refused, and the account's memberships go with it.

## 3. Runs

The longest take one to two minutes with two workers, the violated ones seconds.

| Run | Result | Question |
|---|---|---|
| `planner_generation` | holds | a generating job against a process that generates, attaches, pauses, skips and deletes cards, one fault, lead time 1, an end after two runs: is any date lost, doubled or moved; do runs and cards agree; can overlapping generators alone run past the end; is `SeriesLedger` implemented? |
| `planner_series` | holds | two series, a sync against attach, detach, duplicate and completion: do repaired and copied series keep their schedules? |
| `planner_liveness` | holds | with fair jobs and one crash: do due runs appear, do pending runs get cards back, does a deleted series go away? |
| `planner_two_cards` | violated | one card for each run |
| `planner_purge` | violated | a purge deletes only runs of deleted series |
| `recurrence_rules` | holds | 180 rules from 38 start dates, fourteen runs each: do the dates of every rule that repeats move forward, keep their day, miss none, and avoid weekends? |
| `user_plans` | holds | orders, verifications, a coupon for one use, an administrator, an Apple subscription with notifications, and the daily job, two at once, one fault: does every plan have its source, by how much can the coupon's limit be passed, do expired plans end? |
| `user_plans_highest` | violated | the highest active plan wins |
| `org_billing` | holds | a trial, an order, its verification and webhooks against the job, the sync, an administrator, a cancellation and a downgrade, one fault: who answers for the plan, who may take it away, is `OrderBook` implemented, what is invoiced, do trials end? |
| `workspaces` | holds | two people, two invitations, two requests at once, one fault: can a settled invitation admit or be sent again, how many rows can a person get? |
| `run_review` | holds | two runs, a checklist of two items, three requests, two at once, one fault: what do reviews decide, what is Done, which ticks and items survive the mirror? |
| `run_approval` | violated | a run that requires approval is completed by a review |

What the violated runs show:

* **Two cards for one run.**  The generator inserts the card first and the run row,
  which has the unique key, last.  Two generators that overlap both insert a card;
  the second run row is refused and its card stays on the board, linked to the series.
* **A purge that deletes a new series' run.**  `syncBoardTasks` reads the series, then
  the runs.  A series attached in between has a run whose series is not in the copy;
  the purge deletes its run and its card.
* **A paid plan forgotten.**  A user pays Razorpay for Silver, then subscribes to Gold
  with Apple.  The recomputation writes Gold over the user row, the only record of the
  Razorpay plan; when Apple refunds or ends Gold, no candidate is left and the user is on
  Free, although the payment for Silver still covers the day.  No two requests overlap.
* **A run completed without approval.**  "A manager must approve before this run counts as
  officially complete", says the completion (`recurring-tasks.service.ts:1261-1262`), and
  the DTO the same (`recurring-actions.dto.ts:65`).  A worker who moves the card to Done by
  PATCH completes the run (`tasks.service.ts:798`, `recurring-tasks.service.ts:304-313`),
  and so does one who completes a later run together with the previous ones (line 1275).
  One request is enough.

The properties of the runs that hold say exactly how far the code can be relied upon, and
their exceptions are behaviours of the code that the runs reach:

* `EndsAfterOccurrences`: the count that ends a series and the cursor are saved together by a
  generator, but `skip-next` saves the cursor alone.  A skip that overlaps a generator can so
  leave a cursor ahead of its count, and the series then gets a run more than the drawer
  announces ("Ends after n occurrences", `recurrence-display.ts:129`).  Without a skipped or
  deleted date it cannot, however many generators overlap.
* `RunAgreesWithCard`: a run and its card may belong to different series (a detached card
  that is made into another series; a run of a paused series that the sync gives to the only
  active one, `recurring-tasks.service.ts:462`).  Within one series they never differ.
* `PlansHaveSources`, `PlanHasReason`: the plan of an activation is the one that the request
  named, not the one of the order; a notification may tell a period nobody was charged (`misled`).
  The sync of the owner's plan and a cancellation save the row of a running trial without its
  end (`kept`), so that the trial's plan stays.
* `InvoicedAsCharged`: a `payment.failed`, late or false, overwrites a payment that has
  succeeded, with the seats it was charged for (`spoiled`); a verification that is repeated makes
  another invoice from the members of that day (`repeated`).
* `PlanStaysInForce`, `SettledStaysSettled`, `ReviewsOfSubmitted`: a request that had read the
  row before may still write it (`overtaken`); one that begins later may not.
* `SeatsPerPerson`: acceptances that overlap enter a person twice.
* `TicksKept`: a tick is lost to the requests on its own card; when it is made between the
  mirror's read and write of its card; with a title the template does not keep, a rename on
  another run's card included; and when two items of a card share the title.
* `DoneWhenTicked`: what was unticked or added after the request had read the card is not seen.
* `NoGhosts` is about requests that come one at a time.  With two, the mirror of the slower
  one brings back what the faster one deleted; a run that was completed and is
  reopened keeps the items it had.

Seen while modelling, with nothing to interleave and so without a run: `findDueTemplates`
returns only series due today or earlier, so the later test on `createDaysBeforeDue` never
sees an early one and no run is created ahead, as the series drawer says it would be.  With
`skipWeekends`, a monthly run on Saturday 28 February 2026 moves to 2 March, and the next
month is counted from March: a month has no run.  A series with a rule that does not repeat
runs through its sequence numbers on one date.  A membership that is made while a
cancellation deletes the account goes with it (`invitations.service.ts:379`).  Attachments
add a size in MB to the storage in GB.  The end date of a paid subscription is written and
never read.

Bounds.  One or two series, two processes (every race found needs two; the deletion of a
series against a sync needs one of each), two or three days, three or four sequence numbers,
and as many rows as those need with one left over.  Where a bound on rows would block an
insert the system may stop (`AtBound`), so deadlock checking stays on.  `CHECK_DEADLOCK
FALSE` is set only for `Recurrence`, where a series ends at `MaxRuns` or at the end of the
calendar.  `recurrence_rules` covers a leap year, month ends of every length and three
intervals for every kind of rule; the 38 starts are every day of a month and of a week, and
the calendar has the two yearly steps by which a series meets the leap day of 2028.  Except
in `workspaces`, `run_review` and `run_approval`, the operations are split between the two
processes (`JobOps`, `UserOps`), so that those which race for the run's question are on
different sides; operations of one side follow one another in the run (an order and its
verification in `org_billing`, say), and that they may overlap too is left to the proofs.

For `UserPlans`: two users, one with a plan from before sources were stored, which is the one
that ends for the daily job; one subscription, two processes, one order, one charged period
and two days, so that what was bought on the first is over for a recomputation on the second
while a handler works; and a coupon for one use, so that two redemptions meet at its limit.
One run covers installations that sell through Apple and those with a coupon for a part or
all of the price (`Shops`), one at a time: the two share only the user row and `Activate`, and
together they are left to the proofs.  The notifications are a renewal without an end, one of a
product that is not on sale, and an end (`MCNotices`).  `planner_generation` stops
where a bound on rows is reached, as above; the bounds of `UserPlans` block only
customers and Apple, so that no handler is ever stuck and deadlock checking stays on.

For `OrgBilling`: one plan on sale besides the free one, a user's process and a job's, a
trial of one day and a horizon of one, so that a trial ends while a handler works; two
possible numbers of members, so that the seats charged and counted differ; one order; one
fault, after which a client can verify the order again.  Verification begins only below
`MaxInvoices`, one in the run, so what a second invoice of an order means is left to the
proofs.  For `Workspaces`: two people (one whose invitations race, one who takes the seats),
two invitations (two for one address come of a resent one that had expired), a limit of two
with the owner, two requests, and a bound on the memberships at which nobody new accepts.
For `RunReview`: two runs, since the mirror's loop and the previous pending runs need two,
two items, since one must stay when the other goes, eight patches, three updates and two
ways to complete (`MCPatches`, `MCUpdates`, `MCClosing`), three columns, since a move
between two that are not Done counts, and three requests, since a race of two needs one
before it (a submission before two reviews); `run_approval` needs two.  `workspaces` and
`run_review` use the symmetry of their processes (and people); their action properties do
not tell these apart, and nothing temporal is checked with it. `RunReview` ends when its
requests are used up, which `Terminated` says, so deadlock checking stays on there too.

Fairness (`planner_liveness`).  Weak fairness of a request that has begun: Node
runs every pending promise.  Strong fairness of starting a generation and a sync: the
cron jobs fire for ever and the open board polls; it is strong because in the model a
job waits for a free process, which in the server it never does.  Nothing is assumed of
users, faults or the calendar.  `user_plans` assumes the same of handlers and of the
daily job (`plan-expiry.cron.ts`), and nothing of customers or administrators; `org_billing`
of handlers and of the hourly job (`handleTrialExpiry`).  In all three runs the faults are
finitely many (`MaxFaults`).  A promise that what is due comes is written `[]<>`: a state
in which something due is still missing never lasts.

## 4. Proofs

`PlannerRunsProofs` proves, for any number of series, processes, days and faults and
any schedule with `ScheduleAssumption`:

* `TypeCorrect`: `Spec => []TypeOK`
* `RunsStayOnSchedule`: `Spec => []OnSchedule`
* `RunsAreUniquePerDate`: `Spec => []OneRunPerDate`
* `CursorLosesNoDate`: `Spec => []NoDateLost`

They rest on one inductive invariant, `IInv`.  The properties themselves are not
inductive: what a generator writes comes from the copy of the series it holds, so the
invariant says of *every* copy (in `tpls`, `cur`) what it says of the table: its next
date is the date of its next sequence, and every sequence up to its cursor has, or
had, a row (`Sound`).  Sequence numbers are unique by the table's key, and the
schedule is strictly increasing, hence one run per date.  A copy stays sound while
others work because rows are only added or recorded in `dropped`
(`CoveredStays`, `SoundStays`, `GoodStays`): this is why a stale cursor, however old,
does no harm to the schedule.  `StepIInv` has one lemma per action.

`PlannerCardsProofs` proves, on top of it and for as many series:

* `CardsAgreeWithRuns`: `Spec => []RunAgreesWithCard`
* `SeriesEnd`: `Spec => []EndsAfterOccurrences`
* `SeriesSize`: a series with an end after n runs has at most n, as long as no date of it was
  skipped and no row deleted

The invariant is `CardsOK`.  For the first, a *claim* is a card, a series and a sequence that
somebody will bring together: a run with that card, a card with that series, or a process
about to write either (`WillClaim`).  No two claims on one card and series name different
sequences (`ClaimsOK`), because a card's number is new when it is inserted and every later
write copies a sequence that is already claimed, from a row or from what the process
remembers (`SameRun`, `IdsOK`).  For the second, `Counted`: the count of a series is at
least its cursor, in the table and in every copy, unless a date before the cursor
was passed over.  A generator's stale write may set both back, never one of them alone.
`SeriesSize` then counts: sequences are unique by the key, and none is above n.

`RecurrenceProofs` proves, for every calendar and every rule the DTO admits, NONE included:

* `WeeklyNeverFallsBack`: the search finds the first chosen day of an active week
  within `7 * interval + 6` days, so the fallback after 3700 days is never taken
* `SeriesMoveForward`: `Spec => AlwaysForward`: a rule that repeats gives a later date, one that
  does not keeps it
* `TypeCorrect`, `SkippedWeekends`: `Spec => []TypeOK`, `Spec => []WorkingDays`
* `NthWeekdayCounts`: the arithmetic of `nthWeekdayOfMonth` returns the day that one finds by
  counting the weekdays of the month, also from its end
* `MonthsDoNotDrift`: `Spec => []MonthlyNoDrift`
* `YearsDoNotDrift`: `Spec => []YearlyNoDrift`
* `WeeksAreComplete`: `Spec => []WeeklyComplete`

The last three hold for every number of runs, by an invariant each.  `InMonth` says that run n
lies in the month n - 1 intervals after the start, the first run included: the
program computes the month from the previous due date and the day from the start, so a short month
leaves nothing behind (`MonthlyDay`); `InYear` and `YearlyDay` say the same of years.
`WeeksCounted` says of the chosen days of active weeks
up to the due date that there are n - 1: the search takes the first that fits, so a
step adds one and passes none over (`OneMoreFits`).  `ActiveDaysFit` relates the weeks
`WeeklyComplete` enumerates to the division by which the search finds them.

The strengthening behind `AlwaysForward` is that a series never falls before its start,
without which the weeks since the start would be negative.

`UserPlansProofs` proves, for any number of users, subscriptions, handlers in progress,
days and faults:

* `TypeCorrect`: `Spec => []TypeOK`
* `PlansComeFromSources`: `Spec => []PlansHaveSources`
* `CouponBounded`: `Spec => []CouponOverrunBounded`

`IInv` says of what a handler remembers (`Good`) what the first two say of the tables: the
copy of the user row it read and the plan it is about to write have their source, and the
transaction it holds was sold, with an end that was charged or told.  It is stable because
payments, redemptions, activations, charged periods and links of subscriptions are never
taken back, so that nothing a handler has read loses its source, however long ago that was;
and an activation begins only with a paid order or past the check of a full coupon.
`Counts` is the account behind the third: every redemption is counted, about to be, or
missed; a handler that passed the check found the count below the limit, and those between
the check and the increment are at most all there are.  An administrator's copy of the count
is never ahead of the row (`AdminsBehind`), for which only one may save at a time.

`PlannerLedgerProofs` proves `PlannerKeepsLedger`: `Spec => KeepsLedger`.  `LedgerStep`
maps every action to a step of the ledger or a stutter; it needs `IInv` of
`PlannerRunsProofs` only at the inserts, where `Covered` of the cursor a process holds is the
guard of `Record`.

`OrgBillingProofs` proves, for any number of requests and jobs at once, orders, members, days
and faults:

* `BillingTypeCorrect`: `Spec => []TypeOK`
* `PlansAreAnsweredFor`: `Spec => []PlanHasReason`
* `PlansStayInForce`: `Spec => PlanStaysInForce`
* `InvoicesAreAsCharged`: `Spec => []InvoicedAsCharged`
* `BillingKeepsBook`: `Spec => KeepsBook`

Since a save writes back what was read, however long ago, `IInv` says of every copy in `loc`
what it says of the row: it is `Lawful`.  That is stable because orders stay paid and the
histories only grow.  `Safe` is the second half: once a plan is in force, every handler
that could take it away without the owner's or the administrator's word is among the
overtaken, since any that begins later finds the guard against it or copies the plan.

For the invoices, `BillsOK` follows the seats of an order from the order to its row of
payments, to the verification that reads them and takes them off the row, and to the invoice;
a captured payment's webhook may put the row back as it was.  The row shows the order's
seats, or it has succeeded and no verification of the order has yet to read it (`SeatsTaken`):
two at once would make the order one of the `repeated`.  An order under way (`pend`) is
unpaid, so nothing of a verified order is pended over it; that rests on Razorpay taking no
payment before `createOrder` has answered (`Answered`).

`BookStep` maps every action to a step of `OrderBook` or a stutter.  It needs `BillsOK` at the
invoice, for its seats and for the order it names, and `BookOK` besides: whoever verifies an
order that has an invoice is a repeated verification, which is why `Bill` finds no other bill
of an order that is not loose.  A payment that a webhook calls failed, truly or not, is
`MarkFailed` (`FailureLoosens`): all it needs is that the row belongs to an order.
`RowsStay` is the other half: the row of a payment that was inserted never goes, so that no
order becomes loose but by the three ways the book names.

`WorkspacesProofs` proves, for any number of people, invitations, requests and faults:

* `WorkspaceTypeCorrect`: `Spec => []TypeOK`
* `SeatsAreBounded`: `Spec => []SeatsPerPerson`
* `SettledInvitations`: `Spec => SettledStaysSettled`

The strengthening for the seats counts the requests about to insert (`Joining`) together with
the rows: a request passes `FindMember` only while the person has no row, so rows and
insertions under way together are never more than the requests there can be.

`RunReviewProofs` proves, for any number of runs, items, requests and faults and whatever
clients send:

* `RunsTypeCorrect`: `Spec => []TypeOK`: every card in a column of the board, whatever a
  client names
* `GhostsAreGone`: `Spec => []NoGhosts`
* `ReviewsAreOfSubmitted`, `DoneIsTicked`, `TicksAreKept`: the three action properties

`Mirrored` is the invariant of the mirror: while one request runs alone, a pending run with an
item whose title the template has lost is still on its list, or the request has yet to make the
list (`Awaited`).  `TicksAreKept` rests on the matching: whatever the order of the steps, one
with the title of an item takes that item, if no other of the card has the title and no earlier
step has taken it already, by an old title or an id; either way it stays with its tick
(`TitleIsTaken`, `MirrorKeepsTicks`).

Assumptions: those the modules name.  Of weight are `ScheduleAssumption` (later dates
for later runs), `CalendarAssumption` (months of 28 to 31 days that cover the calendar)
and, in `UserPlansAssumption`, the one administrator.  TLC evaluates all of them.

Only model-checked: the liveness properties (`DueRunsGenerated`, `PendingRunsGetCards`,
`DeletedSeriesLeavesNothing`, `ExpiredPlansEnd`, `TrialsEnd`), which are out of the prover's
reach, and the four that are violated.  Every invariant and action property of a passing run
is a theorem.  The inductive invariants (`IInv`, `CardsOK`, `BillsOK`, `BookOK`) were
checked with TLC on instances of the runs before they were proved.

## 5. What could follow

1. The composition of `OrgBilling` with `UserPlans` through the sync, and of both with the
   seat limit of `Workspaces`: what a workspace may do after its owner's plan has changed.
2. A series whose rule, and a workspace whose prices, change.
3. An abstract specification of the reviews, as `SeriesLedger` is of the planner and
   `OrderBook` of the billing, and the proof that `RunReview` implements it.
4. Storage accounting, one-time codes, due reminders, once it is written down what they
   promise.

## 6. Not modelled

Rendering, formatting, e-mail and push delivery, file previews, search, analytics,
export and the admin pages are queries or pure output.  The front ends are clients of
the API.  Permission checks guard operations but keep no state.  Projects, workflows,
sprints, epics, sites and time tracking read and write single rows, with no state across
requests.  Of the plans: the e-mails sent before a plan ends, the editing of prices and of
the terms of a coupon, billing cycles and end dates of workspaces.  Of the planner: a rule
that is changed, assignees, `moveSubtask`, the bulk operations, completion rules other than
the default, reminders.  Of workspaces: roles, project access, transfer of ownership,
custom roles, deletion.  The storage counter and the one-time codes are two
statements each, whose overlap is listed as a hazard; the code, its comments and its tests do
not say what is to hold there.
