# Verification of the OBS backend

OBS is the backend of a university information system: an Express server over a MySQL database
(InnoDB, accessed through Sequelize). Its handlers are `async` functions; one Node.js process
serves many requests at once, and any two of them interleave at every `await`, that is, at every
database statement. Nearly all state is in the database, so the correctness of the system is a
matter of which rows a handler locks, which snapshot it reads, and what it writes from what it read.
This project models the parts of the system where that is hard, model-checks them with TLC and
proves the main results with TLAPS.

## 1. Inventory

| Component | State | Operations | What is hard | What makes it correct |
|---|---|---|---|---|
| **Course enrolment** (`services/enrollmentService.js`) | `enrollments.status`, `course_sections.enrolled_count`, `capacity`, `is_active`, `schedules` | `enrollStudent`, `approveEnrollment`, `rejectEnrollment`, `dropCourse`, `createScheduleFromSection` | row locks in some handlers and unlocked snapshots in others; counter and rows written apart; checks made long before the write | seats bounded by the capacity, one section per course and term, decisions only on pending requests, no overlaps, counter = rows, no lock cycle |
| **Grades** (`gradeController.js`, `gradeCalculationService.js`) | marks, average, letter, point and status of an enrolment; CGPA of a student | `enterGrades`, `bulkEnterGrades`, `updateGrades`, `updateStudentGPA` | read, save and CGPA are three unprotected steps; a bulk entry repeats them; marks arrive in any order | what a row says follows from its marks; the CGPA follows from the rows; grade entry does not undo a decision |
| **Section administration** (`sectionController.js`) | capacity, `is_active`, `schedule_json` | `createSection`, `updateSection`, `deleteSection` | check and write are separate statements | capacity covers the enrolled; requests still fit |
| **Event registration** (`services/eventService.js`) | `event_registrations`, `events.registered_count`, `capacity` | `registerForEvent`, `cancelRegistration`, `promoteNextWaitlist`, `checkIn`, `updateEvent` | promotion runs after the commit of the cancellation, in its own transaction; cancellations are not locked | one registration per user, no seat granted at capacity, counter = rows, waitlist served |
| **Wallet and payments** (`walletService.js`, `paymentService.js`, the charges in `mealService.js` and `eventService.js`) | `wallets.balance`, `transactions` | `getWalletByUserId`, `createTopupSession`, `processPaymentWebhook`, charge | absolute writes from snapshots, repeated webhooks, lock upgrades that deadlock | a payment is credited once and exactly, balance never negative, balance = sum of rows |
| **Meal reservation** (`mealService.js`) | `meal_reservations` (status, owner, transfer) | create, cancel, use, transfer, accept | conditions are read in a snapshot and not repeated by the UPDATE: double use, transfers that race | a meal is served a bounded number of times, and owned only by whom it was offered to |
| **Schedule conflicts, prerequisites** | none (queries) | `checkScheduleConflict`, `timeSlotsOverlap`, `getAllPrerequisites`, `checkPrerequisites`, `gradeCompare` | interval boundaries, cycles in the prerequisite graph | overlap is symmetric and half-open; the search visits every prerequisite and ends |
| **Attendance and excuses** (`attendanceController.js`, `attendanceService.js`, `excuseController.js`) | sessions, records, excuse requests | open, close, check in, request, approve, reject | no transactions: two active sessions, check-in against review, a review that fails half way | active sessions bounded, an approved excuse is recorded and stays, absences add up |
| **Classroom reservation** (`reservationService.js`) | `reservations` | create, approve, reject | check and insert without a lock; approval by id of a row read earlier | only requests that overlap make overlapping reservations |
| **Timetabling** (`schedulingService.js`) | none until saved (`schedules`) | backtracking search, genetic search | undoing choices; the genetic search's stopping rule | a returned timetable satisfies the hard constraints, and the search gives up only when there is none |
| **Class schedule** (`createScheduleFromSection`, the GET of schedules, a script) | `schedules` | create the rows of a section that has none | count and insert in three kinds of request, one of them a read | copies of a section's rows bounded by the requests served at once |
| **Catalogue** (courses, departments, classrooms, sections, menus, cafeterias, announcements, calendar, profiles) | one table each, `course_prerequisites` | create, edit, delete, seed | find and write are separate statements; a course's prerequisites are deleted and inserted again | the prerequisites are what an undisturbed edit asked for; names are unique where an index says so |
| **Notifications** (`notificationController.js`, `notificationService.js`) | notifications, preferences, push subscriptions | read, delete, opt out, subscribe, push | preferences are written column-wise from an old read; pushing in four steps | who has opted out is not pushed to |
| **Accounts** (`authService.js`, `userController.js`, `middleware/auth.js`) | users, students, failure counter and lock, refresh and reset tokens | register, log in, refresh, log out, forget, reset, change, (de)activate | counter by read-add-write; password, link and tokens written by separate statements; tokens named by the second | wrong tries before a lock bounded, a reset ends the older sessions, users and student rows belong together |
| **Connection pool** (`config/database.js`) | 5 or 10 connections | acquire with a 30 s timeout | handlers hold one connection and wait for a second | somebody always proceeds |
| Background jobs, cache and rate limits, analytics, sensors | none that other parts read | periodic e-mails, read-through cache, aggregation | – | – |

How they interact: enrolment uses the conflict and prerequisite queries (on a second connection,
outside its transaction), is edited by section administration and graded by the grade service;
attendance reads enrolments; events and meals charge the wallet inside their own transactions; every
handler may call notifications after its commit. There are no messages between servers: processes
communicate only through rows, and the only synchronisation is InnoDB's row locks.

The hazards of the code, each at its line, are listed in `PROJECT.json` with the properties aimed
at them.

## 2. How the code is modelled

A request is a *slot* (a constant set such as `Enroller` or `Canceller`) with a program counter
`pc`; "idle" means that the slot serves nobody. The number of slots of a kind is the number of
requests served at once. The rules are the same in all modules:

* **Tables hold committed data.** The write of a transaction becomes visible with its commit, so the
  write and the commit are one action, and between the statement that locks a row and the commit the
  row is held by the request (`HoldsSection`, `HoldsRow`, `EventFree`, `Exclusive`, ...).
* **A plain SELECT in a transaction reads the snapshot of the transaction's first plain SELECT**
  (REPEATABLE READ, the default, which the code never changes). Where the snapshot is taken behind a
  lock, later reads are as good as current for the locked data. Where it is not, what was read is
  kept in the request (`seen`, the step it is in) and may be stale when it is written.
* **SELECT ... FOR UPDATE and UPDATE act on current rows** and wait for the lock. `FOR UPDATE` with an
  `include` locks the joined rows too: `enrollStudent` also holds the course row.
* **A refusal** is a rollback: the slot goes back to "idle" and the tables stay. A refusal at the
  first statement is not a step.
* **Failures** (a failed statement, a lock-wait or pool timeout, a crash of the server) are `Abort`:
  InnoDB rolls the open transaction back. Nothing is kept in memory across requests, so a restart is
  an abort of every slot.
* Names, texts, dates, logging, notifications and replies are left out, and so are permission checks
  other than as part of what makes a request a legal one.

### `Enrollment`: the core

`status[<<student, section>>]` is the status column ("none": no row; the unique index makes the pair
a key); `enrolled_count`, `capacity`, `is_active` are the section's columns; `pc` and `row` say which
statement a request is at and which enrolment it is about.

| Action | Code (`enrollmentService.js` unless named) |
|---|---|
| `EnrollLockSection`, `EnrollLockCourse` | `FOR UPDATE` of section and course, `is_active`, capacity (31-53) |
| `EnrollReadOwn` | the student's rows for this section and for its course in the term (55-92) |
| `EnrollCheckOutside` | prerequisites, schedule conflict and repeat, read on another connection (94-149) |
| `EnrollInsert` | INSERT as 'pending' and commit (151-192) |
| `ApproveRead`, `ApproveSave`, `ApproveCommit` | read and checks (200-238), `save` (240-244), `enrolled_count + 1` and commit (246-287) |
| `RejectRead`, `RejectCommit` | 296-366 |
| `DropRead`, `DropSave`, `DropCommit` | 424-501 |
| `GradeRead`, `GradeSave` | `gradeCalculationService.updateGrades` (84-122), as far as it moves the status |
| `Abort` | the `catch` blocks |

`EnrollmentLifecycle` is the abstract specification: ask, grant, refuse and leave, each one atomic
step with its full guard. `Enrollment` instantiates it: its state is the committed tables without the program counters,
so a request takes effect at its commit. With decisions one at a time the handlers implement it however many enrolment
requests race (`ImplementsLifecycle`, checked and proved).

`SectionAdmin` composes `Enrollment` with `sectionController.updateSection`: it reads and checks the
capacity, and later writes the columns whose wanted value differs from the one read.

### `EventRegistration`

One event. `regs` is the sequence of registration rows in the order of `registration_date`, a
destroyed row staying as "deleted"; `registered_count` and `capacity` are the event's columns.
`RegisterLock`/`Check`/`Commit` are `registerForEvent`; `CancelRead`, `CancelRegistered`,
`CancelWaitlisted` are `cancelRegistration`, which continues in `PromoteLock`/`Pick`/`Commit`
(`promoteNextWaitlist`, its own transaction). A promotion locks the row it has picked only by its `UPDATE`, so another
cancellation may delete the row under it; the count then grows all the same. `CheckInRead`/`Commit` are `checkIn`; `UpdateCapacity`
is `updateEvent`. An `Abort` between the commit of a cancellation and its promotion loses the
promotion, as in the code.

`EventLifecycle` is what the handlers promise: one seat, queue, leave, promotion, check-in or change of capacity is one
atomic step with its full guard, and a free seat goes to the head of the waitlist. `EventRegistration` instantiates it over
its committed tables; with cancellations served one at a time it implements it (`ImplementsLifecycle`, checked and proved).

### `Wallet`

One user's wallet. `ledger` is the sequence of transaction rows in the order of their commits.
`TopupRead`/`Insert`/`Write` are `createTopupSession` (with `TopupCreate`/`First` when the wallet is
opened by the top-up), `ChargeRead`/`Write` the charge in meal reservations and event registrations,
`WebhookLock`/`Dedupe`/`Commit` are `processPaymentWebhook`, `OpenWallet` the creation on first
look. The row of `transactions` refers to the wallet by foreign key, so inserting it takes a shared
lock that the UPDATE must upgrade: `DeadlockVictim` is InnoDB rolling one of the deadlocked requests
back. Nothing deactivates a wallet, so `is_active` is left out. A balance read is an integer number
of units; the two decimals of the column do not matter to the properties.

### The services of the campus

Nine further modules model the services that share no table with those above or with each other.
Each has its own slots, type invariant, `Init`, `Next` and properties.

| Module | State | Actions and the code |
|---|---|---|
| `Attendance` (one section) | `session`, `expired`, `record`, `excuse` | `attendanceController` opens and closes, `attendanceService` checks in, `excuseController` requests and reviews. No handler uses a transaction: every statement commits, and only the unique indexes of records and excuses hold two requests apart. Distance, QR code and spoofing checks only decide about a refusal, so they are a choice. |
| `MealReservation` (one meal) | `ticket`, `scans` | one read action per handler (its snapshot and checks) and one write (`UPDATE` by primary key, commit); the write lands on whatever the row has become. Whether a diner has a meal is asked of the rows (`HasMeal`), at the offer and at the acceptance; `createReservation` does not ask. |
| `Accounts` (one account's sessions, all registrations) | `password`, `active`, `attempts`, `lock`, `refresh`, `link`, `userRow`, `studentRow` | `Registration`, `SignIn`, `Recovery`, `Activation` group the statements of the handlers. A JWT is named by the second it was signed in: the payload of one account's tokens differs in nothing else, and the unique index refuses the second one of a second. `resendVerification` sends nothing and activates the account. |
| `RoomBooking` (one room, one day) | `bookings` | `BookRead`/`BookInsert` are `createReservation`, whose conflict query is a plain SELECT with closed intervals; `DecideRead` and `ApproveBooking`/`RejectBooking` the decisions |
| `Timetabling` | `assignments`, `usedSlots`, `tried` | `Assign`, `Backtrack`, `Finish` are the recursion of `solveCSP` made explicit; the instance's teachers and students are chosen initially. `instructor_id` may be null: `Nobody` is the key that such sections share in `usedSlots`. |
| `GeneticSearch` | `population`, `best`, `found` | the generations of `solveWithGeneticAlgorithm`, each random choice left open, with the code's fitness (`Gain` of each section) |
| `Catalogue` (one table at a time, `catKind`) | `entries`, `links` | the administrators' handlers share one shape: find in one statement, write in the next. What differs from table to table (a unique index, a check before, soft deletion, a list of prerequisites) is told by the kind. |
| `Gradebook` | `grades`, `cgpa` | an entry reads the enrolment, saves it with average, letter, point and status, queries the CGPA and writes it. Marks are whole, averages in tenths, points in halves. The code sums the average in doubles and looks the letter up with the unrounded sum; `RoundedDown` holds the marks whose sum falls short of a floor they should reach (an IEEE computation of all 9460 such triples finds 290 that do, and none whose sum exceeds one it should not reach). |
| `Notifications` | `notes`, `prefs`, `subs`, `dead` | the inbox's handlers, preferences, subscriptions; `createNotification` (insert only), `sendNotification` and the steps of `sendPushNotification`; `dead` is the push service's knowledge of a browser that is gone |
| `ClassSchedule` | `copies`, `generated` | `createScheduleFromSection` called by approvals (in their snapshot, behind the section's row), by GET /enrollments/schedule and by the script; the INSERT waits for the section's row because of the foreign key |

`MCCampus` puts nine of them (all but `GeneticSearch`) in one run: `part`, fixed in the initial state, says which service
moves while the others stay as they began. This is a disjoint union of state spaces, sound because the
services share no table. Where two operations of a service have nothing to do with each other the
service is cut in parts (`meals` and `gifts`; `registration`, `lockout` and `sessions` of `Accounts`; `openings` and `attendance`;
`requests` and `decisions` of `RoomBooking`; `inbox`, `preferences` and `subscriptions`).

## 3. What the runs check

| Run | Instance | Result |
|---|---|---|
| `EnrollmentSerial` | 2 students, 2 sections of a course with a seat each, 2 enrolments and 1 decision at once; fair | `TypeOK`, `CountIsHeads`, `OneActivePerOffering`, `ImplementsLifecycle`, `EveryRequestAnswered` |
| `SectionEdits` | 2 students, 2 sections of a course, in three parts (below) | `AdminTypeOK`, `OverbookingBounded` (overbooked by at most one seat), `OnePendingPerOffering`, `AdmissionHolds` |
| `EventSerial` | 3 users, capacity 2 that may shrink to 1, 2 registrations, a cancellation and a check-in at once; one registration slot and the check-in may fail; fair | `TypeOK`, `OneActivePerUser`, `CountIsRegistered`, `GrantsBelowCapacity`, `WaitlistServed`, `ImplementsLifecycle` (that of events) |
| `WalletRaces` | 2 top-ups, a charge and 2 webhook calls at once over two payments, all of which may fail; fair | `TypeOK`, `PaymentOnce`, `BalanceNeverNegative`, `WebhookCreditsExactly`, `EveryWalletRequestAnswered` |
| `CampusServices` | the nine services above; two or three requests of a kind at once | see the next table |

| Part of `CampusServices` | Property | What it says |
|---|---|---|
| all | `CampusTypeOK` | the type invariants of the nine modules |
| openings | `ActiveSessionsBounded` | however many sessions are opened, no more are active than requests are served at once |
| attendance | `AbsencesAddUp`, `ExcusedStaysExcused`, `ApprovedIsRecorded` | the statistics count each absence once; an excuse is not lost to a check-in; an approved excuse is recorded unless its review failed half way |
| meals, gifts | `ServedBounded`, `OwnedByInvitation`, `GiftsBounded` | one serving per clerk at most; a ticket belongs only to its maker or to somebody it was offered to; a diner never holds more meals that others reserved than acceptances are served at once |
| registration, lockout, sessions | `WholeRegistrations`, `TriesBounded`, `SessionsEndWithReset` | a user and a student row or neither; wrong passwords before the lock bounded although failures get lost; after a reset only a log-in that overlapped it has an older session |
| requests, decisions | `CrowdBounded` | reservations overlap only as far as their requests did |
| timetable | `TimetableFeasible`, `FailureIsReal` | at any point of the search the partial timetable satisfies the hard constraints; if every section has an instructor, "none" means that there is none |
| catalogue | `PrerequisitesExact`, `CopiesBounded` | an edit that nothing disturbed leaves exactly the list asked for; a cafeteria of one name exists at most once per request served at once |
| grades | `RowsExplained`, `CgpaRepaired` | the point is that of the average, also after a race, up to rounding on a letter's floor; where nothing overlapped the last save, average, letter, point and status are those of the marks; one undisturbed entry makes the CGPA that of the rows again, whatever raced or failed before it |
| inbox, preferences, subscriptions | `OptOutRespected` | after an undisturbed refusal no push is sent that read the preferences later |
| schedule | `ScheduleCopiesBounded` | a section's rows are in the table at most once per request served at once |

The remaining runs each refute one statement that a document, comment or test makes of the program
(the quotations are in `PROJECT.json`, `findings`):

| Run | Statement | What happens |
|---|---|---|
| `EnrollmentOverbooked` | the capacity check is atomic | two approvals read the same free seat |
| `EnrollmentOverlap` | no overlapping sections | both are requested before either is approved |
| `EventOverbooked` | a full event puts you on the waitlist | one cancellation served twice gives two seats back |
| `WalletLedger` | a paid top-up is in the wallet | the other top-up writes its own balance over it |
| `GeneticTimetable` | an individual of fitness 1000 or more meets all constraints | every placed section earns up to 130 and a clash costs 1000, so with 16 sections a timetable with a clash is accepted; the instance has 16 sections, 4 rooms, 4 slots and two founders that crossover joins |
| `GradeRounding` | an average of 60 to 64 is DD | 62, 62 and 52 average 60, the sum of doubles is 59.99999999999999, the letter FD and the course failed |
| `GradeRepeats` | of a repeated course only the best grade counts | FD and then AA: both count, since only a repeat that scored 0 is skipped |

The models also reach, without a run of their own: an approval that overwrites a rejection it did not
see, a capacity set below the number enrolled by an edit that read an older count, a checked-in
registration deleted by a cancellation that had read it before, a promotion lost to a failure
after the commit of its cancellation, a raised capacity that leaves the waitlist
waiting for the next cancellation, and a search that reports "null if no solution" (`schedulingService.js:120`)
although there is one, because two sections without an instructor share the key `null`. The conditions under which the passing properties hold name
exactly these.

**Bounds.** Every race in this code is between two or three requests over one counter or row: the
instances give each kind of handler two slots where the question is about handlers of that kind, one
seat, and one more contender than seats. `MaxRegistrations` and `MaxLedger` bound the rows ever made;
past them a request is refused, as the code refuses it for other reasons, so the bound strands
nobody and the deadlock check stays on. They leave room for at least one re-registration after a
cancellation, and for every payment next to several top-ups and charges. Students, users and slots
of a kind are interchangeable, so `SectionEdits` and `EventOverbooked` use symmetry; the runs with liveness do not. That an event
without limit (capacity 0) behaves is left to the theorems, and so is its safety with several cancellations at once.

`SectionEdits` has 2.3 million states in three parts that its initial state tells apart (`InPart` of `MCSectionAdmin`). In "seats"
two sections of a course have a seat each and three requests are served at once, among them two decisions; in "grades" a grade
entry runs among one enrolment and one decision; in "edits" one of the sections is edited besides, between capacity 1 and 2.
`OverbookingBounded` is a claim about "seats". In general it fails under edits, which may set a capacity below the count; the run
does not show it because "edits" has one decision at a time and capacities that differ by the one seat the bound allows.

`CampusServices` has about 680,000 states. Its constraints only cut what is symmetric or repeats: ids
that just tell rows apart are used in order (`LessonsInOrder`, `EntriesInOrder`, `CodesInOrder`; there is no symmetry set,
because a liveness property is checked), a part moves only the slots its question is about (`OnlyTeachers`, `OneTeacher`,
`NoDecisions`, `RightPasswords`, `OneNote`, `OnePreference`, `FewEntries`, `FewSections`), decisions about a room are explored for the two
touching times 0-1 and 1-2 (`TwoTimes`) while requests use all hours up to `LastHour` = 3. `MaxScans`,
`MaxSecond`, `MaxPassword` and `MaxEntries` bound what could go on for ever; one more than the number of slots of a kind is
enough for a request that follows the overlapping ones. `LastAlone`: of the grade
entries the last one comes alone, as the one that repairs what those before it did to each other. Their marks average 60 and fall
short of it, or fail (`MCRoundedDown`, `MCEntered`). `OneMeal` and `Giving`: scans, cancellations and transfers of one reservation, and
three reservations of one diner offered to another by two transfers at once, enough for a third one to be refused. `TryBound` is 7 for three attempts and two log-ins at once.
The parts may stop (all meals eaten, a timetable found), so this run does not check for deadlocks, nor do
`GeneticTimetable` and the two runs about grades, which end.

**Where a property needs a condition**, the run states it by its constants: `CountIsHeads`,
`OneActivePerOffering` and `ImplementsLifecycle` hold with one decision at a time and no grade
entry; `CountIsRegistered`, the `ImplementsLifecycle` of events and `WaitlistServed` with one cancellation at a time, the
last if no cancellation fails after its commit. Without the conditions they fail, which is what
`EnrollmentOverbooked` and `EventOverbooked` show from the documents' side.

**Fairness.** `FairSpec` makes every started request strongly fair in its own steps (a check-in, which waits for nothing, weakly): Node's event loop
runs the continuation of every statement that has answered, and InnoDB queues the requests for a row
lock and grants them in turn, so a request whose lock becomes free again and again is served.
Nothing makes a client send a request: the first step of each handler has no fairness. The deadlock
of two top-ups is broken by InnoDB's detector, which is on by default. `AttFair` asks less: weak fairness of
the steps of a review that has been started, which touches rows nobody else holds for long.

## 4. What is proved

For every value of the constants, under the named assumptions of the modules: the kinds of slots are disjoint, the sets
that are counted are finite, bounds are natural numbers, amounts positive.

`SumTheorems` holds the lemmas about sums that balances, averages and scores rest on: `SumFunction` over a finite set is an
integer (`SumType`), one summand can be taken out (`SumRemove`), and a bound on each summand bounds the sum (`SumBounded`,
`SumAtMost`). The induction they need cannot take its statement as an operator, so `EveryNumber` and `SmallerFirst` take it
as a set: the numbers, or the subsets of a finite set, for which it holds.

`EnrollmentProofs`, about `Enrollment` and `SectionAdmin`
* `TypeCorrect`: `TypeOK`, together with `SlotInv`: a slot is only in the steps of its own kind of handler.
* `OverbookingIsBounded`: `enrolled_count <= capacity + |Decider| - 1`. `OverbookingBounded` is not
  inductive: what is, is `SeatsInv`, which counts the approvals that have passed the capacity check
  and not yet counted (`Promised(s)`). The checks guarantee count < capacity when a seat is promised;
  the number of promises is at most the number of slots, so count plus promises stays within the bound.
* `CapacityIsRespected`: with one decision slot (`OneDecider`) that bound is the capacity, and the statement that
  `EnrollmentOverbooked` refutes for two slots is a theorem.
* `PendingIsUnique`: from `EnrollInv`, which says that the locks of section and course are exclusive,
  and that behind them what the request read is still true (`SeatStillFree`, `NoRivalPending`).
* `AdmissionIsCurrent`: an action property from the same invariant and `RowsExist` (decisions only
  touch rows that exist).
* `CountIsExact`, `OneSectionPerCourse` and the refinement `LifecycleIsImplemented`, each of the form
  `DecisionsSerial => (Spec => ...)`. `DecisionsSerial` says that there is one decision slot and no grade entry, the
  constants of `EnrollmentSerial`; the number of enrolment requests is free. Without it the three are false, which is what
  `EnrollmentOverbooked` shows. The invariant is `SerialInv`: the counter is the number of enrolled rows (`CountInv`), what
  the decision in progress has read is still so (`DecisionCurrent`), and behind the course lock no other section of
  the offering is asked for or taken (`NoRivalActive`). The refinement then maps each commit to a step of `EnrollmentLifecycle`
  and every other statement to a stutter.
* `AdminTypeCorrect`, `AdmissionUnderEdits`, `PendingIsUniqueUnderEdits` about `SectionAdmin`. An edit's `UPDATE` waits for the
  row that `enrollStudent` has locked (`EditElsewhere`), so the invariant of enrolment survives the edits. The overbooking
  bound does not: an edit may set a capacity below the count.

`WalletProofs`
* `LedgerIsExact`: where nothing stale is written (`NothingStale`: only webhooks change the balance, any number of them, or
  requests are served one after the other) the balance is the sum of the transaction rows. `ExplainInv` adds that
  whoever is under way has seen the balance of the moment, and `SumOfAppended` that a row more adds its amount. `WalletLedger`
  refutes the same statement for two top-ups.
* `WalletTypeCorrect`, `PaymentsAreCreditedOnce`, `BalanceStaysNonNegative` and the action property
  `WebhookAddsWhatWasPaid`, all from one invariant `Inv`: `LockInv` (between its lock and its commit a webhook is
  alone, and no top-up holds a shared lock) and `KnowInv` (the webhook's balance is the current one and the payment is not
  in the rows; a charge's price is covered by the balance it saw).
  None of the three is inductive alone: a stale balance is written by top-ups and
  charges all the time, and only `KnowInv` says why it is harmless to these properties.

`EventProofs`
* `EventTypeCorrect`, `RegistrationsAreUnique` and the action property `SeatsAreGrantedBelowCapacity`: the lock on
  the event makes registrations and promotions exclude each other (`LockInv`), and behind it what they read still holds
  (`KnowInv`); a user's active rows are then unique (`OnePerUser`).
* `CountIsExact`, under the condition `OneCanceller` that the run `EventSerial` has by its constants: `StatusInv` says that
  the status a cancellation has read is still the one in the row. With two cancellations it is false, as `EventOverbooked` shows.
* `SeatsStayWithinCapacity`, under the same condition: with a capacity nobody changes (`CapacityInv`), no more users are
  registered than it says.
* `LifecycleIsImplemented`, under the same condition: every step is one of `EventLifecycle` or a stutter. What has to be shown is
  that nothing stale is acted on: behind the lock the steps of the waitlist still know that no seat is free, and that
  nobody has waited longer than the row they picked (`WaitInv`). Failures, check-ins and changes of capacity are free.

`TeachingProofs`, about `Attendance` and `Gradebook`
* `AttendanceTypeCorrect` with `KindInv`; `SessionsAreBounded` from `RoomLeft`, which counts the active sessions together
  with the requests that have looked and not yet inserted; the action property `ExcusesStayRecorded`.
* `StatisticsAddUp`: from `StatsInv`. A key outside `contested` and `broken` has at most one reviewer at it (`Alone`), and its
  excuse and its record agree except between that reviewer's two statements (`InStep`); the theorem adds up the three disjoint
  sets of sessions.
* `GradesFollowMarks` and `CgpaFollowsGrades`: an entry that nothing overlaps is the only one under way (`ServedAlone`), and what it
  has read is still stored (`EntryIsCurrent`), so its save leaves a row that follows from the row's own marks
  (`GradedIsExplained`). Average and point are written by one save from one computation, so they agree after a race too. The
  letter is the one of the average or, where `RoundedDown` says so, the one below (`LetterIsExplained`); the theorem holds for
  every such set. A CGPA that is settled is that of the rows because the sum under it depends on the student's own rows only
  (`CgpaOfOwnRows`), and every save of one of these unsettles it.
* `GradeTypeCorrect`, and `CgpaStaysOnScale`: no CGPA that is stored, or on its way to be, exceeds 4.00, whatever entries race
  or fail. Neither needs the condition: an entry may average stale rows, but rows that are each on the scale (`OnScale`,
  `ScaleInv`; `SumBounded` carries the bound from the rows to the average).

`TimetableProofs`, about `Timetabling`, `ClassSchedule` and `RoomBooking`
* `TimetableTypeCorrect`, `SearchStaysFeasible`, `SearchIsComplete` (if every section has an instructor): `usedSlots` is exactly the table of the places assigned so far
  (`MarksExact`), and the loops of the courses on the path have passed no place that a solution agreeing with the path wants
  (`NothingMissed`), so a search that runs out of places at the first course proves that there is no solution. The courses are
  numbered `1 .. N` in the order of the search. The invariant takes `Nobody` for a person as the code does (`Strict`), which is
  feasibility where everybody who teaches is somebody (`FeasibleIsStrict`).
* `ScheduleTypeCorrect`, `CopiesAreBounded`: a counting argument over the requests that counted no
  rows and have yet to write theirs (`Owing`), approvals with an old snapshot among them. `ScheduleAssumption` asks for at least
  one section.
* `BookingTypeCorrect`, `CrowdIsBounded`: at any hour, the reservations that are there or that an approval may bring back (`Present`) and the
  insertions under way (`Coming`) are together at most `|Booker| + |Decider| - 1`. A rejected reservation comes back only
  through an approval that had read it before (`Stale`), and one decision must have rejected it, hence the `- 1`;
  `BookingAssumption` asks for at least one decider, without whom the bound would be one too low.

`GeneticProofs`, about `GeneticSearch`
* `ModestRequestsAreFeasible`: up to fifteen sections (`ModestRequest`) the comment that `GeneticTimetable` refutes for sixteen is
  right. A section adds at most 130 and one that breaks a constraint at most -870 (`GainBounded`), so with one of them the sum
  stays at or below 14 * 130 - 870 = 950 (`HighScoreIsFeasible`). The search is used from eleven sections on.

`CampusProofs`, about `Accounts`, `Notifications`, `Catalogue`, `MealReservation`, and the services together
* `AccountTypeCorrect`, `RegistrationsAreWhole`, `ResetsEndSessions`: `CarryInv` says that no password a request
  carries, and none whose reset has revoked the tokens, is newer than the stored one. No e-mail address is the placeholder for
  "no user".
* `TriesAreBounded`: with two requests at once at most `M(M + 1)/2 + 1` wrong passwords are judged before an account locks,
  for every limit `M` (`TwoAtOnce`: exactly two slots, and `TryBound` at least that much); for the code's limit of 5 that is 16. The
  counter itself is no measure, because a log-in that is late sets it back. What decreases is a potential of two readings, the
  stored counter and the one a late log-in still holds (`Fits`): each wrong password uses up one of them.
* `NoteTypeCorrect`, `OptOutIsRespected`: whoever counts as opted out has a row that says so (`OptOutRecorded`), a notification begun since, while
  that stands, is still before its look at the preferences (`OutStillStands`), so the pushes under way began before
  (`PushedBegunBefore`).
* `CatalogueTypeCorrect`: a request carries what its next statement needs (`Fit`).
* `PrerequisitesAreExact`: a prerequisite that was promised is linked, still to be linked by the request
  that promised it, or of a course deleted meanwhile (`Kept`), and nothing else is linked.
* `CafeteriaCopiesAreBounded`: copies of a name and the requests about to insert it are together at most the seedings
  served at once.
* `MealTypeCorrect`; `MealsServedAreBounded` from `ServeInv`: a meal handed out is never reserved again, so only the scans
  already past their SELECT can add to it, and they are counted with those that did.
* `OwnersWereInvited` from `OfferInv`, which extends the property to the acceptances under way and to the diners that offers name.
* `GiftsAreBounded` from `GiftInv`: each meal a diner was given, or an acceptance under way will give, goes with a slot. An
  acceptance that looks while the diner holds one is refused; one that looks while he holds none comes on top only of
  other acceptances, each of which occupies a slot.
* `CampusRunsItsParts`: a behaviour of the composed instance is, seen from each service, a behaviour of that service's own
  specification, so what is proved of the nine modules holds of the composition. `CampusTypeCorrect` (`CampusTypeOK`) follows
  from it and the nine type theorems.

**Only model-checked:** every liveness property (`EveryRequestAnswered`, `WaitlistServed`, `EveryWalletRequestAnswered`,
`ApprovedIsRecorded`): fairness and ENABLED are beyond the proof system. Every safety and action property of a passing run, and
both refinements, are theorems as well. Of the seven refuted statements four are theorems under the condition that the run breaks. `NoOverlappingEnrolments`, `DocumentedLetters` and `BestGradeCounts` fail even
if requests are served one after the other: the conflict check ignores pending rows, and the arithmetic and the condition on repeats
are what they are.

## 5. What is not modelled, and the plan

Inside the modelled components:

* payments of zero or less: the models assume that what is paid is positive (`WalletAssumption`), which the payment provider sees to and
  the code does not check; `BalanceNeverNegative` rests on it;
* prerequisites that name no course: `createCourse` and `updateCourse` pass over them as over those of a deleted course, which `Link` models;
* the deletion of sections, events and users (which cascades), the price of an event as a joint
  transaction with its registration, two wallets, and the replies to the client;
* reads, reports, PDFs, iCal and spreadsheet exports, analytics, dashboards, sensors: they compute and write nothing;
* the arithmetic of distance and spoofing checks, marks that are not whole numbers, and the rounding of the CGPA to two decimals;
* `paymentService.createTopupSession`, `createPendingTransaction`, `completePendingTransaction`, `refundTransaction`,
  `createBulkNotifications` and `sendAttendanceWarningNotification` have no caller; `verifyEmail` looks for rows that
  nothing creates.

Whole components:

* **Background jobs.** `eventReminderJob`, `mealReminderJob` and `analyticsAggregationJob` query columns the tables do
  not have (`Event.start_date`, `MealReservation.reservation_date`, `User.status`, `AttendanceSession.session_date`): the first
  query fails, the job catches it, logs, and changes nothing. `absenceWarningJob` reads statistics and sends
  e-mails without remembering whom it wrote to. The log clean-up and the backup work on files.
* **Cache and rate limits.** The cache middleware and all limiters but the global one are not mounted.
* **Connection pool.** `enrollStudent` and `approveEnrollment` hold one connection and wait for a second; a wait that times out is an
  `Abort` of the models. Whether everybody can wait at once is left to a module `ConnectionPool`.

Next, in order:

1. `ConnectionPool`; deletion of events and sections.
2. The interval tests of `scheduleConflictService` and `reservationService` as operators, compared with sets of minutes,
   and the depth-first search of the prerequisites against transitive closure.
