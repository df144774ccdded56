# A verification project for study-track-server

TLA+ models of the parts of the server whose mistakes cost money or send texts
twice, the TLC runs that check them on small instances, and TLAPS proofs, for
every instance, of the ledger, the cash accounts, the obligations, the queues, the
coins, the test sessions and a teacher's day. Paths below are relative to the repository
(`src/services/x.js` is `services/x.js`).

## 1. The system

An Express server over PostgreSQL (Prisma), one schema per school branch, in one
Node process. Handlers interleave at every `await`; transactions run at READ
COMMITTED; cron jobs run in the same process.

| part | state | operations | what is hard |
|---|---|---|---|
| cheques, invoices, deposit (`payment`, `invoice`, `invoiceGeneration`, `depositSettlement`, `studentAccount`) | `Payment`, `MonthlyInvoice`, `PaymentAllocation`, `StudentAccount`: four tables of which three columns are derived | pay, void, edit, release, move, refund, correct, cancel, restore, generate, regenerate, settle | a dozen operations that must keep every derived column; prices computed before the transaction; passes that are not one transaction |
| cash accounts (`paymentAccount`, `accountTransfer`, `expense`, `externalIncome`, `salaryPayment`, `damagePayment`) | `PaymentAccount.balance`, the append-only `AccountEntry`, the documents | post, void, edit, transfer, correct, archive, set opening balance | lock order, double voids, checks before locks |
| message queue and penalty notices (`messageQueue`, `penaltyNotificationQueue`, `message`) | queue rows, delivery rows, a busy flag in memory | queue, loop, recall, recover | recalls racing with the loop, crashes, lost answers |
| finance reconciliation (`jobs/financeReconcile.job.js`) | none (reads) | compares derived columns with their sums | its invariants are properties here |
| coin market (`market`, `premium`, `penalty`, `coin`) | `User.coinBalance`, `CoinTransaction`, `MarketProduct`, `MarketOrder`, penalty points | order, cancel, decide, buy premium or a package, give and take coins, daily pass | hardly a transaction: each statement commits alone |
| payroll and damage obligations (`salaryPayment`, `damagePayment`, `payroll`, `payrollRecalc`, `payrollDeduction`, `damageCharge`) | `PayrollEntry` and `DamageCharge`, their payments and allocations | pay, void, edit, generate, recalculate, cancel | FIFO from rows read without a lock, compare-and-swap per row |
| inventory (`inventoryStock`, `inventoryCheck`, `inventoryTransfer`, `inventoryDamage`, `damageCharge`) | stock rows, sheets, damages, charges | add, correct, move, check, submit, damage, charge, waive, cancel | sheets submitted twice, damages taken back twice |
| a teacher's day (`attendance`, `lessonCredit`, `gradePenalty`, `excuse`) | `Attendance`, `LessonCredit`, `Penalty`, penalty points | mark, credit, revoke, recheck, cancel, excuse | several credits share a day; one of them remembers it |
| test sessions (`testSession`, `testResult`, `testBinding`, `jobs/testSessionExpiry.job.js`) | attempts, answers, results, extra points, grants | start, save, submit, expire, grade, mark | no transaction, double clicks, a handler that dies between closing and grading |
| branch transfer (`branchTransferFinance`, `branchTransferStudent`) | the ledgers of two branches | plan, write, follow up | the plan is not under the locks that the write takes |
| prices (tariffs, discounts, services, months) | versioned tables | resolve a price | pure functions of dates |
| expense limits, schedule drafts, grading windows, diagnostics, check-in, devices, parental control, tasks, users, AI, statistics, plumbing | their tables | | see section 9 |

How the parts meet: a cheque, a refund and a transfer post to a cash account at
the end of their transaction, after the row lock of the student (lock order
student, then accounts by id). A salary or damage payment posts in the same way
and updates its obligations with compare-and-swaps before it. A submitted sheet
creates damages, a damage is charged to people, and a charge is an obligation. A
transfer to another branch writes both ledgers in one transaction. Penalty points
are shared by the shop (which closes above a limit), packages bought with coins,
and the penalties of a day. Every operation that frees money calls
`settleDepositInTx` in the same transaction. The generation pass writes invoices
and then applies deposits student by student. A new message or penalty wakes its
queue's loop; `index.js` wakes both at start.

What makes each part correct:

- ledger: `paidAmount` is the sum of the live allocations, `status` follows from
  it, no month is overpaid, no cheque overspent, the balance is what its schema
  comment says; debt and deposit do not stand side by side; oldest month first;
  a month that an administrator emptied is not refilled behind his back;
- cash: a balance is the sum of the live documents and the corrections; no
  circle of lock waits;
- coins: a balance is what its rows say, on every path; a closed order was refunded;
- obligations: never overpaid; what is paid is allocated, once; status follows;
- stock: what was entered, less what standing damages say; a sheet posts once;
- a day: points are taken and given back once; revoking credits restores the day;
- attempts: one at a time, a total that is the sum of its parts, none left open;
- transfer: two ledgers are one wallet, and debt and deposit arrive whole;
- queues: one loop, no unexplained second copy, truthful rows, what is left is
  taken up again.

The hazards these rest on are listed with their lines in `PROJECT.json`.

## 2. Modules

| module | what it is |
|---|---|
| `PrefixSums` | sums of integer functions over `1..N` and over a finite set, and the overlap of two intervals of money |
| `StudentLedger` | cheques, months, allocations, deposit of every student; all operations on them |
| `StudentWallet` | what the ledger promises about money, in four numbers per student |
| `BranchTransfer` | extends `StudentLedger`: the ledgers of one pupil in several branches, and the transfer between them |
| `CashAccounts` | accounts and documents, one SQL statement per step |
| `Obligations` | what a person is owed or owes, and payments on it: a read and a write per request |
| `DeliveryQueue` | both queues, one stretch of code between two awaits per step |
| `CoinMarket` | coins, orders, premium, packages, coins by hand: one statement per step |
| `Inventory` | stock rows, sheets, damages and charges: reads before a transaction, and the transaction |
| `TeacherDay` | one past day of a teacher, its penalties and credits |
| `TestSessions` | a student's attempts at a test, one database call per step |
| `MC...` | symmetry and constants that a cfg cannot express |
| `PrefixSumsProofs` | lemmas about sums, bounded maxima and the overlap |
| `StudentLedgerProofs` | the derived columns; what settlement does with a deposit; the refinement to wallets; transfers between branches |
| `CashAccountsProofs`, `ObligationsProofs`, `DeliveryQueueProofs`, `CoinMarketProofs`, `TestSessionsProofs`, `TeacherDayProofs` | the proofs about these modules |

Operators named `...` under a comment "A bug:" are broken variants of a
definition. Nothing uses them; they show which mistake each property catches.

### StudentLedger

`ledger[s]` is a record with the columns of the student's rows. A row lock on
`StudentAccount` opens every transaction that moves a student's money, so such a
transaction is one step. The body of a transaction is an operator on the record
(`CreatePaymentInTx`, `VoidPaymentInTx`, `ReleaseInvoiceAllocations`,
`ReworkAllocation`, `RefundDeposit`, `Cancel`, `Restore`, `Replace`,
`AmendBelow`, `AmendInPlace`, `Spend`), and an action composes bodies as its
handler does, with the trailing `Settle`.

Two things the lock does not cover are steps of their own. `regenerateInvoice`
reads and prices an invoice before its transaction: `StartRegenerate` puts what
it read into `jobs`, and one of `CommitReplace`, `CommitAmendBelow`,
`CommitAmendInPlace`, `Conflict` finishes it, with the compare-and-swap of the
code as its guard. `generateForMonth` writes without the lock and applies deposits
later: `GenerateInvoice` adds the student to `due`, `ApplyDue` visits it, and
`FailDue` is a visit whose error `applyDepositsForStudents` logs: the student is
dropped from the pass with its debt. `Restart` drops what is in memory and begins the
start-up pass.

`allocateFifo` and the two-pointer walk of `settleDepositInTx` are written in
closed form: month `m` gets the part of `(0, money]` that lies between the debts
before it and the debts up to it, and cheque `p` pays month `m` with the overlap
of its deposit and the month's share. The loops compute the same numbers; the
closed form is what makes proofs possible.

Abstractions: allocation rows of one cheque to one month are merged, so a rework
acts on any part of their sum; the order of cheques (`paidAt`, `receiptNo`) is
their number, and a new cheque may take any free number because payments can be
back-dated; `allocatedAmount` is the sum of allocations and not stored; prices
are any value of `Prices` at any time; `cash` sums what the operations post to
cash accounts. Bulk operations (`cancelMonth`, `regenerateForStudents`,
`regenerateAllUnpaid`, `writeOffStudentDebt`, `forgivePartialInvoice`) are
sequences of the single ones. A bound on corrections (`MaxAdjusted`) and on jobs
(`MaxJobs`), and `VisitsFail`, which says whether visits may fail, are the only guards
that the code does not have.

### CashAccounts

A request is `idle`, before its compare-and-swap (`cas`), or inside its
transaction (`open`) with postings to make and postings made. `PostEntry` takes
the row lock of the account and waits while another open transaction has posted
to it; `CompareAndSwap` waits for whoever voids the same document and fails when
the document is no longer live; `ReadBalance` is the plain read that a transfer
makes before its increment and takes no lock. `Commit` publishes, `Rollback`
forgets, at any point (a failed check, a timeout, a lost connection).
`isActive` is folded into `archived`; documents of one account are one kind
(`Singles`), in both directions. Refunds cannot be voided in the code: the model
is a little more generous there. An account begins with any of `Openings`
(`createAccount`). `updateAccount` is a count of entries (`BeginOpening`) and a write
(`SetOpening`) with anything between; `erased` remembers what the entries of the
account said when the write passed over them.

### DeliveryQueue

Rows survive `Crash`, the loop, the busy flag and open requests do not. A loop
goes find, claim, send, report, close, find, ..., exit; recalls, new texts and
failing database calls come between any two of these. `send` has three outcomes:
taken, refused, taken with the answer lost. `kind` says which queue a behaviour is about:
messages have delivery rows and recalls; penalty notices are reset from
`processing` at start. Branches have independent queues, one is modelled. The
rate limit, the clean-up of old rows and attachments are left out. `NLoops` is
larger than 1 so that a second loop could show; `OneLoop` says it never does.

### BranchTransfer

The `Students` of `StudentLedger` are here the branches, so that every operation
of both ledgers is the one that is checked there. `BeginTransfer` is
`planStudentFinance`, computed under an advisory lock that only transfers take;
`CommitTransfer` is `writeStudentFinance` with its three checks; the `After...`
actions are the calls of `afterStudents`, each of which may fail and leave the
rest to run, but for the read in `AfterRead`, whose failure skips the rest.
`overwritten` remembers a commit that wrote over a month which was restored and paid
since the plan; no other history is excepted. The plan is five selects at READ
COMMITTED in the code and one snapshot here; a plan put together from different
moments is stale like one that is made early, which the model has. In the code the
steps after a commit may overlap with the next transfer: `TransfersWait` says
whether they do. The run has it TRUE, and the theorems hold either way. Cheques are entered in the order of their dates, and corrections and
cheques are bounded over both branches (`MaxAdjusted`, `MaxReceipts`, `MaxWorth`,
`MaxTransfers`). Regeneration is left to the runs of `StudentLedger`.

### Obligations

Salaries and damage are written alike in the code, and `kind` picks the
differences (a salary is cancelled without a condition, a charge is not).
`Begin...` is everything a handler reads; `Commit...` is its transaction: the
rows whose condition matched stay locked to its end, so checks and writes are one
step. Everything may happen between the two. `BeginRewrite`/`CommitRewrite` stand
for every recalculation of an amount (recalculation of a month, resync of sealed
rows, withholdings); what it computes is any of `Prices`. `Create` and
`Regenerate` are the two branches of the pass that writes a month.

### CoinMarket

Nothing but handing out coins and lowering points is a transaction here. A step
is one statement; `Die` ends a handler between two of them, and `torn` remembers
which coins it had moved and not booked. `ops` is chosen at the start from
`Mixes`, so that operations that can meet are explored together without exploring
all of them together. Blocks and the
permissions of the shop, which only refuse requests, are left out.

### Inventory

`Posted` and `Consistent` are `postMovement` and `assertStockConsistency`. A
submission is one transaction that repairs, breaks and removes, and rolls back as
a whole. `syncChargedAmount` reads and writes in two steps, because it sums what
it sees and writes without a condition; `unwaiveDamage` does too. Either may pass
over a cancellation, and `revived` counts by damage how often one did. Operations that
only change a text, photos and categories are left out, and so is the plan of
inspections.

### TeacherDay

`credit` holds what the code stores with a credit: points taken, and the day as it
was (`attendanceRestore`). `Create` and `Revoke` are preceded by a read before
their transaction and by one inside it. `alone` says that handlers run one after
another in this behaviour: what a revocation restores is stated for those, and the
points for all. The order of credits is their number, which is their creation.
Approved excuses are explored only in behaviours of the first kind. The points of an
absence are a constant, where the code reads the current setting; the check and the
decrement of `ReducePenalty` are one step, and two in the code.

### TestSessions

Answers are rows, so that a question answered in two tabs has two. A question with
options is graded at once; one open question stands for all that the author marks.
`late` is the clock: an attempt in it is out of time. The job runs in a request of
its own. `Reopen` is three calls in the code, two of them reads. A mark writes the
points of the open answer with the totals, extra points write the totals only.
`crossed` and `overtaken` are history: results that two handlers wrote at
the same time, and attempts with an answer saved after they were finished.

## 3. Runs

| run | what it explores | shows |
|---|---|---|
| `core` | 1 student, 2 cheques of 1 or 2, 2 months of 2, a correction up or down, visits that fail, every operation but regeneration | `LedgersAgree`, `OnlyCorrectionsUnsettle`, `OldestFirst`, `HeldStaysUnfilled` |
| `regenerate` | 1 cheque of up to 3, 2 months of 0 to 2, a regeneration in flight, no corrections, no failing visit | `NoDebtBesideDeposit`: no lost or stranded money when the price changes under a cheque; a month that costs nothing |
| `move` | 2 students, corrections of +1 and -1, restarts, visits that fail, fairness | the ledger implements `StudentWallet`; `DepositReachesDebt` |
| `transfer` | 2 branches, 2 cheques, 1 month, up to 2 transfers (there and back), all operations between plan, write and follow-up, any of which may fail; 184,870 states | both ledgers implement one `StudentWallet` (`PupilKeepsHisMoney`); `TransferIsWhole` |
| `books` | 2 accounts created with 0 or 1, 2 documents, 2 requests, a fee, a correction, opening balances of 0 or 1 written later; 2,368,468 states | `BooksBalance`, `NoDeadlock` |
| `obligations` | 2 obligations, 2 payments of 1 or 2, 2 requests, both kinds | `NotOverpaid`, `MoneyIsAllocated`, `StatusFollows` |
| `queues` | both queues, 2 items, 2 attempts, 1 database error, 1 crash, fairness; 330,340 states | one loop, explained repeats, truthful rows, `PendingAtBootFinishes`, `StuckIsRecovered` |
| `coins` | 1 student, product and order, 2 handlers, 1 of which may die, four mixes of operations; 659,848 states | `CoinsExplained`, `ClosedWasRefunded` |
| `stock` | 2 rooms, 2 damages, 2 charges, 2 sheets, 2 handlers, four mixes, one of which puts cancellations beside charges, waivers and their undoing; 403,330 states | `StockExplained`, `SheetPostedOnce` |
| `credits` | 2 lessons, 3 credits (2 where handlers overlap), 2 handlers, 1 edit; 728,928 states | `PointsExplained`, `RestoredExactly`, `CreditedIsPresent` |
| `sessions` | 2 attempts, 1 question with options and an open one, 2 handlers and the job, 1 death, three mixes, fairness; 577,289 states | `OneAttempt`, `ScoreAddsUp`, `AnswersCounted`, `LateIsClosed` |

Why the bounds suffice: FIFO, overpayment and settlement need two cheques and two
months to go wrong (a cheque that pays two months, a month paid by two cheques);
amounts 1 and 2 give exact, partial and excess payment; a race needs one job, or
two requests; a circle of waits needs two requests and two accounts; a second
copy needs one retry. A way back (two transfers) is what makes a branch meet its
own cancelled months; one month, since what a transfer does to a month depends on
that month and the boundary. Two lessons and three credits let one credit be revoked
while two stand, with what the day was on any of them. Two attempts let one be
started while another expires. The mixes of `coins`, `stock` and `sessions` put
together the operations that touch the same columns and leave the other
combinations unexplored. Section 5 lists the invariants that proofs establish without
these bounds.
`CHECK_DEADLOCK FALSE` everywhere: all these systems may have nothing to do.
Symmetry is used on interchangeable requests, documents, rooms' damages and
charges, and only in runs without liveness.

Debt beside a deposit. `financeReconcile.job.js` reports it as invariant 2b
(lines 12-14 and 128-133). `NoDebtBesideDeposit` says it of every state, where
corrections only take money away and no visit of a pass fails (a student whose visit
failed keeps both until the next day). With corrections of both signs it does not hold,
since `adjustBalance` credits the account and does not call `settleDepositInTx`:
what cheques had left and a lower balance had kept back stays beside the debt until
the next settlement of that student. `OnlyCorrectionsUnsettle` is what holds then:
but for these two, no step of anybody brings a student there.

One run ends in a counterexample (`findings` in `PROJECT.json`):

- `refunded`: a cheque whose deposit was refunded can be voided while another
  cheque backs the balance; the balance then is not the sum of the deposits, which
  is what the comment of the schema says it is.

### Known disagreements without a run of their own

The models have the code's behaviour in each of these. The properties above are
stated so that they hold beside it: where a property would be false of such a
history, its formula names the history variable or the condition that excepts it.

- An automatic regeneration revives an invoice that was cancelled after the pass
  read it (`services/invoice.service.js:2379`; the comment at 2693-2695 says
  cancelled invoices are left aside).
- A recall between `findFirst` and the claim does not stop the text
  (`services/messageQueue.service.js:118`, against 227-228).
- A message left in `processing` by a crash is never sent
  (`services/messageQueue.service.js:321`, against `index.js:304-306`).
- The balance check of a transfer is not under the row lock
  (`services/accountTransfer.service.js:163`, against 157-158).
- An order can be refunded twice, or delivered and refunded, when two decisions
  overlap (`services/market.service.js:602-609`).
- A salary obligation is cancelled without a condition: one that was paid
  meanwhile is cancelled with money on it (`services/payroll.service.js:689`).
- `updateAccount` counts the entries of an account and later writes its balance: a
  document that commits in between stays an entry and is erased from the balance
  (`services/paymentAccount.service.js:307`, against 249 and
  `jobs/financeReconcile.job.js:7`). `BooksBalance` remembers what was erased.
- `unwaiveDamage` and `syncChargedAmount` write a status without a condition and can
  bring back a damage that was cancelled since they read it
  (`services/inventoryDamage.service.js:442, 568`, against 557-558). `StockExplained`
  remembers the revival.
- An attempt that is closed by a handler that dies before it grades is never
  graded: the job looks for attempts in progress
  (`services/testSession.service.js:99`, against the comment at
  `jobs/testSessionExpiry.job.js:11-13`). `LateIsClosed` promises the grading only
  where no handler dies.
- Two charges of one damage written at the same time can exceed it, since each
  sums what it sees (`services/damageCharge.service.js:204`).
- Marks and extra points entered by two handlers at the same time can leave a
  total that misses one of them (`services/testResult.service.js:307`).
- A revocation that overlaps another handler may hand the remembered day to a row
  that is gone (`services/lessonCredit.service.js:944`).
- A month of the new branch that is restored and paid between plan and write is
  written over (`services/branchTransferFinance.service.js:427`; the comment at
  313-314 says the plan is made under the lock). A pupil who returns finds the
  cheques of the first stay with a deposit that a correction has balanced.

## 4. Fairness

`StudentLedger`: weak fairness of `StartDailyPass` (a cron that fires daily) and
strong fairness of `ApplyDue(s)`: the loop of `applyDepositsForStudents` catches the
error of a student and goes on, so a visit may fail (`FailDue`) and take the student
from the pass. Weak fairness would let every visit of every day fail; what makes
one fail (a lost connection, a lock that times out) passes, so a student who is
visited day after day is served some day. Nothing else is fair, and `Restart` may
happen at any time.
`DeliveryQueue`: weak fairness of every step of the loop and of open requests
(Node resumes a continuation whose await is answered) and of `RecoverAll` (the
process manager starts the server again). Liveness is stated for the time after
the last fault (`Quiet`).
`TestSessions`: weak fairness of `CloseLate(Job)` (the job starts every minute) and
of `Step(r)` of every handler (each continuation whose database call is answered
runs). Users, their clicks, the clock and deaths are not fair.

## 5. Proofs

For all students, any number of cheques and months, all amounts, prices and
corrections, under the assumptions that `StudentLedger` states on its constants:

- `LedgersAreTyped`: `Spec => []TypeOK`;
- `LedgersAlwaysAgree`: `Spec => []LedgersAgree`;
- `LedgersImplementWallets`: `Spec => Wallet!Spec`, the refinement.

The inductive invariant `IInv` is typing (`RowsTyped`) with `LedgersAgree`; that a
cheque is worth one of `Amounts`, which `TypeOK` says too, is proved on top of it
(`WorthInduction`), since no other step needs it. Typing alone is
not inductive: `alloc` and `deposit` stay natural numbers only because a month
never releases more than it holds and a cheque never spends more than it has,
which is what `LedgersAgree` says; the other way round sums only make sense over
typed functions. Each transaction body has a lemma `...Keeps` (it takes a right
ledger to a right ledger), each action is a composition of bodies, so `StepKeeps`
only dispatches. The arithmetic is in two lemmas: `FifoTake` (what FIFO gives is
within each debt and adds up to the smaller of money and debt) and `DrawSums`
(what cheques give adds up by row and by column). Both telescope over prefix sums
by `PrefixSumsProofs`, whose induction is over finite subsets of `Nat`, since the
library's induction rules take an operator and cannot be used here.
The refinement reuses these: each action has a `...Flow` lemma that says how much
of `balance`, `paid` and `cash` it moves.

Transfers (`BranchTransfer`), for any finite number of branches, any number of
moves, and every operation of every branch between plan, write and follow-up:

- `TransfersLeaveLedgersRight`: `TransferSpec => [](~overwritten => LedgersAgree)`;
- `PupilsMoneyIsKept`: `TransferSpec => PupilKeepsHisMoney`, the refinement to one
  wallet;
- `CurrentPlansArriveWhole`: `TransferSpec => [][~overwritten => ArrivesWhole]_tvars`,
  where `ArrivesWhole` is the step formula of `TransferIsWhole`.

The inductive invariant `TInv` is `IInv` with what `plan` and `after` may be, all of it
only as long as `overwritten` is false. The condition is not for convenience: a
transfer that writes over a month which was restored and paid after the plan sets
`paid` to 0 and leaves the allocations (a disagreement listed in section 3), so
the books of that branch are wrong from there on. The body of a plan that commits is
four operators on a ledger, each with its `...Keeps` lemma; that what months release
is what cheques get back is a sum taken by rows and by columns (`FreedIsPaid`, by
`TotalExchange`). For the refinement the numbers of the wallet are sums over branches
(`SumOver`): an operation of one branch changes one summand (`OneBranch`), a commit
two, by amounts that cancel (`TwoBranches`, `CommitIsMove`); the `...Flow` lemmas of
the first refinement say how much. `CurrentPlansArriveWhole` compares the debts before
and after month by month (`MonthCarries`) and adds the months up (`SameThreeSums`).

For any number of obligations, payments and requests, whatever they pay and
whatever a recalculation comes to:

- `ObligationsAreTyped`, `NeverOverpaid`, `MoneyStaysAllocated`,
  `StatusAlwaysFollows`: `Spec => []P` for each invariant of `Obligations`.

Their inductive invariant adds what a request in flight may rely on
(`RequestsHold`): what it read was not overpaid; a charge still costs what it cost
then, since a payment of damage does not compare the amount; a new payment has a
row that no other request uses and is no more than what was owed. A status that
`voidPayment` derives from an amount that has been replaced since is right because
a void leaves something to pay under the old and the new amount. An edit is a void
followed by a payment, so the books need the two lemmas `VoidPaymentHolds` and
`AddPaymentHolds` only.

What settlement does, over the same `IInv`:

- `DebtNeverBesideDeposit`: `Spec => []NoDebtBesideDeposit` (its condition, that
  corrections only take away and no visit fails, is part of the formula);
- `CorrectionsAloneUnsettle`, `MonthsFillOldestFirst`, `HeldMonthsStayUnfilled`:
  `Spec => P` for the action properties `OnlyCorrectionsUnsettle`, `OldestFirst`
  and `HeldStaysUnfilled`.

`SpendShape` says what a settlement is: it gives each month it may touch a part of
what is spent, and either fills all of them or leaves nothing to spend, oldest
first. The first two theorems then need one more fact per operation: a body that
does not settle leaves a student whose deposit is spent, or is followed by
`Settle` in its action. Where the balance is lowered the sum of the deposits must be
compared before and after, which is why `DebtMeetsDeposit` speaks of the smaller of
the two. For `OldestFirst` the operations are split by what they give: nothing,
a settlement (`...Gains`), a new cheque, a rework. For `HeldStaysUnfilled` a month
that is on hold before and after is in no set that `Settle` may touch.

The cash accounts (`CashAccountsProofs`), for any finite number of documents and
any number of accounts and requests:

- `BooksAreTyped`, `BooksAlwaysBalance`, `RequestsNeverDeadlock`.

Opening balances are any natural numbers, given at creation or later. `BooksBalance`
says of every account that balance plus `erased` is opening balance plus entries: only
an opening balance written over entries sets `erased`, to what they came to, and every
later posting is accounted for again.

`IInv` says what an open transaction has (`Owned`): the documents it writes are
drafts of its own; those it voids are live, or somebody else may still win them as
long as it is before its compare-and-swap; what it has posted and has yet to post
are together exactly the postings of these documents; and everything it has posted
comes, in the order of accounts, before what it has to post. No two of them write
the same document, have both won the same void, or hold the same account
(`Apart`). At the commit the postings made are therefore the change of `Live`, and
in a set of waiting requests the one that waits for the greatest account waits for
a request that holds it and itself waits for a later one, if it waits at all.

The queues (`DeliveryQueueProofs`), for any number of texts, attempts, faults and
runs that memory could hold:

- `QueuesAreTyped`, `OneRunAtATime`, `NoCopyWithoutCause`, `RowsAreTruthful`:
  `Spec => []P`, and `FinishedRowsStay`: `Spec => FinishedStays`.

The busy flag is up exactly while there is a run, and there is one (`OneRuns`).
`HandHolds` says what that run knows of the item in its hand at each place: from the
claim on the row is its own, its copy of `attempts` is still right, and a copy that
may have been taken is excused by a lost answer; `RowHolds` says the same of rows in
nobody's hands, between the death of a process and the start of the next.

The coins (`CoinMarketProofs`), for any number of students, products and orders, and
any finite number of handlers:

- `CoinsAreTyped`, `CoinsAlwaysExplained`, `ClosedOrdersWereRefunded`.

Every step is the turn of one handler (`OwnTurn`) or concerns none. A turn changes
the student's `coins - booked - torn` by what it changes of the handler's own share,
so the sum over all handlers is right again (`TurnExplains`). `Known` says what a
handler must know of an order it will close: that the order was written, and, at the
place where the refund is booked or the status is written, that coins were given
back. It speaks only of orders that stay written and of refunds that stay given, so
no other handler can make it false, also when two of them refund the same order.

Test sessions (`TestSessionsProofs`), for any number of attempts, questions and
handlers:

- `AttemptsAreTyped`, `OneAttemptAtATime`, `ScoresAddUp`, `SavedAnswersCount`.

There is no transaction here, so the invariant is what each handler knows while the
others run. Who is about to create attempt `n` knows that all before it are finished
(`KnowsOrder`); attempts only ever go on, so this stays true, and it is what makes an
overlapping start harmless. Who has graded knows a score that the answers allow
(`KnowsScore`), and an answer that is saved later marks the attempt as `overtaken`,
since it is finished by then. Who writes a result knows that it is there
(`KnowsResult`), and, as long as nobody `crossed`, that the result, the extra points
and the totals he is about to write fit together (`Fits`). `QuietTurn`, `BeginTurn`
and `WriterTurn` are the three kinds of steps; each action is shown to be one of them.

A teacher's day (`TeacherDayProofs`), for any number of lessons, credits and handlers:

- `RowsKeepTheirShape`, `PointsAreExplained`, `CreditsAreUndone`, `CreditsCount`.

That points are explained is not inductive: what a revocation gives back is what the
credits say was taken, as it was read before the transaction. `IInv` therefore says
who may still give points back. For a lesson this is the one active credit of that
lesson (`RightCredits`): it knows what was taken. For the absence it is whoever claims
it (`Claim`): an active credit whose row remembers that the absence was lifted, or one
that a running revocation has read with such a memory. The memory of a day is handed
from credit to credit, so several rows and several requests may hold it at a time, and
what makes it harmless is that all of them are about one credit that is still active
(`RightClaims`): the transaction of `revokeCredits` only acts on those of its credits
that still are, and it deactivates them. A row with a penalty on it has that penalty in force, so cancelling
the day rejects nothing that anybody claims. What else a handler relies on is in
`Knows`.

The other two theorems are about handlers that run one after another (`alone`), where
everything that the running one has read is still so (`Lone`). Between them, the
credits that stand can be undone (`Undoable`), in one of three ways: the row was
created and the one credit that remembers it says so; the row said that the teacher was
away and the one credit that remembers it has its mark and its penalty; or the row was
left as it was and no credit remembers anything. A revocation keeps one of the
three as long as a credit stays, because it hands the memory to a credit that has none
(`MemoryMoves`), and ends in the original day when none stays. A row that had times
is never written back by the code; for it the theorem claims nothing.

Each `IInv` was checked by TLC on the configuration of its run before it was proved.
All properties of the theorems are also run by TLC. The assumptions are those that
the modules state on their constants; `CashAccounts` and `CoinMarket` assume that
documents and handlers are finitely many, which sums over them need, and so does
`BranchTransfer` of branches; `BranchTransfer` also that a cheque that a cashier enters
is worth no more than `MaxWorth`, the bound on the cheque that a transfer writes; `TeacherDay` that
there is room for as many credits as may be written together, and for a row.

## 6. Only model-checked

`BalanceIsDeposits` (which fails); `Inventory` (`TypeOK`, `StockExplained`,
`SheetPostedOnce`); `TransferIsWhole` where an earlier transfer wrote over a month (the
rest of it is `CurrentPlansArriveWhole`); and all liveness: `DepositReachesDebt`,
`PendingAtBootFinishes`, `StuckIsRecovered`, `LateIsClosed`. Liveness and `ENABLED`
are out of the prover's reach. What recursive definitions compute for every
input is out of reach too. That the closed forms of `AllocateFifo` and `Draw`
equal the loops of the code is argued in section 2; the loops are not written out.

Some corners are covered by a theorem and not by a run: a regeneration that replaces a
month on hold (`core` has no regeneration, `HeldMonthsStayUnfilled` has), and a late
attempt that is finalised while a third one is started (`OneAttemptAtATime`).
No property would show repairs of a sheet that are posted twice: a repair leaves no
row to count it by; `StockExplained` counts what damages took.

## 7. Plan

1. `Inventory`: proofs of `SheetPostedOnce` and `StockExplained`, for all operations
   beside each other.
2. Schedule drafts (optimistic versions), grading windows and grants, the check of
   an expense limit and the expense that follows, parental control.

## 8. Proof-friendly choices

No module declares a RECURSIVE operator; sums are those of `PrefixSums` where a
proof exists (a sum over a finite set is the sum along some numbering of it, so that
the lemmas about `1..N` carry over), and folds elsewhere. Each operation is one
action, so that a proof has one case per operation, and each invariant is a
conjunction of parts that can be proved one at a time. Invariants about requests are
written with the request and the rows as arguments (`Owns(q, D)`, `Knows(q, D, F)`),
so that a proof can use them of the next state without unfolding the step.

## 9. Not modelled

Prices, salary formulas, the timetable generator and face recognition compute and
keep little state; a unit test with a table of inputs says as much about them as a
model would. Statistics, dashboards and exports only read. Users, roles and
middleware decide access over request data. The AI parts call an external service.
The greater part of the repository by lines is of these kinds: route tables, request
parsing, reports, prompts, API descriptions. Schedule drafts, diagnostics, check-in,
devices, parental control, grading windows, expense limits and tasks do have
protocols and are candidates after the plan. The parts of modelled components that
are missing are named in the notes of `PROJECT.json`.
