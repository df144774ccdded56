---------------------------- MODULE StudentLedger ----------------------------
(***************************************************************************)
(* The money of a student: cheques (Payment), monthly invoices             *)
(* (MonthlyInvoice), the allocations that tie them together and the        *)
(* deposit (StudentAccount.balance).                                       *)
(*                                                                         *)
(* Every operation of the code runs in one transaction that first takes    *)
(* the row lock of the student's account, so a transaction is one step     *)
(* here.  Two things are not protected by that lock and are therefore      *)
(* steps of their own: regenerateInvoice reads the invoice before the      *)
(* transaction that replaces it (a job in flight in `jobs`), and the       *)
(* generation pass writes invoices first and applies the deposits of their *)
(* students later (the students still to be visited, in `due`).            *)
(*                                                                         *)
(* A transaction body is an operator from a student's ledger to the ledger *)
(* it leaves, named as in the code; an action composes the bodies that its *)
(* handler calls.  Cheques are numbered in the order settlement consumes   *)
(* them (paidAt, receiptNo); a cheque may be back-dated, so a new one      *)
(* takes any free number.                                                  *)
(***************************************************************************)
EXTENDS PrefixSums, FiniteSets

CONSTANTS
    Students,     \* students of one branch
    NP,           \* cheques a student can ever have
    NM,           \* months that can be invoiced, oldest first
    Amounts,      \* what a cheque can be worth
    Prices,       \* what the tariff, services and discounts can make a month cost
    Adjustments,  \* signed corrections an administrator can post
    MaxAdjusted,  \* bound on the sum of the corrections of a student
    MaxJobs,      \* regenerations in flight at a time
    AutoApply,    \* FinanceSettings.depositAutoApply
    VisitsFail    \* whether the visit of a pass to a student can fail

ASSUME SizesAssumption == NP \in Nat /\ NM \in Nat /\ MaxAdjusted \in Nat /\ MaxJobs \in Nat
ASSUME MoneyAssumption == /\ Amounts \subseteq Nat \ {0}
                          /\ Prices \subseteq Nat
                          /\ Adjustments \subseteq Int \ {0}
ASSUME SettingAssumption == AutoApply \in BOOLEAN /\ VisitsFail \in BOOLEAN

Pays   == 1..NP
Months == 1..NM
Status == {"none", "unpaid", "partial", "paid", "cancelled"}

VARIABLES
    ledger,  \* student -> the rows of that student
    jobs,    \* regenerations that have read their invoice and not yet written it
    due      \* students the running settlement pass has still to visit

vars == <<ledger, jobs, due>>

(* amount[p] = 0 is a free cheque number and status[m] = "none" a month    *)
(* without an invoice; alloc[p][m] sums the live allocations of p to m;    *)
(* cash is the sum of the account entries the student's operations posted. *)
Ledger ==
    [balance  : Int, adjusted : Int, cash : Int,
     amount   : [Pays -> Nat], voided : [Pays -> BOOLEAN], deposit : [Pays -> Nat],
     alloc    : [Pays -> [Months -> Nat]],
     price    : [Months -> Nat], paid : [Months -> Nat],
     status   : [Months -> Status], hold : [Months -> BOOLEAN]]

EmptyLedger ==
    [balance |-> 0, adjusted |-> 0, cash |-> 0,
     amount |-> [p \in Pays |-> 0], voided |-> [p \in Pays |-> FALSE],
     deposit |-> [p \in Pays |-> 0],
     alloc |-> [p \in Pays |-> [m \in Months |-> 0]],
     price |-> [m \in Months |-> 0], paid |-> [m \in Months |-> 0],
     status |-> [m \in Months |-> "none"], hold |-> [m \in Months |-> FALSE]]

Job == [student : Students, month : Months, auto : BOOLEAN,
        paid : Nat, hold : BOOLEAN, price : Nat]

-----------------------------------------------------------------------------
(* Status of an invoice of a given amount of which `paid` is paid.         *)
DeriveStatus(amount, paid) ==
    CASE paid <= 0                  -> "unpaid"
      [] paid > 0 /\ paid >= amount -> "paid"
      [] paid > 0 /\ paid < amount  -> "partial"

(* Status of a freshly built row: a month that costs nothing is paid.      *)
BuiltStatus(price) == IF price = 0 THEN "paid" ELSE "unpaid"

IsOpen(L, m) == L.status[m] \in {"unpaid", "partial"}

(* What is owed on the months of F, and what FIFO gives each of them out   *)
(* of `money`: month m gets the part of (0, money] that lies between the   *)
(* debts before it and the debts up to it.                                 *)
Debt(L, F) == [m \in Months |-> IF m \in F THEN L.price[m] - L.paid[m] ELSE 0]

(* A bug: the newest month is paid first.                                  *)
AllocateNewestFirst(debt, money) ==
    LET owed == Cum(debt, NM)
    IN  [m \in Months |-> Overlap(owed[NM] - owed[m], owed[NM] - owed[m - 1], 0, money)]

AllocateFifo(debt, money) ==
    LET owed == Cum(debt, NM)
    IN  [m \in Months |-> Overlap(owed[m - 1], owed[m], 0, money)]

(* Cheques are consumed in order too: cheque p pays month m with the part  *)
(* that its deposit and the month's take have in common.                   *)
Draw(deposit, take) ==
    LET held  == Cum(deposit, NP)
        taken == Cum(take, NM)
    IN  [p \in Pays |-> [m \in Months |->
            Overlap(held[p - 1], held[p], taken[m - 1], taken[m])]]

(* The invoices after `take` is paid on them.                              *)
PaidAfter(L, take) == [m \in Months |-> L.paid[m] + take[m]]
StatusAfter(L, take) ==
    [m \in Months |-> IF take[m] > 0
                      THEN DeriveStatus(L.price[m], L.paid[m] + take[m])
                      ELSE L.status[m]]

-----------------------------------------------------------------------------
(* settleDepositInTx after its settings and hold checks: the deposit that  *)
(* cheques back, up to the balance, goes to the open months of F.          *)
Spend(L, F) ==
    LET budget == Most(0, Least(L.balance, Total(L.deposit, NP)))
        take   == AllocateFifo(Debt(L, F), budget)
        drawn  == Draw(L.deposit, take)
    IN  [L EXCEPT !.alloc   = [p \in Pays |-> [m \in Months |-> L.alloc[p][m] + drawn[p][m]]],
                  !.paid    = PaidAfter(L, take),
                  !.status  = StatusAfter(L, take),
                  !.deposit = [p \in Pays |-> L.deposit[p] - Total(drawn[p], NM)],
                  !.balance = @ - Total(take, NM)]

(* A bug: settlement does not look at the hold.                            *)
SettleableHeldToo(L, ignoreHoldFor) == {m \in Months : IsOpen(L, m)}

Settleable(L, ignoreHoldFor) ==
    {m \in Months : IsOpen(L, m) /\ (~L.hold[m] \/ m \in ignoreHoldFor)}

SettleIgnoring(L, ignoreHoldFor) ==
    IF AutoApply THEN Spend(L, Settleable(L, ignoreHoldFor)) ELSE L

Settle(L) == SettleIgnoring(L, {})

SettleManually(L) ==
    LET freed == [L EXCEPT !.hold = [m \in Months |-> FALSE]]
    IN  Spend(freed, Settleable(freed, {}))

(* createPaymentInTx: cash a cashier takes goes to every open month, held  *)
(* ones too, oldest first; the rest is the cheque's deposit.               *)
CreatePaymentInTx(L, p, a) ==
    LET take == AllocateFifo(Debt(L, {m \in Months : IsOpen(L, m)}), a)
        rest == a - Total(take, NM)
    IN  [L EXCEPT !.amount[p]  = a,
                  !.deposit[p] = rest,
                  !.alloc[p]   = take,
                  !.paid       = PaidAfter(L, take),
                  !.status     = StatusAfter(L, take),
                  !.balance    = @ + rest,
                  !.cash       = @ + a]

(* voidPaymentInTx takes back every live allocation of the cheque, and the *)
(* rest of its amount from the balance.                                    *)
DepositHeld(L, p) == L.amount[p] - Total(L.alloc[p], NM)

CanVoid(L, p) ==
    /\ L.amount[p] > 0
    /\ ~L.voided[p]
    /\ DepositHeld(L, p) <= L.balance
    /\ \A m \in Months : L.alloc[p][m] <= L.paid[m]

(* A bug: the months that lose money keep their status.                    *)
VoidKeepsStatus(L, p) ==
    [L EXCEPT !.voided[p]  = TRUE,
              !.deposit[p] = 0,
              !.alloc[p]   = [m \in Months |-> 0],
              !.paid       = [m \in Months |-> L.paid[m] - L.alloc[p][m]],
              !.balance    = @ - DepositHeld(L, p),
              !.cash       = @ - L.amount[p]]

VoidPaymentInTx(L, p) ==
    [L EXCEPT !.voided[p]  = TRUE,
              !.deposit[p] = 0,
              !.alloc[p]   = [m \in Months |-> 0],
              !.paid       = [m \in Months |-> L.paid[m] - L.alloc[p][m]],
              !.status     = [m \in Months |->
                                 IF L.alloc[p][m] = 0 \/ L.status[m] = "cancelled"
                                 THEN L.status[m]
                                 ELSE DeriveStatus(L.price[m], L.paid[m] - L.alloc[p][m])],
              !.balance    = @ - DepositHeld(L, p),
              !.cash       = @ - L.amount[p]]

(* A bug: the balance is not credited with what the month gives back.      *)
ReleaseKeepsBalance(L, m) ==
    [L EXCEPT !.alloc   = [p \in Pays |-> [L.alloc[p] EXCEPT ![m] = 0]],
              !.deposit = [p \in Pays |-> L.deposit[p] + L.alloc[p][m]],
              !.paid[m] = 0]

(* releaseInvoiceAllocations: the money of a month returns to its cheques. *)
ReleaseInvoiceAllocations(L, m) ==
    [L EXCEPT !.alloc   = [p \in Pays |-> [L.alloc[p] EXCEPT ![m] = 0]],
              !.deposit = [p \in Pays |-> L.deposit[p] + L.alloc[p][m]],
              !.paid[m] = 0,
              !.balance = @ + Total([p \in Pays |-> L.alloc[p][m]], NP)]

(* reworkAllocation: `current` of what cheque p pays for month m is        *)
(* replaced by `keep`, on m or on the month `target`; the difference goes  *)
(* back to the deposit and m is held.  The allocation rows of one cheque   *)
(* to one month are merged here, so `current` is any part of their sum.    *)
CanRework(L, p, m, current, keep, target) ==
    /\ current <= L.alloc[p][m]
    /\ current <= L.paid[m]
    /\ L.status[m] # "cancelled"
    /\ IF target = m
       THEN keep < current
       ELSE /\ keep > 0
            /\ IsOpen(L, target)
            /\ keep <= L.price[target] - L.paid[target]

ReworkAllocation(L, p, m, current, keep, target) ==
    LET moved(n) == IF n = target THEN keep ELSE 0
        gone(n)  == IF n = m THEN current ELSE 0
        released == current - keep
    IN  [L EXCEPT !.alloc[p] = [n \in Months |-> L.alloc[p][n] - gone(n) + moved(n)],
                  !.paid     = [n \in Months |-> L.paid[n] - gone(n) + moved(n)],
                  !.status   = [n \in Months |->
                                   IF n \in {m, target}
                                   THEN DeriveStatus(L.price[n], L.paid[n] - gone(n) + moved(n))
                                   ELSE L.status[n]],
                  !.hold[m]    = @ \/ released > 0,
                  !.deposit[p] = @ + released,
                  !.balance    = @ + released]

(* A bug: the first cheque bears the refund, whatever it holds.            *)
RefundFromFirst(L, a) ==
    [L EXCEPT !.deposit = [p \in Pays |-> IF p = 1 THEN L.deposit[p] - a ELSE L.deposit[p]],
              !.balance = @ - a,
              !.cash    = @ - a]

(* refundDeposit: cash leaves, the deposits of the cheques are consumed    *)
(* oldest first; what no cheque backs is taken from the balance alone.     *)
RefundDeposit(L, a) ==
    LET held == Cum(L.deposit, NP)
    IN  [L EXCEPT !.deposit = [p \in Pays |->
                                  L.deposit[p] - Overlap(held[p - 1], held[p], 0, a)],
                  !.balance = @ - a,
                  !.cash    = @ - a]

(* cancelInvoice, restoreInvoice and the two writes of generateForMonth.   *)
Cancel(L, m)  == [ReleaseInvoiceAllocations(L, m) EXCEPT !.status[m] = "cancelled"]
Restore(L, m) == [L EXCEPT !.status[m] = DeriveStatus(L.price[m], L.paid[m])]
Build(L, m, price) ==
    [L EXCEPT !.price[m] = price, !.status[m] = BuiltStatus(price), !.paid[m] = 0]

(* regenerateInvoice: the row is deleted, with the allocations the foreign *)
(* key cascades to, and built again; it keeps the hold the job has read.   *)
Replace(L, m, price, hold) ==
    [Build(L, m, price) EXCEPT
        !.hold[m] = hold,
        !.alloc   = [p \in Pays |-> [L.alloc[p] EXCEPT ![m] = 0]]]

(* amendPaidInvoice: a price below what is paid is sealed after the money  *)
(* of the month is released, any other is sealed in place.                 *)
AmendBelow(L, m, price) ==
    [ReleaseInvoiceAllocations(L, m) EXCEPT
        !.price[m] = price, !.status[m] = DeriveStatus(price, 0)]
AmendInPlace(L, m, price) ==
    [L EXCEPT !.price[m] = price, !.status[m] = DeriveStatus(price, L.paid[m])]

-----------------------------------------------------------------------------
Init ==
    /\ ledger = [s \in Students |-> EmptyLedger]
    /\ jobs = {}
    /\ due = {}

(* A transaction on the rows of one student.                               *)
Commit(s, L) == ledger' = [ledger EXCEPT ![s] = L]

CreatePayment(s, p, a) ==
    /\ ledger[s].amount[p] = 0
    /\ Commit(s, Settle(CreatePaymentInTx(ledger[s], p, a)))
    /\ UNCHANGED <<jobs, due>>

VoidPayment(s, p) ==
    /\ CanVoid(ledger[s], p)
    /\ Commit(s, Settle(VoidPaymentInTx(ledger[s], p)))
    /\ UNCHANGED <<jobs, due>>

(* editPayment voids cheque p of s and enters cheque q, for s or for       *)
(* another student t, in one transaction.                                  *)
EditPayment(s, p, t, q, a) ==
    /\ CanVoid(ledger[s], p)
    /\ ledger[t].amount[q] = 0
    /\ LET voided == VoidPaymentInTx(ledger[s], p)
       IN  IF t = s
           THEN Commit(s, Settle(CreatePaymentInTx(voided, q, a)))
           ELSE ledger' = [ledger EXCEPT
                              ![s] = Settle(voided),
                              ![t] = Settle(CreatePaymentInTx(ledger[t], q, a))]
    /\ UNCHANGED <<jobs, due>>

Rework(s, p, m, current, keep, target) ==
    /\ CanRework(ledger[s], p, m, current, keep, target)
    /\ Commit(s, Settle(ReworkAllocation(ledger[s], p, m, current, keep, target)))
    /\ UNCHANGED <<jobs, due>>

Refund(s, a) ==
    /\ a <= ledger[s].balance
    /\ Commit(s, RefundDeposit(ledger[s], a))
    /\ UNCHANGED <<jobs, due>>

AdjustBalance(s, d) ==
    /\ ledger[s].balance + d >= 0
    /\ ledger[s].adjusted + d \in (-MaxAdjusted)..MaxAdjusted
    /\ Commit(s, [ledger[s] EXCEPT !.balance = @ + d, !.adjusted = @ + d])
    /\ UNCHANGED <<jobs, due>>

(* A bug: the money a cancelled month frees is not settled.                *)
CancelUnsettled(s, m) ==
    /\ ledger[s].status[m] \notin {"none", "cancelled"}
    /\ Commit(s, Cancel(ledger[s], m))
    /\ UNCHANGED <<jobs, due>>

CancelInvoice(s, m) ==
    /\ ledger[s].status[m] \notin {"none", "cancelled"}
    /\ Commit(s, Settle(Cancel(ledger[s], m)))
    /\ UNCHANGED <<jobs, due>>

RestoreInvoice(s, m) ==
    /\ ledger[s].status[m] = "cancelled"
    /\ Commit(s, Settle(Restore(ledger[s], m)))
    /\ UNCHANGED <<jobs, due>>

(* generateForMonth writes the row, or restores a cancelled one, without   *)
(* the lock; the pass applies the deposits of its students afterwards.     *)
GenerateInvoice(s, m, price) ==
    /\ \/ ledger[s].status[m] = "none"
       \/ ledger[s].status[m] = "cancelled" /\ ledger[s].paid[m] = 0
    /\ Commit(s, Build(ledger[s], m, price))
    /\ due' = IF AutoApply THEN due \cup {s} ELSE due
    /\ UNCHANGED jobs

(* applyDepositsForStudents reaches student s.                             *)
ApplyDue(s) ==
    /\ s \in due
    /\ Commit(s, Settle(ledger[s]))
    /\ due' = due \ {s}
    /\ UNCHANGED jobs

(* His visit fails: the error is logged and the loop goes on without him.  *)
FailDue(s) ==
    /\ VisitsFail
    /\ s \in due
    /\ due' = due \ {s}
    /\ UNCHANGED <<ledger, jobs>>

ApplyManually(s) ==
    /\ Commit(s, SettleManually(ledger[s]))
    /\ UNCHANGED <<jobs, due>>

(* regenerateInvoice reads the row and prices it.  The automatic passes    *)
(* select the rows that are not cancelled; an administrator may name any.  *)
StartRegenerate(s, m, auto, price) ==
    LET L == ledger[s] IN
    /\ Cardinality(jobs) < MaxJobs
    /\ L.status[m] # "none"
    /\ auto => L.status[m] # "cancelled"
    /\ L.paid[m] > 0 => price # L.price[m]
    /\ jobs' = jobs \cup {[student |-> s, month |-> m, auto |-> auto,
                           paid |-> L.paid[m], hold |-> L.hold[m], price |-> price]}
    /\ UNCHANGED <<ledger, due>>

(* A bug: the row is replaced without the compare-and-swap on paidAmount.  *)
ReplaceUnchecked(j) ==
    /\ j.paid = 0
    /\ Commit(j.student, Settle(Replace(ledger[j.student], j.month, j.price, j.hold)))
    /\ jobs' = {k \in jobs : k.student # j.student \/ k.month # j.month}
    /\ UNCHANGED due

(* The job's transaction.  A replaced row has a new id, so every other job *)
(* that read the old row fails.                                            *)
CommitReplace(j) ==
    /\ j.paid = 0
    /\ ledger[j.student].paid[j.month] = 0
    /\ Commit(j.student, Settle(Replace(ledger[j.student], j.month, j.price, j.hold)))
    /\ jobs' = {k \in jobs : k.student # j.student \/ k.month # j.month}
    /\ UNCHANGED due

(* A bug: the amendment forgets to settle what it has released.            *)
AmendBelowUnsettled(j) ==
    /\ j.paid > 0 /\ j.price < j.paid
    /\ ledger[j.student].status[j.month] # "cancelled"
    /\ Commit(j.student, AmendBelow(ledger[j.student], j.month, j.price))
    /\ jobs' = jobs \ {j}
    /\ UNCHANGED due

CommitAmendBelow(j) ==
    /\ j.paid > 0 /\ j.price < j.paid
    /\ ledger[j.student].status[j.month] # "cancelled"
    /\ Commit(j.student, SettleIgnoring(AmendBelow(ledger[j.student], j.month, j.price),
                                        {j.month}))
    /\ jobs' = jobs \ {j}
    /\ UNCHANGED due

CommitAmendInPlace(j) ==
    /\ j.paid > 0 /\ j.price >= j.paid
    /\ ledger[j.student].paid[j.month] = j.paid
    /\ Commit(j.student, Settle(AmendInPlace(ledger[j.student], j.month, j.price)))
    /\ jobs' = jobs \ {j}
    /\ UNCHANGED due

(* The compare-and-swap finds another row than the one it read.            *)
Conflict(j) ==
    LET L == ledger[j.student] IN
    /\ \/ j.paid = 0 /\ L.paid[j.month] # 0
       \/ j.paid > 0 /\ j.price < j.paid /\ L.status[j.month] = "cancelled"
       \/ j.paid > 0 /\ j.price >= j.paid /\ L.paid[j.month] # j.paid
    /\ jobs' = jobs \ {j}
    /\ UNCHANGED <<ledger, due>>

(* A bug: the pass lists the accounts from the second unit of money on.    *)
DailyPassOffByOne ==
    /\ AutoApply
    /\ due' = due \cup {s \in Students : ledger[s].balance > 1}
    /\ UNCHANGED <<ledger, jobs>>

(* runDepositSettlementPass lists the accounts that hold money.            *)
StartDailyPass ==
    /\ AutoApply
    /\ due' = due \cup {s \in Students : ledger[s].balance > 0}
    /\ UNCHANGED <<ledger, jobs>>

(* The process dies; the start-up pass begins again with every account.    *)
Restart ==
    /\ jobs' = {}
    /\ due' = IF AutoApply THEN {s \in Students : ledger[s].balance > 0} ELSE {}
    /\ UNCHANGED ledger

Money(s) == 1..Most(0, ledger[s].balance)

Next ==
    \/ \E s \in Students :
        \/ \E p \in Pays, a \in Amounts : CreatePayment(s, p, a)
        \/ \E p \in Pays : VoidPayment(s, p)
        \/ \E p, q \in Pays, t \in Students, a \in Amounts : EditPayment(s, p, t, q, a)
        \/ \E p \in Pays, m, n \in Months :
             \E c \in 1..ledger[s].alloc[p][m] : \E k \in 0..c : Rework(s, p, m, c, k, n)
        \/ \E a \in Money(s) : Refund(s, a)
        \/ \E d \in Adjustments : AdjustBalance(s, d)
        \/ \E m \in Months :
            \/ CancelInvoice(s, m)
            \/ RestoreInvoice(s, m)
            \/ \E price \in Prices : GenerateInvoice(s, m, price)
            \/ \E auto \in BOOLEAN, price \in Prices : StartRegenerate(s, m, auto, price)
        \/ ApplyDue(s)
        \/ FailDue(s)
        \/ ApplyManually(s)
    \/ \E j \in jobs : CommitReplace(j) \/ CommitAmendBelow(j) \/ CommitAmendInPlace(j)
                       \/ Conflict(j)
    \/ StartDailyPass
    \/ Restart

Spec == Init /\ [][Next]_vars

(* The cron fires every day and its loop visits every listed account: an   *)
(* error on one student is logged and the loop goes on without him.  What  *)
(* makes a visit fail (a timeout, a lost connection) does not fail every   *)
(* visit to him for ever.                                                  *)
Fairness == WF_vars(StartDailyPass) /\ \A s \in Students : SF_vars(ApplyDue(s))
FairSpec == Spec /\ Fairness

-----------------------------------------------------------------------------
RowsTyped ==
    /\ ledger \in [Students -> Ledger]
    /\ jobs \subseteq Job
    /\ due \subseteq Students

(* Every row keeps its shape, through every operation of the code, and a   *)
(* cheque number is free or worth one of the amounts.                      *)
TypeOK ==
    /\ RowsTyped
    /\ \A s \in Students, p \in Pays : ledger[s].amount[p] \in Amounts \cup {0}

(* MonthlyInvoice.paidAmount is the sum of the live allocations to it      *)
(* (financeReconcile, invariant 3), whatever was paid, moved, released,    *)
(* voided, amended or replaced.                                            *)
PaidIsAllocated(L) ==
    \A m \in Months : L.paid[m] = Total([p \in Pays |-> L.alloc[p][m]], NP)

(* No month is ever paid more than it costs, also when its price falls     *)
(* while it is paid.                                                       *)
NoOverpayment(L) == \A m \in Months : L.paid[m] <= L.price[m]

(* A cancelled month holds no money: generateForMonth may re-price it.     *)
CancelledHoldsNothing(L) ==
    \A m \in Months : L.status[m] \in {"none", "cancelled"} => L.paid[m] = 0

(* The stored status is the one its amounts derive; a month that costs     *)
(* nothing may be paid without money.                                      *)
StatusAgrees(L) ==
    \A m \in Months : L.status[m] \notin {"none", "cancelled"} =>
        \/ L.status[m] = DeriveStatus(L.price[m], L.paid[m])
        \/ L.status[m] = "paid" /\ L.price[m] = 0

(* A cheque never gives more than it was worth, and a voided or unused one *)
(* gives nothing.                                                          *)
ChequesAreCovered(L) ==
    \A p \in Pays :
        /\ L.deposit[p] + Total(L.alloc[p], NM) <= L.amount[p]
        /\ L.voided[p] => L.amount[p] > 0 /\ L.deposit[p] = 0 /\ Total(L.alloc[p], NM) = 0

(* The stored balance is never negative and is what its schema comment     *)
(* says: the cash taken and not returned, less what months hold, plus the  *)
(* corrections.                                                            *)
BalanceIsDerived(L) ==
    /\ L.balance >= 0
    /\ L.balance = L.cash - Total(L.paid, NM) + L.adjusted

LedgersAgree ==
    \A s \in Students :
        LET L == ledger[s] IN
        /\ PaidIsAllocated(L)
        /\ NoOverpayment(L)
        /\ CancelledHoldsNothing(L)
        /\ StatusAgrees(L)
        /\ ChequesAreCovered(L)
        /\ BalanceIsDerived(L)

(* Debt and deposit do not stand side by side (financeReconcile, 2b).      *)
DebtMeetsDeposit(L) ==
    \/ Least(L.balance, Total(L.deposit, NP)) <= 0
    \/ \A m \in Settleable(L, {}) : L.paid[m] >= L.price[m]

(* Outside the window between the generation of an invoice and the visit   *)
(* of the pass that follows, debt and deposit never stand side by side, as *)
(* long as no visit fails and corrections only take money away:            *)
(* adjustBalance does not settle what a correction upwards lets the        *)
(* cheques spend again.                                                    *)
NoDebtBesideDeposit ==
    AutoApply /\ ~VisitsFail /\ (\A d \in Adjustments : d < 0) =>
        \A s \in Students \ due : DebtMeetsDeposit(ledger[s])

(* With any corrections: a student whose deposit is spent, or whom the     *)
(* pass will visit, stays so in every step but his own correction upwards  *)
(* and a visit to him that fails.                                          *)
OnlyCorrectionsUnsettle ==
    [][ \A s \in Students :
          /\ AutoApply
          /\ s \in due \/ DebtMeetsDeposit(ledger[s])
          /\ ~ \E d \in Adjustments : d > 0 /\ AdjustBalance(s, d)
          /\ ~ FailDue(s)
          => s \in due' \/ DebtMeetsDeposit(ledger'[s])
      ]_vars

(* A month that gains money in a step gains it only when no older month    *)
(* that settlement may touch still owes: FIFO by month, for a new cheque,  *)
(* for what a void, a cancellation or an amendment frees, and for the      *)
(* passes.  Only reworkAllocation moves money where it is told to.         *)
OldestFirst ==
    [][ \A s \in Students, m, n \in Months :
          /\ m < n
          /\ ledger'[s].paid[n] > ledger[s].paid[n]
          /\ ~ \E p \in Pays, x \in Months : \E c \in 1..ledger[s].alloc[p][x] :
                 \E k \in 0..c : Rework(s, p, x, c, k, n)
          => m \notin Settleable(ledger'[s], {}) \/ ledger'[s].paid[m] >= ledger'[s].price[m]
      ]_vars

(* A month from which an administrator took money away is not refilled     *)
(* from the deposit by any step that is not itself a decision about it:    *)
(* the passes, voids, cancellations and restores leave it as it is.        *)
HeldStaysUnfilled ==
    [][ \A s \in Students :
          (\/ ApplyDue(s)
           \/ \E p \in Pays : VoidPayment(s, p)
           \/ \E n \in Months : CancelInvoice(s, n) \/ RestoreInvoice(s, n)
           \/ \E j \in jobs : j.student = s /\ CommitReplace(j))
          => \A m \in Months : ledger[s].hold[m] /\ ledger'[s].hold[m]
                               => ledger'[s].paid[m] <= ledger[s].paid[m]
      ]_vars

(* The rows of a student are a wallet: no operation makes or loses money,  *)
(* a refund and a correction never touch what months hold, and no two      *)
(* wallets change together but when a cheque changes its owner.            *)
Wallet == INSTANCE StudentWallet WITH
              free        <- [s \in Students |-> ledger[s].balance],
              placed      <- [s \in Students |-> Total(ledger[s].paid, NM)],
              cash        <- [s \in Students |-> ledger[s].cash],
              corrections <- [s \in Students |-> ledger[s].adjusted]
ImplementsWallet == Wallet!Spec

(* A debt that stands beside a deposit is paid from it in the end, also    *)
(* when the process dies between the generation and the settlement, and    *)
(* when visits to the student fail, though not all of them.                *)
DepositReachesDebt ==
    \A s \in Students : ~DebtMeetsDeposit(ledger[s]) ~> DebtMeetsDeposit(ledger[s])

-----------------------------------------------------------------------------
(* A statement of the code's comments that does not hold of the code.      *)

(* financeReconcile, invariant 2: the balance of a student is what the     *)
(* cheques still hold as deposit, plus the corrections.                    *)
BalanceIsDeposits ==
    \A s \in Students :
        ledger[s].balance = Total(ledger[s].deposit, NP) + ledger[s].adjusted
=============================================================================
