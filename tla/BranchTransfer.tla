---------------------------- MODULE BranchTransfer ----------------------------
(***************************************************************************)
(* A pupil moves to another branch.  Every branch is a schema of its own   *)
(* with a ledger of its own for the pupil, so the `Students` of the        *)
(* extended module are here the branches, and ledger[b] holds the pupil's  *)
(* rows in branch b.  One transaction over both schemas empties the ledger *)
(* of the old branch and opens debt and deposit in the new one.            *)
(*                                                                         *)
(* The transaction plans under an advisory lock that only other transfers  *)
(* take; it takes the row locks of the two accounts later, when it writes. *)
(* Between the two, every other operation of the ledgers may run.  What    *)
(* follows the commit (cancelling what a pass has written meanwhile, the   *)
(* first bill, settlement) are separate calls, each of which may fail.     *)
(***************************************************************************)
EXTENDS StudentLedger

CONSTANTS
    Enrolled,      \* the branch the pupil begins in
    NoPlan,        \* no transfer is between its plan and its commit
    MaxWorth,      \* bound on what a cheque is worth, a carried one too
    MaxReceipts,   \* bound on the cheques there can be when a cashier enters one
    MaxTransfers,  \* bound on the transfers
    TransfersWait  \* bound: a transfer begins when the steps after the last are over

ASSUME TransferAssumption ==
    /\ IsFiniteSet(Students) /\ Enrolled \in Students
    /\ MaxWorth \in Nat /\ Amounts \subseteq 1..MaxWorth /\ MaxReceipts \in Nat /\ MaxTransfers \in Nat
    /\ TransfersWait \in BOOLEAN

VARIABLES
    home,        \* the branch the pupil studies in
    plan,        \* what the running transfer has planned
    after,       \* the steps that follow the last commit, as far as they are left
    transfers,   \* transfers written so far
    sent,        \* branch -> sum of its branch_transfer_out entries
    overwritten  \* history: a debt was written over a month with money on it

moving == <<home, plan, after, transfers, sent, overwritten>>
tvars == <<ledger, jobs, due, moving>>

(* The sum of a number of every branch.                                    *)
InAll(f) == SumOver(f, Students)

Done == [task |-> "none"]
Only(f, S) == [m \in Months |-> IF m \in S THEN f[m] ELSE 0]

-----------------------------------------------------------------------------
(* Cheques are entered in the order of their dates here: back-dated ones   *)
(* are left to the runs of StudentLedger.                                  *)
NextCheque(L, p) == \A q \in Pays : L.amount[q] > 0 <=> q < p

Billed(L) == {m \in Months : L.status[m] \notin {"none", "cancelled"}}

(* What the cheques get back when the months of S are released.            *)
Freed(L, S) == [p \in Pays |-> Total(Only(L.alloc[p], S), NM)]

(* planStudentFinance.  Months from the boundary on are given up, open     *)
(* months before it move where the new branch has no live row for them.    *)
(* Cash leaves only as far as cheques hold it.                             *)
PlanStudentFinance(b, c, boundary) ==
    LET L == ledger[b]
        T == ledger[c]
        vacating == {m \in Billed(L) : m >= boundary}
        open     == {m \in Months : m < boundary /\ IsOpen(L, m)}
        fresh    == {m \in open : T.status[m] = "none"}
        restored == {m \in open : T.status[m] = "cancelled" /\ T.paid[m] = 0}
        gone     == vacating \cup fresh \cup restored
        deposit  == L.balance + Total(Only(L.paid, gone), NM)
        receipts == Total(L.deposit, NP) + Total(Freed(L, gone), NP)
    IN  [from |-> b, to |-> c, boundary |-> boundary, cancelling |-> gone,
         fresh |-> fresh, restored |-> restored,
         deposit |-> deposit, cash |-> Least(deposit, receipts)]

(* releaseAndCancel: no settlement follows, the deposit is about to leave. *)
ReleaseAndCancel(L, S) ==
    LET freed == Freed(L, S)
    IN  [L EXCEPT
           !.alloc   = [p \in Pays |-> [m \in Months |-> IF m \in S THEN 0 ELSE L.alloc[p][m]]],
           !.deposit = [p \in Pays |-> L.deposit[p] + freed[p]],
           !.paid    = Only(L.paid, Months \ S),
           !.status  = [m \in Months |-> IF m \in S THEN "cancelled" ELSE L.status[m]],
           !.hold    = [m \in Months |-> m \notin S /\ L.hold[m]],
           !.balance = @ + Total(freed, NP)]

(* The old branch books the deposit out as a correction; its cheques keep  *)
(* their deposit.                                                          *)
SendDeposit(L, t) == [L EXCEPT !.balance = @ - t.deposit, !.adjusted = @ - t.deposit]

(* The moved months are written with the composition of the old rows.      *)
OpenDebts(T, L, t) ==
    LET S == t.fresh \cup t.restored
    IN  [T EXCEPT !.price  = [m \in Months |-> IF m \in S THEN L.price[m] ELSE T.price[m]],
                  !.paid   = Only(T.paid, Months \ S),
                  !.status = [m \in Months |-> IF m \in S THEN "unpaid" ELSE T.status[m]],
                  !.hold   = [m \in Months |-> m \notin S /\ T.hold[m]]]

(* A bug: the deposit arrives as a correction that no cheque backs.        *)
ReceiveAsCorrection(T, t, p) ==
    [T EXCEPT !.balance = @ + t.deposit, !.adjusted = @ + t.deposit]

(* The cash part arrives as cheque p, the rest as a correction.            *)
ReceiveDeposit(T, t, p) ==
    [T EXCEPT !.balance    = @ + t.deposit,
              !.adjusted   = @ + t.deposit - t.cash,
              !.amount[p]  = IF t.cash > 0 THEN t.cash ELSE @,
              !.deposit[p] = @ + t.cash,
              !.cash       = @ + t.cash]

-----------------------------------------------------------------------------
(* The steps that follow an earlier transfer may still be running, unless  *)
(* TransfersWait keeps them apart; from the next commit on, what is left   *)
(* of them is among the operations of the branches (BranchStep).           *)
BeginTransfer(c, boundary) ==
    /\ plan = NoPlan
    /\ c # home /\ transfers < MaxTransfers
    /\ TransfersWait => after = Done
    /\ plan' = PlanStudentFinance(home, c, boundary)
    /\ UNCHANGED <<vars, home, after, transfers, sent, overwritten>>

(* A bug: the balance is not compared with the plan.                       *)
CommitUnchecked(p) ==
    /\ plan # NoPlan
    /\ plan.cash <= MaxWorth
    /\ plan.cash > 0 => NextCheque(ledger[plan.to], p)
    /\ plan.cancelling \subseteq Billed(ledger[plan.from])
    /\ \A m \in plan.fresh : ledger[plan.to].status[m] = "none"
    /\ LET L == ReleaseAndCancel(ledger[plan.from], plan.cancelling)
           T == OpenDebts(ledger[plan.to], L, plan)
       IN  ledger' = [ledger EXCEPT ![plan.from] = SendDeposit(L, plan),
                                    ![plan.to] = ReceiveDeposit(T, plan, p)]
    /\ sent' = [sent EXCEPT ![plan.from] = @ + plan.cash]
    /\ overwritten' = (overwritten \/ \E m \in plan.restored :
                          ledger[plan.to].paid[m] > 0)
    /\ home' = plan.to /\ transfers' = transfers + 1
    /\ plan' = NoPlan
    /\ after' = [task |-> "read", from |-> plan.from, boundary |-> plan.boundary,
                 settles |-> plan.deposit > 0]
    /\ UNCHANGED <<jobs, due>>

(* writeStudentFinance: every month to cancel must still be live, a fresh  *)
(* month must not have a row yet, and the balance must be the planned one. *)
(* A month to restore is written over whatever its row holds by now.       *)
CommitTransfer(p) ==
    /\ plan # NoPlan
    /\ plan.cash <= MaxWorth
    /\ plan.cash > 0 => NextCheque(ledger[plan.to], p)
    /\ plan.cancelling \subseteq Billed(ledger[plan.from])
    /\ \A m \in plan.fresh : ledger[plan.to].status[m] = "none"
    /\ LET L == ReleaseAndCancel(ledger[plan.from], plan.cancelling)
           T == OpenDebts(ledger[plan.to], L, plan)
       IN  /\ L.balance = plan.deposit
           /\ ledger' = [ledger EXCEPT ![plan.from] = SendDeposit(L, plan),
                                       ![plan.to] = ReceiveDeposit(T, plan, p)]
    /\ sent' = [sent EXCEPT ![plan.from] = @ + plan.cash]
    /\ overwritten' = (overwritten \/ \E m \in plan.restored :
                          ledger[plan.to].paid[m] > 0)
    /\ home' = plan.to /\ transfers' = transfers + 1
    /\ plan' = NoPlan
    /\ after' = [task |-> "read", from |-> plan.from, boundary |-> plan.boundary,
                 settles |-> plan.deposit > 0]
    /\ UNCHANGED <<jobs, due>>

(* A conflict, an error or a lost connection.                              *)
RollbackTransfer ==
    /\ plan # NoPlan
    /\ plan' = NoPlan
    /\ UNCHANGED <<vars, home, after, transfers, sent, overwritten>>

-----------------------------------------------------------------------------
(* afterStudents.  The old branch is asked again which months it still     *)
(* bills; when that fails, all that follows is skipped.  A later step that *)
(* fails leaves a warning, and the next one runs.                          *)
AfterRead ==
    /\ after.task = "read"
    /\ \/ after' = [task |-> "vacate", from |-> after.from, boundary |-> after.boundary,
                    settles |-> after.settles,
                    months |-> {m \in Billed(ledger[after.from]) : m >= after.boundary}]
       \/ after' = Done
    /\ UNCHANGED <<vars, home, plan, transfers, sent, overwritten>>

AfterCancel ==
    /\ after.task = "vacate"
    /\ \E m \in after.months :
         /\ \A n \in after.months : m <= n
         /\ CancelInvoice(after.from, m) \/ UNCHANGED vars
         /\ after' = [after EXCEPT !.months = @ \ {m}]
    /\ UNCHANGED <<home, plan, transfers, sent, overwritten>>

(* The first month is billed at once when it is the current one; a deposit *)
(* that came along is settled then.                                        *)
AfterBill ==
    /\ after.task = "vacate" /\ after.months = {}
    /\ \/ /\ after.boundary \in Months
          /\ \E price \in Prices : GenerateInvoice(home, after.boundary, price)
       \/ UNCHANGED vars
    /\ after' = IF after.settles THEN [task |-> "settle"] ELSE Done
    /\ UNCHANGED <<home, plan, transfers, sent, overwritten>>

AfterSettle ==
    /\ after.task = "settle"
    /\ Commit(home, Settle(ledger[home])) \/ UNCHANGED ledger
    /\ after' = Done
    /\ UNCHANGED <<jobs, due, home, plan, transfers, sent, overwritten>>

(* The pass that a start begins is the daily one; that it is the only one   *)
(* here keeps the instance small.                                          *)
RestartBoth ==
    /\ Restart
    /\ plan' = NoPlan /\ after' = Done
    /\ UNCHANGED <<home, transfers, sent, overwritten>>

-----------------------------------------------------------------------------
TransferInit ==
    /\ Init
    /\ home = Enrolled
    /\ plan = NoPlan /\ after = Done
    /\ transfers = 0
    /\ sent = [b \in Students |-> 0]
    /\ overwritten = FALSE

(* The operations of one branch, as StudentLedger has them; the bounds on  *)
(* cheques and corrections count both branches.                            *)
Corrections == InAll([b \in Students |-> ledger[b].adjusted + sent[b]])
Cheques == InAll([b \in Students |-> Cardinality({p \in Pays : ledger[b].amount[p] > 0})])

BranchStep(b) ==
    \/ /\ Cheques < MaxReceipts
       /\ \E p \in Pays, a \in Amounts : NextCheque(ledger[b], p) /\ CreatePayment(b, p, a)
    \/ \E p \in Pays : VoidPayment(b, p)
    \/ \E p \in Pays, m, n \in Months :
         \E c \in 1..ledger[b].alloc[p][m] : \E k \in 0..c : Rework(b, p, m, c, k, n)
    \/ \E a \in Money(b) : Refund(b, a)
    \/ \E d \in Adjustments : /\ Corrections + d \in (-MaxAdjusted)..MaxAdjusted
                              /\ AdjustBalance(b, d)
    \/ \E m \in Months : \/ CancelInvoice(b, m) \/ RestoreInvoice(b, m)
                         \/ \E price \in Prices : GenerateInvoice(b, m, price)
    \/ ApplyDue(b) \/ FailDue(b)

TransferNext ==
    \/ \E b \in Students : BranchStep(b) /\ UNCHANGED moving
    \/ \E c \in Students, boundary \in 1..(NM + 1) : BeginTransfer(c, boundary)
    \/ \E p \in Pays : CommitTransfer(p)
    \/ RollbackTransfer
    \/ AfterRead \/ AfterCancel \/ AfterBill \/ AfterSettle
    \/ RestartBoth

TransferSpec == TransferInit /\ [][TransferNext]_tvars

-----------------------------------------------------------------------------
Together(f) == [pupil \in {"pupil"} |-> InAll(f)]

(* However often the pupil moves, and whatever runs beside a transfer, the *)
(* two ledgers together are one wallet: a transfer is a step that neither  *)
(* makes nor loses money, and what leaves one cash box enters the other.   *)
(* The exception is a transfer that wrote over a month of the new branch   *)
(* which was restored and paid between its plan and its commit: what was   *)
(* paid on it is lost, and from then on nothing is promised.               *)
Pupil == INSTANCE StudentWallet WITH
             Students    <- {"pupil"},
             Amounts     <- 1..MaxWorth,
             free        <- Together([b \in Students |-> ledger[b].balance]),
             placed      <- Together([b \in Students |-> Total(ledger[b].paid, NM)]),
             cash        <- Together([b \in Students |-> ledger[b].cash - sent[b]]),
             corrections <- Together([b \in Students |-> ledger[b].adjusted + sent[b]])
PupilKeepsHisMoney ==
    Pupil!Init /\ [][overwritten' \/ Pupil!Next]_(Pupil!wallet)

Owed(L) == Total(Debt(L, {m \in Months : IsOpen(L, m)}), NM)
Spendable(L) == Least(L.balance, Total(L.deposit, NP))

(* What a transfer of plan t does to the ledger L of the old branch and T  *)
(* of the new one, when they become M and U: what the pupil owns less what *)
(* he owes, over both branches, only gains the price of the months given   *)
(* up; no month is newly billed in both; what cheques let him spend on     *)
(* debt he can still spend; and the old branch keeps no money.             *)
CarriesEverything(t, L, T, M, U) ==
    /\ (M.balance - Owed(M)) + (U.balance - Owed(U))
         = (L.balance - Owed(L)) + (T.balance - Owed(T))
           + Total(Only(L.price, {m \in Billed(L) : m >= t.boundary}), NM)
    /\ Billed(M) \cap Billed(U) \subseteq Billed(L) \cap Billed(T)
    /\ Spendable(M) + Spendable(U) >= Spendable(L) + Spendable(T)
    /\ M.balance = 0

(* The step writes a plan that both ledgers would still give.              *)
PlanIsCurrent ==
    /\ home' # home
    /\ plan = PlanStudentFinance(plan.from, plan.to, plan.boundary)

ArrivesWhole ==
    PlanIsCurrent =>
        /\ CarriesEverything(plan, ledger[plan.from], ledger[plan.to],
                             ledger'[plan.from], ledger'[plan.to])
        /\ LedgersAgree => LedgersAgree'

(* A transfer whose plan is still true when it commits carries everything, *)
(* once, and the books of both branches stay right.                        *)
TransferIsWhole == [][ArrivesWhole]_tvars
=============================================================================
