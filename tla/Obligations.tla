----------------------------- MODULE Obligations -----------------------------
(***************************************************************************)
(* What one person is owed or owes, and the payments on it: salaries       *)
(* (PayrollEntry, SalaryPayment) and damage (DamageCharge, DamagePayment). *)
(* The two are written alike; `kind` says which of them a behaviour is     *)
(* about.                                                                  *)
(*                                                                         *)
(* No row is locked up front: a request reads, computes, and then writes   *)
(* each row on the condition that it is still what was read, or gives up   *)
(* with a ConflictError that rolls back what it wrote.  A request is two   *)
(* steps, Begin... and Commit...: its updates lock the rows whose          *)
(* condition they checked until it commits, so checking and writing are    *)
(* one step.  Everything may happen between the two steps.                 *)
(***************************************************************************)
EXTENDS PrefixSums, FiniteSets

CONSTANTS
    Kinds,      \* subset of {"salary", "damage"}
    NE,         \* obligations of the person, in the order FIFO pays them
    NP,         \* payments
    Requests,
    Prices,     \* what an obligation can come to
    Amounts     \* what is paid at a time

ASSUME ObligationsAssumption ==
    /\ Kinds \subseteq {"salary", "damage"} /\ NE \in Nat /\ NP \in Nat
    /\ Prices \subseteq Nat /\ Amounts \subseteq Nat \ {0}

Entries == 1..NE
Pays    == 1..NP
Status  == {"none", "unpaid", "partial", "paid", "cancelled"}

VARIABLES
    kind,
    entry,  \* amount, paidAmount and status of the obligations
    pay,    \* payments: amount (0: not made yet), isVoided, and allocations
    cash,   \* the sum of what the payments posted to accounts, as a positive number
    req     \* requests that have read and not written yet

vars == <<kind, entry, pay, cash, req>>

Entry   == [amount : Nat, paid : Nat, status : Status]
NoEntry == [amount |-> 0, paid |-> 0, status |-> "none"]
Payment == [amount : Nat, voided : BOOLEAN, alloc : [Entries -> Nat]]
Nothing == [e \in Entries |-> 0]

NoRequest == [do |-> "idle"]
Request ==
    [do : {"pay", "void", "edit"}, p : Pays, amount : Nat, read : [Entries -> Entry]]
        \cup [do : {"rewrite"}, e : Entries, amount : Nat, read : Entry]
        \cup [do : {"cancel"}, e : Entries]

Init ==
    /\ kind \in Kinds
    /\ entry = [e \in Entries |-> NoEntry]
    /\ pay = [p \in Pays |-> [amount |-> 0, voided |-> FALSE, alloc |-> Nothing]]
    /\ cash = 0
    /\ req = [r \in Requests |-> NoRequest]

-----------------------------------------------------------------------------
IsOpen(row) == row.status \in {"unpaid", "partial"}
IsLive(p)   == pay[p].amount > 0 /\ ~pay[p].voided

(* deriveStatus, and statusFor of the payroll, which also calls an         *)
(* obligation of nothing paid.                                             *)
DeriveStatus(amount, paid) ==
    CASE paid = 0                 -> "unpaid"
      [] paid > 0 /\ paid >= amount -> "paid"
      [] paid > 0 /\ paid < amount  -> "partial"

StatusFor(amount, paid) ==
    IF paid >= amount THEN "paid" ELSE IF paid > 0 THEN "partial" ELSE "unpaid"

(* What is left to pay on the rows of a set, and how FIFO spreads money.   *)
Debt(rows, E) == [e \in Entries |-> IF e \in E THEN Most(0, rows[e].amount - rows[e].paid) ELSE 0]

(* A bug: a share is not kept from falling below zero.                     *)
AllocateUnclamped(debt, money) ==
    LET owed == Cum(debt, NE)
    IN  [e \in Entries |-> Least(owed[e], money) - owed[e - 1]]

AllocateFifo(debt, money) ==
    LET owed == Cum(debt, NE)
    IN  [e \in Entries |-> Overlap(owed[e - 1], owed[e], 0, money)]

(* The row after `paid` is paid on it, by what was read of it.             *)
Repaid(row, read, paid) ==
    [row EXCEPT !.paid = paid, !.status = DeriveStatus(read.amount, paid)]

Ask(r, request) ==
    /\ req[r] = NoRequest
    /\ req' = [req EXCEPT ![r] = request]
    /\ UNCHANGED <<kind, entry, pay, cash>>

Finish(r) == req' = [req EXCEPT ![r] = NoRequest] /\ UNCHANGED kind
GiveUp(r) == Finish(r) /\ UNCHANGED <<entry, pay, cash>>

-----------------------------------------------------------------------------
(* createPayment.                                                          *)

BeginPay(r) == \E p \in Pays, a \in Amounts :
    /\ pay[p].amount = 0
    /\ \A q \in Requests : req[q].do \in {"pay", "edit"} => req[q].p # p
    /\ a <= Total(Debt(entry, {e \in Entries : IsOpen(entry[e])}), NE)
    /\ Ask(r, [do |-> "pay", p |-> p, amount |-> a, read |-> entry])

TakeOf(q) == AllocateFifo(Debt(q.read, {e \in Entries : IsOpen(q.read[e])}), q.amount)

(* A bug: the condition does not compare the amount.                       *)
IsAsReadButAmount(row, read) == row.paid = read.paid /\ IsOpen(row)

(* The condition of the update of one obligation.  A charge is never       *)
(* repriced, and damagePayment does not compare its amount.                *)
IsAsRead(row, read) ==
    /\ row.paid = read.paid /\ IsOpen(row)
    /\ kind = "salary" => row.amount = read.amount

CommitPay(r) ==
    /\ req[r].do = "pay"
    /\ LET q    == req[r]
           take == TakeOf(q)
       IN  \/ /\ \A e \in Entries : take[e] > 0 => IsAsRead(entry[e], q.read[e])
              /\ entry' = [e \in Entries |->
                    IF take[e] > 0 THEN Repaid(entry[e], q.read[e], q.read[e].paid + take[e])
                                   ELSE entry[e]]
              /\ pay' = [pay EXCEPT ![q.p] = [amount |-> q.amount, voided |-> FALSE, alloc |-> take]]
              /\ cash' = cash + q.amount
              /\ Finish(r)
           \/ /\ \E e \in Entries : take[e] > 0 /\ ~ IsAsRead(entry[e], q.read[e])
              /\ GiveUp(r)

(* voidPayment.  Its condition compares only paidAmount, and the status it *)
(* writes comes from the amount it read.                                   *)

BeginVoid(r) == \E p \in Pays :
    /\ IsLive(p)
    /\ Ask(r, [do |-> "void", p |-> p, amount |-> pay[p].amount, read |-> entry])

(* A bug: the payment is not asked again whether it is voided.             *)
CanVoidTwice(q) == \A e \in Entries : pay[q.p].alloc[e] > 0 =>
    entry[e].paid = q.read[e].paid /\ q.read[e].paid >= pay[q.p].alloc[e]

CanVoid(q) ==
    /\ IsLive(q.p)
    /\ \A e \in Entries : pay[q.p].alloc[e] > 0 =>
           entry[e].paid = q.read[e].paid /\ q.read[e].paid >= pay[q.p].alloc[e]

CommitVoid(r) ==
    /\ req[r].do = "void"
    /\ LET q == req[r]
           freed == pay[q.p].alloc
       IN  \/ /\ CanVoid(q)
              /\ entry' = [e \in Entries |->
                    IF freed[e] > 0 THEN Repaid(entry[e], q.read[e], q.read[e].paid - freed[e])
                                    ELSE entry[e]]
              /\ pay' = [pay EXCEPT ![q.p].voided = TRUE]
              /\ cash' = cash - pay[q.p].amount
              /\ Finish(r)
           \/ ~ CanVoid(q) /\ GiveUp(r)

(* editPayment of a salary: the old payment is voided and a new one is     *)
(* spread over what is then owed, in one transaction with one write for    *)
(* each obligation.                                                        *)

BeginEdit(r) == \E p \in Pays, a \in Amounts \cup {0} :
    /\ kind = "salary" /\ IsLive(p)
    /\ a > 0 => a # pay[p].amount
    /\ Ask(r, [do |-> "edit", p |-> p, amount |-> IF a = 0 THEN pay[p].amount ELSE a, read |-> entry])

CommitEdit(r) ==
    /\ req[r].do = "edit"
    /\ LET q     == req[r]
           freed == pay[q.p].alloc
           back  == [e \in Entries |-> [q.read[e] EXCEPT !.paid = @ - freed[e]]]
           rows  == {e \in Entries : IsOpen(q.read[e]) \/ freed[e] > 0}
           debt  == Debt(back, {e \in rows : q.read[e].status # "cancelled"})
           take  == AllocateFifo(debt, q.amount)
           touched == {e \in rows : take[e] > 0 \/ freed[e] > 0}
           fits  == /\ IsLive(q.p)
                    /\ \A e \in Entries : back[e].paid >= 0
                    /\ q.amount <= Total(debt, NE)
                    /\ \A e \in touched : entry[e] = q.read[e]
       IN  \/ \E p \in Pays :
              /\ fits /\ pay[p].amount = 0
              /\ \A s \in Requests : req[s].do = "pay" => req[s].p # p
              /\ entry' = [e \in Entries |->
                    IF e \in touched THEN Repaid(entry[e], q.read[e], back[e].paid + take[e])
                                     ELSE entry[e]]
              /\ pay' = [pay EXCEPT ![q.p].voided = TRUE,
                                    ![p] = [amount |-> q.amount, voided |-> FALSE, alloc |-> take]]
              /\ cash' = cash - pay[q.p].amount + q.amount
              /\ Finish(r)
           \/ ~ fits /\ GiveUp(r)

-----------------------------------------------------------------------------
(* Where the obligations come from.                                        *)

(* createCharges writes a charge, generateForMonth a month's salary if     *)
(* there is none: createMany skips what exists.                            *)
Create(e) == \E a \in Prices :
    /\ entry[e].status = "none"
    /\ kind = "damage" => a > 0
    /\ entry' = [entry EXCEPT ![e] = [amount |-> a, paid |-> 0, status |-> StatusFor(a, 0)]]
    /\ UNCHANGED <<kind, pay, cash, req>>

(* generateForMonth brings back a cancelled salary, reprices one on which  *)
(* nothing is paid or cancels it; each is one statement with its condition *)
(* and the price was computed before.                                      *)
Regenerate(e) == \E a \in Prices :
    /\ kind = "salary" /\ entry[e].paid = 0
    /\ entry[e].status \in {"cancelled", "unpaid", "paid"}
    /\ \/ entry' = [entry EXCEPT ![e].amount = a, ![e].status = StatusFor(a, 0)]
       \/ /\ entry[e].status # "cancelled"
          /\ entry' = [entry EXCEPT ![e].status = "cancelled"]
    /\ UNCHANGED <<kind, pay, cash, req>>

(* recalcEntries and resyncSealedEntries: a new price for a salary that    *)
(* may be partly paid, refused when more than that is paid.                *)
BeginRewrite(r) == \E e \in Entries, a \in Prices :
    /\ kind = "salary"
    /\ entry[e].status \notin {"none", "cancelled"}
    /\ a # entry[e].amount /\ a >= entry[e].paid
    /\ Ask(r, [do |-> "rewrite", e |-> e, amount |-> a, read |-> entry[e]])

(* A bug: nothing is compared.                                             *)
CanRewriteBlindly(q) == entry[q.e].status # "cancelled"

CanRewrite(q) == entry[q.e] = q.read

CommitRewrite(r) ==
    /\ req[r].do = "rewrite"
    /\ LET q == req[r]
       IN  \/ /\ CanRewrite(q)
              /\ entry' = [entry EXCEPT ![q.e].amount = q.amount,
                                        ![q.e].status = StatusFor(q.amount, q.read.paid)]
              /\ Finish(r) /\ UNCHANGED <<pay, cash>>
           \/ ~ CanRewrite(q) /\ GiveUp(r)

(* cancelEntry and cancelCharge look whether something is paid before they *)
(* write; the salary is then written without a condition, the charge on    *)
(* the condition that it is open.                                          *)
BeginCancel(r) == \E e \in Entries :
    /\ entry[e].status \notin {"none", "cancelled"} /\ entry[e].paid = 0
    /\ Ask(r, [do |-> "cancel", e |-> e])

CommitCancel(r) ==
    /\ req[r].do = "cancel"
    /\ LET e == req[r].e
           allowed == kind = "salary" \/ IsOpen(entry[e])
       IN  \/ /\ allowed
              /\ entry' = [entry EXCEPT ![e].status = "cancelled"]
              /\ Finish(r) /\ UNCHANGED <<pay, cash>>
           \/ ~ allowed /\ GiveUp(r)

Next ==
    \/ \E r \in Requests :
       \/ BeginPay(r) \/ CommitPay(r) \/ BeginVoid(r) \/ CommitVoid(r)
       \/ BeginEdit(r) \/ CommitEdit(r) \/ BeginRewrite(r) \/ CommitRewrite(r)
       \/ BeginCancel(r) \/ CommitCancel(r)
    \/ \E e \in Entries : Create(e) \/ Regenerate(e)

Spec == Init /\ [][Next]_vars

-----------------------------------------------------------------------------
TypeOK ==
    /\ kind \in Kinds
    /\ entry \in [Entries -> Entry]
    /\ pay \in [Pays -> Payment]
    /\ cash \in Int
    /\ req \in [Requests -> Request \cup {NoRequest}]

(* No obligation is overpaid, whichever payments, edits, withholdings and  *)
(* recalculations of the same months meet: payrollRecalc.service.js says a *)
(* race ends with a ConflictError and not with an overpayment.             *)
NotOverpaid == \A e \in Entries : entry[e].paid <= entry[e].amount

(* Every som that left (or came in) is on an obligation, and every som     *)
(* paid on one is in an allocation of a payment that stands: no update of  *)
(* paidAmount is lost and none is made twice.                              *)
MoneyIsAllocated ==
    /\ \A e \in Entries :
           entry[e].paid = Total([p \in Pays |-> IF pay[p].voided THEN 0 ELSE pay[p].alloc[e]], NP)
    /\ \A p \in Pays : pay[p].amount = Total(pay[p].alloc, NE)
    /\ cash = Total([e \in Entries |-> entry[e].paid], NE)

(* The status of an obligation that stands is what its amount and what is  *)
(* paid on it say, although voidPayment derives it from an amount that may *)
(* have been replaced since it read it.                                    *)
StatusFollows == \A e \in Entries :
    entry[e].status \notin {"none", "cancelled"} =>
        entry[e].status = StatusFor(entry[e].amount, entry[e].paid)
=============================================================================
