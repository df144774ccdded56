-------------------------- MODULE ObligationsProofs --------------------------
(***************************************************************************)
(* Obligations are never overpaid, their money is where the allocations    *)
(* say and their status follows, for any number of obligations, payments   *)
(* and requests and any amounts.  What makes the invariant inductive is    *)
(* what a request in flight may rely on: see RequestsHold.                 *)
(***************************************************************************)
EXTENDS Obligations, PrefixSumsProofs, TLAPS

-----------------------------------------------------------------------------
(* The books for given rows, so that an edit can be taken apart into the   *)
(* void and the payment it is made of.                                     *)
LiveOn(pa, e) == [p \in Pays |-> IF pa[p].voided THEN 0 ELSE pa[p].alloc[e]]
PaidOn(en) == [e \in Entries |-> en[e].paid]
MoneyHolds(en, pa, ca) ==
    /\ \A e \in Entries : en[e].paid = Total(LiveOn(pa, e), NP)
    /\ \A p \in Pays : pa[p].amount = Total(pa[p].alloc, NE)
    /\ ca = Total(PaidOn(en), NE)

(* What a handler has read stays good enough: it was not overpaid, and a   *)
(* charge, whose amount the payment does not compare, still costs as much. *)
ReadHolds(k, en, read) == \A e \in Entries :
    /\ read[e].paid <= read[e].amount
    /\ k = "damage" /\ read[e].status # "none" =>
           en[e].status # "none" /\ en[e].amount = read[e].amount

(* What was owed by what a handler has read.                               *)
OwedOn(read) == Total(Debt(read, {e \in Entries : IsOpen(read[e])}), NE)

(* A new payment has a row of its own and is no more than was owed; only   *)
(* salaries are edited and repriced, and never below what is paid.         *)
RequestsHold ==
    /\ \A r \in Requests : req[r].do \in {"pay", "void", "edit"} => ReadHolds(kind, entry, req[r].read)
    /\ \A r \in Requests : req[r].do = "pay" =>
           /\ pay[req[r].p].amount = 0
           /\ req[r].amount <= OwedOn(req[r].read)
    /\ \A r, s \in Requests :
           r # s /\ req[r].do = "pay" /\ req[s].do = "pay" => req[r].p # req[s].p
    /\ \A r \in Requests : req[r].do = "rewrite" =>
           kind = "salary" /\ req[r].read.paid <= req[r].amount
    /\ \A r \in Requests : req[r].do = "edit" => kind = "salary"

(* Nothing is paid on an obligation before it is there.                    *)
AbsentIsUnpaid == \A e \in Entries : entry[e].status = "none" => entry[e].paid = 0

IInv == /\ TypeOK /\ NotOverpaid /\ MoneyIsAllocated /\ StatusFollows
        /\ AbsentIsUnpaid /\ RequestsHold

-----------------------------------------------------------------------------
(* What the type of a request says of its fields.                          *)
LEMMA RequestFields ==
  ASSUME TypeOK, NEW r \in Requests
  PROVE  /\ req[r] = NoRequest \/ req[r] \in Request
         /\ req[r].do \in {"pay", "void", "edit"} =>
              /\ req[r].p \in Pays /\ req[r].amount \in Nat
              /\ req[r].read \in [Entries -> Entry]
         /\ req[r].do = "rewrite" =>
              /\ req[r].e \in Entries /\ req[r].amount \in Nat /\ req[r].read \in Entry
         /\ req[r].do = "cancel" => req[r].e \in Entries
BY DEF TypeOK, Request, NoRequest

(* FIFO gives no obligation more than is left on it and, in all, the       *)
(* lesser of what is owed and the money.                                   *)
LEMMA FifoTake ==
  ASSUME NE \in Nat, NEW debt \in [Entries -> Nat], NEW money \in Nat
  PROVE  /\ AllocateFifo(debt, money) \in [Entries -> Nat]
         /\ \A e \in Entries : AllocateFifo(debt, money)[e] <= debt[e]
         /\ Total(AllocateFifo(debt, money), NE) = Least(Total(debt, NE), money)
<1> USE DEF Entries
<1> DEFINE owed == Cum(debt, NE)
           take == AllocateFifo(debt, money)
           g == [n \in 0..NE |-> Least(owed[n], money)]
<1>1. debt \in [1..NE -> Int]
  OBVIOUS
<1>2. \A n \in 0..NE : owed[n] \in Int /\ owed[n] >= 0
  BY <1>1, CumType, CumMonotone
<1>3. owed[0] = 0 /\ \A n \in 1..NE : owed[n] = owed[n - 1] + debt[n]
  BY CumDef
<1>4. take = [e \in Entries |-> Overlap(owed[e - 1], owed[e], 0, money)]
  BY DEF AllocateFifo
<1>5. Total(debt, NE) = owed[NE]
  BY DEF Total
<1> HIDE DEF owed, take
<1>6. g \in [0..NE -> Int]
  BY <1>2 DEF Least
<1>7. ASSUME NEW e \in 1..NE
      PROVE  take[e] = g[e] - g[e - 1] /\ take[e] \in Nat /\ take[e] <= debt[e]
  <2>1. e \in 0..NE /\ e - 1 \in 0..NE /\ debt[e] \in Nat
    OBVIOUS
  <2>2. /\ owed[e] \in Int /\ owed[e - 1] \in Int /\ owed[e - 1] >= 0
        /\ owed[e] = owed[e - 1] + debt[e]
    BY <2>1, <1>2, <1>3
  <2>3. take[e] = Overlap(owed[e - 1], owed[e], 0, money)
    BY <1>4
  <2>4. g[e] = Least(owed[e], money) /\ g[e - 1] = Least(owed[e - 1], money)
    BY <2>1
  <2> HIDE DEF g
  <2> QED BY <2>1, <2>2, <2>3, <2>4 DEF Overlap, Least, Most
<1>8. g[0] = 0 /\ g[NE] = Least(owed[NE], money) /\ g[NE] \in Int
  BY <1>2, <1>3, <1>6 DEF Least
<1> HIDE DEF g
<1>9. Total(take, NE) = g[NE] - g[0]
  BY <1>6, <1>7, CumTelescope
<1>10. take \in [Entries -> Nat]
  BY <1>4, <1>7
<1> QED BY <1>5, <1>7, <1>8, <1>9, <1>10 DEF take

LEMMA DebtType ==
  ASSUME NEW rows \in [Entries -> [amount : Nat, paid : Int, status : Status]], NEW E
  PROVE  Debt(rows, E) \in [Entries -> Nat]
BY DEF Debt, Most

-----------------------------------------------------------------------------
(* A payment of nothing has nothing on any obligation.                     *)
LEMMA NothingOnNothing ==
  ASSUME NE \in Nat, NEW f \in [Entries -> Nat], Total(f, NE) = 0
  PROVE  \A e \in Entries : f[e] = 0
<1>1. f \in [1..NE -> Nat]
  BY DEF Entries
<1>2. \A e \in 1..NE : f[e] <= 0
  BY <1>1, CumMonotone
<1> QED BY <1>1, <1>2 DEF Entries

(* A new payment adds its shares to the rows and its amount to the cash.   *)
LEMMA AddPaymentHolds ==
  ASSUME NE \in Nat, NP \in Nat,
         NEW en \in [Entries -> [amount : Nat, paid : Int, status : Status]],
         NEW pa \in [Pays -> Payment], NEW ca \in Int,
         MoneyHolds(en, pa, ca),
         NEW p \in Pays, pa[p].amount = 0,
         NEW take \in [Entries -> Nat], NEW amount, amount = Total(take, NE),
         NEW en2, \A e \in Entries : en2[e].paid = en[e].paid + take[e],
         NEW pa2, pa2 = [pa EXCEPT ![p] = [amount |-> amount, voided |-> FALSE, alloc |-> take]]
  PROVE  MoneyHolds(en2, pa2, ca + amount)
<1>0. /\ \A e \in Entries : en[e].paid \in Int
      /\ \A q \in Pays : pa[q].alloc \in [Entries -> Nat] /\ pa[q].voided \in BOOLEAN
  BY DEF Payment
<1>1. \A e \in Entries : pa[p].alloc[e] = 0
  BY <1>0, NothingOnNothing DEF MoneyHolds
<1>2. ASSUME NEW e \in Entries
      PROVE  en2[e].paid = Total(LiveOn(pa2, e), NP)
  <2> DEFINE f == LiveOn(pa, e)
             h == LiveOn(pa2, e)
  <2>1. h \in [1..NP -> Int]
    BY <1>0 DEF LiveOn, Pays
  <2>2. \A n \in 1..NP : f[n] = IF n = p THEN 0 ELSE h[n]
    BY <1>0, <1>1 DEF LiveOn, Pays
  <2>3. h[p] = take[e] /\ p \in 1..NP
    BY DEF LiveOn, Pays
  <2> HIDE DEF f, h
  <2>4. Total(f, NP) = Total(h, NP) - h[p] /\ Total(h, NP) \in Int
    BY <2>1, <2>2, <2>3, TotalDrop, CumType
  <2>5. en[e].paid = Total(f, NP)
    BY DEF MoneyHolds, f
  <2> QED BY <2>3, <2>4, <2>5 DEF h
<1>3. \A q \in Pays : pa2[q].amount = Total(pa2[q].alloc, NE)
  BY DEF MoneyHolds
<1>4. ca + amount = Total(PaidOn(en2), NE)
  <2>1. PaidOn(en) \in [1..NE -> Int] /\ take \in [1..NE -> Int]
    BY <1>0 DEF PaidOn, Entries
  <2>2. \A e \in 1..NE : PaidOn(en2)[e] = PaidOn(en)[e] + take[e]
    BY DEF PaidOn, Entries
  <2>3. Total(PaidOn(en2), NE) = Total(PaidOn(en), NE) + Total(take, NE)
    BY <2>1, <2>2, TotalPlus
  <2> QED BY <2>3 DEF MoneyHolds
<1> QED BY <1>2, <1>3, <1>4 DEF MoneyHolds

(* Voiding a payment takes both back.                                      *)
LEMMA VoidPaymentHolds ==
  ASSUME NE \in Nat, NP \in Nat,
         NEW en \in [Entries -> [amount : Nat, paid : Int, status : Status]],
         NEW pa \in [Pays -> Payment], NEW ca \in Int,
         MoneyHolds(en, pa, ca),
         NEW p \in Pays, ~pa[p].voided,
         NEW en2, \A e \in Entries : en2[e].paid = en[e].paid - pa[p].alloc[e],
         NEW pa2, pa2 = [pa EXCEPT ![p].voided = TRUE]
  PROVE  MoneyHolds(en2, pa2, ca - pa[p].amount)
<1>0. /\ \A e \in Entries : en[e].paid \in Int
      /\ \A q \in Pays : pa[q].alloc \in [Entries -> Nat] /\ pa[q].voided \in BOOLEAN
  BY DEF Payment
<1> DEFINE freed == pa[p].alloc
           minus == [e \in Entries |-> 0 - freed[e]]
<1>1. freed \in [1..NE -> Int] /\ minus \in [1..NE -> Int]
  BY <1>0 DEF Entries
<1>2. ASSUME NEW e \in Entries
      PROVE  en2[e].paid = Total(LiveOn(pa2, e), NP)
  <2> DEFINE f == LiveOn(pa, e)
             h == LiveOn(pa2, e)
  <2>1. f \in [1..NP -> Int]
    BY <1>0 DEF LiveOn, Pays
  <2>2. \A n \in 1..NP : h[n] = IF n = p THEN 0 ELSE f[n]
    BY <1>0 DEF LiveOn, Pays
  <2>3. f[p] = freed[e] /\ p \in 1..NP
    BY <1>0 DEF LiveOn, Pays
  <2> HIDE DEF f, h
  <2>4. Total(h, NP) = Total(f, NP) - f[p]
    BY <2>1, <2>2, <2>3, TotalDrop
  <2>5. en[e].paid = Total(f, NP)
    BY DEF MoneyHolds, f
  <2> QED BY <2>3, <2>4, <2>5 DEF h
<1>3. \A q \in Pays : pa2[q].amount = Total(pa2[q].alloc, NE)
  BY DEF MoneyHolds
<1>4. ca - pa[p].amount = Total(PaidOn(en2), NE)
  <2>1. PaidOn(en) \in [1..NE -> Int]
    BY <1>0 DEF PaidOn, Entries
  <2>2. \A e \in 1..NE : PaidOn(en)[e] = PaidOn(en2)[e] + freed[e]
    BY <1>0 DEF PaidOn, Entries
  <2>3. PaidOn(en2) \in [1..NE -> Int]
    BY <1>0 DEF PaidOn, Entries
  <2>4. Total(PaidOn(en), NE) = Total(PaidOn(en2), NE) + Total(freed, NE)
    BY <1>1, <2>2, <2>3, TotalPlus
  <2>5. Total(PaidOn(en2), NE) \in Int /\ Total(freed, NE) \in Int
    BY <1>1, <2>3, CumType
  <2> QED BY <2>4, <2>5 DEF MoneyHolds
<1> QED BY <1>2, <1>3, <1>4 DEF MoneyHolds

-----------------------------------------------------------------------------
(* The obligations may rely on this much of the constants.                 *)
LEMMA Constants ==
  NE \in Nat /\ NP \in Nat /\ Prices \subseteq Nat /\ Amounts \subseteq Nat
BY ObligationsAssumption

LEMMA BooksOf ==
  MoneyIsAllocated <=> MoneyHolds(entry, pay, cash)
BY DEF MoneyIsAllocated, MoneyHolds, LiveOn, PaidOn

LEMMA BooksOfNext ==
  MoneyIsAllocated' <=> MoneyHolds(entry', pay', cash')
BY DEF MoneyIsAllocated, MoneyHolds, LiveOn, PaidOn

(* A handler that finishes leaves the others what they rely on, if it      *)
(* reprices no charge and uses no row a new payment has reserved.          *)
LEMMA FinishKeepsRequests ==
  ASSUME TypeOK, RequestsHold, NEW r \in Requests, req' = [req EXCEPT ![r] = NoRequest],
         kind' = kind,
         \A e \in Entries : kind = "damage" /\ entry[e].status # "none" =>
             entry'[e].status # "none" /\ entry'[e].amount = entry[e].amount,
         \A s \in Requests \ {r} : req[s].do = "pay" => pay'[req[s].p].amount = 0
  PROVE  RequestsHold'
<1>1. \A s \in Requests : req'[s] = IF s = r THEN NoRequest ELSE req[s]
  BY DEF TypeOK
<1>2. \A s \in Requests : req'[s].do # "idle" => s # r /\ req'[s] = req[s]
  BY <1>1 DEF NoRequest
<1>3. ASSUME NEW s \in Requests, req'[s].do \in {"pay", "void", "edit"}
      PROVE  ReadHolds(kind', entry', req[s].read)
  <2>1. s # r /\ req'[s] = req[s]
    BY <1>2, <1>3
  <2>2. ReadHolds(kind, entry, req[s].read)
    BY <1>3, <2>1 DEF RequestsHold
  <2> QED BY <2>1, <2>2 DEF ReadHolds
<1>4. ASSUME NEW s \in Requests, req'[s].do = "pay"
      PROVE  /\ pay'[req'[s].p].amount = 0
             /\ req'[s].amount <= OwedOn(req'[s].read)
  <2>1. s # r /\ req'[s] = req[s]
    BY <1>2, <1>4
  <2> QED BY <1>4, <2>1 DEF RequestsHold
<1>5. \A s, t \in Requests :
         s # t /\ req'[s].do = "pay" /\ req'[t].do = "pay" => req'[s].p # req'[t].p
  BY <1>2 DEF RequestsHold
<1>6. \A s \in Requests : req'[s].do = "rewrite" =>
         kind' = "salary" /\ req'[s].read.paid <= req'[s].amount
  BY <1>2 DEF RequestsHold
<1>7. \A s \in Requests : req'[s].do = "edit" => kind' = "salary"
  BY <1>2 DEF RequestsHold
<1>8. \A s \in Requests : req'[s].do \in {"pay", "void", "edit"} => ReadHolds(kind', entry', req'[s].read)
  BY <1>2, <1>3
<1> QED BY <1>4, <1>5, <1>6, <1>7, <1>8 DEF RequestsHold

(* A request that is only made changes nothing but itself.                 *)
LEMMA AskKeeps ==
  ASSUME IInv, NEW r \in Requests, NEW q \in Request, Ask(r, q),
         q.do \in {"pay", "void", "edit"} => ReadHolds(kind, entry, q.read),
         q.do = "pay" =>
            /\ pay[q.p].amount = 0
            /\ q.amount <= OwedOn(q.read)
            /\ \A s \in Requests : req[s].do = "pay" => req[s].p # q.p,
         q.do = "rewrite" => kind = "salary" /\ q.read.paid <= q.amount,
         q.do = "edit" => kind = "salary"
  PROVE  IInv'
<1> USE DEF IInv
<1>1. UNCHANGED <<kind, entry, pay, cash>> /\ req' = [req EXCEPT ![r] = q]
  BY DEF Ask
<1>2. TypeOK'
  BY <1>1 DEF TypeOK
<1>3. NotOverpaid' /\ MoneyIsAllocated' /\ StatusFollows' /\ AbsentIsUnpaid'
  BY <1>1 DEF NotOverpaid, MoneyIsAllocated, StatusFollows, AbsentIsUnpaid
<1>4. \A s \in Requests : req'[s] = IF s = r THEN q ELSE req[s]
  BY <1>1 DEF TypeOK
<1>5. \A s \in Requests : req'[s].do \in {"pay", "void", "edit"} => ReadHolds(kind', entry', req'[s].read)
  <2>1. ASSUME NEW s \in Requests, req'[s].do \in {"pay", "void", "edit"}
        PROVE  ReadHolds(kind, entry, req'[s].read)
    BY <1>4, <2>1 DEF RequestsHold
  <2> QED BY <1>1, <2>1 DEF ReadHolds
<1>6. \A s \in Requests : req'[s].do = "pay" =>
         pay'[req'[s].p].amount = 0 /\ req'[s].amount <= OwedOn(req'[s].read)
  <2>1. ASSUME NEW s \in Requests, req'[s].do = "pay"
        PROVE  pay'[req'[s].p].amount = 0 /\ req'[s].amount <= OwedOn(req'[s].read)
    BY <1>1, <1>4, <2>1 DEF RequestsHold
  <2> QED BY <2>1
<1>7. \A s, t \in Requests :
         s # t /\ req'[s].do = "pay" /\ req'[t].do = "pay" => req'[s].p # req'[t].p
  BY <1>4 DEF RequestsHold
<1>8. \A s \in Requests : /\ req'[s].do = "rewrite" =>
                               kind' = "salary" /\ req'[s].read.paid <= req'[s].amount
                          /\ req'[s].do = "edit" => kind' = "salary"
  BY <1>1, <1>4 DEF RequestsHold
<1>9. RequestsHold'
  BY <1>5, <1>6, <1>7, <1>8 DEF RequestsHold
<1> QED BY <1>2, <1>3, <1>9

(* What every Begin... reads is good enough.                               *)
LEMMA ReadNow ==
  ASSUME NotOverpaid
  PROVE  ReadHolds(kind, entry, entry)
BY DEF NotOverpaid, ReadHolds

LEMMA GiveUpKeeps ==
  ASSUME IInv, NEW r \in Requests, GiveUp(r)
  PROVE  IInv'
<1> USE DEF IInv
<1>1. UNCHANGED <<kind, entry, pay, cash>> /\ req' = [req EXCEPT ![r] = NoRequest]
  BY DEF GiveUp, Finish
<1>2. TypeOK'
  BY <1>1 DEF TypeOK
<1>3. NotOverpaid' /\ MoneyIsAllocated' /\ StatusFollows' /\ AbsentIsUnpaid'
  BY <1>1 DEF NotOverpaid, MoneyIsAllocated, StatusFollows, AbsentIsUnpaid
<1>4. RequestsHold'
  <2>1. \A s \in Requests \ {r} : req[s].do = "pay" => pay'[req[s].p].amount = 0
    BY <1>1 DEF RequestsHold
  <2> QED BY <1>1, <2>1, FinishKeepsRequests
<1> QED BY <1>2, <1>3, <1>4

-----------------------------------------------------------------------------
(* The first halves of the handlers.                                       *)

LEMMA BeginPayKeeps ==
  ASSUME IInv, NEW r \in Requests, BeginPay(r)
  PROVE  IInv'
<1>1. PICK p \in Pays, a \in Amounts :
         /\ pay[p].amount = 0
         /\ \A q \in Requests : req[q].do \in {"pay", "edit"} => req[q].p # p
         /\ a <= OwedOn(entry)
         /\ Ask(r, [do |-> "pay", p |-> p, amount |-> a, read |-> entry])
  BY DEF BeginPay, OwedOn
<1> DEFINE q == [do |-> "pay", p |-> p, amount |-> a, read |-> entry]
<1>2. q \in Request
  BY Constants DEF IInv, TypeOK, Request
<1>3. ReadHolds(kind, entry, q.read)
  BY ReadNow DEF IInv
<1>4. /\ q.do = "pay" /\ pay[q.p].amount = 0 /\ q.amount <= OwedOn(q.read)
      /\ \A s \in Requests : req[s].do = "pay" => req[s].p # q.p
  BY <1>1
<1>5. Ask(r, q)
  BY <1>1
<1> HIDE DEF q
<1> QED BY <1>2, <1>3, <1>4, <1>5, AskKeeps

LEMMA BeginVoidKeeps ==
  ASSUME IInv, NEW r \in Requests, BeginVoid(r)
  PROVE  IInv'
<1>1. PICK p \in Pays : Ask(r, [do |-> "void", p |-> p, amount |-> pay[p].amount, read |-> entry])
  BY DEF BeginVoid
<1> DEFINE q == [do |-> "void", p |-> p, amount |-> pay[p].amount, read |-> entry]
<1>2. q \in Request
  BY DEF IInv, TypeOK, Request, Payment
<1>3. q.do = "void" /\ ReadHolds(kind, entry, q.read)
  BY ReadNow DEF IInv
<1>4. Ask(r, q)
  BY <1>1
<1> HIDE DEF q
<1> QED BY <1>2, <1>3, <1>4, AskKeeps

LEMMA BeginEditKeeps ==
  ASSUME IInv, NEW r \in Requests, BeginEdit(r)
  PROVE  IInv'
<1>1. PICK p \in Pays, a \in Amounts \cup {0} :
         /\ kind = "salary"
         /\ Ask(r, [do |-> "edit", p |-> p,
                    amount |-> IF a = 0 THEN pay[p].amount ELSE a, read |-> entry])
  BY DEF BeginEdit
<1> DEFINE q == [do |-> "edit", p |-> p,
                 amount |-> IF a = 0 THEN pay[p].amount ELSE a, read |-> entry]
<1>2. q \in Request
  BY Constants DEF IInv, TypeOK, Request, Payment
<1>3. q.do = "edit" /\ ReadHolds(kind, entry, q.read)
  BY ReadNow DEF IInv
<1>4. Ask(r, q)
  BY <1>1
<1> HIDE DEF q
<1> QED BY <1>1, <1>2, <1>3, <1>4, AskKeeps

LEMMA BeginRewriteKeeps ==
  ASSUME IInv, NEW r \in Requests, BeginRewrite(r)
  PROVE  IInv'
<1>1. PICK e \in Entries, a \in Prices :
         /\ kind = "salary" /\ a >= entry[e].paid
         /\ Ask(r, [do |-> "rewrite", e |-> e, amount |-> a, read |-> entry[e]])
  BY DEF BeginRewrite
<1> DEFINE q == [do |-> "rewrite", e |-> e, amount |-> a, read |-> entry[e]]
<1>2. q \in Request
  BY Constants DEF IInv, TypeOK, Request
<1>3. a \in Nat /\ entry[e].paid \in Nat
  BY Constants DEF IInv, TypeOK, Entry
<1>4. q.do = "rewrite" /\ kind = "salary" /\ q.read.paid <= q.amount
  BY <1>1, <1>3
<1>5. Ask(r, q)
  BY <1>1
<1> HIDE DEF q
<1> QED BY <1>2, <1>4, <1>5, AskKeeps

LEMMA BeginCancelKeeps ==
  ASSUME IInv, NEW r \in Requests, BeginCancel(r)
  PROVE  IInv'
<1>1. PICK e \in Entries : Ask(r, [do |-> "cancel", e |-> e])
  BY DEF BeginCancel
<1> DEFINE q == [do |-> "cancel", e |-> e]
<1>2. q \in Request /\ q.do = "cancel"
  BY DEF Request
<1>3. Ask(r, q)
  BY <1>1
<1> HIDE DEF q
<1> QED BY <1>2, <1>3, AskKeeps

-----------------------------------------------------------------------------
(* Operations that move no money.                                          *)

(* One row changes its amount or status, and stays right.                  *)
LEMMA RowKeepsBooks ==
  ASSUME TypeOK, MoneyIsAllocated, UNCHANGED <<pay, cash>>,
         \A e \in Entries : entry'[e].paid = entry[e].paid
  PROVE  MoneyIsAllocated'
<1>1. PaidOn(entry') = PaidOn(entry)
  BY DEF PaidOn
<1>2. MoneyHolds(entry, pay, cash)
  BY BooksOf
<1>3. MoneyHolds(entry', pay', cash')
  BY <1>1, <1>2 DEF MoneyHolds
<1> QED BY <1>3, BooksOfNext

LEMMA CommitRewriteKeeps ==
  ASSUME IInv, NEW r \in Requests, CommitRewrite(r)
  PROVE  IInv'
<1>1. CASE GiveUp(r)
  BY <1>1, GiveUpKeeps
<1>2. CASE /\ CanRewrite(req[r])
           /\ entry' = [entry EXCEPT ![req[r].e].amount = req[r].amount,
                                     ![req[r].e].status = StatusFor(req[r].amount, req[r].read.paid)]
           /\ Finish(r) /\ UNCHANGED <<pay, cash>>
  <2> DEFINE q == req[r]
  <2>1. req[r].do = "rewrite"
    BY DEF CommitRewrite
  <2>2. /\ q.e \in Entries /\ q.amount \in Nat /\ q.read \in Entry
        /\ q.read.paid <= q.amount /\ kind = "salary" /\ entry[q.e] = q.read
    BY <1>2, <2>1, RequestFields DEF IInv, RequestsHold, CanRewrite
  <2>3. /\ UNCHANGED <<kind, pay, cash>> /\ req' = [req EXCEPT ![r] = NoRequest]
    BY <1>2 DEF Finish
  <2>4. entry \in [Entries -> Entry]
    BY DEF IInv, TypeOK
  <2>5. StatusFor(q.amount, q.read.paid) \in Status
    BY DEF StatusFor, Status
  <2>6. \A e \in Entries :
           /\ entry'[e].paid = entry[e].paid
           /\ entry'[e].amount = IF e = q.e THEN q.amount ELSE entry[e].amount
           /\ entry'[e].status = IF e = q.e THEN StatusFor(q.amount, entry[e].paid)
                                            ELSE entry[e].status
    BY <1>2, <2>2, <2>4 DEF Entry
  <2>7. entry' \in [Entries -> Entry]
    BY <1>2, <2>2, <2>4, <2>5 DEF Entry
  <2> HIDE DEF q
  <2>8. TypeOK'
    BY <2>3, <2>7 DEF IInv, TypeOK
  <2>9. NotOverpaid'
    <3>1. entry[q.e].paid <= q.amount
      BY <2>2
    <3> QED BY <2>6, <3>1 DEF IInv, NotOverpaid
  <2>10. MoneyIsAllocated'
    BY <2>3, <2>6, RowKeepsBooks DEF IInv
  <2>11. StatusFollows' /\ AbsentIsUnpaid'
    BY <2>6 DEF IInv, StatusFollows, AbsentIsUnpaid, StatusFor
  <2>12. RequestsHold'
    <3>1. \A s \in Requests \ {r} : req[s].do = "pay" => pay'[req[s].p].amount = 0
      BY <2>3 DEF IInv, RequestsHold
    <3> QED BY <2>2, <2>3, <3>1, FinishKeepsRequests DEF IInv
  <2> QED BY <2>8, <2>9, <2>10, <2>11, <2>12 DEF IInv
<1> QED BY <1>1, <1>2 DEF CommitRewrite

LEMMA CommitCancelKeeps ==
  ASSUME IInv, NEW r \in Requests, CommitCancel(r)
  PROVE  IInv'
<1>1. CASE GiveUp(r)
  BY <1>1, GiveUpKeeps
<1>2. CASE /\ entry' = [entry EXCEPT ![req[r].e].status = "cancelled"]
           /\ Finish(r) /\ UNCHANGED <<pay, cash>>
  <2>1. req[r].e \in Entries
    BY RequestFields DEF CommitCancel, IInv
  <2>2. /\ UNCHANGED <<kind, pay, cash>> /\ req' = [req EXCEPT ![r] = NoRequest]
    BY <1>2 DEF Finish
  <2>3. entry \in [Entries -> Entry]
    BY DEF IInv, TypeOK
  <2>4. \A e \in Entries :
           /\ entry'[e].amount = entry[e].amount /\ entry'[e].paid = entry[e].paid
           /\ entry'[e].status = IF e = req[r].e THEN "cancelled" ELSE entry[e].status
    BY <1>2, <2>1, <2>3 DEF Entry
  <2>5. entry' \in [Entries -> Entry]
    BY <1>2, <2>3 DEF Entry, Status
  <2>6. TypeOK'
    BY <2>2, <2>5 DEF IInv, TypeOK
  <2>7. NotOverpaid' /\ StatusFollows' /\ AbsentIsUnpaid'
    BY <2>4 DEF IInv, NotOverpaid, StatusFollows, AbsentIsUnpaid
  <2>8. MoneyIsAllocated'
    BY <2>2, <2>4, RowKeepsBooks DEF IInv
  <2>9. RequestsHold'
    <3>1. \A s \in Requests \ {r} : req[s].do = "pay" => pay'[req[s].p].amount = 0
      BY <2>2 DEF IInv, RequestsHold
    <3>2. \A e \in Entries : kind = "damage" /\ entry[e].status # "none" =>
             entry'[e].status # "none" /\ entry'[e].amount = entry[e].amount
      BY <2>4
    <3> QED BY <2>2, <3>1, <3>2, FinishKeepsRequests DEF IInv
  <2> QED BY <2>6, <2>7, <2>8, <2>9 DEF IInv
<1> QED BY <1>1, <1>2 DEF CommitCancel

(* Rows that appear or are repriced while nothing is paid on them.         *)
LEMMA UnpaidRowKeeps ==
  ASSUME IInv, NEW e \in Entries,
         UNCHANGED <<kind, pay, cash, req>>, entry' \in [Entries -> Entry],
         \A k \in Entries : k # e => entry'[k] = entry[k],
         entry[e].paid = 0, entry'[e].paid = 0,
         \/ entry'[e].status = "cancelled"
         \/ entry'[e].status = StatusFor(entry'[e].amount, 0),
         kind = "damage" => entry[e].status = "none"
  PROVE  IInv'
<1>1. entry'[e].amount \in Nat
  BY DEF Entry
<1>2. \A k \in Entries : entry'[k].paid = entry[k].paid
  OBVIOUS
<1>3. TypeOK'
  BY DEF IInv, TypeOK
<1>4. NotOverpaid'
  BY <1>1 DEF IInv, NotOverpaid
<1>5. MoneyIsAllocated'
  BY <1>2, RowKeepsBooks DEF IInv
<1>6. StatusFollows' /\ AbsentIsUnpaid'
  BY DEF IInv, StatusFollows, AbsentIsUnpaid
<1>7. RequestsHold'
  <2>1. \A read : ReadHolds(kind, entry, read) => ReadHolds(kind', entry', read)
    BY DEF ReadHolds
  <2> QED BY <2>1 DEF IInv, RequestsHold
<1> QED BY <1>3, <1>4, <1>5, <1>6, <1>7 DEF IInv

LEMMA CreateKeeps ==
  ASSUME IInv, NEW e \in Entries, Create(e)
  PROVE  IInv'
<1>1. PICK a \in Prices :
         /\ entry[e].status = "none"
         /\ entry' = [entry EXCEPT ![e] = [amount |-> a, paid |-> 0, status |-> StatusFor(a, 0)]]
         /\ UNCHANGED <<kind, pay, cash, req>>
  BY DEF Create
<1>2. a \in Nat /\ StatusFor(a, 0) \in Status
  BY Constants DEF StatusFor, Status
<1>3. entry[e].paid = 0
  BY <1>1 DEF IInv, AbsentIsUnpaid
<1>4. entry \in [Entries -> Entry]
  BY DEF IInv, TypeOK
<1>5. entry' \in [Entries -> Entry]
  BY <1>1, <1>2, <1>4 DEF Entry
<1>6. /\ \A k \in Entries : k # e => entry'[k] = entry[k]
      /\ entry'[e].paid = 0 /\ entry'[e].status = StatusFor(entry'[e].amount, 0)
  BY <1>1, <1>4
<1> QED BY <1>1, <1>3, <1>5, <1>6, UnpaidRowKeeps

LEMMA RegenerateKeeps ==
  ASSUME IInv, NEW e \in Entries, Regenerate(e)
  PROVE  IInv'
<1>1. entry \in [Entries -> Entry] /\ UNCHANGED <<kind, pay, cash, req>>
      /\ entry[e].paid = 0 /\ kind = "salary"
  BY DEF IInv, TypeOK, Regenerate
<1>2. PICK a \in Prices :
         \/ entry' = [entry EXCEPT ![e].amount = a, ![e].status = StatusFor(a, 0)]
         \/ entry' = [entry EXCEPT ![e].status = "cancelled"]
  BY DEF Regenerate
<1>3. CASE entry' = [entry EXCEPT ![e].amount = a, ![e].status = StatusFor(a, 0)]
  <2>1. a \in Nat /\ StatusFor(a, 0) \in Status
    BY Constants DEF StatusFor, Status
  <2>2. entry' \in [Entries -> Entry]
    BY <1>1, <1>3, <2>1 DEF Entry
  <2>3. /\ \A k \in Entries : k # e => entry'[k] = entry[k]
        /\ entry'[e].paid = 0 /\ entry'[e].status = StatusFor(entry'[e].amount, 0)
    BY <1>1, <1>3 DEF Entry
  <2> QED BY <1>1, <2>2, <2>3, UnpaidRowKeeps
<1>4. CASE entry' = [entry EXCEPT ![e].status = "cancelled"]
  <2>1. entry' \in [Entries -> Entry]
    BY <1>1, <1>4 DEF Entry, Status
  <2>2. /\ \A k \in Entries : k # e => entry'[k] = entry[k]
        /\ entry'[e].paid = 0 /\ entry'[e].status = "cancelled"
    BY <1>1, <1>4 DEF Entry
  <2> QED BY <1>1, <2>1, <2>2, UnpaidRowKeeps
<1> QED BY <1>2, <1>3, <1>4

-----------------------------------------------------------------------------
(* The transactions that move money.                                       *)

LEMMA KindIsEither ==
  ASSUME TypeOK
  PROVE  kind \in {"salary", "damage"}
BY ObligationsAssumption DEF TypeOK

(* Rows that a handler writes are right if each of them is: untouched, or  *)
(* with its amount kept, something left or nothing overpaid, and a status  *)
(* that follows.                                                           *)
LEMMA RowsWritten ==
  ASSUME IInv, entry' \in [Entries -> Entry],
         \A e \in Entries :
            \/ entry'[e] = entry[e]
            \/ /\ entry'[e].amount = entry[e].amount
               /\ entry'[e].paid <= entry'[e].amount
               /\ entry'[e].status = StatusFor(entry'[e].amount, entry'[e].paid)
  PROVE  /\ NotOverpaid' /\ StatusFollows' /\ AbsentIsUnpaid'
         /\ \A e \in Entries : kind = "damage" /\ entry[e].status # "none" =>
                entry'[e].status # "none" /\ entry'[e].amount = entry[e].amount
<1>1. \A x, y : StatusFor(x, y) # "none"
  BY DEF StatusFor
<1>2. NotOverpaid'
  BY DEF IInv, NotOverpaid
<1>3. StatusFollows'
  BY DEF IInv, StatusFollows
<1>4. AbsentIsUnpaid'
  BY <1>1 DEF IInv, AbsentIsUnpaid
<1>5. \A e \in Entries : kind = "damage" /\ entry[e].status # "none" =>
         entry'[e].status # "none" /\ entry'[e].amount = entry[e].amount
  BY <1>1
<1> QED BY <1>2, <1>3, <1>4, <1>5

LEMMA CommitPayKeeps ==
  ASSUME IInv, NEW r \in Requests, CommitPay(r)
  PROVE  IInv'
<1> DEFINE q == req[r]
           take == TakeOf(q)
           debt == Debt(q.read, {e \in Entries : IsOpen(q.read[e])})
<1>1. CASE GiveUp(r)
  BY <1>1, GiveUpKeeps
<1>2. CASE /\ \A e \in Entries : take[e] > 0 => IsAsRead(entry[e], q.read[e])
           /\ entry' = [e \in Entries |->
                 IF take[e] > 0 THEN Repaid(entry[e], q.read[e], q.read[e].paid + take[e])
                                ELSE entry[e]]
           /\ pay' = [pay EXCEPT ![q.p] = [amount |-> q.amount, voided |-> FALSE, alloc |-> take]]
           /\ cash' = cash + q.amount
           /\ Finish(r)
  <2>1. /\ q.p \in Pays /\ q.amount \in Nat /\ q.read \in [Entries -> Entry]
        /\ ReadHolds(kind, entry, q.read) /\ pay[q.p].amount = 0 /\ q.amount <= OwedOn(q.read)
        /\ \A s \in Requests \ {r} : req[s].do = "pay" => req[s].p # q.p /\ pay[req[s].p].amount = 0
    BY RequestFields DEF CommitPay, IInv, RequestsHold
  <2>2. debt \in [Entries -> Nat]
    <3>1. q.read \in [Entries -> [amount : Nat, paid : Int, status : Status]]
      BY <2>1 DEF Entry
    <3> QED BY <3>1, DebtType
  <2>3. take = AllocateFifo(debt, q.amount) /\ OwedOn(q.read) = Total(debt, NE)
    BY DEF TakeOf, OwedOn
  <2>4. \A e \in Entries : debt[e] > 0 =>
           IsOpen(q.read[e]) /\ debt[e] = q.read[e].amount - q.read[e].paid
    BY <2>1 DEF Debt, Most, Entry
  <2>5. /\ entry \in [Entries -> Entry] /\ pay \in [Pays -> Payment] /\ cash \in Int
    BY DEF IInv, TypeOK
  <2>6. /\ UNCHANGED kind /\ req' = [req EXCEPT ![r] = NoRequest]
    BY <1>2 DEF Finish
  <2> HIDE DEF q, debt, take
  <2>7. Total(debt, NE) \in Int
    <3>1. debt \in [1..NE -> Int]
      BY <2>2 DEF Entries
    <3> QED BY <3>1, Constants, CumType
  <2>8. take \in [Entries -> Nat] /\ (\A e \in Entries : take[e] <= debt[e])
        /\ Total(take, NE) = q.amount
    <3>1. Least(Total(debt, NE), q.amount) = q.amount
      BY <2>1, <2>3, <2>7 DEF Least
    <3> QED BY <2>1, <2>2, <2>3, <3>1, Constants, FifoTake
  <2>9. ASSUME NEW e \in Entries, take[e] > 0
        PROVE  /\ entry[e].paid = q.read[e].paid /\ entry[e].amount = q.read[e].amount
               /\ entry'[e].amount = entry[e].amount
               /\ entry'[e].paid = entry[e].paid + take[e]
               /\ entry'[e].paid <= entry[e].amount
               /\ entry'[e].status = StatusFor(entry[e].amount, entry'[e].paid)
    <3>1. debt[e] > 0 /\ take[e] <= debt[e] /\ take[e] \in Nat /\ debt[e] \in Nat
      BY <2>2, <2>8, <2>9
    <3>2. IsOpen(q.read[e]) /\ debt[e] = q.read[e].amount - q.read[e].paid
      BY <2>4, <3>1
    <3>3. IsAsRead(entry[e], q.read[e])
      BY <1>2, <2>9
    <3>4. entry[e].amount = q.read[e].amount
      <4>1. CASE kind = "salary"
        BY <3>3, <4>1 DEF IsAsRead
      <4>2. CASE kind = "damage"
        BY <2>1, <3>2, <4>2 DEF ReadHolds, IsOpen
      <4> QED BY <4>1, <4>2, KindIsEither DEF IInv
    <3>5. entry[e].paid = q.read[e].paid
      BY <3>3 DEF IsAsRead
    <3>6. /\ entry'[e].amount = entry[e].amount
          /\ entry'[e].paid = q.read[e].paid + take[e]
          /\ entry'[e].status = DeriveStatus(q.read[e].amount, q.read[e].paid + take[e])
      <4>1. entry'[e] = Repaid(entry[e], q.read[e], q.read[e].paid + take[e])
        BY <1>2, <2>9
      <4>2. entry[e] \in Entry
        BY <2>5
      <4> QED BY <4>1, <4>2 DEF Repaid, Entry
    <3>7. entry[e].amount \in Nat /\ q.read[e].amount \in Nat /\ q.read[e].paid \in Nat
      BY <2>1, <2>5 DEF Entry
    <3>8. DeriveStatus(q.read[e].amount, q.read[e].paid + take[e])
             = StatusFor(entry[e].amount, q.read[e].paid + take[e])
      <4>1. PICK sum \in Nat : sum = q.read[e].paid + take[e] /\ sum > 0
        BY <2>9, <3>1, <3>7
      <4>2. DeriveStatus(q.read[e].amount, sum) = StatusFor(q.read[e].amount, sum)
        BY <3>7, <4>1 DEF DeriveStatus, StatusFor
      <4> QED BY <3>4, <4>1, <4>2
    <3> QED BY <3>1, <3>2, <3>4, <3>5, <3>6, <3>7, <3>8
  <2>10. \A e \in Entries : ~(take[e] > 0) => take[e] = 0 /\ entry'[e] = entry[e]
    BY <1>2, <2>8
  <2>11. entry' \in [Entries -> Entry]
    <3>1. \A e \in Entries : take[e] > 0 => entry'[e] \in Entry
      <4>1. ASSUME NEW e \in Entries, take[e] > 0
            PROVE  entry'[e] \in Entry
        <5>1. entry'[e] = [entry[e] EXCEPT !.paid = q.read[e].paid + take[e],
                              !.status = DeriveStatus(q.read[e].amount, q.read[e].paid + take[e])]
          <6>1. entry'[e] = Repaid(entry[e], q.read[e], q.read[e].paid + take[e])
            BY <1>2, <4>1
          <6> QED BY <6>1 DEF Repaid
        <5>2. entry[e] \in Entry /\ entry'[e].paid \in Nat /\ q.read[e].paid + take[e] \in Nat
          BY <2>1, <2>5, <2>8, <2>9, <4>1 DEF Entry
        <5>3. entry'[e].status \in Status
          BY <2>9, <4>1 DEF StatusFor, Status
        <5> QED BY <5>1, <5>2, <5>3 DEF Entry
      <4> QED BY <4>1
    <3> QED BY <1>2, <2>5, <2>10, <3>1
  <2>12. TypeOK'
    <3>1. pay' \in [Pays -> Payment]
      BY <1>2, <2>1, <2>5, <2>8 DEF Payment
    <3>2. cash' \in Int
      BY <1>2, <2>1, <2>5
    <3> QED BY <2>6, <2>11, <3>1, <3>2 DEF IInv, TypeOK
  <2>13. NotOverpaid' /\ StatusFollows' /\ AbsentIsUnpaid'
         /\ \A e \in Entries : kind = "damage" /\ entry[e].status # "none" =>
                entry'[e].status # "none" /\ entry'[e].amount = entry[e].amount
    <3>1. \A e \in Entries :
            \/ entry'[e] = entry[e]
            \/ /\ entry'[e].amount = entry[e].amount
               /\ entry'[e].paid <= entry'[e].amount
               /\ entry'[e].status = StatusFor(entry'[e].amount, entry'[e].paid)
      BY <2>9, <2>10
    <3> QED BY <2>11, <3>1, RowsWritten
  <2>14. MoneyIsAllocated'
    <3>1. entry \in [Entries -> [amount : Nat, paid : Int, status : Status]]
      BY <2>5 DEF Entry
    <3>2. MoneyHolds(entry, pay, cash)
      BY BooksOf DEF IInv
    <3>3. \A e \in Entries : entry'[e].paid = entry[e].paid + take[e]
      BY <2>5, <2>9, <2>10 DEF Entry
    <3>4. MoneyHolds(entry', pay', cash + q.amount)
      BY <1>2, <2>1, <2>5, <2>8, <3>1, <3>2, <3>3, Constants, AddPaymentHolds
    <3> QED BY <1>2, <3>4, BooksOfNext
  <2>15. RequestsHold'
    <3>1. \A s \in Requests \ {r} : req[s].do = "pay" => pay'[req[s].p].amount = 0
      BY <1>2, <2>1, <2>5
    <3> QED BY <2>6, <2>13, <3>1, FinishKeepsRequests DEF IInv
  <2> QED BY <2>12, <2>13, <2>14, <2>15 DEF IInv
<1> QED BY <1>1, <1>2 DEF CommitPay

(* The row that a void or an edit writes.                                  *)
LEMMA RepaidRow ==
  ASSUME NEW row \in Entry, NEW read \in Entry, NEW paid \in Nat, paid <= row.amount,
         \/ row.amount = read.amount /\ paid > 0
         \/ paid < row.amount /\ paid < read.amount
  PROVE  /\ Repaid(row, read, paid) \in Entry
         /\ Repaid(row, read, paid).amount = row.amount
         /\ Repaid(row, read, paid).paid = paid
         /\ Repaid(row, read, paid).status = StatusFor(row.amount, paid)
<1>1. row.amount \in Nat /\ read.amount \in Nat
  BY DEF Entry
<1>2. DeriveStatus(read.amount, paid) = StatusFor(row.amount, paid)
  BY <1>1 DEF DeriveStatus, StatusFor
<1>3. StatusFor(row.amount, paid) \in Status
  BY DEF StatusFor, Status
<1> QED BY <1>2, <1>3 DEF Repaid, Entry

LEMMA CommitVoidKeeps ==
  ASSUME IInv, NEW r \in Requests, CommitVoid(r)
  PROVE  IInv'
<1> DEFINE q == req[r]
           freed == pay[q.p].alloc
<1>1. CASE GiveUp(r)
  BY <1>1, GiveUpKeeps
<1>2. CASE /\ CanVoid(q)
           /\ entry' = [e \in Entries |->
                 IF freed[e] > 0 THEN Repaid(entry[e], q.read[e], q.read[e].paid - freed[e])
                                 ELSE entry[e]]
           /\ pay' = [pay EXCEPT ![q.p].voided = TRUE]
           /\ cash' = cash - pay[q.p].amount
           /\ Finish(r)
  <2>1. q.p \in Pays /\ q.read \in [Entries -> Entry] /\ ReadHolds(kind, entry, q.read)
    BY RequestFields DEF CommitVoid, IInv, RequestsHold
  <2>2. entry \in [Entries -> Entry] /\ pay \in [Pays -> Payment] /\ cash \in Int
    BY DEF IInv, TypeOK
  <2>3. UNCHANGED kind /\ req' = [req EXCEPT ![r] = NoRequest]
    BY <1>2 DEF Finish
  <2>4. freed \in [Entries -> Nat] /\ pay[q.p].amount \in Nat
    BY <2>1, <2>2 DEF Payment
  <2>5. /\ ~pay[q.p].voided
        /\ \A e \in Entries : freed[e] > 0 =>
               entry[e].paid = q.read[e].paid /\ q.read[e].paid >= freed[e]
    BY <1>2 DEF CanVoid, IsLive
  <2>6. \A s \in Requests : req[s].do = "pay" => pay[req[s].p].amount = 0 /\ req[s].p \in Pays
    BY RequestFields DEF IInv, RequestsHold
  <2> DEFINE p == q.p
  <2>7. /\ pay' = [pay EXCEPT ![p].voided = TRUE] /\ cash' = cash - pay[p].amount
        /\ p \in Pays /\ ~pay[p].voided /\ freed = pay[p].alloc /\ pay[p].amount \in Nat
    BY <1>2, <2>1, <2>4, <2>5
  <2> HIDE DEF p, freed, q
  <2>8. ASSUME NEW e \in Entries, freed[e] > 0
        PROVE  /\ entry'[e] \in Entry
               /\ entry'[e].amount = entry[e].amount
               /\ entry'[e].paid = entry[e].paid - freed[e]
               /\ entry'[e].paid <= entry[e].amount
               /\ entry'[e].status = StatusFor(entry[e].amount, entry'[e].paid)
    <3>1. /\ entry[e] \in Entry /\ q.read[e] \in Entry /\ freed[e] \in Nat
          /\ entry[e].paid = q.read[e].paid /\ q.read[e].paid >= freed[e]
          /\ entry[e].paid <= entry[e].amount /\ q.read[e].paid <= q.read[e].amount
      BY <2>1, <2>2, <2>4, <2>5, <2>8 DEF ReadHolds, IInv, NotOverpaid
    <3>2. /\ entry[e].amount \in Nat /\ entry[e].paid \in Nat
          /\ q.read[e].amount \in Nat /\ q.read[e].paid \in Nat
      BY <3>1 DEF Entry
    <3>3. PICK n \in Nat : n = q.read[e].paid - freed[e]
      BY <3>1, <3>2
    <3>4. n < entry[e].amount /\ n < q.read[e].amount
      BY <2>8, <3>1, <3>2, <3>3
    <3>5. n <= entry[e].amount
      BY <3>2, <3>4
    <3>6. entry'[e] = Repaid(entry[e], q.read[e], n)
      BY <1>2, <2>8, <3>3
    <3>7. /\ entry'[e] \in Entry /\ entry'[e].amount = entry[e].amount /\ entry'[e].paid = n
          /\ entry'[e].status = StatusFor(entry[e].amount, n)
      BY <3>1, <3>4, <3>5, <3>6, RepaidRow
    <3> QED BY <3>1, <3>3, <3>5, <3>7
  <2>9. \A e \in Entries : ~(freed[e] > 0) => freed[e] = 0 /\ entry'[e] = entry[e]
    BY <1>2, <2>4
  <2>10. entry' \in [Entries -> Entry]
    <3>1. \A e \in Entries : entry'[e] \in Entry
      BY <2>2, <2>8, <2>9
    <3> QED BY <1>2, <3>1
  <2>11. TypeOK'
    <3>1. pay' \in [Pays -> Payment]
      BY <2>2, <2>7 DEF Payment
    <3>2. cash' \in Int
      BY <2>2, <2>7
    <3> QED BY <2>3, <2>10, <3>1, <3>2 DEF IInv, TypeOK
  <2>12. NotOverpaid' /\ StatusFollows' /\ AbsentIsUnpaid'
         /\ \A e \in Entries : kind = "damage" /\ entry[e].status # "none" =>
                entry'[e].status # "none" /\ entry'[e].amount = entry[e].amount
    <3>1. \A e \in Entries :
            \/ entry'[e] = entry[e]
            \/ /\ entry'[e].amount = entry[e].amount
               /\ entry'[e].paid <= entry'[e].amount
               /\ entry'[e].status = StatusFor(entry'[e].amount, entry'[e].paid)
      BY <2>8, <2>9
    <3> QED BY <2>10, <3>1, RowsWritten
  <2>13. MoneyIsAllocated'
    <3>1. entry \in [Entries -> [amount : Nat, paid : Int, status : Status]]
      BY <2>2 DEF Entry
    <3>2. MoneyHolds(entry, pay, cash)
      BY BooksOf DEF IInv
    <3>3. \A e \in Entries : entry'[e].paid = entry[e].paid - pay[p].alloc[e]
      BY <2>2, <2>7, <2>8, <2>9 DEF Entry
    <3>4. MoneyHolds(entry', pay', cash - pay[p].amount)
      BY <2>2, <2>7, <3>1, <3>2, <3>3, Constants, VoidPaymentHolds
    <3> QED BY <2>7, <3>4, BooksOfNext
  <2>14. RequestsHold'
    <3>1. \A s \in Requests \ {r} : req[s].do = "pay" => pay'[req[s].p].amount = 0
      BY <2>2, <2>6, <2>7 DEF Payment
    <3> QED BY <2>3, <2>12, <3>1, FinishKeepsRequests DEF IInv
  <2> QED BY <2>11, <2>12, <2>13, <2>14 DEF IInv
<1> QED BY <1>1, <1>2 DEF CommitVoid

(* An edit has compared the whole row.                                     *)
LEMMA RepaidAsRead ==
  ASSUME NEW row \in Entry, NEW paid \in Nat, paid <= row.amount,
         paid > 0 \/ paid < row.amount
  PROVE  /\ Repaid(row, row, paid) \in Entry
         /\ Repaid(row, row, paid).amount = row.amount
         /\ Repaid(row, row, paid).paid = paid
         /\ Repaid(row, row, paid).status = StatusFor(row.amount, paid)
<1>1. row.amount \in Nat
  BY DEF Entry
<1>2. DeriveStatus(row.amount, paid) = StatusFor(row.amount, paid)
  BY <1>1 DEF DeriveStatus, StatusFor
<1>3. StatusFor(row.amount, paid) \in Status
  BY DEF StatusFor, Status
<1> QED BY <1>2, <1>3 DEF Repaid, Entry

LEMMA CommitEditKeeps ==
  ASSUME IInv, NEW r \in Requests, CommitEdit(r)
  PROVE  IInv'
<1> DEFINE q == req[r]
           old == q.p
           freed == pay[old].alloc
           back == [e \in Entries |-> [q.read[e] EXCEPT !.paid = @ - freed[e]]]
           rows == {e \in Entries : IsOpen(q.read[e]) \/ freed[e] > 0}
           debt == Debt(back, {e \in rows : q.read[e].status # "cancelled"})
           take == AllocateFifo(debt, q.amount)
           touched == {e \in rows : take[e] > 0 \/ freed[e] > 0}
           fits == /\ IsLive(old)
                   /\ \A e \in Entries : back[e].paid >= 0
                   /\ q.amount <= Total(debt, NE)
                   /\ \A e \in touched : entry[e] = q.read[e]
<1>1. CASE GiveUp(r)
  BY <1>1, GiveUpKeeps
<1>2. CASE \E p \in Pays :
              /\ fits /\ pay[p].amount = 0
              /\ \A s \in Requests : req[s].do = "pay" => req[s].p # p
              /\ entry' = [e \in Entries |->
                    IF e \in touched THEN Repaid(entry[e], q.read[e], back[e].paid + take[e])
                                     ELSE entry[e]]
              /\ pay' = [pay EXCEPT ![old].voided = TRUE,
                                    ![p] = [amount |-> q.amount, voided |-> FALSE, alloc |-> take]]
              /\ cash' = cash - pay[old].amount + q.amount
              /\ Finish(r)
  <2>1. PICK p \in Pays :
          /\ fits /\ pay[p].amount = 0
          /\ \A s \in Requests : req[s].do = "pay" => req[s].p # p
          /\ entry' = [e \in Entries |->
                IF e \in touched THEN Repaid(entry[e], q.read[e], back[e].paid + take[e])
                                 ELSE entry[e]]
          /\ pay' = [pay EXCEPT ![old].voided = TRUE,
                                ![p] = [amount |-> q.amount, voided |-> FALSE, alloc |-> take]]
          /\ cash' = cash - pay[old].amount + q.amount
          /\ Finish(r)
    BY <1>2
  <2>2. /\ old \in Pays /\ q.amount \in Nat /\ q.read \in [Entries -> Entry]
        /\ ReadHolds(kind, entry, q.read)
    BY RequestFields DEF CommitEdit, IInv, RequestsHold
  <2>3. entry \in [Entries -> Entry] /\ pay \in [Pays -> Payment] /\ cash \in Int
    BY DEF IInv, TypeOK
  <2>4. UNCHANGED kind /\ req' = [req EXCEPT ![r] = NoRequest]
    BY <2>1 DEF Finish
  <2>5. freed \in [Entries -> Nat] /\ pay[old].amount \in Nat
    BY <2>2, <2>3 DEF Payment
  <2>6. \A s \in Requests : req[s].do = "pay" => pay[req[s].p].amount = 0 /\ req[s].p \in Pays
    BY RequestFields DEF IInv, RequestsHold
  <2>7. ~pay[old].voided /\ old # p
    <3>1. pay[old].amount > 0 /\ ~pay[old].voided
      BY <2>1 DEF IsLive
    <3>2. pay[p].amount = 0
      BY <2>1
    <3> HIDE DEF old
    <3> QED BY <3>1, <3>2
  <2>8. /\ back \in [Entries -> [amount : Nat, paid : Int, status : Status]]
        /\ \A e \in Entries : back[e].amount = q.read[e].amount
                              /\ back[e].paid = q.read[e].paid - freed[e]
    BY <2>2, <2>5 DEF Entry
  <2>9. debt \in [Entries -> Nat]
    <3> HIDE DEF back, rows
    <3> QED BY <2>8, DebtType
  <2>10. \A e \in Entries : debt[e] > 0 => e \in rows /\ debt[e] = back[e].amount - back[e].paid
    <3> HIDE DEF back, rows
    <3> QED BY <2>8 DEF Debt, Most
  <2>11. \A e \in rows : e \in Entries
    OBVIOUS
  <2> HIDE DEF q, old, freed, back, rows, debt
  <2>12. Total(debt, NE) \in Int
    <3>1. debt \in [1..NE -> Int]
      BY <2>9 DEF Entries
    <3> QED BY <3>1, Constants, CumType
  <2>13. take \in [Entries -> Nat] /\ (\A e \in Entries : take[e] <= debt[e])
         /\ Total(take, NE) = q.amount
    <3>1. Least(Total(debt, NE), q.amount) = q.amount
      BY <2>1, <2>2, <2>12 DEF Least
    <3> QED BY <2>2, <2>9, <3>1, Constants, FifoTake
  <2> HIDE DEF take
  <2>14. \A e \in Entries : e \notin touched => take[e] = 0 /\ freed[e] = 0 /\ entry'[e] = entry[e]
    <3>1. ASSUME NEW e \in Entries, e \notin touched
          PROVE  take[e] = 0 /\ freed[e] = 0
      <4>1. take[e] \in Nat /\ freed[e] \in Nat /\ debt[e] \in Nat /\ take[e] <= debt[e]
        BY <2>5, <2>9, <2>13
      <4>2. take[e] > 0 => e \in rows
        BY <2>10, <4>1
      <4>3. freed[e] > 0 => e \in rows
        BY DEF rows
      <4> QED BY <3>1, <4>1, <4>2, <4>3
    <3> QED BY <2>1, <3>1
  <2>15. ASSUME NEW e \in touched
         PROVE  /\ e \in Entries /\ entry'[e] \in Entry
                /\ entry'[e].amount = entry[e].amount
                /\ entry'[e].paid = entry[e].paid - freed[e] + take[e]
                /\ entry'[e].paid <= entry[e].amount
                /\ entry'[e].status = StatusFor(entry[e].amount, entry'[e].paid)
    <3>1. e \in Entries
      BY <2>11
    <3>2. /\ entry[e] = q.read[e] /\ entry[e] \in Entry
          /\ freed[e] \in Nat /\ take[e] \in Nat /\ debt[e] \in Nat /\ take[e] <= debt[e]
          /\ back[e].paid >= 0 /\ back[e].paid = entry[e].paid - freed[e]
          /\ back[e].amount = entry[e].amount
          /\ entry[e].paid <= entry[e].amount
          /\ take[e] > 0 \/ freed[e] > 0
      BY <2>1, <2>3, <2>5, <2>8, <2>9, <2>13, <3>1 DEF IInv, NotOverpaid
    <3>3. entry[e].amount \in Nat /\ entry[e].paid \in Nat
      BY <3>2 DEF Entry
    <3>4. PICK n \in Nat : n = back[e].paid + take[e]
      BY <3>2, <3>3
    <3>5. take[e] > 0 => n > 0 /\ n <= entry[e].amount
      BY <2>10, <3>1, <3>2, <3>3, <3>4
    <3>6. ~(take[e] > 0) => n < entry[e].amount
      BY <3>2, <3>3, <3>4
    <3>7. n <= entry[e].amount
      BY <3>3, <3>5, <3>6
    <3>8. entry'[e] = Repaid(entry[e], entry[e], n)
      BY <2>1, <3>1, <3>2, <3>4
    <3>9. /\ entry'[e] \in Entry /\ entry'[e].amount = entry[e].amount /\ entry'[e].paid = n
          /\ entry'[e].status = StatusFor(entry[e].amount, n)
      <4>1. n > 0 \/ n < entry[e].amount
        BY <3>5, <3>6
      <4>2. PICK row \in Entry : row = entry[e]
        BY <3>2
      <4>3. /\ Repaid(row, row, n) \in Entry /\ Repaid(row, row, n).amount = row.amount
            /\ Repaid(row, row, n).paid = n
            /\ Repaid(row, row, n).status = StatusFor(row.amount, n)
        BY <3>7, <4>1, <4>2, RepaidAsRead
      <4> QED BY <3>8, <4>2, <4>3
    <3> QED BY <3>1, <3>2, <3>4, <3>7, <3>9
  <2>16. entry' \in [Entries -> Entry]
    <3>1. \A e \in Entries : entry'[e] \in Entry
      BY <2>3, <2>14, <2>15
    <3> QED BY <2>1, <3>1
  <2> HIDE DEF touched
  <2>17. TypeOK'
    <3>1. pay' \in [Pays -> Payment]
      BY <2>1, <2>2, <2>3, <2>7, <2>13 DEF Payment
    <3>2. cash' \in Int
      BY <2>1, <2>2, <2>3, <2>5
    <3> QED BY <2>4, <2>16, <3>1, <3>2 DEF IInv, TypeOK
  <2>18. NotOverpaid' /\ StatusFollows' /\ AbsentIsUnpaid'
         /\ \A e \in Entries : kind = "damage" /\ entry[e].status # "none" =>
                entry'[e].status # "none" /\ entry'[e].amount = entry[e].amount
    <3>1. \A e \in Entries :
            \/ entry'[e] = entry[e]
            \/ /\ entry'[e].amount = entry[e].amount
               /\ entry'[e].paid <= entry'[e].amount
               /\ entry'[e].status = StatusFor(entry'[e].amount, entry'[e].paid)
      BY <2>14, <2>15
    <3> QED BY <2>16, <3>1, RowsWritten
  <2>19. MoneyIsAllocated'
    <3> DEFINE en == [e \in Entries |-> [amount |-> entry[e].amount,
                                         paid |-> entry[e].paid - freed[e],
                                         status |-> entry[e].status]]
               pa == [pay EXCEPT ![old].voided = TRUE]
               ca == cash - pay[old].amount
    <3>1. /\ entry \in [Entries -> [amount : Nat, paid : Int, status : Status]]
          /\ \A e \in Entries : entry[e].paid \in Int
      BY <2>3 DEF Entry
    <3>2. MoneyHolds(entry, pay, cash)
      BY BooksOf DEF IInv
    <3>3. freed = pay[old].alloc
      BY DEF freed
    <3>4. /\ en \in [Entries -> [amount : Nat, paid : Int, status : Status]]
          /\ \A e \in Entries : en[e].paid = entry[e].paid - freed[e]
      BY <2>5, <3>1
    <3>5. pa \in [Pays -> Payment] /\ ca \in Int
      <4>1. pa \in [Pays -> Payment]
        BY <2>2, <2>3 DEF Payment
      <4>2. ca \in Int
        BY <2>3, <2>5
      <4> QED BY <4>1, <4>2
    <3>6. MoneyHolds(en, pa, ca)
      <4> HIDE DEF en
      <4>1. \A e \in Entries : en[e].paid = entry[e].paid - pay[old].alloc[e]
        BY <3>3, <3>4
      <4> QED BY <2>2, <2>3, <2>7, <3>1, <3>2, <4>1, Constants, VoidPaymentHolds
    <3>7. pa[p].amount = 0
      BY <2>1, <2>3, <2>7
    <3>8. \A e \in Entries : entry'[e].paid = en[e].paid + take[e]
      <4>1. ASSUME NEW e \in Entries
            PROVE  entry'[e].paid = entry[e].paid - freed[e] + take[e]
        BY <2>14, <2>15, <3>1
      <4> QED BY <3>4, <4>1
    <3>9. pay' = [pa EXCEPT ![p] = [amount |-> q.amount, voided |-> FALSE, alloc |-> take]]
      BY <2>1
    <3>10. cash' = ca + q.amount
      BY <2>1
    <3> HIDE DEF en, pa, ca
    <3>11. MoneyHolds(entry', pay', ca + q.amount)
      BY <2>13, <3>4, <3>5, <3>6, <3>7, <3>8, <3>9, Constants, AddPaymentHolds
    <3> QED BY <3>10, <3>11, BooksOfNext
  <2>20. RequestsHold'
    <3>1. \A s \in Requests \ {r} : req[s].do = "pay" => pay'[req[s].p].amount = 0
      BY <2>1, <2>2, <2>3, <2>6 DEF Payment
    <3> QED BY <2>4, <2>18, <3>1, FinishKeepsRequests DEF IInv
  <2> QED BY <2>17, <2>18, <2>19, <2>20 DEF IInv
<1>3. CommitEdit(r) => GiveUp(r) \/
         \E p \in Pays :
              /\ fits /\ pay[p].amount = 0
              /\ \A s \in Requests : req[s].do = "pay" => req[s].p # p
              /\ entry' = [e \in Entries |->
                    IF e \in touched THEN Repaid(entry[e], q.read[e], back[e].paid + take[e])
                                     ELSE entry[e]]
              /\ pay' = [pay EXCEPT ![old].voided = TRUE,
                                    ![p] = [amount |-> q.amount, voided |-> FALSE, alloc |-> take]]
              /\ cash' = cash - pay[old].amount + q.amount
              /\ Finish(r)
  BY DEF CommitEdit
<1> QED BY <1>1, <1>2, <1>3

-----------------------------------------------------------------------------
LEMMA InitHolds ==
  Init => IInv
<1> SUFFICES ASSUME Init PROVE IInv
  OBVIOUS
<1>1. /\ \A e \in Entries : entry[e] = NoEntry
      /\ \A p \in Pays : pay[p] = [amount |-> 0, voided |-> FALSE, alloc |-> Nothing]
      /\ cash = 0 /\ \A r \in Requests : req[r] = NoRequest
  BY DEF Init
<1>2. TypeOK
  BY DEF Init, TypeOK, Entry, NoEntry, Status, Payment, Nothing
<1>3. NotOverpaid /\ StatusFollows /\ AbsentIsUnpaid
  BY <1>1 DEF NotOverpaid, StatusFollows, AbsentIsUnpaid, NoEntry
<1>4. MoneyHolds(entry, pay, cash)
  <2>1. ASSUME NEW e \in Entries
        PROVE  entry[e].paid = Total(LiveOn(pay, e), NP)
    <3>1. \A p \in 1..NP : LiveOn(pay, e)[p] = 0
      BY <1>1 DEF LiveOn, Pays, Nothing
    <3> QED BY <1>1, <3>1, Constants, TotalZero DEF NoEntry
  <2>2. ASSUME NEW p \in Pays
        PROVE  pay[p].amount = Total(pay[p].alloc, NE)
    <3>1. pay[p].alloc = Nothing
      BY <1>1
    <3>2. \A e \in 1..NE : pay[p].alloc[e] = 0
      BY <3>1 DEF Nothing, Entries
    <3> QED BY <1>1, <3>2, Constants, TotalZero
  <2>3. cash = Total(PaidOn(entry), NE)
    <3>1. \A e \in 1..NE : PaidOn(entry)[e] = 0
      BY <1>1 DEF PaidOn, Entries, NoEntry
    <3> QED BY <1>1, <3>1, Constants, TotalZero
  <2> QED BY <2>1, <2>2, <2>3 DEF MoneyHolds
<1>5. RequestsHold
  BY <1>1 DEF RequestsHold, NoRequest
<1> QED BY <1>2, <1>3, <1>4, <1>5, BooksOf DEF IInv

LEMMA StepKeeps ==
  IInv /\ [Next]_vars => IInv'
<1> SUFFICES ASSUME IInv, [Next]_vars PROVE IInv'
  OBVIOUS
<1>1. CASE UNCHANGED vars
  BY <1>1 DEF vars, IInv, TypeOK, NotOverpaid, MoneyIsAllocated, StatusFollows, AbsentIsUnpaid,
              RequestsHold
<1>2. ASSUME NEW e \in Entries, Create(e) \/ Regenerate(e)
      PROVE  IInv'
  BY <1>2, CreateKeeps, RegenerateKeeps
<1>3. ASSUME NEW r \in Requests,
             \/ BeginPay(r) \/ BeginVoid(r) \/ BeginEdit(r) \/ BeginRewrite(r) \/ BeginCancel(r)
      PROVE  IInv'
  BY <1>3, BeginPayKeeps, BeginVoidKeeps, BeginEditKeeps, BeginRewriteKeeps, BeginCancelKeeps
<1>4. ASSUME NEW r \in Requests,
             \/ CommitPay(r) \/ CommitVoid(r) \/ CommitEdit(r) \/ CommitRewrite(r) \/ CommitCancel(r)
      PROVE  IInv'
  BY <1>4, CommitPayKeeps, CommitVoidKeeps, CommitEditKeeps, CommitRewriteKeeps, CommitCancelKeeps
<1> QED BY <1>1, <1>2, <1>3, <1>4 DEF Next

LEMMA Inductive ==
  Spec => []IInv
BY InitHolds, StepKeeps, PTL DEF Spec

(* Rows keep their types: nothing paid is negative (salaryPayment and      *)
(* damagePayment decrement what they read).                                *)
THEOREM ObligationsAreTyped ==
  Spec => []TypeOK
<1>1. IInv => TypeOK
  BY DEF IInv
<1> QED BY <1>1, Inductive, PTL

(* However many payments, edits, withholdings and recalculations of the    *)
(* same obligations meet, none of them is overpaid.                        *)
THEOREM NeverOverpaid ==
  Spec => []NotOverpaid
<1>1. IInv => NotOverpaid
  BY DEF IInv
<1> QED BY <1>1, Inductive, PTL

(* Cash, obligations and allocations tell the same sums, so no update of   *)
(* paidAmount is lost or made twice.                                       *)
THEOREM MoneyStaysAllocated ==
  Spec => []MoneyIsAllocated
<1>1. IInv => MoneyIsAllocated
  BY DEF IInv
<1> QED BY <1>1, Inductive, PTL

(* The status of an obligation that stands is what its sums say, although  *)
(* handlers derive it from rows they have read before.                     *)
THEOREM StatusAlwaysFollows ==
  Spec => []StatusFollows
<1>1. IInv => StatusFollows
  BY DEF IInv
<1> QED BY <1>1, Inductive, PTL
=============================================================================
