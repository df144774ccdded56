-------------------------- MODULE CoinMarketProofs --------------------------
(***************************************************************************)
(* The coins of CoinMarket are explained in every reachable state, for any *)
(* number of students, orders and handlers and whichever of them die.      *)
(*                                                                         *)
(* A step concerns one handler.  What it adds to a balance is what it adds *)
(* to the rows of the student, to the coins that were torn and to what its *)
(* own record holds as moved and not booked.  A closed order needs what a  *)
(* handler knows of the order it is about to close: that it was written,   *)
(* and that its coins were given back before this handler could get there. *)
(***************************************************************************)
EXTENDS CoinMarket, PrefixSumsProofs

RequestState == Request \cup {NoRequest}

(* What a handler holds of the coins of a student.                         *)
Share(q, s) == IF q # NoRequest /\ q.s = s THEN Unbooked(q) ELSE 0

(* What a handler that changes an order knows, of the orders D and of the  *)
(* refunds F they have had.                                                *)
Knows(q, D, F) ==
    /\ q.at \in {"restock", "refund", "logRefund", "status"} =>
         /\ q.o \in Orders /\ D[q.o].status # "none"
         /\ q.op \in {"cancel", "reject", "deliver", "approve"}
    /\ q.at \in {"restock", "refund", "logRefund"} => q.op \in {"cancel", "reject"}
    /\ q.at \in {"logRefund", "status"} /\ q.op \in {"cancel", "reject"} => F[q.o] >= 1

Known == \A r \in Requests : Knows(req[r], order, refunds)

IInv == TypeOK /\ Known /\ ClosedWasRefunded

-----------------------------------------------------------------------------
(* Records of handlers.                                                    *)
LEMMA RequestFields ==
  ASSUME NEW q \in Request
  PROVE  /\ q # NoRequest /\ q.at # "idle" /\ q.op \in AllOps
         /\ q.s \in Students /\ q.o \in Orders \cup {NoOrder} /\ q.p \in Products
         /\ q.n \in Nat /\ q.c \in Nat
BY DEF Request, NoRequest

(* A handler that is somewhere is a request.                               *)
LEMMA AtWork ==
  ASSUME NEW q \in RequestState, q.at # "idle"
  PROVE  q \in Request
BY DEF RequestState, NoRequest

Ats == {"debit", "stock", "giveBack", "write", "log", "restock", "refund",
        "logRefund", "status", "read", "extend", "reduce", "lower", "take", "pay"}

(* Going on changes the place only.                                        *)
LEMMA GoIs ==
  ASSUME NEW q \in Request, NEW at \in Ats
  PROVE  LET x == [q EXCEPT !.at = at]
         IN  /\ x \in Request /\ x.at = at /\ x.op = q.op /\ x.s = q.s /\ x.o = q.o
             /\ x.p = q.p /\ x.n = q.n /\ x.c = q.c
BY DEF Request, Ats

Held == {"stock", "giveBack", "write", "read", "extend", "log"}

(* What a handler holds, by its place.                                     *)
LEMMA SharesAre ==
  ASSUME NEW s \in Students
  PROVE  /\ Share(NoRequest, s) = 0
         /\ \A q \in Request : Share(q, s) = IF q.s # s THEN 0
                                             ELSE IF q.at \in Held THEN 0 - q.c
                                             ELSE IF q.at = "logRefund" THEN q.c ELSE 0
<1>1. Share(NoRequest, s) = 0
  BY DEF Share
<1>2. ASSUME NEW q \in Request
      PROVE  Share(q, s) = IF q.s # s THEN 0
                           ELSE IF q.at \in Held THEN 0 - q.c
                           ELSE IF q.at = "logRefund" THEN q.c ELSE 0
  <2>1. q # NoRequest /\ q.c \in Nat
    BY RequestFields
  <2>2. Unbooked(q) = IF q.at \in Held THEN 0 - q.c
                      ELSE IF q.at = "logRefund" THEN q.c ELSE 0
    BY <2>1 DEF Unbooked, Held
  <2> QED BY <2>1, <2>2 DEF Share
<1> QED BY <1>1, <1>2

(* It is an integer.                                                       *)
LEMMA ShareTyped ==
  ASSUME NEW q \in RequestState, NEW s \in Students
  PROVE  Share(q, s) \in Int
<1>1. CASE q = NoRequest
  BY <1>1, SharesAre
<1>2. CASE q \in Request
  BY <1>2, SharesAre, RequestFields
<1> QED BY <1>1, <1>2 DEF RequestState

-----------------------------------------------------------------------------
(* A step as the invariants see it: the handler that takes it, the coins   *)
(* it accounts for, and orders that stay written and refunds that stay     *)
(* given.                                                                  *)
RowsTyped ==
    /\ coins \in [Students -> Nat] /\ booked \in [Students -> Int]
    /\ points \in [Students -> Int] /\ premium \in [Students -> Nat]
    /\ daily \in [Students -> Nat] /\ refunds \in [Orders -> Nat]
    /\ product \in [Products -> [left : Nat, onSale : BOOLEAN]]
    /\ order \in [Orders -> OrderRow]
    /\ torn \in [Students -> Int] /\ deaths \in 0..MaxDeaths

Accounted(r, x) == \A s \in Students :
    coins'[s] - booked'[s] - torn'[s] - Share(x, s) = coins[s] - booked[s] - torn[s] - Share(req[r], s)

OrdersGrow ==
    /\ \A o \in Orders : order[o].status # "none" => order'[o].status # "none"
    /\ \A o \in Orders : refunds'[o] >= refunds[o]
    /\ ClosedWasRefunded'

Turn(r, x) ==
    /\ x \in RequestState /\ req' = [req EXCEPT ![r] = x]
    /\ Knows(x, order', refunds')
    /\ Accounted(r, x)
    /\ RowsTyped' /\ OrdersGrow

OwnTurn(r) == \E x : Turn(r, x)

(* Such a step keeps the invariant ...                                     *)
LEMMA TurnKeeps ==
  ASSUME IInv, NEW r \in Requests, OwnTurn(r)
  PROVE  IInv'
<1>1. PICK x : Turn(r, x)
  BY DEF OwnTurn
<1>2. req \in [Requests -> RequestState] /\ req' = [req EXCEPT ![r] = x] /\ x \in RequestState
  BY <1>1 DEF IInv, TypeOK, Turn, RequestState
<1>3. TypeOK'
  <2>1. req' \in [Requests -> RequestState]
    BY <1>2
  <2> QED BY <1>1, <2>1 DEF Turn, RowsTyped, TypeOK, RequestState
<1>4. Known'
  <2>1. ASSUME NEW q \in Requests PROVE Knows(req'[q], order', refunds')
    <3>1. CASE q = r
      BY <1>1, <1>2, <3>1 DEF Turn
    <3>2. CASE q # r
      <4>1. req'[q] = req[q] /\ Knows(req[q], order, refunds)
        BY <1>2, <3>2 DEF IInv, Known
      <4>2. /\ \A o \in Orders : order[o].status # "none" => order'[o].status # "none"
            /\ \A o \in Orders : refunds'[o] >= refunds[o] /\ refunds[o] \in Nat /\ refunds'[o] \in Nat
        BY <1>1 DEF IInv, TypeOK, Turn, OrdersGrow, RowsTyped
      <4>3. Knows(req[q], order', refunds')
        BY <4>1, <4>2 DEF Knows
      <4> QED BY <4>1, <4>3
    <3> QED BY <3>1, <3>2
  <2> QED BY <2>1 DEF Known
<1> QED BY <1>1, <1>3, <1>4 DEF Turn, OrdersGrow, IInv

(* ... and what explains the coins.                                        *)
LEMMA TurnExplains ==
  ASSUME IInv, CoinsExplained, NEW r \in Requests, OwnTurn(r)
  PROVE  CoinsExplained'
<1>1. PICK x : Turn(r, x)
  BY DEF OwnTurn
<1>2. req \in [Requests -> RequestState] /\ req' = [req EXCEPT ![r] = x] /\ x \in RequestState
  BY <1>1 DEF IInv, TypeOK, Turn, RequestState
<1>3. ASSUME NEW s \in Students
      PROVE  coins'[s] = booked'[s] + torn'[s]
                         + SumOver([q \in Requests |-> Share(req'[q], s)], Requests)
  <2> DEFINE f == [q \in Requests |-> Share(req[q], s)]
             h == [q \in Requests |-> Share(req'[q], s)]
             d == Share(x, s) - Share(req[r], s)
  <2>1. \A q \in Requests : req[q] \in RequestState /\ req'[q] \in RequestState
    BY <1>2
  <2>2. f \in [Requests -> Int] /\ h \in [Requests -> Int] /\ d \in Int
    BY <1>2, <2>1, ShareTyped
  <2>3. \A q \in Requests : h[q] = IF q = r THEN f[q] + d ELSE f[q]
    <3>1. ASSUME NEW q \in Requests PROVE h[q] = IF q = r THEN f[q] + d ELSE f[q]
      <4>1. req'[q] = IF q = r THEN x ELSE req[q]
        BY <1>2
      <4>2. Share(x, s) \in Int /\ Share(req[r], s) \in Int
        BY <1>2, <2>1, ShareTyped
      <4> QED BY <4>1, <4>2
    <3> QED BY <3>1
  <2>4. IsFiniteSet(Requests)
    BY CoinMarketAssumption
  <2>5. coins[s] = booked[s] + torn[s] + SumOver(f, Requests)
    BY DEF CoinsExplained, Share
  <2>6. coins'[s] - booked'[s] - torn'[s] - Share(x, s)
          = coins[s] - booked[s] - torn[s] - Share(req[r], s)
    BY <1>1 DEF Turn, Accounted
  <2>7. /\ coins[s] \in Int /\ booked[s] \in Int /\ torn[s] \in Int
        /\ coins'[s] \in Int /\ booked'[s] \in Int /\ torn'[s] \in Int
    BY <1>1 DEF IInv, TypeOK, Turn, RowsTyped
  <2>8. Share(x, s) \in Int /\ Share(req[r], s) \in Int
    BY <1>2, <2>1, ShareTyped
  <2>9. SumOver(f, Requests) \in Int
    <3> HIDE DEF f
    <3> QED BY <2>2, <2>4, SumOverType
  <2>10. SumOver(h, Requests) = SumOver(f, Requests) + d
    <3> HIDE DEF f, h, d
    <3> QED BY <2>2, <2>3, <2>4, SumOverBump
  <2> QED BY <2>5, <2>6, <2>7, <2>8, <2>9, <2>10
<1> QED BY <1>3 DEF CoinsExplained, Share

-----------------------------------------------------------------------------
(* The steps of the handlers, in turn.                                     *)
LEMMA Rows ==
  ASSUME IInv
  PROVE  /\ RowsTyped /\ ClosedWasRefunded
         /\ req \in [Requests -> RequestState]
         /\ \A r \in Requests : req[r] \in RequestState /\ Knows(req[r], order, refunds)
         /\ \A o \in Orders : refunds[o] \in Nat
         /\ \A s \in Students : coins[s] \in Nat /\ booked[s] \in Int /\ torn[s] \in Int
                                /\ points[s] \in Int
BY DEF IInv, TypeOK, RowsTyped, Known, RequestState

(* Steps that leave orders and refunds alone.                              *)
LEMMA OrdersStay ==
  ASSUME IInv, UNCHANGED <<order, refunds>>
  PROVE  OrdersGrow
<1>1. \A o \in Orders : refunds[o] \in Nat
  BY Rows
<1> QED BY <1>1 DEF OrdersGrow, IInv, ClosedWasRefunded

(* A handler that starts.                                                  *)
LEMMA Asked ==
  ASSUME IInv, NEW r \in Requests, UNCHANGED <<people, product, order, history>>,
         NEW op \in AllOps, NEW at \in Ats \ (Held \cup {"logRefund"}), NEW s \in Students,
         NEW o \in Orders \cup {NoOrder}, NEW p \in Products, NEW n \in Nat, NEW c \in Nat,
         Ask(r, op, at, s, o, p, n, c),
         at \in {"restock", "refund", "status"} =>
           /\ o \in Orders /\ order[o].status # "none"
           /\ op \in {"cancel", "reject", "deliver", "approve"},
         at \in {"restock", "refund"} => op \in {"cancel", "reject"},
         at = "status" => op \notin {"cancel", "reject"}
  PROVE  OwnTurn(r)
<1> DEFINE x == [at |-> at, op |-> op, s |-> s, o |-> o, p |-> p, n |-> n, c |-> c]
<1>1. x \in Request
  BY DEF Request, Ats
<1>2. req' = [req EXCEPT ![r] = x] /\ req[r] = NoRequest
  BY DEF Ask
<1>3. Knows(x, order', refunds')
  BY DEF Knows, Held
<1>4. \A t \in Students : Share(x, t) = 0 /\ Share(NoRequest, t) = 0
  BY <1>1, SharesAre
<1>5. Accounted(r, x)
  BY <1>2, <1>4 DEF Accounted, people, history
<1>6. RowsTyped'
  BY Rows DEF RowsTyped, people, history
<1>7. OrdersGrow
  BY OrdersStay DEF history
<1>8. x \in RequestState
  BY <1>1 DEF RequestState
<1> HIDE DEF x
<1> QED BY <1>2, <1>3, <1>5, <1>6, <1>7, <1>8 DEF Turn, OwnTurn

(* Handlers of purchases, of points and of coins start with nothing held.  *)
LEMMA Beginnings ==
  ASSUME IInv, NEW r \in Requests,
         \/ BeginOrder(r) \/ BeginPremium(r) \/ BeginPackage(r)
         \/ BeginLower(r) \/ BeginTake(r) \/ BeginDaily(r)
  PROVE  OwnTurn(r)
<1> USE CoinMarketAssumption DEF Ats, Held, AllOps
<1>1. CASE BeginOrder(r)
  <2>1. PICK s \in Students, p \in Products, n \in Quantities :
           /\ Ask(r, "order", "debit", s, NoOrder, p, n, n * Price)
           /\ UNCHANGED <<people, product, order, history>>
    BY <1>1 DEF BeginOrder
  <2>2. n \in Nat /\ n * Price \in Nat
    <3>1. \A a, b \in Nat : a * b \in Nat
      OBVIOUS
    <3> QED BY <3>1
  <2> QED BY <2>1, <2>2, Asked
<1>2. CASE BeginPremium(r)
  <2>1. PICK s \in Students, p \in Products :
           Ask(r, "premium", "debit", s, NoOrder, p, 0, PremiumCost)
    BY <1>2 DEF BeginPremium
  <2>2. UNCHANGED <<people, product, order, history>> /\ PremiumCost \in Nat
    BY <1>2 DEF BeginPremium
  <2> QED BY <2>1, <2>2, Asked
<1>3. CASE BeginPackage(r)
  <2>1. PICK s \in Students, p \in Products :
           /\ points[s] >= 1
           /\ Ask(r, "package", "reduce", s, NoOrder, p, Least(PackagePoints, points[s]), PackageCost)
           /\ UNCHANGED <<people, product, order, history>>
    BY <1>3 DEF BeginPackage
  <2>2. Least(PackagePoints, points[s]) \in Nat /\ PackageCost \in Nat
    <3>1. points[s] \in Int /\ PackagePoints \in Nat /\ PackageCost \in Nat
      BY Rows
    <3> QED BY <2>1, <3>1 DEF Least
  <2> QED BY <2>1, <2>2, Asked
<1>4. CASE BeginLower(r)
  <2>1. PICK s \in Students, p \in Products, n \in Nat :
           /\ Ask(r, "lower", "lower", s, NoOrder, p, n, 0)
           /\ UNCHANGED <<people, product, order, history>>
    <3>1. \A s \in Students : 1..points[s] \subseteq Nat
      BY Rows
    <3> QED BY <1>4, <3>1 DEF BeginLower
  <2> QED BY <2>1, Asked
<1>5. CASE BeginTake(r)
  <2>1. PICK s \in Students, c \in Gifts, p \in Products :
           /\ Ask(r, "take", "take", s, NoOrder, p, 0, c)
           /\ UNCHANGED <<people, product, order, history>>
    BY <1>5 DEF BeginTake
  <2> QED BY <2>1, Asked
<1>6. CASE BeginDaily(r)
  <2>1. PICK s \in Students, c \in Gifts, p \in Products :
           /\ Ask(r, "daily", "pay", s, NoOrder, p, 0, c)
           /\ UNCHANGED <<people, product, order, history>>
    BY <1>6 DEF BeginDaily
  <2> QED BY <2>1, Asked
<1> QED BY <1>1, <1>2, <1>3, <1>4, <1>5, <1>6

(* The fields of a written order.                                          *)
LEMMA OrderFields ==
  ASSUME NEW w \in OrderRow, w.status # "none"
  PROVE  /\ w.status \in Status \ {"none"} /\ w.s \in Students /\ w.p \in Products
         /\ w.n \in Nat /\ w.c \in Nat
         /\ \A st \in Status \ {"none"} : [w EXCEPT !.status = st] \in OrderRow
                                          /\ [w EXCEPT !.status = st].status = st
BY DEF OrderRow

(* A handler that decides about an order knows that it was written.        *)
LEMMA Changes ==
  ASSUME IInv, NEW r \in Requests,
         BeginCancel(r) \/ BeginReject(r) \/ BeginDeliver(r) \/ BeginApprove(r)
  PROVE  OwnTurn(r)
<1>1. ASSUME NEW op \in AllOps, NEW from \in Status \ {"none"}, NEW at \in {"restock", "status"},
             BeginChange(r, op, from, at),
             op \in {"cancel", "reject", "deliver", "approve"},
             at = "restock" => op \in {"cancel", "reject"},
             at = "status" => op \notin {"cancel", "reject"}
      PROVE  OwnTurn(r)
  <2>1. PICK o \in Orders :
           /\ order[o].status = from
           /\ Ask(r, op, at, order[o].s, o, order[o].p, order[o].n, order[o].c)
           /\ UNCHANGED <<people, product, order, history>>
    BY <1>1 DEF BeginChange
  <2>2. order[o] \in OrderRow /\ order[o].status # "none"
    BY <2>1 DEF IInv, TypeOK
  <2>3. order[o].s \in Students /\ order[o].p \in Products /\ order[o].n \in Nat /\ order[o].c \in Nat
    BY <2>2, OrderFields
  <2>4. at \in Ats \ (Held \cup {"logRefund"})
    BY DEF Ats, Held
  <2> QED BY <1>1, <2>1, <2>2, <2>3, <2>4, Asked
<1>2. BeginCancel(r) => OwnTurn(r)
  BY <1>1 DEF BeginCancel, AllOps, Status
<1>3. BeginReject(r) => OwnTurn(r)
  BY <1>1 DEF BeginReject, AllOps, Status
<1>4. BeginDeliver(r) => OwnTurn(r)
  BY <1>1 DEF BeginDeliver, AllOps, Status
<1>5. BeginApprove(r) => OwnTurn(r)
  BY <1>1 DEF BeginApprove, AllOps, Status
<1> QED BY <1>2, <1>3, <1>4, <1>5

(* What a handler holds when it is at a place.                             *)
Holding(q, at) == IF at \in Held THEN 0 - q.c ELSE IF at = "logRefund" THEN q.c ELSE 0

(* The coins of student s, less what is booked and torn, change by d.      *)
Moved(s, d) == \A t \in Students :
    coins'[t] - booked'[t] - torn'[t] = coins[t] - booked[t] - torn[t] + (IF t = s THEN d ELSE 0)

(* A handler that goes on ...                                              *)
LEMMA Went ==
  ASSUME IInv, NEW r \in Requests, NEW q \in Request, q = req[r], NEW at \in Ats, Go(r, at),
         NEW d \in Int, Moved(q.s, d), d = Holding(q, at) - Holding(q, q.at),
         Knows([q EXCEPT !.at = at], order', refunds'), RowsTyped', OrdersGrow
  PROVE  OwnTurn(r)
<1> DEFINE x == [q EXCEPT !.at = at]
<1>1. x \in Request /\ x.at = at /\ x.s = q.s /\ x.c = q.c
  BY GoIs
<1>2. req' = [req EXCEPT ![r] = x]
  BY Rows DEF Go
<1>3. Accounted(r, x)
  <2>1. ASSUME NEW t \in Students
        PROVE  coins'[t] - booked'[t] - torn'[t] - Share(x, t)
                 = coins[t] - booked[t] - torn[t] - Share(q, t)
    <3> HIDE DEF x
    <3>1. Share(x, t) = IF q.s = t THEN Holding(q, at) ELSE 0
      BY <1>1, SharesAre DEF Holding
    <3>2. Share(q, t) = IF q.s = t THEN Holding(q, q.at) ELSE 0
      BY SharesAre DEF Holding
    <3>3. /\ coins[t] \in Int /\ booked[t] \in Int /\ torn[t] \in Int
          /\ coins'[t] \in Int /\ booked'[t] \in Int /\ torn'[t] \in Int
      BY Rows DEF RowsTyped
    <3>4. Holding(q, at) \in Int /\ Holding(q, q.at) \in Int
      BY RequestFields DEF Holding
    <3>5. coins'[t] - booked'[t] - torn'[t] = coins[t] - booked[t] - torn[t] + (IF t = q.s THEN d ELSE 0)
      BY DEF Moved
    <3> QED BY <3>1, <3>2, <3>3, <3>4, <3>5
  <2> QED BY <2>1 DEF Accounted
<1>4. x \in RequestState
  BY <1>1 DEF RequestState
<1> QED BY <1>2, <1>3, <1>4 DEF Turn, OwnTurn

(* ... and one that ends.                                                  *)
LEMMA Ended ==
  ASSUME IInv, NEW r \in Requests, NEW q \in Request, q = req[r], Done(r),
         NEW d \in Int, Moved(q.s, d), d = 0 - Holding(q, q.at), RowsTyped', OrdersGrow
  PROVE  OwnTurn(r)
<1>1. req' = [req EXCEPT ![r] = NoRequest]
  BY DEF Done
<1>2. Accounted(r, NoRequest)
  <2>1. ASSUME NEW t \in Students
        PROVE  coins'[t] - booked'[t] - torn'[t] - Share(NoRequest, t)
                 = coins[t] - booked[t] - torn[t] - Share(q, t)
    <3>1. Share(NoRequest, t) = 0
      BY SharesAre
    <3>2. Share(q, t) = IF q.s = t THEN Holding(q, q.at) ELSE 0
      BY SharesAre DEF Holding
    <3>3. /\ coins[t] \in Int /\ booked[t] \in Int /\ torn[t] \in Int
          /\ coins'[t] \in Int /\ booked'[t] \in Int /\ torn'[t] \in Int
      BY Rows DEF RowsTyped
    <3>4. Holding(q, q.at) \in Int
      BY RequestFields DEF Holding
    <3>5. coins'[t] - booked'[t] - torn'[t] = coins[t] - booked[t] - torn[t] + (IF t = q.s THEN d ELSE 0)
      BY DEF Moved
    <3> QED BY <3>1, <3>2, <3>3, <3>4, <3>5
  <2> QED BY <2>1 DEF Accounted
<1>3. NoRequest \in RequestState /\ Knows(NoRequest, order', refunds')
  BY DEF RequestState, Knows, NoRequest
<1> QED BY <1>1, <1>2, <1>3 DEF Turn, OwnTurn

(* The record of the handler that takes a step.                            *)
LEMMA Working ==
  ASSUME IInv, NEW r \in Requests, req[r].at # "idle"
  PROVE  /\ req[r] \in Request /\ Knows(req[r], order, refunds)
         /\ req[r].s \in Students /\ req[r].o \in Orders \cup {NoOrder} /\ req[r].p \in Products
         /\ req[r].n \in Nat /\ req[r].c \in Nat /\ req[r].op \in AllOps
BY Rows, AtWork, RequestFields

(* Steps that move and book nothing.                                       *)
LEMMA Still ==
  ASSUME IInv, UNCHANGED <<coins, booked, torn>>, NEW s
  PROVE  Moved(s, 0)
BY Rows DEF Moved

(* Places where no order is at stake.                                      *)
LEMMA KnowsNothing ==
  ASSUME NEW q \in Request, NEW at \in Ats \ {"restock", "refund", "logRefund", "status"}, NEW D, NEW F
  PROVE  Knows([q EXCEPT !.at = at], D, F)
BY GoIs DEF Knows

(* Coins that are taken or given, and rows that are written.               *)
LEMMA CoinsMove ==
  ASSUME IInv, NEW s \in Students, NEW d \in Int, Move(s, d), coins[s] + d >= 0,
         UNCHANGED <<booked, torn>>
  PROVE  Moved(s, d) /\ coins' \in [Students -> Nat]
<1>1. coins \in [Students -> Nat]
  BY Rows DEF RowsTyped
<1> QED BY <1>1, Rows DEF Moved, Move

(* A row is written.                                                       *)
LEMMA BookMove ==
  ASSUME IInv, NEW s \in Students, NEW d \in Int, booked' = [booked EXCEPT ![s] = @ + d],
         UNCHANGED <<coins, torn>>
  PROVE  Moved(s, 0 - d) /\ booked' \in [Students -> Int]
<1>1. booked \in [Students -> Int]
  BY Rows DEF RowsTyped
<1> QED BY <1>1, Rows DEF Moved

-----------------------------------------------------------------------------
(* A purchase.                                                             *)
LEMMA DebitTurns ==
  ASSUME IInv, NEW r \in Requests, Debit(r)
  PROVE  OwnTurn(r)
<1>1. PICK q \in Request : q = req[r] /\ q.at = "debit"
  BY Working DEF Debit
<1>2. OrdersGrow /\ UNCHANGED <<booked, torn>>
  BY OrdersStay DEF Debit, history
<1>3. q.s \in Students /\ q.c \in Nat /\ Holding(q, q.at) = 0
  BY <1>1, RequestFields DEF Holding, Held
<1>4. CASE coins[q.s] >= q.c /\ Move(q.s, -q.c) /\ Go(r, IF q.op = "order" THEN "stock" ELSE "read")
  <2>1. PICK at \in {"stock", "read"} : Go(r, at)
    BY <1>4
  <2>2. 0 - q.c \in Int /\ Holding(q, at) = 0 - q.c /\ at \in Ats
        /\ coins[q.s] + (0 - q.c) >= 0 /\ Move(q.s, 0 - q.c)
    <3>1. coins[q.s] \in Nat
      BY <1>3, Rows
    <3>2. -q.c = 0 - q.c /\ 0 - q.c \in Int /\ coins[q.s] + (0 - q.c) >= 0
      BY <1>3, <1>4, <3>1
    <3>3. Move(q.s, 0 - q.c)
      BY <1>4, <3>2
    <3>4. Holding(q, at) = 0 - q.c /\ at \in Ats
      BY DEF Holding, Held, Ats
    <3> QED BY <3>2, <3>3, <3>4
  <2>3. Moved(q.s, 0 - q.c) /\ coins' \in [Students -> Nat]
    BY <1>2, <1>3, <2>2, CoinsMove
  <2>4. RowsTyped'
    BY <2>3, Rows DEF RowsTyped, Debit, history
  <2>5. Knows([q EXCEPT !.at = at], order', refunds')
    BY KnowsNothing DEF Ats
  <2>6. 0 - q.c = Holding(q, at) - Holding(q, q.at)
    BY <1>3, <2>2
  <2> QED BY <1>1, <1>2, <2>1, <2>2, <2>3, <2>4, <2>5, <2>6, Went
<1>5. CASE Done(r) /\ UNCHANGED coins
  <2>1. Moved(q.s, 0)
    BY <1>2, <1>5, Still
  <2>2. RowsTyped'
    BY <1>5, Rows DEF RowsTyped, Debit, history
  <2> QED BY <1>1, <1>2, <1>3, <1>5, <2>1, <2>2, Ended
<1> QED BY <1>1, <1>4, <1>5 DEF Debit

(* The units are taken, or the coins are to be given back.                 *)
LEMMA TakeStockTurns ==
  ASSUME IInv, NEW r \in Requests, TakeStock(r)
  PROVE  OwnTurn(r)
<1>1. PICK q \in Request : q = req[r] /\ q.at = "stock"
  BY Working DEF TakeStock
<1>2. OrdersGrow /\ Moved(q.s, 0)
  BY OrdersStay, Still DEF TakeStock, history, people
<1>3. PICK at \in {"write", "giveBack"} : Go(r, at)
  BY DEF TakeStock
<1>4. at \in Ats /\ Holding(q, at) = Holding(q, q.at) /\ Holding(q, at) \in Int
  BY <1>1, RequestFields DEF Ats, Holding, Held
<1>5. product' \in [Products -> [left : Nat, onSale : BOOLEAN]]
  <2>1. product \in [Products -> [left : Nat, onSale : BOOLEAN]] /\ q.p \in Products /\ q.n \in Nat
    BY Rows, RequestFields DEF RowsTyped
  <2>2. CASE InStock(product[q.p], q.n) /\ product' = [product EXCEPT ![q.p].left = @ - q.n]
    <3>1. product[q.p].left - q.n \in Nat
      BY <2>1, <2>2 DEF InStock
    <3> QED BY <2>1, <2>2, <3>1
  <2> QED BY <1>1, <2>1, <2>2 DEF TakeStock
<1>6. RowsTyped'
  BY <1>5, Rows DEF RowsTyped, TakeStock, history, people
<1>7. Knows([q EXCEPT !.at = at], order', refunds')
  BY KnowsNothing DEF Ats
<1>8. 0 = Holding(q, at) - Holding(q, q.at)
  BY <1>4
<1> QED BY <1>1, <1>2, <1>3, <1>4, <1>6, <1>7, <1>8, Went

(* The coins of a purchase that failed.                                    *)
LEMMA GiveBackTurns ==
  ASSUME IInv, NEW r \in Requests, GiveBack(r)
  PROVE  OwnTurn(r)
<1>1. PICK q \in Request : q = req[r] /\ q.at = "giveBack"
  BY Working DEF GiveBack
<1>2. OrdersGrow /\ UNCHANGED <<booked, torn>>
  BY OrdersStay DEF GiveBack, history
<1>3. q.s \in Students /\ q.c \in Nat /\ Holding(q, q.at) = 0 - q.c /\ coins[q.s] \in Nat
  BY <1>1, RequestFields, Rows DEF Holding, Held
<1>4. Move(q.s, q.c) /\ Done(r) /\ coins[q.s] + q.c >= 0 /\ q.c \in Int /\ q.c = 0 - Holding(q, q.at)
  BY <1>1, <1>3 DEF GiveBack
<1>5. Moved(q.s, q.c) /\ coins' \in [Students -> Nat]
  BY <1>2, <1>3, <1>4, CoinsMove
<1>6. RowsTyped'
  BY <1>5, Rows DEF RowsTyped, GiveBack, history
<1> QED BY <1>1, <1>2, <1>4, <1>5, <1>6, Ended

(* The order is written: nobody can have known it before.                  *)
LEMMA WriteOrderTurns ==
  ASSUME IInv, NEW r \in Requests, WriteOrder(r)
  PROVE  OwnTurn(r)
<1>1. PICK q \in Request : q = req[r] /\ q.at = "write"
  BY Working DEF WriteOrder
<1>2. PICK o \in Orders :
        /\ order[o].status = "none"
        /\ order' = [order EXCEPT ![o] = [status |-> "pending", s |-> q.s, p |-> q.p, n |-> q.n, c |-> q.c]]
        /\ Go(r, "log")
  BY <1>1 DEF WriteOrder
<1>3. order' \in [Orders -> OrderRow]
  <2>1. [status |-> "pending", s |-> q.s, p |-> q.p, n |-> q.n, c |-> q.c] \in OrderRow
    BY RequestFields DEF OrderRow, Status
  <2>2. order \in [Orders -> OrderRow]
    BY Rows DEF RowsTyped
  <2> QED BY <1>2, <2>1, <2>2
<1>4. RowsTyped'
  BY <1>3, Rows DEF RowsTyped, WriteOrder, history, people
<1>5. OrdersGrow
  <2>1. order \in [Orders -> OrderRow] /\ refunds' = refunds
    BY Rows DEF RowsTyped, WriteOrder, history
  <2>2. \A p \in Orders : order'[p].status = IF p = o THEN "pending" ELSE order[p].status
    BY <1>2, <2>1
  <2>3. \A p \in Orders : refunds[p] \in Nat
    BY Rows
  <2> QED BY <2>1, <2>2, <2>3 DEF OrdersGrow, IInv, ClosedWasRefunded
<1>6. Moved(q.s, 0)
  BY Still DEF WriteOrder, people, history
<1>7. PICK at \in Ats : at = "log"
  BY DEF Ats
<1>8. 0 = Holding(q, at) - Holding(q, q.at)
  BY <1>1, <1>7, RequestFields DEF Holding, Held
<1>9. Knows([q EXCEPT !.at = at], order', refunds') /\ Go(r, at)
  BY <1>2, <1>7, KnowsNothing
<1> QED BY <1>1, <1>4, <1>5, <1>6, <1>8, <1>9, Went

(* The row of a purchase books what its handler held.                      *)
LEMMA LogTurns ==
  ASSUME IInv, NEW r \in Requests, Log(r)
  PROVE  OwnTurn(r)
<1>1. PICK q \in Request : q = req[r] /\ q.at = "log"
  BY Working DEF Log
<1>2. OrdersGrow /\ UNCHANGED <<coins, torn>>
  BY OrdersStay DEF Log, history
<1>3. /\ q.s \in Students /\ q.c \in Nat /\ 0 - q.c \in Int /\ q.c \in Int
      /\ 0 - (0 - q.c) = q.c /\ q.c = 0 - Holding(q, q.at)
  BY <1>1, RequestFields DEF Holding, Held
<1>4. booked' = [booked EXCEPT ![q.s] = @ + (0 - q.c)] /\ Done(r)
  <2>1. booked[q.s] - q.c = booked[q.s] + (0 - q.c)
    BY <1>3, Rows
  <2> QED BY <1>1, <2>1 DEF Log
<1>5. Moved(q.s, q.c) /\ booked' \in [Students -> Int]
  BY <1>2, <1>3, <1>4, BookMove
<1>6. RowsTyped'
  BY <1>5, Rows DEF RowsTyped, Log, history
<1> QED BY <1>1, <1>2, <1>3, <1>4, <1>5, <1>6, Ended

-----------------------------------------------------------------------------
(* A refund.                                                               *)
LEMMA RestockTurns ==
  ASSUME IInv, NEW r \in Requests, Restock(r)
  PROVE  OwnTurn(r)
<1>1. PICK q \in Request : q = req[r] /\ q.at = "restock" /\ Knows(q, order, refunds)
  BY Working DEF Restock
<1>2. OrdersGrow /\ Moved(q.s, 0)
  BY OrdersStay, Still DEF Restock, history, people
<1>3. PICK at \in Ats : at = "refund"
  BY DEF Ats
<1>4. Go(r, at) /\ 0 = Holding(q, at) - Holding(q, q.at)
  BY <1>1, <1>3, RequestFields DEF Restock, Holding, Held
<1>5. product' \in [Products -> [left : Nat, onSale : BOOLEAN]]
  <2>1. product \in [Products -> [left : Nat, onSale : BOOLEAN]] /\ q.p \in Products /\ q.n \in Nat
    BY Rows, RequestFields DEF RowsTyped
  <2>2. product' = [product EXCEPT ![q.p].left = @ + q.n] /\ product[q.p].left + q.n \in Nat
    BY <1>1, <2>1 DEF Restock
  <2> QED BY <2>1, <2>2
<1>6. RowsTyped'
  BY <1>5, Rows DEF RowsTyped, Restock, history, people
<1>7. Knows([q EXCEPT !.at = at], order', refunds')
  BY <1>1, <1>3, GoIs DEF Knows, Restock, history
<1> QED BY <1>1, <1>2, <1>4, <1>6, <1>7, Went

(* The coins are given back before anything is booked.                     *)
LEMMA RefundTurns ==
  ASSUME IInv, NEW r \in Requests, Refund(r)
  PROVE  OwnTurn(r)
<1>1. PICK q \in Request : q = req[r] /\ q.at = "refund" /\ Knows(q, order, refunds)
  BY Working DEF Refund
<1>2. q.o \in Orders /\ q.s \in Students /\ q.c \in Nat /\ q.c \in Int
      /\ coins[q.s] + q.c >= 0 /\ UNCHANGED <<booked, torn>>
  BY <1>1, RequestFields, Rows DEF Knows, Refund
<1>3. PICK at \in Ats : at = "logRefund"
  BY DEF Ats
<1>4. Go(r, at) /\ q.c = Holding(q, at) - Holding(q, q.at)
  BY <1>1, <1>3, RequestFields DEF Refund, Holding, Held
<1>5. Move(q.s, q.c)
  BY <1>1 DEF Refund
<1>6. Moved(q.s, q.c) /\ coins' \in [Students -> Nat]
  BY <1>2, <1>5, CoinsMove
<1>7. refunds \in [Orders -> Nat] /\ refunds' = [refunds EXCEPT ![q.o] = @ + 1] /\ order' = order
  BY <1>1, Rows DEF Refund, RowsTyped
<1>8. refunds' \in [Orders -> Nat] /\ \A o \in Orders : refunds'[o] >= refunds[o]
  BY <1>2, <1>7
<1>9. refunds'[q.o] >= 1
  BY <1>2, <1>7
<1>10. OrdersGrow
  <2>1. \A o \in Orders : refunds[o] \in Nat /\ refunds'[o] \in Nat
    BY <1>7, <1>8
  <2> QED BY <1>7, <1>8, <2>1 DEF OrdersGrow, IInv, ClosedWasRefunded
<1>11. RowsTyped'
  BY <1>6, <1>8, Rows DEF RowsTyped, Refund
<1>12. Knows([q EXCEPT !.at = at], order', refunds')
  BY <1>1, <1>3, <1>7, <1>9, GoIs DEF Knows
<1> QED BY <1>1, <1>2, <1>4, <1>6, <1>10, <1>11, <1>12, Went

(* The row of a refund.                                                    *)
LEMMA LogRefundTurns ==
  ASSUME IInv, NEW r \in Requests, LogRefund(r)
  PROVE  OwnTurn(r)
<1>1. PICK q \in Request : q = req[r] /\ q.at = "logRefund" /\ Knows(q, order, refunds)
  BY Working DEF LogRefund
<1>2. OrdersGrow /\ UNCHANGED <<coins, torn>>
  BY OrdersStay DEF LogRefund, history
<1>3. q.s \in Students /\ q.c \in Nat /\ q.c \in Int /\ 0 - q.c \in Int
  BY RequestFields
<1>4. PICK at \in Ats : at = "status"
  BY DEF Ats
<1>5. Go(r, at) /\ 0 - q.c = Holding(q, at) - Holding(q, q.at)
  BY <1>1, <1>3, <1>4 DEF LogRefund, Holding, Held
<1>6. booked' = [booked EXCEPT ![q.s] = @ + q.c]
  BY <1>1 DEF LogRefund
<1>7. Moved(q.s, 0 - q.c) /\ booked' \in [Students -> Int]
  BY <1>2, <1>3, <1>6, BookMove
<1>8. RowsTyped'
  BY <1>7, Rows DEF RowsTyped, LogRefund, history
<1>9. Knows([q EXCEPT !.at = at], order', refunds')
  BY <1>1, <1>4, GoIs DEF Knows, LogRefund, history
<1> QED BY <1>1, <1>2, <1>3, <1>5, <1>7, <1>8, <1>9, Went

(* A handler that closes an order has given its coins back.                *)
LEMMA WriteStatusTurns ==
  ASSUME IInv, NEW r \in Requests, WriteStatus(r)
  PROVE  OwnTurn(r)
<1>1. PICK q \in Request : q = req[r] /\ q.at = "status" /\ Knows(q, order, refunds)
  BY Working DEF WriteStatus
<1>2. /\ q.o \in Orders /\ order[q.o].status # "none"
      /\ q.op \in {"cancel", "reject", "deliver", "approve"}
      /\ q.op \in {"cancel", "reject"} => refunds[q.o] >= 1
  BY <1>1 DEF Knows
<1>3. PICK st \in Status \ {"none"} :
        st = NewStatus(q.op) /\ (st \in {"cancelled", "rejected"} => refunds[q.o] >= 1)
  BY <1>2 DEF NewStatus, Status
<1>4. order \in [Orders -> OrderRow] /\ order' = [order EXCEPT ![q.o].status = st] /\ refunds' = refunds
  BY <1>1, <1>3, Rows DEF RowsTyped, WriteStatus, history
<1>5. PICK w \in OrderRow : w = order[q.o]
  BY <1>2, <1>4
<1>6. [w EXCEPT !.status = st] \in OrderRow /\ [w EXCEPT !.status = st].status = st
  BY <1>2, <1>5, OrderFields
<1>7. order' = [order EXCEPT ![q.o] = [w EXCEPT !.status = st]]
  BY <1>4, <1>5
<1>8. order' \in [Orders -> OrderRow]
      /\ \A o \in Orders : order'[o].status = IF o = q.o THEN st ELSE order[o].status
  <2> DEFINE v == [w EXCEPT !.status = st]
  <2>1. v \in OrderRow /\ v.status = st /\ order' = [order EXCEPT ![q.o] = v]
    BY <1>6, <1>7
  <2> HIDE DEF v
  <2> QED BY <1>2, <1>4, <2>1
<1>9. OrdersGrow
  <2>1. \A o \in Orders : refunds[o] \in Nat
    BY Rows
  <2> QED BY <1>3, <1>4, <1>8, <2>1 DEF OrdersGrow, IInv, ClosedWasRefunded
<1>10. Moved(q.s, 0)
  BY Still DEF WriteStatus, people, history
<1>11. RowsTyped'
  BY <1>8, Rows DEF RowsTyped, WriteStatus, people, history
<1>12. Done(r) /\ 0 = 0 - Holding(q, q.at)
  BY <1>1 DEF WriteStatus, Holding, Held
<1> QED BY <1>1, <1>9, <1>10, <1>11, <1>12, Ended

-----------------------------------------------------------------------------
(* Premium, penalty points, coins taken and paid by hand or for the day.   *)
LEMMA ReadPremiumTurns ==
  ASSUME IInv, NEW r \in Requests, ReadPremium(r)
  PROVE  OwnTurn(r)
<1>1. PICK q \in Request : q = req[r] /\ q.at = "read"
  BY Working DEF ReadPremium
<1>2. PICK m \in Nat : req' = [req EXCEPT ![r].at = "extend", ![r].n = m]
  <2>1. premium[q.s] + 1 \in Nat
    BY RequestFields, Rows DEF RowsTyped
  <2> QED BY <1>1, <2>1 DEF ReadPremium
<1> DEFINE x == [q EXCEPT !.at = "extend", !.n = m]
<1>3. req' = [req EXCEPT ![r] = x]
  BY <1>1, <1>2, Rows
<1>4. x \in Request /\ x.at = "extend" /\ x.s = q.s /\ x.c = q.c
  BY DEF Request
<1>5. OrdersGrow /\ RowsTyped'
  BY OrdersStay, Rows DEF RowsTyped, ReadPremium, history, people
<1>6. Accounted(r, x)
  <2>1. \A s \in Students : Share(x, s) = Share(q, s)
    <3> HIDE DEF x
    <3> QED BY <1>1, <1>4, SharesAre DEF Held
  <2> HIDE DEF x
  <2> QED BY <1>1, <2>1 DEF Accounted, ReadPremium, people, history
<1>7. x \in RequestState /\ Knows(x, order', refunds')
  BY <1>4 DEF RequestState, Knows
<1> HIDE DEF x
<1> QED BY <1>3, <1>5, <1>6, <1>7 DEF Turn, OwnTurn

(* The term is written as it was read.                                     *)
LEMMA ExtendPremiumTurns ==
  ASSUME IInv, NEW r \in Requests, ExtendPremium(r)
  PROVE  OwnTurn(r)
<1>1. PICK q \in Request : q = req[r] /\ q.at = "extend"
  BY Working DEF ExtendPremium
<1>2. OrdersGrow /\ Moved(q.s, 0)
  BY OrdersStay, Still DEF ExtendPremium, history
<1>3. PICK at \in Ats : at = "log"
  BY DEF Ats
<1>4. Go(r, at) /\ 0 = Holding(q, at) - Holding(q, q.at)
  BY <1>1, <1>3, RequestFields DEF ExtendPremium, Holding, Held
<1>5. premium' \in [Students -> Nat]
  BY <1>1, Rows, RequestFields DEF RowsTyped, ExtendPremium
<1>6. RowsTyped'
  BY <1>5, Rows DEF RowsTyped, ExtendPremium, history
<1>7. Knows([q EXCEPT !.at = at], order', refunds')
  BY <1>3, KnowsNothing
<1> QED BY <1>1, <1>2, <1>4, <1>6, <1>7, Went

(* A package takes coins and points at once, or nothing.                   *)
LEMMA ReduceTurns ==
  ASSUME IInv, NEW r \in Requests, Reduce(r)
  PROVE  OwnTurn(r)
<1>1. PICK q \in Request : q = req[r] /\ q.at = "reduce"
  BY Working DEF Reduce
<1>2. OrdersGrow /\ UNCHANGED <<booked, torn>>
  BY OrdersStay DEF Reduce, history
<1>3. /\ q.s \in Students /\ q.c \in Nat /\ q.n \in Nat /\ Holding(q, q.at) = 0
      /\ coins[q.s] \in Nat /\ points \in [Students -> Int]
  BY <1>1, RequestFields, Rows DEF Holding, Held, RowsTyped
<1>4. CASE /\ coins[q.s] >= q.c /\ Move(q.s, -q.c) /\ Go(r, "log")
           /\ points' = [points EXCEPT ![q.s] = @ - q.n]
  <2>1. PICK at \in Ats : at = "log"
    BY DEF Ats
  <2>2. -q.c = 0 - q.c /\ 0 - q.c \in Int /\ coins[q.s] + (0 - q.c) >= 0
    BY <1>3, <1>4
  <2>3. Move(q.s, 0 - q.c)
    BY <1>4, <2>2
  <2>4. Moved(q.s, 0 - q.c) /\ coins' \in [Students -> Nat]
    BY <1>2, <1>3, <2>2, <2>3, CoinsMove
  <2>5. points' \in [Students -> Int]
    BY <1>3, <1>4
  <2>6. RowsTyped'
    BY <2>4, <2>5, Rows DEF RowsTyped, Reduce, history
  <2>7. Knows([q EXCEPT !.at = at], order', refunds') /\ Go(r, at)
    BY <1>4, <2>1, KnowsNothing
  <2>8. 0 - q.c = Holding(q, at) - Holding(q, q.at)
    BY <1>3, <2>1 DEF Holding, Held
  <2> QED BY <1>1, <1>2, <2>2, <2>4, <2>6, <2>7, <2>8, Went
<1>5. CASE Done(r) /\ UNCHANGED <<coins, points>>
  <2>1. Moved(q.s, 0)
    BY <1>2, <1>5, Still
  <2>2. RowsTyped'
    BY <1>5, Rows DEF RowsTyped, Reduce, history
  <2> QED BY <1>1, <1>2, <1>3, <1>5, <2>1, <2>2, Ended
<1> QED BY <1>1, <1>4, <1>5 DEF Reduce

(* The points are lowered without a look at them.                          *)
LEMMA LowerTurns ==
  ASSUME IInv, NEW r \in Requests, Lower(r)
  PROVE  OwnTurn(r)
<1>1. PICK q \in Request : q = req[r] /\ q.at = "lower"
  BY Working DEF Lower
<1>2. OrdersGrow /\ Moved(q.s, 0)
  BY OrdersStay, Still DEF Lower, history
<1>3. points' \in [Students -> Int]
  <2>1. points \in [Students -> Int] /\ q.n \in Nat /\ q.s \in Students
    BY Rows, RequestFields DEF RowsTyped
  <2> QED BY <1>1, <2>1 DEF Lower
<1>4. RowsTyped'
  BY <1>3, Rows DEF RowsTyped, Lower, history
<1>5. Done(r) /\ 0 = 0 - Holding(q, q.at)
  BY <1>1 DEF Lower, Holding, Held
<1> QED BY <1>1, <1>2, <1>4, <1>5, Ended

(* Coins taken by hand are booked whether they were there or not.          *)
LEMMA TakeTurns ==
  ASSUME IInv, NEW r \in Requests, Take(r)
  PROVE  OwnTurn(r)
<1>1. PICK q \in Request : q = req[r] /\ q.at = "take"
  BY Working DEF Take
<1>2. OrdersGrow
  BY OrdersStay DEF Take
<1>3. /\ q.s \in Students /\ q.c \in Nat /\ coins[q.s] \in Nat
      /\ coins \in [Students -> Nat] /\ booked \in [Students -> Int] /\ torn \in [Students -> Int]
  BY RequestFields, Rows DEF RowsTyped
<1>4. booked' = [booked EXCEPT ![q.s] = @ - q.c]
  BY <1>1 DEF Take
<1>5. \/ coins[q.s] >= q.c /\ coins' = [coins EXCEPT ![q.s] = @ + (-q.c)] /\ torn' = torn
      \/ torn' = [torn EXCEPT ![q.s] = @ + q.c] /\ coins' = coins
  BY <1>1 DEF Take, Move
<1>6. /\ coins' \in [Students -> Nat] /\ booked' \in [Students -> Int] /\ torn' \in [Students -> Int]
      /\ Moved(q.s, 0)
  <2>1. CASE coins[q.s] >= q.c /\ coins' = [coins EXCEPT ![q.s] = @ + (-q.c)] /\ torn' = torn
    <3>1. coins[q.s] + (-q.c) \in Nat
      BY <1>3, <2>1
    <3> QED BY <1>3, <1>4, <2>1, <3>1 DEF Moved
  <2>2. CASE torn' = [torn EXCEPT ![q.s] = @ + q.c] /\ coins' = coins
    BY <1>3, <1>4, <2>2 DEF Moved
  <2> QED BY <1>5, <2>1, <2>2
<1>7. RowsTyped'
  BY <1>6, Rows DEF RowsTyped, Take
<1>8. Done(r) /\ 0 = 0 - Holding(q, q.at)
  BY <1>1 DEF Take, Holding, Held
<1> QED BY <1>1, <1>2, <1>6, <1>7, <1>8, Ended

(* The daily pass pays and books in one transaction.                       *)
LEMMA PayDailyTurns ==
  ASSUME IInv, NEW r \in Requests, PayDaily(r)
  PROVE  OwnTurn(r)
<1>1. PICK q \in Request : q = req[r] /\ q.at = "pay"
  BY Working DEF PayDaily
<1>2. OrdersGrow
  BY OrdersStay DEF PayDaily, history
<1>3. /\ q.s \in Students /\ q.c \in Nat
      /\ coins \in [Students -> Nat] /\ booked \in [Students -> Int] /\ daily \in [Students -> Nat]
      /\ torn \in [Students -> Int]
  BY RequestFields, Rows DEF RowsTyped
<1>4. /\ coins' = [coins EXCEPT ![q.s] = @ + q.c] /\ booked' = [booked EXCEPT ![q.s] = @ + q.c]
      /\ daily' = [daily EXCEPT ![q.s] = @ + 1] /\ torn' = torn
  BY <1>1 DEF PayDaily, Move, history
<1>5. /\ coins' \in [Students -> Nat] /\ booked' \in [Students -> Int] /\ daily' \in [Students -> Nat]
      /\ Moved(q.s, 0)
  BY <1>3, <1>4 DEF Moved
<1>6. RowsTyped'
  BY <1>5, Rows DEF RowsTyped, PayDaily, history
<1>7. Done(r) /\ 0 = 0 - Holding(q, q.at)
  BY <1>1 DEF PayDaily, Holding, Held
<1> QED BY <1>1, <1>2, <1>5, <1>6, <1>7, Ended

(* A handler that dies: what it held is torn.                              *)
LEMMA DieTurns ==
  ASSUME IInv, NEW r \in Requests, Die(r)
  PROVE  OwnTurn(r)
<1>1. PICK q \in Request : q = req[r]
  BY Rows DEF Die, RequestState
<1>2. OrdersGrow
  BY OrdersStay DEF Die
<1>3. /\ q.s \in Students /\ q.c \in Nat /\ Unbooked(q) = Holding(q, q.at)
      /\ torn \in [Students -> Int] /\ Holding(q, q.at) \in Int
  <2>1. q.s \in Students /\ q.c \in Nat /\ torn \in [Students -> Int]
    BY RequestFields, Rows DEF RowsTyped
  <2> QED BY <2>1 DEF Unbooked, Holding, Held
<1>4. torn' = [torn EXCEPT ![q.s] = @ + Holding(q, q.at)] /\ UNCHANGED <<coins, booked>>
  BY <1>1, <1>3 DEF Die, people
<1>5. PICK d \in Int : d = 0 - Holding(q, q.at) /\ Holding(q, q.at) = 0 - d
  BY <1>3
<1>6. torn' \in [Students -> Int] /\ Moved(q.s, d)
  <2>1. torn' = [torn EXCEPT ![q.s] = @ + (0 - d)]
    BY <1>4, <1>5
  <2>2. torn' \in [Students -> Int]
    BY <1>3, <2>1
  <2> QED BY <1>3, <1>4, <2>1, <2>2, Rows DEF Moved
<1>7. deaths' \in 0..MaxDeaths
  BY Rows, CoinMarketAssumption DEF Die, RowsTyped
<1>8. RowsTyped'
  BY <1>6, <1>7, Rows DEF RowsTyped, Die, people
<1> QED BY <1>1, <1>2, <1>5, <1>6, <1>8, Ended DEF Die

-----------------------------------------------------------------------------
(* Steps of nobody's handler.                                              *)
LEMMA NoTurnKeeps ==
  ASSUME IInv, UNCHANGED <<req, order, refunds>>, RowsTyped',
         \A s \in Students : coins'[s] - booked'[s] - torn'[s] = coins[s] - booked[s] - torn[s]
  PROVE  IInv' /\ (CoinsExplained => CoinsExplained')
<1>1. IInv'
  BY DEF IInv, TypeOK, RowsTyped, Known, ClosedWasRefunded
<1>2. ASSUME CoinsExplained PROVE CoinsExplained'
  <2>1. ASSUME NEW s \in Students
        PROVE  coins'[s] = booked'[s] + torn'[s]
                           + SumOver([q \in Requests |-> Share(req'[q], s)], Requests)
    <3> DEFINE f == [q \in Requests |-> Share(req[q], s)]
    <3>1. coins[s] = booked[s] + torn[s] + SumOver(f, Requests)
      BY <1>2 DEF CoinsExplained, Share
    <3>2. f \in [Requests -> Int]
      BY Rows, ShareTyped
    <3>3. SumOver(f, Requests) \in Int
      <4> HIDE DEF f
      <4> QED BY <3>2, CoinMarketAssumption, SumOverType
    <3>4. /\ coins[s] \in Int /\ booked[s] \in Int /\ torn[s] \in Int
          /\ coins'[s] \in Int /\ booked'[s] \in Int /\ torn'[s] \in Int
      BY Rows DEF RowsTyped
    <3>5. [q \in Requests |-> Share(req'[q], s)] = f
      OBVIOUS
    <3> HIDE DEF f
    <3> QED BY <3>1, <3>3, <3>4, <3>5
  <2> QED BY <2>1 DEF CoinsExplained, Share
<1> QED BY <1>1, <1>2

(* Products, penalties and gifts.                                          *)
LEMMA OthersKeep ==
  ASSUME IInv,
         \/ \E p \in Products : EditProduct(p)
         \/ \E s \in Students : Penalise(s) \/ Give(s)
         \/ UNCHANGED vars
  PROVE  IInv' /\ (CoinsExplained => CoinsExplained')
<1>1. ASSUME NEW p \in Products, EditProduct(p)
      PROVE  IInv' /\ (CoinsExplained => CoinsExplained')
  <2>1. product' \in [Products -> [left : Nat, onSale : BOOLEAN]]
    <3>1. product \in [Products -> [left : Nat, onSale : BOOLEAN]]
      BY Rows DEF RowsTyped
    <3>2. CASE \E n \in Quantities : product' = [product EXCEPT ![p].left = n]
      <4>1. PICK n \in Nat : product' = [product EXCEPT ![p].left = n]
        BY <3>2, CoinMarketAssumption
      <4> QED BY <3>1, <4>1
    <3>3. CASE product' = [product EXCEPT ![p].onSale = FALSE]
      BY <3>1, <3>3
    <3> QED BY <1>1, <3>2, <3>3 DEF EditProduct
  <2>2. RowsTyped'
    BY <1>1, <2>1, Rows DEF RowsTyped, EditProduct, people, history
  <2> QED BY <1>1, <2>2, NoTurnKeeps DEF EditProduct, people, history
<1>2. ASSUME NEW s \in Students, Penalise(s)
      PROVE  IInv' /\ (CoinsExplained => CoinsExplained')
  <2>1. points' \in [Students -> Int]
    <3>1. points \in [Students -> Int] /\ MaxPoints \in Int
      BY Rows, CoinMarketAssumption DEF RowsTyped
    <3>2. PICK n \in 1..(MaxPoints - points[s]) : points' = [points EXCEPT ![s] = @ + n]
      BY <1>2 DEF Penalise
    <3> QED BY <3>1, <3>2
  <2>2. RowsTyped'
    BY <1>2, <2>1, Rows DEF RowsTyped, Penalise, history
  <2> QED BY <1>2, <2>2, NoTurnKeeps DEF Penalise, history
<1>3. ASSUME NEW s \in Students, Give(s)
      PROVE  IInv' /\ (CoinsExplained => CoinsExplained')
  <2>1. PICK c \in Nat : coins' = [coins EXCEPT ![s] = @ + c] /\ booked' = [booked EXCEPT ![s] = @ + c]
    BY <1>3, CoinMarketAssumption DEF Give, Move
  <2>2. /\ coins \in [Students -> Nat] /\ booked \in [Students -> Int] /\ torn \in [Students -> Int]
        /\ torn' = torn
    BY <1>3, Rows DEF RowsTyped, Give, history
  <2>3. /\ coins' \in [Students -> Nat] /\ booked' \in [Students -> Int]
        /\ \A t \in Students : coins'[t] - booked'[t] - torn'[t] = coins[t] - booked[t] - torn[t]
    BY <2>1, <2>2
  <2>4. RowsTyped'
    BY <1>3, <2>3, Rows DEF RowsTyped, Give, history
  <2> QED BY <1>3, <2>3, <2>4, NoTurnKeeps DEF Give, history
<1>4. ASSUME UNCHANGED vars
      PROVE  IInv' /\ (CoinsExplained => CoinsExplained')
  <2>1. RowsTyped'
    BY <1>4, Rows DEF RowsTyped, vars
  <2> QED BY <1>4, <2>1, NoTurnKeeps DEF vars
<1> QED BY <1>1, <1>2, <1>3, <1>4

(* Every other step is the turn of one handler.                            *)
LEMMA HandlersTurn ==
  ASSUME IInv, [Next]_vars,
         ~ \E p \in Products : EditProduct(p),
         ~ \E s \in Students : Penalise(s) \/ Give(s),
         ~ UNCHANGED vars
  PROVE  \E r \in Requests : OwnTurn(r)
<1>1. PICK r \in Requests :
        \/ BeginOrder(r) \/ Debit(r) \/ TakeStock(r) \/ GiveBack(r) \/ WriteOrder(r) \/ Log(r)
        \/ BeginCancel(r) \/ BeginReject(r) \/ BeginDeliver(r) \/ BeginApprove(r)
        \/ Restock(r) \/ Refund(r) \/ LogRefund(r) \/ WriteStatus(r)
        \/ BeginPremium(r) \/ ReadPremium(r) \/ ExtendPremium(r)
        \/ BeginPackage(r) \/ Reduce(r) \/ BeginLower(r) \/ Lower(r)
        \/ BeginTake(r) \/ Take(r) \/ BeginDaily(r) \/ PayDaily(r) \/ Die(r)
  BY Zenon DEF Next
<1> QED BY <1>1, Beginnings, Changes, DebitTurns, TakeStockTurns, GiveBackTurns,
           WriteOrderTurns, LogTurns, RestockTurns, RefundTurns, LogRefundTurns,
           WriteStatusTurns, ReadPremiumTurns, ExtendPremiumTurns, ReduceTurns, LowerTurns,
           TakeTurns, PayDailyTurns, DieTurns

(* Every step keeps the invariant, and the coins explained.                *)
LEMMA StepHolds ==
  ASSUME IInv, [Next]_vars
  PROVE  IInv' /\ (CoinsExplained => CoinsExplained')
<1>1. CASE \/ \E p \in Products : EditProduct(p)
           \/ \E s \in Students : Penalise(s) \/ Give(s)
           \/ UNCHANGED vars
  BY <1>1, OthersKeep
<1>2. CASE \E r \in Requests : OwnTurn(r)
  BY <1>2, TurnKeeps, TurnExplains
<1> QED BY <1>1, <1>2, HandlersTurn

(* At the start no handler holds anything.                                 *)
LEMMA InitHolds ==
  ASSUME Init
  PROVE  IInv /\ CoinsExplained
<1>1. TypeOK
  <2>1. coins \in [Students -> Nat]
    BY CoinMarketAssumption DEF Init
  <2>2. product \in [Products -> [left : Nat, onSale : BOOLEAN]]
    <3>1. Quantities \subseteq Nat
      BY CoinMarketAssumption
    <3>2. [left : Quantities, onSale : {TRUE}] \subseteq [left : Nat, onSale : BOOLEAN]
      BY <3>1
    <3> QED BY <3>2 DEF Init
  <2>3. order \in [Orders -> OrderRow]
    BY DEF Init, OrderRow
  <2>4. deaths \in 0..MaxDeaths
    BY CoinMarketAssumption DEF Init
  <2> QED BY <2>1, <2>2, <2>3, <2>4 DEF Init, TypeOK
<1>2. Known /\ ClosedWasRefunded
  BY DEF Init, Known, Knows, NoRequest, ClosedWasRefunded
<1>3. CoinsExplained
  <2>1. ASSUME NEW s \in Students
        PROVE  coins[s] = booked[s] + torn[s]
                          + SumOver([r \in Requests |-> Share(req[r], s)], Requests)
    <3> DEFINE f == [r \in Requests |-> Share(req[r], s)]
    <3>1. f \in [Requests -> Int] /\ \A r \in Requests : f[r] = 0
      BY SharesAre DEF Init
    <3>2. SumOver(f, Requests) = 0
      <4> HIDE DEF f
      <4> QED BY <3>1, CoinMarketAssumption, SumOverZero
    <3>3. coins[s] \in Nat /\ booked[s] = coins[s] /\ torn[s] = 0
      BY CoinMarketAssumption DEF Init
    <3>4. coins[s] = booked[s] + torn[s] + SumOver(f, Requests)
      <4> HIDE DEF f
      <4> QED BY <3>2, <3>3
    <3> QED BY <3>4
  <2> QED BY <2>1 DEF CoinsExplained, Share
<1> QED BY <1>1, <1>2, <1>3 DEF IInv

(* Every handler that acts on an order knows what it has to know of it.    *)
THEOREM HandlersKnow == Spec => []IInv
<1>1. Init => IInv
  BY InitHolds
<1>2. IInv /\ [Next]_vars => IInv'
  BY StepHolds
<1> QED BY <1>1, <1>2, PTL DEF Spec

(* Balances and stock never fall below zero: the updateMany of a purchase, *)
(* of its units and of a package carry their checks.                       *)
THEOREM CoinsAreTyped == Spec => []TypeOK
BY HandlersKnow, PTL DEF IInv

(* No order is closed before applyRefundAndRollback has given its coins    *)
(* back, whoever closes it at the same time and wherever handlers die.     *)
THEOREM ClosedOrdersWereRefunded == Spec => []ClosedWasRefunded
BY HandlersKnow, PTL DEF IInv

(* Every coin of a balance is in the CoinTransaction rows, in the hands of *)
(* a handler that runs, or was torn by one that died.                      *)
THEOREM CoinsAlwaysExplained == Spec => []CoinsExplained
<1>1. Init => CoinsExplained
  BY InitHolds
<1>2. IInv /\ CoinsExplained /\ [Next]_vars => CoinsExplained'
  BY StepHolds
<1> QED BY <1>1, <1>2, HandlersKnow, PTL DEF Spec
=============================================================================
