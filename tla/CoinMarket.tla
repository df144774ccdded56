----------------------------- MODULE CoinMarket -----------------------------
(***************************************************************************)
(* The coins of students: the shop (market.service.js), premium            *)
(* (premium.service.js), packages that lower penalty points                *)
(* (penalty.service.js) and the coins an administrator or the daily pass   *)
(* hands out (coin.service.js).                                            *)
(*                                                                         *)
(* Almost nothing here is a transaction: a handler is a chain of           *)
(* statements, other handlers run between two of them, and a handler that  *)
(* dies leaves what it has written.  A step is one statement (with the     *)
(* checks that follow or precede it without an await).  A request is the   *)
(* record of what its handler has read so far.                             *)
(***************************************************************************)
EXTENDS PrefixSums

CONSTANTS
    Students, Products, Orders, Requests,
    NoOrder,       \* "no order", for requests about something else
    Mixes,         \* sets of operations that are explored together
    Quantities,    \* units in stock or in an order
    Price,         \* coins a unit costs
    PremiumCost,   \* coins a premium subscription costs
    PackageCost,   \* coins a package of points costs
    PackagePoints, \* points that package takes away
    ShopLimit,     \* penalty points above which the shop is closed (3)
    Gifts,         \* coins handed out at a time
    MaxCoins,      \* bound: coins are handed out up to this balance
    MaxPoints,     \* bound: points are given up to this number
    MaxPremium,    \* bound on the terms of premium bought
    MaxDeaths      \* bound on handlers that die

AllOps == {"order", "cancel", "reject", "deliver", "approve", "edit", "premium",
           "package", "lower", "give", "take", "daily"}

ASSUME CoinMarketAssumption ==
    /\ Mixes \subseteq SUBSET AllOps /\ NoOrder \notin Orders /\ IsFiniteSet(Requests)
    /\ Quantities \subseteq Nat \ {0} /\ Gifts \subseteq Nat \ {0}
    /\ {Price, PremiumCost, PackageCost, PackagePoints, ShopLimit,
        MaxCoins, MaxPoints, MaxPremium, MaxDeaths} \subseteq Nat

VARIABLES
    ops,      \* the operations of this behaviour
    coins,    \* User.coinBalance
    booked,   \* the sum of the student's CoinTransaction rows
    points,   \* User.penaltyPoints
    premium,  \* terms until User.premiumExpiresAt
    daily,    \* CoinTransaction rows of type "daily" for today
    product,  \* MarketProduct rows: units left, isActive and not isArchived
    order,    \* MarketOrder rows
    req,      \* handlers that run
    refunds,  \* history: refunds an order has had
    torn,     \* history: coins moved by handlers that died before they booked them,
              \* and coins booked as taken from a balance that no longer had them
    deaths

people == <<coins, booked, points, premium, daily>>
history == <<refunds, torn, deaths>>
vars == <<ops, coins, booked, points, premium, daily, product, order, req, refunds, torn, deaths>>

NoRequest == [at |-> "idle"]
(* n is a number of units, points or terms; c is a number of coins.        *)
Request == [at : {"debit", "stock", "giveBack", "write", "log", "restock", "refund",
                  "logRefund", "status", "read", "extend", "reduce", "lower", "take", "pay"},
            op : AllOps, s : Students, o : Orders \cup {NoOrder}, p : Products, n : Nat, c : Nat]

Status == {"none", "pending", "delivering", "approved", "rejected", "cancelled"}
(* An order that is not written yet, and one that is.                      *)
OrderRow == [status : {"none"}]
            \cup [status : Status \ {"none"}, s : Students, p : Products, n : Nat, c : Nat]

Init ==
    /\ ops \in Mixes
    /\ coins = [s \in Students |-> MaxCoins] /\ booked = coins
    /\ points = [s \in Students |-> 0] /\ premium = points /\ daily = points
    /\ product \in [Products -> [left : Quantities, onSale : {TRUE}]]
    /\ order = [o \in Orders |-> [status |-> "none"]]
    /\ req = [r \in Requests |-> NoRequest]
    /\ refunds = [o \in Orders |-> 0]
    /\ torn = [s \in Students |-> 0] /\ deaths = 0

Ask(r, op, at, s, o, p, n, c) ==
    /\ req[r] = NoRequest /\ op \in ops
    /\ req' = [req EXCEPT ![r] = [at |-> at, op |-> op, s |-> s, o |-> o, p |-> p, n |-> n, c |-> c]]
Go(r, at) == req' = [req EXCEPT ![r].at = at]
Done(r) == req' = [req EXCEPT ![r] = NoRequest]
Move(s, c) == coins' = [coins EXCEPT ![s] = @ + c]

-----------------------------------------------------------------------------
(* Orders.                                                                 *)

(* createOrder reads the student and the product.                          *)
BeginOrder(r) == \E s \in Students, p \in Products, n \in Quantities :
    /\ points[s] <= ShopLimit
    /\ product[p].onSale /\ product[p].left >= n
    /\ Ask(r, "order", "debit", s, NoOrder, p, n, n * Price)
    /\ UNCHANGED <<ops, people, product, order, history>>

(* updateMany with the balance in its condition.                           *)
Debit(r) ==
    /\ req[r].at = "debit"
    /\ \/ /\ coins[req[r].s] >= req[r].c
          /\ Move(req[r].s, -req[r].c)
          /\ Go(r, IF req[r].op = "order" THEN "stock" ELSE "read")
       \/ /\ coins[req[r].s] < req[r].c
          /\ Done(r) /\ UNCHANGED coins
    /\ UNCHANGED <<ops, booked, points, premium, daily, product, order, history>>

(* A bug: only the product is looked at, not what is left of it.           *)
InStockUnchecked(q, n) == q.onSale

(* The condition of the updateMany that takes the units.                   *)
InStock(q, n) == q.onSale /\ q.left >= n

TakeStock(r) ==
    /\ req[r].at = "stock"
    /\ \/ /\ InStock(product[req[r].p], req[r].n)
          /\ product' = [product EXCEPT ![req[r].p].left = @ - req[r].n]
          /\ Go(r, "write")
       \/ /\ ~ InStock(product[req[r].p], req[r].n)
          /\ Go(r, "giveBack") /\ UNCHANGED product
    /\ UNCHANGED <<ops, people, order, history>>

(* A bug: the price of one unit is given back.                             *)
GiveBackOne(r) ==
    /\ req[r].at = "giveBack"
    /\ Move(req[r].s, Price) /\ Done(r)
    /\ UNCHANGED <<ops, booked, points, premium, daily, product, order, history>>

GiveBack(r) ==
    /\ req[r].at = "giveBack"
    /\ Move(req[r].s, req[r].c) /\ Done(r)
    /\ UNCHANGED <<ops, booked, points, premium, daily, product, order, history>>

WriteOrder(r) == \E o \in Orders :
    /\ req[r].at = "write" /\ order[o].status = "none"
    /\ order' = [order EXCEPT ![o] = [status |-> "pending", s |-> req[r].s, p |-> req[r].p,
                                      n |-> req[r].n, c |-> req[r].c]]
    /\ Go(r, "log")
    /\ UNCHANGED <<ops, people, product, history>>

(* The CoinTransaction row of an order, a subscription or a package.       *)
Log(r) ==
    /\ req[r].at = "log"
    /\ booked' = [booked EXCEPT ![req[r].s] = @ - req[r].c]
    /\ Done(r)
    /\ UNCHANGED <<ops, coins, points, premium, daily, product, order, history>>

(* cancelOrderByStudent and updateOrderStatusByOwner read the order, check *)
(* its status and act on what they read.                                   *)
BeginChange(r, op, from, at) == \E o \in Orders :
    /\ order[o].status = from
    /\ Ask(r, op, at, order[o].s, o, order[o].p, order[o].n, order[o].c)
    /\ UNCHANGED <<ops, people, product, order, history>>

(* applyRefundAndRollback: three statements.                               *)
Restock(r) ==
    /\ req[r].at = "restock"
    /\ product' = [product EXCEPT ![req[r].p].left = @ + req[r].n]
    /\ Go(r, "refund")
    /\ UNCHANGED <<ops, people, order, history>>

Refund(r) ==
    /\ req[r].at = "refund"
    /\ Move(req[r].s, req[r].c)
    /\ refunds' = [refunds EXCEPT ![req[r].o] = @ + 1]
    /\ Go(r, "logRefund")
    /\ UNCHANGED <<ops, booked, points, premium, daily, product, order, torn, deaths>>

LogRefund(r) ==
    /\ req[r].at = "logRefund"
    /\ booked' = [booked EXCEPT ![req[r].s] = @ + req[r].c]
    /\ Go(r, "status")
    /\ UNCHANGED <<ops, coins, points, premium, daily, product, order, history>>

NewStatus(op) == CASE op = "cancel"  -> "cancelled" [] op = "reject"  -> "rejected"
                   [] op = "deliver" -> "delivering" [] op = "approve" -> "approved"

WriteStatus(r) ==
    /\ req[r].at = "status"
    /\ order' = [order EXCEPT ![req[r].o].status = NewStatus(req[r].op)]
    /\ Done(r)
    /\ UNCHANGED <<ops, people, product, history>>

(* A bug: the order is closed before its coins are given back.             *)
BeginCancelClosing(r) == \E o \in Orders :
    /\ order[o].status = "pending"
    /\ Ask(r, "cancel", "restock", order[o].s, o, order[o].p, order[o].n, order[o].c)
    /\ order' = [order EXCEPT ![o].status = "cancelled"]
    /\ UNCHANGED <<ops, people, product, history>>

BeginCancel(r)  == BeginChange(r, "cancel", "pending", "restock")
BeginReject(r)  == BeginChange(r, "reject", "pending", "restock")
BeginDeliver(r) == BeginChange(r, "deliver", "pending", "status")
BeginApprove(r) == BeginChange(r, "approve", "delivering", "status")

(* updateProduct sets what it was given; deleteProduct archives.           *)
EditProduct(p) ==
    /\ "edit" \in ops /\ product[p].onSale
    /\ \/ \E n \in Quantities : product' = [product EXCEPT ![p].left = n]
       \/ product' = [product EXCEPT ![p].onSale = FALSE]
    /\ UNCHANGED <<ops, people, order, req, history>>

-----------------------------------------------------------------------------
(* Premium and penalty points.                                             *)

(* purchasePremium; its first statement is Debit.                          *)
BeginPremium(r) == \E s \in Students :
    /\ premium[s] < MaxPremium
    /\ \E p \in Products : Ask(r, "premium", "debit", s, NoOrder, p, 0, PremiumCost)
    /\ UNCHANGED <<ops, people, product, order, history>>

ReadPremium(r) ==
    /\ req[r].at = "read"
    /\ req' = [req EXCEPT ![r].at = "extend", ![r].n = premium[req[r].s] + 1]
    /\ UNCHANGED <<ops, people, product, order, history>>

ExtendPremium(r) ==
    /\ req[r].at = "extend"
    /\ premium' = [premium EXCEPT ![req[r].s] = req[r].n]
    /\ Go(r, "log")
    /\ UNCHANGED <<ops, coins, booked, points, daily, product, order, history>>

(* purchaseReductionPackage reads the points and the balance ...           *)
BeginPackage(r) == \E s \in Students, p \in Products :
    /\ points[s] >= 1 /\ coins[s] >= PackageCost
    /\ Ask(r, "package", "reduce", s, NoOrder, p, Least(PackagePoints, points[s]), PackageCost)
    /\ UNCHANGED <<ops, people, product, order, history>>

(* ... and then takes both with a condition on each.                       *)
Reduce(r) ==
    /\ req[r].at = "reduce"
    /\ LET s == req[r].s IN
       \/ /\ coins[s] >= req[r].c /\ points[s] >= 1
          /\ Move(s, -req[r].c)
          /\ points' = [points EXCEPT ![s] = @ - req[r].n]
          /\ Go(r, "log")
       \/ /\ coins[s] < req[r].c \/ points[s] < 1
          /\ Done(r) /\ UNCHANGED <<ops, coins, points>>
    /\ UNCHANGED <<ops, booked, premium, daily, product, order, history>>

(* reducePenalty by an owner: the check, and the decrement after the row.  *)
BeginLower(r) == \E s \in Students, p \in Products : \E n \in 1..points[s] :
    /\ Ask(r, "lower", "lower", s, NoOrder, p, n, 0)
    /\ UNCHANGED <<ops, people, product, order, history>>

Lower(r) ==
    /\ req[r].at = "lower"
    /\ points' = [points EXCEPT ![req[r].s] = @ - req[r].n]
    /\ Done(r)
    /\ UNCHANGED <<ops, coins, booked, premium, daily, product, order, history>>

(* createPenalty by an owner.                                              *)
Penalise(s) == \E n \in 1..(MaxPoints - points[s]) :
    /\ {"package", "lower"} \cap ops # {}
    /\ points' = [points EXCEPT ![s] = @ + n]
    /\ UNCHANGED <<ops, coins, booked, premium, daily, product, order, req, history>>

-----------------------------------------------------------------------------
(* Coins handed out.  distributeManualCoins and distributeDailyCoins write *)
(* balances and rows in one transaction, from what they read before it.    *)

Give(s) == \E c \in Gifts :
    /\ "give" \in ops /\ coins[s] + c <= MaxCoins
    /\ Move(s, c) /\ booked' = [booked EXCEPT ![s] = @ + c]
    /\ UNCHANGED <<ops, points, premium, daily, product, order, req, history>>

BeginTake(r) == \E s \in Students, c \in Gifts, p \in Products :
    /\ coins[s] >= c
    /\ Ask(r, "take", "take", s, NoOrder, p, 0, c)
    /\ UNCHANGED <<ops, people, product, order, history>>

(* The balance is taken if it still suffices; the row is written in any    *)
(* case.                                                                   *)
Take(r) ==
    /\ req[r].at = "take"
    /\ LET s == req[r].s
           c == req[r].c
       IN  /\ IF coins[s] >= c
              THEN Move(s, -c) /\ UNCHANGED torn
              ELSE torn' = [torn EXCEPT ![s] = @ + c] /\ UNCHANGED coins
           /\ booked' = [booked EXCEPT ![s] = @ - c]
    /\ Done(r)
    /\ UNCHANGED <<ops, points, premium, daily, product, order, refunds, deaths>>

(* The daily pass (cron, or recovery at start) for one student: it reads   *)
(* whether the day was paid, and the grades.                               *)
BeginDaily(r) == \E s \in Students, c \in Gifts, p \in Products :
    /\ daily[s] = 0
    /\ Ask(r, "daily", "pay", s, NoOrder, p, 0, c)
    /\ UNCHANGED <<ops, people, product, order, history>>

PayDaily(r) ==
    /\ req[r].at = "pay"
    /\ Move(req[r].s, req[r].c)
    /\ booked' = [booked EXCEPT ![req[r].s] = @ + req[r].c]
    /\ daily' = [daily EXCEPT ![req[r].s] = @ + 1]
    /\ Done(r)
    /\ UNCHANGED <<ops, points, premium, product, order, history>>

-----------------------------------------------------------------------------
(* Coins that a handler has moved and not booked yet.                      *)
Unbooked(q) ==
    CASE q.at \in {"stock", "giveBack", "write", "read", "extend", "log"} -> -q.c
      [] q.at = "logRefund" -> q.c
      [] OTHER -> 0

(* The process or the database connection of a handler dies.               *)
Die(r) ==
    /\ req[r] # NoRequest /\ deaths < MaxDeaths
    /\ deaths' = deaths + 1
    /\ torn' = [torn EXCEPT ![req[r].s] = @ + Unbooked(req[r])]
    /\ Done(r)
    /\ UNCHANGED <<ops, people, product, order, refunds>>

Next ==
    \/ \E r \in Requests :
       \/ BeginOrder(r) \/ Debit(r) \/ TakeStock(r) \/ GiveBack(r) \/ WriteOrder(r) \/ Log(r)
       \/ BeginCancel(r) \/ BeginReject(r) \/ BeginDeliver(r) \/ BeginApprove(r)
       \/ Restock(r) \/ Refund(r) \/ LogRefund(r) \/ WriteStatus(r)
       \/ BeginPremium(r) \/ ReadPremium(r) \/ ExtendPremium(r)
       \/ BeginPackage(r) \/ Reduce(r) \/ BeginLower(r) \/ Lower(r)
       \/ BeginTake(r) \/ Take(r) \/ BeginDaily(r) \/ PayDaily(r)
       \/ Die(r)
    \/ \E p \in Products : EditProduct(p)
    \/ \E s \in Students : Penalise(s) \/ Give(s)

Spec == Init /\ [][Next]_vars

-----------------------------------------------------------------------------
(* Balances and stock never fall below zero, whoever spends at the same    *)
(* time: market.service.js and premium.service.js put the check into the   *)
(* condition of the write.                                                 *)
TypeOK ==
    /\ coins \in [Students -> Nat] /\ booked \in [Students -> Int]
    /\ points \in [Students -> Int] /\ premium \in [Students -> Nat]
    /\ daily \in [Students -> Nat] /\ refunds \in [Orders -> Nat]
    /\ product \in [Products -> [left : Nat, onSale : BOOLEAN]]
    /\ order \in [Orders -> OrderRow]
    /\ req \in [Requests -> Request \cup {NoRequest}]
    /\ torn \in [Students -> Int] /\ deaths \in 0..MaxDeaths

(* A balance is what its rows say, but for handlers that have moved coins  *)
(* and not booked them yet, for those that died in between and for what    *)
(* was booked as taken and was not there: no path through a purchase, a    *)
(* failed purchase or a refund creates or loses coins.                     *)
CoinsExplained == \A s \in Students :
    LET its == [r \in Requests |-> IF req[r] # NoRequest /\ req[r].s = s
                                   THEN Unbooked(req[r]) ELSE 0]
    IN  coins[s] = booked[s] + torn[s] + SumOver(its, Requests)

(* An order is closed only after its student has had the coins back: a     *)
(* crash between the statements of applyRefundAndRollback leaves an order  *)
(* that can be closed again, never a closed order whose coins are kept.    *)
ClosedWasRefunded == \A o \in Orders :
    order[o].status \in {"cancelled", "rejected"} => refunds[o] >= 1
=============================================================================
