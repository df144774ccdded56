------------------------------ MODULE Inventory ------------------------------
(***************************************************************************)
(* The furniture of a school: stock rows and their movements               *)
(* (inventoryStock, inventoryTransfer), the daily check of a room          *)
(* (inventoryCheck), damage found (inventoryDamage) and its distribution   *)
(* over those who did it (damageCharge).  One item; payments on charges    *)
(* are in Obligations.                                                     *)
(*                                                                         *)
(* A transaction that only increments what it locks is one step.  Where a  *)
(* handler reads first and its transaction relies on the reading, the      *)
(* reading is a step of its own, kept in `req`.                            *)
(***************************************************************************)
EXTENDS Integers, FiniteSets, FiniteSetsExt, TLC

CONSTANTS
    Rooms, CheckedRoom,  \* a stock row for each room; the daily check is of one
    Damages, Charges, Requests,
    Mixes,               \* sets of operations that are explored together
    Units,               \* units in one movement
    MaxUnits,            \* bound on the units in a room
    MaxChecks            \* bound on the sheets opened for the day

AllOps == {"check", "cancelDamage", "charge", "cancelCharge", "waive", "unwaive",
           "move", "correct"}

ASSUME InventoryAssumption ==
    CheckedRoom \in Rooms /\ Mixes \subseteq SUBSET AllOps /\ Units \subseteq Nat \ {0} /\ {MaxUnits, MaxChecks} \subseteq Nat

VARIABLES
    ops,
    stock,    \* InventoryStock: quantity, brokenQuantity
    entered,  \* history: what people put into all rooms by hand
    acted,    \* rooms that a transfer act names
    check,    \* the check of the day of CheckedRoom; sheet: its line is there;
              \* posted: movements and damages refer to it; no tells sheets apart
    damage,   \* InventoryDamage rows
    charge,   \* DamageCharge rows
    revived,  \* history: damage -> how often its status was written away from cancelled,
              \* less how often it was written back to it, both without a movement
    req

rows == <<stock, entered, acted>>
vars == <<ops, stock, entered, acted, check, damage, charge, revived, req>>

NoRow     == [there |-> FALSE, quantity |-> 0, broken |-> 0]
NoLine    == [broken |-> 0, missing |-> 0, repaired |-> 0]
NoCheck(n) == [no |-> n, status |-> "none", line |-> NoLine, sheet |-> FALSE, posted |-> FALSE]
NoDamage  == [status |-> "none"]
NoCharge  == [status |-> "none"]
NoRequest == [do |-> "idle"]

Kinds == {"broken", "missing"}
Line  == [broken : {0} \cup Units, missing : {0} \cup Units, repaired : {0} \cup Units]

Init ==
    /\ ops \in Mixes
    /\ stock = [l \in Rooms |-> NoRow]
    /\ entered = [quantity |-> 0, broken |-> 0]
    /\ acted = {}
    /\ check = NoCheck(0)
    /\ damage = [d \in Damages |-> NoDamage]
    /\ charge = [c \in Charges |-> NoCharge]
    /\ revived = [d \in Damages |-> 0]
    /\ req = [r \in Requests |-> NoRequest]

-----------------------------------------------------------------------------
(* postMovement increments a row (ensureStock makes it) and rolls back     *)
(* what assertStockConsistency refuses.                                    *)
Posted(row, dq, db) == [there |-> TRUE, quantity |-> row.quantity + dq, broken |-> row.broken + db]

(* A bug: more may be broken than there is.                                *)
ConsistentLoosely(row) == 0 <= row.broken /\ 0 <= row.quantity /\ row.quantity <= MaxUnits

Consistent(row) == 0 <= row.broken /\ row.broken <= row.quantity /\ row.quantity <= MaxUnits

Enter(dq, db) == entered' = [quantity |-> entered.quantity + dq, broken |-> entered.broken + db]

(* What a damage does to its row (movementDeltasFor).                      *)
DeltaQ(kind, n) == IF kind = "missing" THEN -n ELSE 0
DeltaB(kind, n) == IF kind = "broken" THEN n ELSE 0

(* addStock, and the corrections by hand: repair, write-off, adjustment    *)
(* and the new quantities of updateStock.                                  *)
Change(l) == \E n \in Units, dq \in {-1, 0, 1}, db \in {-1, 0, 1} :
    LET row == Posted(stock[l], dq * n, db * n) IN
    /\ stock[l].there \/ (dq = 1 /\ db >= 0)
    /\ "correct" \in ops \/ entered.quantity = 0
    /\ <<dq, db>> # <<0, 0>> /\ Consistent(row)
    /\ stock' = [stock EXCEPT ![l] = row]
    /\ Enter(dq * n, db * n)
    /\ UNCHANGED <<ops, acted, check, damage, charge, revived, req>>

(* createTransfer: an act with one line.                                   *)
Transfer(l, k) == \E n \in Units : \E b \in 0..n :
    /\ "move" \in ops /\ l # k /\ stock[l].there
    /\ Consistent(Posted(stock[l], -n, -b)) /\ Consistent(Posted(stock[k], n, b))
    /\ stock' = [stock EXCEPT ![l] = Posted(@, -n, -b), ![k] = Posted(@, n, b)]
    /\ acted' = acted \cup {l, k}
    /\ UNCHANGED <<ops, entered, check, damage, charge, revived, req>>

OpenDamages(l) == {d \in Damages : /\ damage[d].status \notin {"none", "cancelled"}
                                   /\ damage[d].room = l /\ damage[d].kind # "missing"}

(* moveStockRow: everything goes; broken units stay where a damage may     *)
(* have to be cancelled.                                                   *)
MoveRow(l, k) ==
    LET row == stock[l] IN
    /\ "move" \in ops /\ l # k /\ row.there /\ row.quantity > 0
    /\ row.broken > 0 => OpenDamages(l) = {}
    /\ Consistent(Posted(stock[k], row.quantity, row.broken))
    /\ stock' = [stock EXCEPT ![l] = Posted(@, -row.quantity, -row.broken),
                              ![k] = Posted(@, row.quantity, row.broken)]
    /\ UNCHANGED <<ops, entered, acted, check, damage, charge, revived, req>>

(* deleteStock, unless a damage, a sealed sheet or an act refers to the    *)
(* row; the line of a draft goes with it.                                  *)
DeleteRow(l) ==
    /\ "move" \in ops /\ stock[l].there /\ l \notin acted
    /\ \A d \in Damages : damage[d].status # "none" => damage[d].room # l
    /\ l = CheckedRoom => ~ (check.status = "submitted" /\ check.sheet)
    /\ stock' = [stock EXCEPT ![l] = NoRow]
    /\ Enter(-stock[l].quantity, -stock[l].broken)
    /\ check' = IF l = CheckedRoom THEN [check EXCEPT !.sheet = FALSE, !.line = NoLine] ELSE check
    /\ UNCHANGED <<ops, acted, damage, charge, revived, req>>

-----------------------------------------------------------------------------
Ask(r, request) ==
    /\ req[r] = NoRequest
    /\ req' = [req EXCEPT ![r] = request]
    /\ UNCHANGED <<ops, rows, check, damage, charge, revived>>
Finish(r) == req' = [req EXCEPT ![r] = NoRequest] /\ UNCHANGED ops
GiveUp(r) == Finish(r) /\ UNCHANGED <<rows, check, damage, charge, revived>>

(* The check.  openCheck fills the sheet from the stock; the sheet can be  *)
(* edited or deleted while it is a draft, which both look at first.        *)

OpenCheck ==
    /\ "check" \in ops /\ check.status = "none" /\ stock[CheckedRoom].quantity > 0
    /\ check.no < MaxChecks
    /\ check' = [NoCheck(check.no + 1) EXCEPT !.status = "draft", !.sheet = TRUE]
    /\ UNCHANGED <<ops, rows, damage, charge, revived, req>>

BeginEdit(r) == \E line \in Line :
    /\ check.status = "draft"
    /\ Ask(r, [do |-> "edit", no |-> check.no, line |-> line])

CommitEdit(r) ==
    /\ req[r].do = "edit"
    /\ check' = IF check.no = req[r].no /\ check.sheet THEN [check EXCEPT !.line = req[r].line]
                                                     ELSE check
    /\ Finish(r) /\ UNCHANGED <<rows, damage, charge, revived>>

BeginDelete(r) == check.status = "draft" /\ Ask(r, [do |-> "delete", no |-> check.no])

(* A movement or a damage of the check refuses the deletion.               *)
CommitDelete(r) ==
    /\ req[r].do = "delete"
    /\ check' = IF check.no = req[r].no /\ ~check.posted THEN NoCheck(check.no) ELSE check
    /\ Finish(r) /\ UNCHANGED <<rows, damage, charge, revived>>

NewDamage(l, kind, n, sheet) ==
    [status |-> "pending", room |-> l, kind |-> kind, n |-> n, amount |-> n, charged |-> 0,
     sheet |-> sheet]

BeginSubmit(r) ==
    /\ check.status = "draft"
    /\ Ask(r, [do |-> "submit", no |-> check.no, line |-> check.line])

(* A bug: the check is not claimed, only looked up.                        *)
CanClaimAnything == check.status # "none"

(* updateMany on the condition that the check is a draft.                  *)
CanClaim == check.status = "draft"

(* submitCheck after it has read the lines: repair first, then what broke  *)
(* and what is missing, each as a damage.                                  *)
CommitSubmit(r) ==
    /\ req[r].do = "submit"
    /\ LET line  == req[r].line
           fixed == Posted(stock[CheckedRoom], 0, -line.repaired)
           after == Posted(fixed, -line.missing, line.broken)
           fits  == /\ check.no = req[r].no /\ CanClaim
                    /\ line # NoLine =>
                          /\ check.sheet /\ Consistent(fixed)
                          /\ Consistent(Posted(fixed, 0, line.broken)) /\ Consistent(after)
           found == {k \in Kinds : line[k] > 0}
       IN  \/ \E new \in [found -> Damages] :
              /\ fits /\ \A k \in found : damage[new[k]].status = "none"
              /\ \A k, j \in found : k # j => new[k] # new[j]
              /\ check' = [check EXCEPT !.status = "submitted", !.posted = line # NoLine]
              /\ stock' = [stock EXCEPT ![CheckedRoom] = IF line = NoLine THEN @ ELSE after]
              /\ Enter(0, -line.repaired)
              /\ damage' = [d \in Damages |->
                    IF \E k \in found : d = new[k]
                    THEN LET k == CHOOSE k \in found : d = new[k]
                         IN  NewDamage(CheckedRoom, k, line[k], check.no)
                    ELSE damage[d]]
              /\ Finish(r) /\ UNCHANGED <<acted, charge, revived>>
           \/ ~ fits /\ GiveUp(r)

-----------------------------------------------------------------------------
(* Damage found outside a check.                                           *)
CreateDamage(l) == \E d \in Damages, kind \in Kinds, n \in Units :
    LET row == Posted(stock[l], DeltaQ(kind, n), DeltaB(kind, n)) IN
    /\ damage[d].status = "none" /\ Consistent(row)
    /\ stock' = [stock EXCEPT ![l] = row]
    /\ damage' = [damage EXCEPT ![d] = NewDamage(l, kind, n, 0)]
    /\ UNCHANGED <<ops, entered, acted, check, charge, revived, req>>

Active(d) == {c \in Charges : charge[c].status = "active" /\ charge[c].damage = d}
Charged(d) == MapThenSumSet(LAMBDA c : charge[c].amount, Active(d))

(* cancelDamage and waiveDamage count the charges first.                   *)
BeginClose(r, op) == \E d \in Damages :
    /\ op \in ops
    /\ damage[d].status \notin {"none", "cancelled"} /\ Active(d) = {}
    /\ op = "waive" => damage[d].status # "waived"
    /\ Ask(r, [do |-> op, d |-> d])

(* A bug: a damage that somebody has cancelled is cancelled again.         *)
CanCancelAgain(d) == TRUE

CanCancel(d) == damage[d].status # "cancelled"

CommitCancelDamage(r) ==
    /\ req[r].do = "cancelDamage"
    /\ LET d    == req[r].d
           row  == Posted(stock[damage[d].room],
                          -DeltaQ(damage[d].kind, damage[d].n), -DeltaB(damage[d].kind, damage[d].n))
           fits == CanCancel(d) /\ stock[damage[d].room].there /\ Consistent(row)
       IN  \/ /\ fits
              /\ damage' = [damage EXCEPT ![d].status = "cancelled"]
              /\ stock' = [stock EXCEPT ![damage[d].room] = row]
              /\ Finish(r) /\ UNCHANGED <<entered, acted, check, charge, revived>>
           \/ ~ fits /\ GiveUp(r)

CommitWaive(r) ==
    /\ req[r].do = "waive"
    /\ LET d == req[r].d IN
       \/ /\ damage[d].status \in {"pending", "charged"}
          /\ damage' = [damage EXCEPT ![d].status = "waived"]
          /\ Finish(r) /\ UNCHANGED <<rows, check, charge, revived>>
       \/ damage[d].status \notin {"pending", "charged"} /\ GiveUp(r)

Stands(status) == IF status = "cancelled" THEN 0 ELSE 1

(* A status written without a condition may pass over a cancellation.      *)
Overwrite(d, status) ==
    revived' = [revived EXCEPT ![d] = @ + Stands(status) - Stands(damage[d].status)]

(* unwaiveDamage writes without a condition.                               *)
BeginUnwaive(r) == \E d \in Damages :
    /\ "unwaive" \in ops /\ damage[d].status = "waived"
    /\ Ask(r, [do |-> "unwaive", d |-> d])

CommitUnwaive(r) ==
    /\ req[r].do = "unwaive"
    /\ damage' = [damage EXCEPT ![req[r].d].status = "pending"]
    /\ Overwrite(req[r].d, "pending")
    /\ Finish(r) /\ UNCHANGED <<rows, check, charge>>

(* createCharges writes what is still free of a damage on somebody: it     *)
(* reads the damage and its charges ...                                    *)
BeginCharge(r) == \E d \in Damages, c \in Charges :
    /\ "charge" \in ops
    /\ damage[d].status \in {"pending", "charged"} /\ charge[c] = NoCharge
    /\ \A q \in Requests : req[q].do \in {"charge", "uncharge"} => req[q].c # c
    /\ \E a \in 1..(damage[d].amount - Charged(d)) :
           Ask(r, [do |-> "charge", at |-> "sync", d |-> d, c |-> c,
                   row |-> [status |-> "active", damage |-> d, amount |-> a]])

(* ... cancelCharge closes a charge on which nothing is paid ...           *)
BeginUncharge(r) == \E c \in Charges :
    /\ "cancelCharge" \in ops /\ charge[c].status = "active"
    /\ \A q \in Requests : req[q].do = "uncharge" => req[q].c # c
    /\ Ask(r, [do |-> "uncharge", at |-> "sync", d |-> charge[c].damage, c |-> c,
               row |-> [charge[c] EXCEPT !.status = "cancelled"]])

(* ... and both end with syncChargedAmount, which sums the charges it sees *)
(* (its own and the committed ones), reads the status of the damage ...    *)
Sync(r) ==
    /\ req[r].do \in {"charge", "uncharge"} /\ req[r].at = "sync"
    /\ LET q     == req[r]
           other == MapThenSumSet(LAMBDA c : charge[c].amount, Active(q.d) \ {q.c})
       IN  req' = [req EXCEPT ![r] = [q EXCEPT !.at = "write"] @@
               [sum |-> other + IF q.do = "charge" THEN q.row.amount ELSE 0,
                status |-> damage[q.d].status]]
    /\ UNCHANGED <<ops, rows, check, damage, charge, revived>>

(* ... and writes both, when the damage row is free, and commits.          *)
WriteCharged(r) ==
    /\ req[r].do \in {"charge", "uncharge"} /\ req[r].at = "write"
    /\ LET q      == req[r]
           status == CASE q.status \in {"waived", "cancelled"} -> q.status
                       [] q.sum > 0 -> "charged"
                       [] OTHER -> "pending"
       IN  /\ charge' = [charge EXCEPT ![q.c] = q.row]
           /\ damage' = [damage EXCEPT ![q.d].charged = q.sum, ![q.d].status = status]
           /\ Overwrite(q.d, status)
    /\ Finish(r) /\ UNCHANGED <<rows, check>>

Next ==
    \/ \E l \in Rooms : Change(l) \/ DeleteRow(l) \/ CreateDamage(l)
    \/ \E l, k \in Rooms : Transfer(l, k) \/ MoveRow(l, k)
    \/ OpenCheck
    \/ \E r \in Requests :
       \/ BeginEdit(r) \/ CommitEdit(r) \/ BeginDelete(r) \/ CommitDelete(r)
       \/ BeginSubmit(r) \/ CommitSubmit(r)
       \/ BeginClose(r, "cancelDamage") \/ CommitCancelDamage(r)
       \/ BeginClose(r, "waive") \/ CommitWaive(r) \/ BeginUnwaive(r) \/ CommitUnwaive(r)
       \/ BeginCharge(r) \/ BeginUncharge(r) \/ Sync(r) \/ WriteCharged(r)

Spec == Init /\ [][Next]_vars

-----------------------------------------------------------------------------
TypeOK ==
    /\ \A l \in Rooms : /\ stock[l].there \in BOOLEAN
                        /\ stock[l].broken \in 0..stock[l].quantity
    /\ entered.quantity \in Int /\ entered.broken \in Int /\ acted \subseteq Rooms
    /\ check.status \in {"none", "draft", "submitted"} /\ check.line \in Line
    /\ \A d \in Damages : damage[d].status \in {"none", "pending", "charged", "waived", "cancelled"}
    /\ \A c \in Charges : charge[c].status \in {"none", "active", "cancelled"}

(* The furniture in all rooms is what was entered by hand, less what stood *)
(* damages say is missing, and as much of it is broken as they say: a      *)
(* damage is taken back once however many cancel it, a submission that is  *)
(* refused half way leaves nothing, and nothing is lost between rooms.     *)
(* The one exception is a damage whose status unwaiveDamage or             *)
(* syncChargedAmount wrote over a cancellation, or back to it, without a   *)
(* movement: its units count by what cancelDamage gave back.               *)
StockExplained ==
    LET Counts(d) == Stands(damage[d].status) - revived[d]
        Found(kind) == {d \in Damages : damage[d].status # "none" /\ damage[d].kind = kind}
        Of(kind) == MapThenSumSet(LAMBDA d : Counts(d) * damage[d].n, Found(kind))
        All(field(_)) == MapThenSumSet(LAMBDA l : field(stock[l]), Rooms)
    IN  /\ All(LAMBDA row : row.quantity) = entered.quantity - Of("missing")
        /\ All(LAMBDA row : row.broken) = entered.broken + Of("broken")

(* A sheet is posted once, however many people submit it at the same time. *)
SheetPostedOnce == \A d, e \in Damages :
    (/\ d # e /\ damage[d].status # "none" /\ damage[e].status # "none"
     /\ damage[d].sheet = damage[e].sheet /\ damage[d].kind = damage[e].kind)
    => damage[d].sheet = 0
=============================================================================
