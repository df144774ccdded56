---------------------------- MODULE CashAccounts ----------------------------
(***************************************************************************)
(* The cash accounts of a branch (PaymentAccount) and the documents that   *)
(* move money on them: transfers between two accounts, and the documents   *)
(* of one account (payments, refunds, expenses, salaries, other income).   *)
(*                                                                         *)
(* A request runs one database transaction at READ COMMITTED: a plain read *)
(* sees what is committed, an update waits for the row lock, holds it      *)
(* until the transaction ends and works on the last committed row.  A step *)
(* is one statement of a request, so requests interleave between any two   *)
(* statements.  What a transaction writes is kept in its request until it  *)
(* commits; a rollback forgets it.                                         *)
(***************************************************************************)
EXTENDS PrefixSums

CONSTANTS
    NA,           \* accounts 1..NA, in the order of their ids
    Docs, NoDoc,  \* documents that can ever be written, and none
    Requests,     \* requests that can be served at a time
    Amounts,      \* amounts of documents
    Fees,         \* what a bank keeps of a transfer
    Corrections,  \* signed amounts of adjustBalance
    MaxAdjusted,  \* bound on the sum of the corrections of an account
    Openings      \* opening balances an administrator gives, 0 included

ASSUME AccountsAssumption == NA \in Nat /\ MaxAdjusted \in Nat
ASSUME DocsAssumption == NoDoc \notin Docs /\ IsFiniteSet(Docs)
ASSUME AmountsAssumption ==
    /\ Amounts \subseteq Nat \ {0} /\ Fees \subseteq Nat
    /\ Corrections \subseteq Int \ {0} /\ Openings \subseteq Nat

Accounts == 1..NA
None     == 0

VARIABLES
    opening,   \* account -> column openingBalance
    balance,   \* account -> column balance, as committed
    used,      \* accounts that have entries
    archived,  \* account -> isArchived
    doc,       \* document -> its row
    adjusted,  \* account -> sum of its entries of type adjustment
    req,       \* request -> what it is doing
    erased     \* history: account -> what its entries said when updateAccount wrote
               \* over them, 0 if it had none

vars == <<opening, balance, used, archived, doc, adjusted, req, erased>>

(* A document takes `takes` from account `out` and gives `gives` to account *)
(* `in`; a document of one account has None on the other side.  A draft is *)
(* a row that its transaction has not committed.                           *)
Given == {0} \cup {a - f : a \in Amounts, f \in Fees \cup {0}}
Body == [out : Accounts \cup {None}, takes : Amounts \cup {0},
         in : Accounts \cup {None}, gives : Given]
Row(state, body) == [state |-> state, body |-> body]
NoBody == [out |-> None, takes |-> 0, in |-> None, gives |-> 0]
NoRow == Row("none", NoBody)

IsTransfer(b) == b.out # None /\ b.in # None

Transfers ==
    {b \in Body : IsTransfer(b) /\ b.out # b.in /\ b.takes > 0 /\ b.gives > 0
                  /\ b.takes - b.gives \in Fees}
Singles ==
    {b \in Body : \/ b.out = None /\ b.takes = 0 /\ b.in # None /\ b.gives \in Amounts
                  \/ b.in = None /\ b.gives = 0 /\ b.out # None /\ b.takes > 0}

(* What the document does to account a.                                    *)
Effect(b, a) == (IF b.in = a THEN b.gives ELSE 0) - (IF b.out = a THEN b.takes ELSE 0)

-----------------------------------------------------------------------------
(* The calls of postEntry that write and that void a document.  A transfer *)
(* reads the balance of the account it takes from before it posts to it.   *)
Posting(d, a, delta, check) == [doc |-> d, account |-> a, delta |-> delta, check |-> check]

Writes(d, b) ==
    {Posting(d, b.out, 0 - b.takes, IsTransfer(b)), Posting(d, b.in, b.gives, FALSE)}
Reverses(d, b) ==
    {Posting(d, b.in, 0 - b.gives, IsTransfer(b)), Posting(d, b.out, b.takes, FALSE)}

(* A bug: a posting is made also on the side that has no account.          *)
OnBothSides(P) == P

OnAccounts(P) == {p \in P : p.account # None}

Idle == [at |-> "idle"]

(* at = "cas" before the compare-and-swap on the document to void; `seen`  *)
(* says that the check of the next posting has passed.                     *)
Transaction(at, voids, makes, todo) ==
    [at |-> at, voids |-> voids, makes |-> makes, todo |-> OnAccounts(todo), done |-> {},
     seen |-> FALSE]

InTransaction(r) == req[r].at \in {"cas", "open"}
Holds(r, a) == req[r].at = "open" /\ \E p \in req[r].done : p.account = a
Free(r, a) == \A q \in Requests \ {r} : ~Holds(q, a)

(* A bug: the postings are made in the order in which the code names them. *)
UpcomingAny(r) == req[r].todo

(* inLockOrder: the postings of a transaction, by account.                 *)
Upcoming(r) == {p \in req[r].todo : \A q \in req[r].todo : p.account <= q.account}

(* What the live documents do to account a.                                *)
Live(a) ==
    SumOver([d \in Docs |-> IF doc[d].state = "live" THEN Effect(doc[d].body, a) ELSE 0], Docs)
(* The sum of the entries of account a: its documents and corrections.     *)
Entries(a) == adjusted[a] + Live(a)

-----------------------------------------------------------------------------
(* createAccount writes openingBalance and balance together.               *)
Init ==
    /\ opening \in [Accounts -> Openings \cup {0}]
    /\ balance = opening
    /\ used = {}
    /\ archived = [a \in Accounts |-> FALSE]
    /\ doc = [d \in Docs |-> NoRow]
    /\ adjusted = [a \in Accounts |-> 0]
    /\ req = [r \in Requests |-> Idle]
    /\ erased = [a \in Accounts |-> 0]

Active(b) == \A a \in {b.out, b.in} \ {None} : ~archived[a]

(* createTransfer, createPayment, createExpense, ...                       *)
BeginCreate(r, d, b) ==
    /\ req[r] = Idle
    /\ doc[d].state = "none"
    /\ Active(b)
    /\ doc' = [doc EXCEPT ![d] = Row("draft", b)]
    /\ req' = [req EXCEPT ![r] = Transaction("open", {}, {d}, Writes(d, b))]
    /\ UNCHANGED <<opening, balance, used, archived, adjusted, erased>>

(* voidTransfer, voidPayment, voidExpense, ...                             *)
BeginVoid(r, d) ==
    /\ req[r] = Idle
    /\ doc[d].state = "live"
    /\ req' = [req EXCEPT ![r] = Transaction("cas", {d}, {}, Reverses(d, doc[d].body))]
    /\ UNCHANGED <<opening, balance, used, archived, doc, adjusted, erased>>

(* editExpense, editPayment: document d is voided and e, which moves money *)
(* the same way, is written instead.                                       *)
BeginEdit(r, d, e, b) ==
    /\ req[r] = Idle
    /\ doc[d].state = "live" /\ ~IsTransfer(doc[d].body)
    /\ b.out = None <=> doc[d].body.out = None
    /\ doc[e].state = "none"
    /\ Active(b)
    /\ doc' = [doc EXCEPT ![e] = Row("draft", b)]
    /\ req' = [req EXCEPT ![r] =
                 Transaction("cas", {d}, {e}, Reverses(d, doc[d].body) \cup Writes(e, b))]
    /\ UNCHANGED <<opening, balance, used, archived, adjusted, erased>>

BeginAdjust(r, a, c) ==
    /\ req[r] = Idle
    /\ adjusted[a] + c \in (-MaxAdjusted)..MaxAdjusted
    /\ req' = [req EXCEPT ![r] = Transaction("open", {}, {}, {Posting(NoDoc, a, c, FALSE)})]
    /\ UNCHANGED <<opening, balance, used, archived, doc, adjusted, erased>>

(* A bug: the compare-and-swap does not look at isVoided again.            *)
SwapOnly(r) ==
    /\ req[r].at = "cas"
    /\ \A q \in Requests : req[q].at = "open" => req[q].voids \cap req[r].voids = {}
    /\ req' = [req EXCEPT ![r].at = "open"]
    /\ UNCHANGED <<opening, balance, used, archived, doc, adjusted, erased>>

(* The compare-and-swap on isVoided: it waits for whoever holds the row.   *)
CompareAndSwap(r) ==
    /\ req[r].at = "cas"
    /\ \A q \in Requests : req[q].at = "open" => req[q].voids \cap req[r].voids = {}
    /\ \A d \in req[r].voids : doc[d].state = "live"
    /\ req' = [req EXCEPT ![r].at = "open"]
    /\ UNCHANGED <<opening, balance, used, archived, doc, adjusted, erased>>

(* The plain read of the balance a transfer takes from.                    *)
ReadBalance(r) ==
    /\ req[r].at = "open" /\ ~req[r].seen
    /\ \E p \in Upcoming(r) : p.check /\ balance[p.account] + p.delta >= 0
    /\ req' = [req EXCEPT ![r].seen = TRUE]
    /\ UNCHANGED <<opening, balance, used, archived, doc, adjusted, erased>>

(* postEntry: the increment takes the lock of the account's row.           *)
PostEntry(r) ==
    /\ req[r].at = "open"
    /\ \E p \in Upcoming(r) :
         /\ p.check => req[r].seen
         /\ Free(r, p.account)
         /\ req' = [req EXCEPT ![r].todo = @ \ {p}, ![r].done = @ \cup {p}, ![r].seen = FALSE]
    /\ UNCHANGED <<opening, balance, used, archived, doc, adjusted, erased>>

(* What the postings of P add to account a: for a document, which posts at *)
(* most once to an account, and in all.                                    *)
PostedFor(P, d, a) ==
    LET mine == {p \in P : p.doc = d /\ p.account = a}
    IN  IF mine = {} THEN 0 ELSE (CHOOSE p \in mine : TRUE).delta
Posted(P, a) == PostedFor(P, NoDoc, a) + SumOver([d \in Docs |-> PostedFor(P, d, a)], Docs)

Commit(r) ==
    /\ req[r].at = "open" /\ req[r].todo = {}
    /\ LET done == req[r].done IN
       /\ balance' = [a \in Accounts |-> balance[a] + Posted(done, a)]
       /\ used' = used \cup {p.account : p \in done}
       /\ adjusted' = [a \in Accounts |-> adjusted[a] + PostedFor(done, NoDoc, a)]
    /\ doc' = [d \in Docs |-> IF d \in req[r].makes THEN [doc[d] EXCEPT !.state = "live"]
                              ELSE IF d \in req[r].voids THEN [doc[d] EXCEPT !.state = "voided"]
                              ELSE doc[d]]
    /\ req' = [req EXCEPT ![r] = Idle]
    /\ UNCHANGED <<opening, archived, erased>>

(* A failed check, a lost compare-and-swap, a timeout or a lost connection. *)
Rollback(r) ==
    /\ InTransaction(r)
    /\ doc' = [d \in Docs |-> IF d \in req[r].makes THEN NoRow ELSE doc[d]]
    /\ req' = [req EXCEPT ![r] = Idle]
    /\ UNCHANGED <<opening, balance, used, archived, adjusted, erased>>

(* setAccountArchived reads the balance first and writes later.            *)
BeginArchive(r, a) ==
    /\ req[r] = Idle
    /\ balance[a] = 0
    /\ req' = [req EXCEPT ![r] = [at |-> "archive", account |-> a]]
    /\ UNCHANGED <<opening, balance, used, archived, doc, adjusted, erased>>

Archive(r) ==
    /\ req[r].at = "archive"
    /\ Free(r, req[r].account)
    /\ archived' = [archived EXCEPT ![req[r].account] = TRUE]
    /\ req' = [req EXCEPT ![r] = Idle]
    /\ UNCHANGED <<opening, balance, used, doc, adjusted, erased>>

Unarchive(a) ==
    /\ archived[a]
    /\ \A r \in Requests : ~Holds(r, a)
    /\ archived' = [archived EXCEPT ![a] = FALSE]
    /\ UNCHANGED <<opening, balance, used, doc, adjusted, req, erased>>

(* updateAccount counts the entries of the account, and overwrites opening *)
(* balance and balance in a later statement, whatever was posted since.    *)
BeginOpening(r, a, x) ==
    /\ req[r] = Idle
    /\ a \notin used
    /\ req' = [req EXCEPT ![r] = [at |-> "opening", account |-> a, value |-> x]]
    /\ UNCHANGED <<opening, balance, used, archived, doc, adjusted, erased>>

SetOpening(r) ==
    /\ req[r].at = "opening"
    /\ Free(r, req[r].account)
    /\ opening' = [opening EXCEPT ![req[r].account] = req[r].value]
    /\ balance' = [balance EXCEPT ![req[r].account] = req[r].value]
    /\ erased' = [erased EXCEPT ![req[r].account] =
                    IF req[r].account \in used THEN Entries(req[r].account) ELSE 0]
    /\ req' = [req EXCEPT ![r] = Idle]
    /\ UNCHANGED <<used, archived, doc, adjusted>>

Next ==
    \/ \E r \in Requests :
        \/ \E d \in Docs, b \in Transfers \cup Singles : BeginCreate(r, d, b)
        \/ \E d \in Docs : BeginVoid(r, d)
        \/ \E d, e \in Docs, b \in Singles : BeginEdit(r, d, e, b)
        \/ \E a \in Accounts, c \in Corrections : BeginAdjust(r, a, c)
        \/ \E a \in Accounts : BeginArchive(r, a)
        \/ \E a \in Accounts, x \in Openings : BeginOpening(r, a, x)
        \/ CompareAndSwap(r) \/ ReadBalance(r) \/ PostEntry(r) \/ Commit(r) \/ Rollback(r)
        \/ Archive(r) \/ SetOpening(r)
    \/ \E a \in Accounts : Unarchive(a)

Spec == Init /\ [][Next]_vars

-----------------------------------------------------------------------------
(* Rows and requests keep their shape.                                     *)
Postings == [doc : Docs \cup {NoDoc}, account : Accounts, delta : Int, check : BOOLEAN]
RequestState ==
    {Idle}
    \cup [at : {"cas", "open"}, voids : SUBSET Docs, makes : SUBSET Docs,
          todo : SUBSET Postings, done : SUBSET Postings, seen : BOOLEAN]
    \cup [at : {"archive"}, account : Accounts]
    \cup [at : {"opening"}, account : Accounts, value : Openings]

TypeOK ==
    /\ opening \in [Accounts -> Nat]
    /\ balance \in [Accounts -> Int]
    /\ used \subseteq Accounts
    /\ archived \in [Accounts -> BOOLEAN]
    /\ doc \in [Docs -> [state : {"none", "draft", "live", "voided"}, body : Body]]
    /\ adjusted \in [Accounts -> Int]
    /\ req \in [Requests -> RequestState]
    /\ erased \in [Accounts -> Int]

(* The balance of every account is its opening balance and the sum of what *)
(* the live documents do to it and of the corrections, however creations,  *)
(* voids, edits and changes of the opening balance interleave and fail: no *)
(* posting is lost, doubled, or reversed twice, and a rolled back half of  *)
(* a transfer leaves no trace (financeReconcile, invariant 1).  What is    *)
(* set aside, against the comment of createAccount, is only what           *)
(* updateAccount has written over, when a posting was committed between    *)
(* its count of the entries and its write.                                 *)
BooksBalance ==
    \A a \in Accounts : balance[a] + erased[a] = opening[a] + Entries(a)

Waits(r, q) ==
    \/ req[r].at = "cas" /\ req[q].at = "open" /\ req[r].voids \cap req[q].voids # {}
    \/ req[r].at = "open" /\ \E p \in Upcoming(r) : Holds(q, p.account)
    \/ req[r].at \in {"archive", "opening"} /\ Holds(q, req[r].account)

(* Transfers in opposite directions, edits that move a document to another *)
(* account and voids never wait for one another in a circle.               *)
NoDeadlock ==
    \A S \in (SUBSET Requests) \ {{}} : \E r \in S : \A q \in S \ {r} : ~Waits(r, q)
=============================================================================
