------------------------- MODULE CashAccountsProofs -------------------------
(***************************************************************************)
(* The books of the cash accounts balance in every reachable state of      *)
(* CashAccounts, and its requests never wait in a circle.                  *)
(*                                                                         *)
(* Both rest on what a transaction that runs has done so far: it owns the  *)
(* documents it writes and, from its compare-and-swap on, those it voids;  *)
(* what it has posted and what it has yet to post are together the         *)
(* postings of these documents; it posts in the order of the accounts; and *)
(* no two transactions write the same document, void the same document, or *)
(* hold the same account.                                                  *)
(***************************************************************************)
EXTENDS CashAccounts, PrefixSumsProofs

Tx(q) == q.at \in {"cas", "open"}
TxState == [at : {"cas", "open"}, voids : SUBSET Docs, makes : SUBSET Docs,
            todo : SUBSET Postings, done : SUBSET Postings, seen : BOOLEAN]
Has(q, a) == q.at = "open" /\ \E p \in q.done : p.account = a

(* A document names two sides or one, and moves nothing on no account.     *)
Whole(b) == b.out # b.in /\ (b.out = None => b.takes = 0) /\ (b.in = None => b.gives = 0)
DocsAreWhole == \A d \in Docs : doc[d].state # "none" => Whole(doc[d].body)

(* What a transaction posts for document d, of the rows D.                 *)
PostingsOf(q, D, d) ==
    OnAccounts(IF d \in q.makes THEN Writes(d, D[d].body)
               ELSE IF d \in q.voids THEN Reverses(d, D[d].body) ELSE {})

Owns(q, D) ==
    /\ \A d \in q.makes : D[d].state = "draft"
    /\ \A d \in q.voids : D[d].state = "live" \/ (q.at = "cas" /\ D[d].state = "voided")
    /\ \A d \in Docs : {p \in q.todo \cup q.done : p.doc = d} = PostingsOf(q, D, d)
    /\ q.at = "cas" => q.done = {}
    /\ \A p \in q.done, s \in q.todo : p.account <= s.account

AreApart(x, y) ==
    /\ x.makes \cap y.makes = {}
    /\ x.at = "open" /\ y.at = "open" => x.voids \cap y.voids = {}
    /\ \A a \in Accounts : ~(Has(x, a) /\ Has(y, a))

Owned == \A r \in Requests : Tx(req[r]) => Owns(req[r], doc)
Apart == \A r, q \in Requests : r # q /\ Tx(req[r]) /\ Tx(req[q]) => AreApart(req[r], req[q])

IInv == TypeOK /\ DocsAreWhole /\ Owned /\ Apart

-----------------------------------------------------------------------------
(* The documents that can be entered are whole.                            *)
LEMMA BodiesAreWhole ==
  ASSUME NEW b \in Transfers \cup Singles
  PROVE  b \in Body /\ Whole(b)
<1>1. None \notin Accounts /\ 0 \notin Amounts
  BY AccountsAssumption, AmountsAssumption DEF None, Accounts
<1>2. CASE b \in Transfers
  BY <1>2 DEF Transfers, Whole, IsTransfer
<1>3. CASE b \in Singles
  BY <1>1, <1>3 DEF Singles, Whole
<1> QED BY <1>2, <1>3

(* The fields of a document, and what it does to an account.               *)
LEMMA BodyFields ==
  ASSUME NEW b \in Body
  PROVE  /\ b.out \in Accounts \cup {None} /\ b.in \in Accounts \cup {None}
         /\ b.takes \in Int /\ b.gives \in Int
         /\ \A a \in Accounts : Effect(b, a) \in Int
<1>1. Amounts \subseteq Nat /\ Fees \subseteq Nat
  BY AmountsAssumption
<1>2. b.takes \in Amounts \cup {0} /\ b.gives \in Given
      /\ b.out \in Accounts \cup {None} /\ b.in \in Accounts \cup {None}
  BY DEF Body
<1>3. b.takes \in Int /\ b.gives \in Int
  BY <1>1, <1>2 DEF Given
<1> QED BY <1>2, <1>3 DEF Effect

(* A request whose transaction runs has the fields of a transaction.       *)
LEMMA TxFields ==
  ASSUME NEW q \in RequestState, Tx(q)
  PROVE  q \in TxState
BY DEF RequestState, Tx, TxState, Idle

(* The postings of a document keep their shape.                            *)
LEMMA PostingsTyped ==
  ASSUME NEW d \in Docs, NEW b \in Body
  PROVE  OnAccounts(Writes(d, b)) \subseteq Postings /\ OnAccounts(Reverses(d, b)) \subseteq Postings
<1>1. /\ b.out \in Accounts \cup {None} /\ b.in \in Accounts \cup {None}
      /\ b.takes \in Int /\ b.gives \in Int
  BY BodyFields
<1>2. IsTransfer(b) \in BOOLEAN
  BY DEF IsTransfer
<1>3. ASSUME NEW a \in Accounts \cup {None}, NEW x \in Int, NEW c \in BOOLEAN, a # None
      PROVE  Posting(d, a, x, c) \in Postings
  BY <1>3 DEF Posting, Postings
<1>4. \A a, x, c : Posting(d, a, x, c).account = a
  BY DEF Posting
<1>5. 0 - b.takes \in Int /\ 0 - b.gives \in Int
  BY <1>1
<1>6. ASSUME NEW p \in Writes(d, b) \cup Reverses(d, b), p.account # None
      PROVE  p \in Postings
  <2>1. \E a \in Accounts \cup {None}, x \in Int, c \in BOOLEAN : p = Posting(d, a, x, c)
    BY <1>1, <1>2, <1>5 DEF Writes, Reverses
  <2> QED BY <1>3, <1>4, <1>6, <2>1
<1> QED BY <1>6 DEF OnAccounts

(* A request that begins is a transaction.                                 *)
LEMMA TransactionTyped ==
  ASSUME NEW at \in {"cas", "open"}, NEW voids \in SUBSET Docs, NEW makes \in SUBSET Docs,
         NEW todo, OnAccounts(todo) \subseteq Postings
  PROVE  /\ Transaction(at, voids, makes, todo) \in TxState
         /\ Transaction(at, voids, makes, todo) \in RequestState
BY DEF Transaction, TxState, RequestState

-----------------------------------------------------------------------------
(* A transaction keeps what it owns when its documents stay as they are,   *)
(* or when another transaction voids one before its compare-and-swap.      *)
LEMMA OwnsStable ==
  ASSUME NEW q \in TxState, NEW D, NEW E, Owns(q, D),
         \A d \in q.makes : E[d] = D[d],
         \A d \in q.voids : /\ E[d].body = D[d].body
                            /\ E[d].state = D[d].state \/ (q.at = "cas" /\ E[d].state = "voided")
  PROVE  Owns(q, E)
<1>1. \A d \in Docs : PostingsOf(q, E, d) = PostingsOf(q, D, d)
  BY DEF PostingsOf
<1>2. /\ \A d \in q.makes : E[d].state = "draft"
      /\ \A d \in q.voids : E[d].state = "live" \/ (q.at = "cas" /\ E[d].state = "voided")
  BY DEF Owns
<1> QED BY <1>1, <1>2 DEF Owns

RowsTyped ==
    /\ opening \in [Accounts -> Nat]
    /\ balance \in [Accounts -> Int]
    /\ used \subseteq Accounts
    /\ archived \in [Accounts -> BOOLEAN]
    /\ doc \in [Docs -> [state : {"none", "draft", "live", "voided"}, body : Body]]
    /\ adjusted \in [Accounts -> Int]
    /\ erased \in [Accounts -> Int]

(* A step changes one request: the others keep what they own, and the new  *)
(* state of the request is apart from them.                                *)
LEMMA OneChanges ==
  ASSUME IInv, NEW r \in Requests, NEW x \in RequestState, req' = [req EXCEPT ![r] = x],
         RowsTyped', DocsAreWhole',
         Tx(x) => Owns(x, doc'),
         \A q \in Requests \ {r} : Tx(req[q]) => /\ Owns(req[q], doc')
                                                 /\ Tx(x) => AreApart(x, req[q])
  PROVE  IInv'
<1>1. req \in [Requests -> RequestState]
  BY DEF IInv, TypeOK
<1>2. \A q \in Requests : req'[q] = IF q = r THEN x ELSE req[q]
  BY <1>1
<1>3. TypeOK'
  BY <1>1 DEF TypeOK, RowsTyped
<1>4. Owned'
  BY <1>2 DEF Owned
<1>5. \A q, s \in Requests : AreApart(req[q], req[s]) => AreApart(req[s], req[q])
  BY DEF AreApart
<1>6. ASSUME NEW q \in Requests, NEW s \in Requests, q # s, Tx(req'[q]), Tx(req'[s])
      PROVE  AreApart(req'[q], req'[s])
  <2>1. CASE q = r
    BY <1>2, <1>6, <2>1
  <2>2. CASE s = r
    <3>1. AreApart(req'[s], req'[q])
      BY <1>2, <1>6, <2>2
    <3> QED BY <3>1 DEF AreApart
  <2>3. CASE q # r /\ s # r
    BY <1>2, <1>6, <2>3 DEF IInv, Apart
  <2> QED BY <2>1, <2>2, <2>3
<1>7. Apart'
  BY <1>6 DEF Apart
<1> QED BY <1>3, <1>4, <1>7 DEF IInv

(* The parts of the invariant, as the steps use them.                      *)
LEMMA InvFacts ==
  ASSUME IInv
  PROVE  /\ RowsTyped /\ req \in [Requests -> RequestState]
         /\ \A d \in Docs : /\ doc[d].body \in Body
                            /\ doc[d] = Row(doc[d].state, doc[d].body)
                            /\ doc[d].state # "none" => Whole(doc[d].body)
         /\ \A r \in Requests : Tx(req[r]) => req[r] \in TxState /\ Owns(req[r], doc)
         /\ \A r, q \in Requests : r # q /\ Tx(req[r]) /\ Tx(req[q]) => AreApart(req[r], req[q])
<1>1. RowsTyped /\ req \in [Requests -> RequestState]
  BY DEF IInv, TypeOK, RowsTyped
<1>2. \A d \in Docs : doc[d].body \in Body /\ doc[d] = Row(doc[d].state, doc[d].body)
  BY <1>1 DEF RowsTyped, Row
<1> QED BY <1>1, <1>2, TxFields DEF IInv, DocsAreWhole, Owned, Apart

(* What the rows D do to account a, document by document.                  *)
LiveIn(D, a) == [d \in Docs |-> IF D[d].state = "live" THEN Effect(D[d].body, a) ELSE 0]

(* What the live documents do to an account is a sum of integers.          *)
LEMMA LiveInTyped ==
  ASSUME IInv, NEW a \in Accounts
  PROVE  /\ LiveIn(doc, a) \in [Docs -> Int] /\ Live(a) = SumOver(LiveIn(doc, a), Docs)
         /\ Live(a) \in Int
<1>1. \A d \in Docs : Effect(doc[d].body, a) \in Int
  BY InvFacts, BodyFields
<1>2. LiveIn(doc, a) \in [Docs -> Int] /\ Live(a) = SumOver(LiveIn(doc, a), Docs)
  BY <1>1 DEF LiveIn, Live
<1> QED BY <1>2, SumOverType, DocsAssumption

(* A transaction that begins with the right postings owns its documents.   *)
LEMMA BeginsRight ==
  ASSUME NEW at \in {"cas", "open"}, NEW voids \in SUBSET Docs, NEW makes \in SUBSET Docs,
         NEW todo, NEW D,
         \A d \in makes : D[d].state = "draft", \A d \in voids : D[d].state = "live",
         \A d \in Docs : {p \in todo : p.doc = d} =
            IF d \in makes THEN Writes(d, D[d].body)
            ELSE IF d \in voids THEN Reverses(d, D[d].body) ELSE {}
  PROVE  Owns(Transaction(at, voids, makes, todo), D)
<1> DEFINE q == Transaction(at, voids, makes, todo)
<1>1. /\ q.at = at /\ q.voids = voids /\ q.makes = makes /\ q.done = {}
      /\ q.todo = OnAccounts(todo)
  BY DEF Transaction
<1>2. ASSUME NEW d \in Docs
      PROVE  {p \in q.todo \cup q.done : p.doc = d} = PostingsOf(q, D, d)
  <2>1. {p \in q.todo \cup q.done : p.doc = d} = OnAccounts({p \in todo : p.doc = d})
    BY <1>1 DEF OnAccounts
  <2>2. PostingsOf(q, D, d) = OnAccounts({p \in todo : p.doc = d})
    BY <1>1 DEF PostingsOf
  <2> QED BY <2>1, <2>2
<1> HIDE DEF q
<1>3. Owns(q, D)
  BY <1>1, <1>2 DEF Owns
<1> QED BY <1>3 DEF q

-----------------------------------------------------------------------------
(* createTransfer, createPayment, ...: the draft belongs to the new        *)
(* transaction alone.                                                      *)
LEMMA CreateKeeps ==
  ASSUME IInv, NEW r \in Requests, NEW d \in Docs, NEW b \in Transfers \cup Singles,
         BeginCreate(r, d, b)
  PROVE  IInv'
<1> DEFINE x == Transaction("open", {}, {d}, Writes(d, b))
<1>1. b \in Body /\ Whole(b)
  BY BodiesAreWhole
<1>2. /\ doc[d].state = "none" /\ doc' = [doc EXCEPT ![d] = Row("draft", b)]
      /\ req' = [req EXCEPT ![r] = x]
      /\ UNCHANGED <<opening, balance, used, archived, adjusted, erased>>
  BY DEF BeginCreate
<1>3. RowsTyped' /\ DocsAreWhole'
  BY <1>1, <1>2, InvFacts DEF RowsTyped, DocsAreWhole, Row
<1>4. \A e \in Docs : doc'[e] = IF e = d THEN Row("draft", b) ELSE doc[e]
  BY <1>2, InvFacts DEF RowsTyped
<1>5. x \in RequestState /\ x \in TxState /\ x.done = {} /\ x.makes = {d} /\ x.voids = {}
  BY <1>1, PostingsTyped, TransactionTyped DEF Transaction
<1>6. Owns(x, doc')
  <2>1. \A p \in Writes(d, b) : p.doc = d
    BY DEF Writes, Posting
  <2>2. doc'[d].state = "draft" /\ doc'[d].body = b
    BY <1>4 DEF Row
  <2> QED BY <2>1, <2>2, BeginsRight
<1>7. ASSUME NEW q \in Requests, q # r, Tx(req[q])
      PROVE  Owns(req[q], doc') /\ AreApart(x, req[q])
  <2>1. req[q] \in TxState /\ Owns(req[q], doc)
    BY <1>7, InvFacts
  <2>2. d \notin req[q].makes /\ d \notin req[q].voids
    BY <1>2, <2>1 DEF Owns
  <2>3. req[q].makes \subseteq Docs /\ req[q].voids \subseteq Docs
    BY <2>1 DEF TxState
  <2>4. Owns(req[q], doc')
    BY <1>4, <2>1, <2>2, <2>3, OwnsStable
  <2> HIDE DEF x
  <2>5. AreApart(x, req[q])
    BY <1>5, <2>2 DEF AreApart, Has
  <2> QED BY <2>4, <2>5
<1> HIDE DEF x
<1> QED BY <1>2, <1>3, <1>5, <1>6, <1>7, OneChanges

(* A void names a live document, which it does not own yet.                *)
LEMMA VoidKeeps ==
  ASSUME IInv, NEW r \in Requests, NEW d \in Docs, BeginVoid(r, d)
  PROVE  IInv'
<1> DEFINE x == Transaction("cas", {d}, {}, Reverses(d, doc[d].body))
<1>2. /\ doc[d].state = "live" /\ req' = [req EXCEPT ![r] = x]
      /\ UNCHANGED <<opening, balance, used, archived, doc, adjusted, erased>>
  BY DEF BeginVoid
<1>3. RowsTyped' /\ DocsAreWhole' /\ doc[d].body \in Body
  BY <1>2, InvFacts DEF RowsTyped, DocsAreWhole
<1>5. x \in RequestState /\ x.done = {} /\ x.makes = {} /\ x.voids = {d} /\ x.at = "cas"
  BY <1>3, PostingsTyped, TransactionTyped DEF Transaction
<1>6. Owns(x, doc')
  <2>1. \A p \in Reverses(d, doc[d].body) : p.doc = d
    BY DEF Reverses, Posting
  <2> QED BY <1>2, <2>1, BeginsRight
<1> HIDE DEF x
<1>7. ASSUME NEW q \in Requests, q # r, Tx(req[q])
      PROVE  Owns(req[q], doc') /\ AreApart(x, req[q])
  BY <1>2, <1>5, <1>7, InvFacts DEF AreApart, Has
<1> QED BY <1>2, <1>3, <1>5, <1>6, <1>7, OneChanges

(* An edit voids one document and writes another.                          *)
LEMMA EditKeeps ==
  ASSUME IInv, NEW r \in Requests, NEW d \in Docs, NEW e \in Docs, NEW b \in Singles,
         BeginEdit(r, d, e, b)
  PROVE  IInv'
<1> DEFINE todo == Reverses(d, doc[d].body) \cup Writes(e, b)
           x == Transaction("cas", {d}, {e}, todo)
<1>1. b \in Body /\ Whole(b)
  BY BodiesAreWhole
<1>2. /\ doc[d].state = "live" /\ doc[e].state = "none" /\ d # e
      /\ doc' = [doc EXCEPT ![e] = Row("draft", b)]
      /\ req' = [req EXCEPT ![r] = x]
      /\ UNCHANGED <<opening, balance, used, archived, adjusted, erased>>
  BY DEF BeginEdit
<1>3. RowsTyped' /\ DocsAreWhole' /\ doc[d].body \in Body
  BY <1>1, <1>2, InvFacts DEF RowsTyped, DocsAreWhole, Row
<1>4. \A k \in Docs : doc'[k] = IF k = e THEN Row("draft", b) ELSE doc[k]
  BY <1>2, InvFacts DEF RowsTyped
<1>5. x \in RequestState /\ x.done = {} /\ x.makes = {e} /\ x.voids = {d} /\ x.at = "cas"
  <2>1. OnAccounts(todo) \subseteq Postings
    <3>1. OnAccounts(todo) = OnAccounts(Reverses(d, doc[d].body)) \cup OnAccounts(Writes(e, b))
      BY DEF OnAccounts
    <3> QED BY <1>1, <1>3, <3>1, PostingsTyped
  <2> HIDE DEF todo
  <2> QED BY <2>1, TransactionTyped DEF Transaction
<1>6. Owns(x, doc')
  <2>1. /\ \A p \in Reverses(d, doc[d].body) : p.doc = d
        /\ \A p \in Writes(e, b) : p.doc = e
    BY DEF Reverses, Writes, Posting
  <2>2. PICK D : D = doc'
    OBVIOUS
  <2>3. D[e].state = "draft" /\ D[e].body = b /\ D[d] = doc[d]
    BY <1>2, <1>4, <2>2 DEF Row
  <2>4. \A k \in Docs : {p \in todo : p.doc = k} =
            IF k \in {e} THEN Writes(k, D[k].body)
            ELSE IF k \in {d} THEN Reverses(k, D[k].body) ELSE {}
    BY <1>2, <2>1, <2>3
  <2>5. (\A k \in {e} : D[k].state = "draft") /\ \A k \in {d} : D[k].state = "live"
    BY <1>2, <2>3
  <2> HIDE DEF todo
  <2>6. Owns(x, D)
    BY <2>4, <2>5, BeginsRight
  <2> QED BY <2>2, <2>6
<1>7. ASSUME NEW q \in Requests, q # r, Tx(req[q])
      PROVE  Owns(req[q], doc') /\ AreApart(x, req[q])
  <2>1. req[q] \in TxState /\ Owns(req[q], doc)
    BY <1>7, InvFacts
  <2>2. e \notin req[q].makes /\ e \notin req[q].voids
    BY <1>2, <2>1 DEF Owns
  <2>3. req[q].makes \subseteq Docs /\ req[q].voids \subseteq Docs
    BY <2>1 DEF TxState
  <2>4. Owns(req[q], doc')
    BY <1>4, <2>1, <2>2, <2>3, OwnsStable
  <2> HIDE DEF x
  <2>5. AreApart(x, req[q])
    BY <1>5, <2>2 DEF AreApart, Has
  <2> QED BY <2>4, <2>5
<1> HIDE DEF x
<1> QED BY <1>2, <1>3, <1>5, <1>6, <1>7, OneChanges

(* A correction posts for no document.                                     *)
LEMMA AdjustKeeps ==
  ASSUME IInv, NEW r \in Requests, NEW a \in Accounts, NEW c \in Corrections,
         BeginAdjust(r, a, c)
  PROVE  IInv'
<1> DEFINE todo == {Posting(NoDoc, a, c, FALSE)}
           x == Transaction("open", {}, {}, todo)
<1>2. /\ req' = [req EXCEPT ![r] = x]
      /\ UNCHANGED <<opening, balance, used, archived, doc, adjusted, erased>>
  BY DEF BeginAdjust
<1>3. RowsTyped' /\ DocsAreWhole'
  BY <1>2, InvFacts DEF RowsTyped, DocsAreWhole
<1>4. OnAccounts(todo) \subseteq Postings
  <2>1. c \in Int
    BY AmountsAssumption
  <2>2. Posting(NoDoc, a, c, FALSE) \in Postings
    BY <2>1 DEF Posting, Postings
  <2> QED BY <2>2 DEF OnAccounts
<1>5. x \in RequestState /\ x.done = {} /\ x.makes = {} /\ x.voids = {}
  <2> HIDE DEF todo
  <2> QED BY <1>4, TransactionTyped DEF Transaction
<1>6. Owns(x, doc')
  <2>1. \A k \in Docs : {p \in todo : p.doc = k} = {}
    BY DocsAssumption DEF Posting
  <2> HIDE DEF todo
  <2> QED BY <2>1, BeginsRight
<1> HIDE DEF x
<1>7. ASSUME NEW q \in Requests, q # r, Tx(req[q])
      PROVE  Owns(req[q], doc') /\ AreApart(x, req[q])
  BY <1>2, <1>5, <1>7, InvFacts DEF AreApart, Has
<1> QED BY <1>2, <1>3, <1>5, <1>6, <1>7, OneChanges

-----------------------------------------------------------------------------
(* From the compare-and-swap on, no other open transaction voids the same  *)
(* document.                                                               *)
LEMMA SwapKeeps ==
  ASSUME IInv, NEW r \in Requests, CompareAndSwap(r)
  PROVE  IInv'
<1> DEFINE x == [req[r] EXCEPT !.at = "open"]
<1>1. /\ req[r].at = "cas" /\ req' = [req EXCEPT ![r] = x]
      /\ \A q \in Requests : req[q].at = "open" => req[q].voids \cap req[r].voids = {}
      /\ \A d \in req[r].voids : doc[d].state = "live"
      /\ UNCHANGED <<opening, balance, used, archived, doc, adjusted, erased>>
  BY DEF CompareAndSwap
<1>2. RowsTyped' /\ DocsAreWhole'
  BY <1>1, InvFacts DEF RowsTyped, DocsAreWhole
<1>3. req[r] \in TxState /\ Owns(req[r], doc) /\ Tx(req[r])
  BY <1>1, InvFacts DEF Tx
<1>4. /\ x \in RequestState /\ x.at = "open" /\ x.voids = req[r].voids
      /\ x.makes = req[r].makes /\ x.todo = req[r].todo /\ x.done = {}
  <2>1. req[r].done = {}
    BY <1>1, <1>3 DEF Owns
  <2> QED BY <1>3, <2>1 DEF TxState, RequestState
<1> HIDE DEF x
<1>5. Owns(x, doc')
  <2>1. req[r].done = {}
    BY <1>1, <1>3 DEF Owns
  <2>2. \A d \in Docs : PostingsOf(x, doc', d) = PostingsOf(req[r], doc, d)
    BY <1>1, <1>4 DEF PostingsOf
  <2> QED BY <1>1, <1>3, <1>4, <2>1, <2>2 DEF Owns
<1>6. ASSUME NEW q \in Requests, q # r, Tx(req[q])
      PROVE  Owns(req[q], doc') /\ AreApart(x, req[q])
  <2>1. Owns(req[q], doc) /\ AreApart(req[r], req[q])
    BY <1>3, <1>6, InvFacts
  <2> QED BY <1>1, <1>4, <1>6, <2>1 DEF AreApart, Has
<1> QED BY <1>1, <1>2, <1>4, <1>5, <1>6, OneChanges

(* The plain read of the balance changes only what its request has seen.   *)
LEMMA ReadKeeps ==
  ASSUME IInv, NEW r \in Requests, ReadBalance(r)
  PROVE  IInv'
<1> DEFINE x == [req[r] EXCEPT !.seen = TRUE]
<1>1. /\ req[r].at = "open" /\ req' = [req EXCEPT ![r] = x]
      /\ UNCHANGED <<opening, balance, used, archived, doc, adjusted, erased>>
  BY DEF ReadBalance
<1>2. RowsTyped' /\ DocsAreWhole'
  BY <1>1, InvFacts DEF RowsTyped, DocsAreWhole
<1>3. req[r] \in TxState /\ Owns(req[r], doc) /\ Tx(req[r])
  BY <1>1, InvFacts DEF Tx
<1>4. /\ x \in RequestState /\ x.at = "open" /\ x.voids = req[r].voids
      /\ x.makes = req[r].makes /\ x.todo = req[r].todo /\ x.done = req[r].done
  BY <1>1, <1>3 DEF TxState, RequestState
<1> HIDE DEF x
<1>5. Owns(x, doc')
  <2>1. \A d \in Docs : PostingsOf(x, doc', d) = PostingsOf(req[r], doc, d)
    BY <1>1, <1>4 DEF PostingsOf
  <2> QED BY <1>1, <1>3, <1>4, <2>1 DEF Owns
<1>6. ASSUME NEW q \in Requests, q # r, Tx(req[q])
      PROVE  Owns(req[q], doc') /\ AreApart(x, req[q])
  <2>1. Owns(req[q], doc) /\ AreApart(req[r], req[q])
    BY <1>3, <1>6, InvFacts
  <2> QED BY <1>1, <1>4, <2>1 DEF AreApart, Has
<1> QED BY <1>1, <1>2, <1>4, <1>5, <1>6, OneChanges

(* A posting that is made moves from what is left to what is done.         *)
LEMMA PostingMoves ==
  ASSUME NEW q \in TxState, NEW p \in q.todo
  PROVE  LET x == [q EXCEPT !.todo = @ \ {p}, !.done = @ \cup {p}, !.seen = FALSE]
         IN  /\ x.at = q.at /\ x.voids = q.voids /\ x.makes = q.makes
             /\ x.todo = q.todo \ {p} /\ x.done = q.done \cup {p}
             /\ x \in TxState
<1> DEFINE x == [q EXCEPT !.todo = @ \ {p}, !.done = @ \cup {p}, !.seen = FALSE]
<1>1. /\ x.at = q.at /\ x.voids = q.voids /\ x.makes = q.makes
      /\ x.todo = q.todo \ {p} /\ x.done = q.done \cup {p} /\ x.seen = FALSE
  BY Zenon DEF TxState
<1>2. /\ q.at \in {"cas", "open"} /\ q.voids \in SUBSET Docs /\ q.makes \in SUBSET Docs
      /\ q.todo \in SUBSET Postings /\ q.done \in SUBSET Postings
  BY DEF TxState
<1>3. q.todo \ {p} \in SUBSET Postings /\ q.done \cup {p} \in SUBSET Postings /\ FALSE \in BOOLEAN
  BY <1>2
<1>4. x \in TxState
  BY <1>3 DEF TxState
<1> QED BY <1>1, <1>4 DEF x

(* The row lock keeps the account from the others, and the next posting is *)
(* not on an account before those it holds.                                *)
LEMMA PostKeeps ==
  ASSUME IInv, NEW r \in Requests, PostEntry(r)
  PROVE  IInv'
<1>1. PICK p \in Upcoming(r) :
        /\ req[r].at = "open" /\ Free(r, p.account)
        /\ req' = [req EXCEPT ![r].todo = @ \ {p}, ![r].done = @ \cup {p}, ![r].seen = FALSE]
        /\ UNCHANGED <<opening, balance, used, archived, doc, adjusted, erased>>
  BY DEF PostEntry
<1> DEFINE x == [req[r] EXCEPT !.todo = @ \ {p}, !.done = @ \cup {p}, !.seen = FALSE]
<1>2. RowsTyped' /\ DocsAreWhole'
  BY <1>1, InvFacts DEF RowsTyped, DocsAreWhole
<1>3. req[r] \in TxState /\ Owns(req[r], doc) /\ Tx(req[r])
      /\ req \in [Requests -> RequestState]
  BY <1>1, InvFacts DEF Tx
<1>4. req' = [req EXCEPT ![r] = x]
  BY <1>1, <1>3
<1>5. p \in req[r].todo /\ \A s \in req[r].todo : p.account <= s.account
  BY DEF Upcoming
<1>6. /\ x.at = "open" /\ x.voids = req[r].voids /\ x.makes = req[r].makes
      /\ x.todo = req[r].todo \ {p} /\ x.done = req[r].done \cup {p}
      /\ x \in TxState
  BY <1>1, <1>3, <1>5, PostingMoves
<1> HIDE DEF x
<1>7. x \in RequestState
  BY <1>6 DEF TxState, RequestState
<1>8. Owns(x, doc')
  <2>1. \A d \in Docs : PostingsOf(x, doc', d) = PostingsOf(req[r], doc, d)
    BY <1>1, <1>6 DEF PostingsOf
  <2>2. x.todo \cup x.done = req[r].todo \cup req[r].done
    BY <1>5, <1>6
  <2>3. \A s \in x.done, u \in x.todo : s.account <= u.account
    BY <1>3, <1>5, <1>6 DEF Owns
  <2> QED BY <1>1, <1>3, <1>6, <2>1, <2>2, <2>3 DEF Owns
<1>9. ASSUME NEW q \in Requests, q # r, Tx(req[q])
      PROVE  Owns(req[q], doc') /\ AreApart(x, req[q])
  <2>1. Owns(req[q], doc) /\ AreApart(req[r], req[q])
    BY <1>3, <1>9, InvFacts
  <2>2. ~Has(req[q], p.account)
    BY <1>1, <1>9 DEF Free, Holds, Has
  <2> QED BY <1>1, <1>6, <2>1, <2>2 DEF AreApart, Has
<1> QED BY <1>2, <1>4, <1>7, <1>8, <1>9, OneChanges

-----------------------------------------------------------------------------
(* What postings add to an account is a sum of money.                      *)
LEMMA PostedTyped ==
  ASSUME NEW P, P \subseteq Postings, NEW a
  PROVE  /\ \A d : PostedFor(P, d, a) \in Int
         /\ [d \in Docs |-> PostedFor(P, d, a)] \in [Docs -> Int]
         /\ SumOver([d \in Docs |-> PostedFor(P, d, a)], Docs) \in Int
         /\ Posted(P, a) \in Int
<1>1. ASSUME NEW d PROVE PostedFor(P, d, a) \in Int
  <2> DEFINE mine == {p \in P : p.doc = d /\ p.account = a}
  <2>1. \A p \in mine : p.delta \in Int
    BY DEF Postings
  <2>2. mine # {} => (CHOOSE p \in mine : TRUE) \in mine
    OBVIOUS
  <2> QED BY <2>1, <2>2 DEF PostedFor
<1>2. [d \in Docs |-> PostedFor(P, d, a)] \in [Docs -> Int]
  BY <1>1
<1>3. SumOver([d \in Docs |-> PostedFor(P, d, a)], Docs) \in Int
  BY <1>2, DocsAssumption, SumOverType
<1> QED BY <1>1, <1>2, <1>3 DEF Posted

(* A commit makes its drafts live and voids what it swapped; a rollback    *)
(* frees its drafts.  No other transaction owns these rows.                *)
LEMMA CommitKeeps ==
  ASSUME IInv, NEW r \in Requests, Commit(r)
  PROVE  IInv'
<1> DEFINE done == req[r].done
<1>1. /\ req[r].at = "open" /\ req' = [req EXCEPT ![r] = Idle]
      /\ balance' = [a \in Accounts |-> balance[a] + Posted(done, a)]
      /\ used' = used \cup {p.account : p \in done}
      /\ adjusted' = [a \in Accounts |-> adjusted[a] + PostedFor(done, NoDoc, a)]
      /\ UNCHANGED <<opening, archived, erased>>
  BY DEF Commit
<1>2. doc' = [d \in Docs |-> IF d \in req[r].makes THEN [doc[d] EXCEPT !.state = "live"]
                             ELSE IF d \in req[r].voids THEN [doc[d] EXCEPT !.state = "voided"]
                             ELSE doc[d]]
  BY DEF Commit
<1>3. req[r] \in TxState /\ Owns(req[r], doc) /\ Tx(req[r]) /\ RowsTyped
  BY <1>1, InvFacts DEF Tx
<1>4. done \subseteq Postings
  BY <1>3 DEF TxState
<1>5. ASSUME NEW d \in Docs
      PROVE  /\ doc'[d].body = doc[d].body
             /\ doc'[d].state = IF d \in req[r].makes THEN "live"
                                ELSE IF d \in req[r].voids THEN "voided" ELSE doc[d].state
             /\ doc'[d] \in [state : {"none", "draft", "live", "voided"}, body : Body]
             /\ d \notin req[r].makes /\ d \notin req[r].voids => doc'[d] = doc[d]
  <2>1. doc[d] \in [state : {"none", "draft", "live", "voided"}, body : Body]
    BY <1>3 DEF RowsTyped
  <2> QED BY <1>2, <2>1
<1>6. RowsTyped'
  <2>1. \A a \in Accounts : Posted(done, a) \in Int /\ PostedFor(done, NoDoc, a) \in Int
    BY <1>4, PostedTyped
  <2>2. {p.account : p \in done} \subseteq Accounts
    BY <1>4 DEF Postings
  <2>3. doc' \in [Docs -> [state : {"none", "draft", "live", "voided"}, body : Body]]
    BY <1>2, <1>5
  <2> HIDE DEF done
  <2> QED BY <1>1, <1>3, <2>1, <2>2, <2>3 DEF RowsTyped
<1>7. DocsAreWhole'
  <2>1. ASSUME NEW d \in Docs, doc'[d].state # "none" PROVE doc[d].state # "none"
    BY <1>3, <1>5, <2>1 DEF Owns
  <2> QED BY <1>5, <2>1, InvFacts DEF DocsAreWhole
<1>8. ASSUME NEW q \in Requests, q # r, Tx(req[q])
      PROVE  Owns(req[q], doc')
  <2>1. /\ req[q] \in TxState /\ Owns(req[q], doc) /\ AreApart(req[r], req[q])
        /\ req[q].makes \subseteq Docs /\ req[q].voids \subseteq Docs
    BY <1>3, <1>8, InvFacts DEF TxState
  <2>2. \A d \in req[q].makes : d \notin req[r].makes /\ d \notin req[r].voids
    BY <1>1, <1>3, <2>1 DEF AreApart, Owns
  <2>3. \A d \in req[q].voids : /\ d \notin req[r].makes
                                /\ req[q].at = "open" => d \notin req[r].voids
    BY <1>1, <1>3, <2>1 DEF AreApart, Owns
  <2>4. req[q].at \in {"cas", "open"}
    BY <1>8 DEF Tx
  <2> QED BY <1>5, <2>1, <2>2, <2>3, <2>4, OwnsStable
<1>9. Idle \in RequestState /\ ~Tx(Idle)
  BY DEF Idle, RequestState, Tx
<1> QED BY <1>1, <1>6, <1>7, <1>8, <1>9, OneChanges

(* A rollback gives everything up.                                         *)
LEMMA RollbackKeeps ==
  ASSUME IInv, NEW r \in Requests, Rollback(r)
  PROVE  IInv'
<1>1. /\ Tx(req[r]) /\ req' = [req EXCEPT ![r] = Idle]
      /\ doc' = [d \in Docs |-> IF d \in req[r].makes THEN NoRow ELSE doc[d]]
      /\ UNCHANGED <<opening, balance, used, archived, adjusted, erased>>
  BY DEF Rollback, InTransaction, Tx
<1>2. req[r] \in TxState /\ Owns(req[r], doc) /\ RowsTyped
  BY <1>1, InvFacts
<1>3. NoBody \in Body
  BY DEF NoBody, Body, Given
<1>4. RowsTyped' /\ DocsAreWhole'
  BY <1>1, <1>2, <1>3, InvFacts DEF RowsTyped, DocsAreWhole, NoRow, Row
<1>5. ASSUME NEW q \in Requests, q # r, Tx(req[q])
      PROVE  Owns(req[q], doc')
  <2>1. /\ req[q] \in TxState /\ Owns(req[q], doc) /\ AreApart(req[r], req[q])
        /\ req[q].makes \subseteq Docs /\ req[q].voids \subseteq Docs
    BY <1>1, <1>5, InvFacts DEF TxState
  <2>2. \A d \in req[q].makes \cup req[q].voids : d \notin req[r].makes
    BY <1>2, <2>1 DEF AreApart, Owns
  <2>3. \A d \in req[q].makes \cup req[q].voids : doc'[d] = doc[d]
    BY <1>1, <2>1, <2>2
  <2> QED BY <2>1, <2>3, OwnsStable
<1>6. Idle \in RequestState /\ ~Tx(Idle)
  BY DEF Idle, RequestState, Tx
<1> QED BY <1>1, <1>4, <1>5, <1>6, OneChanges

-----------------------------------------------------------------------------
(* setAccountArchived and updateAccount run no transaction of postings.    *)
LEMMA OutsideKeeps ==
  ASSUME IInv, NEW r \in Requests, NEW x \in RequestState, ~Tx(x),
         req' = [req EXCEPT ![r] = x], doc' = doc, RowsTyped'
  PROVE  IInv'
<1>1. DocsAreWhole'
  BY InvFacts DEF DocsAreWhole
<1>2. \A q \in Requests : Tx(req[q]) => Owns(req[q], doc')
  BY InvFacts
<1> QED BY <1>1, <1>2, OneChanges

(* Archiving and opening balances touch no document.                       *)
LEMMA AccountRowsKeep ==
  ASSUME IInv, NEW r \in Requests,
         \/ \E a \in Accounts : BeginArchive(r, a)
         \/ \E a \in Accounts, x \in Openings : BeginOpening(r, a, x)
         \/ Archive(r) \/ SetOpening(r)
  PROVE  IInv'
<1>1. RowsTyped /\ req[r] \in RequestState
  BY InvFacts
<1>2. Openings \subseteq Nat
  BY AmountsAssumption
<1>3. ASSUME NEW a \in Accounts, BeginArchive(r, a)
      PROVE  IInv'
  <2> DEFINE x == [at |-> "archive", account |-> a]
  <2>1. x \in RequestState /\ ~Tx(x)
    BY DEF RequestState, Tx
  <2>2. req' = [req EXCEPT ![r] = x] /\ doc' = doc /\ RowsTyped'
    BY <1>1, <1>3 DEF BeginArchive, RowsTyped
  <2> HIDE DEF x
  <2> QED BY <2>1, <2>2, OutsideKeeps
<1>4. ASSUME NEW a \in Accounts, NEW v \in Openings, BeginOpening(r, a, v)
      PROVE  IInv'
  <2> DEFINE x == [at |-> "opening", account |-> a, value |-> v]
  <2>1. x \in RequestState /\ ~Tx(x)
    BY DEF RequestState, Tx
  <2>2. req' = [req EXCEPT ![r] = x] /\ doc' = doc /\ RowsTyped'
    BY <1>1, <1>4 DEF BeginOpening, RowsTyped
  <2> HIDE DEF x
  <2> QED BY <2>1, <2>2, OutsideKeeps
<1>5. Idle \in RequestState /\ ~Tx(Idle)
  BY DEF Idle, RequestState, Tx
<1>6. CASE Archive(r)
  <2>1. req' = [req EXCEPT ![r] = Idle] /\ doc' = doc /\ RowsTyped'
    BY <1>1, <1>6 DEF Archive, RowsTyped
  <2> QED BY <1>5, <2>1, OutsideKeeps
<1>7. CASE SetOpening(r)
  <2>1. req[r].at = "opening"
    BY <1>7 DEF SetOpening
  <2>2. req[r] \in [at : {"opening"}, account : Accounts, value : Openings]
    BY <1>1, <2>1 DEF RequestState, Idle
  <2>3. PICK a \in Accounts, v \in Nat : a = req[r].account /\ v = req[r].value
    BY <1>2, <2>2
  <2>4. /\ req' = [req EXCEPT ![r] = Idle] /\ doc' = doc
        /\ opening' = [opening EXCEPT ![a] = v] /\ balance' = [balance EXCEPT ![a] = v]
        /\ erased' = [erased EXCEPT ![a] = IF a \in used THEN Entries(a) ELSE 0]
        /\ UNCHANGED <<used, archived, adjusted>>
    BY <1>7, <2>3 DEF SetOpening
  <2>5. Entries(a) \in Int
    BY <1>1, LiveInTyped DEF Entries, RowsTyped
  <2>6. RowsTyped'
    BY <1>1, <2>3, <2>4, <2>5 DEF RowsTyped
  <2> QED BY <1>5, <2>4, <2>6, OutsideKeeps
<1> QED BY <1>3, <1>4, <1>6, <1>7

(* Every step keeps the invariant ...                                      *)
LEMMA StepKeeps ==
  ASSUME IInv, [Next]_vars
  PROVE  IInv'
<1>1. ASSUME NEW r \in Requests, CompareAndSwap(r) \/ ReadBalance(r) \/ PostEntry(r)
                                 \/ Commit(r) \/ Rollback(r) \/ Archive(r) \/ SetOpening(r)
      PROVE  IInv'
  BY <1>1, SwapKeeps, ReadKeeps, PostKeeps, CommitKeeps, RollbackKeeps, AccountRowsKeep
<1>2. ASSUME NEW a \in Accounts, Unarchive(a)
      PROVE  IInv'
  BY <1>2 DEF Unarchive, IInv, TypeOK, DocsAreWhole, Owned, Apart
<1>3. CASE UNCHANGED vars
  BY <1>3 DEF vars, IInv, TypeOK, DocsAreWhole, Owned, Apart
<1> QED
  BY <1>1, <1>2, <1>3, CreateKeeps, VoidKeeps, EditKeeps, AdjustKeeps, AccountRowsKeep DEF Next

(* ... which holds at the start ...                                        *)
LEMMA InitIsRight ==
  ASSUME Init
  PROVE  IInv
<1>1. NoBody \in Body
  BY DEF NoBody, Body, Given
<1>2. TypeOK
  <2>1. opening \in [Accounts -> Nat] /\ balance \in [Accounts -> Int]
    <3>1. Openings \cup {0} \subseteq Nat /\ Nat \subseteq Int
      BY AmountsAssumption
    <3>2. \A f \in [Accounts -> Openings \cup {0}] : f \in [Accounts -> Nat] /\ f \in [Accounts -> Int]
      BY <3>1
    <3> QED BY <3>2 DEF Init
  <2> QED BY <1>1, <2>1 DEF Init, TypeOK, NoRow, Row, RequestState
<1>3. DocsAreWhole /\ \A r \in Requests : ~Tx(req[r])
  BY DEF Init, DocsAreWhole, NoRow, Row, Idle, Tx
<1> QED BY <1>2, <1>3 DEF IInv, Owned, Apart

(* ... and so always.                                                      *)
LEMMA BooksInduction == Spec => []IInv
BY InitIsRight, StepKeeps, PTL DEF Spec

(* Rows and requests keep their shape.                                     *)
THEOREM BooksAreTyped == Spec => []TypeOK
<1>1. IInv => TypeOK
  BY DEF IInv
<1> QED BY <1>1, BooksInduction, PTL

-----------------------------------------------------------------------------
(* Nobody waits in a circle: of the transactions of a circle, the one that *)
(* holds the last account waits for none of them.                          *)
LEMMA LastHolderRuns ==
  ASSUME IInv, NEW S \in (SUBSET Requests) \ {{}}
  PROVE  \E r \in S : \A q \in S \ {r} : ~Waits(r, q)
<1>1. NA \in Nat
  BY AccountsAssumption
<1> DEFINE H == {a \in Accounts : \E r \in S : Has(req[r], a)}
<1>2. \A r, q \in Requests : req[r].at = "open" /\ req[q].at = "open" /\ r # q
                               => AreApart(req[r], req[q])
  BY InvFacts DEF Tx
<1>3. \A r \in Requests : /\ req[r] \in RequestState
                          /\ req[r].at = "open" => req[r] \in TxState /\ Owns(req[r], doc)
  BY InvFacts DEF Tx
<1>4. ASSUME NEW r \in S, NEW q \in S, Waits(r, q)
      PROVE  /\ req[q].at = "open"
             /\ req[r].at = "cas" \/ \E a \in H : Has(req[q], a)
             /\ req[r].at = "open" => \E p \in Upcoming(r) : p.account \in H /\ Has(req[q], p.account)
  <2>1. \A a : Holds(q, a) <=> Has(req[q], a)
    BY DEF Holds, Has
  <2>2. \A a : Has(req[q], a) => req[q].at = "open" /\ a \in H
    <3>1. ASSUME NEW a, Has(req[q], a) PROVE a \in Accounts
      BY <1>3, <3>1 DEF Has, TxState, Postings
    <3> QED BY <3>1 DEF Has
  <2> QED BY <1>4, <2>1, <2>2 DEF Waits
<1>5. CASE \A r \in S : req[r].at # "open"
  BY <1>4, <1>5
<1>6. CASE (\E r \in S : req[r].at = "open") /\ H = {}
  BY <1>4, <1>6
<1>7. CASE H # {}
  <2>1. H \subseteq 0..NA
    BY DEF Accounts
  <2>2. PICK m \in H : \A a \in H : a <= m
    BY <1>1, <1>7, <2>1, BoundedMax
  <2>3. PICK r \in S : Has(req[r], m)
    BY <2>2
  <2>4. ASSUME NEW q \in S \ {r}, Waits(r, q) PROVE FALSE
    <3>1. req[r].at = "open" /\ req[q].at = "open" /\ r \in Requests /\ q \in Requests
      BY <1>4, <2>3, <2>4 DEF Has
    <3>2. PICK p \in Upcoming(r) : p.account \in H /\ Has(req[q], p.account)
      BY <1>4, <2>4, <3>1
    <3>3. PICK s \in req[r].done : s.account = m
      BY <2>3 DEF Has
    <3>4. p \in req[r].todo /\ m <= p.account
      BY <1>3, <3>1, <3>2, <3>3 DEF Upcoming, Owns
    <3>5. p.account = m
      BY <2>1, <2>2, <3>2, <3>4
    <3> QED BY <1>2, <2>2, <2>3, <2>4, <3>1, <3>2, <3>5 DEF AreApart
  <2> QED BY <2>4
<1> QED BY <1>5, <1>6, <1>7

(* Transfers in opposite directions, edits that move a document to another *)
(* account and voids never wait for one another in a circle, however many  *)
(* requests and accounts there are.                                        *)
THEOREM RequestsNeverDeadlock == Spec => []NoDeadlock
<1>1. IInv => NoDeadlock
  BY LastHolderRuns, Zenon DEF NoDeadlock
<1> QED BY <1>1, BooksInduction, PTL

-----------------------------------------------------------------------------
(* A document posts to account a once, or has no effect on it.             *)
LEMMA OnePosting ==
  ASSUME NEW d, NEW b \in Body, Whole(b), NEW a \in Accounts
  PROVE  /\ LET P == {p \in OnAccounts(Writes(d, b)) : p.account = a}
            IN  (P = {} /\ Effect(b, a) = 0) \/ \E p : P = {p} /\ p.delta = Effect(b, a)
         /\ LET P == {p \in OnAccounts(Reverses(d, b)) : p.account = a}
            IN  (P = {} /\ Effect(b, a) = 0) \/ \E p : P = {p} /\ p.delta = 0 - Effect(b, a)
<1>1. /\ b.takes \in Int /\ b.gives \in Int /\ b.out # b.in
      /\ a # None
  BY BodyFields, AccountsAssumption DEF Whole, None, Accounts
<1>2. \A y, x, c : Posting(d, y, x, c).account = y /\ Posting(d, y, x, c).delta = x
  BY DEF Posting
<1> DEFINE W == {p \in OnAccounts(Writes(d, b)) : p.account = a}
           R == {p \in OnAccounts(Reverses(d, b)) : p.account = a}
           minus(x) == 0 - x
           w1 == Posting(d, b.out, 0 - b.takes, IsTransfer(b))
           w2 == Posting(d, b.in, b.gives, FALSE)
           r1 == Posting(d, b.in, 0 - b.gives, IsTransfer(b))
           r2 == Posting(d, b.out, b.takes, FALSE)
<1>3. W = {p \in {w1, w2} : p.account = a} /\ R = {p \in {r1, r2} : p.account = a}
  BY <1>1 DEF OnAccounts, Writes, Reverses
<1>4. /\ w1.account = b.out /\ w1.delta = 0 - b.takes /\ w2.account = b.in /\ w2.delta = b.gives
      /\ r1.account = b.in /\ r1.delta = 0 - b.gives /\ r2.account = b.out /\ r2.delta = b.takes
  BY DEF Posting
<1> HIDE DEF W, R, w1, w2, r1, r2
<1>5. CASE b.in = a
  <2>1. W = {w2} /\ R = {r1} /\ Effect(b, a) = b.gives
    BY <1>1, <1>3, <1>4, <1>5 DEF Effect
  <2> QED BY <1>4, <2>1 DEF W, R
<1>6. CASE b.out = a
  <2>1. W = {w1} /\ R = {r2} /\ Effect(b, a) = 0 - b.takes
    BY <1>1, <1>3, <1>4, <1>6 DEF Effect
  <2>2. b.takes = 0 - Effect(b, a)
    BY <1>1, <2>1
  <2> QED BY <1>4, <2>1, <2>2 DEF W, R
<1>7. CASE b.in # a /\ b.out # a
  <2>1. W = {} /\ R = {} /\ Effect(b, a) = 0
    BY <1>3, <1>4, <1>7 DEF Effect
  <2> QED BY <2>1 DEF W, R
<1> QED BY <1>5, <1>6, <1>7

(* What a whole transaction posts for a document on account a.             *)
Moves(q, D, d, a) ==
    IF d \in q.makes THEN Effect(D[d].body, a)
    ELSE IF d \in q.voids THEN 0 - Effect(D[d].body, a) ELSE 0

(* A transaction with nothing to do has posted what its documents move.    *)
LEMMA DonePosts ==
  ASSUME IInv, NEW r \in Requests, Tx(req[r]), req[r].todo = {}, NEW a \in Accounts, NEW d \in Docs
  PROVE  PostedFor(req[r].done, d, a) = Moves(req[r], doc, d, a)
<1> DEFINE q == req[r]
           b == doc[d].body
           M == {p \in q.done : p.doc = d /\ p.account = a}
<1>1. q \in TxState /\ Owns(q, doc) /\ b \in Body
  BY InvFacts
<1>2. M = {p \in PostingsOf(q, doc, d) : p.account = a}
  <2>1. {p \in q.todo \cup q.done : p.doc = d} = PostingsOf(q, doc, d)
    BY <1>1 DEF Owns
  <2> QED BY <2>1
<1>3. d \in q.makes \/ d \in q.voids => Whole(b)
  BY <1>1, InvFacts DEF Owns
<1>4. PostedFor(q.done, d, a) = IF M = {} THEN 0 ELSE (CHOOSE p \in M : TRUE).delta
  BY DEF PostedFor
<1> HIDE DEF q, M, b
<1>5. ASSUME NEW v, (M = {} /\ v = 0) \/ (\E p : M = {p} /\ p.delta = v)
      PROVE  PostedFor(q.done, d, a) = v
  BY <1>4, <1>5
<1>6. CASE d \in q.makes
  <2>1. M = {p \in OnAccounts(Writes(d, b)) : p.account = a}
    BY <1>2, <1>6 DEF PostingsOf, b
  <2>2. Moves(q, doc, d, a) = Effect(b, a)
    BY <1>6 DEF Moves, b
  <2>3. (M = {} /\ Effect(b, a) = 0) \/ \E p : M = {p} /\ p.delta = Effect(b, a)
    BY <1>1, <1>3, <1>6, <2>1, OnePosting
  <2>4. PostedFor(q.done, d, a) = Effect(b, a)
    BY <1>5, <2>3
  <2> QED BY <2>2, <2>4 DEF q
<1>7. CASE d \notin q.makes /\ d \in q.voids
  <2>1. M = {p \in OnAccounts(Reverses(d, b)) : p.account = a}
    BY <1>2, <1>7 DEF PostingsOf, b
  <2>2. Moves(q, doc, d, a) = 0 - Effect(b, a)
    BY <1>7 DEF Moves, b
  <2>3. (M = {} /\ Effect(b, a) = 0) \/ \E p : M = {p} /\ p.delta = 0 - Effect(b, a)
    BY <1>1, <1>3, <1>7, <2>1, OnePosting
  <2>4. PostedFor(q.done, d, a) = 0 - Effect(b, a)
    BY <1>5, <2>3
  <2> QED BY <2>2, <2>4 DEF q
<1>8. CASE d \notin q.makes /\ d \notin q.voids
  <2>1. M = {}
    BY <1>2, <1>8 DEF PostingsOf, OnAccounts
  <2> QED BY <1>4, <1>8, <2>1 DEF Moves, q
<1> QED BY <1>6, <1>7, <1>8

-----------------------------------------------------------------------------
(* What a step keeps of account a: its books balance, and an account that  *)
(* has no entries has neither documents nor corrections.  The second part  *)
(* is what makes a write of updateAccount harmless that passes over none.  *)
Balanced(a) == balance[a] + erased[a] = opening[a] + Entries(a)
UnusedIsEmpty(a) ==
    a \notin used => adjusted[a] = 0 /\ \A d \in Docs : LiveIn(doc, a)[d] = 0
Kept(a) == Balanced(a) /\ UnusedIsEmpty(a)

(* An account without documents and corrections has no entries.            *)
LEMMA EmptyIsZero ==
  ASSUME IInv, NEW a \in Accounts, UnusedIsEmpty(a), a \notin used
  PROVE  Entries(a) = 0
<1>1. LiveIn(doc, a) \in [Docs -> Int] /\ Live(a) = SumOver(LiveIn(doc, a), Docs)
  BY LiveInTyped
<1>2. adjusted[a] = 0 /\ \A d \in Docs : LiveIn(doc, a)[d] = 0
  BY DEF UnusedIsEmpty
<1>3. Live(a) = 0
  BY <1>1, <1>2, SumOverZero, DocsAssumption
<1> QED BY <1>2, <1>3 DEF Entries

(* A step that neither commits nor sets an opening balance leaves the rows *)
(* that count, the balances and the corrections as they are.               *)
LEMMA BooksUntouched ==
  ASSUME IInv, NEW a \in Accounts, UNCHANGED <<opening, balance, adjusted, used, erased>>,
         \A d \in Docs : \/ doc'[d] = doc[d]
                         \/ doc[d].state # "live" /\ doc'[d].state # "live",
         Kept(a)
  PROVE  Kept(a)'
<1>1. LiveIn(doc', a) = LiveIn(doc, a)
  BY DEF LiveIn
<1>2. Live(a) = SumOver(LiveIn(doc, a), Docs) /\ Live(a)' = SumOver(LiveIn(doc', a), Docs)
  BY DEF Live, LiveIn
<1>3. Entries(a)' = Entries(a)
  BY <1>1, <1>2 DEF Entries
<1> QED BY <1>1, <1>3 DEF Kept, Balanced, UnusedIsEmpty

(* A commit adds to every balance what its documents now count, and the    *)
(* correction it posts.                                                    *)
LEMMA CommitBalances ==
  ASSUME IInv, NEW r \in Requests, Commit(r), NEW a \in Accounts, Kept(a)
  PROVE  Kept(a)'
<1> DEFINE done == req[r].done
           moved == [d \in Docs |-> PostedFor(done, d, a)]
<1>1. /\ Tx(req[r]) /\ req[r].at = "open" /\ req[r].todo = {}
      /\ opening' = opening /\ erased' = erased /\ used' = used \cup {p.account : p \in done}
      /\ balance' = [b \in Accounts |-> balance[b] + Posted(done, b)]
      /\ adjusted' = [b \in Accounts |-> adjusted[b] + PostedFor(done, NoDoc, b)]
  BY DEF Commit, Tx
<1>2. doc' = [d \in Docs |-> IF d \in req[r].makes THEN [doc[d] EXCEPT !.state = "live"]
                             ELSE IF d \in req[r].voids THEN [doc[d] EXCEPT !.state = "voided"]
                             ELSE doc[d]]
  BY DEF Commit
<1>3. req[r] \in TxState /\ Owns(req[r], doc) /\ RowsTyped
  BY <1>1, InvFacts
<1>4. done \subseteq Postings
  BY <1>3 DEF TxState
<1>5. ASSUME NEW d \in Docs
      PROVE  /\ doc'[d].body = doc[d].body
             /\ doc'[d].state = IF d \in req[r].makes THEN "live"
                                ELSE IF d \in req[r].voids THEN "voided" ELSE doc[d].state
  <2>1. doc[d] \in [state : {"none", "draft", "live", "voided"}, body : Body]
    BY <1>3 DEF RowsTyped
  <2> QED BY <1>2, <2>1
<1>6. moved \in [Docs -> Int] /\ SumOver(moved, Docs) \in Int
      /\ PostedFor(done, NoDoc, a) \in Int
      /\ Posted(done, a) = PostedFor(done, NoDoc, a) + SumOver(moved, Docs)
  BY <1>4, PostedTyped DEF Posted
<1>7. ASSUME NEW d \in Docs
      PROVE  LiveIn(doc', a)[d] = LiveIn(doc, a)[d] + moved[d]
  <2>1. moved[d] = Moves(req[r], doc, d, a)
    BY <1>1, DonePosts
  <2>2. Effect(doc[d].body, a) \in Int
    BY InvFacts, BodyFields
  <2>3. d \in req[r].makes => doc[d].state = "draft"
    BY <1>3 DEF Owns
  <2>4. d \in req[r].voids => doc[d].state = "live"
    BY <1>1, <1>3 DEF Owns
  <2> HIDE DEF moved
  <2> QED BY <1>5, <2>1, <2>2, <2>3, <2>4 DEF LiveIn, Moves
<1>8. /\ LiveIn(doc, a) \in [Docs -> Int] /\ Live(a) \in Int
      /\ Live(a) = SumOver(LiveIn(doc, a), Docs) /\ Live(a)' = SumOver(LiveIn(doc', a), Docs)
  BY LiveInTyped DEF Live, LiveIn
<1> HIDE DEF moved, done
<1>9. LiveIn(doc', a) \in [Docs -> Int]
  <2>1. \A d \in Docs : LiveIn(doc', a)[d] \in Int
    BY <1>6, <1>7, <1>8
  <2> QED BY <2>1 DEF LiveIn
<1>10. Live(a)' = Live(a) + SumOver(moved, Docs)
  BY <1>6, <1>7, <1>8, <1>9, DocsAssumption, SumOverPlus
<1>11. /\ balance'[a] = balance[a] + Posted(done, a)
       /\ adjusted'[a] = adjusted[a] + PostedFor(done, NoDoc, a)
       /\ balance[a] \in Int /\ adjusted[a] \in Int /\ opening[a] \in Int /\ erased[a] \in Int
  BY <1>1, <1>3 DEF RowsTyped
<1>12. Balanced(a)'
  BY <1>1, <1>6, <1>8, <1>10, <1>11 DEF Kept, Balanced, Entries
<1>13. UnusedIsEmpty(a)'
  <2> SUFFICES ASSUME a \notin used'
               PROVE  adjusted'[a] = 0 /\ \A d \in Docs : LiveIn(doc', a)[d] = 0
    BY DEF UnusedIsEmpty
  <2>1. adjusted[a] = 0 /\ \A d \in Docs : LiveIn(doc, a)[d] = 0
    BY <1>1 DEF Kept, UnusedIsEmpty
  <2>2. \A d : PostedFor(done, d, a) = 0
    BY <1>1 DEF PostedFor
  <2>3. \A d \in Docs : moved[d] = 0
    BY <2>2 DEF moved
  <2> QED BY <1>7, <1>11, <2>1, <2>2, <2>3
<1> QED BY <1>12, <1>13 DEF Kept

(* Every step keeps the balance of an account with its documents.          *)
LEMMA StepBalances ==
  ASSUME IInv, [Next]_vars, NEW a \in Accounts, Kept(a)
  PROVE  Kept(a)'
<1> DEFINE Goal == Kept(a)'
           Quiet == /\ UNCHANGED <<opening, balance, adjusted, used, erased>>
                    /\ \A d \in Docs : \/ doc'[d] = doc[d]
                                       \/ doc[d].state # "live" /\ doc'[d].state # "live"
<1>1. Quiet => Goal
  BY BooksUntouched
<1>2. doc \in [Docs -> [state : {"none", "draft", "live", "voided"}, body : Body]]
      /\ opening \in [Accounts -> Nat] /\ balance \in [Accounts -> Int]
      /\ adjusted \in [Accounts -> Int] /\ erased \in [Accounts -> Int]
      /\ req \in [Requests -> RequestState]
  BY InvFacts DEF RowsTyped
<1>3. ASSUME NEW r \in Requests, NEW d \in Docs, NEW b, BeginCreate(r, d, b) PROVE Quiet
  BY <1>2, <1>3 DEF BeginCreate, Row
<1>4. ASSUME NEW r \in Requests, NEW d \in Docs, NEW e \in Docs, NEW b,
             BeginEdit(r, d, e, b) PROVE Quiet
  BY <1>2, <1>4 DEF BeginEdit, Row
<1>5. ASSUME NEW r \in Requests, Rollback(r) PROVE Quiet
  <2>1. Tx(req[r])
    BY <1>5 DEF Rollback, InTransaction, Tx
  <2>2. \A d \in req[r].makes : doc[d].state # "live"
    BY <2>1, InvFacts DEF Owns
  <2> QED BY <1>5, <2>2 DEF Rollback, NoRow, Row
<1>6. ASSUME NEW r \in Requests, Commit(r) PROVE Goal
  BY <1>6, CommitBalances
<1>7. ASSUME NEW r \in Requests, SetOpening(r) PROVE Goal
  <2>1. req[r].at = "opening" /\ req[r] \in RequestState
    BY <1>2, <1>7 DEF SetOpening
  <2>2. req[r] \in [at : {"opening"}, account : Accounts, value : Openings]
    BY <2>1 DEF RequestState, Idle
  <2>3. PICK c \in Accounts, v \in Openings : c = req[r].account /\ v = req[r].value
    BY <2>2
  <2>4. /\ opening' = [opening EXCEPT ![c] = v] /\ balance' = [balance EXCEPT ![c] = v]
        /\ erased' = [erased EXCEPT ![c] = IF c \in used THEN Entries(c) ELSE 0]
        /\ doc' = doc /\ adjusted' = adjusted /\ used' = used
    BY <1>7, <2>3 DEF SetOpening
  <2>5. Entries(a)' = Entries(a) /\ Entries(a) \in Int
    <3>1. Live(a)' = Live(a)
      BY <2>4 DEF Live
    <3> QED BY <1>2, <2>4, <3>1, LiveInTyped DEF Entries
  <2>6. v \in Int
    BY AmountsAssumption
  <2>7. UnusedIsEmpty(a)'
    BY <2>4 DEF Kept, UnusedIsEmpty, LiveIn
  <2>8. a \notin used => Entries(a) = 0
    BY EmptyIsZero DEF Kept
  <2>9. Balanced(a)'
    <3>1. CASE c = a
      <4>1. opening'[a] = v /\ balance'[a] = v /\ erased'[a] = Entries(a)
        BY <1>2, <2>4, <2>8, <3>1
      <4> QED BY <2>5, <2>6, <4>1 DEF Balanced
    <3>2. CASE c # a
      <4>1. opening'[a] = opening[a] /\ balance'[a] = balance[a] /\ erased'[a] = erased[a]
        BY <1>2, <2>4, <3>2
      <4> QED BY <2>5, <4>1 DEF Kept, Balanced
    <3> QED BY <3>1, <3>2
  <2> QED BY <2>7, <2>9 DEF Kept
<1>8. ASSUME NEW r \in Requests,
             \/ \E d \in Docs : BeginVoid(r, d)
             \/ \E b \in Accounts, c \in Corrections : BeginAdjust(r, b, c)
             \/ \E b \in Accounts : BeginArchive(r, b)
             \/ \E b \in Accounts, x \in Openings : BeginOpening(r, b, x)
             \/ CompareAndSwap(r) \/ ReadBalance(r) \/ PostEntry(r) \/ Archive(r)
      PROVE  Quiet
  BY <1>8 DEF BeginVoid, BeginAdjust, BeginArchive, BeginOpening, CompareAndSwap, ReadBalance,
              PostEntry, Archive
<1>9. ASSUME NEW b \in Accounts, Unarchive(b) PROVE Quiet
  BY <1>9 DEF Unarchive
<1>10. ASSUME UNCHANGED vars PROVE Quiet
  BY <1>10 DEF vars
<1> HIDE DEF Goal, Quiet
<1>11. Goal
  BY <1>1, <1>3, <1>4, <1>5, <1>6, <1>7, <1>8, <1>9, <1>10 DEF Next
<1> QED BY <1>11 DEF Goal

(* The balance of every account, whatever its opening balance, is that     *)
(* opening balance and the sum of what the live documents do to it and of  *)
(* the corrections, less only what updateAccount wrote over when a posting *)
(* was committed between its count of the entries and its write: no        *)
(* posting is lost, doubled, or reversed twice.                            *)
THEOREM BooksAlwaysBalance == Spec => []BooksBalance
<1> DEFINE AllKept == \A a \in Accounts : Kept(a)
<1>1. Init => AllKept
  <2> SUFFICES ASSUME Init, NEW a \in Accounts PROVE Kept(a)
    OBVIOUS
  <2>1. IInv
    BY InitIsRight
  <2>2. adjusted[a] = 0 /\ \A d \in Docs : LiveIn(doc, a)[d] = 0
    BY DEF Init, LiveIn, NoRow, Row
  <2>3. UnusedIsEmpty(a) /\ a \notin used
    BY <2>2 DEF UnusedIsEmpty, Init
  <2>4. Entries(a) = 0
    BY <2>1, <2>3, EmptyIsZero
  <2>5. balance[a] = opening[a] /\ erased[a] = 0 /\ opening[a] \in Int
    BY <2>1, InvFacts DEF Init, RowsTyped
  <2> QED BY <2>3, <2>4, <2>5 DEF Kept, Balanced
<1>2. IInv /\ AllKept /\ [Next]_vars => AllKept'
  BY StepBalances
<1>3. AllKept => BooksBalance
  BY DEF BooksBalance, Kept, Balanced
<1> HIDE DEF AllKept
<1>4. QED
  BY BooksInduction, <1>1, <1>2, <1>3, PTL DEF Spec
=============================================================================
