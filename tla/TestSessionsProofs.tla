------------------------- MODULE TestSessionsProofs -------------------------
(***************************************************************************)
(* TestSessions keeps its attempts in order and its scores right, for any  *)
(* number of attempts, questions and handlers, whichever of them die.      *)
(*                                                                         *)
(* No handler runs alone, so the argument is about what each of them knows *)
(* while the others run.  One that closes an attempt or starts the next    *)
(* knows that the attempts before are finished, and that stays so.  One    *)
(* that grades knows a score the answers allow, until an answer overtakes  *)
(* it.  One that writes a result alone knows that its record, the result   *)
(* and the rows of extra points fit together.                              *)
(***************************************************************************)
EXTENDS TestSessions, PrefixSumsProofs, SequenceTheorems

Score == 0..Cardinality(Standard)
Row == [auto : Score, manual : Int, final : Int, graded : BOOLEAN,
        mark : {Unmarked, Gone} \cup Marks, row : Nat]

(* The records of handlers, by their place.                                *)
Following  == {0} \cup Attempts
Creating   == [at : {"create"}, a : Attempts]
Finalising == [at : {"close", "load"}, a : Attempts, to : Finished, n : Following]
Finding    == [at : {"find"}, a : Attempts, n : Following, auto : Score]
Grading    == [at : {"insert", "clear", "rewrite"}, a : Attempts, n : Following,
               auto : Score, plus : Int]
Saving     == [at : {"save"}, a : Attempts, q : Standard, right : BOOLEAN, row : Nat]
Marking    == [at : {"row"}, a : Attempts, e : Nat, m : Marks,
               manual : Int, final : Int, graded : BOOLEAN]
Adding     == [at : {"add", "edit", "drop"}, a : Attempts, e : Extras,
               m : {0} \cup Amounts, manual : Int, final : Int, graded : BOOLEAN]
Totalling  == [at : {"total", "sum"}, a : Attempts, e : Nat, m : Nat,
               manual : Int, final : Int, graded : BOOLEAN]
RequestState == {NoRequest} \cup Creating \cup Finalising \cup Finding \cup Grading
                \cup Saving \cup Marking \cup Adding \cup Totalling

RowsTyped ==
    /\ session \in [Attempts -> {"none", "in_progress"} \cup Finished]
    /\ late \subseteq Attempts /\ overtaken \subseteq Attempts /\ crossed \subseteq Attempts
    /\ answers \in [Attempts -> [Standard -> Seq(BOOLEAN)]]
    /\ extra \in [Attempts -> [Extras -> {0} \cup Amounts]]
    /\ grants \in 0..MaxGrants /\ deaths \in 0..MaxDeaths
    /\ result \in [Attempts -> Row \cup {NoResult}]

Typed == RowsTyped /\ req \in [Handlers -> RequestState]

(* The attempts are 1..k, all but the last of them finished.               *)
Before(n, S) == \A b \in Attempts : b < n => S[b] \in Finished
OrderlyAt(k, S, g) ==
    /\ k <= 1 + g
    /\ \A a \in Attempts : a <= k <=> S[a] # "none"
    /\ Before(k, S)
Orderly == \E k \in 0..NAttempts : OrderlyAt(k, session, grants)

(* What a handler knows of the attempts S and the permissions g, ...       *)
Closing == {"load", "find", "insert", "clear", "rewrite"}
KnowsOrder(q, S, g) ==
    /\ q.at = "create" => q.a <= 1 + g /\ Before(q.a, S)
    /\ q.at = "close" => /\ S[q.a] # "none"
                         /\ q.n <= 1 + g
                         /\ \A b \in Attempts : b < q.n /\ b # q.a => S[b] \in Finished
    /\ q.at \in Closing => S[q.a] \in Finished /\ q.n <= 1 + g /\ Before(q.n, S)

(* ... of the answers A that were in time, unless others came later, ...   *)
ScoresOf(rows) ==
    LET Answered == {q \in Standard : rows[q] # <<>>}
        Surely == {q \in Answered : \A k \in DOMAIN rows[q] : rows[q][k]}
        Maybe == {q \in Answered : \E k \in DOMAIN rows[q] : rows[q][k]}
    IN  Cardinality(Surely)..Cardinality(Maybe)
KnowsScore(q, A, O) ==
    q.at \in Closing \ {"load"} /\ q.a \notin O => q.auto \in ScoresOf(A[q.a])

(* ... and of the results R.                                               *)
KnowsResult(q, R) == q.at \in Writing \ {"insert"} => R[q.a] # NoResult

Known == \A r \in Handlers :
    /\ KnowsOrder(req[r], session, grants)
    /\ KnowsScore(req[r], answers, overtaken)
    /\ KnowsResult(req[r], result)

(* Only a finished attempt has a result, and only a result extra points.   *)
LateAt(a, R, E, S, A, O) ==
    IF R = NoResult THEN \A e \in Extras : E[e] = 0
    ELSE S[a] \in Finished /\ (a \notin O => R.auto \in ScoresOf(A[a]))
ResultsLate == \A a \in Attempts :
    LateAt(a, result[a], extra[a], session, answers, overtaken)

(* The result R and its extra points E call for these totals ...           *)
Counts(R, E, manual, graded, final) ==
    /\ R.mark # Gone /\ manual = (IF R.mark = Unmarked THEN 0 ELSE R.mark)
    /\ graded = (R.mark # Unmarked)
    /\ final = R.auto + manual + Total(E, NExtra)
AddsUp(R, E) == R # NoResult => Counts(R, E, R.manual, R.graded, R.final)

(* ... and the only handler that writes R ends with the right ones.        *)
Fits(q, R, E) ==
    /\ q.at = "insert" => R = NoResult
    /\ q.at \in {"clear", "rewrite"} => q.plus = Total(E, NExtra)
    /\ q.at = "row" => /\ R.row = q.e /\ R.mark # Gone
                       /\ q.manual = q.m /\ q.graded = TRUE
                       /\ q.final = R.auto + q.m + Total(E, NExtra)
    /\ q.at \in {"add", "edit", "drop", "sum"} => R.manual = q.manual
    /\ q.at \in {"add", "edit", "drop"} =>
         /\ q.at # "add" => E[q.e] # 0
         /\ Counts(R, E, q.manual, q.graded, q.final + E[q.e] - q.m)
    /\ q.at \in {"total", "sum"} => Counts(R, E, q.manual, q.graded, q.final)

ScoredAt(a) ==
    /\ \A r, s \in Writers(a) : r = s
    /\ \A r \in Writers(a) : Fits(req[r], result[a], extra[a])
    /\ Writers(a) = {} => AddsUp(result[a], extra[a])
Scored == \A a \in Attempts \ crossed : ScoredAt(a)

IInv == Typed /\ Orderly /\ Known /\ ResultsLate /\ Scored

-----------------------------------------------------------------------------
(* A handler's place tells its record.                                     *)
LEMMA Places ==
  ASSUME NEW q \in RequestState
  PROVE  /\ q.at = "idle" => q = NoRequest
         /\ q.at = "create" => q \in Creating
         /\ q.at \in {"close", "load"} => q \in Finalising
         /\ q.at = "find" => q \in Finding
         /\ q.at \in {"insert", "clear", "rewrite"} => q \in Grading
         /\ q.at = "save" => q \in Saving
         /\ q.at = "row" => q \in Marking
         /\ q.at \in {"add", "edit", "drop"} => q \in Adding
         /\ q.at \in {"total", "sum"} => q \in Totalling
         /\ q # NoRequest => q.a \in Attempts /\ q.at # "idle"
BY DEF RequestState, NoRequest, Creating, Finalising, Finding, Grading, Saving, Marking,
       Adding, Totalling

(* A writer is at work on an attempt.                                      *)
LEMMA WriterPlace ==
  ASSUME NEW q \in RequestState, q.at \in Writing
  PROVE  q # NoRequest /\ q.a \in Attempts
<1>1. q # NoRequest
  BY DEF NoRequest, Writing
<1> QED BY <1>1, Places

(* The definitions of the model with their state as parameters.            *)
LEMMA Unfolded ==
  /\ \A a : Scores(a) = ScoresOf(answers[a])
  /\ \A a : Plus(a) = Total(extra[a], NExtra)
  /\ \A a : (Scores(a))' = ScoresOf(answers'[a])
  /\ \A a : (Plus(a))' = Total(extra'[a], NExtra)
BY DEF Scores, ScoresOf, Plus

(* Scores are between nothing and everything right.                        *)
LEMMA ScoresBounded ==
  ASSUME NEW rows
  PROVE  ScoresOf(rows) \subseteq Score
<1> DEFINE Answered == {q \in Standard : rows[q] # <<>>}
           Surely == {q \in Answered : \A k \in DOMAIN rows[q] : rows[q][k]}
           Maybe == {q \in Answered : \E k \in DOMAIN rows[q] : rows[q][k]}
<1>1. IsFiniteSet(Standard) /\ Surely \subseteq Standard /\ Maybe \subseteq Standard
  BY TestSessionsAssumption
<1>2. ScoresOf(rows) = Cardinality(Surely)..Cardinality(Maybe)
  BY DEF ScoresOf
<1> HIDE DEF Surely, Maybe
<1>3. Cardinality(Surely) \in Nat /\ Cardinality(Maybe) \in Nat
      /\ Cardinality(Standard) \in Nat /\ Cardinality(Maybe) <= Cardinality(Standard)
  BY <1>1, FS_Subset, FS_CardinalityType
<1> QED BY <1>2, <1>3 DEF Score

(* The sum of extra points is an integer, ...                              *)
LEMMA PlusTyped ==
  ASSUME NEW E \in [Extras -> {0} \cup Amounts]
  PROVE  /\ NExtra \in Nat /\ E \in [1..NExtra -> Int] /\ Total(E, NExtra) \in Int
<1>1. NExtra \in Nat /\ {0} \cup Amounts \subseteq Int
  BY TestSessionsAssumption
<1>2. E \in [1..NExtra -> Int]
  BY <1>1 DEF Extras
<1> QED BY <1>1, <1>2, CumType

(* ... made of naturals, ...                                               *)
LEMMA AmountsAreNat ==
  /\ {0} \cup Amounts \subseteq Nat
  /\ \A E \in [Extras -> {0} \cup Amounts] : \A e \in Extras : E[e] \in Nat
<1>1. {0} \cup Amounts \subseteq Nat
  BY TestSessionsAssumption
<1> QED BY <1>1

(* ... 0 where there are none, ...                                         *)
LEMMA PlusZero ==
  ASSUME NEW E, \A e \in Extras : E[e] = 0
  PROVE  Total(E, NExtra) = 0
BY TotalZero, TestSessionsAssumption DEF Extras

(* ... and follows a row that changes.                                     *)
LEMMA PlusBump ==
  ASSUME NEW E \in [Extras -> {0} \cup Amounts], NEW e \in Extras,
         NEW m \in {0} \cup Amounts, NEW F, F = [E EXCEPT ![e] = m]
  PROVE  /\ F \in [Extras -> {0} \cup Amounts]
         /\ Total(F, NExtra) = Total(E, NExtra) - E[e] + m
<1>1. \A n \in Extras : F[n] = IF n = e THEN m ELSE E[n]
  OBVIOUS
<1>2. F \in [Extras -> {0} \cup Amounts]
  OBVIOUS
<1>3. ASSUME NEW G, \A n \in Extras : G[n] = IF n = e THEN m ELSE E[n]
      PROVE  Total(G, NExtra) = Total(E, NExtra) - E[e] + m
  <2>1. NExtra \in Nat /\ E \in [1..NExtra -> Int] /\ Total(E, NExtra) \in Int
    BY PlusTyped
  <2>2. m \in Int /\ E[e] \in Int /\ e \in 1..NExtra
    BY <2>1, TestSessionsAssumption DEF Extras
  <2>3. PICK d \in Int : d = m - E[e]
    BY <2>2
  <2>4. \A n \in 1..NExtra : G[n] = IF n = e THEN E[n] + d ELSE E[n]
    <3>1. E[e] + d = m
      BY <2>2, <2>3
    <3> QED BY <1>3, <3>1, Zenon DEF Extras
  <2>5. Total(G, NExtra) = Total(E, NExtra) + d
    <3>1. NExtra \in Nat /\ E \in [1..NExtra -> Int] /\ e \in 1..NExtra
      BY <2>1, <2>2
    <3> QED BY <2>4, <3>1, TotalBump
  <2> QED BY <2>1, <2>2, <2>3, <2>5
<1> QED BY <1>1, <1>2, <1>3, Zenon

-----------------------------------------------------------------------------
(* What a handler knows stays true: what is finished stays finished, what  *)
(* is there stays, and answers change only in time or visibly late.        *)
Grows ==
    /\ \A a \in Attempts : /\ session[a] \in Finished => session'[a] \in Finished
                           /\ session[a] # "none" => session'[a] # "none"
                           /\ result[a] # NoResult => result'[a] # NoResult
                           /\ \/ answers'[a] = answers[a] \/ session[a] \notin Finished
                              \/ a \in overtaken'
    /\ grants' >= grants /\ overtaken \subseteq overtaken'

(* The order of attempts that a handler knows of stays.                    *)
LEMMA OrderStillKnown ==
  ASSUME NEW q \in RequestState, NEW S, NEW T, NEW g \in Nat, NEW h \in Nat, g <= h,
         \A a \in Attempts : /\ S[a] \in Finished => T[a] \in Finished
                             /\ S[a] # "none" => T[a] # "none",
         KnowsOrder(q, S, g)
  PROVE  KnowsOrder(q, T, h)
<1>1. ASSUME NEW n \in Nat, n <= 1 + g PROVE n <= 1 + h
  BY <1>1
<1>2. ASSUME NEW n, Before(n, S) PROVE Before(n, T)
  BY <1>2 DEF Before
<1>3. Attempts \subseteq Nat /\ Following \subseteq Nat
  BY DEF Attempts, Following
<1>4. CASE q.at = "create"
  <2>1. q.a \in Nat /\ q.a <= 1 + g /\ Before(q.a, S)
    BY <1>3, <1>4, Places DEF Creating, KnowsOrder
  <2>2. q.a <= 1 + h /\ Before(q.a, T)
    BY <1>1, <1>2, <2>1
  <2> QED BY <1>4, <2>2 DEF KnowsOrder, Closing
<1>5. CASE q.at = "close"
  <2>1. q.a \in Attempts /\ q.n \in Nat
    BY <1>3, <1>5, Places DEF Finalising
  <2>2. q.n <= 1 + g /\ S[q.a] # "none"
    BY <1>5 DEF KnowsOrder
  <2>3. \A b \in Attempts : b < q.n /\ b # q.a => T[b] \in Finished
    BY <1>5 DEF KnowsOrder
  <2>4. q.n <= 1 + h /\ T[q.a] # "none"
    BY <1>1, <2>1, <2>2
  <2> QED BY <1>5, <2>3, <2>4 DEF KnowsOrder, Closing
<1>6. CASE q.at \in Closing
  <2>1. q.a \in Attempts /\ q.n \in Nat
    BY <1>3, <1>6, Places DEF Finalising, Finding, Grading, Closing
  <2>2. q.n <= 1 + g /\ S[q.a] \in Finished /\ Before(q.n, S)
    BY <1>6 DEF KnowsOrder
  <2>3. q.n <= 1 + h /\ T[q.a] \in Finished /\ Before(q.n, T)
    BY <1>1, <1>2, <2>1, <2>2
  <2> QED BY <1>6, <2>3 DEF KnowsOrder, Closing
<1> QED BY <1>4, <1>5, <1>6 DEF KnowsOrder

(* What a handler knows outlives the steps of the others.                  *)
LEMMA StillKnown ==
  ASSUME Typed, RowsTyped', Grows, NEW q \in RequestState,
         KnowsOrder(q, session, grants), KnowsScore(q, answers, overtaken),
         KnowsResult(q, result)
  PROVE  /\ KnowsOrder(q, session', grants') /\ KnowsScore(q, answers', overtaken')
         /\ KnowsResult(q, result')
<1>1. KnowsOrder(q, session', grants')
  <2>1. PICK S, T, g, h : S = session /\ T = session' /\ g = grants /\ h = grants'
    OBVIOUS
  <2>2. g \in Nat /\ h \in Nat /\ g <= h
    BY <2>1 DEF Typed, RowsTyped, Grows
  <2>3. \A a \in Attempts : /\ S[a] \in Finished => T[a] \in Finished
                            /\ S[a] # "none" => T[a] # "none"
    BY <2>1 DEF Grows
  <2>4. KnowsOrder(q, T, h)
    BY <2>1, <2>2, <2>3, OrderStillKnown
  <2> QED BY <2>1, <2>4
<1>2. KnowsScore(q, answers', overtaken')
  <2> SUFFICES ASSUME q.at \in Closing \ {"load"}, q.a \notin overtaken'
               PROVE  q.auto \in ScoresOf(answers'[q.a])
    BY DEF KnowsScore
  <2>1. q.a \in Attempts
    BY Places DEF Finding, Grading, Closing
  <2>2. session[q.a] \in Finished
    BY DEF KnowsOrder
  <2>3. answers'[q.a] = answers[q.a] /\ q.a \notin overtaken
    BY <2>1, <2>2 DEF Grows
  <2> QED BY <2>3 DEF KnowsScore
<1>3. KnowsResult(q, result')
  <2> SUFFICES ASSUME q.at \in Writing \ {"insert"} PROVE result'[q.a] # NoResult
    BY DEF KnowsResult
  <2>1. q.a \in Attempts
    BY WriterPlace
  <2> QED BY <2>1 DEF KnowsResult, Grows
<1> QED BY <1>1, <1>2, <1>3

-----------------------------------------------------------------------------
(* A step of one handler keeps the invariant when what it writes is right  *)
(* and its new record knows what it must.                                  *)
LEMMA TurnKeeps ==
  ASSUME IInv, NEW r \in Handlers, NEW x \in RequestState, req' = [req EXCEPT ![r] = x],
         RowsTyped', Grows, Orderly', ResultsLate', Scored',
         KnowsOrder(x, session', grants'), KnowsScore(x, answers', overtaken'),
         KnowsResult(x, result')
  PROVE  IInv'
<1>1. req \in [Handlers -> RequestState] /\ req' \in [Handlers -> RequestState] /\ Typed
  BY DEF IInv, Typed
<1>2. ASSUME NEW s \in Handlers
      PROVE  /\ KnowsOrder(req'[s], session', grants')
             /\ KnowsScore(req'[s], answers', overtaken')
             /\ KnowsResult(req'[s], result')
  <2>1. CASE s = r
    <3>1. req'[s] = x
      BY <1>1, <2>1
    <3> QED BY <3>1
  <2>2. CASE s # r
    <3>1. req'[s] = req[s] /\ req[s] \in RequestState
      BY <1>1, <2>2
    <3>2. /\ KnowsOrder(req[s], session, grants) /\ KnowsScore(req[s], answers, overtaken)
          /\ KnowsResult(req[s], result)
      BY DEF IInv, Known
    <3>3. PICK q \in RequestState : q = req[s]
      BY <3>1
    <3>4. /\ KnowsOrder(q, session', grants') /\ KnowsScore(q, answers', overtaken')
          /\ KnowsResult(q, result')
      BY <1>1, <3>2, <3>3, StillKnown
    <3> QED BY <3>1, <3>3, <3>4
  <2> QED BY <2>1, <2>2
<1>3. Known'
  BY <1>2 DEF Known
<1>4. Typed'
  BY <1>1 DEF Typed
<1> QED BY <1>3, <1>4 DEF IInv

(* Only the handler of the step starts or ends to write.                   *)
LEMMA WritersAfter ==
  ASSUME req \in [Handlers -> RequestState], NEW r \in Handlers, NEW x,
         req' = [req EXCEPT ![r] = x], NEW a
  PROVE  \A s \in Handlers : s \in Writers(a)' <=>
            IF s = r THEN x.at \in Writing /\ x.a = a ELSE s \in Writers(a)
BY DEF Writers

(* An attempt that neither the step nor its handler is about stays right.  *)
LEMMA ScoredElsewhere ==
  ASSUME req \in [Handlers -> RequestState], NEW r \in Handlers, NEW x,
         req' = [req EXCEPT ![r] = x], NEW b, ScoredAt(b),
         result'[b] = result[b], extra'[b] = extra[b],
         r \notin Writers(b), x.at \in Writing => x.a # b
  PROVE  ScoredAt(b)'
<1>1. \A s \in Handlers : s \in Writers(b)' <=> s \in Writers(b)
  BY WritersAfter
<1>2. Writers(b)' = Writers(b) /\ Writers(b) \subseteq Handlers
  BY <1>1 DEF Writers
<1>3. \A s \in Writers(b) : req'[s] = req[s]
  BY <1>2
<1> QED BY <1>2, <1>3 DEF ScoredAt

(* A step that leaves the results alone, of a handler that writes none.    *)
LEMMA QuietScored ==
  ASSUME IInv, NEW r \in Handlers, NEW x, req' = [req EXCEPT ![r] = x],
         req[r].at \notin Writing, x.at \notin Writing,
         UNCHANGED <<result, extra, crossed>>
  PROVE  Scored'
<1>1. req \in [Handlers -> RequestState]
  BY DEF IInv, Typed
<1>2. ASSUME NEW b \in Attempts \ crossed' PROVE ScoredAt(b)'
  <2>1. ScoredAt(b) /\ r \notin Writers(b)
    BY DEF IInv, Scored, Writers
  <2> QED BY <1>1, <2>1, ScoredElsewhere
<1> QED BY <1>2 DEF Scored

(* A handler begins to write, alone or noticed.                            *)
LEMMA BeginScored ==
  ASSUME IInv, NEW r \in Handlers, NEW x \in RequestState, req' = [req EXCEPT ![r] = x],
         req[r].at \notin Writing, x.at \in Writing,
         NEW a \in Attempts, x.a = a, Cross(a), UNCHANGED <<result, extra>>,
         AddsUp(result[a], extra[a]) => Fits(x, result[a], extra[a])
  PROVE  Scored'
<1>1. req \in [Handlers -> RequestState]
  BY DEF IInv, Typed
<1>2. ASSUME NEW b \in Attempts \ crossed' PROVE ScoredAt(b)'
  <2>1. ScoredAt(b) /\ r \notin Writers(b) /\ (b = a => Writers(b) = {})
    BY DEF IInv, Scored, Writers, Cross
  <2>2. CASE b # a
    BY <1>1, <2>1, <2>2, ScoredElsewhere
  <2>3. CASE b = a
    <3>1. \A s \in Handlers : s \in Writers(a)' <=> s = r
      BY <1>1, <2>1, <2>3, WritersAfter
    <3>2. Writers(a)' = {r}
      BY <3>1 DEF Writers
    <3>3. Fits(x, result[a], extra[a]) /\ req'[r] = x
      BY <1>1, <2>1, <2>3 DEF ScoredAt
    <3> QED BY <2>3, <3>2, <3>3 DEF ScoredAt
  <2> QED BY <2>2, <2>3
<1> QED BY <1>2 DEF Scored

(* A handler that writes writes on, or ends with totals that are right.    *)
LEMMA WriterScored ==
  ASSUME IInv, NEW r \in Handlers, NEW x \in RequestState, req' = [req EXCEPT ![r] = x],
         req[r].at \in Writing, NEW a \in Attempts, req[r].a = a,
         x.at \in Writing => x.a = a, crossed' = crossed, NEW R, NEW E,
         result' = [result EXCEPT ![a] = R], extra' = [extra EXCEPT ![a] = E],
         Fits(req[r], result[a], extra[a]) =>
            IF x.at \in Writing THEN Fits(x, R, E) ELSE AddsUp(R, E)
  PROVE  Scored'
<1>0. req \in [Handlers -> RequestState]
  BY DEF IInv, Typed
<1>1. /\ result'[a] = R /\ extra'[a] = E
      /\ \A b \in Attempts : b # a => result'[b] = result[b] /\ extra'[b] = extra[b]
  BY DEF IInv, Typed, RowsTyped
<1>2. ASSUME NEW b \in Attempts \ crossed' PROVE ScoredAt(b)'
  <2>1. ScoredAt(b) /\ r \in Writers(a) /\ (b # a => r \notin Writers(b))
    BY DEF IInv, Scored, Writers
  <2>2. CASE b # a
    BY <1>0, <1>1, <2>1, <2>2, ScoredElsewhere
  <2>3. CASE b = a
    <3>1. Fits(req[r], result[a], extra[a]) /\ \A s \in Writers(a) : s = r
      BY <2>1, <2>3 DEF ScoredAt
    <3>2. \A s \in Handlers : s \in Writers(a)' <=>
                 IF s = r THEN x.at \in Writing /\ x.a = a ELSE s \in Writers(a)
      BY ONLY <1>0, req' = [req EXCEPT ![r] = x], WritersAfter
    <3>3. req'[r] = x
      BY <1>0
    <3>4. Writers(a)' \subseteq Handlers
      BY DEF Writers
    <3>5. CASE x.at \in Writing
      <4>1. \A s \in Handlers : s \in Writers(a)' <=> s = r
        BY <3>1, <3>2, <3>5
      <4>2. Writers(a)' = {r} /\ Fits(x, R, E)
        BY <3>1, <3>4, <3>5, <4>1
      <4> QED BY <1>1, <2>3, <3>3, <4>2 DEF ScoredAt
    <3>6. CASE x.at \notin Writing
      <4>1. \A s \in Handlers : s \notin Writers(a)'
        BY <3>1, <3>2, <3>6
      <4>2. Writers(a)' = {} /\ AddsUp(R, E)
        BY <3>1, <3>4, <3>6, <4>1
      <4> QED BY <1>1, <2>3, <4>2 DEF ScoredAt
    <3> QED BY <3>5, <3>6
  <2> QED BY <2>2, <2>3
<1> QED BY <1>2 DEF Scored

-----------------------------------------------------------------------------
(* What Grows asks for of steps that change no attempt.                    *)
LEMMA NothingLost ==
  ASSUME IInv, UNCHANGED <<session, answers, grants, overtaken>>,
         \A a \in Attempts : result[a] # NoResult => result'[a] # NoResult
  PROVE  Grows /\ Orderly'
<1>1. grants \in Nat
  BY DEF IInv, Typed, RowsTyped
<1>2. PICK g \in Nat : g = grants
  BY <1>1
<1>3. g >= g
  OBVIOUS
<1>4. grants' >= grants
  BY <1>2, <1>3
<1>5. Grows
  BY <1>4 DEF Grows
<1>6. Orderly'
  BY DEF IInv, Orderly
<1> QED BY <1>5, <1>6

(* A handler that writes no result reads, decides, or is done.             *)
LEMMA QuietTurn ==
  ASSUME IInv, NEW r \in Handlers, NEW x \in RequestState, req' = [req EXCEPT ![r] = x],
         req[r].at \notin Writing, x.at \notin Writing,
         UNCHANGED <<session, late, answers, result, extra, grants, history>>,
         KnowsOrder(x, session, grants), KnowsScore(x, answers, overtaken)
  PROVE  IInv'
<1>1. Scored'
  BY QuietScored DEF history
<1>2. RowsTyped' /\ ResultsLate'
  BY DEF IInv, Typed, RowsTyped, ResultsLate, LateAt, history
<1>3. Grows /\ Orderly'
  BY NothingLost DEF history
<1>4. KnowsResult(x, result')
  BY DEF KnowsResult
<1>5. KnowsOrder(x, session', grants') /\ KnowsScore(x, answers', overtaken')
  BY DEF history
<1> QED BY <1>1, <1>2, <1>3, <1>4, <1>5, TurnKeeps

(* A handler begins to write the result of a.                              *)
LEMMA BeginTurn ==
  ASSUME IInv, NEW r \in Handlers, NEW x \in RequestState, req' = [req EXCEPT ![r] = x],
         req[r].at \notin Writing, x.at \in Writing,
         NEW a \in Attempts, x.a = a, Cross(a),
         UNCHANGED <<session, late, answers, result, extra, grants, overtaken, deaths>>,
         AddsUp(result[a], extra[a]) => Fits(x, result[a], extra[a]),
         KnowsOrder(x, session, grants), KnowsScore(x, answers, overtaken),
         KnowsResult(x, result)
  PROVE  IInv'
<1>1. Scored'
  BY BeginScored
<1>2. RowsTyped' /\ ResultsLate'
  <2>1. crossed' \subseteq Attempts
    BY DEF IInv, Typed, RowsTyped, Cross
  <2> QED BY <2>1 DEF IInv, Typed, RowsTyped, ResultsLate, LateAt
<1>3. Grows /\ Orderly'
  BY NothingLost
<1>4. /\ KnowsOrder(x, session', grants') /\ KnowsScore(x, answers', overtaken')
      /\ KnowsResult(x, result')
  OBVIOUS
<1> QED BY <1>1, <1>2, <1>3, <1>4, TurnKeeps

(* A handler writes the result of a and its extra points.                  *)
LEMMA WriterTurn ==
  ASSUME IInv, NEW r \in Handlers, NEW x \in RequestState, req' = [req EXCEPT ![r] = x],
         req[r].at \in Writing, NEW a \in Attempts, req[r].a = a,
         x.at \in Writing => x.a = a,
         UNCHANGED <<session, late, answers, grants, history>>,
         NEW R \in Row \cup {NoResult}, NEW E \in [Extras -> {0} \cup Amounts],
         result' = [result EXCEPT ![a] = R], extra' = [extra EXCEPT ![a] = E],
         result[a] # NoResult => R # NoResult, LateAt(a, R, E, session, answers, overtaken),
         KnowsOrder(x, session, grants), KnowsScore(x, answers, overtaken),
         x.at \in Writing => R # NoResult,
         Fits(req[r], result[a], extra[a]) =>
            IF x.at \in Writing THEN Fits(x, R, E) ELSE AddsUp(R, E)
  PROVE  IInv'
<1>1. Scored'
  BY WriterScored DEF history
<1>2. /\ result'[a] = R /\ extra'[a] = E
      /\ \A b \in Attempts : b # a => result'[b] = result[b] /\ extra'[b] = extra[b]
  BY DEF IInv, Typed, RowsTyped
<1>3. RowsTyped'
  BY DEF IInv, Typed, RowsTyped, history
<1>4. ResultsLate'
  <2>1. ASSUME NEW b \in Attempts
        PROVE  LateAt(b, result'[b], extra'[b], session, answers, overtaken)
    BY <1>2 DEF IInv, ResultsLate
  <2> QED BY <2>1 DEF ResultsLate, history
<1>5. Grows /\ Orderly'
  BY <1>2, NothingLost DEF history
<1>6. KnowsResult(x, result')
  BY <1>2 DEF KnowsResult
<1>7. KnowsOrder(x, session', grants') /\ KnowsScore(x, answers', overtaken')
  BY DEF history
<1> QED BY <1>1, <1>3, <1>4, <1>5, <1>6, <1>7, TurnKeeps

-----------------------------------------------------------------------------
(* What the handler of a step is and knows.                                *)
LEMMA Handler ==
  ASSUME IInv, NEW r \in Handlers
  PROVE  /\ req[r] \in RequestState /\ req \in [Handlers -> RequestState]
         /\ KnowsOrder(req[r], session, grants) /\ KnowsScore(req[r], answers, overtaken)
         /\ KnowsResult(req[r], result)
BY DEF IInv, Typed, Known

(* A handler that is done knows nothing.                                   *)
LEMMA Idle ==
  /\ NoRequest \in RequestState /\ NoRequest.at = "idle" /\ NoRequest.at \notin Writing
  /\ \A S, g : KnowsOrder(NoRequest, S, g)
  /\ \A A, O : KnowsScore(NoRequest, A, O)
BY DEF NoRequest, RequestState, Writing, KnowsOrder, KnowsScore, Closing

(* The attempts of the student are 1..k.                                   *)
LEMMA TakenAre ==
  ASSUME IInv
  PROVE  \E k \in 0..NAttempts : /\ OrderlyAt(k, session, grants)
                                 /\ Taken = 1..k /\ Cardinality(Taken) = k
<1>1. PICK k \in 0..NAttempts : OrderlyAt(k, session, grants)
  BY DEF IInv, Orderly
<1>2. NAttempts \in Nat
  BY TestSessionsAssumption
<1>3. Taken = 1..k
  BY <1>1, <1>2 DEF Taken, OrderlyAt, Attempts
<1>4. Cardinality(1..k) = k
  BY <1>2, FS_Interval
<1> QED BY <1>1, <1>3, <1>4

(* An attempt in progress is about to be closed.                           *)
LEMMA AskClose ==
  ASSUME IInv, NEW r \in Handlers, NEW a \in Attempts, NEW to \in Finished, NEW n \in Following,
         Open(a), n <= 1 + grants,
         \A b \in Attempts : b < n /\ b # a => session[b] \in Finished,
         Ask(r, Finalise(a, to, n)),
         UNCHANGED <<session, late, answers, result, extra, grants, history>>
  PROVE  IInv'
<1>1. PICK x : x = Finalise(a, to, n)
  OBVIOUS
<1>2. x \in Finalising /\ x.at = "close" /\ x.a = a /\ x.n = n
  BY <1>1 DEF Finalise, Finalising
<1>3. x \in RequestState /\ x.at \notin Writing
  BY <1>2 DEF RequestState, Writing
<1>4. session[a] # "none"
  BY DEF Open
<1>5. KnowsOrder(x, session, grants) /\ KnowsScore(x, answers, overtaken)
  BY <1>2, <1>4 DEF KnowsOrder, KnowsScore, Closing
<1>6. req' = [req EXCEPT ![r] = x] /\ req[r].at \notin Writing
  BY <1>1, Idle DEF Ask
<1> QED BY <1>3, <1>5, <1>6, QuietTurn

(* ... and nothing comes after it.                                         *)
LEMMA AskCloseOnly ==
  ASSUME IInv, NEW r \in Handlers, NEW a \in Attempts, NEW to \in Finished, Open(a),
         Ask(r, Finalise(a, to, 0)),
         UNCHANGED <<session, late, answers, result, extra, grants, history>>
  PROVE  IInv'
<1>1. 0 \in Following /\ (\A b \in Attempts : ~ (b < 0))
  BY DEF Following, Attempts
<1>2. grants \in Nat
  BY DEF IInv, Typed, RowsTyped
<1>3. 0 <= 1 + grants
  BY <1>2
<1> QED BY <1>1, <1>3, AskClose

(* The student submits.                                                    *)
LEMMA BeginSubmitKeeps ==
  ASSUME IInv, NEW r \in Handlers, NEW a \in Attempts, BeginSubmit(r, a)
  PROVE  IInv'
BY AskCloseOnly DEF BeginSubmit, Finished

(* Somebody, or the job, meets an attempt that is out of time.             *)
LEMMA CloseLateKeeps ==
  ASSUME IInv, NEW r \in Handlers, CloseLate(r)
  PROVE  IInv'
<1>1. late \subseteq Attempts
  BY DEF IInv, Typed, RowsTyped
<1>2. PICK a \in Attempts : Open(a) /\ Ask(r, Finalise(a, "expired", 0))
  BY <1>1 DEF CloseLate
<1> QED BY <1>2, AskCloseOnly DEF CloseLate, Finished

(* An answer is on its way.                                                *)
LEMMA BeginSaveKeeps ==
  ASSUME IInv, NEW r \in Handlers, NEW a \in Attempts, BeginSave(r, a)
  PROVE  IInv'
<1>1. UNCHANGED <<session, late, answers, result, extra, grants, history>> /\ Open(a)
  BY DEF BeginSave
<1>2. CASE Ask(r, Finalise(a, "expired", 0))
  BY <1>1, <1>2, AskCloseOnly DEF Finished
<1>3. ASSUME NEW q \in Standard, NEW right \in BOOLEAN, NEW row \in 0..Len(answers[a][q]),
             Ask(r, [at |-> "save", a |-> a, q |-> q, right |-> right, row |-> row])
      PROVE  IInv'
  <2>1. PICK x : x = [at |-> "save", a |-> a, q |-> q, right |-> right, row |-> row]
    OBVIOUS
  <2>2. row \in Nat
    BY DEF IInv, Typed, RowsTyped
  <2>3. x \in Saving /\ x.at = "save"
    BY <2>1, <2>2 DEF Saving
  <2>4. x \in RequestState /\ x.at \notin Writing
    BY <2>3 DEF RequestState, Writing
  <2>5. KnowsOrder(x, session, grants) /\ KnowsScore(x, answers, overtaken)
    BY <2>3 DEF KnowsOrder, KnowsScore, Closing
  <2>6. req' = [req EXCEPT ![r] = x] /\ req[r].at \notin Writing
    BY <1>3, <2>1, Idle DEF Ask
  <2> QED BY <1>1, <2>4, <2>5, <2>6, QuietTurn
<1> QED BY <1>2, <1>3 DEF BeginSave

(* startSession decides on the next attempt, or closes the last one.       *)
LEMMA StartKeeps ==
  ASSUME IInv, NEW r \in Handlers, Start(r)
  PROVE  IInv'
<1> DEFINE n == Cardinality(Taken) + 1
           Late == {a \in late : Open(a)}
           may == n <= 1 + grants /\ n <= NAttempts
<1>1. PICK k \in 0..NAttempts : OrderlyAt(k, session, grants) /\ Cardinality(Taken) = k
  BY TakenAre
<1>2. /\ NAttempts \in Nat /\ grants \in Nat
      /\ late \subseteq Attempts /\ Attempts = 1..NAttempts
      /\ session \in [Attempts -> {"none", "in_progress"} \cup Finished]
  BY TestSessionsAssumption DEF IInv, Typed, RowsTyped, Attempts
<1>3. UNCHANGED <<session, late, answers, result, extra, grants, history>>
  BY DEF Start
<1>4. n = k + 1 /\ n \in Nat
  BY <1>1, <1>2
<1>5. \A a \in Attempts : Open(a) => a = k
  BY <1>1, <1>2 DEF OrderlyAt, Before, Open, Finished
<1>6. \A b \in Attempts : b < n => session[b] \in Finished \/ Open(b)
  BY <1>1, <1>2, <1>4 DEF OrderlyAt, Open
<1>7. CASE Late = {} /\ may /\ Ask(r, [at |-> "create", a |-> n])
  <2>1. n \in Attempts /\ n <= 1 + grants
    BY <1>2, <1>4, <1>7
  <2>2. \A a \in Attempts : ~ Open(a)
    BY <1>7 DEF Start
  <2>3. Before(n, session)
    BY <1>6, <2>2 DEF Before
  <2>4. PICK x : x = [at |-> "create", a |-> n]
    OBVIOUS
  <2> HIDE DEF n
  <2>5. x \in Creating /\ x.at = "create" /\ x.a = n
    BY <2>1, <2>4 DEF Creating
  <2>6. x \in RequestState /\ x.at \notin Writing
    BY <2>5 DEF RequestState, Writing
  <2>7. KnowsOrder(x, session, grants) /\ KnowsScore(x, answers, overtaken)
    BY <2>1, <2>3, <2>5 DEF KnowsOrder, KnowsScore, Closing
  <2>8. req' = [req EXCEPT ![r] = x] /\ req[r].at \notin Writing
    BY <1>7, <2>4, Idle DEF Ask
  <2> QED BY <1>3, <2>6, <2>7, <2>8, QuietTurn
<1>8. ASSUME NEW a \in Late, Ask(r, Finalise(a, "expired", IF may THEN n ELSE 0))
      PROVE  IInv'
  <2>1. a \in Attempts /\ Open(a) /\ a = k
    BY <1>2, <1>5
  <2>2. CASE may
    <3>1. n \in Following /\ n <= 1 + grants
      BY <1>2, <1>4, <2>2 DEF Following
    <3>2. \A b \in Attempts : b < n /\ b # a => session[b] \in Finished
      BY <1>5, <1>6, <2>1
    <3>3. Ask(r, Finalise(a, "expired", n))
      BY <1>8, <2>2
    <3> HIDE DEF n, may, Late
    <3>4. "expired" \in Finished
      BY DEF Finished
    <3> QED BY <1>3, <2>1, <3>1, <3>2, <3>3, <3>4, AskClose
  <2>3. CASE ~ may
    <3>1. Ask(r, Finalise(a, "expired", 0))
      BY <1>8, <2>3
    <3>2. "expired" \in Finished
      BY DEF Finished
    <3> HIDE DEF n, may, Late
    <3> QED BY <1>3, <2>1, <3>1, <3>2, AskCloseOnly
  <2> QED BY <2>2, <2>3
<1> QED BY <1>7, <1>8 DEF Start

-----------------------------------------------------------------------------
(* The row of an attempt is written: the database keeps the numbers apart, *)
(* and the handler knows that the attempt before is over.                  *)
LEMMA CreateKeeps ==
  ASSUME IInv, NEW r \in Handlers, Create(r)
  PROVE  IInv'
<1>1. PICK q \in RequestState : q = req[r] /\ q.at = "create"
  BY Handler DEF Create
<1>2. PICK a \in Attempts : a = q.a
  BY <1>1, Places DEF Creating
<1>3. a <= 1 + grants /\ Before(a, session)
  BY <1>1, <1>2, Handler DEF KnowsOrder
<1>4. PICK st : st = IF session[a] = "none" THEN "in_progress" ELSE session[a]
  OBVIOUS
<1>5. /\ session' = [session EXCEPT ![a] = st] /\ req' = [req EXCEPT ![r] = NoRequest]
      /\ UNCHANGED <<late, answers, result, extra, grants, history>>
  BY <1>1, <1>2, <1>4 DEF Create, Done
<1>6. /\ session \in [Attempts -> {"none", "in_progress"} \cup Finished]
      /\ grants \in Nat /\ NAttempts \in Nat
  BY TestSessionsAssumption DEF IInv, Typed, RowsTyped
<1>7. session' \in [Attempts -> {"none", "in_progress"} \cup Finished]
  BY <1>4, <1>5, <1>6
<1>8. /\ session'[a] # "none" /\ (session[a] # "none" => session'[a] = session[a])
      /\ \A b \in Attempts : b # a => session'[b] = session[b]
  BY <1>4, <1>5, <1>6
<1>9. Grows
  <2>1. ASSUME NEW b \in Attempts
        PROVE  /\ session[b] \in Finished => session'[b] \in Finished
               /\ session[b] # "none" => session'[b] # "none"
    BY <1>8 DEF Finished
  <2>2. grants' >= grants
    <3>1. PICK g \in Nat : g = grants
      BY <1>6
    <3> QED BY <1>5, <3>1
  <2> QED BY <1>5, <2>1, <2>2 DEF Grows, history
<1>10. Orderly'
  <2>1. PICK k \in 0..NAttempts : OrderlyAt(k, session, grants)
    BY TakenAre
  <2>2. Attempts = 1..NAttempts /\ a \in Nat
    BY DEF Attempts
  <2>3. CASE a <= k
    <3>1. session[a] # "none"
      BY <2>1, <2>3 DEF OrderlyAt
    <3>2. session' = session
      BY <1>6, <1>7, <1>8, <3>1
    <3> QED BY <1>5, <2>1, <3>2 DEF Orderly
  <2>4. CASE ~ (a <= k)
    <3>1. a = k + 1
      <4> SUFFICES ASSUME a # k + 1 PROVE FALSE
        OBVIOUS
      <4>1. k + 1 \in Attempts /\ k + 1 < a /\ ~ (k + 1 <= k)
        BY <1>6, <2>2, <2>4
      <4>2. session[k + 1] \in Finished
        BY <1>3, <4>1 DEF Before
      <4>3. session[k + 1] = "none"
        BY <2>1, <4>1 DEF OrderlyAt
      <4> QED BY <4>2, <4>3 DEF Finished
    <3>2. \A b \in Attempts : b <= a <=> session'[b] # "none"
      <4>1. ASSUME NEW b \in Attempts, b # a PROVE b <= a <=> session'[b] # "none"
        <5>1. (b <= a) <=> (b <= k)
          BY <1>6, <2>2, <3>1, <4>1
        <5>2. (b <= k) <=> session[b] # "none"
          BY <2>1 DEF OrderlyAt
        <5> QED BY <1>8, <4>1, <5>1, <5>2
      <4>2. a <= a
        BY <2>2
      <4> QED BY <1>8, <4>1, <4>2
    <3>3. Before(a, session')
      BY <1>3, <1>8, <2>2 DEF Before
    <3>4. OrderlyAt(a, session', grants) /\ a \in 0..NAttempts
      BY <1>3, <1>6, <2>2, <3>2, <3>3 DEF OrderlyAt
    <3> QED BY <1>5, <3>4 DEF Orderly
  <2> QED BY <2>3, <2>4
<1>11. RowsTyped'
  BY <1>5, <1>7 DEF IInv, Typed, RowsTyped, history
<1>12. ResultsLate'
  <2>1. ASSUME NEW b \in Attempts
        PROVE  LateAt(b, result[b], extra[b], session', answers, overtaken)
    <3>1. LateAt(b, result[b], extra[b], session, answers, overtaken)
      BY DEF IInv, ResultsLate
    <3> QED BY <1>8, <3>1 DEF LateAt, Finished
  <2> QED BY <1>5, <2>1 DEF ResultsLate, history
<1>13. Scored'
  BY <1>1, <1>5, Idle, QuietScored DEF Writing, history
<1>14. /\ KnowsOrder(NoRequest, session', grants') /\ KnowsScore(NoRequest, answers', overtaken')
       /\ KnowsResult(NoRequest, result')
  BY Idle DEF KnowsResult
<1> QED BY <1>5, <1>9, <1>10, <1>11, <1>12, <1>13, <1>14, Idle, TurnKeeps

(* The attempt is closed, before it is graded.                             *)
LEMMA CloseKeeps ==
  ASSUME IInv, NEW r \in Handlers, Close(r)
  PROVE  IInv'
<1>1. PICK q \in RequestState : q = req[r] /\ q.at = "close"
  BY Handler DEF Close
<1>2. PICK a \in Attempts, to \in Finished, n \in Following : a = q.a /\ to = q.to /\ n = q.n
  BY <1>1, Places DEF Finalising
<1>3. /\ session[a] # "none" /\ n <= 1 + grants
      /\ \A b \in Attempts : b < n /\ b # a => session[b] \in Finished
  BY <1>1, <1>2, Handler DEF KnowsOrder
<1>4. PICK x : x = [q EXCEPT !.at = "load"]
  OBVIOUS
<1>5. x \in Finalising /\ x.at = "load" /\ x.a = a /\ x.n = n
  BY <1>1, <1>2, <1>4, Places DEF Finalising
<1>6. x \in RequestState /\ x.at \notin Writing
  BY <1>5 DEF RequestState, Writing
<1>7. /\ session' = [session EXCEPT ![a] = to] /\ req' = [req EXCEPT ![r] = x]
      /\ UNCHANGED <<late, answers, result, extra, grants, history>>
  BY <1>1, <1>2, <1>4 DEF Close, Go
<1>8. /\ session \in [Attempts -> {"none", "in_progress"} \cup Finished]
      /\ grants \in Nat
  BY DEF IInv, Typed, RowsTyped
<1>9. /\ session' \in [Attempts -> {"none", "in_progress"} \cup Finished]
      /\ session'[a] \in Finished
      /\ \A b \in Attempts : b # a => session'[b] = session[b]
  BY <1>7, <1>8
<1>10. ASSUME NEW b \in Attempts
       PROVE  /\ session[b] \in Finished => session'[b] \in Finished
              /\ session[b] # "none" <=> session'[b] # "none"
  <2>1. CASE b = a
    BY <1>3, <1>9, <2>1 DEF Finished
  <2>2. CASE b # a
    BY <1>9, <2>2
  <2> QED BY <2>1, <2>2
<1>11. Grows
  <2>1. grants' >= grants
    <3>1. PICK g \in Nat : g = grants
      BY <1>8
    <3> QED BY <1>7, <3>1
  <2> QED BY <1>7, <1>10, <2>1 DEF Grows, history
<1>12. Orderly'
  <2>1. PICK k \in 0..NAttempts : OrderlyAt(k, session, grants)
    BY TakenAre
  <2>2. OrderlyAt(k, session', grants)
    BY <1>10, <2>1 DEF OrderlyAt, Before
  <2> QED BY <1>7, <2>2 DEF Orderly
<1>13. RowsTyped'
  BY <1>7, <1>9 DEF IInv, Typed, RowsTyped, history
<1>14. ResultsLate'
  <2>1. ASSUME NEW b \in Attempts
        PROVE  LateAt(b, result[b], extra[b], session', answers, overtaken)
    BY <1>10 DEF IInv, ResultsLate, LateAt
  <2> QED BY <1>7, <2>1 DEF ResultsLate, history
<1>15. Scored'
  BY <1>1, <1>6, <1>7, QuietScored DEF Writing, history
<1>16. Before(n, session')
  BY <1>3, <1>9 DEF Before
<1>17. /\ KnowsOrder(x, session', grants') /\ KnowsScore(x, answers', overtaken')
       /\ KnowsResult(x, result')
  BY <1>3, <1>5, <1>6, <1>7, <1>9, <1>16 DEF KnowsOrder, KnowsScore, KnowsResult, Closing
<1> QED BY <1>6, <1>7, <1>11, <1>12, <1>13, <1>14, <1>15, <1>17, TurnKeeps

(* The answers are read and graded.                                        *)
LEMMA LoadKeeps ==
  ASSUME IInv, NEW r \in Handlers, Load(r)
  PROVE  IInv'
<1>1. PICK q \in RequestState : q = req[r] /\ q.at = "load"
  BY Handler DEF Load
<1>2. PICK a \in Attempts, n \in Following : a = q.a /\ n = q.n
  BY <1>1, Places DEF Finalising
<1>3. session[a] \in Finished /\ n <= 1 + grants /\ Before(n, session)
  BY <1>1, <1>2, Handler DEF KnowsOrder, Closing
<1>4. PICK auto \in Scores(a) : Go(r, [at |-> "find", a |-> a, n |-> n, auto |-> auto])
  BY <1>1, <1>2 DEF Load
<1>5. auto \in ScoresOf(answers[a]) /\ auto \in Score
  BY Unfolded, ScoresBounded
<1>6. PICK x : x = [at |-> "find", a |-> a, n |-> n, auto |-> auto]
  OBVIOUS
<1>7. x \in Finding /\ x.at = "find" /\ x.a = a /\ x.n = n /\ x.auto = auto
  BY <1>5, <1>6 DEF Finding
<1>8. x \in RequestState /\ x.at \notin Writing
  BY <1>7 DEF RequestState, Writing
<1>9. KnowsOrder(x, session, grants) /\ KnowsScore(x, answers, overtaken)
  BY <1>3, <1>5, <1>7 DEF KnowsOrder, KnowsScore, Closing
<1>10. /\ req' = [req EXCEPT ![r] = x] /\ req[r].at \notin Writing
       /\ UNCHANGED <<session, late, answers, result, extra, grants, history>>
  BY <1>1, <1>4, <1>6 DEF Go, Load, Writing
<1> QED BY <1>8, <1>9, <1>10, QuietTurn

-----------------------------------------------------------------------------
(* The row of an attempt and its extra points have their types.            *)
LEMMA ResultOf ==
  ASSUME IInv, NEW a \in Attempts
  PROVE  /\ result[a] \in Row \cup {NoResult} /\ extra[a] \in [Extras -> {0} \cup Amounts]
         /\ Plus(a) = Total(extra[a], NExtra) /\ Plus(a) \in Int
         /\ LateAt(a, result[a], extra[a], session, answers, overtaken)
         /\ result = [result EXCEPT ![a] = result[a]]
         /\ extra = [extra EXCEPT ![a] = extra[a]]
<1>1. /\ result \in [Attempts -> Row \cup {NoResult}]
      /\ extra \in [Attempts -> [Extras -> {0} \cup Amounts]]
  BY DEF IInv, Typed, RowsTyped
<1>2. Plus(a) = Total(extra[a], NExtra)
  BY Unfolded
<1>3. extra[a] \in [Extras -> {0} \cup Amounts]
  BY <1>1
<1>4. Total(extra[a], NExtra) \in Int
  BY <1>3, PlusTyped
<1>5. LateAt(a, result[a], extra[a], session, answers, overtaken)
  BY DEF IInv, ResultsLate
<1>6. result = [result EXCEPT ![a] = result[a]] /\ extra = [extra EXCEPT ![a] = extra[a]]
  BY <1>1
<1> QED BY <1>1, <1>2, <1>3, <1>4, <1>5, <1>6

(* A grading that is over goes on to the next attempt, or ends.            *)
LEMMA OverKnows ==
  ASSUME IInv, NEW r \in Handlers, NEW q \in Grading, q = req[r], Over(r)
  PROVE  \E x \in RequestState :
           /\ req' = [req EXCEPT ![r] = x] /\ x.at \notin Writing
           /\ KnowsOrder(x, session, grants) /\ KnowsScore(x, answers, overtaken)
<1>1. CASE q.n = 0
  <2>1. req' = [req EXCEPT ![r] = NoRequest]
    BY <1>1 DEF Over, Done
  <2> QED BY <2>1, Idle
<1>2. CASE q.n # 0
  <2>1. PICK n \in Attempts : n = q.n
    BY <1>2 DEF Grading, Following
  <2>2. PICK x : x = [at |-> "create", a |-> n]
    OBVIOUS
  <2>3. x \in Creating /\ x.at = "create" /\ x.a = n
    BY <2>2 DEF Creating
  <2>4. x \in RequestState /\ x.at \notin Writing
    BY <2>3 DEF RequestState, Writing
  <2>5. n <= 1 + grants /\ Before(n, session)
    BY <2>1, Handler DEF KnowsOrder, Closing, Grading
  <2>6. KnowsOrder(x, session, grants) /\ KnowsScore(x, answers, overtaken)
    BY <2>3, <2>5 DEF KnowsOrder, KnowsScore, Closing
  <2>7. req' = [req EXCEPT ![r] = x]
    BY <1>2, <2>1, <2>2 DEF Over, Go
  <2> QED BY <2>4, <2>6, <2>7
<1> QED BY <1>1, <1>2

(* The result is looked for, with its extra points.                        *)
LEMMA FindKeeps ==
  ASSUME IInv, NEW r \in Handlers, Find(r)
  PROVE  IInv'
<1>1. PICK q \in RequestState : q = req[r] /\ q.at = "find"
  BY Handler DEF Find
<1>2. PICK a \in Attempts, n \in Following, auto \in Score : a = q.a /\ n = q.n /\ auto = q.auto
  BY <1>1, Places DEF Finding
<1>3. /\ session[a] \in Finished /\ n <= 1 + grants /\ Before(n, session)
      /\ a \notin overtaken => auto \in ScoresOf(answers[a])
  BY <1>1, <1>2, Handler DEF KnowsOrder, KnowsScore, Closing
<1>4. PICK at, plus : /\ at = (IF result[a] = NoResult THEN "insert" ELSE "clear")
                      /\ plus = Plus(a)
  OBVIOUS
<1>5. PICK x : x = [at |-> at, a |-> a, n |-> n, auto |-> auto, plus |-> plus]
  OBVIOUS
<1>6. /\ req' = [req EXCEPT ![r] = x] /\ Cross(a)
      /\ UNCHANGED <<session, late, answers, result, extra, grants, overtaken, deaths>>
  BY <1>1, <1>2, <1>4, <1>5 DEF Find, Go
<1>7. plus \in Int /\ plus = Total(extra[a], NExtra)
  BY <1>4, ResultOf
<1>8. x \in Grading /\ x.at = at /\ x.a = a /\ x.n = n /\ x.auto = auto /\ x.plus = plus
  BY <1>4, <1>5, <1>7 DEF Grading
<1>9. x \in RequestState /\ x.at \in Writing /\ req[r].at \notin Writing
  BY <1>1, <1>4, <1>8 DEF RequestState, Writing
<1>10. KnowsOrder(x, session, grants) /\ KnowsScore(x, answers, overtaken)
  BY <1>3, <1>4, <1>8 DEF KnowsOrder, KnowsScore, Closing
<1>11. KnowsResult(x, result)
  BY <1>4, <1>8 DEF KnowsResult
<1>12. Fits(x, result[a], extra[a])
  BY <1>4, <1>7, <1>8 DEF Fits
<1> QED BY <1>6, <1>8, <1>9, <1>10, <1>11, <1>12, BeginTurn

(* A fresh result adds up.                                                 *)
LEMMA FreshAddsUp ==
  ASSUME NEW R, NEW E, NEW auto \in Int, NEW plus \in Int, plus = Total(E, NExtra),
         R.auto = auto, R.manual = 0, R.final = auto + plus, R.graded = FALSE,
         R.mark = Unmarked
  PROVE  AddsUp(R, E)
<1>1. R.mark # Gone
  BY DEF Unmarked, Gone
<1>2. R.graded = (R.mark # Unmarked)
  BY Zenon
<1>3. R.manual = (IF R.mark = Unmarked THEN 0 ELSE R.mark)
  OBVIOUS
<1>4. R.final = R.auto + R.manual + Total(E, NExtra)
  OBVIOUS
<1> QED BY <1>1, <1>2, <1>3, <1>4, Zenon DEF AddsUp, Counts

(* A first result is written, or refused.                                  *)
LEMMA InsertKeeps ==
  ASSUME IInv, NEW r \in Handlers, Insert(r)
  PROVE  IInv'
<1>1. PICK q \in Grading : q = req[r] /\ q.at = "insert"
  BY Handler, Places DEF Insert
<1>2. PICK a \in Attempts, auto \in Score : a = q.a /\ auto = q.auto
  BY <1>1 DEF Grading
<1>3. /\ session[a] \in Finished
      /\ a \notin overtaken => auto \in ScoresOf(answers[a])
  BY <1>1, <1>2, Handler DEF KnowsOrder, KnowsScore, Closing
<1>4. UNCHANGED <<session, late, answers, extra, grants, history>> /\ req[r].at \in Writing
  BY <1>1 DEF Insert, Writing
<1>5. extra' = [extra EXCEPT ![a] = extra[a]] /\ extra[a] \in [Extras -> {0} \cup Amounts]
  BY <1>4, ResultOf
<1>6. CASE result[a] = NoResult /\ Over(r) /\ result' = [result EXCEPT ![a] = NewResult(auto, 0, 1)]
  <2>1. PICK x \in RequestState :
           /\ req' = [req EXCEPT ![r] = x] /\ x.at \notin Writing
           /\ KnowsOrder(x, session, grants) /\ KnowsScore(x, answers, overtaken)
    BY <1>1, <1>6, OverKnows
  <2>2. PICK R : R = NewResult(auto, 0, 1)
    OBVIOUS
  <2>3. auto \in Int /\ auto >= 0
    BY DEF Score
  <2>4. /\ R \in Row /\ R.auto = auto /\ R.manual = 0 /\ R.final = auto + 0
        /\ R.graded = FALSE /\ R.mark = Unmarked
    BY <2>2, <2>3 DEF Row, NewResult
  <2>5. R # NoResult
    BY <2>3, <2>4 DEF NoResult
  <2>6. Total(extra[a], NExtra) = 0
    BY <1>6, ResultOf, PlusZero DEF LateAt
  <2>7. AddsUp(R, extra[a])
    <3>1. 0 \in Int
      OBVIOUS
    <3> QED BY <2>3, <2>4, <2>6, <3>1, FreshAddsUp
  <2>8. LateAt(a, R, extra[a], session, answers, overtaken)
    BY <1>3, <2>4, <2>5 DEF LateAt
  <2>9. result' = [result EXCEPT ![a] = R] /\ R \in Row \cup {NoResult} /\ req[r].a = a
    BY <1>1, <1>2, <1>6, <2>2, <2>4
  <2> QED BY <1>4, <1>5, <2>1, <2>5, <2>7, <2>8, <2>9, WriterTurn
<1>7. CASE result[a] # NoResult /\ Done(r) /\ UNCHANGED result
  <2>1. /\ result' = [result EXCEPT ![a] = result[a]] /\ result[a] \in Row \cup {NoResult}
        /\ LateAt(a, result[a], extra[a], session, answers, overtaken)
    BY <1>7, ResultOf
  <2>2. req' = [req EXCEPT ![r] = NoRequest] /\ req[r].a = a
    BY <1>1, <1>2, <1>7 DEF Done
  <2>3. ~ Fits(req[r], result[a], extra[a])
    BY <1>1, <1>7 DEF Fits
  <2> QED BY <1>4, <1>5, <2>1, <2>2, <2>3, Idle, WriterTurn
<1> QED BY <1>1, <1>2, <1>6, <1>7 DEF Insert

(* The row of the open question is deleted.                                *)
LEMMA ClearKeeps ==
  ASSUME IInv, NEW r \in Handlers, Clear(r)
  PROVE  IInv'
<1>1. PICK q \in Grading : q = req[r] /\ q.at = "clear"
  BY Handler, Places DEF Clear
<1>2. PICK a \in Attempts : a = q.a
  BY <1>1 DEF Grading
<1>3. PICK x : x = [q EXCEPT !.at = "rewrite"]
  OBVIOUS
<1>4. /\ x \in Grading /\ x.at = "rewrite" /\ x.a = a /\ x.n = q.n /\ x.auto = q.auto
      /\ x.plus = q.plus
  BY <1>1, <1>2, <1>3 DEF Grading
<1>5. x \in RequestState /\ x.at \in Writing /\ req[r].at \in Writing /\ req[r].a = a
  BY <1>1, <1>2, <1>4 DEF RequestState, Writing
<1>6. KnowsOrder(x, session, grants) /\ KnowsScore(x, answers, overtaken)
  BY <1>1, <1>2, <1>4, Handler DEF KnowsOrder, KnowsScore, Closing
<1>7. result[a] \in Row
  <2>1. result[a] # NoResult
    BY <1>1, <1>2, Handler DEF KnowsResult, Writing
  <2> QED BY <2>1, ResultOf
<1>8. PICK R : R = [result[a] EXCEPT !.mark = Gone]
  OBVIOUS
<1>9. R \in Row /\ R.auto = result[a].auto
  BY <1>7, <1>8 DEF Row
<1>10. R # NoResult /\ result[a] # NoResult
  BY <1>7, <1>9 DEF Row, NoResult, Score
<1>11. /\ result' = [result EXCEPT ![a] = R] /\ req' = [req EXCEPT ![r] = x]
       /\ UNCHANGED <<session, late, answers, extra, grants, history>>
  <2>1. result \in [Attempts -> Row \cup {NoResult}]
    BY DEF IInv, Typed, RowsTyped
  <2> QED BY <1>1, <1>2, <1>3, <1>8, <2>1 DEF Clear, Go
<1>12. extra' = [extra EXCEPT ![a] = extra[a]] /\ extra[a] \in [Extras -> {0} \cup Amounts]
  BY <1>11, ResultOf
<1>13. LateAt(a, R, extra[a], session, answers, overtaken)
  BY <1>9, <1>10, ResultOf DEF LateAt
<1>14. Fits(req[r], result[a], extra[a]) =>
          IF x.at \in Writing THEN Fits(x, R, extra[a]) ELSE AddsUp(R, extra[a])
  BY <1>1, <1>4, <1>5 DEF Fits
<1>15. R \in Row \cup {NoResult} /\ x.a = a
  BY <1>4, <1>9
<1> QED BY <1>5, <1>6, <1>10, <1>11, <1>12, <1>13, <1>14, <1>15, WriterTurn

(* The result is written anew.                                             *)
LEMMA RewriteKeeps ==
  ASSUME IInv, NEW r \in Handlers, Rewrite(r)
  PROVE  IInv'
<1>1. PICK q \in Grading : q = req[r] /\ q.at = "rewrite"
  BY Handler, Places DEF Rewrite
<1>2. PICK a \in Attempts, auto \in Score, plus \in Int : a = q.a /\ auto = q.auto /\ plus = q.plus
  BY <1>1 DEF Grading
<1>3. /\ session[a] \in Finished
      /\ a \notin overtaken => auto \in ScoresOf(answers[a])
  BY <1>1, <1>2, Handler DEF KnowsOrder, KnowsScore, Closing
<1>4. result[a] \in Row
  <2>1. result[a] # NoResult
    BY <1>1, <1>2, Handler DEF KnowsResult, Writing
  <2> QED BY <2>1, ResultOf
<1>5. PICK row \in Nat : row = result[a].row + 1
  BY <1>4 DEF Row
<1>6. PICK R : R = NewResult(auto, plus, row)
  OBVIOUS
<1>7. auto \in Int /\ auto >= 0
  BY DEF Score
<1>8. /\ R \in Row /\ R.auto = auto /\ R.manual = 0 /\ R.final = auto + plus
      /\ R.graded = FALSE /\ R.mark = Unmarked
  BY <1>6, <1>7 DEF Row, NewResult
<1>9. R # NoResult
  BY <1>7, <1>8 DEF NoResult
<1>10. PICK x \in RequestState :
         /\ req' = [req EXCEPT ![r] = x] /\ x.at \notin Writing
         /\ KnowsOrder(x, session, grants) /\ KnowsScore(x, answers, overtaken)
  BY <1>1, OverKnows DEF Rewrite
<1>11. /\ result' = [result EXCEPT ![a] = R] /\ req[r].at \in Writing /\ req[r].a = a
       /\ UNCHANGED <<session, late, answers, extra, grants, history>>
  <2>1. result \in [Attempts -> Row \cup {NoResult}]
    BY DEF IInv, Typed, RowsTyped
  <2> QED BY <1>1, <1>2, <1>5, <1>6, <2>1 DEF Rewrite, Writing
<1>12. extra' = [extra EXCEPT ![a] = extra[a]] /\ extra[a] \in [Extras -> {0} \cup Amounts]
  BY <1>11, ResultOf
<1>13. LateAt(a, R, extra[a], session, answers, overtaken)
  BY <1>3, <1>8, <1>9 DEF LateAt
<1>14. Fits(req[r], result[a], extra[a]) => AddsUp(R, extra[a])
  <2> SUFFICES ASSUME Fits(req[r], result[a], extra[a]) PROVE AddsUp(R, extra[a])
    OBVIOUS
  <2>1. plus = Total(extra[a], NExtra)
    BY <1>1, <1>2 DEF Fits
  <2> QED BY <1>7, <1>8, <2>1, FreshAddsUp
<1> QED BY <1>8, <1>9, <1>10, <1>11, <1>12, <1>13, <1>14, WriterTurn

-----------------------------------------------------------------------------
(* A handler of the author knows nothing of the order or of the score.     *)
LEMMA AuthorKnows ==
  ASSUME NEW q, q.at \in {"row", "add", "edit", "drop", "total", "sum"}
  PROVE  /\ q.at \in Writing
         /\ \A S, g : KnowsOrder(q, S, g)
         /\ \A A, O : KnowsScore(q, A, O)
BY DEF Writing, KnowsOrder, KnowsScore, Closing

(* The author marks the open answer: the result is read, ...               *)
LEMMA BeginMarkKeeps ==
  ASSUME IInv, NEW r \in Requests, NEW a \in Attempts, BeginMark(r, a)
  PROVE  IInv'
<1>1. r \in Handlers
  BY DEF Handlers
<1>2. PICK R \in Row : R = result[a]
  BY ResultOf DEF BeginMark
<1>3. R # NoResult /\ R.mark # Gone /\ R.row \in Nat /\ R.auto \in Int
  BY <1>2 DEF BeginMark, Row, Score
<1>4. PICK m \in Marks :
        Ask(r, [at |-> "row", a |-> a, e |-> R.row, m |-> m, manual |-> m,
                final |-> R.auto + m + Plus(a), graded |-> TRUE])
  BY <1>2 DEF BeginMark
<1>5. m \in Int
  BY TestSessionsAssumption
<1>6. PICK final \in Int : final = R.auto + m + Plus(a)
  BY <1>3, <1>5, ResultOf
<1>7. PICK x : x = [at |-> "row", a |-> a, e |-> R.row, m |-> m, manual |-> m,
                    final |-> final, graded |-> TRUE]
  OBVIOUS
<1>8. /\ x \in Marking /\ x.at = "row" /\ x.a = a /\ x.e = R.row /\ x.m = m /\ x.manual = m
      /\ x.final = final /\ x.graded = TRUE
  BY <1>3, <1>5, <1>7 DEF Marking
<1>9. x \in RequestState
  BY <1>8 DEF RequestState
<1>10. Fits(x, R, extra[a])
  <2>1. final = R.auto + m + Total(extra[a], NExtra)
    BY <1>6, ResultOf
  <2> QED BY <1>3, <1>8, <2>1 DEF Fits
<1>11. KnowsResult(x, result)
  BY <1>2, <1>3, <1>8 DEF KnowsResult
<1>12. req' = [req EXCEPT ![r] = x] /\ req[r].at \notin Writing
  BY <1>4, <1>6, <1>7, Idle DEF Ask
<1>13. /\ Cross(a)
       /\ UNCHANGED <<session, late, answers, result, extra, grants, overtaken, deaths>>
  BY DEF BeginMark
<1>14. x.at \in Writing /\ x.a = a
       /\ KnowsOrder(x, session, grants) /\ KnowsScore(x, answers, overtaken)
       /\ (AddsUp(result[a], extra[a]) => Fits(x, result[a], extra[a]))
  BY <1>2, <1>8, <1>10, AuthorKnows
<1> QED BY <1>1, <1>9, <1>11, <1>12, <1>13, <1>14, BeginTurn

(* ... or gives, changes or takes back extra points.                       *)
LEMMA BeginExtraKeeps ==
  ASSUME IInv, NEW r \in Requests, NEW a \in Attempts, BeginExtra(r, a)
  PROVE  IInv'
<1>1. r \in Handlers
  BY DEF Handlers
<1>2. PICK R \in Row : R = result[a]
  BY ResultOf DEF BeginExtra
<1>3. R # NoResult /\ R.manual \in Int /\ R.final \in Int /\ R.auto \in Int
  BY <1>2 DEF BeginExtra, Row, Score
<1>4. PICK E \in [Extras -> {0} \cup Amounts] : E = extra[a]
  BY ResultOf
<1>5. PICK e \in Extras, m \in Amounts \cup {0} :
        Ask(r, [at |-> IF E[e] = 0 THEN "add" ELSE IF m = 0 THEN "drop" ELSE "edit",
                a |-> a, e |-> e, m |-> m, manual |-> R.manual,
                final |-> R.auto + R.manual + Plus(a) - E[e] + m,
                graded |-> R.mark # Unmarked])
  BY <1>2, <1>4 DEF BeginExtra
<1>6. m \in Int /\ E[e] \in Int
  BY <1>4, AmountsAreNat
<1>7. PICK plus \in Int : plus = Plus(a) /\ plus = Total(E, NExtra)
  BY <1>4, ResultOf
<1>8. PICK final \in Int : final = R.auto + R.manual + plus - E[e] + m
  BY <1>3, <1>6
<1>9. PICK at : at = IF E[e] = 0 THEN "add" ELSE IF m = 0 THEN "drop" ELSE "edit"
  OBVIOUS
<1>10. PICK graded \in BOOLEAN : graded = (R.mark # Unmarked)
  OBVIOUS
<1>11. PICK x : x = [at |-> at, a |-> a, e |-> e, m |-> m, manual |-> R.manual,
                     final |-> final, graded |-> graded]
  OBVIOUS
<1>12. /\ x.at = at /\ x.a = a /\ x.e = e /\ x.m = m /\ x.manual = R.manual
       /\ x.final = final /\ x.graded = graded
       /\ at \in {"add", "edit", "drop"} /\ x \in Adding
  BY <1>3, <1>9, <1>11 DEF Adding
<1>13. x \in RequestState
  BY <1>12 DEF RequestState
<1>14. AddsUp(R, E) => Fits(x, R, E)
  <2> SUFFICES ASSUME AddsUp(R, E) PROVE Fits(x, R, E)
    OBVIOUS
  <2>1. Counts(R, E, R.manual, R.graded, R.final)
    BY <1>3 DEF AddsUp
  <2>2. PICK f : f = x.final + E[x.e] - x.m
    OBVIOUS
  <2>3. f = R.auto + R.manual + plus
    BY <1>3, <1>6, <1>8, <1>12, <2>2
  <2>4. Counts(R, E, x.manual, x.graded, f)
    BY <1>7, <1>10, <1>12, <2>1, <2>3, Zenon DEF Counts
  <2>5. x.at # "add" => E[x.e] # 0
    BY <1>9, <1>12
  <2> QED BY <1>12, <2>2, <2>4, <2>5 DEF Fits
<1>15. KnowsResult(x, result)
  BY <1>2, <1>3, <1>12 DEF KnowsResult
<1>16. req' = [req EXCEPT ![r] = x] /\ req[r].at \notin Writing
  <2>1. Ask(r, x)
    BY <1>5, <1>7, <1>8, <1>9, <1>10, <1>11, Zenon
  <2> QED BY <2>1, Idle DEF Ask
<1>17. /\ Cross(a)
       /\ UNCHANGED <<session, late, answers, result, extra, grants, overtaken, deaths>>
  BY DEF BeginExtra
<1>18. x.at \in Writing /\ x.a = a
       /\ KnowsOrder(x, session, grants) /\ KnowsScore(x, answers, overtaken)
       /\ (AddsUp(result[a], extra[a]) => Fits(x, result[a], extra[a]))
  BY <1>2, <1>4, <1>12, <1>14, AuthorKnows
<1> QED BY <1>1, <1>13, <1>15, <1>16, <1>17, <1>18, BeginTurn

(* The row of the open answer is marked, unless it is gone.                *)
LEMMA MarkRowKeeps ==
  ASSUME IInv, NEW r \in Handlers, MarkRow(r)
  PROVE  IInv'
<1>1. PICK q \in Marking : q = req[r] /\ q.at = "row"
  BY Handler, Places DEF MarkRow
<1>2. PICK a \in Attempts, m \in Marks : a = q.a /\ m = q.m
  BY <1>1 DEF Marking
<1>3. m \in Nat
  BY TestSessionsAssumption
<1>4. UNCHANGED <<session, late, answers, extra, grants, history>> /\ req[r].at \in Writing
      /\ req[r].a = a
  BY <1>1, <1>2 DEF MarkRow, Writing
<1>5. extra' = [extra EXCEPT ![a] = extra[a]] /\ extra[a] \in [Extras -> {0} \cup Amounts]
  BY <1>4, ResultOf
<1>6. PICK S \in Row : S = result[a] /\ S # NoResult
  <2>1. result[a] # NoResult
    BY <1>1, <1>2, Handler DEF KnowsResult, Writing
  <2> QED BY <2>1, ResultOf
<1>7. LateAt(a, S, extra[a], session, answers, overtaken)
  BY <1>6, ResultOf
<1>8. CASE S.row = q.e /\ S.mark # Gone /\ result' = [result EXCEPT ![a].mark = m]
           /\ Go(r, [q EXCEPT !.at = "total"])
  <2>1. PICK x : x = [q EXCEPT !.at = "total"]
    OBVIOUS
  <2>2. /\ x \in Totalling /\ x.at = "total" /\ x.a = a
        /\ x.manual = q.manual /\ x.graded = q.graded /\ x.final = q.final
    BY <1>1, <1>2, <1>3, <2>1 DEF Marking, Totalling
  <2>3. x \in RequestState
    BY <2>2 DEF RequestState
  <2>4. PICK R : R = [S EXCEPT !.mark = m]
    OBVIOUS
  <2>5. R \in Row /\ R.auto = S.auto /\ R.mark = m
    BY <2>4 DEF Row
  <2>6. R # NoResult
    BY <2>5 DEF Row, NoResult, Score
  <2>7. result' = [result EXCEPT ![a] = R]
    <3>1. result \in [Attempts -> Row \cup {NoResult}]
      BY DEF IInv, Typed, RowsTyped
    <3> QED BY <1>6, <1>8, <2>4, <3>1
  <2>8. LateAt(a, R, extra[a], session, answers, overtaken)
    BY <1>6, <1>7, <2>5, <2>6 DEF LateAt
  <2>9. ASSUME Fits(q, S, extra[a]) PROVE Fits(x, R, extra[a])
    <3>1. /\ q.manual = m /\ q.graded = TRUE
          /\ q.final = S.auto + m + Total(extra[a], NExtra)
      BY <1>1, <1>2, <2>9 DEF Fits
    <3>2. m # Unmarked /\ m # Gone
      BY <1>3 DEF Unmarked, Gone
    <3>3. Counts(R, extra[a], q.manual, q.graded, q.final)
      <4>1. q.graded = (R.mark # Unmarked)
        BY <2>5, <3>1, <3>2, Zenon
      <4>2. q.manual = IF R.mark = Unmarked THEN 0 ELSE R.mark
        BY <2>5, <3>1, <3>2
      <4>3. q.final = R.auto + q.manual + Total(extra[a], NExtra)
        BY <2>5, <3>1
      <4> QED BY <2>5, <3>2, <4>1, <4>2, <4>3, Zenon DEF Counts
    <3> QED BY <2>2, <3>3 DEF Fits
  <2>10. x.at \in Writing /\ \A T, g, A, O : KnowsOrder(x, T, g) /\ KnowsScore(x, A, O)
    BY <2>2, AuthorKnows
  <2>11. R \in Row \cup {NoResult} /\ req' = [req EXCEPT ![r] = x]
         /\ (Fits(req[r], result[a], extra[a]) =>
               IF x.at \in Writing THEN Fits(x, R, extra[a]) ELSE AddsUp(R, extra[a]))
    BY <1>1, <1>6, <1>8, <2>1, <2>5, <2>9, <2>10 DEF Go
  <2> QED BY <1>4, <1>5, <2>2, <2>3, <2>6, <2>7, <2>8, <2>10, <2>11, WriterTurn
<1>9. CASE ~ (S.row = q.e /\ S.mark # Gone) /\ Done(r) /\ UNCHANGED result
  <2>1. result' = [result EXCEPT ![a] = result[a]] /\ result[a] \in Row \cup {NoResult}
    BY <1>9, ResultOf
  <2>2. req' = [req EXCEPT ![r] = NoRequest]
    BY <1>9 DEF Done
  <2>3. ~ Fits(req[r], result[a], extra[a])
    BY <1>1, <1>6, <1>9 DEF Fits
  <2> QED BY <1>4, <1>5, <1>6, <1>7, <2>1, <2>2, <2>3, Idle, WriterTurn
<1> QED BY <1>1, <1>2, <1>6, <1>8, <1>9 DEF MarkRow

(* The old amount leaves the sum and the new one enters it.                *)
LEMMA Rearranged ==
  ASSUME NEW final \in Int, NEW auto \in Int, NEW manual \in Int, NEW plus \in Int,
         NEW old \in Int, NEW m \in Nat, final + old - m = auto + manual + plus
  PROVE  final = auto + manual + (plus - old + m)
OBVIOUS

(* A row of extra points is written, unless it is gone.                    *)
LEMMA WriteExtraKeeps ==
  ASSUME IInv, NEW r \in Handlers, WriteExtra(r)
  PROVE  IInv'
<1>1. PICK q \in Adding : q = req[r] /\ q.at \in {"add", "edit", "drop"}
  BY Handler, Places DEF WriteExtra
<1>2. PICK a \in Attempts, e \in Extras, m \in {0} \cup Amounts : a = q.a /\ e = q.e /\ m = q.m
  BY <1>1 DEF Adding
<1>3. m \in Nat /\ e \in Nat
  BY TestSessionsAssumption DEF Extras
<1>4. UNCHANGED <<session, late, answers, result, grants, history>> /\ req[r].at \in Writing
      /\ req[r].a = a
  BY <1>1, <1>2 DEF WriteExtra, Writing
<1>5. PICK S \in Row : S = result[a] /\ S # NoResult
  <2>1. result[a] # NoResult
    BY <1>1, <1>2, Handler DEF KnowsResult, Writing
  <2> QED BY <2>1, ResultOf
<1>6. result' = [result EXCEPT ![a] = S] /\ S \in Row \cup {NoResult}
  BY <1>4, <1>5, ResultOf
<1>7. PICK E \in [Extras -> {0} \cup Amounts] : E = extra[a]
  BY ResultOf
<1>8. \A F : LateAt(a, S, F, session, answers, overtaken)
  BY <1>5, ResultOf DEF LateAt
<1>9. CASE extra' = [extra EXCEPT ![a][e] = m] /\ Go(r, [q EXCEPT !.at = "sum"])
  <2>1. PICK x : x = [q EXCEPT !.at = "sum"]
    OBVIOUS
  <2>2. /\ x \in Totalling /\ x.at = "sum" /\ x.a = a
        /\ x.manual = q.manual /\ x.graded = q.graded /\ x.final = q.final
    BY <1>1, <1>2, <1>3, <2>1 DEF Adding, Totalling
  <2>3. x \in RequestState
    BY <2>2 DEF RequestState
  <2>4. PICK F : F = [E EXCEPT ![e] = m]
    OBVIOUS
  <2>5. F \in [Extras -> {0} \cup Amounts] /\ Total(F, NExtra) = Total(E, NExtra) - E[e] + m
    BY <2>4, PlusBump
  <2>10. F \in [Extras -> {0} \cup Amounts]
    BY <2>5
  <2>6. extra' = [extra EXCEPT ![a] = F]
    BY <1>7, <1>9, <2>4
  <2>7. ASSUME Fits(q, S, E) PROVE Fits(x, S, F)
    <3>1. PICK f : f = q.final + E[q.e] - q.m
      OBVIOUS
    <3>2. Counts(S, E, q.manual, q.graded, f)
      BY <1>1, <2>7, <3>1 DEF Fits
    <3>3. PICK final \in Int, manual \in Int, auto \in Int, old \in Int, plus \in Int :
             /\ final = q.final /\ manual = q.manual /\ auto = S.auto /\ old = E[e]
             /\ plus = Total(E, NExtra)
      <4>1. q.final \in Int /\ q.manual \in Int
        BY <1>1 DEF Adding
      <4>2. S.auto \in Int
        BY DEF Row, Score
      <4>3. E[e] \in Int /\ Total(E, NExtra) \in Int
        BY AmountsAreNat, PlusTyped
      <4> QED BY <4>1, <4>2, <4>3
    <3>4. f = final + old - m /\ f = auto + manual + plus
      BY <1>2, <3>1, <3>2, <3>3 DEF Counts
    <3>5. final = auto + manual + (plus - old + m)
      BY <1>3, <3>4, Rearranged
    <3>6. q.final = S.auto + q.manual + Total(F, NExtra)
      BY <2>5, <3>3, <3>5, Zenon
    <3>7. Counts(S, F, q.manual, q.graded, q.final)
      BY <3>2, <3>6, Zenon DEF Counts
    <3>8. S.manual = q.manual
      BY <1>1, <2>7 DEF Fits
    <3> QED BY <2>2, <3>7, <3>8 DEF Fits
  <2>8. x.at \in Writing /\ \A T, g, A, O : KnowsOrder(x, T, g) /\ KnowsScore(x, A, O)
    BY <2>2, AuthorKnows
  <2>9. req' = [req EXCEPT ![r] = x]
        /\ (Fits(req[r], result[a], extra[a]) =>
              IF x.at \in Writing THEN Fits(x, S, F) ELSE AddsUp(S, F))
    BY <1>1, <1>5, <1>7, <1>9, <2>1, <2>7, <2>8 DEF Go
  <2> QED BY <1>4, <1>5, <1>6, <1>8, <2>2, <2>3, <2>6, <2>8, <2>9, <2>10, WriterTurn
<1>10. CASE q.at # "add" /\ E[e] = 0 /\ Done(r) /\ UNCHANGED extra
  <2>1. extra' = [extra EXCEPT ![a] = E]
    BY <1>7, <1>10, ResultOf
  <2>2. req' = [req EXCEPT ![r] = NoRequest]
    BY <1>10 DEF Done
  <2>3. ~ Fits(req[r], result[a], extra[a])
    BY <1>1, <1>2, <1>7, <1>10 DEF Fits
  <2> QED BY <1>4, <1>5, <1>6, <1>8, <2>1, <2>2, <2>3, Idle, WriterTurn
<1> QED BY <1>1, <1>2, <1>7, <1>9, <1>10 DEF WriteExtra

(* The totals that follow are written.                                     *)
LEMMA WriteTotalKeeps ==
  ASSUME IInv, NEW r \in Handlers, WriteTotal(r)
  PROVE  IInv'
<1>1. PICK q \in Totalling : q = req[r] /\ q.at \in {"total", "sum"}
  BY Handler, Places DEF WriteTotal
<1>2. PICK a \in Attempts : a = q.a
  BY <1>1 DEF Totalling
<1>3. req[r].at \in Writing /\ req[r].a = a
  BY <1>1, <1>2 DEF Writing
<1>4. PICK S \in Row : S = result[a] /\ S # NoResult
  <2>1. result[a] # NoResult
    BY <1>1, <1>2, Handler DEF KnowsResult, Writing
  <2> QED BY <2>1, ResultOf
<1>5. PICK manual \in Int, final \in Int, graded \in BOOLEAN :
         manual = q.manual /\ final = q.final /\ graded = q.graded
  BY <1>1 DEF Totalling
<1>6. PICK R : R = [S EXCEPT !.manual = IF q.at = "total" THEN manual ELSE S.manual,
                             !.final = final, !.graded = graded]
  OBVIOUS
<1>7. /\ R \in Row /\ R.auto = S.auto /\ R.mark = S.mark
      /\ R.manual = (IF q.at = "total" THEN manual ELSE S.manual)
      /\ R.final = final /\ R.graded = graded
  BY <1>6 DEF Row
<1>8. R # NoResult
  BY <1>7 DEF Row, NoResult, Score
<1>9. /\ result' = [result EXCEPT ![a] = R] /\ req' = [req EXCEPT ![r] = NoRequest]
      /\ UNCHANGED <<session, late, answers, extra, grants, history>>
  <2> DEFINE Written(x) ==
        [result EXCEPT ![x.a] =
           [result[x.a] EXCEPT
              !.manual = IF x.at = "total" THEN x.manual ELSE result[x.a].manual,
              !.final = x.final, !.graded = x.graded]]
  <2>1. /\ result' = Written(req[r])
        /\ req' = [req EXCEPT ![r] = NoRequest]
        /\ UNCHANGED <<session, late, answers, extra, grants, history>>
    BY DEF WriteTotal, Done
  <2> HIDE DEF Written
  <2>2. result' = Written(q)
    BY <1>1, <2>1
  <2>3. R = [result[q.a] EXCEPT
               !.manual = IF q.at = "total" THEN q.manual ELSE result[q.a].manual,
               !.final = q.final, !.graded = q.graded]
    BY <1>2, <1>4, <1>5, <1>6, Zenon
  <2> QED BY <1>2, <2>1, <2>2, <2>3, Zenon DEF Written
<1>10. extra' = [extra EXCEPT ![a] = extra[a]] /\ extra[a] \in [Extras -> {0} \cup Amounts]
  BY <1>9, ResultOf
<1>11. LateAt(a, R, extra[a], session, answers, overtaken)
  BY <1>4, <1>7, <1>8, ResultOf DEF LateAt
<1>12. ASSUME Fits(q, S, extra[a]) PROVE AddsUp(R, extra[a])
  <2>1. Counts(S, extra[a], manual, graded, final)
    BY <1>1, <1>5, <1>12 DEF Fits
  <2>3. q.at = "sum" => S.manual = manual
    BY <1>5, <1>12 DEF Fits
  <2>4. R.manual = manual
    BY <1>1, <1>7, <2>3
  <2>2. Counts(R, extra[a], R.manual, R.graded, R.final)
    BY <1>7, <2>1, <2>4, Zenon DEF Counts
  <2> QED BY <2>2 DEF AddsUp
<1>13. R \in Row \cup {NoResult}
       /\ (Fits(req[r], result[a], extra[a]) =>
             IF NoRequest.at \in Writing THEN Fits(NoRequest, R, extra[a])
             ELSE AddsUp(R, extra[a]))
  BY <1>1, <1>4, <1>7, <1>12, Idle
<1> QED BY <1>3, <1>8, <1>9, <1>10, <1>11, <1>13, Idle, WriterTurn

-----------------------------------------------------------------------------
(* A changed row keeps its type.                                           *)
LEMMA RowsOfAnswers ==
  ASSUME NEW s \in Seq(BOOLEAN), NEW right \in BOOLEAN, NEW k
  PROVE  Append(s, right) \in Seq(BOOLEAN) /\ [s EXCEPT ![k] = right] \in Seq(BOOLEAN)
<1>1. PICK n \in Nat : s \in [1..n -> BOOLEAN]
  BY SeqDef
<1>2. [s EXCEPT ![k] = right] \in [1..n -> BOOLEAN]
  BY <1>1
<1> QED BY <1>2, SeqDef

(* An answer is saved in time, or the attempt is marked as overtaken.      *)
LEMMA SaveKeeps ==
  ASSUME IInv, NEW r \in Handlers, Save(r)
  PROVE  IInv'
<1>1. PICK q \in Saving : q = req[r] /\ q.at = "save"
  BY Handler, Places DEF Save
<1>2. PICK a \in Attempts, t \in Standard, right \in BOOLEAN :
        a = q.a /\ t = q.q /\ right = q.right
  BY <1>1 DEF Saving
<1>3. /\ req' = [req EXCEPT ![r] = NoRequest]
      /\ overtaken' = overtaken \cup {b \in {a} : ~ Open(b)}
      /\ UNCHANGED <<session, late, result, extra, grants, crossed, deaths>>
  BY <1>1, <1>2 DEF Save, Done, Open
<1>4. /\ answers \in [Attempts -> [Standard -> Seq(BOOLEAN)]]
      /\ overtaken \subseteq Attempts
  BY DEF IInv, Typed, RowsTyped
<1>5. PICK rows \in Seq(BOOLEAN) : answers' = [answers EXCEPT ![a][t] = rows]
  <2>1. PICK old \in Seq(BOOLEAN) : old = answers[a][t]
    BY <1>4
  <2>2. PICK rows : rows = IF q.row = 0 THEN Append(old, right) ELSE [old EXCEPT ![q.row] = right]
    OBVIOUS
  <2>3. rows \in Seq(BOOLEAN)
    BY <2>2, RowsOfAnswers
  <2>4. answers' = [answers EXCEPT ![a][t] = rows]
    BY <1>1, <1>2, <2>1, <2>2 DEF Save
  <2> QED BY <2>3, <2>4
<1>6. /\ answers' \in [Attempts -> [Standard -> Seq(BOOLEAN)]]
      /\ \A b \in Attempts : b # a => answers'[b] = answers[b]
  BY <1>4, <1>5
<1>7. \A b \in Attempts : answers'[b] = answers[b] \/ session[b] \notin Finished \/ b \in overtaken'
  BY <1>3, <1>6 DEF Open, Finished
<1>8. overtaken' \subseteq Attempts /\ overtaken \subseteq overtaken'
  BY <1>3, <1>4
<1>9. RowsTyped'
  BY <1>3, <1>6, <1>8 DEF IInv, Typed, RowsTyped
<1>10. Orderly'
  BY <1>3 DEF IInv, Orderly
<1>11. Grows
  <2>1. PICK g \in Nat : g = grants
    BY DEF IInv, Typed, RowsTyped
  <2>2. grants' >= grants
    BY <1>3, <2>1
  <2> QED BY <1>3, <1>7, <1>8, <2>2 DEF Grows
<1>12. ResultsLate'
  <2>1. ASSUME NEW b \in Attempts
        PROVE  LateAt(b, result[b], extra[b], session, answers', overtaken')
    <3>1. LateAt(b, result[b], extra[b], session, answers, overtaken)
      BY DEF IInv, ResultsLate
    <3> QED BY <1>7, <1>8, <3>1 DEF LateAt
  <2> QED BY <1>3, <2>1 DEF ResultsLate
<1>13. Scored'
  BY <1>1, <1>3, Idle, QuietScored DEF Writing
<1>14. /\ KnowsOrder(NoRequest, session', grants') /\ KnowsScore(NoRequest, answers', overtaken')
       /\ KnowsResult(NoRequest, result')
  BY Idle DEF KnowsResult
<1> QED BY <1>3, <1>9, <1>10, <1>11, <1>12, <1>13, <1>14, Idle, TurnKeeps

(* A handler that dies leaves a result it was writing in doubt.            *)
LEMMA DieKeeps ==
  ASSUME IInv, NEW r \in Handlers, Die(r)
  PROVE  IInv'
<1>1. /\ req' = [req EXCEPT ![r] = NoRequest] /\ deaths < MaxDeaths /\ deaths' = deaths + 1
      /\ crossed' = crossed \cup {a \in Attempts : r \in Writers(a)}
      /\ UNCHANGED <<session, late, answers, result, extra, grants, overtaken>>
  BY DEF Die, Done
<1>2. req \in [Handlers -> RequestState] /\ deaths \in 0..MaxDeaths /\ MaxDeaths \in Nat
  BY TestSessionsAssumption DEF IInv, Typed, RowsTyped
<1>3. deaths' \in 0..MaxDeaths
  BY <1>1, <1>2
<1>4. RowsTyped' /\ ResultsLate'
  <2>1. crossed' \subseteq Attempts
    BY <1>1 DEF IInv, Typed, RowsTyped
  <2> QED BY <1>1, <1>3, <2>1 DEF IInv, Typed, RowsTyped, ResultsLate
<1>5. Grows /\ Orderly'
  BY <1>1, NothingLost
<1>6. Scored'
  <2>1. ASSUME NEW b \in Attempts \ crossed' PROVE ScoredAt(b)'
    <3>1. ScoredAt(b) /\ r \notin Writers(b)
      BY <1>1 DEF IInv, Scored
    <3> QED BY <1>1, <1>2, <3>1, Idle, ScoredElsewhere
  <2> QED BY <2>1 DEF Scored
<1>7. /\ KnowsOrder(NoRequest, session', grants') /\ KnowsScore(NoRequest, answers', overtaken')
      /\ KnowsResult(NoRequest, result')
  BY Idle DEF KnowsResult
<1> QED BY <1>1, <1>4, <1>5, <1>6, <1>7, Idle, TurnKeeps

(* A step that no handler takes, and that touches no attempt.              *)
LEMMA OtherKeeps ==
  ASSUME IInv, RowsTyped', Grows, Orderly',
         UNCHANGED <<session, answers, result, extra, req, history>>
  PROVE  IInv'
<1>1. Typed' /\ Typed
  BY DEF IInv, Typed
<1>2. ResultsLate' /\ Scored'
  BY DEF IInv, ResultsLate, Scored, ScoredAt, Writers, history
<1>3. Known'
  <2>1. ASSUME NEW s \in Handlers
        PROVE  /\ KnowsOrder(req'[s], session', grants')
               /\ KnowsScore(req'[s], answers', overtaken')
               /\ KnowsResult(req'[s], result')
    <3>1. PICK q \in RequestState : q = req[s]
      BY Handler
    <3>2. /\ KnowsOrder(q, session', grants') /\ KnowsScore(q, answers', overtaken')
          /\ KnowsResult(q, result')
      BY <1>1, <3>1, Handler, StillKnown
    <3> QED BY <3>1, <3>2
  <2> QED BY <2>1 DEF Known
<1> QED BY <1>1, <1>2, <1>3 DEF IInv

(* Time passes, ...                                                        *)
LEMMA ExpireKeeps ==
  ASSUME IInv, NEW a \in Attempts, Expire(a)
  PROVE  IInv'
<1>1. /\ UNCHANGED <<session, answers, result, extra, grants, req, history>>
      /\ late' = late \cup {a}
  BY DEF Expire
<1>2. RowsTyped'
  BY <1>1 DEF IInv, Typed, RowsTyped, history
<1>3. Grows /\ Orderly'
  BY <1>1, NothingLost DEF history
<1> QED BY <1>1, <1>2, <1>3, OtherKeeps

(* ... and another attempt is permitted.                                   *)
LEMMA ReopenKeeps ==
  ASSUME IInv, Reopen
  PROVE  IInv'
<1>1. /\ UNCHANGED <<session, late, answers, result, extra, req, history>>
      /\ grants' = grants + 1 /\ grants < MaxGrants
  BY DEF Reopen
<1>2. grants \in 0..MaxGrants /\ MaxGrants \in Nat /\ NAttempts \in Nat
  BY TestSessionsAssumption DEF IInv, Typed, RowsTyped
<1>3. PICK g \in Nat, h \in Nat : g = grants /\ h = grants' /\ h = g + 1 /\ h \in 0..MaxGrants
  BY <1>1, <1>2
<1>4. RowsTyped'
  BY <1>1, <1>3 DEF IInv, Typed, RowsTyped, history
<1>5. grants' >= grants
  BY <1>3
<1>6. Grows
  BY <1>1, <1>5 DEF Grows, history
<1>7. Orderly'
  <2>1. PICK k \in 0..NAttempts : OrderlyAt(k, session, g)
    BY <1>3, TakenAre
  <2>2. OrderlyAt(k, session, h)
    BY <1>2, <1>3, <2>1 DEF OrderlyAt
  <2> QED BY <1>1, <1>3, <2>2 DEF Orderly
<1> QED BY <1>1, <1>4, <1>6, <1>7, OtherKeeps

-----------------------------------------------------------------------------
(* Nothing has happened at first.                                          *)
LEMMA InitInv == Init => IInv
<1> SUFFICES ASSUME Init PROVE IInv
  OBVIOUS
<1>1. NAttempts \in Nat /\ MaxGrants \in Nat /\ MaxDeaths \in Nat
  BY TestSessionsAssumption
<1>2. /\ session = [a \in Attempts |-> "none"] /\ late = {} /\ grants = 0 /\ deaths = 0
      /\ answers = [a \in Attempts |-> [q \in Standard |-> <<>>]]
      /\ result = [a \in Attempts |-> NoResult]
      /\ extra = [a \in Attempts |-> [e \in Extras |-> 0]]
      /\ req = [r \in Handlers |-> NoRequest]
      /\ overtaken = {} /\ crossed = {}
  BY DEF Init
<1>3. Typed
  BY <1>1, <1>2, Idle DEF Typed, RowsTyped
<1>4. Orderly
  <2>1. \A a \in Attempts : ~ (a <= 0) /\ ~ (a < 0)
    BY DEF Attempts
  <2>2. OrderlyAt(0, session, grants)
    BY <1>2, <2>1 DEF OrderlyAt, Before
  <2> QED BY <1>1, <2>2 DEF Orderly
<1>5. Known
  BY <1>2, Idle DEF Known, KnowsResult
<1>6. ResultsLate
  BY <1>2 DEF ResultsLate, LateAt
<1>7. Scored
  <2>1. ASSUME NEW a \in Attempts PROVE ScoredAt(a)
    <3>1. Writers(a) = {} /\ result[a] = NoResult
      BY <1>2, Idle DEF Writers
    <3> QED BY <3>1 DEF ScoredAt, AddsUp
  <2> QED BY <2>1 DEF Scored
<1> QED BY <1>3, <1>4, <1>5, <1>6, <1>7 DEF IInv

(* Every step keeps the invariant.                                         *)
LEMMA StepInv ==
  ASSUME IInv, [Next]_vars
  PROVE  IInv'
<1>1. CASE UNCHANGED vars
  BY <1>1 DEF vars, history, IInv, Typed, RowsTyped, Orderly, Known, ResultsLate, Scored,
              ScoredAt, Writers
<1>2. ASSUME NEW r \in Requests, Start(r) \/ View(r) PROVE IInv'
  BY <1>2, StartKeeps, CloseLateKeeps DEF View, Handlers
<1>3. ASSUME NEW r \in Requests, NEW a \in Attempts,
             BeginSave(r, a) \/ BeginSubmit(r, a) \/ BeginMark(r, a) \/ BeginExtra(r, a)
      PROVE  IInv'
  BY <1>3, BeginSaveKeeps, BeginSubmitKeeps, BeginMarkKeeps, BeginExtraKeeps DEF Handlers
<1>4. CASE CloseLate(Job)
  BY <1>4, CloseLateKeeps DEF Handlers
<1>5. ASSUME NEW r \in Handlers, Step(r) \/ Die(r) PROVE IInv'
  BY <1>5, CreateKeeps, SaveKeeps, CloseKeeps, LoadKeeps, FindKeeps, InsertKeeps, ClearKeeps,
     RewriteKeeps, MarkRowKeeps, WriteExtraKeeps, WriteTotalKeeps, DieKeeps DEF Step
<1>6. ASSUME NEW a \in Attempts, Expire(a) PROVE IInv'
  BY <1>6, ExpireKeeps
<1>7. CASE Reopen
  BY <1>7, ReopenKeeps
<1> QED BY <1>1, <1>2, <1>3, <1>4, <1>5, <1>6, <1>7 DEF Next

(* The invariant holds in every reachable state.                           *)
LEMMA AttemptsInduction == Spec => []IInv
<1>1. IInv /\ [Next]_vars => IInv'
  BY StepInv
<1> QED BY <1>1, InitInv, PTL DEF Spec

-----------------------------------------------------------------------------
(* Statuses, rows and requests keep their shape, whatever is in flight.    *)
THEOREM AttemptsAreTyped == Spec => []TypeOK
<1>1. IInv => TypeOK
  <2> SUFFICES ASSUME IInv PROVE TypeOK
    OBVIOUS
  <2>1. Typed
    BY DEF IInv
  <2>2. ASSUME NEW a \in Attempts, result[a] # NoResult
        PROVE  /\ result[a].auto \in 0..Cardinality(Standard)
               /\ result[a].mark \in {Unmarked, Gone} \cup Marks
               /\ session[a] \in Finished
    <3>1. result[a] \in Row
      BY <2>2, ResultOf
    <3>2. session[a] \in Finished
      BY <2>2, ResultOf DEF LateAt
    <3> QED BY <3>1, <3>2 DEF Row, Score
  <2>3. ASSUME NEW r \in Handlers, req[r] # NoRequest PROVE req[r].a \in Attempts
    BY <2>3, Handler, Places
  <2> QED BY <2>1, <2>2, <2>3 DEF TypeOK, Typed, RowsTyped
<1> QED BY <1>1, AttemptsInduction, PTL

(* However often and at what time the student starts: one attempt is in    *)
(* progress at a time, none is left out, and there are no more of them     *)
(* than permissions.                                                       *)
THEOREM OneAttemptAtATime == Spec => []OneAttempt
<1>1. IInv => OneAttempt
  <2> SUFFICES ASSUME IInv PROVE OneAttempt
    OBVIOUS
  <2>1. PICK k \in 0..NAttempts : /\ OrderlyAt(k, session, grants)
                                  /\ Taken = 1..k /\ Cardinality(Taken) = k
    BY TakenAre
  <2>2. /\ NAttempts \in Nat /\ Attempts = 1..NAttempts
        /\ session \in [Attempts -> {"none", "in_progress"} \cup Finished]
    BY TestSessionsAssumption DEF IInv, Typed, RowsTyped, Attempts
  <2>3. ASSUME NEW a \in Attempts, Open(a) PROVE a = k
    <3>1. a <= k
      BY <2>1, <2>3 DEF OrderlyAt, Open
    <3>2. ~ (a < k)
      BY <2>1, <2>3 DEF OrderlyAt, Before, Open, Finished
    <3> QED BY <2>2, <3>1, <3>2
  <2>4. Cardinality({a \in Attempts : Open(a)}) <= 1
    <3> DEFINE T == {a \in Attempts : Open(a)}
    <3>1. T \subseteq {k}
      BY <2>3
    <3>2. IsFiniteSet({k}) /\ Cardinality({k}) = 1
      BY FS_Singleton
    <3> HIDE DEF T
    <3>3. Cardinality(T) <= Cardinality({k})
      BY <3>1, <3>2, FS_Subset
    <3> QED BY <3>2, <3>3 DEF T
  <2>5. ASSUME NEW a \in Attempts, NEW b \in Attempts, a < b, session[b] # "none"
        PROVE  session[a] \in Finished
    <3>1. b <= k
      BY <2>1, <2>5 DEF OrderlyAt
    <3>2. a < k
      BY <2>2, <2>5, <3>1
    <3> QED BY <2>1, <3>2 DEF OrderlyAt, Before
  <2>6. Cardinality(Taken) <= 1 + grants
    BY <2>1 DEF OrderlyAt
  <2> QED BY <2>1, <2>4, <2>5, <2>6 DEF OneAttempt
<1> QED BY <1>1, AttemptsInduction, PTL

(* A result that nobody writes is the sum of its parts, also when it was   *)
(* graded again, unless two handlers crossed or one died.                  *)
THEOREM ScoresAddUp == Spec => []ScoreAddsUp
<1>1. IInv => ScoreAddsUp
  <2> SUFFICES ASSUME IInv, NEW a \in Attempts,
                      result[a] # NoResult, a \notin crossed, Writers(a) = {}
               PROVE  /\ result[a].manual = IF result[a].mark = Unmarked THEN 0
                                            ELSE result[a].mark
                      /\ result[a].graded = (result[a].mark # Unmarked)
                      /\ result[a].final = result[a].auto + result[a].manual + Plus(a)
    BY DEF ScoreAddsUp
  <2>1. AddsUp(result[a], extra[a])
    BY DEF IInv, Scored, ScoredAt
  <2>2. Counts(result[a], extra[a], result[a].manual, result[a].graded, result[a].final)
    BY <2>1 DEF AddsUp
  <2> QED BY <2>2, ResultOf, Zenon DEF Counts
<1> QED BY <1>1, AttemptsInduction, PTL

(* The score of a result is that of the answers of its attempt, unless an  *)
(* answer came after the attempt had been finished.                        *)
THEOREM SavedAnswersCount == Spec => []AnswersCounted
<1>1. IInv => AnswersCounted
  <2> SUFFICES ASSUME IInv, NEW a \in Attempts, result[a] # NoResult, a \notin overtaken
               PROVE  result[a].auto \in Scores(a)
    BY DEF AnswersCounted
  <2>1. result[a].auto \in ScoresOf(answers[a])
    BY ResultOf DEF LateAt
  <2> QED BY <2>1, Unfolded
<1> QED BY <1>1, AttemptsInduction, PTL
=============================================================================
