---------------------------- MODULE TestSessions ----------------------------
(***************************************************************************)
(* One student's attempts at one test (testSession.service.js), their      *)
(* grading (testResult.service.js), the permission for another attempt     *)
(* (testBinding.service.js) and the job that closes abandoned attempts     *)
(* (testSessionExpiry.job.js).                                             *)
(*                                                                         *)
(* No handler here is a transaction.  A step is one database call with the *)
(* checks around it; a request is what its handler has read so far.  The   *)
(* job runs in a request of its own, so that students and teachers cannot  *)
(* keep it from starting.  A test has questions with options, which are    *)
(* graded at once, and one open question, which its author marks; its text *)
(* is saved like an option is, and no score depends on it.                 *)
(***************************************************************************)
EXTENDS PrefixSums, Sequences

CONSTANTS
    NAttempts,   \* bound on the attempts of the student
    Standard,    \* the questions with options
    Requests,    \* handlers of students and teachers that may run at once
    Job,         \* the request the expiry job runs in
    Mixes,       \* sets of operations that are explored together
    Marks,       \* points for the open answer
    Amounts,     \* amounts of extra points
    NExtra,      \* bound on rows of extra points of a result
    MaxGrants,   \* bound on permissions for another attempt
    MaxDeaths    \* bound on handlers that die

AllOps == {"save", "view", "reopen", "mark", "extra"}

ASSUME TestSessionsAssumption ==
    /\ {NAttempts, NExtra, MaxGrants, MaxDeaths} \subseteq Nat
    /\ Mixes \subseteq SUBSET AllOps /\ Job \notin Requests
    /\ Marks \subseteq Nat /\ Amounts \subseteq Nat \ {0}
    /\ IsFiniteSet(Standard)

Attempts == 1..NAttempts
Handlers == Requests \cup {Job}
Extras   == 1..NExtra

VARIABLES
    ops,       \* the operations of this behaviour, besides start and submit
    session,   \* attempt -> TestSession.status, "none" before there is a row
    late,      \* attempts whose expiresAt has passed
    answers,   \* attempt -> question -> its rows: is the selected option the right one?
    result,    \* attempt -> its TestResult row
    extra,     \* attempt -> its TestResultExtraPoint rows, 0 where there is none
    grants,    \* TestBindingReopenGrant rows of the student
    req,       \* handlers that run
    overtaken, \* history: attempts with an answer saved after they were finished
    crossed,   \* history: attempts whose result two handlers wrote at the same time
    deaths

history == <<overtaken, crossed, deaths>>
vars == <<ops, session, late, answers, result, extra, grants, req, overtaken, crossed, deaths>>

NoRequest == [at |-> "idle"]
NoResult  == [auto |-> -1]
Finished  == {"submitted", "expired"}

(* The row of the open question: its points, or not marked yet, or deleted *)
(* for a moment while the result is written again; `row` tells it from the *)
(* row that takes its place then.                                          *)
Unmarked == -1
Gone     == -2
NewResult(auto, plus, row) ==
    [auto |-> auto, manual |-> 0, final |-> auto + plus, graded |-> FALSE,
     mark |-> Unmarked, row |-> row]

Init ==
    /\ ops \in Mixes
    /\ session = [a \in Attempts |-> "none"]
    /\ late = {}
    /\ answers = [a \in Attempts |-> [q \in Standard |-> <<>>]]
    /\ result = [a \in Attempts |-> NoResult]
    /\ extra = [a \in Attempts |-> [e \in Extras |-> 0]]
    /\ grants = 0
    /\ req = [r \in Handlers |-> NoRequest]
    /\ overtaken = {} /\ crossed = {} /\ deaths = 0

Ask(r, q) == req[r] = NoRequest /\ req' = [req EXCEPT ![r] = q]
Go(r, q) == req' = [req EXCEPT ![r] = q]
Done(r) == req' = [req EXCEPT ![r] = NoRequest]

Plus(a) == Total(extra[a], NExtra)
Open(a) == session[a] = "in_progress"

-----------------------------------------------------------------------------
(* The student.                                                            *)

(* A bug: nobody looks whether the number is taken.                        *)
CreateAny(r) ==
    /\ req[r].at = "create"
    /\ session' = [session EXCEPT ![req[r].a] = "in_progress"]
    /\ Done(r)
    /\ UNCHANGED <<ops, late, answers, result, extra, grants, history>>

(* The row of a new attempt; the database refuses a number that is taken.  *)
Create(r) ==
    /\ req[r].at = "create"
    /\ session' = [session EXCEPT ![req[r].a] = IF @ = "none" THEN "in_progress" ELSE @]
    /\ Done(r)
    /\ UNCHANGED <<ops, late, answers, result, extra, grants, history>>

(* A bug: the attempt is graded and not closed.                            *)
FinaliseUnclosed(a, to, n) == [at |-> "load", a |-> a, to |-> to, n |-> n]

(* What a finalisation goes on to when it is over: startSession creates    *)
(* attempt n, the others end (0).                                          *)
Finalise(a, to, n) == [at |-> "close", a |-> a, to |-> to, n |-> n]

(* A finalisation is over.                                                 *)
Over(r) == IF req[r].n = 0 THEN Done(r) ELSE Go(r, [at |-> "create", a |-> req[r].n])

(* startSession reads the permissions and the attempts so far.  An attempt *)
(* in progress is shown again, or finalised when its time is over.         *)
Taken == {a \in Attempts : session[a] # "none"}
Start(r) ==
    LET n == Cardinality(Taken) + 1
        Late == {a \in late : Open(a)}
        may == n <= 1 + grants /\ n <= NAttempts
    IN  /\ \A a \in Attempts : Open(a) => a \in late
        /\ \/ /\ Late = {} /\ may
              /\ Ask(r, [at |-> "create", a |-> n])
           \/ \E a \in Late : Ask(r, Finalise(a, "expired", IF may THEN n ELSE 0))
        /\ UNCHANGED <<ops, session, late, answers, result, extra, grants, history>>

(* expiresAt passes.                                                       *)
Expire(a) ==
    /\ Open(a) /\ a \notin late
    /\ late' = late \cup {a}
    /\ UNCHANGED <<ops, session, answers, result, extra, grants, req, history>>

(* saveAnswer reads the attempt with its answers; out of time it finalises *)
(* instead.                                                                *)
BeginSave(r, a) ==
    /\ Open(a) /\ "save" \in ops
    /\ \/ /\ a \notin late
          /\ \E q \in Standard, right \in BOOLEAN : \E row \in 0..Len(answers[a][q]) :
               /\ row = 0 <=> answers[a][q] = <<>>
               /\ Ask(r, [at |-> "save", a |-> a, q |-> q, right |-> right, row |-> row])
       \/ /\ a \in late
          /\ Ask(r, Finalise(a, "expired", 0))
    /\ UNCHANGED <<ops, session, late, answers, result, extra, grants, history>>

(* The row is updated, or created when none was read.                      *)
Save(r) ==
    /\ req[r].at = "save"
    /\ LET a == req[r].a
           q == req[r].q
       IN  /\ answers' = [answers EXCEPT ![a][q] =
                            IF req[r].row = 0 THEN Append(@, req[r].right)
                            ELSE [@ EXCEPT ![req[r].row] = req[r].right]]
           /\ overtaken' = overtaken \cup {b \in {a} : ~ Open(a)}
    /\ Done(r)
    /\ UNCHANGED <<ops, session, late, result, extra, grants, crossed, deaths>>

(* submitSession; out of time it submits all the same.                     *)
BeginSubmit(r, a) ==
    /\ Open(a)
    /\ Ask(r, Finalise(a, "submitted", 0))
    /\ UNCHANGED <<ops, session, late, answers, result, extra, grants, history>>

(* getSessionForStudent, and the job: an attempt out of time is finalised. *)
CloseLate(r) == \E a \in late :
    /\ Open(a)
    /\ Ask(r, Finalise(a, "expired", 0))
    /\ UNCHANGED <<ops, session, late, answers, result, extra, grants, history>>
View(r) == "view" \in ops /\ CloseLate(r)

-----------------------------------------------------------------------------
(* Finalisation: the status, then gradeSession.                            *)

(* A bug: finalizeExpiredSession believes that somebody else grades.       *)
CloseUngraded(r) ==
    /\ req[r].at = "close"
    /\ session' = [session EXCEPT ![req[r].a] = req[r].to]
    /\ IF req[r].to = "expired" THEN Over(r) ELSE Go(r, [req[r] EXCEPT !.at = "load"])
    /\ UNCHANGED <<ops, late, answers, result, extra, grants, history>>

(* The update names the attempt by its id only.                            *)
Close(r) ==
    /\ req[r].at = "close"
    /\ session' = [session EXCEPT ![req[r].a] = req[r].to]
    /\ Go(r, [req[r] EXCEPT !.at = "load"])
    /\ UNCHANGED <<ops, late, answers, result, extra, grants, history>>

(* The scores an attempt may get: where a question has several rows, the   *)
(* one that the database returns last counts.                              *)
Scores(a) ==
    LET Answered == {q \in Standard : answers[a][q] # <<>>}
        Surely == {q \in Answered : \A k \in DOMAIN answers[a][q] : answers[a][q][k]}
        Maybe == {q \in Answered : \E k \in DOMAIN answers[a][q] : answers[a][q][k]}
    IN  Cardinality(Surely)..Cardinality(Maybe)

(* A bug: every right row counts, not every question.                      *)
LoadPerRow(r) ==
    /\ req[r].at = "load"
    /\ LET Right(q) == {k \in DOMAIN answers[req[r].a][q] : answers[req[r].a][q][k]}
           auto == SumOver([q \in Standard |-> Cardinality(Right(q))], Standard)
       IN  Go(r, [at |-> "find", a |-> req[r].a, n |-> req[r].n, auto |-> auto])
    /\ UNCHANGED <<ops, session, late, answers, result, extra, grants, history>>

Load(r) ==
    /\ req[r].at = "load"
    /\ \E auto \in Scores(req[r].a) :
         Go(r, [at |-> "find", a |-> req[r].a, n |-> req[r].n, auto |-> auto])
    /\ UNCHANGED <<ops, session, late, answers, result, extra, grants, history>>

(* Handlers between their reading of the result of a and their last write. *)
Writing == {"insert", "clear", "rewrite", "row", "add", "edit", "drop", "total", "sum"}
Writers(a) == {r \in Handlers : req[r].at \in Writing /\ req[r].a = a}
Cross(a) == crossed' = crossed \cup {b \in {a} : Writers(a) # {}}

Find(r) ==
    /\ req[r].at = "find"
    /\ LET a == req[r].a IN
         /\ Go(r, [at |-> IF result[a] = NoResult THEN "insert" ELSE "clear",
                   a |-> a, n |-> req[r].n, auto |-> req[r].auto, plus |-> Plus(a)])
         /\ Cross(a)
    /\ UNCHANGED <<ops, session, late, answers, result, extra, grants, overtaken, deaths>>

(* A session has one result: a second create fails.                        *)
Insert(r) ==
    /\ req[r].at = "insert"
    /\ LET a == req[r].a IN
       \/ /\ result[a] = NoResult
          /\ result' = [result EXCEPT ![a] = NewResult(req[r].auto, 0, 1)]
          /\ Over(r)
       \/ /\ result[a] # NoResult
          /\ Done(r) /\ UNCHANGED result
    /\ UNCHANGED <<ops, session, late, answers, extra, grants, history>>

(* A second grading deletes the rows of the questions ...                  *)
Clear(r) ==
    /\ req[r].at = "clear"
    /\ result' = [result EXCEPT ![req[r].a].mark = Gone]
    /\ Go(r, [req[r] EXCEPT !.at = "rewrite"])
    /\ UNCHANGED <<ops, session, late, answers, extra, grants, history>>

(* A bug: the extra points do not count again.                             *)
RewriteBare(r) ==
    /\ req[r].at = "rewrite"
    /\ result' = [result EXCEPT ![req[r].a] = NewResult(req[r].auto, 0, @.row + 1)]
    /\ Over(r)
    /\ UNCHANGED <<ops, session, late, answers, extra, grants, history>>

(* ... and writes the result anew with the extra points it has read.       *)
Rewrite(r) ==
    /\ req[r].at = "rewrite"
    /\ result' = [result EXCEPT ![req[r].a] = NewResult(req[r].auto, req[r].plus, @.row + 1)]
    /\ Over(r)
    /\ UNCHANGED <<ops, session, late, answers, extra, grants, history>>

-----------------------------------------------------------------------------
(* The author of the test.                                                 *)

(* reopenSessionForStudent: no attempt in progress, and at least one.  Its *)
(* two reads and its insert are one step here.                             *)
Reopen ==
    /\ "reopen" \in ops /\ grants < MaxGrants
    /\ Taken # {} /\ ~ \E a \in Attempts : Open(a)
    /\ grants' = grants + 1
    /\ UNCHANGED <<ops, session, late, answers, result, extra, req, history>>

(* gradeOpenAnswer, addExtraPoints, editExtraPoints and deleteExtraPoints  *)
(* read the result with its rows, change a row, and write the totals that  *)
(* follow from what they read.  `e` is the row (a new one takes a place    *)
(* that no other request takes) and `m` the points it gets.                *)
BeginMark(r, a) ==
    /\ "mark" \in ops /\ result[a] # NoResult /\ result[a].mark # Gone
    /\ \E m \in Marks :
         Ask(r, [at |-> "row", a |-> a, e |-> result[a].row, m |-> m,
                 manual |-> m, final |-> result[a].auto + m + Plus(a), graded |-> TRUE])
    /\ Cross(a)
    /\ UNCHANGED <<ops, session, late, answers, result, extra, grants, overtaken, deaths>>

BeginExtra(r, a) ==
    /\ "extra" \in ops /\ result[a] # NoResult
    /\ \E e \in Extras, m \in Amounts \cup {0} :
         /\ m # 0 \/ extra[a][e] # 0
         /\ \A w \in Writers(a) : req[w].at = "add" => req[w].e # e
         /\ Ask(r, [at |-> IF extra[a][e] = 0 THEN "add" ELSE IF m = 0 THEN "drop" ELSE "edit",
                    a |-> a, e |-> e, m |-> m, manual |-> result[a].manual,
                    final |-> result[a].auto + result[a].manual + Plus(a) - extra[a][e] + m,
                    graded |-> result[a].mark # Unmarked])
    /\ Cross(a)
    /\ UNCHANGED <<ops, session, late, answers, result, extra, grants, overtaken, deaths>>

(* The row that was read may have been deleted since.                      *)
MarkRow(r) ==
    /\ req[r].at = "row"
    /\ LET a == req[r].a IN
       \/ /\ result[a].row = req[r].e /\ result[a].mark # Gone
          /\ result' = [result EXCEPT ![a].mark = req[r].m]
          /\ Go(r, [req[r] EXCEPT !.at = "total"])
       \/ /\ ~ (result[a].row = req[r].e /\ result[a].mark # Gone)
          /\ Done(r) /\ UNCHANGED result
    /\ UNCHANGED <<ops, session, late, answers, extra, grants, history>>

(* An old row may be gone since.                                           *)
WriteExtra(r) ==
    /\ req[r].at \in {"add", "edit", "drop"}
    /\ LET a == req[r].a
           e == req[r].e
       IN  \/ /\ req[r].at = "add" \/ extra[a][e] # 0
              /\ extra' = [extra EXCEPT ![a][e] = req[r].m]
              /\ Go(r, [req[r] EXCEPT !.at = "sum"])
           \/ /\ req[r].at # "add" /\ extra[a][e] = 0
              /\ Done(r) /\ UNCHANGED extra
    /\ UNCHANGED <<ops, session, late, answers, result, grants, history>>

(* Only a mark writes the points of the open answers; after extra points   *)
(* they are just part of the sum.                                          *)
WriteTotal(r) ==
    /\ req[r].at \in {"total", "sum"}
    /\ LET q == req[r]
           R == result[q.a]
       IN  result' = [result EXCEPT ![q.a] =
                        [R EXCEPT !.manual = IF q.at = "total" THEN q.manual ELSE R.manual,
                                  !.final = q.final, !.graded = q.graded]]
    /\ Done(r)
    /\ UNCHANGED <<ops, session, late, answers, extra, grants, history>>

-----------------------------------------------------------------------------
(* The process or the database connection of a handler dies.               *)
Die(r) ==
    /\ req[r] # NoRequest /\ deaths < MaxDeaths
    /\ deaths' = deaths + 1
    /\ crossed' = crossed \cup {a \in Attempts : r \in Writers(a)}
    /\ Done(r)
    /\ UNCHANGED <<ops, session, late, answers, result, extra, grants, overtaken>>

Step(r) ==
    \/ Create(r) \/ Save(r)
    \/ Close(r) \/ Load(r) \/ Find(r) \/ Insert(r) \/ Clear(r) \/ Rewrite(r)
    \/ MarkRow(r) \/ WriteExtra(r) \/ WriteTotal(r)

Next ==
    \/ \E r \in Requests :
         \/ Start(r) \/ View(r)
         \/ \E a \in Attempts : \/ BeginSave(r, a) \/ BeginSubmit(r, a)
                                \/ BeginMark(r, a) \/ BeginExtra(r, a)
    \/ CloseLate(Job)
    \/ \E r \in Handlers : Step(r) \/ Die(r)
    \/ \E a \in Attempts : Expire(a)
    \/ Reopen

Spec == Init /\ [][Next]_vars

(* The event loop runs every continuation, and the job starts every minute. *)
Fairness == WF_vars(CloseLate(Job)) /\ \A r \in Handlers : WF_vars(Step(r))
FairSpec == Spec /\ Fairness

-----------------------------------------------------------------------------
(* Statuses, rows and requests keep their shape, whatever is in flight.    *)
TypeOK ==
    /\ session \in [Attempts -> {"none", "in_progress"} \cup Finished]
    /\ late \subseteq Attempts /\ overtaken \subseteq Attempts /\ crossed \subseteq Attempts
    /\ answers \in [Attempts -> [Standard -> Seq(BOOLEAN)]]
    /\ extra \in [Attempts -> [Extras -> {0} \cup Amounts]]
    /\ grants \in 0..MaxGrants /\ deaths \in 0..MaxDeaths
    /\ \A a \in Attempts : result[a] # NoResult =>
         /\ result[a].auto \in 0..Cardinality(Standard)
         /\ result[a].mark \in {Unmarked, Gone} \cup Marks
         /\ session[a] \in Finished
    /\ \A r \in Handlers : req[r] # NoRequest => req[r].a \in Attempts

(* Whatever the student starts at the same time, and however often: one    *)
(* attempt is in progress at a time, no number is left out, and there are  *)
(* no more of them than permissions.  startSession decides from what it    *)
(* has read; the unique key refuses the rest.                              *)
OneAttempt ==
    /\ Cardinality({a \in Attempts : Open(a)}) <= 1
    /\ Taken = 1..Cardinality(Taken)
    /\ Cardinality(Taken) <= 1 + grants
    /\ \A a, b \in Attempts : a < b /\ session[b] # "none" => session[a] \in Finished

(* The total of a result at rest is the sum of its parts, also when it is  *)
(* graded a second time, unless two handlers wrote it at the same time or  *)
(* one died.                                                               *)
ScoreAddsUp == \A a \in Attempts :
    result[a] # NoResult /\ a \notin crossed /\ Writers(a) = {} =>
      /\ result[a].manual = IF result[a].mark = Unmarked THEN 0 ELSE result[a].mark
      /\ result[a].graded = (result[a].mark # Unmarked)
      /\ result[a].final = result[a].auto + result[a].manual + Plus(a)

(* What was saved counts: the score of a result is that of the answers of  *)
(* its attempt, unless an answer that was on its way was written after the *)
(* attempt had been finished.                                              *)
AnswersCounted == \A a \in Attempts :
    result[a] # NoResult /\ a \notin overtaken => result[a].auto \in Scores(a)

(* An attempt that is out of time is closed in the end, and graded unless  *)
(* a handler died.                                                         *)
LateIsClosed == \A a \in Attempts :
    Open(a) /\ a \in late ~> session[a] \in Finished /\ (result[a] # NoResult \/ deaths > 0)
=============================================================================
