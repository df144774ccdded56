----------------------------- MODULE TeacherDay -----------------------------
(***************************************************************************)
(* One past day of one teacher: the attendance row, the penalties of the   *)
(* day (for an absence, for lessons without grades), the teacher's penalty *)
(* points, and the credits by which the management declares a missed       *)
(* lesson given (lessonCredit.service.js).  A credit makes the teacher     *)
(* present and lifts penalties; revoking it has to bring back exactly what *)
(* it changed, although several credits may share the day.                 *)
(*                                                                         *)
(* A handler reads before its transaction; the transaction reads again and *)
(* commits, guarded by compare-and-swaps.  Its reads are one step here and *)
(* its writes, which nobody sees before the commit, another.  A            *)
(* transaction may fail at any point.                                      *)
(***************************************************************************)
EXTENDS PrefixSums, FiniteSets

CONSTANTS
    NL,           \* lessons of the day
    NC,           \* bound on LessonCredit rows
    NTogether,    \* bound on them in behaviours whose handlers overlap
    Requests,     \* handlers that can run at a time
    LessonPoints, \* points of a penalty for a lesson without grades
    AbsentPoints, \* points of the penalty for the absence
    MaxRows,      \* bound on attendance rows written for the day, one after another
    MaxEdits      \* bound on edits that are not credits

ASSUME TeacherDayAssumption ==
    /\ {NL, NC, NTogether, LessonPoints, AbsentPoints, MaxRows, MaxEdits} \subseteq Nat
    /\ NTogether <= NC /\ MaxRows >= 1

Lessons == 1..NL
Absence == NL + 1
Reasons == 1..(NL + 1)   \* penalties of the day: of lessons, then of the absence
Points(x) == IF x = Absence THEN AbsentPoints ELSE LessonPoints
Credits == 1..NC

VARIABLES
    alone,    \* handlers run one after another in this behaviour
    day,      \* the Attendance row, or NoRow
    rows,     \* rows there have been
    graded,   \* lessons with a grade
    penalty,  \* status of each penalty, "none" when there is none
    points,   \* User.penaltyPoints
    credit,   \* LessonCredit rows
    req,      \* handlers that run
    edits,    \* edits so far
    taken,    \* history: points taken away when the penalty was rejected
    lowered,  \* history: points taken away by reductions
    origin,   \* history: the day as it was before the credits that stand
    ours      \* history: only credits have changed the day since `origin`

facts == <<day, rows, graded, penalty, points, credit>>
history == <<taken, lowered, origin, ours>>
vars == <<alone, day, rows, graded, penalty, points, credit, req, edits, taken, lowered, origin, ours>>

NoRow == [id |-> 0]
Marks == {"absent", "excused", "present"}
Row   == [id : 1..MaxRows, mark : Marks, timed : BOOLEAN, penalised : BOOLEAN]
Away(d) == d # NoRow /\ d.mark \in {"absent", "excused"}

(* LessonCredit.attendanceRestore.                                         *)
NoRestore == [id |-> 0]
Restore == [id : 1..MaxRows, created : BOOLEAN, mark : Marks, penalised : BOOLEAN,
            lifted : BOOLEAN, removed : Nat]

NoCredit == [status |-> "none"]
Credit == [status : {"active", "revoked"}, lesson : Lessons, lifted : BOOLEAN,
           removed : Nat, restore : Restore \cup {NoRestore}]
Active == {c \in Credits : credit[c].status = "active"}
Used   == {c \in Credits : credit[c].status # "none"}
Room == IF alone THEN NC ELSE NTogether
Credited == {credit[c].lesson : c \in Active}

Free == [op |-> "none"]

-----------------------------------------------------------------------------
(* judgeLesson and resolveLesson: an absence outweighs a grade, a grade an *)
(* excuse, and a credit both.                                              *)
Missed == {l \in Lessons \ Credited :
              \/ day # NoRow /\ day.mark = "absent"
              \/ l \notin graded}

Init ==
    /\ alone \in BOOLEAN
    /\ day \in {NoRow} \cup [id : {1}, mark : Marks, timed : {FALSE}, penalised : {FALSE}]
                       \cup [id : {1}, mark : {"absent"}, timed : {FALSE}, penalised : {TRUE}]
    /\ rows = IF day = NoRow THEN 0 ELSE 1
    /\ graded \in SUBSET Lessons
    /\ penalty = [x \in Reasons |->
                     IF x = Absence THEN IF day # NoRow /\ day.penalised THEN "approved" ELSE "none"
                     ELSE IF Away(day) \/ x \in graded THEN "none" ELSE "approved"]
    /\ points = Total([x \in Reasons |-> IF penalty[x] = "approved" THEN Points(x) ELSE 0], NL + 1)
    /\ credit = [c \in Credits |-> NoCredit]
    /\ req = [r \in Requests |-> Free]
    /\ edits = 0
    /\ taken = [x \in Reasons |-> 0] /\ lowered = 0
    /\ origin = [row |-> day, absence |-> penalty[Absence]] /\ ours = TRUE

Idle == \A r \in Requests : req[r] = Free
Ask(r, record) == /\ req[r] = Free /\ (alone => Idle)
                  /\ req' = [req EXCEPT ![r] = record]

(* Attendance.updatedAt moves with every write: a handler that has read    *)
(* the row before compares it.                                             *)
Stale(q) == IF q # Free /\ q.op \in {"create", "cancel"} /\ q.at = "commit"
            THEN [q EXCEPT !.fresh = FALSE] ELSE q
DoneAfterWrite(r) == req' = [k \in Requests |-> IF k = r THEN Free ELSE Stale(req[k])]
Done(r) == req' = [req EXCEPT ![r] = Free]

(* Somebody else changes the day: without credits, that is how it was.     *)
ChangedByOthers ==
    IF Active = {} THEN /\ origin' = [row |-> day', absence |-> penalty'[Absence]]
                        /\ ours' = TRUE
                   ELSE /\ ours' = FALSE
                        /\ UNCHANGED origin

(* cancelPenaltyInTx for the penalties X, one after another: what each     *)
(* takes of the points it reads, never more than there are.                *)
Taken(X, seen) ==
    LET sums == Cum([x \in Reasons |-> IF x \in X THEN Points(x) ELSE 0], NL + 1)
    IN  [x \in Reasons |-> Overlap(sums[x - 1], sums[x], 0, Most(0, seen))]
(* A bug: the penalties are rejected whatever their status is.             *)
RejectAny(X, seen) ==
    /\ penalty' = [x \in Reasons |-> IF x \in X THEN "rejected" ELSE penalty[x]]
    /\ points' = points - Total(Taken(X, seen), NL + 1)
    /\ taken' = [x \in Reasons |-> IF x \in X THEN Taken(X, seen)[x] ELSE taken[x]]
Reject(X, seen) ==
    LET live == {x \in X : penalty[x] = "approved"} IN
    /\ penalty' = [x \in Reasons |-> IF x \in live THEN "rejected" ELSE penalty[x]]
    /\ points' = points - Total(Taken(live, seen), NL + 1)
    /\ taken' = [x \in Reasons |-> IF x \in live THEN Taken(live, seen)[x] ELSE taken[x]]

-----------------------------------------------------------------------------
(* createCredits reads the missed lessons of the day ...                   *)
BeginCreate(r) == \E chosen \in (SUBSET Missed) \ {{}}, lift \in BOOLEAN :
    /\ Cardinality(Used) + Cardinality(chosen) <= Room
    /\ Ask(r, [op |-> "create", at |-> "look", lessons |-> chosen, lift |-> lift])
    /\ UNCHANGED <<alone, facts, edits, history>>

(* ... and in its transaction the penalties, the points and the row.       *)
Look(r) ==
    /\ req[r].op = "create" /\ req[r].at = "look"
    /\ req' = [req EXCEPT ![r] =
          [op |-> "create", at |-> "commit", lessons |-> req[r].lessons, lift |-> req[r].lift,
           lifts |-> {x \in Reasons : penalty[x] = "approved"},
           points |-> points, day |-> day, fresh |-> TRUE]]
    /\ UNCHANGED <<alone, facts, edits, history>>

(* A bug: an excused teacher is left alone.                                *)
MarkedRowIfAbsent(seen) ==
    IF seen = NoRow THEN [id |-> rows + 1, mark |-> "present", timed |-> FALSE, penalised |-> FALSE]
    ELSE IF seen.mark = "absent" THEN [seen EXCEPT !.mark = "present", !.penalised = FALSE]
    ELSE day

(* markDaysPresent for a row that was seen, and what a credit has to       *)
(* remember of it.                                                         *)
MarkedRow(seen) ==
    IF seen = NoRow THEN [id |-> rows + 1, mark |-> "present", timed |-> FALSE, penalised |-> FALSE]
    ELSE IF Away(seen) THEN [seen EXCEPT !.mark = "present", !.penalised = FALSE]
    ELSE day

RestoreOf(seen, absenceLifted, removed) ==
    IF seen = NoRow
    THEN [id |-> rows + 1, created |-> TRUE, mark |-> "present", penalised |-> FALSE,
          lifted |-> FALSE, removed |-> 0]
    ELSE IF Away(seen)
    THEN [id |-> seen.id, created |-> FALSE, mark |-> seen.mark, penalised |-> seen.penalised,
          lifted |-> absenceLifted, removed |-> removed]
    ELSE NoRestore

(* Lesson l of the new ones gets the next free row; the first remembers    *)
(* the day.                                                                *)
NewCredits(new, gone, live, restore) ==
    LET base == Cardinality(Used)
        Rank(l) == Cardinality({k \in new : k <= l})
    IN  [c \in Credits |->
           IF \E l \in new : c = base + Rank(l)
           THEN LET l == CHOOSE k \in new : c = base + Rank(k)
                IN  [status |-> "active", lesson |-> l, lifted |-> l \in live,
                     removed |-> IF l \in live THEN gone[l] ELSE 0,
                     restore |-> IF Rank(l) = 1 THEN restore ELSE NoRestore]
           ELSE credit[c]]

(* The unique keys let a lesson have one active credit and a day one row;  *)
(* the row must be the one that was read.                                  *)
Create(r) ==
    /\ req[r].op = "create" /\ req[r].at = "commit"
    /\ LET q    == req[r]
           new  == q.lessons \ Credited
           X    == (IF q.lift THEN new ELSE {})
                   \cup (IF q.day # NoRow /\ Away(q.day) /\ q.day.penalised THEN {Absence} ELSE {})
           live == {x \in X \cap q.lifts : penalty[x] = "approved"}
           gone == Taken(live, q.points)
       IN  /\ new # {} /\ Cardinality(Used) + Cardinality(new) <= Room
           /\ q.day = NoRow => day = NoRow /\ rows < MaxRows
           /\ Away(q.day) => q.fresh
           /\ Reject(X \cap q.lifts, q.points)
           /\ day' = MarkedRow(q.day)
           /\ rows' = IF q.day = NoRow THEN rows + 1 ELSE rows
           /\ credit' = NewCredits(new, gone, live,
                                   RestoreOf(q.day, Absence \in live, gone[Absence]))
           /\ IF Active = {} THEN /\ origin' = [row |-> day, absence |-> penalty[Absence]]
                                  /\ ours' = TRUE
                             ELSE UNCHANGED <<origin, ours>>
    /\ IF day' = day THEN Done(r) ELSE DoneAfterWrite(r)
    /\ UNCHANGED <<alone, graded, edits, lowered>>

-----------------------------------------------------------------------------
(* revokeCredits reads the rows, with what they remember ...               *)
BeginRevoke(r) == \E chosen \in (SUBSET Active) \ {{}} :
    /\ Ask(r, [op |-> "revoke", at |-> "look", read |-> chosen, seen |-> credit])
    /\ UNCHANGED <<alone, facts, edits, history>>

(* ... and in its transaction the credits that remain.                     *)
LookAround(r) ==
    /\ req[r].op = "revoke" /\ req[r].at = "look"
    /\ req' = [req EXCEPT ![r] =
          [op |-> "revoke", at |-> "commit", read |-> req[r].read, seen |-> req[r].seen,
           remain |-> {c \in Active \ req[r].read : credit[c].restore = NoRestore},
           others |-> Active \ req[r].read]]
    /\ UNCHANGED <<alone, facts, edits, history>>

First(S) == CHOOSE c \in S : \A k \in S : c <= k

(* A bug: the row that is revoked keeps what it remembers.                 *)
HandOverNothing(done, q, remembers) ==
    [c \in Credits |-> IF c \in done THEN [credit[c] EXCEPT !.status = "revoked"] ELSE credit[c]]

(* restoreDayAttendance while other credits stand: what the revoked one    *)
(* remembers moves to the oldest of them, unless that has its own.         *)
HandOver(done, q, remembers) ==
    [c \in Credits |->
        IF c \in done THEN [credit[c] EXCEPT !.status = "revoked"]
        ELSE IF q.others # {} /\ c = First(q.others) /\ c \in q.remain /\ remembers # {}
        THEN [credit[c] EXCEPT !.restore = q.seen[First(remembers)].restore]
        ELSE credit[c]]

(* The row is still as the credit has left it.                             *)
StillOurs(restore) == /\ day.id = restore.id /\ day # NoRow
                      /\ day.mark = "present" /\ ~day.timed

(* A bug: a penalty comes back with all its points.                        *)
GivenBackInFull(x, seen, lessons, old) == Points(x)

(* What the credit, or what it remembers, says was taken.                  *)
GivenBack(x, seen, lessons, old) ==
    IF x = Absence THEN old.removed
    ELSE seen[CHOOSE c \in lessons : seen[c].lesson = x].removed

Revoke(r) ==
    /\ req[r].op = "revoke" /\ req[r].at = "commit"
    /\ LET q    == req[r]
           done == q.read \cap Active
           remembers == {c \in done : q.seen[c].restore # NoRestore}
           back == {c \in remembers : q.others = {} /\ StillOurs(q.seen[c].restore)}
           old  == q.seen[First(back)].restore
           lessons == {c \in done : q.seen[c].lifted /\ penalty[q.seen[c].lesson] = "rejected"}
           absence == back # {} /\ old.lifted /\ penalty[Absence] = "rejected"
       IN  /\ done # {}
           /\ credit' = HandOver(done, q, remembers)
           /\ day' = IF back = {} THEN day
                     ELSE IF old.created THEN NoRow
                     ELSE [day EXCEPT !.mark = old.mark, !.penalised = old.penalised]
           /\ LET again == {q.seen[c].lesson : c \in lessons} \cup (IF absence THEN {Absence} ELSE {})
                  gives == [x \in Reasons |-> IF x \in again THEN GivenBack(x, q.seen, lessons, old)
                                                            ELSE 0]
              IN  /\ penalty' = [x \in Reasons |-> IF x \in again THEN "approved" ELSE penalty[x]]
                  /\ points' = points + Total(gives, NL + 1)
                  /\ taken' = [x \in Reasons |-> taken[x] - gives[x]]
    /\ IF day' = day THEN Done(r) ELSE DoneAfterWrite(r)
    /\ UNCHANGED <<alone, rows, graded, edits, lowered, origin, ours>>

-----------------------------------------------------------------------------
(* cancelAttendance reads the row, and deletes it in its transaction if it *)
(* is still the one it has read.                                           *)
BeginCancelDay(r) ==
    /\ day # NoRow /\ edits < MaxEdits /\ edits' = edits + 1
    /\ Ask(r, [op |-> "cancel", at |-> "commit", day |-> day, points |-> points, fresh |-> TRUE])
    /\ UNCHANGED <<alone, facts, history>>

CancelDay(r) ==
    /\ req[r].op = "cancel" /\ req[r].fresh
    /\ day' = NoRow
    /\ Reject(IF req[r].day.penalised THEN {Absence} ELSE {}, req[r].points)
    /\ ChangedByOthers
    /\ DoneAfterWrite(r)
    /\ UNCHANGED <<alone, rows, graded, credit, edits, lowered>>

(* recheckRange reads the penalties that stand and the facts; a penalty    *)
(* whose lesson has a grade, a credit or an absent teacher is rejected in  *)
(* a transaction of its own.                                               *)
BeginRecheck(r) == \E l \in Lessons :
    /\ penalty[l] = "approved"
    /\ Away(day) \/ l \in Credited \/ l \in graded
    /\ edits < MaxEdits /\ edits' = edits + 1
    /\ Ask(r, [op |-> "recheck", at |-> "commit", lesson |-> l, points |-> points])
    /\ UNCHANGED <<alone, facts, history>>

Recheck(r) ==
    /\ req[r].op = "recheck"
    /\ Reject({req[r].lesson}, req[r].points)
    /\ Done(r)
    /\ UNCHANGED <<alone, day, rows, graded, credit, edits, lowered, origin, ours>>

(* A transaction fails: a check inside it, a conflict, a timeout.          *)
Fail(r) ==
    /\ req[r] # Free
    /\ Done(r)
    /\ UNCHANGED <<alone, facts, edits, history>>

-----------------------------------------------------------------------------
(* What others do to the day.                                              *)
Edit == /\ edits < MaxEdits /\ edits' = edits + 1
        /\ alone => Idle

StaleAll == req' = [r \in Requests |-> Stale(req[r])]

(* markStaffAttendance writes the row, whatever it was.                    *)
MarkStaff(mark) ==
    /\ Edit
    /\ \/ /\ day = NoRow /\ rows < MaxRows
          /\ day' = [id |-> rows + 1, mark |-> mark, timed |-> FALSE, penalised |-> FALSE]
          /\ rows' = rows + 1
       \/ /\ day # NoRow
          /\ day' = [day EXCEPT !.mark = mark] /\ UNCHANGED rows
    /\ UNCHANGED <<alone, graded, penalty, points, credit, taken, lowered>>
    /\ ChangedByOthers /\ StaleAll

(* updateTimes enters or removes the times of a row.                       *)
UpdateTimes ==
    /\ Edit /\ day # NoRow
    /\ day' = [day EXCEPT !.timed = ~@]
    /\ UNCHANGED <<alone, rows, graded, penalty, points, credit, taken, lowered>>
    /\ ChangedByOthers /\ StaleAll

(* reviewExcuse approves: without compare-and-swap, a statement at a time; *)
(* explored only where nothing runs beside it, and with the setting of the *)
(* points for an absence as it was when the penalty was given.             *)
ApproveExcuse ==
    /\ Edit /\ alone
    /\ \/ /\ day = NoRow /\ rows < MaxRows
          /\ day' = [id |-> rows + 1, mark |-> "excused", timed |-> FALSE, penalised |-> FALSE]
          /\ rows' = rows + 1
          /\ UNCHANGED <<penalty, points, taken>>
       \/ /\ day # NoRow /\ day.mark = "absent"
          /\ day' = [day EXCEPT !.mark = "excused", !.penalised = FALSE]
          /\ IF day.penalised
             THEN /\ penalty' = [penalty EXCEPT ![Absence] = "rejected"]
                  /\ points' = points - AbsentPoints
                  /\ taken' = [taken EXCEPT ![Absence] = AbsentPoints]
             ELSE UNCHANGED <<penalty, points, taken>>
          /\ UNCHANGED rows
    /\ ChangedByOthers /\ StaleAll
    /\ UNCHANGED <<alone, graded, credit, lowered>>

(* A grade is entered for a lesson.                                        *)
Grade(l) ==
    /\ Edit /\ l \notin graded
    /\ graded' = graded \cup {l}
    /\ UNCHANGED <<alone, day, rows, penalty, points, credit, req, history>>

(* reducePenalty by an owner; the check and the decrement, two statements  *)
(* of the code, are one step here.                                         *)
ReducePenalty(n) ==
    /\ Edit /\ n <= points
    /\ points' = points - n /\ lowered' = lowered + n
    /\ UNCHANGED <<alone, day, rows, graded, penalty, credit, req, taken, origin, ours>>

Next ==
    \/ \E r \in Requests :
       \/ BeginCreate(r) \/ Look(r) \/ Create(r)
       \/ BeginRevoke(r) \/ LookAround(r) \/ Revoke(r)
       \/ BeginCancelDay(r) \/ CancelDay(r) \/ BeginRecheck(r) \/ Recheck(r)
       \/ Fail(r)
    \/ \E mark \in Marks : MarkStaff(mark)
    \/ UpdateTimes
    \/ ApproveExcuse
    \/ \E l \in Lessons : Grade(l)
    \/ \E n \in 1..MaxEdits : ReducePenalty(n)

Spec == Init /\ [][Next]_vars

-----------------------------------------------------------------------------
(* Rows keep their shape; a day remembered by a credit is a day there was. *)
TypeOK ==
    /\ alone \in BOOLEAN /\ ours \in BOOLEAN
    /\ day \in Row \cup {NoRow} /\ rows \in 0..MaxRows
    /\ graded \subseteq Lessons
    /\ penalty \in [Reasons -> {"none", "approved", "rejected"}]
    /\ points \in Int /\ lowered \in Nat /\ taken \in [Reasons -> Nat]
    /\ credit \in [Credits -> Credit \cup {NoCredit}]
    /\ edits \in 0..MaxEdits

(* The teacher's points are those of the penalties, less what was reduced  *)
(* and what was taken when a penalty was rejected; a penalty that stands   *)
(* has been given back all that was taken for it.  Credits, revocations,   *)
(* cancelled days and rechecks that run at the same time never take or     *)
(* give back the points of a penalty twice.                                *)
PointsExplained ==
    /\ points = Total([x \in Reasons |-> IF penalty[x] = "none" THEN 0 ELSE Points(x) - taken[x]],
                       NL + 1) - lowered
    /\ \A x \in Reasons : penalty[x] = "approved" => taken[x] = 0

(* When handlers do not overlap and only credits have changed the day,     *)
(* revoking them all, in any order and grouping, brings back exactly the   *)
(* row and the penalty there were; and while one stands, exactly one of    *)
(* them remembers the day if it was changed at all.  A row with times is   *)
(* left alone: restoreDayAttendance takes it for somebody's decision.      *)
RestoredExactly ==
    alone /\ ours /\ (origin.row # NoRow => ~origin.row.timed) =>
        /\ Active = {} => day = origin.row /\ penalty[Absence] = origin.absence
        /\ Cardinality({c \in Active : credit[c].restore # NoRestore})
             = IF day = origin.row THEN 0 ELSE 1

(* While a credit stands the teacher counts as present, and the penalty    *)
(* for the absence it has undone is not in force, unless somebody else has *)
(* changed the day.                                                        *)
CreditedIsPresent ==
    alone /\ ours /\ Active # {} =>
        /\ day # NoRow /\ ~Away(day)
        /\ Away(origin.row) => penalty[Absence] # "approved"
=============================================================================
