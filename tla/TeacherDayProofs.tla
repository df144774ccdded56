-------------------------- MODULE TeacherDayProofs --------------------------
(***************************************************************************)
(* The penalty points of TeacherDay are explained in every reachable       *)
(* state, whatever credits, revocations, cancelled days and rechecks run   *)
(* beside each other; and where they run one after another, revoking the   *)
(* credits of a day brings back exactly the day there was.                 *)
(*                                                                         *)
(* The first needs to know who may still give points back.  A credit that  *)
(* has lifted a penalty knows what was taken for it, and nobody else does: *)
(* no two active credits have a lesson in common, and the absence of the   *)
(* day is claimed by at most one active credit, although that credit's row *)
(* and what running revocations have read of it may each remember it.      *)
(***************************************************************************)
EXTENDS TeacherDay, PrefixSumsProofs

-----------------------------------------------------------------------------
(* What a handler may hold between its steps.                              *)
Choosing   == [op : {"create"}, at : {"look"}, lessons : SUBSET Lessons, lift : BOOLEAN]
Creating   == [op : {"create"}, at : {"commit"}, lessons : SUBSET Lessons, lift : BOOLEAN,
               lifts : SUBSET Reasons, points : Int, day : Row \cup {NoRow}, fresh : BOOLEAN]
Table      == [Credits -> Credit \cup {NoCredit}]
Selecting  == [op : {"revoke"}, at : {"look"}, read : SUBSET Credits, seen : Table]
Revoking   == [op : {"revoke"}, at : {"commit"}, read : SUBSET Credits, seen : Table,
               remain : SUBSET Credits, others : SUBSET Credits]
Cancelling == [op : {"cancel"}, at : {"commit"}, day : Row, points : Int, fresh : BOOLEAN]
Rechecking == [op : {"recheck"}, at : {"commit"}, lesson : Lessons, points : Int]
Shape == {Free} \cup Choosing \cup Creating \cup Selecting \cup Revoking
                \cup Cancelling \cup Rechecking

Typed == TypeOK /\ req \in [Requests -> Shape]

ActiveIn(C) == {c \in Credits : C[c].status = "active"}
UsedIn(C)   == {c \in Credits : C[c].status # "none"}
Penalised(D) == D # NoRow /\ D.penalised

(* A row that a credit remembers lost its penalty exactly if the absence   *)
(* was lifted then; a row that the credit has created had none.            *)
RightRestore(R) == R # NoRestore => /\ R.lifted <=> R.penalised
                                    /\ R.created => ~R.lifted

RightTable(C) == \A c \in Credits : C[c].status # "none" => RightRestore(C[c].restore)

(* Credits are numbered as they come ...                                   *)
Numbered(C) == UsedIn(C) = 1..Cardinality(UsedIn(C))

(* ... no lesson has two active ones; what an active one has lifted is     *)
(* rejected, and it knows the points taken.                                *)
RightCredits(C, P, T) ==
    /\ RightTable(C)
    /\ Numbered(C)
    /\ \A c, e \in ActiveIn(C) : C[c].lesson = C[e].lesson => c = e
    /\ \A c \in ActiveIn(C) : C[c].lifted => /\ P[C[c].lesson] = "rejected"
                                             /\ T[C[c].lesson] = C[c].removed

(* What a handler has read is still so, as far as it relies on it.         *)
Knows(q, D, C) ==
    /\ q.op = "create" /\ q.at = "commit" =>
          /\ q.fresh => q.day = D
          /\ Penalised(q.day) => Absence \in q.lifts
    /\ q.op = "cancel" /\ q.fresh => q.day = D
    /\ q.op = "revoke" =>
          /\ RightTable(q.seen)
          /\ \A c \in q.read : /\ C[c].status # "none" /\ q.seen[c].status # "none"
                               /\ q.seen[c].lesson = C[c].lesson
                               /\ q.seen[c].lifted = C[c].lifted
                               /\ q.seen[c].removed = C[c].removed
    /\ q.op = "revoke" /\ q.at = "commit" => \A c \in q.others : C[c].status # "none"

(* Credit c may yet bring back the absence, by what R remembers.           *)
Claim(c, R, C, Q) ==
    /\ c \in ActiveIn(C) /\ R # NoRestore /\ R.lifted
    /\ \/ R = C[c].restore
       \/ \E r \in Requests : Q[r].op = "revoke" /\ c \in Q[r].read /\ R = Q[r].seen[c].restore

Memories(C, Q) == {C[c].restore : c \in UsedIn(C)}
    \cup UNION {{Q[r].seen[c].restore : c \in Q[r].read} : r \in {k \in Requests : Q[k].op = "revoke"}}

(* A claimed absence is rejected, the points taken for it are the ones     *)
(* remembered, and only one credit claims it.                              *)
RightClaims(C, Q, P, T) ==
    /\ \A c \in Credits, R \in Restore :
          Claim(c, R, C, Q) => P[Absence] = "rejected" /\ T[Absence] = R.removed
    /\ \A c, e \in Credits, R, S \in Restore :
          Claim(c, R, C, Q) /\ Claim(e, S, C, Q) => c = e

Worth(P, T) == [x \in Reasons |-> IF P[x] = "none" THEN 0 ELSE Points(x) - T[x]]
RightPoints(P, T, n, low) ==
    /\ n = Total(Worth(P, T), NL + 1) - low
    /\ \A x \in Reasons : P[x] = "approved" => T[x] = 0

IInv ==
    /\ Typed
    /\ RightCredits(credit, penalty, taken)
    /\ \A r \in Requests : Knows(req[r], day, credit)
    /\ Penalised(day) => penalty[Absence] = "approved"
    /\ RightClaims(credit, req, penalty, taken)
    /\ RightPoints(penalty, taken, points, lowered)

-----------------------------------------------------------------------------
(* Where handlers run one after another, what the running one has read is  *)
(* all still so.                                                           *)
Current(q, C) ==
    /\ q.op \in {"create", "cancel"} /\ q.at = "commit" => q.fresh
    /\ q.op = "revoke" => q.seen = C /\ q.read \subseteq ActiveIn(C)
    /\ q.op = "revoke" /\ q.at = "commit" =>
          /\ q.others = ActiveIn(C) \ q.read
          /\ q.remain = {c \in q.others : C[c].restore = NoRestore}

Remembering(C) == {c \in ActiveIn(C) : C[c].restore # NoRestore}

(* What the credits have made of the row O, where the absence was A before *)
(* them, and what they remember.                                           *)
Undoable(O, A, D, P, C) ==
    \/ /\ O = NoRow /\ D # NoRow /\ D.mark = "present" /\ ~D.timed /\ ~D.penalised
       /\ P[Absence] = A /\ A # "approved"
       /\ \E c \in Credits : /\ Remembering(C) = {c}
                             /\ C[c].restore.created /\ C[c].restore.id = D.id
    \/ /\ Away(O) /\ D = [O EXCEPT !.mark = "present", !.penalised = FALSE]
       /\ \E c \in Credits : /\ Remembering(C) = {c}
                             /\ ~C[c].restore.created /\ C[c].restore.id = O.id
                             /\ C[c].restore.mark = O.mark
                             /\ C[c].restore.penalised = O.penalised
       /\ A = IF O.penalised THEN "approved" ELSE P[Absence]
       /\ P[Absence] # "approved"
    \/ /\ O # NoRow /\ ~Away(O) /\ D = O /\ P[Absence] = A
       /\ Remembering(C) = {}

(* One handler runs, and relies on nothing that has changed.               *)
Lone(Q, C) ==
    /\ \A r, s \in Requests : Q[r] # Free /\ Q[s] # Free => r = s
    /\ \A r \in Requests : Current(Q[r], C)

(* The penalty of the absence stands exactly on the row it is about, and   *)
(* the credits that stand remember the day o there was before them.        *)
Remembered(u, o, D, P, C) ==
    /\ P[Absence] = "approved" => Penalised(D)
    /\ Remembering(C) # {} => ~Penalised(D)
    /\ u /\ ActiveIn(C) # {} => Undoable(o.row, o.absence, D, P, C)
    /\ u /\ ActiveIn(C) = {} /\ (o.row # NoRow => ~o.row.timed) =>
          D = o.row /\ P[Absence] = o.absence
    /\ o \in [row : Row \cup {NoRow}, absence : {"none", "approved", "rejected"}]

AloneInv ==
    alone => Lone(req, credit) /\ Remembered(ours, origin, day, penalty, credit)

-----------------------------------------------------------------------------
(* The sizes, and the penalties of a day.                                  *)
LEMMA Sizes ==
  /\ NL \in Nat /\ NC \in Nat /\ NTogether \in Nat /\ MaxRows \in Nat /\ MaxEdits \in Nat
  /\ LessonPoints \in Nat /\ AbsentPoints \in Nat
  /\ NTogether <= NC /\ MaxRows >= 1
  /\ NL + 1 \in Nat /\ Absence \in Reasons /\ Absence \notin Lessons /\ Lessons \subseteq Reasons
  /\ \A x \in Reasons : Points(x) \in Nat
BY TeacherDayAssumption DEF Absence, Reasons, Lessons, Points

(* Penalties that are rejected together cost no less than nothing each,    *)
(* and the others cost nothing.                                            *)
LEMMA TakenIs ==
  ASSUME NEW X \in SUBSET Reasons, NEW seen \in Int
  PROVE  /\ Taken(X, seen) \in [Reasons -> Nat]
         /\ \A x \in Reasons \ X : Taken(X, seen)[x] = 0
<1> DEFINE N == NL + 1
           f == [x \in Reasons |-> IF x \in X THEN Points(x) ELSE 0]
           sums == Cum(f, N)
<1>1. N \in Nat /\ Reasons = 1..N
  BY Sizes DEF Reasons
<1>2. f \in [Reasons -> Nat] /\ f \in [1..N -> Nat] /\ f \in [1..N -> Int]
  BY Sizes, <1>1
<1>3. \A n \in 0..N : sums[n] \in Int /\ sums[n] >= 0
  BY <1>1, <1>2, CumType, CumMonotone
<1>4. \A n \in 1..N : sums[n] = sums[n - 1] + f[n]
  BY <1>1, <1>2, CumDef
<1>5. \A x \in Reasons \ X : f[x] = 0
  OBVIOUS
<1> DEFINE m == Most(0, seen)
<1>6. m \in Nat /\ 0 \in Nat
  BY DEF Most
<1>7. Taken(X, seen) = [x \in Reasons |-> Overlap(sums[x - 1], sums[x], 0, m)]
  BY DEF Taken
<1> HIDE DEF f, sums, m, N
<1>8. ASSUME NEW x \in Reasons
      PROVE  /\ sums[x - 1] \in Nat /\ sums[x] \in Nat
             /\ x \notin X => sums[x] = sums[x - 1]
  <2>1. x \in 1..N /\ x - 1 \in 0..N /\ x \in 0..N
    BY <1>1
  <2>2. sums[x - 1] \in Nat /\ sums[x] \in Nat
    BY <2>1, <1>3
  <2>3. sums[x] = sums[x - 1] + f[x]
    BY <2>1, <1>4
  <2> QED BY <2>2, <2>3, <1>5
<1>9. \A x \in Reasons : Overlap(sums[x - 1], sums[x], 0, m) \in Nat
  BY <1>8, <1>6, OverlapType
<1>10. ASSUME NEW x \in Reasons \ X PROVE Overlap(sums[x - 1], sums[x], 0, m) = 0
  BY <1>8, <1>6 DEF Overlap, Least, Most
<1> QED BY <1>7, <1>9, <1>10

Statuses == {"none", "approved", "rejected"}

(* A penalty that is rejected stays so, with the points taken for it.      *)
Stands(P, T, P2, T2) ==
    \A x \in Reasons : P[x] = "rejected" => P2[x] = "rejected" /\ T2[x] = T[x]

(* The sum changes by what is taken for each penalty.                      *)
LEMMA PointsMove ==
  ASSUME NEW P \in [Reasons -> Statuses], NEW T \in [Reasons -> Nat],
         NEW P2 \in [Reasons -> Statuses], NEW T2 \in [Reasons -> Nat],
         NEW G \in [Reasons -> Int], NEW n \in Int, NEW low \in Nat,
         RightPoints(P, T, n, low),
         \A x \in Reasons : /\ P2[x] = "none" <=> P[x] = "none"
                            /\ T2[x] = T[x] - G[x]
                            /\ P[x] = "none" => G[x] = 0
                            /\ P2[x] = "approved" => T2[x] = 0
  PROVE  /\ Total(G, NL + 1) \in Int
         /\ RightPoints(P2, T2, n + Total(G, NL + 1), low)
<1> DEFINE N == NL + 1
<1>1. N \in Nat /\ Reasons = 1..N
  BY Sizes DEF Reasons
<1>2. \A x \in Reasons : Points(x) \in Nat
  BY Sizes
<1>3. Worth(P, T) \in [1..N -> Int] /\ Worth(P2, T2) \in [1..N -> Int] /\ G \in [1..N -> Int]
  BY <1>1, <1>2 DEF Worth
<1>4. \A x \in 1..N : Worth(P2, T2)[x] = Worth(P, T)[x] + G[x]
  <2> SUFFICES ASSUME NEW x \in Reasons
               PROVE  Worth(P2, T2)[x] = Worth(P, T)[x] + G[x]
    BY <1>1
  <2>1. /\ Worth(P2, T2)[x] = IF P2[x] = "none" THEN 0 ELSE Points(x) - T2[x]
        /\ Worth(P, T)[x] = IF P[x] = "none" THEN 0 ELSE Points(x) - T[x]
    BY DEF Worth
  <2>2. Points(x) \in Nat /\ T[x] \in Nat /\ G[x] \in Int
    BY <1>2
  <2> QED BY <2>1, <2>2
<1> HIDE DEF N
<1>5. Total(Worth(P2, T2), N) = Total(Worth(P, T), N) + Total(G, N)
  BY <1>1, <1>3, <1>4, TotalPlus
<1>6. Total(Worth(P, T), N) \in Int /\ Total(G, N) \in Int
  BY <1>1, <1>3, CumType
<1>7. n = Total(Worth(P, T), N) - low
  BY DEF RightPoints, N
<1>8. n + Total(G, N) = Total(Worth(P2, T2), N) - low
  BY <1>5, <1>6, <1>7
<1> QED BY <1>6, <1>8 DEF RightPoints, N

(* Rejecting penalties keeps the points explained.                         *)
LEMMA Rejecting ==
  ASSUME Typed, RightPoints(penalty, taken, points, lowered),
         NEW X \in SUBSET Reasons, NEW seen \in Int, Reject(X, seen), lowered' = lowered
  PROVE  /\ penalty' \in [Reasons -> Statuses] /\ taken' \in [Reasons -> Nat] /\ points' \in Int
         /\ RightPoints(penalty', taken', points', lowered')
         /\ Stands(penalty, taken, penalty', taken')
         /\ \A x \in Reasons :
              LET live == {y \in X : penalty[y] = "approved"} IN
              /\ penalty'[x] = IF x \in live THEN "rejected" ELSE penalty[x]
              /\ taken'[x] = IF x \in live THEN Taken(live, seen)[x] ELSE taken[x]
<1>1. PICK live \in SUBSET Reasons : live = {x \in X : penalty[x] = "approved"}
  OBVIOUS
<1>2. PICK G : G = Taken(live, seen)
  OBVIOUS
<1>3. G \in [Reasons -> Nat] /\ \A x \in Reasons \ live : G[x] = 0
  BY <1>1, <1>2, TakenIs
<1>4. /\ penalty' = [x \in Reasons |-> IF x \in live THEN "rejected" ELSE penalty[x]]
      /\ points' = points - Total(G, NL + 1)
      /\ taken' = [x \in Reasons |-> IF x \in live THEN G[x] ELSE taken[x]]
  BY <1>1, <1>2 DEF Reject
<1>5. /\ penalty \in [Reasons -> Statuses] /\ taken \in [Reasons -> Nat]
      /\ points \in Int /\ lowered \in Nat
  BY DEF Typed, TypeOK, Statuses
<1>6. penalty' \in [Reasons -> Statuses] /\ taken' \in [Reasons -> Nat]
  BY <1>3, <1>4, <1>5 DEF Statuses
<1> DEFINE H == [x \in Reasons |-> 0 - G[x]]
<1>7. H \in [Reasons -> Int]
  BY <1>3
<1>8. \A x \in live : penalty[x] = "approved" /\ taken[x] = 0
  BY <1>1 DEF RightPoints
<1>9. ASSUME NEW x \in Reasons
      PROVE  /\ penalty'[x] = "none" <=> penalty[x] = "none"
             /\ taken'[x] = taken[x] - H[x]
             /\ penalty[x] = "none" => H[x] = 0
             /\ penalty'[x] = "approved" => taken'[x] = 0
  <2>1. /\ penalty'[x] = IF x \in live THEN "rejected" ELSE penalty[x]
        /\ taken'[x] = IF x \in live THEN G[x] ELSE taken[x]
        /\ H[x] = 0 - G[x] /\ G[x] \in Nat /\ taken[x] \in Nat
    BY <1>4, <1>3, <1>5
  <2> HIDE DEF H
  <2>2. CASE x \in live
    BY <2>1, <2>2, <1>8
  <2>3. CASE x \notin live
    <3>1. G[x] = 0
      BY <1>3, <2>3
    <3> QED BY <2>1, <2>3, <3>1 DEF RightPoints
  <2> QED BY <2>2, <2>3
<1> HIDE DEF H
<1>10. /\ Total(H, NL + 1) \in Int
       /\ RightPoints(penalty', taken', points + Total(H, NL + 1), lowered)
  <2>1. PICK P \in [Reasons -> Statuses], T \in [Reasons -> Nat], n \in Int, low \in Nat :
           P = penalty /\ T = taken /\ n = points /\ low = lowered
    BY <1>5
  <2>2. PICK P2 \in [Reasons -> Statuses], T2 \in [Reasons -> Nat] : P2 = penalty' /\ T2 = taken'
    BY <1>6
  <2>3. \A x \in Reasons : /\ P2[x] = "none" <=> P[x] = "none"
                           /\ T2[x] = T[x] - H[x]
                           /\ P[x] = "none" => H[x] = 0
                           /\ P2[x] = "approved" => T2[x] = 0
    BY <1>9, <2>1, <2>2
  <2>4. RightPoints(P, T, n, low)
    BY <2>1
  <2>5. Total(H, NL + 1) \in Int /\ RightPoints(P2, T2, n + Total(H, NL + 1), low)
    BY <2>3, <2>4, <1>7, PointsMove
  <2> QED BY <2>1, <2>2, <2>5
<1>11. points' = points + Total(H, NL + 1) /\ points' \in Int
  <2>1. NL + 1 \in Nat /\ Reasons = 1..(NL + 1)
    BY Sizes DEF Reasons
  <2>2. /\ G \in [1..(NL + 1) -> Int] /\ H \in [1..(NL + 1) -> Int]
        /\ \A x \in 1..(NL + 1) : [y \in Reasons |-> 0][x] = G[x] + H[x]
    BY <2>1, <1>3, <1>7 DEF H
  <2>3. Total([y \in Reasons |-> 0], NL + 1) = Total(G, NL + 1) + Total(H, NL + 1)
    BY <2>1, <2>2, TotalPlus
  <2>4. Total([y \in Reasons |-> 0], NL + 1) = 0
    BY <2>1, TotalZero
  <2>5. Total(G, NL + 1) \in Int
    BY <2>1, <2>2, CumType
  <2> QED BY <2>3, <2>4, <2>5, <1>10, <1>4, <1>5
<1>12. RightPoints(penalty', taken', points', lowered')
  BY <1>10, <1>11
<1>13. Stands(penalty, taken, penalty', taken')
  BY <1>1, <1>4 DEF Stands
<1> QED BY <1>1, <1>2, <1>4, <1>6, <1>11, <1>12, <1>13

-----------------------------------------------------------------------------
(* A handler is at one of these places.                                    *)
LEMMA Places ==
  ASSUME NEW q \in Shape
  PROVE  /\ q.op = "create" /\ q.at = "look" => q \in Choosing
         /\ q.op = "create" /\ q.at = "commit" => q \in Creating
         /\ q.op = "revoke" /\ q.at = "look" => q \in Selecting
         /\ q.op = "revoke" /\ q.at = "commit" => q \in Revoking
         /\ q.op = "revoke" => q.at \in {"look", "commit"}
         /\ q.op = "cancel" => q \in Cancelling
         /\ q.op = "recheck" => q \in Rechecking
         /\ q # Free => q.op \in {"create", "revoke", "cancel", "recheck"}
         /\ q.op = "revoke" => q.read \subseteq Credits /\ q.seen \in Table
BY DEF Shape, Choosing, Creating, Selecting, Revoking, Cancelling, Rechecking, Free

(* A write to the row makes what was read of it stale, and nothing else.   *)
LEMMA StaleIs ==
  ASSUME NEW q \in Shape
  PROVE  /\ Stale(q) \in Shape
         /\ q = Free <=> Stale(q) = Free
         /\ Stale(q).op = q.op
         /\ q.op # "none" => Stale(q).at = q.at
         /\ q.op \notin {"create", "cancel"} => Stale(q) = q
         /\ q.op \in {"create", "cancel"} /\ q.at = "commit" =>
              Stale(q) = [q EXCEPT !.fresh = FALSE]
<1>1. CASE q \in Creating
  <2>1. q # Free /\ q.op = "create" /\ q.at = "commit"
    BY <1>1 DEF Creating, Free
  <2>2. Stale(q) = [q EXCEPT !.fresh = FALSE]
    BY <2>1 DEF Stale
  <2>3. [q EXCEPT !.fresh = FALSE] \in Creating
    BY <1>1 DEF Creating
  <2>4. Stale(q).op = "create" /\ Stale(q).at = "commit" /\ Stale(q) # Free
    BY <2>2, <2>3 DEF Creating, Free
  <2> QED BY <2>1, <2>2, <2>3, <2>4 DEF Shape
<1>2. CASE q \in Cancelling
  <2>1. q # Free /\ q.op = "cancel" /\ q.at = "commit"
    BY <1>2 DEF Cancelling, Free
  <2>2. Stale(q) = [q EXCEPT !.fresh = FALSE]
    BY <2>1 DEF Stale
  <2>3. [q EXCEPT !.fresh = FALSE] \in Cancelling
    BY <1>2 DEF Cancelling
  <2>4. Stale(q).op = "cancel" /\ Stale(q).at = "commit" /\ Stale(q) # Free
    BY <2>2, <2>3 DEF Cancelling, Free
  <2> QED BY <2>1, <2>2, <2>3, <2>4 DEF Shape
<1>3. CASE q \in Choosing \cup Selecting \cup Revoking \cup Rechecking \cup {Free}
  <2>1. ~(q # Free /\ q.op \in {"create", "cancel"} /\ q.at = "commit")
    BY <1>3 DEF Choosing, Selecting, Revoking, Rechecking, Free
  <2>2. Stale(q) = q
    BY <2>1 DEF Stale
  <2> QED BY <2>1, <2>2, <1>3 DEF Choosing, Selecting, Revoking, Rechecking, Free
<1> QED BY <1>1, <1>2, <1>3 DEF Shape

(* Credits are added and revoked, but what they lifted stays written.      *)
CreditsGrow(C, C2) ==
    \A c \in Credits : C[c].status # "none" =>
        /\ C2[c].status # "none" /\ C2[c].lesson = C[c].lesson
        /\ C2[c].lifted = C[c].lifted /\ C2[c].removed = C[c].removed

(* A handler that does not move: it may be made stale, and must be if the  *)
(* row is written.                                                         *)
Follows(q, D, q2, D2) == q2 = Stale(q) \/ (q2 = q /\ D2 = D)

(* What such a handler knows stays so.                                     *)
LEMMA Following ==
  ASSUME NEW q \in Shape, NEW D, NEW D2, NEW C \in Table, NEW C2 \in Table, NEW q2,
         Knows(q, D, C), CreditsGrow(C, C2), Follows(q, D, q2, D2)
  PROVE  /\ q2 \in Shape /\ Knows(q2, D2, C2)
         /\ q2.op = "revoke" => q2 = q
<1>1. q2 \in Shape /\ q2.op = q.op
  BY StaleIs DEF Follows
<1>2. q2.op = "revoke" => q2 = q
  BY StaleIs, <1>1 DEF Follows
<1>3. CASE q.op = "revoke"
  <2>1. q2 = q /\ q.read \subseteq Credits
    BY <1>1, <1>2, <1>3, Places
  <2>2. RightTable(q.seen)
    BY <1>3 DEF Knows
  <2>3. \A c \in q.read : /\ C2[c].status # "none" /\ q.seen[c].status # "none"
                          /\ q.seen[c].lesson = C2[c].lesson
                          /\ q.seen[c].lifted = C2[c].lifted
                          /\ q.seen[c].removed = C2[c].removed
    BY <1>3, <2>1 DEF Knows, CreditsGrow
  <2>4. q.at = "commit" => \A c \in q.others : C2[c].status # "none"
    <3>1. q.at = "commit" => q.others \subseteq Credits
      BY <1>3, Places DEF Revoking
    <3> QED BY <1>3, <3>1 DEF Knows, CreditsGrow
  <2> QED BY <1>1, <1>2, <1>3, <2>1, <2>2, <2>3, <2>4 DEF Knows
<1>4. CASE q.op # "revoke"
  <2>1. CASE q2 = q /\ D2 = D
    BY <1>1, <1>4, <2>1 DEF Knows
  <2>2. CASE q2 = Stale(q)
    <3>1. CASE q.op = "create" /\ q.at = "commit"
      <4>1. q2 = [q EXCEPT !.fresh = FALSE] /\ q \in Creating
        BY <2>2, <3>1, StaleIs, Places
      <4>2. ~q2.fresh /\ q2.day = q.day /\ q2.lifts = q.lifts /\ q2.op = "create"
        BY <4>1 DEF Creating
      <4> QED BY <1>1, <1>4, <3>1, <4>2 DEF Knows
    <3>2. CASE q.op = "cancel"
      <4>0. q \in Cancelling
        BY <3>2, Places
      <4>1. q2 = [q EXCEPT !.fresh = FALSE]
        BY <2>2, <3>2, <4>0, StaleIs DEF Cancelling
      <4>2. ~q2.fresh /\ q2.op = "cancel"
        BY <4>0, <4>1 DEF Cancelling
      <4> QED BY <1>1, <1>4, <4>2 DEF Knows
    <3>3. CASE q.op \notin {"create", "cancel"}
      <4>1. q2 = q
        BY <2>2, <3>3, StaleIs
      <4> QED BY <1>1, <1>4, <3>3, <4>1 DEF Knows
    <3>4. CASE q.op = "create" /\ q.at # "commit"
      <4>1. q2.at = q.at /\ q2.op = "create"
        BY <2>2, <3>4, StaleIs
      <4> QED BY <1>1, <3>4, <4>1 DEF Knows
    <3> QED BY <3>1, <3>2, <3>3, <3>4
  <2> QED BY <1>1, <1>2, <2>1, <2>2 DEF Follows
<1> QED BY <1>3, <1>4

(* Credits stay right while what is rejected stays rejected.               *)
LEMMA CreditsStay ==
  ASSUME NEW C \in Table, NEW P, NEW T, NEW P2, NEW T2,
         RightCredits(C, P, T), Stands(P, T, P2, T2)
  PROVE  RightCredits(C, P2, T2)
<1> SUFFICES ASSUME NEW c \in ActiveIn(C), C[c].lifted
             PROVE  P2[C[c].lesson] = "rejected" /\ T2[C[c].lesson] = C[c].removed
  BY DEF RightCredits
<1>1. C[c].lesson \in Reasons
  <2>1. c \in Credits /\ C[c].status = "active" /\ C[c] \in Credit \cup {NoCredit}
    BY DEF ActiveIn, Table
  <2>2. C[c] \in Credit
    BY <2>1 DEF NoCredit
  <2> QED BY <2>2, Sizes DEF Credit
<1> QED BY <1>1 DEF RightCredits, Stands

(* Claims stay right while there are no more of them.                      *)
LEMMA ClaimsStay ==
  ASSUME NEW C, NEW Q, NEW P, NEW T, NEW C2, NEW Q2, NEW P2, NEW T2,
         RightClaims(C, Q, P, T), Stands(P, T, P2, T2),
         \A c \in Credits, R \in Restore : Claim(c, R, C2, Q2) => Claim(c, R, C, Q)
  PROVE  RightClaims(C2, Q2, P2, T2)
BY Sizes DEF RightClaims, Stands

(* The credits are what their type says.                                   *)
LEMMA TableIs ==
  ASSUME Typed
  PROVE  credit \in Table /\ req \in [Requests -> Shape] /\ Active = ActiveIn(credit)
         /\ Used = UsedIn(credit)
BY DEF Typed, TypeOK, Table, Active, Used, ActiveIn, UsedIn

(* A handler reads the credits, or keeps what it has read.                 *)
Reads(q, q2, C) ==
    q2.op = "revoke" => \/ q2.seen = C
                        \/ q.op = "revoke" /\ q2.read = q.read /\ q2.seen = q.seen

(* Steps that leave the credits alone.                                     *)
LEMMA Quiet ==
  ASSUME IInv, Typed', credit' = credit, Stands(penalty, taken, penalty', taken'),
         RightPoints(penalty', taken', points', lowered'),
         Penalised(day') => penalty'[Absence] = "approved",
         \A k \in Requests : \/ Follows(req[k], day, req'[k], day')
                             \/ Knows(req'[k], day', credit) /\ Reads(req[k], req'[k], credit)
  PROVE  IInv'
<1>1. credit \in Table /\ req \in [Requests -> Shape]
  BY TableIs DEF IInv
<1>2. RightCredits(credit', penalty', taken')
  BY <1>1, CreditsStay DEF IInv
<1>3. CreditsGrow(credit, credit')
  BY DEF CreditsGrow, UsedIn
<1>4. ASSUME NEW k \in Requests, Follows(req[k], day, req'[k], day')
      PROVE  /\ Knows(req'[k], day', credit')
             /\ Reads(req[k], req'[k], credit)
  <2>1. PICK q \in Shape : q = req[k] /\ Knows(q, day, credit)
    BY <1>1 DEF IInv
  <2> QED BY <2>1, <1>1, <1>3, <1>4, Following DEF Reads
<1>5. \A k \in Requests : Knows(req'[k], day', credit') /\ Reads(req[k], req'[k], credit)
  BY <1>4
<1>6. ASSUME NEW c \in Credits, NEW R \in Restore, Claim(c, R, credit', req')
      PROVE  Claim(c, R, credit, req)
  BY <1>5, <1>6 DEF Claim, Reads
<1>7. RightClaims(credit', req', penalty', taken')
  BY <1>6, ClaimsStay DEF IInv
<1> QED BY <1>2, <1>5, <1>7 DEF IInv

-----------------------------------------------------------------------------
(* A handler reads or ends and the row is not written ...                  *)
LEMMA Moving ==
  ASSUME IInv, NEW r \in Requests, NEW q \in Shape, req' = [req EXCEPT ![r] = q], day' = day
  PROVE  /\ req' \in [Requests -> Shape] /\ req'[r] = q
         /\ \A k \in Requests \ {r} : Follows(req[k], day, req'[k], day')
BY TableIs DEF IInv, Follows

(* ... or it is ...                                                        *)
LEMMA Writing ==
  ASSUME IInv, NEW r \in Requests, DoneAfterWrite(r)
  PROVE  /\ req' \in [Requests -> Shape] /\ req'[r] = Free
         /\ \A k \in Requests \ {r} : Follows(req[k], day, req'[k], day')
<1>1. req \in [Requests -> Shape]
  BY TableIs DEF IInv
<1>2. \A k \in Requests : Stale(req[k]) \in Shape
  BY <1>1, StaleIs
<1>3. req' = [k \in Requests |-> IF k = r THEN Free ELSE Stale(req[k])]
  BY DEF DoneAfterWrite
<1>4. req'[r] = Free /\ \A k \in Requests \ {r} : req'[k] = Stale(req[k])
  BY <1>3
<1>5. Free \in Shape
  BY DEF Shape
<1>6. req' \in [Requests -> Shape]
  BY <1>2, <1>3, <1>5, Zenon
<1>7. \A k \in Requests \ {r} : Follows(req[k], day, req'[k], day')
  BY <1>4, Zenon DEF Follows
<1> QED BY <1>4, <1>6, <1>7, Zenon

(* ... or it is by somebody else.                                          *)
LEMMA Overtaking ==
  ASSUME IInv, StaleAll
  PROVE  /\ req' \in [Requests -> Shape]
         /\ \A k \in Requests : Follows(req[k], day, req'[k], day')
<1>1. req \in [Requests -> Shape]
  BY TableIs DEF IInv
<1>2. \A k \in Requests : Stale(req[k]) \in Shape
  BY <1>1, StaleIs
<1>3. req' = [k \in Requests |-> Stale(req[k])]
  BY DEF StaleAll
<1>4. \A k \in Requests : req'[k] = Stale(req[k])
  BY <1>3
<1>5. req' \in [Requests -> Shape]
  BY <1>2, <1>3, Zenon
<1>6. \A k \in Requests : Follows(req[k], day, req'[k], day')
  BY <1>4, Zenon DEF Follows
<1> QED BY <1>5, <1>6, Zenon

(* A handler that is over knows and reads nothing.                         *)
LEMMA Over ==
  ASSUME NEW D, NEW C, NEW q
  PROVE  Free \in Shape /\ Free.op = "none" /\ Knows(Free, D, C) /\ Reads(q, Free, C)
BY DEF Shape, Free, Knows, Reads

(* While the rows stay, so does what is right about them.                  *)
LEMMA RowsStay ==
  ASSUME IInv, UNCHANGED <<alone, facts, history>>, edits' \in 0..MaxEdits
  PROVE  /\ TypeOK' /\ Stands(penalty, taken, penalty', taken')
         /\ RightPoints(penalty', taken', points', lowered')
         /\ Penalised(day') => penalty'[Absence] = "approved"
BY DEF IInv, Typed, TypeOK, facts, history, Stands, Row, Credit

(* A handler that only reads.                                              *)
LEMMA ReadingTurn ==
  ASSUME IInv, NEW r \in Requests, NEW q \in Shape, req' = [req EXCEPT ![r] = q],
         UNCHANGED <<alone, facts, history>>, edits' \in 0..MaxEdits,
         Knows(q, day, credit), Reads(req[r], q, credit)
  PROVE  IInv'
<1>1. day' = day /\ credit' = credit
  BY DEF facts
<1>2. /\ req' \in [Requests -> Shape] /\ req'[r] = q
      /\ \A k \in Requests \ {r} : Follows(req[k], day, req'[k], day')
  BY <1>1, Moving
<1>3. Typed'
  BY <1>2, RowsStay DEF Typed
<1>4. /\ Stands(penalty, taken, penalty', taken')
      /\ RightPoints(penalty', taken', points', lowered')
      /\ Penalised(day') => penalty'[Absence] = "approved"
  BY RowsStay
<1>5. \A k \in Requests : \/ Follows(req[k], day, req'[k], day')
                          \/ Knows(req'[k], day', credit) /\ Reads(req[k], req'[k], credit)
  BY <1>1, <1>2
<1> QED BY <1>1, <1>3, <1>4, <1>5, Quiet

(* What is true of the rows.                                               *)
LEMMA RowsAre ==
  ASSUME IInv
  PROVE  /\ day \in Row \cup {NoRow} /\ rows \in 0..MaxRows /\ edits \in 0..MaxEdits
         /\ points \in Int /\ lowered \in Nat /\ alone \in BOOLEAN
         /\ penalty \in [Reasons -> Statuses] /\ taken \in [Reasons -> Nat]
         /\ Penalised(day) => penalty[Absence] = "approved"
         /\ credit \in Table /\ req \in [Requests -> Shape]
         /\ \A r \in Requests : req[r] \in Shape /\ Knows(req[r], day, credit)
BY TableIs DEF IInv, Typed, TypeOK, Statuses

(* createCredits and what it is asked for: nothing has been read yet.      *)
LEMMA BeginCreateTurn ==
  ASSUME IInv, NEW r \in Requests, BeginCreate(r)
  PROVE  IInv'
<1>1. PICK chosen \in (SUBSET Missed) \ {{}}, lift \in BOOLEAN :
         Ask(r, [op |-> "create", at |-> "look", lessons |-> chosen, lift |-> lift])
  BY DEF BeginCreate
<1> DEFINE q == [op |-> "create", at |-> "look", lessons |-> chosen, lift |-> lift]
<1>2. q \in Shape
  BY DEF Shape, Choosing, Missed
<1>3. Knows(q, day, credit) /\ Reads(req[r], q, credit)
  BY DEF Knows, Reads
<1>4. req' = [req EXCEPT ![r] = q]
  BY <1>1 DEF Ask
<1>5. edits' \in 0..MaxEdits /\ UNCHANGED <<alone, facts, history>>
  BY RowsAre DEF BeginCreate
<1> HIDE DEF q
<1> QED BY <1>2, <1>3, <1>4, <1>5, ReadingTurn

(* Before its transaction createCredits reads the day, its penalties and   *)
(* the points, and all of this is fresh at that moment.                    *)
LEMMA LookTurn ==
  ASSUME IInv, NEW r \in Requests, Look(r)
  PROVE  IInv'
<1>1. PICK p \in Choosing : p = req[r]
  BY RowsAre, Places DEF Look
<1> DEFINE q == [op |-> "create", at |-> "commit", lessons |-> req[r].lessons, lift |-> req[r].lift,
                 lifts |-> {x \in Reasons : penalty[x] = "approved"},
                 points |-> points, day |-> day, fresh |-> TRUE]
<1>2. q \in Creating
  <2>1. p.lessons \in SUBSET Lessons /\ p.lift \in BOOLEAN
    BY DEF Choosing
  <2> QED BY <1>1, <2>1, RowsAre DEF Creating
<1>3. q.day = day /\ q.op = "create"
      /\ (Penalised(q.day) => Absence \in q.lifts)
  BY RowsAre, Sizes
<1>4. req' = [req EXCEPT ![r] = q]
  BY DEF Look
<1>5. edits' \in 0..MaxEdits /\ UNCHANGED <<alone, facts, history>>
  BY RowsAre DEF Look
<1> HIDE DEF q
<1>6. Knows(q, day, credit) /\ Reads(req[r], q, credit) /\ q \in Shape
  BY <1>2, <1>3 DEF Knows, Reads, Shape
<1> QED BY <1>4, <1>5, <1>6, ReadingTurn

(* revokeCredits reads the active credits, and with them what each of them *)
(* remembers: that memory is nothing that the credit did not claim.        *)
LEMMA BeginRevokeTurn ==
  ASSUME IInv, NEW r \in Requests, BeginRevoke(r)
  PROVE  IInv'
<1>1. PICK chosen \in (SUBSET Active) \ {{}} :
         Ask(r, [op |-> "revoke", at |-> "look", read |-> chosen, seen |-> credit])
  BY DEF BeginRevoke
<1> DEFINE q == [op |-> "revoke", at |-> "look", read |-> chosen, seen |-> credit]
<1>2. chosen \subseteq ActiveIn(credit) /\ credit \in Table
  BY RowsAre, TableIs DEF IInv
<1>3. q \in Shape
  BY <1>2 DEF Shape, Selecting, ActiveIn
<1>4. Knows(q, day, credit) /\ Reads(req[r], q, credit)
  <2>1. q.op = "revoke" /\ q.at # "commit" /\ q.read = chosen /\ q.seen = credit
    OBVIOUS
  <2>2. RightTable(credit)
    BY DEF IInv, RightCredits
  <2> HIDE DEF q
  <2> QED BY <1>2, <2>1, <2>2 DEF Knows, Reads, ActiveIn
<1>5. req' = [req EXCEPT ![r] = q]
  BY <1>1 DEF Ask
<1>6. edits' \in 0..MaxEdits /\ UNCHANGED <<alone, facts, history>>
  BY RowsAre DEF BeginRevoke
<1> HIDE DEF q
<1> QED BY <1>3, <1>4, <1>5, <1>6, ReadingTurn

(* It then reads which credits of the day stay active, and keeps what it   *)
(* has read first.                                                         *)
LEMMA LookAroundTurn ==
  ASSUME IInv, NEW r \in Requests, LookAround(r)
  PROVE  IInv'
<1>1. PICK p \in Selecting : p = req[r] /\ Knows(p, day, credit) /\ p.op = "revoke"
  BY RowsAre, Places DEF LookAround
<1> DEFINE remain == {c \in Active \ p.read : credit[c].restore = NoRestore}
           others == Active \ p.read
           q == [op |-> "revoke", at |-> "commit", read |-> p.read, seen |-> p.seen,
                 remain |-> remain, others |-> others]
<1>2. q \in Shape
  BY DEF Shape, Selecting, Revoking, Active
<1>3. Knows(q, day, credit) /\ Reads(p, q, credit)
  <2>1. q.op = "revoke" /\ q.read = p.read /\ q.seen = p.seen /\ q.others = others
    OBVIOUS
  <2>2. \A c \in others : credit[c].status # "none"
    BY DEF Active
  <2> HIDE DEF q, others
  <2> QED BY <2>1, <2>2, <1>1 DEF Knows, Reads
<1>4. req' = [req EXCEPT ![r] = q]
  BY <1>1 DEF LookAround
<1>5. edits' \in 0..MaxEdits /\ UNCHANGED <<alone, facts, history>>
  BY RowsAre DEF LookAround
<1> HIDE DEF q
<1> QED BY <1>1, <1>2, <1>3, <1>4, <1>5, ReadingTurn

(* cancelAttendance reads the row and the points.                          *)
LEMMA BeginCancelDayTurn ==
  ASSUME IInv, NEW r \in Requests, BeginCancelDay(r)
  PROVE  IInv'
<1> DEFINE q == [op |-> "cancel", at |-> "commit", day |-> day, points |-> points, fresh |-> TRUE]
<1>1. q \in Shape
  BY RowsAre DEF Shape, Cancelling, BeginCancelDay
<1>2. Knows(q, day, credit) /\ Reads(req[r], q, credit)
  BY DEF Knows, Reads
<1>3. req' = [req EXCEPT ![r] = q]
  BY DEF BeginCancelDay, Ask
<1>4. edits' \in 0..MaxEdits /\ UNCHANGED <<alone, facts, history>>
  BY RowsAre, Sizes DEF BeginCancelDay
<1> HIDE DEF q
<1> QED BY <1>1, <1>2, <1>3, <1>4, ReadingTurn

(* recheckRange reads the points for a lesson that has got its grades.     *)
LEMMA BeginRecheckTurn ==
  ASSUME IInv, NEW r \in Requests, BeginRecheck(r)
  PROVE  IInv'
<1>1. PICK l \in Lessons :
         Ask(r, [op |-> "recheck", at |-> "commit", lesson |-> l, points |-> points])
  BY DEF BeginRecheck
<1> DEFINE q == [op |-> "recheck", at |-> "commit", lesson |-> l, points |-> points]
<1>2. q \in Shape
  BY RowsAre DEF Shape, Rechecking
<1>3. Knows(q, day, credit) /\ Reads(req[r], q, credit)
  BY DEF Knows, Reads
<1>4. req' = [req EXCEPT ![r] = q]
  BY <1>1 DEF Ask
<1>5. edits' \in 0..MaxEdits /\ UNCHANGED <<alone, facts, history>>
  BY RowsAre, Sizes DEF BeginRecheck
<1> HIDE DEF q
<1> QED BY <1>2, <1>3, <1>4, <1>5, ReadingTurn

(* A handler that fails writes nothing and forgets what it has read.       *)
LEMMA FailTurn ==
  ASSUME IInv, NEW r \in Requests, Fail(r)
  PROVE  IInv'
<1>1. req' = [req EXCEPT ![r] = Free]
  BY DEF Fail, Done
<1>2. edits' \in 0..MaxEdits /\ UNCHANGED <<alone, facts, history>>
  BY RowsAre DEF Fail
<1> QED BY <1>1, <1>2, Over, ReadingTurn

-----------------------------------------------------------------------------
(* The types of the rows, one by one.                                      *)
LEMMA TypedRows ==
  ASSUME alone' \in BOOLEAN, ours' \in BOOLEAN, day' \in Row \cup {NoRow}, rows' \in 0..MaxRows,
         graded' \subseteq Lessons, penalty' \in [Reasons -> Statuses], points' \in Int,
         lowered' \in Nat, taken' \in [Reasons -> Nat], credit' \in Table,
         edits' \in 0..MaxEdits, req' \in [Requests -> Shape]
  PROVE  Typed'
BY DEF Typed, TypeOK, Statuses, Table

(* Somebody else's change of the day is noted, one way or the other.       *)
LEMMA Noted ==
  ASSUME IInv, ChangedByOthers \/ UNCHANGED ours
  PROVE  ours' \in BOOLEAN
BY DEF IInv, Typed, TypeOK, ChangedByOthers

(* The types of the rows that most steps leave alone.                      *)
LEMMA SomeRows ==
  ASSUME IInv
  PROVE  graded \subseteq Lessons /\ ours \in BOOLEAN /\ alone \in BOOLEAN
BY DEF IInv, Typed, TypeOK

(* cancelAttendance removes the row and rejects the penalty that stands on *)
(* it. A penalised row was read as such, so nobody claims its absence.     *)
LEMMA CancelDayTurn ==
  ASSUME IInv, NEW r \in Requests, CancelDay(r)
  PROVE  IInv'
<1>1. PICK q \in Cancelling : q = req[r]
  BY RowsAre, Places DEF CancelDay
<1>2. PICK X \in SUBSET Reasons : Reject(X, q.points) /\ q.points \in Int
  <2>1. (IF q.day.penalised THEN {Absence} ELSE {}) \in SUBSET Reasons
    BY Sizes
  <2>2. q.points \in Int
    BY DEF Cancelling
  <2> QED BY <1>1, <2>1, <2>2 DEF CancelDay
<1>3. /\ day' = NoRow /\ DoneAfterWrite(r) /\ ours' \in BOOLEAN
      /\ UNCHANGED <<alone, rows, graded, credit, edits, lowered>>
  BY Noted DEF CancelDay
<1>4. /\ penalty' \in [Reasons -> Statuses] /\ taken' \in [Reasons -> Nat] /\ points' \in Int
      /\ RightPoints(penalty', taken', points', lowered')
      /\ Stands(penalty, taken, penalty', taken')
  BY <1>2, <1>3, Rejecting DEF IInv
<1>5. /\ req' \in [Requests -> Shape] /\ req'[r] = Free
      /\ \A k \in Requests \ {r} : Follows(req[k], day, req'[k], day')
  BY <1>3, Writing
<1>6. Typed'
  BY <1>3, <1>4, <1>5, RowsAre, SomeRows, TypedRows
<1>7. Penalised(day') => penalty'[Absence] = "approved"
  BY <1>3 DEF Penalised
<1>8. \A k \in Requests : \/ Follows(req[k], day, req'[k], day')
                          \/ Knows(req'[k], day', credit) /\ Reads(req[k], req'[k], credit)
  BY <1>5, Over
<1> QED BY <1>3, <1>4, <1>6, <1>7, <1>8, Quiet

(* Rejecting the penalty of a lesson.                                      *)
LEMMA RecheckTurn ==
  ASSUME IInv, NEW r \in Requests, Recheck(r)
  PROVE  IInv'
<1>1. PICK q \in Rechecking : q = req[r]
  BY RowsAre, Places DEF Recheck
<1>2. PICK X \in SUBSET Reasons : Reject(X, q.points) /\ q.points \in Int /\ Absence \notin X
  <2>1. {q.lesson} \in SUBSET Reasons /\ Absence \notin {q.lesson}
    BY Sizes DEF Rechecking
  <2>2. q.points \in Int
    BY DEF Rechecking
  <2> QED BY <1>1, <2>1, <2>2 DEF Recheck
<1>3. /\ req' = [req EXCEPT ![r] = Free] /\ ours' \in BOOLEAN
      /\ UNCHANGED <<alone, day, rows, graded, credit, edits, lowered>>
  BY Noted DEF Recheck, Done
<1>4. /\ penalty' \in [Reasons -> Statuses] /\ taken' \in [Reasons -> Nat] /\ points' \in Int
      /\ RightPoints(penalty', taken', points', lowered')
      /\ Stands(penalty, taken, penalty', taken')
      /\ penalty'[Absence] = penalty[Absence]
  BY <1>2, <1>3, Rejecting, Sizes DEF IInv
<1>5. /\ req' \in [Requests -> Shape] /\ req'[r] = Free
      /\ \A k \in Requests \ {r} : Follows(req[k], day, req'[k], day')
  BY <1>3, Moving, Over
<1>6. Typed'
  BY <1>3, <1>4, <1>5, RowsAre, SomeRows, TypedRows
<1>7. Penalised(day') => penalty'[Absence] = "approved"
  BY <1>3, <1>4, RowsAre
<1>8. \A k \in Requests : \/ Follows(req[k], day, req'[k], day')
                          \/ Knows(req'[k], day', credit) /\ Reads(req[k], req'[k], credit)
  BY <1>5, Over
<1> QED BY <1>3, <1>4, <1>6, <1>7, <1>8, Quiet

(* A change of the row that neither brings nor lifts a penalty.            *)
LEMMA RowTurn ==
  ASSUME IInv, StaleAll, ChangedByOthers, day' \in Row, Penalised(day') => Penalised(day),
         rows' \in 0..MaxRows, edits' \in 0..MaxEdits,
         UNCHANGED <<alone, graded, penalty, points, credit, taken, lowered>>
  PROVE  IInv'
<1>1. /\ req' \in [Requests -> Shape]
      /\ \A k \in Requests : Follows(req[k], day, req'[k], day')
  BY Overtaking
<1>2. Typed'
  BY <1>1, RowsAre, SomeRows, Noted, TypedRows
<1>3. /\ Stands(penalty, taken, penalty', taken')
      /\ RightPoints(penalty', taken', points', lowered')
  BY DEF IInv, Stands
<1>4. Penalised(day') => penalty'[Absence] = "approved"
  BY RowsAre
<1> QED BY <1>1, <1>2, <1>3, <1>4, Quiet

(* Marking by hand writes the row and never a penalty.                     *)
LEMMA MarkStaffTurn ==
  ASSUME IInv, NEW mark \in Marks, MarkStaff(mark)
  PROVE  IInv'
<1>1. /\ StaleAll /\ ChangedByOthers /\ edits' \in 0..MaxEdits
      /\ UNCHANGED <<alone, graded, penalty, points, credit, taken, lowered>>
  BY RowsAre, Sizes DEF MarkStaff, Edit
<1>2. CASE /\ day = NoRow /\ rows < MaxRows
           /\ day' = [id |-> rows + 1, mark |-> mark, timed |-> FALSE, penalised |-> FALSE]
           /\ rows' = rows + 1
  <2>1. rows + 1 \in 1..MaxRows /\ rows' \in 0..MaxRows
    BY <1>2, RowsAre, Sizes
  <2>2. day' \in Row /\ ~Penalised(day')
    BY <1>2, <2>1 DEF Row, Penalised
  <2> QED BY <1>1, <2>1, <2>2, RowTurn
<1>3. CASE day # NoRow /\ day' = [day EXCEPT !.mark = mark] /\ UNCHANGED rows
  <2>1. day' \in Row /\ rows' \in 0..MaxRows /\ (Penalised(day') => Penalised(day))
    BY <1>3, RowsAre DEF Row, Penalised
  <2> QED BY <1>1, <2>1, RowTurn
<1> QED BY <1>2, <1>3 DEF MarkStaff

(* Times change the row, and whether it is penalised stays as it is.       *)
LEMMA UpdateTimesTurn ==
  ASSUME IInv, UpdateTimes
  PROVE  IInv'
<1>1. /\ StaleAll /\ ChangedByOthers /\ edits' \in 0..MaxEdits
      /\ UNCHANGED <<alone, graded, penalty, points, credit, taken, lowered>>
      /\ day # NoRow /\ day' = [day EXCEPT !.timed = ~@] /\ UNCHANGED rows
  BY RowsAre, Sizes DEF UpdateTimes, Edit
<1>2. day' \in Row /\ rows' \in 0..MaxRows /\ (Penalised(day') => Penalised(day))
  BY <1>1, RowsAre DEF Row, Penalised
<1> QED BY <1>1, <1>2, RowTurn

(* An excuse is approved: the penalty of the absence is rejected whole.    *)
LEMMA ApproveExcuseTurn ==
  ASSUME IInv, ApproveExcuse
  PROVE  IInv'
<1>1. /\ StaleAll /\ ChangedByOthers /\ edits' \in 0..MaxEdits
      /\ UNCHANGED <<alone, graded, credit, lowered>>
  BY RowsAre, Sizes DEF ApproveExcuse, Edit
<1>2. CASE /\ day = NoRow /\ rows < MaxRows
           /\ day' = [id |-> rows + 1, mark |-> "excused", timed |-> FALSE, penalised |-> FALSE]
           /\ rows' = rows + 1
           /\ UNCHANGED <<penalty, points, taken>>
  <2>1. rows + 1 \in 1..MaxRows /\ rows' \in 0..MaxRows
    BY <1>2, RowsAre, Sizes
  <2>2. day' \in Row /\ ~Penalised(day')
    BY <1>2, <2>1 DEF Row, Penalised, Marks
  <2> QED BY <1>1, <1>2, <2>1, <2>2, RowTurn
<1>3. ASSUME /\ day # NoRow /\ day' = [day EXCEPT !.mark = "excused", !.penalised = FALSE]
             /\ UNCHANGED rows,
             ~day.penalised, UNCHANGED <<penalty, points, taken>>
      PROVE  IInv'
  <2>1. day' \in Row /\ rows' \in 0..MaxRows /\ ~Penalised(day')
    BY <1>3, RowsAre DEF Row, Penalised, Marks
  <2> QED BY <1>1, <1>3, <2>1, RowTurn
<1>4. ASSUME /\ day # NoRow /\ day' = [day EXCEPT !.mark = "excused", !.penalised = FALSE]
             /\ UNCHANGED rows,
             day.penalised,
             penalty' = [penalty EXCEPT ![Absence] = "rejected"],
             points' = points - AbsentPoints,
             taken' = [taken EXCEPT ![Absence] = AbsentPoints]
      PROVE  IInv'
  <2>1. day' \in Row /\ rows' \in 0..MaxRows /\ ~Penalised(day')
    BY <1>4, RowsAre DEF Row, Penalised, Marks
  <2>2. penalty[Absence] = "approved" /\ taken[Absence] = 0
    BY <1>4, RowsAre, Sizes DEF Penalised, IInv, RightPoints
  <2>3. penalty' \in [Reasons -> Statuses] /\ taken' \in [Reasons -> Nat] /\ points' \in Int
    BY <1>4, RowsAre, Sizes DEF Statuses
  <2>4. Stands(penalty, taken, penalty', taken')
    BY <1>4, <2>2, RowsAre DEF Stands
  <2> DEFINE Z == [x \in Reasons |-> 0]
             G == [x \in Reasons |-> IF x = Absence THEN 0 - AbsentPoints ELSE 0]
  <2>5. Total(G, NL + 1) = 0 - AbsentPoints
    <3>1. /\ Z \in [1..(NL + 1) -> Int] /\ NL + 1 \in Nat /\ Absence \in 1..(NL + 1)
          /\ 0 - AbsentPoints \in Int
          /\ \A x \in 1..(NL + 1) : G[x] = IF x = Absence THEN Z[x] + (0 - AbsentPoints) ELSE Z[x]
          /\ \A x \in 1..(NL + 1) : Z[x] = 0
      BY Sizes DEF Reasons
    <3> HIDE DEF Z, G
    <3>2. Total(G, NL + 1) = Total(Z, NL + 1) + (0 - AbsentPoints)
      BY <3>1, TotalBump
    <3>3. Total(Z, NL + 1) = 0
      BY <3>1, TotalZero
    <3> QED BY <3>1, <3>2, <3>3
  <2>6. G \in [Reasons -> Int]
    BY Sizes
  <2>7. ASSUME NEW x \in Reasons
        PROVE  /\ penalty'[x] = "none" <=> penalty[x] = "none"
               /\ taken'[x] = taken[x] - G[x]
               /\ penalty[x] = "none" => G[x] = 0
               /\ penalty'[x] = "approved" => taken'[x] = 0
    <3>1. CASE x = Absence
      <4>1. penalty'[x] = "rejected" /\ taken'[x] = AbsentPoints /\ G[x] = 0 - AbsentPoints
        BY <3>1, <1>4, RowsAre
      <4> HIDE DEF G
      <4> QED BY <3>1, <4>1, <2>2, Sizes
    <3>2. CASE x # Absence
      <4>1. penalty'[x] = penalty[x] /\ taken'[x] = taken[x] /\ G[x] = 0 /\ taken[x] \in Nat
        BY <3>2, <1>4, RowsAre
      <4> HIDE DEF G
      <4> QED BY <4>1 DEF IInv, RightPoints
    <3> QED BY <3>1, <3>2
  <2> HIDE DEF G
  <2>8. RightPoints(penalty', taken', points', lowered')
    <3>1. PICK P \in [Reasons -> Statuses], T \in [Reasons -> Nat], n \in Int, low \in Nat :
             P = penalty /\ T = taken /\ n = points /\ low = lowered
      BY RowsAre
    <3>2. PICK P2 \in [Reasons -> Statuses], T2 \in [Reasons -> Nat] : P2 = penalty' /\ T2 = taken'
      BY <2>3
    <3>3. \A x \in Reasons : /\ P2[x] = "none" <=> P[x] = "none"
                             /\ T2[x] = T[x] - G[x]
                             /\ P[x] = "none" => G[x] = 0
                             /\ P2[x] = "approved" => T2[x] = 0
      BY <2>7, <3>1, <3>2
    <3>4. RightPoints(P, T, n, low)
      BY <3>1 DEF IInv
    <3>5. RightPoints(P2, T2, n + Total(G, NL + 1), low)
      BY <3>3, <3>4, <2>6, PointsMove
    <3>6. n + Total(G, NL + 1) = points' /\ low = lowered'
      BY <2>5, <3>1, <1>4, <1>1, Sizes
    <3> QED BY <3>2, <3>5, <3>6
  <2>9. /\ req' \in [Requests -> Shape]
        /\ \A k \in Requests : Follows(req[k], day, req'[k], day')
    BY <1>1, Overtaking
  <2>10. Typed'
    BY <1>1, <2>1, <2>3, <2>9, RowsAre, SomeRows, Noted, TypedRows
  <2> QED BY <1>1, <2>1, <2>4, <2>8, <2>9, <2>10, Quiet
<1> QED BY <1>2, <1>3, <1>4 DEF ApproveExcuse

(* A grade changes neither the day nor the points.                         *)
LEMMA GradeTurn ==
  ASSUME IInv, NEW l \in Lessons, Grade(l)
  PROVE  IInv'
<1>1. /\ edits' \in 0..MaxEdits /\ graded' \subseteq Lessons
      /\ UNCHANGED <<alone, day, rows, penalty, points, credit, req, taken, lowered, ours>>
  BY RowsAre, SomeRows, Sizes DEF Grade, Edit, history
<1>2. Typed'
  BY <1>1, RowsAre, SomeRows, TypedRows
<1>3. /\ Stands(penalty, taken, penalty', taken')
      /\ RightPoints(penalty', taken', points', lowered')
  BY <1>1 DEF IInv, Stands
<1>4. \A k \in Requests : Follows(req[k], day, req'[k], day')
  BY <1>1 DEF Follows
<1> QED BY <1>1, <1>2, <1>3, <1>4, RowsAre, Quiet

(* Points that an owner takes away are accounted for as such.              *)
LEMMA ReducePenaltyTurn ==
  ASSUME IInv, NEW n \in 1..MaxEdits, ReducePenalty(n)
  PROVE  IInv'
<1>1. /\ edits' \in 0..MaxEdits /\ points' = points - n /\ lowered' = lowered + n
      /\ UNCHANGED <<alone, day, rows, graded, penalty, credit, req, taken, ours>>
  BY RowsAre, Sizes DEF ReducePenalty, Edit
<1>2. n \in Nat /\ points \in Int /\ lowered \in Nat
  BY RowsAre, Sizes
<1>3. Typed'
  BY <1>1, <1>2, RowsAre, SomeRows, TypedRows
<1>4. Stands(penalty, taken, penalty', taken')
  BY <1>1 DEF Stands
<1>5. RightPoints(penalty', taken', points', lowered')
  <2>1. PICK t \in Int : t = Total(Worth(penalty, taken), NL + 1)
    <3>1. Worth(penalty, taken) \in [1..(NL + 1) -> Int] /\ NL + 1 \in Nat
      BY RowsAre, Sizes DEF Worth, Reasons
    <3> QED BY <3>1, CumType
  <2>2. points = t - lowered
    BY <2>1 DEF IInv, RightPoints
  <2>3. points' = t - lowered'
    BY <2>2, <1>1, <1>2
  <2>4. \A x \in Reasons : penalty[x] = "approved" => taken[x] = 0
    BY DEF IInv, RightPoints
  <2> QED BY <2>1, <2>3, <2>4, <1>1 DEF RightPoints
<1>6. \A k \in Requests : Follows(req[k], day, req'[k], day')
  BY <1>1 DEF Follows
<1> QED BY <1>1, <1>3, <1>4, <1>5, <1>6, RowsAre, Quiet

-----------------------------------------------------------------------------
(* The lessons of a set are numbered in their order, from one on.          *)
RankIn(new, l) == Cardinality({k \in new : k <= l})

(* In order of the lessons, the new credits get the ranks from 1 to their  *)
(* number, each rank once.                                                 *)
LEMMA Ranks ==
  ASSUME NEW new \in SUBSET Lessons
  PROVE  /\ IsFiniteSet(new) /\ Cardinality(new) \in Nat
         /\ \A l \in new : RankIn(new, l) \in 1..Cardinality(new)
         /\ \A k, l \in new : RankIn(new, k) = RankIn(new, l) => k = l
         /\ \A i \in 1..Cardinality(new) : \E l \in new : RankIn(new, l) = i
<1>1. IsFiniteSet(Lessons)
  <2>1. NL \in Int /\ 1 \in Int
    BY Sizes
  <2> QED BY <2>1, FS_Interval DEF Lessons
<1>2. IsFiniteSet(new) /\ Cardinality(new) \in Nat
  BY <1>1, FS_Subset, FS_CardinalityType
<1>3. \A l \in new : l \in Int
  BY DEF Lessons
<1> DEFINE Upto(l) == {k \in new : k <= l}
<1>4. ASSUME NEW l \in new
      PROVE  /\ IsFiniteSet(Upto(l)) /\ Cardinality(Upto(l)) \in 1..Cardinality(new)
  <2>1. Upto(l) \in SUBSET new /\ l \in Upto(l)
    BY <1>3
  <2>2. IsFiniteSet(Upto(l)) /\ Cardinality(Upto(l)) <= Cardinality(new)
    BY <2>1, <1>2, FS_Subset
  <2>3. Cardinality(Upto(l)) \in Nat /\ Cardinality(Upto(l)) # 0
    BY <2>1, <2>2, FS_CardinalityType, FS_EmptySet
  <2> QED BY <2>2, <2>3, <1>2
<1>5. ASSUME NEW k \in new, NEW l \in new, k < l
      PROVE  Cardinality(Upto(k)) < Cardinality(Upto(l))
  <2>1. Upto(k) \cup {l} \in SUBSET Upto(l) /\ l \notin Upto(k)
    BY <1>3, <1>5
  <2>2. Cardinality(Upto(k) \cup {l}) = Cardinality(Upto(k)) + 1
    BY <2>1, <1>4, FS_AddElement
  <2>3. Cardinality(Upto(k) \cup {l}) <= Cardinality(Upto(l))
    BY <2>1, <1>4, FS_Subset
  <2> QED BY <2>2, <2>3, <1>4
<1>6. \A l \in new : RankIn(new, l) = Cardinality(Upto(l))
  BY DEF RankIn
<1> HIDE DEF Upto
<1>7. \A l \in new : RankIn(new, l) \in 1..Cardinality(new)
  BY <1>4, <1>6
<1>8. ASSUME NEW k \in new, NEW l \in new, RankIn(new, k) = RankIn(new, l)
      PROVE  k = l
  <2>1. ~(k < l) /\ ~(l < k)
    <3>1. Cardinality(Upto(k)) = Cardinality(Upto(l)) /\ Cardinality(Upto(k)) \in Int
      BY <1>4, <1>6, <1>8
    <3> QED BY <3>1, <1>5
  <2> QED BY <2>1, <1>3
<1> DEFINE f == [l \in new |-> RankIn(new, l)]
           n == Cardinality(new)
<1>9. f \in Injection(new, 1..n)
  BY <1>7, <1>8 DEF Injection, IsInjective
<1>10. IsFiniteSet(1..n) /\ Cardinality(1..n) = n
  BY <1>2, FS_Interval
<1>11. f \in Surjection(new, 1..n)
  BY <1>9, <1>10, FS_Injection
<1>12. \A i \in 1..n : \E l \in new : RankIn(new, l) = i
  BY <1>11 DEF Surjection
<1> QED BY <1>2, <1>7, <1>8, <1>12

(* Handlers whose bound leaves room find it.                               *)
LEMMA RoomIs ==
  ASSUME IInv
  PROVE  /\ Room <= NC /\ Room \in Nat
         /\ IsFiniteSet(Used) /\ Cardinality(Used) \in Nat
         /\ Used = 1..Cardinality(Used)
<1>1. IsFiniteSet(Credits)
  BY Sizes, FS_Interval DEF Credits
<1>2. Used \in SUBSET Credits
  BY DEF Used
<1>3. IsFiniteSet(Used) /\ Cardinality(Used) \in Nat
  BY <1>1, <1>2, FS_Subset, FS_CardinalityType
<1>4. Used = 1..Cardinality(Used)
  BY TableIs DEF IInv, RightCredits, Numbered
<1> QED BY <1>3, <1>4, Sizes DEF Room

(* The rows that createCredits writes: one for each new lesson, the first  *)
(* of them with what is to be remembered of the day.                       *)
Added(C2, b, new, live, gone, restore) ==
    /\ C2 \in Table /\ Numbered(C2)
    /\ \A c \in Used : C2[c] = credit[c]
    /\ \A c \in UsedIn(C2) \ Used :
         /\ C2[c].status = "active" /\ C2[c].lesson \in new
         /\ C2[c].lifted <=> C2[c].lesson \in live
         /\ C2[c].lifted => C2[c].removed = gone[C2[c].lesson]
         /\ C2[c].restore = IF c = b + 1 THEN restore ELSE NoRestore
    /\ \A c, e \in UsedIn(C2) \ Used : C2[c].lesson = C2[e].lesson => c = e
    /\ b + 1 \in UsedIn(C2) \ Used

(* The credits that createCredits writes take the next free numbers, and   *)
(* the old credits stay as they are.                                       *)
LEMMA NewOnes ==
  ASSUME IInv,
         NEW new \in SUBSET Lessons, new # {}, Cardinality(Used) + Cardinality(new) <= NC,
         NEW live \in SUBSET Reasons, NEW gone \in [Reasons -> Nat],
         NEW restore \in Restore \cup {NoRestore},
         NEW C2, C2 = NewCredits(new, gone, live, restore),
         NEW b, b = Cardinality(Used)
  PROVE  Added(C2, b, new, live, gone, restore)
<1> DEFINE n == Cardinality(new)
           Rank(l) == RankIn(new, l)
           At(c) == CHOOSE k \in new : c = b + Rank(k)
<1>1. /\ IsFiniteSet(new) /\ n \in Nat
      /\ \A l \in new : Rank(l) \in 1..n
      /\ \A k, l \in new : Rank(k) = Rank(l) => k = l
      /\ \A i \in 1..n : \E l \in new : Rank(l) = i
  BY Ranks
<1>2. n # 0
  BY <1>1, FS_EmptySet
<1>3. credit \in Table /\ b \in Nat /\ NC \in Nat /\ Credits = 1..NC
  BY TableIs, Sizes, RoomIs DEF Credits, IInv
<1> DEFINE U == 1..b
<1>3a. Used = U
  BY RoomIs
<1>4. C2 = [c \in Credits |->
              IF \E l \in new : c = b + Rank(l)
              THEN [status |-> "active", lesson |-> At(c), lifted |-> At(c) \in live,
                    removed |-> IF At(c) \in live THEN gone[At(c)] ELSE 0,
                    restore |-> IF Rank(At(c)) = 1 THEN restore ELSE NoRestore]
              ELSE credit[c]]
  BY DEF NewCredits, RankIn
<1>5. \A c \in Credits : (\E l \in new : c = b + Rank(l)) <=> c \in (b + 1)..(b + n)
  <2>1. ASSUME NEW c \in Credits, NEW l \in new, c = b + Rank(l) PROVE c \in (b + 1)..(b + n)
    BY <2>1, <1>1, <1>3
  <2>2. ASSUME NEW c \in (b + 1)..(b + n) PROVE \E l \in new : c = b + Rank(l)
    <3>1. c - b \in 1..n
      BY <1>1, <1>3
    <3>2. PICK l \in new : Rank(l) = c - b
      BY <3>1, <1>1
    <3>3. c = b + Rank(l)
      BY <3>2, <1>1, <1>3
    <3> QED BY <3>3
  <2> QED BY <2>1, <2>2
<1>6. ASSUME NEW c \in (b + 1)..(b + n)
      PROVE  /\ c \in Credits /\ At(c) \in new /\ c = b + Rank(At(c))
             /\ Rank(At(c)) = 1 <=> c = b + 1
  <2>1. c \in Credits
    BY <1>1, <1>3
  <2>2. At(c) \in new /\ c = b + Rank(At(c))
    BY <2>1, <1>5
  <2> HIDE DEF At
  <2>3. Rank(At(c)) = 1 <=> c = b + 1
    BY <2>2, <1>1, <1>3
  <2> QED BY <2>1, <2>2, <2>3
<1>7. \A c \in Credits : C2[c] = IF c \in (b + 1)..(b + n)
              THEN [status |-> "active", lesson |-> At(c), lifted |-> At(c) \in live,
                    removed |-> IF At(c) \in live THEN gone[At(c)] ELSE 0,
                    restore |-> IF c = b + 1 THEN restore ELSE NoRestore]
              ELSE credit[c]
  <2> HIDE DEF At, Rank
  <2> SUFFICES ASSUME NEW c \in Credits
               PROVE C2[c] = IF c \in (b + 1)..(b + n)
                  THEN [status |-> "active", lesson |-> At(c), lifted |-> At(c) \in live,
                        removed |-> IF At(c) \in live THEN gone[At(c)] ELSE 0,
                        restore |-> IF c = b + 1 THEN restore ELSE NoRestore]
                  ELSE credit[c]
    OBVIOUS
  <2>1. CASE c \in (b + 1)..(b + n)
    BY <2>1, <1>4, <1>5, <1>6
  <2>2. CASE c \notin (b + 1)..(b + n)
    BY <2>2, <1>4, <1>5
  <2> QED BY <2>1, <2>2
<1> HIDE DEF At, Rank
<1>8. ASSUME NEW c \in (b + 1)..(b + n)
      PROVE  /\ C2[c] \in Credit /\ c \notin Used /\ c \in Credits
             /\ C2[c].status = "active" /\ C2[c].lesson = At(c)
             /\ C2[c].lifted <=> At(c) \in live
             /\ C2[c].lifted => C2[c].removed = gone[At(c)]
             /\ C2[c].restore = IF c = b + 1 THEN restore ELSE NoRestore
  <2>1. At(c) \in new /\ At(c) \in Lessons /\ At(c) \in Reasons /\ gone[At(c)] \in Nat /\ c \in Credits
    BY <1>6, Sizes
  <2>2. c \notin Used
    <3>1. \A x \in U : x <= b
      BY <1>3
    <3> HIDE DEF U
    <3>2. c \notin U
      BY <3>1, <1>1, <1>3
    <3> QED BY <3>2, <1>3a, Zenon
  <2>3. C2[c] = [status |-> "active", lesson |-> At(c), lifted |-> At(c) \in live,
                 removed |-> IF At(c) \in live THEN gone[At(c)] ELSE 0,
                 restore |-> IF c = b + 1 THEN restore ELSE NoRestore]
    BY <2>1, <1>7
  <2>4. /\ C2[c].status = "active" /\ C2[c].lesson = At(c)
        /\ C2[c].lifted = (At(c) \in live)
        /\ C2[c].removed = IF At(c) \in live THEN gone[At(c)] ELSE 0
        /\ C2[c].restore = IF c = b + 1 THEN restore ELSE NoRestore
    BY <2>3
  <2>5. C2[c] \in Credit
    <3> DEFINE lifted == At(c) \in live
               removed == IF At(c) \in live THEN gone[At(c)] ELSE 0
               rest == IF c = b + 1 THEN restore ELSE NoRestore
    <3>1. lifted \in BOOLEAN /\ removed \in Nat /\ rest \in Restore \cup {NoRestore}
      BY <2>1
    <3>2. C2[c] = [status |-> "active", lesson |-> At(c), lifted |-> lifted,
                   removed |-> removed, restore |-> rest]
      BY <2>3
    <3> HIDE DEF lifted, removed, rest
    <3> QED BY <3>1, <3>2, <2>1 DEF Credit
  <2> QED BY <2>1, <2>2, <2>4, <2>5
<1>9. \A c \in Credits \ (b + 1)..(b + n) : C2[c] = credit[c]
  BY <1>7
<1>10. C2 \in Table
  <2>1. \A c \in Credits : C2[c] \in Credit \cup {NoCredit}
    BY <1>3, <1>8, <1>9 DEF Table
  <2>2. DOMAIN C2 = Credits /\ C2 = [c \in Credits |-> C2[c]]
    BY <1>4
  <2> QED BY <2>1, <2>2 DEF Table
<1>11. UsedIn(C2) = 1..(b + n) /\ UsedIn(C2) \ Used = (b + 1)..(b + n)
  <2>1. \A c \in Credits : c \in UsedIn(C2) <=> (c \in (b + 1)..(b + n) \/ c \in Used)
    BY <1>8, <1>9 DEF UsedIn, Used
  <2>2. \A c \in UsedIn(C2) : c \in Credits
    BY DEF UsedIn
  <2>3. \A c \in 1..(b + n) : c \in Credits /\ (c \in (b + 1)..(b + n) \/ c \in U)
    BY <1>1, <1>3
  <2>4. \A c \in (b + 1)..(b + n) : c \in 1..(b + n) /\ c \notin U
    BY <1>1, <1>3
  <2>5. \A c \in U : c \in 1..(b + n)
    BY <1>1, <1>3
  <2> DEFINE A == (b + 1)..(b + n)
             B == 1..(b + n)
  <2> HIDE DEF A, B, U
  <2>6. /\ \A c \in Credits : c \in UsedIn(C2) <=> (c \in A \/ c \in U)
        /\ \A c \in B : c \in Credits /\ (c \in A \/ c \in U)
        /\ \A c \in A : c \in B /\ c \notin U
        /\ \A c \in U : c \in B
    BY <2>1, <2>3, <2>4, <2>5, <1>3a, Zenon DEF A, B
  <2>7. UsedIn(C2) = B /\ UsedIn(C2) \ U = A
    BY <2>2, <2>6, Zenon
  <2> QED BY <2>7, <1>3a, Zenon DEF A, B
<1>12. Numbered(C2)
  <2>1. b + n \in Int /\ b + n > 0
    BY <1>1, <1>2, <1>3
  <2>2. Cardinality(1..(b + n)) = b + n
    BY <2>1, FS_Interval
  <2> QED BY <2>2, <1>11 DEF Numbered
<1>13. \A c \in Used : C2[c] = credit[c]
  <2>1. \A c \in Used : c \in Credits /\ c \notin (b + 1)..(b + n)
    BY <1>8 DEF Used
  <2> QED BY <2>1, <1>9
<1>14. \A c, e \in (b + 1)..(b + n) : C2[c].lesson = C2[e].lesson => c = e
  <2> SUFFICES ASSUME NEW c \in (b + 1)..(b + n), NEW e \in (b + 1)..(b + n),
                      C2[c].lesson = C2[e].lesson
               PROVE c = e
    OBVIOUS
  <2>1. At(c) = At(e)
    BY <1>8
  <2>2. c = b + Rank(At(c)) /\ e = b + Rank(At(e))
    BY <1>6
  <2> QED BY <2>1, <2>2
<1>15. b + 1 \in (b + 1)..(b + n)
  BY <1>1, <1>2, <1>3
<1>16. \A c \in (b + 1)..(b + n) :
              /\ C2[c].status = "active" /\ C2[c].lesson \in new
              /\ C2[c].lifted <=> C2[c].lesson \in live
              /\ C2[c].lifted => C2[c].removed = gone[C2[c].lesson]
              /\ C2[c].restore = IF c = b + 1 THEN restore ELSE NoRestore
  BY <1>6, <1>8
<1> QED BY <1>10, <1>11, <1>12, <1>13, <1>14, <1>15, <1>16 DEF Added

-----------------------------------------------------------------------------
(* What a commit of createCredits works with, by name.                     *)
NewLessons(q) == q.lessons \ Credited
ToReject(q) == (IF q.lift THEN NewLessons(q) ELSE {})
               \cup (IF q.day # NoRow /\ Away(q.day) /\ q.day.penalised THEN {Absence} ELSE {})
LiveNow(q) == {x \in ToReject(q) \cap q.lifts : penalty[x] = "approved"}
DayMemory(q) == RestoreOf(q.day, Absence \in LiveNow(q), Taken(LiveNow(q), q.points)[Absence])

(* The commit of createCredits in these names.                             *)
LEMMA CreateIs ==
  ASSUME NEW r \in Requests, Create(r), NEW q, q = req[r]
  PROVE  /\ NewLessons(q) # {} /\ Cardinality(Used) + Cardinality(NewLessons(q)) <= Room
         /\ q.day = NoRow => day = NoRow /\ rows < MaxRows
         /\ Away(q.day) => q.fresh
         /\ Reject(ToReject(q) \cap q.lifts, q.points)
         /\ day' = MarkedRow(q.day)
         /\ rows' = IF q.day = NoRow THEN rows + 1 ELSE rows
         /\ credit' = NewCredits(NewLessons(q), Taken(LiveNow(q), q.points), LiveNow(q), DayMemory(q))
         /\ IF Active = {} THEN /\ origin' = [row |-> day, absence |-> penalty[Absence]]
                                /\ ours' = TRUE
                           ELSE UNCHANGED <<origin, ours>>
         /\ IF day' = day THEN Done(r) ELSE DoneAfterWrite(r)
         /\ UNCHANGED <<alone, graded, edits, lowered>>
BY DEF Create, NewLessons, ToReject, LiveNow, DayMemory

(* What a new credit remembers of the day, and what becomes of the row.    *)
LEMMA DayMemoryIs ==
  ASSUME IInv, NEW q \in Creating, Knows(q, day, credit),
         q.day = NoRow => day = NoRow /\ rows < MaxRows,
         Away(q.day) => q.fresh,
         day' = MarkedRow(q.day), rows' = IF q.day = NoRow THEN rows + 1 ELSE rows
  PROVE  /\ LiveNow(q) \in SUBSET Reasons
         /\ DayMemory(q) \in Restore \cup {NoRestore} /\ RightRestore(DayMemory(q))
         /\ Absence \in LiveNow(q) <=> DayMemory(q) # NoRestore /\ DayMemory(q).lifted
         /\ Absence \in LiveNow(q) =>
              DayMemory(q).removed = Taken(LiveNow(q), q.points)[Absence]
         /\ day' \in Row \cup {NoRow} /\ rows' \in 0..MaxRows
         /\ Penalised(day') => day' = day /\ Absence \notin LiveNow(q)
         /\ \/ /\ q.day = NoRow /\ day = NoRow
               /\ day' \in Row /\ day'.mark = "present" /\ ~day'.timed /\ ~day'.penalised
               /\ DayMemory(q) # NoRestore
               /\ DayMemory(q).created /\ DayMemory(q).id = day'.id
            \/ /\ q.day = day /\ Away(day)
               /\ day' = [day EXCEPT !.mark = "present", !.penalised = FALSE]
               /\ DayMemory(q) # NoRestore
               /\ ~DayMemory(q).created /\ DayMemory(q).id = day.id
               /\ DayMemory(q).mark = day.mark /\ DayMemory(q).penalised = day.penalised
            \/ /\ q.day # NoRow /\ ~Away(q.day) /\ day' = day
               /\ DayMemory(q) = NoRestore
<1> DEFINE live == LiveNow(q)
           gone == Taken(live, q.points)
           R == DayMemory(q)
<1>1. /\ q.lessons \in SUBSET Lessons /\ q.lifts \in SUBSET Reasons /\ q.points \in Int
      /\ q.day \in Row \cup {NoRow} /\ q.op = "create" /\ q.at = "commit"
  BY DEF Creating
<1>2. NewLessons(q) \in SUBSET Lessons
  BY <1>1 DEF NewLessons
<1>3. live \in SUBSET Reasons
  BY <1>1 DEF LiveNow
<1>4. gone \in [Reasons -> Nat] /\ gone[Absence] \in Nat
  BY <1>1, <1>3, TakenIs, Sizes
<1>5. Absence \in live => q.day # NoRow /\ Away(q.day) /\ q.day.penalised
  BY <1>2, Sizes DEF LiveNow, ToReject
<1>6. Away(q.day) => q.day = day /\ q.day # NoRow
  BY <1>1 DEF Knows, Away
<1>7. Away(q.day) /\ q.day.penalised => Absence \in live
  <2> SUFFICES ASSUME Away(q.day), q.day.penalised PROVE Absence \in live
    OBVIOUS
  <2>1. Penalised(q.day) /\ q.day = day
    BY <1>6 DEF Penalised
  <2>2. Absence \in q.lifts /\ penalty[Absence] = "approved"
    BY <2>1, <1>1, RowsAre DEF Knows
  <2>3. Absence \in ToReject(q)
    BY <1>6 DEF ToReject
  <2> QED BY <2>2, <2>3 DEF LiveNow
<1>8. R = RestoreOf(q.day, Absence \in live, gone[Absence])
  BY DEF DayMemory
<1> HIDE DEF live, gone, R
<1>9. rows \in 0..MaxRows /\ day \in Row \cup {NoRow} /\ MaxRows \in Nat
  BY RowsAre, Sizes
<1>10. CASE q.day = NoRow
  <2>1. R = [id |-> rows + 1, created |-> TRUE, mark |-> "present", penalised |-> FALSE,
             lifted |-> FALSE, removed |-> 0]
    BY <1>8, <1>10 DEF RestoreOf
  <2>2. rows + 1 \in 1..MaxRows /\ rows' = rows + 1 /\ day = NoRow
    BY <1>9, <1>10
  <2>3. R \in Restore /\ RightRestore(R)
    BY <2>1, <2>2 DEF Restore, RightRestore, Marks
  <2>4. R # NoRestore /\ ~R.lifted /\ R.created /\ R.id = rows + 1
    BY <2>1 DEF NoRestore
  <2>5. day' = [id |-> rows + 1, mark |-> "present", timed |-> FALSE, penalised |-> FALSE]
    BY <1>10 DEF MarkedRow
  <2>6. day' \in Row /\ day'.mark = "present" /\ ~day'.timed /\ ~day'.penalised /\ day'.id = rows + 1
    BY <2>2, <2>5 DEF Row, Marks
  <2>7. Absence \notin live /\ ~Penalised(day') /\ rows' \in 0..MaxRows
    BY <1>5, <1>10, <2>2, <2>6 DEF Penalised
  <2> QED BY <1>3, <1>10, <2>2, <2>3, <2>4, <2>6, <2>7 DEF live, gone, R
<1>11. CASE q.day # NoRow /\ Away(q.day)
  <2>1. q.day = day /\ day \in Row
    BY <1>6, <1>9, <1>11
  <2>2. R = [id |-> day.id, created |-> FALSE, mark |-> day.mark, penalised |-> day.penalised,
             lifted |-> Absence \in live, removed |-> gone[Absence]]
    BY <1>8, <1>11, <2>1 DEF RestoreOf
  <2> DEFINE B == Absence \in live
  <2>3. B \in BOOLEAN /\ (B <=> Absence \in live)
    OBVIOUS
  <2>4. /\ (Absence \in live <=> day.penalised) /\ (B <=> day.penalised)
        /\ R = [id |-> day.id, created |-> FALSE, mark |-> day.mark, penalised |-> day.penalised,
                lifted |-> B, removed |-> gone[Absence]]
    BY <2>2, <1>5, <1>7, <1>11, <2>1
  <2> HIDE DEF B
  <2>5. R \in Restore /\ RightRestore(R)
    BY <2>1, <2>3, <2>4, <1>4 DEF Row, Restore, RightRestore
  <2>6. /\ R # NoRestore /\ R.lifted = B /\ ~R.created /\ R.id = day.id
        /\ R.mark = day.mark /\ R.penalised = day.penalised /\ R.removed = gone[Absence]
    BY <2>4 DEF NoRestore
  <2>7. day' = [day EXCEPT !.mark = "present", !.penalised = FALSE]
    BY <1>11, <2>1 DEF MarkedRow
  <2>8. day' \in Row /\ ~day'.penalised /\ rows' \in 0..MaxRows
    BY <2>1, <2>7, <1>9, <1>11 DEF Row, Marks
  <2>9. Absence \in live <=> R.lifted
    BY <2>3, <2>4, <2>6
  <2> QED BY <1>3, <1>11, <2>1, <2>5, <2>6, <2>7, <2>8, <2>9 DEF live, gone, R, Penalised
<1>12. CASE q.day # NoRow /\ ~Away(q.day)
  <2>1. R = NoRestore /\ day' = day /\ rows' = rows
    BY <1>8, <1>12 DEF RestoreOf, MarkedRow
  <2>2. Absence \notin live
    BY <1>5, <1>12
  <2> QED BY <1>3, <1>9, <1>12, <2>1, <2>2 DEF live, gone, R, RightRestore
<1> QED BY <1>10, <1>11, <1>12

(* The rows that are added.                                               *)
LEMMA CreateAdds ==
  ASSUME IInv, NEW r \in Requests, Create(r), NEW q \in Creating, q = req[r], Knows(q, day, credit),
         NEW C2, C2 = credit', NEW b, b = Cardinality(Used)
  PROVE  Added(C2, b, NewLessons(q), LiveNow(q), Taken(LiveNow(q), q.points), DayMemory(q))
<1>1. PICK new \in SUBSET Lessons : new = NewLessons(q) /\ new # {}
  BY CreateIs DEF NewLessons, Creating
<1>2. PICK live \in SUBSET Reasons : live = LiveNow(q)
  BY CreateIs, DayMemoryIs
<1>3. PICK gone \in [Reasons -> Nat] : gone = Taken(live, q.points)
  BY <1>2, TakenIs DEF Creating
<1>4. PICK R \in Restore \cup {NoRestore} : R = DayMemory(q)
  BY CreateIs, DayMemoryIs
<1>5. C2 = NewCredits(new, gone, live, R)
  BY <1>1, <1>2, <1>3, <1>4, CreateIs
<1>6. Cardinality(Used) + Cardinality(new) <= NC
  <2>1. Cardinality(Used) + Cardinality(new) <= Room
    BY <1>1, CreateIs
  <2> QED BY <2>1, RoomIs, Ranks, Sizes
<1>7. Added(C2, b, new, live, gone, R)
  BY <1>1, <1>5, <1>6, NewOnes
<1> QED BY <1>1, <1>2, <1>3, <1>4, <1>7

(* A new credit claims only what it has lifted itself.                     *)
LEMMA CreateTurn ==
  ASSUME IInv, NEW r \in Requests, Create(r)
  PROVE  IInv'
<1>1. PICK q \in Creating : q = req[r] /\ Knows(q, day, credit)
  BY RowsAre, Places DEF Create
<1>2. PICK new \in SUBSET Lessons : new = NewLessons(q) /\ new # {}
  BY <1>1, CreateIs DEF NewLessons, Creating
<1>3. PICK live \in SUBSET Reasons : live = LiveNow(q)
  BY <1>1, CreateIs, DayMemoryIs
<1>4. PICK gone \in [Reasons -> Nat] : gone = Taken(live, q.points)
  BY <1>3, TakenIs DEF Creating
<1>5. PICK R \in Restore \cup {NoRestore} : R = DayMemory(q)
  BY <1>1, CreateIs, DayMemoryIs
<1>6. /\ RightRestore(R)
      /\ Absence \in live <=> R # NoRestore /\ R.lifted
      /\ Absence \in live => R.removed = gone[Absence]
      /\ day' \in Row \cup {NoRow} /\ rows' \in 0..MaxRows
      /\ Penalised(day') => day' = day /\ Absence \notin live
  BY <1>1, <1>3, <1>4, <1>5, CreateIs, DayMemoryIs
<1>7. PICK C2 : C2 = credit' /\ C2 = NewCredits(new, gone, live, R)
  BY <1>1, <1>2, <1>3, <1>4, <1>5, CreateIs
<1>8. PICK b \in Nat : b = Cardinality(Used)
  BY RoomIs
<1>9. Added(C2, b, new, live, gone, R)
  BY <1>1, <1>2, <1>3, <1>4, <1>5, <1>7, <1>8, CreateAdds
<1>9a. /\ C2 \in Table /\ Numbered(C2)
       /\ \A c \in Used : C2[c] = credit[c]
       /\ \A c \in UsedIn(C2) \ Used :
            /\ C2[c].status = "active" /\ C2[c].lesson \in new
            /\ C2[c].lifted <=> C2[c].lesson \in live
            /\ C2[c].lifted => C2[c].removed = gone[C2[c].lesson]
            /\ C2[c].restore = IF c = b + 1 THEN R ELSE NoRestore
       /\ \A c, e \in UsedIn(C2) \ Used : C2[c].lesson = C2[e].lesson => c = e
  BY <1>9 DEF Added
<1>10. /\ Reject(ToReject(q) \cap q.lifts, q.points) /\ q.points \in Int
       /\ ToReject(q) \cap q.lifts \in SUBSET Reasons /\ lowered' = lowered
       /\ live = {x \in ToReject(q) \cap q.lifts : penalty[x] = "approved"}
  BY <1>1, <1>3, CreateIs DEF LiveNow, Creating
<1>11. /\ penalty' \in [Reasons -> Statuses] /\ taken' \in [Reasons -> Nat] /\ points' \in Int
       /\ RightPoints(penalty', taken', points', lowered')
       /\ Stands(penalty, taken, penalty', taken')
       /\ \A x \in Reasons : penalty'[x] = IF x \in live THEN "rejected" ELSE penalty[x]
       /\ \A x \in live : taken'[x] = gone[x]
  <2>1. PICK X \in SUBSET Reasons : X = ToReject(q) \cap q.lifts
    BY <1>10
  <2>2. Reject(X, q.points) /\ q.points \in Int /\ lowered' = lowered
    BY <1>10, <2>1
  <2>3. live = {x \in X : penalty[x] = "approved"}
    BY <1>10, <2>1
  <2>4. /\ penalty' \in [Reasons -> Statuses] /\ taken' \in [Reasons -> Nat] /\ points' \in Int
        /\ RightPoints(penalty', taken', points', lowered')
        /\ Stands(penalty, taken, penalty', taken')
        /\ \A x \in Reasons :
             /\ penalty'[x] = IF x \in live THEN "rejected" ELSE penalty[x]
             /\ taken'[x] = IF x \in live THEN Taken(live, q.points)[x] ELSE taken[x]
    <3>1. Typed /\ RightPoints(penalty, taken, points, lowered)
      BY DEF IInv
    <3> QED BY <2>1, <2>2, <2>3, <3>1, Rejecting
  <2> QED BY <2>4, <1>3, <1>4
<1>12. PICK P2 \in [Reasons -> Statuses], T2 \in [Reasons -> Nat] : P2 = penalty' /\ T2 = taken'
  BY <1>11
<1>13. /\ req' \in [Requests -> Shape] /\ req'[r] = Free
       /\ \A k \in Requests \ {r} : Follows(req[k], day, req'[k], day')
  <2>1. CASE day' = day
    <3>1. req' = [req EXCEPT ![r] = Free]
      BY <2>1, <1>1, CreateIs DEF Done
    <3> QED BY <2>1, <3>1, Moving, Over
  <2>2. CASE day' # day
    <3>1. DoneAfterWrite(r)
      BY <2>2, <1>1, CreateIs
    <3> QED BY <3>1, Writing
  <2> QED BY <2>1, <2>2
<1>14. ours' \in BOOLEAN /\ UNCHANGED <<alone, graded, edits, lowered>>
  <2>1. ours' = TRUE \/ ours' = ours
    BY <1>1, CreateIs
  <2>2. UNCHANGED <<alone, graded, edits, lowered>>
    BY <1>1, CreateIs
  <2> QED BY <2>1, <2>2, SomeRows
<1>15. Typed'
  BY <1>6, <1>7, <1>9a, <1>11, <1>13, <1>14, RowsAre, SomeRows, TypedRows
<1>16. credit \in Table /\ UsedIn(credit) = Used /\ Used \subseteq Credits /\ UsedIn(C2) \subseteq Credits
       /\ Used \subseteq UsedIn(C2)
  <2>1. credit \in Table /\ UsedIn(credit) = Used
    BY RowsAre, TableIs DEF IInv
  <2> QED BY <2>1, <1>9a DEF UsedIn, Used
<1>17. RightCredits(C2, P2, T2)
  <2>1. RightTable(C2)
    <3> SUFFICES ASSUME NEW c \in Credits, C2[c].status # "none" PROVE RightRestore(C2[c].restore)
      BY DEF RightTable
    <3>1. CASE c \in Used
      <4>1. C2[c] = credit[c]
        BY <3>1, <1>9a
      <4> QED BY <4>1 DEF IInv, RightCredits, RightTable
    <3>2. CASE c \notin Used
      <4>1. c \in UsedIn(C2) \ Used
        BY <3>2 DEF UsedIn
      <4>2. C2[c].restore = R \/ C2[c].restore = NoRestore
        BY <4>1, <1>9a
      <4> QED BY <4>2, <1>6 DEF RightRestore
    <3> QED BY <3>1, <3>2
  <2>2. ActiveIn(C2) \subseteq UsedIn(C2)
    BY DEF ActiveIn, UsedIn
  <2>3. \A c \in Used : C2[c] = credit[c] /\ (c \in ActiveIn(C2) <=> c \in ActiveIn(credit))
    BY <1>9a, <1>16 DEF ActiveIn
  <2>4. \A c \in ActiveIn(credit) : credit[c].lesson \notin new
    <3>1. new = q.lessons \ Credited
      BY <1>2 DEF NewLessons
    <3>2. \A c \in ActiveIn(credit) : credit[c].lesson \in Credited
      BY TableIs DEF Credited, IInv
    <3> QED BY <3>1, <3>2
  <2>5. ASSUME NEW c \in ActiveIn(C2), NEW e \in ActiveIn(C2), C2[c].lesson = C2[e].lesson
        PROVE  c = e
    <3>1. c \in UsedIn(C2) /\ e \in UsedIn(C2)
      BY <2>2
    <3>2. CASE c \in Used /\ e \in Used
      <4>1. c \in ActiveIn(credit) /\ e \in ActiveIn(credit) /\ credit[c].lesson = credit[e].lesson
        BY <3>2, <2>3, <2>5
      <4> QED BY <4>1 DEF IInv, RightCredits
    <3>3. CASE c \notin Used /\ e \notin Used
      BY <3>1, <3>3, <2>5, <1>9a
    <3>4. CASE c \in Used /\ e \notin Used
      <4>1. C2[c].lesson \notin new
        BY <3>4, <2>3, <2>4
      <4>2. C2[e].lesson \in new
        BY <3>1, <3>4, <1>9a
      <4> QED BY <4>1, <4>2, <2>5
    <3>5. CASE c \notin Used /\ e \in Used
      <4>1. C2[e].lesson \notin new
        BY <3>5, <2>3, <2>4
      <4>2. C2[c].lesson \in new
        BY <3>1, <3>5, <1>9a
      <4> QED BY <4>1, <4>2, <2>5
    <3> QED BY <3>2, <3>3, <3>4, <3>5
  <2>6. ASSUME NEW c \in ActiveIn(C2), C2[c].lifted
        PROVE  P2[C2[c].lesson] = "rejected" /\ T2[C2[c].lesson] = C2[c].removed
    <3>1. CASE c \in Used
      <4>1. c \in ActiveIn(credit) /\ credit[c].lifted /\ C2[c] = credit[c]
        BY <3>1, <2>3, <2>6
      <4>2. RightCredits(credit, P2, T2)
        BY <1>11, <1>12, <1>16, CreditsStay DEF IInv
      <4> QED BY <4>1, <4>2 DEF RightCredits
    <3>2. CASE c \notin Used
      <4>1. c \in UsedIn(C2) \ Used
        BY <3>2, <2>2
      <4>2. C2[c].lesson \in live /\ C2[c].removed = gone[C2[c].lesson]
        BY <4>1, <2>6, <1>9a
      <4> QED BY <4>2, <1>11, <1>12
    <3> QED BY <3>1, <3>2
  <2> QED BY <2>1, <2>5, <2>6, <1>9a DEF RightCredits
<1>18. CreditsGrow(credit, C2)
  BY <1>9a, <1>16 DEF CreditsGrow, UsedIn
<1>19. ASSUME NEW k \in Requests
       PROVE  /\ Knows(req'[k], day', C2)
              /\ req'[k].op = "revoke" => req'[k] = req[k]
  <2>1. CASE k = r
    BY <2>1, <1>13, Over
  <2>2. CASE k # r
    <3>1. PICK p \in Shape : p = req[k] /\ Knows(p, day, credit) /\ Follows(p, day, req'[k], day')
      BY <2>2, <1>13, RowsAre
    <3>2. PICK p2 : p2 = req'[k]
      OBVIOUS
    <3> QED BY <3>1, <3>2, <1>9a, <1>16, <1>18, Following
  <2> QED BY <2>1, <2>2
<1>20. Penalised(day') => penalty'[Absence] = "approved"
  BY <1>6, <1>11, RowsAre, Sizes
<1>21. ASSUME NEW c \in Credits, NEW S \in Restore, Claim(c, S, C2, req')
       PROVE  \/ Claim(c, S, credit, req)
              \/ c = b + 1 /\ S = R /\ Absence \in live
  <2>1. c \in ActiveIn(C2) /\ c \in UsedIn(C2) /\ S # NoRestore /\ S.lifted
    BY <1>21 DEF Claim, ActiveIn, UsedIn
  <2>2. CASE c \in Used
    <3>1. C2[c] = credit[c] /\ c \in ActiveIn(credit)
      BY <2>1, <2>2, <1>9a DEF ActiveIn
    <3>2. CASE S = C2[c].restore
      BY <3>1, <3>2, <2>1 DEF Claim
    <3>3. ASSUME NEW k \in Requests, req'[k].op = "revoke", c \in req'[k].read,
                 S = req'[k].seen[c].restore
          PROVE  Claim(c, S, credit, req)
      <4>1. req'[k] = req[k]
        BY <3>3, <1>19
      <4> QED BY <4>1, <3>1, <3>3, <2>1 DEF Claim
    <3> QED BY <3>2, <3>3, <1>21 DEF Claim
  <2>3. CASE c \notin Used
    <3>1. C2[c].restore = IF c = b + 1 THEN R ELSE NoRestore
      BY <2>1, <2>3, <1>9a
    <3>2. ASSUME NEW k \in Requests, req'[k].op = "revoke", c \in req'[k].read
          PROVE  FALSE
      <4>1. req'[k] = req[k] /\ Knows(req[k], day, credit)
        BY <3>2, <1>19, RowsAre
      <4>2. credit[c].status # "none"
        BY <4>1, <3>2 DEF Knows
      <4> QED BY <4>2, <2>3 DEF Used
    <3>3. S = C2[c].restore
      BY <3>2, <1>21 DEF Claim
    <3> QED BY <3>1, <3>3, <2>1, <1>6
  <2> QED BY <2>2, <2>3
<1>22. RightClaims(C2, req', P2, T2)
  <2>1. CASE Absence \notin live
    <3>1. \A c \in Credits, S \in Restore : Claim(c, S, C2, req') => Claim(c, S, credit, req)
      BY <2>1, <1>21
    <3> QED BY <3>1, <1>11, <1>12, ClaimsStay DEF IInv
  <2>2. CASE Absence \in live
    <3>1. penalty[Absence] = "approved"
      BY <2>2, <1>10
    <3>2. \A c \in Credits, S \in Restore : ~Claim(c, S, credit, req)
      BY <3>1 DEF IInv, RightClaims
    <3>3. \A c \in Credits, S \in Restore : Claim(c, S, C2, req') => c = b + 1 /\ S = R
      BY <3>2, <1>21
    <3>4. P2[Absence] = "rejected" /\ T2[Absence] = R.removed
      BY <2>2, <1>6, <1>11, <1>12, Sizes
    <3> QED BY <3>3, <3>4 DEF RightClaims
  <2> QED BY <2>1, <2>2
<1> QED BY <1>7, <1>11, <1>12, <1>15, <1>17, <1>19, <1>20, <1>22 DEF IInv

-----------------------------------------------------------------------------
(* What a commit of revokeCredits works with, by name.                     *)
ToRevoke(q) == q.read \cap Active
Rememberers(q) == {c \in ToRevoke(q) : q.seen[c].restore # NoRestore}
BringingBack(q) == {c \in Rememberers(q) : q.others = {} /\ StillOurs(q.seen[c].restore)}
OldDay(q) == q.seen[First(BringingBack(q))].restore
LiftedBy(q) == {c \in ToRevoke(q) : q.seen[c].lifted /\ penalty[q.seen[c].lesson] = "rejected"}
AbsenceAgain(q) == BringingBack(q) # {} /\ OldDay(q).lifted /\ penalty[Absence] = "rejected"
Again(q) == {q.seen[c].lesson : c \in LiftedBy(q)} \cup (IF AbsenceAgain(q) THEN {Absence} ELSE {})
Gives(q) == [x \in Reasons |-> IF x \in Again(q) THEN GivenBack(x, q.seen, LiftedBy(q), OldDay(q))
                                                ELSE 0]

InForce(A) == [x \in Reasons |-> IF x \in A THEN "approved" ELSE penalty[x]]
StillTaken(G) == [x \in Reasons |-> taken[x] - G[x]]

RowAfter(q) == IF BringingBack(q) = {} THEN day
               ELSE IF OldDay(q).created THEN NoRow
               ELSE [day EXCEPT !.mark = OldDay(q).mark, !.penalised = OldDay(q).penalised]

(* Revoke, said with these names.                                          *)
LEMMA RevokeIs ==
  ASSUME NEW r \in Requests, Revoke(r), NEW q, q = req[r]
  PROVE  /\ ToRevoke(q) # {}
         /\ credit' = HandOver(ToRevoke(q), q, Rememberers(q))
         /\ day' = RowAfter(q)
         /\ penalty' = InForce(Again(q))
         /\ points' = points + Total(Gives(q), NL + 1)
         /\ taken' = StillTaken(Gives(q))
         /\ IF day' = day THEN Done(r) ELSE DoneAfterWrite(r)
         /\ UNCHANGED <<alone, rows, graded, edits, lowered, origin, ours>>
BY DEF Revoke, ToRevoke, Rememberers, BringingBack, OldDay, LiftedBy, AbsenceAgain, Again, Gives,
       InForce, StillTaken, RowAfter

(* A set of credits that is not empty has a first.                         *)
LEMMA FirstIs ==
  ASSUME NEW S \in SUBSET Credits, S # {}
  PROVE  First(S) \in S
<1>1. S \subseteq Nat
  BY Sizes DEF Credits
<1>2. \E c \in S : \A k \in S : c <= k
  BY <1>1, NatSetMin
<1> QED BY <1>2 DEF First

(* What is brought back of a row is what a claim says.                     *)
LEMMA OldDayIs ==
  ASSUME IInv, NEW r \in Requests, NEW q \in Revoking, q = req[r], Knows(q, day, credit),
         BringingBack(q) # {}
  PROVE  /\ First(BringingBack(q)) \in ToRevoke(q) \cap ActiveIn(credit)
         /\ OldDay(q) \in Restore /\ OldDay(q) # NoRestore /\ RightRestore(OldDay(q))
         /\ q.others = {} /\ day \in Row /\ day.id = OldDay(q).id /\ ~day.timed
         /\ OldDay(q).lifted => /\ Claim(First(BringingBack(q)), OldDay(q), credit, req)
                                /\ penalty[Absence] = "rejected" /\ taken[Absence] = OldDay(q).removed
                                /\ AbsenceAgain(q)
<1>1. q.read \in SUBSET Credits /\ q.seen \in Table /\ q.op = "revoke" /\ q.at = "commit"
  BY DEF Revoking
<1>2. PICK c : c = First(BringingBack(q)) /\ c \in BringingBack(q)
  BY <1>1, FirstIs DEF BringingBack, Rememberers, ToRevoke
<1>3. /\ c \in Credits /\ c \in ToRevoke(q) /\ c \in q.read /\ c \in ActiveIn(credit)
      /\ q.seen[c].restore # NoRestore /\ q.others = {} /\ StillOurs(q.seen[c].restore)
  BY <1>1, <1>2, TableIs DEF BringingBack, Rememberers, ToRevoke, IInv, ActiveIn
<1>4. OldDay(q) = q.seen[c].restore
  BY <1>2 DEF OldDay
<1>5. q.seen[c].status # "none" /\ RightTable(q.seen)
  BY <1>1, <1>3 DEF Knows
<1>6. q.seen[c] \in Credit
  BY <1>1, <1>3, <1>5 DEF Table, NoCredit
<1>7. OldDay(q) \in Restore /\ OldDay(q) # NoRestore /\ RightRestore(OldDay(q))
  BY <1>3, <1>4, <1>5, <1>6 DEF RightTable, Credit
<1>8. day \in Row /\ day.id = OldDay(q).id /\ ~day.timed
  BY <1>3, <1>4, RowsAre DEF StillOurs
<1>9. ASSUME OldDay(q).lifted
      PROVE  /\ Claim(c, OldDay(q), credit, req)
             /\ penalty[Absence] = "rejected" /\ taken[Absence] = OldDay(q).removed
             /\ AbsenceAgain(q)
  <2>1. Claim(c, OldDay(q), credit, req)
    BY <1>1, <1>3, <1>4, <1>7, <1>9 DEF Claim
  <2>2. penalty[Absence] = "rejected" /\ taken[Absence] = OldDay(q).removed
    BY <2>1, <1>3, <1>7 DEF IInv, RightClaims
  <2> QED BY <2>1, <2>2, <1>9 DEF AbsenceAgain
<1> QED BY <1>2, <1>3, <1>7, <1>8, <1>9

(* What is given back for a penalty is what was taken for it.              *)
LEMMA GivesAre ==
  ASSUME IInv, NEW r \in Requests, NEW q \in Revoking, q = req[r], Knows(q, day, credit)
  PROVE  /\ Again(q) \in SUBSET Reasons
         /\ \A x \in Again(q) : penalty[x] = "rejected"
         /\ Gives(q) = [x \in Reasons |-> IF x \in Again(q) THEN taken[x] ELSE 0]
         /\ Absence \in Again(q) <=> AbsenceAgain(q)
         /\ \A l \in Again(q) \cap Lessons :
              \E c \in ToRevoke(q) : c \in ActiveIn(credit) /\ credit[c].lesson = l
<1>1. q.read \in SUBSET Credits /\ q.seen \in Table /\ q.op = "revoke" /\ q.at = "commit"
  BY DEF Revoking
<1>2. credit \in Table /\ ActiveIn(credit) = Active
  BY TableIs DEF IInv
<1>3. ASSUME NEW c \in LiftedBy(q)
      PROVE  /\ c \in ToRevoke(q) /\ c \in ActiveIn(credit) /\ q.seen[c].lesson = credit[c].lesson
             /\ credit[c].lesson \in Lessons
             /\ penalty[q.seen[c].lesson] = "rejected"
             /\ q.seen[c].removed = taken[q.seen[c].lesson]
  <2>1. /\ c \in ToRevoke(q) /\ c \in q.read /\ c \in ActiveIn(credit) /\ q.seen[c].lifted
        /\ penalty[q.seen[c].lesson] = "rejected"
    BY <1>2 DEF LiftedBy, ToRevoke
  <2>2. /\ q.seen[c].lesson = credit[c].lesson /\ credit[c].lifted
        /\ q.seen[c].removed = credit[c].removed
    BY <1>1, <2>1 DEF Knows
  <2>3. taken[credit[c].lesson] = credit[c].removed
    BY <2>1, <2>2 DEF IInv, RightCredits
  <2>4. credit[c] \in Credit
    BY <2>1, <1>2 DEF ActiveIn, Table, NoCredit
  <2> QED BY <2>1, <2>2, <2>3, <2>4 DEF Credit
<1>4. Again(q) \in SUBSET Reasons
  BY <1>3, Sizes DEF Again
<1>5. Absence \in Again(q) <=> AbsenceAgain(q)
  BY <1>3, Sizes DEF Again
<1>6. \A x \in Again(q) : penalty[x] = "rejected"
  BY <1>3 DEF Again, AbsenceAgain
<1>7. ASSUME NEW x \in Again(q)
      PROVE  GivenBack(x, q.seen, LiftedBy(q), OldDay(q)) = taken[x]
  <2>1. CASE x = Absence
    <3>1. AbsenceAgain(q)
      BY <2>1, <1>5
    <3>2. taken[Absence] = OldDay(q).removed
      BY <3>1, OldDayIs DEF AbsenceAgain
    <3> QED BY <2>1, <3>2 DEF GivenBack
  <2>2. CASE x # Absence
    <3>1. \E c \in LiftedBy(q) : q.seen[c].lesson = x
      BY <2>2 DEF Again
    <3>2. PICK c : c = CHOOSE e \in LiftedBy(q) : q.seen[e].lesson = x
      OBVIOUS
    <3>3. c \in LiftedBy(q) /\ q.seen[c].lesson = x
      BY <3>1, <3>2
    <3>4. GivenBack(x, q.seen, LiftedBy(q), OldDay(q)) = q.seen[c].removed
      BY <2>2, <3>2 DEF GivenBack
    <3> QED BY <3>3, <3>4, <1>3
  <2> QED BY <2>1, <2>2
<1>8. Gives(q) = [x \in Reasons |-> IF x \in Again(q) THEN taken[x] ELSE 0]
  BY <1>7 DEF Gives
<1>9. \A l \in Again(q) \cap Lessons :
        \E c \in ToRevoke(q) : c \in ActiveIn(credit) /\ credit[c].lesson = l
  BY <1>3, Sizes DEF Again
<1> QED BY <1>4, <1>5, <1>6, <1>8, <1>9

(* The credits after a revocation: those revoked are inactive, and one     *)
(* other may have got what a revoked one remembers.                        *)
Receiver(q, c) == q.others # {} /\ c = First(q.others) /\ c \in q.remain /\ Rememberers(q) # {}
Handed(q) == q.seen[First(Rememberers(q))].restore

(* A revocation changes the status of credits and what they remember, and  *)
(* neither the lesson of a credit nor what was taken for it.               *)
LEMMA HandOverIs ==
  ASSUME IInv, NEW r \in Requests, NEW q \in Revoking, q = req[r], Knows(q, day, credit),
         NEW C2, C2 = HandOver(ToRevoke(q), q, Rememberers(q))
  PROVE  /\ C2 \in Table /\ UsedIn(C2) = UsedIn(credit)
         /\ \A c \in UsedIn(credit) :
              /\ C2[c].lesson = credit[c].lesson /\ C2[c].lifted = credit[c].lifted
              /\ C2[c].removed = credit[c].removed
         /\ ActiveIn(C2) = ActiveIn(credit) \ ToRevoke(q)
         /\ Rememberers(q) # {} =>
              /\ First(Rememberers(q)) \in ToRevoke(q) \cap ActiveIn(credit) \cap q.read
              /\ Handed(q) \in Restore /\ Handed(q) # NoRestore /\ RightRestore(Handed(q))
              /\ Handed(q) = q.seen[First(Rememberers(q))].restore
         /\ \A c \in Credits :
              C2[c].restore = IF Receiver(q, c) /\ c \notin ToRevoke(q)
                              THEN Handed(q) ELSE credit[c].restore
<1>1. /\ q.read \in SUBSET Credits /\ q.seen \in Table /\ q.op = "revoke" /\ q.at = "commit"
      /\ q.others \in SUBSET Credits
  BY DEF Revoking
<1>2. credit \in Table /\ ActiveIn(credit) = Active
  BY TableIs DEF IInv
<1>3. ASSUME Rememberers(q) # {}
      PROVE  /\ First(Rememberers(q)) \in ToRevoke(q) \cap ActiveIn(credit) \cap q.read
             /\ Handed(q) \in Restore /\ Handed(q) # NoRestore /\ RightRestore(Handed(q))
             /\ Handed(q) = q.seen[First(Rememberers(q))].restore
  <2>1. PICK e : e = First(Rememberers(q)) /\ e \in Rememberers(q)
    BY <1>1, <1>3, FirstIs DEF Rememberers, ToRevoke
  <2>2. e \in Credits /\ e \in ToRevoke(q) /\ e \in q.read /\ e \in ActiveIn(credit)
        /\ q.seen[e].restore # NoRestore
    BY <1>1, <1>2, <2>1 DEF Rememberers, ToRevoke
  <2>3. q.seen[e].status # "none" /\ RightTable(q.seen)
    BY <1>1, <2>2 DEF Knows
  <2>4. q.seen[e] \in Credit
    BY <1>1, <2>2, <2>3 DEF Table, NoCredit
  <2>5. Handed(q) = q.seen[e].restore
    BY <2>1 DEF Handed
  <2> QED BY <2>1, <2>2, <2>3, <2>4, <2>5 DEF Credit, RightTable
<1> DEFINE done == ToRevoke(q)
           H == Handed(q)
<1>4. done \subseteq ActiveIn(credit) /\ done \subseteq Credits
  BY <1>1, <1>2 DEF ToRevoke
<1>5. C2 = [c \in Credits |-> IF c \in done THEN [credit[c] EXCEPT !.status = "revoked"]
                              ELSE IF Receiver(q, c) THEN [credit[c] EXCEPT !.restore = H]
                              ELSE credit[c]]
  BY DEF HandOver, Receiver, Handed
<1>6. \A c \in Credits : Receiver(q, c) => credit[c].status # "none"
  <2>1. \A c \in Credits : Receiver(q, c) => c \in q.others
    BY <1>1, FirstIs DEF Receiver
  <2> QED BY <2>1, <1>1 DEF Knows
<1>7. \A c \in Credits : Receiver(q, c) => H \in Restore
  BY <1>3 DEF Receiver
<1> HIDE DEF done, H
<1>8. ASSUME NEW c \in Credits
      PROVE  /\ C2[c] \in Credit \cup {NoCredit}
             /\ C2[c].status = "none" <=> credit[c].status = "none"
             /\ credit[c].status # "none" =>
                  /\ C2[c].lesson = credit[c].lesson /\ C2[c].lifted = credit[c].lifted
                  /\ C2[c].removed = credit[c].removed
             /\ C2[c].status = "active" <=> credit[c].status = "active" /\ c \notin done
             /\ C2[c].restore = IF Receiver(q, c) /\ c \notin done THEN H ELSE credit[c].restore
  <2>1. C2[c] = IF c \in done THEN [credit[c] EXCEPT !.status = "revoked"]
                ELSE IF Receiver(q, c) THEN [credit[c] EXCEPT !.restore = H]
                ELSE credit[c]
    BY <1>5
  <2>2. PICK k \in Credit \cup {NoCredit} : k = credit[c]
    BY <1>2 DEF Table
  <2>3. CASE c \in done
    <3>1. k \in Credit /\ k.status = "active"
      BY <1>2, <1>4, <2>2, <2>3 DEF ActiveIn, NoCredit
    <3>2. C2[c] = [k EXCEPT !.status = "revoked"]
      BY <2>1, <2>2, <2>3
    <3> QED BY <3>1, <3>2, <2>2, <2>3 DEF Credit
  <2>4. CASE c \notin done /\ Receiver(q, c)
    <3>1. k \in Credit /\ H \in Restore
      BY <1>6, <1>7, <2>2, <2>4 DEF NoCredit
    <3>2. C2[c] = [k EXCEPT !.restore = H]
      BY <2>1, <2>2, <2>4
    <3> QED BY <3>1, <3>2, <2>2, <2>4 DEF Credit
  <2>5. CASE c \notin done /\ ~Receiver(q, c)
    BY <2>1, <2>2, <2>5
  <2> QED BY <2>3, <2>4, <2>5
<1>9. C2 \in Table
  BY <1>5, <1>8 DEF Table
<1>10. UsedIn(C2) = UsedIn(credit) /\ ActiveIn(C2) = ActiveIn(credit) \ done
  BY <1>8 DEF UsedIn, ActiveIn
<1>11. \A c \in UsedIn(credit) :
              /\ C2[c].lesson = credit[c].lesson /\ C2[c].lifted = credit[c].lifted
              /\ C2[c].removed = credit[c].removed
  BY <1>8 DEF UsedIn
<1> QED BY <1>3, <1>8, <1>9, <1>10, <1>11 DEF done, H

(* A claim of the credits that stand after a revocation is an old one, or  *)
(* the one that was handed over.                                           *)
LEMMA ClaimsAfter ==
  ASSUME IInv, NEW r \in Requests, NEW q \in Revoking, q = req[r], Knows(q, day, credit),
         NEW C2, C2 = HandOver(ToRevoke(q), q, Rememberers(q)), NEW Q2,
         \A k \in Requests : Q2[k].op = "revoke" => Q2[k] = req[k],
         NEW c \in Credits, NEW S \in Restore, Claim(c, S, C2, Q2)
  PROVE  /\ c \notin ToRevoke(q)
         /\ \/ Claim(c, S, credit, req)
            \/ Receiver(q, c) /\ Claim(First(Rememberers(q)), S, credit, req)
<1>1. /\ ActiveIn(C2) = ActiveIn(credit) \ ToRevoke(q)
      /\ C2[c].restore = IF Receiver(q, c) /\ c \notin ToRevoke(q)
                         THEN Handed(q) ELSE credit[c].restore
      /\ Rememberers(q) # {} =>
              /\ First(Rememberers(q)) \in ToRevoke(q) \cap ActiveIn(credit) \cap q.read
              /\ Handed(q) = q.seen[First(Rememberers(q))].restore
  BY HandOverIs
<1>2. c \in ActiveIn(credit) /\ c \notin ToRevoke(q) /\ S # NoRestore /\ S.lifted
  BY <1>1 DEF Claim
<1>3. q.op = "revoke"
  BY DEF Revoking
<1>4. CASE S = C2[c].restore /\ Receiver(q, c)
  <2>1. PICK e : e = First(Rememberers(q))
    OBVIOUS
  <2>2. S = q.seen[e].restore /\ e \in ActiveIn(credit) /\ e \in q.read
    BY <1>1, <1>2, <1>4, <2>1 DEF Receiver
  <2>3. Claim(e, S, credit, req)
    BY <1>2, <1>3, <2>2 DEF Claim
  <2> QED BY <1>2, <1>4, <2>1, <2>3
<1>5. CASE S = C2[c].restore /\ ~Receiver(q, c)
  BY <1>1, <1>2, <1>5 DEF Claim
<1>6. ASSUME NEW k \in Requests, Q2[k].op = "revoke", c \in Q2[k].read, S = Q2[k].seen[c].restore
      PROVE  Claim(c, S, credit, req)
  <2>1. Q2[k] = req[k]
    BY <1>6
  <2> QED BY <2>1, <1>2, <1>6 DEF Claim
<1> QED BY <1>2, <1>4, <1>5, <1>6 DEF Claim

(* A revocation gives back what is known to have been taken, and claims    *)
(* are handed over, never doubled.                                         *)
LEMMA RevokeTurn ==
  ASSUME IInv, NEW r \in Requests, Revoke(r)
  PROVE  IInv'
<1>1. PICK q \in Revoking : q = req[r] /\ Knows(q, day, credit)
  BY RowsAre, Places DEF Revoke
<1>2. PICK C2 : C2 = credit' /\ C2 = HandOver(ToRevoke(q), q, Rememberers(q))
  BY <1>1, RevokeIs
<1>3. /\ C2 \in Table /\ UsedIn(C2) = UsedIn(credit)
      /\ \A c \in UsedIn(credit) :
           /\ C2[c].lesson = credit[c].lesson /\ C2[c].lifted = credit[c].lifted
           /\ C2[c].removed = credit[c].removed
      /\ ActiveIn(C2) = ActiveIn(credit) \ ToRevoke(q)
      /\ \A c \in Credits : C2[c].restore = IF Receiver(q, c) /\ c \notin ToRevoke(q)
                                            THEN Handed(q) ELSE credit[c].restore
      /\ Rememberers(q) # {} =>
           /\ First(Rememberers(q)) \in ToRevoke(q)
           /\ RightRestore(Handed(q))
  BY <1>1, <1>2, HandOverIs
<1>4. PICK A \in SUBSET Reasons : A = Again(q)
  BY <1>1, GivesAre
<1>5. /\ \A x \in A : penalty[x] = "rejected"
      /\ Gives(q) = [x \in Reasons |-> IF x \in A THEN taken[x] ELSE 0]
      /\ Absence \in A <=> AbsenceAgain(q)
      /\ \A l \in A \cap Lessons :
           \E c \in ToRevoke(q) : c \in ActiveIn(credit) /\ credit[c].lesson = l
  BY <1>1, <1>4, GivesAre
<1>6. PICK G : G = Gives(q)
  OBVIOUS
<1>7. /\ penalty' = [x \in Reasons |-> IF x \in A THEN "approved" ELSE penalty[x]]
      /\ points' = points + Total(G, NL + 1)
      /\ taken' = [x \in Reasons |-> taken[x] - G[x]]
      /\ UNCHANGED <<alone, rows, graded, edits, lowered, origin, ours>>
      /\ IF day' = day THEN Done(r) ELSE DoneAfterWrite(r)
  <2>1. /\ penalty' = InForce(Again(q))
        /\ points' = points + Total(Gives(q), NL + 1)
        /\ taken' = StillTaken(Gives(q))
        /\ UNCHANGED <<alone, rows, graded, edits, lowered, origin, ours>>
        /\ IF day' = day THEN Done(r) ELSE DoneAfterWrite(r)
    BY <1>1, RevokeIs
  <2>2. penalty' = InForce(A) /\ taken' = StillTaken(G)
    BY <2>1, <1>4, <1>6
  <2>3. points' = points + Total(G, NL + 1)
    BY <2>1, <1>6
  <2> QED BY <2>1, <2>2, <2>3 DEF InForce, StillTaken
<1>8. /\ penalty \in [Reasons -> Statuses] /\ taken \in [Reasons -> Nat]
      /\ points \in Int /\ lowered \in Nat
  BY RowsAre
<1>9. /\ G \in [Reasons -> Int]
      /\ penalty' \in [Reasons -> Statuses] /\ taken' \in [Reasons -> Nat]
      /\ \A x \in Reasons : /\ penalty'[x] = IF x \in A THEN "approved" ELSE penalty[x]
                            /\ taken'[x] = IF x \in A THEN 0 ELSE taken[x]
  <2>1. G \in [Reasons -> Int] /\ \A x \in Reasons : G[x] = IF x \in A THEN taken[x] ELSE 0
    BY <1>5, <1>6, <1>8
  <2>2. penalty' \in [Reasons -> Statuses]
    BY <1>7, <1>8 DEF Statuses
  <2>3. \A x \in Reasons : taken[x] - G[x] = IF x \in A THEN 0 ELSE taken[x]
    BY <2>1, <1>8
  <2>4. taken' \in [Reasons -> Nat]
    BY <2>3, <1>7, <1>8
  <2> QED BY <2>1, <2>2, <2>3, <2>4, <1>7
<1>10. PICK P \in [Reasons -> Statuses], T \in [Reasons -> Nat], n \in Int, low \in Nat :
          P = penalty /\ T = taken /\ n = points /\ low = lowered
  BY <1>8
<1>11. PICK P2 \in [Reasons -> Statuses], T2 \in [Reasons -> Nat] : P2 = penalty' /\ T2 = taken'
  BY <1>9
<1>12. \A x \in Reasons : /\ P2[x] = IF x \in A THEN "approved" ELSE P[x]
                          /\ T2[x] = IF x \in A THEN 0 ELSE T[x]
  BY <1>9, <1>10, <1>11
<1>13. Total(G, NL + 1) \in Int /\ RightPoints(P2, T2, n + Total(G, NL + 1), low)
  <2>1. RightPoints(P, T, n, low)
    BY <1>10 DEF IInv
  <2>2. ASSUME NEW x \in Reasons
        PROVE  /\ P2[x] = "none" <=> P[x] = "none"
               /\ T2[x] = T[x] - G[x]
               /\ P[x] = "none" => G[x] = 0
               /\ P2[x] = "approved" => T2[x] = 0
    <3>1. G[x] = IF x \in A THEN T[x] ELSE 0
      BY <1>5, <1>6, <1>10
    <3>2. x \in A => P[x] = "rejected"
      BY <1>5, <1>10
    <3>3. P[x] = "approved" => T[x] = 0
      BY <2>1 DEF RightPoints
    <3> QED BY <3>1, <3>2, <3>3, <1>12
  <2> QED BY <2>1, <2>2, <1>9, PointsMove
<1>14. points' \in Int /\ RightPoints(penalty', taken', points', lowered')
  <2>1. points' = n + Total(G, NL + 1) /\ lowered' = low
    BY <1>7, <1>10
  <2> QED BY <2>1, <1>11, <1>13
<1>15. /\ req' \in [Requests -> Shape] /\ req'[r] = Free
       /\ \A k \in Requests \ {r} : Follows(req[k], day, req'[k], day')
  <2>1. CASE day' = day
    <3>1. req' = [req EXCEPT ![r] = Free]
      BY <2>1, <1>7 DEF Done
    <3> QED BY <2>1, <3>1, Moving, Over
  <2>2. CASE day' # day
    <3>1. DoneAfterWrite(r)
      BY <2>2, <1>7
    <3> QED BY <3>1, Writing
  <2> QED BY <2>1, <2>2
<1>16. day' \in Row \cup {NoRow} /\ (Penalised(day') => P2[Absence] = "approved")
  <2>1. CASE BringingBack(q) = {}
    <3>1. day' = day
      BY <2>1, <1>1, RevokeIs DEF RowAfter
    <3> QED BY <3>1, <1>10, <1>12, RowsAre, Sizes
  <2>2. CASE BringingBack(q) # {}
    <3>1. /\ OldDay(q) \in Restore /\ OldDay(q) # NoRestore /\ RightRestore(OldDay(q))
          /\ day \in Row
          /\ OldDay(q).lifted => AbsenceAgain(q)
      BY <2>2, <1>1, OldDayIs
    <3>2. day' = IF OldDay(q).created THEN NoRow
                 ELSE [day EXCEPT !.mark = OldDay(q).mark, !.penalised = OldDay(q).penalised]
      BY <2>2, <1>1, RevokeIs DEF RowAfter
    <3>3. CASE OldDay(q).created
      BY <3>2, <3>3 DEF Penalised
    <3>4. CASE ~OldDay(q).created
      <4>1. day' = [day EXCEPT !.mark = OldDay(q).mark, !.penalised = OldDay(q).penalised]
        BY <3>2, <3>4
      <4>2. day' \in Row /\ (Penalised(day') => OldDay(q).penalised)
        BY <4>1, <3>1 DEF Row, Restore, Penalised
      <4>3. OldDay(q).penalised => Absence \in A
        BY <3>1, <1>5 DEF RightRestore
      <4> QED BY <4>2, <4>3, <1>12
    <3> QED BY <3>3, <3>4
  <2> QED BY <2>1, <2>2
<1>17. Typed'
  <2>1. ours' \in BOOLEAN /\ rows' \in 0..MaxRows /\ graded' \subseteq Lessons /\ alone' \in BOOLEAN
        /\ edits' \in 0..MaxEdits /\ lowered' \in Nat
    BY <1>7, SomeRows, RowsAre
  <2> QED BY <2>1, <1>2, <1>3, <1>9, <1>14, <1>15, <1>16, TypedRows
<1>18. CreditsGrow(credit, C2)
  BY <1>3 DEF CreditsGrow, UsedIn
<1>19. ASSUME NEW k \in Requests
       PROVE  /\ Knows(req'[k], day', C2)
              /\ req'[k].op = "revoke" => req'[k] = req[k]
  <2>1. CASE k = r
    BY <2>1, <1>15, Over
  <2>2. CASE k # r
    <3>1. PICK p \in Shape : p = req[k] /\ Knows(p, day, credit) /\ Follows(p, day, req'[k], day')
      BY <2>2, <1>15, RowsAre
    <3>2. PICK p2 : p2 = req'[k]
      OBVIOUS
    <3> QED BY <3>1, <3>2, <1>3, <1>18, RowsAre, Following
  <2> QED BY <2>1, <2>2
<1>20. RightCredits(C2, P2, T2)
  <2>1. RightTable(C2)
    <3> SUFFICES ASSUME NEW c \in Credits, C2[c].status # "none" PROVE RightRestore(C2[c].restore)
      BY DEF RightTable
    <3>1. credit[c].status # "none"
      BY <1>3 DEF UsedIn
    <3>2. RightRestore(credit[c].restore)
      BY <3>1 DEF IInv, RightCredits, RightTable
    <3> QED BY <3>2, <1>3 DEF Receiver
  <2>2. Numbered(C2)
    <3>1. Numbered(credit)
      BY DEF IInv, RightCredits
    <3> QED BY <3>1, <1>3, Zenon DEF Numbered
  <2>3. \A c \in ActiveIn(C2) : /\ c \in ActiveIn(credit) /\ c \notin ToRevoke(q)
                                /\ C2[c].lesson = credit[c].lesson /\ C2[c].lifted = credit[c].lifted
                                /\ C2[c].removed = credit[c].removed
    BY <1>3 DEF ActiveIn, UsedIn
  <2>4. \A c, e \in ActiveIn(credit) : credit[c].lesson = credit[e].lesson => c = e
    BY DEF IInv, RightCredits
  <2>5. \A c, e \in ActiveIn(C2) : C2[c].lesson = C2[e].lesson => c = e
    BY <2>3, <2>4
  <2>6. ASSUME NEW c \in ActiveIn(C2), C2[c].lifted
        PROVE  P2[C2[c].lesson] = "rejected" /\ T2[C2[c].lesson] = C2[c].removed
    <3>1. PICK l : l = C2[c].lesson /\ l = credit[c].lesson
      BY <2>3
    <3>2. l \in Lessons /\ l \in Reasons
      <4>1. C2[c] \in Credit
        BY <1>3 DEF ActiveIn, Table, NoCredit
      <4> QED BY <4>1, <3>1, Sizes DEF Credit
    <3>3. l \notin A
      <4>1. ASSUME l \in A PROVE FALSE
        <5>1. PICK e \in ToRevoke(q) : e \in ActiveIn(credit) /\ credit[e].lesson = l
          BY <4>1, <3>2, <1>5
        <5> QED BY <5>1, <3>1, <2>3, <2>4
      <4> QED BY <4>1
    <3>4. P[l] = "rejected" /\ T[l] = C2[c].removed
      BY <2>3, <2>6, <3>1, <1>10 DEF IInv, RightCredits
    <3> QED BY <3>1, <3>2, <3>3, <3>4, <1>12
  <2> QED BY <2>1, <2>2, <2>5, <2>6 DEF RightCredits
<1>21. PICK e0 : e0 = First(Rememberers(q))
  OBVIOUS
<1>22. ASSUME NEW c \in Credits, NEW S \in Restore, Claim(c, S, C2, req')
       PROVE  /\ c \notin ToRevoke(q)
              /\ \/ Claim(c, S, credit, req)
                 \/ Receiver(q, c) /\ Claim(e0, S, credit, req)
  <2>1. PICK Q2 : Q2 = req'
    OBVIOUS
  <2>2. Claim(c, S, C2, Q2)
    BY <2>1, <1>22
  <2>3. \A k \in Requests : Q2[k].op = "revoke" => Q2[k] = req[k]
    BY <2>1, <1>19
  <2> QED BY <2>2, <2>3, <1>1, <1>2, <1>21, ClaimsAfter
<1>23. \A c, e \in Credits, R, S \in Restore :
          Claim(c, R, credit, req) /\ Claim(e, S, credit, req) => c = e
  BY DEF IInv, RightClaims
<1>24. RightClaims(C2, req', P2, T2)
  <2>1. CASE AbsenceAgain(q)
    <3>1. PICK e : e = First(BringingBack(q))
      OBVIOUS
    <3>2. BringingBack(q) # {} /\ OldDay(q).lifted
      BY <2>1 DEF AbsenceAgain
    <3>3. /\ e \in ToRevoke(q) /\ e \in Credits /\ Claim(e, OldDay(q), credit, req)
          /\ q.others = {} /\ OldDay(q) \in Restore
      BY <3>1, <3>2, <1>1, OldDayIs DEF ActiveIn
    <3>4. \A c \in Credits, S \in Restore : ~Claim(c, S, C2, req')
      <4> SUFFICES ASSUME NEW c \in Credits, NEW S \in Restore, Claim(c, S, C2, req') PROVE FALSE
        OBVIOUS
      <4>1. c \notin ToRevoke(q) /\ Claim(c, S, credit, req)
        BY <1>22, <3>3 DEF Receiver
      <4>2. c = e
        BY <4>1, <3>3, <1>23
      <4> QED BY <4>1, <4>2, <3>3
    <3> QED BY <3>4 DEF RightClaims
  <2>2. CASE ~AbsenceAgain(q)
    <3>1. P2[Absence] = P[Absence] /\ T2[Absence] = T[Absence]
      BY <2>2, <1>5, <1>12, Sizes
    <3>2. \A c \in Credits : Receiver(q, c) => e0 \in ToRevoke(q) /\ e0 \in Credits
      BY <1>3, <1>21 DEF Receiver, ToRevoke, Active
    <3>3. \A c \in Credits, S \in Restore :
             Claim(c, S, credit, req) => P[Absence] = "rejected" /\ T[Absence] = S.removed
      BY <1>10 DEF IInv, RightClaims
    <3>4. ASSUME NEW c \in Credits, NEW S \in Restore, Claim(c, S, C2, req')
          PROVE  P2[Absence] = "rejected" /\ T2[Absence] = S.removed
      BY <3>1, <3>2, <3>3, <3>4, <1>22
    <3>5. ASSUME NEW c \in Credits, NEW e \in Credits, NEW R \in Restore, NEW S \in Restore,
                 Claim(c, R, C2, req'), Claim(e, S, C2, req')
          PROVE  c = e
      <4>1. /\ c \notin ToRevoke(q)
            /\ Claim(c, R, credit, req) \/ (Receiver(q, c) /\ Claim(e0, R, credit, req))
        BY <3>5, <1>22
      <4>2. /\ e \notin ToRevoke(q)
            /\ Claim(e, S, credit, req) \/ (Receiver(q, e) /\ Claim(e0, S, credit, req))
        BY <3>5, <1>22
      <4>3. CASE Claim(c, R, credit, req) /\ Claim(e, S, credit, req)
        BY <4>3, <1>23
      <4>4. CASE Receiver(q, c) /\ Receiver(q, e)
        BY <4>4 DEF Receiver
      <4>5. CASE Claim(c, R, credit, req) /\ Receiver(q, e) /\ Claim(e0, S, credit, req)
        <5>1. c = e0
          BY <4>5, <3>2, <1>23
        <5> QED BY <5>1, <4>1, <4>5, <3>2
      <4>6. CASE Claim(e, S, credit, req) /\ Receiver(q, c) /\ Claim(e0, R, credit, req)
        <5>1. e = e0
          BY <4>6, <3>2, <1>23
        <5> QED BY <5>1, <4>2, <4>6, <3>2
      <4> QED BY <4>1, <4>2, <4>3, <4>4, <4>5, <4>6
    <3> QED BY <3>4, <3>5 DEF RightClaims
  <2> QED BY <2>1, <2>2
<1> QED BY <1>2, <1>11, <1>14, <1>16, <1>17, <1>19, <1>20, <1>24 DEF IInv

-----------------------------------------------------------------------------
(* The day before anybody has credited anything.                           *)
LEMMA InitInv ==
  ASSUME Init
  PROVE  IInv
<1>1. day \in Row \cup {NoRow} /\ rows \in 0..MaxRows
  <2>1. 1 \in 1..MaxRows /\ 0 \in 0..MaxRows /\ 1 \in 0..MaxRows
    BY Sizes
  <2>2. \/ day = NoRow
        \/ day \in [id : {1}, mark : Marks, timed : {FALSE}, penalised : {FALSE}]
        \/ day \in [id : {1}, mark : {"absent"}, timed : {FALSE}, penalised : {TRUE}]
    BY DEF Init
  <2>3. day \in Row \cup {NoRow}
    BY <2>1, <2>2 DEF Row, Marks
  <2>4. rows = 0 \/ rows = 1
    BY DEF Init
  <2> QED BY <2>1, <2>3, <2>4
<1>2. \A x \in Reasons : penalty[x] \in {"none", "approved"}
  BY DEF Init
<1>3. penalty \in [Reasons -> Statuses]
  BY DEF Init, Statuses
<1>4. /\ taken \in [Reasons -> Nat] /\ \A x \in Reasons : taken[x] = 0
      /\ lowered = 0 /\ edits = 0 /\ ours = TRUE /\ alone \in BOOLEAN /\ graded \subseteq Lessons
  BY DEF Init
<1>5. /\ credit \in Table /\ \A c \in Credits : credit[c] = NoCredit
      /\ req \in [Requests -> Shape] /\ \A k \in Requests : req[k] = Free
  BY DEF Init, Table, Shape
<1>6. Worth(penalty, taken) = [x \in Reasons |-> IF penalty[x] = "approved" THEN Points(x) ELSE 0]
  <2>1. ASSUME NEW x \in Reasons
        PROVE  (IF penalty[x] = "none" THEN 0 ELSE Points(x) - taken[x])
                  = (IF penalty[x] = "approved" THEN Points(x) ELSE 0)
    BY <1>2, <1>4, Sizes
  <2> QED BY <2>1 DEF Worth
<1>7. points = Total(Worth(penalty, taken), NL + 1)
  BY <1>6 DEF Init
<1>8. Total(Worth(penalty, taken), NL + 1) \in Int
  <2>1. Worth(penalty, taken) \in [1..(NL + 1) -> Int] /\ NL + 1 \in Nat
    BY <1>3, <1>4, Sizes DEF Worth, Reasons
  <2> QED BY <2>1, CumType
<1>9. points \in Int /\ RightPoints(penalty, taken, points, lowered)
  <2>1. points = Total(Worth(penalty, taken), NL + 1) - 0 /\ points \in Int
    BY <1>7, <1>8
  <2> QED BY <2>1, <1>4 DEF RightPoints
<1>10. Typed
  <2>1. 0 \in 0..MaxEdits /\ 0 \in Nat
    BY Sizes
  <2> QED BY <2>1, <1>1, <1>3, <1>4, <1>5, <1>9 DEF Typed, TypeOK, Table, Statuses
<1>11. UsedIn(credit) = {} /\ ActiveIn(credit) = {}
  BY <1>5 DEF UsedIn, ActiveIn, NoCredit
<1>12. Numbered(credit)
  <2>1. Cardinality({}) = 0 /\ 1..0 = {}
    BY FS_EmptySet
  <2> QED BY <2>1, <1>11, Zenon DEF Numbered
<1>13. RightCredits(credit, penalty, taken)
  BY <1>11, <1>12 DEF RightCredits, RightTable, UsedIn
<1>14. \A k \in Requests : Knows(req[k], day, credit)
  BY <1>5, Over
<1>15. Penalised(day) => penalty[Absence] = "approved"
  BY Sizes DEF Init, Penalised
<1>16. RightClaims(credit, req, penalty, taken)
  BY <1>11 DEF RightClaims, Claim
<1> QED BY <1>9, <1>10, <1>13, <1>14, <1>15, <1>16 DEF IInv

(* No step takes or gives back the points of a penalty twice, and none     *)
(* forgets who may give them back.                                         *)
LEMMA StepKeeps ==
  ASSUME IInv, [Next]_vars
  PROVE  IInv'
<1>1. CASE UNCHANGED vars
  <2>1. UNCHANGED vars
    BY <1>1
  <2> QED BY <2>1 DEF IInv, Typed, TypeOK, vars, facts, history
<1>2. ASSUME NEW r \in Requests,
             \/ BeginCreate(r) \/ Look(r) \/ Create(r)
             \/ BeginRevoke(r) \/ LookAround(r) \/ Revoke(r)
             \/ BeginCancelDay(r) \/ CancelDay(r) \/ BeginRecheck(r) \/ Recheck(r)
             \/ Fail(r)
      PROVE  IInv'
  BY <1>2, BeginCreateTurn, LookTurn, CreateTurn, BeginRevokeTurn, LookAroundTurn, RevokeTurn,
     BeginCancelDayTurn, CancelDayTurn, BeginRecheckTurn, RecheckTurn, FailTurn
<1>3. ASSUME NEW mark \in Marks, MarkStaff(mark) PROVE IInv'
  BY <1>3, MarkStaffTurn
<1>4. CASE UpdateTimes
  BY <1>4, UpdateTimesTurn
<1>5. CASE ApproveExcuse
  BY <1>5, ApproveExcuseTurn
<1>6. ASSUME NEW l \in Lessons, Grade(l) PROVE IInv'
  BY <1>6, GradeTurn
<1>7. ASSUME NEW n \in 1..MaxEdits, ReducePenalty(n) PROVE IInv'
  BY <1>7, ReducePenaltyTurn
<1> QED BY <1>1, <1>2, <1>3, <1>4, <1>5, <1>6, <1>7 DEF Next

(* The invariant holds in every reachable state.                           *)
LEMMA Induction == Spec => []IInv
<1>1. Init => IInv
  BY InitInv
<1>2. IInv /\ [Next]_vars => IInv'
  BY StepKeeps
<1> QED BY <1>1, <1>2, PTL DEF Spec

(* Rows keep their shape for any number of lessons, credits and handlers.  *)
THEOREM RowsKeepTheirShape == Spec => []TypeOK
<1>1. IInv => TypeOK
  BY DEF IInv, Typed
<1> QED BY <1>1, Induction, PTL

(* The teacher's points are those of the penalties that stand, less what   *)
(* was reduced: no interleaving of createCredits, revokeCredits,           *)
(* cancelAttendance and recheckRange takes or gives back the points of a   *)
(* penalty twice.                                                          *)
THEOREM PointsAreExplained == Spec => []PointsExplained
<1>1. IInv => PointsExplained
  BY Zenon DEF IInv, RightPoints, Worth, PointsExplained
<1> QED BY <1>1, Induction, PTL

-----------------------------------------------------------------------------
(* Where handlers run one after another: the one that runs goes on, or     *)
(* starts beside nobody ...                                                *)
LEMMA LoneTurn ==
  ASSUME IInv, Lone(req, credit), NEW r \in Requests, req[r] # Free \/ Idle,
         NEW q, req' = [req EXCEPT ![r] = q], Current(q, credit)
  PROVE  Lone(req', credit)
<1>1. req \in [Requests -> Shape]
  BY RowsAre
<1>2. \A k \in Requests \ {r} : req[k] = Free
  BY DEF Lone, Idle
<1>3. req'[r] = q /\ \A k \in Requests \ {r} : req'[k] = req[k]
  BY <1>1
<1> QED BY <1>2, <1>3 DEF Lone

(* A handler that is over relies on nothing.                               *)
LEMMA NothingRelied ==
  ASSUME NEW Q, \A k \in Requests : Q[k] = Free, NEW C
  PROVE  Lone(Q, C)
BY DEF Lone, Current, Free

(* ... or ends.                                                            *)
LEMMA LoneEnd ==
  ASSUME IInv, Lone(req, credit), NEW r \in Requests, req[r] # Free,
         Done(r) \/ DoneAfterWrite(r), NEW C
  PROVE  Lone(req', C)
<1>1. req \in [Requests -> Shape]
  BY RowsAre
<1>2. \A k \in Requests \ {r} : req[k] = Free
  BY DEF Lone
<1>3. Stale(Free) = Free
  BY DEF Stale
<1>4. \A k \in Requests : req'[k] = Free
  BY <1>1, <1>2, <1>3 DEF Done, DoneAfterWrite
<1> QED BY <1>4, NothingRelied

(* Nobody runs, and so nobody is overtaken.                                *)
LEMMA LoneIdle ==
  ASSUME IInv, Idle, StaleAll \/ req' = req, NEW C
  PROVE  Lone(req', C)
<1>1. \A k \in Requests : req'[k] = Free
  BY DEF Idle, StaleAll, Stale
<1> QED BY <1>1, NothingRelied

(* Handlers that read.                                                     *)
LEMMA AloneReads ==
  ASSUME IInv, Lone(req, credit), NEW r \in Requests,
         \/ alone /\ BeginCreate(r)
         \/ Look(r)
         \/ alone /\ BeginRevoke(r)
         \/ LookAround(r)
         \/ alone /\ BeginCancelDay(r)
         \/ alone /\ BeginRecheck(r)
         \/ Fail(r)
  PROVE  Lone(req', credit)
<1>1. CASE alone /\ BeginCreate(r)
  <2>1. PICK chosen \in SUBSET Missed, lift \in BOOLEAN :
           Ask(r, [op |-> "create", at |-> "look", lessons |-> chosen, lift |-> lift])
    BY <1>1 DEF BeginCreate
  <2> DEFINE q == [op |-> "create", at |-> "look", lessons |-> chosen, lift |-> lift]
  <2>2. Current(q, credit)
    BY DEF Current
  <2>3. req' = [req EXCEPT ![r] = q] /\ Idle
    BY <1>1, <2>1 DEF Ask
  <2> HIDE DEF q
  <2> QED BY <2>2, <2>3, LoneTurn
<1>2. CASE Look(r)
  <2> DEFINE q == [op |-> "create", at |-> "commit", lessons |-> req[r].lessons, lift |-> req[r].lift,
                   lifts |-> {x \in Reasons : penalty[x] = "approved"},
                   points |-> points, day |-> day, fresh |-> TRUE]
  <2>1. q.fresh /\ q.op = "create"
    OBVIOUS
  <2>2. req' = [req EXCEPT ![r] = q] /\ req[r].op = "create"
    BY <1>2 DEF Look
  <2> HIDE DEF q
  <2>3. Current(q, credit) /\ req[r] # Free
    BY <2>1, <2>2 DEF Current, Free
  <2> QED BY <2>2, <2>3, LoneTurn
<1>3. CASE alone /\ BeginRevoke(r)
  <2>1. PICK chosen \in SUBSET Active :
           Ask(r, [op |-> "revoke", at |-> "look", read |-> chosen, seen |-> credit])
    BY <1>3 DEF BeginRevoke
  <2> DEFINE q == [op |-> "revoke", at |-> "look", read |-> chosen, seen |-> credit]
  <2>2. q.op = "revoke" /\ q.at = "look" /\ q.read = chosen /\ q.seen = credit
    OBVIOUS
  <2>3. req' = [req EXCEPT ![r] = q] /\ Idle
    BY <1>3, <2>1 DEF Ask
  <2> HIDE DEF q
  <2>4. Current(q, credit)
    BY <2>2, TableIs DEF Current, IInv
  <2> QED BY <2>3, <2>4, LoneTurn
<1>4. CASE LookAround(r)
  <2>1. PICK p : p = req[r] /\ p.op = "revoke" /\ Current(p, credit)
    BY <1>4 DEF LookAround, Lone
  <2> DEFINE remain == {c \in Active \ p.read : credit[c].restore = NoRestore}
             others == Active \ p.read
             q == [op |-> "revoke", at |-> "commit", read |-> p.read, seen |-> p.seen,
                   remain |-> remain, others |-> others]
  <2>2. req' = [req EXCEPT ![r] = q] /\ p # Free
    BY <1>4, <2>1 DEF LookAround, Free
  <2>3. /\ q.op = "revoke" /\ q.at = "commit" /\ q.read = p.read /\ q.seen = p.seen
        /\ q.remain = {c \in others : credit[c].restore = NoRestore} /\ q.others = others
    OBVIOUS
  <2>4. others = ActiveIn(credit) \ p.read
    BY TableIs DEF IInv
  <2> HIDE DEF q, others
  <2>5. Current(q, credit)
    BY <2>1, <2>3, <2>4 DEF Current
  <2> QED BY <2>1, <2>2, <2>5, LoneTurn
<1>5. CASE alone /\ BeginCancelDay(r)
  <2> DEFINE q == [op |-> "cancel", at |-> "commit", day |-> day, points |-> points, fresh |-> TRUE]
  <2>1. req' = [req EXCEPT ![r] = q] /\ Idle
    BY <1>5 DEF BeginCancelDay, Ask
  <2>2. Current(q, credit)
    BY DEF Current
  <2> HIDE DEF q
  <2> QED BY <2>1, <2>2, LoneTurn
<1>6. CASE alone /\ BeginRecheck(r)
  <2>1. PICK l \in Lessons :
           Ask(r, [op |-> "recheck", at |-> "commit", lesson |-> l, points |-> points])
    BY <1>6 DEF BeginRecheck
  <2> DEFINE q == [op |-> "recheck", at |-> "commit", lesson |-> l, points |-> points]
  <2>2. req' = [req EXCEPT ![r] = q] /\ Idle
    BY <1>6, <2>1 DEF Ask
  <2>3. Current(q, credit)
    BY DEF Current
  <2> HIDE DEF q
  <2> QED BY <2>2, <2>3, LoneTurn
<1>7. CASE Fail(r)
  BY <1>7, LoneEnd DEF Fail
<1> QED BY <1>1, <1>2, <1>3, <1>4, <1>5, <1>6, <1>7

-----------------------------------------------------------------------------
(* What the credits have made of a day is a teacher who is present.        *)
LEMMA UndoableIs ==
  ASSUME NEW O \in Row \cup {NoRow}, NEW A, NEW D, NEW P, NEW C, Undoable(O, A, D, P, C)
  PROVE  D # NoRow /\ ~Away(D)
<1>1. CASE O = NoRow /\ D # NoRow /\ D.mark = "present"
  BY <1>1 DEF Away
<1>2. CASE Away(O) /\ D = [O EXCEPT !.mark = "present", !.penalised = FALSE]
  <2>1. O \in Row
    BY <1>2 DEF Away
  <2>2. D \in Row /\ D.mark = "present"
    BY <2>1, <1>2 DEF Row, Marks
  <2>3. D # NoRow
    BY <2>2 DEF Row, NoRow
  <2> QED BY <2>2, <2>3 DEF Away
<1>3. CASE O # NoRow /\ ~Away(O) /\ D = O
  BY <1>3
<1> QED BY <1>1, <1>2, <1>3 DEF Undoable

(* The memory C has of a day moves to a credit of C2, if it has one.       *)
MemoryMoves(C, C2) ==
    /\ Remembering(C) = {} => Remembering(C2) = {}
    /\ \A c \in Credits : Remembering(C) = {c} =>
          \E e \in Credits : Remembering(C2) = {e} /\ C2[e].restore = C[c].restore

(* What credits have made of the day can be undone as long as the memory   *)
(* of the day stays with one active credit, whichever that is.             *)
LEMMA UndoableMoves ==
  ASSUME NEW O, NEW A, NEW D, NEW P, NEW C, NEW P2, NEW C2, Undoable(O, A, D, P, C),
         P2[Absence] = P[Absence], MemoryMoves(C, C2)
  PROVE  Undoable(O, A, D, P2, C2)
<1>1. CASE /\ O = NoRow /\ D # NoRow /\ D.mark = "present" /\ ~D.timed /\ ~D.penalised
           /\ P[Absence] = A /\ A # "approved"
           /\ \E c \in Credits : /\ Remembering(C) = {c}
                                 /\ C[c].restore.created /\ C[c].restore.id = D.id
  <2>1. PICK c \in Credits : Remembering(C) = {c} /\ C[c].restore.created /\ C[c].restore.id = D.id
    BY <1>1
  <2>2. PICK e \in Credits : Remembering(C2) = {e} /\ C2[e].restore = C[c].restore
    BY <2>1 DEF MemoryMoves
  <2> QED BY <1>1, <2>1, <2>2 DEF Undoable
<1>2. CASE /\ Away(O) /\ D = [O EXCEPT !.mark = "present", !.penalised = FALSE]
           /\ \E c \in Credits : /\ Remembering(C) = {c}
                                 /\ ~C[c].restore.created /\ C[c].restore.id = O.id
                                 /\ C[c].restore.mark = O.mark
                                 /\ C[c].restore.penalised = O.penalised
           /\ A = IF O.penalised THEN "approved" ELSE P[Absence]
           /\ P[Absence] # "approved"
  <2>1. PICK c \in Credits : /\ Remembering(C) = {c}
                             /\ ~C[c].restore.created /\ C[c].restore.id = O.id
                             /\ C[c].restore.mark = O.mark
                             /\ C[c].restore.penalised = O.penalised
    BY <1>2
  <2>2. PICK e \in Credits : Remembering(C2) = {e} /\ C2[e].restore = C[c].restore
    BY <2>1 DEF MemoryMoves
  <2> QED BY <1>2, <2>1, <2>2 DEF Undoable
<1>3. CASE O # NoRow /\ ~Away(O) /\ D = O /\ P[Absence] = A /\ Remembering(C) = {}
  BY <1>3 DEF Undoable, MemoryMoves
<1> QED BY <1>1, <1>2, <1>3 DEF Undoable

(* Memories that stay where they are.                                      *)
LEMMA MemoryStays ==
  ASSUME NEW C, NEW C2, Remembering(C2) = Remembering(C),
         \A c \in Remembering(C) : C2[c].restore = C[c].restore
  PROVE  MemoryMoves(C, C2)
BY DEF MemoryMoves

(* A step that has nothing to do with the day.                             *)
LEMMA AsideTurn ==
  ASSUME Remembered(ours, origin, day, penalty, credit),
         day' = day, credit' = credit, ours' = ours, origin' = origin,
         penalty'[Absence] = penalty[Absence]
  PROVE  Remembered(ours', origin', day', penalty', credit')
<1>1. PICK O, A : O = origin.row /\ A = origin.absence
  OBVIOUS
<1>2. PICK P2 : P2 = penalty'
  OBVIOUS
<1>3. MemoryMoves(credit, credit)
  BY MemoryStays
<1>4. Undoable(O, A, day, penalty, credit) => Undoable(O, A, day, P2, credit)
  BY <1>2, <1>3, UndoableMoves
<1> QED BY <1>1, <1>2, <1>4 DEF Remembered

(* A change by somebody else: the day is remembered anew, if no credit     *)
(* stands.                                                                 *)
LEMMA OthersTurn ==
  ASSUME IInv, Remembered(ours, origin, day, penalty, credit), ChangedByOthers, credit' = credit,
         day' \in Row \cup {NoRow}, penalty' \in [Reasons -> Statuses],
         penalty'[Absence] = "approved" => Penalised(day'),
         Penalised(day') => Penalised(day)
  PROVE  Remembered(ours', origin', day', penalty', credit')
<1>1. Active = ActiveIn(credit)
  BY TableIs DEF IInv
<1>2. CASE Active = {}
  <2>1. origin' = [row |-> day', absence |-> penalty'[Absence]]
    BY <1>2 DEF ChangedByOthers
  <2>2. PICK D2 \in Row \cup {NoRow}, P2 \in [Reasons -> Statuses] : D2 = day' /\ P2 = penalty'
    OBVIOUS
  <2>3. origin' = [row |-> D2, absence |-> P2[Absence]] /\ P2[Absence] \in Statuses
    BY <2>1, <2>2, Sizes
  <2>4. /\ origin'.row = D2 /\ origin'.absence = P2[Absence]
        /\ origin' \in [row : Row \cup {NoRow}, absence : {"none", "approved", "rejected"}]
    BY <2>3 DEF Statuses
  <2>5. /\ P2[Absence] = "approved" => Penalised(D2)
        /\ Remembering(credit) # {} => ~Penalised(D2)
    BY <2>2 DEF Remembered
  <2> QED BY <1>1, <1>2, <2>2, <2>4, <2>5 DEF Remembered
<1>3. CASE Active # {}
  <2>1. ours' = FALSE /\ origin' = origin
    BY <1>3 DEF ChangedByOthers
  <2> QED BY <2>1 DEF Remembered
<1> QED BY <1>2, <1>3

(* Of two penalties of a set only those that stand are rejected.           *)
LEMMA RejectsAbsence ==
  ASSUME IInv, NEW X \in SUBSET Reasons, NEW seen, Reject(X, seen)
  PROVE  /\ penalty' \in [Reasons -> Statuses]
         /\ penalty'[Absence] = IF Absence \in X /\ penalty[Absence] = "approved"
                                THEN "rejected" ELSE penalty[Absence]
BY RowsAre, Sizes DEF Reject, Statuses

(* A cancelled day takes its penalty with it.                              *)
LEMMA AloneCancelDay ==
  ASSUME IInv, Remembered(ours, origin, day, penalty, credit), Lone(req, credit),
         NEW r \in Requests, CancelDay(r)
  PROVE  Lone(req', credit') /\ Remembered(ours', origin', day', penalty', credit')
<1>1. PICK q \in Cancelling : q = req[r] /\ Knows(q, day, credit) /\ q.fresh
  BY RowsAre, Places DEF CancelDay
<1>2. q.day = day /\ q.op = "cancel" /\ q # Free /\ day # NoRow
  BY <1>1 DEF Knows, Cancelling, Free, Row, NoRow
<1>3. /\ DoneAfterWrite(r) /\ day' = NoRow /\ credit' = credit /\ ChangedByOthers
      /\ Reject(IF day.penalised THEN {Absence} ELSE {}, q.points)
  BY <1>1, <1>2 DEF CancelDay
<1>4. Lone(req', credit')
  BY <1>1, <1>2, <1>3, LoneEnd
<1>5. penalty' \in [Reasons -> Statuses] /\ penalty'[Absence] # "approved"
  <2>1. PICK X \in SUBSET Reasons : X = IF day.penalised THEN {Absence} ELSE {}
    BY Sizes
  <2>2. /\ penalty' \in [Reasons -> Statuses]
        /\ penalty'[Absence] = IF Absence \in X /\ penalty[Absence] = "approved"
                               THEN "rejected" ELSE penalty[Absence]
    BY <2>1, <1>3, RejectsAbsence
  <2>3. penalty[Absence] = "approved" => day.penalised
    BY DEF Remembered, Penalised
  <2> QED BY <2>1, <2>2, <2>3
<1> QED BY <1>3, <1>4, <1>5, OthersTurn DEF Penalised

(* A recheck is about a lesson.                                            *)
LEMMA AloneRecheck ==
  ASSUME IInv, Remembered(ours, origin, day, penalty, credit), Lone(req, credit),
         NEW r \in Requests, Recheck(r)
  PROVE  Lone(req', credit') /\ Remembered(ours', origin', day', penalty', credit')
<1>1. PICK q \in Rechecking : q = req[r]
  BY RowsAre, Places DEF Recheck
<1>2. PICK X \in SUBSET Reasons : X = {q.lesson} /\ Absence \notin X
  <2>1. q.lesson \in Lessons
    BY DEF Rechecking
  <2> QED BY <2>1, Sizes
<1>3. Reject(X, q.points)
  BY <1>1, <1>2 DEF Recheck
<1>4. penalty'[Absence] = penalty[Absence]
  BY <1>2, <1>3, RejectsAbsence
<1>5. q # Free /\ Done(r) /\ UNCHANGED <<day, credit, origin, ours>>
  BY <1>1 DEF Recheck, Rechecking, Free
<1>6. Lone(req', credit')
  BY <1>1, <1>5, LoneEnd
<1> QED BY <1>4, <1>5, <1>6, AsideTurn

(* Edits of the row, where nothing runs beside them.                       *)
LEMMA AloneEdits ==
  ASSUME IInv, alone, Remembered(ours, origin, day, penalty, credit),
         (\E mark \in Marks : MarkStaff(mark)) \/ UpdateTimes \/ ApproveExcuse
  PROVE  Lone(req', credit') /\ Remembered(ours', origin', day', penalty', credit')
<1>1. StaleAll /\ Idle /\ ChangedByOthers /\ credit' = credit
  BY DEF MarkStaff, UpdateTimes, ApproveExcuse, Edit
<1>2. Lone(req', credit')
  BY <1>1, LoneIdle
<1>3. rows + 1 \in 1..MaxRows \/ rows >= MaxRows
  BY RowsAre, Sizes
<1>4. /\ penalty[Absence] = "approved" => Penalised(day)
      /\ penalty \in [Reasons -> Statuses] /\ day \in Row \cup {NoRow}
      /\ rows \in 0..MaxRows /\ MaxRows \in Nat
  BY RowsAre, Sizes DEF Remembered
<1>5. ASSUME NEW mark \in Marks, MarkStaff(mark)
      PROVE  /\ day' \in Row \cup {NoRow} /\ penalty' \in [Reasons -> Statuses]
             /\ penalty'[Absence] = "approved" => Penalised(day')
             /\ Penalised(day') => Penalised(day)
  <2>1. penalty' = penalty
    BY <1>5 DEF MarkStaff
  <2>2. CASE /\ day = NoRow /\ rows < MaxRows
             /\ day' = [id |-> rows + 1, mark |-> mark, timed |-> FALSE, penalised |-> FALSE]
    <3>1. day' \in Row /\ ~Penalised(day') /\ ~Penalised(day)
      BY <2>2, <1>3, <1>4 DEF Row, Penalised
    <3> QED BY <2>1, <3>1, <1>4
  <2>3. CASE day # NoRow /\ day' = [day EXCEPT !.mark = mark]
    <3>1. day' \in Row /\ (Penalised(day') <=> Penalised(day))
      <4>1. day \in Row /\ day' \in Row /\ day'.penalised = day.penalised
        BY <2>3, <1>4 DEF Row
      <4>2. day' # NoRow
        BY <4>1 DEF Row, NoRow
      <4> QED BY <2>3, <4>1, <4>2 DEF Penalised
    <3> QED BY <2>1, <3>1, <1>4
  <2> QED BY <1>5, <2>2, <2>3 DEF MarkStaff
<1>6. ASSUME UpdateTimes
      PROVE  /\ day' \in Row \cup {NoRow} /\ penalty' \in [Reasons -> Statuses]
             /\ penalty'[Absence] = "approved" => Penalised(day')
             /\ Penalised(day') => Penalised(day)
  <2>1. penalty' = penalty /\ day # NoRow /\ day' = [day EXCEPT !.timed = ~@]
    BY <1>6 DEF UpdateTimes
  <2>2. day \in Row /\ day' \in Row /\ day'.penalised = day.penalised
    BY <2>1, <1>4 DEF Row
  <2>3. day' # NoRow
    BY <2>2 DEF Row, NoRow
  <2> QED BY <2>1, <2>2, <2>3, <1>4 DEF Penalised
<1>7. ASSUME ApproveExcuse
      PROVE  /\ day' \in Row \cup {NoRow} /\ penalty' \in [Reasons -> Statuses]
             /\ penalty'[Absence] = "approved" => Penalised(day')
             /\ Penalised(day') => Penalised(day)
  <2>1. CASE /\ day = NoRow /\ rows < MaxRows
             /\ day' = [id |-> rows + 1, mark |-> "excused", timed |-> FALSE, penalised |-> FALSE]
             /\ UNCHANGED <<penalty, points, taken>>
    <3>1. day' \in Row /\ ~Penalised(day') /\ ~Penalised(day)
      BY <2>1, <1>3, <1>4 DEF Row, Penalised, Marks
    <3> QED BY <2>1, <3>1, <1>4
  <2>2. CASE /\ day # NoRow /\ day' = [day EXCEPT !.mark = "excused", !.penalised = FALSE]
             /\ IF day.penalised
                THEN /\ penalty' = [penalty EXCEPT ![Absence] = "rejected"]
                     /\ points' = points - AbsentPoints
                     /\ taken' = [taken EXCEPT ![Absence] = AbsentPoints]
                ELSE UNCHANGED <<penalty, points, taken>>
    <3>1. day' \in Row /\ ~Penalised(day')
      BY <2>2, <1>4 DEF Row, Penalised, Marks
    <3>2. CASE day.penalised
      <4>1. penalty' = [penalty EXCEPT ![Absence] = "rejected"]
        BY <2>2, <3>2
      <4>2. penalty' \in [Reasons -> Statuses] /\ penalty'[Absence] = "rejected"
        BY <4>1, <1>4, Sizes DEF Statuses
      <4> QED BY <3>1, <4>2
    <3>3. CASE ~day.penalised
      <4>1. penalty' = penalty /\ ~Penalised(day)
        BY <2>2, <3>3 DEF Penalised
      <4> QED BY <3>1, <4>1, <1>4
    <3> QED BY <3>2, <3>3
  <2> QED BY <1>7, <2>1, <2>2 DEF ApproveExcuse
<1>8. /\ day' \in Row \cup {NoRow} /\ penalty' \in [Reasons -> Statuses]
      /\ penalty'[Absence] = "approved" => Penalised(day')
      /\ Penalised(day') => Penalised(day)
  BY <1>5, <1>6, <1>7
<1>9. Remembered(ours', origin', day', penalty', credit')
  BY <1>1, <1>8, OthersTurn
<1> QED BY <1>2, <1>9

-----------------------------------------------------------------------------
(* What createCredits makes of a day: it opens a row, corrects one, or     *)
(* finds the teacher present.                                              *)
Opened(D, D2, R) ==
    /\ D = NoRow /\ D2 # NoRow /\ D2.mark = "present" /\ ~D2.timed /\ ~D2.penalised
    /\ R # NoRestore /\ R.created /\ R.id = D2.id
Corrected(D, D2, R) ==
    /\ Away(D) /\ D2 = [D EXCEPT !.mark = "present", !.penalised = FALSE]
    /\ R # NoRestore /\ ~R.created /\ R.id = D.id /\ R.mark = D.mark /\ R.penalised = D.penalised
Left(D, D2, R) == D # NoRow /\ ~Away(D) /\ D2 = D /\ R = NoRestore

(* The memory of the credits after createCredits is the old one, or that   *)
(* of the new one alone.                                                   *)
LEMMA MemoryAdded ==
  ASSUME IInv, NEW C2, NEW b, NEW new, NEW live, NEW gone, NEW R,
         Added(C2, b, new, live, gone, R)
  PROVE  /\ ActiveIn(C2) # {}
         /\ R = NoRestore => MemoryMoves(credit, C2) /\ Remembering(C2) = Remembering(credit)
         /\ R # NoRestore /\ Remembering(credit) = {} =>
              b + 1 \in Credits /\ Remembering(C2) = {b + 1} /\ C2[b + 1].restore = R
<1>1. /\ \A c \in Used : C2[c] = credit[c]
      /\ \A c \in UsedIn(C2) \ Used :
           /\ C2[c].status = "active"
           /\ C2[c].restore = IF c = b + 1 THEN R ELSE NoRestore
      /\ b + 1 \in UsedIn(C2) \ Used
  BY DEF Added
<1>2. Used \subseteq Credits /\ UsedIn(C2) \subseteq Credits
  BY DEF Used, UsedIn
<1>3. b + 1 \in ActiveIn(C2) /\ b + 1 \in Credits
  BY <1>1, <1>2 DEF ActiveIn
<1>4. Remembering(credit) \subseteq Used
  BY DEF Remembering, ActiveIn, Used
<1>5. \A c \in Used : c \in Remembering(C2) <=> c \in Remembering(credit)
  BY <1>1, <1>2 DEF Remembering, ActiveIn
<1>6. \A c \in Remembering(C2) : c \in Used \/ (c = b + 1 /\ R # NoRestore)
  BY <1>1 DEF Remembering, ActiveIn, UsedIn
<1>7. R # NoRestore => b + 1 \in Remembering(C2) /\ C2[b + 1].restore = R
  BY <1>1, <1>3 DEF Remembering
<1>8. ASSUME R = NoRestore
      PROVE  MemoryMoves(credit, C2) /\ Remembering(C2) = Remembering(credit)
  <2>1. Remembering(C2) = Remembering(credit)
    BY <1>4, <1>5, <1>6, <1>8
  <2>2. \A c \in Remembering(credit) : C2[c].restore = credit[c].restore
    BY <1>1, <1>4
  <2> QED BY <2>1, <2>2, MemoryStays
<1>9. ASSUME R # NoRestore, Remembering(credit) = {}
      PROVE  Remembering(C2) = {b + 1}
  BY <1>5, <1>6, <1>7, <1>9
<1> QED BY <1>3, <1>7, <1>8, <1>9

(* The first credit of a day remembers it; the others find the teacher     *)
(* present, and what there is to remember remembered.                      *)
LEMMA AloneCreate ==
  ASSUME IInv, Remembered(ours, origin, day, penalty, credit), Lone(req, credit),
         NEW r \in Requests, Create(r)
  PROVE  Lone(req', credit') /\ Remembered(ours', origin', day', penalty', credit')
<1>1. PICK q \in Creating : /\ q = req[r] /\ Knows(q, day, credit) /\ Current(q, credit)
                            /\ q.op = "create" /\ q.at = "commit" /\ q # Free
  <2>1. PICK q \in Creating : q = req[r] /\ Knows(q, day, credit)
    BY RowsAre, Places DEF Create
  <2>2. q.op = "create" /\ q.at = "commit" /\ q # Free
    BY <2>1 DEF Creating, Free
  <2> QED BY <2>1, <2>2 DEF Lone
<1>2. q.day = day
  BY <1>1 DEF Current, Knows
<1>3. Lone(req', credit')
  <2>1. Done(r) \/ DoneAfterWrite(r)
    BY <1>1, CreateIs
  <2> QED BY <2>1, <1>1, LoneEnd
<1>4. PICK C2, D2, R : C2 = credit' /\ D2 = day' /\ R = DayMemory(q)
  OBVIOUS
<1>5. /\ RightRestore(R)
      /\ Absence \in LiveNow(q) <=> R # NoRestore /\ R.lifted
      /\ Penalised(D2) => D2 = day
      /\ D2 \in Row \cup {NoRow}
      /\ Opened(day, D2, R) \/ Corrected(day, D2, R) \/ Left(day, D2, R)
  <2>1. /\ q.day = NoRow => day = NoRow /\ rows < MaxRows
        /\ Away(q.day) => q.fresh
        /\ day' = MarkedRow(q.day) /\ rows' = IF q.day = NoRow THEN rows + 1 ELSE rows
    BY <1>1, CreateIs
  <2>2. /\ RightRestore(R)
        /\ Absence \in LiveNow(q) <=> R # NoRestore /\ R.lifted
        /\ day' \in Row \cup {NoRow}
        /\ Penalised(day') => day' = day
    BY <2>1, <1>1, <1>4, DayMemoryIs
  <2>3. \/ /\ q.day = NoRow /\ day = NoRow
           /\ day' \in Row /\ day'.mark = "present" /\ ~day'.timed /\ ~day'.penalised
           /\ R # NoRestore
           /\ R.created /\ R.id = day'.id
        \/ /\ q.day = day /\ Away(day)
           /\ day' = [day EXCEPT !.mark = "present", !.penalised = FALSE]
           /\ R # NoRestore
           /\ ~R.created /\ R.id = day.id
           /\ R.mark = day.mark /\ R.penalised = day.penalised
        \/ /\ q.day # NoRow /\ ~Away(q.day) /\ day' = day
           /\ R = NoRestore
    BY <2>1, <1>1, <1>4, DayMemoryIs
  <2>4. NoRow \notin Row
    BY DEF NoRow, Row
  <2>5. Opened(day, D2, R) \/ Corrected(day, D2, R) \/ Left(day, D2, R)
    BY <2>3, <2>4, <1>2, <1>4 DEF Opened, Corrected, Left
  <2> QED BY <2>2, <2>5, <1>4
<1>6. PICK b : b = Cardinality(Used)
  OBVIOUS
<1>7. Added(C2, b, NewLessons(q), LiveNow(q), Taken(LiveNow(q), q.points), R)
  BY <1>1, <1>4, <1>6, CreateAdds
<1>8. /\ ActiveIn(C2) # {}
      /\ R = NoRestore => MemoryMoves(credit, C2) /\ Remembering(C2) = Remembering(credit)
      /\ R # NoRestore /\ Remembering(credit) = {} =>
              b + 1 \in Credits /\ Remembering(C2) = {b + 1} /\ C2[b + 1].restore = R
  BY <1>7, MemoryAdded
<1>9. PICK P2 : P2 = penalty' /\ P2 \in [Reasons -> Statuses]
                /\ P2[Absence] = IF Absence \in LiveNow(q) THEN "rejected" ELSE penalty[Absence]
  <2>1. PICK X \in SUBSET Reasons : X = ToReject(q) \cap q.lifts
    <3>1. q.lifts \in SUBSET Reasons
      BY DEF Creating
    <3> QED BY <3>1
  <2>2. Reject(X, q.points)
    BY <2>1, <1>1, CreateIs
  <2>3. Absence \in LiveNow(q) <=> Absence \in X /\ penalty[Absence] = "approved"
    BY <2>1 DEF LiveNow
  <2>4. /\ penalty' \in [Reasons -> Statuses]
        /\ penalty'[Absence] = IF Absence \in X /\ penalty[Absence] = "approved"
                               THEN "rejected" ELSE penalty[Absence]
    BY <2>2, RejectsAbsence
  <2> QED BY <2>3, <2>4
<1>10. /\ penalty[Absence] = "approved" <=> Penalised(day)
       /\ Remembering(credit) # {} => ~Penalised(day)
       /\ origin \in [row : Row \cup {NoRow}, absence : {"none", "approved", "rejected"}]
       /\ day \in Row \cup {NoRow} /\ penalty[Absence] \in Statuses
  BY RowsAre, Sizes DEF Remembered
<1>11. /\ Opened(day, D2, R) => ~Penalised(D2) /\ ~Penalised(day) /\ Absence \notin LiveNow(q)
       /\ Corrected(day, D2, R) => /\ ~Penalised(D2)
                                   /\ Absence \in LiveNow(q) <=> Penalised(day)
                                   /\ Penalised(day) <=> day.penalised
       /\ Left(day, D2, R) => Absence \notin LiveNow(q) /\ D2 = day
  <2>1. Corrected(day, D2, R) => ~D2.penalised /\ day # NoRow
    <3> SUFFICES ASSUME Corrected(day, D2, R) PROVE ~D2.penalised /\ day # NoRow
      OBVIOUS
    <3>1. day \in Row /\ D2 = [day EXCEPT !.mark = "present", !.penalised = FALSE]
      BY <1>10 DEF Corrected, Away
    <3> QED BY <3>1 DEF Row, Corrected, Away
  <2> QED BY <2>1, <1>5 DEF Opened, Corrected, Left, Penalised, RightRestore
<1>12. P2[Absence] = "approved" => Penalised(D2)
  BY <1>5, <1>9, <1>10, <1>11
<1>13. Remembering(C2) # {} => ~Penalised(D2)
  BY <1>5, <1>8, <1>10, <1>11 DEF Left
<1>14. Active = ActiveIn(credit)
  BY TableIs DEF IInv
<1>15. CASE Active = {}
  <2>1. origin' = [row |-> day, absence |-> penalty[Absence]] /\ ours' = TRUE
    BY <1>1, <1>15, CreateIs
  <2>2. /\ origin'.row = day /\ origin'.absence = penalty[Absence]
        /\ origin' \in [row : Row \cup {NoRow}, absence : {"none", "approved", "rejected"}]
    BY <2>1, <1>10 DEF Statuses
  <2>3. Remembering(credit) = {}
    BY <1>14, <1>15 DEF Remembering
  <2>4. Undoable(day, penalty[Absence], D2, P2, C2)
    <3>1. CASE Opened(day, D2, R)
      <4>1. P2[Absence] = penalty[Absence] /\ penalty[Absence] # "approved"
        BY <3>1, <1>9, <1>10, <1>11
      <4>2. /\ b + 1 \in Credits /\ Remembering(C2) = {b + 1}
            /\ C2[b + 1].restore.created /\ C2[b + 1].restore.id = D2.id
        BY <3>1, <2>3, <1>8 DEF Opened
      <4> QED BY <3>1, <4>1, <4>2 DEF Undoable, Opened
    <3>2. CASE Corrected(day, D2, R)
      <4>1. /\ penalty[Absence] = IF day.penalised THEN "approved" ELSE P2[Absence]
            /\ P2[Absence] # "approved"
        BY <3>2, <1>9, <1>10, <1>11
      <4>2. /\ b + 1 \in Credits /\ Remembering(C2) = {b + 1}
            /\ ~C2[b + 1].restore.created /\ C2[b + 1].restore.id = day.id
            /\ C2[b + 1].restore.mark = day.mark
            /\ C2[b + 1].restore.penalised = day.penalised
        BY <3>2, <2>3, <1>8 DEF Corrected
      <4> QED BY <3>2, <4>1, <4>2 DEF Undoable, Corrected
    <3>3. CASE Left(day, D2, R)
      <4>1. P2[Absence] = penalty[Absence] /\ Remembering(C2) = {}
        BY <3>3, <2>3, <1>8, <1>9, <1>11 DEF Left
      <4> QED BY <3>3, <4>1 DEF Undoable, Left
    <3> QED BY <3>1, <3>2, <3>3, <1>5
  <2> QED BY <2>2, <2>4, <1>3, <1>4, <1>8, <1>9, <1>12, <1>13 DEF Remembered
<1>16. CASE Active # {}
  <2>1. origin' = origin /\ ours' = ours
    BY <1>1, <1>16, CreateIs
  <2>2. ASSUME ours
        PROVE  Undoable(origin.row, origin.absence, D2, P2, C2)
    <3>1. PICK O \in Row \cup {NoRow}, A \in {"none", "approved", "rejected"} :
         O = origin.row /\ A = origin.absence
      BY <1>10
    <3>2. Undoable(O, A, day, penalty, credit)
      BY <2>2, <3>1, <1>14, <1>16 DEF Remembered
    <3>3. day # NoRow /\ ~Away(day)
      BY <3>2, UndoableIs
    <3>4. Left(day, D2, R)
      BY <3>3, <1>5 DEF Opened, Corrected
    <3>5. D2 = day /\ P2[Absence] = penalty[Absence] /\ MemoryMoves(credit, C2)
      BY <3>4, <1>8, <1>9, <1>11 DEF Left
    <3>6. Undoable(O, A, day, P2, C2)
      BY <3>2, <3>5, UndoableMoves
    <3> QED BY <3>1, <3>5, <3>6
  <2> QED BY <2>1, <2>2, <1>3, <1>4, <1>8, <1>9, <1>10, <1>12, <1>13 DEF Remembered
<1> QED BY <1>15, <1>16

-----------------------------------------------------------------------------
(* A revocation that runs alone revokes what it has chosen, and knows      *)
(* which of it remembers the day.                                          *)
LEMMA AloneRevokes ==
  ASSUME IInv, NEW q \in Revoking, Current(q, credit)
  PROVE  /\ q.seen = credit /\ ToRevoke(q) = q.read /\ q.read \subseteq ActiveIn(credit)
         /\ q.others = ActiveIn(credit) \ q.read
         /\ q.remain = {c \in q.others : credit[c].restore = NoRestore}
         /\ Rememberers(q) = q.read \cap Remembering(credit)
<1>1. /\ q.seen = credit /\ q.read \subseteq ActiveIn(credit)
      /\ q.others = ActiveIn(credit) \ q.read
      /\ q.remain = {c \in q.others : credit[c].restore = NoRestore}
  BY DEF Current, Revoking
<1>2. ToRevoke(q) = q.read
  BY <1>1, TableIs DEF ToRevoke, IInv
<1>3. Rememberers(q) = q.read \cap Remembering(credit)
  BY <1>1, <1>2 DEF Rememberers, Remembering
<1> QED BY <1>1, <1>2, <1>3

(* While other credits stand, one of them has the memory afterwards.       *)
LEMMA MemoryHanded ==
  ASSUME IInv, NEW r \in Requests, NEW q \in Revoking, q = req[r], Knows(q, day, credit),
         Current(q, credit), NEW C2, C2 = HandOver(ToRevoke(q), q, Rememberers(q))
  PROVE  /\ ActiveIn(C2) = q.others
         /\ q.others # {} => MemoryMoves(credit, C2)
<1>1. /\ q.seen = credit /\ ToRevoke(q) = q.read /\ q.read \subseteq ActiveIn(credit)
      /\ q.others = ActiveIn(credit) \ q.read
      /\ q.remain = {c \in q.others : credit[c].restore = NoRestore}
      /\ Rememberers(q) = q.read \cap Remembering(credit)
  BY AloneRevokes
<1>2. /\ ActiveIn(C2) = q.others
      /\ \A c \in Credits : C2[c].restore = IF Receiver(q, c) /\ c \notin q.read
                                            THEN Handed(q) ELSE credit[c].restore
      /\ Rememberers(q) # {} => Handed(q) # NoRestore
  <2>1. /\ ActiveIn(C2) = ActiveIn(credit) \ ToRevoke(q)
        /\ \A c \in Credits : C2[c].restore = IF Receiver(q, c) /\ c \notin ToRevoke(q)
                                              THEN Handed(q) ELSE credit[c].restore
        /\ Rememberers(q) # {} => Handed(q) # NoRestore
    BY HandOverIs
  <2>2. ToRevoke(q) = q.read /\ q.others = ActiveIn(credit) \ q.read
    BY <1>1
  <2>3. ActiveIn(C2) = q.others
    BY <2>1, <2>2, Zenon
  <2>4. \A c \in Credits : C2[c].restore = IF Receiver(q, c) /\ c \notin q.read
                                            THEN Handed(q) ELSE credit[c].restore
    BY <2>1, <2>2, Zenon
  <2> QED BY <2>1, <2>3, <2>4
<1>3. q.others \subseteq Credits /\ Remembering(credit) \subseteq ActiveIn(credit)
      /\ ActiveIn(credit) \subseteq Credits
  BY <1>1 DEF ActiveIn, Remembering
<1>4. ASSUME Rememberers(q) = {}
      PROVE  MemoryMoves(credit, C2)
  <2>1. \A c \in Credits : C2[c].restore = credit[c].restore
    BY <1>2, <1>4 DEF Receiver
  <2>2. Remembering(C2) = {c \in q.others : credit[c].restore # NoRestore}
    BY <2>1, <1>2, <1>3 DEF Remembering
  <2>3. Remembering(C2) = Remembering(credit)
    BY <2>2, <1>1, <1>3, <1>4 DEF Remembering
  <2>4. \A c \in Remembering(credit) : C2[c].restore = credit[c].restore
    BY <2>1, <1>3
  <2> QED BY <2>3, <2>4, MemoryStays
<1>5. ASSUME Rememberers(q) # {}, q.others # {}
      PROVE  MemoryMoves(credit, C2)
  <2> SUFFICES ASSUME NEW c \in Credits, Remembering(credit) = {c}
               PROVE  \E e \in Credits : Remembering(C2) = {e} /\ C2[e].restore = credit[c].restore
    BY <1>1, <1>5 DEF MemoryMoves
  <2>1. Rememberers(q) = {c} /\ c \in q.read
    BY <1>1, <1>5
  <2>2. First(Rememberers(q)) = c
    BY <2>1, FirstIs
  <2>3. Handed(q) = credit[c].restore /\ Handed(q) # NoRestore
    BY <1>1, <1>2, <1>5, <2>2 DEF Handed
  <2>4. PICK e : e = First(q.others) /\ e \in q.others
    BY <1>3, <1>5, FirstIs
  <2>5. \A k \in q.others : credit[k].restore = NoRestore /\ k \notin q.read /\ k \in q.remain
    <3> SUFFICES ASSUME NEW k \in q.others
                 PROVE  credit[k].restore = NoRestore /\ k \notin q.read /\ k \in q.remain
      OBVIOUS
    <3>1. k \in ActiveIn(credit) /\ k \notin q.read /\ k # c
      BY <1>1, <2>1
    <3>2. k \notin Remembering(credit)
      BY <3>1
    <3> QED BY <3>1, <3>2, <1>1 DEF Remembering
  <2>6. \A k \in q.others : C2[k].restore = IF k = e THEN Handed(q) ELSE NoRestore
    BY <1>2, <1>3, <1>5, <2>4, <2>5 DEF Receiver
  <2>7. Remembering(C2) = {e}
    BY <2>3, <2>4, <2>6, <1>2 DEF Remembering
  <2> QED BY <2>3, <2>4, <2>6, <2>7, <1>3
<1> QED BY <1>2, <1>4, <1>5

(* When the last credits are revoked, the row and the penalty there were   *)
(* are back.                                                               *)
LEMMA AllRevoked ==
  ASSUME IInv, NEW r \in Requests, NEW q \in Revoking, q = req[r], Knows(q, day, credit),
         Current(q, credit), q.others = {},
         NEW O \in Row \cup {NoRow}, O # NoRow => ~O.timed, NEW A,
         Undoable(O, A, day, penalty, credit),
         NEW D2, NEW P2,
         D2 = RowAfter(q),
         P2[Absence] = IF AbsenceAgain(q) THEN "approved" ELSE penalty[Absence]
  PROVE  D2 = O /\ P2[Absence] = A
<1>1. /\ q.seen = credit /\ Rememberers(q) = Remembering(credit)
  <2>1. /\ q.seen = credit /\ q.read \subseteq ActiveIn(credit)
        /\ {} = ActiveIn(credit) \ q.read
        /\ Rememberers(q) = q.read \cap Remembering(credit)
    BY AloneRevokes
  <2> QED BY <2>1 DEF Remembering
<1>2. CASE /\ O = NoRow /\ day # NoRow /\ day.mark = "present" /\ ~day.timed /\ ~day.penalised
           /\ penalty[Absence] = A /\ A # "approved"
           /\ \E c \in Credits : /\ Remembering(credit) = {c}
                                 /\ credit[c].restore.created /\ credit[c].restore.id = day.id
  <2>1. PICK c \in Credits : /\ Remembering(credit) = {c}
                             /\ credit[c].restore.created /\ credit[c].restore.id = day.id
    BY <1>2
  <2>2. BringingBack(q) = {c}
    BY <1>1, <1>2, <2>1 DEF BringingBack, StillOurs
  <2>3. OldDay(q) = credit[c].restore
    <3>1. First({c}) = c
      BY FirstIs
    <3> QED BY <3>1, <2>2, <1>1 DEF OldDay
  <2>4. ~OldDay(q).lifted
    <3>1. OldDay(q) # NoRestore /\ RightRestore(OldDay(q))
      BY <2>2, OldDayIs
    <3> QED BY <3>1, <2>1, <2>3 DEF RightRestore
  <2>5. ~AbsenceAgain(q)
    BY <2>4 DEF AbsenceAgain
  <2> QED BY <1>2, <2>1, <2>2, <2>3, <2>5 DEF RowAfter
<1>3. CASE /\ Away(O) /\ day = [O EXCEPT !.mark = "present", !.penalised = FALSE]
           /\ \E c \in Credits : /\ Remembering(credit) = {c}
                                 /\ ~credit[c].restore.created /\ credit[c].restore.id = O.id
                                 /\ credit[c].restore.mark = O.mark
                                 /\ credit[c].restore.penalised = O.penalised
           /\ A = IF O.penalised THEN "approved" ELSE penalty[Absence]
           /\ penalty[Absence] # "approved"
  <2>1. PICK c \in Credits : /\ Remembering(credit) = {c}
                             /\ ~credit[c].restore.created /\ credit[c].restore.id = O.id
                             /\ credit[c].restore.mark = O.mark
                             /\ credit[c].restore.penalised = O.penalised
    BY <1>3
  <2>2. O \in Row /\ ~O.timed
    BY <1>3 DEF Away
  <2>3. day \in Row /\ day # NoRow /\ day.mark = "present" /\ ~day.timed /\ day.id = O.id
    BY <2>2, <1>3, UndoableIs DEF Row, Marks
  <2>4. BringingBack(q) = {c}
    BY <1>1, <2>1, <2>3 DEF BringingBack, StillOurs
  <2>5. OldDay(q) = credit[c].restore
    <3>1. First({c}) = c
      BY FirstIs
    <3> QED BY <3>1, <2>4, <1>1 DEF OldDay
  <2>6. D2 = [day EXCEPT !.mark = O.mark, !.penalised = O.penalised]
    BY <2>1, <2>4, <2>5 DEF RowAfter
  <2>7. D2 = O
    BY <2>2, <2>6, <1>3 DEF Row
  <2>8. /\ OldDay(q) # NoRestore /\ RightRestore(OldDay(q))
        /\ OldDay(q).lifted => AbsenceAgain(q)
    BY <2>4, OldDayIs
  <2>9. AbsenceAgain(q) <=> O.penalised
    BY <2>1, <2>5, <2>8 DEF AbsenceAgain, RightRestore
  <2> QED BY <1>3, <2>7, <2>9
<1>4. CASE O # NoRow /\ ~Away(O) /\ day = O /\ penalty[Absence] = A /\ Remembering(credit) = {}
  <2>1. BringingBack(q) = {}
    BY <1>1, <1>4 DEF BringingBack
  <2> QED BY <1>4, <2>1 DEF AbsenceAgain, RowAfter
<1> QED BY <1>2, <1>3, <1>4 DEF Undoable

(* The memory is handed on until it is used.                               *)
LEMMA AloneRevoke ==
  ASSUME IInv, Remembered(ours, origin, day, penalty, credit), Lone(req, credit),
         NEW r \in Requests, Revoke(r)
  PROVE  Lone(req', credit') /\ Remembered(ours', origin', day', penalty', credit')
<1>1. PICK q \in Revoking : /\ q = req[r] /\ Knows(q, day, credit) /\ Current(q, credit)
                            /\ q.op = "revoke" /\ q.at = "commit" /\ q # Free
  <2>1. PICK q \in Revoking : q = req[r] /\ Knows(q, day, credit)
    BY RowsAre, Places DEF Revoke
  <2>2. q.op = "revoke" /\ q.at = "commit" /\ q # Free
    BY <2>1 DEF Revoking, Free
  <2> QED BY <2>1, <2>2 DEF Lone
<1>2. Lone(req', credit')
  <2>1. Done(r) \/ DoneAfterWrite(r)
    BY <1>1, RevokeIs
  <2> QED BY <2>1, <1>1, LoneEnd
<1>3. PICK C2, D2, P2 : C2 = credit' /\ D2 = day' /\ P2 = penalty'
  OBVIOUS
<1>4. /\ C2 = HandOver(ToRevoke(q), q, Rememberers(q))
      /\ D2 = RowAfter(q)
      /\ P2 = InForce(Again(q))
      /\ origin' = origin /\ ours' = ours /\ ToRevoke(q) # {}
  BY <1>1, <1>3, RevokeIs
<1>5. P2[Absence] = IF AbsenceAgain(q) THEN "approved" ELSE penalty[Absence]
  <2>1. PICK A : A = Again(q) /\ (Absence \in A <=> AbsenceAgain(q))
    BY <1>1, GivesAre
  <2>2. P2 = InForce(A)
    BY <2>1, <1>4
  <2> QED BY <2>1, <2>2, Sizes DEF InForce
<1>6. /\ ActiveIn(C2) = q.others
      /\ q.others # {} => MemoryMoves(credit, C2)
  BY <1>1, <1>4, MemoryHanded
<1>7. /\ ToRevoke(q) \subseteq ActiveIn(credit) /\ ActiveIn(credit) # {}
      /\ Rememberers(q) \subseteq Remembering(credit)
      /\ q.others \subseteq ActiveIn(credit)
  <2>1. /\ ToRevoke(q) = q.read /\ q.read \subseteq ActiveIn(credit)
        /\ q.others = ActiveIn(credit) \ q.read
        /\ Rememberers(q) = q.read \cap Remembering(credit)
    BY <1>1, AloneRevokes
  <2> QED BY <2>1, <1>4
<1>8. /\ penalty[Absence] = "approved" => Penalised(day)
      /\ Remembering(credit) # {} => ~Penalised(day)
      /\ origin \in [row : Row \cup {NoRow}, absence : {"none", "approved", "rejected"}]
  BY DEF Remembered
<1>9. BringingBack(q) \subseteq Rememberers(q) /\ (q.others # {} => BringingBack(q) = {})
  BY DEF BringingBack
<1>10. PICK O \in Row \cup {NoRow}, A \in {"none", "approved", "rejected"} :
         O = origin.row /\ A = origin.absence
  BY <1>8
<1>11. ours => Undoable(O, A, day, penalty, credit)
  BY <1>7, <1>10 DEF Remembered
<1>12. ASSUME P2[Absence] = "approved"
       PROVE  Penalised(D2)
  <2>1. CASE AbsenceAgain(q)
    <3>1. BringingBack(q) # {} /\ OldDay(q).lifted
      BY <2>1 DEF AbsenceAgain
    <3>2. /\ OldDay(q) \in Restore /\ OldDay(q) # NoRestore /\ RightRestore(OldDay(q))
          /\ day \in Row
      BY <3>1, <1>1, OldDayIs
    <3>3. OldDay(q).penalised /\ ~OldDay(q).created
      BY <3>1, <3>2 DEF RightRestore
    <3>4. D2 = [day EXCEPT !.mark = OldDay(q).mark, !.penalised = OldDay(q).penalised]
      BY <3>1, <3>3, <1>4 DEF RowAfter
    <3>5. D2 \in Row /\ D2.penalised
      BY <3>2, <3>3, <3>4 DEF Row, Restore
    <3>6. D2 # NoRow
      BY <3>5 DEF Row, NoRow
    <3> QED BY <3>5, <3>6 DEF Penalised
  <2>2. CASE ~AbsenceAgain(q)
    <3>1. Penalised(day)
      BY <2>2, <1>5, <1>8, <1>12
    <3>2. BringingBack(q) = {}
      BY <3>1, <1>7, <1>8, <1>9
    <3> QED BY <3>1, <3>2, <1>4 DEF RowAfter
  <2> QED BY <2>1, <2>2
<1>13. CASE q.others # {}
  <2>1. D2 = day /\ P2[Absence] = penalty[Absence] /\ MemoryMoves(credit, C2)
    BY <1>13, <1>4, <1>5, <1>6, <1>9 DEF AbsenceAgain, RowAfter
  <2>2. Remembering(C2) # {} => Remembering(credit) # {}
    BY <2>1 DEF MemoryMoves
  <2>3. ours => Undoable(O, A, D2, P2, C2)
    BY <2>1, <1>11, UndoableMoves
  <2> QED BY <1>2, <1>3, <1>4, <1>6, <1>8, <1>10, <1>12, <1>13, <2>1, <2>2, <2>3 DEF Remembered
<1>14. CASE q.others = {}
  <2>1. ActiveIn(C2) = {} /\ Remembering(C2) = {}
    BY <1>6, <1>14 DEF Remembering
  <2>2. ASSUME ours, O # NoRow => ~O.timed
        PROVE  D2 = O /\ P2[Absence] = A
    <3>1. Undoable(O, A, day, penalty, credit)
      BY <2>2, <1>11
    <3>2. O # NoRow => ~O.timed
      BY <2>2
    <3> QED BY <3>1, <3>2, <1>1, <1>4, <1>5, <1>14, AllRevoked
  <2> QED BY <1>2, <1>3, <1>4, <1>8, <1>10, <1>12, <2>1, <2>2 DEF Remembered
<1> QED BY <1>13, <1>14

-----------------------------------------------------------------------------
(* Before anybody has credited anything, the day is the one to bring back. *)
LEMMA AloneInit ==
  ASSUME Init
  PROVE  AloneInv
<1>1. IInv
  BY InitInv
<1>2. Lone(req, credit)
  BY NothingRelied DEF Init
<1>3. ActiveIn(credit) = {} /\ Remembering(credit) = {}
  BY DEF Init, ActiveIn, Remembering, NoCredit
<1>4. penalty[Absence] = "approved" => Penalised(day)
  BY Sizes DEF Init, Penalised
<1>5. day \in Row \cup {NoRow} /\ penalty[Absence] \in Statuses
  BY <1>1, RowsAre, Sizes
<1>6. origin = [row |-> day, absence |-> penalty[Absence]]
  BY DEF Init
<1>7. /\ origin.row = day /\ origin.absence = penalty[Absence]
      /\ origin \in [row : Row \cup {NoRow}, absence : {"none", "approved", "rejected"}]
  BY <1>5, <1>6 DEF Statuses
<1> QED BY <1>2, <1>3, <1>4, <1>7 DEF AloneInv, Remembered

(* Every step keeps what the credits remember.                             *)
LEMMA AloneStep ==
  ASSUME IInv, AloneInv, [Next]_vars
  PROVE  AloneInv'
<1>1. CASE UNCHANGED vars
  <2>1. UNCHANGED <<alone, day, penalty, credit, req, origin, ours>>
    BY <1>1 DEF vars
  <2> SUFFICES ASSUME alone
               PROVE  Lone(req', credit') /\ Remembered(ours', origin', day', penalty', credit')
    BY <2>1 DEF AloneInv
  <2>2. Lone(req, credit) /\ Remembered(ours, origin, day, penalty, credit)
    BY DEF AloneInv
  <2>3. Remembered(ours', origin', day', penalty', credit')
    BY <2>1, <2>2, AsideTurn
  <2> QED BY <2>1, <2>2, <2>3, Zenon
<1>2. CASE Next
  <2>1. alone' = alone
    BY <1>2 DEF Next, BeginCreate, Look, Create, BeginRevoke, LookAround, Revoke, BeginCancelDay,
       CancelDay, BeginRecheck, Recheck, Fail, MarkStaff, UpdateTimes, ApproveExcuse, Grade,
       ReducePenalty
  <2> SUFFICES ASSUME alone
               PROVE  Lone(req', credit') /\ Remembered(ours', origin', day', penalty', credit')
    BY <2>1 DEF AloneInv
  <2>2. Lone(req, credit) /\ Remembered(ours, origin, day, penalty, credit)
    BY DEF AloneInv
  <2>3. ASSUME NEW r \in Requests,
               \/ BeginCreate(r) \/ Look(r) \/ BeginRevoke(r) \/ LookAround(r)
               \/ BeginCancelDay(r) \/ BeginRecheck(r) \/ Fail(r)
        PROVE  Lone(req', credit') /\ Remembered(ours', origin', day', penalty', credit')
    <3>1. UNCHANGED <<day, penalty, credit, origin, ours>>
      BY <2>3 DEF BeginCreate, Look, BeginRevoke, LookAround, BeginCancelDay, BeginRecheck, Fail,
         facts, history
    <3>2. Lone(req', credit)
      BY <2>2, <2>3, AloneReads
    <3> QED BY <2>2, <3>1, <3>2, AsideTurn
  <2>4. ASSUME NEW r \in Requests, Create(r)
        PROVE  Lone(req', credit') /\ Remembered(ours', origin', day', penalty', credit')
    BY <2>2, <2>4, AloneCreate
  <2>5. ASSUME NEW r \in Requests, Revoke(r)
        PROVE  Lone(req', credit') /\ Remembered(ours', origin', day', penalty', credit')
    BY <2>2, <2>5, AloneRevoke
  <2>6. ASSUME NEW r \in Requests, CancelDay(r)
        PROVE  Lone(req', credit') /\ Remembered(ours', origin', day', penalty', credit')
    BY <2>2, <2>6, AloneCancelDay
  <2>7. ASSUME NEW r \in Requests, Recheck(r)
        PROVE  Lone(req', credit') /\ Remembered(ours', origin', day', penalty', credit')
    BY <2>2, <2>7, AloneRecheck
  <2>8. CASE (\E mark \in Marks : MarkStaff(mark)) \/ UpdateTimes \/ ApproveExcuse
    BY <2>2, <2>8, AloneEdits
  <2>9. CASE (\E l \in Lessons : Grade(l)) \/ (\E n \in 1..MaxEdits : ReducePenalty(n))
    <3>1. UNCHANGED <<day, penalty, credit, req, origin, ours>> /\ Idle
      BY <2>9 DEF Grade, ReducePenalty, Edit, history
    <3>2. Lone(req', credit')
      BY <3>1, LoneIdle
    <3> QED BY <2>2, <3>1, <3>2, AsideTurn
  <2> QED BY <1>2, <2>3, <2>4, <2>5, <2>6, <2>7, <2>8, <2>9 DEF Next
<1> QED BY <1>1, <1>2

(* Both invariants hold in every reachable state.                          *)
LEMMA AloneInduction == Spec => [](IInv /\ AloneInv)
<1>1. Init => IInv /\ AloneInv
  BY InitInv, AloneInit
<1>2. IInv /\ AloneInv /\ [Next]_vars => (IInv /\ AloneInv)'
  BY StepKeeps, AloneStep
<1> QED BY <1>1, <1>2, PTL DEF Spec

(* Where handlers run one after another and only credits have changed the  *)
(* day, revokeCredits brings back exactly the row and the penalty there    *)
(* were before the first credit, in whatever order and grouping the        *)
(* credits are revoked; while some stand, exactly one remembers the day if *)
(* they have changed it.  Rows that had times are left out: the code never *)
(* writes them back.                                                       *)
THEOREM CreditsAreUndone == Spec => []RestoredExactly
<1>1. IInv /\ AloneInv => RestoredExactly
  <2> SUFFICES ASSUME IInv, AloneInv, alone, ours, origin.row # NoRow => ~origin.row.timed
               PROVE  /\ Active = {} => day = origin.row /\ penalty[Absence] = origin.absence
                      /\ Cardinality({c \in Active : credit[c].restore # NoRestore})
                           = IF day = origin.row THEN 0 ELSE 1
    BY DEF RestoredExactly
  <2>1. Remembered(ours, origin, day, penalty, credit)
    BY DEF AloneInv
  <2>2. Active = ActiveIn(credit)
    BY TableIs DEF IInv
  <2>3. {c \in Active : credit[c].restore # NoRestore} = Remembering(credit)
    BY <2>2 DEF Remembering
  <2>4. Active = {} => day = origin.row /\ penalty[Absence] = origin.absence
    BY <2>1, <2>2 DEF Remembered
  <2>5. Cardinality(Remembering(credit)) = IF day = origin.row THEN 0 ELSE 1
    <3>1. CASE Active = {}
      <4>1. Remembering(credit) = {}
        BY <2>2, <3>1 DEF Remembering
      <4> QED BY <4>1, <2>4, <3>1, FS_EmptySet
    <3>2. CASE Active # {}
      <4>1. PICK O \in Row \cup {NoRow}, A \in {"none", "approved", "rejected"} :
         O = origin.row /\ A = origin.absence
        BY <2>1 DEF Remembered
      <4>2. Undoable(O, A, day, penalty, credit)
        BY <2>1, <2>2, <3>2, <4>1 DEF Remembered
      <4>3. day # NoRow /\ ~Away(day)
        BY <4>2, UndoableIs
      <4>4. \/ day # O /\ \E c \in Credits : Remembering(credit) = {c}
            \/ day = O /\ Remembering(credit) = {}
        BY <4>2, <4>3 DEF Undoable
      <4>5. \A c \in Credits : Cardinality({c}) = 1
        BY FS_Singleton
      <4> QED BY <4>1, <4>4, <4>5, FS_EmptySet
    <3> QED BY <3>1, <3>2
  <2> QED BY <2>3, <2>4, <2>5
<1> QED BY <1>1, AloneInduction, PTL

(* Under the same conditions the teacher of a credited lesson counts as    *)
(* present, and the penalty for the absence a credit has undone is not in  *)
(* force.                                                                  *)
THEOREM CreditsCount == Spec => []CreditedIsPresent
<1>1. IInv /\ AloneInv => CreditedIsPresent
  <2> SUFFICES ASSUME IInv, AloneInv, alone, ours, Active # {}
               PROVE  /\ day # NoRow /\ ~Away(day)
                      /\ Away(origin.row) => penalty[Absence] # "approved"
    BY DEF CreditedIsPresent
  <2>1. Remembered(ours, origin, day, penalty, credit) /\ Active = ActiveIn(credit)
    BY TableIs DEF AloneInv, IInv
  <2>2. PICK O \in Row \cup {NoRow}, A \in {"none", "approved", "rejected"} :
         O = origin.row /\ A = origin.absence
    BY <2>1 DEF Remembered
  <2>3. Undoable(O, A, day, penalty, credit)
    BY <2>1, <2>2 DEF Remembered
  <2>4. day # NoRow /\ ~Away(day)
    BY <2>3, UndoableIs
  <2>5. Away(O) => penalty[Absence] # "approved"
    BY <2>3 DEF Undoable, Away
  <2> QED BY <2>2, <2>4, <2>5
<1> QED BY <1>1, AloneInduction, PTL
=============================================================================
