------------------------- MODULE DeliveryQueueProofs -------------------------
(***************************************************************************)
(* One run of processQueue at a time, no copy without a cause, rows that   *)
(* tell the truth and finished rows that stay, for any number of texts,    *)
(* recipients, attempts, faults and runs the process could hold.           *)
(***************************************************************************)
EXTENDS DeliveryQueue, FiniteSetTheorems, TLAPS

-----------------------------------------------------------------------------
(* The busy flag is up while a run of processQueue is under way, and there *)
(* is no second one; a dead process has no memory.                         *)
OneRuns ==
    /\ \A k, l \in Loops : loop[k].at # "off" /\ loop[l].at # "off" => k = l
    /\ \A l \in Loops : loop[l].at # "off" => busy
    /\ busy => \E l \in Loops : loop[l].at # "off"
    /\ ~up => ~busy /\ calls = {}

(* The copies of item i beyond the first that need no excuse.              *)
Excused(i) == lost[i] + (IF Recovers THEN crashes ELSE 0)

(* What a run of processQueue knows of the item in its hand.  Between      *)
(* findFirst and the update to "processing" the row may be recalled, from  *)
(* then on it is the run's alone; the copy of `attempts` stays good.       *)
HandHolds(l) ==
    LET i == loop[l].item IN
    /\ loop[l].at = "claim" => status[i] \in {"pending", "cancelled"}
    /\ loop[l].at \in {"send", "report", "close", "abort"} => status[i] = "processing"
    /\ loop[l].at \in {"claim", "send"} =>
           loop[l].attempts = attempts[i] /\ attempts[i] < MaxAttempts
    /\ loop[l].at = "send" => sends[i] <= Excused(i)
    /\ loop[l].at \in {"report", "close"} =>
           /\ loop[l].next = "completed" => loop[l].attempts = attempts[i] /\ sends[i] > 0
           /\ loop[l].next # "completed" =>
                  loop[l].attempts = attempts[i] + 1 /\ sends[i] <= Excused(i)
           /\ loop[l].next = "pending" => loop[l].attempts < MaxAttempts
           /\ loop[l].next = "failed" => loop[l].attempts >= MaxAttempts
    /\ loop[l].at = "report" => loop[l].next # "pending"
    /\ loop[l].at = "close" /\ loop[l].next = "completed" /\ Recallable => delivery[i] = "sent"

(* A row that may still be sent has attempts left and nothing to excuse;   *)
(* what the dead process may have sent is excused by its death where the   *)
(* start of the next one takes it up again.                                *)
RowHolds(i) ==
    /\ status[i] = "none" => attempts[i] = 0
    /\ status[i] \in {"pending", "processing"} => attempts[i] < MaxAttempts
    /\ status[i] \in {"none", "pending", "cancelled"} \/ (~up /\ Recovers) =>
           sends[i] <= Excused(i)

IInv ==
    /\ TypeOK /\ OneRuns /\ RepeatsAreExplained /\ RowsTellTheTruth
    /\ \A l \in Loops : HandHolds(l)
    /\ \A i \in Items : RowHolds(i)

-----------------------------------------------------------------------------
(* What the type of a run says of its fields.                              *)
LEMMA HandFields ==
  ASSUME TypeOK, NEW l \in Loops
  PROVE  /\ loop[l].at \in {"off", "find", "exit", "claim", "send", "report", "close", "abort"}
         /\ loop[l].at \in {"claim", "send", "report", "close", "abort"} =>
                loop[l].item \in Items /\ loop[l].attempts \in 0..MaxAttempts
         /\ loop[l].at \in {"report", "close", "abort"} =>
                loop[l].next \in {"completed", "pending", "failed"}
         /\ loop[l].at \in {"claim", "send"} =>
                loop[l] = [at |-> loop[l].at, item |-> loop[l].item,
                           attempts |-> loop[l].attempts]
         /\ loop[l].at \in {"report", "close", "abort"} =>
                loop[l] = [at |-> loop[l].at, item |-> loop[l].item,
                           attempts |-> loop[l].attempts, next |-> loop[l].next]
<1>1. loop[l] \in LoopState
  BY DEF TypeOK
<1>2. QED
  BY <1>1 DEF LoopState

(* The initial state satisfies the invariant.                              *)
LEMMA InitHolds == Init => IInv
<1> SUFFICES ASSUME Init PROVE IInv
  OBVIOUS
<1> USE DEF Init, Idle
<1>1. loop \in [Loops -> LoopState]
  BY DEF LoopState
<1>2. TypeOK
  <2>1. kind \in Kinds /\ up \in BOOLEAN /\ busy \in BOOLEAN /\ calls \subseteq Call
    OBVIOUS
  <2>2. /\ status \in [Items -> {"none", "pending", "processing"} \cup Final]
        /\ delivery \in [Items -> {"none", "pending", "sent", "failed", "cancelled"}]
    OBVIOUS
  <2>3. /\ attempts \in [Items -> 0..MaxAttempts]
        /\ sends \in [Items -> Nat] /\ lost \in [Items -> Nat]
        /\ errors \in 0..MaxErrors /\ crashes \in 0..MaxCrashes
    BY QueueSizesAssumption
  <2>4. QED
    BY <1>1, <2>1, <2>2, <2>3 DEF TypeOK
<1>3. QED
  BY <1>2, QueueSizesAssumption DEF IInv, OneRuns, RepeatsAreExplained, RowsTellTheTruth,
     HandHolds, RowHolds, Excused

-----------------------------------------------------------------------------
(* Request handlers touch rows in no run's hand, but for the recall.       *)
LEMMA RequestKeeps ==
  ASSUME IInv, NEW m \in Messages,
         Compose(m) \/ AddBulkToQueue(m) \/ CancelMessage(m) \/ CancelDeliveries(m)
  PROVE  IInv'
<1> USE DEF rows, reached, faults, Recallable, Recovers, Change
<1>1. UNCHANGED <<kind, attempts, busy, loop, sends, lost, errors, crashes, up>>
  BY DEF Compose, AddBulkToQueue, CancelMessage, CancelDeliveries
<1>2. /\ status \in [Items -> {"none", "pending", "processing"} \cup Final]
      /\ delivery \in [Items -> {"none", "pending", "sent", "failed", "cancelled"}]
      /\ calls \subseteq Call
  BY DEF IInv, TypeOK
<1>3. \A i \in Items :
        /\ status'[i] = status[i] \/ (status[i] = "none" /\ status'[i] = "pending")
             \/ (status[i] = "pending" /\ status'[i] = "cancelled")
        /\ delivery'[i] = delivery[i] \/ (delivery[i] = "none" /\ delivery'[i] = "pending")
             \/ (delivery[i] = "pending" /\ delivery'[i] = "cancelled")
  BY <1>2 DEF Compose, AddBulkToQueue, CancelMessage, CancelDeliveries
<1>4. /\ status' \in [Items -> {"none", "pending", "processing"} \cup Final]
      /\ delivery' \in [Items -> {"none", "pending", "sent", "failed", "cancelled"}]
  BY <1>2 DEF Compose, AddBulkToQueue, CancelMessage, CancelDeliveries, Final
<1>5. calls' \subseteq Call
  BY <1>2 DEF Compose, AddBulkToQueue, CancelMessage, CancelDeliveries, Call
<1>6. ~up => calls' = {}
  BY DEF IInv, OneRuns, Compose, AddBulkToQueue, CancelMessage, CancelDeliveries
<1>7. TypeOK'
  BY <1>1, <1>4, <1>5 DEF IInv, TypeOK
<1>8. OneRuns'
  BY <1>1, <1>6 DEF IInv, OneRuns
<1>9. RepeatsAreExplained' /\ RowsTellTheTruth'
  BY <1>1, <1>3, QueueSizesAssumption DEF IInv, TypeOK, RepeatsAreExplained, RowsTellTheTruth, RowHolds
<1>10. ASSUME NEW l \in Loops PROVE HandHolds(l)'
  <2>1. HandHolds(l) /\ loop'[l] = loop[l]
    BY <1>1 DEF IInv
  <2>2. loop[l].at \in {"claim", "send", "report", "close", "abort"} => loop[l].item \in Items
    BY HandFields DEF IInv
  <2>3. CASE loop[l].at \in {"claim", "send", "report", "close", "abort"}
    BY <1>1, <1>3, <2>1, <2>2, <2>3 DEF HandHolds, Excused
  <2>4. CASE loop[l].at \notin {"claim", "send", "report", "close", "abort"}
    BY <2>1, <2>4 DEF HandHolds
  <2>5. QED
    BY <2>3, <2>4
<1>11. ASSUME NEW i \in Items PROVE RowHolds(i)'
  BY <1>1, <1>3, QueueSizesAssumption DEF IInv, TypeOK, RowHolds, Excused
<1>12. QED
  BY <1>7, <1>8, <1>9, <1>10, <1>11 DEF IInv


-----------------------------------------------------------------------------
(* startProcessing starts a run only where none is under way, and puts one *)
(* before its first findFirst.                                             *)
LEMMA StartKeeps ==
  ASSUME TypeOK, OneRuns, \A l \in Loops : HandHolds(l), StartProcessing,
         status' = status \/ (~up), calls' \subseteq calls, up',
         UNCHANGED <<kind, attempts, delivery, sends, lost, errors, crashes>>
  PROVE  /\ loop' \in [Loops -> LoopState] /\ busy' \in BOOLEAN
         /\ OneRuns'
         /\ \A l \in Loops : HandHolds(l)'
<1>1. CASE busy
  <2>1. UNCHANGED <<busy, loop>> /\ up
    BY <1>1 DEF StartProcessing, OneRuns
  <2>2. loop' \in [Loops -> LoopState] /\ busy' \in BOOLEAN
    BY <2>1 DEF TypeOK
  <2>3. OneRuns'
    BY <2>1 DEF OneRuns
  <2>4. ASSUME NEW l \in Loops PROVE HandHolds(l)'
    BY <2>1 DEF HandHolds, Excused, Recovers, Recallable
  <2>5. QED
    BY <2>2, <2>3, <2>4
<1>2. CASE ~busy
  <2>1. \A l \in Loops : loop[l].at = "off"
    BY <1>2 DEF OneRuns
  <2>2. PICK l \in Loops : loop' = [loop EXCEPT ![l] = [at |-> "find"]]
    BY <1>2 DEF StartProcessing
  <2>3. busy' = TRUE
    BY <1>2 DEF StartProcessing
  <2>4. [at |-> "find"] \in LoopState /\ loop \in [Loops -> LoopState]
    BY DEF LoopState, TypeOK
  <2>5. /\ loop' \in [Loops -> LoopState]
        /\ loop'[l].at = "find"
        /\ \A k \in Loops : k # l => loop'[k].at = "off"
    BY <2>1, <2>2, <2>4
  <2>6. OneRuns'
    BY <2>3, <2>5 DEF OneRuns
  <2>7. ASSUME NEW k \in Loops PROVE HandHolds(k)'
    <3>1. loop'[k].at \in {"off", "find"}
      BY <2>5
    <3>2. QED
      BY <3>1 DEF HandHolds
  <2>8. QED
    BY <2>3, <2>5, <2>6, <2>7
<1>3. QED
  BY <1>1, <1>2

(* A call that finds the busy flag down takes it and starts a run.         *)
LEMMA WakeKeeps ==
  ASSUME IInv, NEW m \in Messages, Wake(m)
  PROVE  IInv'
<1> USE DEF Wake, rows, reached, faults
<1>1. TypeOK /\ OneRuns /\ \A l \in Loops : HandHolds(l)
  BY DEF IInv
<1>2. up
  BY <1>1 DEF OneRuns
<1>3. /\ loop' \in [Loops -> LoopState] /\ busy' \in BOOLEAN
      /\ OneRuns'
      /\ \A l \in Loops : HandHolds(l)'
  BY <1>1, <1>2, StartKeeps
<1>4. TypeOK'
  BY <1>1, <1>3 DEF TypeOK
<1>5. RepeatsAreExplained' /\ RowsTellTheTruth' /\ \A i \in Items : RowHolds(i)'
  BY DEF IInv, RepeatsAreExplained, RowsTellTheTruth, RowHolds, Excused, Recovers, Recallable
<1>6. QED
  BY <1>3, <1>4, <1>5 DEF IInv

(* The start: what a dead process had in hand is excused by its death.     *)
LEMMA RecoverAllKeeps ==
  ASSUME IInv, RecoverAll
  PROVE  IInv'
<1> USE DEF RecoverAll, rows, reached, faults
<1>1. TypeOK /\ OneRuns /\ \A l \in Loops : HandHolds(l)
  BY DEF IInv
<1>2. /\ loop' \in [Loops -> LoopState] /\ busy' \in BOOLEAN
      /\ OneRuns'
      /\ \A l \in Loops : HandHolds(l)'
  BY <1>1, StartKeeps
<1>3. /\ status' \in [Items -> {"none", "pending", "processing"} \cup Final]
      /\ \A i \in Items : \/ status'[i] = status[i]
                          \/ status[i] = "processing" /\ status'[i] = "pending" /\ Recovers
  BY <1>1 DEF TypeOK
<1>4. TypeOK'
  BY <1>1, <1>2, <1>3 DEF TypeOK
<1>5. RepeatsAreExplained' /\ RowsTellTheTruth'
  BY <1>3 DEF IInv, RepeatsAreExplained, RowsTellTheTruth, RowHolds, Recovers, Recallable
<1>6. ASSUME NEW i \in Items PROVE RowHolds(i)'
  BY <1>3 DEF IInv, RowHolds, Excused, Recovers
<1>7. QED
  BY <1>2, <1>4, <1>5, <1>6 DEF IInv

(* The process dies, and each copy it may have sent is excused once more.  *)
LEMMA CrashKeeps ==
  ASSUME IInv, Crash
  PROVE  IInv'
<1> USE DEF Crash, rows, reached, Idle
<1>1. TypeOK
  BY DEF IInv
<1>2. loop' \in [Loops -> LoopState] /\ \A l \in Loops : loop'[l].at = "off"
  BY DEF LoopState
<1>3. crashes' = crashes + 1 /\ crashes \in Nat /\ crashes' \in 0..MaxCrashes
  BY <1>1, QueueSizesAssumption DEF TypeOK
<1>4. up' \in BOOLEAN /\ busy' \in BOOLEAN /\ calls' \subseteq Call
  OBVIOUS
<1>5. TypeOK'
  BY <1>1, <1>2, <1>3, <1>4 DEF TypeOK
<1>6. OneRuns'
  BY <1>2 DEF OneRuns
<1>7. RowsTellTheTruth'
  BY DEF IInv, RowsTellTheTruth, Recallable
<1>8. ASSUME NEW i \in Items
      PROVE  /\ RowHolds(i)'
             /\ sends'[i] <= 1 + lost'[i] + (IF Recovers THEN crashes ELSE 0)'
  <2>1. sends[i] \in Nat /\ lost[i] \in Nat
    BY <1>1 DEF TypeOK
  <2>2. sends[i] <= 1 + lost[i] + (IF Recovers THEN crashes ELSE 0) /\ RowHolds(i)
    BY DEF IInv, RepeatsAreExplained
  <2>3. QED
    BY <1>3, <2>1, <2>2 DEF RowHolds, Excused, Recovers
<1>9. RepeatsAreExplained'
  BY <1>8 DEF RepeatsAreExplained
<1>10. ASSUME NEW l \in Loops PROVE HandHolds(l)'
  BY <1>2 DEF HandHolds
<1>11. QED
  BY <1>5, <1>6, <1>7, <1>8, <1>9, <1>10 DEF IInv


-----------------------------------------------------------------------------
(* A step of the one run that is under way: the others have no hand, and   *)
(* the flag goes down with the run.                                        *)
LEMMA StepOfOne ==
  ASSUME IInv, NEW l \in Loops, loop[l].at # "off",
         NEW after \in LoopState, loop' = [loop EXCEPT ![l] = after],
         UNCHANGED <<up, calls>>,
         IF after.at = "off" THEN busy' = FALSE ELSE busy' = busy
  PROVE  /\ loop' \in [Loops -> LoopState] /\ busy' \in BOOLEAN
         /\ loop'[l] = after
         /\ \A k \in Loops : k # l => HandHolds(k)'
         /\ OneRuns'
<1>1. loop \in [Loops -> LoopState] /\ OneRuns /\ busy \in BOOLEAN
  BY DEF IInv, TypeOK
<1>2. /\ loop' \in [Loops -> LoopState]
      /\ loop'[l] = after
      /\ \A k \in Loops : k # l => loop'[k] = loop[k]
  BY <1>1
<1>3. \A k \in Loops : k # l => loop'[k].at = "off"
  BY <1>1, <1>2 DEF OneRuns
<1>4. \A k \in Loops : k # l => HandHolds(k)'
  BY <1>3 DEF HandHolds
<1>5. busy /\ up
  BY <1>1 DEF OneRuns
<1>6. OneRuns'
  BY <1>2, <1>3, <1>5 DEF OneRuns
<1>7. QED
  BY <1>1, <1>2, <1>4, <1>6

(* findFirst picks a pending row or finds none.                            *)
LEMMA FindFirstKeeps ==
  ASSUME IInv, NEW l \in Loops, FindFirst(l)
  PROVE  IInv'
<1> USE DEF FindFirst, rows, reached, faults
<1>1. TypeOK /\ HandHolds(l)
  BY DEF IInv
<1>2. PICK after \in LoopState :
        /\ loop' = [loop EXCEPT ![l] = after]
        /\ after.at \in {"exit", "claim"}
        /\ after.at = "claim" => /\ after.item \in Items
                                 /\ status[after.item] = "pending"
                                 /\ after.attempts = attempts[after.item]
  <2>1. CASE Pending = {}
    <3>1. [at |-> "exit"] \in LoopState
      BY DEF LoopState
    <3>2. QED
      BY <2>1, <3>1
  <2>2. CASE Pending # {}
    <3>1. PICK i \in Oldest : loop' = [loop EXCEPT ![l] =
                                 [at |-> "claim", item |-> i, attempts |-> attempts[i]]]
      BY <2>2
    <3>2. i \in Items /\ status[i] = "pending" /\ attempts[i] \in 0..MaxAttempts
      BY <1>1 DEF Oldest, Pending, TypeOK
    <3>3. [at |-> "claim", item |-> i, attempts |-> attempts[i]] \in LoopState
      BY <3>2 DEF LoopState
    <3>4. QED
      BY <3>1, <3>2, <3>3
  <2>3. QED
    BY <2>1, <2>2
<1>3. /\ loop' \in [Loops -> LoopState] /\ busy' \in BOOLEAN
      /\ loop'[l] = after
      /\ \A k \in Loops : k # l => HandHolds(k)'
      /\ OneRuns'
  BY <1>2, StepOfOne
<1>4. TypeOK'
  BY <1>1, <1>3 DEF TypeOK
<1>5. HandHolds(l)'
  BY <1>2, <1>3 DEF HandHolds, IInv, RowHolds
<1>6. RepeatsAreExplained' /\ RowsTellTheTruth' /\ \A i \in Items : RowHolds(i)'
  BY DEF IInv, RepeatsAreExplained, RowsTellTheTruth, RowHolds, Excused, Recovers, Recallable
<1>7. QED
  BY <1>3, <1>4, <1>5, <1>6 DEF IInv

(* A run that found nothing drops the busy flag.                           *)
LEMMA ExitKeeps ==
  ASSUME IInv, NEW l \in Loops, Exit(l)
  PROVE  IInv'
<1> USE DEF Exit, rows, reached, faults, Idle
<1>1. [at |-> "off"] \in LoopState
  BY DEF LoopState
<1>2. /\ loop' \in [Loops -> LoopState] /\ busy' \in BOOLEAN
      /\ loop'[l] = [at |-> "off"]
      /\ \A k \in Loops : k # l => HandHolds(k)'
      /\ OneRuns'
  BY <1>1, StepOfOne
<1>3. TypeOK'
  BY <1>2 DEF IInv, TypeOK
<1>4. HandHolds(l)'
  BY <1>2 DEF HandHolds
<1>5. RepeatsAreExplained' /\ RowsTellTheTruth' /\ \A i \in Items : RowHolds(i)'
  BY DEF IInv, RepeatsAreExplained, RowsTellTheTruth, RowHolds, Excused, Recovers, Recallable
<1>6. QED
  BY <1>2, <1>3, <1>4, <1>5 DEF IInv

(* The claim: processing, or another search when the row was recalled.     *)
LEMMA ClaimKeeps ==
  ASSUME IInv, NEW l \in Loops, Claim(l)
  PROVE  IInv'
<1> USE DEF Claim, reached, faults
<1> DEFINE i == loop[l].item
           after == [at |-> "send", item |-> i, attempts |-> loop[l].attempts]
<1>1. TypeOK /\ HandHolds(l)
  BY DEF IInv
<1>2. /\ i \in Items /\ loop[l].attempts \in 0..MaxAttempts
      /\ loop[l] = [at |-> "claim", item |-> i, attempts |-> loop[l].attempts]
  BY <1>1, HandFields
<1>3. after \in LoopState /\ after.at = "send" /\ after.item = i /\ after.attempts = loop[l].attempts
  BY <1>2 DEF LoopState
<1>4. loop' = [loop EXCEPT ![l] = after]
  <2>1. loop' = [loop EXCEPT ![l] = [loop[l] EXCEPT !.at = "send"]]
    OBVIOUS
  <2>2. [loop[l] EXCEPT !.at = "send"] = after
    BY <1>2
  <2>3. QED
    BY <2>1, <2>2
<1> HIDE DEF after
<1>5. /\ loop' \in [Loops -> LoopState] /\ busy' \in BOOLEAN
      /\ loop'[l] = after
      /\ \A k \in Loops : k # l => HandHolds(k)'
      /\ OneRuns'
  BY <1>3, <1>4, StepOfOne
<1>6. /\ status' \in [Items -> {"none", "pending", "processing"} \cup Final]
      /\ status[i] \in {"pending", "cancelled"} /\ status'[i] = "processing"
      /\ \A j \in Items : j # i => status'[j] = status[j]
  BY <1>1, <1>2 DEF TypeOK, HandHolds
<1>7. TypeOK'
  BY <1>1, <1>5, <1>6 DEF TypeOK
<1>8. HandHolds(l)'
  BY <1>1, <1>2, <1>3, <1>5, <1>6 DEF HandHolds, IInv, RowHolds, Excused, Recovers
<1>9. RepeatsAreExplained' /\ RowsTellTheTruth'
  BY <1>6 DEF IInv, RepeatsAreExplained, RowsTellTheTruth, Recovers, Recallable
<1>10. ASSUME NEW j \in Items PROVE RowHolds(j)'
  BY <1>1, <1>6 DEF IInv, RowHolds, HandHolds, Excused, Recovers
<1>11. QED
  BY <1>5, <1>7, <1>8, <1>9, <1>10 DEF IInv

(* A text is taken, refused, or taken without an answer.                   *)
LEMMA SendKeeps ==
  ASSUME IInv, NEW l \in Loops, Send(l)
  PROVE  IInv'
<1> USE DEF Send, rows, faults
<1> DEFINE i == loop[l].item
<1>1. TypeOK /\ HandHolds(l) /\ RowHolds(i)
  BY HandFields DEF IInv
<1>2. /\ i \in Items /\ loop[l].attempts = attempts[i] /\ attempts[i] < MaxAttempts
      /\ attempts[i] \in 0..MaxAttempts /\ sends[i] <= Excused(i) /\ status[i] = "processing"
  BY <1>1, HandFields DEF HandHolds, TypeOK
<1>3. PICK answer \in {"ok", "refused", "lost"} :
        /\ sends' = [sends EXCEPT ![i] = IF answer = "refused" THEN @ ELSE @ + 1]
        /\ lost' = [lost EXCEPT ![i] = IF answer = "lost" THEN @ + 1 ELSE @]
        /\ loop' = [loop EXCEPT ![l] = AfterSend(l, answer = "ok")]
  OBVIOUS
<1> DEFINE after == AfterSend(l, answer = "ok")
<1>4. /\ after.at \in {"report", "close"} /\ after.item = i
      /\ after.at = "report" => after.next # "pending"
      /\ after.at = "close" /\ after.next = "completed" => ~Recallable
      /\ answer = "ok" => after.next = "completed" /\ after.attempts = attempts[i]
      /\ answer # "ok" => /\ after.next \in {"pending", "failed"}
                          /\ after.attempts = attempts[i] + 1
                          /\ after.next = "pending" => after.attempts < MaxAttempts
                          /\ after.next = "failed" => after.attempts >= MaxAttempts
  BY <1>2, QueueSizesAssumption DEF AfterSend
<1>5. after \in LoopState
  <2>1. after.attempts \in 0..MaxAttempts /\ after.next \in {"completed", "pending", "failed"}
    BY <1>2, <1>4, QueueSizesAssumption
  <2>2. after = [at |-> after.at, item |-> i, attempts |-> after.attempts, next |-> after.next]
    BY <1>4 DEF AfterSend
  <2> HIDE DEF after
  <2>3. QED
    BY <1>2, <1>4, <2>1, <2>2 DEF LoopState
<1> HIDE DEF after
<1>6. /\ loop' \in [Loops -> LoopState] /\ busy' \in BOOLEAN
      /\ loop'[l] = after
      /\ \A k \in Loops : k # l => HandHolds(k)'
      /\ OneRuns'
  BY <1>3, <1>4, <1>5, StepOfOne DEF after
<1>7. /\ sends' \in [Items -> Nat] /\ lost' \in [Items -> Nat]
      /\ \A j \in Items : j # i => sends'[j] = sends[j] /\ lost'[j] = lost[j]
      /\ sends[i] \in Nat /\ lost[i] \in Nat
      /\ sends'[i] = IF answer = "refused" THEN sends[i] ELSE sends[i] + 1
      /\ lost'[i] = IF answer = "lost" THEN lost[i] + 1 ELSE lost[i]
  BY <1>1, <1>2, <1>3 DEF TypeOK
<1>8. TypeOK'
  BY <1>1, <1>6, <1>7 DEF TypeOK
<1>9. HandHolds(l)'
  <2>1. /\ status'[i] = "processing" /\ attempts'[i] = attempts[i]
        /\ answer = "ok" => sends'[i] > 0
        /\ answer # "ok" => sends'[i] <= lost'[i] + (IF Recovers THEN crashes ELSE 0)
    <3>1. crashes \in Nat /\ UNCHANGED <<kind, crashes, status, attempts>>
      BY <1>1, QueueSizesAssumption DEF TypeOK
    <3>2. answer = "ok" => sends'[i] > 0
      BY <1>7
    <3>3. ASSUME answer # "ok"
          PROVE  sends'[i] <= lost'[i] + (IF Recovers THEN crashes ELSE 0)
      <4>1. sends'[i] - lost'[i] <= sends[i] - lost[i]
        BY <1>3, <1>7, <3>3
      <4>2. sends[i] <= lost[i] + (IF Recovers THEN crashes ELSE 0)
        BY <1>2 DEF Excused
      <4>3. QED
        BY <1>7, <3>1, <4>1, <4>2
    <3>4. QED
      BY <1>2, <3>1, <3>2, <3>3
  <2>2. QED
    BY <1>3, <1>4, <1>6, <2>1 DEF HandHolds, Recallable, Recovers, Excused
<1>10. ASSUME NEW j \in Items
       PROVE  /\ sends'[j] <= 1 + lost'[j] + (IF Recovers THEN crashes ELSE 0)'
              /\ RowHolds(j)'
              /\ sends[j] > 0 => sends'[j] > 0
  <2>1. CASE j = i
    <3>1. up
      BY DEF IInv, OneRuns
    <3>2. QED
      BY <1>1, <1>2, <1>3, <1>7, <2>1, <3>1 DEF RowHolds, Excused, Recovers, TypeOK
  <2>2. CASE j # i
    BY <1>7, <2>2 DEF IInv, RepeatsAreExplained, RowHolds, Excused, Recovers
  <2>3. QED
    BY <2>1, <2>2
<1>11. RepeatsAreExplained' /\ RowsTellTheTruth'
  BY <1>10 DEF IInv, RepeatsAreExplained, RowsTellTheTruth, Recallable
<1>12. QED
  BY <1>6, <1>8, <1>9, <1>10, <1>11 DEF IInv


(* The delivery row is written before the queue row is closed.             *)
LEMMA ReportKeeps ==
  ASSUME IInv, NEW l \in Loops, Report(l)
  PROVE  IInv'
<1> USE DEF Report, reached, faults
<1> DEFINE i == loop[l].item
           after == [at |-> "close", item |-> i, attempts |-> loop[l].attempts, next |-> loop[l].next]
<1>1. TypeOK /\ HandHolds(l)
  BY DEF IInv
<1>2. /\ i \in Items /\ loop[l].attempts \in 0..MaxAttempts
      /\ loop[l].next \in {"completed", "pending", "failed"}
      /\ loop[l] = [at |-> "report", item |-> i, attempts |-> loop[l].attempts,
                    next |-> loop[l].next]
  BY <1>1, HandFields
<1>3. /\ after \in LoopState
      /\ after.at = "close" /\ after.item = i
      /\ after.attempts = loop[l].attempts /\ after.next = loop[l].next
  BY <1>2 DEF LoopState
<1>4. loop' = [loop EXCEPT ![l] = after]
  <2>1. loop' = [loop EXCEPT ![l] = [loop[l] EXCEPT !.at = "close"]]
    OBVIOUS
  <2>2. [loop[l] EXCEPT !.at = "close"] = after
    BY <1>2
  <2>3. QED
    BY <2>1, <2>2
<1> HIDE DEF after
<1>5. /\ loop' \in [Loops -> LoopState] /\ busy' \in BOOLEAN
      /\ loop'[l] = after
      /\ \A k \in Loops : k # l => HandHolds(k)'
      /\ OneRuns'
  BY <1>3, <1>4, StepOfOne
<1>6. /\ delivery' \in [Items -> {"none", "pending", "sent", "failed", "cancelled"}]
      /\ delivery'[i] = IF loop[l].next = "completed" THEN "sent" ELSE "failed"
      /\ \A j \in Items : j # i => delivery'[j] = delivery[j]
  BY <1>1, <1>2 DEF TypeOK
<1>7. TypeOK'
  BY <1>1, <1>5, <1>6 DEF TypeOK
<1>8. HandHolds(l)'
  BY <1>1, <1>2, <1>3, <1>5, <1>6 DEF HandHolds, Excused, Recovers
<1>9. RepeatsAreExplained' /\ \A j \in Items : RowHolds(j)'
  BY DEF IInv, RepeatsAreExplained, RowHolds, Excused, Recovers
<1>10. ASSUME NEW j \in Items
       PROVE  /\ status[j] = "completed" \/ delivery'[j] = "sent" => sends[j] > 0
              /\ status[j] = "completed" /\ Recallable => delivery'[j] = "sent"
              /\ delivery'[j] = "failed" => attempts[j] >= MaxAttempts - 1
  <2>1. CASE j = i
    <3>1. status[i] = "processing" /\ attempts[i] \in Nat
      BY <1>1, <1>2 DEF HandHolds, TypeOK
    <3>2. loop[l].next = "completed" => sends[i] > 0
      BY <1>1, <1>2 DEF HandHolds
    <3>3. loop[l].next # "completed" => attempts[i] >= MaxAttempts - 1
      BY <1>1, <1>2, <3>1, QueueSizesAssumption DEF HandHolds
    <3>4. QED
      BY <1>6, <2>1, <3>1, <3>2, <3>3
  <2>2. CASE j # i
    BY <1>6, <2>2 DEF IInv, RowsTellTheTruth
  <2>3. QED
    BY <2>1, <2>2
<1>11. RowsTellTheTruth'
  BY <1>10 DEF IInv, RowsTellTheTruth, Recallable
<1>12. QED
  BY <1>5, <1>7, <1>8, <1>9, <1>11 DEF IInv

(* The row is closed with what the sending came to.                        *)
LEMMA CloseKeeps ==
  ASSUME IInv, NEW l \in Loops, Close(l)
  PROVE  IInv'
<1> USE DEF Close, reached, faults
<1> DEFINE i == loop[l].item
<1>1. TypeOK /\ HandHolds(l)
  BY DEF IInv
<1>2. /\ i \in Items /\ loop[l].attempts \in 0..MaxAttempts
      /\ loop[l].next \in {"completed", "pending", "failed"}
  BY <1>1, HandFields
<1>3. [at |-> "find"] \in LoopState
  BY DEF LoopState
<1>4. /\ loop' \in [Loops -> LoopState] /\ busy' \in BOOLEAN
      /\ loop'[l] = [at |-> "find"]
      /\ \A k \in Loops : k # l => HandHolds(k)'
      /\ OneRuns'
  BY <1>3, StepOfOne
<1>5. /\ status' \in [Items -> {"none", "pending", "processing"} \cup Final]
      /\ attempts' \in [Items -> 0..MaxAttempts]
      /\ status'[i] = loop[l].next /\ attempts'[i] = loop[l].attempts
      /\ \A j \in Items : j # i => status'[j] = status[j] /\ attempts'[j] = attempts[j]
  BY <1>1, <1>2 DEF TypeOK, Final
<1>6. TypeOK'
  BY <1>1, <1>4, <1>5 DEF TypeOK
<1>7. HandHolds(l)'
  BY <1>4 DEF HandHolds
<1>8. RepeatsAreExplained'
  BY DEF IInv, RepeatsAreExplained, Recovers
<1>9. /\ status[i] = "processing" /\ attempts[i] \in Nat /\ attempts'[i] >= attempts[i]
      /\ loop[l].next = "completed" => sends[i] > 0 /\ (Recallable => delivery[i] = "sent")
      /\ loop[l].next = "pending" => attempts'[i] < MaxAttempts /\ sends[i] <= Excused(i)
  BY <1>1, <1>2, <1>5 DEF HandHolds, TypeOK
<1>10. ASSUME NEW j \in Items
       PROVE  /\ RowHolds(j)'
              /\ status'[j] = "completed" \/ delivery[j] = "sent" => sends[j] > 0
              /\ status'[j] = "completed" /\ Recallable => delivery[j] = "sent"
              /\ delivery[j] = "failed" => attempts'[j] >= MaxAttempts - 1
              /\ status'[j] = "pending" => attempts'[j] < MaxAttempts
  <2>1. CASE j = i
    <3>1. up
      BY DEF IInv, OneRuns
    <3>2. RowHolds(j)'
      BY <1>2, <1>5, <1>9, <2>1, <3>1 DEF RowHolds, Excused, Recovers
    <3>3. delivery[j] = "failed" => attempts'[j] >= MaxAttempts - 1
      BY <1>2, <1>5, <1>9, <2>1, QueueSizesAssumption DEF IInv, RowsTellTheTruth
    <3>4. QED
      BY <1>2, <1>5, <1>9, <2>1, <3>2, <3>3 DEF IInv, RowsTellTheTruth
  <2>2. CASE j # i
    BY <1>5, <2>2 DEF IInv, RowsTellTheTruth, RowHolds, Excused, Recovers
  <2>3. QED
    BY <2>1, <2>2
<1>11. RowsTellTheTruth'
  BY <1>10 DEF RowsTellTheTruth, Recallable
<1>12. QED
  BY <1>4, <1>6, <1>7, <1>8, <1>10, <1>11 DEF IInv

(* A run that an error ends.                                               *)
LEMMA AbortKeeps ==
  ASSUME IInv, NEW l \in Loops, Abort(l)
  PROVE  IInv'
<1> USE DEF Abort, reached, faults
<1> DEFINE i == loop[l].item
<1>1. TypeOK /\ HandHolds(l)
  BY DEF IInv
<1>2. i \in Items /\ status[i] = "processing"
  BY <1>1, HandFields DEF HandHolds
<1>3. [at |-> "find"] \in LoopState
  BY DEF LoopState
<1>4. /\ loop' \in [Loops -> LoopState] /\ busy' \in BOOLEAN
      /\ loop'[l] = [at |-> "find"]
      /\ \A k \in Loops : k # l => HandHolds(k)'
      /\ OneRuns'
  BY <1>3, StepOfOne
<1>5. /\ status' \in [Items -> {"none", "pending", "processing"} \cup Final]
      /\ status'[i] = "failed"
      /\ \A j \in Items : j # i => status'[j] = status[j]
  BY <1>1, <1>2 DEF TypeOK, Final
<1>6. TypeOK'
  BY <1>1, <1>4, <1>5 DEF TypeOK
<1>7. HandHolds(l)'
  BY <1>4 DEF HandHolds
<1>8. RepeatsAreExplained' /\ RowsTellTheTruth'
  BY <1>5 DEF IInv, RepeatsAreExplained, RowsTellTheTruth, Recovers, Recallable
<1>9. up
  BY DEF IInv, OneRuns
<1>10. ASSUME NEW j \in Items PROVE RowHolds(j)'
  BY <1>5, <1>9 DEF IInv, RowHolds, Excused, Recovers
<1>11. QED
  BY <1>4, <1>6, <1>7, <1>8, <1>10 DEF IInv

(* A database call that fails in the hands of a run.                       *)
LEMMA DatabaseErrorKeeps ==
  ASSUME IInv, NEW l \in Loops, DatabaseError(l)
  PROVE  IInv'
<1> USE DEF DatabaseError, rows, reached
<1>1. TypeOK /\ HandHolds(l)
  BY DEF IInv
<1>2. errors' \in 0..MaxErrors
  BY <1>1, QueueSizesAssumption DEF TypeOK
<1>3. PICK after \in LoopState :
        /\ loop' = [loop EXCEPT ![l] = after]
        /\ IF after.at = "off" THEN busy' = FALSE ELSE busy' = busy
        /\ \/ after.at = "off"
           \/ after.at = "abort" /\ after.item = loop[l].item
        /\ after.at = "abort" => loop[l].at \in {"report", "close"}
  <2>1. CASE loop[l].at \in {"report", "close"}
    <3> DEFINE after == [at |-> "abort", item |-> loop[l].item, attempts |-> loop[l].attempts,
                         next |-> loop[l].next]
    <3>1. loop' = [loop EXCEPT ![l] = [loop[l] EXCEPT !.at = "abort"]] /\ busy' = busy
      BY <2>1
    <3>2. [loop[l] EXCEPT !.at = "abort"] = after
      <4>1. PICK at \in {"report", "close"} :
              loop[l] = [at |-> at, item |-> loop[l].item, attempts |-> loop[l].attempts,
                         next |-> loop[l].next]
        BY <1>1, <2>1, HandFields
      <4>2. QED
        BY <4>1
    <3>3. after \in LoopState /\ after.at = "abort" /\ after.item = loop[l].item
      BY <1>1, <2>1, HandFields DEF LoopState
    <3> HIDE DEF after
    <3>4. QED
      BY <2>1, <3>1, <3>2, <3>3
  <2>2. CASE loop[l].at \in {"find", "claim", "abort"}
    <3>1. Idle \in LoopState /\ Idle.at = "off"
      BY DEF Idle, LoopState
    <3>2. loop' = [loop EXCEPT ![l] = Idle] /\ busy' = FALSE
      BY <2>2
    <3>3. QED
      BY <3>1, <3>2
  <2>3. QED
    BY <2>1, <2>2
<1>4. loop[l].at # "off"
  OBVIOUS
<1>5. /\ loop' \in [Loops -> LoopState] /\ busy' \in BOOLEAN
      /\ loop'[l] = after
      /\ \A k \in Loops : k # l => HandHolds(k)'
      /\ OneRuns'
  BY <1>3, <1>4, StepOfOne
<1>6. TypeOK'
  BY <1>1, <1>2, <1>5 DEF TypeOK
<1>7. HandHolds(l)'
  BY <1>1, <1>3, <1>5 DEF HandHolds
<1>8. RepeatsAreExplained' /\ RowsTellTheTruth' /\ \A i \in Items : RowHolds(i)'
  BY DEF IInv, RepeatsAreExplained, RowsTellTheTruth, RowHolds, Excused, Recovers, Recallable
<1>9. QED
  BY <1>5, <1>6, <1>7, <1>8 DEF IInv

(* Every step keeps the invariant.                                         *)
LEMMA StepHolds == IInv /\ [Next]_vars => IInv'
<1> SUFFICES ASSUME IInv, [Next]_vars PROVE IInv'
  OBVIOUS
<1>1. CASE UNCHANGED vars
  BY <1>1 DEF vars, IInv, TypeOK, OneRuns, RepeatsAreExplained, RowsTellTheTruth, HandHolds,
     RowHolds, Excused, Recovers, Recallable
<1>2. ASSUME NEW m \in Messages,
             Compose(m) \/ AddBulkToQueue(m) \/ CancelMessage(m) \/ CancelDeliveries(m)
      PROVE  IInv'
  BY <1>2, RequestKeeps
<1>3. ASSUME NEW m \in Messages, Wake(m) PROVE IInv'
  BY <1>3, WakeKeeps
<1>4. ASSUME NEW l \in Loops, LoopStep(l) PROVE IInv'
  BY <1>4, FindFirstKeeps, ExitKeeps, ClaimKeeps, SendKeeps, ReportKeeps, CloseKeeps, AbortKeeps
     DEF LoopStep
<1>5. ASSUME NEW l \in Loops, DatabaseError(l) PROVE IInv'
  BY <1>5, DatabaseErrorKeeps
<1>6. CASE Crash
  BY <1>6, CrashKeeps
<1>7. CASE RecoverAll
  BY <1>7, RecoverAllKeeps
<1>8. QED
  BY <1>1, <1>2, <1>3, <1>4, <1>5, <1>6, <1>7 DEF Next

-----------------------------------------------------------------------------
(* What a run knows of its item, and a row of its copies, holds always.    *)
THEOREM Inductive == Spec => []IInv
<1>1. QED
  BY InitHolds, StepHolds, PTL DEF Spec

(* Rows, runs and pending calls always have their shape.                   *)
THEOREM QueuesAreTyped == Spec => []TypeOK
<1>1. IInv => TypeOK
  BY DEF IInv
<1>2. QED
  BY Inductive, <1>1, PTL

(* However requests, errors, crashes and starts interleave, the busy flag  *)
(* admits exactly one run of processQueue while it is up.                  *)
THEOREM OneRunAtATime == Spec => []OneLoop
<1>1. ASSUME IInv PROVE OneLoop
  <2>1. OneRuns
    BY <1>1 DEF IInv
  <2>2. CASE busy
    <3>1. PICK l \in Loops : loop[l].at # "off"
      BY <2>1, <2>2 DEF OneRuns
    <3>2. Running = {l}
      BY <2>1, <3>1 DEF Running, OneRuns
    <3>3. QED
      BY <2>2, <3>2, FS_Singleton DEF OneLoop
  <2>3. CASE ~busy
    <3>1. Running = {}
      BY <2>1, <2>3 DEF Running, OneRuns
    <3>2. QED
      BY <2>3, <3>1, FS_EmptySet DEF OneLoop
  <2>4. QED
    BY <2>2, <2>3
<1>2. QED
  BY Inductive, <1>1, PTL

(* No recipient gets a second copy of a text unless an answer was lost or, *)
(* for penalty notices, the process died.                                  *)
THEOREM NoCopyWithoutCause == Spec => []RepeatsAreExplained
<1>1. IInv => RepeatsAreExplained
  BY DEF IInv
<1>2. QED
  BY Inductive, <1>1, PTL

(* What queue rows and delivery rows say of a text is true, also when a    *)
(* recall races with the run that sends it.                                *)
THEOREM RowsAreTruthful == Spec => []RowsTellTheTruth
<1>1. IInv => RowsTellTheTruth
  BY DEF IInv
<1>2. QED
  BY Inductive, <1>1, PTL

(* No step changes a row that was completed or failed.                     *)
THEOREM FinishedRowsStay == Spec => FinishedStays
<1> DEFINE Stays(i) == status[i] \in {"completed", "failed"} => status'[i] = status[i]
<1>1. ASSUME IInv, [Next]_vars, NEW i \in Items PROVE Stays(i)
  <2>1. /\ TypeOK
        /\ \A l \in Loops : HandHolds(l)
        /\ \A l \in Loops : loop[l].at \in {"claim", "close", "abort"} => loop[l].item \in Items
    BY <1>1, HandFields DEF IInv
  <2>2. CASE UNCHANGED vars
    BY <2>2 DEF vars
  <2>3. ASSUME NEW m \in Messages, Compose(m) \/ AddBulkToQueue(m) \/ Wake(m)
                                   \/ CancelMessage(m) \/ CancelDeliveries(m)
        PROVE  Stays(i)
    BY <2>3 DEF Compose, AddBulkToQueue, Wake, CancelMessage, CancelDeliveries, Change, rows
  <2>4. ASSUME NEW l \in Loops, FindFirst(l) \/ Exit(l) \/ Send(l) \/ Report(l) \/ DatabaseError(l)
        PROVE  Stays(i)
    BY <2>4 DEF FindFirst, Exit, Send, Report, DatabaseError, rows
  <2>5. ASSUME NEW l \in Loops, Claim(l) \/ Close(l) \/ Abort(l) PROVE Stays(i)
    <3>1. status[loop[l].item] \in {"pending", "cancelled", "processing"}
      BY <2>1, <2>5 DEF HandHolds, Claim, Close, Abort
    <3>2. loop[l].item # i => status'[i] = status[i]
      BY <2>1, <2>5 DEF Claim, Close, Abort, TypeOK
    <3>3. QED
      BY <3>1, <3>2
  <2>6. CASE Crash \/ RecoverAll
    BY <2>6 DEF Crash, RecoverAll, rows
  <2>7. QED
    BY <1>1, <2>2, <2>3, <2>4, <2>5, <2>6 DEF Next, LoopStep
<1>2. IInv /\ [Next]_vars =>
        [\A i \in Items : status[i] \in {"completed", "failed"} => status'[i] = status[i]]_vars
  BY <1>1
<1>3. QED
  BY Inductive, <1>2, PTL DEF Spec, FinishedStays


=============================================================================
