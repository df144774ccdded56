---------------------------- MODULE DeliveryQueue ----------------------------
(***************************************************************************)
(* The two queues that hand texts to Telegram, for one branch: messages    *)
(* (messageQueue.service.js) and penalty notices                           *)
(* (penaltyNotificationQueue.service.js).  They run the same loop; they    *)
(* differ in that only messages can be recalled and keep a delivery row    *)
(* per recipient, and that only penalty notices left in "processing" by a  *)
(* dead process are taken up again when the server starts.  Each has rows, *)
(* a loop and a flag of its own, so `kind` says which of them a behaviour  *)
(* is about.                                                               *)
(*                                                                         *)
(* Rows live in the database and survive a crash.  The loop, its busy flag *)
(* and the calls of request handlers live in one Node process: a step is   *)
(* the code between two awaits, and any other handler may run in between.  *)
(***************************************************************************)
EXTENDS Integers, FiniteSets

CONSTANTS
    Kinds,        \* the queues looked at, among "message" and "penalty"
    NMessages,    \* texts that are ever queued
    Chats,        \* recipients of a text
    MaxAttempts,  \* column max_attempts
    NLoops,       \* runs of processQueue the process could hold at once
    MaxErrors,    \* bound on failing database calls
    MaxCrashes    \* bound on crashes of the process

ASSUME KindsAssumption == Kinds \subseteq {"message", "penalty"}
ASSUME QueueSizesAssumption ==
    /\ NMessages \in Nat /\ NLoops \in Nat /\ MaxAttempts \in Nat \ {0}
    /\ MaxErrors \in Nat /\ MaxCrashes \in Nat

Messages == 1..NMessages
Items    == Messages \X Chats
Text(i)  == i[1]
Loops    == 1..NLoops

VARIABLES
    kind,      \* the queue of this behaviour
    status,    \* item -> column status of its queue row, "none" before there is one
    attempts,  \* item -> column attempts
    delivery,  \* item -> status of its MessageDeliveryStatus row
    up,        \* the process runs
    busy,      \* processing.get(key)
    loop,      \* loop name -> where that run of processQueue is
    calls,     \* requests that wait for an answer of the database
    sends,     \* item -> copies that reached the recipient
    lost,      \* item -> copies that reached the recipient but whose answer did not return
    errors, crashes

Recallable == kind = "message"   \* there are delivery rows and cancelMessage
Recovers   == kind = "penalty"   \* recoverAll calls recoverStuckItems

rows == <<kind, status, attempts, delivery>>
reached == <<sends, lost>>
faults == <<errors, crashes>>
vars == <<kind, status, attempts, delivery, up, busy, loop, calls, sends, lost, errors, crashes>>

Idle == [at |-> "off"]

(* `attempts` is the copy of the column that findFirst returned; `next` is *)
(* what the loop will write to the row.                                    *)
LoopState ==
    [at : {"off", "find", "exit"}]
    \cup [at : {"claim", "send"}, item : Items, attempts : 0..MaxAttempts]
    \cup [at : {"report", "close", "abort"}, item : Items, attempts : 0..MaxAttempts,
          next : {"completed", "pending", "failed"}]

Call == {"enqueue", "wake", "recall"} \X Messages

Final == {"completed", "failed", "cancelled"}

-----------------------------------------------------------------------------
Init ==
    /\ kind \in Kinds
    /\ status = [i \in Items |-> "none"]
    /\ attempts = [i \in Items |-> 0]
    /\ delivery = [i \in Items |-> "none"]
    /\ up = TRUE /\ busy = FALSE
    /\ loop = [l \in Loops |-> Idle]
    /\ calls = {}
    /\ sends = [i \in Items |-> 0] /\ lost = [i \in Items |-> 0]
    /\ errors = 0 /\ crashes = 0

(* A bug: the filter on the old value is missing.                          *)
ChangeAny(col, m, from, to) == [i \in Items |-> IF Text(i) = m THEN to ELSE col[i]]

(* The rows of text m, where `col` is `from`, become `to`.                 *)
Change(col, m, from, to) ==
    [i \in Items |-> IF Text(i) = m /\ col[i] = from THEN to ELSE col[i]]

(* persistAndQueue creates the message with its delivery rows, uploads the *)
(* file and then queues the items in one transaction.                      *)
Compose(m) ==
    /\ up /\ Recallable
    /\ \A i \in Items : Text(i) = m => delivery[i] = "none"
    /\ delivery' = Change(delivery, m, "none", "pending")
    /\ calls' = calls \cup {<<"enqueue", m>>}
    /\ UNCHANGED <<kind, status, attempts, up, busy, loop, reached, faults>>

AddBulkToQueue(m) ==
    /\ up
    /\ IF Recallable THEN <<"enqueue", m>> \in calls
                     ELSE \A i \in Items : Text(i) = m => status[i] = "none"
    /\ status' = Change(status, m, "none", "pending")
    /\ calls' = (calls \ {<<"enqueue", m>>}) \cup {<<"wake", m>>}
    /\ UNCHANGED <<kind, attempts, delivery, up, busy, loop, reached, faults>>

(* A bug: the flag is not looked at.                                       *)
StartAlways ==
    /\ busy' = TRUE
    /\ \E l \in Loops : /\ \A k \in 1..l : loop[k].at = "off" <=> k = l
                        /\ loop' = [loop EXCEPT ![l] = [at |-> "find"]]

(* startProcessing: the check and the setting of the flag are one step.    *)
StartProcessing ==
    IF busy THEN UNCHANGED <<busy, loop>>
    ELSE /\ busy' = TRUE
         /\ \E l \in Loops : /\ \A k \in 1..l : loop[k].at = "off" <=> k = l
                             /\ loop' = [loop EXCEPT ![l] = [at |-> "find"]]

Wake(m) ==
    /\ <<"wake", m>> \in calls
    /\ calls' = calls \ {<<"wake", m>>}
    /\ StartProcessing
    /\ UNCHANGED <<rows, up, reached, faults>>

-----------------------------------------------------------------------------
(* processQueue.  findFirst takes the oldest pending row; priority is never *)
(* set, and rows of one text are created at one time.                      *)
Pending == {i \in Items : status[i] = "pending"}
Oldest  == {i \in Pending : \A k \in Pending : Text(i) <= Text(k)}

FindFirst(l) ==
    /\ loop[l].at = "find"
    /\ IF Pending = {}
       THEN loop' = [loop EXCEPT ![l] = [at |-> "exit"]]
       ELSE \E i \in Oldest :
              loop' = [loop EXCEPT ![l] =
                         [at |-> "claim", item |-> i, attempts |-> attempts[i]]]
    /\ UNCHANGED <<rows, up, busy, calls, reached, faults>>

(* findFirst has returned nothing: the flag is dropped.                    *)
Exit(l) ==
    /\ loop[l].at = "exit"
    /\ loop' = [loop EXCEPT ![l] = Idle]
    /\ busy' = FALSE
    /\ UNCHANGED <<rows, up, calls, reached, faults>>

(* The update to "processing" names the row by its id only.                *)
Claim(l) ==
    /\ loop[l].at = "claim"
    /\ status' = [status EXCEPT ![loop[l].item] = "processing"]
    /\ loop' = [loop EXCEPT ![l].at = "send"]
    /\ UNCHANGED <<kind, attempts, delivery, up, busy, calls, reached, faults>>

(* A bug: one attempt more than the column allows.                         *)
AfterSendOneMore(l, ok) ==
    LET n    == IF ok THEN loop[l].attempts ELSE loop[l].attempts + 1
        next == IF ok THEN "completed" ELSE IF n > MaxAttempts THEN "failed" ELSE "pending"
    IN  [at |-> IF Recallable /\ next # "pending" THEN "report" ELSE "close",
         item |-> loop[l].item, attempts |-> n, next |-> next]

(* processQueueItem: Telegram takes the text or refuses it, or it takes it *)
(* and its answer is lost, which the code cannot tell from a refusal.      *)
AfterSend(l, ok) ==
    LET i    == loop[l].item
        n    == IF ok THEN loop[l].attempts ELSE loop[l].attempts + 1
        next == IF ok THEN "completed" ELSE IF n >= MaxAttempts THEN "failed" ELSE "pending"
    IN  [at |-> IF Recallable /\ next # "pending" THEN "report" ELSE "close",
         item |-> i, attempts |-> n, next |-> next]

Send(l) ==
    /\ loop[l].at = "send"
    /\ LET i == loop[l].item IN
       \E answer \in {"ok", "refused", "lost"} :
         /\ sends' = [sends EXCEPT ![i] = IF answer = "refused" THEN @ ELSE @ + 1]
         /\ lost' = [lost EXCEPT ![i] = IF answer = "lost" THEN @ + 1 ELSE @]
         /\ loop' = [loop EXCEPT ![l] = AfterSend(l, answer = "ok")]
    /\ UNCHANGED <<rows, up, busy, calls, faults>>

(* A bug: the delivery row always says "sent".                             *)
ReportSent(l) ==
    /\ loop[l].at = "report"
    /\ delivery' = [delivery EXCEPT ![loop[l].item] = "sent"]
    /\ loop' = [loop EXCEPT ![l].at = "close"]
    /\ UNCHANGED <<kind, status, attempts, up, busy, calls, reached, faults>>

Report(l) ==
    /\ loop[l].at = "report"
    /\ delivery' = [delivery EXCEPT ![loop[l].item] =
                      IF loop[l].next = "completed" THEN "sent" ELSE "failed"]
    /\ loop' = [loop EXCEPT ![l].at = "close"]
    /\ UNCHANGED <<kind, status, attempts, up, busy, calls, reached, faults>>

Close(l) ==
    /\ loop[l].at = "close"
    /\ status' = [status EXCEPT ![loop[l].item] = loop[l].next]
    /\ attempts' = [attempts EXCEPT ![loop[l].item] = loop[l].attempts]
    /\ loop' = [loop EXCEPT ![l] = [at |-> "find"]]
    /\ UNCHANGED <<kind, delivery, up, busy, calls, reached, faults>>

(* A bug: the catch block puts the row back into the queue.                *)
AbortRequeues(l) ==
    /\ loop[l].at = "abort"
    /\ status' = [status EXCEPT ![loop[l].item] = "pending"]
    /\ loop' = [loop EXCEPT ![l] = [at |-> "find"]]
    /\ UNCHANGED <<kind, attempts, delivery, up, busy, calls, reached, faults>>

(* The catch block of processQueueItem.                                    *)
Abort(l) ==
    /\ loop[l].at = "abort"
    /\ status' = [status EXCEPT ![loop[l].item] = "failed"]
    /\ loop' = [loop EXCEPT ![l] = [at |-> "find"]]
    /\ UNCHANGED <<kind, attempts, delivery, up, busy, calls, reached, faults>>

(* A database call of the loop fails: in processQueueItem the item is      *)
(* given up, in processQueue or in that catch block the loop ends.         *)
DatabaseError(l) ==
    /\ errors < MaxErrors
    /\ errors' = errors + 1
    /\ \/ /\ loop[l].at \in {"report", "close"}
          /\ loop' = [loop EXCEPT ![l].at = "abort"]
          /\ UNCHANGED busy
       \/ /\ loop[l].at \in {"find", "claim", "abort"}
          /\ loop' = [loop EXCEPT ![l] = Idle]
          /\ busy' = FALSE
    /\ UNCHANGED <<rows, up, calls, reached, crashes>>

-----------------------------------------------------------------------------
(* cancelMessage: the queue rows first, the delivery rows in a second call. *)
CancelMessage(m) ==
    /\ up /\ Recallable
    /\ \E i \in Items : Text(i) = m /\ delivery[i] # "none"
    /\ <<"recall", m>> \notin calls
    /\ status' = Change(status, m, "pending", "cancelled")
    /\ calls' = calls \cup {<<"recall", m>>}
    /\ UNCHANGED <<kind, attempts, delivery, up, busy, loop, reached, faults>>

CancelDeliveries(m) ==
    /\ <<"recall", m>> \in calls
    /\ delivery' = Change(delivery, m, "pending", "cancelled")
    /\ calls' = calls \ {<<"recall", m>>}
    /\ UNCHANGED <<kind, status, attempts, up, busy, loop, reached, faults>>

(* The process dies with everything it had in memory.                      *)
Crash ==
    /\ up /\ crashes < MaxCrashes
    /\ up' = FALSE /\ busy' = FALSE
    /\ loop' = [l \in Loops |-> Idle]
    /\ calls' = {}
    /\ crashes' = crashes + 1
    /\ UNCHANGED <<rows, reached, errors>>

(* Bugs of the recovery: it resets rows and wakes nothing, it wakes the    *)
(* loop and resets nothing.                                                *)
RecoverAsleep ==
    /\ ~up
    /\ up' = TRUE
    /\ status' = [i \in Items |-> IF Recovers /\ status[i] = "processing"
                                  THEN "pending" ELSE status[i]]
    /\ UNCHANGED <<kind, attempts, delivery, busy, loop, calls, reached, faults>>

RecoverPendingOnly ==
    /\ ~up
    /\ up' = TRUE
    /\ StartProcessing
    /\ UNCHANGED <<rows, calls, reached, faults>>

(* recoverAll, before the server listens.                                  *)
RecoverAll ==
    /\ ~up
    /\ up' = TRUE
    /\ status' = [i \in Items |-> IF Recovers /\ status[i] = "processing"
                                  THEN "pending" ELSE status[i]]
    /\ StartProcessing
    /\ UNCHANGED <<kind, attempts, delivery, calls, reached, faults>>

LoopStep(l) ==
    FindFirst(l) \/ Exit(l) \/ Claim(l) \/ Send(l) \/ Report(l) \/ Close(l) \/ Abort(l)

Next ==
    \/ \E m \in Messages : \/ Compose(m) \/ AddBulkToQueue(m) \/ Wake(m)
                           \/ CancelMessage(m) \/ CancelDeliveries(m)
    \/ \E l \in Loops : LoopStep(l) \/ DatabaseError(l)
    \/ Crash
    \/ RecoverAll

Spec == Init /\ [][Next]_vars

(* The event loop runs every continuation whose await is answered, and the *)
(* process manager starts the server again.                                *)
Fairness ==
    /\ \A l \in Loops : WF_vars(LoopStep(l))
    /\ \A m \in Messages : WF_vars(Wake(m)) /\ WF_vars(CancelDeliveries(m))
    /\ WF_vars(RecoverAll)
FairSpec == Spec /\ Fairness

-----------------------------------------------------------------------------
(* Rows, loops and pending calls keep their shape.                         *)
TypeOK ==
    /\ kind \in Kinds
    /\ status \in [Items -> {"none", "pending", "processing"} \cup Final]
    /\ attempts \in [Items -> 0..MaxAttempts]
    /\ delivery \in [Items -> {"none", "pending", "sent", "failed", "cancelled"}]
    /\ up \in BOOLEAN /\ busy \in BOOLEAN
    /\ loop \in [Loops -> LoopState]
    /\ calls \subseteq Call
    /\ sends \in [Items -> Nat] /\ lost \in [Items -> Nat]
    /\ errors \in 0..MaxErrors /\ crashes \in 0..MaxCrashes

Running == {l \in Loops : loop[l].at # "off"}

(* The busy flag admits one run of processQueue, whatever wakes it and     *)
(* however it ends; a dead process leaves none behind.                     *)
OneLoop == Cardinality(Running) = IF busy THEN 1 ELSE 0

(* A recipient gets a second copy only when the answer to an earlier one   *)
(* was lost, or, in the queue that takes up "processing" rows again, when  *)
(* the process died: no interleaving of adds, recalls and errors repeats.  *)
RepeatsAreExplained ==
    \A i \in Items : sends[i] <= 1 + lost[i] + (IF Recovers THEN crashes ELSE 0)

(* What the rows tell is true: a completed item, or one whose delivery is  *)
(* "sent", reached its recipient, and a completed item's delivery says so, *)
(* also when a recall races with the loop; a delivery has only failed      *)
(* when the attempts are used up.                                          *)
RowsTellTheTruth ==
    \A i \in Items :
        /\ status[i] = "completed" \/ delivery[i] = "sent" => sends[i] > 0
        /\ status[i] = "completed" /\ Recallable => delivery[i] = "sent"
        /\ delivery[i] = "failed" => attempts[i] >= MaxAttempts - 1
        /\ status[i] = "pending" => attempts[i] < MaxAttempts

(* A row that was completed or failed never changes again: no loop works   *)
(* on it, no recall reaches it, no restart revives it.                     *)
FinishedStays ==
    [][ \A i \in Items : status[i] \in {"completed", "failed"} => status'[i] = status[i] ]_vars

(* From here on no fault occurs.                                           *)
Quiet == errors = MaxErrors /\ crashes = MaxCrashes

(* What was pending when the server starts is finished without waiting for *)
(* a new message to wake the queue.                                        *)
PendingAtBootFinishes ==
    \A i \in Items : ~up /\ Quiet /\ status[i] = "pending" ~> status[i] \in Final

(* A penalty notice that the dead process had in hand is sent or given up  *)
(* after the start: recoverStuckItems makes it pending before the loop is  *)
(* woken.  The message queue promises no such thing.                       *)
StuckIsRecovered ==
    \A i \in Items :
        ~up /\ Quiet /\ Recovers /\ status[i] = "processing" ~> status[i] \in Final
=============================================================================
