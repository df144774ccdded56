---------------------------- MODULE StudentWallet ----------------------------
(***************************************************************************)
(* What the finance module promises about the money of a student.  It is   *)
(* free (the deposit) or placed (on months), neither part ever negative,   *)
(* and together they are worth the cash taken and not returned plus the    *)
(* corrections.  Cash comes with a cheque and goes with a refund of free   *)
(* money or with a voided cheque; a correction touches the free part only; *)
(* every other operation only moves money between the two parts.           *)
(***************************************************************************)
EXTENDS Integers

CONSTANTS Students, Amounts, Adjustments

VARIABLES free, placed, cash, corrections

wallet == <<free, placed, cash, corrections>>

Init ==
    /\ free = [s \in Students |-> 0] /\ placed = [s \in Students |-> 0]
    /\ cash = [s \in Students |-> 0] /\ corrections = [s \in Students |-> 0]

(* The step books c of cash and k of corrections for s, and its wallet     *)
(* holds what the books say.                                               *)
Books(s, c, k) ==
    /\ cash'[s] = cash[s] + c /\ corrections'[s] = corrections[s] + k
    /\ free'[s] >= 0 /\ placed'[s] >= 0
    /\ free'[s] + placed'[s] = cash'[s] + corrections'[s]

(* Only the wallets of S change.                                           *)
Only(S) ==
    \A s \in Students \ S : /\ free'[s] = free[s] /\ placed'[s] = placed[s]
                            /\ cash'[s] = cash[s] /\ corrections'[s] = corrections[s]

Receive(s, a) == Books(s, a, 0) /\ placed'[s] >= placed[s] /\ Only({s})

GiveBack(s, a) == Books(s, 0 - a, 0) /\ Only({s})

(* One cheque becomes another one, of the same or of another student.      *)
Exchange(s, a, t, b) ==
    /\ IF s = t THEN Books(s, b - a, 0) ELSE Books(s, 0 - a, 0) /\ Books(t, b, 0)
    /\ Only({s, t})

Refund(s, a) == a <= free[s] /\ Books(s, 0 - a, 0) /\ placed'[s] = placed[s] /\ Only({s})

Correct(s, d) == Books(s, 0, d) /\ placed'[s] = placed[s] /\ Only({s})

Move(s) == Books(s, 0, 0) /\ Only({s})

Next ==
    \E s \in Students :
        \/ \E a \in Amounts : Receive(s, a) \/ GiveBack(s, a)
        \/ \E t \in Students, a, b \in Amounts : Exchange(s, a, t, b)
        \/ \E a \in 1..free[s] : Refund(s, a)
        \/ \E d \in Adjustments : Correct(s, d)
        \/ Move(s)

Spec == Init /\ [][Next]_wallet
=============================================================================
