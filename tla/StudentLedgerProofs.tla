------------------------- MODULE StudentLedgerProofs -------------------------
(***************************************************************************)
(* The ledgers of StudentLedger agree in every reachable state, for any    *)
(* number of students, cheques and months and any prices and amounts; what *)
(* settlement does with a deposit; that the ledgers implement one wallet   *)
(* per student; and, for BranchTransfer, that a pupil who moves keeps      *)
(* right books and his money.                                              *)
(*                                                                         *)
(* LedgerInv is preserved by every transaction body of the code; an action *)
(* composes bodies, so it preserves it too.                                *)
(***************************************************************************)
EXTENDS BranchTransfer, PrefixSumsProofs

-----------------------------------------------------------------------------
(* AllocateFifo gives no month more than it owes and, in all, the lesser   *)
(* of what is owed and the money.                                          *)
LEMMA FifoTake ==
  ASSUME NM \in Nat, NEW debt \in [Months -> Nat], NEW money \in Nat
  PROVE  /\ AllocateFifo(debt, money) \in [Months -> Nat]
         /\ \A m \in Months : AllocateFifo(debt, money)[m] <= debt[m]
         /\ Total(AllocateFifo(debt, money), NM) <= money
         /\ Total(AllocateFifo(debt, money), NM) = Least(Total(debt, NM), money)
         /\ Total(AllocateFifo(debt, money), NM) \in Nat
<1> USE DEF Months
<1> DEFINE owed == Cum(debt, NM)
           take == AllocateFifo(debt, money)
           g == [n \in 0..NM |-> Least(owed[n], money)]
<1>1. debt \in [1..NM -> Int]
  OBVIOUS
<1>2. \A n \in 0..NM : owed[n] \in Int /\ owed[n] >= 0
  BY <1>1, CumType, CumMonotone
<1>3. owed[0] = 0 /\ \A n \in 1..NM : owed[n] = owed[n - 1] + debt[n]
  BY CumDef
<1>4. take = [m \in Months |-> Overlap(owed[m - 1], owed[m], 0, money)]
  BY DEF AllocateFifo
<1> HIDE DEF owed, take
<1>5. g \in [0..NM -> Int]
  BY <1>2 DEF Least
<1>6. ASSUME NEW m \in 1..NM
      PROVE  /\ take[m] = g[m] - g[m - 1]
             /\ take[m] \in Nat
             /\ take[m] <= debt[m]
  <2>1. m \in 0..NM /\ m - 1 \in 0..NM /\ debt[m] \in Nat
    OBVIOUS
  <2>2. /\ owed[m] \in Int /\ owed[m - 1] \in Int /\ owed[m - 1] >= 0
        /\ owed[m] = owed[m - 1] + debt[m]
    BY <2>1, <1>2, <1>3
  <2>3. take[m] = Overlap(owed[m - 1], owed[m], 0, money)
    BY <1>4
  <2>4. g[m] = Least(owed[m], money) /\ g[m - 1] = Least(owed[m - 1], money)
    BY <2>1
  <2> HIDE DEF g
  <2> QED BY <2>1, <2>2, <2>3, <2>4, SMTT(30) DEF Overlap, Least, Most
<1>7. g[0] = 0 /\ g[NM] <= money /\ g[NM] \in Nat /\ g[NM] = Least(owed[NM], money)
  BY <1>2, <1>3 DEF Least
<1> HIDE DEF g
<1>8. Total(take, NM) = g[NM] - g[0] /\ Total(debt, NM) = owed[NM]
  BY <1>5, <1>6, CumTelescope DEF owed, Total
<1>9. take \in [Months -> Nat]
  BY <1>4, <1>6
<1> QED BY <1>6, <1>7, <1>8, <1>9 DEF take

(* A point pushed into an interval.                                        *)
LEMMA Clamp ==
  ASSUME NEW a \in Nat, NEW b \in Nat, NEW t \in Nat, a <= b
  PROVE  /\ Least(Most(0, a), b) = a
         /\ Least(Most(t, a), b) \in Nat
         /\ Least(Most(t, a), b) >= a /\ Least(Most(t, a), b) <= b
         /\ t >= b => Least(Most(t, a), b) = b
  BY DEF Least, Most

(* Draw splits the take over the cheques: each month gets exactly its take *)
(* and no cheque gives more than it holds.                                 *)
LEMMA DrawSums ==
  ASSUME NM \in Nat, NP \in Nat,
         NEW deposit \in [Pays -> Nat], NEW take \in [Months -> Nat],
         Total(take, NM) <= Total(deposit, NP)
  PROVE  /\ Draw(deposit, take) \in [Pays -> [Months -> Nat]]
         /\ \A m \in Months : Total([p \in Pays |-> Draw(deposit, take)[p][m]], NP) = take[m]
         /\ \A p \in Pays : /\ Total(Draw(deposit, take)[p], NM) \in Nat
                            /\ Total(Draw(deposit, take)[p], NM) <= deposit[p]
                            /\ Total(take, NM) = Total(deposit, NP) =>
                                   Total(Draw(deposit, take)[p], NM) = deposit[p]
<1> USE DEF Months, Pays
<1> DEFINE held == Cum(deposit, NP)
           taken == Cum(take, NM)
           drawn == Draw(deposit, take)
<1>1. deposit \in [1..NP -> Int] /\ take \in [1..NM -> Int]
  OBVIOUS
<1>2. /\ \A n \in 0..NP : held[n] \in Int /\ held[n] >= 0 /\ held[n] <= held[NP]
      /\ \A n \in 0..NM : taken[n] \in Int /\ taken[n] >= 0 /\ taken[n] <= taken[NM]
  BY <1>1, CumType, CumMonotone DEF Total
<1>3. /\ held[0] = 0 /\ \A n \in 1..NP : held[n] = held[n - 1] + deposit[n]
      /\ taken[0] = 0 /\ \A n \in 1..NM : taken[n] = taken[n - 1] + take[n]
  BY CumDef
<1>4. drawn = [p \in Pays |-> [m \in Months |->
                 Overlap(held[p - 1], held[p], taken[m - 1], taken[m])]]
  BY DEF Draw
<1>5. taken[NM] <= held[NP]
  BY DEF Total
<1> HIDE DEF held, taken, drawn
<1>6. ASSUME NEW p \in 1..NP, NEW m \in 1..NM
      PROVE  /\ held[p - 1] \in Nat /\ held[p] \in Nat /\ held[p - 1] <= held[p]
             /\ taken[m - 1] \in Nat /\ taken[m] \in Nat /\ taken[m - 1] <= taken[m]
             /\ drawn[p][m] = Overlap(held[p - 1], held[p], taken[m - 1], taken[m])
             /\ drawn[p][m] \in Nat
  <2>1. p \in 0..NP /\ p - 1 \in 0..NP /\ m \in 0..NM /\ m - 1 \in 0..NM
    OBVIOUS
  <2>2. deposit[p] \in Nat /\ take[m] \in Nat
    OBVIOUS
  <2>3. /\ held[p - 1] \in Nat /\ held[p] \in Nat /\ held[p] = held[p - 1] + deposit[p]
        /\ taken[m - 1] \in Nat /\ taken[m] \in Nat /\ taken[m] = taken[m - 1] + take[m]
    BY <2>1, <1>2, <1>3
  <2>4. drawn[p][m] = Overlap(held[p - 1], held[p], taken[m - 1], taken[m])
    BY <1>4
  <2>5. held[p - 1] <= held[p] /\ taken[m - 1] <= taken[m]
    BY <2>2, <2>3, SMTT(40)
  <2>6. Overlap(held[p - 1], held[p], taken[m - 1], taken[m]) \in Nat
    BY <2>3, OverlapType
  <2> QED BY <2>3, <2>4, <2>5, <2>6
<1>7. drawn \in [Pays -> [Months -> Nat]]
  <2>1. \A p \in Pays : drawn[p] = [m \in Months |->
                 Overlap(held[p - 1], held[p], taken[m - 1], taken[m])]
    BY <1>4
  <2>2. \A p \in Pays : drawn[p] \in [Months -> Nat]
    BY <2>1, <1>6
  <2> QED BY <1>4, <2>2
<1>8. ASSUME NEW m \in Months
      PROVE  Total([p \in Pays |-> drawn[p][m]], NP) = take[m]
  <2> DEFINE f == [p \in Pays |-> drawn[p][m]]
             g == [n \in 0..NP |-> Least(Most(held[n], taken[m - 1]), taken[m])]
  <2>1. m \in 0..NM /\ m - 1 \in 0..NM /\ take[m] \in Nat
    OBVIOUS
  <2>2. /\ taken[m - 1] \in Nat /\ taken[m] \in Nat /\ taken[m] = taken[m - 1] + take[m]
        /\ taken[m] <= taken[NM] /\ taken[NM] \in Int
    BY <2>1, <1>2, <1>3
  <2>3. g \in [0..NP -> Int]
    BY <1>2, <2>2 DEF Least, Most
  <2>4. ASSUME NEW p \in 1..NP PROVE f[p] = g[p] - g[p - 1]
    <3>1. p \in 0..NP /\ p - 1 \in 0..NP
      OBVIOUS
    <3>2. f[p] = Overlap(held[p - 1], held[p], taken[m - 1], taken[m])
      BY <1>6
    <3>3. /\ g[p] = Least(Most(held[p], taken[m - 1]), taken[m])
          /\ g[p - 1] = Least(Most(held[p - 1], taken[m - 1]), taken[m])
      BY <3>1
    <3>4. held[p - 1] \in Nat /\ held[p] \in Nat /\ held[p - 1] <= held[p]
      BY <1>6
    <3>5. taken[m - 1] \in Nat /\ taken[m] \in Nat /\ taken[m - 1] <= taken[m]
      BY <1>6
    <3>6. Overlap(held[p - 1], held[p], taken[m - 1], taken[m])
            = Least(Most(held[p], taken[m - 1]), taken[m])
              - Least(Most(held[p - 1], taken[m - 1]), taken[m])
      BY <3>4, <3>5, OverlapAlongFirst
    <3> HIDE DEF f, g
    <3> QED BY <3>2, <3>3, <3>6
  <2>5. g[0] = taken[m - 1] /\ g[NP] = taken[m]
    <3>1. held[NP] \in Int /\ held[0] = 0 /\ held[NP] >= taken[m]
      BY <1>2, <1>3, <1>5, <2>2
    <3>2. /\ g[0] = Least(Most(held[0], taken[m - 1]), taken[m])
          /\ g[NP] = Least(Most(held[NP], taken[m - 1]), taken[m])
      OBVIOUS
    <3> HIDE DEF g
    <3> QED BY <2>1, <2>2, <3>1, <3>2, SMTT(30) DEF Least, Most
  <2> HIDE DEF f, g
  <2>6. Total(f, NP) = g[NP] - g[0]
    BY <2>3, <2>4, CumTelescope
  <2> QED BY <2>1, <2>2, <2>5, <2>6 DEF f
<1>9. ASSUME NEW p \in Pays
      PROVE  /\ Total(drawn[p], NM) \in Nat /\ Total(drawn[p], NM) <= deposit[p]
             /\ Total(take, NM) = Total(deposit, NP) => Total(drawn[p], NM) = deposit[p]
  <2> DEFINE g == [n \in 0..NM |-> Least(Most(taken[n], held[p - 1]), held[p])]
  <2>1. p \in 0..NP /\ p - 1 \in 0..NP /\ deposit[p] \in Nat
    OBVIOUS
  <2>2. held[p - 1] \in Nat /\ held[p] \in Nat /\ held[p] = held[p - 1] + deposit[p]
    BY <2>1, <1>2, <1>3
  <2>3. g \in [0..NM -> Int]
    BY <1>2, <2>2 DEF Least, Most
  <2>4. ASSUME NEW m \in 1..NM PROVE drawn[p][m] = g[m] - g[m - 1]
    <3>1. m \in 0..NM /\ m - 1 \in 0..NM
      OBVIOUS
    <3>2. drawn[p][m] = Overlap(held[p - 1], held[p], taken[m - 1], taken[m])
      BY <1>6
    <3>3. /\ g[m] = Least(Most(taken[m], held[p - 1]), held[p])
          /\ g[m - 1] = Least(Most(taken[m - 1], held[p - 1]), held[p])
      BY <3>1
    <3>4. taken[m - 1] \in Nat /\ taken[m] \in Nat /\ taken[m - 1] <= taken[m]
      BY <1>6
    <3>5. held[p - 1] \in Nat /\ held[p] \in Nat /\ held[p - 1] <= held[p]
      BY <1>6
    <3>6. Overlap(held[p - 1], held[p], taken[m - 1], taken[m])
            = Least(Most(taken[m], held[p - 1]), held[p])
              - Least(Most(taken[m - 1], held[p - 1]), held[p])
      BY <3>4, <3>5, OverlapAlongSecond
    <3> HIDE DEF g
    <3> QED BY <3>2, <3>3, <3>6
  <2>5. PICK a \in Nat, b \in Nat, t \in Nat :
          /\ a = held[p - 1] /\ b = held[p] /\ t = taken[NM] /\ taken[0] = 0
          /\ b = a + deposit[p] /\ b <= held[NP]
    <3>1. held[p - 1] \in Nat /\ held[p] \in Nat /\ held[p] = held[p - 1] + deposit[p]
      BY <2>2
    <3>2. taken[NM] \in Nat /\ taken[0] = 0 /\ held[p] <= held[NP]
      BY <1>2, <1>3, <2>1
    <3> QED BY <3>1, <3>2
  <2>6. g[0] = Least(Most(0, a), b) /\ g[NM] = Least(Most(t, a), b)
    BY <2>5
  <2> HIDE DEF g
  <2>7. a <= b /\ deposit[p] = b - a
    BY <2>1, <2>5
  <2>8. /\ g[0] = a /\ g[NM] \in Nat /\ g[NM] >= a /\ g[NM] <= b
        /\ t >= b => g[NM] = b
    <3>1. /\ Least(Most(0, a), b) = a
          /\ Least(Most(t, a), b) \in Nat
          /\ Least(Most(t, a), b) >= a /\ Least(Most(t, a), b) <= b
          /\ t >= b => Least(Most(t, a), b) = b
      BY <2>7, Clamp, Zenon
    <3> QED BY <2>6, <3>1
  <2>9. Total(drawn[p], NM) = g[NM] - a
    BY <2>3, <2>4, <2>8, CumTelescope
  <2>10. Total(take, NM) = t /\ Total(deposit, NP) = held[NP]
    BY <2>5 DEF Total, taken, held
  <2>11. Total(drawn[p], NM) \in Nat /\ Total(drawn[p], NM) <= deposit[p]
    BY <2>1, <2>7, <2>8, <2>9
  <2>12. ASSUME Total(take, NM) = Total(deposit, NP) PROVE Total(drawn[p], NM) = deposit[p]
    <3>1. t >= b
      BY <2>5, <2>10, <2>12
    <3> QED BY <2>7, <2>8, <2>9, <3>1
  <2> QED BY <2>11, <2>12
<1> QED BY <1>7, <1>8, <1>9 DEF drawn

-----------------------------------------------------------------------------
(* What holds of a month, of a cheque and of the whole ledger.             *)
Column(L, m) == [p \in Pays |-> L.alloc[p][m]]

MonthOK(L, m) ==
    /\ L.paid[m] = Total(Column(L, m), NP)
    /\ L.paid[m] <= L.price[m]
    /\ L.status[m] \in {"none", "cancelled"} => L.paid[m] = 0
    /\ L.status[m] \notin {"none", "cancelled"} =>
          \/ L.status[m] = DeriveStatus(L.price[m], L.paid[m])
          \/ L.status[m] = "paid" /\ L.price[m] = 0

ChequeOK(L, p) ==
    /\ L.deposit[p] + Total(L.alloc[p], NM) <= L.amount[p]
    /\ L.voided[p] => L.amount[p] > 0 /\ L.deposit[p] = 0 /\ Total(L.alloc[p], NM) = 0

LedgerInv(L) ==
    /\ L \in Ledger
    /\ \A m \in Months : MonthOK(L, m)
    /\ \A p \in Pays : ChequeOK(L, p)
    /\ BalanceIsDerived(L)

(* The status of an invoice is one of three.                               *)
LEMMA DerivedStatus ==
  ASSUME NEW a \in Int, NEW b \in Int
  PROVE  DeriveStatus(a, b) \in {"unpaid", "partial", "paid"}
  BY DEF DeriveStatus

(* The sums of a ledger are natural numbers.                               *)
LEMMA LedgerSums ==
  ASSUME NM \in Nat, NP \in Nat, NEW L \in Ledger
  PROVE  /\ Total(L.paid, NM) \in Nat
         /\ Total(L.deposit, NP) \in Nat
         /\ \A p \in Pays : Total(L.alloc[p], NM) \in Nat
         /\ \A m \in Months : Total(Column(L, m), NP) \in Nat
<1>1. ASSUME NEW N \in Nat, NEW f \in [1..N -> Nat] PROVE Total(f, N) \in Nat
  <2>1. f \in [1..N -> Int] /\ N \in 0..N
    OBVIOUS
  <2> QED BY <2>1, CumType, CumMonotone DEF Total
<1>2. /\ L.paid \in [1..NM -> Nat] /\ L.deposit \in [1..NP -> Nat]
      /\ \A p \in Pays : L.alloc[p] \in [1..NM -> Nat]
      /\ \A m \in Months : Column(L, m) \in [1..NP -> Nat]
  BY DEF Ledger, Pays, Months, Column
<1> QED BY <1>1, <1>2

(* The fields of a ledger.                                                 *)
LEMMA LedgerFields ==
  ASSUME NEW L, LedgerInv(L)
  PROVE  /\ L \in Ledger
         /\ L.balance \in Int /\ L.balance >= 0 /\ L.adjusted \in Int /\ L.cash \in Int
         /\ L.amount \in [Pays -> Nat] /\ L.voided \in [Pays -> BOOLEAN]
         /\ L.deposit \in [Pays -> Nat] /\ L.alloc \in [Pays -> [Months -> Nat]]
         /\ L.price \in [Months -> Nat] /\ L.paid \in [Months -> Nat]
         /\ L.status \in [Months -> Status] /\ L.hold \in [Months -> BOOLEAN]
<1>1. L \in Ledger /\ L.balance >= 0
  BY DEF LedgerInv, BalanceIsDerived
<1> QED BY <1>1 DEF Ledger

(* Its rows and columns, as functions that can be summed.                  *)
LEMMA LedgerRows ==
  ASSUME NEW L \in Ledger
  PROVE  /\ L.paid \in [1..NM -> Int]
         /\ \A q \in Pays : L.alloc[q] \in [1..NM -> Int]
         /\ \A n \in Months : Column(L, n) \in [1..NP -> Int]
<1>1. L.paid \in [Months -> Nat] /\ L.alloc \in [Pays -> [Months -> Nat]]
  BY DEF Ledger
<1>2. ASSUME NEW q \in Pays PROVE L.alloc[q] \in [1..NM -> Int]
  <2>1. L.alloc[q] \in [Months -> Nat]
    BY <1>1
  <2> QED BY <2>1 DEF Months
<1>3. ASSUME NEW n \in Months PROVE Column(L, n) \in [1..NP -> Int]
  <2>1. \A q \in Pays : L.alloc[q][n] \in Nat
    BY <1>1
  <2> QED BY <2>1 DEF Column, Pays
<1>4. L.paid \in [1..NM -> Int]
  BY <1>1 DEF Months
<1> QED BY <1>2, <1>3, <1>4

(* When the row of cheque p and the paid amounts change by d, so do the    *)
(* sums over cheques and over months.                                      *)
LEMMA RowChange ==
  ASSUME NM \in Nat, NP \in Nat, NEW L \in Ledger, NEW L2, NEW p \in Pays,
         NEW d \in [Months -> Int],
         \A q \in Pays, m \in Months :
            L2.alloc[q][m] = IF q = p THEN L.alloc[q][m] + d[m] ELSE L.alloc[q][m],
         \A m \in Months : L2.paid[m] = L.paid[m] + d[m]
  PROVE  /\ \A m \in Months : Total(Column(L2, m), NP) = Total(Column(L, m), NP) + d[m]
         /\ Total(L2.alloc[p], NM) = Total(L.alloc[p], NM) + Total(d, NM)
         /\ \A q \in Pays \ {p} : Total(L2.alloc[q], NM) = Total(L.alloc[q], NM)
         /\ Total(L2.paid, NM) = Total(L.paid, NM) + Total(d, NM)
<1>1. /\ L.paid \in [1..NM -> Int] /\ d \in [1..NM -> Int]
      /\ \A q \in Pays : L.alloc[q] \in [1..NM -> Int]
      /\ \A m \in Months : Column(L, m) \in [1..NP -> Int]
  <2>1. d \in [1..NM -> Int]
    BY DEF Months
  <2> QED BY <2>1, LedgerRows
<1>2. ASSUME NEW m \in Months PROVE Total(Column(L2, m), NP) = Total(Column(L, m), NP) + d[m]
  <2>1. \A q \in 1..NP : Column(L2, m)[q] = IF q = p THEN Column(L, m)[q] + d[m] ELSE Column(L, m)[q]
    BY DEF Column, Pays
  <2>2. p \in 1..NP /\ d[m] \in Int
    BY DEF Pays
  <2> QED BY <1>1, <2>1, <2>2, TotalBump
<1>3. Total(L2.alloc[p], NM) = Total(L.alloc[p], NM) + Total(d, NM)
  <2>1. \A m \in 1..NM : L2.alloc[p][m] = L.alloc[p][m] + d[m]
    BY DEF Months
  <2> QED BY <1>1, <2>1, TotalPlus
<1>4. ASSUME NEW q \in Pays \ {p} PROVE Total(L2.alloc[q], NM) = Total(L.alloc[q], NM)
  <2>1. \A m \in 1..NM : L2.alloc[q][m] = L.alloc[q][m]
    BY DEF Months
  <2> QED BY <1>1, <2>1, TotalEqual
<1>5. Total(L2.paid, NM) = Total(L.paid, NM) + Total(d, NM)
  <2>1. \A m \in 1..NM : L2.paid[m] = L.paid[m] + d[m]
    BY DEF Months
  <2> QED BY <1>1, <2>1, TotalPlus
<1> QED BY <1>2, <1>3, <1>4, <1>5

(* When month m is emptied, every cheque's row falls by what it gave to m. *)
LEMMA ColumnCleared ==
  ASSUME NM \in Nat, NP \in Nat, NEW L \in Ledger, NEW L2, NEW m \in Months,
         \A q \in Pays, n \in Months :
            L2.alloc[q][n] = IF n = m THEN 0 ELSE L.alloc[q][n],
         \A n \in Months : L2.paid[n] = IF n = m THEN 0 ELSE L.paid[n]
  PROVE  /\ Total(Column(L2, m), NP) = 0
         /\ \A n \in Months \ {m} : Total(Column(L2, n), NP) = Total(Column(L, n), NP)
         /\ \A q \in Pays : Total(L2.alloc[q], NM) = Total(L.alloc[q], NM) - L.alloc[q][m]
         /\ Total(L2.paid, NM) = Total(L.paid, NM) - L.paid[m]
<1>1. /\ L.paid \in [1..NM -> Int]
      /\ \A q \in Pays : L.alloc[q] \in [1..NM -> Int]
      /\ \A n \in Months : Column(L, n) \in [1..NP -> Int]
      /\ m \in 1..NM
  BY LedgerRows DEF Months
<1>2. Total(Column(L2, m), NP) = 0
  <2>1. \A q \in 1..NP : Column(L2, m)[q] = 0
    BY DEF Column, Pays
  <2> QED BY <2>1, TotalZero
<1>3. ASSUME NEW n \in Months \ {m} PROVE Total(Column(L2, n), NP) = Total(Column(L, n), NP)
  <2>1. \A q \in 1..NP : Column(L2, n)[q] = Column(L, n)[q]
    BY DEF Column, Pays
  <2> QED BY <1>1, <2>1, TotalEqual
<1>4. ASSUME NEW q \in Pays PROVE Total(L2.alloc[q], NM) = Total(L.alloc[q], NM) - L.alloc[q][m]
  <2>1. \A n \in 1..NM : L2.alloc[q][n] = IF n = m THEN 0 ELSE L.alloc[q][n]
    BY DEF Months
  <2> QED BY <1>1, <2>1, TotalDrop
<1>5. Total(L2.paid, NM) = Total(L.paid, NM) - L.paid[m]
  <2>1. \A n \in 1..NM : L2.paid[n] = IF n = m THEN 0 ELSE L.paid[n]
    BY DEF Months
  <2> QED BY <1>1, <2>1, TotalDrop
<1> QED BY <1>2, <1>3, <1>4, <1>5

(* Settlement keeps a ledger right.                                        *)
LEMMA SpendKeeps ==
  ASSUME NM \in Nat, NP \in Nat, NEW L, LedgerInv(L),
         NEW F, \A m \in F : m \in Months => IsOpen(L, m)
  PROVE  LedgerInv(Spend(L, F))
<1> DEFINE debt == Debt(L, F)
           budget == Most(0, Least(L.balance, Total(L.deposit, NP)))
           take == AllocateFifo(debt, budget)
           drawn == Draw(L.deposit, take)
           L2 == Spend(L, F)
<1>1. L \in Ledger
  BY LedgerFields
<1>2. /\ L.balance \in Int /\ L.balance >= 0 /\ L.adjusted \in Int /\ L.cash \in Int
      /\ L.amount \in [Pays -> Nat]
      /\ L.voided \in [Pays -> BOOLEAN]
      /\ L.deposit \in [Pays -> Nat] /\ L.alloc \in [Pays -> [Months -> Nat]]
      /\ L.price \in [Months -> Nat] /\ L.paid \in [Months -> Nat]
      /\ L.status \in [Months -> Status] /\ L.hold \in [Months -> BOOLEAN]
  BY LedgerFields
<1>3. debt \in [Months -> Nat]
  <2> SUFFICES ASSUME NEW m \in Months PROVE debt[m] \in Nat
    BY DEF Debt
  <2>1. L.paid[m] <= L.price[m] /\ L.paid[m] \in Nat /\ L.price[m] \in Nat
    BY <1>2 DEF LedgerInv, MonthOK
  <2> QED BY <2>1 DEF Debt
<1>4. /\ budget \in Nat /\ budget <= L.balance /\ budget <= Total(L.deposit, NP)
      /\ Total(L.deposit, NP) \in Nat
  BY <1>1, <1>2, LedgerSums DEF Least, Most
<1> HIDE DEF debt, budget
<1>5. /\ take \in [Months -> Nat] /\ \A m \in Months : take[m] <= debt[m]
      /\ Total(take, NM) <= budget /\ Total(take, NM) \in Nat
  BY <1>3, <1>4, FifoTake
<1> HIDE DEF take
<1>6. Total(take, NM) <= Total(L.deposit, NP)
  BY <1>4, <1>5
<1>7. /\ drawn \in [Pays -> [Months -> Nat]]
      /\ \A m \in Months : Total([p \in Pays |-> drawn[p][m]], NP) = take[m]
      /\ \A p \in Pays : Total(drawn[p], NM) \in Nat /\ Total(drawn[p], NM) <= L.deposit[p]
  BY <1>2, <1>5, <1>6, DrawSums
<1>8. /\ L2.balance = L.balance - Total(take, NM)
      /\ L2.adjusted = L.adjusted /\ L2.cash = L.cash
      /\ L2.amount = L.amount /\ L2.voided = L.voided /\ L2.price = L.price /\ L2.hold = L.hold
      /\ L2.deposit = [p \in Pays |-> L.deposit[p] - Total(drawn[p], NM)]
      /\ L2.alloc = [p \in Pays |-> [m \in Months |-> L.alloc[p][m] + drawn[p][m]]]
      /\ L2.paid = [m \in Months |-> L.paid[m] + take[m]]
      /\ L2.status = [m \in Months |-> IF take[m] > 0
                          THEN DeriveStatus(L.price[m], L.paid[m] + take[m])
                          ELSE L.status[m]]
      /\ DOMAIN L2 = DOMAIN L
  BY <1>1, Zenon DEF Spend, Ledger, take, debt, budget, PaidAfter, StatusAfter
<1>9. L2 \in Ledger
  <2>1. L2.balance \in Int
    BY <1>2, <1>5, <1>8
  <2>2. L2.deposit \in [Pays -> Nat]
    <3>1. ASSUME NEW p \in Pays PROVE L.deposit[p] - Total(drawn[p], NM) \in Nat
      <4>1. L.deposit[p] \in Nat /\ Total(drawn[p], NM) \in Nat /\ Total(drawn[p], NM) <= L.deposit[p]
        BY <1>2, <1>7
      <4> QED BY <4>1
    <3> QED BY <3>1, <1>8
  <2>3. L2.alloc \in [Pays -> [Months -> Nat]]
    <3>1. ASSUME NEW p \in Pays, NEW m \in Months PROVE L.alloc[p][m] + drawn[p][m] \in Nat
      <4>1. L.alloc[p][m] \in Nat /\ drawn[p][m] \in Nat
        BY <1>2, <1>7
      <4> QED BY <4>1
    <3> QED BY <3>1, <1>8
  <2>4. L2.paid \in [Months -> Nat]
    BY <1>2, <1>5, <1>8
  <2>5. L2.status \in [Months -> Status]
    <3>1. ASSUME NEW m \in Months PROVE DeriveStatus(L.price[m], L.paid[m] + take[m]) \in Status
      <4>1. L.price[m] \in Int /\ L.paid[m] + take[m] \in Int
        BY <1>2, <1>5
      <4> QED BY <4>1, DerivedStatus DEF Status
    <3> QED BY <3>1, <1>2, <1>8
  <2> QED BY <1>1, <1>2, <1>8, <2>1, <2>2, <2>3, <2>4, <2>5, Zenon DEF Spend, Ledger
<1> HIDE DEF L2
<1>10. ASSUME NEW m \in Months PROVE MonthOK(L2, m)
  <2>1. L2.paid[m] = L.paid[m] + take[m] /\ L2.price[m] = L.price[m]
    BY <1>8
  <2>2. L.paid[m] \in Nat /\ L.price[m] \in Nat /\ take[m] \in Nat /\ take[m] <= debt[m]
    BY <1>2, <1>5
  <2>3. MonthOK(L, m)
    BY DEF LedgerInv
  <2>4. Total(Column(L2, m), NP) = Total(Column(L, m), NP) + take[m]
    <3> DEFINE f == [p \in Pays |-> drawn[p][m]]
    <3>1. f \in [1..NP -> Int] /\ Column(L, m) \in [1..NP -> Int]
      BY <1>2, <1>7 DEF Column, Pays
    <3>2. \A p \in 1..NP : Column(L2, m)[p] = Column(L, m)[p] + f[p]
      BY <1>8 DEF Column, Pays
    <3>3. Total(f, NP) = take[m]
      BY <1>7
    <3> HIDE DEF f
    <3> QED BY <3>1, <3>2, <3>3, TotalPlus
  <2>5. L2.paid[m] <= L2.price[m]
    <3>1. debt[m] = IF m \in F THEN L.price[m] - L.paid[m] ELSE 0
      BY DEF debt, Debt
    <3> QED BY <2>1, <2>2, <2>3, <3>1 DEF MonthOK
  <2>6. CASE take[m] = 0
    <3>1. L2.status[m] = L.status[m] /\ L2.paid[m] = L.paid[m]
      BY <1>8, <2>1, <2>2, <2>6
    <3> QED BY <2>1, <2>3, <2>4, <2>6, <3>1 DEF MonthOK
  <2>7. CASE take[m] > 0
    <3>1. L2.status[m] = DeriveStatus(L2.price[m], L2.paid[m])
      BY <1>8, <2>1, <2>7
    <3>2. L2.status[m] \notin {"none", "cancelled"}
      BY <2>1, <2>2, <3>1, DerivedStatus
    <3> QED BY <2>1, <2>3, <2>4, <2>5, <3>1, <3>2 DEF MonthOK
  <2> QED BY <2>2, <2>6, <2>7
<1>11. ASSUME NEW p \in Pays PROVE ChequeOK(L2, p)
  <2>1. /\ L2.deposit[p] = L.deposit[p] - Total(drawn[p], NM)
        /\ L2.amount[p] = L.amount[p] /\ L2.voided[p] = L.voided[p]
    BY <1>8
  <2>2. Total(L2.alloc[p], NM) = Total(L.alloc[p], NM) + Total(drawn[p], NM)
    <3>1. drawn[p] \in [1..NM -> Int] /\ L.alloc[p] \in [1..NM -> Int]
      BY <1>2, <1>7 DEF Months
    <3>2. \A m \in 1..NM : L2.alloc[p][m] = L.alloc[p][m] + drawn[p][m]
      BY <1>8 DEF Months
    <3> QED BY <3>1, <3>2, TotalPlus
  <2>3. /\ Total(drawn[p], NM) \in Nat /\ Total(drawn[p], NM) <= L.deposit[p]
        /\ L.deposit[p] \in Nat /\ L.amount[p] \in Nat /\ Total(L.alloc[p], NM) \in Nat
    BY <1>1, <1>2, <1>7, LedgerSums
  <2>4. ChequeOK(L, p)
    BY DEF LedgerInv
  <2> QED BY <2>1, <2>2, <2>3, <2>4 DEF ChequeOK
<1>12. BalanceIsDerived(L2)
  <2>1. Total(L2.paid, NM) = Total(L.paid, NM) + Total(take, NM)
    <3>1. L.paid \in [1..NM -> Int] /\ take \in [1..NM -> Int]
      BY <1>2, <1>5 DEF Months
    <3>2. \A m \in 1..NM : L2.paid[m] = L.paid[m] + take[m]
      BY <1>8 DEF Months
    <3> QED BY <3>1, <3>2, TotalPlus
  <2>2. Total(L.paid, NM) \in Nat
    BY <1>1, LedgerSums
  <2>3. BalanceIsDerived(L)
    BY DEF LedgerInv
  <2> QED BY <1>2, <1>4, <1>5, <1>8, <2>1, <2>2, <2>3 DEF BalanceIsDerived
<1> QED BY <1>9, <1>10, <1>11, <1>12 DEF LedgerInv, L2

(* A new cheque pays what is open and keeps the rest.                      *)
LEMMA CreateKeeps ==
  ASSUME NM \in Nat, NP \in Nat, NEW L, LedgerInv(L),
         NEW p \in Pays, NEW a \in Amounts, L.amount[p] = 0
  PROVE  LedgerInv(CreatePaymentInTx(L, p, a))
<1>0. a \in Nat \ {0}
  BY MoneyAssumption
<1> DEFINE F == {m \in Months : IsOpen(L, m)}
           debt == Debt(L, F)
           take == AllocateFifo(debt, a)
           rest == a - Total(take, NM)
           L2 == CreatePaymentInTx(L, p, a)
<1>1. L \in Ledger
  BY LedgerFields
<1>2. /\ L.balance \in Int /\ L.balance >= 0 /\ L.adjusted \in Int /\ L.cash \in Int
      /\ L.amount \in [Pays -> Nat]
      /\ L.voided \in [Pays -> BOOLEAN]
      /\ L.deposit \in [Pays -> Nat] /\ L.alloc \in [Pays -> [Months -> Nat]]
      /\ L.price \in [Months -> Nat] /\ L.paid \in [Months -> Nat]
      /\ L.status \in [Months -> Status] /\ L.hold \in [Months -> BOOLEAN]
  BY LedgerFields
<1>3. debt \in [Months -> Nat]
  <2> SUFFICES ASSUME NEW m \in Months PROVE debt[m] \in Nat
    BY DEF Debt
  <2>1. L.paid[m] <= L.price[m] /\ L.paid[m] \in Nat /\ L.price[m] \in Nat
    BY <1>2 DEF LedgerInv, MonthOK
  <2> QED BY <2>1 DEF Debt
<1> HIDE DEF debt
<1>4. /\ take \in [Months -> Nat] /\ \A m \in Months : take[m] <= debt[m]
      /\ Total(take, NM) <= a /\ Total(take, NM) \in Nat
  BY <1>0, <1>3, FifoTake
<1>5. rest \in Nat /\ rest + Total(take, NM) = a
  BY <1>0, <1>4
<1>6. /\ L2.balance = L.balance + rest /\ L2.cash = L.cash + a
      /\ L2.adjusted = L.adjusted /\ L2.voided = L.voided /\ L2.price = L.price
      /\ L2.hold = L.hold
      /\ L2.amount = [L.amount EXCEPT ![p] = a]
      /\ L2.deposit = [L.deposit EXCEPT ![p] = rest]
      /\ L2.alloc = [L.alloc EXCEPT ![p] = take]
      /\ L2.paid = [m \in Months |-> L.paid[m] + take[m]]
      /\ L2.status = [m \in Months |-> IF take[m] > 0
                          THEN DeriveStatus(L.price[m], L.paid[m] + take[m])
                          ELSE L.status[m]]
  BY <1>1, Zenon DEF CreatePaymentInTx, Ledger, debt, PaidAfter, StatusAfter
<1> HIDE DEF take, rest
<1>7. L2 \in Ledger
  <2>1. L2.balance \in Int /\ L2.cash \in Int
    BY <1>0, <1>2, <1>5, <1>6
  <2>2. L2.amount \in [Pays -> Nat] /\ L2.deposit \in [Pays -> Nat]
    BY <1>0, <1>2, <1>5, <1>6
  <2>3. L2.alloc \in [Pays -> [Months -> Nat]]
    BY <1>2, <1>4, <1>6
  <2>4. L2.paid \in [Months -> Nat]
    BY <1>2, <1>4, <1>6
  <2>5. L2.status \in [Months -> Status]
    <3>1. ASSUME NEW m \in Months PROVE DeriveStatus(L.price[m], L.paid[m] + take[m]) \in Status
      <4>1. L.price[m] \in Int /\ L.paid[m] + take[m] \in Int
        BY <1>2, <1>4
      <4> QED BY <4>1, DerivedStatus DEF Status
    <3> QED BY <3>1, <1>2, <1>6
  <2> QED BY <1>1, <1>2, <1>6, <2>1, <2>2, <2>3, <2>4, <2>5, Zenon DEF CreatePaymentInTx, Ledger
<1> HIDE DEF L2
<1>8. L.deposit[p] = 0 /\ Total(L.alloc[p], NM) = 0 /\ \A m \in Months : L.alloc[p][m] = 0
  <2>1. ChequeOK(L, p) /\ Total(L.alloc[p], NM) \in Nat /\ L.deposit[p] \in Nat
    BY <1>1, <1>2, LedgerSums DEF LedgerInv
  <2>2. L.deposit[p] = 0 /\ Total(L.alloc[p], NM) = 0
    BY <2>1 DEF ChequeOK
  <2>3. L.alloc[p] \in [1..NM -> Nat]
    BY <1>2 DEF Months
  <2>4. \A m \in 1..NM : L.alloc[p][m] <= 0 /\ L.alloc[p][m] \in Nat
    BY <2>2, <2>3, CumMonotone
  <2> QED BY <2>2, <2>4 DEF Months
<1>9. /\ \A m \in Months : Total(Column(L2, m), NP) = Total(Column(L, m), NP) + take[m]
      /\ Total(L2.alloc[p], NM) = Total(L.alloc[p], NM) + Total(take, NM)
      /\ \A q \in Pays \ {p} : Total(L2.alloc[q], NM) = Total(L.alloc[q], NM)
      /\ Total(L2.paid, NM) = Total(L.paid, NM) + Total(take, NM)
  <2>1. \A q \in Pays, m \in Months :
          L2.alloc[q][m] = IF q = p THEN L.alloc[q][m] + take[m] ELSE L.alloc[q][m]
    BY <1>2, <1>4, <1>6, <1>8
  <2>2. \A m \in Months : L2.paid[m] = L.paid[m] + take[m]
    BY <1>6
  <2>3. take \in [Months -> Int]
    BY <1>4
  <2> QED BY <1>1, <2>1, <2>2, <2>3, RowChange
<1>10. ASSUME NEW m \in Months PROVE MonthOK(L2, m)
  <2>1. L2.paid[m] = L.paid[m] + take[m] /\ L2.price[m] = L.price[m]
    BY <1>6
  <2>2. L.paid[m] \in Nat /\ L.price[m] \in Nat /\ take[m] \in Nat /\ take[m] <= debt[m]
    BY <1>2, <1>4
  <2>3. MonthOK(L, m)
    BY DEF LedgerInv
  <2>4. L2.paid[m] <= L2.price[m]
    <3>1. debt[m] = IF m \in F THEN L.price[m] - L.paid[m] ELSE 0
      BY DEF debt, Debt
    <3> QED BY <2>1, <2>2, <2>3, <3>1 DEF MonthOK
  <2>5. CASE take[m] = 0
    <3>1. L2.status[m] = L.status[m] /\ L2.paid[m] = L.paid[m]
      BY <1>6, <2>1, <2>2, <2>5
    <3> QED BY <1>9, <2>1, <2>3, <2>5, <3>1 DEF MonthOK
  <2>6. CASE take[m] > 0
    <3>1. L2.status[m] = DeriveStatus(L2.price[m], L2.paid[m])
      BY <1>6, <2>1, <2>6
    <3>2. L2.status[m] \notin {"none", "cancelled"}
      BY <2>1, <2>2, <3>1, DerivedStatus
    <3> QED BY <1>9, <2>1, <2>3, <2>4, <3>1, <3>2 DEF MonthOK
  <2> QED BY <2>2, <2>5, <2>6
<1>11. ASSUME NEW q \in Pays PROVE ChequeOK(L2, q)
  <2>1. ChequeOK(L, q)
    BY DEF LedgerInv
  <2>2. CASE q # p
    BY <1>6, <1>9, <2>1, <2>2 DEF ChequeOK
  <2>3. CASE q = p
    <3>1. L2.amount[p] = a /\ L2.deposit[p] = rest /\ L2.voided[p] = L.voided[p]
      BY <1>2, <1>6
    <3>2. ~L.voided[p]
      BY <2>1, <2>3 DEF ChequeOK
    <3> QED BY <1>0, <1>4, <1>5, <1>8, <1>9, <2>3, <3>1, <3>2 DEF ChequeOK
  <2> QED BY <2>2, <2>3
<1>12. BalanceIsDerived(L2)
  <2>1. Total(L.paid, NM) \in Nat
    BY <1>1, LedgerSums
  <2>2. BalanceIsDerived(L)
    BY DEF LedgerInv
  <2>3. /\ L2.balance = L.balance + rest /\ L2.cash = L.cash + a /\ L2.adjusted = L.adjusted
        /\ L2.balance >= 0
    BY <1>2, <1>5, <1>6
  <2> QED BY <1>0, <1>2, <1>4, <1>5, <1>8, <1>9, <2>1, <2>2, <2>3 DEF BalanceIsDerived
<1> QED BY <1>7, <1>10, <1>11, <1>12 DEF LedgerInv, L2

(* A voided cheque gives back what it paid; the balance covers the rest.   *)
LEMMA VoidKeeps ==
  ASSUME NM \in Nat, NP \in Nat, NEW L, LedgerInv(L), NEW p \in Pays, CanVoid(L, p)
  PROVE  LedgerInv(VoidPaymentInTx(L, p))
<1> DEFINE L2 == VoidPaymentInTx(L, p)
           d == [m \in Months |-> 0 - L.alloc[p][m]]
           row == Total(L.alloc[p], NM)
<1>1. L \in Ledger
  BY LedgerFields
<1>2. /\ L.balance \in Int /\ L.balance >= 0 /\ L.adjusted \in Int /\ L.cash \in Int
      /\ L.amount \in [Pays -> Nat]
      /\ L.voided \in [Pays -> BOOLEAN]
      /\ L.deposit \in [Pays -> Nat] /\ L.alloc \in [Pays -> [Months -> Nat]]
      /\ L.price \in [Months -> Nat] /\ L.paid \in [Months -> Nat]
      /\ L.status \in [Months -> Status] /\ L.hold \in [Months -> BOOLEAN]
  BY LedgerFields
<1>3. /\ L.amount[p] > 0 /\ DepositHeld(L, p) <= L.balance
      /\ \A m \in Months : L.alloc[p][m] <= L.paid[m]
  BY DEF CanVoid
<1>4. /\ L2.balance = L.balance - DepositHeld(L, p) /\ L2.cash = L.cash - L.amount[p]
      /\ L2.adjusted = L.adjusted /\ L2.amount = L.amount /\ L2.price = L.price
      /\ L2.hold = L.hold
      /\ L2.voided = [L.voided EXCEPT ![p] = TRUE]
      /\ L2.deposit = [L.deposit EXCEPT ![p] = 0]
      /\ L2.alloc = [L.alloc EXCEPT ![p] = [m \in Months |-> 0]]
      /\ L2.paid = [m \in Months |-> L.paid[m] - L.alloc[p][m]]
      /\ L2.status = [m \in Months |->
                        IF L.alloc[p][m] = 0 \/ L.status[m] = "cancelled"
                        THEN L.status[m]
                        ELSE DeriveStatus(L.price[m], L.paid[m] - L.alloc[p][m])]
  BY <1>1, Zenon DEF VoidPaymentInTx, Ledger
<1>5. ASSUME NEW m \in Months
      PROVE  /\ L.alloc[p][m] \in Nat /\ L.paid[m] \in Nat /\ L.price[m] \in Nat
             /\ L.paid[m] - L.alloc[p][m] \in Nat
             /\ L2.paid[m] = L.paid[m] - L.alloc[p][m] /\ L2.price[m] = L.price[m]
  <2>1. L.alloc[p][m] \in Nat /\ L.paid[m] \in Nat /\ L.price[m] \in Nat
    BY <1>2
  <2> QED BY <2>1, <1>3, <1>4
<1>6. L2 \in Ledger
  <2>1. DepositHeld(L, p) \in Int /\ L.amount[p] \in Nat
    BY <1>1, <1>2, LedgerSums DEF DepositHeld
  <2>2. L2.balance \in Int /\ L2.cash \in Int
    BY <1>2, <1>4, <2>1
  <2>3. L2.voided \in [Pays -> BOOLEAN] /\ L2.deposit \in [Pays -> Nat]
    BY <1>2, <1>4
  <2>4. L2.alloc \in [Pays -> [Months -> Nat]]
    <3> DEFINE z == [m \in Months |-> 0]
    <3>1. z \in [Months -> Nat] /\ L2.alloc = [L.alloc EXCEPT ![p] = z]
      BY <1>4
    <3> HIDE DEF z, L2
    <3> QED BY <1>2, <3>1
  <2>5. L2.paid \in [Months -> Nat]
    BY <1>4, <1>5
  <2>6. L2.status \in [Months -> Status]
    <3>1. ASSUME NEW m \in Months
          PROVE DeriveStatus(L.price[m], L.paid[m] - L.alloc[p][m]) \in Status
      <4>1. L.price[m] \in Int /\ L.paid[m] - L.alloc[p][m] \in Int
        BY <1>5
      <4> QED BY <4>1, DerivedStatus DEF Status
    <3> QED BY <3>1, <1>2, <1>4
  <2> QED BY <1>1, <1>2, <1>4, <2>2, <2>3, <2>4, <2>5, <2>6, Zenon DEF VoidPaymentInTx, Ledger
<1> HIDE DEF L2
<1>7. d \in [Months -> Int] /\ \A m \in Months : d[m] = 0 - L.alloc[p][m]
  BY <1>5
<1>8. row \in Nat /\ Total(d, NM) = 0 - row
  <2> DEFINE z == [m \in Months |-> 0]
  <2>1. \A m \in 1..NM : z[m] = d[m] + L.alloc[p][m]
    BY <1>5 DEF Months
  <2>2. Total(z, NM) = 0
    BY TotalZero DEF Months
  <2>3. d \in [1..NM -> Int] /\ L.alloc[p] \in [1..NM -> Int]
    BY <1>1, <1>7, LedgerRows DEF Months
  <2> HIDE DEF z, d
  <2>4. Total(z, NM) = Total(d, NM) + row
    BY <2>1, <2>3, TotalPlus
  <2>5. Total(d, NM) \in Int /\ row \in Nat
    BY <1>1, <2>3, CumType, LedgerSums
  <2> HIDE DEF row
  <2> QED BY <2>2, <2>4, <2>5
<1> HIDE DEF d
<1>9. /\ \A m \in Months : Total(Column(L2, m), NP) = Total(Column(L, m), NP) + d[m]
      /\ Total(L2.alloc[p], NM) = row + Total(d, NM)
      /\ \A q \in Pays \ {p} : Total(L2.alloc[q], NM) = Total(L.alloc[q], NM)
      /\ Total(L2.paid, NM) = Total(L.paid, NM) + Total(d, NM)
  <2>1. ASSUME NEW q \in Pays, NEW m \in Months
        PROVE L2.alloc[q][m] = IF q = p THEN L.alloc[q][m] + d[m] ELSE L.alloc[q][m]
    BY <1>2, <1>4, <1>5, <1>7
  <2>2. ASSUME NEW m \in Months PROVE L2.paid[m] = L.paid[m] + d[m]
    BY <1>5, <1>7
  <2> QED BY <1>1, <1>7, <2>1, <2>2, RowChange
<1>10. ASSUME NEW m \in Months PROVE MonthOK(L2, m)
  <2>1. MonthOK(L, m)
    BY DEF LedgerInv
  <2>2. L2.paid[m] = Total(Column(L2, m), NP)
    BY <1>5, <1>7, <1>9, <2>1 DEF MonthOK
  <2>3. CASE L.alloc[p][m] = 0 \/ L.status[m] = "cancelled"
    <3>1. L2.status[m] = L.status[m]
      BY <1>4, <2>3
    <3>2. L2.paid[m] = L.paid[m]
      BY <1>5, <2>1, <2>3 DEF MonthOK
    <3> QED BY <1>5, <2>1, <2>2, <3>1, <3>2 DEF MonthOK
  <2>4. CASE ~(L.alloc[p][m] = 0 \/ L.status[m] = "cancelled")
    <3>1. L2.status[m] = DeriveStatus(L2.price[m], L2.paid[m])
      BY <1>4, <1>5, <2>4
    <3>2. L2.paid[m] <= L2.price[m] /\ L2.paid[m] \in Int /\ L2.price[m] \in Int
      BY <1>5, <2>1 DEF MonthOK
    <3>3. L2.status[m] \notin {"none", "cancelled"}
      BY <3>1, <3>2, DerivedStatus
    <3> QED BY <2>2, <3>1, <3>2, <3>3 DEF MonthOK
  <2> QED BY <2>3, <2>4
<1>11. ASSUME NEW q \in Pays PROVE ChequeOK(L2, q)
  <2>1. ChequeOK(L, q)
    BY DEF LedgerInv
  <2>2. CASE q # p
    BY <1>4, <1>9, <2>1, <2>2 DEF ChequeOK
  <2>3. CASE q = p
    <3>1. L2.amount[p] = L.amount[p] /\ L2.deposit[p] = 0 /\ L.amount[p] \in Nat
      BY <1>2, <1>4
    <3>2. Total(L2.alloc[p], NM) = 0
      BY <1>8, <1>9
    <3> QED BY <1>3, <2>3, <3>1, <3>2 DEF ChequeOK
  <2> QED BY <2>2, <2>3
<1>12. BalanceIsDerived(L2)
  <2>1. Total(L.paid, NM) \in Nat /\ L.amount[p] \in Nat
    BY <1>1, <1>2, LedgerSums
  <2>2. BalanceIsDerived(L)
    BY DEF LedgerInv
  <2>3. DepositHeld(L, p) = L.amount[p] - row
    BY DEF DepositHeld
  <2>4. /\ L2.balance = L.balance - (L.amount[p] - row) /\ L2.cash = L.cash - L.amount[p]
        /\ L2.adjusted = L.adjusted /\ L.amount[p] - row <= L.balance
    BY <1>3, <1>4, <2>3
  <2>5. L.balance \in Int /\ L.cash \in Int /\ L.adjusted \in Int
    BY <1>2
  <2>6. L2.balance >= 0
    BY <2>1, <2>4, <2>5, <1>8
  <2>7. L2.balance = L2.cash - Total(L2.paid, NM) + L2.adjusted
    <3> HIDE DEF row
    <3> QED BY <1>8, <1>9, <2>1, <2>2, <2>4, <2>5 DEF BalanceIsDerived
  <2> QED BY <2>6, <2>7 DEF BalanceIsDerived
<1> QED BY <1>6, <1>10, <1>11, <1>12 DEF LedgerInv, L2

(* Releasing a month, and sealing it with a price and a status that suit a *)
(* month of which nothing is paid.                                         *)
Sealed(L, m, price, status) ==
    [ReleaseInvoiceAllocations(L, m) EXCEPT !.price[m] = price, !.status[m] = status]

(* Such a ledger is right.                                                 *)
LEMMA ReleaseKeeps ==
  ASSUME NM \in Nat, NP \in Nat, NEW L, LedgerInv(L), NEW m \in Months,
         NEW price \in Nat, NEW status \in {"cancelled", DeriveStatus(price, 0)}
  PROVE  LedgerInv(Sealed(L, m, price, status))
<1> DEFINE L2 == Sealed(L, m, price, status)
<1>1. L \in Ledger
  BY LedgerFields
<1>2. /\ L.balance \in Int /\ L.balance >= 0 /\ L.adjusted \in Int /\ L.cash \in Int
      /\ L.amount \in [Pays -> Nat]
      /\ L.voided \in [Pays -> BOOLEAN]
      /\ L.deposit \in [Pays -> Nat] /\ L.alloc \in [Pays -> [Months -> Nat]]
      /\ L.price \in [Months -> Nat] /\ L.paid \in [Months -> Nat]
      /\ L.status \in [Months -> Status] /\ L.hold \in [Months -> BOOLEAN]
  BY LedgerFields
<1>3. MonthOK(L, m) /\ L.paid[m] \in Nat /\ L.paid[m] = Total(Column(L, m), NP)
  BY <1>2 DEF LedgerInv, MonthOK
<1>4. /\ L2.balance = L.balance + L.paid[m] /\ L2.cash = L.cash
      /\ L2.adjusted = L.adjusted /\ L2.amount = L.amount /\ L2.voided = L.voided
      /\ L2.hold = L.hold
      /\ L2.deposit = [p \in Pays |-> L.deposit[p] + L.alloc[p][m]]
      /\ L2.alloc = [p \in Pays |-> [L.alloc[p] EXCEPT ![m] = 0]]
      /\ L2.paid = [L.paid EXCEPT ![m] = 0]
      /\ L2.price = [L.price EXCEPT ![m] = price]
      /\ L2.status = [L.status EXCEPT ![m] = status]
  BY <1>1, <1>3, Zenon DEF Sealed, ReleaseInvoiceAllocations, Ledger, Column
<1>5. status \in Status /\ (status = "cancelled" \/ status = DeriveStatus(price, 0))
  BY DerivedStatus DEF Status
<1>6. L2 \in Ledger
  <2>1. L2.balance \in Int
    BY <1>2, <1>3, <1>4
  <2>2. L2.deposit \in [Pays -> Nat]
    <3>1. ASSUME NEW p \in Pays PROVE L.deposit[p] + L.alloc[p][m] \in Nat
      <4>1. L.deposit[p] \in Nat /\ L.alloc[p][m] \in Nat
        BY <1>2
      <4> QED BY <4>1
    <3> QED BY <3>1, <1>4
  <2>3. L2.alloc \in [Pays -> [Months -> Nat]]
    <3>1. ASSUME NEW p \in Pays PROVE [L.alloc[p] EXCEPT ![m] = 0] \in [Months -> Nat]
      BY <1>2
    <3> QED BY <3>1, <1>4
  <2>4. L2.paid \in [Months -> Nat] /\ L2.price \in [Months -> Nat]
    BY <1>2, <1>4
  <2>5. L2.status \in [Months -> Status]
    <3> HIDE DEF L2
    <3>1. L2.status = [L.status EXCEPT ![m] = status] /\ L.status \in [Months -> Status]
      BY <1>2, <1>4
    <3> QED BY <1>5, <3>1
  <2> QED BY <1>1, <1>2, <1>4, <2>1, <2>2, <2>3, <2>4, <2>5, Zenon
          DEF Sealed, ReleaseInvoiceAllocations, Ledger
<1> HIDE DEF L2
<1>7. /\ Total(Column(L2, m), NP) = 0
      /\ \A n \in Months \ {m} : Total(Column(L2, n), NP) = Total(Column(L, n), NP)
      /\ \A q \in Pays : Total(L2.alloc[q], NM) = Total(L.alloc[q], NM) - L.alloc[q][m]
      /\ Total(L2.paid, NM) = Total(L.paid, NM) - L.paid[m]
  <2>1. ASSUME NEW q \in Pays, NEW n \in Months
        PROVE  L2.alloc[q][n] = IF n = m THEN 0 ELSE L.alloc[q][n]
    <3>1. L.alloc[q] \in [Months -> Nat] /\ L2.alloc[q] = [L.alloc[q] EXCEPT ![m] = 0]
      BY <1>2, <1>4
    <3> QED BY <3>1
  <2>2. ASSUME NEW n \in Months PROVE L2.paid[n] = IF n = m THEN 0 ELSE L.paid[n]
    BY <1>2, <1>4
  <2> QED BY <1>1, <2>1, <2>2, ColumnCleared
<1>8. ASSUME NEW n \in Months PROVE MonthOK(L2, n)
  <2>1. MonthOK(L, n)
    BY DEF LedgerInv
  <2>2. CASE n # m
    <3>1. L2.paid[n] = L.paid[n] /\ L2.price[n] = L.price[n] /\ L2.status[n] = L.status[n]
      BY <1>2, <1>4, <2>2
    <3> QED BY <1>7, <2>1, <2>2, <3>1 DEF MonthOK
  <2>3. CASE n = m
    <3>1. L2.paid[m] = 0 /\ L2.price[m] = price /\ L2.status[m] = status
      BY <1>2, <1>4
    <3> QED BY <1>5, <1>7, <2>3, <3>1 DEF MonthOK
  <2> QED BY <2>2, <2>3
<1>9. ASSUME NEW p \in Pays PROVE ChequeOK(L2, p)
  <2>1. ChequeOK(L, p) /\ L.voided[p] \in BOOLEAN
    BY <1>2 DEF LedgerInv
  <2>2. /\ L2.deposit[p] = L.deposit[p] + L.alloc[p][m]
        /\ L2.amount[p] = L.amount[p] /\ L2.voided[p] = L.voided[p]
    BY <1>4
  <2>3. /\ L.deposit[p] \in Nat /\ L.alloc[p][m] \in Nat /\ L.amount[p] \in Nat
        /\ Total(L.alloc[p], NM) \in Nat /\ L.alloc[p] \in [1..NM -> Nat]
    BY <1>1, <1>2, LedgerSums DEF Months
  <2>4. m \in 1..NM /\ L.alloc[p][m] <= Total(L.alloc[p], NM)
    BY <2>3, CumMonotone DEF Months
  <2>5. Total(L2.alloc[p], NM) = Total(L.alloc[p], NM) - L.alloc[p][m]
    BY <1>7
  <2>6. L2.deposit[p] + Total(L2.alloc[p], NM) <= L2.amount[p]
    BY <2>1, <2>2, <2>3, <2>5 DEF ChequeOK
  <2>7. L2.voided[p] => L2.amount[p] > 0 /\ L2.deposit[p] = 0 /\ Total(L2.alloc[p], NM) = 0
    <3> SUFFICES ASSUME L2.voided[p]
                 PROVE L2.amount[p] > 0 /\ L2.deposit[p] = 0 /\ Total(L2.alloc[p], NM) = 0
      OBVIOUS
    <3>1. L.amount[p] > 0 /\ L.deposit[p] = 0 /\ Total(L.alloc[p], NM) = 0
      BY <2>1, <2>2, Zenon DEF ChequeOK
    <3>2. L.alloc[p][m] = 0
      BY <2>3, <2>4, <3>1
    <3> QED BY <2>2, <2>5, <3>1, <3>2
  <2> QED BY <2>6, <2>7 DEF ChequeOK
<1>10. BalanceIsDerived(L2)
  <2>1. Total(L.paid, NM) \in Nat
    BY <1>1, LedgerSums
  <2>2. BalanceIsDerived(L)
    BY DEF LedgerInv
  <2>3. /\ L2.balance = L.balance + L.paid[m] /\ L2.cash = L.cash /\ L2.adjusted = L.adjusted
        /\ Total(L2.paid, NM) = Total(L.paid, NM) - L.paid[m]
    BY <1>4, <1>7
  <2> QED BY <1>2, <1>3, <2>1, <2>2, <2>3 DEF BalanceIsDerived
<1> QED BY <1>6, <1>8, <1>9, <1>10 DEF LedgerInv, L2

(* cancelInvoice.                                                          *)
LEMMA CancelKeeps ==
  ASSUME NM \in Nat, NP \in Nat, NEW L, LedgerInv(L), NEW m \in Months
  PROVE  LedgerInv(Cancel(L, m))
<1>1. L \in Ledger /\ L.price \in [Months -> Nat]
  BY LedgerFields
<1> DEFINE r == ReleaseInvoiceAllocations(L, m)
<1>2. r.price = L.price /\ r = [f \in DOMAIN r |-> r[f]]
  BY <1>1 DEF ReleaseInvoiceAllocations, Ledger
<1> HIDE DEF r
<1>3. [r.price EXCEPT ![m] = L.price[m]] = r.price
  BY <1>1, <1>2
<1>4. [r EXCEPT !.price[m] = L.price[m], !.status[m] = "cancelled"]
        = [r EXCEPT !.status[m] = "cancelled"]
  BY <1>2, <1>3
<1>5. Cancel(L, m) = Sealed(L, m, L.price[m], "cancelled")
  BY <1>4 DEF Cancel, Sealed, r
<1> QED BY <1>1, <1>5, ReleaseKeeps

(* amendPaidInvoice, below what is paid.                                   *)
LEMMA AmendBelowKeeps ==
  ASSUME NM \in Nat, NP \in Nat, NEW L, LedgerInv(L), NEW m \in Months, NEW price \in Nat
  PROVE  LedgerInv(AmendBelow(L, m, price))
  BY ReleaseKeeps DEF AmendBelow, Sealed

(* reworkAllocation.                                                       *)
LEMMA ReworkKeeps ==
  ASSUME NM \in Nat, NP \in Nat, NEW L, LedgerInv(L), NEW p \in Pays, NEW m \in Months,
         NEW target \in Months, NEW current \in Nat, NEW keep \in Nat, keep <= current,
         current > 0, CanRework(L, p, m, current, keep, target)
  PROVE  LedgerInv(ReworkAllocation(L, p, m, current, keep, target))
<1> DEFINE L2 == ReworkAllocation(L, p, m, current, keep, target)
           moved(n) == IF n = target THEN keep ELSE 0
           gone(n) == IF n = m THEN current ELSE 0
           d == [n \in Months |-> moved(n) - gone(n)]
           released == current - keep
<1>1. L \in Ledger
  BY LedgerFields
<1>2. /\ L.balance \in Int /\ L.balance >= 0 /\ L.adjusted \in Int /\ L.cash \in Int
      /\ L.amount \in [Pays -> Nat]
      /\ L.voided \in [Pays -> BOOLEAN]
      /\ L.deposit \in [Pays -> Nat] /\ L.alloc \in [Pays -> [Months -> Nat]]
      /\ L.price \in [Months -> Nat] /\ L.paid \in [Months -> Nat]
      /\ L.status \in [Months -> Status] /\ L.hold \in [Months -> BOOLEAN]
  BY LedgerFields
<1>3. /\ L2.balance = L.balance + released /\ L2.cash = L.cash
      /\ L2.adjusted = L.adjusted /\ L2.amount = L.amount /\ L2.voided = L.voided
      /\ L2.price = L.price
      /\ L2.hold = [L.hold EXCEPT ![m] = @ \/ released > 0]
      /\ L2.deposit = [L.deposit EXCEPT ![p] = @ + released]
      /\ L2.alloc = [L.alloc EXCEPT ![p] =
                         [n \in Months |-> L.alloc[p][n] - gone(n) + moved(n)]]
      /\ L2.paid = [n \in Months |-> L.paid[n] - gone(n) + moved(n)]
      /\ L2.status = [n \in Months |->
                         IF n \in {m, target}
                         THEN DeriveStatus(L.price[n], L.paid[n] - gone(n) + moved(n))
                         ELSE L.status[n]]
  BY <1>1, Zenon DEF ReworkAllocation, Ledger
<1>4. released \in Nat
  OBVIOUS
<1>5. ASSUME NEW n \in Months
      PROVE  /\ L.alloc[p][n] \in Nat /\ L.paid[n] \in Nat /\ L.price[n] \in Nat
             /\ L.alloc[p][n] - gone(n) + moved(n) \in Nat
             /\ L.paid[n] - gone(n) + moved(n) \in Nat
             /\ L.paid[n] - gone(n) + moved(n) <= L.price[n]
  <2>1. /\ L.alloc[p][n] \in Nat /\ L.paid[n] \in Nat /\ L.price[n] \in Nat
        /\ L.paid[n] <= L.price[n]
    BY <1>2 DEF LedgerInv, MonthOK
  <2>2. /\ n = m => current <= L.alloc[p][n] /\ current <= L.paid[n]
        /\ n = target /\ target # m => keep <= L.price[n] - L.paid[n]
    BY DEF CanRework
  <2> QED BY <2>1, <2>2
<1>6. d \in [Months -> Int] /\ \A n \in Months : d[n] = moved(n) - gone(n)
  OBVIOUS
<1>7. L2 \in Ledger
  <2>1. L2.balance \in Int
    BY <1>2, <1>3, <1>4
  <2>2. L2.deposit \in [Pays -> Nat] /\ L2.hold \in [Months -> BOOLEAN]
    <3> HIDE DEF L2, released
    <3>1. L2.deposit \in [Pays -> Nat]
      BY <1>2, <1>3, <1>4
    <3>2. L2.hold \in [Months -> BOOLEAN]
      BY <1>2, <1>3
    <3> QED BY <3>1, <3>2
  <2>3. L2.alloc \in [Pays -> [Months -> Nat]]
    <3> DEFINE row == [n \in Months |-> L.alloc[p][n] - gone(n) + moved(n)]
    <3>1. row \in [Months -> Nat] /\ L2.alloc = [L.alloc EXCEPT ![p] = row]
      BY <1>3, <1>5
    <3> HIDE DEF L2, row
    <3> QED BY <1>2, <3>1
  <2>4. L2.paid \in [Months -> Nat]
    BY <1>3, <1>5
  <2>5. L2.status \in [Months -> Status]
    <3>1. ASSUME NEW n \in Months
          PROVE DeriveStatus(L.price[n], L.paid[n] - gone(n) + moved(n)) \in Status
      <4>1. L.price[n] \in Int /\ L.paid[n] - gone(n) + moved(n) \in Int
        BY <1>5
      <4> QED BY <4>1, DerivedStatus DEF Status
    <3> QED BY <3>1, <1>2, <1>3
  <2> QED BY <1>1, <1>2, <1>3, <2>1, <2>2, <2>3, <2>4, <2>5, Zenon DEF ReworkAllocation, Ledger
<1> HIDE DEF L2
<1>8. ASSUME NEW n \in Months
      PROVE  /\ L2.paid[n] = L.paid[n] + d[n] /\ L2.paid[n] \in Nat
             /\ L2.paid[n] <= L2.price[n] /\ L2.price[n] = L.price[n] /\ L2.price[n] \in Nat
  <2>1. L2.paid[n] = L.paid[n] - gone(n) + moved(n) /\ L2.price[n] = L.price[n]
    BY <1>3
  <2> QED BY <1>5, <1>6, <2>1
<1>9. Total(d, NM) = keep - current
  <2>1. d = [n \in 1..NM |-> (IF n = target THEN keep ELSE 0) - (IF n = m THEN current ELSE 0)]
    BY DEF Months
  <2>2. m \in 1..NM /\ target \in 1..NM /\ keep \in Int /\ current \in Int
    BY DEF Months
  <2> HIDE DEF d
  <2> QED BY <2>1, <2>2, TotalMove
<1>10. /\ \A n \in Months : Total(Column(L2, n), NP) = Total(Column(L, n), NP) + d[n]
       /\ Total(L2.alloc[p], NM) = Total(L.alloc[p], NM) + Total(d, NM)
       /\ \A q \in Pays \ {p} : Total(L2.alloc[q], NM) = Total(L.alloc[q], NM)
       /\ Total(L2.paid, NM) = Total(L.paid, NM) + Total(d, NM)
  <2>1. ASSUME NEW q \in Pays, NEW n \in Months
        PROVE L2.alloc[q][n] = IF q = p THEN L.alloc[q][n] + d[n] ELSE L.alloc[q][n]
    <3>1. q # p => L2.alloc[q] = L.alloc[q]
      BY <1>2, <1>3
    <3>2. L2.alloc[p][n] = L.alloc[p][n] - gone(n) + moved(n)
      BY <1>2, <1>3
    <3>3. L.alloc[p][n] - gone(n) + moved(n) = L.alloc[p][n] + d[n]
      BY <1>5, <1>6
    <3> QED BY <3>1, <3>2, <3>3
  <2>2. ASSUME NEW n \in Months PROVE L2.paid[n] = L.paid[n] + d[n]
    BY <1>8
  <2> HIDE DEF d
  <2> QED BY <1>1, <1>6, <2>1, <2>2, RowChange
<1>11. ASSUME NEW n \in Months PROVE MonthOK(L2, n)
  <2>1. MonthOK(L, n)
    BY DEF LedgerInv
  <2>2. L2.paid[n] = Total(Column(L2, n), NP)
    BY <1>8, <1>10, <2>1 DEF MonthOK
  <2>3. CASE n \notin {m, target}
    <3>1. L2.status[n] = L.status[n] /\ L2.paid[n] = L.paid[n]
      BY <1>3, <1>5, <2>3
    <3> QED BY <1>8, <2>1, <2>2, <3>1 DEF MonthOK
  <2>4. CASE n \in {m, target}
    <3>1. L2.status[n] = DeriveStatus(L2.price[n], L2.paid[n])
      BY <1>3, <2>4
    <3>2. L2.status[n] \notin {"none", "cancelled"}
      BY <1>8, <3>1, DerivedStatus
    <3> QED BY <1>8, <2>2, <3>1, <3>2 DEF MonthOK
  <2> QED BY <2>3, <2>4
<1>12. ASSUME NEW q \in Pays PROVE ChequeOK(L2, q)
  <2>1. ChequeOK(L, q)
    BY DEF LedgerInv
  <2>2. CASE q # p
    BY <1>2, <1>3, <1>10, <2>1, <2>2 DEF ChequeOK
  <2>3. CASE q = p
    <3>1. /\ L2.amount[p] = L.amount[p] /\ L2.deposit[p] = L.deposit[p] + released
          /\ L2.voided[p] = L.voided[p] /\ L.deposit[p] \in Nat /\ L.amount[p] \in Nat
          /\ Total(L.alloc[p], NM) \in Nat
      BY <1>1, <1>2, <1>3, LedgerSums
    <3>2. L.alloc[p][m] > 0 /\ L.alloc[p] \in [1..NM -> Nat] /\ m \in 1..NM
      <4>1. current <= L.alloc[p][m] /\ L.alloc[p][m] \in Nat
        BY <1>5 DEF CanRework
      <4>2. L.alloc[p] \in [Months -> Nat]
        BY <1>2
      <4> QED BY <4>1, <4>2 DEF Months
    <3>3. L.alloc[p][m] <= Total(L.alloc[p], NM)
      BY <3>2, CumMonotone
    <3>4. ~L.voided[p]
      BY <2>1, <2>3, <3>1, <3>2, <3>3 DEF ChequeOK
    <3> QED BY <1>9, <1>10, <2>1, <2>3, <3>1, <3>4 DEF ChequeOK
  <2> QED BY <2>2, <2>3
<1>13. BalanceIsDerived(L2)
  <2>1. Total(L.paid, NM) \in Nat
    BY <1>1, LedgerSums
  <2>2. BalanceIsDerived(L)
    BY DEF LedgerInv
  <2>3. /\ L2.balance = L.balance + released /\ L2.cash = L.cash /\ L2.adjusted = L.adjusted
        /\ Total(L2.paid, NM) = Total(L.paid, NM) + (keep - current)
    BY <1>3, <1>9, <1>10
  <2> QED BY <1>2, <2>1, <2>2, <2>3 DEF BalanceIsDerived
<1> QED BY <1>7, <1>11, <1>12, <1>13 DEF LedgerInv, L2

(* An operation that moves no money has only its months to account for.    *)
LEMMA ResealKeeps ==
  ASSUME NEW L, LedgerInv(L), NEW L2 \in Ledger,
         L2.balance = L.balance, L2.cash = L.cash, L2.adjusted = L.adjusted,
         L2.amount = L.amount, L2.voided = L.voided, L2.deposit = L.deposit,
         L2.alloc = L.alloc, L2.paid = L.paid,
         \A m \in Months :
           /\ L2.paid[m] <= L2.price[m]
           /\ L2.status[m] \in {"none", "cancelled"} => L2.paid[m] = 0
           /\ L2.status[m] \notin {"none", "cancelled"} =>
                 \/ L2.status[m] = DeriveStatus(L2.price[m], L2.paid[m])
                 \/ L2.status[m] = "paid" /\ L2.price[m] = 0
  PROVE  LedgerInv(L2)
<1>1. ASSUME NEW m \in Months PROVE MonthOK(L2, m)
  <2>1. MonthOK(L, m)
    BY DEF LedgerInv
  <2>2. Column(L2, m) = Column(L, m)
    BY DEF Column
  <2> QED BY <2>1, <2>2, Zenon DEF MonthOK
<1>2. ASSUME NEW p \in Pays PROVE ChequeOK(L2, p)
  BY Zenon DEF LedgerInv, ChequeOK
<1>3. BalanceIsDerived(L2)
  BY Zenon DEF LedgerInv, BalanceIsDerived
<1> QED BY <1>1, <1>2, <1>3 DEF LedgerInv

(* What LedgerInv says of one month.                                       *)
LEMMA MonthFacts ==
  ASSUME NEW L, LedgerInv(L), NEW m \in Months
  PROVE  /\ L.paid[m] \in Nat /\ L.price[m] \in Nat /\ L.paid[m] <= L.price[m]
         /\ L.status[m] \in {"none", "cancelled"} => L.paid[m] = 0
         /\ L.status[m] \notin {"none", "cancelled"} =>
               \/ L.status[m] = DeriveStatus(L.price[m], L.paid[m])
               \/ L.status[m] = "paid" /\ L.price[m] = 0
<1>1. MonthOK(L, m)
  BY DEF LedgerInv
<1>2. L.paid[m] \in Nat /\ L.price[m] \in Nat
  BY LedgerFields
<1> QED BY <1>1, <1>2, Zenon DEF MonthOK

(* restoreInvoice, and the seal of a price not below what is paid.         *)
LEMMA AmendInPlaceKeeps ==
  ASSUME NEW L, LedgerInv(L), NEW m \in Months, NEW price \in Nat, L.paid[m] <= price
  PROVE  LedgerInv(AmendInPlace(L, m, price))
<1> DEFINE L2 == AmendInPlace(L, m, price)
           status == DeriveStatus(price, L.paid[m])
<1>1. L \in Ledger /\ L.price \in [Months -> Nat] /\ L.status \in [Months -> Status]
  BY LedgerFields
<1>2. L.paid[m] \in Nat /\ status \in {"unpaid", "partial", "paid"}
  BY MonthFacts, DerivedStatus
<1>3. /\ L2.balance = L.balance /\ L2.cash = L.cash /\ L2.adjusted = L.adjusted
      /\ L2.amount = L.amount /\ L2.voided = L.voided /\ L2.deposit = L.deposit
      /\ L2.alloc = L.alloc /\ L2.paid = L.paid /\ L2.hold = L.hold
      /\ L2.price = [L.price EXCEPT ![m] = price]
      /\ L2.status = [L.status EXCEPT ![m] = status]
  BY <1>1, Zenon DEF AmendInPlace, Ledger
<1> HIDE DEF status
<1>4. L2 \in Ledger
  <2>1. L2.price \in [Months -> Nat] /\ L2.status \in [Months -> Status]
    <3> HIDE DEF L2
    <3>1. status \in Status
      BY <1>2 DEF Status
    <3>2. L2.status \in [Months -> Status]
      BY <1>1, <1>3, <3>1
    <3>3. L2.price \in [Months -> Nat]
      BY <1>1, <1>3
    <3> QED BY <3>2, <3>3
  <2> QED BY <1>1, <1>3, <2>1, LedgerFields, Zenon DEF AmendInPlace, Ledger
<1> HIDE DEF L2
<1>5. ASSUME NEW n \in Months
      PROVE  /\ L2.paid[n] <= L2.price[n]
             /\ L2.status[n] \in {"none", "cancelled"} => L2.paid[n] = 0
             /\ L2.status[n] \notin {"none", "cancelled"} =>
                   \/ L2.status[n] = DeriveStatus(L2.price[n], L2.paid[n])
                   \/ L2.status[n] = "paid" /\ L2.price[n] = 0
  <2>1. CASE n = m
    <3>1. L2.paid[n] = L.paid[m] /\ L2.price[n] = price /\ L2.status[n] = status
      BY <1>1, <1>3, <2>1
    <3> QED BY <1>2, <3>1 DEF status
  <2>2. CASE n # m
    <3>1. L2.paid[n] = L.paid[n] /\ L2.price[n] = L.price[n] /\ L2.status[n] = L.status[n]
      BY <1>1, <1>3, <2>2
    <3> QED BY <3>1, MonthFacts
  <2> QED BY <2>1, <2>2
<1>6. LedgerInv(L2)
  BY <1>3, <1>4, <1>5, ResealKeeps
<1> QED BY <1>6 DEF L2

(* restoreInvoice.                                                         *)
LEMMA RestoreKeeps ==
  ASSUME NEW L, LedgerInv(L), NEW m \in Months
  PROVE  LedgerInv(Restore(L, m))
<1> DEFINE L2 == AmendInPlace(L, m, L.price[m])
<1>1. L \in Ledger /\ L.price \in [Months -> Nat] /\ L.paid[m] <= L.price[m]
  BY LedgerFields, MonthFacts
<1>2. L = [f \in DOMAIN L |-> L[f]] /\ [L.price EXCEPT ![m] = L.price[m]] = L.price
  BY <1>1 DEF Ledger
<1>3. L2 = Restore(L, m)
  BY <1>2 DEF AmendInPlace, Restore
<1> QED BY <1>1, <1>3, AmendInPlaceKeeps

(* A month of which nothing is paid has no allocations to clear.           *)
LEMMA NothingAllocated ==
  ASSUME NM \in Nat, NP \in Nat, NEW L, LedgerInv(L), NEW m \in Months, L.paid[m] = 0
  PROVE  [p \in Pays |-> [L.alloc[p] EXCEPT ![m] = 0]] = L.alloc
<1>1. L.alloc \in [Pays -> [Months -> Nat]]
  BY LedgerFields
<1>2. ASSUME NEW p \in Pays PROVE L.alloc[p][m] = 0
  <2>1. Total(Column(L, m), NP) = 0
    BY DEF LedgerInv, MonthOK
  <2>2. Column(L, m) \in [1..NP -> Nat]
    BY <1>1 DEF Column, Pays
  <2>3. \A q \in 1..NP : Column(L, m)[q] <= 0 /\ Column(L, m)[q] \in Nat
    BY <2>1, <2>2, CumMonotone
  <2>4. Column(L, m)[p] = 0
    BY <2>3 DEF Pays
  <2> QED BY <2>4 DEF Column
<1>3. \A p \in Pays : [L.alloc[p] EXCEPT ![m] = 0] = L.alloc[p]
  BY <1>1, <1>2
<1> QED BY <1>1, <1>3

(* generateForMonth and the replacement by regenerateInvoice: of the month *)
(* nothing is paid.                                                        *)
LEMMA ReplaceKeeps ==
  ASSUME NM \in Nat, NP \in Nat, NEW L, LedgerInv(L), NEW m \in Months, NEW price \in Nat,
         NEW hold \in BOOLEAN, L.paid[m] = 0
  PROVE  LedgerInv(Replace(L, m, price, hold))
<1> DEFINE L2 == Replace(L, m, price, hold)
<1>1. /\ L \in Ledger
      /\ L.alloc \in [Pays -> [Months -> Nat]]
      /\ L.price \in [Months -> Nat] /\ L.paid \in [Months -> Nat]
      /\ L.status \in [Months -> Status] /\ L.hold \in [Months -> BOOLEAN]
  BY LedgerFields
<1>2. /\ L2.balance = L.balance /\ L2.cash = L.cash /\ L2.adjusted = L.adjusted
      /\ L2.amount = L.amount /\ L2.voided = L.voided /\ L2.deposit = L.deposit
      /\ L2.alloc = [p \in Pays |-> [L.alloc[p] EXCEPT ![m] = 0]]
      /\ L2.paid = [L.paid EXCEPT ![m] = 0]
      /\ L2.hold = [L.hold EXCEPT ![m] = hold]
      /\ L2.price = [L.price EXCEPT ![m] = price]
      /\ L2.status = [L.status EXCEPT ![m] = BuiltStatus(price)]
  BY <1>1, Zenon DEF Replace, Build, Ledger
<1>3. L2.alloc = L.alloc
  BY <1>2, NothingAllocated
<1>4. L2.paid = L.paid
  <2> HIDE DEF L2
  <2> QED BY <1>1, <1>2
<1>5. BuiltStatus(price) \in {"paid", "unpaid"}
      /\ \/ BuiltStatus(price) = "paid" /\ price = 0
         \/ BuiltStatus(price) = DeriveStatus(price, 0)
  BY DEF BuiltStatus, DeriveStatus
<1>6. L2 \in Ledger
  <2>1. /\ L2.price \in [Months -> Nat] /\ L2.status \in [Months -> Status]
        /\ L2.hold \in [Months -> BOOLEAN]
    <3> HIDE DEF L2
    <3>1. BuiltStatus(price) \in Status
      BY <1>5 DEF Status
    <3>2. L2.status \in [Months -> Status]
      BY <1>1, <1>2, <3>1
    <3>3. L2.price \in [Months -> Nat]
      BY <1>1, <1>2
    <3>4. L2.hold \in [Months -> BOOLEAN]
      BY <1>1, <1>2
    <3> QED BY <3>2, <3>3, <3>4
  <2>2. L2.alloc \in [Pays -> [Months -> Nat]] /\ L2.paid \in [Months -> Nat]
    BY <1>1, <1>3, <1>4
  <2> QED BY <1>1, <1>2, <2>1, <2>2, LedgerFields, Zenon DEF Replace, Build, Ledger
<1> HIDE DEF L2
<1>7. ASSUME NEW n \in Months
      PROVE  /\ L2.paid[n] <= L2.price[n]
             /\ L2.status[n] \in {"none", "cancelled"} => L2.paid[n] = 0
             /\ L2.status[n] \notin {"none", "cancelled"} =>
                   \/ L2.status[n] = DeriveStatus(L2.price[n], L2.paid[n])
                   \/ L2.status[n] = "paid" /\ L2.price[n] = 0
  <2>1. CASE n = m
    <3>1. L2.paid[n] = 0 /\ L2.price[n] = price /\ L2.status[n] = BuiltStatus(price)
      BY <1>1, <1>2, <1>4, <2>1
    <3> QED BY <1>5, <3>1
  <2>2. CASE n # m
    <3>1. L2.paid[n] = L.paid[n] /\ L2.price[n] = L.price[n] /\ L2.status[n] = L.status[n]
      BY <1>1, <1>2, <1>4, <2>2
    <3> QED BY <3>1, MonthFacts
  <2> QED BY <2>1, <2>2
<1>8. LedgerInv(L2)
  BY <1>2, <1>3, <1>4, <1>6, <1>7, ResealKeeps
<1> QED BY <1>8 DEF L2

(* generateForMonth.                                                       *)
LEMMA BuildKeeps ==
  ASSUME NM \in Nat, NP \in Nat, NEW L, LedgerInv(L), NEW m \in Months, NEW price \in Nat,
         L.paid[m] = 0
  PROVE  LedgerInv(Build(L, m, price))
<1> DEFINE r == Build(L, m, price)
<1>1. L \in Ledger /\ L.hold \in [Months -> BOOLEAN]
  BY LedgerFields
<1>2. r.hold = L.hold /\ r.alloc = L.alloc /\ r = [f \in DOMAIN r |-> r[f]]
  BY <1>1 DEF Build, Ledger
<1>3. [L.hold EXCEPT ![m] = L.hold[m]] = L.hold /\ L.hold[m] \in BOOLEAN
  BY <1>1
<1>4. [p \in Pays |-> [L.alloc[p] EXCEPT ![m] = 0]] = L.alloc
  BY NothingAllocated
<1> HIDE DEF r
<1>5. [r EXCEPT !.hold[m] = L.hold[m], !.alloc = L.alloc] = r
  BY <1>2, <1>3
<1>6. Replace(L, m, price, L.hold[m]) = r
  BY <1>4, <1>5, Zenon DEF Replace, r
<1> QED BY <1>3, <1>6, ReplaceKeeps DEF r

(* refundDeposit.                                                          *)
LEMMA RefundKeeps ==
  ASSUME NM \in Nat, NP \in Nat, NEW L, LedgerInv(L), NEW a \in Nat, a <= L.balance
  PROVE  LedgerInv(RefundDeposit(L, a))
<1> DEFINE L2 == RefundDeposit(L, a)
           held == Cum(L.deposit, NP)
           out == [p \in Pays |-> Overlap(held[p - 1], held[p], 0, a)]
<1>1. /\ L \in Ledger
      /\ L.balance \in Int /\ L.adjusted \in Int /\ L.cash \in Int
      /\ L.amount \in [Pays -> Nat] /\ L.deposit \in [Pays -> Nat]
  BY LedgerFields
<1>2. /\ L2.balance = L.balance - a /\ L2.cash = L.cash - a /\ L2.adjusted = L.adjusted
      /\ L2.amount = L.amount /\ L2.voided = L.voided /\ L2.alloc = L.alloc
      /\ L2.price = L.price /\ L2.paid = L.paid /\ L2.status = L.status /\ L2.hold = L.hold
      /\ L2.deposit = [p \in Pays |-> L.deposit[p] - Overlap(held[p - 1], held[p], 0, a)]
  BY <1>1, Zenon DEF RefundDeposit, Ledger
<1>3. ASSUME NEW p \in Pays
      PROVE  /\ L.deposit[p] \in Nat /\ out[p] \in Nat /\ out[p] <= L.deposit[p]
             /\ L2.deposit[p] = L.deposit[p] - out[p]
  <2>1. p \in 1..NP /\ p \in 0..NP /\ p - 1 \in 0..NP /\ L.deposit[p] \in Nat
    BY <1>1 DEF Pays
  <2>2. held[p] = held[p - 1] + L.deposit[p] /\ held[p - 1] \in Nat
    <3>1. L.deposit \in [1..NP -> Nat] /\ L.deposit \in [1..NP -> Int]
      BY <1>1 DEF Pays
    <3>2. held[p] = held[p - 1] + L.deposit[p]
      BY <2>1, CumDef
    <3>3. held[p - 1] \in Int /\ held[p - 1] >= 0
      BY <2>1, <3>1, CumType, CumMonotone
    <3> QED BY <3>2, <3>3
  <2>3. out[p] = Overlap(held[p - 1], held[p], 0, a) /\ L2.deposit[p] = L.deposit[p] - out[p]
    BY <1>2
  <2> HIDE DEF held, out, L2
  <2> QED BY <2>1, <2>2, <2>3 DEF Overlap, Least, Most
<1> HIDE DEF out
<1>4. L2 \in Ledger
  <2>1. L2.balance \in Int /\ L2.cash \in Int
    BY <1>1, <1>2
  <2>2. L2.deposit \in [Pays -> Nat]
    BY <1>2, <1>3
  <2> QED BY <1>1, <1>2, <2>1, <2>2, Zenon DEF RefundDeposit, Ledger
<1> HIDE DEF L2
<1>5. ASSUME NEW m \in Months PROVE MonthOK(L2, m)
  <2>1. MonthOK(L, m) /\ Column(L2, m) = Column(L, m)
    BY <1>2 DEF LedgerInv, Column
  <2> QED BY <1>2, <2>1, Zenon DEF MonthOK
<1>6. ASSUME NEW p \in Pays PROVE ChequeOK(L2, p)
  <2>1. ChequeOK(L, p) /\ L.amount[p] \in Nat /\ Total(L.alloc[p], NM) \in Nat
    BY <1>1, LedgerSums DEF LedgerInv
  <2>2. L2.amount[p] = L.amount[p] /\ L2.voided[p] = L.voided[p] /\ L2.alloc[p] = L.alloc[p]
    BY <1>2
  <2>3. L2.deposit[p] \in Nat /\ L2.deposit[p] <= L.deposit[p] /\ L.deposit[p] \in Nat
    BY <1>3
  <2> QED BY <2>1, <2>2, <2>3 DEF ChequeOK
<1>7. BalanceIsDerived(L2)
  <2>1. Total(L.paid, NM) \in Nat /\ BalanceIsDerived(L)
    BY <1>1, LedgerSums DEF LedgerInv
  <2> QED BY <1>1, <1>2, <2>1 DEF BalanceIsDerived
<1>8. LedgerInv(L2)
  BY <1>4, <1>5, <1>6, <1>7 DEF LedgerInv
<1> QED BY <1>8 DEF L2

(* adjustBalance.                                                          *)
LEMMA AdjustKeeps ==
  ASSUME NM \in Nat, NP \in Nat, NEW L, LedgerInv(L), NEW d \in Int, L.balance + d >= 0
  PROVE  LedgerInv([L EXCEPT !.balance = @ + d, !.adjusted = @ + d])
<1> DEFINE L2 == [L EXCEPT !.balance = @ + d, !.adjusted = @ + d]
<1>1. L \in Ledger /\ L.balance \in Int /\ L.adjusted \in Int /\ L.cash \in Int
  BY LedgerFields
<1>2. /\ L2.balance = L.balance + d /\ L2.adjusted = L.adjusted + d /\ L2.cash = L.cash
      /\ L2.amount = L.amount /\ L2.voided = L.voided /\ L2.alloc = L.alloc
      /\ L2.price = L.price /\ L2.paid = L.paid /\ L2.status = L.status /\ L2.hold = L.hold
      /\ L2.deposit = L.deposit
  BY <1>1, Zenon DEF Ledger
<1>3. L2 \in Ledger
  <2>1. L2.balance \in Int /\ L2.adjusted \in Int
    BY <1>1, <1>2
  <2> QED BY <1>1, <1>2, <2>1, LedgerFields, Zenon DEF Ledger
<1> HIDE DEF L2
<1>4. ASSUME NEW m \in Months PROVE MonthOK(L2, m)
  <2>1. MonthOK(L, m) /\ Column(L2, m) = Column(L, m)
    BY <1>2 DEF LedgerInv, Column
  <2> QED BY <1>2, <2>1, Zenon DEF MonthOK
<1>5. ASSUME NEW p \in Pays PROVE ChequeOK(L2, p)
  BY <1>2, Zenon DEF LedgerInv, ChequeOK
<1>6. BalanceIsDerived(L2)
  <2>1. Total(L.paid, NM) \in Nat /\ BalanceIsDerived(L)
    BY <1>1, LedgerSums DEF LedgerInv
  <2> QED BY <1>1, <1>2, <2>1 DEF BalanceIsDerived
<1>7. LedgerInv(L2)
  BY <1>3, <1>4, <1>5, <1>6 DEF LedgerInv
<1> QED BY <1>7 DEF L2

(* settleDepositInTx in its three forms.                                   *)
LEMMA SettleKeeps ==
  ASSUME NM \in Nat, NP \in Nat, NEW L, LedgerInv(L), NEW ignoreHoldFor
  PROVE  LedgerInv(SettleIgnoring(L, ignoreHoldFor)) /\ LedgerInv(Settle(L))
<1>1. ASSUME NEW H PROVE LedgerInv(SettleIgnoring(L, H))
  <2>1. LedgerInv(Spend(L, Settleable(L, H)))
    BY SpendKeeps DEF Settleable
  <2> QED BY <2>1 DEF SettleIgnoring
<1> QED BY <1>1 DEF Settle

(* Lifting the holds of a student.                                         *)
LEMMA FreedKeeps ==
  ASSUME NEW L, LedgerInv(L)
  PROVE  LedgerInv([L EXCEPT !.hold = [m \in Months |-> FALSE]])
<1> DEFINE L2 == [L EXCEPT !.hold = [m \in Months |-> FALSE]]
<1>1. L \in Ledger
  BY LedgerFields
<1>2. /\ L2.balance = L.balance /\ L2.adjusted = L.adjusted /\ L2.cash = L.cash
      /\ L2.amount = L.amount /\ L2.voided = L.voided /\ L2.alloc = L.alloc
      /\ L2.price = L.price /\ L2.paid = L.paid /\ L2.status = L.status
      /\ L2.deposit = L.deposit /\ L2.hold = [m \in Months |-> FALSE]
  BY <1>1, Zenon DEF Ledger
<1>3. L2 \in Ledger
  <2>1. L2.hold \in [Months -> BOOLEAN]
    BY <1>2
  <2> QED BY <1>1, <1>2, <2>1, LedgerFields, Zenon DEF Ledger
<1> HIDE DEF L2
<1>4. LedgerInv(L2)
  <2>1. ASSUME NEW m \in Months
        PROVE  /\ L2.paid[m] <= L2.price[m]
               /\ L2.status[m] \in {"none", "cancelled"} => L2.paid[m] = 0
               /\ L2.status[m] \notin {"none", "cancelled"} =>
                     \/ L2.status[m] = DeriveStatus(L2.price[m], L2.paid[m])
                     \/ L2.status[m] = "paid" /\ L2.price[m] = 0
    BY <1>2, MonthFacts
  <2> QED BY <1>2, <1>3, <2>1, ResealKeeps
<1> QED BY <1>4 DEF L2

(* applyDepositsForStudent, the administrator's settlement.                *)
LEMMA SettleManuallyKeeps ==
  ASSUME NM \in Nat, NP \in Nat, NEW L, LedgerInv(L)
  PROVE  LedgerInv(SettleManually(L))
<1> DEFINE L2 == [L EXCEPT !.hold = [m \in Months |-> FALSE]]
<1>1. LedgerInv(L2)
  BY FreedKeeps
<1> HIDE DEF L2
<1>2. LedgerInv(Spend(L2, Settleable(L2, {})))
  BY <1>1, SpendKeeps DEF Settleable
<1> QED BY <1>2, Zenon DEF SettleManually, L2

(* A student without rows.                                                 *)
LEMMA EmptyIsRight ==
  ASSUME NM \in Nat, NP \in Nat
  PROVE  LedgerInv(EmptyLedger)
<1> DEFINE L == EmptyLedger
<1>1. L \in Ledger
  BY DEF EmptyLedger, Ledger, Status
<1>2. ASSUME NEW m \in Months PROVE MonthOK(L, m)
  <2>1. \A q \in 1..NP : Column(L, m)[q] = 0
    BY DEF Column, Pays, EmptyLedger
  <2>2. Total(Column(L, m), NP) = 0
    BY <2>1, TotalZero
  <2>3. L.paid[m] = 0 /\ L.price[m] = 0 /\ L.status[m] = "none"
    BY DEF EmptyLedger
  <2> QED BY <2>2, <2>3 DEF MonthOK
<1>3. ASSUME NEW p \in Pays PROVE ChequeOK(L, p)
  <2>1. \A m \in 1..NM : L.alloc[p][m] = 0
    BY DEF Months, EmptyLedger
  <2>2. Total(L.alloc[p], NM) = 0
    BY <2>1, TotalZero
  <2>3. L.amount[p] = 0 /\ L.deposit[p] = 0 /\ ~L.voided[p]
    BY DEF EmptyLedger
  <2> QED BY <2>2, <2>3 DEF ChequeOK
<1>4. BalanceIsDerived(L)
  <2>1. \A m \in 1..NM : L.paid[m] = 0
    BY DEF Months, EmptyLedger
  <2>2. Total(L.paid, NM) = 0
    BY <2>1, TotalZero
  <2>3. L.balance = 0 /\ L.cash = 0 /\ L.adjusted = 0
    BY DEF EmptyLedger
  <2> QED BY <2>2, <2>3 DEF BalanceIsDerived
<1> QED BY <1>1, <1>2, <1>3, <1>4 DEF LedgerInv

-----------------------------------------------------------------------------
(* The inductive invariant: every ledger is right, whatever the jobs in    *)
(* flight have read and whoever is due.                                    *)
IInv == RowsTyped /\ \A s \in Students : LedgerInv(ledger[s])

(* A transaction that leaves a right ledger for one student keeps IInv.    *)
LEMMA CommitKeeps ==
  ASSUME IInv, NEW s \in Students, NEW L, LedgerInv(L), Commit(s, L),
         jobs' \subseteq Job, due' \subseteq Students
  PROVE  IInv'
<1>1. L \in Ledger /\ ledger \in [Students -> Ledger] /\ ledger' = [ledger EXCEPT ![s] = L]
  BY DEF IInv, RowsTyped, Commit, LedgerInv
<1>2. ledger' \in [Students -> Ledger]
  BY <1>1
<1>3. ASSUME NEW u \in Students PROVE LedgerInv(ledger'[u])
  <2>1. ledger'[u] = IF u = s THEN L ELSE ledger[u]
    BY <1>1
  <2> QED BY <2>1 DEF IInv
<1> QED BY <1>2, <1>3 DEF IInv, RowsTyped

(* Every step keeps IInv.                                                  *)
LEMMA StepKeeps ==
  ASSUME IInv, [Next]_vars
  PROVE  IInv'
<1>1. NM \in Nat /\ NP \in Nat
  BY SizesAssumption
<1>2. Amounts \subseteq Nat \ {0} /\ Prices \subseteq Nat /\ Adjustments \subseteq Int
  BY MoneyAssumption
<1>3. /\ jobs \subseteq Job /\ due \subseteq Students /\ ledger \in [Students -> Ledger]
      /\ \A s \in Students : LedgerInv(ledger[s])
  BY DEF IInv, RowsTyped
<1>4. ASSUME NEW j \in jobs
      PROVE  /\ j.student \in Students /\ j.month \in Months /\ j.price \in Nat /\ j.paid \in Nat
             /\ j.hold \in BOOLEAN /\ LedgerInv(ledger[j.student])
  BY <1>3 DEF Job
<1>5. ASSUME NEW s \in Students, NEW p \in Pays, NEW a \in Amounts, CreatePayment(s, p, a)
      PROVE  IInv'
  <2>1. LedgerInv(CreatePaymentInTx(ledger[s], p, a))
    BY <1>1, <1>2, <1>3, <1>5, CreateKeeps DEF CreatePayment
  <2>2. LedgerInv(Settle(CreatePaymentInTx(ledger[s], p, a)))
    BY <1>1, <2>1, SettleKeeps
  <2> QED BY <1>3, <1>5, <2>2, CommitKeeps DEF CreatePayment
<1>6. ASSUME NEW s \in Students, NEW p \in Pays, VoidPayment(s, p)
      PROVE  IInv'
  <2>1. LedgerInv(VoidPaymentInTx(ledger[s], p))
    BY <1>1, <1>3, <1>6, VoidKeeps DEF VoidPayment
  <2>2. LedgerInv(Settle(VoidPaymentInTx(ledger[s], p)))
    BY <1>1, <2>1, SettleKeeps
  <2> QED BY <1>3, <1>6, <2>2, CommitKeeps DEF VoidPayment
<1>7. ASSUME NEW s \in Students, NEW p \in Pays, NEW t \in Students, NEW q \in Pays,
             NEW a \in Amounts, EditPayment(s, p, t, q, a)
      PROVE  IInv'
  <2> DEFINE voided == VoidPaymentInTx(ledger[s], p)
  <2>1. LedgerInv(voided)
    BY <1>1, <1>3, <1>7, VoidKeeps DEF EditPayment
  <2>2. ledger[t].amount[q] = 0 /\ jobs' = jobs /\ due' = due /\ p \in Pays
    BY <1>7 DEF EditPayment
  <2>3. CASE t = s
    <3>1. voided.amount = ledger[s].amount
      <4>1. PICK L \in Ledger : L = ledger[s]
        BY <1>3
      <4>2. VoidPaymentInTx(L, p).amount = L.amount
        BY Zenon DEF VoidPaymentInTx, Ledger
      <4> QED BY <4>1, <4>2
    <3>2. Commit(s, Settle(CreatePaymentInTx(voided, q, a)))
      BY <1>7, <2>3 DEF EditPayment
    <3> HIDE DEF voided
    <3>3. LedgerInv(CreatePaymentInTx(voided, q, a))
      BY <1>1, <1>2, <2>1, <2>2, <2>3, <3>1, CreateKeeps
    <3>4. LedgerInv(Settle(CreatePaymentInTx(voided, q, a)))
      BY <1>1, <3>3, SettleKeeps
    <3> QED BY <1>3, <2>2, <3>2, <3>4, CommitKeeps
  <2>4. CASE t # s
    <3> DEFINE Ls == Settle(voided)
               Lt == Settle(CreatePaymentInTx(ledger[t], q, a))
    <3>1. ledger' = [ledger EXCEPT ![s] = Ls, ![t] = Lt]
      BY <1>7, <2>4 DEF EditPayment
    <3>2. LedgerInv(Ls)
      BY <1>1, <2>1, SettleKeeps
    <3>3. LedgerInv(CreatePaymentInTx(ledger[t], q, a))
      BY <1>1, <1>2, <1>3, <2>2, CreateKeeps
    <3>4. LedgerInv(Lt)
      BY <1>1, <3>3, SettleKeeps
    <3> HIDE DEF Ls, Lt
    <3>5. Ls \in Ledger /\ Lt \in Ledger
      BY <3>2, <3>4 DEF LedgerInv
    <3>6. ledger' \in [Students -> Ledger]
      BY <1>3, <3>1, <3>5
    <3>7. ASSUME NEW u \in Students PROVE LedgerInv(ledger'[u])
      <4>1. ledger'[u] = IF u = t THEN Lt ELSE IF u = s THEN Ls ELSE ledger[u]
        BY <1>3, <3>1
      <4> QED BY <1>3, <3>2, <3>4, <4>1
    <3> QED BY <1>3, <2>2, <3>6, <3>7 DEF IInv, RowsTyped
  <2> QED BY <2>3, <2>4
<1>8. ASSUME NEW s \in Students, NEW p \in Pays, NEW m \in Months, NEW n \in Months,
             NEW c \in 1..ledger[s].alloc[p][m], NEW k \in 0..c, Rework(s, p, m, c, k, n)
      PROVE  IInv'
  <2>1. ledger[s].alloc[p][m] \in Nat
    BY <1>3, LedgerFields
  <2>2. c \in Nat /\ c > 0 /\ k \in Nat /\ k <= c
    BY <2>1
  <2>3. LedgerInv(ReworkAllocation(ledger[s], p, m, c, k, n))
    BY <1>1, <1>3, <1>8, <2>2, ReworkKeeps DEF Rework
  <2>4. LedgerInv(Settle(ReworkAllocation(ledger[s], p, m, c, k, n)))
    BY <1>1, <2>3, SettleKeeps
  <2> QED BY <1>3, <1>8, <2>4, CommitKeeps DEF Rework
<1>9. ASSUME NEW s \in Students, NEW a \in Money(s), Refund(s, a)
      PROVE  IInv'
  <2>1. ledger[s].balance \in Int
    BY <1>3, LedgerFields
  <2>2. a \in Nat /\ a <= ledger[s].balance
    BY <1>9, <2>1 DEF Money, Most, Refund
  <2>3. LedgerInv(RefundDeposit(ledger[s], a))
    BY <1>1, <1>3, <2>2, RefundKeeps
  <2> QED BY <1>3, <1>9, <2>3, CommitKeeps DEF Refund
<1>10. ASSUME NEW s \in Students, NEW d \in Adjustments, AdjustBalance(s, d)
       PROVE  IInv'
  <2>1. LedgerInv([ledger[s] EXCEPT !.balance = @ + d, !.adjusted = @ + d])
    BY <1>1, <1>2, <1>3, <1>10, AdjustKeeps DEF AdjustBalance
  <2> QED BY <1>3, <1>10, <2>1, CommitKeeps DEF AdjustBalance
<1>11. ASSUME NEW s \in Students, NEW m \in Months, CancelInvoice(s, m)
       PROVE  IInv'
  <2>1. LedgerInv(Settle(Cancel(ledger[s], m)))
    BY <1>1, <1>3, CancelKeeps, SettleKeeps
  <2> QED BY <1>3, <1>11, <2>1, CommitKeeps DEF CancelInvoice
<1>12. ASSUME NEW s \in Students, NEW m \in Months, RestoreInvoice(s, m)
       PROVE  IInv'
  <2>1. LedgerInv(Settle(Restore(ledger[s], m)))
    BY <1>1, <1>3, RestoreKeeps, SettleKeeps
  <2> QED BY <1>3, <1>12, <2>1, CommitKeeps DEF RestoreInvoice
<1>13. ASSUME NEW s \in Students, NEW m \in Months, NEW price \in Prices,
              GenerateInvoice(s, m, price)
       PROVE  IInv'
  <2>1. ledger[s].paid[m] = 0
    BY <1>3, <1>13, MonthFacts DEF GenerateInvoice
  <2>2. LedgerInv(Build(ledger[s], m, price))
    BY <1>1, <1>2, <1>3, <2>1, BuildKeeps
  <2>3. jobs' = jobs /\ due' \subseteq Students /\ Commit(s, Build(ledger[s], m, price))
    BY <1>3, <1>13 DEF GenerateInvoice
  <2> QED BY <1>3, <2>2, <2>3, CommitKeeps
<1>14. ASSUME NEW s \in Students, NEW m \in Months, NEW auto \in BOOLEAN, NEW price \in Prices,
              StartRegenerate(s, m, auto, price)
       PROVE  IInv'
  <2>1. ledger[s].paid[m] \in Nat /\ ledger[s].hold[m] \in BOOLEAN
    BY <1>3, LedgerFields
  <2>2. [student |-> s, month |-> m, auto |-> auto, paid |-> ledger[s].paid[m],
         hold |-> ledger[s].hold[m], price |-> price] \in Job
    BY <1>2, <2>1 DEF Job
  <2>3. jobs' \subseteq Job /\ ledger' = ledger /\ due' = due
    BY <1>3, <1>14, <2>2 DEF StartRegenerate
  <2> QED BY <1>3, <2>3 DEF IInv, RowsTyped
<1>15. ASSUME NEW s \in Students, ApplyDue(s)
       PROVE  IInv'
  <2>1. LedgerInv(Settle(ledger[s]))
    BY <1>1, <1>3, SettleKeeps
  <2>2. jobs' = jobs /\ due' \subseteq Students /\ Commit(s, Settle(ledger[s]))
    BY <1>3, <1>15 DEF ApplyDue
  <2> QED BY <1>3, <2>1, <2>2, CommitKeeps
<1>16. ASSUME NEW s \in Students, ApplyManually(s)
       PROVE  IInv'
  <2>1. LedgerInv(SettleManually(ledger[s]))
    BY <1>1, <1>3, SettleManuallyKeeps
  <2> QED BY <1>3, <1>16, <2>1, CommitKeeps DEF ApplyManually
<1>17. ASSUME NEW j \in jobs, CommitReplace(j)
       PROVE  IInv'
  <2>1. LedgerInv(Replace(ledger[j.student], j.month, j.price, j.hold))
    BY <1>1, <1>4, <1>17, ReplaceKeeps DEF CommitReplace
  <2>2. LedgerInv(Settle(Replace(ledger[j.student], j.month, j.price, j.hold)))
    BY <1>1, <2>1, SettleKeeps
  <2>3. /\ jobs' \subseteq Job /\ due' = due
        /\ Commit(j.student, Settle(Replace(ledger[j.student], j.month, j.price, j.hold)))
    BY <1>3, <1>17 DEF CommitReplace
  <2> QED BY <1>3, <1>4, <2>2, <2>3, CommitKeeps
<1>18. ASSUME NEW j \in jobs, CommitAmendBelow(j)
       PROVE  IInv'
  <2> DEFINE L2 == SettleIgnoring(AmendBelow(ledger[j.student], j.month, j.price), {j.month})
  <2>1. LedgerInv(AmendBelow(ledger[j.student], j.month, j.price))
    BY <1>1, <1>4, AmendBelowKeeps
  <2>2. LedgerInv(L2)
    BY <1>1, <2>1, SettleKeeps
  <2>3. jobs' \subseteq Job /\ due' = due /\ Commit(j.student, L2)
    BY <1>3, <1>18 DEF CommitAmendBelow
  <2> QED BY <1>3, <1>4, <2>2, <2>3, CommitKeeps
<1>19. ASSUME NEW j \in jobs, CommitAmendInPlace(j)
       PROVE  IInv'
  <2> DEFINE L2 == Settle(AmendInPlace(ledger[j.student], j.month, j.price))
  <2>1. LedgerInv(AmendInPlace(ledger[j.student], j.month, j.price))
    BY <1>4, <1>19, AmendInPlaceKeeps DEF CommitAmendInPlace
  <2>2. LedgerInv(L2)
    BY <1>1, <2>1, SettleKeeps
  <2>3. jobs' \subseteq Job /\ due' = due /\ Commit(j.student, L2)
    BY <1>3, <1>19 DEF CommitAmendInPlace
  <2> QED BY <1>3, <1>4, <2>2, <2>3, CommitKeeps
<1>20. ASSUME NEW j \in jobs, Conflict(j) PROVE IInv'
  <2>1. jobs' \subseteq Job /\ ledger' = ledger /\ due' = due
    BY <1>3, <1>20 DEF Conflict
  <2> QED BY <1>3, <2>1 DEF IInv, RowsTyped
<1>21. CASE StartDailyPass \/ Restart
  <2>1. jobs' \subseteq Job /\ ledger' = ledger /\ due' \subseteq Students
    BY <1>3, <1>21 DEF StartDailyPass, Restart
  <2> QED BY <1>3, <2>1 DEF IInv, RowsTyped
<1>22. CASE UNCHANGED vars
  BY <1>3, <1>22 DEF IInv, RowsTyped, vars
<1>23. ASSUME NEW s \in Students, FailDue(s) PROVE IInv'
  <2>1. jobs' \subseteq Job /\ ledger' = ledger /\ due' \subseteq Students
    BY <1>3, <1>23 DEF FailDue
  <2> QED BY <1>3, <2>1 DEF IInv, RowsTyped
<1> QED
  BY <1>5, <1>6, <1>7, <1>8, <1>9, <1>10, <1>11, <1>12, <1>13, <1>14, <1>15, <1>16, <1>17,
     <1>18, <1>19, <1>20, <1>21, <1>22, <1>23, Zenon DEF Next

(* The inductive invariant is what the two invariants of the runs say.     *)
LEMMA IInvMeans ==
  IInv => RowsTyped /\ LedgersAgree
<1> SUFFICES ASSUME IInv, NEW s \in Students
             PROVE  LET L == ledger[s] IN
                    /\ PaidIsAllocated(L) /\ NoOverpayment(L) /\ CancelledHoldsNothing(L)
                    /\ StatusAgrees(L) /\ ChequesAreCovered(L) /\ BalanceIsDerived(L)
  BY DEF IInv, LedgersAgree
<1> DEFINE L == ledger[s]
<1>1. LedgerInv(L)
  BY DEF IInv
<1> HIDE DEF L
<1>2. PaidIsAllocated(L) /\ NoOverpayment(L) /\ CancelledHoldsNothing(L) /\ StatusAgrees(L)
  BY <1>1, Zenon DEF LedgerInv, MonthOK, Column,
     PaidIsAllocated, NoOverpayment, CancelledHoldsNothing, StatusAgrees
<1>3. ChequesAreCovered(L) /\ BalanceIsDerived(L)
  BY <1>1, Zenon DEF LedgerInv, ChequeOK, ChequesAreCovered
<1> QED BY <1>2, <1>3 DEF L

(* What a cheque is worth was entered with it: every cheque number is free *)
(* or worth something in A, which holds the amounts a cashier may enter.   *)
Worths(L, A) == "amount" \in DOMAIN L /\ L.amount \in [Pays -> A \cup {0}]
WorthIn(A) == \A s \in Students : Worths(ledger[s], A)

(* No part of an operation but the entry of a cheque writes an amount.     *)
LEMMA WorthStays ==
  ASSUME NEW A, NEW L, Worths(L, A)
  PROVE  /\ \A F : Worths(Spend(L, F), A)
         /\ \A H : Worths(SettleIgnoring(L, H), A)
         /\ Worths(Settle(L), A) /\ Worths(SettleManually(L), A)
         /\ \A p : Worths(VoidPaymentInTx(L, p), A)
         /\ \A p, a : a \in A => Worths(CreatePaymentInTx(L, p, a), A)
         /\ \A p, m, c, k, n : Worths(ReworkAllocation(L, p, m, c, k, n), A)
         /\ \A a : Worths(RefundDeposit(L, a), A)
         /\ \A d : Worths([L EXCEPT !.balance = @ + d, !.adjusted = @ + d], A)
         /\ \A m : Worths(Cancel(L, m), A) /\ Worths(Restore(L, m), A)
         /\ \A m, price : /\ Worths(Build(L, m, price), A)
                           /\ Worths(AmendBelow(L, m, price), A)
                           /\ Worths(AmendInPlace(L, m, price), A)
         /\ \A m, price, hold : Worths(Replace(L, m, price, hold), A)
<1>1. ASSUME NEW K, Worths(K, A), NEW F PROVE Worths(Spend(K, F), A)
  BY <1>1, Zenon DEF Worths, Spend
<1>2. ASSUME NEW H PROVE Worths(SettleIgnoring(L, H), A)
  BY <1>1 DEF SettleIgnoring
<1>3. Worths(SettleManually(L), A)
  <2> DEFINE freed == [L EXCEPT !.hold = [m \in Months |-> FALSE]]
  <2>1. Worths(freed, A)
    BY Zenon DEF Worths
  <2> HIDE DEF freed
  <2>2. Worths(Spend(freed, Settleable(freed, {})), A)
    BY <1>1, <2>1
  <2> QED BY <2>2 DEF SettleManually, freed
<1>4. ASSUME NEW p PROVE Worths(VoidPaymentInTx(L, p), A)
  BY Zenon DEF Worths, VoidPaymentInTx
<1>5. ASSUME NEW p, NEW a \in A PROVE Worths(CreatePaymentInTx(L, p, a), A)
  <2> DEFINE K == CreatePaymentInTx(L, p, a)
  <2>1. "amount" \in DOMAIN K /\ K.amount = [L.amount EXCEPT ![p] = a]
    BY Zenon DEF Worths, CreatePaymentInTx
  <2> HIDE DEF K
  <2>2. K.amount \in [Pays -> A \cup {0}]
    BY <2>1 DEF Worths
  <2> QED BY <2>1, <2>2 DEF Worths, K
<1>6. ASSUME NEW p, NEW m, NEW c, NEW k, NEW n PROVE Worths(ReworkAllocation(L, p, m, c, k, n), A)
  BY Zenon DEF Worths, ReworkAllocation
<1>7. ASSUME NEW a PROVE Worths(RefundDeposit(L, a), A)
  BY Zenon DEF Worths, RefundDeposit
<1>8. ASSUME NEW d PROVE Worths([L EXCEPT !.balance = @ + d, !.adjusted = @ + d], A)
  BY Zenon DEF Worths
<1>9. ASSUME NEW m PROVE Worths(Cancel(L, m), A) /\ Worths(Restore(L, m), A)
  BY Zenon DEF Worths, Cancel, ReleaseInvoiceAllocations, Restore
<1>10. ASSUME NEW m, NEW price
       PROVE  /\ Worths(Build(L, m, price), A) /\ Worths(AmendBelow(L, m, price), A)
              /\ Worths(AmendInPlace(L, m, price), A)
  BY Zenon DEF Worths, Build, AmendBelow, ReleaseInvoiceAllocations, AmendInPlace
<1>11. ASSUME NEW m, NEW price, NEW hold PROVE Worths(Replace(L, m, price, hold), A)
  BY Zenon DEF Worths, Build, Replace
<1>12. Worths(Settle(L), A)
  BY <1>2 DEF Settle
<1> QED BY <1>1, <1>2, <1>3, <1>4, <1>5, <1>6, <1>7, <1>8, <1>9, <1>10, <1>11, <1>12

(* A transaction that leaves right amounts leaves them right.              *)
LEMMA WorthCommit ==
  ASSUME IInv, NEW A, WorthIn(A), NEW s \in Students, NEW L, Commit(s, L), Worths(L, A)
  PROVE  WorthIn(A)'
<1>1. ledger \in [Students -> Ledger] /\ ledger' = [ledger EXCEPT ![s] = L]
  BY DEF IInv, RowsTyped, Commit
<1>2. ASSUME NEW u \in Students PROVE Worths(ledger'[u], A)
  <2>1. ledger'[u] = IF u = s THEN L ELSE ledger[u]
    BY <1>1
  <2> QED BY <2>1 DEF WorthIn
<1> QED BY <1>2 DEF WorthIn

(* Every step keeps the amounts.                                           *)
LEMMA StepWorth ==
  ASSUME IInv, NEW A, Amounts \subseteq A, WorthIn(A), [Next]_vars
  PROVE  WorthIn(A)'
<1>1. /\ jobs \subseteq Job /\ ledger \in [Students -> Ledger]
      /\ \A s \in Students : Worths(ledger[s], A)
  BY DEF IInv, RowsTyped, WorthIn
<1>2. ASSUME NEW s \in Students, NEW p \in Pays, NEW a \in Amounts, CreatePayment(s, p, a)
      PROVE  WorthIn(A)'
  <2>1. Worths(CreatePaymentInTx(ledger[s], p, a), A)
    BY <1>1, WorthStays
  <2>2. Worths(Settle(CreatePaymentInTx(ledger[s], p, a)), A)
    BY <2>1, WorthStays
  <2> QED BY <1>2, <2>2, WorthCommit DEF CreatePayment
<1>3. ASSUME NEW s \in Students, NEW p \in Pays, VoidPayment(s, p) PROVE WorthIn(A)'
  <2>1. Worths(VoidPaymentInTx(ledger[s], p), A)
    BY <1>1, WorthStays
  <2>2. Worths(Settle(VoidPaymentInTx(ledger[s], p)), A)
    BY <2>1, WorthStays
  <2> QED BY <1>3, <2>2, WorthCommit DEF VoidPayment
<1>4. ASSUME NEW s \in Students, NEW p \in Pays, NEW t \in Students, NEW q \in Pays,
             NEW a \in Amounts, EditPayment(s, p, t, q, a)
      PROVE  WorthIn(A)'
  <2> DEFINE voided == VoidPaymentInTx(ledger[s], p)
  <2>1. Worths(voided, A)
    BY <1>1, WorthStays
  <2>2. CASE t = s
    <3>1. Commit(s, Settle(CreatePaymentInTx(voided, q, a)))
      BY <1>4, <2>2 DEF EditPayment
    <3> HIDE DEF voided
    <3>2. Worths(CreatePaymentInTx(voided, q, a), A)
      BY <2>1, WorthStays
    <3>3. Worths(Settle(CreatePaymentInTx(voided, q, a)), A)
      BY <3>2, WorthStays
    <3> QED BY <3>1, <3>3, WorthCommit
  <2>3. CASE t # s
    <3> DEFINE Ls == Settle(voided)
               Lt == Settle(CreatePaymentInTx(ledger[t], q, a))
    <3>1. ledger' = [ledger EXCEPT ![s] = Ls, ![t] = Lt]
      BY <1>4, <2>3 DEF EditPayment
    <3>2. Worths(CreatePaymentInTx(ledger[t], q, a), A)
      BY <1>1, WorthStays
    <3>3. Worths(Ls, A) /\ Worths(Lt, A)
      BY <2>1, <3>2, WorthStays
    <3> HIDE DEF Ls, Lt
    <3>4. ASSUME NEW u \in Students PROVE Worths(ledger'[u], A)
      <4>1. ledger'[u] = IF u = t THEN Lt ELSE IF u = s THEN Ls ELSE ledger[u]
        BY <1>1, <3>1
      <4> QED BY <1>1, <3>3, <4>1
    <3> QED BY <3>4 DEF WorthIn
  <2> QED BY <2>2, <2>3
<1>5. ASSUME NEW s \in Students, NEW p, NEW m, NEW c, NEW k, NEW n, Rework(s, p, m, c, k, n)
      PROVE  WorthIn(A)'
  <2>1. Worths(ReworkAllocation(ledger[s], p, m, c, k, n), A)
    BY <1>1, WorthStays
  <2>2. Worths(Settle(ReworkAllocation(ledger[s], p, m, c, k, n)), A)
    BY <2>1, WorthStays
  <2> QED BY <1>5, <2>2, WorthCommit DEF Rework
<1>6. ASSUME NEW s \in Students, NEW a, Refund(s, a) PROVE WorthIn(A)'
  <2>1. Worths(RefundDeposit(ledger[s], a), A)
    BY <1>1, WorthStays
  <2> QED BY <1>6, <2>1, WorthCommit DEF Refund
<1>7. ASSUME NEW s \in Students, NEW d, AdjustBalance(s, d) PROVE WorthIn(A)'
  <2>1. Worths([ledger[s] EXCEPT !.balance = @ + d, !.adjusted = @ + d], A)
    BY <1>1, WorthStays
  <2> QED BY <1>7, <2>1, WorthCommit DEF AdjustBalance
<1>8. ASSUME NEW s \in Students, NEW m, CancelInvoice(s, m) \/ RestoreInvoice(s, m)
      PROVE  WorthIn(A)'
  <2>1. Worths(Cancel(ledger[s], m), A) /\ Worths(Restore(ledger[s], m), A)
    BY <1>1, WorthStays
  <2>2. Worths(Settle(Cancel(ledger[s], m)), A) /\ Worths(Settle(Restore(ledger[s], m)), A)
    BY <2>1, WorthStays
  <2> QED BY <1>8, <2>2, WorthCommit DEF CancelInvoice, RestoreInvoice
<1>9. ASSUME NEW s \in Students, NEW m, NEW price, GenerateInvoice(s, m, price)
      PROVE  WorthIn(A)'
  <2>1. Worths(Build(ledger[s], m, price), A)
    BY <1>1, WorthStays
  <2> QED BY <1>9, <2>1, WorthCommit DEF GenerateInvoice
<1>10. ASSUME NEW s \in Students, ApplyDue(s) \/ ApplyManually(s) PROVE WorthIn(A)'
  <2>1. Worths(Settle(ledger[s]), A) /\ Worths(SettleManually(ledger[s]), A)
    BY <1>1, WorthStays
  <2> QED BY <1>10, <2>1, WorthCommit DEF ApplyDue, ApplyManually
<1>11. ASSUME NEW j \in jobs, CommitReplace(j) \/ CommitAmendBelow(j) \/ CommitAmendInPlace(j)
       PROVE  WorthIn(A)'
  <2>1. j.student \in Students /\ Worths(ledger[j.student], A)
    BY <1>1 DEF Job
  <2>2. /\ Worths(Replace(ledger[j.student], j.month, j.price, j.hold), A)
        /\ Worths(AmendBelow(ledger[j.student], j.month, j.price), A)
        /\ Worths(AmendInPlace(ledger[j.student], j.month, j.price), A)
    BY <2>1, WorthStays
  <2>3. Worths(Settle(Replace(ledger[j.student], j.month, j.price, j.hold)), A)
    BY <2>2, WorthStays
  <2>4. Worths(SettleIgnoring(AmendBelow(ledger[j.student], j.month, j.price), {j.month}), A)
    BY <2>2, WorthStays
  <2>5. Worths(Settle(AmendInPlace(ledger[j.student], j.month, j.price)), A)
    BY <2>2, WorthStays
  <2> QED BY <1>11, <2>1, <2>3, <2>4, <2>5, WorthCommit
          DEF CommitReplace, CommitAmendBelow, CommitAmendInPlace
<1>12. ASSUME ledger' = ledger PROVE WorthIn(A)'
  BY <1>1, <1>12 DEF WorthIn
<1>13. ASSUME NEW s \in Students, NEW m, NEW auto, NEW price, StartRegenerate(s, m, auto, price)
       PROVE  ledger' = ledger
  BY <1>13 DEF StartRegenerate
<1>14. ASSUME NEW j \in jobs, Conflict(j) PROVE ledger' = ledger
  BY <1>14 DEF Conflict
<1>15. StartDailyPass \/ Restart \/ UNCHANGED vars => ledger' = ledger
  BY DEF StartDailyPass, Restart, vars
<1>16. ASSUME NEW s \in Students, FailDue(s) PROVE ledger' = ledger
  BY <1>16 DEF FailDue
<1> QED
  BY <1>2, <1>3, <1>4, <1>5, <1>6, <1>7, <1>8, <1>9, <1>10, <1>11, <1>12, <1>13, <1>14, <1>15,
     <1>16, Zenon DEF Next

(* Amounts are those that were entered, in every reachable state.          *)
LEMMA WorthInduction == Spec => [](IInv /\ WorthIn(Amounts))
<1>1. Init => IInv /\ WorthIn(Amounts)
  <2> SUFFICES ASSUME Init PROVE IInv /\ WorthIn(Amounts)
    OBVIOUS
  <2>1. NM \in Nat /\ NP \in Nat
    BY SizesAssumption
  <2>2. LedgerInv(EmptyLedger) /\ EmptyLedger \in Ledger
    BY <2>1, EmptyIsRight DEF LedgerInv
  <2>3. ledger = [s \in Students |-> EmptyLedger] /\ jobs = {} /\ due = {}
    BY DEF Init
  <2>4. Worths(EmptyLedger, Amounts)
    BY DEF Worths, EmptyLedger
  <2> QED BY <2>2, <2>3, <2>4 DEF IInv, RowsTyped, WorthIn
<1>2. IInv /\ WorthIn(Amounts) /\ [Next]_vars => (IInv /\ WorthIn(Amounts))'
  BY StepKeeps, StepWorth
<1> QED BY <1>1, <1>2, PTL DEF Spec

(* So the ledgers are right in every reachable state.                      *)
LEMMA LedgersInduction == Spec => []IInv
BY WorthInduction, PTL

(* Rows keep their shape: no operation ever makes a deposit, a paid amount *)
(* or an allocation negative, for any number of students, cheques, months. *)
THEOREM LedgersAreTyped == Spec => []TypeOK
<1>1. IInv /\ WorthIn(Amounts) => TypeOK
  BY DEF IInv, WorthIn, Worths, TypeOK
<1> QED BY <1>1, WorthInduction, PTL

(* The ledgers agree: paid amounts are the allocations, nothing is paid    *)
(* twice or beyond its price, cancelled months hold nothing, cheques are   *)
(* covered and the balance is what its definition says.                    *)
THEOREM LedgersAlwaysAgree == Spec => []LedgersAgree
  BY LedgersInduction, IInvMeans, PTL
-----------------------------------------------------------------------------
(***************************************************************************)
(* What the steps do with the money of a student: debt and deposit do not  *)
(* stand side by side, months are paid oldest first, a month that is held  *)
(* is left alone, and each operation is one step of the student's wallet.  *)
(* The ledgers agree in every state (LedgerInv above); this is about what  *)
(* a step does to them.                                                    *)
(***************************************************************************)

(* A later position of a queue has at least as much before it.             *)
LEMMA CumOrdered ==
  ASSUME NEW N \in Nat, NEW f \in [1..N -> Nat], NEW i \in 0..N, NEW j \in 0..N, i <= j
  PROVE  Cum(f, N)[i] <= Cum(f, N)[j]
<1> DEFINE c == Cum(f, N)
           S == {n \in 0..N : i <= n => c[i] <= c[n]}
<1>1. /\ \A n \in 0..N : c[n] \in Int
      /\ \A n \in 1..N : c[n - 1] <= c[n]
      /\ c[0] = 0 /\ \A n \in 0..N : c[n] >= 0
  <2>1. f \in [1..N -> Int]
    OBVIOUS
  <2>2. \A n \in 0..N : c[n] \in Int
    BY <2>1, CumType
  <2> QED BY <2>2, CumMonotone, CumDef
<1> HIDE DEF c
<1>2. 0 \in S
  BY <1>1
<1>3. ASSUME NEW n \in 1..N, n - 1 \in S PROVE n \in S
  <2>1. n \in 0..N /\ n - 1 \in 0..N
    OBVIOUS
  <2>2. CASE i = n
    BY <2>1, <2>2, <1>1
  <2>3. CASE i < n
    BY <1>1, <1>3, <2>1, <2>3
  <2>4. CASE i > n
    BY <2>1, <2>4
  <2> QED BY <2>1, <2>2, <2>3, <2>4
<1>4. j \in S
  BY <1>2, <1>3, SetInduction
<1> QED BY <1>4 DEF c

(* FIFO spends all the money or pays every debt, and money that reaches a  *)
(* month has paid every debt before it.                                    *)
LEMMA FifoFills ==
  ASSUME NM \in Nat, NEW debt \in [Months -> Nat], NEW money \in Nat
  PROVE  /\ \/ Total(AllocateFifo(debt, money), NM) = money
            \/ \A m \in Months : AllocateFifo(debt, money)[m] = debt[m]
         /\ \A m, n \in Months :
               m < n /\ AllocateFifo(debt, money)[n] > 0 =>
                   AllocateFifo(debt, money)[m] = debt[m]
<1> USE DEF Months
<1> DEFINE owed == Cum(debt, NM)
           take == AllocateFifo(debt, money)
<1>1. /\ \A n \in 0..NM : owed[n] \in Nat
      /\ \A n \in 1..NM : owed[n] = owed[n - 1] + debt[n] /\ owed[n] <= owed[NM]
      /\ \A i, j \in 0..NM : i <= j => owed[i] <= owed[j]
  <2>1. debt \in [1..NM -> Int]
    OBVIOUS
  <2>2. \A n \in 0..NM : owed[n] \in Int
    BY <2>1, CumType
  <2>3. /\ \A n \in 0..NM : owed[n] >= 0 /\ owed[n] <= owed[NM]
        /\ \A n \in 1..NM : owed[n] = owed[n - 1] + debt[n]
    BY CumMonotone, CumDef DEF Total
  <2>4. \A i, j \in 0..NM : i <= j => owed[i] <= owed[j]
    BY CumOrdered
  <2> HIDE DEF owed
  <2> QED BY <2>2, <2>3, <2>4
<1>2. take = [m \in Months |-> Overlap(owed[m - 1], owed[m], 0, money)]
  BY DEF AllocateFifo
<1>3. Total(take, NM) = Least(owed[NM], money)
  BY FifoTake DEF Total
<1> HIDE DEF owed, take
<1>4. ASSUME NEW m \in Months
      PROVE  /\ money >= owed[m] => take[m] = debt[m]
             /\ take[m] > 0 => money > owed[m - 1]
  <2>1. PICK a \in Nat, b \in Nat, d \in Nat :
          a = owed[m - 1] /\ b = owed[m] /\ d = debt[m] /\ b = a + d
    <3>1. m - 1 \in 0..NM /\ m \in 0..NM /\ debt[m] \in Nat
      OBVIOUS
    <3> QED BY <1>1, <3>1
  <2>2. take[m] = Overlap(a, b, 0, money) /\ debt[m] = b - a /\ a <= b
    <3>1. d = b - a /\ a <= b
      BY <2>1
    <3>2. take[m] = Overlap(a, b, 0, money)
      BY <1>2, <2>1
    <3> QED BY <2>1, <3>1, <3>2
  <2>3. money >= b => Overlap(a, b, 0, money) = b - a
    BY <2>1, <2>2 DEF Overlap, Least, Most
  <2>4. Overlap(a, b, 0, money) > 0 => money > a
    BY DEF Overlap, Least, Most
  <2> QED BY <2>1, <2>2, <2>3, <2>4
<1>5. Total(take, NM) = money \/ \A m \in Months : take[m] = debt[m]
  <2>1. owed[NM] \in Nat
    BY <1>1
  <2>2. CASE owed[NM] <= money
    BY <1>1, <1>4, <2>1, <2>2
  <2>3. CASE owed[NM] > money
    BY <1>3, <2>1, <2>3 DEF Least
  <2> QED BY <2>1, <2>2, <2>3
<1>6. ASSUME NEW m \in Months, NEW n \in Months, m < n, take[n] > 0
      PROVE  take[m] = debt[m]
  <2>1. m \in 0..NM /\ n - 1 \in 0..NM /\ m <= n - 1
    BY <1>6
  <2>2. owed[m] <= owed[n - 1] /\ owed[m] \in Nat /\ owed[n - 1] \in Nat /\ money > owed[n - 1]
    BY <1>1, <1>4, <1>6, <2>1
  <2> QED BY <1>4, <2>2
<1> QED BY <1>5, <1>6 DEF take

-----------------------------------------------------------------------------
(* What a run of settlement over the months of F leaves: only months of F  *)
(* gain, each at most its debt, oldest first, until the debts are paid or  *)
(* nothing spendable is left.                                              *)
SpentAs(L, F, S, take) ==
    /\ take \in [Months -> Nat]
    /\ S.paid = [m \in Months |-> L.paid[m] + take[m]]
    /\ S.price = L.price /\ S.hold = L.hold
    /\ \A m \in Months : take[m] = 0 => S.status[m] = L.status[m]
    /\ \A m \in Months : take[m] > 0 => m \in F
    /\ \/ \A m \in Months : m \in F => S.paid[m] = S.price[m]
       \/ Least(S.balance, Total(S.deposit, NP)) <= 0
    /\ \A m, n \in Months : m < n /\ take[n] > 0 /\ m \in F => S.paid[m] = S.price[m]

(* Spend is such a settlement.                                             *)
LEMMA SpendShape ==
  ASSUME NM \in Nat, NP \in Nat, NEW L, LedgerInv(L), NEW F
  PROVE  \E take : SpentAs(L, F, Spend(L, F), take)
<1> DEFINE debt == Debt(L, F)
           budget == Most(0, Least(L.balance, Total(L.deposit, NP)))
           take == AllocateFifo(debt, budget)
           drawn == Draw(L.deposit, take)
           S == Spend(L, F)
<1>1. /\ L \in Ledger /\ L.balance \in Int /\ L.balance >= 0
      /\ L.deposit \in [Pays -> Nat] /\ L.price \in [Months -> Nat] /\ L.paid \in [Months -> Nat]
      /\ \A m \in Months : L.paid[m] <= L.price[m]
  BY LedgerFields, MonthFacts
<1>2. debt \in [Months -> Nat] /\ \A m \in Months :
         debt[m] = IF m \in F THEN L.price[m] - L.paid[m] ELSE 0
  <2> SUFFICES ASSUME NEW m \in Months PROVE debt[m] \in Nat
    BY DEF Debt
  <2> QED BY <1>1 DEF Debt
<1>3. /\ budget \in Nat /\ budget <= Total(L.deposit, NP) /\ Total(L.deposit, NP) \in Nat
      /\ budget = L.balance \/ budget = Total(L.deposit, NP)
  BY <1>1, LedgerSums DEF Least, Most
<1> HIDE DEF debt, budget
<1>4. /\ take \in [Months -> Nat] /\ \A m \in Months : take[m] <= debt[m]
      /\ Total(take, NM) <= budget /\ Total(take, NM) \in Nat
  BY <1>2, <1>3, FifoTake
<1>5. /\ Total(take, NM) = budget \/ \A m \in Months : take[m] = debt[m]
      /\ \A m, n \in Months : m < n /\ take[n] > 0 => take[m] = debt[m]
  BY <1>2, <1>3, FifoFills
<1> HIDE DEF take
<1>6. /\ S.balance = L.balance - Total(take, NM)
      /\ S.price = L.price /\ S.hold = L.hold
      /\ S.deposit = [p \in Pays |-> L.deposit[p] - Total(drawn[p], NM)]
      /\ S.paid = [m \in Months |-> L.paid[m] + take[m]]
      /\ S.status = [m \in Months |-> IF take[m] > 0
                          THEN DeriveStatus(L.price[m], L.paid[m] + take[m])
                          ELSE L.status[m]]
  BY <1>1, Zenon DEF Spend, Ledger, take, debt, budget, PaidAfter, StatusAfter
<1>7. \A m \in Months : take[m] = debt[m] /\ m \in F => S.paid[m] = S.price[m]
  BY <1>1, <1>2, <1>4, <1>6
<1>8. \/ \A m \in Months : m \in F => S.paid[m] = S.price[m]
      \/ Least(S.balance, Total(S.deposit, NP)) <= 0
  <2>1. CASE \A m \in Months : take[m] = debt[m]
    BY <1>7, <2>1
  <2>2. CASE Total(take, NM) = budget /\ budget = L.balance
    <3>1. S.balance = 0
      BY <1>1, <1>6, <2>2
    <3>2. \A p \in Pays : Total(drawn[p], NM) \in Nat /\ Total(drawn[p], NM) <= L.deposit[p]
      BY <1>1, <1>3, <1>4, DrawSums
    <3>3. S.deposit \in [1..NP -> Int]
      <4>1. ASSUME NEW p \in Pays PROVE L.deposit[p] - Total(drawn[p], NM) \in Int
        BY <1>1, <3>2
      <4> QED BY <1>6, <4>1 DEF Pays
    <3>4. Total(S.deposit, NP) \in Int
      BY <3>3, CumType
    <3> QED BY <3>1, <3>4 DEF Least
  <2>3. CASE Total(take, NM) = budget /\ budget = Total(L.deposit, NP)
    <3>1. \A p \in Pays : Total(drawn[p], NM) = L.deposit[p]
      BY <1>1, <1>3, <1>4, <2>3, DrawSums
    <3>2. \A p \in 1..NP : S.deposit[p] = 0
      BY <1>1, <1>6, <3>1 DEF Pays
    <3>3. Total(S.deposit, NP) = 0
      BY <3>2, TotalZero
    <3>4. S.balance \in Int
      BY <1>1, <1>4, <1>6
    <3> QED BY <3>3, <3>4 DEF Least
  <2> QED BY <1>3, <1>5, <2>1, <2>2, <2>3
<1> HIDE DEF S, drawn
<1>9. \A m \in Months : take[m] > 0 => m \in F
  BY <1>2, <1>4
<1>10. SpentAs(L, F, S, take)
  BY <1>4, <1>5, <1>6, <1>7, <1>8, <1>9 DEF SpentAs
<1> QED BY <1>10 DEF S

(* The statuses are those of an invoice.                                   *)
LEMMA SettleableIn ==
  ASSUME NEW L, NEW F, NEW S, NEW take, SpentAs(L, F, S, take),
         Settleable(L, {}) \subseteq F
  PROVE  Settleable(S, {}) \subseteq F
<1> SUFFICES ASSUME NEW m \in Months, IsOpen(S, m), ~S.hold[m] PROVE m \in F
  BY DEF Settleable
<1>1. CASE take[m] > 0
  BY <1>1 DEF SpentAs
<1>2. CASE take[m] = 0
  BY <1>2 DEF SpentAs, Settleable, IsOpen
<1> QED BY <1>1, <1>2 DEF SpentAs

(* Settlement leaves no debt beside a deposit.                             *)
LEMMA SpendMeets ==
  ASSUME NM \in Nat, NP \in Nat, NEW L, LedgerInv(L), NEW F, Settleable(L, {}) \subseteq F,
         LedgerInv(Spend(L, F))
  PROVE  DebtMeetsDeposit(Spend(L, F))
<1> DEFINE S == Spend(L, F)
<1>1. PICK take : SpentAs(L, F, S, take)
  BY SpendShape
<1>2. Settleable(S, {}) \subseteq F
  BY <1>1, SettleableIn
<1>3. S.price \in [Months -> Nat] /\ Settleable(S, {}) \subseteq Months
  BY LedgerFields DEF Settleable
<1> HIDE DEF S
<1>4. DebtMeetsDeposit(S)
  BY <1>1, <1>2, <1>3 DEF SpentAs, DebtMeetsDeposit
<1> QED BY <1>4 DEF S

(* Where settlement is automatic it leaves no debt beside a deposit ...    *)
LEMMA SettleMeets ==
  ASSUME NM \in Nat, NP \in Nat, AutoApply, NEW L, LedgerInv(L), NEW H
  PROVE  /\ DebtMeetsDeposit(SettleIgnoring(L, H))
         /\ DebtMeetsDeposit(Settle(L))
<1>1. ASSUME NEW G PROVE DebtMeetsDeposit(SettleIgnoring(L, G))
  <2>1. LedgerInv(Spend(L, Settleable(L, G)))
    BY SpendKeeps DEF Settleable
  <2>2. Settleable(L, {}) \subseteq Settleable(L, G)
    BY DEF Settleable
  <2> QED BY <2>1, <2>2, SpendMeets DEF SettleIgnoring
<1> QED BY <1>1 DEF Settle

(* ... and where an administrator asks for it, in any case.                *)
LEMMA SettleManuallyMeets ==
  ASSUME NM \in Nat, NP \in Nat, NEW L, LedgerInv(L)
  PROVE  DebtMeetsDeposit(SettleManually(L))
<1> DEFINE L2 == [L EXCEPT !.hold = [m \in Months |-> FALSE]]
<1>1. LedgerInv(L2)
  BY FreedKeeps
<1>2. SettleManually(L) = Spend(L2, Settleable(L2, {}))
  BY DEF SettleManually
<1> HIDE DEF L2
<1>3. LedgerInv(Spend(L2, Settleable(L2, {})))
  BY <1>1, SpendKeeps DEF Settleable
<1> QED BY <1>1, <1>2, <1>3, SpendMeets

(* Less to spend on the same months puts no debt beside the deposit.       *)
LEMMA LessMeets ==
  ASSUME NM \in Nat, NP \in Nat, NEW L, LedgerInv(L), NEW S, LedgerInv(S), DebtMeetsDeposit(L),
         S.balance <= L.balance, \A p \in Pays : S.deposit[p] <= L.deposit[p],
         S.paid = L.paid, S.price = L.price, S.status = L.status, S.hold = L.hold
  PROVE  DebtMeetsDeposit(S)
<1>1. CASE \A m \in Settleable(L, {}) : L.paid[m] >= L.price[m]
  BY <1>1 DEF DebtMeetsDeposit, Settleable, IsOpen
<1>2. CASE Least(L.balance, Total(L.deposit, NP)) <= 0
  <2>1. /\ L.balance \in Int /\ S.balance \in Int
        /\ L.deposit \in [1..NP -> Nat] /\ S.deposit \in [1..NP -> Nat]
    BY LedgerFields DEF Pays
  <2> DEFINE d == [p \in 1..NP |-> L.deposit[p] - S.deposit[p]]
  <2>2. d \in [1..NP -> Nat]
    BY <2>1 DEF Pays
  <2>3. d \in [1..NP -> Int] /\ S.deposit \in [1..NP -> Int]
    BY <2>1, <2>2
  <2>4. \A p \in 1..NP : L.deposit[p] = S.deposit[p] + d[p]
    BY <2>1
  <2> HIDE DEF d
  <2>5. Total(L.deposit, NP) = Total(S.deposit, NP) + Total(d, NP)
    BY <2>3, <2>4, TotalPlus
  <2>6. Total(S.deposit, NP) \in Int /\ Total(d, NP) \in Int /\ Total(d, NP) >= 0
    BY <2>2, <2>3, CumType, CumMonotone DEF Total
  <2>7. Least(S.balance, Total(S.deposit, NP)) <= 0
    BY <1>2, <2>1, <2>5, <2>6 DEF Least
  <2> QED BY <2>7 DEF DebtMeetsDeposit
<1> QED BY <1>1, <1>2 DEF DebtMeetsDeposit

-----------------------------------------------------------------------------
(* A refund and a correction downwards take from what could be spent.      *)
LEMMA RefundMeets ==
  ASSUME NM \in Nat, NP \in Nat, NEW L, LedgerInv(L), NEW a \in Nat, a <= L.balance,
         DebtMeetsDeposit(L)
  PROVE  DebtMeetsDeposit(RefundDeposit(L, a))
<1> DEFINE S == RefundDeposit(L, a)
           held == Cum(L.deposit, NP)
           out(p) == Overlap(held[p - 1], held[p], 0, a)
<1>1. /\ L \in Ledger /\ L.balance \in Int /\ L.deposit \in [Pays -> Nat]
      /\ L.deposit \in [1..NP -> Nat] /\ L.deposit \in [1..NP -> Int]
  BY LedgerFields DEF Pays
<1>2. LedgerInv(S)
  BY RefundKeeps
<1>3. /\ S.deposit = [p \in Pays |-> L.deposit[p] - out(p)]
      /\ S.balance = L.balance - a
      /\ S.paid = L.paid /\ S.price = L.price /\ S.status = L.status /\ S.hold = L.hold
  BY <1>1, Zenon DEF RefundDeposit, Ledger
<1>4. \A n \in 0..NP : held[n] \in Int /\ held[n] >= 0
  BY <1>1, CumType, CumMonotone
<1> HIDE DEF S, held
<1>5. ASSUME NEW p \in Pays PROVE S.deposit[p] <= L.deposit[p]
  <2>1. p - 1 \in 0..NP /\ p \in 0..NP
    BY DEF Pays
  <2>2. held[p - 1] \in Nat /\ held[p] \in Nat
    BY <1>4, <2>1
  <2>3. out(p) \in Nat
    BY <2>2, OverlapType
  <2> HIDE DEF out
  <2> QED BY <1>1, <1>3, <2>3
<1>6. S.balance <= L.balance
  BY <1>1, <1>3
<1>7. DebtMeetsDeposit(S)
  BY <1>2, <1>3, <1>5, <1>6, LessMeets
<1> QED BY <1>7 DEF S

(* A correction downwards leaves no more to spend than there was.          *)
LEMMA AdjustDownMeets ==
  ASSUME NM \in Nat, NP \in Nat, NEW L, LedgerInv(L), NEW d \in Int, d <= 0,
         L.balance + d >= 0, DebtMeetsDeposit(L)
  PROVE  DebtMeetsDeposit([L EXCEPT !.balance = @ + d, !.adjusted = @ + d])
<1> DEFINE S == [L EXCEPT !.balance = @ + d, !.adjusted = @ + d]
<1>1. L \in Ledger /\ L.balance \in Int /\ L.deposit \in [Pays -> Nat]
  BY LedgerFields
<1>2. LedgerInv(S)
  BY AdjustKeeps
<1>3. /\ S.deposit = L.deposit /\ S.balance = L.balance + d
      /\ S.paid = L.paid /\ S.price = L.price /\ S.status = L.status /\ S.hold = L.hold
  BY <1>1, Zenon DEF Ledger
<1> HIDE DEF S
<1>4. S.balance <= L.balance /\ \A p \in Pays : S.deposit[p] <= L.deposit[p]
  BY <1>1, <1>3
<1>5. DebtMeetsDeposit(S)
  BY <1>2, <1>3, <1>4, LessMeets
<1> QED BY <1>5 DEF S

(* Where the balance is empty there is nothing to spend.                   *)
LEMMA EmptyMeets ==
  ASSUME NP \in Nat, NEW L, L.balance \in Int, L.balance <= 0, L.deposit \in [Pays -> Nat]
  PROVE  DebtMeetsDeposit(L)
<1>1. L.deposit \in [1..NP -> Int]
  BY DEF Pays
<1>2. Total(L.deposit, NP) \in Int
  BY <1>1, CumType
<1> QED BY <1>2 DEF DebtMeetsDeposit, Least

-----------------------------------------------------------------------------
(* Student s is in order when his deposit is spent or a pass will visit.   *)
InOrder(s) == s \in due \/ DebtMeetsDeposit(ledger[s])

(* A commit on one student leaves the others in order.                     *)
LEMMA CommitMeets ==
  ASSUME IInv, NEW s \in Students, NEW L, Commit(s, L), DebtMeetsDeposit(L), due' = due,
         NEW u \in Students, InOrder(u)
  PROVE  InOrder(u)'
<1>1. ledger'[u] = IF u = s THEN L ELSE ledger[u]
  BY DEF Commit, IInv, RowsTyped
<1> QED BY <1>1 DEF InOrder

(* Every step but a correction upwards and a visit that fails leaves a     *)
(* student in order.                                                       *)
LEMMA StaysInOrder ==
  ASSUME IInv, AutoApply, [Next]_vars, NEW u \in Students, InOrder(u),
         ~ \E d \in Adjustments : d > 0 /\ AdjustBalance(u, d), ~ FailDue(u)
  PROVE  InOrder(u)'
<1>1. NM \in Nat /\ NP \in Nat
  BY SizesAssumption
<1>2. Amounts \subseteq Nat \ {0} /\ Prices \subseteq Nat /\ Adjustments \subseteq Int
  BY MoneyAssumption
<1>3. /\ ledger \in [Students -> Ledger]
      /\ \A s \in Students : LedgerInv(ledger[s])
  BY DEF IInv, RowsTyped
<1>4. ASSUME NEW j \in jobs
      PROVE  /\ j.student \in Students /\ j.month \in Months /\ j.price \in Nat
             /\ j.hold \in BOOLEAN /\ LedgerInv(ledger[j.student])
  BY <1>3 DEF Job, IInv, RowsTyped
<1>5. ASSUME NEW s \in Students, NEW p \in Pays, NEW a \in Amounts, CreatePayment(s, p, a)
      PROVE  InOrder(u)'
  <2>1. LedgerInv(CreatePaymentInTx(ledger[s], p, a))
    BY <1>1, <1>2, <1>3, <1>5, CreateKeeps DEF CreatePayment
  <2>2. DebtMeetsDeposit(Settle(CreatePaymentInTx(ledger[s], p, a)))
    BY <1>1, <2>1, SettleMeets
  <2> QED BY <1>5, <2>2, CommitMeets DEF CreatePayment
<1>6. ASSUME NEW s \in Students, NEW p \in Pays, VoidPayment(s, p)
      PROVE  InOrder(u)'
  <2>1. LedgerInv(VoidPaymentInTx(ledger[s], p))
    BY <1>1, <1>3, <1>6, VoidKeeps DEF VoidPayment
  <2>2. DebtMeetsDeposit(Settle(VoidPaymentInTx(ledger[s], p)))
    BY <1>1, <2>1, SettleMeets
  <2> QED BY <1>6, <2>2, CommitMeets DEF VoidPayment
<1>7. ASSUME NEW s \in Students, NEW p \in Pays, NEW t \in Students, NEW q \in Pays,
             NEW a \in Amounts, EditPayment(s, p, t, q, a)
      PROVE  InOrder(u)'
  <2> DEFINE voided == VoidPaymentInTx(ledger[s], p)
  <2>1. LedgerInv(voided)
    BY <1>1, <1>3, <1>7, VoidKeeps DEF EditPayment
  <2>2. ledger[t].amount[q] = 0 /\ due' = due
    BY <1>7 DEF EditPayment
  <2>3. CASE t = s
    <3>1. voided.amount = ledger[s].amount
      <4>1. PICK L \in Ledger : L = ledger[s]
        BY <1>3
      <4>2. VoidPaymentInTx(L, p).amount = L.amount
        BY Zenon DEF VoidPaymentInTx, Ledger
      <4> QED BY <4>1, <4>2
    <3>2. Commit(s, Settle(CreatePaymentInTx(voided, q, a)))
      BY <1>7, <2>3 DEF EditPayment
    <3> HIDE DEF voided
    <3>3. LedgerInv(CreatePaymentInTx(voided, q, a))
      BY <1>1, <1>2, <2>1, <2>2, <2>3, <3>1, CreateKeeps
    <3>4. DebtMeetsDeposit(Settle(CreatePaymentInTx(voided, q, a)))
      BY <1>1, <3>3, SettleMeets
    <3> QED BY <2>2, <3>2, <3>4, CommitMeets
  <2>4. CASE t # s
    <3> DEFINE Ls == Settle(voided)
               Lt == Settle(CreatePaymentInTx(ledger[t], q, a))
    <3>1. ledger' = [ledger EXCEPT ![s] = Ls, ![t] = Lt]
      BY <1>7, <2>4 DEF EditPayment
    <3>2. DebtMeetsDeposit(Ls)
      BY <1>1, <2>1, SettleMeets
    <3>3. LedgerInv(CreatePaymentInTx(ledger[t], q, a))
      BY <1>1, <1>2, <1>3, <2>2, CreateKeeps
    <3>4. DebtMeetsDeposit(Lt)
      BY <1>1, <3>3, SettleMeets
    <3> HIDE DEF Ls, Lt
    <3>5. ledger'[u] = IF u = t THEN Lt ELSE IF u = s THEN Ls ELSE ledger[u]
      BY <1>3, <3>1
    <3> QED BY <2>2, <3>2, <3>4, <3>5 DEF InOrder
  <2> QED BY <2>3, <2>4
<1>8. ASSUME NEW s \in Students, NEW p \in Pays, NEW m \in Months, NEW n \in Months,
             NEW c \in 1..ledger[s].alloc[p][m], NEW k \in 0..c, Rework(s, p, m, c, k, n)
      PROVE  InOrder(u)'
  <2>1. ledger[s].alloc[p][m] \in Nat
    BY <1>3, LedgerFields
  <2>2. c \in Nat /\ c > 0 /\ k \in Nat /\ k <= c
    BY <2>1
  <2>3. LedgerInv(ReworkAllocation(ledger[s], p, m, c, k, n))
    BY <1>1, <1>3, <1>8, <2>2, ReworkKeeps DEF Rework
  <2>4. DebtMeetsDeposit(Settle(ReworkAllocation(ledger[s], p, m, c, k, n)))
    BY <1>1, <2>3, SettleMeets
  <2> QED BY <1>8, <2>4, CommitMeets DEF Rework
<1>9. ASSUME NEW s \in Students, NEW a \in Money(s), Refund(s, a)
      PROVE  InOrder(u)'
  <2>1. ledger[s].balance \in Int
    BY <1>3, LedgerFields
  <2>2. a \in Nat /\ a <= ledger[s].balance
    BY <1>9, <2>1 DEF Money, Most, Refund
  <2>3. ASSUME DebtMeetsDeposit(ledger[s]) PROVE InOrder(u)'
    <3>1. DebtMeetsDeposit(RefundDeposit(ledger[s], a))
      BY <1>1, <1>3, <2>2, <2>3, RefundMeets
    <3> QED BY <1>9, <3>1, CommitMeets DEF Refund
  <2>4. ASSUME ~DebtMeetsDeposit(ledger[s]) PROVE InOrder(u)'
    <3>1. u # s => ledger'[u] = ledger[u]
      BY <1>3, <1>9 DEF Refund, Commit
    <3> QED BY <1>9, <2>4, <3>1 DEF InOrder, Refund
  <2> QED BY <2>3, <2>4
<1>10. ASSUME NEW s \in Students, NEW d \in Adjustments, AdjustBalance(s, d)
       PROVE  InOrder(u)'
  <2> DEFINE S == [ledger[s] EXCEPT !.balance = @ + d, !.adjusted = @ + d]
  <2>1. Commit(s, S) /\ due' = due /\ ledger[s].balance + d >= 0 /\ d \in Int
    BY <1>2, <1>10 DEF AdjustBalance
  <2>2. ASSUME u = s, DebtMeetsDeposit(ledger[s]) PROVE InOrder(u)'
    <3>1. d <= 0
      BY <1>10, <2>1, <2>2
    <3>2. DebtMeetsDeposit(S)
      BY <1>1, <1>3, <2>1, <2>2, <3>1, AdjustDownMeets
    <3> HIDE DEF S
    <3> QED BY <2>1, <3>2, CommitMeets
  <2>3. ASSUME u = s => ~DebtMeetsDeposit(ledger[s]) PROVE InOrder(u)'
    <3> HIDE DEF S
    <3>1. u # s => ledger'[u] = ledger[u]
      BY <1>3, <2>1 DEF Commit
    <3> QED BY <2>1, <2>3, <3>1 DEF InOrder
  <2> QED BY <2>2, <2>3
<1>11. ASSUME NEW s \in Students, NEW m \in Months, CancelInvoice(s, m)
       PROVE  InOrder(u)'
  <2>1. DebtMeetsDeposit(Settle(Cancel(ledger[s], m)))
    BY <1>1, <1>3, CancelKeeps, SettleMeets
  <2> QED BY <1>11, <2>1, CommitMeets DEF CancelInvoice
<1>12. ASSUME NEW s \in Students, NEW m \in Months, RestoreInvoice(s, m)
       PROVE  InOrder(u)'
  <2>1. DebtMeetsDeposit(Settle(Restore(ledger[s], m)))
    BY <1>1, <1>3, RestoreKeeps, SettleMeets
  <2> QED BY <1>12, <2>1, CommitMeets DEF RestoreInvoice
<1>13. ASSUME NEW s \in Students, NEW m \in Months, NEW price \in Prices,
              GenerateInvoice(s, m, price)
       PROVE  InOrder(u)'
  <2>1. due' = due \cup {s} /\ (u # s => ledger'[u] = ledger[u])
    BY <1>3, <1>13 DEF GenerateInvoice, Commit
  <2> QED BY <2>1 DEF InOrder
<1>14. ASSUME NEW s \in Students, NEW m \in Months, NEW auto \in BOOLEAN, NEW price \in Prices,
              StartRegenerate(s, m, auto, price)
       PROVE  InOrder(u)'
  BY <1>14 DEF StartRegenerate, InOrder
<1>15. ASSUME NEW s \in Students, ApplyDue(s)
       PROVE  InOrder(u)'
  <2>1. DebtMeetsDeposit(Settle(ledger[s]))
    BY <1>1, <1>3, SettleMeets
  <2>2. ledger'[u] = IF u = s THEN Settle(ledger[s]) ELSE ledger[u]
    BY <1>3, <1>15 DEF ApplyDue, Commit
  <2> QED BY <1>15, <2>1, <2>2 DEF ApplyDue, InOrder
<1>16. ASSUME NEW s \in Students, ApplyManually(s)
       PROVE  InOrder(u)'
  <2>1. DebtMeetsDeposit(SettleManually(ledger[s]))
    BY <1>1, <1>3, SettleManuallyMeets
  <2> QED BY <1>16, <2>1, CommitMeets DEF ApplyManually
<1>17. ASSUME NEW j \in jobs, CommitReplace(j)
       PROVE  InOrder(u)'
  <2>1. LedgerInv(Replace(ledger[j.student], j.month, j.price, j.hold))
    BY <1>1, <1>4, <1>17, ReplaceKeeps DEF CommitReplace
  <2>2. DebtMeetsDeposit(Settle(Replace(ledger[j.student], j.month, j.price, j.hold)))
    BY <1>1, <2>1, SettleMeets
  <2> QED BY <1>4, <1>17, <2>2, CommitMeets DEF CommitReplace
<1>18. ASSUME NEW j \in jobs, CommitAmendBelow(j)
       PROVE  InOrder(u)'
  <2>1. LedgerInv(AmendBelow(ledger[j.student], j.month, j.price))
    BY <1>1, <1>4, AmendBelowKeeps
  <2>2. DebtMeetsDeposit(SettleIgnoring(AmendBelow(ledger[j.student], j.month, j.price), {j.month}))
    BY <1>1, <2>1, SettleMeets
  <2> QED BY <1>4, <1>18, <2>2, CommitMeets DEF CommitAmendBelow
<1>19. ASSUME NEW j \in jobs, CommitAmendInPlace(j)
       PROVE  InOrder(u)'
  <2>1. LedgerInv(AmendInPlace(ledger[j.student], j.month, j.price))
    BY <1>4, <1>19, AmendInPlaceKeeps DEF CommitAmendInPlace
  <2>2. DebtMeetsDeposit(Settle(AmendInPlace(ledger[j.student], j.month, j.price)))
    BY <1>1, <2>1, SettleMeets
  <2> QED BY <1>4, <1>19, <2>2, CommitMeets DEF CommitAmendInPlace
<1>20. ASSUME NEW j \in jobs, Conflict(j) PROVE InOrder(u)'
  BY <1>20 DEF Conflict, InOrder
<1>21. CASE StartDailyPass
  BY <1>21 DEF StartDailyPass, InOrder
<1>22. CASE Restart
  <2>1. due' = {s \in Students : ledger[s].balance > 0} /\ ledger' = ledger
    BY <1>22 DEF Restart
  <2>2. ledger[u].balance \in Int /\ ledger[u].deposit \in [Pays -> Nat]
    BY <1>3, LedgerFields
  <2>3. CASE ledger[u].balance > 0
    BY <2>1, <2>3 DEF InOrder
  <2>4. CASE ledger[u].balance <= 0
    BY <1>1, <2>1, <2>2, <2>4, EmptyMeets DEF InOrder
  <2> QED BY <2>2, <2>3, <2>4
<1>23. CASE UNCHANGED vars
  BY <1>23 DEF InOrder, vars
<1>24. ASSUME NEW s \in Students, FailDue(s) PROVE InOrder(u)'
  <2>1. u # s
    BY <1>24
  <2> QED BY <1>24, <2>1 DEF FailDue, InOrder
<1> QED
  BY <1>5, <1>6, <1>7, <1>8, <1>9, <1>10, <1>11, <1>12, <1>13, <1>14, <1>15, <1>16, <1>17,
     <1>18, <1>19, <1>20, <1>21, <1>22, <1>23, <1>24, Zenon DEF Next

-----------------------------------------------------------------------------
(* A student whose deposit is spent, or whom a pass will visit, stays so   *)
(* in every step but his own correction upwards and a visit to him that    *)
(* fails.                                                                  *)
THEOREM CorrectionsAloneUnsettle == Spec => OnlyCorrectionsUnsettle
<1> DEFINE Stays(s) ==
      /\ AutoApply
      /\ s \in due \/ DebtMeetsDeposit(ledger[s])
      /\ ~ \E d \in Adjustments : d > 0 /\ AdjustBalance(s, d)
      /\ ~ FailDue(s)
      => s \in due' \/ DebtMeetsDeposit(ledger'[s])
<1>1. ASSUME IInv, [Next]_vars, NEW s \in Students PROVE Stays(s)
  BY <1>1, StaysInOrder DEF InOrder
<1>2. IInv /\ [Next]_vars => [\A s \in Students : Stays(s)]_vars
  BY <1>1
<1>3. QED
  BY LedgersInduction, <1>2, PTL DEF Spec, OnlyCorrectionsUnsettle

(* Where corrections only take money away and no visit fails, debt and     *)
(* deposit stand side by side in no reachable state, but for students a    *)
(* pass has yet to visit.                                                  *)
THEOREM DebtNeverBesideDeposit == Spec => []NoDebtBesideDeposit
<1>1. Init => NoDebtBesideDeposit
  <2> SUFFICES ASSUME Init, NEW s \in Students PROVE DebtMeetsDeposit(ledger[s])
    BY DEF NoDebtBesideDeposit
  <2>1. ledger[s].balance = 0 /\ ledger[s].deposit \in [Pays -> Nat] /\ NP \in Nat
    BY SizesAssumption DEF Init, EmptyLedger
  <2> QED BY <2>1, EmptyMeets
<1>2. IInv /\ NoDebtBesideDeposit /\ [Next]_vars => NoDebtBesideDeposit'
  <2> SUFFICES ASSUME IInv, NoDebtBesideDeposit, [Next]_vars,
                      AutoApply, ~VisitsFail, \A d \in Adjustments : d < 0,
                      NEW s \in Students
               PROVE  InOrder(s)'
    BY DEF NoDebtBesideDeposit, InOrder
  <2>1. InOrder(s)
    BY DEF NoDebtBesideDeposit, InOrder
  <2>2. ~ \E d \in Adjustments : d > 0 /\ AdjustBalance(s, d)
    <3>1. Adjustments \subseteq Int
      BY MoneyAssumption
    <3> QED BY <3>1
  <2>3. ~ FailDue(s)
    BY DEF FailDue
  <2> QED BY <2>1, <2>2, <2>3, StaysInOrder
<1>3. QED
  BY LedgersInduction, <1>1, <1>2, PTL DEF Spec


-----------------------------------------------------------------------------
(* Settlement need not look at month m of S: it may not touch it, or       *)
(* nothing is owed on it.                                                  *)
Clean(S, m) == m \notin Settleable(S, {}) \/ S.paid[m] >= S.price[m]

(* Whatever month of S gained money, the months before it are clean.       *)
GainsInOrder(L, S) ==
    \A m, n \in Months : m < n /\ S.paid[n] > L.paid[n] => Clean(S, m)

(* Settlement after a change that gained in order gains in order.          *)
LEMMA SettleGains ==
  ASSUME NM \in Nat, NP \in Nat, NEW L, LedgerInv(L), NEW X, LedgerInv(X), GainsInOrder(L, X),
         NEW F, F \subseteq Months, \A m \in F : IsOpen(X, m), Settleable(X, {}) \subseteq F
  PROVE  GainsInOrder(L, Spend(X, F))
<1> DEFINE S == Spend(X, F)
<1>1. PICK take : SpentAs(X, F, S, take)
  BY SpendShape
<1>2. Settleable(S, {}) \subseteq F
  BY <1>1, SettleableIn
<1>3. /\ X.paid \in [Months -> Nat] /\ X.price \in [Months -> Nat]
      /\ L.paid \in [Months -> Nat]
  BY LedgerFields
<1> HIDE DEF S
<1>4. SUFFICES ASSUME NEW m \in Months, NEW n \in Months, m < n, S.paid[n] > L.paid[n],
                      m \in Settleable(S, {})
               PROVE  S.paid[m] >= S.price[m]
  BY DEF GainsInOrder, Clean, S
<1>5. m \in F /\ m \in Settleable(X, {})
  <2>1. m \in F
    BY <1>2, <1>4
  <2>2. ~X.hold[m]
    BY <1>1, <1>4 DEF Settleable, SpentAs
  <2> QED BY <2>1, <2>2 DEF Settleable
<1>6. CASE take[n] > 0
  <2>1. S.paid[m] = S.price[m] /\ S.price[m] \in Nat
    BY <1>1, <1>3, <1>4, <1>5, <1>6 DEF SpentAs
  <2> QED BY <2>1
<1>7. CASE take[n] = 0
  <2>1. S.paid[n] = X.paid[n] /\ take[m] \in Nat
        /\ S.paid[m] = X.paid[m] + take[m] /\ S.price[m] = X.price[m]
    BY <1>1, <1>3, <1>7 DEF SpentAs
  <2>2. Clean(X, m)
    BY <1>4, <2>1 DEF GainsInOrder
  <2>3. X.paid[m] >= X.price[m]
    BY <1>5, <2>2 DEF Clean
  <2> QED BY <1>3, <2>1, <2>3
<1>8. take[n] \in Nat
  BY <1>1 DEF SpentAs
<1> QED BY <1>6, <1>7, <1>8

(* The settlements at the end of a transaction do ...                      *)
LEMMA SettleIgnoringGains ==
  ASSUME NM \in Nat, NP \in Nat, NEW L, LedgerInv(L), NEW X, LedgerInv(X), GainsInOrder(L, X),
         NEW H
  PROVE  /\ GainsInOrder(L, SettleIgnoring(X, H))
         /\ GainsInOrder(L, Settle(X))
<1>1. ASSUME NEW G PROVE GainsInOrder(L, SettleIgnoring(X, G))
  <2>1. /\ Settleable(X, G) \subseteq Months /\ \A m \in Settleable(X, G) : IsOpen(X, m)
        /\ Settleable(X, {}) \subseteq Settleable(X, G)
    BY DEF Settleable
  <2>2. GainsInOrder(L, Spend(X, Settleable(X, G)))
    BY <2>1, SettleGains
  <2> QED BY <2>2 DEF SettleIgnoring
<1> QED BY <1>1 DEF Settle

(* A body that takes money from months and gives none leaves the rest to   *)
(* the settlement that follows it.                                         *)
LEMMA SettleAfterLoss ==
  ASSUME NM \in Nat, NP \in Nat, NEW L, LedgerInv(L), NEW X, LedgerInv(X), NEW H,
         \A n \in Months : X.paid[n] <= L.paid[n]
  PROVE  GainsInOrder(L, SettleIgnoring(X, H)) /\ GainsInOrder(L, Settle(X))
<1>1. L.paid \in [Months -> Nat] /\ X.paid \in [Months -> Nat]
  BY LedgerFields
<1>2. GainsInOrder(L, X)
  BY <1>1 DEF GainsInOrder
<1> QED BY <1>2, SettleIgnoringGains

(* ... and so does the one an administrator asks for.                      *)
LEMMA SettleManuallyGains ==
  ASSUME NM \in Nat, NP \in Nat, NEW L, LedgerInv(L)
  PROVE  GainsInOrder(L, SettleManually(L))
<1> DEFINE X == [L EXCEPT !.hold = [m \in Months |-> FALSE]]
<1>1. LedgerInv(X) /\ L \in Ledger
  BY FreedKeeps, LedgerFields
<1>2. X.paid = L.paid
  BY <1>1, Zenon DEF Ledger
<1>3. SettleManually(L) = Spend(X, Settleable(X, {}))
  BY DEF SettleManually
<1> HIDE DEF X
<1>4. L.paid \in [Months -> Nat]
  BY LedgerFields
<1>5. GainsInOrder(L, X)
  BY <1>2, <1>4 DEF GainsInOrder
<1>6. Settleable(X, {}) \subseteq Months /\ \A m \in Settleable(X, {}) : IsOpen(X, m)
  BY DEF Settleable
<1> QED BY <1>1, <1>3, <1>5, <1>6, SettleGains

(* The cash of a new cheque pays the oldest open month first, held or not. *)
LEMMA CreateGains ==
  ASSUME NM \in Nat, NP \in Nat, NEW L, LedgerInv(L), NEW p \in Pays, NEW a \in Amounts
  PROVE  GainsInOrder(L, CreatePaymentInTx(L, p, a))
<1> DEFINE F == {m \in Months : IsOpen(L, m)}
           debt == Debt(L, F)
           take == AllocateFifo(debt, a)
           S == CreatePaymentInTx(L, p, a)
<1>1. /\ L \in Ledger /\ L.price \in [Months -> Nat] /\ L.paid \in [Months -> Nat]
      /\ \A m \in Months : L.paid[m] <= L.price[m]
  BY LedgerFields, MonthFacts
<1>2. debt \in [Months -> Nat] /\ \A m \in Months :
         debt[m] = IF m \in F THEN L.price[m] - L.paid[m] ELSE 0
  <2> SUFFICES ASSUME NEW m \in Months PROVE debt[m] \in Nat
    BY DEF Debt
  <2> QED BY <1>1 DEF Debt
<1>3. a \in Nat
  BY MoneyAssumption
<1> HIDE DEF debt
<1>4. /\ take \in [Months -> Nat] /\ \A m \in Months : take[m] <= debt[m]
      /\ \A m, n \in Months : m < n /\ take[n] > 0 => take[m] = debt[m]
  BY <1>2, <1>3, FifoTake, FifoFills
<1> HIDE DEF take
<1>5. /\ S.price = L.price /\ S.paid = [m \in Months |-> L.paid[m] + take[m]]
      /\ S.status = [m \in Months |-> IF take[m] > 0
                          THEN DeriveStatus(L.price[m], L.paid[m] + take[m])
                          ELSE L.status[m]]
  BY <1>1, Zenon DEF CreatePaymentInTx, Ledger, take, debt, PaidAfter, StatusAfter
<1> HIDE DEF S
<1>6. SUFFICES ASSUME NEW m \in Months, NEW n \in Months, m < n, S.paid[n] > L.paid[n]
               PROVE  Clean(S, m)
  BY DEF GainsInOrder, S
<1>7. take[n] > 0
  <2>1. S.paid[n] = L.paid[n] + take[n] /\ L.paid[n] \in Nat /\ take[n] \in Nat
    BY <1>1, <1>4, <1>5
  <2> QED BY <1>6, <2>1
<1>8. take[m] = debt[m] /\ S.paid[m] = L.paid[m] + take[m] /\ S.price[m] = L.price[m]
  BY <1>4, <1>5, <1>6, <1>7
<1>9. CASE m \in F
  <2>1. S.paid[m] = S.price[m] /\ S.price[m] \in Nat
    BY <1>1, <1>2, <1>8, <1>9
  <2> QED BY <2>1 DEF Clean
<1>10. CASE m \notin F
  <2>1. take[m] = 0
    BY <1>2, <1>8, <1>10
  <2>2. S.status[m] = L.status[m]
    BY <1>5, <2>1
  <2> QED BY <1>10, <2>2 DEF Clean, Settleable, IsOpen
<1> QED BY <1>9, <1>10

(* Taking a cheque back gives no month money, and neither does rewriting   *)
(* an invoice.                                                             *)
LEMMA VoidGivesNothing ==
  ASSUME NEW L, LedgerInv(L), NEW p \in Pays, NEW n \in Months
  PROVE  VoidPaymentInTx(L, p).paid[n] <= L.paid[n]
<1>1. L \in Ledger /\ L.paid[n] \in Nat /\ L.alloc[p][n] \in Nat
  BY LedgerFields
<1>2. VoidPaymentInTx(L, p).paid = [k \in Months |-> L.paid[k] - L.alloc[p][k]]
  BY <1>1, Zenon DEF VoidPaymentInTx, Ledger
<1> QED BY <1>1, <1>2

(* Rewriting a month by itself gives money to none.                        *)
LEMMA RewritesGiveNothing ==
  ASSUME NEW L, LedgerInv(L), NEW m \in Months, NEW price, NEW hold, NEW n \in Months
  PROVE  /\ Cancel(L, m).paid[n] <= L.paid[n]
         /\ Restore(L, m).paid[n] <= L.paid[n]
         /\ Build(L, m, price).paid[n] <= L.paid[n]
         /\ Replace(L, m, price, hold).paid[n] <= L.paid[n]
         /\ AmendBelow(L, m, price).paid[n] <= L.paid[n]
         /\ AmendInPlace(L, m, price).paid[n] <= L.paid[n]
<1>1. L \in Ledger /\ L.paid \in [Months -> Nat] /\ L.paid[n] \in Nat
  BY LedgerFields
<1>2. /\ Cancel(L, m).paid = [L.paid EXCEPT ![m] = 0]
      /\ AmendBelow(L, m, price).paid = [L.paid EXCEPT ![m] = 0]
      /\ Build(L, m, price).paid = [L.paid EXCEPT ![m] = 0]
      /\ Replace(L, m, price, hold).paid = [L.paid EXCEPT ![m] = 0]
  BY <1>1, Zenon DEF Cancel, AmendBelow, ReleaseInvoiceAllocations, Build, Replace, Ledger
<1>3. Restore(L, m).paid = L.paid /\ AmendInPlace(L, m, price).paid = L.paid
  BY <1>1, Zenon DEF Restore, AmendInPlace, Ledger
<1>4. [L.paid EXCEPT ![m] = 0][n] <= L.paid[n] /\ L.paid[n] <= L.paid[n]
  BY <1>1
<1> QED BY <1>2, <1>3, <1>4

(* Moving an allocation gives money to the month it is moved to, no other. *)
LEMMA ReworkGivesTarget ==
  ASSUME NEW L, LedgerInv(L), NEW p \in Pays, NEW x \in Months, NEW c \in Nat, NEW k \in Nat,
         NEW target \in Months, NEW n \in Months, n # target
  PROVE  ReworkAllocation(L, p, x, c, k, target).paid[n] <= L.paid[n]
<1>1. L \in Ledger /\ L.paid[n] \in Nat
  BY LedgerFields
<1>2. ReworkAllocation(L, p, x, c, k, target).paid
        = [i \in Months |-> L.paid[i] - (IF i = x THEN c ELSE 0)
                                      + (IF i = target THEN k ELSE 0)]
  BY <1>1, Zenon DEF ReworkAllocation, Ledger
<1> QED BY <1>1, <1>2

(* Settlement after a body that gave month n nothing.                      *)
LEMMA SettleAtMonth ==
  ASSUME NM \in Nat, NP \in Nat, NEW L, LedgerInv(L), NEW X, LedgerInv(X), NEW H,
         NEW m \in Months, NEW n \in Months, m < n, X.paid[n] <= L.paid[n]
  PROVE  /\ SettleIgnoring(X, H).paid[n] > L.paid[n] => Clean(SettleIgnoring(X, H), m)
         /\ Settle(X).paid[n] > L.paid[n] => Clean(Settle(X), m)
<1>1. GainsInOrder(X, X)
  <2>1. X.paid \in [Months -> Nat]
    BY LedgerFields
  <2> QED BY <2>1 DEF GainsInOrder
<1>2. GainsInOrder(X, SettleIgnoring(X, H)) /\ GainsInOrder(X, Settle(X))
  BY <1>1, SettleIgnoringGains
<1>3. /\ X.paid[n] \in Int /\ L.paid[n] \in Int
      /\ SettleIgnoring(X, H).paid[n] \in Int /\ Settle(X).paid[n] \in Int
  <2>1. LedgerInv(SettleIgnoring(X, H)) /\ LedgerInv(Settle(X))
    BY SettleKeeps
  <2> QED BY <2>1, LedgerFields
<1> QED BY <1>2, <1>3 DEF GainsInOrder

(* The gain of month n of student u in a step finds month m clean.         *)
OldestAt(u, m, n) == ledger'[u].paid[n] > ledger[u].paid[n] => Clean(ledger'[u], m)

(* A commit on one student is about the months of that one.                *)
LEMMA CommitOldest ==
  ASSUME IInv, NEW s \in Students, NEW L, Commit(s, L), NEW u \in Students,
         NEW m \in Months, NEW n \in Months,
         u = s => (L.paid[n] > ledger[u].paid[n] => Clean(L, m))
  PROVE  OldestAt(u, m, n)
<1>1. ledger'[u] = IF u = s THEN L ELSE ledger[u]
  BY DEF Commit, IInv, RowsTyped
<1>2. ledger[u].paid[n] \in Int
  <2>1. LedgerInv(ledger[u])
    BY DEF IInv
  <2> QED BY <2>1, LedgerFields
<1> QED BY <1>1, <1>2 DEF OldestAt

(* Where no ledger changes no month gains.                                 *)
LEMMA StillOldest ==
  ASSUME IInv, NEW u \in Students, NEW m \in Months, NEW n \in Months, ledger' = ledger
  PROVE  OldestAt(u, m, n)
<1>1. ledger[u].paid[n] \in Int
  <2>1. LedgerInv(ledger[u])
    BY DEF IInv
  <2> QED BY <2>1, LedgerFields
<1> QED BY <1>1 DEF OldestAt

(* editPayment takes back a cheque and enters the next one in one step.    *)
LEMMA EditGains ==
  ASSUME NM \in Nat, NP \in Nat, NEW L, LedgerInv(L), NEW p \in Pays, NEW q \in Pays,
         NEW a \in Amounts, CanVoid(L, p), L.amount[q] = 0
  PROVE  LET S == Settle(CreatePaymentInTx(VoidPaymentInTx(L, p), q, a))
         IN  GainsInOrder(L, S)
<1> DEFINE V == VoidPaymentInTx(L, p)
           X == CreatePaymentInTx(V, q, a)
<1>1. LedgerInv(V)
  BY VoidKeeps
<1>2. V.amount = L.amount
  <2>1. L \in Ledger
    BY LedgerFields
  <2> QED BY <2>1, Zenon DEF VoidPaymentInTx, Ledger
<1>3. \A n \in Months : V.paid[n] <= L.paid[n]
  BY VoidGivesNothing, Zenon
<1> HIDE DEF V
<1>4. LedgerInv(X) /\ GainsInOrder(V, X)
  BY <1>1, <1>2, CreateKeeps, CreateGains
<1> HIDE DEF X
<1>5. GainsInOrder(L, X)
  <2>1. \A n \in Months : X.paid[n] \in Int /\ V.paid[n] \in Int /\ L.paid[n] \in Int
    BY <1>1, <1>4, LedgerFields
  <2> QED BY <1>3, <1>4, <2>1 DEF GainsInOrder
<1>6. GainsInOrder(L, Settle(X))
  BY <1>4, <1>5, SettleIgnoringGains
<1> QED BY <1>6 DEF X, V

(* In every step that does not move an allocation to month n, a gain of n  *)
(* finds the months before it clean.                                       *)
LEMMA StepOldest ==
  ASSUME IInv, [Next]_vars, NEW u \in Students, NEW m \in Months, NEW n \in Months, m < n,
         ~ \E p \in Pays, x \in Months : \E c \in 1..ledger[u].alloc[p][x] :
             \E k \in 0..c : Rework(u, p, x, c, k, n)
  PROVE  OldestAt(u, m, n)
<1>1. NM \in Nat /\ NP \in Nat
  BY SizesAssumption
<1>2. Amounts \subseteq Nat \ {0} /\ Prices \subseteq Nat /\ Adjustments \subseteq Int
  BY MoneyAssumption
<1>3. /\ ledger \in [Students -> Ledger]
      /\ \A s \in Students : LedgerInv(ledger[s])
  BY DEF IInv, RowsTyped
<1>4. ASSUME NEW j \in jobs
      PROVE  /\ j.student \in Students /\ j.month \in Months /\ j.price \in Nat
             /\ j.hold \in BOOLEAN /\ LedgerInv(ledger[j.student])
  BY <1>3 DEF Job, IInv, RowsTyped
<1> DEFINE Old(L, S) == S.paid[n] > L.paid[n] => Clean(S, m)
<1>5. ASSUME NEW L, NEW S, GainsInOrder(L, S) PROVE Old(L, S)
  BY <1>5 DEF GainsInOrder
<1>6. ASSUME NEW s \in Students, NEW p \in Pays, NEW a \in Amounts, CreatePayment(s, p, a)
      PROVE  OldestAt(u, m, n)
  <2> DEFINE X == CreatePaymentInTx(ledger[s], p, a)
  <2>1. LedgerInv(X) /\ GainsInOrder(ledger[s], X)
    BY <1>1, <1>2, <1>3, <1>6, CreateKeeps, CreateGains DEF CreatePayment
  <2>2. Commit(s, Settle(X))
    BY <1>6 DEF CreatePayment
  <2> HIDE DEF X
  <2>3. GainsInOrder(ledger[s], Settle(X))
    BY <1>1, <1>3, <2>1, SettleIgnoringGains
  <2> QED BY <1>5, <2>2, <2>3, CommitOldest
<1>7. ASSUME NEW s \in Students, NEW p \in Pays, VoidPayment(s, p)
      PROVE  OldestAt(u, m, n)
  <2> DEFINE X == VoidPaymentInTx(ledger[s], p)
  <2>1. LedgerInv(X)
    BY <1>1, <1>3, <1>7, VoidKeeps DEF VoidPayment
  <2>2. \A i \in Months : X.paid[i] <= ledger[s].paid[i]
    BY <1>3, VoidGivesNothing, Zenon
  <2>3. Commit(s, Settle(X))
    BY <1>7 DEF VoidPayment
  <2> HIDE DEF X
  <2>4. GainsInOrder(ledger[s], Settle(X))
    BY <1>1, <1>3, <2>1, <2>2, SettleAfterLoss
  <2> QED BY <1>5, <2>3, <2>4, CommitOldest
<1>8. ASSUME NEW s \in Students, NEW p \in Pays, NEW t \in Students, NEW q \in Pays,
             NEW a \in Amounts, EditPayment(s, p, t, q, a)
      PROVE  OldestAt(u, m, n)
  <2> DEFINE V == VoidPaymentInTx(ledger[s], p)
  <2>1. LedgerInv(V) /\ CanVoid(ledger[s], p) /\ ledger[t].amount[q] = 0
    BY <1>1, <1>3, <1>8, VoidKeeps DEF EditPayment
  <2>2. CASE t = s
    <3> DEFINE S == Settle(CreatePaymentInTx(V, q, a))
    <3>1. Commit(s, S)
      BY <1>8, <2>2 DEF EditPayment
    <3>2. GainsInOrder(ledger[s], S)
      BY <1>1, <1>3, <2>1, <2>2, EditGains
    <3> HIDE DEF S
    <3> QED BY <1>5, <3>1, <3>2, CommitOldest
  <2>3. CASE t # s
    <3> DEFINE X == CreatePaymentInTx(ledger[t], q, a)
    <3>1. ledger' = [ledger EXCEPT ![s] = Settle(V), ![t] = Settle(X)]
      BY <1>8, <2>3 DEF EditPayment
    <3>2. \A i \in Months : V.paid[i] <= ledger[s].paid[i]
      BY <1>3, VoidGivesNothing, Zenon
    <3>3. LedgerInv(X) /\ GainsInOrder(ledger[t], X)
      BY <1>1, <1>2, <1>3, <2>1, CreateKeeps, CreateGains
    <3> HIDE DEF V, X
    <3>4. GainsInOrder(ledger[s], Settle(V)) /\ GainsInOrder(ledger[t], Settle(X))
      BY <1>1, <1>3, <2>1, <3>2, <3>3, SettleAfterLoss, SettleIgnoringGains
    <3>5. ledger'[u] = IF u = t THEN Settle(X) ELSE IF u = s THEN Settle(V) ELSE ledger[u]
      BY <1>3, <3>1
    <3>6. ledger[u].paid[n] \in Int
      BY <1>3, LedgerFields
    <3> QED BY <1>5, <3>4, <3>5, <3>6 DEF OldestAt
  <2> QED BY <2>2, <2>3
<1>9. ASSUME NEW s \in Students, NEW p \in Pays, NEW x \in Months, NEW t \in Months,
             NEW c \in 1..ledger[s].alloc[p][x], NEW k \in 0..c, Rework(s, p, x, c, k, t)
      PROVE  OldestAt(u, m, n)
  <2> DEFINE X == ReworkAllocation(ledger[s], p, x, c, k, t)
  <2>1. ledger[s].alloc[p][x] \in Nat
    BY <1>3, LedgerFields
  <2>2. c \in Nat /\ c > 0 /\ k \in Nat /\ k <= c
    BY <2>1
  <2>3. LedgerInv(X) /\ Commit(s, Settle(X))
    BY <1>1, <1>3, <1>9, <2>2, ReworkKeeps DEF Rework
  <2>4. CASE u = s
    <3>1. t # n
      BY <1>9, <2>4
    <3>2. X.paid[n] <= ledger[s].paid[n]
      BY <1>3, <2>2, <3>1, ReworkGivesTarget
    <3> HIDE DEF X
    <3>3. Old(ledger[s], Settle(X))
      BY <1>1, <1>3, <2>3, <3>2, SettleAtMonth
    <3> QED BY <2>3, <2>4, <3>3, CommitOldest
  <2>5. CASE u # s
    <3> HIDE DEF X
    <3> QED BY <2>3, <2>5, CommitOldest
  <2> QED BY <2>4, <2>5
<1>10. ASSUME NEW s \in Students, NEW a \in Money(s), Refund(s, a)
       PROVE  OldestAt(u, m, n)
  <2> DEFINE X == RefundDeposit(ledger[s], a)
  <2>1. X.paid[n] <= ledger[s].paid[n] /\ LedgerInv(X) /\ Commit(s, X)
    <3>1. ledger[s].balance \in Int
      BY <1>3, LedgerFields
    <3>2. a \in Nat /\ a <= ledger[s].balance
      BY <1>10, <3>1 DEF Money, Most, Refund
    <3>3. LedgerInv(X)
      BY <1>1, <1>3, <3>2, RefundKeeps
    <3>4. X.paid = ledger[s].paid
      <4>1. PICK L \in Ledger : L = ledger[s]
        BY <1>3
      <4>2. RefundDeposit(L, a).paid = L.paid
        BY Zenon DEF RefundDeposit, Ledger
      <4> QED BY <4>1, <4>2
    <3>5. ledger[s].paid[n] \in Int
      BY <1>3, LedgerFields
    <3> QED BY <1>10, <3>3, <3>4, <3>5 DEF Refund
  <2> HIDE DEF X
  <2>2. X.paid[n] \in Int /\ ledger[s].paid[n] \in Int
    BY <1>3, <2>1, LedgerFields
  <2> QED BY <2>1, <2>2, CommitOldest
<1>11. ASSUME NEW s \in Students, NEW d \in Adjustments, AdjustBalance(s, d)
       PROVE  OldestAt(u, m, n)
  <2> DEFINE X == [ledger[s] EXCEPT !.balance = @ + d, !.adjusted = @ + d]
  <2>1. Commit(s, X)
    BY <1>11 DEF AdjustBalance
  <2>2. X.paid = ledger[s].paid
    <3>1. PICK L \in Ledger : L = ledger[s]
      BY <1>3
    <3>2. [L EXCEPT !.balance = @ + d, !.adjusted = @ + d].paid = L.paid
      BY Zenon DEF Ledger
    <3> QED BY <3>1, <3>2
  <2> HIDE DEF X
  <2>3. ledger[s].paid[n] \in Int
    BY <1>3, LedgerFields
  <2> QED BY <2>1, <2>2, <2>3, CommitOldest
<1>12. ASSUME NEW s \in Students, NEW x \in Months,
              CancelInvoice(s, x) \/ RestoreInvoice(s, x)
       PROVE  OldestAt(u, m, n)
  <2>1. PICK X : /\ X \in {Cancel(ledger[s], x), Restore(ledger[s], x)}
                 /\ Commit(s, Settle(X))
    BY <1>12 DEF CancelInvoice, RestoreInvoice
  <2>2. LedgerInv(X)
    BY <1>1, <1>3, <2>1, CancelKeeps, RestoreKeeps
  <2>3. \A i \in Months : /\ Cancel(ledger[s], x).paid[i] <= ledger[s].paid[i]
                          /\ Restore(ledger[s], x).paid[i] <= ledger[s].paid[i]
    BY <1>3, RewritesGiveNothing, Zenon
  <2>4. \A i \in Months : X.paid[i] <= ledger[s].paid[i]
    BY <2>1, <2>3
  <2>5. GainsInOrder(ledger[s], Settle(X))
    BY <1>1, <1>3, <2>2, <2>4, SettleAfterLoss
  <2> QED BY <1>5, <2>1, <2>5, CommitOldest
<1>13. ASSUME NEW s \in Students, NEW x \in Months, NEW price \in Prices,
              GenerateInvoice(s, x, price)
       PROVE  OldestAt(u, m, n)
  <2> DEFINE X == Build(ledger[s], x, price)
  <2>1. Commit(s, X) /\ ledger[s].paid \in [Months -> Nat]
    BY <1>3, <1>13, LedgerFields DEF GenerateInvoice
  <2>2. X.paid = [ledger[s].paid EXCEPT ![x] = 0]
    <3>1. PICK L \in Ledger : L = ledger[s]
      BY <1>3
    <3>2. Build(L, x, price).paid = [L.paid EXCEPT ![x] = 0]
      BY Zenon DEF Build, Ledger
    <3> QED BY <3>1, <3>2
  <2> HIDE DEF X
  <2>3. ~ X.paid[n] > ledger[s].paid[n]
    BY <2>1, <2>2
  <2> QED BY <2>1, <2>3, CommitOldest
<1>14. ASSUME NEW s \in Students, NEW x \in Months, NEW auto \in BOOLEAN, NEW price \in Prices,
              StartRegenerate(s, x, auto, price)
       PROVE  OldestAt(u, m, n)
  <2>1. ledger' = ledger
    BY <1>14 DEF StartRegenerate
  <2> QED BY <2>1, StillOldest
<1>15. ASSUME NEW s \in Students, ApplyDue(s)
       PROVE  OldestAt(u, m, n)
  <2>1. \A i \in Months : ledger[s].paid[i] <= ledger[s].paid[i]
    <3>1. ledger[s].paid \in [Months -> Nat]
      BY <1>3, LedgerFields
    <3> QED BY <3>1
  <2>2. GainsInOrder(ledger[s], Settle(ledger[s]))
    BY <1>1, <1>3, <2>1, SettleAfterLoss
  <2> QED BY <1>5, <1>15, <2>2, CommitOldest DEF ApplyDue
<1>16. ASSUME NEW s \in Students, ApplyManually(s)
       PROVE  OldestAt(u, m, n)
  <2>1. GainsInOrder(ledger[s], SettleManually(ledger[s]))
    BY <1>1, <1>3, SettleManuallyGains
  <2> QED BY <1>5, <1>16, <2>1, CommitOldest DEF ApplyManually
<1>17. ASSUME NEW j \in jobs, CommitReplace(j)
       PROVE  OldestAt(u, m, n)
  <2> DEFINE L == ledger[j.student]
             X == Replace(L, j.month, j.price, j.hold)
  <2>1. LedgerInv(X) /\ Commit(j.student, Settle(X)) /\ LedgerInv(L)
    BY <1>1, <1>4, <1>17, ReplaceKeeps DEF CommitReplace
  <2>2. \A i \in Months : X.paid[i] <= L.paid[i]
    BY <1>4, RewritesGiveNothing, Zenon
  <2> HIDE DEF X
  <2>3. GainsInOrder(L, Settle(X))
    BY <1>1, <2>1, <2>2, SettleAfterLoss
  <2> QED BY <1>4, <1>5, <2>1, <2>3, CommitOldest
<1>18. ASSUME NEW j \in jobs, CommitAmendBelow(j)
       PROVE  OldestAt(u, m, n)
  <2> DEFINE L == ledger[j.student]
             X == AmendBelow(L, j.month, j.price)
  <2>1. LedgerInv(X) /\ LedgerInv(L)
    BY <1>1, <1>4, AmendBelowKeeps
  <2>2. \A i \in Months : X.paid[i] <= L.paid[i]
    BY <1>4, RewritesGiveNothing, Zenon
  <2>3. Commit(j.student, SettleIgnoring(X, {j.month}))
    BY <1>18 DEF CommitAmendBelow
  <2> HIDE DEF X
  <2>4. GainsInOrder(L, SettleIgnoring(X, {j.month}))
    BY <1>1, <2>1, <2>2, SettleAfterLoss
  <2> QED BY <1>4, <1>5, <2>3, <2>4, CommitOldest
<1>19. ASSUME NEW j \in jobs, CommitAmendInPlace(j)
       PROVE  OldestAt(u, m, n)
  <2> DEFINE L == ledger[j.student]
             X == AmendInPlace(L, j.month, j.price)
  <2>1. LedgerInv(X) /\ Commit(j.student, Settle(X)) /\ LedgerInv(L)
    BY <1>4, <1>19, AmendInPlaceKeeps DEF CommitAmendInPlace
  <2>2. \A i \in Months : X.paid[i] <= L.paid[i]
    BY <1>4, RewritesGiveNothing, Zenon
  <2> HIDE DEF X
  <2>3. GainsInOrder(L, Settle(X))
    BY <1>1, <2>1, <2>2, SettleAfterLoss
  <2> QED BY <1>4, <1>5, <2>1, <2>3, CommitOldest
<1>20. ASSUME \/ StartDailyPass
              \/ Restart
              \/ \E j \in jobs : Conflict(j)
              \/ \E s \in Students : FailDue(s)
              \/ UNCHANGED vars
       PROVE  OldestAt(u, m, n)
  <2>1. ledger' = ledger
    BY <1>20 DEF StartDailyPass, Restart, Conflict, FailDue, vars
  <2> QED BY <2>1, StillOldest
<1> QED
  BY <1>6, <1>7, <1>8, <1>9, <1>10, <1>11, <1>12, <1>13, <1>14, <1>15, <1>16, <1>17, <1>18,
     <1>19, <1>20, Zenon DEF Next

(* A month that gains money gains it only when no older month that         *)
(* settlement may touch still owes, but for the month an administrator     *)
(* moves an allocation to.                                                 *)
THEOREM MonthsFillOldestFirst == Spec => OldestFirst
<1> DEFINE Older(s, m, n) ==
      /\ m < n
      /\ ledger'[s].paid[n] > ledger[s].paid[n]
      /\ ~ \E p \in Pays, x \in Months : \E c \in 1..ledger[s].alloc[p][x] :
             \E k \in 0..c : Rework(s, p, x, c, k, n)
      => m \notin Settleable(ledger'[s], {}) \/ ledger'[s].paid[m] >= ledger'[s].price[m]
<1>1. ASSUME IInv, [Next]_vars, NEW s \in Students, NEW m \in Months, NEW n \in Months
      PROVE  Older(s, m, n)
  BY <1>1, StepOldest DEF OldestAt, Clean
<1>2. IInv /\ [Next]_vars => [\A s \in Students, m, n \in Months : Older(s, m, n)]_vars
  BY <1>1
<1>3. QED
  BY LedgersInduction, <1>2, PTL DEF Spec, OldestFirst

-----------------------------------------------------------------------------
(* Settlement gives a held month nothing and keeps the holds.              *)
LEMMA HeldIsLeft ==
  ASSUME NM \in Nat, NP \in Nat, NEW X, LedgerInv(X), NEW m \in Months, X.hold[m]
  PROVE  Settle(X).paid[m] = X.paid[m]
<1>1. CASE AutoApply
  <2> DEFINE F == Settleable(X, {})
  <2>1. PICK take : SpentAs(X, F, Spend(X, F), take)
    BY SpendShape
  <2>2. m \notin F
    BY DEF Settleable
  <2>3. Settle(X) = Spend(X, F)
    BY <1>1 DEF Settle, SettleIgnoring
  <2> HIDE DEF F
  <2>4. take[m] = 0 /\ Settle(X).paid[m] = X.paid[m] + take[m]
    BY <2>1, <2>2, <2>3 DEF SpentAs
  <2>5. X.paid[m] \in Nat
    BY LedgerFields
  <2> QED BY <2>4, <2>5
<1>2. CASE ~AutoApply
  BY <1>2 DEF Settle, SettleIgnoring
<1> QED BY <1>1, <1>2

(* Settlement changes no hold.                                             *)
LEMMA HoldsAreKept ==
  ASSUME NM \in Nat, NP \in Nat, NEW X, LedgerInv(X)
  PROVE  Settle(X).hold = X.hold
<1>1. \E take : SpentAs(X, Settleable(X, {}), Spend(X, Settleable(X, {})), take)
  BY SpendShape
<1> QED BY <1>1 DEF Settle, SettleIgnoring, SpentAs

(* A body that gives a held month nothing, followed by settlement.         *)
LEMMA HeldAfterBody ==
  ASSUME IInv, NEW s \in Students, NEW X, LedgerInv(X), Commit(s, Settle(X)), NEW m \in Months,
         X.paid[m] <= ledger[s].paid[m], ledger'[s].hold[m]
  PROVE  ledger'[s].paid[m] <= ledger[s].paid[m]
<1>1. NM \in Nat /\ NP \in Nat
  BY SizesAssumption
<1>2. ledger'[s] = Settle(X)
  BY DEF Commit, IInv, RowsTyped
<1>3. X.hold[m]
  BY <1>1, <1>2, HoldsAreKept
<1> QED BY <1>1, <1>2, <1>3, HeldIsLeft

(* No pass, void, cancellation, restore or replacement refills a month     *)
(* from which an administrator took money away.                            *)
THEOREM HeldMonthsStayUnfilled == Spec => HeldStaysUnfilled
<1> DEFINE Touches(s) ==
      \/ ApplyDue(s)
      \/ \E p \in Pays : VoidPayment(s, p)
      \/ \E n \in Months : CancelInvoice(s, n) \/ RestoreInvoice(s, n)
      \/ \E j \in jobs : j.student = s /\ CommitReplace(j)
<1>1. ASSUME IInv, NEW s \in Students, Touches(s), NEW m \in Months, ledger'[s].hold[m]
      PROVE  ledger'[s].paid[m] <= ledger[s].paid[m]
  <2>1. NM \in Nat /\ NP \in Nat
    BY SizesAssumption
  <2>2. PICK L : L = ledger[s] /\ LedgerInv(L)
    BY <1>1 DEF IInv
  <2>3. L \in Ledger /\ L.paid[m] \in Nat
    BY <2>2, LedgerFields
  <2>4. CASE ApplyDue(s)
    BY <1>1, <2>2, <2>3, <2>4, HeldAfterBody DEF ApplyDue
  <2>5. ASSUME NEW p \in Pays, VoidPayment(s, p)
        PROVE  ledger'[s].paid[m] <= ledger[s].paid[m]
    <3>1. LedgerInv(VoidPaymentInTx(L, p)) /\ Commit(s, Settle(VoidPaymentInTx(L, p)))
      BY <2>1, <2>2, <2>5, VoidKeeps DEF VoidPayment
    <3>2. VoidPaymentInTx(L, p).paid[m] <= L.paid[m]
      BY <2>2, VoidGivesNothing, Zenon
    <3> QED BY <1>1, <2>2, <3>1, <3>2, HeldAfterBody
  <2>6. ASSUME NEW n \in Months, CancelInvoice(s, n)
        PROVE  ledger'[s].paid[m] <= ledger[s].paid[m]
    <3>1. LedgerInv(Cancel(L, n)) /\ Commit(s, Settle(Cancel(L, n)))
      BY <2>1, <2>2, <2>6, CancelKeeps DEF CancelInvoice
    <3>2. Cancel(L, n).paid = [L.paid EXCEPT ![n] = 0]
      BY <2>3, Zenon DEF Cancel, ReleaseInvoiceAllocations, Ledger
    <3>3. Cancel(L, n).paid[m] <= L.paid[m]
      BY <2>3, <3>2 DEF Ledger
    <3> QED BY <1>1, <2>2, <3>1, <3>3, HeldAfterBody
  <2>7. ASSUME NEW n \in Months, RestoreInvoice(s, n)
        PROVE  ledger'[s].paid[m] <= ledger[s].paid[m]
    <3>1. LedgerInv(Restore(L, n)) /\ Commit(s, Settle(Restore(L, n)))
      BY <2>1, <2>2, <2>7, RestoreKeeps DEF RestoreInvoice
    <3>2. Restore(L, n).paid = L.paid
      BY <2>3, Zenon DEF Restore, Ledger
    <3> QED BY <1>1, <2>2, <2>3, <3>1, <3>2, HeldAfterBody
  <2>8. ASSUME NEW j \in jobs, j.student = s, CommitReplace(j)
        PROVE  ledger'[s].paid[m] <= ledger[s].paid[m]
    <3> DEFINE X == Replace(L, j.month, j.price, j.hold)
    <3>1. j.month \in Months /\ j.price \in Nat /\ j.hold \in BOOLEAN
      BY <1>1 DEF IInv, RowsTyped, Job
    <3>2. LedgerInv(X) /\ Commit(s, Settle(X))
      BY <2>1, <2>2, <2>8, <3>1, ReplaceKeeps DEF CommitReplace
    <3>3. X.paid[m] <= L.paid[m]
      BY <2>2, <3>1, RewritesGiveNothing, Zenon
    <3> HIDE DEF X
    <3> QED BY <1>1, <2>2, <3>2, <3>3, HeldAfterBody
  <2> QED BY <1>1, <2>4, <2>5, <2>6, <2>7, <2>8
<1>2. IInv => \A s \in Students : Touches(s) =>
                \A m \in Months : ledger[s].hold[m] /\ ledger'[s].hold[m]
                                  => ledger'[s].paid[m] <= ledger[s].paid[m]
  BY <1>1
<1>3. IInv /\ [Next]_vars =>
        [\A s \in Students : Touches(s) =>
           \A m \in Months : ledger[s].hold[m] /\ ledger'[s].hold[m]
                             => ledger'[s].paid[m] <= ledger[s].paid[m]]_vars
  BY <1>2
<1>4. QED
  BY LedgersInduction, <1>3, PTL DEF Spec, HeldStaysUnfilled


-----------------------------------------------------------------------------
(* StudentLedger implements StudentWallet: each operation of the code is   *)
(* one step of the wallets, or none.  A wallet is worth what its books say *)
(* in every right ledger, so a step is known by what it books.             *)

(* L2 books c of cash more than L, and the same corrections.               *)
Booked(L2, L, c) == L2.cash = L.cash + c /\ L2.adjusted = L.adjusted

SameBooks(L2, L) == L2.cash = L.cash /\ L2.adjusted = L.adjusted

(* A right ledger splits what it books into balance and paid months.       *)
LEMMA BooksSplit ==
  ASSUME NM \in Nat, NP \in Nat, NEW L, LedgerInv(L)
  PROVE  /\ L.balance \in Nat /\ Total(L.paid, NM) \in Nat
         /\ L.cash \in Int /\ L.adjusted \in Int
         /\ L.balance + Total(L.paid, NM) = L.cash + L.adjusted
<1>1. /\ L \in Ledger /\ L.balance \in Int /\ L.balance >= 0 /\ L.cash \in Int
      /\ L.adjusted \in Int
  BY LedgerFields
<1>2. Total(L.paid, NM) \in Nat
  BY <1>1, LedgerSums
<1>3. BalanceIsDerived(L)
  BY DEF LedgerInv
<1> QED BY <1>1, <1>2, <1>3 DEF BalanceIsDerived

(* What is paid in all grows when every month's paid amount does.          *)
LEMMA PaidGrows ==
  ASSUME NM \in Nat, NEW L, NEW L2, NEW take \in [Months -> Nat],
         L.paid \in [Months -> Nat], L2.paid = [m \in Months |-> L.paid[m] + take[m]]
  PROVE  Total(L2.paid, NM) >= Total(L.paid, NM)
<1>1. L.paid \in [1..NM -> Int] /\ take \in [1..NM -> Int] /\ take \in [1..NM -> Nat]
  BY DEF Months
<1>2. \A m \in 1..NM : L2.paid[m] = L.paid[m] + take[m]
  BY DEF Months
<1>3. Total(L2.paid, NM) = Total(L.paid, NM) + Total(take, NM)
  BY <1>1, <1>2, TotalPlus
<1>4. Total(take, NM) \in Int /\ Total(L.paid, NM) \in Int
  BY <1>1, CumType
<1>5. Total(take, NM) >= 0
  <2>1. NM \in 0..NM
    OBVIOUS
  <2> QED BY <1>1, <2>1, CumMonotone DEF Total
<1> QED BY <1>3, <1>4, <1>5

(* Settlement books nothing and takes   money off no month.                *)
LEMMA SpendFlow ==
  ASSUME NM \in Nat, NP \in Nat, NEW L, LedgerInv(L),
         NEW F, \A m \in F : m \in Months => IsOpen(L, m)
  PROVE  /\ SameBooks(Spend(L, F), L)
         /\ Total(Spend(L, F).paid, NM) >= Total(L.paid, NM)
<1> DEFINE debt == Debt(L, F)
           budget == Most(0, Least(L.balance, Total(L.deposit, NP)))
           take == AllocateFifo(debt, budget)
<1>1. L \in Ledger /\ L.balance \in Int /\ L.balance >= 0 /\ L.paid \in [Months -> Nat]
  BY LedgerFields
<1>2. /\ Spend(L, F).cash = L.cash /\ Spend(L, F).adjusted = L.adjusted
      /\ Spend(L, F).paid = [m \in Months |-> L.paid[m] + take[m]]
  BY <1>1, Zenon DEF Spend, Ledger, PaidAfter
<1>3. debt \in [Months -> Nat]
  <2> SUFFICES ASSUME NEW m \in Months PROVE debt[m] \in Nat
    BY DEF Debt
  <2>1. L.paid[m] <= L.price[m] /\ L.paid[m] \in Nat /\ L.price[m] \in Nat
    BY MonthFacts
  <2> QED BY <2>1 DEF Debt
<1>4. budget \in Nat
  BY <1>1, LedgerSums DEF Least, Most
<1> HIDE DEF debt, budget
<1>5. take \in [Months -> Nat]
  BY <1>3, <1>4, FifoTake
<1> HIDE DEF take
<1>6. Total(Spend(L, F).paid, NM) >= Total(L.paid, NM)
  BY <1>1, <1>2, <1>5, PaidGrows
<1> QED BY <1>2, <1>6 DEF SameBooks

(* The same of settleDepositInTx.                                          *)
LEMMA SettleFlow ==
  ASSUME NM \in Nat, NP \in Nat, NEW L, LedgerInv(L), NEW H
  PROVE  /\ SameBooks(SettleIgnoring(L, H), L)
         /\ SameBooks(Settle(L), L)
         /\ Total(Settle(L).paid, NM) >= Total(L.paid, NM)
<1>1. ASSUME NEW G
      PROVE  /\ SameBooks(SettleIgnoring(L, G), L)
             /\ Total(SettleIgnoring(L, G).paid, NM) >= Total(L.paid, NM)
  <2>1. /\ SameBooks(Spend(L, Settleable(L, G)), L)
        /\ Total(Spend(L, Settleable(L, G)).paid, NM) >= Total(L.paid, NM)
    BY SpendFlow DEF Settleable
  <2>2. Total(L.paid, NM) \in Nat
    BY BooksSplit
  <2> QED BY <2>1, <2>2 DEF SettleIgnoring, SameBooks
<1> QED BY <1>1 DEF Settle

(* A new cheque books its amount and takes money off no month.              *)
LEMMA CreateFlow ==
  ASSUME NM \in Nat, NP \in Nat, NEW L, LedgerInv(L), NEW p \in Pays, NEW a \in Amounts
  PROVE  /\ Booked(CreatePaymentInTx(L, p, a), L, a)
         /\ Total(CreatePaymentInTx(L, p, a).paid, NM) >= Total(L.paid, NM)
<1> DEFINE F == {m \in Months : IsOpen(L, m)}
           debt == Debt(L, F)
           take == AllocateFifo(debt, a)
           L2 == CreatePaymentInTx(L, p, a)
<1>1. /\ L \in Ledger /\ L.paid \in [Months -> Nat] /\ L.cash \in Int /\ L.adjusted \in Int
      /\ a \in Nat
  BY LedgerFields, MoneyAssumption
<1>2. /\ L2.cash = L.cash + a /\ L2.adjusted = L.adjusted
      /\ L2.paid = [m \in Months |-> L.paid[m] + take[m]]
  BY <1>1, Zenon DEF CreatePaymentInTx, Ledger, PaidAfter
<1>3. debt \in [Months -> Nat]
  <2> SUFFICES ASSUME NEW m \in Months PROVE debt[m] \in Nat
    BY DEF Debt
  <2>1. L.paid[m] <= L.price[m] /\ L.paid[m] \in Nat /\ L.price[m] \in Nat
    BY MonthFacts
  <2> QED BY <2>1 DEF Debt
<1> HIDE DEF debt
<1>4. take \in [Months -> Nat]
  BY <1>1, <1>3, FifoTake
<1> HIDE DEF take, L2
<1>5. Total(L2.paid, NM) >= Total(L.paid, NM)
  BY <1>1, <1>2, <1>4, PaidGrows
<1>6. Booked(L2, L, a)
  BY <1>1, <1>2 DEF Booked
<1> QED BY <1>5, <1>6 DEF L2

(* A void books the cheque's amount off.                                   *)
LEMMA VoidFlow ==
  ASSUME NM \in Nat, NP \in Nat, NEW L, LedgerInv(L), NEW p \in Pays, CanVoid(L, p)
  PROVE  L.amount[p] \in Nat \ {0} /\ Booked(VoidPaymentInTx(L, p), L, 0 - L.amount[p])
<1>1. /\ L \in Ledger /\ L.cash \in Int /\ L.adjusted \in Int
      /\ L.amount[p] \in Nat
  BY LedgerFields
<1>2. L.amount[p] > 0
  BY DEF CanVoid
<1>3. /\ VoidPaymentInTx(L, p).cash = L.cash - L.amount[p]
      /\ VoidPaymentInTx(L, p).adjusted = L.adjusted
  BY <1>1, Zenon DEF VoidPaymentInTx, Ledger
<1> QED BY <1>1, <1>2, <1>3 DEF Booked

(* What moves no cash and posts no correction books nothing.               *)
LEMMA QuietFlow ==
  ASSUME NEW L \in Ledger
  PROVE  /\ \A m \in Months : /\ SameBooks(Cancel(L, m), L)
                              /\ SameBooks(Restore(L, m), L)
         /\ \A m \in Months : \A price : /\ SameBooks(Build(L, m, price), L)
                                          /\ SameBooks(AmendBelow(L, m, price), L)
                                          /\ SameBooks(AmendInPlace(L, m, price), L)
         /\ \A m \in Months : \A price, hold : SameBooks(Replace(L, m, price, hold), L)
         /\ \A p, m, c, k, n : SameBooks(ReworkAllocation(L, p, m, c, k, n), L)
<1>1. ASSUME NEW m \in Months
      PROVE  SameBooks(Cancel(L, m), L) /\ SameBooks(Restore(L, m), L)
  BY Zenon DEF SameBooks, Cancel, ReleaseInvoiceAllocations, Restore, Ledger
<1>2. ASSUME NEW m \in Months, NEW price
      PROVE  /\ SameBooks(Build(L, m, price), L)
             /\ SameBooks(AmendBelow(L, m, price), L)
             /\ SameBooks(AmendInPlace(L, m, price), L)
  BY Zenon DEF SameBooks, Build, AmendBelow, ReleaseInvoiceAllocations, AmendInPlace, Ledger
<1>3. ASSUME NEW m \in Months, NEW price, NEW hold
      PROVE  SameBooks(Replace(L, m, price, hold), L)
  BY Zenon DEF SameBooks, Build, Replace, Ledger
<1>4. ASSUME NEW p, NEW m, NEW c, NEW k, NEW n
      PROVE  SameBooks(ReworkAllocation(L, p, m, c, k, n), L)
  BY Zenon DEF SameBooks, ReworkAllocation, Ledger
<1> QED BY <1>1, <1>2, <1>3, <1>4

-----------------------------------------------------------------------------
(* The wallet of a student holds what the books say after every step.      *)
LEMMA WalletBooks ==
  ASSUME IInv, IInv', NEW s \in Students, NEW c \in Int, NEW k \in Int,
         ledger'[s].cash = ledger[s].cash + c, ledger'[s].adjusted = ledger[s].adjusted + k
  PROVE  Wallet!Books(s, c, k)
<1>1. NM \in Nat /\ NP \in Nat
  BY SizesAssumption
<1>2. LedgerInv(ledger'[s])
  BY DEF IInv
<1>3. /\ ledger'[s].balance \in Nat /\ Total(ledger'[s].paid, NM) \in Nat
      /\ ledger'[s].balance + Total(ledger'[s].paid, NM) = ledger'[s].cash + ledger'[s].adjusted
  BY <1>1, <1>2, BooksSplit
<1> QED BY <1>3 DEF Wallet!Books

(* The same of a step that posts no correction.                            *)
LEMMA WalletBooked ==
  ASSUME IInv, IInv', NEW s \in Students, NEW c \in Int, Booked(ledger'[s], ledger[s], c)
  PROVE  /\ ledger'[s].cash = ledger[s].cash + c /\ ledger'[s].adjusted = ledger[s].adjusted + 0
         /\ ledger'[s].balance >= 0 /\ Total(ledger'[s].paid, NM) >= 0
         /\ ledger'[s].balance + Total(ledger'[s].paid, NM)
              = ledger'[s].cash + ledger'[s].adjusted
<1>1. ledger[s].adjusted \in Int
  BY SizesAssumption, BooksSplit DEF IInv
<1>2. /\ ledger'[s].cash = ledger[s].cash + c /\ ledger'[s].adjusted = ledger[s].adjusted + 0
  BY <1>1 DEF Booked
<1>3. Wallet!Books(s, c, 0)
  BY <1>2, WalletBooks
<1> QED BY <1>2, <1>3 DEF Wallet!Books

(* A transaction on one student leaves the other wallets alone.            *)
LEMMA WalletOnly ==
  ASSUME IInv, NEW s \in Students, NEW L, Commit(s, L)
  PROVE  ledger'[s] = L /\ Wallet!Only({s})
<1>1. ledger \in [Students -> Ledger] /\ ledger' = [ledger EXCEPT ![s] = L]
  BY DEF IInv, RowsTyped, Commit
<1>2. \A u \in Students \ {s} : ledger'[u] = ledger[u]
  BY <1>1
<1> QED BY <1>1, <1>2 DEF Wallet!Only

(* A step of the wallets in which cheques are worth something in A.        *)
WalletStep(A) ==
    \E s \in Students :
        \/ \E a \in A : Wallet!Receive(s, a) \/ Wallet!GiveBack(s, a)
        \/ \E t \in Students, a, b \in A : Wallet!Exchange(s, a, t, b)
        \/ \E a \in 1..ledger[s].balance : Wallet!Refund(s, a)
        \/ \E d \in Adjustments : Wallet!Correct(s, d)
        \/ Wallet!Move(s)

(* A transaction that books nothing moves money inside the wallet.         *)
LEMMA WalletMoves ==
  ASSUME IInv, IInv', NEW s \in Students, NEW L, Commit(s, L), SameBooks(L, ledger[s])
  PROVE  \A A : WalletStep(A)
<1>1. ledger'[s] = L /\ Wallet!Only({s})
  BY WalletOnly
<1>2. ledger[s].cash \in Int /\ ledger[s].adjusted \in Int
  BY SizesAssumption, BooksSplit DEF IInv
<1>3. Booked(ledger'[s], ledger[s], 0)
  BY <1>1, <1>2 DEF Booked, SameBooks
<1>4. Wallet!Books(s, 0, 0)
  BY <1>3, WalletBooked DEF Wallet!Books
<1>5. Wallet!Move(s)
  BY <1>1, <1>4 DEF Wallet!Move
<1> QED BY <1>5 DEF WalletStep

(* Every step of the ledgers is a step of the wallets or leaves them.      *)
LEMMA StepIsWalletStep ==
  ASSUME IInv, IInv', NEW A, Amounts \subseteq A, WorthIn(A), [Next]_vars
  PROVE  WalletStep(A) \/ ledger' = ledger
<1>1. NM \in Nat /\ NP \in Nat
  BY SizesAssumption
<1>2. Amounts \subseteq Nat \ {0} /\ Adjustments \subseteq Int
  BY MoneyAssumption
<1>3. /\ jobs \subseteq Job /\ ledger \in [Students -> Ledger]
      /\ \A s \in Students : LedgerInv(ledger[s]) /\ ledger[s] \in Ledger
  BY DEF IInv, RowsTyped, LedgerInv
<1>4. ASSUME NEW j \in jobs
      PROVE  /\ j.student \in Students /\ j.month \in Months /\ j.price \in Nat
             /\ j.hold \in BOOLEAN /\ LedgerInv(ledger[j.student]) /\ ledger[j.student] \in Ledger
  BY <1>3 DEF Job
<1>5. ASSUME NEW s \in Students
      PROVE  /\ ledger[s].cash \in Int /\ ledger[s].adjusted \in Int
             /\ ledger[s].balance \in Nat /\ Total(ledger[s].paid, NM) \in Nat
  BY <1>1, <1>3, BooksSplit
<1>6. ASSUME NEW s \in Students, NEW p \in Pays, NEW a \in Amounts, CreatePayment(s, p, a)
      PROVE  WalletStep(A)
  <2> DEFINE L1 == CreatePaymentInTx(ledger[s], p, a)
  <2>1. LedgerInv(L1)
    BY <1>1, <1>3, <1>6, CreateKeeps DEF CreatePayment
  <2>2. Booked(L1, ledger[s], a) /\ Total(L1.paid, NM) >= Total(ledger[s].paid, NM)
    BY <1>1, <1>3, CreateFlow
  <2>3. Commit(s, Settle(L1))
    BY <1>6 DEF CreatePayment
  <2> HIDE DEF L1
  <2>4. SameBooks(Settle(L1), L1) /\ Total(Settle(L1).paid, NM) >= Total(L1.paid, NM)
    BY <1>1, <2>1, SettleFlow
  <2>5. ledger'[s] = Settle(L1) /\ Wallet!Only({s})
    BY <2>3, WalletOnly
  <2>6. a \in Int /\ Booked(ledger'[s], ledger[s], a)
    BY <1>2, <2>2, <2>4, <2>5 DEF Booked, SameBooks
  <2>7. Wallet!Books(s, a, 0)
    BY <2>6, WalletBooked DEF Wallet!Books
  <2>8. Total(ledger'[s].paid, NM) >= Total(ledger[s].paid, NM)
    <3>1. LedgerInv(ledger'[s])
      BY DEF IInv
    <3>2. /\ Total(ledger'[s].paid, NM) \in Nat /\ Total(L1.paid, NM) \in Nat
          /\ Total(ledger[s].paid, NM) \in Nat
      BY <1>1, <1>3, <2>1, <3>1, BooksSplit
    <3> QED BY <2>2, <2>4, <2>5, <3>2
  <2>9. Wallet!Receive(s, a)
    BY <2>5, <2>7, <2>8 DEF Wallet!Receive
  <2> QED BY <2>9 DEF WalletStep
<1>7. ASSUME NEW s \in Students, NEW p \in Pays, VoidPayment(s, p)
      PROVE  WalletStep(A)
  <2> DEFINE L1 == VoidPaymentInTx(ledger[s], p)
             a == ledger[s].amount[p]
  <2>1. LedgerInv(L1)
    BY <1>1, <1>3, <1>7, VoidKeeps DEF VoidPayment
  <2>2. a \in A /\ a \in Int /\ Booked(L1, ledger[s], 0 - a)
    BY <1>1, <1>3, <1>7, VoidFlow DEF VoidPayment, WorthIn, Worths
  <2>3. Commit(s, Settle(L1))
    BY <1>7 DEF VoidPayment
  <2> HIDE DEF L1, a
  <2>4. SameBooks(Settle(L1), L1)
    BY <1>1, <2>1, SettleFlow
  <2>5. ledger'[s] = Settle(L1) /\ Wallet!Only({s})
    BY <2>3, WalletOnly
  <2>6. 0 - a \in Int
    BY <1>2, <2>2
  <2>7. Booked(ledger'[s], ledger[s], 0 - a)
    BY <2>2, <2>4, <2>5 DEF Booked, SameBooks
  <2>8. Wallet!Books(s, 0 - a, 0)
    BY <2>6, <2>7, WalletBooked DEF Wallet!Books
  <2>9. Wallet!GiveBack(s, a)
    BY <2>5, <2>8 DEF Wallet!GiveBack
  <2> QED BY <2>2, <2>9 DEF WalletStep
<1>8. ASSUME NEW s \in Students, NEW p \in Pays, NEW t \in Students, NEW q \in Pays,
             NEW b \in Amounts, EditPayment(s, p, t, q, b)
      PROVE  WalletStep(A)
  <2> DEFINE L1 == VoidPaymentInTx(ledger[s], p)
             a == ledger[s].amount[p]
  <2>1. LedgerInv(L1)
    BY <1>1, <1>3, <1>8, VoidKeeps DEF EditPayment
  <2>2. a \in A /\ a \in Int /\ Booked(L1, ledger[s], 0 - a)
    BY <1>1, <1>3, <1>8, VoidFlow DEF EditPayment, WorthIn, Worths
  <2>3. ledger[t].amount[q] = 0
    BY <1>8 DEF EditPayment
  <2>4. a \in Int /\ b \in Int
    <3> HIDE DEF a
    <3>1. \A z \in Amounts : z \in Int
      BY <1>2
    <3> QED BY <2>2, <3>1
  <2>5. CASE t = s
    <3> DEFINE L2 == CreatePaymentInTx(L1, q, b)
    <3>1. L1.amount = ledger[s].amount
      <4>1. PICK L \in Ledger : L = ledger[s]
        BY <1>3
      <4>2. VoidPaymentInTx(L, p).amount = L.amount
        BY Zenon DEF VoidPaymentInTx, Ledger
      <4> QED BY <4>1, <4>2
    <3>2. Commit(s, Settle(L2))
      BY <1>8, <2>5 DEF EditPayment
    <3> HIDE DEF L1, a
    <3>3. LedgerInv(L2) /\ Booked(L2, L1, b)
      BY <1>1, <2>1, <2>3, <2>5, <3>1, CreateKeeps, CreateFlow
    <3> HIDE DEF L2
    <3>4. SameBooks(Settle(L2), L2)
      BY <1>1, <3>3, SettleFlow
    <3>5. ledger'[s] = Settle(L2) /\ Wallet!Only({s})
      BY <3>2, WalletOnly
    <3>6. b - a \in Int
      BY <2>4
    <3>7. Booked(ledger'[s], ledger[s], b - a)
      BY <1>5, <2>2, <2>4, <3>3, <3>4, <3>5 DEF Booked, SameBooks
    <3>8. Wallet!Books(s, b - a, 0)
      BY <3>6, <3>7, WalletBooked DEF Wallet!Books
    <3>9. Wallet!Exchange(s, a, s, b)
      BY <3>5, <3>8 DEF Wallet!Exchange
    <3> QED BY <2>2, <3>9 DEF WalletStep
  <2>6. CASE t # s
    <3> DEFINE L2 == CreatePaymentInTx(ledger[t], q, b)
    <3>1. ledger' = [ledger EXCEPT ![s] = Settle(L1), ![t] = Settle(L2)]
      BY <1>8, <2>6 DEF EditPayment
    <3>2. LedgerInv(L2) /\ Booked(L2, ledger[t], b)
      BY <1>1, <1>3, <2>3, CreateKeeps, CreateFlow
    <3> HIDE DEF L1, L2, a
    <3>3. SameBooks(Settle(L1), L1) /\ SameBooks(Settle(L2), L2)
      BY <1>1, <2>1, <3>2, SettleFlow
    <3>4. /\ ledger'[s] = Settle(L1) /\ ledger'[t] = Settle(L2)
          /\ \A u \in Students \ {s, t} : ledger'[u] = ledger[u]
      BY <1>3, <2>6, <3>1
    <3>5. Wallet!Only({s, t})
      BY <3>4 DEF Wallet!Only
    <3>6. 0 - a \in Int
      BY <2>4
    <3>7. Booked(ledger'[s], ledger[s], 0 - a) /\ Booked(ledger'[t], ledger[t], b)
      BY <2>2, <3>2, <3>3, <3>4 DEF Booked, SameBooks
    <3>8. Wallet!Books(s, 0 - a, 0)
      BY <3>6, <3>7, WalletBooked DEF Wallet!Books
    <3>9. Wallet!Books(t, b, 0)
      BY <2>4, <3>7, WalletBooked DEF Wallet!Books
    <3>10. Wallet!Exchange(s, a, t, b)
      BY <2>6, <3>5, <3>8, <3>9 DEF Wallet!Exchange
    <3> QED BY <2>2, <3>10 DEF WalletStep
  <2> QED BY <2>5, <2>6
<1>9. ASSUME NEW s \in Students, NEW p \in Pays, NEW m \in Months, NEW n \in Months,
             NEW c \in 1..ledger[s].alloc[p][m], NEW k \in 0..c, Rework(s, p, m, c, k, n)
      PROVE  WalletStep(A)
  <2> DEFINE L1 == ReworkAllocation(ledger[s], p, m, c, k, n)
  <2>1. ledger[s].alloc[p][m] \in Nat
    BY <1>3, LedgerFields
  <2>2. c \in Nat /\ c > 0 /\ k \in Nat /\ k <= c
    BY <2>1
  <2>3. LedgerInv(L1) /\ SameBooks(L1, ledger[s])
    BY <1>1, <1>3, <1>9, <2>2, ReworkKeeps, QuietFlow DEF Rework
  <2>4. SameBooks(Settle(L1), ledger[s]) /\ Commit(s, Settle(L1))
    BY <1>1, <1>9, <2>3, SettleFlow DEF Rework, SameBooks
  <2> QED BY <2>4, WalletMoves
<1>10. ASSUME NEW s \in Students, NEW a \in Money(s), Refund(s, a)
       PROVE  WalletStep(A)
  <2> DEFINE L1 == RefundDeposit(ledger[s], a)
  <2>1. a \in 1..ledger[s].balance /\ a \in Int /\ a <= ledger[s].balance
    BY <1>5, <1>10 DEF Money, Most
  <2>2. L1.cash = ledger[s].cash - a /\ L1.adjusted = ledger[s].adjusted /\ L1.paid = ledger[s].paid
    <3>1. PICK L \in Ledger : L = ledger[s]
      BY <1>3
    <3>2. /\ RefundDeposit(L, a).cash = L.cash - a /\ RefundDeposit(L, a).adjusted = L.adjusted
          /\ RefundDeposit(L, a).paid = L.paid
      BY Zenon DEF RefundDeposit, Ledger
    <3> QED BY <3>1, <3>2
  <2>3. ledger'[s] = L1 /\ Wallet!Only({s})
    BY <1>10, WalletOnly DEF Refund
  <2> HIDE DEF L1
  <2>4. ledger[s].cash \in Int /\ ledger[s].adjusted \in Int
    BY <1>3, LedgerFields
  <2>5. 0 - a \in Int
    BY <2>1
  <2>6. Booked(ledger'[s], ledger[s], 0 - a)
    BY <2>1, <2>2, <2>3, <2>4 DEF Booked
  <2>7. Wallet!Books(s, 0 - a, 0)
    BY <2>5, <2>6, WalletBooked DEF Wallet!Books
  <2>8. Wallet!Refund(s, a) /\ a \in 1..ledger[s].balance
    BY <2>1, <2>2, <2>3, <2>7 DEF Wallet!Refund
  <2> QED BY <2>8 DEF WalletStep
<1>11. ASSUME NEW s \in Students, NEW d \in Adjustments, AdjustBalance(s, d)
       PROVE  WalletStep(A)
  <2> DEFINE L1 == [ledger[s] EXCEPT !.balance = @ + d, !.adjusted = @ + d]
  <2>1. L1.cash = ledger[s].cash /\ L1.adjusted = ledger[s].adjusted + d /\ L1.paid = ledger[s].paid
    BY <1>3, Zenon DEF Ledger
  <2>2. ledger'[s] = L1 /\ Wallet!Only({s})
    BY <1>11, WalletOnly DEF AdjustBalance
  <2> HIDE DEF L1
  <2>3. ledger[s].cash \in Int /\ ledger[s].adjusted \in Int /\ d \in Int
    BY <1>2, <1>3, LedgerFields
  <2>4. /\ ledger'[s].cash = ledger[s].cash + 0
        /\ ledger'[s].adjusted = ledger[s].adjusted + d
    BY <2>1, <2>2, <2>3
  <2>5. Wallet!Books(s, 0, d)
    BY <2>3, <2>4, WalletBooks
  <2>6. Wallet!Correct(s, d)
    BY <2>1, <2>2, <2>5 DEF Wallet!Correct
  <2> QED BY <2>6 DEF WalletStep
<1>12. ASSUME NEW s \in Students, NEW m \in Months, CancelInvoice(s, m)
       PROVE  WalletStep(A)
  <2>1. LedgerInv(Cancel(ledger[s], m)) /\ SameBooks(Cancel(ledger[s], m), ledger[s])
    BY <1>1, <1>3, CancelKeeps, QuietFlow
  <2>2. SameBooks(Settle(Cancel(ledger[s], m)), ledger[s])
        /\ Commit(s, Settle(Cancel(ledger[s], m)))
    BY <1>1, <1>12, <2>1, SettleFlow DEF CancelInvoice, SameBooks
  <2> QED BY <2>2, WalletMoves
<1>13. ASSUME NEW s \in Students, NEW m \in Months, RestoreInvoice(s, m)
       PROVE  WalletStep(A)
  <2>1. LedgerInv(Restore(ledger[s], m)) /\ SameBooks(Restore(ledger[s], m), ledger[s])
    BY <1>3, RestoreKeeps, QuietFlow
  <2>2. SameBooks(Settle(Restore(ledger[s], m)), ledger[s])
        /\ Commit(s, Settle(Restore(ledger[s], m)))
    BY <1>1, <1>13, <2>1, SettleFlow DEF RestoreInvoice, SameBooks
  <2> QED BY <2>2, WalletMoves
<1>14. ASSUME NEW s \in Students, NEW m \in Months, NEW price \in Prices,
              GenerateInvoice(s, m, price)
       PROVE  WalletStep(A)
  <2>1. SameBooks(Build(ledger[s], m, price), ledger[s])
        /\ Commit(s, Build(ledger[s], m, price))
    BY <1>3, <1>14, QuietFlow DEF GenerateInvoice
  <2> QED BY <2>1, WalletMoves
<1>15. ASSUME NEW s \in Students, ApplyDue(s)
       PROVE  WalletStep(A)
  <2>1. SameBooks(Settle(ledger[s]), ledger[s]) /\ Commit(s, Settle(ledger[s]))
    BY <1>1, <1>3, <1>15, SettleFlow DEF ApplyDue
  <2> QED BY <2>1, WalletMoves
<1>16. ASSUME NEW s \in Students, ApplyManually(s)
       PROVE  WalletStep(A)
  <2> DEFINE freed == [ledger[s] EXCEPT !.hold = [m \in Months |-> FALSE]]
  <2>1. LedgerInv(freed) /\ SameBooks(freed, ledger[s])
    <3>1. PICK L \in Ledger : L = ledger[s] /\ LedgerInv(L)
      BY <1>3
    <3> DEFINE L2 == [L EXCEPT !.hold = [m \in Months |-> FALSE]]
    <3>2. LedgerInv(L2)
      BY <3>1, FreedKeeps
    <3>3. SameBooks(L2, L)
      BY Zenon DEF SameBooks, Ledger
    <3> QED BY <3>1, <3>2, <3>3
  <2> HIDE DEF freed
  <2>2. SameBooks(Spend(freed, Settleable(freed, {})), ledger[s])
    BY <1>1, <2>1, SpendFlow DEF Settleable, SameBooks
  <2>3. Commit(s, Spend(freed, Settleable(freed, {})))
    BY <1>16 DEF ApplyManually, SettleManually, freed
  <2> QED BY <2>2, <2>3, WalletMoves
<1>17. ASSUME NEW j \in jobs, CommitReplace(j)
       PROVE  WalletStep(A)
  <2> DEFINE L1 == Replace(ledger[j.student], j.month, j.price, j.hold)
  <2>1. LedgerInv(L1) /\ SameBooks(L1, ledger[j.student])
    BY <1>1, <1>4, <1>17, ReplaceKeeps, QuietFlow DEF CommitReplace
  <2>2. SameBooks(Settle(L1), ledger[j.student]) /\ Commit(j.student, Settle(L1))
    BY <1>1, <1>17, <2>1, SettleFlow DEF CommitReplace, SameBooks
  <2> QED BY <1>4, <2>2, WalletMoves
<1>18. ASSUME NEW j \in jobs, CommitAmendBelow(j)
       PROVE  WalletStep(A)
  <2> DEFINE L1 == AmendBelow(ledger[j.student], j.month, j.price)
  <2>1. LedgerInv(L1) /\ SameBooks(L1, ledger[j.student])
    BY <1>1, <1>4, AmendBelowKeeps, QuietFlow
  <2>2. /\ SameBooks(SettleIgnoring(L1, {j.month}), ledger[j.student])
        /\ Commit(j.student, SettleIgnoring(L1, {j.month}))
    BY <1>1, <1>18, <2>1, SettleFlow DEF CommitAmendBelow, SameBooks
  <2> QED BY <1>4, <2>2, WalletMoves
<1>19. ASSUME NEW j \in jobs, CommitAmendInPlace(j)
       PROVE  WalletStep(A)
  <2> DEFINE L1 == AmendInPlace(ledger[j.student], j.month, j.price)
  <2>1. LedgerInv(L1) /\ SameBooks(L1, ledger[j.student])
    BY <1>4, <1>19, AmendInPlaceKeeps, QuietFlow DEF CommitAmendInPlace
  <2>2. SameBooks(Settle(L1), ledger[j.student]) /\ Commit(j.student, Settle(L1))
    BY <1>1, <1>19, <2>1, SettleFlow DEF CommitAmendInPlace, SameBooks
  <2> QED BY <1>4, <2>2, WalletMoves
<1>21. ASSUME NEW s \in Students, NEW m \in Months, NEW auto \in BOOLEAN, NEW price \in Prices,
              StartRegenerate(s, m, auto, price)
       PROVE  ledger' = ledger
  BY <1>21 DEF StartRegenerate
<1>22. ASSUME NEW j \in jobs, Conflict(j) PROVE ledger' = ledger
  BY <1>22 DEF Conflict
<1>23. StartDailyPass \/ Restart \/ UNCHANGED vars => ledger' = ledger
  BY DEF StartDailyPass, Restart, vars
<1>24. ASSUME NEW s \in Students, FailDue(s) PROVE ledger' = ledger
  BY <1>24 DEF FailDue
<1> QED
  BY <1>6, <1>7, <1>8, <1>9, <1>10, <1>11, <1>12, <1>13, <1>14, <1>15, <1>16, <1>17, <1>18,
     <1>19, <1>21, <1>22, <1>23, <1>24, Zenon DEF Next

(* The money of the students behaves as wallets do, for every number of    *)
(* students, cheques and months: no operation of the code, and no          *)
(* interleaving of operations, makes money or loses it.                    *)
THEOREM LedgersImplementWallets == Spec => ImplementsWallet
<1>1. Init => Wallet!Init
  <2> SUFFICES ASSUME Init PROVE Wallet!Init
    OBVIOUS
  <2>1. ledger = [s \in Students |-> EmptyLedger]
    BY DEF Init
  <2>2. /\ EmptyLedger.balance = 0 /\ Total(EmptyLedger.paid, NM) = 0
        /\ EmptyLedger.cash = 0 /\ EmptyLedger.adjusted = 0
    <3>1. NM \in Nat /\ \A m \in 1..NM : EmptyLedger.paid[m] = 0
      BY SizesAssumption DEF EmptyLedger, Months
    <3>2. Total(EmptyLedger.paid, NM) = 0
      BY <3>1, TotalZero
    <3> QED BY <3>2 DEF EmptyLedger
  <2> QED BY <2>1, <2>2 DEF Wallet!Init
<1>2. IInv /\ WorthIn(Amounts) /\ IInv' /\ [Next]_vars => [Wallet!Next]_(Wallet!wallet)
  <2> SUFFICES ASSUME IInv, WorthIn(Amounts), IInv', [Next]_vars
               PROVE  [Wallet!Next]_(Wallet!wallet)
    OBVIOUS
  <2>1. WalletStep(Amounts) \/ ledger' = ledger
    BY StepIsWalletStep
  <2>2. WalletStep(Amounts) => Wallet!Next
    BY Zenon DEF WalletStep, Wallet!Next
  <2>3. ledger' = ledger => UNCHANGED Wallet!wallet
    BY DEF Wallet!wallet
  <2> QED BY <2>1, <2>2, <2>3
<1> QED BY <1>1, <1>2, WorthInduction, PTL DEF Spec, ImplementsWallet, Wallet!Spec

-----------------------------------------------------------------------------
(* A transfer composes four bodies, each of which leaves a right ledger.   *)

(* releaseAndCancel: what cheques get back is what the months held.        *)
LEMMA FreedIsPaid ==
  ASSUME NM \in Nat, NP \in Nat, NEW L, LedgerInv(L), NEW S
  PROVE  /\ Freed(L, S) \in [Pays -> Nat]
         /\ Total(Freed(L, S), NP) = Total(Only(L.paid, S), NM)
         /\ Total(Freed(L, S), NP) \in Nat
<1> DEFINE a == [p \in 1..NP |-> Only(L.alloc[p], S)]
           b == [m \in 1..NM |-> [p \in 1..NP |-> a[p][m]]]
           freed == Freed(L, S)
           cols == Only(L.paid, S)
<1>1. L \in Ledger /\ L.alloc \in [Pays -> [Months -> Nat]] /\ L.paid \in [Months -> Nat]
  BY LedgerFields
<1>2. ASSUME NEW p \in 1..NP
      PROVE  /\ a[p] \in [1..NM -> Nat] /\ a[p] \in [1..NM -> Int]
             /\ freed[p] = Total(a[p], NM)
             /\ \A m \in 1..NM : a[p][m] = IF m \in S THEN L.alloc[p][m] ELSE 0
  <2>1. L.alloc[p] \in [Months -> Nat]
    BY <1>1 DEF Pays
  <2>2. freed[p] = Total(a[p], NM)
    BY DEF Freed, Pays
  <2>3. a[p] = [m \in Months |-> IF m \in S THEN L.alloc[p][m] ELSE 0]
    BY DEF Only
  <2> HIDE DEF a, freed
  <2> QED BY <2>1, <2>2, <2>3 DEF Months
<1>3. a \in [1..NP -> [1..NM -> Int]]
  BY <1>2
<1>4. cols \in [1..NM -> Int] /\ \A m \in 1..NM : cols[m] = IF m \in S THEN L.paid[m] ELSE 0
  BY <1>1 DEF Only, Months
<1> HIDE DEF a, cols, freed
<1>5. /\ b \in [1..NM -> [1..NP -> Int]]
      /\ \A m \in 1..NM : b[m] = [p \in 1..NP |-> a[p][m]]
      /\ \A p \in 1..NP, m \in 1..NM : b[m][p] = a[p][m]
  BY <1>2
<1>6. ASSUME NEW m \in 1..NM PROVE cols[m] = Total(b[m], NP)
  <2> DEFINE col == [p \in 1..NP |-> a[p][m]]
  <2>1. m \in Months /\ MonthOK(L, m)
    BY DEF LedgerInv, Months
  <2>2. CASE m \in S
    <3>1. \A p \in 1..NP : col[p] = Column(L, m)[p]
      BY <1>2, <2>2 DEF Column, Pays
    <3>2. Column(L, m) \in [1..NP -> Int]
      BY <1>1, <2>1, LedgerRows
    <3> HIDE DEF col
    <3>3. Total(col, NP) = Total(Column(L, m), NP)
      BY <3>1, <3>2, TotalEqual
    <3> QED BY <1>4, <1>5, <2>1, <2>2, <3>3 DEF MonthOK, col
  <2>3. CASE m \notin S
    <3>1. \A p \in 1..NP : col[p] = 0
      BY <1>2, <2>3
    <3> HIDE DEF col
    <3>2. Total(col, NP) = 0
      BY <3>1, TotalZero
    <3> QED BY <1>4, <1>5, <2>3, <3>2 DEF col
  <2> QED BY <2>2, <2>3
<1>7. \A p \in 1..NP : freed[p] = Total(a[p], NM)
  BY <1>2
<1> HIDE DEF b
<1>8. Total(freed, NP) = Total(cols, NM)
  <2>1. TableSums(NP, NM, a, b, freed, cols)
    BY <1>3, <1>4, <1>5, <1>6, <1>7 DEF TableSums
  <2> QED BY <2>1, TotalExchange
<1>9. ASSUME NEW N \in Nat, NEW f \in [1..N -> Nat] PROVE Total(f, N) \in Nat
  <2>1. f \in [1..N -> Int] /\ N \in 0..N
    OBVIOUS
  <2> QED BY <2>1, CumType, CumMonotone DEF Total
<1>10. freed \in [1..NP -> Nat]
  <2>1. \A p \in 1..NP : freed[p] \in Nat
    BY <1>2, <1>7, <1>9
  <2>2. freed = [p \in 1..NP |-> freed[p]]
    BY DEF freed, Freed, Pays
  <2> QED BY <2>1, <2>2
<1>11. Total(freed, NP) \in Nat
  BY <1>9, <1>10
<1> QED BY <1>8, <1>10, <1>11 DEF freed, cols, Pays

(* The old branch gives its months up and keeps right books.               *)
LEMMA ReleaseAndCancelKeeps ==
  ASSUME NM \in Nat, NP \in Nat, NEW L, LedgerInv(L), NEW S
  PROVE  /\ LedgerInv(ReleaseAndCancel(L, S))
         /\ SameBooks(ReleaseAndCancel(L, S), L)
<1> DEFINE L2 == ReleaseAndCancel(L, S)
           freed == Freed(L, S)
<1>1. L \in Ledger
  BY LedgerFields
<1>2. /\ L.balance \in Int /\ L.balance >= 0 /\ L.adjusted \in Int /\ L.cash \in Int
      /\ L.amount \in [Pays -> Nat]
      /\ L.voided \in [Pays -> BOOLEAN]
      /\ L.deposit \in [Pays -> Nat] /\ L.alloc \in [Pays -> [Months -> Nat]]
      /\ L.price \in [Months -> Nat] /\ L.paid \in [Months -> Nat]
      /\ L.status \in [Months -> Status] /\ L.hold \in [Months -> BOOLEAN]
  BY LedgerFields
<1>3. /\ freed \in [Pays -> Nat] /\ Total(freed, NP) = Total(Only(L.paid, S), NM)
      /\ Total(freed, NP) \in Nat
  BY FreedIsPaid
<1> DEFINE lost == Total(freed, NP)
<1>4. /\ L2.balance = L.balance + lost /\ L2.cash = L.cash
      /\ L2.adjusted = L.adjusted /\ L2.amount = L.amount /\ L2.voided = L.voided
      /\ L2.price = L.price
      /\ L2.deposit = [p \in Pays |-> L.deposit[p] + freed[p]]
      /\ L2.alloc = [p \in Pays |-> [m \in Months |-> IF m \in S THEN 0 ELSE L.alloc[p][m]]]
      /\ L2.paid = Only(L.paid, Months \ S)
      /\ L2.status = [m \in Months |-> IF m \in S THEN "cancelled" ELSE L.status[m]]
      /\ L2.hold = [m \in Months |-> m \notin S /\ L.hold[m]]
  BY <1>1, Zenon DEF ReleaseAndCancel, Ledger
<1> HIDE DEF freed
<1>5. L2 \in Ledger
  <2> DEFINE newAlloc(p) == [m \in Months |-> IF m \in S THEN 0 ELSE L.alloc[p][m]]
  <2>1. L2.balance \in Int
    BY <1>2, <1>3, <1>4
  <2>2. L2.deposit \in [Pays -> Nat]
    <3>1. ASSUME NEW p \in Pays PROVE L.deposit[p] + freed[p] \in Nat
      <4>1. L.deposit[p] \in Nat /\ freed[p] \in Nat
        BY <1>2, <1>3
      <4> QED BY <4>1
    <3> QED BY <3>1, <1>4
  <2>3. L2.alloc \in [Pays -> [Months -> Nat]]
    <3>1. ASSUME NEW p \in Pays PROVE newAlloc(p) \in [Months -> Nat]
      BY <1>2
    <3>2. L2.alloc = [p \in Pays |-> newAlloc(p)]
      BY <1>4
    <3> HIDE DEF newAlloc, L2
    <3> QED BY <3>1, <3>2
  <2>4. L2.paid \in [Months -> Nat]
    BY <1>2, <1>4 DEF Only
  <2>5. L2.status \in [Months -> Status]
    <3>1. "cancelled" \in Status
      BY DEF Status
    <3> HIDE DEF L2
    <3> QED BY <1>2, <1>4, <3>1
  <2>6. L2.hold \in [Months -> BOOLEAN]
    BY <1>4, Zenon
  <2> QED BY <1>1, <1>2, <1>4, <2>1, <2>2, <2>3, <2>4, <2>5, <2>6, Zenon
          DEF ReleaseAndCancel, Ledger
<1> HIDE DEF L2
<1>6. ASSUME NEW q \in Pays, NEW m \in Months
      PROVE  /\ L2.alloc[q][m] = IF m \in S THEN 0 ELSE L.alloc[q][m]
             /\ L2.paid[m] = IF m \in S THEN 0 ELSE L.paid[m]
  BY <1>4 DEF Only
<1>7. ASSUME NEW m \in Months PROVE L2.paid[m] = IF m \in S THEN 0 ELSE L.paid[m]
  BY <1>4 DEF Only
<1>8. ASSUME NEW m \in Months PROVE MonthOK(L2, m)
  <2>1. MonthOK(L, m)
    BY DEF LedgerInv
  <2>2. CASE m \in S
    <3>1. L2.paid[m] = 0 /\ L2.status[m] = "cancelled" /\ L2.price[m] \in Nat
      BY <1>2, <1>4, <1>7, <2>2
    <3>2. \A q \in 1..NP : Column(L2, m)[q] = 0
      BY <1>6, <2>2 DEF Column, Pays
    <3>3. Total(Column(L2, m), NP) = 0
      BY <3>2, TotalZero
    <3> QED BY <3>1, <3>3 DEF MonthOK
  <2>3. CASE m \notin S
    <3>1. L2.paid[m] = L.paid[m] /\ L2.status[m] = L.status[m] /\ L2.price[m] = L.price[m]
      BY <1>4, <1>7, <2>3
    <3>2. \A q \in 1..NP : Column(L2, m)[q] = Column(L, m)[q]
      BY <1>6, <2>3 DEF Column, Pays
    <3>3. Total(Column(L2, m), NP) = Total(Column(L, m), NP)
      BY <1>1, <3>2, LedgerRows, TotalEqual
    <3> QED BY <2>1, <3>1, <3>3, Zenon DEF MonthOK
  <2> QED BY <2>2, <2>3
<1>9. ASSUME NEW p \in Pays PROVE ChequeOK(L2, p)
  <2>1. ChequeOK(L, p) /\ L.voided[p] \in BOOLEAN
    BY <1>2 DEF LedgerInv
  <2>2. /\ L2.deposit[p] = L.deposit[p] + freed[p]
        /\ L2.amount[p] = L.amount[p] /\ L2.voided[p] = L.voided[p]
    BY <1>4
  <2>3. /\ L.deposit[p] \in Nat /\ L.amount[p] \in Nat
        /\ Total(L.alloc[p], NM) \in Nat /\ Total(L2.alloc[p], NM) \in Nat /\ freed[p] \in Nat
    BY <1>1, <1>2, <1>3, <1>5, LedgerSums
  <2>4. Total(L.alloc[p], NM) = Total(L2.alloc[p], NM) + freed[p]
    <3>1. Only(L.alloc[p], S) \in [1..NM -> Int] /\ L2.alloc[p] \in [1..NM -> Int]
      <4>1. L.alloc[p] \in [Months -> Nat]
        BY <1>2
      <4> QED BY <1>5, <4>1, LedgerRows DEF Only, Months
    <3>2. \A m \in 1..NM : L.alloc[p][m] = L2.alloc[p][m] + Only(L.alloc[p], S)[m]
      <4> SUFFICES ASSUME NEW m \in Months
                   PROVE  L.alloc[p][m] = L2.alloc[p][m] + Only(L.alloc[p], S)[m]
        BY DEF Months
      <4>1. L.alloc[p][m] \in Nat
        BY <1>2
      <4>2. Only(L.alloc[p], S)[m] = IF m \in S THEN L.alloc[p][m] ELSE 0
        BY DEF Only
      <4> QED BY <1>6, <4>1, <4>2
    <3>3. Total(L.alloc[p], NM) = Total(L2.alloc[p], NM) + Total(Only(L.alloc[p], S), NM)
      BY <3>1, <3>2, TotalPlus
    <3>4. freed[p] = Total(Only(L.alloc[p], S), NM)
      BY DEF freed, Freed
    <3> QED BY <3>3, <3>4
  <2>5. L2.deposit[p] + Total(L2.alloc[p], NM) <= L2.amount[p]
    BY <2>1, <2>2, <2>3, <2>4 DEF ChequeOK
  <2>6. L2.voided[p] => L2.amount[p] > 0 /\ L2.deposit[p] = 0 /\ Total(L2.alloc[p], NM) = 0
    <3> SUFFICES ASSUME L2.voided[p]
                 PROVE L2.amount[p] > 0 /\ L2.deposit[p] = 0 /\ Total(L2.alloc[p], NM) = 0
      OBVIOUS
    <3>1. L.amount[p] > 0 /\ L.deposit[p] = 0 /\ Total(L.alloc[p], NM) = 0
      BY <2>1, <2>2, Zenon DEF ChequeOK
    <3> QED BY <2>2, <2>3, <2>4, <3>1
  <2> QED BY <2>5, <2>6 DEF ChequeOK
<1>10. BalanceIsDerived(L2)
  <2>1. /\ L.paid \in [1..NM -> Int]
        /\ Only(L.paid, S) \in [1..NM -> Int] /\ L2.paid \in [1..NM -> Int]
    BY <1>1, <1>2, <1>5, LedgerRows DEF Only, Months
  <2>2. \A m \in 1..NM : L.paid[m] = L2.paid[m] + Only(L.paid, S)[m]
    <3> SUFFICES ASSUME NEW m \in Months PROVE L.paid[m] = L2.paid[m] + Only(L.paid, S)[m]
      BY DEF Months
    <3>1. L.paid[m] \in Nat
      BY <1>2
    <3>2. Only(L.paid, S)[m] = IF m \in S THEN L.paid[m] ELSE 0
      BY DEF Only
    <3> QED BY <1>7, <3>1, <3>2
  <2>3. Total(L.paid, NM) = Total(L2.paid, NM) + Total(Only(L.paid, S), NM)
    BY <2>1, <2>2, TotalPlus
  <2>4. Total(L.paid, NM) \in Nat /\ Total(L2.paid, NM) \in Nat
    BY <1>1, <1>5, LedgerSums
  <2>5. BalanceIsDerived(L)
    BY DEF LedgerInv
  <2> QED BY <1>2, <1>3, <1>4, <2>3, <2>4, <2>5 DEF BalanceIsDerived
<1>11. LedgerInv(L2) /\ SameBooks(L2, L)
  BY <1>4, <1>5, <1>8, <1>9, <1>10 DEF LedgerInv, SameBooks
<1> QED BY <1>11 DEF L2

(* The old branch sends a deposit that it holds.                           *)
LEMMA SendDepositKeeps ==
  ASSUME NM \in Nat, NP \in Nat, NEW L, LedgerInv(L), NEW t, t.deposit \in Int,
         t.deposit <= L.balance
  PROVE  /\ LedgerInv(SendDeposit(L, t))
         /\ SendDeposit(L, t).cash = L.cash
         /\ SendDeposit(L, t).adjusted = L.adjusted - t.deposit
<1>1. L \in Ledger /\ L.balance \in Int /\ L.adjusted \in Int
  BY LedgerFields
<1>2. PICK d \in Int : d = 0 - t.deposit
  OBVIOUS
<1>3. /\ L.balance + d >= 0
      /\ L.balance + d = L.balance - t.deposit /\ L.adjusted + d = L.adjusted - t.deposit
  BY <1>1, <1>2
<1>4. LedgerInv([L EXCEPT !.balance = @ + d, !.adjusted = @ + d])
  BY <1>2, <1>3, AdjustKeeps
<1>5. [L EXCEPT !.balance = @ + d, !.adjusted = @ + d] = SendDeposit(L, t)
  BY <1>3, Zenon DEF SendDeposit
<1>6. /\ SendDeposit(L, t).cash = L.cash
      /\ SendDeposit(L, t).adjusted = L.adjusted - t.deposit
  BY <1>1, Zenon DEF SendDeposit, Ledger
<1> QED BY <1>4, <1>5, <1>6

(* The new branch opens a debt in months of which nothing is paid.         *)
Reopens(T, t) ==
    \A m \in t.fresh \cup t.restored : m \in Months => T.paid[m] = 0

(* The new branch stays right: those months hold nothing yet.              *)
LEMMA OpenDebtsKeeps ==
  ASSUME NEW T, LedgerInv(T), NEW L, LedgerInv(L), NEW t, Reopens(T, t)
  PROVE  /\ LedgerInv(OpenDebts(T, L, t))
         /\ SameBooks(OpenDebts(T, L, t), T)
         /\ OpenDebts(T, L, t).amount = T.amount
<1> DEFINE S == t.fresh \cup t.restored
           L2 == OpenDebts(T, L, t)
<1>1. /\ T \in Ledger /\ T.paid \in [Months -> Nat] /\ T.price \in [Months -> Nat]
      /\ T.status \in [Months -> Status] /\ T.hold \in [Months -> BOOLEAN]
      /\ L.price \in [Months -> Nat]
  BY LedgerFields
<1>2. \A m \in S : m \in Months => T.paid[m] = 0
  BY DEF Reopens
<1>3. Only(T.paid, Months \ S) = T.paid
  <2>1. \A m \in Months : Only(T.paid, Months \ S)[m] = T.paid[m]
    BY <1>2 DEF Only
  <2> QED BY <1>1, <2>1 DEF Only
<1>4. /\ L2.balance = T.balance /\ L2.cash = T.cash /\ L2.adjusted = T.adjusted
      /\ L2.amount = T.amount /\ L2.voided = T.voided /\ L2.deposit = T.deposit
      /\ L2.alloc = T.alloc /\ L2.paid = T.paid
      /\ L2.price = [m \in Months |-> IF m \in S THEN L.price[m] ELSE T.price[m]]
      /\ L2.status = [m \in Months |-> IF m \in S THEN "unpaid" ELSE T.status[m]]
      /\ L2.hold = [m \in Months |-> m \notin S /\ T.hold[m]]
  BY <1>1, <1>3, Zenon DEF OpenDebts, Ledger
<1>5. L2 \in Ledger
  <2> HIDE DEF L2, S
  <2>1. L2.price \in [Months -> Nat]
    BY <1>1, <1>4
  <2>2. L2.status \in [Months -> Status]
    <3>1. "unpaid" \in Status
      BY DEF Status
    <3> QED BY <1>1, <1>4, <3>1
  <2>3. L2.hold \in [Months -> BOOLEAN]
    BY <1>4, Zenon
  <2> QED BY <1>1, <1>4, <2>1, <2>2, <2>3, LedgerFields, Zenon DEF L2, OpenDebts, Ledger
<1> HIDE DEF L2
<1>6. ASSUME NEW m \in Months
      PROVE  /\ L2.paid[m] <= L2.price[m]
             /\ L2.status[m] \in {"none", "cancelled"} => L2.paid[m] = 0
             /\ L2.status[m] \notin {"none", "cancelled"} =>
                   \/ L2.status[m] = DeriveStatus(L2.price[m], L2.paid[m])
                   \/ L2.status[m] = "paid" /\ L2.price[m] = 0
  <2>1. CASE m \in S
    <3>1. /\ L2.paid[m] = 0 /\ L2.price[m] = L.price[m] /\ L2.price[m] \in Nat
          /\ L2.status[m] = "unpaid"
      BY <1>1, <1>2, <1>4, <2>1
    <3> QED BY <3>1 DEF DeriveStatus
  <2>2. CASE m \notin S
    <3>1. L2.paid[m] = T.paid[m] /\ L2.price[m] = T.price[m] /\ L2.status[m] = T.status[m]
      BY <1>4, <2>2
    <3> QED BY <3>1, MonthFacts
  <2> QED BY <2>1, <2>2
<1>7. LedgerInv(L2) /\ SameBooks(L2, T) /\ L2.amount = T.amount
  BY <1>4, <1>5, <1>6, ResealKeeps DEF SameBooks
<1> QED BY <1>7 DEF L2

(* The deposit arrives: its cash as a cheque with a free number.           *)
Receivable(T, t, p) ==
    t.deposit \in Nat /\ t.cash \in Nat /\ (t.cash > 0 => T.amount[p] = 0)

(* A right ledger receives it and stays right.                             *)
LEMMA ReceiveDepositKeeps ==
  ASSUME NM \in Nat, NP \in Nat, NEW T, LedgerInv(T), NEW t, NEW p \in Pays,
         Receivable(T, t, p)
  PROVE  /\ LedgerInv(ReceiveDeposit(T, t, p))
         /\ ReceiveDeposit(T, t, p).cash = T.cash + t.cash
         /\ ReceiveDeposit(T, t, p).adjusted = T.adjusted + t.deposit - t.cash
<1> USE DEF Receivable
<1> DEFINE L2 == ReceiveDeposit(T, t, p)
           worth == IF t.cash > 0 THEN t.cash ELSE T.amount[p]
<1>1. /\ T \in Ledger /\ T.balance \in Int /\ T.balance >= 0 /\ T.cash \in Int
      /\ T.adjusted \in Int /\ T.amount \in [Pays -> Nat] /\ T.deposit \in [Pays -> Nat]
      /\ T.voided \in [Pays -> BOOLEAN]
  BY LedgerFields
<1>2. /\ L2.balance = T.balance + t.deposit /\ L2.cash = T.cash + t.cash
      /\ L2.adjusted = T.adjusted + t.deposit - t.cash
      /\ L2.amount = [T.amount EXCEPT ![p] = IF t.cash > 0 THEN t.cash ELSE @]
      /\ L2.amount = [T.amount EXCEPT ![p] = worth]
      /\ L2.deposit = [T.deposit EXCEPT ![p] = T.deposit[p] + t.cash]
      /\ L2.voided = T.voided /\ L2.alloc = T.alloc /\ L2.price = T.price /\ L2.paid = T.paid
      /\ L2.status = T.status /\ L2.hold = T.hold
  BY <1>1, Zenon DEF ReceiveDeposit, Ledger
<1>3. worth \in Nat /\ T.deposit[p] + t.cash \in Nat
  <2>1. T.deposit[p] \in Nat /\ T.amount[p] \in Nat
    BY <1>1
  <2> QED BY <2>1
<1> HIDE DEF worth
<1>4. L2 \in Ledger
  <2> HIDE DEF L2
  <2>1. L2.balance \in Int /\ L2.cash \in Int /\ L2.adjusted \in Int
    BY <1>1, <1>2
  <2>2. L2.deposit \in [Pays -> Nat] /\ L2.amount \in [Pays -> Nat]
    BY <1>1, <1>2, <1>3
  <2> QED BY <1>1, <1>2, <2>1, <2>2, LedgerFields, Zenon DEF L2, ReceiveDeposit, Ledger
<1> HIDE DEF L2
<1>5. ASSUME NEW m \in Months PROVE MonthOK(L2, m)
  <2>1. MonthOK(T, m) /\ Column(L2, m) = Column(T, m)
    BY <1>2 DEF LedgerInv, Column
  <2> QED BY <1>2, <2>1, Zenon DEF MonthOK
<1>6. ASSUME NEW q \in Pays PROVE ChequeOK(L2, q)
  <2>1. ChequeOK(T, q) /\ L2.alloc[q] = T.alloc[q] /\ L2.voided[q] = T.voided[q]
    BY <1>2 DEF LedgerInv
  <2>2. CASE q # p
    <3>1. L2.deposit[q] = T.deposit[q] /\ L2.amount[q] = T.amount[q]
      BY <1>1, <1>2, <2>2
    <3> QED BY <2>1, <3>1, Zenon DEF ChequeOK
  <2>3. CASE q = p
    <3>1. L2.deposit[p] = T.deposit[p] + t.cash /\ L2.amount[p] = worth
      BY <1>1, <1>2
    <3>2. T.deposit[p] \in Nat /\ T.amount[p] \in Nat /\ Total(T.alloc[p], NM) \in Nat
      BY <1>1, LedgerSums
    <3>3. CASE t.cash = 0
      <4>1. L2.deposit[p] = T.deposit[p] /\ L2.amount[p] = T.amount[p]
        BY <3>1, <3>2, <3>3 DEF worth
      <4> QED BY <2>1, <2>3, <4>1, Zenon DEF ChequeOK
    <3>4. CASE t.cash > 0
      <4>1. T.amount[p] = 0 /\ worth = t.cash
        BY <3>4 DEF worth
      <4>2. T.deposit[p] = 0 /\ Total(T.alloc[p], NM) = 0
        BY <2>1, <2>3, <3>2, <4>1 DEF ChequeOK
      <4>3. ~T.voided[p]
        BY <2>1, <2>3, <4>1 DEF ChequeOK
      <4> QED BY <2>1, <2>3, <3>1, <3>2, <4>1, <4>2, <4>3 DEF ChequeOK
    <3> QED BY <3>3, <3>4
  <2> QED BY <2>2, <2>3
<1>7. BalanceIsDerived(L2)
  <2>1. Total(T.paid, NM) \in Nat /\ BalanceIsDerived(T)
    BY <1>1, LedgerSums DEF LedgerInv
  <2> QED BY <1>1, <1>2, <2>1 DEF BalanceIsDerived
<1>8. LedgerInv(L2)
  BY <1>4, <1>5, <1>6, <1>7 DEF LedgerInv
<1> QED BY <1>2, <1>8 DEF L2

(* The bodies of a transfer write no amount but that of the new cheque.    *)
LEMMA TransferWorth ==
  ASSUME NEW A, NEW L, Worths(L, A)
  PROVE  /\ \A S : Worths(ReleaseAndCancel(L, S), A)
         /\ \A t : Worths(SendDeposit(L, t), A)
         /\ \A K, t : Worths(OpenDebts(L, K, t), A)
         /\ \A t, p : (t.cash > 0 => t.cash \in A) => Worths(ReceiveDeposit(L, t, p), A)
<1>1. ASSUME NEW S PROVE Worths(ReleaseAndCancel(L, S), A)
  BY Zenon DEF Worths, ReleaseAndCancel
<1>2. ASSUME NEW t PROVE Worths(SendDeposit(L, t), A)
  BY Zenon DEF Worths, SendDeposit
<1>3. ASSUME NEW K, NEW t PROVE Worths(OpenDebts(L, K, t), A)
  BY Zenon DEF Worths, OpenDebts
<1>4. ASSUME NEW t, NEW p, t.cash > 0 => t.cash \in A PROVE Worths(ReceiveDeposit(L, t, p), A)
  <2> DEFINE K == ReceiveDeposit(L, t, p)
  <2>1. "amount" \in DOMAIN K
        /\ K.amount = [L.amount EXCEPT ![p] = IF t.cash > 0 THEN t.cash ELSE @]
    BY Zenon DEF Worths, ReceiveDeposit
  <2> HIDE DEF K
  <2>2. K.amount \in [Pays -> A \cup {0}]
    BY <1>4, <2>1 DEF Worths
  <2> QED BY <2>1, <2>2 DEF Worths, K
<1> QED BY <1>1, <1>2, <1>3, <1>4

-----------------------------------------------------------------------------
(* What a plan and the steps after a commit are made of.                   *)
PlanIs(t) ==
    /\ t.from \in Students /\ t.to \in Students /\ t.from # t.to
    /\ t.boundary \in Int
    /\ t.cancelling \subseteq Months /\ t.fresh \subseteq Months /\ t.restored \subseteq Months
    /\ t.deposit \in Int /\ t.cash \in Nat

After == {Done} \cup {[task |-> "settle"]}
         \cup [task : {"read"}, from : Students, boundary : Int, settles : BOOLEAN]
         \cup [task : {"vacate"}, from : Students, boundary : Int, settles : BOOLEAN,
               months : SUBSET Months]

(* The inductive invariant of transfers: as long as no transfer has        *)
(* written over a month with money on it, the ledgers of all branches are  *)
(* right and every cheque is worth at most MaxWorth.                       *)
TInv ==
    ~overwritten =>
        /\ IInv /\ WorthIn(1..MaxWorth)
        /\ home \in Students /\ after \in After
        /\ sent \in [Students -> Int]
        /\ plan # NoPlan => PlanIs(plan)

(* What right ledgers plan.                                                *)
LEMMA PlanIsPlan ==
  ASSUME IInv, NEW b \in Students, NEW c \in Students, c # b, NEW boundary \in Int
  PROVE  PlanIs(PlanStudentFinance(b, c, boundary))
<1> DEFINE L == ledger[b]
           T == ledger[c]
           vacating == {m \in Billed(L) : m >= boundary}
           open     == {m \in Months : m < boundary /\ IsOpen(L, m)}
           fresh    == {m \in open : T.status[m] = "none"}
           restored == {m \in open : T.status[m] = "cancelled" /\ T.paid[m] = 0}
           gone     == vacating \cup fresh \cup restored
           deposit  == L.balance + Total(Only(L.paid, gone), NM)
           receipts == Total(L.deposit, NP) + Total(Freed(L, gone), NP)
           t == PlanStudentFinance(b, c, boundary)
<1>1. NM \in Nat /\ NP \in Nat
  BY SizesAssumption
<1>2. LedgerInv(L)
  BY DEF IInv
<1>3. /\ t.from = b /\ t.to = c /\ t.boundary = boundary /\ t.cancelling = gone
      /\ t.fresh = fresh /\ t.restored = restored
      /\ t.deposit = deposit /\ t.cash = Least(deposit, receipts)
  BY Zenon DEF PlanStudentFinance
<1>4. fresh \subseteq Months /\ restored \subseteq Months /\ gone \subseteq Months
  BY DEF Billed
<1> HIDE DEF L, T, gone, fresh, restored
<1>5. /\ L \in Ledger /\ L.balance \in Int /\ L.balance >= 0
      /\ Total(L.deposit, NP) \in Nat /\ Total(Freed(L, gone), NP) \in Nat
      /\ Total(Freed(L, gone), NP) = Total(Only(L.paid, gone), NM)
  BY <1>1, <1>2, LedgerFields, LedgerSums, FreedIsPaid
<1>6. deposit \in Nat /\ receipts \in Nat
  BY <1>5
<1> HIDE DEF deposit, receipts, t
<1>7. t.deposit \in Int /\ t.cash \in Nat
  BY <1>3, <1>6 DEF Least
<1>8. PlanIs(t)
  BY <1>3, <1>4, <1>7 DEF PlanIs
<1> QED BY <1>8 DEF t

(* A plan that commits: what it does to the ledger of either branch.       *)
LEMMA CommitIsRight ==
  ASSUME IInv, WorthIn(1..MaxWorth), plan # NoPlan, PlanIs(plan),
         NEW p \in Pays, CommitTransfer(p), ~overwritten'
  PROVE  /\ IInv' /\ WorthIn(1..MaxWorth)'
         /\ ledger'[plan.from].cash = ledger[plan.from].cash
         /\ ledger'[plan.from].adjusted = ledger[plan.from].adjusted - plan.deposit
         /\ ledger'[plan.to].cash = ledger[plan.to].cash + plan.cash
         /\ ledger'[plan.to].adjusted = ledger[plan.to].adjusted + plan.deposit - plan.cash
         /\ \A u \in Students \ {plan.from, plan.to} : ledger'[u] = ledger[u]
<1> DEFINE A == 1..MaxWorth
<1>1. NM \in Nat /\ NP \in Nat /\ MaxWorth \in Nat
  BY SizesAssumption, TransferAssumption
<1>2. PICK t : t = plan
  OBVIOUS
<1>3. /\ t.from \in Students /\ t.to \in Students /\ t.from # t.to
      /\ t.fresh \subseteq Months /\ t.restored \subseteq Months
      /\ t.deposit \in Int /\ t.cash \in Nat
  BY <1>2 DEF PlanIs
<1>4. PICK L0 \in Ledger, T0 \in Ledger :
         /\ L0 = ledger[t.from] /\ T0 = ledger[t.to]
         /\ LedgerInv(L0) /\ LedgerInv(T0) /\ Worths(L0, A) /\ Worths(T0, A)
  BY <1>3 DEF IInv, LedgerInv, WorthIn
<1> DEFINE L == ReleaseAndCancel(L0, t.cancelling)
           T == OpenDebts(T0, L, t)
           L2 == SendDeposit(L, t)
           T2 == ReceiveDeposit(T, t, p)
<1>5. /\ t.cash <= MaxWorth
      /\ t.cash > 0 => NextCheque(T0, p)
      /\ \A m \in t.fresh : T0.status[m] = "none"
      /\ L.balance = t.deposit
      /\ ledger' = [ledger EXCEPT ![t.from] = L2, ![t.to] = T2]
      /\ overwritten' = (overwritten \/ \E m \in t.restored : T0.paid[m] > 0)
      /\ jobs' = jobs /\ due' = due
  BY <1>2, <1>4, Zenon DEF CommitTransfer
<1>6. LedgerInv(L) /\ SameBooks(L, L0)
  BY <1>1, <1>4, ReleaseAndCancelKeeps
<1>7. Worths(L, A)
  BY <1>4, TransferWorth
<1> HIDE DEF L
<1>8. L.balance \in Int /\ L.balance >= 0
  BY <1>6, LedgerFields
<1>9. t.deposit \in Nat /\ t.deposit <= L.balance
  BY <1>5, <1>8
<1>10. LedgerInv(L2) /\ L2.cash = L0.cash /\ L2.adjusted = L0.adjusted - t.deposit
  BY <1>1, <1>3, <1>6, <1>9, SendDepositKeeps DEF SameBooks
<1>11. Worths(L2, A)
  BY <1>7, TransferWorth
<1>12. Reopens(T0, t)
  <2> SUFFICES ASSUME NEW m \in t.fresh \cup t.restored, m \in Months PROVE T0.paid[m] = 0
    BY DEF Reopens
  <2>1. T0.paid[m] \in Nat /\ (T0.status[m] = "none" => T0.paid[m] = 0)
    BY <1>4, MonthFacts
  <2>2. m \in t.restored => ~(T0.paid[m] > 0)
    BY <1>5
  <2> QED BY <1>5, <2>1, <2>2
<1>13. LedgerInv(T) /\ SameBooks(T, T0) /\ T.amount = T0.amount
  BY <1>4, <1>6, <1>12, OpenDebtsKeeps
<1>14. Worths(T, A)
  BY <1>4, TransferWorth
<1> HIDE DEF T
<1>15. t.cash > 0 => T.amount[p] = 0
  <2> SUFFICES ASSUME t.cash > 0 PROVE T0.amount[p] = 0
    BY <1>13
  <2>1. T0.amount \in [Pays -> Nat] /\ p \in 1..NP
    BY <1>4, LedgerFields DEF Pays
  <2>2. T0.amount[p] > 0 <=> p < p
    BY <1>5 DEF NextCheque
  <2> QED BY <1>1, <2>1, <2>2
<1>16. /\ LedgerInv(T2) /\ T2.cash = T0.cash + t.cash
       /\ T2.adjusted = T0.adjusted + t.deposit - t.cash
  <2>1. /\ LedgerInv(T2) /\ T2.cash = T.cash + t.cash
        /\ T2.adjusted = T.adjusted + t.deposit - t.cash
    <3>1. Receivable(T, t, p)
      BY <1>3, <1>9, <1>15 DEF Receivable
    <3> QED BY <1>1, <1>13, <3>1, ReceiveDepositKeeps
  <2> HIDE DEF T2
  <2> QED BY <1>13, <2>1 DEF SameBooks
<1>17. Worths(T2, A)
  <2>1. t.cash > 0 => t.cash \in A
    BY <1>1, <1>3, <1>5
  <2> QED BY <1>14, <2>1, TransferWorth
<1> HIDE DEF L2, T2, A
<1>18. ledger \in [Students -> Ledger] /\ L2 \in Ledger /\ T2 \in Ledger
  BY <1>10, <1>16 DEF IInv, RowsTyped, LedgerInv
<1>19. /\ ledger' \in [Students -> Ledger]
       /\ ledger'[t.from] = L2 /\ ledger'[t.to] = T2
       /\ \A u \in Students \ {t.from, t.to} : ledger'[u] = ledger[u]
  BY <1>3, <1>5, <1>18
<1>20. IInv'
  <2>1. ASSUME NEW u \in Students PROVE LedgerInv(ledger'[u])
    <3>1. ledger'[u] \in {L2, T2, ledger[u]}
      BY <1>19
    <3> QED BY <1>10, <1>16, <3>1 DEF IInv
  <2> QED BY <1>5, <1>19, <2>1 DEF IInv, RowsTyped
<1>21. WorthIn(A)'
  <2>1. ASSUME NEW u \in Students PROVE Worths(ledger'[u], A)
    <3>1. ledger'[u] \in {L2, T2, ledger[u]}
      BY <1>19
    <3> QED BY <1>11, <1>17, <3>1 DEF WorthIn, A
  <2> QED BY <2>1 DEF WorthIn
<1>22. IInv' /\ WorthIn(1..MaxWorth)'
  BY <1>20, <1>21 DEF A
<1> QED BY <1>2, <1>4, <1>10, <1>16, <1>19, <1>22

(* What runs beside a transfer in a branch is an operation of its ledger.  *)
LEMMA BranchStepIsStep ==
  ASSUME NEW b \in Students, BranchStep(b)
  PROVE  Next
<1>1. ASSUME NEW p \in Pays, NEW a \in Amounts, CreatePayment(b, p, a) PROVE Next
  BY <1>1, Zenon DEF Next
<1>2. ASSUME NEW p \in Pays, VoidPayment(b, p) PROVE Next
  BY <1>2, Zenon DEF Next
<1>3. ASSUME NEW p \in Pays, NEW m \in Months, NEW n \in Months,
             NEW c \in 1..ledger[b].alloc[p][m], NEW k \in 0..c, Rework(b, p, m, c, k, n)
      PROVE  Next
  BY <1>3, Zenon DEF Next
<1>4. ASSUME NEW a \in Money(b), Refund(b, a) PROVE Next
  BY <1>4, Zenon DEF Next
<1>5. ASSUME NEW d \in Adjustments, AdjustBalance(b, d) PROVE Next
  BY <1>5, Zenon DEF Next
<1>6. ASSUME NEW m \in Months, CancelInvoice(b, m) \/ RestoreInvoice(b, m) PROVE Next
  BY <1>6, Zenon DEF Next
<1>7. ASSUME NEW m \in Months, NEW price \in Prices, GenerateInvoice(b, m, price) PROVE Next
  BY <1>7, Zenon DEF Next
<1>8. ASSUME ApplyDue(b) \/ FailDue(b) PROVE Next
  BY <1>8, Zenon DEF Next
<1> QED BY <1>1, <1>2, <1>3, <1>4, <1>5, <1>6, <1>7, <1>8, Zenon DEF BranchStep

(* A step of a transfer, as far as the ledgers and the cash boxes see it.  *)
SettlesHome == /\ Commit(home, Settle(ledger[home]))
               /\ UNCHANGED <<jobs, due, sent>>

(* Every step is an operation of StudentLedger, that settlement, or a      *)
(* commit.                                                                 *)
LEMMA TransferSteps ==
  ASSUME home \in Students, after \in After, [TransferNext]_tvars
  PROVE  \/ [Next]_vars /\ sent' = sent
         \/ SettlesHome
         \/ \E p \in Pays : CommitTransfer(p)
<1>1. ASSUME NEW b \in Students, BranchStep(b), UNCHANGED moving
      PROVE  Next /\ sent' = sent
  BY <1>1, BranchStepIsStep DEF moving
<1>2. ASSUME NEW c \in Students, NEW boundary \in 1..(NM + 1), BeginTransfer(c, boundary)
      PROVE  UNCHANGED vars /\ sent' = sent
  BY <1>2 DEF BeginTransfer
<1>3. RollbackTransfer \/ AfterRead \/ UNCHANGED tvars => UNCHANGED vars /\ sent' = sent
  BY DEF RollbackTransfer, AfterRead, tvars, vars, moving
<1>4. ASSUME AfterCancel PROVE [Next]_vars /\ sent' = sent
  <2>1. after.task = "vacate"
    BY <1>4 DEF AfterCancel
  <2>2. after.from \in Students /\ after.months \subseteq Months
    BY <2>1 DEF After, Done
  <2>3. PICK m \in after.months : CancelInvoice(after.from, m) \/ UNCHANGED vars
    BY <1>4 DEF AfterCancel
  <2>4. CASE CancelInvoice(after.from, m)
    <3>1. Next
      BY <2>2, <2>3, <2>4, Zenon DEF Next
    <3> QED BY <1>4, <3>1 DEF AfterCancel
  <2> QED BY <1>4, <2>3, <2>4 DEF AfterCancel
<1>5. ASSUME AfterBill PROVE [Next]_vars /\ sent' = sent
  <2>1. CASE /\ after.boundary \in Months
             /\ \E price \in Prices : GenerateInvoice(home, after.boundary, price)
    <3>1. Next
      BY <2>1, Zenon DEF Next
    <3> QED BY <1>5, <3>1 DEF AfterBill
  <2> QED BY <1>5, <2>1 DEF AfterBill
<1>6. ASSUME AfterSettle PROVE SettlesHome \/ (UNCHANGED vars /\ sent' = sent)
  BY <1>6 DEF AfterSettle, SettlesHome, vars
<1>7. ASSUME RestartBoth PROVE Next /\ sent' = sent
  BY <1>7 DEF RestartBoth, Next
<1> QED BY <1>1, <1>2, <1>3, <1>4, <1>5, <1>6, <1>7, Zenon DEF TransferNext

(* What a step leaves of the transfer itself.                              *)
LEMMA TransferShape ==
  ASSUME IInv, home \in Students, after \in After, sent \in [Students -> Int],
         plan # NoPlan => PlanIs(plan), [TransferNext]_tvars
  PROVE  /\ home' \in Students /\ after' \in After /\ sent' \in [Students -> Int]
         /\ plan' # NoPlan => PlanIs(plan')
<1> DEFINE Shape == /\ home' \in Students /\ after' \in After /\ sent' \in [Students -> Int]
                    /\ plan' # NoPlan => PlanIs(plan')
<1>1. ASSUME UNCHANGED moving PROVE Shape
  BY <1>1 DEF moving
<1>2. ASSUME NEW c \in Students, NEW boundary \in 1..(NM + 1), BeginTransfer(c, boundary)
      PROVE  Shape
  <2>1. boundary \in Int /\ c # home /\ plan' = PlanStudentFinance(home, c, boundary)
    BY <1>2, SizesAssumption DEF BeginTransfer
  <2>2. PlanIs(plan')
    BY <2>1, PlanIsPlan
  <2> QED BY <1>2, <2>2 DEF BeginTransfer
<1>3. ASSUME NEW p \in Pays, CommitTransfer(p) PROVE Shape
  <2>1. PlanIs(plan)
    BY <1>3 DEF CommitTransfer
  <2>2. PICK t : t = plan
    OBVIOUS
  <2>3. t.from \in Students /\ t.to \in Students /\ t.boundary \in Int /\ t.cash \in Nat
    BY <2>1, <2>2 DEF PlanIs
  <2>4. /\ home' = t.to /\ plan' = NoPlan
        /\ sent' = [sent EXCEPT ![t.from] = @ + t.cash]
        /\ after' = [task |-> "read", from |-> t.from, boundary |-> t.boundary,
                     settles |-> t.deposit > 0]
    BY <1>3, <2>2, Zenon DEF CommitTransfer
  <2>5. sent[t.from] + t.cash \in Int
    BY <2>3
  <2>6. (t.deposit > 0) \in BOOLEAN
    OBVIOUS
  <2>7. after' \in After
    BY <2>3, <2>4, <2>6 DEF After
  <2> QED BY <2>3, <2>4, <2>5, <2>7
<1>4. ASSUME RollbackTransfer PROVE Shape
  BY <1>4 DEF RollbackTransfer
<1>5. ASSUME AfterRead PROVE Shape
  <2>0. Done \in After
    BY DEF After
  <2>1. /\ after.from \in Students /\ after.boundary \in Int /\ after.settles \in BOOLEAN
    BY <1>5 DEF AfterRead, After, Done
  <2>2. {m \in Billed(ledger[after.from]) : m >= after.boundary} \in SUBSET Months
    BY DEF Billed
  <2>3. after' \in After
    BY <1>5, <2>0, <2>1, <2>2 DEF AfterRead, After
  <2> QED BY <1>5, <2>3 DEF AfterRead
<1>6. ASSUME AfterCancel PROVE Shape
  <2>1. after \in [task : {"vacate"}, from : Students, boundary : Int, settles : BOOLEAN,
                   months : SUBSET Months]
    BY <1>6 DEF AfterCancel, After, Done
  <2>2. PICK m : after' = [after EXCEPT !.months = @ \ {m}]
    BY <1>6 DEF AfterCancel
  <2>3. after' \in After
    BY <2>1, <2>2 DEF After
  <2> QED BY <1>6, <2>3 DEF AfterCancel
<1>7. ASSUME AfterBill \/ AfterSettle \/ RestartBoth PROVE Shape
  <2>1. after' \in {Done, [task |-> "settle"]} /\ plan' \in {plan, NoPlan}
        /\ home' = home /\ sent' = sent
    BY <1>7 DEF AfterBill, AfterSettle, RestartBoth
  <2> QED BY <2>1 DEF After
<1>8. UNCHANGED tvars => Shape
  BY <1>1 DEF tvars, moving
<1> QED BY <1>1, <1>2, <1>3, <1>4, <1>5, <1>6, <1>7, <1>8, Zenon DEF TransferNext

(* Settlement in the new branch, after a transfer.                         *)
LEMMA SettlesHomeKeeps ==
  ASSUME IInv, WorthIn(1..MaxWorth), home \in Students, SettlesHome
  PROVE  IInv' /\ WorthIn(1..MaxWorth)'
<1>1. NM \in Nat /\ NP \in Nat
  BY SizesAssumption
<1>2. LedgerInv(ledger[home]) /\ Worths(ledger[home], 1..MaxWorth)
  BY DEF IInv, WorthIn
<1>3. LedgerInv(Settle(ledger[home])) /\ Worths(Settle(ledger[home]), 1..MaxWorth)
  BY <1>1, <1>2, SettleKeeps, WorthStays
<1>4. /\ Commit(home, Settle(ledger[home]))
      /\ jobs' \subseteq Job /\ due' \subseteq Students
  BY DEF SettlesHome, IInv, RowsTyped
<1> QED BY <1>3, <1>4, CommitKeeps, WorthCommit

(* Once a month is written over, that is not forgotten.                    *)
LEMMA OverwrittenStays ==
  ASSUME [TransferNext]_tvars, overwritten
  PROVE  overwritten'
<1>1. ASSUME NEW p \in Pays, CommitTransfer(p) PROVE overwritten'
  BY <1>1 DEF CommitTransfer
<1>2. ASSUME NEW b \in Students, BranchStep(b) /\ UNCHANGED moving PROVE overwritten'
  BY <1>2 DEF moving
<1>3. ASSUME NEW c \in Students, NEW boundary, BeginTransfer(c, boundary) PROVE overwritten'
  BY <1>3 DEF BeginTransfer
<1>4. RollbackTransfer \/ AfterRead \/ AfterCancel \/ AfterBill \/ AfterSettle \/ RestartBoth
        \/ UNCHANGED tvars => overwritten'
  BY DEF RollbackTransfer, AfterRead, AfterCancel, AfterBill, AfterSettle, RestartBoth,
         tvars, moving
<1> QED BY <1>1, <1>2, <1>3, <1>4, Zenon DEF TransferNext

(* TInv is inductive.                                                      *)
LEMMA TransferKeeps ==
  ASSUME TInv, [TransferNext]_tvars
  PROVE  TInv'
<1> SUFFICES ASSUME ~overwritten' PROVE TInv'
  BY DEF TInv
<1>1. /\ IInv /\ WorthIn(1..MaxWorth)
      /\ home \in Students /\ after \in After
      /\ sent \in [Students -> Int]
      /\ plan # NoPlan => PlanIs(plan)
  BY OverwrittenStays, Zenon DEF TInv
<1>2. /\ home' \in Students /\ after' \in After /\ sent' \in [Students -> Int]
      /\ plan' # NoPlan => PlanIs(plan')
  BY <1>1, TransferShape
<1>3. IInv' /\ WorthIn(1..MaxWorth)'
  <2>1. CASE [Next]_vars
    BY <1>1, <2>1, StepKeeps, StepWorth, TransferAssumption
  <2>2. CASE SettlesHome
    BY <1>1, <2>2, SettlesHomeKeeps
  <2>3. ASSUME NEW p \in Pays, CommitTransfer(p) PROVE IInv' /\ WorthIn(1..MaxWorth)'
    <3>1. plan # NoPlan /\ PlanIs(plan)
      BY <1>1, <2>3 DEF CommitTransfer
    <3> QED BY <1>1, <2>3, <3>1, CommitIsRight
  <2> QED BY <1>1, <2>1, <2>2, <2>3, TransferSteps
<1> QED BY <1>2, <1>3 DEF TInv

(* TInv holds in every reachable state.                                    *)
LEMMA TransferInduction == TransferSpec => []TInv
<1>1. TransferInit => TInv
  <2> SUFFICES ASSUME TransferInit PROVE TInv
    OBVIOUS
  <2>1. NM \in Nat /\ NP \in Nat /\ Enrolled \in Students
    BY SizesAssumption, TransferAssumption
  <2>2. LedgerInv(EmptyLedger) /\ EmptyLedger \in Ledger
    BY <2>1, EmptyIsRight DEF LedgerInv
  <2>3. ledger = [s \in Students |-> EmptyLedger] /\ jobs = {} /\ due = {}
    BY DEF TransferInit, Init
  <2>4. Worths(EmptyLedger, 1..MaxWorth)
    BY DEF Worths, EmptyLedger
  <2>5. IInv /\ WorthIn(1..MaxWorth)
    BY <2>2, <2>3, <2>4 DEF IInv, RowsTyped, WorthIn
  <2> QED BY <2>1, <2>5 DEF TransferInit, TInv, After
<1>2. TInv /\ [TransferNext]_tvars => TInv'
  BY TransferKeeps
<1> QED BY <1>1, <1>2, PTL DEF TransferSpec

(* However a transfer and the operations of both branches interleave, the  *)
(* ledgers of every branch agree, as long as no transfer has written over  *)
(* a month that was restored and paid between its plan and its commit.     *)
THEOREM TransfersLeaveLedgersRight == TransferSpec => [](~overwritten => LedgersAgree)
<1>1. TInv => (~overwritten => LedgersAgree)
  BY IInvMeans DEF TInv
<1> QED BY <1>1, TransferInduction, PTL

-----------------------------------------------------------------------------
(* The ledgers of all branches together implement one wallet.  Its parts   *)
(* are sums over the branches: what cash left a branch with the pupil is   *)
(* taken out of its cash and put into its corrections.                     *)
Balances(l) == [b \in Students |-> l[b].balance]
PaidIn(l) == [b \in Students |-> Total(l[b].paid, NM)]
CashIn(l, x) == [b \in Students |-> l[b].cash - x[b]]
CorrectedIn(l, x) == [b \in Students |-> l[b].adjusted + x[b]]

RightLedgers(l, x) == (\A b \in Students : LedgerInv(l[b])) /\ x \in [Students -> Int]

(* The sums of right ledgers.                                              *)
LEMMA PupilSums ==
  ASSUME NEW l, NEW x, RightLedgers(l, x)
  PROVE  /\ Balances(l) \in [Students -> Nat] /\ PaidIn(l) \in [Students -> Nat]
         /\ CashIn(l, x) \in [Students -> Int] /\ CorrectedIn(l, x) \in [Students -> Int]
         /\ InAll(Balances(l)) \in Nat /\ InAll(PaidIn(l)) \in Nat
         /\ InAll(CashIn(l, x)) \in Int /\ InAll(CorrectedIn(l, x)) \in Int
         /\ InAll(Balances(l)) + InAll(PaidIn(l))
              = InAll(CashIn(l, x)) + InAll(CorrectedIn(l, x))
         /\ \A b \in Students : l[b].balance <= InAll(Balances(l))
<1>1. NM \in Nat /\ NP \in Nat /\ IsFiniteSet(Students)
  BY SizesAssumption, TransferAssumption
<1>2. ASSUME NEW b \in Students
      PROVE  /\ l[b].balance \in Nat /\ Total(l[b].paid, NM) \in Nat
             /\ l[b].cash - x[b] \in Int /\ l[b].adjusted + x[b] \in Int
             /\ l[b].balance + Total(l[b].paid, NM)
                  = (l[b].cash - x[b]) + (l[b].adjusted + x[b])
  <2>1. LedgerInv(l[b]) /\ x[b] \in Int
    BY DEF RightLedgers
  <2>2. /\ l[b].balance \in Nat /\ Total(l[b].paid, NM) \in Nat
        /\ l[b].cash \in Int /\ l[b].adjusted \in Int
        /\ l[b].balance + Total(l[b].paid, NM) = l[b].cash + l[b].adjusted
    BY <1>1, <2>1, BooksSplit
  <2> QED BY <2>1, <2>2
<1>3. /\ Balances(l) \in [Students -> Nat] /\ PaidIn(l) \in [Students -> Nat]
      /\ CashIn(l, x) \in [Students -> Int] /\ CorrectedIn(l, x) \in [Students -> Int]
  BY <1>2 DEF Balances, PaidIn, CashIn, CorrectedIn
<1>4. /\ Balances(l) \in [Students -> Int] /\ PaidIn(l) \in [Students -> Int]
  BY <1>3
<1>5. /\ InAll(Balances(l)) \in Nat /\ InAll(PaidIn(l)) \in Nat
      /\ InAll(CashIn(l, x)) \in Int /\ InAll(CorrectedIn(l, x)) \in Int
      /\ \A b \in Students : Balances(l)[b] <= InAll(Balances(l))
  BY <1>1, <1>3, SumOverNat, SumOverType DEF InAll
<1> DEFINE h == [b \in Students |-> l[b].balance + Total(l[b].paid, NM)]
<1>6. h \in [Students -> Int]
  BY <1>2
<1>7. /\ \A b \in Students : h[b] = Balances(l)[b] + PaidIn(l)[b]
      /\ \A b \in Students : h[b] = CashIn(l, x)[b] + CorrectedIn(l, x)[b]
  BY <1>2 DEF Balances, PaidIn, CashIn, CorrectedIn
<1> HIDE DEF h
<1>8. InAll(h) = InAll(Balances(l)) + InAll(PaidIn(l))
  BY <1>1, <1>4, <1>6, <1>7, SumOverPlus DEF InAll
<1>9. InAll(h) = InAll(CashIn(l, x)) + InAll(CorrectedIn(l, x))
  BY <1>1, <1>3, <1>6, <1>7, SumOverPlus DEF InAll
<1>10. \A b \in Students : l[b].balance <= InAll(Balances(l))
  BY <1>5 DEF Balances
<1> QED BY <1>3, <1>5, <1>8, <1>9, <1>10

(* The pupil's wallet holds what the books of both branches say.           *)
LEMMA PupilBooks ==
  ASSUME RightLedgers(ledger', sent'), NEW c, NEW k,
         InAll(CashIn(ledger', sent')) = InAll(CashIn(ledger, sent)) + c,
         InAll(CorrectedIn(ledger', sent')) = InAll(CorrectedIn(ledger, sent)) + k
  PROVE  Pupil!Books("pupil", c, k) /\ Pupil!Only({"pupil"})
<1>1. /\ InAll(Balances(ledger')) \in Nat /\ InAll(PaidIn(ledger')) \in Nat
      /\ InAll(Balances(ledger')) + InAll(PaidIn(ledger'))
           = InAll(CashIn(ledger', sent')) + InAll(CorrectedIn(ledger', sent'))
  BY PupilSums
<1>2. InAll(Balances(ledger')) >= 0 /\ InAll(PaidIn(ledger')) >= 0
  BY <1>1
<1>3. Pupil!Books("pupil", c, k)
  BY <1>1, <1>2, Zenon DEF Pupil!Books, Together, Balances, PaidIn, CashIn, CorrectedIn
<1> QED BY <1>3 DEF Pupil!Only

BothRight == RightLedgers(ledger, sent) /\ RightLedgers(ledger', sent')

(* A step of one branch's wallet is the same step of the pupil's.          *)
LEMMA OneBranch ==
  ASSUME BothRight, sent' = sent, NEW s \in Students, NEW c \in Int, NEW k \in Int,
         Wallet!Books(s, c, k), Wallet!Only({s})
  PROVE  /\ Pupil!Books("pupil", c, k) /\ Pupil!Only({"pupil"})
         /\ Total(ledger'[s].paid, NM) >= Total(ledger[s].paid, NM)
              => InAll(PaidIn(ledger')) >= InAll(PaidIn(ledger))
         /\ Total(ledger'[s].paid, NM) = Total(ledger[s].paid, NM)
              => InAll(PaidIn(ledger')) = InAll(PaidIn(ledger))
<1>1. PICK l, m : l = ledger /\ m = ledger'
  OBVIOUS
<1>2. PICK x \in [Students -> Int] : x = sent
  BY DEF BothRight, RightLedgers
<1>3. RightLedgers(l, x) /\ RightLedgers(m, x)
  BY <1>1, <1>2 DEF BothRight
<1>4. m[s].cash = l[s].cash + c /\ m[s].adjusted = l[s].adjusted + k
  BY <1>1 DEF Wallet!Books
<1>5. \A b \in Students \ {s} : /\ Total(m[b].paid, NM) = Total(l[b].paid, NM)
                                /\ m[b].cash = l[b].cash /\ m[b].adjusted = l[b].adjusted
  BY <1>1, Zenon DEF Wallet!Only
<1>6. /\ PaidIn(l) \in [Students -> Nat] /\ CashIn(l, x) \in [Students -> Int]
      /\ CorrectedIn(l, x) \in [Students -> Int]
      /\ InAll(PaidIn(l)) \in Nat
      /\ InAll(CashIn(l, x)) \in Int /\ InAll(CorrectedIn(l, x)) \in Int
  BY <1>3, PupilSums
<1>7. /\ PaidIn(m) \in [Students -> Nat] /\ CashIn(m, x) \in [Students -> Int]
      /\ CorrectedIn(m, x) \in [Students -> Int]
      /\ InAll(PaidIn(m)) \in Nat
  BY <1>3, PupilSums
<1>8. /\ PaidIn(l) \in [Students -> Int] /\ PaidIn(m) \in [Students -> Int]
  BY <1>6, <1>7
<1>9. /\ \A b \in Students \ {s} : PaidIn(m)[b] = PaidIn(l)[b]
      /\ \A b \in Students \ {s} : CashIn(m, x)[b] = CashIn(l, x)[b]
      /\ \A b \in Students \ {s} : CorrectedIn(m, x)[b] = CorrectedIn(l, x)[b]
  BY <1>5, Zenon DEF PaidIn, CashIn, CorrectedIn
<1>10. IsFiniteSet(Students)
  BY TransferAssumption
<1>11. /\ InAll(PaidIn(m)) = InAll(PaidIn(l)) + (PaidIn(m)[s] - PaidIn(l)[s])
       /\ InAll(CashIn(m, x)) = InAll(CashIn(l, x)) + (CashIn(m, x)[s] - CashIn(l, x)[s])
       /\ InAll(CorrectedIn(m, x))
            = InAll(CorrectedIn(l, x)) + (CorrectedIn(m, x)[s] - CorrectedIn(l, x)[s])
  BY <1>6, <1>7, <1>8, <1>9, <1>10, SumOverChange DEF InAll
<1>12. CashIn(m, x)[s] - CashIn(l, x)[s] = c /\ CorrectedIn(m, x)[s] - CorrectedIn(l, x)[s] = k
  <2>1. /\ CashIn(m, x)[s] = m[s].cash - x[s] /\ CashIn(l, x)[s] = l[s].cash - x[s]
        /\ CorrectedIn(m, x)[s] = m[s].adjusted + x[s]
        /\ CorrectedIn(l, x)[s] = l[s].adjusted + x[s]
    BY Zenon DEF CashIn, CorrectedIn
  <2>2. l[s].cash \in Int /\ l[s].adjusted \in Int /\ x[s] \in Int
    BY <1>3, LedgerFields DEF RightLedgers
  <2> QED BY <1>4, <2>1, <2>2
<1>13. /\ InAll(CashIn(m, x)) = InAll(CashIn(l, x)) + c
       /\ InAll(CorrectedIn(m, x)) = InAll(CorrectedIn(l, x)) + k
  BY <1>11, <1>12
<1>14. Pupil!Books("pupil", c, k) /\ Pupil!Only({"pupil"})
  <2>1. RightLedgers(ledger', sent')
    BY DEF BothRight
  <2>2. InAll(CashIn(ledger', sent')) = InAll(CashIn(ledger, sent)) + c
    BY <1>1, <1>2, <1>13
  <2>3. InAll(CorrectedIn(ledger', sent')) = InAll(CorrectedIn(ledger, sent)) + k
    BY <1>1, <1>2, <1>13
  <2> QED BY <2>1, <2>2, <2>3, PupilBooks
<1>15. PaidIn(m)[s] = Total(m[s].paid, NM) /\ PaidIn(l)[s] = Total(l[s].paid, NM)
  BY DEF PaidIn
<1>16. /\ Total(m[s].paid, NM) >= Total(l[s].paid, NM) => InAll(PaidIn(m)) >= InAll(PaidIn(l))
       /\ Total(m[s].paid, NM) = Total(l[s].paid, NM) => InAll(PaidIn(m)) = InAll(PaidIn(l))
  <2>1. PaidIn(m)[s] \in Nat /\ PaidIn(l)[s] \in Nat
    BY <1>6, <1>7
  <2> QED BY <1>6, <1>11, <1>15, <2>1
<1> QED BY <1>1, <1>14, <1>16, Zenon

(* A step that changes two branches, or a transfer: what both book counts. *)
LEMMA TwoBranches ==
  ASSUME BothRight, NEW s \in Students, NEW t \in Students, s # t,
         NEW c \in Int, NEW d \in Int, NEW k \in Int, NEW i \in Int,
         ledger'[s].cash - sent'[s] = ledger[s].cash - sent[s] + c,
         ledger'[t].cash - sent'[t] = ledger[t].cash - sent[t] + d,
         ledger'[s].adjusted + sent'[s] = ledger[s].adjusted + sent[s] + k,
         ledger'[t].adjusted + sent'[t] = ledger[t].adjusted + sent[t] + i,
         \A u \in Students \ {s, t} : /\ ledger'[u].cash = ledger[u].cash
                                      /\ ledger'[u].adjusted = ledger[u].adjusted
                                      /\ sent'[u] = sent[u]
  PROVE  Pupil!Books("pupil", c + d, k + i) /\ Pupil!Only({"pupil"})
<1>1. PICK l, m, x, y : l = ledger /\ m = ledger' /\ x = sent /\ y = sent'
  OBVIOUS
<1>2. RightLedgers(l, x) /\ RightLedgers(m, y)
  BY <1>1 DEF BothRight
<1>3. /\ CashIn(l, x) \in [Students -> Int] /\ CorrectedIn(l, x) \in [Students -> Int]
      /\ InAll(CashIn(l, x)) \in Int /\ InAll(CorrectedIn(l, x)) \in Int
      /\ CashIn(m, y) \in [Students -> Int] /\ CorrectedIn(m, y) \in [Students -> Int]
  BY <1>2, PupilSums
<1>4. /\ \A u \in Students \ {s, t} : CashIn(m, y)[u] = CashIn(l, x)[u]
      /\ \A u \in Students \ {s, t} : CorrectedIn(m, y)[u] = CorrectedIn(l, x)[u]
  BY <1>1, Zenon DEF CashIn, CorrectedIn
<1>5. IsFiniteSet(Students)
  BY TransferAssumption
<1>6. /\ InAll(CashIn(m, y)) = InAll(CashIn(l, x)) + (CashIn(m, y)[s] - CashIn(l, x)[s])
                                                   + (CashIn(m, y)[t] - CashIn(l, x)[t])
      /\ InAll(CorrectedIn(m, y)) = InAll(CorrectedIn(l, x))
                                      + (CorrectedIn(m, y)[s] - CorrectedIn(l, x)[s])
                                      + (CorrectedIn(m, y)[t] - CorrectedIn(l, x)[t])
  BY <1>3, <1>4, <1>5, SumOverExchange DEF InAll
<1>7. /\ CashIn(m, y)[s] = CashIn(l, x)[s] + c /\ CashIn(m, y)[t] = CashIn(l, x)[t] + d
      /\ CorrectedIn(m, y)[s] = CorrectedIn(l, x)[s] + k
      /\ CorrectedIn(m, y)[t] = CorrectedIn(l, x)[t] + i
  BY <1>1, Zenon DEF CashIn, CorrectedIn
<1>8. /\ CashIn(l, x)[s] \in Int /\ CashIn(l, x)[t] \in Int
      /\ CorrectedIn(l, x)[s] \in Int /\ CorrectedIn(l, x)[t] \in Int
  BY <1>3
<1>9. /\ InAll(CashIn(m, y)) = InAll(CashIn(l, x)) + (c + d)
      /\ InAll(CorrectedIn(m, y)) = InAll(CorrectedIn(l, x)) + (k + i)
  BY <1>3, <1>6, <1>7, <1>8
<1>10. /\ InAll(CashIn(ledger', sent')) = InAll(CashIn(ledger, sent)) + (c + d)
       /\ InAll(CorrectedIn(ledger', sent')) = InAll(CorrectedIn(ledger, sent)) + (k + i)
  BY <1>1, <1>9
<1> QED BY <1>10, PupilBooks DEF BothRight

(* Every step of a branch's wallet is a step of the pupil's.               *)
LEMMA WalletStepIsPupils ==
  ASSUME BothRight, sent' = sent, WalletStep(1..MaxWorth)
  PROVE  Pupil!Next
<1>1. MaxWorth \in Nat /\ (\A a \in 1..MaxWorth : a \in Int /\ 0 - a \in Int)
  BY TransferAssumption
<1>2. Adjustments \subseteq Int
  BY MoneyAssumption
<1>3. PICK s \in Students :
        \/ \E a \in 1..MaxWorth : Wallet!Receive(s, a) \/ Wallet!GiveBack(s, a)
        \/ \E t \in Students, a, b \in 1..MaxWorth : Wallet!Exchange(s, a, t, b)
        \/ \E a \in 1..ledger[s].balance : Wallet!Refund(s, a)
        \/ \E d \in Adjustments : Wallet!Correct(s, d)
        \/ Wallet!Move(s)
  BY Zenon DEF WalletStep
<1>4. ASSUME NEW a \in 1..MaxWorth, Wallet!Receive(s, a) PROVE Pupil!Next
  <2>1. /\ Wallet!Books(s, a, 0) /\ Wallet!Only({s})
        /\ Total(ledger'[s].paid, NM) >= Total(ledger[s].paid, NM)
    BY <1>4 DEF Wallet!Receive
  <2>2. a \in Int /\ 0 \in Int
    BY <1>1
  <2>3. /\ Pupil!Books("pupil", a, 0) /\ Pupil!Only({"pupil"})
        /\ InAll(PaidIn(ledger')) >= InAll(PaidIn(ledger))
    BY <2>1, <2>2, OneBranch
  <2>4. Pupil!Receive("pupil", a)
    BY <2>3, Zenon DEF Pupil!Receive, Together, PaidIn
  <2> QED BY <2>4 DEF Pupil!Next
<1>5. ASSUME NEW a \in 1..MaxWorth, Wallet!GiveBack(s, a) PROVE Pupil!Next
  <2>1. Wallet!Books(s, 0 - a, 0) /\ Wallet!Only({s})
    BY <1>5 DEF Wallet!GiveBack
  <2>2. 0 - a \in Int /\ 0 \in Int
    BY <1>1
  <2>3. Pupil!Books("pupil", 0 - a, 0) /\ Pupil!Only({"pupil"})
    BY <2>1, <2>2, OneBranch
  <2>4. Pupil!GiveBack("pupil", a)
    BY <2>3 DEF Pupil!GiveBack
  <2> QED BY <2>4 DEF Pupil!Next
<1>6. ASSUME NEW t \in Students, NEW a \in 1..MaxWorth, NEW b \in 1..MaxWorth,
             Wallet!Exchange(s, a, t, b)
      PROVE  Pupil!Next
  <2>1. a \in Int /\ b \in Int /\ 0 - a \in Int /\ b - a \in Int /\ (0 - a) + b = b - a
    BY <1>1
  <2>2. Pupil!Books("pupil", b - a, 0) /\ Pupil!Only({"pupil"})
    <3>1. CASE s = t
      <4>1. Wallet!Books(s, b - a, 0) /\ Wallet!Only({s})
        BY <1>6, <3>1 DEF Wallet!Exchange
      <4> QED BY <2>1, <4>1, OneBranch
    <3>2. CASE s # t
      <4>1. Wallet!Books(s, 0 - a, 0) /\ Wallet!Books(t, b, 0) /\ Wallet!Only({s, t})
        BY <1>6, <3>2 DEF Wallet!Exchange
      <4>2. /\ ledger'[s].cash = ledger[s].cash + (0 - a)
            /\ ledger'[t].cash = ledger[t].cash + b
            /\ ledger'[s].adjusted = ledger[s].adjusted + 0
            /\ ledger'[t].adjusted = ledger[t].adjusted + 0
        BY <4>1 DEF Wallet!Books
      <4>3. \A u \in Students \ {s, t} : /\ ledger'[u].cash = ledger[u].cash
                                         /\ ledger'[u].adjusted = ledger[u].adjusted
                                         /\ sent'[u] = sent[u]
        BY <4>1, Zenon DEF Wallet!Only
      <4>4. ASSUME NEW u \in Students, NEW c \in Int,
                   ledger'[u].cash = ledger[u].cash + c,
                   ledger'[u].adjusted = ledger[u].adjusted + 0
            PROVE  /\ ledger'[u].cash - sent'[u] = ledger[u].cash - sent[u] + c
                   /\ ledger'[u].adjusted + sent'[u] = ledger[u].adjusted + sent[u] + 0
        <5>1. LedgerInv(ledger[u]) /\ sent[u] \in Int
          BY DEF BothRight, RightLedgers
        <5>2. ledger[u].cash \in Int /\ ledger[u].adjusted \in Int /\ sent'[u] = sent[u]
          BY <5>1, LedgerFields
        <5> QED BY <4>4, <5>1, <5>2
      <4>5. /\ ledger'[s].cash - sent'[s] = ledger[s].cash - sent[s] + (0 - a)
            /\ ledger'[t].cash - sent'[t] = ledger[t].cash - sent[t] + b
            /\ ledger'[s].adjusted + sent'[s] = ledger[s].adjusted + sent[s] + 0
            /\ ledger'[t].adjusted + sent'[t] = ledger[t].adjusted + sent[t] + 0
        BY <2>1, <4>2, <4>4
      <4>6. Pupil!Books("pupil", (0 - a) + b, 0 + 0) /\ Pupil!Only({"pupil"})
        BY <2>1, <3>2, <4>3, <4>5, TwoBranches
      <4> QED BY <2>1, <4>6
    <3> QED BY <3>1, <3>2
  <2>3. Pupil!Exchange("pupil", a, "pupil", b)
    BY <2>2 DEF Pupil!Exchange
  <2> QED BY <2>3 DEF Pupil!Next
<1>7. ASSUME NEW a \in 1..ledger[s].balance, Wallet!Refund(s, a) PROVE Pupil!Next
  <2>1. ledger[s].balance \in Nat /\ InAll(Balances(ledger)) \in Nat
        /\ ledger[s].balance <= InAll(Balances(ledger))
    <3>1. LedgerInv(ledger[s]) /\ RightLedgers(ledger, sent)
      BY DEF BothRight, RightLedgers
    <3>2. ledger[s].balance \in Int /\ ledger[s].balance >= 0
      BY <3>1, LedgerFields
    <3>3. InAll(Balances(ledger)) \in Nat /\ ledger[s].balance <= InAll(Balances(ledger))
      BY <3>1, PupilSums
    <3> QED BY <3>2, <3>3
  <2>2. a \in 1..InAll(Balances(ledger)) /\ a <= InAll(Balances(ledger)) /\ 0 - a \in Int
    BY <2>1
  <2>3. /\ Wallet!Books(s, 0 - a, 0) /\ Wallet!Only({s})
        /\ Total(ledger'[s].paid, NM) = Total(ledger[s].paid, NM)
    BY <1>7 DEF Wallet!Refund
  <2>4. /\ Pupil!Books("pupil", 0 - a, 0) /\ Pupil!Only({"pupil"})
        /\ InAll(PaidIn(ledger')) = InAll(PaidIn(ledger))
    BY <2>2, <2>3, OneBranch
  <2>5. Pupil!Refund("pupil", a)
    BY <2>2, <2>4, Zenon DEF Pupil!Refund, Together, PaidIn, Balances
  <2>6. a \in 1..Together([b \in Students |-> ledger[b].balance])["pupil"]
    BY <2>2 DEF Together, Balances
  <2> QED BY <2>5, <2>6 DEF Pupil!Next
<1>8. ASSUME NEW d \in Adjustments, Wallet!Correct(s, d) PROVE Pupil!Next
  <2>1. /\ Wallet!Books(s, 0, d) /\ Wallet!Only({s})
        /\ Total(ledger'[s].paid, NM) = Total(ledger[s].paid, NM)
    BY <1>8 DEF Wallet!Correct
  <2>2. d \in Int /\ 0 \in Int
    BY <1>2
  <2>3. /\ Pupil!Books("pupil", 0, d) /\ Pupil!Only({"pupil"})
        /\ InAll(PaidIn(ledger')) = InAll(PaidIn(ledger))
    BY <2>1, <2>2, OneBranch
  <2>4. Pupil!Correct("pupil", d)
    BY <2>3, Zenon DEF Pupil!Correct, Together, PaidIn
  <2> QED BY <2>4 DEF Pupil!Next
<1>9. ASSUME Wallet!Move(s) PROVE Pupil!Next
  <2>1. Wallet!Books(s, 0, 0) /\ Wallet!Only({s})
    BY <1>9 DEF Wallet!Move
  <2>2. Pupil!Books("pupil", 0, 0) /\ Pupil!Only({"pupil"})
    BY <2>1, OneBranch
  <2>3. Pupil!Move("pupil")
    BY <2>2 DEF Pupil!Move
  <2> QED BY <2>3 DEF Pupil!Next
<1> QED BY <1>3, <1>4, <1>5, <1>6, <1>7, <1>8, <1>9

(* A transfer that commits moves money inside the pupil's wallet.          *)
LEMMA CommitIsMove ==
  ASSUME BothRight, IInv, WorthIn(1..MaxWorth), plan # NoPlan, PlanIs(plan),
         NEW p \in Pays, CommitTransfer(p), ~overwritten'
  PROVE  Pupil!Next
<1>1. PICK s, t : s = plan.from /\ t = plan.to
  OBVIOUS
<1>2. PICK d, c : d = plan.deposit /\ c = plan.cash
  OBVIOUS
<1>3. s \in Students /\ t \in Students /\ s # t /\ d \in Int /\ c \in Nat
  BY <1>1, <1>2 DEF PlanIs
<1>4. /\ ledger'[s].cash = ledger[s].cash /\ ledger'[s].adjusted = ledger[s].adjusted - d
      /\ ledger'[t].cash = ledger[t].cash + c
      /\ ledger'[t].adjusted = ledger[t].adjusted + d - c
      /\ \A u \in Students \ {s, t} : ledger'[u] = ledger[u]
  BY <1>1, <1>2, CommitIsRight
<1>5. sent \in [Students -> Int] /\ sent' = [sent EXCEPT ![s] = @ + c]
  BY <1>1, <1>2, Zenon DEF CommitTransfer, BothRight, RightLedgers
<1>6. sent'[s] = sent[s] + c /\ (\A u \in Students \ {s} : sent'[u] = sent[u])
  BY <1>3, <1>5
<1>7. ASSUME NEW u \in Students
      PROVE  ledger[u].cash \in Int /\ ledger[u].adjusted \in Int /\ sent[u] \in Int
  <2>1. LedgerInv(ledger[u])
    BY DEF IInv
  <2> QED BY <1>5, <2>1, LedgerFields
<1>8. PICK k \in Int, i \in Int : k = c - d /\ i = d - c
  BY <1>3
<1>9. /\ ledger'[s].cash - sent'[s] = ledger[s].cash - sent[s] + (0 - c)
      /\ ledger'[s].adjusted + sent'[s] = ledger[s].adjusted + sent[s] + k
  <2>1. ledger[s].cash \in Int /\ ledger[s].adjusted \in Int /\ sent[s] \in Int
    BY <1>3, <1>7
  <2> QED BY <1>3, <1>4, <1>6, <1>8, <2>1
<1>10. /\ ledger'[t].cash - sent'[t] = ledger[t].cash - sent[t] + c
       /\ ledger'[t].adjusted + sent'[t] = ledger[t].adjusted + sent[t] + i
  <2>1. ledger[t].cash \in Int /\ ledger[t].adjusted \in Int /\ sent[t] \in Int
    BY <1>3, <1>7
  <2>2. sent'[t] = sent[t]
    BY <1>3, <1>6
  <2> QED BY <1>3, <1>4, <1>8, <2>1, <2>2
<1>11. \A u \in Students \ {s, t} : /\ ledger'[u].cash = ledger[u].cash
                                    /\ ledger'[u].adjusted = ledger[u].adjusted
                                    /\ sent'[u] = sent[u]
  BY <1>4, <1>6
<1>12. Pupil!Books("pupil", (0 - c) + c, k + i) /\ Pupil!Only({"pupil"})
  <2>1. 0 - c \in Int /\ c \in Int
    BY <1>3
  <2> QED BY <1>3, <1>8, <1>9, <1>10, <1>11, <2>1, TwoBranches
<1>13. (0 - c) + c = 0 /\ k + i = 0
  BY <1>3, <1>8
<1>14. Pupil!Books("pupil", 0, 0)
  BY <1>12, <1>13
<1>15. Pupil!Move("pupil")
  BY <1>12, <1>14 DEF Pupil!Move
<1> QED BY <1>15 DEF Pupil!Next

(* Every step that writes over nothing is one of the pupil's wallet.       *)
LEMMA TransferStepIsPupils ==
  ASSUME TInv, TInv', [TransferNext]_tvars, ~overwritten'
  PROVE  Pupil!Next \/ UNCHANGED Pupil!wallet
<1>1. /\ IInv /\ WorthIn(1..MaxWorth)
      /\ home \in Students /\ after \in After
      /\ sent \in [Students -> Int]
      /\ plan # NoPlan => PlanIs(plan)
  BY OverwrittenStays, Zenon DEF TInv
<1>2. IInv' /\ sent' \in [Students -> Int]
  BY DEF TInv
<1>3. BothRight
  BY <1>1, <1>2 DEF BothRight, RightLedgers, IInv
<1>4. ASSUME ledger' = ledger, sent' = sent PROVE UNCHANGED Pupil!wallet
  BY <1>4 DEF Pupil!wallet
<1>5. CASE [Next]_vars /\ sent' = sent
  <2>1. WalletStep(1..MaxWorth) \/ ledger' = ledger
    BY <1>1, <1>2, <1>5, StepIsWalletStep, TransferAssumption
  <2> QED BY <1>3, <1>4, <1>5, <2>1, WalletStepIsPupils
<1>6. CASE SettlesHome
  <2>1. SameBooks(Settle(ledger[home]), ledger[home]) /\ Commit(home, Settle(ledger[home]))
    BY <1>1, <1>6, SizesAssumption, SettleFlow DEF SettlesHome, IInv
  <2>2. WalletStep(1..MaxWorth)
    BY <1>1, <1>2, <2>1, WalletMoves
  <2> QED BY <1>3, <1>6, <2>2, WalletStepIsPupils DEF SettlesHome
<1>7. ASSUME NEW p \in Pays, CommitTransfer(p) PROVE Pupil!Next
  <2>1. plan # NoPlan /\ PlanIs(plan)
    BY <1>1, <1>7 DEF CommitTransfer
  <2> QED BY <1>1, <1>3, <1>7, <2>1, CommitIsMove
<1> QED BY <1>1, <1>5, <1>6, <1>7, TransferSteps

(* Over any number of moves between branches, and whatever runs between    *)
(* plan and commit, after it or in another branch, the pupil's money is    *)
(* one wallet: no transfer makes money or loses it, but one that writes    *)
(* over a month that was restored and paid meanwhile.                      *)
THEOREM PupilsMoneyIsKept == TransferSpec => PupilKeepsHisMoney
<1>1. TransferInit => Pupil!Init
  <2> SUFFICES ASSUME TransferInit PROVE Pupil!Init
    OBVIOUS
  <2>1. ledger = [b \in Students |-> EmptyLedger] /\ sent = [b \in Students |-> 0]
    BY DEF TransferInit, Init
  <2>2. /\ EmptyLedger.balance = 0 /\ Total(EmptyLedger.paid, NM) = 0
        /\ EmptyLedger.cash = 0 /\ EmptyLedger.adjusted = 0
    <3>1. NM \in Nat /\ \A m \in 1..NM : EmptyLedger.paid[m] = 0
      BY SizesAssumption DEF EmptyLedger, Months
    <3>2. Total(EmptyLedger.paid, NM) = 0
      BY <3>1, TotalZero
    <3> QED BY <3>2 DEF EmptyLedger
  <2> DEFINE zero == [b \in Students |-> 0]
  <2>3. /\ Balances(ledger) = zero /\ PaidIn(ledger) = zero
        /\ CashIn(ledger, sent) = zero /\ CorrectedIn(ledger, sent) = zero
    BY <2>1, <2>2 DEF Balances, PaidIn, CashIn, CorrectedIn
  <2>4. InAll(zero) = 0
    BY TransferAssumption, SumOverZero DEF InAll
  <2> HIDE DEF zero
  <2>5. /\ Together(Balances(ledger)) = [s \in {"pupil"} |-> 0]
        /\ Together(PaidIn(ledger)) = [s \in {"pupil"} |-> 0]
        /\ Together(CashIn(ledger, sent)) = [s \in {"pupil"} |-> 0]
        /\ Together(CorrectedIn(ledger, sent)) = [s \in {"pupil"} |-> 0]
    BY <2>3, <2>4 DEF Together
  <2> QED BY <2>5 DEF Pupil!Init, Balances, PaidIn, CashIn, CorrectedIn
<1>2. TInv /\ TInv' /\ [TransferNext]_tvars
        => [overwritten' \/ Pupil!Next]_(Pupil!wallet)
  BY TransferStepIsPupils
<1> QED BY <1>1, <1>2, TransferInduction, PTL DEF TransferSpec, PupilKeepsHisMoney

-----------------------------------------------------------------------------
(* A transfer whose plan is still true carries everything, once.           *)

(* Two ways to split a sum into three.                                     *)
SplitTwice(N, a, b, c, x, y, z) ==
    /\ a \in [1..N -> Int] /\ b \in [1..N -> Int] /\ c \in [1..N -> Int]
    /\ x \in [1..N -> Int] /\ y \in [1..N -> Int] /\ z \in [1..N -> Int]
    /\ \A n \in 1..N : a[n] + b[n] + c[n] = x[n] + y[n] + z[n]

LEMMA SameThreeSums ==
  ASSUME NEW N \in Nat, NEW a, NEW b, NEW c, NEW x, NEW y, NEW z,
         SplitTwice(N, a, b, c, x, y, z)
  PROVE  /\ Total(a, N) + Total(b, N) + Total(c, N) = Total(x, N) + Total(y, N) + Total(z, N)
         /\ Total(a, N) \in Int /\ Total(b, N) \in Int /\ Total(c, N) \in Int
         /\ Total(x, N) \in Int /\ Total(y, N) \in Int /\ Total(z, N) \in Int
<1> USE DEF SplitTwice
<1> DEFINE ab == [n \in 1..N |-> a[n] + b[n]]
           xy == [n \in 1..N |-> x[n] + y[n]]
           all == [n \in 1..N |-> ab[n] + c[n]]
<1>1. ASSUME NEW f \in [1..N -> Int], NEW g \in [1..N -> Int]
      PROVE  [n \in 1..N |-> f[n] + g[n]] \in [1..N -> Int]
  OBVIOUS
<1>2. /\ ab \in [1..N -> Int] /\ (\A n \in 1..N : ab[n] = a[n] + b[n])
      /\ xy \in [1..N -> Int] /\ (\A n \in 1..N : xy[n] = x[n] + y[n])
  <2>1. (\A n \in 1..N : ab[n] = a[n] + b[n]) /\ (\A n \in 1..N : xy[n] = x[n] + y[n])
    BY Zenon
  <2> QED BY <1>1, <2>1
<1> HIDE DEF ab, xy
<1>3. \A n \in 1..N : all[n] = ab[n] + c[n]
  OBVIOUS
<1>4. \A n \in 1..N : all[n] = xy[n] + z[n]
  BY <1>2
<1> HIDE DEF all
<1>5. Total(ab, N) = Total(a, N) + Total(b, N)
  BY <1>2, TotalPlus
<1>6. Total(xy, N) = Total(x, N) + Total(y, N)
  BY <1>2, TotalPlus
<1>7. Total(all, N) = Total(ab, N) + Total(c, N)
  <2>1. ab \in [1..N -> Int] /\ c \in [1..N -> Int]
    BY <1>2
  <2> HIDE DEF SplitTwice
  <2> QED BY <1>3, <2>1, TotalPlus
<1>8. Total(all, N) = Total(xy, N) + Total(z, N)
  <2>1. xy \in [1..N -> Int] /\ z \in [1..N -> Int]
    BY <1>2
  <2> HIDE DEF SplitTwice
  <2> QED BY <1>4, <2>1, TotalPlus
<1>9. /\ Total(a, N) \in Int /\ Total(b, N) \in Int /\ Total(c, N) \in Int
      /\ Total(x, N) \in Int /\ Total(y, N) \in Int /\ Total(z, N) \in Int
  BY CumType
<1> QED BY <1>5, <1>6, <1>7, <1>8, <1>9

(* What a ledger owes on each month.                                       *)
Owes(L) == Debt(L, {m \in Months : IsOpen(L, m)})

LEMMA OwesIs ==
  ASSUME NEW L, L.price \in [Months -> Nat], L.paid \in [Months -> Nat]
  PROVE  /\ Owes(L) \in [1..NM -> Int]
         /\ \A m \in Months :
              Owes(L)[m] = IF L.status[m] \in {"unpaid", "partial"}
                           THEN L.price[m] - L.paid[m] ELSE 0
         /\ Owed(L) = Total(Owes(L), NM)
<1>1. ASSUME NEW m \in Months
      PROVE  Owes(L)[m] = IF L.status[m] \in {"unpaid", "partial"}
                          THEN L.price[m] - L.paid[m] ELSE 0
  BY DEF Owes, Debt, IsOpen
<1>2. \A m \in Months : L.price[m] - L.paid[m] \in Int
  OBVIOUS
<1>3. Owes(L) = [m \in Months |-> Owes(L)[m]]
  BY DEF Owes, Debt
<1>4. Owes(L) \in [1..NM -> Int]
  BY <1>1, <1>2, <1>3 DEF Months
<1> QED BY <1>1, <1>4, Zenon DEF Owed, Owes

(* A number of the months of S alone.                                      *)
LEMMA OnlyIs ==
  ASSUME NEW f \in [Months -> Nat], NEW S
  PROVE  /\ Only(f, S) \in [1..NM -> Int]
         /\ \A m \in Months : Only(f, S)[m] = IF m \in S THEN f[m] ELSE 0
  BY DEF Only, Months

(* The ledgers that a plan leaves behind.                                  *)
Left(L, t) == SendDeposit(ReleaseAndCancel(L, t.cancelling), t)
Reached(L, T, t, p) ==
    ReceiveDeposit(OpenDebts(T, ReleaseAndCancel(L, t.cancelling), t), t, p)

LEMMA LeftIs ==
  ASSUME NM \in Nat, NP \in Nat, NEW L, LedgerInv(L), NEW t
  PROVE  /\ Left(L, t).balance = (L.balance + Total(Freed(L, t.cancelling), NP)) - t.deposit
         /\ Left(L, t).price = L.price
         /\ Left(L, t).paid = Only(L.paid, Months \ t.cancelling)
         /\ Left(L, t).status =
              [m \in Months |-> IF m \in t.cancelling THEN "cancelled" ELSE L.status[m]]
<1> DEFINE K == ReleaseAndCancel(L, t.cancelling)
<1>1. L \in Ledger /\ K \in Ledger
  BY ReleaseAndCancelKeeps, LedgerFields
<1>2. /\ K.balance = L.balance + Total(Freed(L, t.cancelling), NP)
      /\ K.price = L.price /\ K.paid = Only(L.paid, Months \ t.cancelling)
      /\ K.status = [m \in Months |-> IF m \in t.cancelling THEN "cancelled" ELSE L.status[m]]
  BY <1>1, Zenon DEF ReleaseAndCancel, Ledger
<1> HIDE DEF K
<1>3. /\ Left(L, t).balance = K.balance - t.deposit
      /\ Left(L, t).price = K.price /\ Left(L, t).paid = K.paid
      /\ Left(L, t).status = K.status
  BY <1>1, Zenon DEF Left, SendDeposit, Ledger, K
<1>4. Left(L, t).balance = (L.balance + Total(Freed(L, t.cancelling), NP)) - t.deposit
  BY <1>2, <1>3
<1>5. Left(L, t).status =
        [m \in Months |-> IF m \in t.cancelling THEN "cancelled" ELSE L.status[m]]
  BY <1>2, <1>3, Zenon
<1>6. Left(L, t).price = L.price /\ Left(L, t).paid = Only(L.paid, Months \ t.cancelling)
  BY <1>2, <1>3, Zenon
<1> QED BY <1>4, <1>5, <1>6, Zenon

ArrivedAs(U, L, T, t, p) ==
    LET S == t.fresh \cup t.restored
    IN  /\ U.balance = T.balance + t.deposit
        /\ U.price = [m \in Months |-> IF m \in S THEN L.price[m] ELSE T.price[m]]
        /\ U.paid = Only(T.paid, Months \ S)
        /\ U.status = [m \in Months |-> IF m \in S THEN "unpaid" ELSE T.status[m]]
        /\ U.deposit = [T.deposit EXCEPT ![p] = T.deposit[p] + t.cash]

LEMMA ReachedIs ==
  ASSUME NM \in Nat, NP \in Nat, NEW L, LedgerInv(L), NEW T, LedgerInv(T),
         NEW t, Reopens(T, t), NEW p \in Pays
  PROVE  ArrivedAs(Reached(L, T, t, p), L, T, t, p)
<1> DEFINE S == t.fresh \cup t.restored
           K == ReleaseAndCancel(L, t.cancelling)
           O == OpenDebts(T, K, t)
           U == Reached(L, T, t, p)
<1>1. L \in Ledger /\ T \in Ledger /\ LedgerInv(K)
  BY ReleaseAndCancelKeeps, LedgerFields
<1>2. K.price = L.price
  BY <1>1, Zenon DEF ReleaseAndCancel, Ledger
<1> HIDE DEF K
<1>3. /\ O.balance = T.balance /\ O.deposit = T.deposit
      /\ O.price = [m \in Months |-> IF m \in S THEN L.price[m] ELSE T.price[m]]
      /\ O.paid = Only(T.paid, Months \ S)
      /\ O.status = [m \in Months |-> IF m \in S THEN "unpaid" ELSE T.status[m]]
  BY <1>1, <1>2, Zenon DEF OpenDebts, Ledger
<1>4. O \in Ledger
  BY <1>1, OpenDebtsKeeps, LedgerFields
<1> HIDE DEF O, S
<1>5. /\ U.balance = O.balance + t.deposit /\ U.price = O.price /\ U.paid = O.paid
      /\ U.status = O.status
      /\ U.deposit = [O.deposit EXCEPT ![p] = O.deposit[p] + t.cash]
  BY <1>4, Zenon DEF Reached, ReceiveDeposit, Ledger, O, K
<1> QED BY <1>3, <1>5, Zenon DEF ArrivedAs, S

(* A plan that was made of the ledgers L and T.                            *)
Planned(L, T, t) ==
    LET vacating == {m \in Billed(L) : m >= t.boundary}
        open     == {m \in Months : m < t.boundary /\ IsOpen(L, m)}
    IN  /\ t.fresh = {m \in open : T.status[m] = "none"}
        /\ t.restored = {m \in open : T.status[m] = "cancelled" /\ T.paid[m] = 0}
        /\ t.cancelling = vacating \cup t.fresh \cup t.restored
        /\ t.deposit = L.balance + Total(Only(L.paid, t.cancelling), NM)
        /\ t.cash = Least(t.deposit, Total(L.deposit, NP) + Total(Freed(L, t.cancelling), NP))

(* Such a plan opens months of which nothing is paid.                      *)
LEMMA PlannedReopens ==
  ASSUME NEW L, NEW T, LedgerInv(T), NEW t, Planned(L, T, t)
  PROVE  Reopens(T, t)
<1> SUFFICES ASSUME NEW m \in t.fresh \cup t.restored, m \in Months PROVE T.paid[m] = 0
  BY DEF Reopens
<1>1. T.status[m] = "none" \/ T.paid[m] = 0
  BY DEF Planned
<1> QED BY <1>1, MonthFacts

(* Month by month: what becomes deposit, with the debts before, is the     *)
(* debts after with the prices given up.                                   *)
LEMMA MonthCarries ==
  ASSUME NM \in Nat, NP \in Nat, NEW L, LedgerInv(L), NEW T, LedgerInv(T),
         NEW t, t.boundary \in Int, Planned(L, T, t), NEW p \in Pays, NEW m \in Months
  PROVE  LET M == Left(L, t)
             U == Reached(L, T, t, p)
             givenUp == {n \in Billed(L) : n >= t.boundary}
         IN  Only(L.paid, t.cancelling)[m] + Owes(L)[m] + Owes(T)[m]
               = Owes(M)[m] + Owes(U)[m] + Only(L.price, givenUp)[m]
<1> DEFINE M == Left(L, t)
           U == Reached(L, T, t, p)
           S == t.fresh \cup t.restored
           gone == t.cancelling
           givenUp == {n \in Billed(L) : n >= t.boundary}
           Balanced == Only(L.paid, gone)[m] + Owes(L)[m] + Owes(T)[m]
                         = Owes(M)[m] + Owes(U)[m] + Only(L.price, givenUp)[m]
<1>1. /\ L.price \in [Months -> Nat] /\ L.paid \in [Months -> Nat] /\ L.status \in [Months -> Status]
      /\ T.price \in [Months -> Nat] /\ T.paid \in [Months -> Nat] /\ T.status \in [Months -> Status]
  BY LedgerFields
<1>2. Reopens(T, t)
  BY PlannedReopens
<1>3. /\ M.price = L.price /\ M.paid = Only(L.paid, Months \ gone)
      /\ M.status = [n \in Months |-> IF n \in gone THEN "cancelled" ELSE L.status[n]]
  BY LeftIs
<1>4. /\ U.price = [n \in Months |-> IF n \in S THEN L.price[n] ELSE T.price[n]]
      /\ U.paid = Only(T.paid, Months \ S)
      /\ U.status = [n \in Months |-> IF n \in S THEN "unpaid" ELSE T.status[n]]
  <2>1. ArrivedAs(U, L, T, t, p)
    BY <1>2, ReachedIs
  <2> QED BY <2>1, Zenon DEF ArrivedAs
<1>5. /\ m \in S => /\ m \in gone /\ m \notin givenUp /\ IsOpen(L, m)
                    /\ T.status[m] \in {"none", "cancelled"}
      /\ m \in gone \ S => m \in givenUp /\ m \in Billed(L)
      /\ m \notin gone => m \notin S /\ m \notin givenUp
  <2>1. m \in Int
    BY DEF Months
  <2> QED BY <2>1 DEF Planned
<1> HIDE DEF M, U, S, gone, givenUp
<1>6. /\ M.price[m] = L.price[m] /\ M.price \in [Months -> Nat] /\ M.paid \in [Months -> Nat]
      /\ M.paid[m] = IF m \in gone THEN 0 ELSE L.paid[m]
      /\ M.status[m] = IF m \in gone THEN "cancelled" ELSE L.status[m]
  BY <1>1, <1>3 DEF Only
<1>7. /\ U.price \in [Months -> Nat] /\ U.paid \in [Months -> Nat]
      /\ U.price[m] = IF m \in S THEN L.price[m] ELSE T.price[m]
      /\ U.paid[m] = IF m \in S THEN 0 ELSE T.paid[m]
      /\ U.status[m] = IF m \in S THEN "unpaid" ELSE T.status[m]
  BY <1>1, <1>4 DEF Only
<1>8. /\ Owes(L)[m] = IF L.status[m] \in {"unpaid", "partial"} THEN L.price[m] - L.paid[m] ELSE 0
      /\ Owes(T)[m] = IF T.status[m] \in {"unpaid", "partial"} THEN T.price[m] - T.paid[m] ELSE 0
      /\ Owes(M)[m] = IF M.status[m] \in {"unpaid", "partial"} THEN M.price[m] - M.paid[m] ELSE 0
      /\ Owes(U)[m] = IF U.status[m] \in {"unpaid", "partial"} THEN U.price[m] - U.paid[m] ELSE 0
  BY <1>1, <1>6, <1>7, OwesIs
<1>9. /\ Only(L.paid, gone)[m] = IF m \in gone THEN L.paid[m] ELSE 0
      /\ Only(L.price, givenUp)[m] = IF m \in givenUp THEN L.price[m] ELSE 0
  BY <1>1 DEF Only
<1>10. PICK x \in Nat, c \in Nat, y \in Nat, d \in Nat :
          x = L.paid[m] /\ c = L.price[m] /\ y = T.paid[m] /\ d = T.price[m]
  BY <1>1
<1>11. ASSUME m \in S PROVE Balanced
  <2>1. /\ Only(L.paid, gone)[m] = x /\ Only(L.price, givenUp)[m] = 0
        /\ Owes(L)[m] = c - x /\ Owes(T)[m] = 0 /\ Owes(M)[m] = 0 /\ Owes(U)[m] = c
    BY <1>5, <1>6, <1>7, <1>8, <1>9, <1>10, <1>11 DEF IsOpen
  <2> QED BY <2>1
<1>12. ASSUME m \in gone \ S PROVE Balanced
  <2>1. /\ Only(L.paid, gone)[m] = x /\ Only(L.price, givenUp)[m] = c
        /\ Owes(M)[m] = 0 /\ Owes(U)[m] = Owes(T)[m] /\ Owes(T)[m] \in Int
    BY <1>5, <1>6, <1>7, <1>8, <1>9, <1>10, <1>12
  <2>2. Owes(L)[m] = c - x
    <3>1. L.status[m] \in {"unpaid", "partial", "paid"}
      BY <1>1, <1>5, <1>12 DEF Billed, Status
    <3>2. CASE L.status[m] = "paid"
      <4>1. \/ L.status[m] = DeriveStatus(L.price[m], L.paid[m])
            \/ L.price[m] = 0
        BY <3>2, MonthFacts
      <4>2. x <= c
        BY <1>10, MonthFacts
      <4>3. c = x
        BY <1>10, <3>2, <4>1, <4>2 DEF DeriveStatus
      <4> QED BY <1>8, <3>2, <4>3
    <3> QED BY <1>8, <1>10, <3>1, <3>2
  <2> QED BY <2>1, <2>2
<1>13. ASSUME m \notin gone PROVE Balanced
  <2>1. /\ Only(L.paid, gone)[m] = 0 /\ Only(L.price, givenUp)[m] = 0
        /\ Owes(M)[m] = Owes(L)[m] /\ Owes(U)[m] = Owes(T)[m]
        /\ Owes(L)[m] \in Int /\ Owes(T)[m] \in Int
    BY <1>5, <1>6, <1>7, <1>8, <1>9, <1>10, <1>13
  <2> QED BY <2>1
<1>14. Balanced
  BY <1>11, <1>12, <1>13, Zenon
<1> QED BY <1>14, Zenon DEF M, U, gone, givenUp

(* A plan of right ledgers carries everything.                             *)
LEMMA PlanCarries ==
  ASSUME NM \in Nat, NP \in Nat, NEW L, LedgerInv(L), NEW T, LedgerInv(T),
         NEW t, t.boundary \in Int, Planned(L, T, t), NEW p \in Pays
  PROVE  CarriesEverything(t, L, T, Left(L, t), Reached(L, T, t, p))
<1> DEFINE M == Left(L, t)
           U == Reached(L, T, t, p)
           gone == t.cancelling
           givenUp == {n \in Billed(L) : n >= t.boundary}
           came == Total(Only(L.paid, gone), NM)
<1>1. /\ L \in Ledger /\ T \in Ledger
      /\ L.balance \in Int /\ L.balance >= 0 /\ T.balance \in Int /\ T.balance >= 0
      /\ L.price \in [Months -> Nat] /\ L.paid \in [Months -> Nat] /\ L.status \in [Months -> Status]
      /\ T.price \in [Months -> Nat] /\ T.paid \in [Months -> Nat] /\ T.status \in [Months -> Status]
      /\ T.deposit \in [Pays -> Nat]
  BY LedgerFields
<1>2. Reopens(T, t)
  BY PlannedReopens
<1>3. Total(Freed(L, gone), NP) = came /\ came \in Nat
  BY FreedIsPaid
<1>4. t.deposit = L.balance + came
      /\ t.cash = Least(t.deposit, Total(L.deposit, NP) + came)
  BY <1>3, Zenon DEF Planned
<1> HIDE DEF came
<1>5. ArrivedAs(U, L, T, t, p)
  BY <1>2, ReachedIs
<1>6. M.balance = 0 /\ U.balance = T.balance + (L.balance + came)
  <2>1. M.balance = (L.balance + Total(Freed(L, gone), NP)) - t.deposit
    BY LeftIs
  <2>2. U.balance = T.balance + t.deposit
    BY <1>5, Zenon DEF ArrivedAs
  <2> QED BY <1>1, <1>3, <1>4, <2>1, <2>2
<1>7. (M.balance - Owed(M)) + (U.balance - Owed(U))
        = (L.balance - Owed(L)) + (T.balance - Owed(T)) + Total(Only(L.price, givenUp), NM)
  <2>1. /\ M.price = L.price /\ M.paid = Only(L.paid, Months \ gone)
        /\ U.price = [n \in Months |-> IF n \in t.fresh \cup t.restored
                                       THEN L.price[n] ELSE T.price[n]]
        /\ U.paid = Only(T.paid, Months \ (t.fresh \cup t.restored))
    BY <1>5, LeftIs, Zenon DEF ArrivedAs
  <2>2. /\ M.price \in [Months -> Nat] /\ M.paid \in [Months -> Nat]
        /\ U.price \in [Months -> Nat] /\ U.paid \in [Months -> Nat]
    BY <1>1, <2>1 DEF Only
  <2>3. /\ Owes(L) \in [1..NM -> Int] /\ Owed(L) = Total(Owes(L), NM)
        /\ Owes(T) \in [1..NM -> Int] /\ Owed(T) = Total(Owes(T), NM)
        /\ Owes(M) \in [1..NM -> Int] /\ Owed(M) = Total(Owes(M), NM)
        /\ Owes(U) \in [1..NM -> Int] /\ Owed(U) = Total(Owes(U), NM)
    BY <1>1, <2>2, OwesIs
  <2>4. Only(L.paid, gone) \in [1..NM -> Int] /\ Only(L.price, givenUp) \in [1..NM -> Int]
    BY <1>1 DEF Only, Months, Billed
  <2>5. \A n \in 1..NM : Only(L.paid, gone)[n] + Owes(L)[n] + Owes(T)[n]
                           = Owes(M)[n] + Owes(U)[n] + Only(L.price, givenUp)[n]
    BY MonthCarries DEF Months
  <2> HIDE DEF M, U, gone, givenUp
  <2>6. /\ came + Owed(L) + Owed(T) = Owed(M) + Owed(U) + Total(Only(L.price, givenUp), NM)
        /\ Owed(L) \in Int /\ Owed(T) \in Int /\ Owed(M) \in Int /\ Owed(U) \in Int
        /\ Total(Only(L.price, givenUp), NM) \in Int
    <3>1. PICK a, b, c, x, y, z : /\ a = Only(L.paid, gone) /\ b = Owes(L) /\ c = Owes(T)
                                  /\ x = Owes(M) /\ y = Owes(U) /\ z = Only(L.price, givenUp)
      OBVIOUS
    <3>2. /\ Total(a, NM) + Total(b, NM) + Total(c, NM)
               = Total(x, NM) + Total(y, NM) + Total(z, NM)
          /\ Total(b, NM) \in Int /\ Total(c, NM) \in Int
          /\ Total(x, NM) \in Int /\ Total(y, NM) \in Int /\ Total(z, NM) \in Int
      <4>1. /\ a \in [1..NM -> Int] /\ b \in [1..NM -> Int] /\ c \in [1..NM -> Int]
            /\ x \in [1..NM -> Int] /\ y \in [1..NM -> Int] /\ z \in [1..NM -> Int]
        BY <2>3, <2>4, <3>1, Zenon
      <4>2. \A n \in 1..NM : a[n] + b[n] + c[n] = x[n] + y[n] + z[n]
        BY <2>5, <3>1, Zenon
      <4>3. SplitTwice(NM, a, b, c, x, y, z)
        BY <4>1, <4>2, Zenon DEF SplitTwice
      <4> QED BY <4>3, SameThreeSums
    <3> QED BY <2>3, <3>1, <3>2, Zenon DEF came
  <2> QED BY <1>1, <1>3, <1>6, <2>6
<1>8. Billed(M) \cap Billed(U) \subseteq Billed(L) \cap Billed(T)
  <2> SUFFICES ASSUME NEW m \in Months, m \in Billed(M), m \in Billed(U)
               PROVE  m \in Billed(L) /\ m \in Billed(T)
    BY DEF Billed
  <2>1. M.status = [n \in Months |-> IF n \in gone THEN "cancelled" ELSE L.status[n]]
    BY LeftIs
  <2>2. U.status = [n \in Months |-> IF n \in t.fresh \cup t.restored
                                      THEN "unpaid" ELSE T.status[n]]
    BY <1>5, Zenon DEF ArrivedAs
  <2> HIDE DEF M, U
  <2>3. m \notin gone /\ m \in Billed(L)
    BY <2>1 DEF Billed
  <2>4. m \notin t.fresh \cup t.restored
    BY <2>3 DEF Planned
  <2> QED BY <2>2, <2>3, <2>4 DEF Billed
<1>9. Spendable(M) + Spendable(U) >= Spendable(L) + Spendable(T)
  <2>1. Total(L.deposit, NP) \in Nat /\ Total(T.deposit, NP) \in Nat
    BY <1>1, LedgerSums
  <2>2. M \in Ledger
    <3>1. LedgerInv(ReleaseAndCancel(L, gone))
      BY ReleaseAndCancelKeeps
    <3>2. ReleaseAndCancel(L, gone).balance = L.balance + Total(Freed(L, gone), NP)
      BY <1>1, Zenon DEF ReleaseAndCancel, Ledger
    <3>3. t.deposit \in Int /\ t.deposit <= ReleaseAndCancel(L, gone).balance
      BY <1>1, <1>3, <1>4, <3>2
    <3> QED BY <3>1, <3>3, SendDepositKeeps, LedgerFields DEF Left
  <2>3. Total(M.deposit, NP) \in Nat
    BY <2>2, LedgerSums
  <2>4. t.cash \in Int
    BY <1>1, <1>3, <1>4, <2>1 DEF Least
  <2>5. Total(U.deposit, NP) = Total(T.deposit, NP) + t.cash
    <3>1. U.deposit = [T.deposit EXCEPT ![p] = T.deposit[p] + t.cash]
      BY <1>5, Zenon DEF ArrivedAs
    <3> HIDE DEF U
    <3>2. /\ T.deposit \in [1..NP -> Int] /\ p \in 1..NP
          /\ \A q \in 1..NP : U.deposit[q] = IF q = p THEN T.deposit[q] + t.cash ELSE T.deposit[q]
      BY <1>1, <3>1 DEF Pays
    <3> QED BY <2>4, <3>2, TotalBump
  <2> HIDE DEF M, U
  <2> QED BY <1>1, <1>3, <1>4, <1>6, <2>1, <2>3, <2>4, <2>5 DEF Spendable, Least
<1> QED BY <1>6, <1>7, <1>8, <1>9 DEF CarriesEverything

(* The plan that a branch computes.                                        *)
LEMMA PlannedIs ==
  ASSUME NEW b, NEW c, NEW boundary, NEW t, t = PlanStudentFinance(b, c, boundary)
  PROVE  t.boundary = boundary /\ Planned(ledger[b], ledger[c], t)
<1> DEFINE L == ledger[b]
           T == ledger[c]
           vacating == {m \in Billed(L) : m >= boundary}
           open     == {m \in Months : m < boundary /\ IsOpen(L, m)}
           fresh    == {m \in open : T.status[m] = "none"}
           restored == {m \in open : T.status[m] = "cancelled" /\ T.paid[m] = 0}
           gone     == vacating \cup fresh \cup restored
           deposit  == L.balance + Total(Only(L.paid, gone), NM)
           receipts == Total(L.deposit, NP) + Total(Freed(L, gone), NP)
<1>1. /\ t.boundary = boundary /\ t.cancelling = gone
      /\ t.fresh = fresh /\ t.restored = restored
      /\ t.deposit = deposit /\ t.cash = Least(deposit, receipts)
  BY Zenon DEF PlanStudentFinance
<1>2. gone = vacating \cup fresh \cup restored
  OBVIOUS
<1> HIDE DEF gone
<1>3. Planned(L, T, t)
  BY <1>1, <1>2, Zenon DEF Planned
<1> QED BY <1>1, <1>3

(* Only a commit moves the pupil.                                          *)
LEMMA OnlyCommitsMove ==
  ASSUME [TransferNext]_tvars, home' # home
  PROVE  \E p \in Pays : CommitTransfer(p)
<1>1. ASSUME NEW b \in Students, BranchStep(b) /\ UNCHANGED moving PROVE FALSE
  BY <1>1 DEF moving
<1>2. ASSUME NEW c \in Students, NEW boundary, BeginTransfer(c, boundary) PROVE FALSE
  BY <1>2 DEF BeginTransfer
<1>3. RollbackTransfer \/ AfterRead \/ AfterCancel \/ AfterBill \/ AfterSettle \/ RestartBoth
        \/ UNCHANGED tvars => FALSE
  BY DEF RollbackTransfer, AfterRead, AfterCancel, AfterBill, AfterSettle, RestartBoth,
         tvars, moving
<1> QED BY <1>1, <1>2, <1>3, Zenon DEF TransferNext

(* A transfer whose plan is current writes over nothing.                   *)
LEMMA CurrentIsWhole ==
  ASSUME TInv, [TransferNext]_tvars, ~overwritten, PlanIsCurrent
  PROVE  /\ CarriesEverything(plan, ledger[plan.from], ledger[plan.to],
                              ledger'[plan.from], ledger'[plan.to])
         /\ ~overwritten'
<1>1. IInv /\ (plan # NoPlan => PlanIs(plan))
  BY Zenon DEF TInv
<1>2. PICK p \in Pays : CommitTransfer(p)
  BY OnlyCommitsMove DEF PlanIsCurrent
<1>3. PICK t : t = plan
  OBVIOUS
<1>4. /\ PlanIs(t) /\ t = PlanStudentFinance(t.from, t.to, t.boundary)
  BY <1>1, <1>2, <1>3 DEF CommitTransfer, PlanIsCurrent
<1>5. t.from \in Students /\ t.to \in Students /\ t.from # t.to /\ t.boundary \in Int
  BY <1>4 DEF PlanIs
<1>6. PICK L, T : /\ L = ledger[t.from] /\ T = ledger[t.to]
                  /\ L \in Ledger /\ T \in Ledger /\ LedgerInv(L) /\ LedgerInv(T)
  BY <1>1, <1>5 DEF IInv, LedgerInv
<1>7. Planned(L, T, t)
  BY <1>4, <1>6, PlannedIs
<1>8. /\ ledger' = [ledger EXCEPT ![t.from] = Left(L, t), ![t.to] = Reached(L, T, t, p)]
      /\ overwritten' = (overwritten \/ \E m \in t.restored : T.paid[m] > 0)
  BY <1>2, <1>3, <1>6, Zenon DEF CommitTransfer, Left, Reached
<1>9. CarriesEverything(t, L, T, Left(L, t), Reached(L, T, t, p))
  BY <1>5, <1>6, <1>7, SizesAssumption, PlanCarries
<1>10. ledger'[t.from] = Left(L, t) /\ ledger'[t.to] = Reached(L, T, t, p)
  BY <1>1, <1>5, <1>8 DEF IInv, RowsTyped
<1>11. ~overwritten'
  <2>1. \A m \in t.restored : T.paid[m] = 0
    BY <1>7 DEF Planned
  <2>2. \A m \in t.restored : ~(T.paid[m] > 0)
    BY <2>1
  <2> QED BY <1>8, <2>2, Zenon
<1> QED BY <1>3, <1>6, <1>9, <1>10, <1>11, Zenon

(* A transfer whose plan is still true when it commits carries debt and    *)
(* deposit over whole, bills no month in both branches, leaves no money    *)
(* behind and the books of both branches right, whatever has happened      *)
(* since it was planned, unless an earlier transfer wrote over a month     *)
(* that had been restored and paid.                                        *)
THEOREM CurrentPlansArriveWhole == TransferSpec => [][~overwritten => ArrivesWhole]_tvars
<1>1. TInv /\ TInv' /\ [TransferNext]_tvars
        => [~overwritten => ArrivesWhole]_tvars
  <2> SUFFICES ASSUME TInv, TInv', [TransferNext]_tvars, ~overwritten, PlanIsCurrent
               PROVE  /\ CarriesEverything(plan, ledger[plan.from], ledger[plan.to],
                                           ledger'[plan.from], ledger'[plan.to])
                      /\ LedgersAgree'
    BY DEF ArrivesWhole
  <2>1. /\ CarriesEverything(plan, ledger[plan.from], ledger[plan.to],
                             ledger'[plan.from], ledger'[plan.to])
        /\ ~overwritten'
    BY CurrentIsWhole
  <2>2. IInv'
    BY <2>1 DEF TInv
  <2>3. LedgersAgree'
    BY <2>2, IInvMeans, PTL
  <2> QED BY <2>1, <2>3
<1> QED BY <1>1, TransferInduction, PTL DEF TransferSpec
=============================================================================
