--------------------------- MODULE ToolLoopProofs ---------------------------
(***************************************************************************)
(* What the tool loops guarantee, for every number of tasks, budget,       *)
(* thresholds, prices, round cap and fallback chain.                       *)
(*                                                                         *)
(* On spending: the session's usage passes the budget by at most one       *)
(* answer per task, and no task passes its hard share of it by more than   *)
(* one answer, one more in either case for each store call that failed.    *)
(* The argument is SpendingInv.  A task is late from the answer of a round *)
(* until the guard lets it into the next one; each late task accounts for  *)
(* one answer beyond the budget.  Only Answer spends, and it makes its     *)
(* task late; only WithinBudget and BudgetUnread make a task punctual      *)
(* again, the first when the ledger is below the budget, so that nothing   *)
(* is left to account for, the second at the price of a store error.  All  *)
(* other steps leave the ledger alone and no late task becomes punctual.   *)
(*                                                                         *)
(* On each loop: models are called in their order, the rounds reported are *)
(* the answers given, and every tool call has its result.  The argument is *)
(* LoopInv, in the second half: where a loop is says what its request has  *)
(* tried, how many answers it has had and what its conversation holds.     *)
(*                                                                         *)
(* On the books: the usages of the tasks sum up to the ledger and what was *)
(* lost.  The sum is a fold over a set, and a fold is a recursive function *)
(* that has to be shown to exist (FoldExists, by induction on the size of  *)
(* the set) before its equation can be used; two sums whose terms differ   *)
(* in one element then differ by as much (SumOfOneMore).                   *)
(*                                                                         *)
(* On time: every step of a loop leaves it fewer steps.  LoopInv bounds    *)
(* what the round counter, the position and the attempt can still become,  *)
(* and a step that sets one of them back advances a weightier one.         *)
(***************************************************************************)
EXTENDS ToolLoop, FiniteSetTheorems, SequenceTheorems, WellFoundedInduction, TLAPS

-----------------------------------------------------------------------------
(* Arithmetic.                                                             *)

\* Multiplication by a natural number is monotone.
LEMMA TimesMonotone ==
  ASSUME NEW c \in Nat, NEW a \in Nat, NEW b \in Nat, a <= b
  PROVE  c * a <= c * b
<1>1. PICK d \in Nat : b = a + d
  <2>1. b - a \in Nat /\ b = a + (b - a)
    OBVIOUS
  <2>. QED  BY <2>1
<1>2. c * b = c * a + c * d
  BY <1>1
<1>3. c * d \in Nat /\ c * a \in Nat /\ c * b \in Nat
  OBVIOUS
<1>. QED  BY <1>2, <1>3

\* A product of natural numbers is one.
LEMMA TimesNat ==
  ASSUME NEW c \in Nat, NEW a \in Nat
  PROVE  c * a \in Nat
OBVIOUS

\* One more of c.
LEMMA TimesSucc ==
  ASSUME NEW c \in Nat, NEW a \in Nat
  PROVE  c * (a + 1) = c * a + c
OBVIOUS

-----------------------------------------------------------------------------
(* Late tasks.                                                             *)

\* The late tasks are finitely many, and at most all of them.
LEMMA LateFinite ==
  /\ IsFiniteSet(Late)
  /\ Cardinality(Late) \in Nat
  /\ Cardinality(Tasks) \in Nat
  /\ Cardinality(Late) <= Cardinality(Tasks)
<1>1. Late \in SUBSET Tasks
  BY DEF Late
<1>2. IsFiniteSet(Tasks)
  BY LoopAssumption
<1>3. IsFiniteSet(Late) /\ Cardinality(Late) <= Cardinality(Tasks)
  BY <1>1, <1>2, FS_Subset
<1>. QED  BY <1>2, <1>3, FS_CardinalityType

\* The same one step later.
LEMMA LateFiniteNext ==
  /\ IsFiniteSet(Late')
  /\ Cardinality(Late') \in Nat
<1>1. Late' \in SUBSET Tasks
  BY DEF Late
<1>2. IsFiniteSet(Late')
  BY <1>1, FS_Subset, LoopAssumption
<1>. QED  BY <1>2, FS_CardinalityType

\* A task that becomes late is one more.
LEMMA LateAdded ==
  ASSUME NEW t \in Tasks, t \notin Late, Late' = Late \cup {t}
  PROVE  Cardinality(Late') = Cardinality(Late) + 1
BY LateFinite, FS_AddElement

\* A task that becomes punctual is one less.
LEMMA LateRemoved ==
  ASSUME NEW t \in Tasks, t \in Late, Late' = Late \ {t}
  PROVE  Cardinality(Late') = Cardinality(Late) - 1
BY LateFinite, FS_RemoveElement

\* A loop moves: what that does to the late tasks.
LEMMA LateMoves ==
  ASSUME NEW t \in Tasks, NEW to \in LoopPc, pc \in [Tasks -> LoopPc],
         pc' = [pc EXCEPT ![t] = to]
  PROVE  /\ pc' \in [Tasks -> LoopPc]
         /\ Late' = IF to \in {"idle", "top", "call"} THEN Late \ {t}
                    ELSE Late \cup {t}
<1>1. pc' \in [Tasks -> LoopPc]
  OBVIOUS
<1>2. \A u \in Tasks : pc'[u] = IF u = t THEN to ELSE pc[u]
  OBVIOUS
<1>. QED  BY <1>1, <1>2 DEF Late

-----------------------------------------------------------------------------
(* The steps.                                                              *)

\* The invariant holds initially.
LEMMA InitSpending == Init => SpendingInv
<1>. SUFFICES ASSUME Init PROVE SpendingInv
  OBVIOUS
<1>1. SpendingTyped
  BY DEF Init, BudgetInit, SpendingTyped, LoopPc
<1>2. Late = {}
  BY DEF Init, Late
<1>3. Cardinality(Late) = 0
  BY <1>2, FS_EmptySet
<1>4. MaxCost * 0 = 0 /\ MaxCost \in Nat
  BY LoopAssumption
<1>5. LossesAreErrors
  BY <1>4 DEF Init, BudgetInit, LossesAreErrors
<1>6. SpentByLate
  BY <1>3, <1>4, BudgetAssumption DEF Init, BudgetInit, SpentByLate, Enforced
<1>7. Shares
  <2>1. SUFFICES ASSUME Enforced, NEW t \in Tasks
                 PROVE  0 <= HardTaskPct * TotalUsd
    BY <1>2, <1>4, BudgetAssumption DEF Init, BudgetInit, Shares
  <2>2. TotalUsd \in Nat /\ HardTaskPct \in Nat
    BY <2>1, BudgetAssumption DEF Enforced
  <2>. QED  BY <2>2
<1>. QED  BY <1>1, <1>5, <1>6, <1>7 DEF SpendingInv

\* A step that spends nothing and lets nobody through the guard.
LEMMA QuietSpending ==
  ASSUME SpendingInv, UNCHANGED <<ledgerVars, usage>>,
         pc' \in [Tasks -> LoopPc], Late \subseteq Late'
  PROVE  SpendingInv'
<1>1. SpendingTyped' /\ LossesAreErrors'
  BY DEF SpendingInv, SpendingTyped, LossesAreErrors, ledgerVars
<1>2. Cardinality(Late) <= Cardinality(Late')
  <2>1. Late \in SUBSET (Late')
    OBVIOUS
  <2>. QED  BY <2>1, LateFiniteNext, FS_Subset
<1>3. SpentByLate'
  <2>. SUFFICES ASSUME Enforced
                PROVE  ledger + lost
                         < TotalUsd + MaxCost * (Cardinality(Late') + storeErrors)
    BY DEF SpentByLate, Enforced, ledgerVars
  <2>. DEFINE a == Cardinality(Late) + storeErrors
              b == Cardinality(Late') + storeErrors
  <2>1. a \in Nat /\ b \in Nat /\ a <= b
    BY <1>2, LateFinite, LateFiniteNext DEF SpendingInv, SpendingTyped
  <2>2. MaxCost * a <= MaxCost * b
    BY <2>1, TimesMonotone, LoopAssumption
  <2>3. ledger + lost < TotalUsd + MaxCost * a
    BY DEF SpendingInv, SpentByLate
  <2>4. MaxCost * a \in Nat /\ MaxCost * b \in Nat
    BY <2>1, LoopAssumption
  <2>. HIDE DEF a, b
  <2>5. ledger + lost < TotalUsd + MaxCost * b
    BY <2>2, <2>3, <2>4, BudgetAssumption DEF SpendingInv, SpendingTyped
  <2>. QED  BY <2>5 DEF b
<1>4. Shares'
  <2>. SUFFICES ASSUME Enforced, NEW t \in Tasks
                PROVE  100 * usage[t] <=
                         HardTaskPct * TotalUsd + 100 * (MaxCost * storeErrors)
                         + (IF t \in Late' THEN 100 * MaxCost ELSE 0)
    BY DEF Shares, Enforced, ledgerVars
  <2>. DEFINE base == HardTaskPct * TotalUsd + 100 * (MaxCost * storeErrors)
  <2>1. 100 * usage[t] <= base + (IF t \in Late THEN 100 * MaxCost ELSE 0)
    BY DEF SpendingInv, Shares
  <2>2. t \in Late => t \in Late'
    OBVIOUS
  <2>3. base \in Int /\ MaxCost \in Nat /\ usage[t] \in Nat
    BY BudgetAssumption, LoopAssumption DEF SpendingInv, SpendingTyped
  <2>. HIDE DEF base
  <2>4. 100 * usage[t] <= base + (IF t \in Late' THEN 100 * MaxCost ELSE 0)
    BY <2>1, <2>2, <2>3
  <2>. QED  BY <2>4 DEF base
<1>. QED  BY <1>1, <1>3, <1>4 DEF SpendingInv

\* An answer: its cost joins the usage and the ledger, or the losses, and its
\* task is late from here on.
LEMMA AnswerSpending ==
  ASSUME SpendingInv, NEW t \in Tasks, Answer(t)
  PROVE  SpendingInv'
<1>1. PICK cost \in Costs :
        /\ usage' = [usage EXCEPT ![t] = @ + cost]
        /\ RecordUsage(cost)
        /\ \E to \in {"returned", "dispatch"} : pc' = [pc EXCEPT ![t] = to]
  <2>1. PICK cost \in Costs, n \in 0..MaxToolCalls :
          /\ usage' = [usage EXCEPT ![t] = @ + cost]
          /\ RecordUsage(cost)
          /\ \/ Return(t, "ContentOnly")
             \/ pc' = [pc EXCEPT ![t] = "dispatch"]
    BY DEF Answer, TakeAnswer
  <2>. QED  BY <2>1 DEF Return
<1>2. cost \in Nat /\ cost <= MaxCost /\ MaxCost \in Nat
  BY LoopAssumption
<1>3. PICK to \in {"returned", "dispatch"} : pc' = [pc EXCEPT ![t] = to]
  BY <1>1
<1>4. pc \in [Tasks -> LoopPc] /\ to \in LoopPc
  BY DEF SpendingInv, SpendingTyped, LoopPc
<1>5. pc' \in [Tasks -> LoopPc] /\ Late' = Late \cup {t}
  BY <1>3, <1>4, LateMoves
<1>6. t \notin Late
  BY DEF Answer, TakeAnswer, Late
<1>7. Cardinality(Late') = Cardinality(Late) + 1
  BY <1>5, <1>6, LateAdded
<1>8. /\ ledger' \in Nat /\ lost' \in Nat /\ storeErrors' \in Nat
      /\ ledger' + lost' = ledger + lost + cost
      /\ \/ lost' = lost /\ storeErrors' = storeErrors
         \/ lost' = lost + cost /\ storeErrors' = storeErrors + 1
  BY <1>1, <1>2 DEF RecordUsage, StoreFails, SpendingInv, SpendingTyped
<1>9. SpendingTyped'
  BY <1>1, <1>2, <1>5, <1>8 DEF SpendingInv, SpendingTyped
<1>10. MaxCost * storeErrors <= MaxCost * storeErrors'
  <2>1. storeErrors \in Nat /\ storeErrors' \in Nat /\ storeErrors <= storeErrors'
    BY <1>8 DEF SpendingInv, SpendingTyped
  <2>. QED  BY <2>1, <1>2, TimesMonotone
<1>11. /\ MaxCost * storeErrors \in Nat
       /\ MaxCost * storeErrors' \in Nat
  <2>1. storeErrors \in Nat /\ storeErrors' \in Nat
    BY <1>8 DEF SpendingInv, SpendingTyped
  <2>. QED  BY <2>1, <1>2, TimesNat
<1>12. LossesAreErrors'
  <2>1. lost <= MaxCost * storeErrors
    BY DEF SpendingInv, LossesAreErrors
  <2>2. CASE lost' = lost
    BY <2>1, <2>2, <1>10, <1>11, <1>8 DEF LossesAreErrors, SpendingInv, SpendingTyped
  <2>3. CASE lost' = lost + cost /\ storeErrors' = storeErrors + 1
    <3>1. MaxCost * (storeErrors + 1) = MaxCost * storeErrors + MaxCost
      BY <1>2, TimesSucc DEF SpendingInv, SpendingTyped
    <3>2. storeErrors \in Nat /\ lost \in Nat
      BY DEF SpendingInv, SpendingTyped
    <3>. DEFINE m == MaxCost * storeErrors
    <3>3. m \in Nat /\ MaxCost * storeErrors' = m + MaxCost /\ lost <= m
      BY <3>1, <2>1, <2>3, <1>11
    <3>. HIDE DEF m
    <3>4. lost' <= MaxCost * storeErrors'
      BY <3>2, <3>3, <2>3, <1>2
    <3>. QED  BY <3>4 DEF LossesAreErrors
  <2>. QED  BY <2>2, <2>3, <1>8
<1>13. SpentByLate'
  <2>. SUFFICES ASSUME Enforced
                PROVE  ledger' + lost'
                         < TotalUsd + MaxCost * (Cardinality(Late') + storeErrors')
    BY DEF SpentByLate, Enforced
  <2>. DEFINE a == Cardinality(Late) + storeErrors
              b == Cardinality(Late') + storeErrors'
  <2>1. a \in Nat /\ b \in Nat /\ a + 1 <= b
    BY <1>7, <1>8, LateFinite, LateFiniteNext DEF SpendingInv, SpendingTyped
  <2>2. ledger + lost < TotalUsd + MaxCost * a
    BY DEF SpendingInv, SpentByLate
  <2>. HIDE DEF a, b
  <2>3. MaxCost * (a + 1) = MaxCost * a + MaxCost
    BY <2>1, <1>2, TimesSucc
  <2>4. MaxCost * (a + 1) <= MaxCost * b
    BY <2>1, <1>2, TimesMonotone
  <2>5. MaxCost * a \in Nat /\ MaxCost * b \in Nat
    BY <2>1, <1>2
  <2>. DEFINE ma == MaxCost * a
              mb == MaxCost * b
  <2>6. /\ ma \in Nat /\ mb \in Nat /\ ma + MaxCost <= mb
        /\ ledger + lost < TotalUsd + ma
    BY <2>2, <2>3, <2>4, <2>5
  <2>. HIDE DEF ma, mb
  <2>7. /\ ledger \in Nat /\ lost \in Nat /\ TotalUsd \in Int
        /\ ledger' + lost' = ledger + lost + cost
    BY <1>8, BudgetAssumption DEF SpendingInv, SpendingTyped
  <2>8. ledger' + lost' < TotalUsd + mb
    BY <2>6, <2>7, <1>2
  <2>. QED  BY <2>8 DEF b, mb
<1>14. Shares'
  <2>. SUFFICES ASSUME Enforced, NEW u \in Tasks
                PROVE  100 * usage'[u] <=
                         HardTaskPct * TotalUsd + 100 * (MaxCost * storeErrors')
                         + (IF u \in Late' THEN 100 * MaxCost ELSE 0)
    BY DEF Shares, Enforced
  <2>. DEFINE h == HardTaskPct * TotalUsd
              m == MaxCost * storeErrors
              n == MaxCost * storeErrors'
  <2>1. h \in Int /\ m \in Nat /\ n \in Nat /\ m <= n
    BY <1>10, <1>11, BudgetAssumption
  <2>2. 100 * usage[u] <= h + 100 * m + (IF u \in Late THEN 100 * MaxCost ELSE 0)
    BY DEF SpendingInv, Shares
  <2>3. usage[u] \in Nat /\ usage'[u] = IF u = t THEN usage[u] + cost ELSE usage[u]
    BY <1>1 DEF SpendingInv, SpendingTyped
  <2>. HIDE DEF h, m, n
  <2>4. u = t => u \notin Late /\ u \in Late'
    BY <1>5, <1>6
  <2>5. u # t => (u \in Late' <=> u \in Late)
    BY <1>5
  <2>6. 100 * usage'[u] <= h + 100 * n + (IF u \in Late' THEN 100 * MaxCost ELSE 0)
    <3>1. CASE u = t
      BY <3>1, <2>1, <2>2, <2>3, <2>4, <1>2
    <3>2. CASE u # t
      BY <3>2, <2>1, <2>2, <2>3, <2>5, <1>2
    <3>. QED  BY <3>1, <3>2
  <2>. QED  BY <2>6 DEF h, n
<1>. QED  BY <1>9, <1>12, <1>13, <1>14 DEF SpendingInv

\* The guard lets a task through: the ledger is below the budget, and the task
\* within its share of the rest.
LEMMA WithinBudgetSpending ==
  ASSUME SpendingInv, NEW t \in Tasks, WithinBudget(t)
  PROVE  SpendingInv'
<1>1. UNCHANGED <<ledgerVars, usage>> /\ pc' = [pc EXCEPT ![t] = "top"]
  BY DEF WithinBudget, Goto
<1>2. pc \in [Tasks -> LoopPc] /\ "top" \in LoopPc
  BY DEF SpendingInv, SpendingTyped, LoopPc
<1>3. pc' \in [Tasks -> LoopPc] /\ Late' = Late \ {t}
  BY <1>1, <1>2, LateMoves
<1>4. SpendingTyped' /\ LossesAreErrors'
  BY <1>1, <1>3 DEF SpendingInv, SpendingTyped, LossesAreErrors, ledgerVars
<1>5. /\ MaxCost \in Nat /\ ledger \in Nat /\ lost \in Nat
      /\ storeErrors \in Nat /\ usage \in [Tasks -> Nat]
  BY LoopAssumption DEF SpendingInv, SpendingTyped
<1>6. Enforced => ledger < TotalUsd /\ TotalUsd \in Nat
  BY <1>5, BudgetAssumption DEF WithinBudget, HardStop, Remaining, Enforced
<1>7. SpentByLate'
  <2>. SUFFICES ASSUME Enforced
                PROVE  ledger + lost
                         < TotalUsd + MaxCost * (Cardinality(Late') + storeErrors)
    BY <1>1 DEF SpentByLate, Enforced, ledgerVars
  <2>. DEFINE b == Cardinality(Late') + storeErrors
  <2>1. b \in Nat /\ storeErrors <= b
    BY <1>5, LateFiniteNext
  <2>. HIDE DEF b
  <2>2. MaxCost * storeErrors <= MaxCost * b
    BY <2>1, <1>5, TimesMonotone
  <2>3. lost <= MaxCost * storeErrors
    BY DEF SpendingInv, LossesAreErrors
  <2>. DEFINE ms == MaxCost * storeErrors
              mb == MaxCost * b
  <2>4. ms \in Nat /\ mb \in Nat /\ ms <= mb /\ lost <= ms
    BY <2>1, <2>2, <2>3, <1>5
  <2>. HIDE DEF ms, mb
  <2>5. ledger + lost < TotalUsd + mb
    BY <2>4, <1>5, <1>6
  <2>. QED  BY <2>5 DEF mb, b
<1>8. Shares'
  <2>. SUFFICES ASSUME Enforced, NEW u \in Tasks
                PROVE  100 * usage[u] <=
                         HardTaskPct * TotalUsd + 100 * (MaxCost * storeErrors)
                         + (IF u \in Late' THEN 100 * MaxCost ELSE 0)
    BY <1>1 DEF Shares, Enforced, ledgerVars
  <2>. DEFINE h == HardTaskPct * TotalUsd
              m == MaxCost * storeErrors
  <2>1. h \in Int /\ m \in Nat /\ usage[u] \in Nat
    BY <1>5, BudgetAssumption
  <2>2. CASE u # t
    <3>1. 100 * usage[u] <= h + 100 * m + (IF u \in Late THEN 100 * MaxCost ELSE 0)
      BY DEF SpendingInv, Shares
    <3>2. u \in Late' <=> u \in Late
      BY <2>2, <1>3
    <3>. QED  BY <3>1, <3>2
  <2>3. CASE u = t
    <3>1. 100 * usage[u] <= HardTaskPct * Remaining
      BY <2>3, <1>5, BudgetAssumption DEF WithinBudget, HardStop, Remaining
    <3>2. Remaining \in Nat /\ Remaining <= TotalUsd
      BY <1>5, <1>6 DEF Remaining
    <3>3. HardTaskPct * Remaining <= h
      BY <3>2, <1>6, BudgetAssumption, TimesMonotone
    <3>4. HardTaskPct * Remaining \in Nat
      BY <3>2, BudgetAssumption
    <3>. DEFINE r == HardTaskPct * Remaining
    <3>5. r \in Nat /\ r <= h /\ 100 * usage[u] <= r
      BY <3>1, <3>3, <3>4
    <3>. HIDE DEF h, m, r
    <3>6. 100 * usage[u] <= h + 100 * m + (IF u \in Late' THEN 100 * MaxCost ELSE 0)
      BY <3>5, <2>1, <1>5
    <3>. QED  BY <3>6 DEF h, m
  <2>. QED  BY <2>2, <2>3
<1>. QED  BY <1>4, <1>7, <1>8 DEF SpendingInv

\* The ledger cannot be read: the task goes on unchecked, and the store error
\* accounts for the answer it may still have.
LEMMA BudgetUnreadSpending ==
  ASSUME SpendingInv, NEW t \in Tasks, BudgetUnread(t)
  PROVE  SpendingInv'
<1>1. /\ UNCHANGED <<ledger, lost, usage>>
      /\ storeErrors' = storeErrors + 1
      /\ pc' = [pc EXCEPT ![t] = "top"]
  BY DEF BudgetUnread, StoreFails, Goto
<1>2. pc \in [Tasks -> LoopPc] /\ "top" \in LoopPc
  BY DEF SpendingInv, SpendingTyped, LoopPc
<1>3. pc' \in [Tasks -> LoopPc] /\ Late' = Late \ {t}
  BY <1>1, <1>2, LateMoves
<1>4. t \in Late
  BY DEF BudgetUnread, Goto, Late
<1>5. Cardinality(Late') = Cardinality(Late) - 1
  BY <1>3, <1>4, LateRemoved
<1>6. /\ MaxCost \in Nat /\ ledger \in Nat /\ lost \in Nat
      /\ storeErrors \in Nat /\ usage \in [Tasks -> Nat]
  BY LoopAssumption DEF SpendingInv, SpendingTyped
<1>7. SpendingTyped'
  BY <1>1, <1>3, <1>6 DEF SpendingTyped
<1>8. MaxCost * storeErrors' = MaxCost * storeErrors + MaxCost
  BY <1>1, <1>6, TimesSucc
<1>9. MaxCost * storeErrors \in Nat
  BY <1>6, TimesNat
<1>10. LossesAreErrors'
  <2>. DEFINE m == MaxCost * storeErrors
  <2>1. m \in Nat /\ MaxCost * storeErrors' = m + MaxCost /\ lost <= m
    BY <1>8, <1>9 DEF SpendingInv, LossesAreErrors
  <2>. HIDE DEF m
  <2>2. lost' <= MaxCost * storeErrors'
    BY <2>1, <1>1, <1>6
  <2>. QED  BY <2>2 DEF LossesAreErrors
<1>11. SpentByLate'
  <2>1. Cardinality(Late') + storeErrors' = Cardinality(Late) + storeErrors
    BY <1>1, <1>5, <1>6, LateFinite, LateFiniteNext
  <2>. QED  BY <2>1, <1>1 DEF SpendingInv, SpentByLate, Enforced
<1>12. Shares'
  <2>. SUFFICES ASSUME Enforced, NEW u \in Tasks
                PROVE  100 * usage[u] <=
                         HardTaskPct * TotalUsd + 100 * (MaxCost * storeErrors')
                         + (IF u \in Late' THEN 100 * MaxCost ELSE 0)
    BY <1>1 DEF Shares, Enforced
  <2>. DEFINE h == HardTaskPct * TotalUsd
              m == MaxCost * storeErrors
              n == MaxCost * storeErrors'
  <2>1. h \in Int /\ m \in Nat /\ usage[u] \in Nat /\ n = m + MaxCost
    BY <1>6, <1>8, <1>9, BudgetAssumption
  <2>2. 100 * usage[u] <= h + 100 * m + (IF u \in Late THEN 100 * MaxCost ELSE 0)
    BY DEF SpendingInv, Shares
  <2>. HIDE DEF h, m, n
  <2>3. 100 * usage[u] <= h + 100 * n + (IF u \in Late' THEN 100 * MaxCost ELSE 0)
    BY <2>1, <2>2, <1>6
  <2>. QED  BY <2>3 DEF h, n
<1>. QED  BY <1>7, <1>10, <1>11, <1>12 DEF SpendingInv

-----------------------------------------------------------------------------
(* All steps, and the theorems.                                            *)

\* Every step of the loops preserves the invariant.
LEMMA NextSpending ==
  ASSUME SpendingInv, [Next]_vars
  PROVE  SpendingInv'
<1>. pc \in [Tasks -> LoopPc]
  BY DEF SpendingInv, SpendingTyped
<1>0. CASE UNCHANGED vars
  <2>1. UNCHANGED <<ledgerVars, usage>> /\ pc' = pc
    BY <1>0 DEF vars
  <2>2. Late' = Late
    BY <2>1 DEF Late
  <2>. QED  BY <2>1, <2>2, QuietSpending
<1>. SUFFICES ASSUME NEW t \in Tasks, LoopStep(t)
              PROVE  SpendingInv'
  BY <1>0 DEF Next, AllOver
<1>1. CASE Answer(t)
  BY <1>1, AnswerSpending
<1>2. CASE WithinBudget(t)
  BY <1>2, WithinBudgetSpending
<1>3. CASE BudgetUnread(t)
  BY <1>3, BudgetUnreadSpending
<1>4. CASE Start(t) \/ NextRound(t)
  <2>1. /\ UNCHANGED <<ledgerVars, usage>>
        /\ \E to \in LoopPc : pc' = [pc EXCEPT ![t] = to]
        /\ t \notin Late
    BY <1>4 DEF Start, NextRound, Goto, Late, LoopPc
  <2>2. pc' \in [Tasks -> LoopPc] /\ Late \subseteq Late'
    BY <2>1, LateMoves
  <2>. QED  BY <2>1, <2>2, QuietSpending
<1>5. CASE RetryModel(t) \/ FallBack(t)
  <2>1. UNCHANGED <<ledgerVars, usage>> /\ pc' = pc
    BY <1>5 DEF RetryModel, FallBack
  <2>2. Late' = Late
    BY <2>1 DEF Late
  <2>. QED  BY <2>1, <2>2, QuietSpending
<1>6. CASE \/ GiveUp(t) \/ ForcedAnswer(t) \/ Dispatch(t)
           \/ ToolPanics(t) \/ OverBudget(t)
  <2>1. /\ UNCHANGED <<ledgerVars, usage>>
        /\ \E to \in {"returned", "dispatch", "budget", "panicked", "forced"} :
             pc' = [pc EXCEPT ![t] = to]
    BY <1>6 DEF GiveUp, ForcedAnswer, Dispatch, ToolPanics, OverBudget, Return, Goto
  <2>2. PICK to \in {"returned", "dispatch", "budget", "panicked", "forced"} :
             pc' = [pc EXCEPT ![t] = to]
    BY <2>1
  <2>3. to \in LoopPc /\ to \notin {"idle", "top", "call"}
    BY DEF LoopPc
  <2>4. pc' \in [Tasks -> LoopPc] /\ Late \subseteq Late'
    BY <2>2, <2>3, LateMoves
  <2>. QED  BY <2>1, <2>4, QuietSpending
<1>. QED  BY <1>1, <1>2, <1>3, <1>4, <1>5, <1>6 DEF LoopStep

\* SpendingInv is an invariant of the loops.
THEOREM SpendingInvariance == Spec => []SpendingInv
<1>1. Init => SpendingInv
  BY InitSpending
<1>2. SpendingInv /\ [Next]_vars => SpendingInv'
  BY NextSpending
<1>. QED  BY <1>1, <1>2, PTL DEF Spec

\* However many tasks share the session and however they interleave, what their
\* rounds cost passes the budget by at most one answer per task, and one more
\* for each store failure: the guard of check_budget, which every task consults
\* on its own and only after it has spent, is enough for that.
THEOREM BudgetOverrunIsBounded == Spec => []OverspendBounded
<1>1. SpendingInv => OverspendBounded
  <2>. SUFFICES ASSUME SpendingInv, Enforced
                PROVE  ledger + lost
                         < TotalUsd + MaxCost * (Cardinality(Tasks) + storeErrors)
    BY DEF OverspendBounded
  <2>. DEFINE a == Cardinality(Late) + storeErrors
              b == Cardinality(Tasks) + storeErrors
  <2>1. /\ a \in Nat /\ b \in Nat /\ a <= b /\ MaxCost \in Nat
        /\ ledger \in Nat /\ lost \in Nat /\ TotalUsd \in Int
    BY LateFinite, LoopAssumption, BudgetAssumption DEF SpendingInv, SpendingTyped
  <2>2. ledger + lost < TotalUsd + MaxCost * a
    BY DEF SpendingInv, SpentByLate
  <2>. HIDE DEF a, b
  <2>3. /\ MaxCost * a <= MaxCost * b
        /\ MaxCost * a \in Nat /\ MaxCost * b \in Nat
    BY <2>1, TimesMonotone, TimesNat
  <2>. DEFINE ma == MaxCost * a
              mb == MaxCost * b
  <2>4. ma \in Nat /\ mb \in Nat /\ ma <= mb /\ ledger + lost < TotalUsd + ma
    BY <2>2, <2>3
  <2>. HIDE DEF ma, mb
  <2>5. ledger + lost < TotalUsd + mb
    BY <2>1, <2>4
  <2>. QED  BY <2>5 DEF mb, b
<1>. QED  BY <1>1, SpendingInvariance, PTL

\* No task takes more than the hard share of the whole budget by more than one
\* answer, and one more for each store failure.
THEOREM TaskShareIsBounded == Spec => []TaskShareBounded
<1>1. SpendingInv => TaskShareBounded
  <2>. SUFFICES ASSUME SpendingInv, Enforced, NEW t \in Tasks
                PROVE  100 * usage[t] <=
                         HardTaskPct * TotalUsd
                         + 100 * MaxCost * (1 + storeErrors)
    BY DEF TaskShareBounded
  <2>. DEFINE h == HardTaskPct * TotalUsd
              m == MaxCost * storeErrors
  <2>1. /\ MaxCost \in Nat /\ storeErrors \in Nat
        /\ h \in Int /\ m \in Nat /\ usage[t] \in Nat
    BY LoopAssumption, BudgetAssumption, TimesNat DEF SpendingInv, SpendingTyped
  <2>2. 100 * usage[t] <= h + 100 * m + (IF t \in Late THEN 100 * MaxCost ELSE 0)
    BY DEF SpendingInv, Shares
  <2>3. 100 * MaxCost * (1 + storeErrors) = 100 * MaxCost + 100 * m
    BY <2>1
  <2>. HIDE DEF m
  <2>4. 100 * usage[t] <= h + (100 * MaxCost + 100 * m)
    BY <2>1, <2>2
  <2>. QED  BY <2>3, <2>4
<1>. QED  BY <1>1, SpendingInvariance, PTL

-----------------------------------------------------------------------------
(* Where a loop is says what its request, its rounds and its messages are. *)

\* The request has gone through the positions before a and n attempts at a.
TriedUpTo(t, a, n) ==
  /\ a \in Positions
  /\ n \in 0..MaxRetries
  /\ \A i \in Positions :
       tries[t][ModelAt(i)] = IF i < a THEN MaxRetries ELSE IF i = a THEN n ELSE 0

RequestFits(t) ==
  /\ \E a \in Positions, n \in 0..MaxRetries : TriedUpTo(t, a, n)
  /\ pc[t] \in {"call", "forced"} => TriedUpTo(t, at[t], attempt[t] - 1)
  /\ stop[t] = "LlmExhausted" =>
       pc[t] = "returned" /\ \A m \in Models : tries[t][m] = MaxRetries

RoundFits(t) ==
  /\ pc[t] \in {"idle", "top", "call", "dispatch", "budget"} => rounds[t] <= MaxRounds
  /\ pc[t] \notin {"idle", "top"} => rounds[t] >= 1
  /\ pc[t] = "dispatch" => answered[t] < toolCalls[t]
  /\ pc[t] = "budget" => answered[t] = toolCalls[t]
  /\ pc[t] = "forced" => stop[t] \in {"RoundCap", "BudgetCap"}

\* Which answers the rounds so far have had.
AnswersFit(t) ==
  /\ Rounds(t) <= MaxRounds
  /\ Rounds(t) =
       CASE pc[t] \in {"idle", "top", "dispatch", "budget", "panicked"} -> rounds[t]
         [] pc[t] = "call" -> rounds[t] - 1
         [] pc[t] = "forced" ->
              IF stop[t] = "RoundCap" THEN rounds[t] - 1 ELSE rounds[t]
         [] pc[t] = "returned" -> reported[t]

\* The answers before position b of a conversation have their results before b.
FedBefore(m, b) ==
  \A i \in DOMAIN m : i < b /\ m[i].role = "assistant" =>
    /\ i + m[i].n < b
    /\ \A k \in 1..m[i].n : m[i + k].role = "tool" /\ m[i + k].n = k
    /\ i + m[i].n + 1 \in DOMAIN m => m[i + m[i].n + 1].role # "tool"

ResultsFit(t) ==
  LET m == messages[t] IN
  CASE pc[t] \in {"idle", "top", "call", "budget", "forced"} -> FedBefore(m, Len(m) + 1)
    [] pc[t] = "dispatch" ->
         \E b \in DOMAIN m :
           /\ m[b] = Msg("assistant", toolCalls[t])
           /\ Len(m) = b + answered[t]
           /\ FedBefore(m, b)
           /\ \A k \in 1..answered[t] : m[b + k] = Msg("tool", k)
    [] OTHER -> TRUE

LoopInv ==
  /\ TypeOK
  /\ \A t \in Tasks : RequestFits(t) /\ RoundFits(t) /\ AnswersFit(t) /\ ResultsFit(t)

-----------------------------------------------------------------------------
(* The model sequence.                                                     *)

\* Every set of natural numbers but the empty one has a least element.
LEMMA LeastOf ==
  ASSUME NEW S, S \subseteq Nat, S # {}
  PROVE  \E n \in S : \A m \in S : n <= m
<1>. DEFINE R == OpToRel(<, Nat)
<1>1. IsWellFoundedOn(R, Nat)
  BY Zenon, NatLessThanWellFounded
<1>2. \A m, n \in Nat : m < n => <<m, n>> \in R
  BY Zenon DEF OpToRel
<1>. HIDE DEF R
<1>3. PICK n \in S : \A m \in S : ~(<<m, n>> \in R)
  BY <1>1, WFMin
<1>4. ASSUME NEW m \in S PROVE n <= m
  <2>1. m \in Nat /\ n \in Nat
    OBVIOUS
  <2>2. ~(m < n)
    BY <1>2, <1>3, <2>1
  <2>. QED  BY <2>1, <2>2
<1>. QED  BY <1>4

\* No two positions have one model, and each entry of the chain has a position
\* that is not later.
LEMMA PositionsAreModels ==
  /\ Positions \subseteq 0..Len(FallbackChain) /\ 0 \in Positions
  /\ \A i, j \in Positions : ModelAt(i) = ModelAt(j) => i = j
  /\ \A i \in 0..Len(FallbackChain) :
       \E k \in Positions : k <= i /\ ModelAt(k) = ModelAt(i)
<1>1. Positions \subseteq 0..Len(FallbackChain) /\ 0 \in Positions
  BY LoopAssumption DEF Positions
<1>2. ASSUME NEW i \in Positions, NEW j \in Positions, i < j
      PROVE  ModelAt(i) # ModelAt(j)
  <2>1. j # 0 /\ i \in Nat /\ j \in Nat
    BY <1>1, <1>2, LoopAssumption
  <2>2. FallbackChain[j] # DefaultModel
        /\ \A k \in 1..(j - 1) : FallbackChain[k] # FallbackChain[j]
    BY <2>1 DEF Positions
  <2>3. i # 0 => i \in 1..(j - 1)
    BY <1>2, <2>1
  <2>. QED  BY <2>1, <2>2, <2>3 DEF ModelAt
<1>3. \A i, j \in Positions : ModelAt(i) = ModelAt(j) => i = j
  <2>1. \A i \in Positions : i \in Nat
    BY <1>1, LoopAssumption
  <2>2. \A i, j \in Positions : i # j => i < j \/ j < i
    BY <2>1
  <2>. QED  BY <1>2, <2>2
<1>4. ASSUME NEW i \in 0..Len(FallbackChain)
      PROVE  \E k \in Positions : k <= i /\ ModelAt(k) = ModelAt(i)
  <2>. DEFINE same == {k \in 0..Len(FallbackChain) : ModelAt(k) = ModelAt(i)}
  <2>1. same \subseteq Nat /\ i \in same
    BY LoopAssumption
  <2>2. PICK k \in same : \A m \in same : k <= m
    BY <2>1, LeastOf
  <2>3. k <= i /\ ModelAt(k) = ModelAt(i) /\ k \in 0..Len(FallbackChain)
    BY <2>1, <2>2
  <2>4. \A m \in 0..Len(FallbackChain) : m < k => ModelAt(m) # ModelAt(k)
    <3>. SUFFICES ASSUME NEW m \in 0..Len(FallbackChain), m < k, ModelAt(m) = ModelAt(k)
                  PROVE  FALSE
      OBVIOUS
    <3>1. m \in same
      BY <2>3
    <3>2. k <= m
      BY <2>2, <3>1
    <3>. QED  BY <2>3, <3>2, LoopAssumption
  <2>. HIDE DEF same
  <2>5. k \in Positions
    <3>1. CASE k = 0
      BY <1>1, <3>1
    <3>2. CASE k # 0
      <4>1. k \in 1..Len(FallbackChain) /\ \A m \in 0..(k - 1) : m \in 0..Len(FallbackChain) /\ m < k
        BY <2>3, <3>2, LoopAssumption
      <4>2. \A m \in 0..(k - 1) : ModelAt(m) # ModelAt(k)
        BY <2>4, <4>1
      <4>3. FallbackChain[k] # DefaultModel
        BY <4>1, <4>2 DEF ModelAt
      <4>4. \A m \in 1..(k - 1) : FallbackChain[m] # FallbackChain[k]
        BY <4>1, <4>2 DEF ModelAt
      <4>. QED  BY <4>1, <4>3, <4>4 DEF Positions
    <3>. QED  BY <3>1, <3>2
  <2>. QED  BY <2>3, <2>5
<1>. QED  BY <1>1, <1>3, <1>4

\* The next position is the first of the later ones.
LEMMA NextPosition ==
  ASSUME NEW i \in Positions, Later(i) # {}
  PROVE  /\ First(Later(i)) \in Positions
         /\ i < First(Later(i))
         /\ \A j \in Positions : j < First(Later(i)) => j <= i
<1>1. Positions \subseteq Nat
  BY PositionsAreModels, LoopAssumption
<1>2. Later(i) \subseteq Nat
  BY <1>1 DEF Later
<1>3. \E n \in Later(i) : \A j \in Later(i) : n <= j
  BY <1>2, LeastOf
<1>4. First(Later(i)) \in Later(i) /\ \A j \in Later(i) : First(Later(i)) <= j
  BY <1>3 DEF First
<1>5. First(Later(i)) \in Positions /\ i < First(Later(i))
  BY <1>4 DEF Later
<1>6. ASSUME NEW j \in Positions, j < First(Later(i)), ~(j <= i) PROVE FALSE
  <2>1. j \in Later(i)
    BY <1>1, <1>6 DEF Later
  <2>2. First(Later(i)) <= j /\ First(Later(i)) \in Nat /\ j \in Nat
    BY <1>1, <1>4, <1>5, <2>1
  <2>. QED  BY <1>6, <2>2
<1>. QED  BY <1>5, <1>6

\* What a request has gone through is in the order of the chain.
LEMMA TriedInOrder ==
  ASSUME NEW t, NEW a, NEW n, TriedUpTo(t, a, n)
  PROVE  /\ \A m \in Models : tries[t][m] <= MaxRetries
         /\ \A i, j \in 0..Len(FallbackChain) :
              (tries[t][ModelAt(j)] > 0 /\ \A k \in 0..i : ModelAt(k) # ModelAt(j))
                => tries[t][ModelAt(i)] = MaxRetries
<1>1. /\ a \in Positions /\ a \in Nat /\ n \in 0..MaxRetries /\ MaxRetries \in Nat
      /\ Positions \subseteq Nat
  BY PositionsAreModels, LoopAssumption DEF TriedUpTo
<1>2. \A i \in Positions : tries[t][ModelAt(i)] =
        IF i < a THEN MaxRetries ELSE IF i = a THEN n ELSE 0
  BY DEF TriedUpTo
<1>3. ASSUME NEW m \in Models PROVE tries[t][m] <= MaxRetries
  <2>1. PICK i \in 0..Len(FallbackChain) : m = ModelAt(i)
    BY DEF Models
  <2>2. PICK k \in Positions : m = ModelAt(k)
    BY <2>1, PositionsAreModels
  <2>. QED  BY <1>1, <1>2, <2>2
<1>4. ASSUME NEW i \in 0..Len(FallbackChain), NEW j \in 0..Len(FallbackChain),
             tries[t][ModelAt(j)] > 0, \A k \in 0..i : ModelAt(k) # ModelAt(j)
      PROVE  tries[t][ModelAt(i)] = MaxRetries
  <2>1. PICK k \in Positions : k <= i /\ ModelAt(k) = ModelAt(i)
    BY PositionsAreModels
  <2>2. PICK l \in Positions : ModelAt(l) = ModelAt(j)
    BY PositionsAreModels
  <2>3. ~(l \in 0..i)
    BY <1>4, <2>2
  <2>4. l > i
    BY <1>1, <2>3, LoopAssumption
  <2>5. l <= a
    BY <1>1, <1>2, <1>4, <2>2
  <2>6. k < a
    BY <1>1, <2>1, <2>4, <2>5, LoopAssumption
  <2>. QED  BY <1>2, <2>1, <2>6
<1>. QED  BY <1>3, <1>4

-----------------------------------------------------------------------------
(* What the steps say.                                                     *)

Notes(msgs) == msgs \in Seq({Note})

\* What is said joins the end of one conversation.
LEMMA Saying ==
  ASSUME messages \in [Tasks -> Seq(Message)], NEW t \in Tasks,
         NEW msgs \in Seq(Message), Say(t, msgs)
  PROVE  /\ messages' \in [Tasks -> Seq(Message)]
         /\ messages'[t] = messages[t] \o msgs
         /\ \A u \in Tasks \ {t} : messages'[u] = messages[u]
BY ConcatProperties DEF Say

\* The checkpoint, the budget guard and the length check say notes only.
LEMMA NotesAreMessages ==
  /\ Message # {}
  /\ Note \in Message
  /\ \A msgs : Notes(msgs) => msgs \in Seq(Message)
  /\ Notes(<<>>) /\ Notes(<<Note>>) /\ Notes(<<Note>> \o <<Note>>)
  /\ Notes(<<>> \o <<>>) /\ Notes(<<>> \o <<Note>>) /\ Notes(<<Note>> \o <<>>)
  /\ \A n \in Nat : <<Msg("assistant", n)>> \in Seq(Message)
                    /\ <<Msg("tool", n)>> \in Seq(Message)
<1>1. Note \in Message /\ \A n \in Nat : Msg("assistant", n) \in Message
                                        /\ Msg("tool", n) \in Message
  BY DEF Note, Msg, Message
<1>2. Seq({Note}) \subseteq Seq(Message)
  BY <1>1
<1>3. <<>> \in Seq({Note}) /\ <<Note>> \in Seq({Note})
  OBVIOUS
<1>4. \A a, b \in Seq({Note}) : a \o b \in Seq({Note})
  BY ConcatProperties
<1>. QED  BY <1>1, <1>2, <1>3, <1>4 DEF Notes

\* Only the loop that moves changes.
LEMMA OtherLoops ==
  ASSUME TypeOK, NEW t \in Tasks, LoopStep(t), NEW u \in Tasks, u # t
  PROVE  /\ pc'[u] = pc[u] /\ rounds'[u] = rounds[u] /\ at'[u] = at[u]
         /\ attempt'[u] = attempt[u] /\ tries'[u] = tries[u]
         /\ messages'[u] = messages[u] /\ toolCalls'[u] = toolCalls[u]
         /\ answered'[u] = answered[u] /\ stop'[u] = stop[u]
         /\ reported'[u] = reported[u]
<1>. USE DEF TypeOK, callVars, answerVars, outcomeVars, Goto, Say, NewRequest, Ask, Return
<1>1. CASE Start(t) \/ ToolPanics(t)
  BY <1>1 DEF Start, ToolPanics
<1>2. CASE NextRound(t)
  BY <1>2 DEF NextRound
<1>3. CASE RetryModel(t) \/ FallBack(t)
  BY <1>3 DEF RetryModel, FallBack
<1>4. CASE GiveUp(t) \/ ForcedAnswer(t)
  BY <1>4 DEF GiveUp, ForcedAnswer
<1>5. CASE Answer(t)
  <2>1. PICK cost \in Costs, n \in 0..MaxToolCalls, short \in BOOLEAN :
          TakeAnswer(t, cost, n, short)
    BY <1>5 DEF Answer
  <2>2. /\ pc'[u] = pc[u] /\ stop'[u] = stop[u] /\ reported'[u] = reported[u]
    BY <2>1 DEF TakeAnswer
  <2>3. /\ rounds'[u] = rounds[u] /\ at'[u] = at[u] /\ attempt'[u] = attempt[u]
        /\ tries'[u] = tries[u] /\ messages'[u] = messages[u]
        /\ toolCalls'[u] = toolCalls[u] /\ answered'[u] = answered[u]
    BY <2>1 DEF TakeAnswer
  <2>. QED  BY <2>2, <2>3
<1>6. CASE Dispatch(t)
  BY <1>6 DEF Dispatch
<1>7. CASE OverBudget(t)
  BY <1>7 DEF OverBudget
<1>8. CASE WithinBudget(t) \/ BudgetUnread(t)
  BY <1>8 DEF WithinBudget, BudgetUnread
<1>. QED  BY <1>1, <1>2, <1>3, <1>4, <1>5, <1>6, <1>7, <1>8 DEF LoopStep

\* A step keeps every variable in its range, and the counters of its round in
\* the bounds that its statement implies.
LEMMA RoundStep ==
  ASSUME TypeOK, NEW t \in Tasks, RoundFits(t), RequestFits(t), LoopStep(t)
  PROVE  TypeOK' /\ RoundFits(t)'
<1>. USE DEF callVars, answerVars, outcomeVars, ledgerVars, Goto
<1>0. /\ MaxRounds \in Nat /\ MaxRetries \in Nat \ {0} /\ MaxToolCalls \in Nat
      /\ MaxCost \in Nat /\ \A c \in Costs : c \in Nat
      /\ Len(FallbackChain) \in Nat /\ MaxStoreErrors \in Nat
  BY LoopAssumption, BudgetAssumption
<1>1. /\ pc \in [Tasks -> LoopPc] /\ rounds \in [Tasks -> 0..(MaxRounds + 1)]
      /\ at \in [Tasks -> 0..Len(FallbackChain)]
      /\ attempt \in [Tasks -> 1..MaxRetries]
      /\ usage \in [Tasks -> Nat] /\ messages \in [Tasks -> Seq(Message)]
      /\ toolCalls \in [Tasks -> 0..MaxToolCalls]
      /\ answered \in [Tasks -> 0..MaxToolCalls]
      /\ cut \in [Tasks -> BOOLEAN] /\ stop \in [Tasks -> StopReason]
      /\ reported \in [Tasks -> 0..(MaxRounds + 1)]
      /\ tries \in [Tasks -> [Models -> 0..(MaxRetries + 1)]]
      /\ uncounted \subseteq Tasks /\ BudgetTypeOK
  BY DEF TypeOK
<1>2. ModelAt(at[t]) \in Models
  BY <1>1 DEF Models
<1>3. Ask(t) => tries' \in [Tasks -> [Models -> 0..(MaxRetries + 1)]]
  <2>. SUFFICES ASSUME Ask(t) PROVE tries' \in [Tasks -> [Models -> 0..(MaxRetries + 1)]]
    OBVIOUS
  <2>. DEFINE old == tries[t]
              new == [old EXCEPT ![ModelAt(at[t])] =
                        IF @ > MaxRetries THEN @ ELSE @ + 1]
  <2>1. old \in [Models -> 0..(MaxRetries + 1)]
    BY <1>1
  <2>2. new \in [Models -> 0..(MaxRetries + 1)]
    BY <1>0, <1>2, <2>1
  <2>3. tries' = [tries EXCEPT ![t] = new]
    BY DEF Ask
  <2>. QED  BY <1>1, <2>2, <2>3
<1>4. NewRequest(t) =>
        /\ at' \in [Tasks -> 0..Len(FallbackChain)]
        /\ attempt' \in [Tasks -> 1..MaxRetries]
        /\ tries' \in [Tasks -> [Models -> 0..(MaxRetries + 1)]]
  BY <1>0, <1>1 DEF NewRequest
<1>5. PaidInVain(t) => uncounted' \subseteq Tasks
  BY <1>1 DEF PaidInVain
<1>6. \A msgs : Notes(msgs) /\ Say(t, msgs) => messages' \in [Tasks -> Seq(Message)]
  BY <1>1, NotesAreMessages, Saying
<1>7. CASE Start(t)
  BY <1>0, <1>1, <1>7 DEF Start, TypeOK, RoundFits, LoopPc, BudgetTypeOK
<1>8. CASE NextRound(t)
  <2>1. messages' \in [Tasks -> Seq(Message)]
    BY <1>6, <1>8, NotesAreMessages DEF NextRound
  <2>2. /\ rounds' \in [Tasks -> 0..(MaxRounds + 1)] /\ rounds'[t] = rounds[t] + 1
        /\ rounds'[t] >= 1
    BY <1>0, <1>1, <1>8 DEF NextRound, RoundFits
  <2>3. /\ pc' \in [Tasks -> LoopPc] /\ stop' \in [Tasks -> StopReason]
        /\ \/ pc'[t] = "call" /\ stop'[t] = stop[t] /\ rounds'[t] <= MaxRounds
           \/ pc'[t] = "forced" /\ stop'[t] = "RoundCap"
    <3>1. CASE rounds[t] < MaxRounds
      <4>1. pc' = [pc EXCEPT ![t] = "call"] /\ stop' = stop
        BY <1>0, <1>1, <1>8, <3>1 DEF NextRound
      <4>. QED  BY <1>0, <1>1, <2>2, <3>1, <4>1 DEF LoopPc
    <3>2. CASE ~(rounds[t] < MaxRounds)
      <4>1. /\ pc' = [pc EXCEPT ![t] = "forced"]
            /\ stop' = [stop EXCEPT ![t] = "RoundCap"]
        BY <1>0, <1>1, <1>8, <3>2 DEF NextRound
      <4>. QED  BY <1>1, <4>1 DEF LoopPc, StopReason
    <3>. QED  BY <3>1, <3>2
  <2>4. TypeOK'
    BY <1>1, <1>4, <1>8, <2>1, <2>2, <2>3 DEF NextRound, TypeOK, BudgetTypeOK
  <2>5. RoundFits(t)'
    BY <2>2, <2>3 DEF RoundFits
  <2>. QED  BY <2>4, <2>5
<1>9. CASE RetryModel(t)
  <2>1. attempt' \in [Tasks -> 1..MaxRetries]
    BY <1>0, <1>1, <1>9 DEF RetryModel
  <2>2. TypeOK'
    BY <1>1, <1>3, <1>5, <1>9, <2>1 DEF RetryModel, TypeOK, BudgetTypeOK
  <2>3. RoundFits(t)'
    BY <1>9 DEF RetryModel, RoundFits
  <2>. QED  BY <2>2, <2>3
<1>10. CASE FallBack(t)
  <2>1. First(Later(at[t])) \in 0..Len(FallbackChain)
    BY <1>10, NextPosition, PositionsAreModels DEF FallBack, Ask, RequestFits, TriedUpTo
  <2>2. /\ attempt' \in [Tasks -> 1..MaxRetries]
        /\ at' \in [Tasks -> 0..Len(FallbackChain)]
    BY <1>0, <1>1, <1>10, <2>1 DEF FallBack
  <2>3. TypeOK'
    BY <1>1, <1>3, <1>5, <1>10, <2>2 DEF FallBack, TypeOK, BudgetTypeOK
  <2>4. RoundFits(t)'
    BY <1>10 DEF FallBack, RoundFits
  <2>. QED  BY <2>3, <2>4
<1>11. \A reason \in StopReason : Return(t, reason) /\ pc[t] \in {"call", "forced"} =>
         /\ pc' \in [Tasks -> LoopPc] /\ pc'[t] = "returned"
         /\ stop' \in [Tasks -> StopReason]
         /\ reported' \in [Tasks -> 0..(MaxRounds + 1)]
         /\ rounds[t] >= 1
  BY <1>0, <1>1 DEF Return, RoundFits, LoopPc
<1>12. CASE GiveUp(t) \/ ForcedAnswer(t)
  <2>1. PICK reason \in StopReason : Return(t, reason)
    BY <1>1, <1>12 DEF GiveUp, ForcedAnswer, StopReason
  <2>2. /\ pc' \in [Tasks -> LoopPc] /\ pc'[t] = "returned"
        /\ stop' \in [Tasks -> StopReason]
        /\ reported' \in [Tasks -> 0..(MaxRounds + 1)]
        /\ rounds[t] >= 1
    BY <1>11, <1>12, <2>1 DEF GiveUp, ForcedAnswer, Ask
  <2>3. TypeOK'
    BY <1>1, <1>3, <1>5, <1>12, <2>2 DEF GiveUp, ForcedAnswer, TypeOK, BudgetTypeOK
  <2>4. RoundFits(t)'
    BY <1>12, <2>2 DEF GiveUp, ForcedAnswer, RoundFits
  <2>. QED  BY <2>3, <2>4
<1>13. CASE Answer(t)
  <2>1. PICK cost \in Costs, n \in 0..MaxToolCalls, short \in BOOLEAN :
          TakeAnswer(t, cost, n, short)
    BY <1>13 DEF Answer
  <2>2. BudgetTypeOK'
    <3>1. cost \in Nat /\ ledger \in Nat /\ lost \in Nat
          /\ storeErrors \in 0..MaxStoreErrors
      BY <1>0, <1>1 DEF BudgetTypeOK
    <3>2. RecordUsage(cost)
      BY <2>1 DEF TakeAnswer
    <3>. QED  BY <1>0, <3>1, <3>2 DEF RecordUsage, StoreFails, BudgetTypeOK
  <2>3. messages' \in [Tasks -> Seq(Message)]
    <3>1. n \in Nat /\ Say(t, <<Msg("assistant", n)>>)
      BY <1>0, <2>1 DEF TakeAnswer
    <3>. QED  BY <1>1, <3>1, NotesAreMessages, Saying
  <2>4. /\ usage' \in [Tasks -> Nat] /\ toolCalls' \in [Tasks -> 0..MaxToolCalls]
        /\ cut' \in [Tasks -> BOOLEAN] /\ answered' \in [Tasks -> 0..MaxToolCalls]
        /\ toolCalls'[t] = n /\ answered'[t] = 0
    BY <1>0, <1>1, <2>1 DEF TakeAnswer
  <2>5. pc[t] = "call" /\ rounds[t] >= 1 /\ rounds[t] <= MaxRounds /\ rounds' = rounds
    BY <2>1 DEF TakeAnswer, RoundFits
  <2>6. /\ pc' \in [Tasks -> LoopPc] /\ stop' \in [Tasks -> StopReason]
        /\ reported' \in [Tasks -> 0..(MaxRounds + 1)]
        /\ pc'[t] = "returned" \/ (pc'[t] = "dispatch" /\ n > 0)
    <3>1. CASE Return(t, "ContentOnly")
      <4>1. "ContentOnly" \in StopReason /\ pc[t] \in {"call", "forced"}
        BY <2>5 DEF StopReason
      <4>. QED  BY <1>11, <3>1, <4>1
    <3>2. CASE n > 0 /\ pc' = [pc EXCEPT ![t] = "dispatch"] /\ UNCHANGED outcomeVars
      BY <1>1, <3>2 DEF LoopPc
    <3>. QED  BY <2>1, <3>1, <3>2 DEF TakeAnswer
  <2>7. TypeOK'
    BY <1>1, <1>3, <2>1, <2>2, <2>3, <2>4, <2>6 DEF TakeAnswer, TypeOK
  <2>8. RoundFits(t)'
    BY <2>4, <2>5, <2>6 DEF RoundFits
  <2>. QED  BY <2>7, <2>8
<1>14. CASE Dispatch(t)
  <2>1. messages' \in [Tasks -> Seq(Message)]
    <3>1. answered[t] + 1 \in Nat
      BY <1>0, <1>1
    <3>. QED  BY <1>1, <1>14, <3>1, NotesAreMessages, Saying DEF Dispatch
  <2>2. /\ answered' \in [Tasks -> 0..MaxToolCalls] /\ answered'[t] = answered[t] + 1
        /\ answered[t] < toolCalls[t]
    BY <1>0, <1>1, <1>14 DEF Dispatch, RoundFits
  <2>3. /\ pc' \in [Tasks -> LoopPc]
        /\ \/ pc'[t] = "budget" /\ answered[t] + 1 = toolCalls[t]
           \/ pc'[t] = "dispatch" /\ answered[t] + 1 # toolCalls[t]
    BY <1>1, <1>14 DEF Dispatch, LoopPc
  <2>4. TypeOK'
    BY <1>1, <1>14, <2>1, <2>2, <2>3 DEF Dispatch, TypeOK, BudgetTypeOK
  <2>5. answered[t] \in Nat /\ toolCalls[t] \in Nat
    BY <1>0, <1>1
  <2>6. RoundFits(t)'
    BY <1>14, <2>2, <2>3, <2>5 DEF Dispatch, RoundFits
  <2>. QED  BY <2>4, <2>6
<1>15. CASE ToolPanics(t)
  BY <1>0, <1>1, <1>15 DEF ToolPanics, TypeOK, RoundFits, LoopPc, BudgetTypeOK
<1>16. CASE OverBudget(t)
  <2>1. messages' \in [Tasks -> Seq(Message)]
    BY <1>6, <1>16, NotesAreMessages DEF OverBudget
  <2>2. /\ pc' \in [Tasks -> LoopPc] /\ pc'[t] = "forced"
        /\ stop' \in [Tasks -> StopReason] /\ stop'[t] = "BudgetCap"
    BY <1>1, <1>16 DEF OverBudget, LoopPc, StopReason
  <2>3. TypeOK'
    BY <1>1, <1>4, <1>16, <2>1, <2>2 DEF OverBudget, TypeOK, BudgetTypeOK
  <2>4. RoundFits(t)'
    BY <1>16, <2>2 DEF OverBudget, RoundFits
  <2>. QED  BY <2>3, <2>4
<1>17. CASE WithinBudget(t) \/ BudgetUnread(t)
  <2>1. messages' \in [Tasks -> Seq(Message)]
    <3>1. \A cond \in BOOLEAN : Notes((IF cond THEN <<Note>> ELSE <<>>) \o CutNote(t))
                                /\ Notes(CutNote(t))
      BY NotesAreMessages DEF CutNote
    <3>. QED  BY <1>6, <1>17, <3>1 DEF WithinBudget, BudgetUnread, SoftNudge
  <2>2. pc' \in [Tasks -> LoopPc] /\ pc'[t] = "top"
    BY <1>1, <1>17 DEF WithinBudget, BudgetUnread, LoopPc
  <2>3. BudgetTypeOK'
    <3>1. \/ UNCHANGED <<ledger, lost, storeErrors>>
          \/ UNCHANGED <<ledger, lost>> /\ StoreFails
      BY <1>17 DEF WithinBudget, BudgetUnread
    <3>2. ledger \in Nat /\ lost \in Nat /\ storeErrors \in 0..MaxStoreErrors
      BY <1>1 DEF BudgetTypeOK
    <3>3. ledger' = ledger /\ lost' = lost /\ storeErrors' \in 0..MaxStoreErrors
      BY <1>0, <3>1, <3>2 DEF StoreFails
    <3>. QED  BY <3>2, <3>3 DEF BudgetTypeOK
  <2>4. TypeOK'
    BY <1>1, <1>17, <2>1, <2>2, <2>3 DEF WithinBudget, BudgetUnread, TypeOK
  <2>5. RoundFits(t)'
    BY <1>17, <2>2 DEF WithinBudget, BudgetUnread, RoundFits
  <2>. QED  BY <2>4, <2>5
<1>. QED  BY <1>7, <1>8, <1>9, <1>10, <1>12, <1>13, <1>14, <1>15, <1>16, <1>17 DEF LoopStep

\* A call is one more try of the model at its position, and of no other.
LEMMA AskOne ==
  ASSUME TypeOK, NEW t \in Tasks, RequestFits(t), Ask(t)
  PROVE  /\ \A i \in Positions : tries'[t][ModelAt(i)] =
              IF i < at[t] THEN MaxRetries ELSE IF i = at[t] THEN attempt[t] ELSE 0
         /\ at[t] \in Positions /\ attempt[t] \in 1..MaxRetries
<1>1. pc[t] \in {"call", "forced"} /\ TriedUpTo(t, at[t], attempt[t] - 1)
  BY DEF Ask, RequestFits
<1>2. /\ at[t] \in Positions /\ at[t] \in 0..Len(FallbackChain)
      /\ \A i \in Positions : tries[t][ModelAt(i)] =
           IF i < at[t] THEN MaxRetries ELSE IF i = at[t] THEN attempt[t] - 1 ELSE 0
  BY <1>1 DEF TriedUpTo, TypeOK
<1>3. /\ attempt[t] \in 1..MaxRetries /\ MaxRetries \in Nat \ {0}
      /\ tries \in [Tasks -> [Models -> 0..(MaxRetries + 1)]]
  BY LoopAssumption DEF TypeOK
<1>4. ModelAt(at[t]) \in Models
  BY <1>2 DEF Models
<1>5. tries'[t] = [tries[t] EXCEPT ![ModelAt(at[t])] =
                     IF tries[t][ModelAt(at[t])] > MaxRetries
                     THEN tries[t][ModelAt(at[t])] ELSE tries[t][ModelAt(at[t])] + 1]
  BY <1>3 DEF Ask
<1>6. tries[t] \in [Models -> 0..(MaxRetries + 1)]
  BY <1>3
<1>7. tries'[t][ModelAt(at[t])] = attempt[t]
  <2>1. tries[t][ModelAt(at[t])] = attempt[t] - 1
    BY <1>2, LoopAssumption
  <2>2. ~(attempt[t] - 1 > MaxRetries) /\ attempt[t] - 1 + 1 = attempt[t]
    BY <1>3
  <2>. QED  BY <1>4, <1>5, <1>6, <2>1, <2>2
<1>8. ASSUME NEW i \in Positions, i # at[t]
      PROVE  tries'[t][ModelAt(i)] = tries[t][ModelAt(i)]
  <2>1. ModelAt(i) # ModelAt(at[t]) /\ ModelAt(i) \in Models
    BY <1>2, <1>8, PositionsAreModels DEF Models
  <2>. QED  BY <1>5, <1>6, <2>1
<1>9. \A i \in Positions : i \in Nat
  BY PositionsAreModels, LoopAssumption
<1>. QED  BY <1>2, <1>3, <1>7, <1>8, <1>9

\* A request tries the models in the order of their positions.
LEMMA RequestStep ==
  ASSUME TypeOK, NEW t \in Tasks, RequestFits(t), RoundFits(t), LoopStep(t)
  PROVE  RequestFits(t)'
<1>. USE DEF callVars, answerVars, outcomeVars, ledgerVars
<1>0. /\ MaxRetries \in Nat \ {0} /\ \A i \in Positions : i \in Nat
      /\ pc \in [Tasks -> LoopPc] /\ at \in [Tasks -> 0..Len(FallbackChain)]
      /\ attempt \in [Tasks -> 1..MaxRetries] /\ stop \in [Tasks -> StopReason]
      /\ tries \in [Tasks -> [Models -> 0..(MaxRetries + 1)]]
  BY PositionsAreModels, LoopAssumption DEF TypeOK
\* A new request.
<1>1. CASE NextRound(t) \/ OverBudget(t)
  <2>1. /\ at'[t] = 0 /\ attempt'[t] = 1
        /\ \A i \in Positions : tries'[t][ModelAt(i)] = 0
    <3>1. NewRequest(t)
      BY <1>1 DEF NextRound, OverBudget
    <3>2. \A i \in Positions : ModelAt(i) \in Models
      BY PositionsAreModels DEF Models
    <3>. QED  BY <1>0, <3>1, <3>2 DEF NewRequest
  <2>2. TriedUpTo(t, at[t], attempt[t] - 1)'
    <3>1. at'[t] \in Positions /\ attempt'[t] - 1 = 0 /\ 0 \in 0..MaxRetries
      BY <1>0, <2>1, PositionsAreModels
    <3>2. \A i \in Positions : ~(i < 0)
      BY <1>0
    <3>. QED  BY <2>1, <3>1, <3>2 DEF TriedUpTo
  <2>3. (attempt[t] - 1)' = 0 /\ 0 \in 0..MaxRetries /\ at'[t] \in Positions
    BY <1>0, <2>1, PositionsAreModels
  <2>4. stop'[t] # "LlmExhausted"
    <3>1. pc[t] \in {"top", "budget"}
      BY <1>1 DEF NextRound, OverBudget, Goto
    <3>2. stop'[t] \in {stop[t], "RoundCap", "BudgetCap"}
      BY <1>0, <1>1 DEF NextRound, OverBudget
    <3>. QED  BY <3>1, <3>2 DEF RequestFits
  <2>. QED  BY <2>2, <2>3, <2>4 DEF RequestFits
\* The next attempt.
<1>2. CASE RetryModel(t)
  <2>1. Ask(t) /\ attempt'[t] = attempt[t] + 1 /\ attempt[t] < MaxRetries
        /\ at' = at /\ pc' = pc /\ stop' = stop
    BY <1>0, <1>2 DEF RetryModel
  <2>2. /\ \A i \in Positions : tries'[t][ModelAt(i)] =
             IF i < at[t] THEN MaxRetries ELSE IF i = at[t] THEN attempt[t] ELSE 0
        /\ at[t] \in Positions /\ attempt[t] \in 1..MaxRetries
    BY <2>1, AskOne
  <2>3. (attempt[t] - 1)' = attempt[t] /\ attempt[t] \in 0..MaxRetries
    <3>1. MaxRetries \in Nat /\ attempt[t] \in Int
      BY <1>0, <2>2
    <3>. QED  BY <2>1, <2>2, <3>1
  <2>4. TriedUpTo(t, at[t], attempt[t] - 1)'
    BY <2>1, <2>2, <2>3 DEF TriedUpTo
  <2>5. stop[t] # "LlmExhausted"
    BY <2>1 DEF Ask, RequestFits
  <2>. QED  BY <2>1, <2>2, <2>3, <2>4, <2>5 DEF RequestFits
\* The next model.
<1>3. CASE FallBack(t)
  <2>1. Ask(t) /\ attempt[t] >= MaxRetries /\ Later(at[t]) # {}
        /\ at'[t] = First(Later(at[t])) /\ attempt'[t] = 1 /\ pc' = pc /\ stop' = stop
    BY <1>0, <1>3 DEF FallBack
  <2>2. /\ \A i \in Positions : tries'[t][ModelAt(i)] =
             IF i < at[t] THEN MaxRetries ELSE IF i = at[t] THEN attempt[t] ELSE 0
        /\ at[t] \in Positions /\ attempt[t] \in 1..MaxRetries
    BY <2>1, AskOne
  <2>3. /\ at'[t] \in Positions /\ at[t] < at'[t]
        /\ \A j \in Positions : j < at'[t] => j <= at[t]
    BY <2>1, <2>2, NextPosition
  <2>4. attempt[t] = MaxRetries /\ attempt'[t] - 1 = 0 /\ 0 \in 0..MaxRetries
    BY <1>0, <2>1, <2>2
  <2>5. \A i \in Positions : tries'[t][ModelAt(i)] =
             IF i < at'[t] THEN MaxRetries ELSE 0
    BY <1>0, <2>2, <2>3, <2>4
  <2>6. TriedUpTo(t, at[t], attempt[t] - 1)'
    BY <2>3, <2>4, <2>5 DEF TriedUpTo
  <2>7. stop[t] # "LlmExhausted"
    BY <2>1 DEF Ask, RequestFits
  <2>. QED  BY <2>1, <2>3, <2>4, <2>6, <2>7 DEF RequestFits
\* The request ends.
<1>4. CASE GiveUp(t) \/ Answer(t) \/ ForcedAnswer(t)
  <2>1. Ask(t)
    BY <1>4 DEF GiveUp, Answer, TakeAnswer, ForcedAnswer
  <2>2. /\ \A i \in Positions : tries'[t][ModelAt(i)] =
             IF i < at[t] THEN MaxRetries ELSE IF i = at[t] THEN attempt[t] ELSE 0
        /\ at[t] \in Positions /\ attempt[t] \in 1..MaxRetries
    BY <2>1, AskOne
  <2>3. attempt[t] \in 0..MaxRetries
    BY <1>0, <2>2
  <2>4. TriedUpTo(t, at[t], attempt[t])'
        <=> \A i \in Positions : tries'[t][ModelAt(i)] =
              IF i < at'[t] THEN MaxRetries ELSE IF i = at'[t] THEN attempt'[t] ELSE 0
    <3>1. at' = at /\ attempt' = attempt
      BY <1>4 DEF GiveUp, Answer, TakeAnswer, ForcedAnswer
    <3>. QED  BY <2>2, <2>3, <3>1 DEF TriedUpTo
  <2>5. at' = at /\ attempt' = attempt
    BY <1>4 DEF GiveUp, Answer, TakeAnswer, ForcedAnswer
  <2>6. \E a \in Positions, n \in 0..MaxRetries : TriedUpTo(t, a, n)'
    BY <2>2, <2>3, <2>4, <2>5
  <2>7. pc[t] \in {"call", "forced"} /\ stop[t] # "LlmExhausted"
    BY <2>1 DEF Ask, RequestFits
  <2>8. CASE GiveUp(t)
    <3>1. pc'[t] = "returned" /\ attempt[t] >= MaxRetries /\ Later(at[t]) = {}
      BY <1>0, <2>8 DEF GiveUp, Return
    <3>2. \A i \in Positions : i <= at[t]
      BY <1>0, <2>2, <3>1 DEF Later
    <3>3. \A i \in Positions : tries'[t][ModelAt(i)] = MaxRetries
      BY <1>0, <2>2, <3>1, <3>2
    <3>4. \A m \in Models : tries'[t][m] = MaxRetries
      BY <3>3, PositionsAreModels DEF Models
    <3>. QED  BY <2>6, <3>1, <3>4 DEF RequestFits
  <2>9. CASE Answer(t) \/ ForcedAnswer(t)
    <3>1. pc'[t] \in {"returned", "dispatch"} /\ stop'[t] \in {stop[t], "ContentOnly"}
      <4>1. CASE Answer(t)
        <5>1. \/ Return(t, "ContentOnly")
              \/ pc' = [pc EXCEPT ![t] = "dispatch"] /\ stop' = stop
          BY <4>1 DEF Answer, TakeAnswer
        <5>. QED  BY <1>0, <5>1 DEF Return
      <4>2. CASE ForcedAnswer(t)
        BY <1>0, <4>2 DEF ForcedAnswer, Return
      <4>. QED  BY <2>9, <4>1, <4>2
    <3>. QED  BY <2>6, <2>7, <3>1 DEF RequestFits
  <2>. QED  BY <1>4, <2>8, <2>9
\* No request.
<1>5. CASE \/ Start(t) \/ Dispatch(t) \/ ToolPanics(t)
           \/ WithinBudget(t) \/ BudgetUnread(t)
  <2>1. /\ UNCHANGED <<callVars, stop>> /\ pc[t] # "returned"
        /\ pc'[t] \notin {"call", "forced"}
    BY <1>0, <1>5 DEF Start, Dispatch, ToolPanics, WithinBudget, BudgetUnread, Goto
  <2>. QED  BY <2>1 DEF RequestFits, TriedUpTo
<1>. QED  BY <1>1, <1>2, <1>3, <1>4, <1>5 DEF LoopStep

-----------------------------------------------------------------------------
(* Conversations.                                                          *)

AnswersIn(m) == {i \in DOMAIN m : m[i].role = "assistant"}

\* A message more: its place in the conversation.
LEMMA OneMore ==
  ASSUME NEW m \in Seq(Message), NEW x \in Message
  PROVE  /\ m \o <<x>> \in Seq(Message)
         /\ Len(m) \in Nat /\ DOMAIN m = 1..Len(m)
         /\ Len(m \o <<x>>) = Len(m) + 1 /\ DOMAIN (m \o <<x>>) = 1..(Len(m) + 1)
         /\ \A i \in 1..Len(m) : (m \o <<x>>)[i] = m[i]
         /\ (m \o <<x>>)[Len(m) + 1] = x
<1>1. <<x>> \in Seq(Message) /\ Len(<<x>>) = 1 /\ <<x>>[1] = x
  OBVIOUS
<1>2. /\ m \o <<x>> \in Seq(Message) /\ Len(m \o <<x>>) = Len(m) + 1
      /\ \A i \in 1..(Len(m) + 1) : (m \o <<x>>)[i] =
           IF i <= Len(m) THEN m[i] ELSE <<x>>[i - Len(m)]
  BY <1>1, ConcatProperties
<1>3. Len(m) \in Nat /\ DOMAIN m = 1..Len(m)
      /\ DOMAIN (m \o <<x>>) = 1..Len(m \o <<x>>)
  BY <1>2, LenProperties
<1>4. (m \o <<x>>)[Len(m) + 1] = <<x>>[1]
  <2>1. Len(m) + 1 \in 1..(Len(m) + 1) /\ ~(Len(m) + 1 <= Len(m))
        /\ Len(m) + 1 - Len(m) = 1
    BY <1>3
  <2>. QED  BY <1>2, <2>1
<1>5. \A i \in 1..Len(m) : (m \o <<x>>)[i] = m[i]
  BY <1>2, <1>3
<1>. QED  BY <1>1, <1>2, <1>3, <1>4, <1>5

\* Notes at the end of a conversation.
LEMMA NotesMore ==
  ASSUME NEW m \in Seq(Message), NEW x, Notes(x)
  PROVE  /\ m \o x \in Seq(Message)
         /\ Len(m) \in Nat /\ DOMAIN m = 1..Len(m)
         /\ Len(m \o x) \in Nat /\ Len(m) <= Len(m \o x)
         /\ DOMAIN (m \o x) = 1..Len(m \o x)
         /\ \A i \in 1..Len(m) : (m \o x)[i] = m[i]
         /\ \A i \in 1..Len(m \o x) : i > Len(m) => (m \o x)[i].role = "system"
<1>1. x \in Seq(Message) /\ x \in Seq({Note})
  BY NotesAreMessages DEF Notes
<1>2. /\ Len(x) \in Nat /\ Len(m) \in Nat /\ DOMAIN m = 1..Len(m)
      /\ \A i \in 1..Len(x) : x[i] = Note
  BY <1>1, LenProperties
<1>3. /\ m \o x \in Seq(Message) /\ Len(m \o x) = Len(m) + Len(x)
      /\ \A i \in 1..Len(m) + Len(x) : (m \o x)[i] =
           IF i <= Len(m) THEN m[i] ELSE x[i - Len(m)]
  BY <1>1, ConcatProperties
<1>4. DOMAIN (m \o x) = 1..Len(m \o x)
  BY <1>3, LenProperties
<1>5. \A i \in 1..Len(m) : (m \o x)[i] = m[i]
  BY <1>2, <1>3
<1>6. ASSUME NEW i \in 1..Len(m \o x), i > Len(m)
      PROVE  (m \o x)[i].role = "system"
  <2>1. i - Len(m) \in 1..Len(x) /\ i \in 1..Len(m) + Len(x) /\ ~(i <= Len(m))
    BY <1>2, <1>3, <1>6
  <2>2. (m \o x)[i] = Note
    BY <1>2, <1>3, <2>1
  <2>. QED  BY <2>2 DEF Note, Msg
<1>. QED  BY <1>2, <1>3, <1>4, <1>5, <1>6

\* The answers of a conversation are counted by its assistant messages.
LEMMA AnswersCounted ==
  ASSUME NEW m \in Seq(Message)
  PROVE  /\ Cardinality(AnswersIn(m)) \in Nat
         /\ \A x : Notes(x) => AnswersIn(m \o x) = AnswersIn(m)
         /\ \A n \in Nat : AnswersIn(m \o <<Msg("tool", n)>>) = AnswersIn(m)
         /\ \A n \in Nat : Cardinality(AnswersIn(m \o <<Msg("assistant", n)>>))
                             = Cardinality(AnswersIn(m)) + 1
<1>1. Len(m) \in Nat /\ DOMAIN m = 1..Len(m)
  BY LenProperties
<1>2. IsFiniteSet(AnswersIn(m)) /\ AnswersIn(m) \subseteq 1..Len(m)
  <2>1. IsFiniteSet(1..Len(m))
    BY <1>1, FS_Interval
  <2>2. AnswersIn(m) \in SUBSET (1..Len(m))
    BY <1>1 DEF AnswersIn
  <2>. QED  BY <2>1, <2>2, FS_Subset
<1>3. Cardinality(AnswersIn(m)) \in Nat
  BY <1>2, FS_CardinalityType
<1>4. ASSUME NEW x, Notes(x) PROVE AnswersIn(m \o x) = AnswersIn(m)
  <2>1. /\ Len(m) \in Nat /\ DOMAIN m = 1..Len(m)
        /\ Len(m \o x) \in Nat /\ Len(m) <= Len(m \o x)
        /\ DOMAIN (m \o x) = 1..Len(m \o x)
        /\ \A i \in 1..Len(m) : (m \o x)[i] = m[i]
        /\ \A i \in 1..Len(m \o x) : i > Len(m) => (m \o x)[i].role = "system"
    BY <1>4, NotesMore
  <2>. DEFINE mx == m \o x
  <2>. HIDE DEF mx
  <2>2. /\ DOMAIN mx = 1..Len(mx) /\ Len(mx) \in Nat /\ Len(m) <= Len(mx)
        /\ \A i \in 1..Len(m) : mx[i] = m[i]
        /\ \A i \in 1..Len(mx) : i > Len(m) => mx[i].role = "system"
    BY <2>1 DEF mx
  <2>3. AnswersIn(mx) = AnswersIn(m)
    BY <2>1, <2>2 DEF AnswersIn
  <2>. QED  BY <2>3 DEF mx
<1>5. ASSUME NEW x \in Message
      PROVE  AnswersIn(m \o <<x>>) =
               AnswersIn(m) \cup (IF x.role = "assistant" THEN {Len(m) + 1} ELSE {})
  <2>. DEFINE mx == m \o <<x>>
  <2>. HIDE DEF mx
  <2>1. /\ DOMAIN mx = 1..(Len(m) + 1)
        /\ \A i \in 1..Len(m) : mx[i] = m[i]
        /\ mx[Len(m) + 1] = x
    BY OneMore DEF mx
  <2>2. \A i : i \in 1..(Len(m) + 1) <=> i \in 1..Len(m) \/ i = Len(m) + 1
    BY <1>1
  <2>3. Len(m) + 1 \notin 1..Len(m)
    BY <1>1
  <2>4. AnswersIn(mx) = AnswersIn(m) \cup (IF x.role = "assistant" THEN {Len(m) + 1} ELSE {})
    BY <1>1, <2>1, <2>2, <2>3 DEF AnswersIn
  <2>. QED  BY <2>4 DEF mx
<1>6. ASSUME NEW n \in Nat
      PROVE  /\ AnswersIn(m \o <<Msg("tool", n)>>) = AnswersIn(m)
             /\ AnswersIn(m \o <<Msg("assistant", n)>>) = AnswersIn(m) \cup {Len(m) + 1}
  <2>1. /\ Msg("tool", n) \in Message /\ Msg("tool", n).role = "tool"
        /\ Msg("assistant", n) \in Message /\ Msg("assistant", n).role = "assistant"
    BY DEF Msg, Message
  <2>. QED  BY <1>5, <2>1
<1>7. Len(m) + 1 \notin AnswersIn(m)
  BY <1>1, <1>2
<1>8. Cardinality(AnswersIn(m) \cup {Len(m) + 1}) = Cardinality(AnswersIn(m)) + 1
  BY <1>2, <1>7, FS_AddElement
<1>. QED  BY <1>3, <1>4, <1>6, <1>8

\* Every step counts the answers of its loop right.
LEMMA AnswersStep ==
  ASSUME TypeOK, NEW t \in Tasks, RoundFits(t), AnswersFit(t), LoopStep(t)
  PROVE  AnswersFit(t)'
<1>. USE DEF callVars, answerVars, outcomeVars, ledgerVars
<1>. DEFINE count == Cardinality(AnswersIn(messages[t]))
<1>0. /\ pc \in [Tasks -> LoopPc] /\ stop \in [Tasks -> StopReason]
      /\ rounds \in [Tasks -> 0..(MaxRounds + 1)] /\ MaxRounds \in Nat
      /\ rounds[t] \in Nat
      /\ reported \in [Tasks -> 0..(MaxRounds + 1)]
      /\ messages \in [Tasks -> Seq(Message)] /\ messages[t] \in Seq(Message)
      /\ answered[t] \in Nat
  BY LoopAssumption DEF TypeOK
<1>1. Rounds(t) = count /\ Rounds(t)' = count'
  BY DEF Rounds, AnswersIn
<1>2. ASSUME NEW msgs, Notes(msgs), Say(t, msgs) PROVE count' = count
  <2>1. messages'[t] = messages[t] \o msgs
    BY <1>0, <1>2, NotesAreMessages, Saying
  <2>2. AnswersIn(messages[t] \o msgs) = AnswersIn(messages[t])
    BY <1>0, <1>2, AnswersCounted
  <2>. QED  BY <2>1, <2>2
<1>3. UNCHANGED messages => count' = count
  OBVIOUS
<1>4. count \in Nat
  BY <1>0, AnswersCounted
<1>. HIDE DEF count
<1>5. CASE Start(t) \/ ToolPanics(t)
  <2>1. count' = count /\ rounds' = rounds
    BY <1>3, <1>5 DEF Start, ToolPanics
  <2>2. pc[t] \in {"idle", "dispatch"} /\ pc'[t] \in {"top", "panicked"}
    BY <1>0, <1>5 DEF Start, ToolPanics, Goto
  <2>. QED  BY <1>1, <2>1, <2>2 DEF AnswersFit
<1>6. CASE NextRound(t)
  <2>1. count' = count
    BY <1>2, <1>6, NotesAreMessages DEF NextRound
  <2>2. /\ pc[t] = "top" /\ rounds'[t] = rounds[t] + 1
        /\ \/ pc'[t] = "call"
           \/ pc'[t] = "forced" /\ stop'[t] = "RoundCap"
    BY <1>0, <1>6 DEF NextRound, Goto
  <2>3. rounds'[t] - 1 = rounds[t]
    BY <1>0, <2>2
  <2>. QED  BY <1>1, <2>1, <2>2, <2>3 DEF AnswersFit
<1>7. CASE RetryModel(t) \/ FallBack(t)
  BY <1>1, <1>3, <1>7 DEF RetryModel, FallBack, AnswersFit
<1>8. CASE GiveUp(t)
  <2>1. /\ count' = count /\ pc'[t] = "returned" /\ pc[t] \in {"call", "forced"}
        /\ reported'[t] = IF (IF pc[t] = "call" THEN "LlmExhausted" ELSE stop[t])
                               \in {"RoundCap", "LlmExhausted"}
                          THEN rounds[t] - 1 ELSE rounds[t]
    BY <1>0, <1>3, <1>8 DEF GiveUp, Return, Ask
  <2>2. pc[t] = "forced" => stop[t] \in {"RoundCap", "BudgetCap"}
    BY DEF RoundFits
  <2>. QED  BY <1>1, <2>1, <2>2 DEF AnswersFit
<1>9. CASE ForcedAnswer(t)
  <2>1. /\ count' = count /\ pc'[t] = "returned" /\ pc[t] = "forced"
        /\ reported'[t] = IF stop[t] \in {"RoundCap", "LlmExhausted"}
                          THEN rounds[t] - 1 ELSE rounds[t]
    BY <1>0, <1>3, <1>9 DEF ForcedAnswer, Return, Ask
  <2>2. stop[t] \in {"RoundCap", "BudgetCap"}
    BY <2>1 DEF RoundFits
  <2>. QED  BY <1>1, <2>1, <2>2 DEF AnswersFit
<1>10. CASE Answer(t)
  <2>1. PICK cost \in Costs, n \in 0..MaxToolCalls, short \in BOOLEAN :
          TakeAnswer(t, cost, n, short)
    BY <1>10 DEF Answer
  <2>2. n \in Nat /\ pc[t] = "call" /\ Say(t, <<Msg("assistant", n)>>) /\ rounds' = rounds
    BY <2>1, LoopAssumption DEF TakeAnswer
  <2>3. count' = count + 1
    <3>1. messages'[t] = messages[t] \o <<Msg("assistant", n)>>
      BY <1>0, <2>2, NotesAreMessages, Saying
    <3>. QED  BY <1>0, <2>2, <3>1, AnswersCounted DEF count
  <2>4. \/ pc'[t] = "returned" /\ reported'[t] = rounds[t]
        \/ pc'[t] = "dispatch"
    <3>1. \/ Return(t, "ContentOnly")
          \/ pc' = [pc EXCEPT ![t] = "dispatch"]
      BY <2>1 DEF TakeAnswer
    <3>. QED  BY <1>0, <3>1 DEF Return
  <2>5. count = rounds[t] - 1
    BY <1>1, <2>2 DEF AnswersFit
  <2>6. count' = rounds[t]
    BY <1>0, <1>4, <2>3, <2>5
  <2>7. count' <= MaxRounds
    BY <2>2, <2>6 DEF RoundFits
  <2>. QED  BY <1>1, <2>2, <2>4, <2>6, <2>7 DEF AnswersFit
<1>11. CASE Dispatch(t)
  <2>1. pc[t] = "dispatch" /\ pc'[t] \in {"dispatch", "budget"} /\ rounds' = rounds
    BY <1>0, <1>11 DEF Dispatch, Goto
  <2>2. count' = count
    <3>1. answered[t] + 1 \in Nat /\ Say(t, <<Msg("tool", answered[t] + 1)>>)
      BY <1>0, <1>11 DEF Dispatch
    <3>2. messages'[t] = messages[t] \o <<Msg("tool", answered[t] + 1)>>
      BY <1>0, <3>1, NotesAreMessages, Saying
    <3>. QED  BY <1>0, <3>1, <3>2, AnswersCounted DEF count
  <2>. QED  BY <1>1, <2>1, <2>2 DEF AnswersFit
<1>12. CASE OverBudget(t)
  <2>1. count' = count
    BY <1>2, <1>12, NotesAreMessages DEF OverBudget
  <2>2. /\ pc[t] = "budget" /\ pc'[t] = "forced" /\ stop'[t] = "BudgetCap"
        /\ rounds' = rounds
    BY <1>0, <1>12 DEF OverBudget, Goto
  <2>. QED  BY <1>1, <2>1, <2>2 DEF AnswersFit
<1>13. CASE WithinBudget(t) \/ BudgetUnread(t)
  <2>1. count' = count
    <3>1. \A cond \in BOOLEAN : Notes((IF cond THEN <<Note>> ELSE <<>>) \o CutNote(t))
                                /\ Notes(CutNote(t))
      BY NotesAreMessages DEF CutNote
    <3>. QED  BY <1>2, <1>13, <3>1 DEF WithinBudget, BudgetUnread, SoftNudge
  <2>2. pc[t] = "budget" /\ pc'[t] = "top" /\ rounds' = rounds
    BY <1>0, <1>13 DEF WithinBudget, BudgetUnread, Goto
  <2>. QED  BY <1>1, <2>1, <2>2 DEF AnswersFit
<1>. QED  BY <1>5, <1>6, <1>7, <1>8, <1>9, <1>10, <1>11, <1>12, <1>13 DEF LoopStep

\* What comes after position b does not undo what was answered before it.
LEMMA StillFed ==
  ASSUME NEW m \in Seq(Message), NEW mx \in Seq(Message), NEW b \in 1..(Len(m) + 1),
         Len(m) <= Len(mx), \A i \in 1..Len(m) : mx[i] = m[i],
         FedBefore(m, b),
         b = Len(m) + 1 /\ b \in DOMAIN mx => mx[b].role # "tool"
  PROVE  FedBefore(mx, b)
<1>0. /\ Len(m) \in Nat /\ DOMAIN m = 1..Len(m) /\ \A i \in DOMAIN m : m[i] \in Message
      /\ Len(mx) \in Nat /\ DOMAIN mx = 1..Len(mx) /\ b \in Nat
  BY LenProperties
<1>. SUFFICES ASSUME NEW i \in DOMAIN mx, i < b, mx[i].role = "assistant"
              PROVE  /\ i + mx[i].n < b
                     /\ \A k \in 1..mx[i].n : mx[i + k].role = "tool" /\ mx[i + k].n = k
                     /\ i + mx[i].n + 1 \in DOMAIN mx => mx[i + mx[i].n + 1].role # "tool"
  BY DEF FedBefore
<1>1. i \in 1..Len(m) /\ mx[i] = m[i] /\ m[i].n \in Nat
  BY <1>0 DEF Message
<1>2. /\ i + m[i].n < b
      /\ \A k \in 1..m[i].n : m[i + k].role = "tool" /\ m[i + k].n = k
      /\ i + m[i].n + 1 \in DOMAIN m => m[i + m[i].n + 1].role # "tool"
  BY <1>0, <1>1 DEF FedBefore
<1>3. \A k \in 1..m[i].n : i + k \in 1..Len(m)
  BY <1>0, <1>1, <1>2
<1>4. i + m[i].n + 1 \in 1..Len(m) \/ (i + m[i].n + 1 = Len(m) + 1 /\ b = Len(m) + 1)
  BY <1>0, <1>1, <1>2
<1>5. i + m[i].n + 1 \in DOMAIN mx => mx[i + m[i].n + 1].role # "tool"
  BY <1>0, <1>2, <1>4
<1>. QED  BY <1>1, <1>2, <1>3, <1>5

\* Notes after a conversation in which all is answered.
LEMMA FedWithNotes ==
  ASSUME NEW m \in Seq(Message), NEW x, Notes(x), FedBefore(m, Len(m) + 1)
  PROVE  FedBefore(m \o x, Len(m \o x) + 1)
<1>. DEFINE mx == m \o x
<1>. HIDE DEF mx
<1>1. /\ mx \in Seq(Message)
      /\ Len(m) \in Nat /\ DOMAIN m = 1..Len(m)
      /\ Len(mx) \in Nat /\ Len(m) <= Len(mx) /\ DOMAIN mx = 1..Len(mx)
      /\ \A i \in 1..Len(m) : mx[i] = m[i]
      /\ \A i \in 1..Len(mx) : i > Len(m) => mx[i].role = "system"
  BY NotesMore DEF mx
<1>2. FedBefore(mx, Len(m) + 1)
  BY <1>1, StillFed
<1>3. \A i \in DOMAIN mx : mx[i] \in Message
  BY <1>1, LenProperties
<1>4. FedBefore(mx, Len(mx) + 1)
  <2>. SUFFICES ASSUME NEW i \in DOMAIN mx, mx[i].role = "assistant"
                PROVE  /\ i + mx[i].n < Len(mx) + 1
                       /\ \A k \in 1..mx[i].n : mx[i + k].role = "tool" /\ mx[i + k].n = k
                       /\ i + mx[i].n + 1 \in DOMAIN mx => mx[i + mx[i].n + 1].role # "tool"
    BY DEF FedBefore
  <2>1. i < Len(m) + 1
    BY <1>1
  <2>2. mx[i].n \in Nat
    BY <1>3 DEF Message
  <2>. QED  BY <1>1, <1>2, <2>1, <2>2 DEF FedBefore
<1>. QED  BY <1>4 DEF mx

\* Every step leaves its loop's calls answered, or on the way to it.
LEMMA ResultsStep ==
  ASSUME TypeOK, NEW t \in Tasks, RoundFits(t), ResultsFit(t), LoopStep(t)
  PROVE  ResultsFit(t)'
<1>. USE DEF callVars, answerVars, outcomeVars, ledgerVars
<1>. DEFINE m == messages[t]
            mx == messages'[t]
<1>0. /\ pc \in [Tasks -> LoopPc] /\ messages \in [Tasks -> Seq(Message)]
      /\ m \in Seq(Message) /\ answered[t] \in Nat /\ toolCalls[t] \in Nat
      /\ answered \in [Tasks -> 0..MaxToolCalls]
      /\ toolCalls \in [Tasks -> 0..MaxToolCalls] /\ MaxToolCalls \in Nat
      /\ Len(m) \in Nat /\ DOMAIN m = 1..Len(m)
  BY LoopAssumption, LenProperties DEF TypeOK
<1>1. ASSUME NEW msgs, Notes(msgs), Say(t, msgs),
             pc[t] \in {"idle", "top", "call", "budget", "forced"},
             pc'[t] \in {"top", "call", "forced"}
      PROVE  ResultsFit(t)'
  <2>1. mx = m \o msgs
    BY <1>0, <1>1, NotesAreMessages, Saying
  <2>2. FedBefore(m, Len(m) + 1)
    BY <1>1 DEF ResultsFit
  <2>3. FedBefore(mx, Len(mx) + 1)
    BY <1>0, <1>1, <2>1, <2>2, FedWithNotes
  <2>. QED  BY <1>1, <2>3 DEF ResultsFit
<1>2. CASE Start(t) \/ RetryModel(t) \/ FallBack(t)
  <2>1. /\ UNCHANGED messages /\ pc'[t] \in {"top", "call", "forced"}
        /\ pc[t] \in {"idle", "call", "forced"}
    BY <1>0, <1>2 DEF Start, RetryModel, FallBack, Ask, Goto
  <2>. QED  BY <2>1 DEF ResultsFit
<1>3. CASE ToolPanics(t) \/ GiveUp(t) \/ ForcedAnswer(t)
  <2>1. pc'[t] \in {"panicked", "returned"}
    BY <1>0, <1>3 DEF ToolPanics, GiveUp, ForcedAnswer, Return, Goto
  <2>. QED  BY <2>1 DEF ResultsFit
<1>4. CASE NextRound(t)
  <2>1. pc[t] = "top" /\ pc'[t] \in {"call", "forced"}
    BY <1>0, <1>4 DEF NextRound, Goto
  <2>. QED  BY <1>1, <1>4, <2>1, NotesAreMessages DEF NextRound
<1>5. CASE OverBudget(t)
  <2>1. pc[t] = "budget" /\ pc'[t] = "forced"
    BY <1>0, <1>5 DEF OverBudget, Goto
  <2>. QED  BY <1>1, <1>5, <2>1, NotesAreMessages DEF OverBudget
<1>6. CASE WithinBudget(t) \/ BudgetUnread(t)
  <2>1. pc[t] = "budget" /\ pc'[t] = "top"
    BY <1>0, <1>6 DEF WithinBudget, BudgetUnread, Goto
  <2>2. \A cond \in BOOLEAN : Notes((IF cond THEN <<Note>> ELSE <<>>) \o CutNote(t))
                              /\ Notes(CutNote(t))
    BY NotesAreMessages DEF CutNote
  <2>. QED  BY <1>1, <1>6, <2>1, <2>2 DEF WithinBudget, BudgetUnread, SoftNudge
<1>7. CASE Answer(t)
  <2>1. PICK cost \in Costs, n \in 0..MaxToolCalls, short \in BOOLEAN :
          TakeAnswer(t, cost, n, short)
    BY <1>7 DEF Answer
  <2>2. /\ n \in Nat /\ pc[t] = "call" /\ Say(t, <<Msg("assistant", n)>>)
        /\ toolCalls'[t] = n /\ answered'[t] = 0
    BY <1>0, <2>1 DEF TakeAnswer
  <2>3. pc'[t] \in {"returned", "dispatch"}
    <3>1. \/ Return(t, "ContentOnly")
          \/ pc' = [pc EXCEPT ![t] = "dispatch"]
      BY <2>1 DEF TakeAnswer
    <3>. QED  BY <1>0, <3>1 DEF Return
  <2>4. CASE pc'[t] = "returned"
    BY <2>4 DEF ResultsFit
  <2>5. CASE pc'[t] = "dispatch"
    <3>. DEFINE b == Len(m) + 1
    <3>1. mx = m \o <<Msg("assistant", n)>> /\ Msg("assistant", n) \in Message
      BY <1>0, <2>2, NotesAreMessages, Saying DEF Msg, Message
    <3>2. /\ mx \in Seq(Message) /\ Len(mx) = b /\ DOMAIN mx = 1..b
          /\ \A i \in 1..Len(m) : mx[i] = m[i]
          /\ mx[b] = Msg("assistant", n)
      BY <1>0, <3>1, OneMore
    <3>3. FedBefore(m, b)
      BY <2>2 DEF ResultsFit
    <3>4. mx[b].role # "tool" /\ b \in 1..(Len(m) + 1) /\ Len(m) <= Len(mx)
      BY <1>0, <3>2 DEF Msg
    <3>5. FedBefore(mx, b)
      BY <1>0, <3>2, <3>3, <3>4, StillFed
    <3>6. b \in DOMAIN mx /\ Len(mx) = b + answered'[t] /\ \A k : k \notin 1..answered'[t]
      BY <1>0, <2>2, <3>2
    <3>. QED  BY <2>2, <2>5, <3>2, <3>5, <3>6 DEF ResultsFit
  <2>. QED  BY <2>3, <2>4, <2>5
<1>8. CASE Dispatch(t)
  <2>. DEFINE x == Msg("tool", answered[t] + 1)
  <2>1. /\ pc[t] = "dispatch" /\ answered'[t] = answered[t] + 1 /\ toolCalls' = toolCalls
        /\ Say(t, <<x>>)
        /\ \/ pc'[t] = "budget" /\ answered[t] + 1 = toolCalls[t]
           \/ pc'[t] = "dispatch"
    BY <1>0, <1>8 DEF Dispatch, Goto
  <2>2. PICK b \in DOMAIN m :
          /\ m[b] = Msg("assistant", toolCalls[t])
          /\ Len(m) = b + answered[t]
          /\ FedBefore(m, b)
          /\ \A k \in 1..answered[t] : m[b + k] = Msg("tool", k)
    BY <2>1 DEF ResultsFit
  <2>3. answered[t] + 1 \in Nat /\ x \in Message
    BY <1>0 DEF Msg, Message
  <2>4. mx = m \o <<x>>
    BY <1>0, <2>1, <2>3, NotesAreMessages, Saying
  <2>5. /\ mx \in Seq(Message) /\ Len(mx) = Len(m) + 1 /\ DOMAIN mx = 1..(Len(m) + 1)
        /\ \A i \in 1..Len(m) : mx[i] = m[i]
        /\ mx[Len(m) + 1] = x
    BY <1>0, <2>3, <2>4, OneMore
  <2>. HIDE DEF x, m, mx
  <2>6. b \in 1..Len(m) /\ b \in Nat /\ b \in 1..(Len(m) + 1) /\ b # Len(m) + 1
    BY <1>0
  <2>7. FedBefore(mx, b)
    <3>1. Len(m) <= Len(mx) /\ m \in Seq(Message)
      BY <1>0, <2>5
    <3>. QED  BY <2>2, <2>5, <2>6, <3>1, StillFed
  <2>8. \A k \in 1..(answered[t] + 1) : mx[b + k] = Msg("tool", k)
    <3>. TAKE k \in 1..(answered[t] + 1)
    <3>1. CASE k = answered[t] + 1
      <4>1. b + k = Len(m) + 1
        BY <1>0, <2>2, <2>6, <3>1
      <4>. QED  BY <2>5, <3>1, <4>1 DEF x
    <3>2. CASE k # answered[t] + 1
      <4>1. k \in 1..answered[t] /\ b + k \in 1..Len(m)
        BY <1>0, <2>2, <2>6, <3>2
      <4>. QED  BY <2>2, <2>5, <4>1
    <3>. QED  BY <3>1, <3>2
  <2>9. /\ b \in DOMAIN mx /\ mx[b] = Msg("assistant", toolCalls[t])
        /\ Len(mx) = b + (answered[t] + 1)
    BY <1>0, <2>2, <2>5, <2>6
  <2>10. CASE pc'[t] = "dispatch"
    <3>1. \E c \in DOMAIN mx :
            /\ mx[c] = Msg("assistant", toolCalls'[t])
            /\ Len(mx) = c + answered'[t]
            /\ FedBefore(mx, c)
            /\ \A k \in 1..answered'[t] : mx[c + k] = Msg("tool", k)
      BY <2>1, <2>7, <2>8, <2>9
    <3>. QED  BY <2>10, <3>1 DEF ResultsFit, mx
  <2>11. CASE pc'[t] = "budget" /\ answered[t] + 1 = toolCalls[t]
    <3>1. FedBefore(mx, Len(mx) + 1)
      <4>. SUFFICES ASSUME NEW i \in DOMAIN mx, mx[i].role = "assistant"
                    PROVE  /\ i + mx[i].n < Len(mx) + 1
                           /\ \A k \in 1..mx[i].n : mx[i + k].role = "tool" /\ mx[i + k].n = k
                           /\ i + mx[i].n + 1 \in DOMAIN mx => mx[i + mx[i].n + 1].role # "tool"
        BY DEF FedBefore
      <4>1. i \in 1..(Len(m) + 1) /\ i \in Nat /\ mx[i].n \in Nat
        <5>1. mx[i] \in Message
          BY <2>5, LenProperties
        <5>. QED  BY <1>0, <2>5, <5>1 DEF Message
      <4>2. CASE i < b
        <5>1. /\ i + mx[i].n < b
              /\ \A k \in 1..mx[i].n : mx[i + k].role = "tool" /\ mx[i + k].n = k
              /\ i + mx[i].n + 1 \in DOMAIN mx => mx[i + mx[i].n + 1].role # "tool"
          BY <2>7, <4>2 DEF FedBefore
        <5>2. b < Len(mx) + 1
          BY <1>0, <2>5, <2>6
        <5>3. i + mx[i].n < Len(mx) + 1
          BY <1>0, <2>5, <2>6, <4>1, <5>1, <5>2
        <5>. QED  BY <5>1, <5>3
      <4>3. CASE i = b
        <5>1. mx[i].n = answered[t] + 1
          BY <2>9, <2>11, <4>3 DEF Msg
        <5>2. \A k \in 1..mx[i].n : mx[i + k].role = "tool" /\ mx[i + k].n = k
          <6>1. ASSUME NEW k \in 1..(answered[t] + 1)
                PROVE  mx[b + k].role = "tool" /\ mx[b + k].n = k
            <7>1. mx[b + k] = Msg("tool", k)
              BY <2>8
            <7>. QED  BY <7>1 DEF Msg
          <6>. QED  BY <4>3, <5>1, <6>1
        <5>3. i + mx[i].n = Len(mx)
          BY <2>9, <4>3, <5>1
        <5>4. i + mx[i].n < Len(mx) + 1 /\ i + mx[i].n + 1 \notin DOMAIN mx
          BY <1>0, <2>5, <5>3
        <5>. QED  BY <5>2, <5>4
      <4>4. CASE i > b
        <5>1. i - b \in 1..(answered[t] + 1) /\ b + (i - b) = i
          BY <1>0, <2>2, <2>6, <4>1, <4>4
        <5>2. mx[i] = Msg("tool", i - b)
          BY <2>8, <5>1
        <5>. QED  BY <5>2 DEF Msg
      <4>5. i < b \/ i = b \/ i > b
        BY <2>6, <4>1
      <4>. QED  BY <4>2, <4>3, <4>4, <4>5
    <3>. QED  BY <2>11, <3>1 DEF ResultsFit, mx
  <2>. QED  BY <2>1, <2>10, <2>11
<1>. QED  BY <1>2, <1>3, <1>4, <1>5, <1>6, <1>7, <1>8 DEF LoopStep

-----------------------------------------------------------------------------
\* The invariant holds initially.
LEMMA InitLoop == Init => LoopInv
<1>. SUFFICES ASSUME Init PROVE LoopInv
  OBVIOUS
<1>1. /\ MaxRetries \in Nat \ {0} /\ MaxRounds \in Nat /\ MaxToolCalls \in Nat
      /\ Len(FallbackChain) \in Nat /\ MaxStoreErrors \in Nat
  BY LoopAssumption, BudgetAssumption
<1>2. TypeOK
  BY <1>1, EmptySeq DEF Init, BudgetInit, TypeOK, BudgetTypeOK, LoopPc, StopReason
<1>3. ASSUME NEW t \in Tasks
      PROVE  RequestFits(t) /\ RoundFits(t) /\ AnswersFit(t) /\ ResultsFit(t)
  <2>1. pc[t] = "idle" /\ messages[t] = <<>> /\ stop[t] = "none" /\ rounds[t] = 0
    BY DEF Init
  <2>2. \A i \in Positions : tries[t][ModelAt(i)] = 0
    BY PositionsAreModels DEF Init, Models
  <2>3. TriedUpTo(t, 0, 0) /\ 0 \in Positions /\ 0 \in 0..MaxRetries
    <3>1. \A i \in Positions : ~(i < 0)
      BY PositionsAreModels, <1>1
    <3>. QED  BY <1>1, <2>2, <3>1, PositionsAreModels DEF TriedUpTo
  <2>4. RequestFits(t) /\ RoundFits(t)
    BY <1>1, <2>1, <2>3 DEF RequestFits, RoundFits
  <2>5. Rounds(t) = 0
    <3>1. {i \in DOMAIN messages[t] : messages[t][i].role = "assistant"} = {}
      BY <2>1
    <3>. QED  BY <3>1, FS_EmptySet DEF Rounds
  <2>6. AnswersFit(t) /\ ResultsFit(t)
    BY <1>1, <2>1, <2>5 DEF AnswersFit, ResultsFit, FedBefore
  <2>. QED  BY <2>4, <2>6
<1>. QED  BY <1>2, <1>3 DEF LoopInv

\* Every step keeps it: the loop that moves by the lemmas above, the others
\* because nothing of theirs changes.
LEMMA NextLoop == LoopInv /\ [Next]_vars => LoopInv'
<1>. SUFFICES ASSUME LoopInv, [Next]_vars PROVE LoopInv'
  OBVIOUS
<1>1. CASE \E t \in Tasks : LoopStep(t)
  <2>1. PICK t \in Tasks : LoopStep(t)
    BY <1>1
  <2>2. TypeOK /\ RequestFits(t) /\ RoundFits(t) /\ AnswersFit(t) /\ ResultsFit(t)
    BY DEF LoopInv
  <2>3. TypeOK' /\ RoundFits(t)'
    BY <2>1, <2>2, RoundStep
  <2>4. RequestFits(t)' /\ AnswersFit(t)' /\ ResultsFit(t)'
    BY <2>1, <2>2, RequestStep, AnswersStep, ResultsStep
  <2>5. ASSUME NEW u \in Tasks, u # t
        PROVE  (RequestFits(u) /\ RoundFits(u) /\ AnswersFit(u) /\ ResultsFit(u))'
    <3>1. RequestFits(u) /\ RoundFits(u) /\ AnswersFit(u) /\ ResultsFit(u)
      BY DEF LoopInv
    <3>2. /\ pc'[u] = pc[u] /\ rounds'[u] = rounds[u] /\ at'[u] = at[u]
          /\ attempt'[u] = attempt[u] /\ tries'[u] = tries[u]
          /\ messages'[u] = messages[u] /\ toolCalls'[u] = toolCalls[u]
          /\ answered'[u] = answered[u] /\ stop'[u] = stop[u]
          /\ reported'[u] = reported[u]
      BY <2>1, <2>2, <2>5, OtherLoops
    <3>3. RequestFits(u)'
      BY <3>1, <3>2 DEF RequestFits, TriedUpTo
    <3>4. RoundFits(u)'
      BY <3>1, <3>2 DEF RoundFits
    <3>5. AnswersFit(u)'
      BY <3>1, <3>2 DEF AnswersFit, Rounds
    <3>6. ResultsFit(u)'
      BY <3>1, <3>2 DEF ResultsFit
    <3>. QED  BY <3>3, <3>4, <3>5, <3>6
  <2>. QED  BY <2>3, <2>4, <2>5 DEF LoopInv
<1>2. CASE UNCHANGED vars
  <2>. USE <1>2 DEF vars, callVars, answerVars, outcomeVars, LoopInv
  <2>1. TypeOK'
    BY DEF ledgerVars, TypeOK, BudgetTypeOK
  <2>2. ASSUME NEW t \in Tasks PROVE RequestFits(t)' /\ RoundFits(t)'
    BY DEF RequestFits, TriedUpTo, RoundFits
  <2>3. ASSUME NEW t \in Tasks PROVE AnswersFit(t)'
    BY DEF AnswersFit, Rounds
  <2>4. ASSUME NEW t \in Tasks PROVE ResultsFit(t)'
    BY DEF ResultsFit
  <2>. QED  BY <2>1, <2>2, <2>3, <2>4
<1>. QED  BY <1>1, <1>2 DEF Next, AllOver

\* Where a loop is says what its request has tried, which answers it has had
\* and which results its conversation holds.
THEOREM LoopInvariance == Spec => []LoopInv
<1>1. Init => LoopInv
  BY InitLoop
<1>2. LoopInv /\ [Next]_vars => LoopInv'
  BY NextLoop
<1>. QED  BY <1>1, <1>2, PTL DEF Spec

\* Type correctness of the ledger and the loops, for every number of tasks,
\* every fallback chain and every bound.
THEOREM LoopTypeCorrect == Spec => []TypeOK
<1>1. LoopInv => TypeOK
  BY DEF LoopInv
<1>. QED  BY <1>1, LoopInvariance, PTL

\* No model is called more often than it may be, nor before those configured
\* ahead of it have failed, however the chain repeats itself.
THEOREM ModelsInOrder == Spec => []FallbackInOrder
<1>1. LoopInv => FallbackInOrder
  <2>. SUFFICES ASSUME LoopInv, NEW t \in Tasks
                PROVE  /\ \A m \in Models : tries[t][m] <= MaxRetries
                       /\ \A i, j \in 0..Len(FallbackChain) :
                            (tries[t][ModelAt(j)] > 0
                               /\ \A k \in 0..i : ModelAt(k) # ModelAt(j))
                              => tries[t][ModelAt(i)] = MaxRetries
                       /\ stop[t] = "LlmExhausted" =>
                            \A m \in Models : tries[t][m] = MaxRetries
    BY DEF FallbackInOrder
  <2>1. RequestFits(t)
    BY DEF LoopInv
  <2>2. PICK a \in Positions, n \in 0..MaxRetries : TriedUpTo(t, a, n)
    BY <2>1 DEF RequestFits
  <2>. QED  BY <2>1, <2>2, TriedInOrder DEF RequestFits
<1>. QED  BY <1>1, LoopInvariance, PTL

\* The rounds of an outcome are the answers the model gave, on all four exits,
\* and never more than the cap.
THEOREM OutcomesCountAnswers == Spec => []RoundsAreAnswers
<1>1. LoopInv => RoundsAreAnswers
  <2>. SUFFICES ASSUME LoopInv, NEW t \in Tasks
                PROVE  /\ Rounds(t) <= MaxRounds
                       /\ pc[t] = "returned" => reported[t] = Rounds(t)
    BY DEF RoundsAreAnswers
  <2>. QED  BY DEF LoopInv, AnswersFit
<1>. QED  BY <1>1, LoopInvariance, PTL

\* Whenever a request goes out, every tool call of the conversation has its
\* result, at once after the call and in order.
THEOREM CallsAreAnswered == Spec => []ToolCallsAnswered
<1>1. LoopInv => ToolCallsAnswered
  <2>. SUFFICES ASSUME LoopInv, NEW t \in Tasks, pc[t] \in {"call", "forced"}
                PROVE  LET m == messages[t]
                           Result(i) == i \in DOMAIN m /\ m[i].role = "tool"
                       IN \A i \in DOMAIN m : m[i].role = "assistant" =>
                            /\ \A k \in 1..m[i].n : Result(i + k) /\ m[i + k].n = k
                            /\ ~Result(i + m[i].n + 1)
    BY DEF ToolCallsAnswered
  <2>. DEFINE m == messages[t]
  <2>1. FedBefore(m, Len(m) + 1)
    BY DEF LoopInv, ResultsFit
  <2>2. /\ Len(m) \in Nat /\ DOMAIN m = 1..Len(m)
        /\ \A i \in DOMAIN m : m[i] \in Message
    BY LenProperties DEF LoopInv, TypeOK
  <2>. HIDE DEF m
  <2>3. ASSUME NEW i \in DOMAIN m, m[i].role = "assistant"
        PROVE  /\ \A k \in 1..m[i].n :
                    i + k \in DOMAIN m /\ m[i + k].role = "tool" /\ m[i + k].n = k
               /\ ~(i + m[i].n + 1 \in DOMAIN m /\ m[i + m[i].n + 1].role = "tool")
    <3>1. i \in Nat /\ i >= 1 /\ i < Len(m) + 1 /\ m[i].n \in Nat
      BY <2>2 DEF Message
    <3>2. /\ i + m[i].n < Len(m) + 1
          /\ \A k \in 1..m[i].n : m[i + k].role = "tool" /\ m[i + k].n = k
          /\ i + m[i].n + 1 \in DOMAIN m => m[i + m[i].n + 1].role # "tool"
      BY <2>1, <2>3, <3>1 DEF FedBefore
    <3>3. \A k \in 1..m[i].n : i + k \in DOMAIN m
      BY <2>2, <3>1, <3>2
    <3>. QED  BY <3>2, <3>3
  <2>. QED  BY <2>3 DEF m
<1>. QED  BY <1>1, LoopInvariance, PTL

-----------------------------------------------------------------------------
(* Folds and sums.                                                         *)

\* Induction, on the set of the numbers that something holds of.
LEMMA Inductive ==
  ASSUME NEW P, P \subseteq Nat, 0 \in P, \A n \in Nat : n \in P => n + 1 \in P
  PROVE  P = Nat
<1>. SUFFICES ASSUME Nat \ P # {} PROVE FALSE
  OBVIOUS
<1>1. PICK n \in Nat \ P : \A m \in Nat \ P : n <= m
  <2>1. Nat \ P \subseteq Nat
    OBVIOUS
  <2>. QED  BY <2>1, LeastOf
<1>2. n # 0 /\ n - 1 \in Nat
  BY <1>1
<1>3. n - 1 \in P
  BY <1>1, <1>2
<1>4. (n - 1) + 1 \in P
  BY <1>2, <1>3
<1>. QED  BY <1>1, <1>2, <1>4

\* How MapThenSumSet and FoldLeft add up: g[s] is the sum of w over s, taken in
\* the order in which pick chooses.
Adds(g, S, pick, w) ==
  \A s \in SUBSET S :
    g[s] = IF s = {} THEN 0 ELSE w[pick[s]] + g[s \ {pick[s]}]

Picks(pick, S) == \A s \in SUBSET S : s # {} => pick[s] \in s

\* Taking one element away leaves one less.
LEMMA OneLess ==
  ASSUME NEW S, IsFiniteSet(S), NEW s \in SUBSET S, NEW x \in s
  PROVE  /\ s \ {x} \in SUBSET S
         /\ Cardinality(s) \in Nat /\ Cardinality(s \ {x}) \in Nat
         /\ Cardinality(s) = Cardinality(s \ {x}) + 1
<1>1. IsFiniteSet(s)
  BY FS_Subset
<1>2. IsFiniteSet(s \ {x}) /\ Cardinality(s \ {x}) = Cardinality(s) - 1
  BY <1>1, FS_RemoveElement
<1>. QED  BY <1>1, <1>2, FS_CardinalityType

\* How a fold goes over a finite set: from base, with one element after the
\* other, taken in the order in which pick chooses.
Folds(g, S, pick, base, step) ==
  \A s \in SUBSET S :
    g[s] = IF s = {} THEN base ELSE step[pick[s]][g[s \ {pick[s]}]]

\* There is such a function.
LEMMA FoldExists ==
  ASSUME NEW S, IsFiniteSet(S), NEW pick, Picks(pick, S),
         NEW V, NEW base \in V, NEW step \in [S -> [V -> V]]
  PROVE  \E g \in [SUBSET S -> V] : Folds(g, S, pick, base, step)
<1>. DEFINE Eq(g, s) == g[s] = IF s = {} THEN base ELSE step[pick[s]][g[s \ {pick[s]}]]
            P == {n \in Nat : \E g \in [SUBSET S -> V] :
                    \A s \in SUBSET S : Cardinality(s) <= n => Eq(g, s)}
<1>0. \A s \in SUBSET S : IsFiniteSet(s) /\ Cardinality(s) \in Nat
                          /\ (Cardinality(s) = 0 <=> s = {})
                          /\ Cardinality(s) <= Cardinality(S)
  BY FS_Subset, FS_CardinalityType, FS_EmptySet
<1>1. 0 \in P
  <2>. DEFINE z == [s \in SUBSET S |-> base]
  <2>1. z \in [SUBSET S -> V]
    OBVIOUS
  <2>2. ASSUME NEW s \in SUBSET S, Cardinality(s) <= 0 PROVE Eq(z, s)
    BY <1>0, <2>2
  <2>. QED  BY <2>1, <2>2
<1>2. ASSUME NEW n \in Nat, n \in P
      PROVE  n + 1 \in P
  <2>1. PICK g \in [SUBSET S -> V] :
          \A s \in SUBSET S : Cardinality(s) <= n => Eq(g, s)
    BY <1>2
  <2>. DEFINE h == [s \in SUBSET S |->
                      IF Cardinality(s) = n + 1
                      THEN step[pick[s]][g[s \ {pick[s]}]] ELSE g[s]]
  <2>2. ASSUME NEW s \in SUBSET S, Cardinality(s) <= n + 1
        PROVE  h[s] \in V /\ Eq(h, s)
    <3>1. CASE s = {}
      <4>1. Cardinality(s) <= n /\ Cardinality(s) # n + 1
        BY <1>0, <3>1
      <4>2. Eq(g, s) /\ h[s] = g[s]
        BY <2>1, <4>1
      <4>. QED  BY <3>1, <4>2
    <3>2. CASE s # {}
      <4>1. PICK x \in s : x = pick[s]
        BY <3>2 DEF Picks
      <4>. DEFINE r == s \ {x}
      <4>2. /\ r \in SUBSET S
            /\ Cardinality(s) = Cardinality(r) + 1
            /\ Cardinality(s) \in Nat /\ Cardinality(r) \in Nat
        BY OneLess
      <4>3. h[r] = g[r] /\ g[r] \in V
        BY <2>2, <4>2
      <4>4. h[s] = step[x][g[r]]
        <5>1. CASE Cardinality(s) = n + 1
          BY <4>1, <5>1
        <5>2. CASE Cardinality(s) # n + 1
          <6>1. Cardinality(s) <= n
            BY <2>2, <4>2, <5>2
          <6>. QED  BY <2>1, <3>2, <4>1, <5>2, <6>1
        <5>. QED  BY <5>1, <5>2
      <4>5. h[s] \in V
        BY <4>3, <4>4
      <4>6. h[s] = step[x][h[r]]
        BY <4>3, <4>4
      <4>. HIDE DEF h
      <4>. QED  BY <3>2, <4>1, <4>5, <4>6
    <3>. QED  BY <3>1, <3>2
  <2>3. h \in [SUBSET S -> V]
    <3>1. ASSUME NEW s \in SUBSET S PROVE h[s] \in V
      <4>1. CASE Cardinality(s) <= n + 1
        BY <2>2, <4>1
      <4>2. CASE ~(Cardinality(s) <= n + 1)
        BY <1>0, <4>2
      <4>. QED  BY <4>1, <4>2
    <3>. QED  BY <3>1
  <2>4. \A s \in SUBSET S : Cardinality(s) <= n + 1 => Eq(h, s)
    BY <2>2
  <2>5. n + 1 \in Nat
    OBVIOUS
  <2>. HIDE DEF h
  <2>. QED  BY <2>3, <2>4, <2>5, Zenon
<1>3. P = Nat
  <2>1. P \subseteq Nat
    OBVIOUS
  <2>. HIDE DEF P
  <2>. QED  BY <1>1, <1>2, <2>1, Inductive
<1>4. Cardinality(S) \in P
  BY <1>3, FS_CardinalityType
<1>5. PICK g \in [SUBSET S -> V] :
        \A s \in SUBSET S : Cardinality(s) <= Cardinality(S) => Eq(g, s)
  BY <1>4
<1>6. Folds(g, S, pick, base, step)
  BY <1>0, <1>5 DEF Folds
<1>. QED  BY <1>6

\* Numbers are added up so.
LEMMA SumExists ==
  ASSUME NEW S, IsFiniteSet(S), NEW w \in [S -> Nat], NEW pick, Picks(pick, S)
  PROVE  \E g \in [SUBSET S -> Nat] : Adds(g, S, pick, w)
<1>1. PICK step : step = [x \in S |-> [v \in Nat |-> w[x] + v]]
  OBVIOUS
<1>2. step \in [S -> [Nat -> Nat]]
  BY <1>1
<1>3. PICK g \in [SUBSET S -> Nat] : Folds(g, S, pick, 0, step)
  BY <1>2, FoldExists
<1>4. ASSUME NEW s \in SUBSET S
      PROVE  g[s] = IF s = {} THEN 0 ELSE w[pick[s]] + g[s \ {pick[s]}]
  <2>1. CASE s = {}
    BY <1>3, <2>1 DEF Folds
  <2>2. CASE s # {}
    <3>1. PICK x \in s : x = pick[s]
      BY <2>2 DEF Picks
    <3>2. g[s] = step[x][g[s \ {x}]] /\ g[s \ {x}] \in Nat
      BY <1>3, <2>2, <3>1 DEF Folds
    <3>. QED  BY <1>1, <2>2, <3>1, <3>2
  <2>. QED  BY <2>1, <2>2
<1>. QED  BY <1>4 DEF Adds

\* It is determined: two ways of adding up differ in each set by what they
\* differ in one element of it.
LEMMA SumOfOneMore ==
  ASSUME NEW S, IsFiniteSet(S), NEW w \in [S -> Nat], NEW pick, Picks(pick, S),
         NEW t \in S, NEW c \in Nat, NEW v, NEW g, NEW h,
         \A x \in S : v[x] = w[x] + (IF x = t THEN c ELSE 0),
         Adds(g, S, pick, w), Adds(h, S, pick, v)
  PROVE  \A s \in SUBSET S :
           g[s] \in Nat /\ h[s] = g[s] + (IF t \in s THEN c ELSE 0)
<1>. DEFINE Q(s) == g[s] \in Nat /\ h[s] = g[s] + (IF t \in s THEN c ELSE 0)
            P == {n \in Nat : \A s \in SUBSET S : Cardinality(s) <= n => Q(s)}
<1>0. \A s \in SUBSET S : IsFiniteSet(s) /\ Cardinality(s) \in Nat
                          /\ (Cardinality(s) = 0 <=> s = {})
                          /\ Cardinality(s) <= Cardinality(S)
  BY FS_Subset, FS_CardinalityType, FS_EmptySet
<1>1. Q({})
  <2>1. {} \in SUBSET S
    OBVIOUS
  <2>2. g[{}] = 0 /\ h[{}] = 0
    BY <2>1, Zenon DEF Adds
  <2>. QED  BY <2>2
<1>2. 0 \in P
  BY <1>0, <1>1
<1>3. ASSUME NEW n \in Nat, n \in P, NEW s \in SUBSET S, Cardinality(s) <= n + 1
      PROVE  Q(s)
  <2>1. CASE s = {}
    BY <1>1, <2>1
  <2>2. CASE s # {}
    <3>1. PICK x \in s : x = pick[s]
      BY <2>2 DEF Picks
    <3>. DEFINE r == s \ {x}
    <3>2. /\ r \in SUBSET S
          /\ Cardinality(s) = Cardinality(r) + 1
          /\ Cardinality(s) \in Nat /\ Cardinality(r) \in Nat
      BY OneLess
    <3>3. Q(r)
      BY <1>3, <3>2
    <3>4. g[s] = w[x] + g[r] /\ h[s] = v[x] + h[r]
      BY <2>2, <3>1 DEF Adds
    <3>5. w[x] \in Nat /\ v[x] = w[x] + (IF x = t THEN c ELSE 0)
      BY <3>1
    <3>6. t \in s <=> t \in r \/ x = t
      BY <3>1
    <3>7. t \in r => x # t
      OBVIOUS
    <3>. HIDE DEF r
    <3>. QED  BY <3>3, <3>4, <3>5, <3>6, <3>7
  <2>. QED  BY <2>1, <2>2
<1>4. P = Nat
  <2>1. P \subseteq Nat
    OBVIOUS
  <2>2. \A n \in Nat : n \in P => n + 1 \in P
    BY <1>3
  <2>. HIDE DEF P
  <2>. QED  BY <1>2, <2>1, <2>2, Inductive
<1>5. Cardinality(S) \in P
  BY <1>4, FS_CardinalityType
<1>. QED  BY <1>0, <1>5

-----------------------------------------------------------------------------
(* The books.                                                              *)

Usages  == MapThenSumSet(LAMBDA t : usage[t], Tasks)
AnyTask == [S \in SUBSET Tasks |-> CHOOSE t \in S : TRUE]

\* MapThenSumSet, written as the function it is computed by.
Total(w) ==
  CHOOSE g : g = [S \in SUBSET Tasks |->
                    IF S = {} THEN 0
                    ELSE w[CHOOSE t \in S : TRUE] + g[S \ {CHOOSE t \in S : TRUE}]]

LEMMA UsagesAreATotal == Usages = Total(usage)[Tasks]
BY DEF Usages, MapThenSumSet, MapThenFoldSet, Total

LEMMA TotalAdds ==
  ASSUME NEW w \in [Tasks -> Nat]
  PROVE  Adds(Total(w), Tasks, AnyTask, w) /\ Picks(AnyTask, Tasks)
<1>1. Picks(AnyTask, Tasks)
  BY DEF Picks, AnyTask
<1>2. PICK g \in [SUBSET Tasks -> Nat] : Adds(g, Tasks, AnyTask, w)
  BY <1>1, SumExists, LoopAssumption
<1>. DEFINE Sum(h) == [S \in SUBSET Tasks |->
                         IF S = {} THEN 0
                         ELSE w[CHOOSE t \in S : TRUE] + h[S \ {CHOOSE t \in S : TRUE}]]
<1>3. g = Sum(g)
  BY <1>2 DEF Adds, AnyTask
<1>4. Total(w) = Sum(Total(w))
  <2>1. Total(w) = CHOOSE h : h = Sum(h)
    BY DEF Total
  <2>. HIDE DEF Sum
  <2>2. \E h : h = Sum(h)
    BY <1>3
  <2>3. ASSUME NEW h, h = CHOOSE k : k = Sum(k)
        PROVE  h = Sum(h)
    BY <2>2, <2>3, Zenon
  <2>. QED  BY <2>1, <2>3
<1>5. Adds(Total(w), Tasks, AnyTask, w)
  BY <1>4 DEF Adds, AnyTask
<1>. QED  BY <1>1, <1>5

\* The sum of the usages goes up by what one of them goes up by.
LEMMA OneMoreUsage ==
  ASSUME NEW w \in [Tasks -> Nat], NEW t \in Tasks, NEW c \in Nat
  PROVE  Total([w EXCEPT ![t] = @ + c])[Tasks] = Total(w)[Tasks] + c
<1>. DEFINE v == [w EXCEPT ![t] = @ + c]
<1>1. v \in [Tasks -> Nat]
  OBVIOUS
<1>. HIDE DEF v
<1>2. Adds(Total(w), Tasks, AnyTask, w) /\ Picks(AnyTask, Tasks)
  BY TotalAdds
<1>3. Adds(Total(v), Tasks, AnyTask, v)
  BY <1>1, TotalAdds
<1>4. \A u \in Tasks : v[u] = w[u] + (IF u = t THEN c ELSE 0)
  BY DEF v
<1>5. \A S \in SUBSET Tasks :
        /\ Total(w)[S] \in Nat
        /\ Total(v)[S] = Total(w)[S] + (IF t \in S THEN c ELSE 0)
  <2>1. PICK g, h, pick : g = Total(w) /\ h = Total(v) /\ pick = AnyTask
    OBVIOUS
  <2>2. /\ Adds(g, Tasks, pick, w) /\ Picks(pick, Tasks) /\ IsFiniteSet(Tasks)
        /\ Adds(h, Tasks, pick, v)
    BY <1>2, <1>3, <2>1, LoopAssumption
  <2>3. \A S \in SUBSET Tasks :
          g[S] \in Nat /\ h[S] = g[S] + (IF t \in S THEN c ELSE 0)
    BY <1>4, <2>2, SumOfOneMore
  <2>. QED  BY <2>1, <2>3
<1>. QED  BY <1>5 DEF v

LEMMA NothingSpent ==
  ASSUME NEW w \in [Tasks -> Nat], \A t \in Tasks : w[t] = 0
  PROVE  Total(w)[Tasks] = 0
<1>1. PICK z, h, pick :
        z = [S \in SUBSET Tasks |-> 0] /\ h = Total(w) /\ pick = AnyTask
  OBVIOUS
<1>2. Adds(h, Tasks, pick, w) /\ Picks(pick, Tasks) /\ IsFiniteSet(Tasks)
  BY <1>1, TotalAdds, LoopAssumption
<1>3. Adds(z, Tasks, pick, w)
  BY <1>1, <1>2 DEF Adds, Picks
<1>4. CASE Tasks = {}
  BY <1>1, <1>2, <1>4 DEF Adds
<1>5. CASE Tasks # {}
  <2>1. PICK t \in Tasks : TRUE
    BY <1>5
  <2>2. PICK c \in Nat : c = 0
    OBVIOUS
  <2>3. \A x \in Tasks : w[x] = w[x] + (IF x = t THEN c ELSE 0)
    BY <2>2
  <2>4. \A S \in SUBSET Tasks : z[S] \in Nat /\ h[S] = z[S] + (IF t \in S THEN c ELSE 0)
    BY <1>2, <1>3, <2>3, SumOfOneMore
  <2>. QED  BY <1>1, <2>2, <2>4
<1>. QED  BY <1>4, <1>5

Booked == usage \in [Tasks -> Nat] /\ ledger \in Nat /\ lost \in Nat /\ BooksBalance

LEMMA StepBooked == Booked /\ [Next]_vars => Booked'
<1>. SUFFICES ASSUME Booked, [Next]_vars
              PROVE  Booked'
  OBVIOUS
<1>1. BooksBalance <=> Total(usage)[Tasks] = ledger + lost
  BY UsagesAreATotal DEF Usages, BooksBalance
<1>2. BooksBalance' <=> Total(usage')[Tasks] = ledger' + lost'
  BY DEF BooksBalance, MapThenSumSet, MapThenFoldSet, Total
<1>3. ASSUME NEW t \in Tasks, Answer(t)
      PROVE  Booked'
  <2>1. PICK cost \in Costs :
          usage' = [usage EXCEPT ![t] = @ + cost] /\ RecordUsage(cost)
    BY <1>3 DEF Answer, TakeAnswer
  <2>2. cost \in Nat
    BY LoopAssumption
  <2>3. /\ ledger' \in Nat /\ lost' \in Nat
        /\ ledger' + lost' = ledger + lost + cost
    BY <2>1, <2>2 DEF RecordUsage, Booked
  <2>4. Total(usage')[Tasks] = Total(usage)[Tasks] + cost
    BY <2>1, <2>2, OneMoreUsage DEF Booked
  <2>5. usage' \in [Tasks -> Nat]
    BY <2>1, <2>2 DEF Booked
  <2>. QED  BY <1>1, <1>2, <2>3, <2>4, <2>5 DEF Booked
<1>4. CASE UNCHANGED <<usage, ledger, lost>>
  BY <1>1, <1>2, <1>4 DEF Booked
<1>5. UNCHANGED <<usage, ledger, lost>> \/ \E t \in Tasks : Answer(t)
  BY DEF Next, AllOver, vars, ledgerVars, LoopStep, Start, NextRound, RetryModel,
         FallBack, GiveUp, ForcedAnswer, Dispatch, ToolPanics, OverBudget,
         WithinBudget, BudgetUnread
<1>. QED  BY <1>3, <1>4, <1>5

\* What the tasks have added up for themselves (LoopOutcome.usage) and what the
\* session's ledger tells check_budget are one sum, for any number of tasks and
\* whatever they cost, but for the events whose append failed.
THEOREM BooksAlwaysBalance == Spec => []BooksBalance
<1>1. Init => Booked
  <2>. SUFFICES ASSUME Init PROVE Booked
    OBVIOUS
  <2>1. usage \in [Tasks -> Nat] /\ \A t \in Tasks : usage[t] = 0
    BY DEF Init
  <2>2. Total(usage)[Tasks] = 0
    BY <2>1, NothingSpent
  <2>3. Total(usage)[Tasks] = ledger + lost /\ ledger = 0 /\ lost = 0
    BY <2>2 DEF Init, BudgetInit
  <2>. QED  BY <2>1, <2>3, UsagesAreATotal DEF Booked, BooksBalance, Usages
<1>. QED  BY <1>1, StepBooked, PTL DEF Spec, Booked

-----------------------------------------------------------------------------
(* The loops wind down.                                                    *)

\* Multiplication keeps a distance of one.
LEMMA TimesApart ==
  ASSUME NEW c \in Nat, NEW a \in Nat, NEW b \in Nat, a < b
  PROVE  c * a + c <= c * b
<1>1. c * (a + 1) <= c * b
  BY TimesMonotone
<1>. QED  BY <1>1, TimesSucc

\* A request at position a and attempt n has at least this call left.
LEMMA CallsOfRequest ==
  ASSUME NEW a \in 0..Len(FallbackChain), NEW n \in 1..MaxRetries
  PROVE  /\ MaxRetries * (Len(FallbackChain) + 1 - a) - (n - 1) \in Nat \ {0}
         /\ RequestCalls \in Nat
<1>1. MaxRetries \in Nat \ {0} /\ Len(FallbackChain) \in Nat
  BY LoopAssumption
<1>. DEFINE d == Len(FallbackChain) + 1 - a
<1>2. d \in Nat /\ 0 < d
  BY <1>1
<1>. HIDE DEF d
<1>3. MaxRetries * 0 + MaxRetries <= MaxRetries * d /\ MaxRetries * d \in Nat
  BY <1>1, <1>2, TimesApart, TimesNat
<1>4. MaxRetries * d - (n - 1) \in Nat \ {0}
  BY <1>1, <1>3
<1>5. RequestCalls \in Nat
  BY <1>1, TimesNat DEF RequestCalls
<1>. QED  BY <1>4, <1>5 DEF d

\* The rounds that are left, and the forced answer.
LEMMA RestOfRounds ==
  ASSUME TypeOK, NEW t \in Tasks, rounds[t] <= MaxRounds
  PROVE  /\ Rest(t) \in Nat /\ Rest(t) > RequestCalls
         /\ RoundSteps \in Nat
         /\ rounds'[t] = rounds[t] + 1 /\ rounds[t] < MaxRounds
              => Rest(t)' \in Nat /\ Rest(t) = Rest(t)' + RoundSteps
<1>1. /\ RequestCalls \in Nat /\ MaxToolCalls \in Nat /\ MaxRounds \in Nat
      /\ rounds[t] \in 0..(MaxRounds + 1)
  BY TimesNat, LoopAssumption DEF TypeOK, RequestCalls
<1>2. RoundSteps \in Nat
  BY <1>1 DEF RoundSteps
<1>3. RoundSteps * (MaxRounds - rounds[t]) \in Nat
  BY <1>1, <1>2, TimesNat
<1>4. ASSUME rounds'[t] = rounds[t] + 1, rounds[t] < MaxRounds
      PROVE  Rest(t)' \in Nat /\ Rest(t) = Rest(t)' + RoundSteps
  <2>. DEFINE k == MaxRounds - (rounds[t] + 1)
  <2>1. k \in Nat /\ MaxRounds - rounds[t] = k + 1 /\ MaxRounds - rounds'[t] = k
    BY <1>1, <1>4
  <2>. HIDE DEF k
  <2>2. RoundSteps * (k + 1) = RoundSteps * k + RoundSteps /\ RoundSteps * k \in Nat
    BY <1>2, <2>1, TimesSucc, TimesNat
  <2>3. Rest(t) = RoundSteps * (k + 1) + 1 + RequestCalls
    BY <2>1 DEF Rest
  <2>4. Rest(t)' = RoundSteps * k + 1 + RequestCalls
    BY <2>1 DEF Rest, RoundSteps, RequestCalls
  <2>. QED  BY <1>1, <1>2, <2>2, <2>3, <2>4
<1>. QED  BY <1>1, <1>2, <1>3, <1>4 DEF Rest

\* One attempt, or one model, less.
LEMMA OneCallLess ==
  ASSUME LoopInv, NEW t \in Tasks, RetryModel(t) \/ FallBack(t)
  PROVE  CallsLeft(t)' < CallsLeft(t)
<1>1. /\ MaxRetries \in Nat \ {0} /\ Len(FallbackChain) \in Nat
      /\ at \in [Tasks -> 0..Len(FallbackChain)] /\ attempt \in [Tasks -> 1..MaxRetries]
      /\ at[t] \in Positions
  BY LoopAssumption
  DEF LoopInv, TypeOK, RequestFits, TriedUpTo, RetryModel, FallBack, Ask
<1>2. CASE RetryModel(t)
  <2>1. at'[t] = at[t] /\ attempt'[t] = attempt[t] + 1
    BY <1>1, <1>2 DEF RetryModel
  <2>2. MaxRetries * (Len(FallbackChain) + 1 - at[t]) \in Nat
    BY <1>1, TimesNat
  <2>3. CallsLeft(t)' = MaxRetries * (Len(FallbackChain) + 1 - at[t]) - attempt[t]
    BY <1>1, <2>1 DEF CallsLeft
  <2>. QED  BY <1>1, <2>2, <2>3 DEF CallsLeft
<1>3. CASE FallBack(t)
  <2>. DEFINE b == First(Later(at[t]))
              d == Len(FallbackChain) + 1 - at[t]
              e == Len(FallbackChain) + 1 - b
  <2>1. b \in Later(at[t])
    BY <1>1, <1>3, NextPosition DEF FallBack, Later
  <2>2. at'[t] = b /\ attempt'[t] = 1 /\ attempt[t] = MaxRetries
    BY <1>1, <1>3 DEF FallBack
  <2>3. b \in 0..Len(FallbackChain) /\ b > at[t]
    BY <1>1, <2>1 DEF Later, Positions
  <2>4. d \in Nat /\ e \in Nat /\ e < d
    BY <1>1, <2>3
  <2>5. CallsLeft(t) = MaxRetries * d - (MaxRetries - 1) /\ CallsLeft(t)' = MaxRetries * e
    <3>1. CallsLeft(t) = MaxRetries * d - (attempt[t] - 1)
      BY DEF CallsLeft
    <3>2. CallsLeft(t)' = MaxRetries * e - (1 - 1)
      BY <2>2 DEF CallsLeft
    <3>3. MaxRetries * e \in Nat
      BY <1>1, <2>4, TimesNat
    <3>. QED  BY <2>2, <3>1, <3>2, <3>3
  <2>. HIDE DEF d, e
  <2>6. MaxRetries * e + MaxRetries <= MaxRetries * d /\ MaxRetries * e \in Nat
        /\ MaxRetries * d \in Nat
    BY <1>1, <2>4, TimesApart, TimesNat
  <2>. QED  BY <1>1, <2>5, <2>6
<1>. QED  BY <1>2, <1>3

\* A new request has all its calls.
LEMMA AllCallsLeft ==
  ASSUME TypeOK', TypeOK, NEW t \in Tasks, NewRequest(t)
  PROVE  CallsLeft(t)' = RequestCalls
<1>1. at'[t] = 0 /\ attempt'[t] = 1
  BY DEF NewRequest, TypeOK
<1>2. MaxRetries * (Len(FallbackChain) + 1) \in Nat
  BY LoopAssumption, TimesNat
<1>3. CallsLeft(t)' = MaxRetries * (Len(FallbackChain) + 1 - 0) - (1 - 1)
  BY <1>1 DEF CallsLeft
<1>. QED  BY <1>2, <1>3, LoopAssumption DEF RequestCalls

\* The loop that moves has fewer steps left.
LEMMA OneStepLess ==
  ASSUME LoopInv, LoopInv', NEW t \in Tasks, LoopStep(t)
  PROVE  StepsLeft(t)' \in 0..(StepsLeft(t) - 1)
<1>1. /\ TypeOK /\ TypeOK' /\ RoundFits(t) /\ RoundFits(t)'
      /\ pc \in [Tasks -> LoopPc] /\ MaxToolCalls \in Nat
      /\ toolCalls \in [Tasks -> 0..MaxToolCalls]
      /\ answered \in [Tasks -> 0..MaxToolCalls]
      /\ rounds \in [Tasks -> 0..(MaxRounds + 1)] /\ MaxRounds \in Nat
  BY LoopAssumption DEF LoopInv, TypeOK
<1>2. CallsLeft(t) \in Nat \ {0} /\ RequestCalls \in Nat
  <2>1. at[t] \in 0..Len(FallbackChain) /\ attempt[t] \in 1..MaxRetries
    BY <1>1 DEF TypeOK
  <2>. QED  BY <2>1, CallsOfRequest DEF CallsLeft
<1>3. CallsLeft(t)' \in Nat \ {0}
  <2>1. at'[t] \in 0..Len(FallbackChain) /\ attempt'[t] \in 1..MaxRetries
    BY <1>1 DEF TypeOK
  <2>. QED  BY <2>1, CallsOfRequest DEF CallsLeft
<1>4. rounds[t] <= MaxRounds => Rest(t) \in Nat /\ Rest(t) > RequestCalls
  BY <1>1, RestOfRounds
<1>5. UNCHANGED rounds => Rest(t)' = Rest(t)
  BY DEF Rest, RoundSteps, RequestCalls
<1>6. CASE Start(t)
  <2>1. pc[t] = "idle" /\ pc'[t] = "top" /\ UNCHANGED rounds /\ rounds[t] <= MaxRounds
    BY <1>1, <1>6 DEF Start, Goto, RoundFits
  <2>. QED  BY <1>4, <1>5, <2>1 DEF StepsLeft
<1>7. CASE NextRound(t)
  <2>1. pc[t] = "top" /\ rounds[t] <= MaxRounds /\ CallsLeft(t)' = RequestCalls
        /\ rounds'[t] = rounds[t] + 1
    BY <1>1, <1>7, AllCallsLeft DEF NextRound, Goto, RoundFits
  <2>2. CASE rounds[t] < MaxRounds
    <3>1. pc'[t] = "call" /\ Rest(t) = Rest(t)' + RoundSteps
      BY <1>1, <1>7, <2>1, <2>2, RestOfRounds DEF NextRound, Goto
    <3>2. Rest(t)' \in Nat
      BY <1>1, <2>1, <2>2, RestOfRounds
    <3>3. StepsLeft(t) = Rest(t)
      BY <2>1 DEF StepsLeft
    <3>4. StepsLeft(t)' = RequestCalls + MaxToolCalls + 1 + Rest(t)'
      BY <2>1, <3>1 DEF StepsLeft
    <3>. QED  BY <1>1, <1>2, <3>1, <3>2, <3>3, <3>4 DEF RoundSteps
  <2>3. CASE ~(rounds[t] < MaxRounds)
    <3>1. pc'[t] = "forced"
      BY <1>1, <1>7, <2>3 DEF NextRound, Goto
    <3>. QED  BY <1>2, <1>4, <2>1, <3>1 DEF StepsLeft
  <2>. QED  BY <2>2, <2>3
<1>8. CASE RetryModel(t) \/ FallBack(t)
  <2>1. pc[t] \in {"call", "forced"} /\ pc'[t] = pc[t] /\ UNCHANGED rounds
        /\ (pc[t] = "call" => rounds[t] <= MaxRounds)
    BY <1>1, <1>8 DEF RetryModel, FallBack, Ask, RoundFits
  <2>2. CallsLeft(t)' < CallsLeft(t)
    BY <1>8, OneCallLess
  <2>. QED  BY <1>1, <1>2, <1>3, <1>4, <1>5, <2>1, <2>2 DEF StepsLeft
<1>9. CASE GiveUp(t) \/ ForcedAnswer(t)
  <2>1. pc[t] \in {"call", "forced"} /\ pc'[t] = "returned"
        /\ (pc[t] = "call" => rounds[t] <= MaxRounds)
    BY <1>1, <1>9 DEF GiveUp, ForcedAnswer, Return, Ask, RoundFits
  <2>. QED  BY <1>1, <1>2, <1>4, <2>1 DEF StepsLeft
<1>10. CASE Answer(t)
  <2>1. PICK cost \in Costs, n \in 0..MaxToolCalls, short \in BOOLEAN :
          TakeAnswer(t, cost, n, short)
    BY <1>10 DEF Answer
  <2>2. pc[t] = "call" /\ UNCHANGED rounds /\ rounds[t] <= MaxRounds
        /\ pc'[t] \in {"returned", "dispatch"} /\ toolCalls'[t] = n /\ answered'[t] = 0
    BY <1>1, <2>1 DEF TakeAnswer, Return, RoundFits
  <2>. QED  BY <1>1, <1>2, <1>4, <1>5, <2>2 DEF StepsLeft
<1>11. CASE Dispatch(t)
  <2>1. pc[t] = "dispatch" /\ UNCHANGED <<rounds, toolCalls>> /\ rounds[t] <= MaxRounds
        /\ answered[t] < toolCalls[t] /\ answered'[t] = answered[t] + 1
        /\ pc'[t] = IF answered[t] + 1 = toolCalls[t] THEN "budget" ELSE "dispatch"
    BY <1>1, <1>11 DEF Dispatch, Goto, RoundFits
  <2>. QED  BY <1>1, <1>4, <1>5, <2>1 DEF StepsLeft
<1>12. CASE ToolPanics(t)
  <2>1. pc[t] = "dispatch" /\ pc'[t] = "panicked" /\ rounds[t] <= MaxRounds
        /\ answered[t] < toolCalls[t]
    BY <1>1, <1>12 DEF ToolPanics, Goto, RoundFits
  <2>. QED  BY <1>1, <1>4, <2>1 DEF StepsLeft
<1>13. CASE OverBudget(t)
  <2>1. pc[t] = "budget" /\ pc'[t] = "forced" /\ rounds[t] <= MaxRounds
        /\ CallsLeft(t)' = RequestCalls
    BY <1>1, <1>13, AllCallsLeft DEF OverBudget, Goto, RoundFits
  <2>. QED  BY <1>2, <1>4, <2>1 DEF StepsLeft
<1>14. CASE WithinBudget(t) \/ BudgetUnread(t)
  <2>1. pc[t] = "budget" /\ pc'[t] = "top" /\ UNCHANGED rounds /\ rounds[t] <= MaxRounds
    BY <1>1, <1>14 DEF WithinBudget, BudgetUnread, Goto, RoundFits
  <2>. QED  BY <1>4, <1>5, <2>1 DEF StepsLeft
<1>. QED  BY <1>6, <1>7, <1>8, <1>9, <1>10, <1>11, <1>12, <1>13, <1>14 DEF LoopStep

\* Each step leaves one loop fewer steps and the others as many
\* (LoopsWindDown), for every number of tasks and every bound: a variant of
\* run_tool_loop and of call_with_retry_and_fallback inside it.
THEOREM LoopsAlwaysWindDown == Spec => LoopsWindDown
<1>1. ASSUME LoopInv, LoopInv', [Next]_vars
      PROVE  [\E t \in Tasks :
                /\ StepsLeft(t)' \in 0..(StepsLeft(t) - 1)
                /\ \A u \in Tasks \ {t} : StepsLeft(u)' = StepsLeft(u)]_vars
  <2>1. CASE UNCHANGED vars
    BY <2>1
  <2>2. ASSUME NEW t \in Tasks, LoopStep(t)
        PROVE  /\ StepsLeft(t)' \in 0..(StepsLeft(t) - 1)
               /\ \A u \in Tasks \ {t} : StepsLeft(u)' = StepsLeft(u)
    <3>1. StepsLeft(t)' \in 0..(StepsLeft(t) - 1)
      BY <1>1, <2>2, OneStepLess
    <3>2. ASSUME NEW u \in Tasks \ {t}
          PROVE  StepsLeft(u)' = StepsLeft(u)
      <4>1. /\ pc'[u] = pc[u] /\ rounds'[u] = rounds[u] /\ at'[u] = at[u]
            /\ attempt'[u] = attempt[u] /\ toolCalls'[u] = toolCalls[u]
            /\ answered'[u] = answered[u]
        BY <1>1, <2>2, <3>2, OtherLoops DEF LoopInv
      <4>. QED  BY <4>1 DEF StepsLeft, CallsLeft, Rest, RoundSteps, RequestCalls
    <3>. QED  BY <3>1, <3>2
  <2>. QED  BY <1>1, <2>1, <2>2 DEF Next, AllOver
<1>. QED  BY <1>1, LoopInvariance, PTL DEF Spec, LoopsWindDown
=============================================================================
