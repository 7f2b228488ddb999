------------------------ MODULE ContextPruningProofs ------------------------
(***************************************************************************)
(* For sections of any length and any cap, the unsigned count of           *)
(* build_context never underflows.  Rounding down is superadditive: the    *)
(* estimate of a section and the estimate of the rest never add up to more *)
(* than the estimate of the whole.  Nor does the count run far ahead of    *)
(* the text: one dropped section puts it off by two tokens at most.        *)
(***************************************************************************)
EXTENDS ContextPruning, FiniteSetTheorems, TLAPS

\* Taking a section and its separator out of a text lowers the estimate of the
\* text by no less than the estimate of the section.
LEMMA DropRounding ==
  ASSUME NEW whole \in Nat, NEW bytes \in Nat, bytes + 2 <= whole
  PROVE  Estimate(whole) - Estimate(bytes) >= Estimate(whole - (bytes + 2))
BY DEF Estimate

\* An estimate is a natural number.
LEMMA EstimateNat ==
  ASSUME NEW bytes \in Nat
  PROVE  Estimate(bytes) \in Nat
BY DEF Estimate

\* Typing of the variables that never change, and of the text that is left.
Inputs ==
  /\ len \in [Prunable -> Nat]
  /\ fixed \in Nat
  /\ static \in Nat
  /\ cap \in Nat

\* The inductive invariant.
PruningInv == Inputs /\ kept \subseteq Prunable /\ tokens \in Nat
              /\ next \in 1..(Len(PruneOrder) + 1) /\ NeverUnderestimates

\* The text that is left has a length, and it holds every kept section.
LEMMA JoinedHolds ==
  ASSUME Inputs, kept \subseteq Prunable
  PROVE  /\ Joined \in Nat
         /\ \A k \in kept : len[k] \in Nat /\ len[k] + 2 <= Joined
<1>1. \A k \in Prunable : len[k] \in Nat
  BY DEF Inputs
<1>2. \A k \in Prunable : Piece(k) \in Nat
  BY <1>1 DEF Piece
<1>3. \A k \in kept : Piece(k) = len[k] + 2
  BY DEF Piece
<1>4. fixed \in Nat
  BY DEF Inputs
<1>5. /\ Joined \in Nat
      /\ \A k \in Prunable : Piece(k) <= Joined
  <2>. DEFINE a == Piece("recent_events")
              b == Piece("recent_messages")
              c == Piece("journal")
              d == Piece("scratch")
  <2>1. a \in Nat /\ b \in Nat /\ c \in Nat /\ d \in Nat
    BY <1>2 DEF Prunable
  <2>2. Joined = fixed + a + b + c + d
    BY DEF Joined
  <2>. HIDE DEF a, b, c, d
  <2>3. Joined \in Nat /\ a <= Joined /\ b <= Joined /\ c <= Joined /\ d <= Joined
    BY <2>1, <2>2, <1>4
  <2>. QED  BY <2>3 DEF a, b, c, d, Prunable
<1>. QED  BY <1>1, <1>3, <1>5

\* What a dropped section takes with it.
LEMMA JoinedAfterDrop ==
  ASSUME Inputs, kept \subseteq Prunable, NEW k \in kept,
         kept' = kept \ {k}, UNCHANGED <<len, fixed>>
  PROVE  Joined' = Joined - (len[k] + 2)
<1>1. Piece(k) = len[k] + 2 /\ Piece(k)' = 0
  BY DEF Piece
<1>2. \A j \in Prunable \ {k} : Piece(j)' = Piece(j)
  BY DEF Piece
<1>3. \A j \in Prunable : len[j] \in Nat /\ Piece(j) \in Nat
  BY DEF Inputs, Piece
<1>4. fixed \in Nat /\ fixed' = fixed /\ k \in Prunable
  BY DEF Inputs
<1>5. CASE k = "recent_events"
  BY <1>1, <1>2, <1>3, <1>4, <1>5 DEF Joined, Prunable
<1>6. CASE k = "recent_messages"
  BY <1>1, <1>2, <1>3, <1>4, <1>6 DEF Joined, Prunable
<1>7. CASE k = "journal"
  BY <1>1, <1>2, <1>3, <1>4, <1>7 DEF Joined, Prunable
<1>8. CASE k = "scratch"
  BY <1>1, <1>2, <1>3, <1>4, <1>8 DEF Joined, Prunable
<1>. QED  BY <1>4, <1>5, <1>6, <1>7, <1>8 DEF Prunable

\* The invariant holds when the loop starts.
LEMMA InitPruning == Init => PruningInv
<1>. SUFFICES ASSUME Init PROVE PruningInv
  OBVIOUS
<1>1. Inputs /\ kept \subseteq Prunable
  BY PruningAssumption DEF Init, Inputs
<1>2. tokens = Estimate(Joined) /\ tokens \in Nat
  BY <1>1, JoinedHolds, EstimateNat DEF Init
<1>3. next \in 1..(Len(PruneOrder) + 1)
  BY DEF Init, PruneOrder
<1>. QED  BY <1>1, <1>2, <1>3 DEF PruningInv, NeverUnderestimates

\* Each turn of the loop preserves it.
LEMMA NextPruning ==
  ASSUME PruningInv, [Next]_vars
  PROVE  PruningInv'
<1>1. CASE UNCHANGED vars
  BY <1>1 DEF vars, PruningInv, Inputs, NeverUnderestimates, Estimate, Joined, Piece
<1>2. CASE Prune
  <2>1. /\ UNCHANGED <<len, fixed, static, cap>>
        /\ next' = next + 1
        /\ ~Done
    BY <1>2 DEF Prune
  <2>2. PICK k : Drop(k) \/ Skip(k)
    BY <1>2 DEF Prune
  <2>3. Inputs' /\ Inputs
    BY <2>1 DEF PruningInv, Inputs
  <2>4. next' \in 1..(Len(PruneOrder) + 1)
    BY <2>1 DEF PruningInv, Done, PruneOrder
  <2>5. CASE Skip(k)
    BY <2>1, <2>3, <2>4, <2>5
       DEF Skip, PruningInv, NeverUnderestimates, Estimate, Joined, Piece
  <2>6. CASE Drop(k)
    <3>1. k \in kept /\ kept' = kept \ {k} /\ tokens' = tokens - Estimate(len[k])
      BY <2>6 DEF Drop
    <3>2. /\ Joined \in Nat /\ len[k] \in Nat /\ len[k] + 2 <= Joined
          /\ Joined' = Joined - (len[k] + 2)
      BY <3>1, <2>1, <2>3, JoinedHolds, JoinedAfterDrop DEF PruningInv
    <3>3. Estimate(Joined) - Estimate(len[k]) >= Estimate(Joined - (len[k] + 2))
      BY <3>2, DropRounding
    <3>4. /\ Estimate(Joined) \in Nat /\ Estimate(len[k]) \in Nat
          /\ Estimate(Joined - (len[k] + 2)) \in Nat
      <4>1. Joined - (len[k] + 2) \in Nat
        BY <3>2
      <4>. QED  BY <4>1, <3>2, EstimateNat
    <3>5. tokens' \in Nat /\ tokens' >= Estimate(Joined - (len[k] + 2))
      BY <3>1, <3>3, <3>4 DEF PruningInv, NeverUnderestimates
    <3>6. NeverUnderestimates'
      BY <3>2, <3>5 DEF NeverUnderestimates, Estimate
    <3>. QED  BY <2>3, <2>4, <3>1, <3>5, <3>6 DEF PruningInv
  <2>. QED  BY <2>2, <2>5, <2>6
<1>. QED  BY <1>1, <1>2 DEF Next, Finished

\* PruningInv is an invariant of the pruning loop.
THEOREM PruningInvariance == Spec => []PruningInv
<1>1. Init => PruningInv
  BY InitPruning
<1>2. PruningInv /\ [Next]_vars => PruningInv'
  BY NextPruning
<1>. QED  BY <1>1, <1>2, PTL DEF Spec

\* dynamic_tokens, a usize, is never asked to go below zero, and never below
\* the estimate of the sections that are left, whatever their lengths.
THEOREM PruningNeverUnderflows == Spec => [](TypeOK /\ NeverUnderestimates)
<1>1. PruningInv => TypeOK /\ NeverUnderestimates
  BY DEF PruningInv, Inputs, TypeOK
<1>. QED  BY <1>1, PruningInvariance, PTL

\* Every variable stays in its range.
THEOREM PruningTypeCorrect == Spec => []TypeOK
BY PruningNeverUnderflows, PTL

-----------------------------------------------------------------------------
(* The order of what goes.                                                 *)

\* The loop has come as far as what is dropped, and past what it keeps it
\* does not go.
OrderInv ==
  /\ \A k \in kept : len[k] > 0
  /\ \A i \in 1..Len(PruneOrder) : i < next => PruneOrder[i] \notin kept
  /\ \A i \in 1..Len(PruneOrder) : PruneOrder[i] \in Dropped => i < next
  /\ Unlimited => Dropped = {}
  /\ EstimateDrift

\* The estimate of a text and of a section in it differ from the estimate of
\* the rest by two at most, the separator counted.
LEMMA DropDrift ==
  ASSUME NEW whole \in Nat, NEW bytes \in Nat, bytes + 2 <= whole
  PROVE  Estimate(whole) - Estimate(bytes) <= Estimate(whole - (bytes + 2)) + 2
BY DEF Estimate

\* Sections are named by their places in the order.
LEMMA PlacesOfSections ==
  /\ Len(PruneOrder) = 4
  /\ \A k \in Prunable : \E i \in 1..4 : k = PruneOrder[i]
  /\ \A i, j \in 1..4 : PruneOrder[i] = PruneOrder[j] => i = j
  /\ \A i \in 1..4 : PruneOrder[i] \in Prunable
  /\ IsFiniteSet(Prunable)
<1>1. Len(PruneOrder) = 4
  BY DEF PruneOrder
<1>2. /\ PruneOrder[1] = "recent_events" /\ PruneOrder[2] = "recent_messages"
      /\ PruneOrder[3] = "journal" /\ PruneOrder[4] = "scratch"
  BY DEF PruneOrder
<1>3. \A i \in 1..4 : i = 1 \/ i = 2 \/ i = 3 \/ i = 4
  OBVIOUS
<1>4. \A k \in Prunable : \E i \in 1..4 : k = PruneOrder[i]
  BY <1>2 DEF Prunable
<1>5. /\ \A i, j \in 1..4 : PruneOrder[i] = PruneOrder[j] => i = j
      /\ \A i \in 1..4 : PruneOrder[i] \in Prunable
  BY <1>2, <1>3 DEF Prunable
<1>6. IsFiniteSet(Prunable)
  <2>1. IsFiniteSet({}) /\ \A S, x : IsFiniteSet(S) => IsFiniteSet(S \cup {x})
    BY FS_EmptySet, FS_AddElement
  <2>2. Prunable = ((({} \cup {"recent_events"}) \cup {"recent_messages"})
                     \cup {"journal"}) \cup {"scratch"}
    BY DEF Prunable
  <2>. QED  BY <2>1, <2>2
<1>. QED  BY <1>1, <1>4, <1>5, <1>6

\* The order holds when the loop starts.
LEMMA InitOrder == Init => OrderInv
<1>. SUFFICES ASSUME Init PROVE OrderInv
  OBVIOUS
<1>1. Dropped = {} /\ next = 1 /\ \A k \in kept : len[k] > 0
  BY DEF Init, Dropped
<1>2. Cardinality(Dropped) = 0
  BY <1>1, FS_EmptySet
<1>3. EstimateDrift
  <2>1. tokens = Estimate(Joined) /\ tokens \in Nat
    BY InitPruning DEF Init, PruningInv
  <2>. QED  BY <1>2, <2>1 DEF EstimateDrift
<1>. QED  BY <1>1, <1>3, PlacesOfSections DEF OrderInv

\* Each turn of the loop keeps it.
LEMMA NextOrder ==
  ASSUME PruningInv, OrderInv, [Next]_vars
  PROVE  OrderInv'
<1>1. CASE UNCHANGED vars
  BY <1>1 DEF vars, OrderInv, Dropped, Unlimited, EstimateDrift, Estimate, Joined, Piece
<1>2. CASE Prune
  <2>. DEFINE k == PruneOrder[next]
  <2>1. /\ UNCHANGED <<len, fixed, static, cap>> /\ next' = next + 1
        /\ Drop(k) \/ Skip(k)
        /\ next \in 1..4 /\ ~Unlimited
    BY <1>2, PlacesOfSections DEF Prune, Done, PruningInv
  <2>2. /\ k \in Prunable /\ k \notin kept' /\ kept' \subseteq kept
        /\ Dropped' \subseteq Dropped \cup {k}
    BY <2>1, PlacesOfSections DEF Drop, Skip, Dropped
  <2>. HIDE DEF k
  <2>3. /\ \A j \in kept' : len'[j] > 0
        /\ ~Unlimited'
    BY <2>1, <2>2 DEF OrderInv, Unlimited
  <2>4. ASSUME NEW i \in 1..4, i < next' PROVE PruneOrder[i] \notin kept'
    <3>1. i < next \/ i = next
      BY <2>1, <2>4
    <3>. QED  BY <2>2, <3>1, PlacesOfSections DEF OrderInv, k
  <2>5. ASSUME NEW i \in 1..4, PruneOrder[i] \in Dropped' PROVE i < next'
    <3>1. PruneOrder[i] \in Dropped \/ PruneOrder[i] = PruneOrder[next]
      BY <2>2, <2>5 DEF k
    <3>2. i < next \/ i = next
      BY <2>1, <3>1, PlacesOfSections DEF OrderInv
    <3>. QED  BY <2>1, <3>2
  <2>6. EstimateDrift'
    <3>1. CASE Skip(k)
      BY <2>1, <3>1 DEF Skip, OrderInv, EstimateDrift, Estimate, Joined, Piece, Dropped
    <3>2. CASE Drop(k)
      <4>1. k \in kept /\ kept' = kept \ {k} /\ tokens' = tokens - Estimate(len[k])
        BY <3>2 DEF Drop
      <4>2. /\ Joined \in Nat /\ len[k] \in Nat /\ len[k] + 2 <= Joined
            /\ Joined' = Joined - (len[k] + 2)
        BY <2>1, <4>1, JoinedHolds, JoinedAfterDrop DEF PruningInv
      <4>3. Estimate(Joined) - Estimate(len[k]) <= Estimate(Joined') + 2
        BY <4>2, DropDrift
      <4>4. k \notin Dropped /\ Dropped' = Dropped \cup {k}
        BY <2>1, <2>2, <4>1 DEF Dropped, OrderInv
      <4>5. IsFiniteSet(Dropped)
        <5>1. Dropped \in SUBSET Prunable
          BY DEF Dropped
        <5>. QED  BY <5>1, PlacesOfSections, FS_Subset
      <4>6. /\ Cardinality(Dropped') = Cardinality(Dropped) + 1
            /\ Cardinality(Dropped) \in Nat
        BY <4>4, <4>5, FS_AddElement, FS_CardinalityType
      <4>7. /\ tokens \in Nat /\ Estimate(Joined) \in Nat /\ Estimate(len[k]) \in Nat
            /\ Estimate(Joined') \in Nat
        <5>1. Joined - (len[k] + 2) \in Nat
          BY <4>2
        <5>. QED  BY <4>2, <5>1, EstimateNat DEF PruningInv
      <4>8. tokens <= Estimate(Joined) + 2 * Cardinality(Dropped)
        BY DEF OrderInv, EstimateDrift
      <4>. DEFINE e == Estimate(Joined')
                  d == Cardinality(Dropped')
      <4>. HIDE DEF e, d
      <4>9. tokens' <= e + 2 * d
        BY <4>1, <4>3, <4>6, <4>7, <4>8 DEF e, d
      <4>10. EstimateDrift' <=> tokens' <= e + 2 * d
        BY DEF EstimateDrift, Estimate, e, d
      <4>. QED  BY <4>9, <4>10
    <3>. QED  BY <2>1, <3>1, <3>2
  <2>. QED  BY <2>3, <2>4, <2>5, <2>6, PlacesOfSections DEF OrderInv
<1>. QED  BY <1>1, <1>2 DEF Next, Finished

\* OrderInv is an invariant of the pruning loop.
THEOREM OrderInvariance == Spec => [](PruningInv /\ OrderInv)
<1>1. Init => PruningInv /\ OrderInv
  BY InitPruning, InitOrder
<1>2. PruningInv /\ OrderInv /\ [Next]_vars => (PruningInv /\ OrderInv)'
  BY NextPruning, NextOrder
<1>. QED  BY <1>1, <1>2, PTL DEF Spec

\* The count is ahead of the text that is left by two tokens at most for each
\* section dropped.
THEOREM DriftIsBounded == Spec => []EstimateDrift
<1>1. OrderInv => EstimateDrift
  BY DEF OrderInv
<1>. QED  BY <1>1, OrderInvariance, PTL

\* A capped prompt ends under its cap, or with nothing left to drop.
THEOREM EndsUnderTheCap == Spec => []FitsOrNothingLeft
<1>1. PruningInv /\ OrderInv => FitsOrNothingLeft
  <2>. SUFFICES ASSUME PruningInv, OrderInv, Done, ~Unlimited
                PROVE  static + Estimate(Joined) <= cap \/ kept = {}
    BY DEF FitsOrNothingLeft
  <2>1. CASE Fits
    <3>1. /\ static \in Nat /\ cap \in Nat /\ tokens \in Nat /\ tokens >= Estimate(Joined)
          /\ static + tokens <= cap
      BY <2>1 DEF PruningInv, Inputs, NeverUnderestimates, Fits
    <3>2. Estimate(Joined) \in Nat
      BY JoinedHolds, EstimateNat DEF PruningInv
    <3>. QED  BY <3>1, <3>2
  <2>2. CASE next > Len(PruneOrder)
    <3>1. \A i \in 1..4 : PruneOrder[i] \notin kept
      BY <2>2, PlacesOfSections DEF OrderInv, PruningInv
    <3>. QED  BY <3>1, PlacesOfSections DEF PruningInv
  <2>. QED  BY <2>1, <2>2 DEF Done
<1>. QED  BY <1>1, OrderInvariance, PTL

\* No section goes before one that comes earlier in prune_order.
THEOREM DropsInOrder == Spec => []LeastImportantFirst
<1>1. PruningInv /\ OrderInv => LeastImportantFirst
  <2>. SUFFICES ASSUME PruningInv, OrderInv,
                       NEW i \in 1..Len(PruneOrder), NEW j \in 1..Len(PruneOrder),
                       i < j, PruneOrder[j] \in Dropped
                PROVE  PruneOrder[i] \notin kept
    BY DEF LeastImportantFirst, OrderInv
  <2>1. j < next
    BY DEF OrderInv
  <2>2. i < next
    BY <2>1, PlacesOfSections DEF PruningInv
  <2>. QED  BY <2>2 DEF OrderInv
<1>. QED  BY <1>1, OrderInvariance, PTL
=============================================================================
