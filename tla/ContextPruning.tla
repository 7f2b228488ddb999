--------------------------- MODULE ContextPruning ---------------------------
(***************************************************************************)
(* How build_context (crates/core/src/context.rs) fits a task's system     *)
(* prompt under the soft token cap: it drops dynamic sections in a fixed   *)
(* order until its running estimate fits.  Tokens are estimated as bytes   *)
(* divided by four, rounded down, once for the joined text and once for    *)
(* each dropped section, in unsigned arithmetic; so the running estimate   *)
(* and the text that is left drift apart by rounding and by separators.    *)
(*                                                                         *)
(* A section is its length in bytes, 0 when it is absent; what it says is  *)
(* left out.  kv_snapshot and runtime are always there, and prune_order    *)
(* has neither of them, nor health.                                        *)
(***************************************************************************)
EXTENDS Integers, Sequences, FiniteSets

CONSTANTS
  Lengths,       \* what a section that may be dropped may measure
  FixedLengths,  \* what the sections that are never dropped may add up to
  StaticTokens,  \* estimates of the two static blocks together
  SoftCaps       \* context_soft_cap_tokens; 0 is no cap

ASSUME PruningAssumption ==
  /\ Lengths \subseteq Nat
  /\ FixedLengths \subseteq Nat
  /\ StaticTokens \subseteq Nat
  /\ SoftCaps \subseteq Nat

PruneOrder == <<"recent_events", "recent_messages", "journal", "scratch">>
Prunable   == {"recent_events", "recent_messages", "journal", "scratch"}

VARIABLES
  len,     \* the length of each section that may be dropped
  fixed,   \* the others, joined
  static,
  cap,
  kept,    \* the sections of current_dynamic that may be dropped
  tokens,  \* dynamic_tokens
  next     \* the position in PruneOrder the loop is at

vars == <<len, fixed, static, cap, kept, tokens, next>>

Estimate_Up(bytes) == (bytes + 3) \div 4
Estimate(bytes) == bytes \div 4

\* The joined text: a section that follows another comes after a blank line.
Piece(k) == IF k \in kept THEN len[k] + 2 ELSE 0
Joined ==
  fixed + Piece("recent_events") + Piece("recent_messages")
        + Piece("journal") + Piece("scratch")

Init ==
  /\ len \in [Prunable -> Lengths]
  /\ fixed \in FixedLengths
  /\ static \in StaticTokens
  /\ cap \in SoftCaps
  /\ kept = {k \in Prunable : len[k] > 0}
  /\ tokens = Estimate(Joined)
  /\ next = 1

Unlimited == cap = 0
Fits      == static + tokens <= cap
Done      == Unlimited \/ Fits \/ next > Len(PruneOrder)

Drop_CountsSeparator(k) ==
  /\ k \in kept
  /\ kept' = kept \ {k}
  /\ tokens' = tokens - (Estimate(len[k]) + 1)
Drop_KeepsCount(k) ==
  /\ k \in kept
  /\ kept' = kept \ {k}
  /\ UNCHANGED tokens
Drop(k) ==
  /\ k \in kept
  /\ kept' = kept \ {k}
  /\ tokens' = tokens - Estimate(len[k])

Skip(k) ==
  /\ k \notin kept
  /\ UNCHANGED <<kept, tokens>>

\* One turn of the loop over prune_order.
Prune_Backwards ==
  /\ ~Done
  /\ LET k == PruneOrder[Len(PruneOrder) + 1 - next] IN Drop(k) \/ Skip(k)
  /\ next' = next + 1
  /\ UNCHANGED <<len, fixed, static, cap>>
Prune_Once ==
  /\ ~Done
  /\ LET k == PruneOrder[next] IN Drop(k) \/ Skip(k)
  /\ next' = Len(PruneOrder) + 1
  /\ UNCHANGED <<len, fixed, static, cap>>
Prune ==
  /\ ~Done
  /\ LET k == PruneOrder[next] IN Drop(k) \/ Skip(k)
  /\ next' = next + 1
  /\ UNCHANGED <<len, fixed, static, cap>>

Finished == Done /\ UNCHANGED vars

Next == Prune \/ Finished

Spec == Init /\ [][Next]_vars

-----------------------------------------------------------------------------
Dropped == {k \in Prunable : len[k] > 0} \ kept

\* Every variable stays in its range; dynamic_tokens is unsigned.
TypeOK ==
  /\ len \in [Prunable -> Nat]
  /\ fixed \in Nat
  /\ static \in Nat
  /\ cap \in Nat
  /\ kept \subseteq Prunable
  /\ tokens \in Nat
  /\ next \in 1..(Len(PruneOrder) + 1)

\* The loop subtracts estimates that were rounded one by one from one that was
\* rounded once: its count never falls below the estimate of the text that is
\* left, so it does not underflow, and a prompt that fits by it really fits.
NeverUnderestimates == tokens >= Estimate(Joined)

\* And it does not exceed it by more than two tokens for each dropped section,
\* so that hardly more is dropped than must be.
EstimateDrift ==
  tokens <= Estimate(Joined) + 2 * Cardinality(Dropped)

\* When the loop ends with a cap, the prompt is under it or nothing of
\* prune_order is left.  The list is the code's (context.rs:151), without the
\* runtime section that its comment (context.rs:150) and SYSTEM_SPEC.md:651 have
\* at the end: a prompt over the cap keeps that one, against what they say.
FitsOrNothingLeft ==
  Done /\ ~Unlimited => static + Estimate(Joined) <= cap \/ kept = {}

\* What goes, goes in order: no section is dropped while one that comes before
\* it in prune_order is kept, and none at all without a cap.
LeastImportantFirst ==
  /\ Unlimited => Dropped = {}
  /\ \A i, j \in 1..Len(PruneOrder) :
       i < j /\ PruneOrder[j] \in Dropped => PruneOrder[i] \notin kept
=============================================================================
