--------------------------- MODULE GovernanceProofs ---------------------------
(***************************************************************************)
(* For any number of processes, texts and edits: every session runs on a   *)
(* charter that was on record, and a verdict is right as long as nobody    *)
(* else interferes.                                                        *)
(*                                                                         *)
(* The argument is GovInv.  From its hashing to its verdict a boot whose   *)
(* file is still the same holds the hash of that file (disk), and a boot   *)
(* that found no row still finds none while the row is quiet.  The row     *)
(* only ever holds what is in pinned, so a verdict by comparison, like a   *)
(* first boot's own write, leaves disk in pinned, which only grows.        *)
(***************************************************************************)
EXTENDS Governance, TLAPS

\* The hash a process holds is the file's while the file is the same.
HoldsHash(p) ==
  pc[p] \in {"compare", "baseline", "up", "context", "refused"} /\ still[p]
    => IF charter = Missing THEN disk[p] = None ELSE disk[p] = Hash(charter)

\* What else is so of a process on its way to a verdict or an approval.
OnTheWay(p) ==
  /\ HoldsHash(p)
  /\ pc[p] \in {"exists", "hash"} => disk[p] = None
  /\ pc[p] \in {"hash", "compare", "baseline"} /\ still[p] => charter # Missing
  /\ pc[p] \in {"shown", "confirmed", "approved"} /\ still[p] =>
       charter # Missing /\ shown[p] = Hash(charter)
  /\ pc[p] \in {"confirmed", "approved"} /\ still[p] => disk[p] = shown[p]

GovInv ==
  /\ TypeOK
  /\ record # None => record \in pinned
  /\ SessionsRunOnRecord
  /\ ShownIsRecorded
  /\ VerdictsAreCurrent
  /\ \A p \in Processes : OnTheWay(p)

-----------------------------------------------------------------------------
\* The hash of a file that is there is a hash, and no hash is None.
LEMMA HashesAreHashes ==
  /\ \A text \in Texts : Hash(text) \in Hashes
  /\ None \notin Hashes
  BY NoneAssumption DEF Hashes

\* Before any process runs nothing is on its way.
LEMMA GovInit == Init => GovInv
  BY CharterAssumption, HashesAreHashes
  DEF Init, NoPrompt, TypeOK, Places, Sessions, SessionsRunOnRecord, ShownIsRecorded, VerdictsAreCurrent, HoldsHash, OnTheWay, GovInv

\* A process keeps the invariant whatever it does.
LEMMA GovStep ==
  ASSUME GovInv, NEW p \in Processes, Step(p)
  PROVE  GovInv'
  <1> USE CharterAssumption, HashesAreHashes
  <1> USE DEF GovInv, TypeOK, Places, Sessions, SessionsRunOnRecord, ShownIsRecorded,
              VerdictsAreCurrent, HoldsHash, OnTheWay, locals, history
  <1>1. CASE Boot(p)
    BY <1>1 DEF Boot, Start, Goto, NoPrompt, history
  <1>2. CASE Approve(p)
    BY <1>2 DEF Approve, Start, Goto, NoPrompt, history
  <1>3. CASE Exists(p)
    BY <1>3 DEF Exists, Goto
  <1>4. CASE HashOnDisk(p)
    BY <1>4 DEF HashOnDisk, HashFile, Goto
  <1>5. CASE CheckCharter(p)
    BY <1>5 DEF CheckCharter, Verdict, KvGet, Goto
  <1>6. CASE FirstBoot(p)
    BY <1>6 DEF FirstBoot, KvSet, Goto
  <1>7. CASE ReadCharter(p)
    BY <1>7 DEF ReadCharter, Goto
  <1>8. CASE HealthLine(p)
    BY <1>8 DEF HealthLine, Goto
  <1>9. CASE Show(p)
    BY <1>9 DEF Show, Goto
  <1>10. CASE Confirm(p)
    BY <1>10 DEF Confirm, HashFile, Goto
  <1>11. CASE ApproveCurrent(p)
    BY <1>11 DEF ApproveCurrent, KvSet, Goto
  <1>12. CASE Leave(p)
    BY <1>12 DEF Leave
  <1> QED
    BY <1>1, <1>2, <1>3, <1>4, <1>5, <1>6, <1>7, <1>8, <1>9, <1>10, <1>11, <1>12 DEF Step

\* The owner's edit leaves the row alone, and no process's file is still the same.
LEMMA GovEdit ==
  ASSUME GovInv, Edit
  PROVE  GovInv'
  BY CharterAssumption, HashesAreHashes
  DEF Edit, locals, TypeOK, Places, Sessions, SessionsRunOnRecord, ShownIsRecorded, VerdictsAreCurrent, HoldsHash, OnTheWay, GovInv

\* The invariant holds in every state of every execution.
THEOREM GovInvariance == Spec => []GovInv
  <1>1. Init => GovInv
    BY GovInit
  <1>2. GovInv /\ [Next]_vars => GovInv'
    <2> SUFFICES ASSUME GovInv, [Next]_vars
                 PROVE  GovInv'
      OBVIOUS
    <2>1. CASE Edit
      BY <2>1, GovEdit
    <2>2. ASSUME NEW p \in Processes, Step(p)
          PROVE  GovInv'
      BY <2>2, GovStep
    <2>3. CASE UNCHANGED vars
      BY <2>3 DEF vars, locals, history, TypeOK, Places, Sessions, SessionsRunOnRecord, ShownIsRecorded, VerdictsAreCurrent, HoldsHash, OnTheWay, GovInv
    <2> QED
      BY <2>1, <2>2, <2>3 DEF Next
  <1> QED
    BY <1>1, <1>2, PTL DEF Spec

\* Every variable of the processes, the row and the file stays in its range.
THEOREM GovernanceTypesCorrect == Spec => []TypeOK
  BY GovInvariance, PTL DEF GovInv

\* Whatever the interleaving of boots, approvals and edits, a session that has
\* found a charter runs only on one that was on record (Runtime::open's check).
THEOREM SessionsOnRecord == Spec => []SessionsRunOnRecord
  BY GovInvariance, PTL DEF GovInv

\* No other process's write and no edit meanwhile: the verdict of governance.rs
\* on the charter is the right one.
THEOREM VerdictsCorrect == Spec => []VerdictsAreCurrent
  BY GovInvariance, PTL DEF GovInv

\* `charter approve` puts on record the hash it has shown, unless the file was
\* edited in between.
THEOREM ApprovalsRecordShown == Spec => []ShownIsRecorded
  BY GovInvariance, PTL DEF GovInv
=============================================================================
