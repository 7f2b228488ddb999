----------------------------- MODULE Governance -----------------------------
(***************************************************************************)
(* The pinned charter (crates/core/src/governance.rs, runtime.rs, the      *)
(* charter subcommand of main.rs, kv.rs): what several processes on one    *)
(* data directory make of a file that its owner may edit at any time.  A   *)
(* process is a chat that boots, or a `charter approve`; each reads the    *)
(* file and the kv row in separate steps, and writes the row in another.   *)
(***************************************************************************)
EXTENDS Naturals

CONSTANTS
  Processes,
  Texts,      \* what a charter may say
  Missing,    \* no charter file
  None,       \* no charter_hash row
  MaxRuns,    \* bound: processes started
  MaxEdits    \* bound: edits of the file

ASSUME CharterAssumption ==
  /\ Missing \notin Texts
  /\ MaxRuns \in Nat /\ MaxEdits \in Nat

\* SHA-256 in hex: different texts have different ones.
Hash(text) == <<"sha256", text>>
Hashes     == {Hash(text) : text \in Texts}

ASSUME NoneAssumption == None \notin Hashes

VARIABLES
  charter,   \* the file
  record,    \* kv['charter_hash']
  pc,        \* where each process is
  disk,      \* the hash a process has made of the file last
  shown,     \* the hash `charter approve` has printed
  onRecord,  \* the row as a booting process has read it
  prompt,    \* what the system message of a task says
  runs,
  edits,
  pinned,    \* every hash the row has ever held (history)
  still,     \* the file is as it was when the process started (history)
  quiet      \* so is the row, up to the process's own write (history)

locals  == <<disk, shown, onRecord, prompt>>
history == <<pinned, still, quiet>>
vars    == <<charter, record, pc, locals, runs, edits, history>>

\* Whatever a task's system message says: the charter, and the line on it
\* among the health invariants.
NoPrompt == [text |-> Missing, health |-> None]

Init ==
  /\ charter \in Texts \cup {Missing}
  /\ record = None
  /\ pc = [p \in Processes |-> "out"]
  /\ disk = [p \in Processes |-> None]
  /\ shown = [p \in Processes |-> None]
  /\ onRecord = [p \in Processes |-> None]
  /\ prompt = [p \in Processes |-> NoPrompt]
  /\ runs = 0
  /\ edits = 0
  /\ pinned = {}
  /\ still = [p \in Processes |-> TRUE]
  /\ quiet = [p \in Processes |-> TRUE]

Goto(p, from, to) ==
  /\ pc[p] = from
  /\ pc' = [pc EXCEPT ![p] = to]

\* kv::get and kv::set, each one statement behind the store's mutex.
KvGet(p) == onRecord' = [onRecord EXCEPT ![p] = record]
KvSet_IfAbsent(p, hash) ==
  LET kept == IF record = None THEN hash ELSE record IN
  /\ record' = kept
  /\ pinned' = pinned \cup {kept}
  /\ quiet' = [q \in Processes |-> quiet[q] /\ (q = p \/ kept = record)]
KvSet(p, hash) ==
  /\ record' = hash
  /\ pinned' = pinned \cup {hash}
  /\ quiet' = [q \in Processes |-> quiet[q] /\ (q = p \/ hash = record)]

\* hash_file, which fails if the file has gone.
HashFile_EmptyIfMissing(p) ==
  disk' = [disk EXCEPT ![p] = IF charter = Missing THEN Missing ELSE Hash(charter)]
HashFile(p) ==
  /\ charter # Missing
  /\ disk' = [disk EXCEPT ![p] = Hash(charter)]

-----------------------------------------------------------------------------
(* Runtime::open.                                                          *)

\* Store::open makes the schema if there is none, and is the same for both.
Start(p, first) ==
  /\ runs < MaxRuns
  /\ runs' = runs + 1
  /\ Goto(p, "out", first)
  /\ disk' = [disk EXCEPT ![p] = None]
  /\ shown' = [shown EXCEPT ![p] = None]
  /\ onRecord' = [onRecord EXCEPT ![p] = None]
  /\ prompt' = [prompt EXCEPT ![p] = NoPrompt]
  /\ still' = [still EXCEPT ![p] = TRUE]
  /\ quiet' = [quiet EXCEPT ![p] = TRUE]
  /\ UNCHANGED <<charter, record, edits, pinned>>

\* session_started is on record before the charter is looked at.
Boot(p)    == Start(p, "exists")
Approve(p) == Start(p, "approve")

\* Without a charter file there is nothing to check and the session is up.
Exists(p) ==
  /\ Goto(p, "exists", IF charter = Missing THEN "up" ELSE "hash")
  /\ UNCHANGED <<charter, record, locals, runs, edits, history>>

HashOnDisk(p) ==
  /\ Goto(p, "hash", "compare")
  /\ HashFile(p)
  /\ UNCHANGED <<charter, record, shown, onRecord, prompt, runs, edits, history>>

Verdict_DriftWarns(p) ==
  IF record = None THEN "baseline" ELSE "up"
Verdict(p) ==
  IF record = None THEN "baseline"
  ELSE IF record = disk[p] THEN "up" ELSE "refused"

CheckCharter(p) ==
  /\ Goto(p, "compare", Verdict(p))
  /\ KvGet(p)
  /\ UNCHANGED <<charter, record, disk, shown, prompt, runs, edits, history>>

\* First boot: the row is written whatever another process wrote meanwhile.
FirstBoot_BestEffort(p) ==
  /\ Goto(p, "baseline", "up")
  /\ \/ KvSet(p, disk[p])
     \/ UNCHANGED <<record, pinned, quiet>>
  /\ UNCHANGED <<charter, locals, runs, edits, still>>
FirstBoot(p) ==
  /\ Goto(p, "baseline", "up")
  /\ KvSet(p, disk[p])
  /\ UNCHANGED <<charter, locals, runs, edits, still>>

-----------------------------------------------------------------------------
(* The context of a task in a session that is up.                          *)

\* The first block is the file as it is now.
ReadCharter(p) ==
  /\ Goto(p, "up", "context")
  /\ prompt' = [prompt EXCEPT ![p] = [text |-> charter, health |-> None]]
  /\ UNCHANGED <<charter, record, disk, shown, onRecord, runs, edits, history>>

\* The health line is the row as it is now, compared with nothing.
HealthLine(p) ==
  /\ Goto(p, "context", "up")
  /\ prompt' = [prompt EXCEPT ![p].health = record]
  /\ UNCHANGED <<charter, record, disk, shown, onRecord, runs, edits, history>>

-----------------------------------------------------------------------------
(* charter approve.                                                        *)

\* The hash on the terminal; a missing file ends the command.
Show(p) ==
  /\ Goto(p, "approve", "shown")
  /\ charter # Missing
  /\ shown' = [shown EXCEPT ![p] = Hash(charter)]
  /\ still' = [still EXCEPT ![p] = TRUE]
  /\ UNCHANGED <<charter, record, disk, onRecord, prompt, runs, edits, pinned, quiet>>

\* The owner has typed `approve`: the file is hashed once more.
Confirm(p) ==
  /\ Goto(p, "shown", "confirmed")
  /\ HashFile(p)
  /\ UNCHANGED <<charter, record, shown, onRecord, prompt, runs, edits, history>>

ApproveCurrent(p) ==
  /\ Goto(p, "confirmed", "approved")
  /\ KvSet(p, disk[p])
  /\ UNCHANGED <<charter, locals, runs, edits, still>>

-----------------------------------------------------------------------------
\* An error of the file system or of the store, another answer than `approve`,
\* the end of the command or of the session, or the death of the process.
Leave(p) ==
  /\ pc[p] # "out"
  /\ pc' = [pc EXCEPT ![p] = "out"]
  /\ UNCHANGED <<charter, record, locals, runs, edits, history>>

\* The owner edits, removes or restores the charter, by hand or by git.
Edit ==
  /\ edits < MaxEdits
  /\ edits' = edits + 1
  /\ \E text \in (Texts \cup {Missing}) \ {charter} : charter' = text
  /\ still' = [p \in Processes |-> FALSE]
  /\ UNCHANGED <<record, pc, locals, runs, pinned, quiet>>

Step(p) ==
  \/ Boot(p)
  \/ Approve(p)
  \/ Exists(p)
  \/ HashOnDisk(p)
  \/ CheckCharter(p)
  \/ FirstBoot(p)
  \/ ReadCharter(p)
  \/ HealthLine(p)
  \/ Show(p)
  \/ Confirm(p)
  \/ ApproveCurrent(p)
  \/ Leave(p)

Next == Edit \/ \E p \in Processes : Step(p)

Spec == Init /\ [][Next]_vars

-----------------------------------------------------------------------------
(* Properties.                                                             *)

Places == {"out", "exists", "hash", "compare", "baseline", "up", "refused",
           "context", "approve", "shown", "confirmed", "approved"}

\* Every variable stays in its range; what is to be compared or written is a
\* hash, and the row goes from none to hashes: the type invariant.
TypeOK ==
  /\ charter \in Texts \cup {Missing}
  /\ record \in Hashes \cup {None}
  /\ pc \in [Processes -> Places]
  /\ disk \in [Processes -> Hashes \cup {None}]
  /\ shown \in [Processes -> Hashes \cup {None}]
  /\ onRecord \in [Processes -> Hashes \cup {None}]
  /\ prompt \in [Processes -> [text : Texts \cup {Missing},
                               health : Hashes \cup {None}]]
  /\ runs \in 0..MaxRuns
  /\ edits \in 0..MaxEdits
  /\ pinned \in SUBSET Hashes
  /\ still \in [Processes -> BOOLEAN]
  /\ quiet \in [Processes -> BOOLEAN]
  /\ \A p \in Processes :
       pc[p] \in {"compare", "baseline", "confirmed", "approved"} => disk[p] \in Hashes

Sessions == {p \in Processes : pc[p] \in {"up", "context"}}

\* A session that has found a charter runs only if the charter it has hashed was
\* on record at some time, however the boots and approvals of several processes
\* and the owner's edits interleave.
SessionsRunOnRecord ==
  \A p \in Sessions : disk[p] # None => disk[p] \in pinned

\* The verdict of a boot is right unless somebody else changed the file or the
\* row since it began: no session is up beside a charter that is not the one on
\* record, and none is refused one that is.
VerdictsAreCurrent ==
  \A p \in Processes : still[p] /\ quiet[p] =>
    /\ p \in Sessions => charter = Missing \/ record = Hash(charter)
    /\ pc[p] = "refused" => charter # Missing /\ record # Hash(charter)

\* An approval puts on record what the owner was shown, unless the file has been
\* edited between the two; and it stays there until somebody else writes.
ShownIsRecorded ==
  \A p \in Processes : pc[p] = "approved" =>
    /\ still[p] => disk[p] = shown[p]
    /\ quiet[p] => record = disk[p]

-----------------------------------------------------------------------------
(* What the documents say, and the code does not do.                       *)

\* SYSTEM_SPEC.md:839: the health invariant `charter hash pinned` means that the
\* file and the row agree.
PinnedMeansPinned ==
  \A p \in Processes :
    pc[p] = "up" /\ prompt[p].health # None
      => prompt[p].health = Hash(prompt[p].text)
=============================================================================
