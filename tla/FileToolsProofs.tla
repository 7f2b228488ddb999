--------------------------- MODULE FileToolsProofs ---------------------------
(***************************************************************************)
(* The file tools are atomic operations on every path whose temporary file *)
(* two writers have not shared, for any number of tasks, paths and calls   *)
(* and any readings of the clock, through failing system calls and deaths  *)
(* of the process.                                                         *)
(*                                                                         *)
(* The argument is FilesInv.  The clock may read the same twice, so two    *)
(* writers of a path may meet on one temporary file; the path is shared    *)
(* from then on.  On a path that is not, a writer owns the file under its  *)
(* temporary name until it renames it (Owned), and what the path or a      *)
(* reader leads to holds a whole content under no temporary name           *)
(* (Published).  The writers of a shared path reach the inodes of that     *)
(* path alone (Apart).  Hence the only steps that change what a path holds *)
(* are rename and remove, where Write and Delete take place, and the       *)
(* sharing itself, where Waive does; a read takes place when it opens its  *)
(* file, because that file never changes again.                            *)
(*                                                                         *)
(* What is left behind is counted against what went wrong: a step takes at *)
(* most one temporary file out of use, that of its own task, and a failed  *)
(* call pays for it; when the process dies each task leaves at most one.   *)
(***************************************************************************)
EXTENDS FileTools, FiniteSetTheorems, TLAPS

-----------------------------------------------------------------------------
(* The inductive invariant.                                                *)

\* The type invariant in parts: the file system, the calls, what a call has at
\* hand, and the counters.
FsTyped ==
  /\ entry \in [Paths -> Inodes \cup {Nowhere}]
  /\ temp \in [Temps -> Inodes \cup {Nowhere}]
  /\ data \in [Inodes -> Held]
  /\ made \in Nat
  /\ shared \subseteq Paths
PcTyped ==
  /\ pc \in [Tasks -> Asking \cup {"idle", "fs_list", "read", "report", "panicked"}]
  /\ stamp \in [Tasks -> Instants \cup {Nowhere}]
  /\ file \in [Tasks -> Inodes \cup {Nowhere}]
  /\ result \in [Tasks -> Results]
ReqTyped ==
  req \in [Tasks -> [tool : Tools \cup {"none"}, path : Paths \cup {Nowhere},
                     value : Contents \cup {Nowhere}]]
AtHand ==
  \A t \in Tasks :
    /\ pc[t] \in {"read", "fill", "rename"} => file[t] \in Inodes
    /\ pc[t] \in {"fill", "rename"} => stamp[t] \in Instants
    /\ pc[t] \in Asking \cup {"fs_list", "read"} => req[t].path \in Paths
Counted ==
  /\ count \in 0..MaxCalls
  /\ called \in [Tasks -> Nat]
  /\ told \in [Tasks -> Nat]
  /\ effects \in [Tasks -> Nat]
  /\ faults \in 0..MaxFaults
  /\ crashes \in 0..MaxCrashes

Typed == FsTyped /\ PcTyped /\ ReqTyped /\ AtHand /\ Counted

\* The inodes in use: the initial files, and the temporary files made so far.
Made(i) == i \in Paths \/ (i \in Int /\ 0 <= i /\ i < made)

\* What a task does is what it was asked.
Calling ==
  \A t \in Tasks :
    /\ pc[t] = "idle" => req[t].tool = "none" /\ req[t].path = Nowhere
    /\ pc[t] \in {"fs_read", "read"} =>
         req[t].tool = "fs_read" /\ req[t].value = Nowhere
    /\ pc[t] = "fs_list" => req[t].tool = "fs_list"
    /\ pc[t] \in {"fs_delete", "remove"} =>
         req[t].tool = "fs_delete" /\ req[t].value = Nowhere
    /\ pc[t] \in {"fs_write", "create", "fill", "rename"} =>
         req[t].tool = "fs_write" /\ req[t].value \in Contents

\* A task is working on a temporary file, or has a file open.
Writing(t) == pc[t] \in {"fill", "rename"}
Opened(t)  == pc[t] \in {"read", "fill", "rename"}

\* The ways from a path to an inode.
LeadsTo(p, i) ==
  \/ entry[p] = i
  \/ \E now \in Instants : temp[<<p, now>>] = i
  \/ \E t \in Tasks : Opened(t) /\ req[t].path = p /\ file[t] = i

\* No two paths lead to one inode, nor two temporary names.
Apart ==
  /\ \A p \in Paths, i \in Inodes : LeadsTo(p, i) =>
       Made(i) /\ \A q \in Paths : LeadsTo(q, i) => q = p
  /\ \A m, n \in Temps : temp[m] # Nowhere /\ temp[m] = temp[n] => m = n

\* Nobody shares the path of what t is asked.
Alone(t) == req[t].path \notin shared

\* A writer that is alone has its temporary file to itself, and fills it before
\* it renames it.
Owned ==
  /\ \A t \in Tasks : Writing(t) /\ Alone(t) =>
       /\ temp[TempOf(t)] # Nowhere
       /\ file[t] = temp[TempOf(t)]
       /\ data[file[t]] = IF pc[t] = "fill" THEN Partial ELSE req[t].value
  /\ \A t, u \in Tasks :
       Writing(t) /\ Writing(u) /\ Alone(t) /\ TempOf(t) = TempOf(u) => t = u

\* A file that a path leads to, or a reader has open, is whole and nobody's
\* temporary file, unless the path was shared.
Whole(i) == data[i] \in Contents /\ \A n \in Temps : temp[n] # i
Published ==
  /\ \A p \in Paths \ shared : entry[p] # Nowhere => Whole(entry[p])
  /\ \A t \in Tasks : pc[t] = "read" /\ Alone(t) => Whole(file[t])

FilesInv == Typed /\ Calling /\ Apart /\ Owned /\ Published

-----------------------------------------------------------------------------
(* Type correctness.                                                       *)

\* The type invariant is its parts.
LEMMA TypeParts ==
  TypeOK <=> Typed
BY DEF TypeOK, Typed, FsTyped, PcTyped, ReqTyped, AtHand, Counted

\* Inodes are neither Nowhere nor two things at once.
LEMMA InodeFacts ==
  /\ Nowhere \notin Inodes
  /\ Paths \subseteq Inodes
  /\ Paths \cap Int = {}
BY FileAssumption DEF Inodes, Fresh

\* The initial state satisfies the invariant.
LEMMA InitFilesInv == Init => FilesInv
<1> SUFFICES ASSUME Init PROVE FilesInv
  OBVIOUS
<1>. USE DEF Init
<1>1. PICK there \in SUBSET (Paths \ Directories), d \in Contents :
        /\ entry = [p \in Paths |-> IF p \in there THEN p ELSE Nowhere]
        /\ data = [i \in Inodes |-> IF i \in there THEN d ELSE Partial]
  OBVIOUS
<1>2. TypeOK
  BY <1>1, FileAssumption
  DEF TypeOK, Inodes, Held, NoReq, Results, Asking, Temps, Tools
<1>3. Calling
  BY DEF Calling, NoReq
<1>4. \A p \in Paths, i \in Inodes : LeadsTo(p, i) => i = p
  BY <1>1, InodeFacts DEF LeadsTo, Opened, Temps
<1>5. Apart /\ Owned
  BY <1>4 DEF Apart, Made, Owned, Writing
<1>6. Published
  <2>1. ASSUME NEW p \in Paths, entry[p] # Nowhere
        PROVE  Whole(entry[p])
    <3>1. entry[p] = p /\ p \in there
      BY <1>1, <2>1
    <3>2. data[p] = d
      BY <1>1, <3>1 DEF Inodes
    <3>3. \A n \in Temps : temp[n] # p
      BY FileAssumption
    <3>. QED  BY <3>1, <3>2, <3>3 DEF Whole
  <2>. QED  BY <2>1 DEF Published
<1>. QED  BY <1>2, <1>3, <1>5, <1>6, TypeParts DEF FilesInv

\* What a task is asked.
LEMMA Invoked ==
  ASSUME NEW t \in Tasks, Invoke(t)
  PROVE  \E tool \in Tools, p \in Paths, v \in Contents :
           /\ Goto(t, "idle", tool)
           /\ req' = [req EXCEPT ![t] =
                [tool |-> tool, path |-> p,
                 value |-> IF tool = "fs_write" THEN v ELSE Nowhere]]
BY DEF Invoke

\* Each step keeps the variables in their ranges.
LEMMA StepTyped ==
  ASSUME Typed, Calling, [Next]_vars
  PROVE  Typed'
<1>. USE DEF Typed, fsVars, callVars, logVars, Goto, Finish
<1>1. CASE UNCHANGED vars
  BY <1>1 DEF vars, FsTyped, PcTyped, ReqTyped, AtHand, Counted
<1>2. CASE AllDone
  BY <1>2 DEF AllDone, vars, FsTyped, PcTyped, ReqTyped, AtHand, Counted
<1>3. CASE Crash
  <2>1. FsTyped' /\ Counted'
    BY <1>3, FileAssumption DEF Crash, FsTyped, Counted
  <2>2. PcTyped'
    BY <1>3 DEF Crash, PcTyped, Results
  <2>3. ReqTyped'
    BY <1>3 DEF Crash, ReqTyped, NoReq
  <2>4. AtHand'
    BY <1>3 DEF Crash, AtHand, Asking
  <2>. QED  BY <2>1, <2>2, <2>3, <2>4
<1>4. ASSUME NEW t \in Tasks, Invoke(t) PROVE Typed'
  <2>1. PICK tool \in Tools, p \in Paths, v \in Contents :
          /\ Goto(t, "idle", tool)
          /\ req' = [req EXCEPT ![t] =
               [tool |-> tool, path |-> p,
                value |-> IF tool = "fs_write" THEN v ELSE Nowhere]]
    BY <1>4, Invoked
  <2>2. tool \in Asking \cup {"fs_list"}
    BY DEF Tools, Changing, Asking
  <2>3. ReqTyped'
    BY <2>1 DEF ReqTyped
  <2>4. FsTyped' /\ PcTyped'
    BY <1>4, <2>1, <2>2 DEF Invoke, FsTyped, PcTyped
  <2>5. Counted'
    BY <1>4, FileAssumption DEF Invoke, CalledOnce, SystemCallFails, Counted
  <2>6. AtHand'
    BY <1>4, <2>1 DEF Invoke, AtHand, Tools, Changing, PcTyped, ReqTyped
  <2>. QED  BY <2>3, <2>4, <2>5, <2>6
<1>5. ASSUME NEW t \in Tasks, Unroutable(t) PROVE Typed'
  <2>1. FsTyped'
    BY <1>5 DEF Unroutable, FsTyped
  <2>2. PcTyped'
    BY <1>5 DEF Unroutable, PcTyped, FsTyped, Results, ErrorTexts, Asking, Temps, Inodes
  <2>3. ReqTyped'
    BY <1>5 DEF Unroutable, ReqTyped
  <2>4. AtHand'
    BY <1>5 DEF Unroutable, AtHand, PcTyped, Asking, Inodes
  <2>5. Counted'
    BY <1>5, FileAssumption DEF Unroutable, Counted
  <2>. QED  BY <2>1, <2>2, <2>3, <2>4, <2>5
<1>6. ASSUME NEW t \in Tasks, BadArgs(t) PROVE Typed'
  <2>1. FsTyped'
    BY <1>6 DEF BadArgs, FsTyped
  <2>2. PcTyped'
    BY <1>6 DEF BadArgs, PcTyped, FsTyped, Results, ErrorTexts, Asking, Temps, Inodes
  <2>3. ReqTyped'
    BY <1>6 DEF BadArgs, ReqTyped
  <2>4. AtHand'
    BY <1>6 DEF BadArgs, AtHand, PcTyped, Asking, Inodes
  <2>5. Counted'
    BY <1>6, FileAssumption DEF BadArgs, Counted
  <2>. QED  BY <2>1, <2>2, <2>3, <2>4, <2>5
<1>7. ASSUME NEW t \in Tasks, Report(t) PROVE Typed'
  <2>1. FsTyped'
    BY <1>7 DEF Report, ToldOnce, SystemCallFails, NoReq, FsTyped
  <2>2. PcTyped'
    BY <1>7 DEF Report, ToldOnce, SystemCallFails, NoReq, PcTyped, FsTyped, Results, ErrorTexts, Asking, Temps, Inodes
  <2>3. ReqTyped'
    BY <1>7 DEF Report, ToldOnce, SystemCallFails, NoReq, ReqTyped
  <2>4. AtHand'
    BY <1>7 DEF Report, ToldOnce, SystemCallFails, NoReq, AtHand, PcTyped, Asking, Inodes
  <2>5. Counted'
    BY <1>7, FileAssumption DEF Report, ToldOnce, SystemCallFails, NoReq, Counted
  <2>. QED  BY <2>1, <2>2, <2>3, <2>4, <2>5
<1>8. ASSUME NEW t \in Tasks, FsRead(t) PROVE Typed'
  <2>1. FsTyped'
    BY <1>8 DEF FsRead, SystemCallFails, FsTyped
  <2>2. PcTyped'
    BY <1>8 DEF FsRead, SystemCallFails, PcTyped, FsTyped, AtHand, Results, ErrorTexts, Asking
  <2>3. ReqTyped'
    BY <1>8 DEF FsRead, SystemCallFails, ReqTyped
  <2>4. AtHand'
    BY <1>8 DEF FsRead, SystemCallFails, AtHand, PcTyped, FsTyped, Asking
  <2>5. Counted'
    BY <1>8, FileAssumption DEF FsRead, SystemCallFails, Counted
  <2>. QED  BY <2>1, <2>2, <2>3, <2>4, <2>5
<1>9. ASSUME NEW t \in Tasks, ReadLines(t) PROVE Typed'
  <2>1. FsTyped'
    BY <1>9 DEF ReadLines, FsTyped
  <2>2. PcTyped'
    BY <1>9 DEF ReadLines, PcTyped, FsTyped, AtHand, Results, Asking
  <2>3. ReqTyped'
    BY <1>9 DEF ReadLines, ReqTyped
  <2>4. AtHand'
    BY <1>9 DEF ReadLines, AtHand, PcTyped, Asking, Inodes
  <2>5. Counted'
    BY <1>9, FileAssumption DEF ReadLines, Counted
  <2>. QED  BY <2>1, <2>2, <2>3, <2>4, <2>5
<1>10. ASSUME NEW t \in Tasks, ReadPanics(t) PROVE Typed'
  <2>1. FsTyped'
    BY <1>10 DEF ReadPanics, FsTyped
  <2>2. PcTyped'
    BY <1>10 DEF ReadPanics, PcTyped, FsTyped, Results, ErrorTexts, Asking, Temps, Inodes
  <2>3. ReqTyped'
    BY <1>10 DEF ReadPanics, ReqTyped
  <2>4. AtHand'
    BY <1>10 DEF ReadPanics, AtHand, PcTyped, Asking, Inodes
  <2>5. Counted'
    BY <1>10, FileAssumption DEF ReadPanics, Counted
  <2>. QED  BY <2>1, <2>2, <2>3, <2>4, <2>5
<1>11. ASSUME NEW t \in Tasks, FsList(t) PROVE Typed'
  <2>1. FsTyped'
    BY <1>11 DEF FsList, SystemCallFails, FsTyped
  <2>2. PcTyped'
    BY <1>11 DEF FsList, SystemCallFails, PcTyped, FsTyped, Results, ErrorTexts, Asking, Temps, Inodes
  <2>3. ReqTyped'
    BY <1>11 DEF FsList, SystemCallFails, ReqTyped
  <2>4. AtHand'
    BY <1>11 DEF FsList, SystemCallFails, AtHand, PcTyped, Asking, Inodes
  <2>5. Counted'
    BY <1>11, FileAssumption DEF FsList, SystemCallFails, Counted
  <2>. QED  BY <2>1, <2>2, <2>3, <2>4, <2>5
<1>12. ASSUME NEW t \in Tasks, FsWrite(t) PROVE Typed'
  <2>1. FsTyped'
    BY <1>12 DEF FsWrite, SystemCallFails, FsTyped
  <2>2. PcTyped'
    BY <1>12 DEF FsWrite, SystemCallFails, PcTyped, FsTyped, Results, ErrorTexts, Asking, Temps, Inodes
  <2>3. ReqTyped'
    BY <1>12 DEF FsWrite, SystemCallFails, ReqTyped
  <2>4. AtHand'
    BY <1>12 DEF FsWrite, SystemCallFails, AtHand, PcTyped, Asking, Inodes
  <2>5. Counted'
    BY <1>12, FileAssumption DEF FsWrite, SystemCallFails, Counted
  <2>. QED  BY <2>1, <2>2, <2>3, <2>4, <2>5
<1>13. ASSUME NEW t \in Tasks, CreateTemp(t) PROVE Typed'
  <2>1. CASE SystemCallFails /\ Finish(t, "create", "io")
             /\ UNCHANGED <<fsVars, callVars, logVars, effects, crashes>>
    BY <2>1, FileAssumption
    DEF SystemCallFails, FsTyped, PcTyped, ReqTyped, AtHand, Counted, Asking,
        Results, ErrorTexts
  <2>2. ASSUME NEW now \in Instants,
               Goto(t, "create", "fill"), AtomicTmpPath(t, now),
               OpenTemp(t, <<req[t].path, now>>),
               shared' \subseteq shared \cup {req[t].path},
               UNCHANGED <<entry, req, result, logVars, effects, faults, crashes>>
        PROVE  Typed'
    <3>. DEFINE n == <<req[t].path, now>>
    <3>1. pc[t] = "create" /\ req[t].path \in Paths /\ n \in Temps
      BY <2>2 DEF AtHand, Asking, Temps
    <3>2. PICK i \in Inodes :
            /\ temp' = temp \/ temp' = [temp EXCEPT ![n] = i]
            /\ data' = [data EXCEPT ![i] = Partial]
            /\ file' = [file EXCEPT ![t] = i]
            /\ made' \in Nat
      BY <2>2, <3>1 DEF OpenTemp, FsTyped, Inodes
    <3>3. FsTyped'
      BY <2>2, <3>1, <3>2 DEF FsTyped, Held
    <3>4. PcTyped' /\ AtHand'
      BY <2>2, <3>1, <3>2 DEF PcTyped, AtHand, Asking, AtomicTmpPath
    <3>. QED  BY <2>2, <3>3, <3>4 DEF ReqTyped, Counted
  <2>3. ASSUME NEW now \in Instants,
               shared' = IF <<req[t].path, now>> \in InUse
                           THEN shared \cup {req[t].path} ELSE shared
        PROVE  shared' \subseteq shared \cup {req[t].path}
    BY <2>3
  <2>. QED  BY <1>13, <2>1, <2>2, <2>3 DEF CreateTemp
<1>14. ASSUME NEW t \in Tasks, FillTemp(t) PROVE Typed'
  <2>1. FsTyped'
    BY <1>14 DEF FillTemp, Written, SystemCallFails, FsTyped, AtHand, Calling, Held
  <2>2. PcTyped'
    BY <1>14 DEF FillTemp, SystemCallFails, PcTyped, FsTyped, Results, ErrorTexts, Asking, Temps, Inodes
  <2>3. ReqTyped'
    BY <1>14 DEF FillTemp, SystemCallFails, ReqTyped
  <2>4. AtHand'
    BY <1>14 DEF FillTemp, SystemCallFails, AtHand, PcTyped, Asking, Inodes
  <2>5. Counted'
    BY <1>14, FileAssumption DEF FillTemp, SystemCallFails, Counted
  <2>. QED  BY <2>1, <2>2, <2>3, <2>4, <2>5
<1>15. ASSUME NEW t \in Tasks, RenameTemp(t) PROVE Typed'
  <2>1. FsTyped'
    BY <1>15 DEF RenameTemp, Changed, SystemCallFails, FsTyped, AtHand, Temps, Asking
  <2>2. PcTyped'
    BY <1>15 DEF RenameTemp, Changed, SystemCallFails, PcTyped, FsTyped, Results, ErrorTexts, Asking, Temps, Inodes
  <2>3. ReqTyped'
    BY <1>15 DEF RenameTemp, Changed, SystemCallFails, ReqTyped
  <2>4. AtHand'
    BY <1>15 DEF RenameTemp, Changed, SystemCallFails, AtHand, PcTyped, Asking, Inodes
  <2>5. Counted'
    BY <1>15, FileAssumption DEF RenameTemp, Changed, SystemCallFails, Counted
  <2>. QED  BY <2>1, <2>2, <2>3, <2>4, <2>5
<1>16. ASSUME NEW t \in Tasks, FsDelete(t) PROVE Typed'
  <2>1. FsTyped'
    BY <1>16 DEF FsDelete, SystemCallFails, FsTyped
  <2>2. PcTyped'
    BY <1>16 DEF FsDelete, SystemCallFails, PcTyped, FsTyped, Results, ErrorTexts, Asking, Temps, Inodes
  <2>3. ReqTyped'
    BY <1>16 DEF FsDelete, SystemCallFails, ReqTyped
  <2>4. AtHand'
    BY <1>16 DEF FsDelete, SystemCallFails, AtHand, PcTyped, Asking, Inodes
  <2>5. Counted'
    BY <1>16, FileAssumption DEF FsDelete, SystemCallFails, Counted
  <2>. QED  BY <2>1, <2>2, <2>3, <2>4, <2>5
<1>17. ASSUME NEW t \in Tasks, RemoveFile(t) PROVE Typed'
  <2>1. FsTyped'
    BY <1>17 DEF RemoveFile, Changed, SystemCallFails, FsTyped
  <2>2. PcTyped'
    BY <1>17 DEF RemoveFile, Changed, SystemCallFails, PcTyped, FsTyped, Results, ErrorTexts, Asking, Temps, Inodes
  <2>3. ReqTyped'
    BY <1>17 DEF RemoveFile, Changed, SystemCallFails, ReqTyped
  <2>4. AtHand'
    BY <1>17 DEF RemoveFile, Changed, SystemCallFails, AtHand, PcTyped, Asking, Inodes
  <2>5. Counted'
    BY <1>17, FileAssumption DEF RemoveFile, Changed, SystemCallFails, Counted
  <2>. QED  BY <2>1, <2>2, <2>3, <2>4, <2>5
<1>. QED
  BY <1>1, <1>2, <1>3, <1>4, <1>5, <1>6, <1>7, <1>8, <1>9, <1>10, <1>11, <1>12, <1>13, <1>14, <1>15, <1>16, <1>17 DEF Next, ToolStep

-----------------------------------------------------------------------------
(* The invariant is inductive.                                             *)

\* A step that opens no new way to an inode keeps the paths apart.
LEMMA NoNewWay ==
  ASSUME Apart, made' = made,
         \A p \in Paths, i \in Inodes : LeadsTo(p, i)' => LeadsTo(p, i),
         \A n \in Temps : temp'[n] = temp[n] \/ temp'[n] = Nowhere
  PROVE  Apart'
<1>1. \A i : Made(i)' <=> Made(i)
  BY DEF Made
<1>. QED  BY <1>1 DEF Apart

\* Steps that neither write to a file nor take a task to where it has one open.
LEMMA QuietStep ==
  ASSUME Typed, Apart, Owned, Published,
         UNCHANGED <<temp, data, made, shared>>,
         \A p \in Paths : entry'[p] = entry[p] \/ entry'[p] = Nowhere,
         \A u \in Tasks :
           \/ /\ pc'[u] = pc[u]
              /\ stamp'[u] = stamp[u]
              /\ file'[u] = file[u]
              /\ req'[u] = req[u]
           \/ pc'[u] \notin {"read", "fill", "rename"}
  PROVE  Apart' /\ Owned' /\ Published'
<1>1. \A u \in Tasks : Opened(u)' =>
        /\ pc'[u] = pc[u] /\ stamp'[u] = stamp[u] /\ file'[u] = file[u]
        /\ req'[u] = req[u] /\ TempOf(u)' = TempOf(u)
  BY DEF Opened, TempOf
<1>2. Apart'
  <2>1. \A p \in Paths, i \in Inodes : LeadsTo(p, i)' => LeadsTo(p, i)
    BY <1>1, InodeFacts DEF LeadsTo, Opened
  <2>. QED  BY <2>1, NoNewWay
<1>3. Owned'
  BY <1>1 DEF Owned, Writing, Opened, Alone
<1>4. Published'
  <2>1. \A i : Whole(i) => Whole(i)'
    BY DEF Whole
  <2>. QED  BY <1>1, <2>1 DEF Published, Opened, Alone
<1>. QED  BY <1>2, <1>3, <1>4

\* Each step leaves a task where its arguments fit.
LEMMA StepCalling == Typed /\ Calling /\ [Next]_vars => Calling'
<1> SUFFICES ASSUME Typed, Calling, [Next]_vars PROVE Calling'
  OBVIOUS
<1>. USE DEF Calling, Goto, Finish, callVars, Typed, ReqTyped, PcTyped
<1>1. CASE UNCHANGED vars
  BY <1>1 DEF vars
<1>2. CASE Crash
  BY <1>2 DEF Crash, NoReq
<1>3. CASE AllDone
  BY <1>3 DEF AllDone, vars
<1>4. ASSUME NEW t \in Tasks, ToolStep(t) PROVE Calling'
  <2>1. CASE Unroutable(t)
    BY <2>1 DEF Unroutable
  <2>2. CASE BadArgs(t)
    BY <2>2 DEF BadArgs
  <2>3. CASE Invoke(t)
    <3>1. PICK tool \in Tools, p \in Paths, v \in Contents :
            /\ Goto(t, "idle", tool)
            /\ req' = [req EXCEPT ![t] =
                 [tool |-> tool, path |-> p,
                  value |-> IF tool = "fs_write" THEN v ELSE Nowhere]]
      BY <2>3, Invoked
    <3>2. pc'[t] = tool /\ req'[t].tool = tool
          /\ req'[t].value = (IF tool = "fs_write" THEN v ELSE Nowhere)
      BY <3>1
    <3>3. \A u \in Tasks : u # t => pc'[u] = pc[u] /\ req'[u] = req[u]
      BY <3>1
    <3>. QED  BY <3>2, <3>3 DEF Tools, Changing
  <2>4. CASE Report(t)
    BY <2>4 DEF Report, NoReq
  <2>5. CASE FsRead(t)
    BY <2>5 DEF FsRead
  <2>6. CASE ReadLines(t)
    BY <2>6 DEF ReadLines
  <2>7. CASE ReadPanics(t)
    BY <2>7 DEF ReadPanics
  <2>8. CASE FsList(t)
    BY <2>8 DEF FsList
  <2>9. CASE FsWrite(t)
    BY <2>9 DEF FsWrite
  <2>10. CASE CreateTemp(t)
    BY <2>10 DEF CreateTemp
  <2>11. CASE FillTemp(t)
    BY <2>11 DEF FillTemp
  <2>12. CASE RenameTemp(t)
    BY <2>12 DEF RenameTemp
  <2>13. CASE FsDelete(t)
    BY <2>13 DEF FsDelete
  <2>14. CASE RemoveFile(t)
    BY <2>14 DEF RemoveFile
  <2>. QED
    BY <1>4, <2>1, <2>2, <2>3, <2>4, <2>5, <2>6, <2>7, <2>8, <2>9, <2>10, <2>11,
       <2>12, <2>13, <2>14 DEF ToolStep
<1>. QED  BY <1>1, <1>2, <1>3, <1>4 DEF Next

\* A reader opens a whole file.
LEMMA OpenStep ==
  ASSUME Typed, Apart, Owned, Published, NEW t \in Tasks,
         Goto(t, "fs_read", "read"),
         req[t].path \in Paths,
         entry[req[t].path] # Nowhere,
         file' = [file EXCEPT ![t] = entry[req[t].path]],
         UNCHANGED <<fsVars, req, stamp>>
  PROVE  Apart' /\ Owned' /\ Published'
<1>. USE DEF Goto, fsVars
<1>1. \A u \in Tasks : u # t =>
        pc'[u] = pc[u] /\ file'[u] = file[u] /\ TempOf(u)' = TempOf(u)
  BY DEF Typed, PcTyped, TempOf
<1>2. pc'[t] = "read" /\ file'[t] = entry[req[t].path]
  BY DEF Typed, PcTyped
<1>3. Apart'
  <2>1. \A p \in Paths, i \in Inodes : LeadsTo(p, i)' => LeadsTo(p, i)
    BY <1>1, <1>2 DEF LeadsTo, Opened
  <2>. QED  BY <2>1, NoNewWay
<1>4. Owned'
  BY <1>1, <1>2 DEF Owned, Writing, Alone
<1>5. Published'
  <2>1. \A i : Whole(i) => Whole(i)'
    BY DEF Whole
  <2>. QED  BY <1>1, <1>2, <2>1 DEF Published, Alone
<1>. QED  BY <1>3, <1>4, <1>5

\* A file that a path which is not shared leads to, whole.
Safe(i) == Whole(i) /\ \E q \in Paths \ shared : LeadsTo(q, i)

\* What a path or a reader has is safe.
LEMMA PublishedIsSafe ==
  ASSUME Typed, Published
  PROVE  /\ \A p \in Paths \ shared : entry[p] # Nowhere =>
              entry[p] \in Inodes /\ Safe(entry[p])
         /\ \A t \in Tasks : pc[t] = "read" /\ Alone(t) =>
              file[t] \in Inodes /\ Safe(file[t])
<1>1. ASSUME NEW p \in Paths \ shared, entry[p] # Nowhere
      PROVE  entry[p] \in Inodes /\ Safe(entry[p])
  BY <1>1 DEF Typed, FsTyped, Published, Safe, LeadsTo
<1>2. ASSUME NEW t \in Tasks, pc[t] = "read", Alone(t)
      PROVE  file[t] \in Inodes /\ Safe(file[t])
  BY <1>2 DEF Typed, AtHand, Published, Safe, LeadsTo, Opened, Alone
<1>. QED  BY <1>1, <1>2

\* What opening a temporary file does to the file system.
LEMMA Opening ==
  ASSUME Typed, Apart, NEW t \in Tasks, NEW n \in Temps, OpenTemp(t, n)
  PROVE  /\ file'[t] \in Inodes
         /\ file' = [file EXCEPT ![t] = file'[t]]
         /\ data' = [data EXCEPT ![file'[t]] = Partial]
         /\ temp'[n] = file'[t]
         /\ \A m \in Temps : m # n => temp'[m] = temp[m] /\ temp[m] # file'[t]
         /\ \/ temp[n] = file'[t] /\ made' = made
            \/ made' = made + 1 /\ file'[t] = made /\ ~ Made(made)
<1>1. temp \in [Temps -> Inodes \cup {Nowhere}] /\ made \in Nat
      /\ data \in [Inodes -> Held] /\ file \in [Tasks -> Inodes \cup {Nowhere}]
  BY DEF Typed, FsTyped, PcTyped
<1>2. CASE /\ temp[n] = Nowhere /\ made \in Fresh /\ made' = made + 1
           /\ temp' = [temp EXCEPT ![n] = made]
           /\ data' = [data EXCEPT ![made] = Partial]
           /\ file' = [file EXCEPT ![t] = made]
  <2>1. made \in Inodes /\ ~ Made(made)
    BY <1>1, <1>2, FileAssumption DEF Inodes, Made
  <2>2. ASSUME NEW m \in Temps, temp[m] = made PROVE FALSE
    <3>1. PICK p \in Paths, now \in Instants : m = <<p, now>>
      BY DEF Temps
    <3>2. LeadsTo(p, made)
      BY <2>2, <3>1 DEF LeadsTo
    <3>. QED  BY <2>1, <3>2 DEF Apart
  <2>. QED  BY <1>1, <1>2, <2>1, <2>2
<1>3. CASE /\ temp[n] # Nowhere
           /\ data' = [data EXCEPT ![temp[n]] = Partial]
           /\ file' = [file EXCEPT ![t] = temp[n]]
           /\ UNCHANGED <<made, temp>>
  <2>1. \A m \in Temps : m # n => temp[m] # temp[n]
    BY <1>3 DEF Apart
  <2>. QED  BY <1>1, <1>3, <2>1
<1>. QED  BY <1>2, <1>3 DEF OpenTemp

\* A file that is created or truncated is not a safe one.
LEMMA OpeningAvoids ==
  ASSUME Typed, Apart, NEW t \in Tasks, NEW n \in Temps, OpenTemp(t, n),
         NEW i \in Inodes, Safe(i)
  PROVE  i # file'[t] /\ data'[i] = data[i]
<1>1. Made(i)
  BY DEF Safe, Apart
<1>2. i # file'[t]
  BY <1>1, Opening DEF Safe, Whole
<1>. QED  BY <1>2, Opening DEF Typed, FsTyped

\* A writer opens its temporary file: its alone, or the path is shared from now on.
LEMMA CreateStep ==
  ASSUME Typed, Calling, Apart, Owned, Published, NEW t \in Tasks,
         NEW now \in Instants,
         Goto(t, "create", "fill"),
         AtomicTmpPath(t, now),
         OpenTemp(t, <<req[t].path, now>>),
         shared' = IF <<req[t].path, now>> \in InUse
                     THEN shared \cup {req[t].path} ELSE shared,
         UNCHANGED <<entry, req>>
  PROVE  Apart' /\ Owned' /\ Published'
<1>. DEFINE p == req[t].path
            n == <<p, now>>
<1>. USE DEF Goto, AtomicTmpPath
<1>1. pc[t] = "create" /\ p \in Paths /\ n \in Temps
  BY DEF Typed, AtHand, Asking, Temps
<1>2. \A u \in Tasks : u # t =>
        /\ pc'[u] = pc[u] /\ file'[u] = file[u]
        /\ TempOf(u)' = TempOf(u)
        /\ Writing(u)' = Writing(u) /\ Opened(u)' = Opened(u)
  BY <1>1, Opening DEF Typed, PcTyped, TempOf, Writing, Opened
<1>3. pc'[t] = "fill" /\ TempOf(t)' = n /\ Writing(t)'
  BY DEF Typed, PcTyped, TempOf, Writing
<1>4. PICK i \in Inodes :
      /\ file'[t] = i /\ i # Nowhere /\ temp'[n] = i /\ data'[i] = Partial
      /\ \A m \in Temps : m # n => temp'[m] = temp[m] /\ temp[m] # i
      /\ \/ temp[n] = i /\ made' = made
         \/ made' = made + 1 /\ i = made /\ ~ Made(made)
  BY <1>1, Opening, InodeFacts DEF Typed, FsTyped
<1>5. \A j \in Inodes : j # i => data'[j] = data[j]
  BY <1>1, <1>4, Opening DEF Typed, FsTyped
<1>6. \A u \in Tasks : u # t /\ Writing(u) /\ TempOf(u) = n => p \in shared' /\ req[u].path = p
  BY DEF InUse, Writing, TempOf
<1>7. Apart'
  <2>1. ASSUME NEW q \in Paths, NEW j \in Inodes, LeadsTo(q, j)'
        PROVE  LeadsTo(q, j) \/ (q = p /\ j = i)
    <3>1. ASSUME NEW x \in Instants, temp'[<<q, x>>] = j
          PROVE  LeadsTo(q, j) \/ (q = p /\ j = i)
      <4>1. <<q, x>> \in Temps
        BY DEF Temps
      <4>. QED  BY <1>4, <3>1, <4>1 DEF LeadsTo
    <3>2. ASSUME NEW u \in Tasks, Opened(u)', req'[u].path = q, file'[u] = j
          PROVE  LeadsTo(q, j) \/ (q = p /\ j = i)
      BY <1>2, <1>4, <3>2 DEF LeadsTo
    <3>. QED  BY <2>1, <3>1, <3>2 DEF LeadsTo
  <2>2. Made(i)' /\ \A j : Made(j) => Made(j)'
    <3>1. made \in Nat
      BY DEF Typed, FsTyped
    <3>2. temp[n] = i => Made(i)
      BY <1>1, <1>4 DEF LeadsTo, Apart
    <3>. QED  BY <1>4, <3>1, <3>2 DEF Made
  <2>3. \A q \in Paths : LeadsTo(q, i) => q = p
    <3>1. temp[n] = i => LeadsTo(p, i)
      BY DEF LeadsTo
    <3>. QED  BY <1>1, <1>4, <3>1 DEF Apart
  <2>4. ASSUME NEW q \in Paths, NEW j \in Inodes, LeadsTo(q, j)',
               NEW r \in Paths, LeadsTo(r, j)'
        PROVE  Made(j)' /\ r = q
    BY <2>1, <2>2, <2>3, <2>4 DEF Apart
  <2>5. ASSUME NEW l \in Temps, NEW m \in Temps,
               temp'[l] # Nowhere, temp'[l] = temp'[m]
        PROVE  l = m
    BY <1>4, <2>5 DEF Apart
  <2>6. \A q \in Paths, j \in Inodes : LeadsTo(q, j)' =>
          Made(j)' /\ \A r \in Paths : LeadsTo(r, j)' => r = q
    BY <2>4
  <2>. QED  BY <2>5, <2>6 DEF Apart
<1>8. Owned'
  <2>1. ASSUME NEW u \in Tasks, u # t, Writing(u)', Alone(u)'
        PROVE  /\ TempOf(u) # n
               /\ temp'[TempOf(u)'] # Nowhere
               /\ file'[u] = temp'[TempOf(u)']
               /\ data'[file'[u]] = IF pc'[u] = "fill" THEN Partial ELSE req'[u].value
    <3>1. Writing(u) /\ Alone(u) /\ TempOf(u) # n
      BY <1>2, <1>6, <2>1 DEF Alone
    <3>2. TempOf(u) \in Temps /\ file[u] \in Inodes
      BY <3>1 DEF Writing, TempOf, Temps, Typed, AtHand, Asking
    <3>3. /\ temp[TempOf(u)] # Nowhere
          /\ file[u] = temp[TempOf(u)]
          /\ data[file[u]] = IF pc[u] = "fill" THEN Partial ELSE req[u].value
      BY <3>1 DEF Owned
    <3>. QED  BY <1>2, <1>4, <1>5, <2>1, <3>1, <3>2, <3>3
  <2>2. /\ temp'[TempOf(t)'] # Nowhere
        /\ file'[t] = temp'[TempOf(t)']
        /\ data'[file'[t]] = IF pc'[t] = "fill" THEN Partial ELSE req'[t].value
    BY <1>3, <1>4
  <2>3. ASSUME NEW u \in Tasks, NEW w \in Tasks, Writing(u)', Writing(w)',
               Alone(u)', TempOf(u)' = TempOf(w)'
        PROVE  u = w
    <3>1. CASE u # t /\ w # t
      BY <1>2, <2>3, <3>1 DEF Owned, Alone
    <3>2. CASE u = t /\ w # t
      BY <1>2, <1>3, <1>6, <2>3, <3>2 DEF Alone
    <3>3. CASE u # t /\ w = t
      BY <1>2, <1>3, <2>1, <2>3, <3>3
    <3>. QED  BY <3>1, <3>2, <3>3
  <2>. QED  BY <2>1, <2>2, <2>3 DEF Owned
<1>9. Published'
  <2>1. ASSUME NEW j \in Inodes, Safe(j) PROVE Whole(j)'
    <3>1. j # i /\ data'[j] = data[j]
      BY <1>1, <1>4, <2>1, OpeningAvoids
    <3>. QED  BY <1>4, <2>1, <3>1 DEF Safe, Whole
  <2>2. shared \subseteq shared'
    OBVIOUS
  <2>3. \A u \in Tasks : pc'[u] = "read" /\ Alone(u)' =>
          pc[u] = "read" /\ Alone(u) /\ file'[u] = file[u]
    BY <1>2, <1>3, <2>2 DEF Alone
  <2>. QED  BY <2>1, <2>2, <2>3, PublishedIsSafe DEF Published
<1>. QED  BY <1>7, <1>8, <1>9

\* What a writer fills is not a safe file, even on a path that is shared.
LEMMA FillAvoids ==
  ASSUME Typed, Apart, Owned, NEW t \in Tasks, pc[t] = "fill",
         NEW d, data' = [data EXCEPT ![file[t]] = d]
  PROVE  \A i \in Inodes : Safe(i) => i # file[t] /\ data'[i] = data[i]
<1>1. /\ file[t] \in Inodes /\ req[t].path \in Paths /\ TempOf(t) \in Temps
      /\ LeadsTo(req[t].path, file[t])
  BY DEF Typed, AtHand, Asking, TempOf, Temps, LeadsTo, Opened
<1>2. Alone(t) => file[t] = temp[TempOf(t)]
  BY DEF Owned, Writing
<1>3. ~ Alone(t) => req[t].path \in shared
  BY DEF Alone
<1>4. ASSUME NEW i \in Inodes, Safe(i) PROVE i # file[t]
  BY <1>1, <1>2, <1>3, <1>4 DEF Safe, Whole, Apart
<1>. QED  BY <1>4 DEF Typed, FsTyped

\* A writer fills its file, or fails to.
LEMMA FillStep ==
  ASSUME Typed, Calling, Apart, Owned, Published, NEW t \in Tasks,
         NEW at \in {"rename", "report"}, Goto(t, "fill", at),
         NEW d, data' = [data EXCEPT ![file[t]] = d],
         Alone(t) /\ at = "rename" => d = req[t].value,
         UNCHANGED <<entry, temp, made, shared, callVars>>
  PROVE  Apart' /\ Owned' /\ Published'
<1>. USE DEF Goto, callVars
<1>1. pc[t] = "fill" /\ pc'[t] = at
      /\ \A u \in Tasks : u # t => pc'[u] = pc[u]
  BY DEF Typed, PcTyped
<1>2. \A u \in Tasks : TempOf(u)' = TempOf(u) /\ Alone(u)' = Alone(u)
  BY DEF TempOf, Alone
<1>3. /\ file[t] \in Inodes /\ req[t].path \in Paths /\ TempOf(t) \in Temps
      /\ LeadsTo(req[t].path, file[t])
  BY <1>1 DEF Typed, AtHand, Asking, TempOf, Temps, LeadsTo, Opened
<1>4. data'[file[t]] = d
      /\ \A i \in Inodes : i # file[t] => data'[i] = data[i]
  BY <1>3 DEF Typed, FsTyped
<1>5. Apart'
  <2>1. \A q \in Paths, i \in Inodes : LeadsTo(q, i)' => LeadsTo(q, i)
    BY <1>1 DEF LeadsTo, Opened
  <2>. QED  BY <2>1, NoNewWay
<1>6. Owned'
  <2>1. ASSUME NEW u \in Tasks, u # t, Writing(u), Alone(u)
        PROVE  file[u] # file[t] /\ file[u] \in Inodes
    <3>1. /\ file[u] \in Inodes /\ req[u].path \in Paths /\ TempOf(u) \in Temps
          /\ LeadsTo(req[u].path, file[u])
      BY <2>1 DEF Writing, Typed, AtHand, Asking, TempOf, Temps, LeadsTo, Opened
    <3>2. file[u] = temp[TempOf(u)] /\ temp[TempOf(u)] # Nowhere
      BY <2>1 DEF Owned
    <3>3. CASE Alone(t)
      <4>1. file[t] = temp[TempOf(t)] /\ TempOf(u) # TempOf(t)
        BY <1>1, <2>1, <3>3 DEF Owned, Writing
      <4>. QED  BY <1>3, <3>1, <3>2, <4>1 DEF Apart
    <3>4. CASE ~ Alone(t)
      <4>1. req[u].path # req[t].path
        BY <2>1, <3>4 DEF Alone
      <4>. QED  BY <1>3, <3>1, <4>1 DEF Apart
    <3>. QED  BY <3>3, <3>4
  <2>2. \A u \in Tasks : Writing(u)' => Writing(u) /\ (u # t \/ pc'[u] = "rename")
    BY <1>1 DEF Writing
  <2>3. ASSUME NEW u \in Tasks, Writing(u)', Alone(u)'
        PROVE  /\ temp'[TempOf(u)'] # Nowhere
               /\ file'[u] = temp'[TempOf(u)']
               /\ data'[file'[u]] = IF pc'[u] = "fill" THEN Partial ELSE req'[u].value
    BY <1>1, <1>2, <1>4, <2>1, <2>2, <2>3 DEF Owned
  <2>4. ASSUME NEW u \in Tasks, NEW w \in Tasks, Writing(u)', Writing(w)',
               Alone(u)', TempOf(u)' = TempOf(w)'
        PROVE  u = w
    BY <1>2, <2>2, <2>4 DEF Owned
  <2>. QED  BY <2>3, <2>4 DEF Owned
<1>7. Published'
  <2>1. ASSUME NEW i \in Inodes, Safe(i) PROVE Whole(i)'
    <3>1. data'[i] = data[i]
      BY <1>1, <2>1, FillAvoids
    <3>. QED  BY <2>1, <3>1 DEF Safe, Whole
  <2>2. \A u \in Tasks : pc'[u] = "read" /\ Alone(u)' =>
          pc[u] = "read" /\ Alone(u) /\ file'[u] = file[u]
    BY <1>1, <1>2
  <2>. QED  BY <2>1, <2>2, PublishedIsSafe DEF Published
<1>. QED  BY <1>5, <1>6, <1>7

\* A rename publishes a file that is nobody's temporary file any more: a whole
\* one, unless the path is shared.
LEMMA RenameStep ==
  ASSUME Typed, Calling, Apart, Owned, Published, NEW t \in Tasks,
         Finish(t, "rename", "done"),
         temp[TempOf(t)] # Nowhere,
         entry' = [entry EXCEPT ![req[t].path] = temp[TempOf(t)]],
         temp' = [temp EXCEPT ![TempOf(t)] = Nowhere],
         UNCHANGED <<data, made, shared, callVars>>
  PROVE  Apart' /\ Owned' /\ Published'
<1>. DEFINE p == req[t].path
            n == TempOf(t)
<1>. USE DEF Goto, Finish, callVars
<1>1. pc[t] = "rename" /\ pc'[t] = "report"
      /\ \A u \in Tasks : u # t => pc'[u] = pc[u]
  BY DEF Typed, PcTyped
<1>2. \A u \in Tasks : TempOf(u)' = TempOf(u) /\ Alone(u)' = Alone(u)
  BY DEF TempOf, Alone
<1>3. /\ p \in Paths /\ stamp[t] \in Instants /\ n = <<p, stamp[t]>>
      /\ n \in Temps /\ temp[n] \in Inodes
  BY <1>1 DEF Typed, AtHand, Asking, TempOf, Temps, FsTyped
<1>4. temp'[n] = Nowhere /\ \A m \in Temps : m # n => temp'[m] = temp[m]
  BY <1>3 DEF Typed, FsTyped
<1>5. entry'[p] = temp[n] /\ \A q \in Paths : q # p => entry'[q] = entry[q]
  BY <1>3 DEF Typed, FsTyped
<1>6. Apart'
  <2>1. ASSUME NEW q \in Paths, NEW i \in Inodes, LeadsTo(q, i)'
        PROVE  LeadsTo(q, i)
    <3>1. CASE entry'[q] = i
      BY <1>3, <1>5, <3>1 DEF LeadsTo
    <3>2. ASSUME NEW x \in Instants, temp'[<<q, x>>] = i
          PROVE  LeadsTo(q, i)
      <4>1. <<q, x>> \in Temps
        BY DEF Temps
      <4>. QED  BY <1>4, <3>2, <4>1, InodeFacts DEF LeadsTo
    <3>3. ASSUME NEW u \in Tasks, Opened(u)', req'[u].path = q, file'[u] = i
          PROVE  LeadsTo(q, i)
      BY <1>1, <3>3 DEF LeadsTo, Opened
    <3>. QED  BY <2>1, <3>1, <3>2, <3>3 DEF LeadsTo
  <2>. QED  BY <1>4, <2>1, NoNewWay
<1>7. Owned'
  <2>1. \A u \in Tasks : Writing(u)' => u # t /\ Writing(u) /\ TempOf(u) \in Temps
    BY <1>1 DEF Writing, Typed, AtHand, Asking, TempOf, Temps
  <2>2. \A u \in Tasks : Writing(u)' /\ Alone(u) => TempOf(u) # n
    BY <1>1, <2>1 DEF Owned, Writing
  <2>3. ASSUME NEW u \in Tasks, Writing(u)', Alone(u)'
        PROVE  /\ temp'[TempOf(u)'] # Nowhere
               /\ file'[u] = temp'[TempOf(u)']
               /\ data'[file'[u]] = IF pc'[u] = "fill" THEN Partial ELSE req'[u].value
    BY <1>1, <1>2, <1>4, <2>1, <2>2, <2>3 DEF Owned
  <2>4. ASSUME NEW u \in Tasks, NEW w \in Tasks, Writing(u)', Writing(w)',
               Alone(u)', TempOf(u)' = TempOf(w)'
        PROVE  u = w
    BY <1>2, <2>1, <2>4 DEF Owned
  <2>. QED  BY <2>3, <2>4 DEF Owned
<1>8. Published'
  <2>1. \A i : i # Nowhere /\ Whole(i) => Whole(i)'
    BY <1>4 DEF Whole
  <2>2. ASSUME Alone(t), NEW i, i = temp[n] PROVE Whole(i)'
    <3>1. data[i] \in Contents
      BY <1>1, <2>2 DEF Owned, Writing, Calling
    <3>2. \A m \in Temps : temp'[m] # i
      BY <1>3, <1>4, <2>2, InodeFacts DEF Apart
    <3>. QED  BY <3>1, <3>2 DEF Whole
  <2>3. ASSUME NEW q \in Paths \ shared, entry'[q] # Nowhere
        PROVE  Whole(entry[q])'
    <3>1. CASE q = p
      BY <1>5, <2>2, <3>1 DEF Alone
    <3>2. CASE q # p
      BY <1>5, <2>1, <2>3, <3>2 DEF Published
    <3>. QED  BY <3>1, <3>2
  <2>4. \A u \in Tasks : pc[u] = "read" => file[u] # Nowhere
    BY InodeFacts DEF Typed, AtHand
  <2>. QED  BY <1>1, <1>2, <2>1, <2>3, <2>4 DEF Published
<1>. QED  BY <1>6, <1>7, <1>8

\* The invariant is inductive.
LEMMA StepFilesInv == FilesInv /\ [Next]_vars => FilesInv'
<1> SUFFICES ASSUME FilesInv, [Next]_vars PROVE FilesInv'
  OBVIOUS
<1>. USE DEF FilesInv
<1>1. Typed' /\ Calling'
  BY StepTyped, StepCalling
<1>2. Apart' /\ Owned' /\ Published'
  <2>1. CASE UNCHANGED vars
    BY <2>1, QuietStep DEF vars, fsVars, callVars
  <2>2. CASE AllDone
    BY <2>2, QuietStep DEF AllDone, vars, fsVars, callVars
  <2>3. CASE Crash
    BY <2>3, QuietStep DEF Crash, fsVars
  <2>4. ASSUME NEW t \in Tasks, ToolStep(t)
        PROVE  Apart' /\ Owned' /\ Published'
    <3>. USE DEF Goto, Finish, fsVars, callVars, Typed, PcTyped
    <3>1. CASE Unroutable(t)
      BY <3>1, QuietStep DEF Unroutable
    <3>2. CASE BadArgs(t)
      BY <3>2, QuietStep DEF BadArgs
    <3>3. CASE Invoke(t)
      <4>1. PICK tool \in Tools : Goto(t, "idle", tool)
        BY <3>3 DEF Invoke
      <4>2. \A u \in Tasks : u # t => pc'[u] = pc[u] /\ req'[u] = req[u]
        BY <3>3, <4>1 DEF Invoke, ReqTyped
      <4>3. pc'[t] \notin {"read", "fill", "rename"}
        BY <4>1 DEF Tools, Changing
      <4>. QED  BY <3>3, <4>2, <4>3, QuietStep DEF Invoke
    <3>4. CASE Report(t)
      BY <3>4, QuietStep DEF Report, ReqTyped
    <3>5. CASE FsRead(t)
      <4>1. CASE /\ Goto(t, "fs_read", "read")
                 /\ entry[req[t].path] # Nowhere
                 /\ file' = [file EXCEPT ![t] = entry[req[t].path]]
                 /\ UNCHANGED <<fsVars, req, stamp>>
        <5>1. req[t].path \in Paths
          BY <4>1 DEF AtHand, Asking
        <5>. QED  BY <4>1, <5>1, OpenStep
      <4>2. CASE \E what \in {"not_found", "io"} :
                   Finish(t, "fs_read", what) /\ UNCHANGED <<fsVars, callVars>>
        BY <4>2, QuietStep
      <4>. QED  BY <3>5, <4>1, <4>2 DEF FsRead
    <3>6. CASE ReadLines(t)
      BY <3>6, QuietStep DEF ReadLines
    <3>7. CASE ReadPanics(t)
      BY <3>7, QuietStep DEF ReadPanics
    <3>8. CASE FsList(t)
      BY <3>8, QuietStep DEF FsList
    <3>9. CASE FsWrite(t)
      BY <3>9, QuietStep DEF FsWrite
    <3>10. CASE CreateTemp(t)
      <4>1. CASE Finish(t, "create", "io") /\ UNCHANGED <<fsVars, callVars>>
        BY <4>1, QuietStep
      <4>. QED  BY <3>10, <4>1, CreateStep DEF CreateTemp
    <3>11. CASE FillTemp(t)
      <4>1. CASE /\ Goto(t, "fill", "rename")
                 /\ \E d \in Written(file[t], req[t].value) :
                      data' = [data EXCEPT ![file[t]] = d]
                 /\ UNCHANGED <<entry, temp, made, shared, callVars>>
        <5>1. Alone(t) => data[file[t]] = Partial
          BY <4>1 DEF Owned, Writing
        <5>. QED  BY <4>1, <5>1, FillStep DEF Written
      <4>2. CASE /\ Finish(t, "fill", "io")
                 /\ \E d \in Written(file[t], data[file[t]]) :
                      data' = [data EXCEPT ![file[t]] = d]
                 /\ UNCHANGED <<entry, temp, made, shared, callVars>>
        BY <4>2, FillStep
      <4>. QED  BY <3>11, <4>1, <4>2 DEF FillTemp
    <3>12. CASE RenameTemp(t)
      <4>1. CASE /\ Finish(t, "rename", "io")
                 /\ UNCHANGED <<fsVars, callVars>>
        BY <4>1, QuietStep
      <4>. QED  BY <3>12, <4>1, RenameStep DEF RenameTemp, TempOf
    <3>13. CASE FsDelete(t)
      BY <3>13, QuietStep DEF FsDelete
    <3>14. CASE RemoveFile(t)
      BY <3>14, QuietStep DEF RemoveFile, FsTyped
    <3>. QED
      BY <2>4, <3>1, <3>2, <3>3, <3>4, <3>5, <3>6, <3>7, <3>8, <3>9, <3>10,
         <3>11, <3>12, <3>13, <3>14 DEF ToolStep
  <2>. QED  BY <2>1, <2>2, <2>3, <2>4 DEF Next
<1>. QED  BY <1>1, <1>2

\* Whatever the clock reads, in every reachable state no two paths lead to one
\* inode, and on a path that two writers have not shared nothing is ever written
\* to a file that has its name or that a reader has open.
THEOREM FilesInvariance == Spec => []FilesInv
<1>1. Init => FilesInv
  BY InitFilesInv
<1>2. FilesInv /\ [Next]_vars => FilesInv'
  BY StepFilesInv
<1>. QED  BY <1>1, <1>2, PTL DEF Spec

\* Every variable of the dispatcher, the tools and the file system keeps its
\* type, and a call past its open has a file.
THEOREM FileTypesCorrect == Spec => []TypeOK
<1>1. FilesInv => TypeOK
  BY TypeParts DEF FilesInv
<1>. QED  BY <1>1, FilesInvariance, PTL

-----------------------------------------------------------------------------
(* Refinement.                                                             *)

Calls == [t \in Tasks |-> CallOf(t)]

\* What a task is in the middle of changes only by its own steps.
LEMMA OtherCalls ==
  ASSUME Typed, Published, NEW t \in Tasks, shared' = shared,
         \A u \in Tasks : u # t =>
           /\ pc'[u] = pc[u] /\ req'[u] = req[u] /\ result'[u] = result[u]
           /\ file'[u] = file[u],
         \A i \in Inodes : Safe(i) => data'[i] = data[i]
  PROVE  \A u \in Tasks : u # t => CallOf(u)' = CallOf(u)
<1> SUFFICES ASSUME NEW u \in Tasks, u # t PROVE CallOf(u)' = CallOf(u)
  OBVIOUS
<1>1. pc[u] = "read" /\ Alone(u) => data'[file[u]] = data[file[u]]
  BY PublishedIsSafe
<1>2. KindOf(u)' = KindOf(u)
  BY DEF KindOf
<1>. QED  BY <1>1, <1>2 DEF CallOf, Asked, Answered, OnFiles, Alone

\* A step of one task is a step of its call.
LEMMA OneCall ==
  ASSUME NEW t \in Tasks, NEW r, CallOf(t)' = r,
         \A u \in Tasks : u # t => CallOf(u)' = CallOf(u)
  PROVE  Calls' = [Calls EXCEPT ![t] = r]
BY DEF Calls

\* No call is under way before and after: nothing happens.
LEMMA NoStep ==
  ASSUME NEW t \in Tasks, CallOf(t)' = CallOf(t),
         \A u \in Tasks : u # t => CallOf(u)' = CallOf(u)
  PROVE  Calls' = Calls
BY DEF Calls

\* What the paths in sight hold changes only with the paths.
LEMMA SameFiles ==
  ASSUME Typed, Published, shared' = shared,
         \A p \in Paths \ shared : entry'[p] = entry[p],
         \A i \in Inodes : Safe(i) => data'[i] = data[i]
  PROVE  FilesNow' = FilesNow
<1>1. \A p \in Paths \ shared :
        entry[p] # Nowhere => data'[entry[p]] = data[entry[p]]
  BY PublishedIsSafe
<1>. QED  BY <1>1 DEF FilesNow

\* A step of a task leaves the others where they are, and what safe files hold.
LEMMA Frame ==
  ASSUME FilesInv, NEW t \in Tasks, ToolStep(t)
  PROVE  /\ \A u \in Tasks : u # t =>
              /\ pc'[u] = pc[u] /\ req'[u] = req[u] /\ result'[u] = result[u]
              /\ file'[u] = file[u]
         /\ \A i \in Inodes : Safe(i) => data'[i] = data[i]
<1>. USE DEF FilesInv, Goto, Finish, fsVars, callVars
<1>1. \A u \in Tasks : u # t =>
        /\ pc'[u] = pc[u] /\ req'[u] = req[u] /\ result'[u] = result[u]
        /\ file'[u] = file[u]
  <2>. USE DEF Typed, PcTyped, ReqTyped
  <2>1. CASE Unroutable(t) \/ BadArgs(t) \/ Report(t)
    BY <2>1 DEF Unroutable, BadArgs, Report
  <2>2. CASE Invoke(t)
    BY <2>2 DEF Invoke
  <2>3. CASE FsRead(t) \/ ReadLines(t) \/ ReadPanics(t) \/ FsList(t)
    BY <2>3 DEF FsRead, ReadLines, ReadPanics, FsList
  <2>4. CASE FsWrite(t) \/ CreateTemp(t)
    BY <2>4 DEF FsWrite, CreateTemp, OpenTemp
  <2>5. CASE FillTemp(t) \/ RenameTemp(t)
    BY <2>5 DEF FillTemp, RenameTemp
  <2>6. CASE FsDelete(t) \/ RemoveFile(t)
    BY <2>6 DEF FsDelete, RemoveFile
  <2>. QED  BY <2>1, <2>2, <2>3, <2>4, <2>5, <2>6 DEF ToolStep
<1>2. \A i \in Inodes : Safe(i) => data'[i] = data[i]
  <2>1. CASE CreateTemp(t)
    <3>1. CASE data' = data
      BY <3>1
    <3>2. ASSUME NEW now \in Instants, pc[t] = "create",
                 OpenTemp(t, <<req[t].path, now>>)
          PROVE  \A i \in Inodes : Safe(i) => data'[i] = data[i]
      <4>1. <<req[t].path, now>> \in Temps
        BY <3>2 DEF Temps, Typed, AtHand, Asking
      <4>. QED  BY <3>2, <4>1, OpeningAvoids
    <3>. QED  BY <2>1, <3>1, <3>2 DEF CreateTemp
  <2>2. CASE FillTemp(t)
    <3>1. pc[t] = "fill" /\ \E d : data' = [data EXCEPT ![file[t]] = d]
      BY <2>2 DEF FillTemp
    <3>. QED  BY <3>1, FillAvoids
  <2>3. CASE data' = data
    BY <2>3
  <2>4. CASE Unroutable(t) \/ BadArgs(t) \/ Report(t) \/ Invoke(t)
    BY <2>3, <2>4 DEF Unroutable, BadArgs, Report, Invoke
  <2>5. CASE FsRead(t) \/ ReadLines(t) \/ ReadPanics(t) \/ FsList(t) \/ FsWrite(t)
    BY <2>3, <2>5 DEF FsRead, ReadLines, ReadPanics, FsList, FsWrite
  <2>6. CASE RenameTemp(t) \/ FsDelete(t) \/ RemoveFile(t)
    BY <2>3, <2>6 DEF RenameTemp, FsDelete, RemoveFile
  <2>. QED  BY <2>1, <2>2, <2>4, <2>5, <2>6 DEF ToolStep
<1>. QED  BY <1>1, <1>2

\* A call, if there is one in sight, is on the path that was asked for.
LEMMA CallPath ==
  ASSUME NEW t \in Tasks
  PROVE  /\ CallOf(t) = NoCall \/ CallOf(t).path = req[t].path
         /\ NoCall.path = Nowhere
BY DEF CallOf, Asked, Answered, NoCall

\* Two writers of one name meet: the path goes out of sight.
LEMMA SharingWaives ==
  ASSUME FilesInv, NEW t \in Tasks, CreateTemp(t), shared' # shared
  PROVE  \E path \in Paths \ shared : Atomic!Waive(path)
<1>. DEFINE p == req[t].path
<1>1. /\ p \in Paths \ shared /\ shared' = shared \cup {p}
      /\ pc[t] = "create" /\ UNCHANGED <<entry, req>>
  BY DEF CreateTemp, Goto, Finish, fsVars, callVars, FilesInv, Typed, AtHand, Asking
<1>2. /\ \A u \in Tasks : u # t =>
           /\ pc'[u] = pc[u] /\ result'[u] = result[u] /\ file'[u] = file[u]
      /\ \A i \in Inodes : Safe(i) => data'[i] = data[i]
  BY Frame DEF ToolStep
<1>3. FilesNow' = [FilesNow EXCEPT ![p] = Nowhere]
  <2>1. \A q \in Paths \ shared :
          entry[q] # Nowhere => data'[entry[q]] = data[entry[q]]
    BY <1>2, PublishedIsSafe DEF FilesInv
  <2>. QED  BY <1>1, <2>1 DEF FilesNow
<1>4. ASSUME NEW u \in Tasks
      PROVE  CallOf(u)' = IF CallOf(u).path = p THEN NoCall ELSE CallOf(u)
  <2>1. CASE req[u].path = p
    <3>1. CallOf(u)' = NoCall
      BY <1>1, <2>1 DEF CallOf
    <3>. QED  BY <2>1, <3>1, CallPath
  <2>2. CASE req[u].path # p
    <3>1. CallOf(u).path # p
      BY <1>1, <2>2, CallPath, FileAssumption
    <3>2. u # t /\ KindOf(u)' = KindOf(u)
      BY <1>1, <2>2 DEF KindOf
    <3>3. pc[u] = "read" /\ Alone(u) => data'[file[u]] = data[file[u]]
      BY <1>2, PublishedIsSafe DEF FilesInv
    <3>4. CallOf(u)' = CallOf(u)
      BY <1>1, <1>2, <2>2, <3>2, <3>3 DEF CallOf, Asked, Answered, OnFiles, Alone
    <3>. QED  BY <3>1, <3>4
  <2>. QED  BY <2>1, <2>2
<1>5. Calls' = [u \in Tasks |-> IF Calls[u].path = p THEN NoCall ELSE Calls[u]]
  BY <1>4 DEF Calls
<1>6. Atomic!Waive(p)
  BY <1>1, <1>3, <1>5 DEF Atomic!Waive, Atomic!NoCall, NoCall, Calls
<1>. QED  BY <1>1, <1>6

\* Nothing that is done to a shared path is seen.
LEMMA OutOfSight ==
  ASSUME FilesInv, NEW t \in Tasks, ToolStep(t), ~ Alone(t), shared' = shared
  PROVE  FilesNow' = FilesNow /\ Calls' = Calls
<1>. USE DEF Goto, Finish, fsVars, callVars
<1>1. Typed /\ Calling /\ Published
  BY DEF FilesInv
<1>2. pc[t] # "idle"
  BY <1>1, FileAssumption DEF Alone, Calling, Typed, FsTyped
<1>3. /\ \A u \in Tasks : u # t =>
           /\ pc'[u] = pc[u] /\ req'[u] = req[u] /\ result'[u] = result[u]
           /\ file'[u] = file[u]
      /\ \A i \in Inodes : Safe(i) => data'[i] = data[i]
  BY Frame
<1>4. /\ \A p \in Paths \ shared : entry'[p] = entry[p]
      /\ req' = req \/ pc'[t] = "idle"
  <2>. USE <1>1, <1>2 DEF Typed, FsTyped, PcTyped, Alone
  <2>1. CASE Unroutable(t) \/ BadArgs(t) \/ Invoke(t)
    BY <2>1 DEF Unroutable, BadArgs, Invoke
  <2>2. CASE Report(t)
    BY <2>2 DEF Report
  <2>3. CASE FsRead(t) \/ ReadLines(t) \/ ReadPanics(t) \/ FsList(t) \/ FsWrite(t)
    BY <2>3 DEF FsRead, ReadLines, ReadPanics, FsList, FsWrite
  <2>4. CASE CreateTemp(t) \/ FillTemp(t) \/ FsDelete(t)
    BY <2>4 DEF CreateTemp, FillTemp, FsDelete
  <2>5. CASE RenameTemp(t) \/ RemoveFile(t)
    BY <2>5 DEF RenameTemp, RemoveFile
  <2>. QED  BY <2>1, <2>2, <2>3, <2>4, <2>5 DEF ToolStep
<1>5. FilesNow' = FilesNow
  BY <1>1, <1>3, <1>4, SameFiles
<1>6. CallOf(t) = NoCall /\ CallOf(t)' = NoCall
  BY <1>4 DEF CallOf, Alone, Asking
<1>7. \A u \in Tasks : u # t => CallOf(u)' = CallOf(u)
  BY <1>1, <1>3, OtherCalls
<1>. QED  BY <1>5, <1>6, <1>7, NoStep

\* A call that is asked for is answered with an error and no effect.
LEMMA Refused ==
  ASSUME FilesInv, NEW t \in Tasks, pc[t] \in Asking, pc'[t] = "report",
         OnFiles(t), Alone(t), req' = req, result'[t] \in ErrorTexts,
         FilesNow' = FilesNow, shared' = shared,
         \A u \in Tasks : u # t => CallOf(u)' = CallOf(u)
  PROVE  Atomic!Refuse(t)
<1>1. CallOf(t) = Asked(t)
  BY DEF CallOf, Alone
<1>2. CallOf(t)' = [Asked(t) EXCEPT !.stage = "answered", !.result = "refused"]
  <2>1. Asked(t)' = Asked(t) /\ OnFiles(t)'
    BY DEF Asked, KindOf, OnFiles
  <2>2. CallOf(t)' = Answered(t, result[t])'
    BY <2>1 DEF CallOf, Asking, Alone
  <2>. QED  BY <2>1, <2>2 DEF Answered
<1>3. Calls' = [Calls EXCEPT ![t] = [@ EXCEPT !.stage = "answered",
                                              !.result = "refused"]]
  BY <1>1, <1>2, OneCall DEF Calls
<1>. QED
  BY <1>1, <1>3 DEF Atomic!Refuse, Atomic!Answer, Calls, Asked

\* A call that is asked for is answered with a result.
LEMMA AnsweredWith ==
  ASSUME FilesInv, NEW t \in Tasks, pc[t] \in Asking, OnFiles(t), Alone(t),
         req' = req, shared' = shared,
         NEW r, r \notin ErrorTexts,
         \/ pc'[t] = "report" /\ result'[t] = r
         \/ pc'[t] = "read" /\ data'[file'[t]] = r,
         \A u \in Tasks : u # t => CallOf(u)' = CallOf(u)
  PROVE  /\ CallOf(t) = Asked(t)
         /\ Calls' = [Calls EXCEPT ![t] = [@ EXCEPT !.stage = "answered",
                                                  !.result = r]]
<1>1. CallOf(t) = Asked(t)
  BY DEF CallOf, Alone
<1>2. CallOf(t)' = [Asked(t) EXCEPT !.stage = "answered", !.result = r]
  <2>1. Asked(t)' = Asked(t) /\ OnFiles(t)'
    BY DEF Asked, KindOf, OnFiles
  <2>2. CASE pc'[t] = "report" /\ result'[t] = r
    BY <2>1, <2>2 DEF CallOf, Answered, Asking, Alone
  <2>3. CASE pc'[t] = "read" /\ data'[file'[t]] = r
    BY <2>1, <2>3 DEF CallOf, Answered, Asking, Alone
  <2>. QED  BY <2>2, <2>3
<1>. QED  BY <1>1, <1>2, OneCall DEF Calls

\* The call stays as it is.
LEMMA StillCalling ==
  ASSUME FilesInv, NEW t \in Tasks, pc[t] \in Asking, pc'[t] \in Asking,
         req' = req, shared' = shared,
         \A u \in Tasks : u # t => CallOf(u)' = CallOf(u)
  PROVE  Calls' = Calls
<1>1. KindOf(t)' = KindOf(t)
  BY DEF KindOf
<1>2. CallOf(t)' = CallOf(t)
  BY <1>1 DEF CallOf, Asked
<1>. QED  BY <1>2, NoStep

\* No call on a file before and after.
LEMMA StillOut ==
  ASSUME FilesInv, NEW t \in Tasks, CallOf(t) = NoCall, CallOf(t)' = NoCall,
         \A u \in Tasks : u # t => CallOf(u)' = CallOf(u)
  PROVE  Calls' = Calls
BY NoStep

\* A step of a task on a path that is not shared is a step of atomic files, or
\* none.
LEMMA AloneStep ==
  ASSUME FilesInv, NEW t \in Tasks, ToolStep(t), Alone(t), shared' = shared
  PROVE  Atomic!FilesNext \/ (FilesNow' = FilesNow /\ Calls' = Calls)
<1>. USE DEF Goto, Finish
<1>1. \A u \in Tasks : u # t => CallOf(u)' = CallOf(u)
  BY Frame, OtherCalls DEF FilesInv
<1>2. entry' = entry => FilesNow' = FilesNow
  BY Frame, SameFiles DEF FilesInv
<1>. HIDE DEF FilesInv
<1>. USE DEF fsVars, callVars, logVars
<1>3. Typed /\ Calling /\ Published /\ Owned
  BY DEF FilesInv
<1>4. pc[t] \in Asking =>
        req[t].path \in Paths /\ OnFiles(t) /\ CallOf(t) = Asked(t)
  BY <1>3 DEF Typed, AtHand, Calling, Asking, OnFiles, CallOf, Alone
<1>5. ASSUME NEW result2 \in ErrorTexts, pc[t] \in Asking,
             Finish(t, pc[t], result2), UNCHANGED <<entry, req>>
      PROVE  Atomic!Refuse(t)
  <2>1. pc'[t] = "report" /\ result'[t] = result2
    BY <1>3, <1>5 DEF Typed, PcTyped
  <2>. QED  BY <1>1, <1>2, <1>4, <1>5, <2>1, Refused
<1>6. CASE Unroutable(t)
  <2>1. CallOf(t)' = CallOf(t)
    BY <1>6 DEF Unroutable, CallOf, Asked, Answered, KindOf, OnFiles
  <2>. QED  BY <1>1, <1>2, <1>6, <2>1, NoStep DEF Unroutable
<1>7. CASE BadArgs(t)
  <2>1. pc[t] = "idle" /\ pc'[t] = "report" /\ req[t].tool = "none" /\ req' = req
    BY <1>3, <1>7 DEF BadArgs, Typed, PcTyped, Calling
  <2>2. CallOf(t) = NoCall /\ CallOf(t)' = NoCall
    BY <2>1 DEF CallOf, OnFiles, Asking
  <2>. QED  BY <1>1, <1>2, <1>7, <2>2, StillOut DEF BadArgs
<1>8. CASE Invoke(t)
  <2>1. PICK tool \in Tools, p \in Paths, v \in Contents :
          /\ Goto(t, "idle", tool)
          /\ req' = [req EXCEPT ![t] =
               [tool |-> tool, path |-> p,
                value |-> IF tool = "fs_write" THEN v ELSE Nowhere]]
    BY <1>8, Invoked
  <2>2. /\ pc[t] = "idle" /\ pc'[t] = tool
        /\ req'[t].tool = tool /\ req'[t].path = p
        /\ req'[t].value = (IF tool = "fs_write" THEN v ELSE Nowhere)
    BY <1>3, <2>1 DEF Typed, PcTyped, ReqTyped
  <2>3. CallOf(t) = NoCall
    BY <2>2 DEF CallOf, Asking
  <2>4. FilesNow' = FilesNow
    BY <1>2, <1>8 DEF Invoke
  <2>5. CASE tool = "fs_list" \/ p \in shared
    <3>1. CallOf(t)' = NoCall
      BY <2>2, <2>5 DEF CallOf, Asking
    <3>. QED  BY <1>1, <2>3, <2>4, <3>1, StillOut
  <2>6. CASE tool # "fs_list" /\ p \notin shared
    <3>1. CallOf(t)' = [stage |-> "asked", kind |-> KindOf(t)', path |-> p,
                        value |-> req'[t].value, result |-> "none"]
      BY <2>2, <2>6 DEF CallOf, Asked, Asking, Tools, Changing
    <3>2. \/ KindOf(t)' \in {"read", "delete"} /\ req'[t].value = Nowhere
          \/ KindOf(t)' = "write" /\ req'[t].value \in Contents
      BY <2>2, <2>6 DEF KindOf, Tools, Changing
    <3>3. CallOf(t)' \in Atomic!Requests
      BY <2>6, <3>1, <3>2 DEF Atomic!Requests
    <3>4. Calls' = [Calls EXCEPT ![t] = Calls'[t]] /\ Calls'[t] = CallOf(t)'
      BY <1>1, OneCall DEF Calls
    <3>5. Atomic!Ask(t)
      <4>1. Calls[t].stage = "out"
        BY <2>3 DEF Calls, NoCall
      <4>. QED  BY <2>4, <3>3, <3>4, <4>1 DEF Atomic!Ask, Calls
    <3>. QED  BY <3>5 DEF Atomic!FilesNext
  <2>. QED  BY <2>5, <2>6
<1>9. CASE Report(t)
  <2>1. pc[t] = "report" /\ pc'[t] = "idle"
    BY <1>3, <1>9 DEF Report, Typed, PcTyped
  <2>2. CallOf(t)' = NoCall /\ FilesNow' = FilesNow
    BY <1>2, <1>9, <2>1 DEF Report, CallOf, Asking
  <2>3. CASE OnFiles(t)
    <3>1. CallOf(t).stage # "out"
      BY <2>1, <2>3 DEF CallOf, Answered, Asked, Asking, Alone
    <3>2. Atomic!Leave(t)
      BY <1>1, <2>2, <3>1, OneCall DEF Atomic!Leave, Atomic!NoCall, NoCall, Calls
    <3>. QED  BY <3>2 DEF Atomic!FilesNext
  <2>4. CASE ~ OnFiles(t)
    <3>1. CallOf(t) = NoCall
      BY <2>1, <2>4 DEF CallOf, Asking
    <3>. QED  BY <1>1, <2>2, <3>1, StillOut
  <2>. QED  BY <2>3, <2>4
<1>10. CASE FsRead(t)
  <2>1. pc[t] = "fs_read" /\ pc[t] \in Asking /\ req' = req /\ entry' = entry
    BY <1>10 DEF FsRead, Asking
  <2>2. KindOf(t) = "read"
    BY <1>3, <2>1 DEF KindOf, Calling
  <2>3. CASE /\ Goto(t, "fs_read", "read")
             /\ entry[req[t].path] # Nowhere
             /\ file' = [file EXCEPT ![t] = entry[req[t].path]]
             /\ UNCHANGED fsVars
    <3>. DEFINE r == data[entry[req[t].path]]
    <3>1. pc'[t] = "read" /\ data'[file'[t]] = r
      BY <1>3, <2>3 DEF Typed, PcTyped
    <3>2. r \in Contents /\ r \notin ErrorTexts
      BY <1>3, <1>4, <2>1, <2>3, FileAssumption DEF Published, Whole, Alone
    <3>3. Calls' = [Calls EXCEPT ![t] = [@ EXCEPT !.stage = "answered",
                                                  !.result = r]]
      BY <1>1, <1>4, <2>1, <3>1, <3>2, AnsweredWith
    <3>4. FilesNow[req[t].path] = r /\ r # Nowhere
      BY <1>4, <2>1, <2>3, <3>2, FileAssumption DEF FilesNow, Alone
    <3>5. Atomic!Read(t)
      <4>1. Calls[t].path = req[t].path /\ Atomic!Asks(t, "read")
        BY <1>4, <2>1, <2>2 DEF Calls, Asked, Atomic!Asks
      <4>. HIDE DEF r
      <4>. QED
        BY <1>2, <2>1, <3>3, <3>4, <4>1 DEF Atomic!Read, Atomic!Answer, Calls
    <3>. QED  BY <3>5 DEF Atomic!FilesNext
  <2>4. CASE NotThere(req[t].path) /\ Finish(t, "fs_read", "not_found")
    <3>1. pc'[t] = "report" /\ result'[t] = "not_found"
      BY <1>3, <2>4 DEF Typed, PcTyped
    <3>2. Calls' = [Calls EXCEPT ![t] = [@ EXCEPT !.stage = "answered",
                                                  !.result = "not_found"]]
      BY <1>1, <1>4, <2>1, <3>1, AnsweredWith DEF ErrorTexts
    <3>3. FilesNow[req[t].path] = Nowhere
      BY <1>4, <2>1, <2>4 DEF FilesNow, NotThere
    <3>4. Atomic!NotFound(t)
      <4>1. Calls[t].path = req[t].path /\ Atomic!Asks(t, "read")
        BY <1>4, <2>1, <2>2 DEF Calls, Asked, Atomic!Asks
      <4>. QED
        BY <1>2, <2>1, <3>2, <3>3, <4>1
        DEF Atomic!NotFound, Atomic!Answer, Calls
    <3>. QED  BY <3>4 DEF Atomic!FilesNext
  <2>5. CASE Finish(t, "fs_read", "io")
    <3>1. Atomic!Refuse(t)
      BY <1>5, <2>1, <2>5 DEF ErrorTexts
    <3>. QED  BY <3>1 DEF Atomic!FilesNext
  <2>. QED  BY <1>10, <2>3, <2>4, <2>5 DEF FsRead
<1>11. CASE ReadLines(t)
  <2>1. /\ pc[t] = "read" /\ pc'[t] = "report" /\ req' = req
        /\ result'[t] = data[file[t]] /\ OnFiles(t)
    BY <1>3, <1>11 DEF ReadLines, Typed, PcTyped, Calling, OnFiles
  <2>2. Asked(t)' = Asked(t) /\ OnFiles(t)'
    BY <2>1 DEF Asked, KindOf, OnFiles
  <2>3. CallOf(t)' = CallOf(t)
    BY <2>1, <2>2 DEF CallOf, Answered, Asking, Alone
  <2>. QED  BY <1>1, <1>2, <1>11, <2>3, NoStep DEF ReadLines
<1>12. CASE ReadPanics(t)
  <2>1. pc[t] = "read" /\ pc'[t] = "panicked" /\ FilesNow' = FilesNow
    BY <1>2, <1>3, <1>12 DEF ReadPanics, Typed, PcTyped
  <2>2. CallOf(t).stage # "out" /\ CallOf(t)' = NoCall
    BY <2>1 DEF CallOf, Answered, Asked, Asking, Alone
  <2>3. Atomic!Leave(t)
    BY <1>1, <2>1, <2>2, OneCall DEF Atomic!Leave, Atomic!NoCall, NoCall, Calls
  <2>. QED  BY <2>3 DEF Atomic!FilesNext
<1>13. CASE FsList(t)
  <2>1. /\ pc[t] = "fs_list" /\ pc'[t] = "report" /\ req' = req
        /\ entry' = entry /\ req[t].tool = "fs_list"
    BY <1>3, <1>13 DEF FsList, Typed, PcTyped, Calling
  <2>2. CallOf(t) = NoCall /\ CallOf(t)' = NoCall
    BY <2>1 DEF CallOf, OnFiles, Asking
  <2>. QED  BY <1>1, <1>2, <2>1, <2>2, StillOut
<1>14. CASE FsWrite(t)
  <2>1. pc[t] = "fs_write" /\ pc[t] \in Asking /\ req' = req /\ entry' = entry
    BY <1>14 DEF FsWrite, Asking
  <2>2. CASE Goto(t, "fs_write", "create")
    <3>1. pc'[t] \in Asking
      BY <1>3, <2>2 DEF Typed, PcTyped, Asking
    <3>. QED  BY <1>1, <1>2, <2>1, <3>1, StillCalling
  <2>3. CASE \E what \in ErrorTexts : Finish(t, "fs_write", what)
    <3>1. Atomic!Refuse(t)
      BY <1>5, <2>1, <2>3
    <3>. QED  BY <3>1 DEF Atomic!FilesNext
  <2>. QED  BY <1>14, <2>2, <2>3 DEF FsWrite, ErrorTexts
<1>15. CASE CreateTemp(t)
  <2>1. pc[t] = "create" /\ pc[t] \in Asking /\ req' = req /\ entry' = entry
    BY <1>15 DEF CreateTemp, Asking
  <2>2. CASE Goto(t, "create", "fill")
    <3>1. pc'[t] \in Asking
      BY <1>3, <2>2 DEF Typed, PcTyped, Asking
    <3>. QED  BY <1>1, <1>2, <2>1, <3>1, StillCalling
  <2>3. CASE Finish(t, "create", "io")
    <3>1. Atomic!Refuse(t)
      BY <1>5, <2>1, <2>3 DEF ErrorTexts
    <3>. QED  BY <3>1 DEF Atomic!FilesNext
  <2>. QED  BY <1>15, <2>2, <2>3 DEF CreateTemp
<1>16. CASE FillTemp(t)
  <2>1. pc[t] = "fill" /\ pc[t] \in Asking /\ req' = req /\ entry' = entry
    BY <1>16 DEF FillTemp, Asking
  <2>2. CASE Goto(t, "fill", "rename")
    <3>1. pc'[t] \in Asking
      BY <1>3, <2>2 DEF Typed, PcTyped, Asking
    <3>. QED  BY <1>1, <1>2, <2>1, <3>1, StillCalling
  <2>3. CASE Finish(t, "fill", "io")
    <3>1. Atomic!Refuse(t)
      BY <1>5, <2>1, <2>3 DEF ErrorTexts
    <3>. QED  BY <3>1 DEF Atomic!FilesNext
  <2>. QED  BY <1>16, <2>2, <2>3 DEF FillTemp
<1>17. CASE RenameTemp(t)
  <2>1. pc[t] = "rename" /\ pc[t] \in Asking /\ req' = req
    BY <1>17 DEF RenameTemp, Asking
  <2>2. CASE /\ Finish(t, "rename", "done")
             /\ entry' = [entry EXCEPT ![req[t].path] = temp[TempOf(t)]]
             /\ data' = data
    <3>1. pc'[t] = "report" /\ result'[t] = "done"
      BY <1>3, <2>2 DEF Typed, PcTyped
    <3>2. Calls' = [Calls EXCEPT ![t] = [@ EXCEPT !.stage = "answered",
                                                  !.result = "done"]]
      BY <1>1, <1>4, <2>1, <3>1, AnsweredWith DEF ErrorTexts
    <3>3. /\ temp[TempOf(t)] # Nowhere /\ data[temp[TempOf(t)]] = req[t].value
          /\ KindOf(t) = "write"
      BY <1>3, <2>1 DEF Owned, Writing, Calling, KindOf
    <3>4. entry'[req[t].path] = temp[TempOf(t)]
          /\ \A p \in Paths : p # req[t].path => entry'[p] = entry[p]
      BY <1>3, <1>4, <2>1, <2>2 DEF Typed, FsTyped
    <3>5. FilesNow' = [FilesNow EXCEPT ![req[t].path] = req[t].value]
      <4>1. req[t].value # Nowhere /\ temp[TempOf(t)] # Nowhere
        BY <1>3, <2>1, <3>3, FileAssumption DEF Calling
      <4>2. FilesNow'[req[t].path] = req[t].value
        BY <1>4, <2>1, <2>2, <3>3, <3>4, <4>1 DEF FilesNow, Alone
      <4>3. \A p \in Paths : p # req[t].path => FilesNow'[p] = FilesNow[p]
        BY <2>2, <3>4 DEF FilesNow
      <4>. QED  BY <4>2, <4>3 DEF FilesNow
    <3>6. Atomic!Write(t)
      <4>1. /\ Calls[t].path = req[t].path /\ Calls[t].value = req[t].value
            /\ Atomic!Asks(t, "write")
        BY <1>4, <2>1, <3>3 DEF Calls, Asked, Atomic!Asks
      <4>. QED  BY <3>2, <3>5, <4>1 DEF Atomic!Write, Atomic!Answer, Calls
    <3>. QED  BY <3>6 DEF Atomic!FilesNext
  <2>3. CASE Finish(t, "rename", "io") /\ UNCHANGED fsVars
    <3>1. Atomic!Refuse(t)
      BY <1>5, <2>1, <2>3 DEF ErrorTexts
    <3>. QED  BY <3>1 DEF Atomic!FilesNext
  <2>. QED  BY <1>17, <2>2, <2>3 DEF RenameTemp, TempOf
<1>18. CASE FsDelete(t)
  <2>1. pc[t] = "fs_delete" /\ pc[t] \in Asking /\ req' = req /\ entry' = entry
    BY <1>18 DEF FsDelete, Asking
  <2>2. KindOf(t) = "delete"
    BY <1>3, <2>1 DEF KindOf, Calling
  <2>3. CASE Goto(t, "fs_delete", "remove")
    <3>1. pc'[t] \in Asking
      BY <1>3, <2>3 DEF Typed, PcTyped, Asking
    <3>. QED  BY <1>1, <1>2, <2>1, <3>1, StillCalling
  <2>4. CASE NotThere(req[t].path) /\ Finish(t, "fs_delete", "not_found")
    <3>1. pc'[t] = "report" /\ result'[t] = "not_found"
      BY <1>3, <2>4 DEF Typed, PcTyped
    <3>2. Calls' = [Calls EXCEPT ![t] = [@ EXCEPT !.stage = "answered",
                                                  !.result = "not_found"]]
      BY <1>1, <1>4, <2>1, <3>1, AnsweredWith DEF ErrorTexts
    <3>3. FilesNow[req[t].path] = Nowhere
      BY <1>4, <2>1, <2>4 DEF FilesNow, NotThere
    <3>4. Atomic!NotFound(t)
      BY <1>2, <1>4, <2>1, <2>2, <3>2, <3>3
      DEF Atomic!NotFound, Atomic!Asks, Atomic!Answer, Calls, Asked
    <3>. QED  BY <3>4 DEF Atomic!FilesNext
  <2>5. CASE \E what \in ErrorTexts : Finish(t, "fs_delete", what)
    <3>1. Atomic!Refuse(t)
      BY <1>5, <2>1, <2>5
    <3>. QED  BY <3>1 DEF Atomic!FilesNext
  <2>. QED  BY <1>18, <2>3, <2>4, <2>5 DEF FsDelete, ErrorTexts
<1>19. CASE RemoveFile(t)
  <2>1. pc[t] = "remove" /\ pc[t] \in Asking /\ req' = req /\ data' = data
    BY <1>19 DEF RemoveFile, Asking
  <2>2. CASE /\ entry[req[t].path] # Nowhere
             /\ entry' = [entry EXCEPT ![req[t].path] = Nowhere]
             /\ Finish(t, "remove", "done")
    <3>1. pc'[t] = "report" /\ result'[t] = "done"
      BY <1>3, <2>2 DEF Typed, PcTyped
    <3>2. Calls' = [Calls EXCEPT ![t] = [@ EXCEPT !.stage = "answered",
                                                  !.result = "done"]]
      BY <1>1, <1>4, <2>1, <3>1, AnsweredWith DEF ErrorTexts
    <3>3. KindOf(t) = "delete"
      BY <1>3, <2>1 DEF Calling, KindOf
    <3>4. entry'[req[t].path] = Nowhere
          /\ \A p \in Paths : p # req[t].path => entry'[p] = entry[p]
      BY <1>3, <1>4, <2>1, <2>2 DEF Typed, FsTyped
    <3>5. FilesNow' = [FilesNow EXCEPT ![req[t].path] = Nowhere]
      BY <1>4, <2>1, <3>4 DEF FilesNow
    <3>6. FilesNow[req[t].path] # Nowhere
      BY <1>3, <1>4, <2>1, <2>2, FileAssumption DEF FilesNow, Published, Whole, Alone
    <3>7. Atomic!Delete(t)
      <4>1. Calls[t].path = req[t].path /\ Atomic!Asks(t, "delete")
        BY <1>4, <2>1, <3>3 DEF Calls, Asked, Atomic!Asks
      <4>2. FilesNow[Calls[t].path] # Nowhere
            /\ FilesNow' = [FilesNow EXCEPT ![Calls[t].path] = Nowhere]
        BY <3>5, <3>6, <4>1
      <4>. QED  BY <3>2, <4>1, <4>2 DEF Atomic!Delete, Atomic!Answer, Calls
    <3>. QED  BY <3>7 DEF Atomic!FilesNext
  <2>3. CASE Finish(t, "remove", "io") /\ entry' = entry
    <3>1. Atomic!Refuse(t)
      BY <1>5, <2>1, <2>3 DEF ErrorTexts
    <3>. QED  BY <3>1 DEF Atomic!FilesNext
  <2>. QED  BY <1>19, <2>2, <2>3 DEF RemoveFile
<1>. QED
  BY <1>6, <1>7, <1>8, <1>9, <1>10, <1>11, <1>12, <1>13, <1>14, <1>15,
     <1>16, <1>17, <1>18, <1>19 DEF ToolStep

\* Each step of the tools is a step of atomic files, or none.
LEMMA StepRefines ==
  ASSUME FilesInv, [Next]_vars
  PROVE  [Atomic!FilesNext]_(Atomic!filesVars)
<1>1. Atomic!filesVars = <<FilesNow, Calls, shared>>
      /\ Atomic!filesVars' = <<FilesNow', Calls', shared'>>
  BY DEF Atomic!filesVars, Calls
<1>2. CASE UNCHANGED vars
  <2>1. FilesNow' = FilesNow
    BY <1>2 DEF vars, fsVars, FilesNow
  <2>2. ASSUME NEW t \in Tasks PROVE CallOf(t)' = CallOf(t)
    BY <1>2 DEF vars, fsVars, callVars, CallOf, Asked, Answered, KindOf, OnFiles
  <2>. QED  BY <1>1, <1>2, <2>1, <2>2 DEF Calls, vars, fsVars
<1>3. CASE AllDone
  BY <1>2, <1>3 DEF AllDone
<1>4. CASE Crash
  <2>1. FilesNow' = FilesNow /\ shared' = shared
    BY <1>4 DEF Crash, fsVars, FilesNow
  <2>2. \A t \in Tasks : CallOf(t)' = NoCall
    BY <1>4 DEF Crash, CallOf, Asking
  <2>3. Atomic!Die
    BY <2>1, <2>2 DEF Atomic!Die, Atomic!NoCall, NoCall, Calls
  <2>. QED  BY <2>3 DEF Atomic!FilesNext
<1>5. ASSUME NEW t \in Tasks, ToolStep(t)
      PROVE  \/ Atomic!FilesNext
             \/ FilesNow' = FilesNow /\ Calls' = Calls /\ shared' = shared
  <2>1. CASE shared' # shared
    <3>1. CreateTemp(t)
      BY <1>5, <2>1
      DEF ToolStep, Unroutable, BadArgs, Invoke, Report, FsRead, ReadLines,
          ReadPanics, FsList, FsWrite, FillTemp, RenameTemp, FsDelete, RemoveFile,
          fsVars
    <3>. QED  BY <2>1, <3>1, SharingWaives DEF Atomic!FilesNext
  <2>2. CASE shared' = shared /\ Alone(t)
    BY <1>5, <2>2, AloneStep
  <2>3. CASE shared' = shared /\ ~ Alone(t)
    BY <1>5, <2>3, OutOfSight
  <2>. QED  BY <2>1, <2>2, <2>3
<1>. QED  BY <1>1, <1>2, <1>3, <1>4, <1>5 DEF Next

\* The initial files are files.
LEMMA InitRefines == Init => Atomic!FilesInit
<1> SUFFICES ASSUME Init PROVE Atomic!FilesInit
  OBVIOUS
<1>1. FilesInv
  BY InitFilesInv
<1>2. FilesNow \in [Paths -> Contents \cup {Nowhere}]
  BY <1>1 DEF FilesInv, Published, Whole, FilesNow
<1>3. \A t \in Tasks : CallOf(t) = NoCall
  BY DEF Init, CallOf, Asking
<1>. QED  BY <1>2, <1>3 DEF Init, Atomic!FilesInit, Atomic!NoCall, NoCall

\* For any number of tasks, paths and calls, whatever fails, whenever the process
\* dies and whatever the clock reads, the tools are atomic operations on every
\* path of which no two writers have had the same temporary file at once.
THEOREM ToolsImplementAtomicFiles == Spec => ToolsAreAtomic
<1>1. Init => Atomic!FilesInit
  BY InitRefines
<1>2. FilesInv /\ [Next]_vars => [Atomic!FilesNext]_(Atomic!filesVars)
  BY StepRefines
<1>. QED
  BY <1>1, <1>2, FilesInvariance, PTL DEF Spec, ToolsAreAtomic, Atomic!FilesSpec

-----------------------------------------------------------------------------
(* The log.                                                                *)

\* Changes made and not yet reported.
Pending(t) == IF pc[t] = "report" /\ result[t] = "done" THEN 1 ELSE 0

LogInv ==
  \A t \in Tasks :
    /\ told[t] + Pending(t) <= effects[t]
    /\ effects[t] <= told[t] + faults + crashes + Pending(t)

\* Each step makes one change and owes its event, reports one, or loses one to
\* a failure or to the death of the process.
LEMMA StepLogInv == Typed /\ LogInv /\ [Next]_vars => LogInv'
<1> SUFFICES ASSUME Typed, LogInv, [Next]_vars PROVE LogInv'
  OBVIOUS
<1>1. /\ pc \in [Tasks -> Asking \cup {"idle", "fs_list", "read", "report", "panicked"}]
      /\ result \in [Tasks -> Results]
      /\ told \in [Tasks -> Nat] /\ effects \in [Tasks -> Nat]
      /\ faults \in Nat /\ crashes \in Nat
  BY FileAssumption DEF Typed, PcTyped, Counted
<1>. USE DEF Goto, Finish, logVars
<1>2. ASSUME UNCHANGED <<pc, result, told, effects, faults, crashes>>
      PROVE  LogInv'
  BY <1>2 DEF LogInv, Pending
<1>3. CASE UNCHANGED vars \/ AllDone
  BY <1>2, <1>3 DEF AllDone, vars
<1>4. CASE Crash
  BY <1>1, <1>4 DEF Crash, LogInv, Pending
<1>5. ASSUME NEW t \in Tasks, ToolStep(t) PROVE LogInv'
  <2>1. ASSUME pc[t] # "report", pc' = [pc EXCEPT ![t] = pc'[t]],
               pc'[t] # "report" \/ result'[t] # "done",
               \A u \in Tasks : u # t => result'[u] = result[u],
               UNCHANGED <<told, effects, crashes>>,
               faults' = faults \/ faults' = faults + 1
        PROVE  LogInv'
    <3>1. \A u \in Tasks : Pending(u)' = Pending(u)
      BY <1>1, <2>1 DEF Pending
    <3>2. \A u \in Tasks : Pending(u) \in Nat
      BY DEF Pending
    <3>. QED  BY <1>1, <2>1, <3>1, <3>2 DEF LogInv
  <2>2. ASSUME pc[t] # "report", pc' = [pc EXCEPT ![t] = "report"],
               result' = [result EXCEPT ![t] = "done"], Changed(t),
               UNCHANGED <<told, crashes, faults>>
        PROVE  LogInv'
    <3>1. Pending(t) = 0 /\ Pending(t)' = 1 /\ effects'[t] = effects[t] + 1
      BY <1>1, <2>2 DEF Pending, Changed
    <3>2. \A u \in Tasks : u # t => Pending(u)' = Pending(u) /\ effects'[u] = effects[u]
      BY <1>1, <2>2 DEF Pending, Changed
    <3>3. \A u \in Tasks : Pending(u) \in Nat
      BY DEF Pending
    <3>. QED  BY <1>1, <2>2, <3>1, <3>2, <3>3 DEF LogInv
  <2>. USE DEF SystemCallFails
  <2>3. CASE Unroutable(t)
    BY <1>2, <2>3 DEF Unroutable
  <2>4. CASE BadArgs(t)
    BY <1>1, <2>1, <2>4 DEF BadArgs
  <2>5. CASE Invoke(t)
    <3>1. PICK tool \in Tools :
            /\ Goto(t, "idle", tool)
            /\ IF tool \in Changing THEN CalledOnce(t) ELSE UNCHANGED <<called, faults>>
            /\ UNCHANGED <<result, told, effects, crashes>>
      BY <2>5 DEF Invoke
    <3>2. faults' = faults \/ faults' = faults + 1
      BY <3>1 DEF CalledOnce
    <3>. QED  BY <1>1, <2>1, <3>1, <3>2 DEF Tools, Changing
  <2>6. CASE Report(t)
    <3>1. pc[t] = "report" /\ Pending(t)' = 0 /\ UNCHANGED <<effects, crashes>>
      BY <1>1, <2>6 DEF Report, Pending
    <3>2. \A u \in Tasks : u # t => Pending(u)' = Pending(u)
      BY <1>1, <2>6 DEF Report, Pending
    <3>3. \A u \in Tasks : Pending(u) \in Nat
      BY DEF Pending
    <3>4. CASE result[t] = "done" /\ told' = [told EXCEPT ![t] = @ + 1] /\ faults' = faults
      <4>1. Pending(t) = 1 /\ told'[t] = told[t] + 1
            /\ \A u \in Tasks : u # t => told'[u] = told[u]
        BY <1>1, <3>1, <3>4 DEF Pending
      <4>. QED  BY <1>1, <3>1, <3>2, <3>3, <3>4, <4>1 DEF LogInv
    <3>5. CASE result[t] = "done" /\ told' = told /\ faults' = faults + 1
      <4>1. Pending(t) = 1
        BY <3>1, <3>5 DEF Pending
      <4>. QED  BY <1>1, <3>1, <3>2, <3>3, <3>5, <4>1 DEF LogInv
    <3>6. CASE result[t] # "done" /\ told' = told /\ faults' = faults
      <4>1. Pending(t) = 0
        BY <3>6 DEF Pending
      <4>. QED  BY <1>1, <3>1, <3>2, <3>3, <3>6, <4>1 DEF LogInv
    <3>. QED  BY <2>6, <3>4, <3>5, <3>6 DEF Report, ToldOnce
  <2>7. CASE FsRead(t)
    BY <1>1, <2>1, <2>7 DEF FsRead
  <2>8. CASE ReadLines(t)
    <3>1. pc[t] = "read" => data[file[t]] # "done"
      BY FileAssumption DEF Typed, AtHand, FsTyped, Held
    <3>. QED  BY <1>1, <2>1, <2>8, <3>1 DEF ReadLines
  <2>9. CASE ReadPanics(t)
    BY <1>1, <2>1, <2>9 DEF ReadPanics
  <2>10. CASE FsList(t)
    BY <1>1, <2>1, <2>10 DEF FsList
  <2>11. CASE FsWrite(t)
    BY <1>1, <2>1, <2>11 DEF FsWrite
  <2>12. CASE CreateTemp(t)
    BY <1>1, <2>1, <2>12 DEF CreateTemp
  <2>13. CASE FillTemp(t)
    BY <1>1, <2>1, <2>13 DEF FillTemp
  <2>14. CASE RenameTemp(t)
    BY <1>1, <2>1, <2>2, <2>14 DEF RenameTemp
  <2>15. CASE FsDelete(t)
    BY <1>1, <2>1, <2>15 DEF FsDelete
  <2>16. CASE RemoveFile(t)
    BY <1>1, <2>1, <2>2, <2>16 DEF RemoveFile
  <2>. QED
    BY <1>5, <2>3, <2>4, <2>5, <2>6, <2>7, <2>8, <2>9, <2>10, <2>11, <2>12,
       <2>13, <2>14, <2>15, <2>16 DEF ToolStep
<1>. QED  BY <1>3, <1>4, <1>5 DEF Next

\* A change that a call may still make.
Due(t) ==
  IF pc[t] \in {"fs_write", "create", "fill", "rename", "fs_delete", "remove"}
  THEN 1 ELSE 0

AheadInv == \A t \in Tasks : effects[t] + Due(t) <= called[t] + faults

\* A call is logged, or its append fails, before it may make its one change.
LEMMA StepAheadInv == Typed /\ AheadInv /\ [Next]_vars => AheadInv'
<1> SUFFICES ASSUME Typed, AheadInv, [Next]_vars PROVE AheadInv'
  OBVIOUS
<1>1. /\ pc \in [Tasks -> Asking \cup {"idle", "fs_list", "read", "report", "panicked"}]
      /\ called \in [Tasks -> Nat] /\ effects \in [Tasks -> Nat]
      /\ faults \in Nat
  BY FileAssumption DEF Typed, PcTyped, Counted
<1>2. \A u \in Tasks : Due(u) \in {0, 1} /\ Due(u)' \in {0, 1}
  BY DEF Due
<1>. USE DEF Goto, Finish, logVars
<1>3. CASE UNCHANGED vars \/ AllDone
  BY <1>3 DEF AllDone, vars, AheadInv, Due
<1>4. CASE Crash
  BY <1>1, <1>2, <1>4 DEF Crash, AheadInv, Due
<1>5. ASSUME NEW t \in Tasks, ToolStep(t) PROVE AheadInv'
  <2>1. ASSUME pc' = [pc EXCEPT ![t] = pc'[t]],
               effects' = [effects EXCEPT ![t] = effects'[t]],
               called' = [called EXCEPT ![t] = called'[t]],
               faults' = faults \/ faults' = faults + 1,
               effects'[t] + Due(t)' <= called'[t] + faults'
        PROVE  AheadInv'
    <3>1. \A u \in Tasks : u # t => Due(u)' = Due(u)
      BY <1>1, <2>1 DEF Due
    <3>2. ASSUME NEW u \in Tasks, u # t
          PROVE  effects'[u] + Due(u)' <= called'[u] + faults'
      <4>1. effects'[u] = effects[u] /\ called'[u] = called[u]
        BY <1>1, <2>1, <3>2
      <4>. QED  BY <1>1, <1>2, <2>1, <3>1, <3>2, <4>1 DEF AheadInv
    <3>. QED  BY <2>1, <3>2 DEF AheadInv
  <2>2. ASSUME pc' = [pc EXCEPT ![t] = pc'[t]], Due(t)' = 1 => Due(t) = 1,
               UNCHANGED <<effects, called>>,
               faults' = faults \/ faults' = faults + 1
        PROVE  AheadInv'
    <3>1. effects'[t] + Due(t)' <= called'[t] + faults'
      BY <1>1, <1>2, <2>2 DEF AheadInv
    <3>2. /\ effects' = [effects EXCEPT ![t] = effects'[t]]
          /\ called' = [called EXCEPT ![t] = called'[t]]
      BY <1>1, <2>2
    <3>. QED  BY <2>1, <2>2, <3>1, <3>2
  <2>3. ASSUME pc[t] \in {"rename", "remove"}, pc' = [pc EXCEPT ![t] = "report"],
               Changed(t), UNCHANGED <<called, faults>>
        PROVE  AheadInv'
    <3>1. Due(t) = 1 /\ Due(t)' = 0 /\ effects'[t] = effects[t] + 1
      BY <1>1, <2>3 DEF Due, Changed
    <3>2. effects'[t] + Due(t)' <= called'[t] + faults'
      BY <1>1, <2>3, <3>1 DEF AheadInv
    <3>3. /\ pc' = [pc EXCEPT ![t] = pc'[t]]
          /\ effects' = [effects EXCEPT ![t] = effects'[t]]
          /\ called' = [called EXCEPT ![t] = called'[t]]
      BY <1>1, <2>3 DEF Changed
    <3>. QED  BY <2>1, <2>3, <3>2, <3>3
  <2>. USE DEF SystemCallFails
  <2>4. CASE Unroutable(t)
    <3>1. pc' = [pc EXCEPT ![t] = pc'[t]] /\ Due(t)' = Due(t)
      BY <1>1, <2>4 DEF Unroutable, Due
    <3>. QED  BY <2>2, <2>4, <3>1 DEF Unroutable
  <2>5. CASE BadArgs(t)
    BY <1>1, <2>2, <2>5 DEF BadArgs, Due
  <2>6. CASE Invoke(t)
    <3>1. PICK tool \in Tools :
            /\ Goto(t, "idle", tool)
            /\ IF tool \in Changing THEN CalledOnce(t) ELSE UNCHANGED <<called, faults>>
            /\ UNCHANGED effects
      BY <2>6 DEF Invoke
    <3>2. Due(t) = 0 /\ pc' = [pc EXCEPT ![t] = pc'[t]] /\ pc'[t] = tool
      BY <1>1, <3>1 DEF Due
    <3>3. CASE tool \notin Changing
      <4>1. Due(t)' = 0
        BY <3>2, <3>3 DEF Due, Tools, Changing
      <4>. QED  BY <2>2, <3>1, <3>2, <3>3, <4>1
    <3>4. CASE CalledOnce(t)
      <4>1. /\ called' = [called EXCEPT ![t] = called'[t]]
            /\ faults' = faults \/ faults' = faults + 1
            /\ called'[t] + faults' = called[t] + faults + 1
        BY <1>1, <3>4 DEF CalledOnce
      <4>2. effects'[t] + Due(t)' <= called'[t] + faults'
        BY <1>1, <1>2, <3>1, <3>2, <4>1 DEF AheadInv
      <4>3. effects' = [effects EXCEPT ![t] = effects'[t]]
        BY <1>1, <3>1
      <4>. QED  BY <2>1, <3>2, <4>1, <4>2, <4>3
    <3>. QED  BY <3>1, <3>3, <3>4
  <2>7. CASE Report(t)
    <3>1. /\ pc' = [pc EXCEPT ![t] = "idle"] /\ UNCHANGED <<effects, called>>
          /\ faults' = faults \/ faults' = faults + 1
      BY <2>7 DEF Report, ToldOnce
    <3>. QED  BY <1>1, <2>2, <3>1 DEF Due
  <2>8. CASE FsRead(t)
    BY <1>1, <2>2, <2>8 DEF FsRead, Due
  <2>9. CASE ReadLines(t) \/ ReadPanics(t)
    BY <1>1, <2>2, <2>9 DEF ReadLines, ReadPanics, Due
  <2>10. CASE FsList(t)
    BY <1>1, <2>2, <2>10 DEF FsList, Due
  <2>11. CASE FsWrite(t)
    BY <1>1, <2>2, <2>11 DEF FsWrite, Due
  <2>12. CASE CreateTemp(t)
    BY <1>1, <2>2, <2>12 DEF CreateTemp, Due
  <2>13. CASE FillTemp(t)
    BY <1>1, <2>2, <2>13 DEF FillTemp, Due
  <2>14. CASE RenameTemp(t)
    BY <1>1, <2>2, <2>3, <2>14 DEF RenameTemp, Due
  <2>15. CASE FsDelete(t)
    BY <1>1, <2>2, <2>15 DEF FsDelete, Due
  <2>16. CASE RemoveFile(t)
    BY <1>1, <2>2, <2>3, <2>16 DEF RemoveFile, Due
  <2>. QED
    BY <1>5, <2>4, <2>5, <2>6, <2>7, <2>8, <2>9, <2>10, <2>11, <2>12,
       <2>13, <2>14, <2>15, <2>16 DEF ToolStep
<1>. QED  BY <1>3, <1>4, <1>5 DEF Next

\* The log never claims a change that did not take place, misses the result of one
\* only for a failed append or a death of the process, and has the call before the
\* change unless its append failed.
THEOREM ChangesAreLogged == Spec => []EffectsAreLogged
<1>1. Init => LogInv /\ AheadInv
  BY DEF Init, LogInv, Pending, AheadInv, Due
<1>2. FilesInv /\ LogInv /\ AheadInv /\ [Next]_vars => LogInv' /\ AheadInv'
  BY StepLogInv, StepAheadInv DEF FilesInv
<1>3. FilesInv /\ LogInv /\ AheadInv => EffectsAreLogged
  <2> SUFFICES ASSUME FilesInv, LogInv, AheadInv, NEW t \in Tasks
               PROVE  /\ effects[t] <= called[t] + faults
                      /\ told[t] <= effects[t]
                      /\ effects[t] <= told[t] + faults + crashes + Pending(t)
    BY DEF EffectsAreLogged, Pending
  <2>1. /\ told[t] \in Nat /\ effects[t] \in Nat /\ called[t] \in Nat
        /\ faults \in Nat /\ Pending(t) \in Nat /\ Due(t) \in Nat
    BY FileAssumption DEF FilesInv, Typed, Counted, Pending, Due
  <2>. QED  BY <2>1 DEF LogInv, AheadInv
<1>. QED  BY <1>1, <1>2, <1>3, FilesInvariance, PTL DEF Spec

-----------------------------------------------------------------------------
(* What is left behind.                                                    *)

\* The litter that needs a cause.
Left == {n \in Litter : n[1] \notin Directories}

LitterInv == IsFiniteSet(Left) /\ LitterHasACause

\* A step of t leaves at most its own temporary file, and that only if it has given
\* it up.
LEMMA OneLeft ==
  ASSUME NEW t \in Tasks,
         \A u \in Tasks \ {t} :
           pc'[u] = pc[u] /\ req'[u] = req[u] /\ stamp'[u] = stamp[u],
         \A n \in Temps :
           temp'[n] # Nowhere =>
             \/ temp[n] # Nowhere
             \/ Writing(t)' /\ n = TempOf(t)'
  PROVE  /\ Left' \subseteq Left \cup {TempOf(t)}
         /\ ~Writing(t) \/ (Writing(t)' /\ TempOf(t)' = TempOf(t))
              => Left' \subseteq Left
<1>1. \A u \in Tasks \ {t} : Writing(u)' = Writing(u) /\ TempOf(u)' = TempOf(u)
  BY DEF Writing, TempOf
<1>2. ASSUME NEW n \in Left'
      PROVE  /\ n \in Temps /\ temp'[n] # Nowhere /\ n[1] \notin Directories
             /\ \A u \in Tasks : Writing(u)' => n # TempOf(u)'
  BY DEF Left, Litter, InUse, Writing
<1>3. ASSUME NEW n \in Temps, temp[n] # Nowhere, n[1] \notin Directories,
             \A u \in Tasks : Writing(u) => n # TempOf(u)
      PROVE  n \in Left
  BY <1>3 DEF Left, Litter, InUse, Writing
<1>4. \A n \in Left' : temp[n] # Nowhere
  BY <1>2
<1>5. ASSUME NEW n \in Left', n # TempOf(t)
      PROVE  n \in Left
  BY <1>1, <1>2, <1>3, <1>4, <1>5
<1>6. ASSUME NEW n \in Left',
             ~Writing(t) \/ (Writing(t)' /\ TempOf(t)' = TempOf(t))
      PROVE  n \in Left
  BY <1>1, <1>2, <1>3, <1>4, <1>6
<1>. QED  BY <1>5, <1>6

\* k pieces of litter more, of which the counters know.
LEMMA MoreLitter ==
  ASSUME LitterInv, Counted, Counted', NEW X, IsFiniteSet(X),
         Left' \subseteq Left \cup X,
         faults' + Cardinality(Tasks) * crashes' >=
           faults + Cardinality(Tasks) * crashes + Cardinality(X)
  PROVE  LitterInv'
<1>1. /\ IsFiniteSet(Left \cup X)
      /\ Cardinality(Left \cup X) =
           Cardinality(Left) + Cardinality(X) - Cardinality(Left \cap X)
  BY FS_Union DEF LitterInv
<1>2. /\ Cardinality(Left) \in Nat /\ Cardinality(X) \in Nat
      /\ Cardinality(Left \cap X) \in Nat
  BY FS_CardinalityType, FS_Intersection DEF LitterInv
<1>3. IsFiniteSet(Left') /\ Cardinality(Left') <= Cardinality(Left \cup X)
  BY <1>1, FS_Subset
<1>4. Cardinality(Left') \in Nat
  BY <1>3, FS_CardinalityType
<1>5. Cardinality(Left) <= faults + Cardinality(Tasks) * crashes
  BY DEF LitterInv, LitterHasACause, Left
<1>6. /\ faults + Cardinality(Tasks) * crashes \in Nat
      /\ faults' + Cardinality(Tasks) * crashes' \in Nat
  <2>1. Cardinality(Tasks) \in Nat
    BY FS_CardinalityType, FileAssumption
  <2>2. crashes \in Nat /\ crashes' \in Nat /\ faults \in Nat /\ faults' \in Nat
    BY FileAssumption DEF Counted
  <2>3. Cardinality(Tasks) * crashes \in Nat /\ Cardinality(Tasks) * crashes' \in Nat
    BY <2>1, <2>2
  <2>. QED  BY <2>2, <2>3
<1>7. Cardinality(Left') <= faults' + Cardinality(Tasks) * crashes'
  BY <1>1, <1>2, <1>3, <1>4, <1>5, <1>6
<1>. QED  BY <1>3, <1>7 DEF LitterInv, LitterHasACause, Left

\* No litter more.
LEMMA NoMoreLitter ==
  ASSUME LitterInv, Counted, Counted', Left' \subseteq Left,
         faults' >= faults, UNCHANGED crashes
  PROVE  LitterInv'
<1>1. IsFiniteSet({}) /\ Cardinality({}) = 0
  BY FS_EmptySet
<1>2. faults' + Cardinality(Tasks) * crashes' >=
        faults + Cardinality(Tasks) * crashes + 0
  <2>1. Cardinality(Tasks) \in Nat /\ crashes \in Nat /\ faults \in Nat /\ faults' \in Nat
    BY FS_CardinalityType, FileAssumption DEF Counted
  <2>2. PICK k \in Nat : k = Cardinality(Tasks) * crashes
    BY <2>1
  <2>. QED  BY <2>1, <2>2
<1>3. Left' \subseteq Left \cup {}
  OBVIOUS
<1>. QED  BY <1>1, <1>2, <1>3, MoreLitter

\* One piece more, for a failed system call.
LEMMA FailureLitter ==
  ASSUME LitterInv, Counted, Counted', NEW n, Left' \subseteq Left \cup {n},
         SystemCallFails, UNCHANGED crashes
  PROVE  LitterInv'
<1>1. IsFiniteSet({n}) /\ Cardinality({n}) = 1
  BY FS_Singleton
<1>2. faults' + Cardinality(Tasks) * crashes' >=
        faults + Cardinality(Tasks) * crashes + 1
  <2>1. Cardinality(Tasks) \in Nat /\ crashes \in Nat /\ faults \in Nat
    BY FS_CardinalityType, FileAssumption DEF Counted
  <2>2. PICK k \in Nat : k = Cardinality(Tasks) * crashes
    BY <2>1
  <2>. QED  BY <2>1, <2>2 DEF SystemCallFails
<1>. QED  BY <1>1, <1>2, MoreLitter

\* When the process dies, every task leaves at most one.
LEMMA CrashLitter ==
  ASSUME LitterInv, FilesInv, Counted', Crash
  PROVE  LitterInv'
<1>1. IsFiniteSet(InUse) /\ Cardinality(InUse) <= Cardinality(Tasks)
      /\ Cardinality(InUse) \in Nat
  <2>. DEFINE W == {t \in Tasks : Writing(t)}
              f == [t \in W |-> TempOf(t)]
  <2>1. IsFiniteSet(W) /\ Cardinality(W) <= Cardinality(Tasks)
    BY FS_Subset, FileAssumption
  <2>2. f \in Surjection(W, InUse)
    BY DEF Surjection, InUse, Writing
  <2>. HIDE DEF W, f
  <2>3. IsFiniteSet(InUse) /\ Cardinality(InUse) <= Cardinality(W)
    BY <2>1, <2>2, FS_Surjection
  <2>. QED  BY <2>1, <2>3, FS_CardinalityType, FileAssumption
<1>2. Left' \subseteq Left \cup InUse
  BY DEF Left, Litter, Crash, fsVars
<1>3. faults' + Cardinality(Tasks) * crashes' >=
        faults + Cardinality(Tasks) * crashes + Cardinality(InUse)
  <2>1. Cardinality(Tasks) \in Nat /\ crashes \in Nat /\ faults \in Nat
    BY FS_CardinalityType, FileAssumption DEF FilesInv, Typed, Counted
  <2>2. Cardinality(Tasks) * (crashes + 1) = Cardinality(Tasks) * crashes + Cardinality(Tasks)
    BY <2>1
  <2>3. PICK k \in Nat : k = Cardinality(Tasks) * crashes
    BY <2>1
  <2>4. faults' = faults /\ crashes' = crashes + 1
    BY DEF Crash
  <2>. QED  BY <1>1, <2>1, <2>2, <2>3, <2>4
<1>. QED  BY <1>1, <1>2, <1>3, MoreLitter DEF FilesInv, Typed

\* Only creating a file makes a name lead to one, and the writer has it; a step that
\* gives up a file it has is a failed call, or the rename.
LEMMA StepLitter == FilesInv /\ LitterInv /\ [Next]_vars => LitterInv'
<1>. SUFFICES ASSUME FilesInv, LitterInv, [Next]_vars
              PROVE  LitterInv'
  OBVIOUS
<1>1. Counted /\ Counted'
  BY StepFilesInv DEF FilesInv, Typed
<1>2. CASE UNCHANGED vars
  BY <1>2 DEF vars, fsVars, callVars, logVars, LitterInv, LitterHasACause, Left,
              Litter, InUse, TempOf
<1>3. CASE Crash
  BY <1>1, <1>3, CrashLitter
<1>4. ASSUME NEW t \in Tasks, ToolStep(t)
      PROVE  LitterInv'
  <2>1. /\ pc \in [Tasks -> Asking \cup {"idle", "fs_list", "read", "report", "panicked"}]
        /\ req = [u \in Tasks |-> req[u]] /\ stamp \in [Tasks -> Instants \cup {Nowhere}]
        /\ temp \in [Temps -> Inodes \cup {Nowhere}]
        /\ faults \in Nat
    BY FileAssumption DEF FilesInv, Typed, FsTyped, PcTyped, ReqTyped, Counted
  <2>2. CASE ~Writing(t) /\ ~CreateTemp(t)
    <3>1. /\ UNCHANGED <<temp, crashes>>
          /\ faults' >= faults
          /\ \A u \in Tasks \ {t} :
               pc'[u] = pc[u] /\ req'[u] = req[u] /\ stamp'[u] = stamp[u]
      BY <1>4, <2>1, <2>2
      DEF ToolStep, Unroutable, BadArgs, Invoke, Report, ToldOnce, FsRead,
          ReadLines, ReadPanics, FsList, FsWrite, FillTemp, RenameTemp, FsDelete,
          RemoveFile, CalledOnce, Goto, Finish, SystemCallFails, fsVars, callVars, logVars,
          Writing
    <3>2. Left' \subseteq Left
      BY <2>2, <3>1, OneLeft
    <3>. QED  BY <1>1, <3>1, <3>2, NoMoreLitter
  <2>3. CASE CreateTemp(t)
    <3>1. ~Writing(t)
      BY <2>3 DEF CreateTemp, Goto, Finish, Writing
    <3>2. CASE SystemCallFails /\ Finish(t, "create", "io")
               /\ UNCHANGED <<fsVars, callVars, crashes>>
      <4>1. /\ UNCHANGED <<temp, crashes, req, stamp>>
            /\ \A u \in Tasks \ {t} : pc'[u] = pc[u]
            /\ faults' >= faults
        BY <2>1, <3>2 DEF Finish, Goto, SystemCallFails, fsVars, callVars
      <4>2. Left' \subseteq Left
        BY <3>1, <4>1, OneLeft
      <4>. QED  BY <1>1, <4>1, <4>2, NoMoreLitter
    <3>3. ASSUME NEW now \in Instants, Goto(t, "create", "fill"),
                 AtomicTmpPath(t, now), OpenTemp(t, <<req[t].path, now>>),
                 UNCHANGED <<req, faults, crashes>>
          PROVE  LitterInv'
      <4>1. \A u \in Tasks \ {t} :
              pc'[u] = pc[u] /\ req'[u] = req[u] /\ stamp'[u] = stamp[u]
        BY <2>1, <3>3 DEF Goto, AtomicTmpPath
      <4>2. Writing(t)' /\ TempOf(t)' = <<req[t].path, now>>
        BY <2>1, <3>3 DEF Goto, AtomicTmpPath, Writing, TempOf
      <4>3. \A n \in Temps : n # <<req[t].path, now>> => temp'[n] = temp[n]
        BY <2>1, <3>3 DEF OpenTemp
      <4>4. Left' \subseteq Left
        BY <3>1, <4>1, <4>2, <4>3, OneLeft
      <4>. QED  BY <1>1, <2>1, <3>3, <4>4, NoMoreLitter
    <3>. QED  BY <2>3, <3>2, <3>3 DEF CreateTemp
  <2>4. CASE FillTemp(t)
    <3>1. /\ UNCHANGED <<temp, crashes, req, stamp>>
          /\ \A u \in Tasks \ {t} : pc'[u] = pc[u]
      BY <2>1, <2>4 DEF FillTemp, Goto, Finish, fsVars, callVars
    <3>2. CASE SystemCallFails
      <4>1. Left' \subseteq Left \cup {TempOf(t)}
        BY <3>1, OneLeft
      <4>. QED  BY <1>1, <3>1, <3>2, <4>1, FailureLitter
    <3>3. CASE Goto(t, "fill", "rename") /\ UNCHANGED faults
      <4>1. Writing(t)' /\ TempOf(t)' = TempOf(t)
        BY <2>1, <3>1, <3>3 DEF Goto, Writing, TempOf
      <4>2. Left' \subseteq Left
        BY <3>1, <4>1, OneLeft
      <4>. QED  BY <1>1, <2>1, <3>1, <3>3, <4>2, NoMoreLitter
    <3>. QED  BY <2>4, <3>2, <3>3 DEF FillTemp
  <2>5. CASE RenameTemp(t)
    <3>1. /\ UNCHANGED <<crashes, req, stamp>>
          /\ \A u \in Tasks \ {t} : pc'[u] = pc[u]
          /\ \A n \in Temps : temp'[n] # Nowhere => temp[n] # Nowhere
      BY <2>1, <2>5 DEF RenameTemp, Goto, Finish, fsVars, callVars
    <3>2. Left' \subseteq Left \cup {TempOf(t)}
      BY <3>1, OneLeft
    <3>3. CASE SystemCallFails
      BY <1>1, <3>1, <3>2, <3>3, FailureLitter
    <3>4. CASE ~SystemCallFails
      <4>1. TempOf(t) \in Temps
        BY <2>5 DEF RenameTemp, Finish, Goto, FilesInv, Typed, AtHand, Asking,
                    TempOf, Temps
      <4>2. UNCHANGED faults
        BY <2>5, <3>4 DEF RenameTemp
      <4>3. temp'[TempOf(t)] = Nowhere \/ TempOf(t)[1] \in Directories
        BY <2>1, <2>5, <3>4, <4>1 DEF RenameTemp, TempOf, fsVars
      <4>4. TempOf(t) \notin Left'
        BY <4>3 DEF Left, Litter
      <4>5. Left' \subseteq Left
        BY <3>2, <4>4
      <4>. QED  BY <1>1, <2>1, <3>1, <4>2, <4>5, NoMoreLitter
    <3>. QED  BY <3>3, <3>4
  <2>6. Writing(t) => FillTemp(t) \/ RenameTemp(t)
    BY <1>4
    DEF ToolStep, Unroutable, BadArgs, Invoke, Report, FsRead,
        ReadLines, ReadPanics, FsList, FsWrite, CreateTemp, FsDelete,
        RemoveFile, Goto, Finish, Writing
  <2>. QED  BY <2>2, <2>3, <2>4, <2>5, <2>6
<1>. QED  BY <1>2, <1>3, <1>4 DEF Next, AllDone

\* Temporary files that nobody works on are as few as the failures that left them
\* behind, for any number of tasks and paths.
THEOREM LitterIsAccountedFor == Spec => []LitterHasACause
<1>1. Init => LitterInv
  <2>. SUFFICES ASSUME Init PROVE LitterInv
    OBVIOUS
  <2>1. Left = {}
    BY DEF Init, Left, Litter
  <2>2. Cardinality(Left) = 0 /\ IsFiniteSet(Left)
    BY <2>1, FS_EmptySet
  <2>3. Cardinality(Tasks) \in Nat /\ faults = 0 /\ crashes = 0
    BY FS_CardinalityType, FileAssumption DEF Init
  <2>. QED  BY <2>2, <2>3 DEF LitterInv, LitterHasACause, Left
<1>. QED  BY <1>1, StepLitter, FilesInvariance, PTL DEF Spec, LitterInv
=============================================================================
