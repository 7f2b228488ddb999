------------------------------ MODULE FileTools ------------------------------
(***************************************************************************)
(* The tool dispatcher and the four file tools (crates/tools/src:          *)
(* dispatcher.rs, registry.rs, tool.rs, fs.rs), called by concurrent       *)
(* tasks.  A tool runs to its end without an await, so a task is in one    *)
(* tool at a time and no timeout ever fires; but tasks run on different    *)
(* threads, and their system calls interleave.                             *)
(*                                                                         *)
(* The file system is external.  A path leads to an inode and an inode     *)
(* holds a content; a file is created empty, filled, and renamed.  The     *)
(* inode of an initial file is called after its path, the one of a         *)
(* temporary file has a number.  The clock is external too: what it reads  *)
(* may repeat or step back, so two temporary files may have one name.      *)
(* Symbolic links and concurrent edits by other programs are left out; a   *)
(* directory entry never becomes a file.                                   *)
(***************************************************************************)
EXTENDS Integers, FiniteSets

CONSTANTS
  Tasks,
  Paths,
  Contents,     \* what the model writes, and what files hold at first
  Directories,  \* the paths that are directories
  Protected,    \* the paths under a protected one
  Nowhere,      \* the inode of a name that does not exist
  Partial,      \* what a file holds between its creation and its last write
  Mixed,        \* what a file holds where the bytes of two writers meet
  Instants,     \* the nanoseconds the clock may read, in any order
  MaxCalls,     \* bound: tool calls
  MaxFaults,    \* bound: failing system calls and failing event appends
  MaxCrashes    \* bound: deaths of the process

\* What a tool returns in place of a content.
ErrorTexts == {"bad_args", "protected_path", "io", "runtime"}

ASSUME FileAssumption ==
  /\ IsFiniteSet(Tasks)
  /\ Directories \subseteq Paths
  /\ Protected \subseteq Paths
  /\ Paths \cap Int = {}
  /\ Nowhere \notin Paths \cup Int
  /\ Nowhere \notin Contents
  /\ Partial \notin Contents \cup {Nowhere}
  /\ Contents \cap ErrorTexts = {}
  /\ Mixed \notin Contents \cup {Nowhere, Partial}
  /\ "done" \notin Contents \cup {Partial, Mixed}
  /\ MaxCalls \in Nat /\ MaxFaults \in Nat /\ MaxCrashes \in Nat

VARIABLES
  entry,    \* the inode each path leads to
  temp,     \* the inode of each temporary file, by path and clock reading
  data,     \* what each inode holds
  made,     \* inodes created
  pc,       \* where each task is in its tool call
  req,      \* the call: the tool and its arguments
  stamp,    \* the clock reading in a writer's temporary name
  file,     \* the inode a call has open
  result,   \* what the tool returns
  count,    \* tool calls begun
  called,   \* tool_call events of fs_write and fs_delete, per task
  told,     \* tool_result events of fs_write and fs_delete, per task
  effects,  \* renames and removals made by each task (history)
  shared,   \* paths with a temporary name two writers have had at once (history)
  faults,
  crashes

fsVars   == <<entry, temp, data, made, shared>>
callVars == <<req, stamp, file>>
logVars  == <<count, called, told>>
vars == <<fsVars, pc, callVars, result, logVars, effects, faults, crashes>>

\* A call makes at most one temporary file, so there are inodes for all of them.
Fresh  == 0..MaxCalls
Temps  == Paths \X Instants
Inodes == Paths \cup Fresh
Held   == Contents \cup {Partial, Mixed}

Changing == {"fs_write", "fs_delete"}
Tools    == Changing \cup {"fs_read", "fs_list"}

\* The locals of a dispatch that is not under way.
NoReq == [tool |-> "none", path |-> Nowhere, value |-> Nowhere]

Init ==
  /\ \E there \in SUBSET (Paths \ Directories), d \in Contents :
       /\ entry = [p \in Paths |-> IF p \in there THEN p ELSE Nowhere]
       /\ data = [i \in Inodes |-> IF i \in there THEN d ELSE Partial]
  /\ temp = [n \in Temps |-> Nowhere]
  /\ made = 0
  /\ pc = [t \in Tasks |-> "idle"]
  /\ req = [t \in Tasks |-> NoReq]
  /\ stamp = [t \in Tasks |-> Nowhere]
  /\ file = [t \in Tasks |-> Nowhere]
  /\ result = [t \in Tasks |-> "none"]
  /\ count = 0
  /\ called = [t \in Tasks |-> 0]
  /\ told = [t \in Tasks |-> 0]
  /\ effects = [t \in Tasks |-> 0]
  /\ shared = {}
  /\ faults = 0
  /\ crashes = 0

Goto(t, from, to) ==
  /\ pc[t] = from
  /\ pc' = [pc EXCEPT ![t] = to]

\* The tool's future is ready: with what the dispatcher is to report.
Finish(t, from, what) ==
  /\ Goto(t, from, "report")
  /\ result' = [result EXCEPT ![t] = what]

SystemCallFails ==
  /\ faults < MaxFaults
  /\ faults' = faults + 1

-----------------------------------------------------------------------------
(* Dispatcher::dispatch.                                                   *)

\* The events of a call are appended as well as possible.  Of them the model
\* keeps, for fs_write and fs_delete, the tool_call of a call whose arguments
\* parse and the tool_result that says a file was written or deleted.
CalledOnce(t) ==
  \/ /\ called' = [called EXCEPT ![t] = @ + 1]
     /\ UNCHANGED faults
  \/ /\ SystemCallFails
     /\ UNCHANGED called

ToldOnce(t) ==
  \/ /\ told' = [told EXCEPT ![t] = @ + 1]
     /\ UNCHANGED faults
  \/ /\ SystemCallFails
     /\ UNCHANGED told

\* A name that is not registered, or a tool of another host class.
Unroutable(t) ==
  /\ pc[t] = "idle"
  /\ count < MaxCalls
  /\ count' = count + 1
  /\ UNCHANGED <<fsVars, pc, callVars, result, called, told, effects, faults,
                 crashes>>

Invoke(t) ==
  /\ count < MaxCalls
  /\ count' = count + 1
  /\ \E tool \in Tools, p \in Paths, v \in Contents :
       /\ Goto(t, "idle", tool)
       /\ req' = [req EXCEPT ![t] =
            [tool |-> tool, path |-> p,
             value |-> IF tool = "fs_write" THEN v ELSE Nowhere]]
       /\ IF tool \in Changing THEN CalledOnce(t) ELSE UNCHANGED <<called, faults>>
  /\ UNCHANGED <<fsVars, stamp, file, result, told, effects, crashes>>

\* The arguments do not parse: the tool returns before it does anything.
BadArgs(t) ==
  /\ count < MaxCalls
  /\ count' = count + 1
  /\ Finish(t, "idle", "bad_args")
  /\ UNCHANGED <<fsVars, callVars, called, told, effects, faults, crashes>>

\* The outcome becomes an event and the text the model sees.
Report_ErrorsAreResults(t) ==
  /\ Goto(t, "report", "idle")
  /\ IF req[t].tool \in Changing THEN ToldOnce(t)
     ELSE UNCHANGED <<told, faults>>
  /\ req' = [req EXCEPT ![t] = NoReq]
  /\ stamp' = [stamp EXCEPT ![t] = Nowhere]
  /\ file' = [file EXCEPT ![t] = Nowhere]
  /\ result' = [result EXCEPT ![t] = "none"]
  /\ UNCHANGED <<fsVars, count, called, effects, crashes>>
Report(t) ==
  /\ Goto(t, "report", "idle")
  /\ IF result[t] = "done" THEN ToldOnce(t) ELSE UNCHANGED <<told, faults>>
  /\ req' = [req EXCEPT ![t] = NoReq]
  /\ stamp' = [stamp EXCEPT ![t] = Nowhere]
  /\ file' = [file EXCEPT ![t] = Nowhere]
  /\ result' = [result EXCEPT ![t] = "none"]
  /\ UNCHANGED <<fsVars, count, called, effects, crashes>>

-----------------------------------------------------------------------------
(* fs_read and fs_list.                                                    *)

NotThere(p) == entry[p] = Nowhere /\ p \notin Directories

FsRead_NoErrorArm(t) ==
  /\ Goto(t, "fs_read", "read")
  /\ file' = [file EXCEPT ![t] = entry[req[t].path]]
  /\ UNCHANGED <<fsVars, req, stamp, result, logVars, effects, faults, crashes>>
\* open; whether a later read of the open file fails is settled here.
FsRead(t) ==
  LET p == req[t].path IN
  \/ /\ Goto(t, "fs_read", "read")
     /\ entry[p] # Nowhere
     /\ file' = [file EXCEPT ![t] = entry[p]]
     /\ UNCHANGED <<fsVars, req, stamp, result, logVars, effects, faults, crashes>>
  \/ /\ Finish(t, "fs_read", "not_found")
     /\ NotThere(p)
     /\ UNCHANGED <<fsVars, callVars, logVars, effects, faults, crashes>>
  \/ /\ Finish(t, "fs_read", "io")
     /\ p \in Directories
     /\ UNCHANGED <<fsVars, callVars, logVars, effects, faults, crashes>>
  \/ /\ SystemCallFails
     /\ Finish(t, "fs_read", "io")
     /\ UNCHANGED <<fsVars, callVars, logVars, effects, crashes>>

\* The rest of the file, and the lines asked for.  (The range and the length of
\* the file are left out.)
ReadLines(t) ==
  /\ Finish(t, "read", data[file[t]])
  /\ UNCHANGED <<fsVars, callVars, logVars, effects, faults, crashes>>

\* A range that ends before it starts, in a file long enough to have its start, is
\* a slice out of bounds.
ReadPanics(t) ==
  /\ Goto(t, "read", "panicked")
  /\ UNCHANGED <<fsVars, callVars, result, logVars, effects, faults, crashes>>

\* Temporary files are listed like any other.
FsList(t) ==
  /\ \/ /\ req[t].path \in Directories
        /\ Finish(t, "fs_list", "listed")
        /\ UNCHANGED faults
     \/ /\ Finish(t, "fs_list", "not_found")
        /\ NotThere(req[t].path)
        /\ UNCHANGED faults
     \/ /\ Finish(t, "fs_list", "io")
        /\ entry[req[t].path] # Nowhere
        /\ UNCHANGED faults
     \/ /\ SystemCallFails
        /\ Finish(t, "fs_list", "io")
  /\ UNCHANGED <<fsVars, callVars, logVars, effects, crashes>>

-----------------------------------------------------------------------------
(* fs_write.                                                               *)

\* is_protected, then create_dir_all of the parent.
FsWrite(t) ==
  \/ /\ req[t].path \in Protected
     /\ Finish(t, "fs_write", "protected_path")
     /\ UNCHANGED <<fsVars, callVars, logVars, effects, faults, crashes>>
  \/ /\ req[t].path \notin Protected
     /\ Goto(t, "fs_write", "create")
     /\ UNCHANGED <<fsVars, callVars, result, logVars, effects, faults, crashes>>
  \/ /\ req[t].path \notin Protected
     /\ SystemCallFails
     /\ Finish(t, "fs_write", "io")
     /\ UNCHANGED <<fsVars, callVars, logVars, effects, crashes>>

\* The names of the temporary files that calls are working on.
TempOf(t) == <<req[t].path, stamp[t]>>
InUse     == {TempOf(t) : t \in {w \in Tasks : pc[w] \in {"fill", "rename"}}}

\* The name is the path's and what the clock reads, whoever read the same before.
AtomicTmpPath(t, now) == stamp' = [stamp EXCEPT ![t] = now]

\* open with create and truncate: a name that exists is another writer's, or was
\* left over.
OpenTemp(t, n) ==
  \/ /\ temp[n] = Nowhere
     /\ made \in Fresh
     /\ made' = made + 1
     /\ temp' = [temp EXCEPT ![n] = made]
     /\ data' = [data EXCEPT ![made] = Partial]
     /\ file' = [file EXCEPT ![t] = made]
  \/ /\ temp[n] # Nowhere
     /\ data' = [data EXCEPT ![temp[n]] = Partial]
     /\ file' = [file EXCEPT ![t] = temp[n]]
     /\ UNCHANGED <<made, temp>>

CreateTemp_InPlace(t) ==
  /\ Goto(t, "create", "fill")
  /\ entry[req[t].path] # Nowhere
  /\ \E now \in Instants : AtomicTmpPath(t, now)
  /\ data' = [data EXCEPT ![entry[req[t].path]] = Partial]
  /\ file' = [file EXCEPT ![t] = entry[req[t].path]]
  /\ UNCHANGED <<entry, temp, made, shared, req, result, logVars, effects, faults,
                 crashes>>
\* The first half of std::fs::write.
CreateTemp(t) ==
  \/ /\ Goto(t, "create", "fill")
     /\ \E now \in Instants :
          LET n == <<req[t].path, now>> IN
          /\ AtomicTmpPath(t, now)
          /\ OpenTemp(t, n)
          /\ shared' = IF n \in InUse THEN shared \cup {req[t].path} ELSE shared
     /\ UNCHANGED <<entry, req, result, logVars, effects, faults, crashes>>
  \/ /\ SystemCallFails
     /\ Finish(t, "create", "io")
     /\ UNCHANGED <<fsVars, callVars, logVars, effects, crashes>>

\* What inode i may hold once d is written over what it holds now.
Written(i, d) == IF data[i] = Partial THEN {d} ELSE {d, Mixed}

\* The second half: a failure leaves the temporary file where it is.
FillTemp(t) ==
  \/ /\ Goto(t, "fill", "rename")
     /\ \E d \in Written(file[t], req[t].value) :
          data' = [data EXCEPT ![file[t]] = d]
     /\ UNCHANGED <<entry, temp, made, shared, callVars, result, logVars, effects,
                    faults, crashes>>
  \/ /\ SystemCallFails
     /\ Finish(t, "fill", "io")
     /\ \E d \in Written(file[t], data[file[t]]) :
          data' = [data EXCEPT ![file[t]] = d]
     /\ UNCHANGED <<entry, temp, made, shared, callVars, logVars, effects, crashes>>

Changed(t) == effects' = [effects EXCEPT ![t] = @ + 1]

RenameTemp_Copies(t) ==
  LET p == req[t].path
      n == <<p, stamp[t]>>
  IN /\ Finish(t, "rename", "done")
     /\ temp[n] # Nowhere
     /\ p \notin Directories
     /\ entry' = [entry EXCEPT ![p] = temp[n]]
     /\ Changed(t)
     /\ UNCHANGED <<temp, data, made, shared, callVars, logVars, faults,
                    crashes>>
RenameTemp(t) ==
  LET p == req[t].path
      n == <<p, stamp[t]>>
  IN \/ /\ Finish(t, "rename", "done")
        /\ temp[n] # Nowhere
        /\ p \notin Directories
        /\ entry' = [entry EXCEPT ![p] = temp[n]]
        /\ temp' = [temp EXCEPT ![n] = Nowhere]
        /\ Changed(t)
        /\ UNCHANGED <<data, made, shared, callVars, logVars, faults, crashes>>
     \/ /\ Finish(t, "rename", "io")
        /\ temp[n] = Nowhere \/ p \in Directories
        /\ UNCHANGED <<fsVars, callVars, logVars, effects, faults, crashes>>
     \/ /\ SystemCallFails
        /\ Finish(t, "rename", "io")
        /\ UNCHANGED <<fsVars, callVars, logVars, effects, crashes>>

-----------------------------------------------------------------------------
(* fs_delete.                                                              *)

\* is_protected, then the metadata of the path.
FsDelete(t) ==
  LET p == req[t].path IN
  \/ /\ p \in Protected
     /\ Finish(t, "fs_delete", "protected_path")
     /\ UNCHANGED <<fsVars, callVars, logVars, effects, faults, crashes>>
  \/ /\ p \in Directories \ Protected
     /\ Finish(t, "fs_delete", "runtime")
     /\ UNCHANGED <<fsVars, callVars, logVars, effects, faults, crashes>>
  \/ /\ Finish(t, "fs_delete", "not_found")
     /\ p \notin Protected
     /\ NotThere(p)
     /\ UNCHANGED <<fsVars, callVars, logVars, effects, faults, crashes>>
  \/ /\ Goto(t, "fs_delete", "remove")
     /\ p \notin Protected
     /\ entry[p] # Nowhere
     /\ UNCHANGED <<fsVars, callVars, result, logVars, effects, faults, crashes>>
  \/ /\ p \notin Protected
     /\ SystemCallFails
     /\ Finish(t, "fs_delete", "io")
     /\ UNCHANGED <<fsVars, callVars, logVars, effects, crashes>>

\* remove_file: another task may have removed or replaced the file meanwhile.
RemoveFile(t) ==
  LET p == req[t].path IN
  \/ /\ Finish(t, "remove", "done")
     /\ entry[p] # Nowhere
     /\ entry' = [entry EXCEPT ![p] = Nowhere]
     /\ Changed(t)
     /\ UNCHANGED <<temp, data, made, shared, callVars, logVars, faults,
                    crashes>>
  \/ /\ Finish(t, "remove", "io")
     /\ entry[p] = Nowhere
     /\ UNCHANGED <<fsVars, callVars, logVars, effects, faults, crashes>>
  \/ /\ SystemCallFails
     /\ Finish(t, "remove", "io")
     /\ UNCHANGED <<fsVars, callVars, logVars, effects, crashes>>

-----------------------------------------------------------------------------
\* The process dies; files and events stay.  Another one takes over.
Crash ==
  /\ crashes < MaxCrashes
  /\ crashes' = crashes + 1
  /\ pc' = [t \in Tasks |-> "idle"]
  /\ req' = [t \in Tasks |-> NoReq]
  /\ stamp' = [t \in Tasks |-> Nowhere]
  /\ file' = [t \in Tasks |-> Nowhere]
  /\ result' = [t \in Tasks |-> "none"]
  /\ UNCHANGED <<fsVars, logVars, effects, faults>>

ToolStep(t) ==
  \/ Unroutable(t)
  \/ BadArgs(t)
  \/ Invoke(t)
  \/ Report(t)
  \/ FsRead(t)
  \/ ReadLines(t)
  \/ ReadPanics(t)
  \/ FsList(t)
  \/ FsWrite(t)
  \/ CreateTemp(t)
  \/ FillTemp(t)
  \/ RenameTemp(t)
  \/ FsDelete(t)
  \/ RemoveFile(t)

\* The calls are used up, or no task is left to make them.
AllDone ==
  /\ \A t \in Tasks : pc[t] = "panicked" \/ (pc[t] = "idle" /\ count = MaxCalls)
  /\ UNCHANGED vars

Next == Crash \/ AllDone \/ \E t \in Tasks : ToolStep(t)

Spec == Init /\ [][Next]_vars

-----------------------------------------------------------------------------
(* Properties.                                                             *)

Asking     == {"fs_read", "fs_write", "create", "fill", "rename", "fs_delete",
               "remove"}
Results    == Held \cup ErrorTexts \cup {"none", "not_found", "done", "listed"}

\* Every variable stays in its range, a call on a file has one open, and a call
\* has its arguments: the type invariant of the file tools.
TypeOK ==
  /\ entry \in [Paths -> Inodes \cup {Nowhere}]
  /\ temp \in [Temps -> Inodes \cup {Nowhere}]
  /\ data \in [Inodes -> Held]
  /\ made \in Nat
  /\ shared \subseteq Paths
  /\ pc \in [Tasks -> Asking \cup {"idle", "fs_list", "read", "report", "panicked"}]
  /\ req \in [Tasks -> [tool : Tools \cup {"none"}, path : Paths \cup {Nowhere},
                        value : Contents \cup {Nowhere}]]
  /\ stamp \in [Tasks -> Instants \cup {Nowhere}]
  /\ file \in [Tasks -> Inodes \cup {Nowhere}]
  /\ result \in [Tasks -> Results]
  /\ count \in 0..MaxCalls
  /\ called \in [Tasks -> Nat]
  /\ told \in [Tasks -> Nat]
  /\ effects \in [Tasks -> Nat]
  /\ faults \in 0..MaxFaults
  /\ crashes \in 0..MaxCrashes
  /\ \A t \in Tasks :
       /\ pc[t] \in {"read", "fill", "rename"} => file[t] \in Inodes
       /\ pc[t] \in {"fill", "rename"} => stamp[t] \in Instants
       /\ pc[t] \in Asking \cup {"fs_list", "read"} => req[t].path \in Paths

\* The calls as the tasks see them: fs_list and calls with bad arguments are
\* none on a file, and of a path whose temporary file was shared nothing is
\* said.  A read has its answer once it has the file open, since nothing writes
\* to a file that has its name.
KindOf(t) ==
  CASE req[t].tool = "fs_write"  -> "write"
    [] req[t].tool = "fs_delete" -> "delete"
    [] OTHER                     -> "read"

Asked(t) ==
  [stage |-> "asked", kind |-> KindOf(t), path |-> req[t].path,
   value |-> req[t].value, result |-> "none"]

Answered(t, what) ==
  [Asked(t) EXCEPT !.stage = "answered",
                   !.result = IF what \in ErrorTexts THEN "refused" ELSE what]

NoCall ==
  [stage |-> "out", kind |-> "read", path |-> Nowhere, value |-> Nowhere,
   result |-> "none"]

OnFiles(t) == req[t].tool \in {"fs_read", "fs_write", "fs_delete"}

CallOf(t) ==
  IF req[t].path \in shared THEN NoCall
  ELSE IF pc[t] \in Asking THEN Asked(t)
  ELSE IF pc[t] = "read" THEN Answered(t, data[file[t]])
  ELSE IF pc[t] = "report" /\ OnFiles(t) THEN Answered(t, result[t])
  ELSE NoCall

FilesNow ==
  [p \in Paths |->
    IF p \in shared \/ entry[p] = Nowhere THEN Nowhere ELSE data[entry[p]]]

Atomic == INSTANCE AtomicFiles
  WITH Clients <- Tasks, Absent <- Nowhere, files <- FilesNow,
       calls <- [t \in Tasks |-> CallOf(t)], waived <- shared

\* However the system calls of concurrent tasks interleave, fail or are cut
\* short by the death of the process, and whatever the clock reads, the tools are
\* atomic operations on every path until two writers have had one temporary file
\* of it at once (NoHalfFiles is what they lose then): nobody reads half a file,
\* an error means no change, what a task is told to have written was there in
\* whole, and temporary files left over or shared elsewhere do not matter.
ToolsAreAtomic == Atomic!FilesSpec

Litter == {n \in Temps : temp[n] # Nowhere /\ n \notin InUse}

\* A temporary file that no call is working on is left over from a failed
\* system call or a dead process, at most one from each call cut short; or from
\* a write to the path of a directory, which fails at the rename.
LitterHasACause ==
  Cardinality({n \in Litter : n[1] \notin Directories})
    <= faults + Cardinality(Tasks) * crashes

\* The log claims no rename and no removal that did not take place.  The result
\* of one is missing only if its append failed, or the process died before it;
\* and the call is in the log before the change, so that no death hides it.
EffectsAreLogged ==
  \A t \in Tasks :
    /\ effects[t] <= called[t] + faults
    /\ told[t] <= effects[t]
    /\ effects[t] <= told[t] + faults + crashes
                      + (IF pc[t] = "report" /\ result[t] = "done" THEN 1 ELSE 0)

-----------------------------------------------------------------------------
(* What the documents say, and the code does not do.                       *)

\* fs.rs:174: fs_write is "Atomic via temp-file-and-rename", so that no path ever
\* leads to a half-written file, nor to one with the bytes of two writers.
NoHalfFiles == \A p \in Paths : entry[p] # Nowhere => data[entry[p]] \in Contents
=============================================================================
