----------------------------- MODULE AtomicFiles -----------------------------
(***************************************************************************)
(* What the file tools promise a task, whatever the other tasks do: each   *)
(* call on a path takes place at one instant between its beginning and its *)
(* end.  A read returns a content some write stored in whole, a refused    *)
(* call has changed nothing, and a process that dies in the middle of a    *)
(* call leaves the file as it was before or after it, never in between.    *)
(* A path can be waived: from then on nothing is promised of it, and the   *)
(* promise for every other path stands.                                    *)
(***************************************************************************)
CONSTANTS
  Clients,
  Paths,
  Contents,
  Absent      \* what a path without a file holds: no content

VARIABLES
  files,   \* what each path holds
  calls,   \* the call each client is in
  waived   \* the paths of which nothing is promised any more

filesVars == <<files, calls, waived>>

Kinds   == {"read", "write", "delete"}
Stages  == {"out", "asked", "answered"}

\* A call that is not under way: its other fields mean nothing.
NoCall ==
  [stage |-> "out", kind |-> "read", path |-> Absent, value |-> Absent,
   result |-> "none"]

FilesInit ==
  /\ files \in [Paths -> Contents \cup {Absent}]
  /\ calls = [c \in Clients |-> NoCall]
  /\ waived = {}

\* What may be asked.
Requests ==
  [stage : {"asked"}, kind : {"read", "delete"}, path : Paths \ waived,
   value : {Absent}, result : {"none"}]
  \cup [stage : {"asked"}, kind : {"write"}, path : Paths \ waived,
        value : Contents, result : {"none"}]

Ask(c) ==
  /\ calls[c].stage = "out"
  /\ calls'[c] \in Requests
  /\ calls' = [calls EXCEPT ![c] = calls'[c]]
  /\ UNCHANGED <<files, waived>>

Asks(c, kind) == calls[c].stage = "asked" /\ calls[c].kind = kind

Answer(c, result) ==
  calls' = [calls EXCEPT ![c] = [@ EXCEPT !.stage = "answered",
                                          !.result = result]]

Read(c) ==
  /\ Asks(c, "read")
  /\ files[calls[c].path] # Absent
  /\ Answer(c, files[calls[c].path])
  /\ UNCHANGED <<files, waived>>

Write(c) ==
  /\ Asks(c, "write")
  /\ Answer(c, "done")
  /\ files' = [files EXCEPT ![calls[c].path] = calls[c].value]
  /\ UNCHANGED waived

Delete(c) ==
  /\ Asks(c, "delete")
  /\ files[calls[c].path] # Absent
  /\ Answer(c, "done")
  /\ files' = [files EXCEPT ![calls[c].path] = Absent]
  /\ UNCHANGED waived

NotFound(c) ==
  /\ \E kind \in {"read", "delete"} : Asks(c, kind)
  /\ files[calls[c].path] = Absent
  /\ Answer(c, "not_found")
  /\ UNCHANGED <<files, waived>>

Refuse(c) ==
  /\ calls[c].stage = "asked"
  /\ Answer(c, "refused")
  /\ UNCHANGED <<files, waived>>

\* The client has its answer, or gives up on the call it is in.
Leave(c) ==
  /\ calls[c].stage # "out"
  /\ calls' = [calls EXCEPT ![c] = NoCall]
  /\ UNCHANGED <<files, waived>>

\* The process of all the clients dies.
Die ==
  /\ calls' = [c \in Clients |-> NoCall]
  /\ UNCHANGED <<files, waived>>

\* The path and the calls on it are out of sight from now on.
Waive(path) ==
  /\ waived' = waived \cup {path}
  /\ files' = [files EXCEPT ![path] = Absent]
  /\ calls' = [c \in Clients |-> IF calls[c].path = path THEN NoCall ELSE calls[c]]

FilesNext ==
  \/ \E c \in Clients :
       \/ Ask(c)
       \/ Read(c)
       \/ Write(c)
       \/ Delete(c)
       \/ NotFound(c)
       \/ Refuse(c)
       \/ Leave(c)
  \/ \E path \in Paths \ waived : Waive(path)
  \/ Die

FilesSpec == FilesInit /\ [][FilesNext]_filesVars
=============================================================================
