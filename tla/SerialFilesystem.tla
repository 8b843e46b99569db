------------------------- MODULE SerialFilesystem --------------------------
(***************************************************************************)
(* The handlers of AsyncFilesystem served one at a time.  Each of them as  *)
(* a whole, from the request to the answer, is then one step of the        *)
(* sequential module Filesystem, or none when it is refused: the plans,    *)
(* with their SQL statements and file operations in order, come to what    *)
(* Filesystem says in one action per endpoint.                             *)
(***************************************************************************)
EXTENDS AsyncFilesystem

VARIABLE base   \* history: the store when the server was last quiet

Atomic == INSTANCE Filesystem WITH
  store <- base, Names <- Segments, TrashIds <- Requests,
  MaxDepth <- Large, MaxRows <- Large, MaxVersions <- Large

SerialInit == Init /\ base = Initial

Remembered == base' = IF Quiet' THEN store' ELSE base

(* The next request comes when the last one was answered; then there are   *)
(* no more.                                                                *)
SerialNext == \/ Quiet /\ (\E r \in Requests, in \in Inputs : Begin(r, in)) /\ Remembered
              \/ (\E r \in Requests : Step(r)) /\ Remembered
              \/ (\A r \in Requests : req[r].status \notin {"idle", "run"})
                   /\ UNCHANGED <<vars, base>>
SerialSpec == SerialInit /\ [][SerialNext]_<<vars, base>>

(* Served one at a time, each handler as a whole is one step of the        *)
(* sequential module, or none: the sequence of SQL statements and file     *)
(* operations comes to what Filesystem says, and a refused request to      *)
(* nothing.                                                                *)
HandlersAreAtomic == [][Atomic!Next]_base

============================================================================
