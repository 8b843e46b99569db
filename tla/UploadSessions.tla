--------------------------- MODULE UploadSessions --------------------------
(***************************************************************************)
(* The chunked upload protocol: the server's sessions, its handlers cut at *)
(* their awaits, and a client that uploads one file, if need be in several *)
(* attempts with a session each.                                           *)
(*                                                                         *)
(* Every call the client makes becomes a handler in calls.  A connection   *)
(* may drop while the client waits: the client sees a network error, and   *)
(* the handler, if the call arrived, runs on without anyone to answer.     *)
(*                                                                         *)
(* A file is a sequence of Size chunks; chunk i of the file as attempt s   *)
(* read it is <<s, i>>, so a mix of two attempts would show.  What an      *)
(* overwrite does to the old row, bytes and versions in detail is in       *)
(* AsyncFilesystem; here it is one step.                                   *)
(***************************************************************************)
EXTENDS Integers, Sequences

CONSTANTS
  Sessions,   \* upload ids, one per attempt
  Size,       \* chunks in the file
  MaxDrops,   \* bound: connections that drop
  MaxStarts,  \* bound: restarts of the server
  Resumes,    \* a client that asks for the status after a dropped connection
  NoFile,     \* nothing at this path, or no part file
  NoSession   \* the client has no session

ASSUME UploadAssumption ==
  /\ Size \in Nat \ {0} /\ MaxDrops \in Nat /\ MaxStarts \in Nat
  /\ Resumes \in BOOLEAN
  /\ NoSession \notin Sessions

VARIABLES
  open,       \* server, in memory: the sessions
  part,       \* disk: the part file of each session
  row,        \* table: the checksum of the file, which is its content
  bytes,      \* disk: the content at the file's path
  calls,      \* server: the handlers in flight
  client,     \* [phase, id, off, over]
  used,       \* ids drawn so far
  drops, starts,   \* how often a connection dropped, the server restarted
  raced       \* history: two completes were in flight at once

uploadVars == <<open, part, row, bytes, calls, client, used, drops, starts, raced>>

File(s) == [i \in 1 .. Size |-> <<s, i>>]
ASSUME NoFileAssumption ==
  \A s \in Sessions, n \in 0 .. Size : NoFile # SubSeq(File(s), 1, n)
Received(s) == IF part[s] = NoFile THEN 0 ELSE Len(part[s])

Kinds == {"init", "chunk", "status", "abort", "complete"}
Calling == client.phase \in Kinds
Finished == client.phase \in {"idle", "done", "conflict", "failed"}

UploadInit ==
  /\ open = {}
  /\ part = [s \in Sessions |-> NoFile]
  /\ \/ used = {} /\ row = NoFile
     \/ \E s \in Sessions : used = {s} /\ row = File(s)
  /\ bytes = row
  /\ calls = {}
  /\ client = [phase |-> "idle", id |-> NoSession, off |-> 0, over |-> FALSE]
  /\ drops = 0 /\ starts = 0 /\ raced = FALSE

----------------------------------------------------------------------------
(* The client: uploadFileResumable.                                        *)

NewCall(kind) ==
  [kind |-> kind, id |-> client.id, off |-> client.off, over |-> client.over,
   step |-> "arrived", epoch |-> drops, sum |-> NoFile]

Call(kind) ==
  /\ client' = [client EXCEPT !.phase = kind]
  /\ calls' = calls \cup {NewCall(kind)}
  /\ UNCHANGED <<open, part, row, bytes, used, drops, starts, raced>>

(* The user uploads, or tries again: after a conflict, to overwrite.       *)
StartUpload ==
  /\ Finished
  /\ used # Sessions
  /\ client' = [client EXCEPT !.phase = "init", !.id = NoSession, !.off = 0,
                              !.over = client.phase = "conflict"]
  /\ calls' = calls \cup {[NewCall("init") EXCEPT !.id = NoSession]}
  /\ UNCHANGED <<open, part, row, bytes, used, drops, starts, raced>>

\* Bug: the loop also sends when everything was received.
PutChunkPastEnd == client.phase = "sending" /\ client.off <= Size /\ Call("chunk")
PutChunk == client.phase = "sending" /\ client.off < Size /\ Call("chunk")
SyncOffset == client.phase = "conflicting" /\ Call("status")
\* Bug: the client does not wait until everything was received.
CompleteEarly == client.phase = "sending" /\ client.off > 0 /\ Call("complete")
Complete == client.phase = "sending" /\ client.off >= Size /\ Call("complete")
\* opts.signal, looked at between two chunks
Cancel == client.phase = "sending" /\ client.off < Size /\ Call("abort")

(* What the client makes of an answer; nobody waits for a handler's answer *)
(* once the connection has dropped: epoch counts the drops before the call.*)
\* Bug: after an offset conflict the chunk is sent again as it was.
ResendAfter(kind, code, n) ==
  CASE kind \in {"init", "chunk", "status"} /\ code = 200
         -> [client EXCEPT !.phase = "sending", !.off = n]
    [] kind = "chunk" /\ code = 409 -> [client EXCEPT !.phase = "sending"]
    [] kind = "complete" /\ code = 200 -> [client EXCEPT !.phase = "done"]
    [] kind = "complete" /\ code = 409 -> [client EXCEPT !.phase = "conflict"]
    [] OTHER -> [client EXCEPT !.phase = "failed"]

After(kind, code, n) ==
  CASE kind \in {"init", "chunk", "status"} /\ code = 200
         -> [client EXCEPT !.phase = "sending", !.off = n]
    [] kind = "chunk" /\ code = 409 -> [client EXCEPT !.phase = "conflicting"]
    [] kind = "complete" /\ code = 200 -> [client EXCEPT !.phase = "done"]
    [] kind = "complete" /\ code = 409 -> [client EXCEPT !.phase = "conflict"]
    [] OTHER -> [client EXCEPT !.phase = "failed"]

Awaited(c) == Calling /\ c.epoch = drops

(* What a client makes of a network error: the frontend gives the upload   *)
(* up, another client may ask what the server has.                         *)
OnNetworkError ==
  {"failed"} \cup IF Resumes /\ client.phase \in {"chunk", "status"}
                  THEN {"conflicting"} ELSE {}

\* The call may have arrived or not.
Drop ==
  /\ Calling /\ drops < MaxDrops
  /\ drops' = drops + 1
  /\ \E phase \in OnNetworkError :
       client' = [client EXCEPT !.phase = phase]
  /\ calls' \in {calls, {c \in calls : ~(Awaited(c) /\ c.step = "arrived")}}
  /\ UNCHANGED <<open, part, row, bytes, used, starts, raced>>

----------------------------------------------------------------------------
(* The server.  Ends: the handler is over and answers.                     *)

Ends(c, code, n) ==
  /\ calls' = calls \ {c}
  /\ client' = IF Awaited(c) THEN After(c.kind, code, n) ELSE client
Turns(c, step) == calls' = (calls \ {c}) \cup {[c EXCEPT !.step = step]}

Arrived(c, kind) == c.kind = kind /\ c.step = "arrived"

\* sessions.create; the answer carries the id
CreateSession(c, s) ==
  /\ Arrived(c, "init") /\ s \notin used
  /\ used' = used \cup {s}
  /\ open' = open \cup {s}
  /\ part' = [part EXCEPT ![s] = << >>]
  /\ calls' = calls \ {c}
  /\ client' = IF Awaited(c) THEN [After("init", 200, 0) EXCEPT !.id = s] ELSE client
  /\ UNCHANGED <<row, bytes, drops, starts, raced>>

UploadStatus(c) ==
  /\ Arrived(c, "status")
  /\ Ends(c, IF c.id \in open THEN 200 ELSE 404, Received(c.id))
  /\ UNCHANGED <<open, part, row, bytes, used, drops, starts, raced>>

Discard(s) == open' = open \ {s} /\ part' = [part EXCEPT ![s] = NoFile]

UploadAbort(c) ==
  /\ Arrived(c, "abort")
  /\ Ends(c, 500, 0)
  /\ IF c.id \in open THEN Discard(c.id) ELSE UNCHANGED <<open, part>>
  /\ UNCHANGED <<row, bytes, used, drops, starts, raced>>

(* upload_chunk finds the session, then awaits the body.                   *)
FindSession(c) ==
  /\ Arrived(c, "chunk")
  /\ IF c.id \in open THEN Turns(c, "append") /\ UNCHANGED client ELSE Ends(c, 404, 0)
  /\ UNCHANGED <<open, part, row, bytes, used, drops, starts, raced>>

\* Bug: an offset inside what was received is accepted.
NoGap(c) == c.off <= Received(c.id)
OffsetFits(c) == c.off = Received(c.id)

(* append: open(tmp, "ab") creates the part file if it is gone.            *)
AppendChunk(c) ==
  /\ c.kind = "chunk" /\ c.step = "append"
  /\ IF OffsetFits(c)
     THEN LET new == Append(IF part[c.id] = NoFile THEN << >> ELSE part[c.id],
                            <<c.id, c.off + 1>>)
          IN  part' = [part EXCEPT ![c.id] = new] /\ Ends(c, 200, Len(new))
     ELSE Ends(c, 409, 0) /\ UNCHANGED part
  /\ UNCHANGED <<open, row, bytes, used, drops, starts, raced>>

(* upload_complete: find the session; await the entry at the path; adopt.  *)
BeginComplete(c) ==
  /\ Arrived(c, "complete")
  /\ IF c.id \in open THEN Turns(c, "look") /\ UNCHANGED client ELSE Ends(c, 404, 0)
  /\ raced' = (raced \/ \E o \in calls : o.kind = "complete" /\ o # c)
  /\ UNCHANGED <<open, part, row, bytes, used, drops, starts>>

\* nothing there, or the old file has been removed: finalize_path, getsize
Finalize(c) ==
  /\ open' = open \ {c.id} /\ UNCHANGED part
  /\ IF part[c.id] = NoFile THEN Ends(c, 500, 0) ELSE Turns(c, "hash") /\ UNCHANGED client

MakeWay == row' = NoFile /\ bytes' = NoFile

LookForEntry(c) ==
  /\ c.kind = "complete" /\ c.step = "look"
  /\ \/ row = NoFile /\ Finalize(c) /\ UNCHANGED <<row, bytes>>
     \/ row # NoFile /\ ~c.over /\ Discard(c.id) /\ Ends(c, 409, 0)
          /\ UNCHANGED <<row, bytes>>
     \/ row # NoFile /\ c.over /\ MakeWay /\ Finalize(c)
  /\ UNCHANGED <<used, drops, starts, raced>>

HashPart(c) ==
  /\ c.step = "hash"
  /\ IF part[c.id] = NoFile
     THEN Ends(c, 500, 0)
     ELSE /\ calls' = (calls \ {c}) \cup {[c EXCEPT !.step = "adopt", !.sum = part[c.id]]}
          /\ UNCHANGED client
  /\ UNCHANGED <<open, part, row, bytes, used, drops, starts, raced>>

AdoptPart(c) ==
  /\ c.step = "adopt"
  /\ IF part[c.id] = NoFile
     THEN Ends(c, 500, 0) /\ UNCHANGED <<part, bytes>>
     ELSE /\ bytes' = part[c.id]
          /\ part' = [part EXCEPT ![c.id] = NoFile]
          /\ Turns(c, "insert") /\ UNCHANGED client
  /\ UNCHANGED <<open, row, used, drops, starts, raced>>

InsertFile(c) ==
  /\ c.step = "insert"
  /\ IF row = NoFile
     THEN row' = c.sum /\ Ends(c, 200, 0) /\ UNCHANGED bytes
     ELSE bytes' = NoFile /\ Ends(c, 500, 0) /\ UNCHANGED row
  /\ UNCHANGED <<open, part, used, drops, starts, raced>>

(* Sessions and handlers are gone, part files stay.                        *)
Restart ==
  /\ starts < MaxStarts
  /\ starts' = starts + 1
  /\ open' = {} /\ calls' = {}
  /\ \/ ~Calling /\ UNCHANGED client
     \/ Calling /\ \E phase \in OnNetworkError : client' = [client EXCEPT !.phase = phase]
  /\ UNCHANGED <<part, row, bytes, used, drops, raced>>

ClientStep == PutChunk \/ SyncOffset \/ Complete
Handle(c) ==
  \/ \E s \in Sessions : CreateSession(c, s)
  \/ UploadStatus(c) \/ UploadAbort(c)
  \/ FindSession(c) \/ AppendChunk(c)
  \/ BeginComplete(c) \/ LookForEntry(c) \/ HashPart(c) \/ AdoptPart(c) \/ InsertFile(c)

UploadNext ==
  \/ StartUpload \/ Cancel \/ Drop \/ Restart
  \/ ClientStep
  \/ \E c \in calls : Handle(c)

UploadSpec == UploadInit /\ [][UploadNext]_uploadVars

(* The client's loop and the server's handlers go on; the user, the        *)
(* network and the operator need not do anything.                          *)
UploadFairSpec == UploadSpec /\ WF_uploadVars(ClientStep) /\ WF_uploadVars(\E c \in calls : Handle(c))

----------------------------------------------------------------------------
(* Type invariant of the protocol's state.                                 *)
UploadTypeOK ==
  /\ open \subseteq used /\ used \subseteq Sessions
  /\ client.id \in used \cup {NoSession} /\ client.off \in 0 .. Size
  /\ \A c \in calls : c.kind \in Kinds /\ c.id \in used \cup {NoSession}
  /\ \A s \in Sessions : Received(s) <= Size

(* A part file is a beginning of the file it is part of: no gap, no chunk  *)
(* twice, none of another attempt, whatever calls are lost, repeated after *)
(* a lost answer, or arrive after the session was finalised.  The file     *)
(* that is listed is complete: the server never compares it with the       *)
(* declared size, the client's offset is what keeps a short part file from *)
(* being adopted.  And unless two completes ran at once it has its bytes,  *)
(* and its checksum is theirs, also when the server stops between putting  *)
(* the bytes in place and listing them.                                    *)
WholeFiles ==
  /\ \A s \in Sessions : part[s] # NoFile => part[s] = SubSeq(File(s), 1, Len(part[s]))
  /\ row # NoFile => \E s \in Sessions : row = File(s)
  /\ ~raced /\ row # NoFile => row = bytes

(* A client that is told the upload is complete finds its own bytes.       *)
AcknowledgedIsStored ==
  [][(client.phase # "done" /\ client'.phase = "done" /\ ~raced)
       => row' = File(client.id) /\ bytes' = File(client.id)]_uploadVars

(* An upload that is under way comes to an end, offset conflicts and       *)
(* dropped connections included.                                           *)
UploadEnds == (client.phase = "sending") ~> Finished

============================================================================
