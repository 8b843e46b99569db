---------------------------- MODULE UploadProofs ---------------------------
(***************************************************************************)
(* The two protocols of uploading, each for itself.                        *)
(*                                                                         *)
(* What the chunked upload protocol keeps for any size of file, any number *)
(* of attempts, dropped connections and restarts.  The server never        *)
(* compares a file with its declared size.  That what it adopts is         *)
(* complete rests on the client's offset: while an upload goes on, the     *)
(* part file is at least as long as the offset (Going), and the client     *)
(* sends one closing call per session, its last (OneClosing).              *)
(*                                                                         *)
(* And what uploads of folders keep, for any number of drops at once, any  *)
(* files and folders, any size of the pools and any interference.          *)
(***************************************************************************)
EXTENDS UploadSessions, FolderUpload, SequenceTheorems, FiniteSetTheorems, TLAPS

----------------------------------------------------------------------------
(* A file in chunks: UploadSessions.                                       *)

Begin(s, n) == [i \in 1 .. n |-> <<s, i>>]
Parts == {NoFile} \cup {Begin(s, n) : s \in Sessions, n \in 0 .. Size}
Rows == {NoFile} \cup {File(s) : s \in Sessions}
Phases == Kinds \cup {"idle", "done", "conflict", "failed", "sending", "conflicting"}
Typed ==
  /\ open \subseteq used /\ used \subseteq Sessions
  /\ part \in [Sessions -> Parts] /\ row \in Rows
  /\ client \in [phase : Phases, id : used \cup {NoSession}, off : 0 .. Size, over : BOOLEAN]
  /\ drops \in Nat /\ raced \in BOOLEAN

CallsTyped ==
  \A c \in calls :
    /\ c = [kind |-> c.kind, id |-> c.id, off |-> c.off, over |-> c.over, step |-> c.step,
            epoch |-> c.epoch, sum |-> c.sum]
    /\ c.kind \in Kinds /\ c.step \in {"arrived", "append", "look", "hash", "adopt", "insert"}
    /\ c.step # "arrived" => c.kind = IF c.step = "append" THEN "chunk" ELSE "complete"
    /\ c.id \in IF c.kind = "init" THEN {NoSession} ELSE used
    /\ c.kind = "chunk" => c.off \in 0 .. Size - 1
    /\ c.epoch \in 0 .. drops

\* A part file is a beginning of its own file.
Own == \A s \in Sessions : part[s] # NoFile => part[s] = Begin(s, Len(part[s])) /\ Len(part[s]) \in 0 .. Size

\* The call the client waits for, if it is in flight, is the one it made last.
OneAwaited ==
  \A c \in calls :
    /\ \A d \in calls : c.epoch = d.epoch => c = d
    /\ c.epoch = drops => /\ client.phase = c.kind
                          /\ c.kind # "init" => c.id = client.id
                          /\ c.kind = "chunk" => c.off = client.off

Closing == {"complete", "abort"}
OneClosing ==
  \A c \in calls, d \in calls :
    c.kind \in Closing /\ d.kind \in Closing /\ c.id = d.id => c = d

\* The upload goes on, with this session.
OnTheWay == client.phase \in {"sending", "conflicting", "chunk", "status"}
Going ==
  OnTheWay => /\ client.id \in used /\ part[client.id] # NoFile
            /\ client.off <= Len(part[client.id])
            /\ \A c \in calls : c.kind \in Closing => c.id # client.id

Whole(c) ==
  /\ c.step # "insert" => part[c.id] # NoFile /\ Len(part[c.id]) = Size
  /\ c.step \in {"adopt", "insert"} => c.sum = File(c.id)
Completing == \A c \in calls : c.kind = "complete" => Whole(c)

\* Nobody else completes, and the place is free.
Alone(c) ==
  c.step # "arrived" =>
    /\ \A d \in calls : d.kind = "complete" /\ d.step # "arrived" => c = d
    /\ c.step # "look" => row = NoFile
    /\ c.step = "insert" => bytes = c.sum
Unraced ==
  ~raced => /\ row # NoFile => row = bytes
            /\ \A c \in calls : c.kind = "complete" => Alone(c)

UploadInv ==
  Typed /\ CallsTyped /\ Own /\ OneAwaited /\ OneClosing /\ Going /\ Completing /\ Unraced

----------------------------------------------------------------------------

LEMMA Beginnings ==
  ASSUME NEW s \in Sessions, NEW n \in 0 .. Size
  PROVE  /\ Begin(s, n) \in Seq({s} \X Nat) /\ Len(Begin(s, n)) = n
         /\ SubSeq(File(s), 1, n) = Begin(s, n) /\ Begin(s, n) # NoFile
         /\ Append(Begin(s, n), <<s, n + 1>>) = Begin(s, n + 1)
<1>1. Size \in Nat \ {0}
  BY UploadAssumption
<1>2. Begin(s, n) \in Seq({s} \X Nat) /\ Len(Begin(s, n)) = n
  BY <1>1 DEF Begin
<1>3. File(s) \in Seq({s} \X Nat) /\ Len(File(s)) = Size
  BY <1>1 DEF File
<1>4. SubSeq(File(s), 1, n) = Begin(s, n)
  BY <1>1, <1>3 DEF Begin, File
<1>5. Append(Begin(s, n), <<s, n + 1>>) = Begin(s, n + 1)
  BY <1>2 DEF Begin
<1> QED
  BY <1>2, <1>4, <1>5, NoFileAssumption

LEMMA Nothing ==
  ASSUME NEW s \in Sessions
  PROVE  << >> = Begin(s, 0) /\ File(s) = Begin(s, Size) /\ File(s) # NoFile
<1>1. << >> = Begin(s, 0)
  BY DEF Begin
<1>2. File(s) = Begin(s, Size)
  BY DEF Begin, File
<1>3. Size \in 0 .. Size
  BY UploadAssumption
<1> QED
  BY <1>1, <1>2, <1>3, Beginnings

----------------------------------------------------------------------------
(* Calls that end or go on, and the client.                                *)

Clients(ids) == [phase : Phases, id : ids \cup {NoSession}, off : 0 .. Size, over : BOOLEAN]

\* What the end of a call leaves of an upload that goes on.
StillGoing(c, code, n) ==
  OnTheWay' => /\ OnTheWay /\ client'.id = client.id
             /\ \/ client'.off = client.off
                \/ code = 200 /\ client'.off = n /\ c.id = client.id

LEMMA CallEnds ==
  ASSUME UploadInv, NEW c \in calls, c.kind # "init", NEW code, NEW n \in 0 .. Size,
         Ends(c, code, n), UNCHANGED <<used, drops>>
  PROVE  /\ calls' = calls \ {c}
         /\ CallsTyped' /\ OneAwaited' /\ OneClosing' /\ StillGoing(c, code, n)
         /\ client' \in Clients(used)
<1> USE DEF UploadInv
<1>1. calls' = calls \ {c} /\ client \in Clients(used)
  BY DEF Ends, Typed, Clients
<1>2. c.kind \in Kinds /\ (Awaited(c) => c.epoch = drops)
  BY DEF CallsTyped, Awaited
<1>3. CASE ~Awaited(c)
  <2>1. client' = client
    BY <1>3 DEF Ends
  <2> QED
    BY <1>1, <2>1 DEF CallsTyped, OneAwaited, OneClosing, StillGoing, OnTheWay, Typed
<1>4. CASE Awaited(c)
  <2>1. /\ client' = [client EXCEPT !.phase = client'.phase, !.off = client'.off]
        /\ client'.phase \in Phases
        /\ client'.off = client.off \/ (code = 200 /\ client'.off = n)
        /\ client'.phase \in {"sending", "conflicting"} => c.kind \in {"chunk", "status"}
        /\ client'.phase \notin {"chunk", "status"}
    <3>1. client' = After(c.kind, code, n)
      BY <1>4 DEF Ends
    <3>2. CASE c.kind \in {"init", "chunk", "status"} /\ code = 200
      <4>1. client' = [client EXCEPT !.phase = "sending", !.off = n]
        BY <3>1, <3>2 DEF After
      <4> QED
        BY <1>1, <3>2, <4>1 DEF Clients, Phases
    <3>3. CASE ~(c.kind \in {"init", "chunk", "status"} /\ code = 200)
      <4>1. PICK phase \in {"conflicting", "done", "conflict", "failed"} :
              client' = [client EXCEPT !.phase = phase] /\ (phase = "conflicting" => c.kind = "chunk")
        BY <3>1, <3>3 DEF After
      <4> QED
        BY <1>1, <4>1 DEF Clients, Phases
    <3> QED
      BY <3>2, <3>3
  <2>2. client.phase = c.kind /\ c.id = client.id
    BY <1>2, <1>4 DEF OneAwaited
  <2>3. \A d \in calls' : d.epoch # drops
    BY <1>1, <1>2, <1>4 DEF OneAwaited
  <2>4. StillGoing(c, code, n)
    BY <1>1, <2>1, <2>2 DEF StillGoing, OnTheWay, Clients
  <2>5. client' \in Clients(used)
    BY <1>1, <2>1, ZenonT(40) DEF Clients
  <2> QED
    BY <1>1, <2>3, <2>4, <2>5 DEF CallsTyped, OneAwaited, OneClosing
<1> QED
  BY <1>3, <1>4

Moved(c, step, sum) ==
  [kind |-> c.kind, id |-> c.id, off |-> c.off, over |-> c.over, step |-> step,
   epoch |-> c.epoch, sum |-> sum]

\* The call takes a step on its way; the client waits on.
LEMMA CallGoesOn ==
  ASSUME UploadInv, NEW c \in calls, NEW step \in {"append", "look", "hash", "adopt", "insert"},
         NEW sum, c.kind = IF step = "append" THEN "chunk" ELSE "complete",
         calls' = (calls \ {c}) \cup {Moved(c, step, sum)}, UNCHANGED <<client, used, drops>>
  PROVE  CallsTyped' /\ OneAwaited' /\ OneClosing'
<1> USE DEF UploadInv
<1> DEFINE d == Moved(c, step, sum)
<1>1. /\ d = [kind |-> d.kind, id |-> d.id, off |-> d.off, over |-> d.over, step |-> d.step,
              epoch |-> d.epoch, sum |-> d.sum]
      /\ d.step = step /\ d.kind = c.kind /\ d.id = c.id /\ d.off = c.off /\ d.epoch = c.epoch
  BY DEF Moved
<1> HIDE DEF d
<1>2. calls' = (calls \ {c}) \cup {d}
  BY DEF d
<1>3. CallsTyped'
  BY <1>1, <1>2 DEF CallsTyped
<1>4. OneAwaited'
  BY <1>1, <1>2 DEF OneAwaited
<1>5. OneClosing'
  BY <1>1, <1>2 DEF OneClosing
<1> QED
  BY <1>3, <1>4, <1>5

LEMMA TurnMoves ==
  ASSUME UploadInv, NEW c \in calls, NEW step
  PROVE  [c EXCEPT !.step = step] = Moved(c, step, c.sum)
<1>1. PICK kind, id, off, over, at, epoch, sum :
        c = [kind |-> kind, id |-> id, off |-> off, over |-> over, step |-> at,
             epoch |-> epoch, sum |-> sum]
  BY DEF UploadInv, CallsTyped
<1> QED
  BY <1>1 DEF Moved

LEMMA TurnMovesSum ==
  ASSUME UploadInv, NEW c \in calls, NEW step, NEW sum
  PROVE  [c EXCEPT !.step = step, !.sum = sum] = Moved(c, step, sum)
<1>1. [c EXCEPT !.step = step] = Moved(c, step, c.sum)
  BY TurnMoves
<1>2. [Moved(c, step, c.sum) EXCEPT !.sum = sum] = Moved(c, step, sum)
  BY DEF Moved
<1>3. [c EXCEPT !.step = step, !.sum = sum] = [[c EXCEPT !.step = step] EXCEPT !.sum = sum]
  OBVIOUS
<1> QED
  BY <1>1, <1>2, <1>3

\* The client makes a call.
LEMMA CallSent ==
  ASSUME UploadInv, client.phase \notin Kinds, client' \in Clients(used), NEW d,
         d = [NewCall(client'.phase) EXCEPT !.id = client'.id],
         d.kind \in Kinds, d.id \in IF d.kind = "init" THEN {NoSession} ELSE used,
         d.kind = "chunk" => d.off = client'.off /\ d.off \in 0 .. Size - 1,
         d.kind \in Closing => \A c \in calls : c.kind \in Closing => c.id # d.id,
         calls' = calls \cup {d}, UNCHANGED <<used, drops>>
  PROVE  CallsTyped' /\ OneAwaited' /\ OneClosing'
<1> USE DEF UploadInv
<1>1. /\ d = [kind |-> d.kind, id |-> d.id, off |-> d.off, over |-> d.over, step |-> "arrived",
              epoch |-> drops, sum |-> d.sum]
      /\ d.kind = client'.phase /\ d.id = client'.id /\ d.step = "arrived" /\ d.epoch = drops
  BY DEF NewCall
<1>2. drops \in Nat /\ \A c \in calls : c.kind \in Kinds /\ c.epoch # drops
  BY DEF Typed, CallsTyped, OneAwaited
<1>3. CallsTyped'
  BY <1>1, <1>2 DEF CallsTyped
<1>4. OneAwaited'
  BY <1>1, <1>2 DEF OneAwaited
<1>5. OneClosing'
  BY <1>1 DEF OneClosing
<1> QED
  BY <1>3, <1>4, <1>5

LEMMA InitKeeps ==
  ASSUME UploadInit
  PROVE  UploadInv
<1>1. Size \in Nat \ {0} /\ NoFile \in Parts
  BY UploadAssumption DEF Parts
<1>2. used \subseteq Sessions /\ row \in Rows
  BY DEF UploadInit, Rows
<1>3. part \in [Sessions -> Parts] /\ drops \in Nat /\ raced \in BOOLEAN
  BY <1>1 DEF UploadInit
<1>4. client \in Clients(used)
  <2>1. client = [phase |-> "idle", id |-> NoSession, off |-> 0, over |-> FALSE]
    BY DEF UploadInit
  <2> QED
    BY <1>1, <2>1 DEF Clients, Phases
<1>6. Typed
  BY <1>2, <1>3, <1>4 DEF UploadInit, Typed, Clients
<1>5. CallsTyped /\ Own /\ OneAwaited /\ OneClosing /\ Going /\ Completing /\ Unraced
  BY DEF UploadInit, CallsTyped, Own, OneAwaited, OneClosing, Going, OnTheWay, Completing, Unraced
<1> QED
  BY <1>5, <1>6 DEF UploadInv

LEMMA StartUploadKeeps ==
  ASSUME UploadInv, StartUpload
  PROVE  UploadInv'
<1> USE DEF UploadInv
<1> DEFINE d == [NewCall("init") EXCEPT !.id = NoSession]
<1>1. Size \in Nat \ {0}
  BY UploadAssumption
<1>2. /\ client \in Clients(used) /\ client.phase \notin Kinds
      /\ UNCHANGED <<open, part, row, bytes, used, drops, raced>>
  BY DEF StartUpload, Finished, Kinds, Typed, Clients
<1>3. /\ client' \in Clients(used)
      /\ client'.phase = "init" /\ client'.id = NoSession /\ client'.off = 0
  <2>1. PICK again \in BOOLEAN :
          client' = [client EXCEPT !.phase = "init", !.id = NoSession, !.off = 0, !.over = again]
    BY Zenon DEF StartUpload
  <2>2. client' = [phase |-> "init", id |-> NoSession, off |-> 0, over |-> again]
    BY <1>2, <2>1 DEF Clients
  <2> QED
    BY <1>1, <2>2 DEF Clients, Phases, Kinds
<1>4. CallsTyped' /\ OneAwaited' /\ OneClosing'
  <2>1. d.kind = "init" /\ d.id = NoSession /\ calls' = calls \cup {d}
    BY DEF StartUpload, NewCall
  <2> QED
    BY <1>2, <1>3, <2>1, CallSent DEF Kinds, Closing, NewCall
<1>5. \A c \in calls' : c.kind # "complete" \/ c \in calls
  BY DEF StartUpload, NewCall
<1>6. Typed' /\ Own' /\ Going' /\ Completing'
  BY <1>2, <1>3, <1>5 DEF Typed, Clients, Own, Going, OnTheWay, Completing, Whole
<1>7. Unraced'
  BY <1>2, <1>5 DEF Unraced, Alone
<1> QED
  BY <1>4, <1>6, <1>7

LEMMA SendKeeps ==
  ASSUME UploadInv, NEW kind \in {"chunk", "status", "abort", "complete"}, Call(kind),
         client.phase \in {"sending", "conflicting"},
         kind = "chunk" => client.off < Size, kind = "complete" => client.off >= Size
  PROVE  UploadInv'
<1> USE DEF UploadInv
<1> DEFINE d == NewCall(kind)
<1>1. Size \in Nat \ {0}
  BY UploadAssumption
<1>2. /\ client \in Clients(used) /\ client.phase \notin Kinds /\ OnTheWay
      /\ client' = [client EXCEPT !.phase = kind] /\ calls' = calls \cup {d}
      /\ UNCHANGED <<open, part, row, bytes, used, drops, raced>>
  BY DEF Call, Kinds, Typed, Clients, OnTheWay
<1>3. /\ client' \in Clients(used)
      /\ client'.phase = kind /\ client'.id = client.id /\ client'.off = client.off
  BY <1>2 DEF Clients, Phases, Kinds
<1>4. /\ d.kind = kind /\ d.id = client.id /\ d.off = client.off /\ d.step = "arrived"
      /\ d = [NewCall(kind) EXCEPT !.id = client'.id] /\ kind \in Kinds
  BY <1>3 DEF NewCall, Kinds
<1>5. /\ client.id \in used /\ part[client.id] # NoFile
      /\ client.off <= Len(part[client.id]) /\ Len(part[client.id]) \in 0 .. Size
      /\ \A c \in calls : c.kind \in Closing => c.id # client.id
  BY <1>2 DEF Going, Own, Typed
<1>6. client.off \in 0 .. Size
  BY <1>2 DEF Clients
<1>7. CallsTyped' /\ OneAwaited' /\ OneClosing'
  BY <1>1, <1>2, <1>3, <1>4, <1>5, <1>6, CallSent DEF Closing
<1>8. Typed' /\ Own'
  BY <1>2, <1>3 DEF Typed, Own, Clients
<1>9. Going'
  BY <1>2, <1>3, <1>4, <1>5 DEF Going, OnTheWay, Closing
<1>10. Completing'
  BY <1>1, <1>2, <1>4, <1>5, <1>6 DEF Completing, Whole
<1>11. Unraced'
  BY <1>2, <1>4 DEF Unraced, Alone
<1> QED
  BY <1>7, <1>8, <1>9, <1>10, <1>11

LEMMA ClientKeeps ==
  ASSUME UploadInv, ClientStep \/ Cancel
  PROVE  UploadInv'
<1>1. Size \in Nat \ {0} /\ client.off \in 0 .. Size
  BY UploadAssumption DEF UploadInv, Typed
<1>2. CASE PutChunk
  BY <1>2, SendKeeps DEF PutChunk
<1>3. CASE SyncOffset
  BY <1>3, SendKeeps DEF SyncOffset
<1>4. CASE Complete
  BY <1>4, SendKeeps DEF Complete
<1>5. CASE Cancel
  BY <1>5, SendKeeps DEF Cancel
<1> QED
  BY <1>2, <1>3, <1>4, <1>5 DEF ClientStep

\* A connection drops, or the server restarts: fewer calls, none of them awaited.
LEMMA FewerCalls ==
  ASSUME UploadInv, calls' \subseteq calls, drops' \in Nat, drops <= drops',
         \A c \in calls' : c.epoch # drops', Calling => client'.phase \in OnNetworkError,
         ~Calling => client' = client,
         client' = [client EXCEPT !.phase = client'.phase], open' \subseteq open,
         UNCHANGED <<part, row, bytes, used, raced>>
  PROVE  UploadInv'
<1> USE DEF UploadInv
<1>1. client \in Clients(used)
  BY DEF Typed, Clients
<1>2. /\ client'.id = client.id /\ client'.off = client.off /\ client'.phase \in Phases
      /\ client' \in Clients(used) /\ (OnTheWay' => OnTheWay)
  BY <1>1 DEF Clients, Phases, OnNetworkError, Calling, OnTheWay, Kinds
<1>3. Typed' /\ Own'
  BY <1>2 DEF Typed, Own, Clients
<1>4. CallsTyped'
  BY DEF CallsTyped, Typed
<1>5. OneAwaited' /\ OneClosing'
  BY DEF OneAwaited, OneClosing
<1>6. Going'
  BY <1>2 DEF Going
<1>7. Completing' /\ Unraced'
  BY DEF Completing, Unraced, Whole, Alone
<1> QED
  BY <1>3, <1>4, <1>5, <1>6, <1>7

LEMMA DropKeeps ==
  ASSUME UploadInv, Drop
  PROVE  UploadInv'
<1>1. drops \in Nat /\ drops' = drops + 1
  BY DEF Drop, UploadInv, Typed
<1>2. calls' \subseteq calls /\ \A c \in calls : c.epoch \in 0 .. drops
  BY DEF Drop, UploadInv, CallsTyped
<1>3. client \in Clients(used)
  BY DEF UploadInv, Typed, Clients
<1>4. client' = [client EXCEPT !.phase = client'.phase] /\ client'.phase \in OnNetworkError
  BY <1>3 DEF Drop, Clients
<1> QED
  BY <1>1, <1>2, <1>4, FewerCalls DEF Drop

LEMMA RestartKeeps ==
  ASSUME UploadInv, Restart
  PROVE  UploadInv'
<1>1. client \in Clients(used) /\ drops \in Nat
  BY DEF UploadInv, Typed, Clients
<1>2. /\ client' = [client EXCEPT !.phase = client'.phase]
      /\ Calling => client'.phase \in OnNetworkError
      /\ ~Calling => client' = client
  BY <1>1 DEF Restart, Clients
<1> QED
  BY <1>1, <1>2, FewerCalls DEF Restart

----------------------------------------------------------------------------
(* The handlers.                                                           *)

LEMMA HandlerAt ==
  ASSUME UploadInv, NEW c \in calls, c.kind # "init"
  PROVE  /\ c.id \in used /\ c.id \in Sessions
         /\ Received(c.id) \in 0 .. Size
         /\ part[c.id] # NoFile => part[c.id] = Begin(c.id, Received(c.id))
                                   /\ Received(c.id) = Len(part[c.id])
<1>1. c.id \in used /\ c.id \in Sessions /\ Size \in Nat
  BY UploadAssumption DEF UploadInv, Typed, CallsTyped
<1> QED
  BY <1>1 DEF UploadInv, Own, Received

\* A call that is answered with no effect but the answer, or with a part file appended to.
LEMMA AnswerKeeps ==
  ASSUME UploadInv, NEW c \in calls, c.kind # "init", NEW code, NEW n \in 0 .. Size,
         Ends(c, code, n), UNCHANGED <<used, drops, raced, row, bytes, open>>,
         Own', part' \in [Sessions -> Parts],
         \/ part' = part /\ (code = 200 => n = Received(c.id))
         \/ /\ part' = [part EXCEPT ![c.id] = part'[c.id]] /\ part'[c.id] # NoFile
            /\ Received(c.id) < Len(part'[c.id]) /\ n = Len(part'[c.id])
            /\ Received(c.id) # Size
  PROVE  UploadInv'
<1> USE DEF UploadInv
<1>1. /\ calls' = calls \ {c} /\ client' \in Clients(used) /\ StillGoing(c, code, n)
      /\ CallsTyped' /\ OneAwaited' /\ OneClosing'
  BY CallEnds
<1>2. /\ c.id \in Sessions /\ Received(c.id) \in 0 .. Size
      /\ part[c.id] # NoFile => Received(c.id) = Len(part[c.id])
  BY HandlerAt
<1>3. Typed'
  BY <1>1 DEF Typed, Clients
<1>4. ASSUME OnTheWay'
      PROVE  /\ client'.id \in used /\ part'[client'.id] # NoFile
             /\ client'.off <= Len(part'[client'.id])
  <2>1. /\ client.id \in Sessions /\ client.id \in used /\ part[client.id] # NoFile
        /\ client.off <= Len(part[client.id]) /\ client'.id = client.id
        /\ Len(part[client.id]) \in 0 .. Size /\ client.off \in 0 .. Size
        /\ \/ client'.off = client.off
           \/ code = 200 /\ client'.off = n /\ c.id = client.id
    BY <1>1, <1>4 DEF StillGoing, Going, Typed, Own
  <2>2. CASE part' = part /\ (code = 200 => n = Received(c.id))
    BY <1>2, <2>1, <2>2
  <2>3. CASE /\ part' = [part EXCEPT ![c.id] = part'[c.id]] /\ part'[c.id] # NoFile
             /\ Received(c.id) < Len(part'[c.id]) /\ n = Len(part'[c.id])
    <3>1. CASE c.id = client.id
      BY <1>2, <2>1, <2>3, <3>1
    <3>2. CASE c.id # client.id
      <4>1. part'[client.id] = part[client.id]
        BY <2>1, <2>3, <3>2 DEF Typed
      <4> QED
        BY <2>1, <3>2, <4>1
    <3> QED
      BY <3>1, <3>2
  <2> QED
    BY <2>2, <2>3
<1>5. Going'
  <2>1. OnTheWay' => OnTheWay /\ client'.id = client.id
    BY <1>1 DEF StillGoing
  <2> QED
    BY <1>1, <1>4, <2>1 DEF Going
<1>6. Completing'
  <2>1. SUFFICES ASSUME NEW d \in calls', d.kind = "complete", d.step # "insert"
                 PROVE  part'[d.id] # NoFile /\ Len(part'[d.id]) = Size
    BY <1>1 DEF Completing, Whole
  <2>2. part[d.id] # NoFile /\ Len(part[d.id]) = Size /\ d.id \in Sessions
    BY <1>1, <2>1 DEF Completing, Whole, CallsTyped, Typed
  <2>3. d.id = c.id => Received(c.id) = Size
    BY <1>2, <2>2
  <2> QED
    BY <1>2, <2>2, <2>3 DEF Typed
<1>7. Unraced'
  BY <1>1 DEF Unraced, Alone
<1> QED
  BY <1>1, <1>3, <1>5, <1>6, <1>7

LEMMA UploadStatusKeeps ==
  ASSUME UploadInv, NEW c \in calls, UploadStatus(c)
  PROVE  UploadInv'
<1>1. c.kind = "status"
  BY DEF UploadStatus, Arrived
<1>2. Received(c.id) \in 0 .. Size
  BY <1>1, HandlerAt
<1>3. Own' /\ part' \in [Sessions -> Parts]
  BY DEF UploadStatus, UploadInv, Own, Typed
<1> QED
  BY <1>1, <1>2, <1>3, AnswerKeeps DEF UploadStatus

LEMMA FindSessionKeeps ==
  ASSUME UploadInv, NEW c \in calls, FindSession(c)
  PROVE  UploadInv'
<1> USE DEF UploadInv
<1>1. c.kind = "chunk" /\ UNCHANGED <<open, part, row, bytes, used, drops, raced>>
  BY DEF FindSession, Arrived
<1>2. CASE c.id \in open
  <2> DEFINE d == Moved(c, "append", c.sum)
  <2>1. calls' = (calls \ {c}) \cup {d} /\ client' = client
    BY <1>2, TurnMoves DEF FindSession, Turns
  <2>2. d.step = "append" /\ d.kind = "chunk"
    BY <1>1 DEF Moved
  <2>3. CallsTyped' /\ OneAwaited' /\ OneClosing'
    BY <1>1, <2>1, <2>2, CallGoesOn
  <2>4. Typed' /\ Own' /\ Going' /\ Completing' /\ Unraced'
    BY <1>1, <2>1, <2>2
       DEF Typed, Own, Going, OnTheWay, Closing, Completing, Whole, Unraced, Alone
  <2> QED
    BY <2>3, <2>4
<1>3. CASE c.id \notin open
  <2>1. Ends(c, 404, 0) /\ 0 \in 0 .. Size
    BY <1>3, UploadAssumption DEF FindSession
  <2> QED
    BY <1>1, <2>1, AnswerKeeps DEF Own, Typed
<1> QED
  BY <1>2, <1>3

\* The part file grows by the next chunk, and by no other.
LEMMA AppendChunkKeeps ==
  ASSUME UploadInv, NEW c \in calls, AppendChunk(c)
  PROVE  UploadInv'
<1> USE DEF UploadInv
<1>1. /\ c.kind = "chunk" /\ UNCHANGED <<open, row, bytes, used, drops, raced>>
      /\ c.off \in 0 .. Size - 1 /\ Size \in Nat
  BY UploadAssumption DEF AppendChunk, CallsTyped
<1>2. /\ c.id \in Sessions /\ Received(c.id) \in 0 .. Size /\ part \in [Sessions -> Parts]
      /\ part[c.id] # NoFile => part[c.id] = Begin(c.id, Received(c.id))
  BY <1>1, HandlerAt DEF Typed
<1>3. CASE c.off = Received(c.id)
  <2> DEFINE new == Begin(c.id, c.off + 1)
  <2>0. c.off \in 0 .. Size /\ c.off + 1 \in 0 .. Size
    BY <1>1
  <2>1. Append(IF part[c.id] = NoFile THEN << >> ELSE part[c.id], <<c.id, c.off + 1>>) = new
    <3>1. (IF part[c.id] = NoFile THEN << >> ELSE part[c.id]) = Begin(c.id, c.off)
      BY <1>2, <1>3, Nothing DEF Received
    <3>2. Append(Begin(c.id, c.off), <<c.id, c.off + 1>>) = Begin(c.id, c.off + 1)
      BY <1>2, <2>0, Beginnings
    <3> QED
      BY <3>1, <3>2
  <2>2. new # NoFile /\ Len(new) = c.off + 1 /\ new \in Parts
    <3>1. Begin(c.id, c.off + 1) # NoFile /\ Len(Begin(c.id, c.off + 1)) = c.off + 1
      BY <1>2, <2>0, Beginnings
    <3>2. \A s \in Sessions, n \in 0 .. Size : Begin(s, n) \in Parts
      BY DEF Parts
    <3> QED
      BY <1>2, <2>0, <3>1, <3>2
  <2> HIDE DEF new
  <2>3. part' = [part EXCEPT ![c.id] = new] /\ Ends(c, 200, c.off + 1)
    BY <1>3, <2>1, <2>2 DEF AppendChunk, OffsetFits
  <2>4. part'[c.id] = new /\ part' \in [Sessions -> Parts]
    BY <1>2, <2>2, <2>3
  <2>5. Own'
    <3>1. new = Begin(c.id, Len(new)) /\ Len(new) \in 0 .. Size
      BY <2>0, <2>2 DEF new
    <3> QED
      BY <1>2, <2>3, <3>1 DEF Own
  <2>6. /\ part' = [part EXCEPT ![c.id] = part'[c.id]] /\ part'[c.id] # NoFile
        /\ Received(c.id) < Len(part'[c.id]) /\ c.off + 1 = Len(part'[c.id])
        /\ Received(c.id) # Size /\ c.kind # "init"
    <3>1. [part EXCEPT ![c.id] = part'[c.id]] = [part EXCEPT ![c.id] = new]
      BY <2>4
    <3>2. part' = [part EXCEPT ![c.id] = part'[c.id]]
      BY ONLY <2>3, <3>1
    <3> QED
      BY <1>1, <1>2, <1>3, <2>2, <2>4, <3>2
  <2> QED
    BY <1>1, <2>0, <2>3, <2>4, <2>5, <2>6, AnswerKeeps
<1>4. CASE c.off # Received(c.id)
  <2>1. Ends(c, 409, 0) /\ part' = part /\ 0 \in 0 .. Size
    BY <1>1, <1>4 DEF AppendChunk, OffsetFits
  <2> QED
    BY <1>1, <2>1, AnswerKeeps DEF Own, Typed
<1> QED
  BY <1>3, <1>4

\* A closing call is answered; its part file stays or goes.
LEMMA ClosingEnds ==
  ASSUME UploadInv, NEW c \in calls, c.kind \in Closing, NEW code, Ends(c, code, 0),
         part' = part \/ part' = [part EXCEPT ![c.id] = NoFile],
         open' \subseteq used, row' \in Rows, raced' \in BOOLEAN, UNCHANGED <<used, drops>>,
         Unraced'
  PROVE  UploadInv'
<1> USE DEF UploadInv
<1>1. Size \in Nat /\ 0 \in 0 .. Size /\ c.kind # "init" /\ NoFile \in Parts
  BY UploadAssumption DEF Closing, Parts
<1>2. /\ calls' = calls \ {c} /\ client' \in Clients(used) /\ StillGoing(c, code, 0)
      /\ CallsTyped' /\ OneAwaited' /\ OneClosing'
  BY <1>1, CallEnds
<1>3. /\ part' \in [Sessions -> Parts] /\ c.id \in Sessions
      /\ \A s \in Sessions : s # c.id => part'[s] = part[s]
      /\ part'[c.id] \in {part[c.id], NoFile}
  BY <1>1, HandlerAt DEF Typed
<1>4. Typed' /\ Own'
  BY <1>2, <1>3 DEF Typed, Clients, Own
<1>5. Going'
  BY <1>2, <1>3 DEF StillGoing, Going, Typed
<1>6. Completing'
  <2>1. ASSUME NEW d \in calls', d.kind = "complete"
        PROVE  d.id \in Sessions /\ d.id # c.id /\ Whole(d)
    BY <1>2, <2>1 DEF OneClosing, Closing, CallsTyped, Typed, Completing
  <2> QED
    BY <1>3, <2>1 DEF Completing, Whole
<1> QED
  BY <1>2, <1>4, <1>5, <1>6

LEMMA UploadAbortKeeps ==
  ASSUME UploadInv, NEW c \in calls, UploadAbort(c)
  PROVE  UploadInv'
<1>1. /\ c.kind = "abort" /\ Ends(c, 500, 0) /\ UNCHANGED <<row, bytes, used, drops, raced>>
      /\ part' = part \/ part' = [part EXCEPT ![c.id] = NoFile]
      /\ open' \subseteq open
  BY DEF UploadAbort, Arrived, Discard
<1>2. Unraced'
  BY <1>1 DEF UploadInv, Unraced, Alone, Ends
<1> QED
  BY <1>1, <1>2, ClosingEnds DEF UploadInv, Typed, Closing

\* A complete goes on.
LEMMA CompleteGoesOn ==
  ASSUME UploadInv, NEW c \in calls, c.kind = "complete",
         NEW step \in {"look", "hash", "adopt", "insert"}, NEW sum,
         calls' = (calls \ {c}) \cup {Moved(c, step, sum)}, UNCHANGED <<client, used, drops>>,
         IF step = "insert" THEN part' = [part EXCEPT ![c.id] = NoFile] ELSE part' = part,
         step \in {"adopt", "insert"} => sum = File(c.id),
         c.step # "insert", open' \subseteq used, row' \in Rows, raced' \in BOOLEAN, Unraced'
  PROVE  UploadInv'
<1> USE DEF UploadInv
<1> DEFINE d == Moved(c, step, sum)
<1>1. d.kind = "complete" /\ d.id = c.id /\ d.step = step /\ d.sum = sum
  BY DEF Moved
<1>2. CallsTyped' /\ OneAwaited' /\ OneClosing'
  BY CallGoesOn
<1>3. c.id \in Sessions /\ part \in [Sessions -> Parts] /\ NoFile \in Parts
  BY HandlerAt DEF Typed, Parts
<1>4. part' \in [Sessions -> Parts] /\ \A s \in Sessions : s # c.id => part'[s] = part[s]
  BY <1>3
<1>5. Typed' /\ Own'
  BY <1>3, <1>4 DEF Typed, Own
<1>6. Going'
  <2>1. OnTheWay => client.id # c.id /\ client.id \in Sessions
    BY DEF Going, Closing, Typed
  <2> QED
    BY <1>1, <1>4, <2>1 DEF Going, OnTheWay, Closing
<1>7. Completing'
  <2>1. Whole(d)'
    BY <1>1 DEF Whole, Completing
  <2>2. ASSUME NEW o \in calls, o # c, o.kind = "complete"
        PROVE  o.id \in Sessions /\ o.id # c.id /\ Whole(o)
    BY <2>2 DEF OneClosing, Closing, CallsTyped, Typed, Completing
  <2>3. ASSUME NEW o \in calls, o # c, o.kind = "complete"
        PROVE  Whole(o)'
    BY <1>4, <2>2, <2>3 DEF Whole
  <2> QED
    BY <2>1, <2>3 DEF Completing
<1> QED
  BY <1>2, <1>5, <1>6, <1>7

LEMMA BeginCompleteKeeps ==
  ASSUME UploadInv, NEW c \in calls, BeginComplete(c)
  PROVE  UploadInv'
<1> USE DEF UploadInv
<1>1. /\ c.kind = "complete" /\ c.step = "arrived"
      /\ UNCHANGED <<open, part, row, bytes, used, drops>>
      /\ raced' = (raced \/ \E o \in calls : o.kind = "complete" /\ o # c)
  BY DEF BeginComplete, Arrived
<1>2. raced' \in BOOLEAN /\ row' \in Rows /\ open' \subseteq used
  BY <1>1 DEF Typed
<1>3. ~raced' => ~raced /\ \A o \in calls : o.kind = "complete" => o = c
  BY <1>1
<1>4. CASE c.id \in open
  <2> DEFINE d == Moved(c, "look", c.sum)
  <2>1. calls' = (calls \ {c}) \cup {d} /\ client' = client
    BY <1>4, TurnMoves DEF BeginComplete, Turns
  <2>2. Unraced'
    <3>1. d.step = "look"
      BY DEF Moved
    <3> QED
      BY <1>1, <1>3, <2>1, <3>1 DEF Unraced, Alone
  <2> QED
    BY <1>1, <1>2, <2>1, <2>2, CompleteGoesOn
<1>5. CASE c.id \notin open
  <2>1. Ends(c, 404, 0)
    BY <1>5 DEF BeginComplete
  <2>2. Unraced'
    BY <1>1, <1>3, <2>1 DEF Unraced, Alone, Ends
  <2> QED
    BY <1>1, <1>2, <2>1, <2>2, ClosingEnds DEF Closing
<1> QED
  BY <1>4, <1>5

LEMMA LookForEntryKeeps ==
  ASSUME UploadInv, NEW c \in calls, LookForEntry(c)
  PROVE  UploadInv'
<1> USE DEF UploadInv
<1>1. c.kind = "complete" /\ c.step = "look" /\ UNCHANGED <<used, drops, raced>>
  BY DEF LookForEntry
<1>2. part[c.id] # NoFile
  BY <1>1 DEF Completing, Whole
<1>3. NoFile \in Rows /\ row \in Rows /\ raced \in BOOLEAN /\ open \subseteq used
  BY DEF Rows, Typed
<1>4. ~raced => \A d \in calls : d.kind = "complete" /\ d.step # "arrived" => c = d
  BY <1>1 DEF Unraced, Alone
<1>5. CASE Finalize(c) /\ row' = NoFile
  <2> DEFINE d == Moved(c, "hash", c.sum)
  <2>1. /\ calls' = (calls \ {c}) \cup {d} /\ client' = client /\ part' = part
        /\ open' \subseteq used
    BY <1>2, <1>3, <1>5, TurnMoves DEF Finalize, Turns
  <2>2. Unraced'
    <3>1. d.step = "hash"
      BY DEF Moved
    <3> QED
      BY <1>1, <1>4, <1>5, <2>1, <3>1 DEF Unraced, Alone
  <2> QED
    BY <1>1, <1>3, <1>5, <2>1, <2>2, CompleteGoesOn
<1>6. CASE Discard(c.id) /\ Ends(c, 409, 0) /\ UNCHANGED <<row, bytes>>
  <2>1. Unraced'
    BY <1>1, <1>6 DEF Unraced, Alone, Ends
  <2> QED
    BY <1>1, <1>3, <1>6, <2>1, ClosingEnds DEF Closing, Discard
<1> QED
  BY <1>5, <1>6 DEF LookForEntry, MakeWay

LEMMA HashPartKeeps ==
  ASSUME UploadInv, NEW c \in calls, HashPart(c)
  PROVE  UploadInv'
<1> USE DEF UploadInv
<1> DEFINE d == Moved(c, "adopt", part[c.id])
<1>1. c.step = "hash" /\ UNCHANGED <<open, part, row, bytes, used, drops, raced>>
  BY DEF HashPart
<1>2. c.kind = "complete"
  BY <1>1 DEF CallsTyped
<1>3. c.id \in Sessions /\ part[c.id] # NoFile /\ part[c.id] = File(c.id)
  BY <1>1, <1>2, HandlerAt, Nothing DEF Completing, Whole
<1>4. calls' = (calls \ {c}) \cup {d} /\ client' = client
  <2>1. d = [c EXCEPT !.step = "adopt", !.sum = part[c.id]]
    BY TurnMovesSum
  <2> HIDE DEF d
  <2> QED
    BY <1>3, <2>1 DEF HashPart
<1>5. Unraced'
  <2>1. d.kind = "complete" /\ d.step = "adopt"
    BY <1>2 DEF Moved
  <2> QED
    BY <1>1, <1>2, <1>4, <2>1 DEF Unraced, Alone
<1> QED
  BY <1>1, <1>2, <1>3, <1>4, <1>5, CompleteGoesOn DEF Typed

LEMMA AdoptPartKeeps ==
  ASSUME UploadInv, NEW c \in calls, AdoptPart(c)
  PROVE  UploadInv'
<1> USE DEF UploadInv
<1> DEFINE d == Moved(c, "insert", c.sum)
<1>1. c.step = "adopt" /\ UNCHANGED <<open, row, used, drops, raced>>
  BY DEF AdoptPart
<1>2. c.kind = "complete"
  BY <1>1 DEF CallsTyped
<1>3. /\ c.id \in Sessions /\ part[c.id] # NoFile /\ part[c.id] = File(c.id)
      /\ c.sum = File(c.id)
  BY <1>1, <1>2, HandlerAt, Nothing DEF Completing, Whole
<1>4. /\ calls' = (calls \ {c}) \cup {d} /\ client' = client /\ bytes' = c.sum
      /\ part' = [part EXCEPT ![c.id] = NoFile]
  BY <1>3, TurnMoves DEF AdoptPart, Turns
<1>5. Unraced'
  <2>1. d.kind = "complete" /\ d.step = "insert" /\ d.sum = c.sum
    BY <1>2 DEF Moved
  <2> QED
    BY <1>1, <1>2, <1>4, <2>1 DEF Unraced, Alone
<1> QED
  BY <1>1, <1>2, <1>3, <1>4, <1>5, CompleteGoesOn DEF Typed

\* What the row is inserted with is what was hashed, and unless two completes ran at once, the bytes.
LEMMA Inserted ==
  ASSUME UploadInv, NEW c \in calls, InsertFile(c)
  PROVE  /\ c.kind = "complete" /\ c.id \in Sessions /\ c.sum = File(c.id)
         /\ ~raced => row = NoFile /\ bytes = c.sum
         /\ UNCHANGED <<open, part, used, drops, starts, raced>>
<1> USE DEF UploadInv
<1>1. c.step = "insert" /\ UNCHANGED <<open, part, used, drops, starts, raced>>
  BY DEF InsertFile
<1>2. c.kind = "complete"
  BY <1>1 DEF CallsTyped
<1>3. c.id \in Sessions /\ c.sum = File(c.id)
  BY <1>1, <1>2, HandlerAt DEF Completing, Whole
<1>4. ~raced => row = NoFile /\ bytes = c.sum
  BY <1>1, <1>2 DEF Unraced, Alone
<1> QED
  BY <1>1, <1>2, <1>3, <1>4

LEMMA InsertFileKeeps ==
  ASSUME UploadInv, NEW c \in calls, InsertFile(c)
  PROVE  UploadInv'
<1> USE DEF UploadInv
<1>1. /\ c.kind = "complete" /\ c.id \in Sessions /\ c.sum = File(c.id)
      /\ ~raced => row = NoFile /\ bytes = c.sum
      /\ UNCHANGED <<open, part, used, drops, raced>>
  BY Inserted
<1>2. c.step = "insert" /\ row \in Rows /\ File(c.id) \in Rows /\ raced \in BOOLEAN
  BY <1>1 DEF InsertFile, Rows, Typed
<1>3. ~raced => \A d \in calls : d.kind = "complete" /\ d.step # "arrived" => c = d
  BY <1>1, <1>2 DEF Unraced, Alone
<1>4. CASE row = NoFile
  <2>1. row' = c.sum /\ Ends(c, 200, 0) /\ UNCHANGED bytes
    BY <1>4 DEF InsertFile
  <2>2. Unraced'
    BY <1>1, <1>3, <2>1 DEF Unraced, Alone, Ends
  <2> QED
    BY <1>1, <1>2, <2>1, <2>2, ClosingEnds DEF Closing, Typed
<1>5. CASE row # NoFile
  <2>1. raced /\ UNCHANGED row /\ Ends(c, 500, 0)
    BY <1>1, <1>5 DEF InsertFile
  <2>2. Unraced'
    BY <1>1, <2>1 DEF Unraced
  <2> QED
    BY <1>1, <1>2, <2>1, <2>2, ClosingEnds DEF Closing, Typed
<1> QED
  BY <1>4, <1>5

LEMMA CreateSessionKeeps ==
  ASSUME UploadInv, NEW c \in calls, NEW s \in Sessions, CreateSession(c, s)
  PROVE  UploadInv'
<1> USE DEF UploadInv
<1>1. /\ c.kind = "init" /\ s \notin used /\ used' = used \cup {s} /\ open' = open \cup {s}
      /\ part' = [part EXCEPT ![s] = << >>] /\ calls' = calls \ {c}
      /\ UNCHANGED <<row, bytes, drops, raced>>
  BY DEF CreateSession, Arrived
<1>2. Size \in Nat /\ 0 \in 0 .. Size /\ client \in Clients(used)
  BY UploadAssumption DEF Typed, Clients
<1>3. << >> \in Parts /\ << >> # NoFile /\ << >> = Begin(s, 0) /\ Len(<< >>) = 0
  <2>1. << >> = Begin(s, 0) /\ Begin(s, 0) # NoFile
    BY <1>2, Nothing, Beginnings
  <2>2. Begin(s, 0) \in Parts
    BY <1>2 DEF Parts
  <2> QED
    BY <2>1, <2>2
<1>4. \/ client' = client
      \/ Awaited(c) /\ client' = [client EXCEPT !.phase = "sending", !.off = 0, !.id = s]
  <2>1. After("init", 200, 0) = [client EXCEPT !.phase = "sending", !.off = 0]
    BY DEF After
  <2> QED
    BY <2>1 DEF CreateSession
<1>5. /\ client' \in Clients(used')
      /\ \/ client' = client
         \/ Awaited(c) /\ client'.phase = "sending" /\ client'.off = 0 /\ client'.id = s
  BY <1>1, <1>2, <1>4 DEF Clients, Phases
<1>6. /\ part' \in [Sessions -> Parts] /\ part'[s] = << >>
      /\ \A t \in Sessions : t # s => part'[t] = part[t]
  BY <1>1, <1>3 DEF Typed
<1>7. Typed'
  BY <1>1, <1>5, <1>6 DEF Typed, Clients
<1>8. Own'
  BY <1>2, <1>3, <1>6 DEF Own
<1>9. CallsTyped' /\ OneClosing'
  BY <1>1 DEF CallsTyped, OneClosing
<1>10. OneAwaited'
  <2>1. Awaited(c) => \A d \in calls' : d.epoch # drops
    BY <1>1 DEF OneAwaited, Awaited
  <2> QED
    BY <1>1, <1>5, <2>1 DEF OneAwaited
<1>11. \A d \in calls : d.kind \in Closing => d.id \in used /\ d.id \in Sessions /\ d.id # s
  BY <1>1 DEF CallsTyped, Typed, Closing
<1>12. Going'
  <2>1. CASE client' = client
    BY <1>1, <1>6, <2>1 DEF Going, OnTheWay, Typed
  <2>2. CASE client'.phase = "sending" /\ client'.off = 0 /\ client'.id = s
    BY <1>1, <1>3, <1>6, <1>11, <2>2 DEF Going
  <2> QED
    BY <1>5, <2>1, <2>2
<1>13. Completing' /\ Unraced'
  BY <1>1, <1>6, <1>11 DEF Completing, Whole, Unraced, Alone, Closing
<1> QED
  BY <1>7, <1>8, <1>9, <1>10, <1>12, <1>13

----------------------------------------------------------------------------

LEMMA HandleKeeps ==
  ASSUME UploadInv, NEW c \in calls, Handle(c)
  PROVE  UploadInv'
BY CreateSessionKeeps, UploadStatusKeeps, UploadAbortKeeps, FindSessionKeeps, AppendChunkKeeps,
   BeginCompleteKeeps, LookForEntryKeeps, HashPartKeeps, AdoptPartKeeps, InsertFileKeeps DEF Handle

LEMMA UploadStep ==
  ASSUME UploadInv, [UploadNext]_uploadVars
  PROVE  UploadInv'
<1>1. CASE StartUpload
  BY <1>1, StartUploadKeeps
<1>2. CASE ClientStep \/ Cancel
  BY <1>2, ClientKeeps
<1>3. CASE Drop
  BY <1>3, DropKeeps
<1>4. CASE Restart
  BY <1>4, RestartKeeps
<1>5. CASE \E c \in calls : Handle(c)
  BY <1>5, HandleKeeps
<1>6. CASE UNCHANGED uploadVars
  BY <1>6 DEF uploadVars, UploadInv, Typed, CallsTyped, Own, OneAwaited, OneClosing, Going, OnTheWay,
              Completing, Whole, Unraced, Alone
<1> QED
  BY <1>1, <1>2, <1>3, <1>4, <1>5, <1>6 DEF UploadNext

(* The invariant of the protocol, for any file, attempts and faults.       *)
THEOREM UploadInvariant == UploadSpec => []UploadInv
<1>1. UploadInit => UploadInv
  BY InitKeeps
<1>2. UploadInv /\ [UploadNext]_uploadVars => UploadInv'
  BY UploadStep
<1> QED
  BY <1>1, <1>2, PTL DEF UploadSpec

(* Sessions, part files, calls and the client's offset keep their types:   *)
(* upload_sessions.py never has more of a file than the file is long.      *)
THEOREM UploadTypes == UploadSpec => []UploadTypeOK
<1>1. UploadInv => UploadTypeOK
  <2>1. ASSUME UploadInv
        PROVE  /\ open \subseteq used /\ used \subseteq Sessions
               /\ client.id \in used \cup {NoSession} /\ client.off \in 0 .. Size
               /\ \A c \in calls : c.kind \in Kinds /\ c.id \in used \cup {NoSession}
    BY <2>1 DEF UploadInv, Typed, CallsTyped
  <2>2. ASSUME UploadInv, NEW s \in Sessions
        PROVE  Received(s) <= Size
    BY <2>2, UploadAssumption DEF UploadInv, Own, Received
  <2> QED
    BY <2>1, <2>2 DEF UploadTypeOK
<1> QED
  BY <1>1, UploadInvariant, PTL

(* However chunks, drops, retries, aborts, completes and restarts of any   *)
(* number of attempts fall together: no part file has a gap or a repeat,   *)
(* what upload_complete lists is the whole file, and unless two completes  *)
(* ran at once its bytes are there under its checksum.                     *)
THEOREM UploadedWhole == UploadSpec => []WholeFiles
<1>1. UploadInv => WholeFiles
  <2>1. ASSUME UploadInv, NEW s \in Sessions, part[s] # NoFile
        PROVE  part[s] = SubSeq(File(s), 1, Len(part[s]))
    BY <2>1, Beginnings DEF UploadInv, Own
  <2>2. UploadInv => (row # NoFile => \E s \in Sessions : row = File(s))
    BY DEF UploadInv, Typed, Rows
  <2>3. UploadInv => (~raced /\ row # NoFile => row = bytes)
    BY DEF UploadInv, Unraced
  <2> QED
    BY <2>1, <2>2, <2>3 DEF WholeFiles
<1> QED
  BY <1>1, UploadInvariant, PTL

LEMMA TellsDone ==
  ASSUME UploadInv, NEW c \in calls, NEW code, NEW n, Ends(c, code, n),
         client.phase # "done", client'.phase = "done"
  PROVE  Awaited(c) /\ c.kind = "complete" /\ code = 200
<1>1. client \in Clients(used)
  BY DEF UploadInv, Typed, Clients
<1>2. Awaited(c) /\ client' = After(c.kind, code, n)
  BY DEF Ends
<1> QED
  BY <1>1, <1>2 DEF After, Clients

\* Only the insert of a row tells the client that it is done.
LEMMA OnlyTold ==
  ASSUME UploadInv, NEW c \in calls, Handle(c), client.phase # "done", client'.phase = "done"
  PROVE  Awaited(c) /\ InsertFile(c) /\ row = NoFile
<1>1. CASE \E s \in Sessions : CreateSession(c, s)
  <2>1. client \in Clients(used)
    BY DEF UploadInv, Typed, Clients
  <2>2. After("init", 200, 0) = [client EXCEPT !.phase = "sending", !.off = 0]
    BY DEF After
  <2> QED
    BY <1>1, <2>1, <2>2 DEF CreateSession, Clients
<1>2. CASE UploadStatus(c) \/ UploadAbort(c) \/ FindSession(c) \/ AppendChunk(c)
  <2>1. /\ c.kind # "complete"
        /\ client' = client \/ \E code, n : Ends(c, code, n)
    BY <1>2 DEF UploadStatus, UploadAbort, FindSession, AppendChunk, Arrived
  <2>2. PICK code, n : Ends(c, code, n)
    BY <2>1
  <2>3. c.kind = "complete"
    BY <2>2, TellsDone
  <2> QED
    BY <2>1, <2>3
<1>3. CASE BeginComplete(c) \/ LookForEntry(c) \/ HashPart(c) \/ AdoptPart(c)
  <2>1. \/ client' = client
        \/ \E code \in {404, 409, 500} : Ends(c, code, 0)
    BY <1>3 DEF BeginComplete, LookForEntry, Finalize, HashPart, AdoptPart
  <2> QED
    BY <2>1, TellsDone
<1>4. CASE InsertFile(c)
  <2>1. row # NoFile => Ends(c, 500, 0)
    BY <1>4 DEF InsertFile
  <2>2. row = NoFile => Ends(c, 200, 0)
    BY <1>4 DEF InsertFile
  <2> QED
    BY <1>4, <2>1, <2>2, TellsDone
<1> QED
  BY <1>1, <1>2, <1>3, <1>4 DEF Handle

(* A client that upload_complete tells its file is stored finds its own    *)
(* bytes there and listed, unless two completes ran at once.               *)
THEOREM AcknowledgedStored == UploadSpec => AcknowledgedIsStored
<1> DEFINE Stored == (client.phase # "done" /\ client'.phase = "done" /\ ~raced)
                       => row' = File(client.id) /\ bytes' = File(client.id)
<1>1. ASSUME UploadInv, UploadNext, client.phase # "done", client'.phase = "done", ~raced
      PROVE  row' = File(client.id) /\ bytes' = File(client.id)
  <2>1. client \in Clients(used)
    BY <1>1 DEF UploadInv, Typed, Clients
  <2>2. PICK c \in calls : Handle(c)
    BY <1>1, <2>1 DEF UploadNext, StartUpload, ClientStep, PutChunk, SyncOffset, Complete, Cancel, Call,
                      Drop, Restart, OnNetworkError, Clients
  <2>3. Awaited(c) /\ InsertFile(c) /\ row = NoFile
    BY <1>1, <2>2, OnlyTold
  <2>4. c.kind = "complete" /\ c.sum = File(c.id) /\ bytes = c.sum
    BY <1>1, <2>2, <2>3, Inserted
  <2>5. c.id = client.id
    BY <1>1, <2>3, <2>4 DEF UploadInv, OneAwaited, Awaited
  <2> QED
    BY <2>3, <2>4, <2>5 DEF InsertFile
<1>2. UploadInv /\ [UploadNext]_uploadVars => [Stored]_uploadVars
  BY <1>1 DEF uploadVars
<1> QED
  BY <1>2, UploadInvariant, PTL DEF UploadSpec, AcknowledgedIsStored

----------------------------------------------------------------------------
(* Folders: FolderUpload.                                                  *)

Total(b) == Len(Items[b])
Active == {"send", "ask", "replace"}

WorkType == [phase : Active \cup {"idle", "done"}, item : Nat \cup {None}]
BatchType(b) ==
  [stage : {"idle", "folders", "files"}, folders : SUBSET Folders(b), next : Nat, completed : Nat,
   failures : SUBSET ItemSet(b), latch : {None, "overwrite", "skip"}, work : [Pool -> WorkType]]

Busy(x) == {w \in Pool : x.work[w].phase \in Active}

LEMMA FinishParts ==
  ASSUME NEW b \in Batches, NEW x \in BatchType(b), NEW w \in Pool
  PROVE  /\ Finish(b, x, w) \in BatchType(b) /\ Finish(b, x, w).stage = x.stage
         /\ Finish(b, x, w).folders = x.folders /\ Finish(b, x, w).failures = x.failures
         /\ Finish(b, x, w).latch = x.latch /\ Finish(b, x, w).completed = x.completed + 1
         /\ x.next > Total(b) => /\ Finish(b, x, w).next = x.next
                                /\ Finish(b, x, w).work = [x.work EXCEPT ![w] = IsDone]
         /\ x.next <= Total(b) => /\ Finish(b, x, w).next = x.next + 1
                                 /\ Finish(b, x, w).work = [x.work EXCEPT ![w] = Sends(x.next)]
<1> DEFINE z == [x EXCEPT !.completed = x.completed + 1]
<1>1. /\ z \in BatchType(b) /\ z.stage = x.stage /\ z.folders = x.folders
      /\ z.failures = x.failures /\ z.latch = x.latch /\ z.completed = x.completed + 1
      /\ z.next = x.next /\ z.work = x.work
  BY DEF BatchType
<1>2. Finish(b, x, w) = Take(b, z, w)
  BY DEF Finish
<1>3. IsDone \in WorkType /\ Sends(x.next) \in WorkType /\ Total(b) \in Nat
  BY FolderUploadAssumption DEF IsDone, Sends, WorkType, Active, BatchType, Total
<1> HIDE DEF z
<1>4. CASE x.next > Total(b)
  <2>1. Take(b, z, w) = [z EXCEPT !.work[w] = IsDone]
    BY <1>1, <1>4 DEF Take, Total
  <2> HIDE DEF IsDone
  <2> QED
    BY <1>1, <1>2, <1>3, <1>4, <2>1 DEF BatchType
<1>5. CASE x.next <= Total(b)
  <2> DEFINE u == [z EXCEPT !.next = x.next + 1]
  <2>1. Take(b, z, w) = [u EXCEPT !.work[w] = Sends(x.next)]
    BY <1>1, <1>3, <1>5 DEF Take, Total, BatchType
  <2>2. /\ u \in BatchType(b) /\ u.stage = z.stage /\ u.folders = z.folders
        /\ u.failures = z.failures /\ u.latch = z.latch /\ u.completed = z.completed
        /\ u.next = x.next + 1 /\ u.work = z.work
    BY <1>1 DEF BatchType
  <2> HIDE DEF u
  <2> QED
    BY <1>1, <1>2, <1>3, <1>5, <2>1, <2>2 DEF BatchType
<1> QED
  BY <1>3, <1>4, <1>5 DEF BatchType

----------------------------------------------------------------------------
(* One batch: its state x, the user's answers a, what the server took s.   *)

AnswersType(b) == [DOMAIN Items[b] -> Answers \cup {None}]

\* What an answer, or an "all" answer, says of an item.
Agreed(a, i) ==
  IF a[i] # None THEN a[i] \in {"overwrite", "overwrite-all"} ELSE "overwrite-all" \in Range(a)
Skips(a, i) ==
  IF a[i] # None THEN a[i] \in {"skip", "skip-all"} ELSE "skip-all" \in Range(a)
LatchInv(x, a) ==
  /\ x.latch = "overwrite" => "overwrite-all" \in Range(a)
  /\ x.latch = "skip" => "skip-all" \in Range(a)

Unstarted(b, x, a) ==
  /\ x.next = 1 /\ x.completed = 0 /\ x.latch = None
  /\ \A w \in Pool : x.work[w].phase = "idle"
  /\ \A i \in 1 .. Total(b) : a[i] = None

Working(b, x, a, s) ==
  /\ x.folders = {} /\ x.next \in 1 .. Total(b) + 1 /\ LatchInv(x, a)
  /\ \A w \in Busy(x) : x.work[w].item \in 1 .. x.next - 1
  /\ \A v, w \in Busy(x) : x.work[v].item = x.work[w].item => v = w
  /\ \A w \in Pool \ Busy(x) : x.next = Total(b) + 1
  /\ x.completed + Cardinality(Busy(x)) = x.next - 1
  /\ \A i \in x.next .. Total(b) : a[i] = None
  /\ \A w \in Pool : x.work[w].phase \in {"send", "ask"} => a[x.work[w].item] = None
  /\ \A w \in Pool : x.work[w].phase = "replace" => Agreed(a, x.work[w].item)
  /\ \A i \in 1 .. x.next - 1 : \/ \E w \in Busy(x) : x.work[w].item = i
                                \/ Items[b][i] \in x.failures \cup s \/ Skips(a, i)

BatchInv(b, x, a, s) ==
  /\ x \in BatchType(b) /\ a \in AnswersType(b) /\ s \subseteq ItemSet(b)
  /\ IF x.stage = "files" THEN Working(b, x, a, s) ELSE Unstarted(b, x, a)

LEMMA ItemsOf ==
  ASSUME NEW b \in Batches
  PROVE  /\ Total(b) \in Nat /\ DOMAIN Items[b] = 1 .. Total(b)
         /\ \A i \in 1 .. Total(b) : Items[b][i] \in ItemSet(b) /\ Items[b][i] \in Seq(STRING) \ {<<>>}
BY FolderUploadAssumption DEF Total, ItemSet, ToSet

LEMMA BusyFinite ==
  ASSUME NEW x
  PROVE  IsFiniteSet(Busy(x)) /\ Cardinality(Busy(x)) \in Nat
<1>1. IsFiniteSet(Pool)
  <2>1. 1 \in Int /\ Workers \in Int
    BY FolderUploadAssumption
  <2> QED
    BY <2>1, FS_Interval DEF Pool
<1> QED
  BY <1>1, FS_Subset, FS_CardinalityType DEF Busy

\* The user may have answered for item i, and for no other.
Heard(b, a, a2, i) ==
  /\ a2 \in AnswersType(b) /\ \A j \in 1 .. Total(b) : j # i => a2[j] = a[j]
  /\ \A c \in Range(a) : c # None => c \in Range(a2)

LEMMA HeardKeeps ==
  ASSUME NEW b \in Batches, NEW a, NEW a2, NEW i, Heard(b, a, a2, i), NEW j \in 1 .. Total(b), j # i
  PROVE  (Agreed(a, j) => Agreed(a2, j)) /\ (Skips(a, j) => Skips(a2, j)) /\ a2[j] = a[j]
BY FolderUploadAssumption DEF Heard, Agreed, Skips, Answers

(* Worker w is done with its item and takes the next one.                  *)
LEMMA WorkEnds ==
  ASSUME NEW b \in Batches, NEW x, NEW a, NEW s, BatchInv(b, x, a, s), x.stage = "files",
         NEW w \in Busy(x), NEW z \in BatchType(b), z.stage = "files", z.folders = x.folders,
         z.next = x.next, z.work = x.work, z.completed = x.completed, x.failures \subseteq z.failures,
         NEW a2, NEW s2, s \subseteq s2, s2 \subseteq ItemSet(b),
         Heard(b, a, a2, x.work[w].item), LatchInv(z, a2),
         \/ Items[b][x.work[w].item] \in z.failures \cup s2
         \/ Skips(a2, x.work[w].item)
  PROVE  BatchInv(b, Finish(b, z, w), a2, s2)
<1> DEFINE y == Finish(b, z, w)
           i == x.work[w].item
<1>1. /\ Working(b, x, a, s) /\ x \in BatchType(b) /\ a \in AnswersType(b) /\ w \in Pool
      /\ a2 \in AnswersType(b) /\ Total(b) \in Nat
  BY ItemsOf DEF BatchInv, Busy, Heard
<1>2. /\ y \in BatchType(b) /\ y.stage = "files" /\ y.folders = x.folders
      /\ y.failures = z.failures /\ y.latch = z.latch /\ y.completed = x.completed + 1
      /\ x.next > Total(b) => y.next = x.next /\ y.work = [x.work EXCEPT ![w] = IsDone]
      /\ x.next <= Total(b) => y.next = x.next + 1 /\ y.work = [x.work EXCEPT ![w] = Sends(x.next)]
  BY <1>1, FinishParts
<1>3. LatchInv(y, a2)
  BY <1>2 DEF LatchInv
<1>4. /\ x.next \in 1 .. Total(b) + 1 /\ x.completed \in Nat /\ x.work \in [Pool -> WorkType]
      /\ i \in 1 .. x.next - 1 /\ \A v \in Busy(x) : x.work[v].item \in 1 .. x.next - 1
      /\ \A v \in Busy(x) \ {w} : x.work[v].item # i
      /\ \A j \in 1 .. Total(b) : j # i => a2[j] = a[j] /\ (Agreed(a, j) => Agreed(a2, j))
                                          /\ (Skips(a, j) => Skips(a2, j))
  BY <1>1, HeardKeeps DEF Working, BatchType
<1>5. x.completed + Cardinality(Busy(x)) = x.next - 1 /\ Cardinality(Busy(x)) \in Nat
  BY <1>1, BusyFinite DEF Working
<1>9. /\ y \in BatchType(b) /\ y.stage = "files" /\ y.folders = {}
      /\ a2 \in AnswersType(b) /\ s2 \subseteq ItemSet(b)
  BY <1>1, <1>2 DEF Working
<1> HIDE DEF y
<1>6. \A v \in Pool \ {w} : y.work[v] = x.work[v]
  BY <1>1, <1>2, <1>4
<1>7. CASE x.next > Total(b)
  <2>1. y.work[w] = IsDone /\ y.next = x.next /\ IsDone.phase = "done"
    BY <1>1, <1>2, <1>4, <1>7 DEF IsDone
  <2>2. Busy(y) = Busy(x) \ {w}
    BY <1>6, <2>1 DEF Busy, Active
  <2>3. Cardinality(Busy(y)) = Cardinality(Busy(x)) - 1
    BY <2>2, BusyFinite, FS_RemoveElement
  <2>4. y.completed + Cardinality(Busy(y)) = y.next - 1
    BY <1>2, <1>4, <1>5, <2>1, <2>3
  <2>5. \A j \in 1 .. y.next - 1 : \/ \E v \in Busy(y) : y.work[v].item = j
                                   \/ Items[b][j] \in y.failures \cup s2 \/ Skips(a2, j)
    BY <1>1, <1>2, <1>4, <1>6, <2>1, <2>2 DEF Working, Busy
  <2>6. \A v \in Pool : y.work[v].phase \in {"send", "ask"} => a2[y.work[v].item] = None
    BY <1>1, <1>4, <1>6, <2>1 DEF Working, Busy, Active
  <2>7. \A v \in Pool : y.work[v].phase = "replace" => Agreed(a2, y.work[v].item)
    BY <1>1, <1>4, <1>6, <2>1 DEF Working, Busy, Active
  <2>8. /\ \A v \in Busy(y) : y.work[v].item \in 1 .. y.next - 1
        /\ \A u, v \in Busy(y) : y.work[u].item = y.work[v].item => u = v
        /\ \A v \in Pool \ Busy(y) : y.next = Total(b) + 1
        /\ \A j \in y.next .. Total(b) : a2[j] = None
    BY <1>1, <1>4, <1>6, <1>7, <2>1, <2>2 DEF Working, Busy
  <2> QED
    BY <1>3, <1>4, <1>9, <2>1, <2>4, <2>5, <2>6, <2>7, <2>8 DEF BatchInv, Working, y
<1>8. CASE x.next <= Total(b)
  <2>1. /\ y.work[w] = Sends(x.next) /\ y.next = x.next + 1
        /\ Sends(x.next).phase = "send" /\ Sends(x.next).item = x.next
    BY <1>1, <1>2, <1>4, <1>8 DEF Sends
  <2>2. Busy(y) = Busy(x)
    BY <1>6, <2>1 DEF Busy, Active
  <2>4. y.completed + Cardinality(Busy(y)) = y.next - 1
    BY <1>2, <1>4, <1>5, <2>1, <2>2
  <2>5. \A j \in 1 .. y.next - 1 : \/ \E v \in Busy(y) : y.work[v].item = j
                                   \/ Items[b][j] \in y.failures \cup s2 \/ Skips(a2, j)
    <3>1. ASSUME NEW j \in 1 .. x.next - 1, j # i
          PROVE  \/ \E v \in Busy(y) : y.work[v].item = j
                 \/ Items[b][j] \in y.failures \cup s2 \/ Skips(a2, j)
      BY <1>1, <1>2, <1>4, <1>6, <2>1, <2>2, <3>1 DEF Working, Busy
    <3>2. \A j \in 1 .. y.next - 1 : j \in 1 .. x.next - 1 \/ j = x.next
      BY <1>4, <2>1
    <3> QED
      BY <1>2, <2>1, <2>2, <3>1, <3>2
  <2>6. \A v \in Pool : y.work[v].phase \in {"send", "ask"} => a2[y.work[v].item] = None
    BY <1>1, <1>4, <1>6, <1>8, <2>1 DEF Working, Busy, Active
  <2>7. \A v \in Pool : y.work[v].phase = "replace" => Agreed(a2, y.work[v].item)
    BY <1>1, <1>4, <1>6, <2>1 DEF Working, Busy, Active
  <2>8. /\ \A v \in Busy(y) : y.work[v].item \in 1 .. y.next - 1
        /\ \A u, v \in Busy(y) : y.work[u].item = y.work[v].item => u = v
    BY <1>1, <1>4, <1>6, <1>8, <2>1, <2>2 DEF Working, Busy
  <2>9. /\ \A v \in Pool \ Busy(y) : y.next = Total(b) + 1
        /\ \A j \in y.next .. Total(b) : a2[j] = None
    BY <1>1, <1>4, <1>8, <2>1, <2>2 DEF Working
  <2>10. y.next \in 1 .. Total(b) + 1
    BY <1>1, <1>4, <1>8, <2>1
  <2> QED
    BY <1>3, <1>9, <2>10, <2>4, <2>5, <2>6, <2>7, <2>8, <2>9 DEF BatchInv, Working, y
<1> QED
  BY <1>1, <1>4, <1>7, <1>8

GoesOn(x, w, phase) == [x EXCEPT !.work[w].phase = phase]

(* Worker w waits for the user, or goes on to replace the file.            *)
LEMMA WorkGoesOn ==
  ASSUME NEW b \in Batches, NEW x, NEW a, NEW s, BatchInv(b, x, a, s), x.stage = "files",
         NEW w \in Busy(x), NEW z \in BatchType(b), z.stage = "files", z.folders = x.folders,
         z.next = x.next, z.work = x.work, z.completed = x.completed, z.failures = x.failures,
         NEW a2, Heard(b, a, a2, x.work[w].item), LatchInv(z, a2),
         NEW phase \in {"ask", "replace"},
         phase = "ask" => a2[x.work[w].item] = None,
         phase = "replace" => Agreed(a2, x.work[w].item)
  PROVE  /\ BatchInv(b, GoesOn(z, w, phase), a2, s)
         /\ GoesOn(z, w, phase).failures = x.failures /\ GoesOn(z, w, phase).stage = "files"
         /\ GoesOn(z, w, phase).folders = x.folders
         /\ \A v \in Pool : GoesOn(z, w, phase).work[v].phase
                              = IF v = w THEN phase ELSE x.work[v].phase
<1> DEFINE y == GoesOn(z, w, phase)
           i == x.work[w].item
<1>1. /\ Working(b, x, a, s) /\ x \in BatchType(b) /\ a \in AnswersType(b) /\ w \in Pool
      /\ a2 \in AnswersType(b) /\ Total(b) \in Nat /\ s \subseteq ItemSet(b)
  BY ItemsOf DEF BatchInv, Busy, Heard
<1>2. /\ y \in BatchType(b) /\ y.stage = "files" /\ y.folders = {} /\ y.failures = x.failures
      /\ y.latch = z.latch /\ y.completed = x.completed /\ y.next = x.next
      /\ y.work[w].phase = phase /\ y.work[w].item = i
      /\ \A v \in Pool \ {w} : y.work[v] = x.work[v]
  <2> DEFINE n == [x.work[w] EXCEPT !.phase = phase]
  <2>1. x.work \in [Pool -> WorkType] /\ x.folders = {}
    BY <1>1 DEF Working, BatchType
  <2>2. n \in WorkType /\ n.phase = phase /\ n.item = i
    BY <1>1, <2>1 DEF WorkType, Active
  <2>3. y = [z EXCEPT !.work[w] = n]
    BY DEF GoesOn
  <2> HIDE DEF n, y
  <2> QED
    BY <1>1, <2>1, <2>2, <2>3 DEF BatchType
<1> HIDE DEF y
<1>3. LatchInv(y, a2)
  BY <1>2 DEF LatchInv
<1>4. /\ x.next \in 1 .. Total(b) + 1
      /\ i \in 1 .. x.next - 1 /\ \A v \in Busy(x) : x.work[v].item \in 1 .. x.next - 1
      /\ \A v \in Busy(x) \ {w} : x.work[v].item # i
      /\ \A j \in 1 .. Total(b) : j # i => a2[j] = a[j] /\ (Agreed(a, j) => Agreed(a2, j))
                                          /\ (Skips(a, j) => Skips(a2, j))
  BY <1>1, HeardKeeps DEF Working
<1>5. Busy(y) = Busy(x) /\ \A v \in Busy(x) : y.work[v].item = x.work[v].item
  BY <1>2 DEF Busy, Active
<1>6. /\ y.completed + Cardinality(Busy(y)) = y.next - 1
      /\ \A v \in Busy(y) : y.work[v].item \in 1 .. y.next - 1
      /\ \A v \in Pool \ Busy(y) : y.next = Total(b) + 1
      /\ \A u, v \in Busy(y) : y.work[u].item = y.work[v].item => u = v
  BY <1>1, <1>2, <1>5 DEF Working
<1>7. \A j \in 1 .. y.next - 1 : \/ \E v \in Busy(y) : y.work[v].item = j
                                 \/ Items[b][j] \in y.failures \cup s \/ Skips(a2, j)
  BY <1>1, <1>2, <1>4, <1>5 DEF Working
<1>8. /\ \A v \in Pool : y.work[v].phase \in {"send", "ask"} => a2[y.work[v].item] = None
      /\ \A v \in Pool : y.work[v].phase = "replace" => Agreed(a2, y.work[v].item)
      /\ \A j \in y.next .. Total(b) : a2[j] = None
  BY <1>1, <1>2, <1>4 DEF Working, Busy, Active
<1>9. BatchInv(b, y, a2, s)
  BY <1>1, <1>2, <1>3, <1>4, <1>6, <1>7, <1>8 DEF BatchInv, Working
<1>10. x.folders = {}
  BY <1>1 DEF Working
<1> QED
  BY <1>2, <1>9, <1>10 DEF y

(* Each worker takes the item of its number, as far as there are items.    *)
Started(b, x) ==
  [x EXCEPT !.stage = "files",
            !.next = IF Workers < Len(Items[b]) THEN Workers + 1 ELSE Len(Items[b]) + 1,
            !.work = [w \in Pool |-> IF w <= Len(Items[b]) THEN Sends(w) ELSE IsDone]]

LEMMA WorkStarts ==
  ASSUME NEW b \in Batches, NEW x, NEW a, NEW s, BatchInv(b, x, a, s), x.stage = "folders",
         x.folders = {}
  PROVE  /\ BatchInv(b, Started(b, x), a, s) /\ Started(b, x).stage = "files"
         /\ Started(b, x).folders = {} /\ Started(b, x).failures = x.failures
         /\ \A w \in Pool : x.work[w].phase # "ask" /\ Started(b, x).work[w].phase # "ask"
<1> DEFINE n == IF Workers < Len(Items[b]) THEN Workers + 1 ELSE Len(Items[b]) + 1
           W == [w \in Pool |-> IF w <= Len(Items[b]) THEN Sends(w) ELSE IsDone]
           y == [x EXCEPT !.stage = "files", !.next = n, !.work = W]
<1>1. /\ Unstarted(b, x, a) /\ x \in BatchType(b) /\ a \in AnswersType(b) /\ s \subseteq ItemSet(b)
      /\ Total(b) \in Nat /\ Workers \in Nat \ {0} /\ Total(b) = Len(Items[b])
  BY ItemsOf, FolderUploadAssumption DEF BatchInv, Total
<1>2. /\ n \in 1 .. Total(b) + 1 /\ (Workers < Total(b) => n = Workers + 1)
      /\ (Workers >= Total(b) => n = Total(b) + 1)
  BY <1>1
<1>3. /\ W \in [Pool -> WorkType]
      /\ \A w \in Pool : IF w <= Total(b) THEN W[w].phase = "send" /\ W[w].item = w
                         ELSE W[w].phase = "done"
  BY <1>1 DEF Pool, WorkType, Active, Sends, IsDone
<1> HIDE DEF n, W
<1>4. /\ y \in BatchType(b) /\ y.stage = "files" /\ y.next = n /\ y.work = W
      /\ y.folders = {} /\ y.completed = 0 /\ y.failures = x.failures /\ y.latch = None
  <2> DEFINE u == [x EXCEPT !.stage = "files"]
             v == [u EXCEPT !.next = n]
  <2>1. y = [v EXCEPT !.work = W]
    OBVIOUS
  <2>2. /\ u \in BatchType(b) /\ u.stage = "files" /\ u.folders = {} /\ u.completed = 0
        /\ u.failures = x.failures /\ u.latch = None
    BY <1>1 DEF BatchType, Unstarted
  <2> HIDE DEF u, y
  <2>3. /\ v \in BatchType(b) /\ v.stage = "files" /\ v.next = n /\ v.folders = {}
        /\ v.completed = 0 /\ v.failures = x.failures /\ v.latch = None
    BY <1>1, <1>2, <2>2 DEF BatchType
  <2> HIDE DEF v
  <2> QED
    BY <1>3, <2>1, <2>3 DEF BatchType
<1> HIDE DEF y
<1>5. Busy(y) = 1 .. n - 1
  BY <1>1, <1>2, <1>3, <1>4 DEF Busy, Active, Pool
<1>6. Cardinality(Busy(y)) = n - 1
  BY <1>2, <1>5, FS_Interval
<1>7. LatchInv(y, a)
  BY <1>4, FolderUploadAssumption DEF LatchInv, Answers
<1>8. \A w \in Busy(y) : y.work[w].item = w
  BY <1>1, <1>2, <1>3, <1>4, <1>5 DEF Pool
<1>9. \A w \in Pool \ Busy(y) : y.next = Total(b) + 1
  BY <1>1, <1>2, <1>4, <1>5 DEF Pool
<1>10. \A i \in 1 .. Total(b) : a[i] = None
  BY <1>1 DEF Unstarted
<1>11. \A w \in Pool : /\ y.work[w].phase \in {"send", "ask"} => a[y.work[w].item] = None
                       /\ y.work[w].phase # "replace"
  BY <1>1, <1>3, <1>4, <1>10 DEF Pool
<1>12. y.completed + Cardinality(Busy(y)) = y.next - 1
  BY <1>2, <1>4, <1>6
<1>13. Working(b, y, a, s)
  <2>1. /\ \A w \in Busy(y) : y.work[w].item \in 1 .. y.next - 1
        /\ \A v, w \in Busy(y) : y.work[v].item = y.work[w].item => v = w
        /\ \A i \in 1 .. y.next - 1 : \E w \in Busy(y) : y.work[w].item = i
    BY <1>4, <1>5, <1>8
  <2>2. \A i \in y.next .. Total(b) : a[i] = None
    BY <1>1, <1>2, <1>4, <1>10
  <2> QED
    BY <1>2, <1>4, <1>7, <1>9, <1>11, <1>12, <2>1, <2>2 DEF Working
<1>14. BatchInv(b, y, a, s)
  BY <1>1, <1>4, <1>13 DEF BatchInv
<1>15. \A w \in Pool : x.work[w].phase # "ask" /\ y.work[w].phase # "ask"
  BY <1>1, <1>3, <1>4 DEF Unstarted
<1>16. y = Started(b, x)
  BY DEF y, n, W, Started
<1> QED
  BY <1>4, <1>14, <1>15, <1>16

----------------------------------------------------------------------------
(* All batches, the server and the queue of prompts.                       *)

Things == {"nothing", "folder", "theirs"} \cup Batches
ServerInv == server \in [Paths -> Things] /\ errors \in Nat /\ others \in Nat

BatchesInv ==
  /\ batch = [b \in Batches |-> batch[b]] /\ answers = [b \in Batches |-> answers[b]]
  /\ stored = [b \in Batches |-> stored[b]]
  /\ \A b \in Batches : BatchInv(b, batch[b], answers[b], stored[b])

Asking == {p \in Batches \X Pool : batch[p[1]].work[p[2]].phase = "ask"}
QueueInv ==
  /\ queue \in Seq(Batches \X Pool) /\ IsInjective(queue) /\ ToSet(queue) = Asking
  /\ shown = IF queue = <<>> THEN None ELSE Head(queue)

(* If all is calm now it always was: nothing ends up a file and becomes a  *)
(* folder, or the other way round.                                         *)
Calm ==
  /\ errors = 0 /\ others = 0
  /\ \A b \in Batches : \A p \in Folders(b) : server[p] \in {"nothing", "folder"}
  /\ \A b \in Batches : \A p \in ItemSet(b) : server[p] # "folder"
FoldersMade(b) ==
  batch[b].stage # "idle" => \A p \in Folders(b) \ batch[b].folders : server[p] = "folder"
CalmInv == Calm => \A b \in Batches : batch[b].failures = {} /\ FoldersMade(b)

FInv == ServerInv /\ BatchesInv /\ QueueInv /\ CalmInv

----------------------------------------------------------------------------
(* Paths.                                                                  *)

LEMMA ParentOf ==
  ASSUME NEW q \in Seq(STRING) \ {<<>>}
  PROVE  /\ Front(q) = <<>> \/ Front(q) \in Above(q)
         /\ \A p \in Above(q) : /\ p \in Seq(STRING) \ {<<>>} /\ Len(p) \in Nat
                                /\ Front(p) = <<>> \/ Front(p) \in Above(q)
                                /\ Len(Front(p)) < Len(p)
<1>1. Len(q) \in Nat /\ Len(q) >= 1
  BY EmptySeq, LenProperties
<1>2. \A n \in 0 .. Len(q) : SubSeq(q, 1, n) \in Seq(STRING) /\ Len(SubSeq(q, 1, n)) = n
  BY <1>1, SubSeqProperties
<1>3. Front(q) = <<>> \/ Front(q) \in Above(q)
  <2>1. CASE Len(q) = 1
    BY <1>2, <2>1, EmptySeq DEF Front
  <2>2. CASE Len(q) # 1
    BY <1>1, <2>2 DEF Front, Above
  <2> QED
    BY <2>1, <2>2
<1>4. ASSUME NEW n \in 1 .. Len(q) - 1
      PROVE  LET p == SubSeq(q, 1, n)
             IN  /\ p \in Seq(STRING) \ {<<>>} /\ Len(p) \in Nat
                 /\ Front(p) = <<>> \/ Front(p) \in Above(q)
                 /\ Len(Front(p)) < Len(p)
  <2> DEFINE p == SubSeq(q, 1, n)
  <2>1. p \in Seq(STRING) /\ Len(p) = n /\ n \in Nat /\ n >= 1
    BY <1>1, <1>2
  <2>2. Front(p) = SubSeq(q, 1, n - 1)
    <3>1. /\ Front(p) \in Seq(STRING) /\ Len(Front(p)) = n - 1
          /\ \A i \in 1 .. n - 1 : Front(p)[i] = p[i]
      <4> HIDE DEF p
      <4> QED
        BY <2>1, SubSeqProperties DEF Front
    <3>2. /\ SubSeq(q, 1, n - 1) \in Seq(STRING) /\ Len(SubSeq(q, 1, n - 1)) = n - 1
          /\ \A i \in 1 .. n - 1 : SubSeq(q, 1, n - 1)[i] = q[i] /\ p[i] = q[i]
      BY <1>1, SubSeqProperties
    <3> HIDE DEF p
    <3> QED
      BY <3>1, <3>2, SeqEqual
  <2>3. Front(p) = <<>> \/ Front(p) \in Above(q)
    <3>1. CASE n = 1
      BY <1>1, <1>2, <2>2, <3>1, EmptySeq
    <3>2. CASE n # 1
      BY <2>1, <2>2, <3>2, <1>1 DEF Above
    <3> QED
      BY <3>1, <3>2
  <2>4. Len(Front(p)) = n - 1
    BY <1>1, <1>2, <2>2
  <2> HIDE DEF p
  <2> QED
    BY <2>1, <2>3, <2>4 DEF p
<1> QED
  BY <1>3, <1>4 DEF Above

LEMMA Parents ==
  ASSUME NEW b \in Batches
  PROVE  /\ \A p \in ItemSet(b) : p \in Paths /\ p # <<>> /\ (Front(p) = <<>> \/ Front(p) \in Folders(b))
         /\ \A p \in Folders(b) : /\ p \in Paths /\ p # <<>> /\ Len(p) \in Nat
                                  /\ Front(p) = <<>> \/ Front(p) \in Folders(b)
                                  /\ Len(Front(p)) < Len(p)
         /\ \A i \in 1 .. Total(b) : Items[b][i] \in ItemSet(b)
<1>1. \A q \in ItemSet(b) : q \in Seq(STRING) \ {<<>>}
  BY ItemsOf DEF ItemSet, ToSet
<1>2. \A q \in ItemSet(b) : /\ q # <<>> /\ (Front(q) = <<>> \/ Front(q) \in Above(q))
                            /\ \A p \in Above(q) : /\ p # <<>> /\ Len(p) \in Nat
                                                   /\ Front(p) = <<>> \/ Front(p) \in Above(q)
                                                   /\ Len(Front(p)) < Len(p)
  BY <1>1, ParentOf
<1>3. \A p \in Folders(b) : \E q \in ItemSet(b) : p \in Above(q) /\ Above(q) \subseteq Folders(b)
  BY DEF Folders
<1>4. \A q \in ItemSet(b) : Above(q) \subseteq Folders(b)
  BY DEF Folders
<1>5. ItemSet(b) \subseteq Paths /\ Folders(b) \subseteq Paths
  BY DEF Paths
<1> QED
  BY <1>2, <1>3, <1>4, <1>5, ItemsOf

----------------------------------------------------------------------------
(* What the steps have in common.                                          *)

LEMMA BatchesStep ==
  ASSUME BatchesInv, NEW b \in Batches, NEW y, batch' = [batch EXCEPT ![b] = y],
         answers' = [c \in Batches |-> answers'[c]], stored' = [c \in Batches |-> stored'[c]],
         \A c \in Batches \ {b} : answers'[c] = answers[c] /\ stored'[c] = stored[c],
         BatchInv(b, y, answers'[b], stored'[b])
  PROVE  BatchesInv' /\ batch'[b] = y /\ \A c \in Batches \ {b} : batch'[c] = batch[c]
<1>1. batch = [c \in Batches |-> batch[c]]
  BY DEF BatchesInv
<1>2. batch'[b] = y /\ \A c \in Batches \ {b} : batch'[c] = batch[c]
  BY <1>1
<1>3. batch' = [c \in Batches |-> batch'[c]]
  BY <1>1
<1>4. \A c \in Batches : BatchInv(c, batch'[c], answers'[c], stored'[c])
  BY <1>2 DEF BatchesInv
<1> QED
  BY <1>2, <1>3, <1>4 DEF BatchesInv

LEMMA QueueKept ==
  ASSUME QueueInv, UNCHANGED <<queue, shown>>, Asking' = Asking
  PROVE  QueueInv'
BY DEF QueueInv

LEMMA AskingSame ==
  ASSUME NEW b \in Batches, \A c \in Batches \ {b} : batch'[c] = batch[c],
         \A w \in Pool : batch'[b].work[w].phase = "ask" <=> batch[b].work[w].phase = "ask"
  PROVE  Asking' = Asking
BY DEF Asking

\* Files come, and folders where there was nothing.
Grows ==
  \A p \in Paths : \/ server'[p] = server[p]
                   \/ server[p] = "nothing" /\ server'[p] = "folder"
                   \/ server[p] # "folder" /\ server'[p] \in Batches

LEMMA CalmBefore ==
  ASSUME Grows, errors' = errors, others' = others
  PROVE  Calm' => Calm
<1> SUFFICES ASSUME Calm' PROVE Calm
  OBVIOUS
<1>1. ASSUME NEW b \in Batches, NEW p \in Folders(b)
      PROVE  server[p] \in {"nothing", "folder"}
  <2>1. p \in Paths /\ server'[p] \in {"nothing", "folder"}
    BY Parents DEF Calm
  <2> QED
    BY <2>1, FolderUploadAssumption DEF Grows
<1>2. ASSUME NEW b \in Batches, NEW p \in ItemSet(b)
      PROVE  server[p] # "folder"
  <2>1. p \in Paths /\ server'[p] # "folder"
    BY Parents DEF Calm
  <2> QED
    BY <2>1 DEF Grows
<1> QED
  BY <1>1, <1>2 DEF Calm

\* Without trouble: nothing fails in this step.
LEMMA CalmKept ==
  ASSUME CalmInv, Grows, errors' = errors, others' = others,
         ASSUME Calm, NEW b \in Batches
         PROVE  /\ batch'[b].failures = batch[b].failures
                /\ batch'[b].stage # "idle" => \A p \in Folders(b) \ batch'[b].folders :
                     \/ server'[p] = "folder"
                     \/ batch[b].stage # "idle" /\ p \notin batch[b].folders
  PROVE  CalmInv'
<1> SUFFICES ASSUME Calm', NEW b \in Batches
             PROVE  batch'[b].failures = {} /\ FoldersMade(b)'
  BY DEF CalmInv
<1>1. Calm /\ batch[b].failures = {} /\ FoldersMade(b)
  BY CalmBefore DEF CalmInv
<1>2. \A p \in Folders(b) : server[p] = "folder" => server'[p] = "folder"
  BY Parents, FolderUploadAssumption DEF Grows
<1> QED
  BY <1>1, <1>2 DEF FoldersMade

LEMMA Troubled ==
  ASSUME FInv, errors' = errors + 1 \/ others' = others + 1, errors' \in Nat, others' \in Nat
  PROVE  CalmInv'
BY DEF FInv, ServerInv, CalmInv, Calm

\* A worker with an item.
LEMMA BusyWorker ==
  ASSUME BatchesInv, NEW b \in Batches, NEW w \in Pool, batch[b].work[w].phase \in Active
  PROVE  /\ BatchInv(b, batch[b], answers[b], stored[b]) /\ batch[b].stage = "files"
         /\ w \in Busy(batch[b]) /\ LatchInv(batch[b], answers[b]) /\ batch[b] \in BatchType(b)
         /\ Heard(b, answers[b], answers[b], batch[b].work[w].item)
         /\ batch[b].work[w].item \in 1 .. Total(b) /\ batch[b].folders = {}
         /\ Item(b, w) = Items[b][batch[b].work[w].item] /\ Item(b, w) \in ItemSet(b)
         /\ Item(b, w) \in Paths /\ Item(b, w) # <<>> /\ stored[b] \subseteq ItemSet(b)
         /\ Front(Item(b, w)) = <<>> \/ Front(Item(b, w)) \in Folders(b)
<1> DEFINE x == batch[b]
           i == x.work[w].item
<1>1. BatchInv(b, x, answers[b], stored[b])
  BY DEF BatchesInv
<1>2. x.stage = "files" /\ w \in Busy(x)
  BY <1>1 DEF BatchInv, Unstarted, Busy, Active
<1>3. Working(b, x, answers[b], stored[b])
  BY <1>1, <1>2 DEF BatchInv
<1>4. i \in 1 .. Total(b)
  <2>1. x.next \in 1 .. Total(b) + 1 /\ i \in 1 .. x.next - 1 /\ Total(b) \in Nat
    BY <1>2, <1>3, ItemsOf DEF Working
  <2> QED
    BY <2>1
<1>5. LatchInv(x, answers[b]) /\ Heard(b, answers[b], answers[b], i) /\ x \in BatchType(b)
      /\ stored[b] \subseteq ItemSet(b) /\ x.folders = {}
  BY <1>1, <1>3 DEF BatchInv, Working, Heard
<1>6. Item(b, w) = Items[b][i] /\ Items[b][i] \in ItemSet(b)
  BY <1>4, Parents DEF Item
<1> QED
  BY <1>1, <1>2, <1>4, <1>5, <1>6, Parents

(* Worker w's item ends: with a file that was taken, as a failure, or as   *)
(* one to skip.                                                            *)
LEMMA WorkerEnds ==
  ASSUME FInv, NEW b \in Batches, NEW w \in Pool, batch[b].work[w].phase \in {"send", "replace"},
         NEW z, z = batch[b] \/ z = [batch[b] EXCEPT !.failures = @ \cup {Item(b, w)}],
         batch' = [batch EXCEPT ![b] = Finish(b, z, w)], UNCHANGED <<queue, shown, answers>>,
         stored' = stored \/ stored' = [stored EXCEPT ![b] = @ \cup {Item(b, w)}],
         \/ Item(b, w) \in z.failures \cup stored'[b]
         \/ Skips(answers[b], batch[b].work[w].item)
  PROVE  /\ BatchesInv' /\ QueueInv' /\ batch'[b].failures = z.failures
         /\ batch'[b].stage = batch[b].stage /\ batch'[b].folders = batch[b].folders
         /\ \A c \in Batches \ {b} : batch'[c] = batch[c]
<1> DEFINE x == batch[b]
           i == x.work[w].item
           y == Finish(b, z, w)
<1>1. BatchesInv /\ QueueInv
  BY DEF FInv
<1>2. /\ BatchInv(b, x, answers[b], stored[b]) /\ x.stage = "files" /\ w \in Busy(x)
      /\ LatchInv(x, answers[b]) /\ x \in BatchType(b) /\ Heard(b, answers[b], answers[b], i)
      /\ Item(b, w) = Items[b][i] /\ Item(b, w) \in ItemSet(b) /\ stored[b] \subseteq ItemSet(b)
  BY <1>1, BusyWorker DEF Active
<1>3. /\ z \in BatchType(b) /\ z.stage = x.stage /\ z.folders = x.folders /\ z.next = x.next
      /\ z.work = x.work /\ z.completed = x.completed /\ x.failures \subseteq z.failures
      /\ z.latch = x.latch
  BY <1>2 DEF BatchType
<1>4. LatchInv(z, answers[b])
  BY <1>2, <1>3 DEF LatchInv
<1>5. /\ stored = [c \in Batches |-> stored[c]] /\ answers = [c \in Batches |-> answers[c]]
  BY <1>1 DEF BatchesInv
<1>6. /\ stored' = [c \in Batches |-> stored'[c]] /\ stored[b] \subseteq stored'[b]
      /\ stored'[b] \subseteq ItemSet(b) /\ \A c \in Batches \ {b} : stored'[c] = stored[c]
  BY <1>2, <1>5
<1>7. BatchInv(b, y, answers[b], stored'[b])
  BY <1>2, <1>3, <1>4, <1>6, WorkEnds
<1>8. /\ y.stage = x.stage /\ y.folders = x.folders /\ y.failures = z.failures
      /\ x.next > Total(b) => y.work = [x.work EXCEPT ![w] = IsDone]
      /\ x.next <= Total(b) => y.work = [x.work EXCEPT ![w] = Sends(x.next)]
  BY <1>3, FinishParts
<1> HIDE DEF y
<1>9. BatchesInv' /\ batch'[b] = y /\ \A c \in Batches \ {b} : batch'[c] = batch[c]
  <2>1. batch' = [batch EXCEPT ![b] = y]
    BY DEF y
  <2> QED
    BY <1>1, <1>5, <1>6, <1>7, <2>1, BatchesStep
<1>10. \A v \in Pool : y.work[v].phase = "ask" <=> x.work[v].phase = "ask"
  <2>1. x.work \in [Pool -> WorkType] /\ x.next \in Nat /\ Total(b) \in Nat
    BY <1>2, ItemsOf DEF BatchType
  <2>2. x.work[w].phase # "ask"
    OBVIOUS
  <2>3. \A v \in Pool \ {w} : y.work[v] = x.work[v]
    BY <1>8, <2>1
  <2>4. y.work[w] = IsDone \/ y.work[w] = Sends(x.next)
    BY <1>8, <2>1
  <2> QED
    BY <2>2, <2>3, <2>4 DEF IsDone, Sends
<1>11. Asking' = Asking
  BY <1>9, <1>10, AskingSame
<1> QED
  BY <1>1, <1>8, <1>9, <1>11, QueueKept

----------------------------------------------------------------------------
(* The queue of prompts.                                                   *)

LEMMA QueueAppend ==
  ASSUME NEW S, NEW q \in Seq(S), NEW x \in S, IsInjective(q), x \notin ToSet(q)
  PROVE  /\ Append(q, x) \in Seq(S) /\ IsInjective(Append(q, x)) /\ Append(q, x) # <<>>
         /\ ToSet(Append(q, x)) = ToSet(q) \cup {x}
         /\ Head(Append(q, x)) = IF q = <<>> THEN x ELSE Head(q)
<1>1. /\ Append(q, x) \in Seq(S) /\ Len(q) \in Nat /\ DOMAIN q = 1 .. Len(q)
      /\ DOMAIN Append(q, x) = 1 .. Len(q) + 1 /\ Append(q, x)[Len(q) + 1] = x
      /\ \A i \in 1 .. Len(q) : Append(q, x)[i] = q[i]
  OBVIOUS
<1>2. IsInjective(Append(q, x))
  BY <1>1 DEF IsInjective, ToSet
<1>3. ToSet(Append(q, x)) = ToSet(q) \cup {x}
  BY <1>1 DEF ToSet
<1>4. Append(q, x) # <<>> /\ Head(Append(q, x)) = Append(q, x)[1]
  BY <1>1, EmptySeq
<1>5. CASE q = <<>>
  BY <1>1, <1>2, <1>3, <1>4, <1>5, EmptySeq
<1>6. CASE q # <<>>
  <2>1. Head(q) = q[1] /\ 1 \in 1 .. Len(q)
    BY <1>1, <1>6, EmptySeq
  <2> QED
    BY <1>1, <1>2, <1>3, <1>4, <1>6, <2>1
<1> QED
  BY <1>5, <1>6

LEMMA QueueTail ==
  ASSUME NEW S, NEW q \in Seq(S), q # <<>>, IsInjective(q)
  PROVE  /\ Tail(q) \in Seq(S) /\ IsInjective(Tail(q)) /\ Head(q) \in S /\ Head(q) \in ToSet(q)
         /\ ToSet(Tail(q)) = ToSet(q) \ {Head(q)}
<1> DEFINE t == Tail(q)
<1>1. /\ t \in Seq(S) /\ Len(q) \in Nat \ {0} /\ DOMAIN q = 1 .. Len(q) /\ Head(q) = q[1]
      /\ DOMAIN t = 1 .. Len(q) - 1 /\ \A i \in 1 .. Len(q) - 1 : t[i] = q[i + 1]
      /\ \A i \in 1 .. Len(q) : q[i] \in S
  OBVIOUS
<1>2. \A i, j \in 1 .. Len(q) : q[i] = q[j] => i = j
  BY <1>1 DEF IsInjective
<1> HIDE DEF t
<1>3. IsInjective(t)
  BY <1>1, <1>2 DEF IsInjective
<1>4. \A i \in 1 .. Len(q) - 1 : i + 1 \in 1 .. Len(q) /\ q[i + 1] # q[1]
  BY <1>1, <1>2
<1>5. \A j \in 1 .. Len(q) : q[j] # q[1] => j - 1 \in 1 .. Len(q) - 1 /\ t[j - 1] = q[j]
  <2> TAKE j \in 1 .. Len(q)
  <2> HAVE q[j] # q[1]
  <2>1. j # 1 /\ j - 1 \in 1 .. Len(q) - 1 /\ (j - 1) + 1 = j
    BY <1>1
  <2> QED
    BY <1>1, <2>1
<1>6. 1 \in 1 .. Len(q)
  BY <1>1
<1>7. ToSet(q) = {q[i] : i \in 1 .. Len(q)} /\ ToSet(t) = {t[i] : i \in 1 .. Len(q) - 1}
  BY <1>1 DEF ToSet
<1>8. ToSet(t) = ToSet(q) \ {q[1]}
  BY <1>1, <1>4, <1>5, <1>7
<1> QED
  BY <1>1, <1>3, <1>6, <1>7, <1>8 DEF t

----------------------------------------------------------------------------
(* The steps.                                                              *)

LEMMA Stores ==
  ASSUME ServerInv, NEW b \in Batches, NEW p \in Paths, server[p] # "folder",
         server' = [server EXCEPT ![p] = b], errors' \in Nat, UNCHANGED others
  PROVE  ServerInv' /\ Grows
BY DEF ServerInv, Things, Grows

LEMMA InitInv == Init => FInv
<1> SUFFICES ASSUME Init PROVE FInv
  OBVIOUS
<1>1. ServerInv
  BY DEF Init, ServerInv, Things
<1>2. \A b \in Batches : batch[b] = Idle
  BY DEF Init
<1>3. ASSUME NEW b \in Batches
      PROVE  BatchInv(b, batch[b], answers[b], stored[b])
  <2>1. Waiting \in WorkType /\ Waiting.phase = "idle"
    BY DEF Waiting, WorkType
  <2>2. /\ Idle \in BatchType(b) /\ Idle.stage = "idle" /\ Idle.next = 1 /\ Idle.completed = 0
        /\ Idle.latch = None /\ \A w \in Pool : Idle.work[w].phase = "idle"
    BY <2>1 DEF Idle, BatchType
  <2>3. answers[b] = [i \in DOMAIN Items[b] |-> None] /\ stored[b] = {}
    BY DEF Init
  <2>4. answers[b] \in AnswersType(b) /\ \A i \in 1 .. Total(b) : answers[b][i] = None
    BY <2>3, ItemsOf DEF AnswersType
  <2> QED
    BY <1>2, <2>2, <2>3, <2>4 DEF BatchInv, Unstarted
<1>4. BatchesInv
  BY <1>3 DEF Init, BatchesInv
<1>5. QueueInv
  <2>1. queue = <<>> /\ shown = None
    BY DEF Init
  <2>2. Asking = {}
    BY <1>2 DEF Asking, Idle, Waiting
  <2> QED
    BY <2>1, <2>2 DEF QueueInv, IsInjective, ToSet
<1>6. CalmInv
  BY <1>2 DEF CalmInv, FoldersMade, Idle
<1> QED
  BY <1>1, <1>4, <1>5, <1>6 DEF FInv

LEMMA StartStep ==
  ASSUME FInv, NEW b \in Batches, Start(b)
  PROVE  FInv'
<1> DEFINE y == [Idle EXCEPT !.stage = "folders", !.folders = Folders(b)]
<1>1. /\ batch[b].stage = "idle" /\ batch' = [batch EXCEPT ![b] = y] /\ server' = server
      /\ queue' = queue /\ shown' = shown /\ answers' = answers /\ stored' = stored
      /\ errors' = errors /\ others' = others
  BY DEF Start, Set
<1>2. BatchesInv /\ QueueInv /\ CalmInv /\ ServerInv
  BY DEF FInv
<1>3. y = [stage |-> "folders", folders |-> Folders(b), next |-> 1, completed |-> 0,
           failures |-> {}, latch |-> None, work |-> [w \in Pool |-> Waiting]]
  <2> DEFINE u == [Idle EXCEPT !.stage = "folders"]
  <2>1. y = [u EXCEPT !.folders = Folders(b)]
    OBVIOUS
  <2>2. u = [stage |-> "folders", folders |-> {}, next |-> 1, completed |-> 0,
             failures |-> {}, latch |-> None, work |-> [w \in Pool |-> Waiting]]
    BY DEF Idle
  <2> HIDE DEF u, y
  <2> QED
    BY <2>1, <2>2
<1> HIDE DEF y
<1>4. /\ y \in BatchType(b) /\ y.stage = "folders" /\ y.failures = {} /\ y.folders = Folders(b)
      /\ \A w \in Pool : y.work[w].phase = "idle"
      /\ y.next = 1 /\ y.completed = 0 /\ y.latch = None
  BY <1>3 DEF BatchType, Waiting, WorkType
<1>5. /\ answers[b] \in AnswersType(b) /\ stored[b] \subseteq ItemSet(b)
      /\ Unstarted(b, batch[b], answers[b])
  BY <1>1, <1>2 DEF BatchesInv, BatchInv
<1>6. BatchInv(b, y, answers[b], stored[b])
  BY <1>4, <1>5 DEF BatchInv, Unstarted
<1>7. BatchesInv' /\ batch'[b] = y /\ \A c \in Batches \ {b} : batch'[c] = batch[c]
  <2>1. answers = [c \in Batches |-> answers[c]] /\ stored = [c \in Batches |-> stored[c]]
    BY <1>2 DEF BatchesInv
  <2> QED
    BY <1>1, <1>2, <1>6, <2>1, BatchesStep
<1>8. QueueInv'
  <2>1. Asking' = Asking
    BY <1>4, <1>5, <1>7, AskingSame DEF Unstarted
  <2> QED
    BY <1>1, <1>2, <2>1, QueueKept
<1>9. CalmInv'
  <2>1. Calm' => Calm
    BY <1>1 DEF Calm
  <2> QED
    BY <1>1, <1>2, <1>4, <1>7, <2>1 DEF CalmInv, FoldersMade
<1> QED
  BY <1>1, <1>2, <1>7, <1>8, <1>9 DEF FInv, ServerInv

LEMMA CreateFolderStep ==
  ASSUME FInv, NEW b \in Batches, NEW p \in Folders(b), CreateFolder(b, p)
  PROVE  FInv' /\ \A q \in Paths : server'[q] \in Batches => server'[q] = server[q]
<1> DEFINE x == batch[b]
           y == [x EXCEPT !.folders = x.folders \ {p}]
<1>1. /\ x.stage = "folders" /\ p \in NextFolders(x.folders) /\ batch' = [batch EXCEPT ![b] = y]
      /\ queue' = queue /\ shown' = shown /\ answers' = answers /\ stored' = stored
      /\ others' = others
      /\ \/ /\ server' = IF Clear(p) /\ IsFolder(Front(p))
                         THEN [server EXCEPT ![p] = "folder"] ELSE server
            /\ errors' = errors
         \/ errors' = errors + 1 /\ server' = server
  BY DEF CreateFolder, Set, Lost
<1>2. BatchesInv /\ QueueInv /\ CalmInv /\ ServerInv
  BY DEF FInv
<1>3. /\ x \in BatchType(b) /\ Unstarted(b, x, answers[b]) /\ answers[b] \in AnswersType(b)
      /\ stored[b] \subseteq ItemSet(b)
  BY <1>1, <1>2 DEF BatchesInv, BatchInv
<1>4. /\ y \in BatchType(b) /\ y.stage = x.stage /\ y.failures = x.failures /\ y.work = x.work
      /\ y.folders = x.folders \ {p} /\ y.next = x.next /\ y.completed = x.completed
      /\ y.latch = x.latch
  BY <1>3 DEF BatchType
<1> HIDE DEF y
<1>5. BatchInv(b, y, answers[b], stored[b])
  BY <1>1, <1>3, <1>4 DEF BatchInv, Unstarted
<1>6. BatchesInv' /\ batch'[b] = y /\ \A c \in Batches \ {b} : batch'[c] = batch[c]
  <2>1. answers = [c \in Batches |-> answers[c]] /\ stored = [c \in Batches |-> stored[c]]
    BY <1>2 DEF BatchesInv
  <2> QED
    BY <1>1, <1>2, <1>5, <2>1, BatchesStep
<1>7. QueueInv'
  <2>1. Asking' = Asking
    BY <1>4, <1>6, AskingSame
  <2> QED
    BY <1>1, <1>2, <2>1, QueueKept
<1>8. p \in Paths /\ (Front(p) = <<>> \/ Front(p) \in Folders(b)) /\ Len(p) \in Nat
      /\ Len(Front(p)) < Len(p) /\ \A q \in Folders(b) : Len(q) \in Nat
  BY Parents
<1>9. ServerInv' /\ Grows /\ \A q \in Paths : server'[q] \in Batches => server'[q] = server[q]
  BY <1>1, <1>2, <1>8, FolderUploadAssumption DEF ServerInv, Things, Grows, Clear
<1>10. CalmInv'
  <2>1. CASE errors' = errors + 1
    BY <1>9, <2>1, Troubled DEF ServerInv
  <2>2. CASE errors' = errors
    <3>1. server' = IF Clear(p) /\ IsFolder(Front(p)) THEN [server EXCEPT ![p] = "folder"] ELSE server
      BY <1>1, <1>2, <2>2 DEF ServerInv
    <3>2. ASSUME Calm
          PROVE  server'[p] = "folder"
      <4>1. Front(p) \notin x.folders
        BY <1>1, <1>3, <1>8 DEF NextFolders, Shallowest, BatchType
      <4>2. IsFolder(Front(p))
        BY <1>1, <1>2, <1>8, <3>2, <4>1 DEF CalmInv, FoldersMade, IsFolder
      <4>3. Clear(p) \/ server[p] = "folder"
        BY <3>2 DEF Calm, Clear
      <4> QED
        BY <1>2, <1>8, <3>1, <4>2, <4>3 DEF ServerInv, Clear
    <3>3. ASSUME Calm, NEW c \in Batches
          PROVE  /\ batch'[c].failures = batch[c].failures
                 /\ batch'[c].stage # "idle" => \A q \in Folders(c) \ batch'[c].folders :
                     \/ server'[q] = "folder"
                     \/ batch[c].stage # "idle" /\ q \notin batch[c].folders
      BY <1>4, <1>6, <3>2, <3>3
    <3> QED
      BY <1>1, <1>2, <1>9, <2>2, <3>3, CalmKept
  <2> QED
    BY <1>1, <2>1, <2>2
<1> QED
  BY <1>6, <1>7, <1>9, <1>10 DEF FInv

LEMMA RunWorkersStep ==
  ASSUME FInv, NEW b \in Batches, RunWorkers(b)
  PROVE  FInv' /\ server' = server
<1> DEFINE y == Started(b, batch[b])
<1>1. /\ batch[b].stage = "folders" /\ batch[b].folders = {} /\ batch' = [batch EXCEPT ![b] = y]
      /\ server' = server /\ queue' = queue /\ shown' = shown /\ answers' = answers
      /\ stored' = stored /\ errors' = errors /\ others' = others
  BY DEF RunWorkers, Set, Started
<1>2. BatchesInv /\ QueueInv /\ CalmInv /\ ServerInv
  BY DEF FInv
<1>3. BatchInv(b, batch[b], answers[b], stored[b])
  BY <1>2 DEF BatchesInv
<1>4. /\ BatchInv(b, y, answers[b], stored[b]) /\ y.folders = {} /\ y.failures = batch[b].failures
      /\ \A w \in Pool : batch[b].work[w].phase # "ask" /\ y.work[w].phase # "ask"
  BY <1>1, <1>3, WorkStarts
<1> HIDE DEF y
<1>5. BatchesInv' /\ batch'[b] = y /\ \A c \in Batches \ {b} : batch'[c] = batch[c]
  <2>1. answers = [c \in Batches |-> answers[c]] /\ stored = [c \in Batches |-> stored[c]]
    BY <1>2 DEF BatchesInv
  <2> QED
    BY <1>1, <1>2, <1>4, <2>1, BatchesStep
<1>6. QueueInv'
  <2>1. Asking' = Asking
    BY <1>4, <1>5, AskingSame
  <2> QED
    BY <1>1, <1>2, <2>1, QueueKept
<1>7. CalmInv'
  <2>1. Calm' => Calm
    BY <1>1 DEF Calm
  <2> QED
    BY <1>1, <1>2, <1>4, <1>5, <2>1 DEF CalmInv, FoldersMade
<1> QED
  BY <1>1, <1>2, <1>5, <1>6, <1>7 DEF FInv, ServerInv

(* What a step may replace: the clear, and what its user agreed to.        *)
Keeps ==
  \A p \in Paths : server'[p] \in Batches /\ server'[p] # server[p] =>
    \/ Clear(p)
    \/ \E i \in 1 .. Total(server'[p]) :
         Items[server'[p]][i] = p /\ Agreed(answers[server'[p]], i)

LEMMA ReplacingAgreed ==
  ASSUME FInv, NEW b \in Batches, NEW w \in Pool, batch[b].work[w].phase = "replace"
  PROVE  Agreed(answers[b], batch[b].work[w].item)
<1>1. BatchesInv /\ batch[b].work[w].phase \in Active
  BY DEF FInv, Active
<1>2. BatchInv(b, batch[b], answers[b], stored[b]) /\ batch[b].stage = "files"
  BY <1>1, BusyWorker
<1> QED
  BY <1>2 DEF BatchInv, Working

(* Worker w stores its file.                                               *)
LEMMA StoreStep ==
  ASSUME FInv, NEW b \in Batches, NEW w \in Pool, batch[b].work[w].phase \in {"send", "replace"},
         server[Item(b, w)] # "folder", batch[b].work[w].phase = "send" => Clear(Item(b, w)),
         Store(b, w), errors' \in Nat, UNCHANGED others
  PROVE  /\ ServerInv' /\ Grows /\ Keeps /\ Item(b, w) \in stored'[b]
         /\ stored' = [stored EXCEPT ![b] = @ \cup {Item(b, w)}]
<1> DEFINE p == Item(b, w)
<1>1. server' = [server EXCEPT ![p] = b] /\ stored' = [stored EXCEPT ![b] = @ \cup {p}]
  BY DEF Store
<1>2. ServerInv /\ BatchesInv
  BY DEF FInv
<1>3. p \in Paths /\ batch[b].work[w].item \in 1 .. Total(b) /\ p = Items[b][batch[b].work[w].item]
  BY <1>2, BusyWorker DEF Active
<1> HIDE DEF p
<1>4. ServerInv' /\ Grows
  <2>1. server[p] # "folder"
    BY DEF p
  <2> QED
    BY <1>1, <1>2, <1>3, <2>1, Stores
<1>5. \A q \in Paths : server'[q] # server[q] => q = p /\ server'[q] = b
  BY <1>1, <1>2 DEF ServerInv
<1>6. Clear(p) \/ Agreed(answers[b], batch[b].work[w].item)
  BY ReplacingAgreed DEF p
<1>7. Keeps
  BY <1>3, <1>5, <1>6 DEF Keeps
<1>8. p \in stored'[b]
  <2>1. stored = [c \in Batches |-> stored[c]]
    BY <1>2 DEF BatchesInv
  <2> QED
    BY <1>1, <2>1
<1> QED
  BY <1>1, <1>4, <1>7, <1>8 DEF p

LEMMA ServerSame ==
  ASSUME ServerInv, server' = server, errors' \in Nat, others' \in Nat
  PROVE  ServerInv' /\ Grows /\ Keeps
BY DEF ServerInv, Grows, Keeps

\* Send and Replace.
LEMMA TakenStep ==
  ASSUME FInv, NEW b \in Batches, NEW w \in Pool, Send(b, w) \/ Replace(b, w)
  PROVE  FInv' /\ Keeps
<1>1. /\ batch[b].work[w].phase \in {"send", "replace"} /\ server[Item(b, w)] # "folder"
      /\ batch[b].work[w].phase = "send" => Clear(Item(b, w))
      /\ Store(b, w) /\ batch' = [batch EXCEPT ![b] = Finish(b, batch[b], w)]
      /\ UNCHANGED <<queue, shown, answers>> /\ errors' = errors /\ others' = others
  BY DEF Send, Replace, Set, Clear
<1>2. BatchesInv /\ QueueInv /\ CalmInv /\ ServerInv /\ errors' \in Nat
  BY <1>1 DEF FInv, ServerInv
<1>3. /\ ServerInv' /\ Grows /\ Keeps /\ Item(b, w) \in stored'[b]
      /\ stored' = [stored EXCEPT ![b] = @ \cup {Item(b, w)}]
  BY <1>1, <1>2, StoreStep
<1>4. /\ BatchesInv' /\ QueueInv' /\ batch'[b].failures = batch[b].failures
      /\ batch'[b].stage = batch[b].stage /\ batch'[b].folders = batch[b].folders
      /\ \A c \in Batches \ {b} : batch'[c] = batch[c]
  BY <1>1, <1>3, WorkerEnds
<1>5. CalmInv'
  BY <1>1, <1>2, <1>3, <1>4, CalmKept
<1> QED
  BY <1>3, <1>4, <1>5 DEF FInv

\* SendFails and ReplaceFails.
LEMMA FailedStep ==
  ASSUME FInv, NEW b \in Batches, NEW w \in Pool, SendFails(b, w) \/ ReplaceFails(b, w)
  PROVE  FInv' /\ Keeps
<1> DEFINE z == [batch[b] EXCEPT !.failures = @ \cup {Item(b, w)}]
<1>1. /\ batch[b].work[w].phase \in {"send", "replace"}
      /\ ~IsFolder(Front(Item(b, w))) \/ server[Item(b, w)] = "folder"
      /\ batch' = [batch EXCEPT ![b] = Finish(b, z, w)] /\ stored' = stored /\ server' = server
      /\ UNCHANGED <<queue, shown, answers>> /\ errors' = errors /\ others' = others
  BY DEF SendFails, ReplaceFails, Set, Fail, FailReplacing
<1>2. BatchesInv /\ QueueInv /\ CalmInv /\ ServerInv /\ errors' \in Nat /\ others' \in Nat
  BY <1>1 DEF FInv, ServerInv
<1>3. ServerInv' /\ Grows /\ Keeps
  BY <1>1, <1>2, ServerSame
<1>4. /\ batch[b].stage = "files" /\ batch[b].folders = {} /\ batch[b] \in BatchType(b)
      /\ Item(b, w) \in ItemSet(b)
      /\ Front(Item(b, w)) = <<>> \/ Front(Item(b, w)) \in Folders(b)
  BY <1>1, <1>2, BusyWorker DEF Active
<1>5. Item(b, w) \in z.failures
  BY <1>4 DEF BatchType
<1>6. /\ BatchesInv' /\ QueueInv' /\ batch'[b].failures = z.failures
      /\ batch'[b].stage = batch[b].stage /\ batch'[b].folders = batch[b].folders
      /\ \A c \in Batches \ {b} : batch'[c] = batch[c]
  BY <1>1, <1>5, WorkerEnds
<1>7. ~Calm
  BY <1>1, <1>2, <1>4 DEF CalmInv, FoldersMade, Calm, IsFolder
<1>8. CalmInv'
  BY <1>1, <1>2, <1>3, <1>7, CalmKept
<1> QED
  BY <1>3, <1>6, <1>8 DEF FInv

LEMMA SendLostStep ==
  ASSUME FInv, NEW b \in Batches, NEW w \in Pool, SendLost(b, w)
  PROVE  FInv' /\ Keeps
<1> DEFINE z == [batch[b] EXCEPT !.failures = @ \cup {Item(b, w)}]
<1>1. /\ batch[b].work[w].phase \in {"send", "replace"}
      /\ \/ UNCHANGED <<server, stored>>
         \/ /\ server[Item(b, w)] # "folder" /\ Store(b, w)
            /\ batch[b].work[w].phase = "send" => Clear(Item(b, w))
      /\ batch' = [batch EXCEPT ![b] = Finish(b, z, w)]
      /\ UNCHANGED <<queue, shown, answers>> /\ errors' = errors + 1 /\ others' = others
  BY DEF SendLost, Lost, Set, Fail
<1>2. BatchesInv /\ QueueInv /\ ServerInv /\ errors' \in Nat /\ others' \in Nat
  BY <1>1 DEF FInv, ServerInv
<1>3. /\ ServerInv' /\ Keeps
      /\ stored' = stored \/ stored' = [stored EXCEPT ![b] = @ \cup {Item(b, w)}]
  BY <1>1, <1>2, ServerSame, StoreStep
<1>4. Item(b, w) \in z.failures
  <2>1. batch[b] \in BatchType(b)
    BY <1>1, <1>2, BusyWorker DEF Active
  <2> QED
    BY <2>1 DEF BatchType
<1>5. BatchesInv' /\ QueueInv'
  BY <1>1, <1>3, <1>4, WorkerEnds
<1>6. CalmInv'
  BY <1>1, <1>2, Troubled
<1> QED
  BY <1>3, <1>5, <1>6 DEF FInv

----------------------------------------------------------------------------
(* Conflicts.                                                              *)

\* Worker w asks the user, or goes on to replace the file.
LEMMA WorkerGoesOn ==
  ASSUME BatchesInv, NEW b \in Batches, NEW w \in Pool, batch[b].work[w].phase \in Active,
         NEW z \in BatchType(b), z.stage = batch[b].stage, z.folders = batch[b].folders,
         z.next = batch[b].next, z.work = batch[b].work, z.completed = batch[b].completed,
         z.failures = batch[b].failures,
         NEW a2, Heard(b, answers[b], a2, batch[b].work[w].item), LatchInv(z, a2),
         NEW phase \in {"ask", "replace"},
         phase = "ask" => a2[batch[b].work[w].item] = None,
         phase = "replace" => Agreed(a2, batch[b].work[w].item),
         batch' = [batch EXCEPT ![b] = GoesOn(z, w, phase)], stored' = stored,
         answers' = [answers EXCEPT ![b] = a2]
  PROVE  /\ BatchesInv'
         /\ \A v \in Pool : batch'[b].work[v].phase = IF v = w THEN phase ELSE batch[b].work[v].phase
         /\ \A c \in Batches \ {b} : batch'[c] = batch[c]
         /\ batch'[b].failures = batch[b].failures /\ batch'[b].stage = batch[b].stage
         /\ batch'[b].folders = batch[b].folders
<1> DEFINE y == GoesOn(z, w, phase)
<1>1. /\ BatchInv(b, batch[b], answers[b], stored[b]) /\ batch[b].stage = "files"
      /\ w \in Busy(batch[b]) /\ z.stage = "files"
  BY BusyWorker
<1>2. /\ BatchInv(b, y, a2, stored[b]) /\ y.failures = batch[b].failures
      /\ y.stage = batch[b].stage /\ y.folders = batch[b].folders
      /\ \A v \in Pool : y.work[v].phase = IF v = w THEN phase ELSE batch[b].work[v].phase
  BY <1>1, WorkGoesOn
<1>4. batch' = [batch EXCEPT ![b] = y]
  OBVIOUS
<1> HIDE DEF y
<1>5. answers = [c \in Batches |-> answers[c]] /\ stored = [c \in Batches |-> stored[c]]
  BY DEF BatchesInv
<1>6. /\ answers' = [c \in Batches |-> answers'[c]] /\ answers'[b] = a2
      /\ \A c \in Batches \ {b} : answers'[c] = answers[c]
  BY <1>5
<1>3. /\ stored' = [c \in Batches |-> stored'[c]] /\ stored'[b] = stored[b]
      /\ \A c \in Batches \ {b} : stored'[c] = stored[c]
  BY <1>5
<1>8. BatchInv(b, y, answers'[b], stored'[b])
  BY <1>2, <1>3, <1>6
<1>7. BatchesInv' /\ batch'[b] = y /\ \A c \in Batches \ {b} : batch'[c] = batch[c]
  BY <1>3, <1>4, <1>6, <1>8, BatchesStep
<1> QED
  BY <1>2, <1>7

LEMMA AnswersSame ==
  ASSUME BatchesInv, NEW b \in Batches
  PROVE  answers = [answers EXCEPT ![b] = answers[b]]
BY DEF BatchesInv

LEMMA SendingUnasked ==
  ASSUME BatchesInv, NEW b \in Batches, NEW w \in Pool,
         batch[b].work[w].phase \in {"send", "ask"}
  PROVE  answers[b][batch[b].work[w].item] = None
<1>1. BatchInv(b, batch[b], answers[b], stored[b]) /\ batch[b].stage = "files"
  BY BusyWorker DEF Active
<1> QED
  BY <1>1 DEF BatchInv, Working

LEMMA ConflictLatchedStep ==
  ASSUME FInv, NEW b \in Batches, NEW w \in Pool, ConflictLatched(b, w)
  PROVE  FInv' /\ server' = server
<1> DEFINE x == batch[b]
           i == x.work[w].item
<1>1. /\ x.work[w].phase = "send" /\ x.latch # None
      /\ batch' = [batch EXCEPT ![b] = Decided(b, x, w, x.latch)]
      /\ server' = server /\ UNCHANGED <<queue, shown>> /\ answers' = answers /\ stored' = stored
      /\ errors' = errors /\ others' = others
  BY DEF ConflictLatched, Set
<1>2. BatchesInv /\ QueueInv /\ CalmInv /\ ServerInv /\ errors' \in Nat /\ others' \in Nat
  BY <1>1 DEF FInv, ServerInv
<1>3. ServerInv' /\ Grows
  BY <1>1, <1>2, ServerSame
<1>4. /\ x \in BatchType(b) /\ LatchInv(x, answers[b]) /\ Heard(b, answers[b], answers[b], i)
      /\ answers[b][i] = None /\ x.latch \in {"overwrite", "skip"}
  <2>1. x \in BatchType(b) /\ LatchInv(x, answers[b]) /\ Heard(b, answers[b], answers[b], i)
    BY <1>1, <1>2, BusyWorker DEF Active
  <2> QED
    BY <1>1, <1>2, <2>1, SendingUnasked DEF BatchType
<1>5. CASE x.latch = "overwrite"
  <2>1. batch' = [batch EXCEPT ![b] = GoesOn(x, w, "replace")] /\ stored' = stored
    BY <1>1, <1>5 DEF Decided, GoesOn
  <2>2. Agreed(answers[b], i)
    BY <1>4, <1>5 DEF Agreed, LatchInv
  <2>3. answers' = [answers EXCEPT ![b] = answers[b]]
    BY <1>1, <1>2, AnswersSame
  <2>4. x.work[w].phase \in Active
    BY <1>1 DEF Active
  <2>5. /\ BatchesInv'
        /\ \A v \in Pool : batch'[b].work[v].phase = IF v = w THEN "replace" ELSE x.work[v].phase
        /\ \A c \in Batches \ {b} : batch'[c] = batch[c]
        /\ batch'[b].failures = x.failures /\ batch'[b].stage = x.stage
        /\ batch'[b].folders = x.folders
    BY <1>2, <1>4, <2>1, <2>2, <2>3, <2>4, WorkerGoesOn
  <2>6. QueueInv'
    <3>1. Asking' = Asking
      BY <1>1, <2>5, AskingSame
    <3> QED
      BY <1>1, <1>2, <3>1, QueueKept
  <2>7. CalmInv'
    BY <1>1, <1>2, <1>3, <2>5, CalmKept
  <2> QED
    BY <1>1, <1>3, <2>5, <2>6, <2>7 DEF FInv
<1>6. CASE x.latch = "skip"
  <2>1. batch' = [batch EXCEPT ![b] = Finish(b, x, w)]
    BY <1>1, <1>6 DEF Decided
  <2>2. Skips(answers[b], i)
    BY <1>4, <1>6 DEF Skips, LatchInv
  <2>3. /\ BatchesInv' /\ QueueInv' /\ batch'[b].failures = x.failures
        /\ batch'[b].stage = x.stage /\ batch'[b].folders = x.folders
        /\ \A c \in Batches \ {b} : batch'[c] = batch[c]
    BY <1>1, <2>1, <2>2, WorkerEnds, ZenonT(40)
  <2>4. CalmInv'
    BY <1>1, <1>2, <1>3, <2>3, CalmKept
  <2> QED
    BY <1>1, <1>3, <2>3, <2>4 DEF FInv
<1> QED
  BY <1>4, <1>5, <1>6

LEMMA ConflictAsksStep ==
  ASSUME FInv, NEW b \in Batches, NEW w \in Pool, ConflictAsks(b, w)
  PROVE  FInv' /\ server' = server
<1> DEFINE x == batch[b]
           i == x.work[w].item
           q == <<b, w>>
<1>1. /\ x.work[w].phase = "send"
      /\ batch' = [batch EXCEPT ![b] = GoesOn(x, w, "ask")]
      /\ queue' = Append(queue, q) /\ shown' = IF shown = None THEN q ELSE shown
      /\ server' = server /\ answers' = answers /\ stored' = stored
      /\ errors' = errors /\ others' = others
  BY DEF ConflictAsks, Set, GoesOn
<1>2. BatchesInv /\ QueueInv /\ CalmInv /\ ServerInv /\ errors' \in Nat /\ others' \in Nat
  BY <1>1 DEF FInv, ServerInv
<1>3. ServerInv' /\ Grows
  BY <1>1, <1>2, ServerSame
<1>4. /\ x \in BatchType(b) /\ LatchInv(x, answers[b]) /\ Heard(b, answers[b], answers[b], i)
      /\ answers[b][i] = None /\ x.work[w].phase \in Active
  BY <1>1, <1>2, BusyWorker, SendingUnasked DEF Active
<1>5. answers' = [answers EXCEPT ![b] = answers[b]]
  BY <1>1, <1>2, AnswersSame
<1>6. /\ BatchesInv'
      /\ \A v \in Pool : batch'[b].work[v].phase = IF v = w THEN "ask" ELSE x.work[v].phase
      /\ \A c \in Batches \ {b} : batch'[c] = batch[c]
      /\ batch'[b].failures = x.failures /\ batch'[b].stage = x.stage
      /\ batch'[b].folders = x.folders
  BY <1>1, <1>2, <1>4, <1>5, WorkerGoesOn
<1>7. q \in Batches \X Pool /\ q \notin Asking /\ Asking' = Asking \cup {q}
  <2>1. q \in Batches \X Pool /\ q[1] = b /\ q[2] = w
    OBVIOUS
  <2>2. \A p \in Batches \X Pool : p = <<p[1], p[2]>> /\ p[1] \in Batches /\ p[2] \in Pool
    OBVIOUS
  <2>3. ASSUME NEW p \in Batches \X Pool
        PROVE  batch'[p[1]].work[p[2]].phase = "ask"
                 <=> batch[p[1]].work[p[2]].phase = "ask" \/ p = q
    <3>1. CASE p[1] = b
      BY <1>6, <2>2, <3>1
    <3>2. CASE p[1] # b
      BY <1>6, <2>1, <2>2, <3>2
    <3> QED
      BY <3>1, <3>2
  <2> QED
    BY <1>1, <2>1, <2>3 DEF Asking
<1> HIDE DEF q
<1>8. QueueInv'
  <2>1. /\ queue \in Seq(Batches \X Pool) /\ IsInjective(queue) /\ ToSet(queue) = Asking
        /\ shown = IF queue = <<>> THEN None ELSE Head(queue)
    BY <1>2 DEF QueueInv
  <2>2. queue # <<>> => Head(queue) # None
    <3>1. queue # <<>> => Head(queue) \in Batches \X Pool
      BY <2>1, QueueTail
    <3> QED
      BY <3>1, FolderUploadAssumption
  <2>3. /\ queue' \in Seq(Batches \X Pool) /\ IsInjective(queue') /\ queue' # <<>>
        /\ ToSet(queue') = ToSet(queue) \cup {q}
        /\ Head(queue') = IF queue = <<>> THEN q ELSE Head(queue)
    BY <1>1, <1>7, <2>1, QueueAppend
  <2> QED
    BY <1>1, <1>7, <2>1, <2>2, <2>3 DEF QueueInv
<1>9. CalmInv'
  BY <1>1, <1>2, <1>3, <1>6, CalmKept
<1> QED
  BY <1>1, <1>3, <1>6, <1>8, <1>9 DEF FInv

LEMMA Answered ==
  ASSUME NEW b \in Batches, NEW a \in AnswersType(b), NEW i \in 1 .. Total(b), a[i] = None,
         NEW choice \in Answers, NEW a2, a2 = [a EXCEPT ![i] = choice]
  PROVE  /\ Heard(b, a, a2, i)
         /\ choice \in {"overwrite", "overwrite-all"} => Agreed(a2, i)
         /\ choice \in {"skip", "skip-all"} => Skips(a2, i)
         /\ choice \in Range(a2)
         /\ \A x : LatchInv(x, a) => LatchInv(x, a2)
<1>1. /\ DOMAIN Items[b] = 1 .. Total(b) /\ a \in [1 .. Total(b) -> Answers \cup {None}]
  BY ItemsOf DEF AnswersType
<1>2. /\ a2 \in AnswersType(b) /\ DOMAIN a2 = 1 .. Total(b) /\ a2[i] = choice
      /\ \A j \in 1 .. Total(b) : j # i => a2[j] = a[j]
  BY <1>1 DEF AnswersType
<1>3. choice # None /\ "overwrite-all" # None /\ "skip-all" # None
  BY FolderUploadAssumption DEF Answers
<1>4. \A c \in Range(a) : c # None => c \in Range(a2)
  BY <1>1, <1>2 DEF Range
<1>5. choice \in Range(a2)
  BY <1>2 DEF Range
<1> QED
  BY <1>2, <1>3, <1>4, <1>5 DEF Heard, Agreed, Skips, LatchInv

\* The prompt on the screen is the first of the queue, and its worker asks.
LEMMA ShownPrompt ==
  ASSUME FInv, shown # None
  PROVE  /\ queue # <<>> /\ shown = Head(queue) /\ shown \in Batches \X Pool /\ shown \in Asking
         /\ queue \in Seq(Batches \X Pool) /\ IsInjective(queue) /\ ToSet(queue) = Asking
         /\ Tail(queue) \in Seq(Batches \X Pool) /\ IsInjective(Tail(queue))
         /\ ToSet(Tail(queue)) = Asking \ {shown}
<1>1. /\ queue \in Seq(Batches \X Pool) /\ IsInjective(queue) /\ ToSet(queue) = Asking
      /\ queue # <<>> /\ shown = Head(queue)
  BY DEF FInv, QueueInv
<1> QED
  BY <1>1, QueueTail

\* One prompt less.
LEMMA PromptGone ==
  ASSUME FInv, shown # None, NEW b \in Batches, NEW w \in Pool, shown = <<b, w>>,
         queue' = Tail(queue), shown' = ShowNext(Tail(queue)),
         \A c \in Batches \ {b} : batch'[c] = batch[c],
         batch'[b].work[w].phase # "ask",
         \A v \in Pool \ {w} : batch'[b].work[v].phase = "ask" <=> batch[b].work[v].phase = "ask"
  PROVE  QueueInv'
<1>1. \A p \in Batches \X Pool : p = <<p[1], p[2]>> /\ p[1] \in Batches /\ p[2] \in Pool
  OBVIOUS
<1>2. ASSUME NEW p \in Batches \X Pool
      PROVE  batch'[p[1]].work[p[2]].phase = "ask"
               <=> batch[p[1]].work[p[2]].phase = "ask" /\ p # shown
  <2>1. p[1] \in Batches /\ p[2] \in Pool /\ (p = shown <=> p[1] = b /\ p[2] = w)
    BY <1>1
  <2>2. CASE p[1] = b
    BY <2>1, <2>2
  <2>3. CASE p[1] # b
    BY <2>1, <2>3
  <2> QED
    BY <2>2, <2>3
<1>3. Asking' = Asking \ {shown}
  BY <1>2 DEF Asking
<1>4. /\ Tail(queue) \in Seq(Batches \X Pool) /\ IsInjective(Tail(queue))
      /\ ToSet(Tail(queue)) = Asking \ {shown}
  BY ShownPrompt
<1> QED
  BY <1>3, <1>4 DEF QueueInv, ShowNext

LEMMA AnswerStep ==
  ASSUME FInv, NEW choice \in Answers, Answer(choice)
  PROVE  FInv' /\ server' = server
<1>1. shown # None
  BY DEF Answer
<1>2. BatchesInv /\ QueueInv /\ CalmInv /\ ServerInv
  BY DEF FInv
<1>3. /\ queue # <<>> /\ shown = Head(queue) /\ shown \in Batches \X Pool /\ shown \in Asking
  BY <1>1, ShownPrompt
<1>4. PICK b \in Batches, w \in Pool : shown = <<b, w>>
  BY <1>3
<1> DEFINE x == batch[b]
           i == x.work[w].item
           a == answers[b]
           z == IF choice \in {"overwrite-all", "skip-all"}
                THEN [x EXCEPT !.latch = LatchOf(choice)] ELSE x
           a2 == [a EXCEPT ![i] = choice]
<1>5. x.work[w].phase = "ask"
  BY <1>3, <1>4 DEF Asking
<1>6. /\ queue' = Tail(queue) /\ shown' = ShowNext(Tail(queue))
      /\ answers' = [answers EXCEPT ![b] = a2]
      /\ batch' = [batch EXCEPT ![b] = Decided(b, z, w, DecisionOf(choice))]
      /\ server' = server /\ stored' = stored /\ errors' = errors /\ others' = others
  <2>1. Head(queue)[1] = b /\ Head(queue)[2] = w /\ shown[1] = b /\ shown[2] = w
    BY <1>3, <1>4
  <2> QED
    BY <2>1 DEF Answer, TakePrompt, Set
<1>7. ServerInv' /\ Grows
  BY <1>2, <1>6, ServerSame DEF ServerInv
<1>8. /\ BatchInv(b, x, a, stored[b]) /\ x.stage = "files" /\ w \in Busy(x) /\ LatchInv(x, a)
      /\ x \in BatchType(b) /\ i \in 1 .. Total(b)
  BY <1>2, <1>5, BusyWorker DEF Active
<1>9. a[i] = None /\ a \in AnswersType(b)
  BY <1>2, <1>5, <1>8, SendingUnasked DEF BatchInv
<1>10. /\ Heard(b, a, a2, i) /\ LatchInv(x, a2) /\ choice \in Range(a2)
       /\ choice \in {"overwrite", "overwrite-all"} => Agreed(a2, i)
       /\ choice \in {"skip", "skip-all"} => Skips(a2, i)
  BY <1>8, <1>9, Answered
<1>11. /\ z \in BatchType(b) /\ z.stage = x.stage /\ z.folders = x.folders /\ z.next = x.next
       /\ z.work = x.work /\ z.completed = x.completed /\ z.failures = x.failures
       /\ \/ z.latch = x.latch
          \/ z.latch = "overwrite" /\ choice = "overwrite-all"
          \/ z.latch = "skip" /\ choice = "skip-all"
  <2>1. CASE choice \in {"overwrite-all", "skip-all"}
    <3> DEFINE l == LatchOf(choice)
    <3>1. \/ l = "overwrite" /\ choice = "overwrite-all"
          \/ l = "skip" /\ choice = "skip-all"
      <4>1. CASE choice = "overwrite-all"
        <5>1. l = "overwrite"
          BY <4>1 DEF LatchOf
        <5> HIDE DEF l
        <5> QED
          BY <4>1, <5>1
      <4>2. CASE choice = "skip-all"
        <5>1. l = "skip"
          BY <4>2 DEF LatchOf
        <5> HIDE DEF l
        <5> QED
          BY <4>2, <5>1
      <4> QED
        BY <2>1, <4>1, <4>2
    <3> HIDE DEF l
    <3>2. z = [x EXCEPT !.latch = l]
      BY <2>1 DEF l
    <3> HIDE DEF z
    <3> QED
      BY <1>8, <3>1, <3>2 DEF BatchType
  <2>2. CASE choice \notin {"overwrite-all", "skip-all"}
    BY <1>8, <2>2
  <2> QED
    BY <2>1, <2>2
<1> HIDE DEF z
<1>12. LatchInv(z, a2)
  <2> HIDE DEF a2
  <2>1. LatchInv(x, a2) /\ choice \in Range(a2)
    BY <1>10
  <2>2. CASE z.latch = x.latch
    BY <2>1, <2>2 DEF LatchInv
  <2>3. CASE z.latch = "overwrite" /\ choice = "overwrite-all"
    BY <2>1, <2>3 DEF LatchInv
  <2>4. CASE z.latch = "skip" /\ choice = "skip-all"
    BY <2>1, <2>4 DEF LatchInv
  <2> QED
    BY <1>11, <2>2, <2>3, <2>4
<1>13. stored = [c \in Batches |-> stored[c]] /\ answers = [c \in Batches |-> answers[c]]
  BY <1>2 DEF BatchesInv
<1>14. CASE choice \in {"overwrite", "overwrite-all"}
  <2>1. batch' = [batch EXCEPT ![b] = GoesOn(z, w, "replace")]
    BY <1>6, <1>14 DEF Decided, DecisionOf, GoesOn
  <2>2. Agreed(a2, i) /\ x.work[w].phase \in Active
    BY <1>5, <1>10, <1>14 DEF Active
  <2> HIDE DEF a2
  <2>3. /\ BatchesInv'
        /\ \A v \in Pool : batch'[b].work[v].phase = IF v = w THEN "replace" ELSE x.work[v].phase
        /\ \A c \in Batches \ {b} : batch'[c] = batch[c]
        /\ batch'[b].failures = x.failures /\ batch'[b].stage = x.stage
        /\ batch'[b].folders = x.folders
    BY <1>2, <1>6, <1>10, <1>11, <1>12, <2>1, <2>2, WorkerGoesOn
  <2>4. QueueInv'
    BY <1>1, <1>4, <1>6, <2>3, PromptGone
  <2>5. CalmInv'
    BY <1>2, <1>6, <1>7, <2>3, CalmKept
  <2> QED
    BY <1>6, <1>7, <2>3, <2>4, <2>5 DEF FInv
<1>15. CASE choice \in {"skip", "skip-all"}
  <2> DEFINE y == Finish(b, z, w)
  <2>1. batch' = [batch EXCEPT ![b] = y]
    BY <1>6, <1>15 DEF Decided, DecisionOf
  <2>2. Skips(a2, i)
    BY <1>10, <1>15
  <2> HIDE DEF a2
  <2>3. BatchInv(b, y, a2, stored[b])
    <3>1. stored[b] \subseteq ItemSet(b)
      BY <1>8 DEF BatchInv
    <3> QED
      BY <1>8, <1>10, <1>11, <1>12, <2>2, <3>1, WorkEnds
  <2>4. /\ y.stage = x.stage /\ y.folders = x.folders /\ y.failures = x.failures
        /\ x.next > Total(b) => y.work = [x.work EXCEPT ![w] = IsDone]
        /\ x.next <= Total(b) => y.work = [x.work EXCEPT ![w] = Sends(x.next)]
    BY <1>11, FinishParts
  <2> HIDE DEF y
  <2>5. /\ answers' = [c \in Batches |-> answers'[c]] /\ answers'[b] = a2
        /\ stored' = [c \in Batches |-> stored'[c]] /\ stored'[b] = stored[b]
        /\ \A c \in Batches \ {b} : answers'[c] = answers[c] /\ stored'[c] = stored[c]
    BY <1>6, <1>13
  <2>6. BatchesInv' /\ batch'[b] = y /\ \A c \in Batches \ {b} : batch'[c] = batch[c]
    BY <1>2, <2>1, <2>3, <2>5, BatchesStep
  <2>7. QueueInv'
    <3>1. x.work \in [Pool -> WorkType] /\ x.next \in Nat /\ Total(b) \in Nat
      BY <1>8, ItemsOf DEF BatchType
    <3>2. /\ y.work[w] = IsDone \/ y.work[w] = Sends(x.next)
          /\ \A v \in Pool \ {w} : y.work[v] = x.work[v]
      BY <2>4, <3>1
    <3>3. y.work[w].phase # "ask"
      BY <3>2 DEF IsDone, Sends
    <3> QED
      BY <1>1, <1>4, <1>6, <2>6, <3>2, <3>3, PromptGone
  <2>8. CalmInv'
    BY <1>2, <1>6, <1>7, <2>4, <2>6, CalmKept
  <2> QED
    BY <1>6, <1>7, <2>6, <2>7, <2>8 DEF FInv
<1> QED
  BY <1>14, <1>15 DEF Answers

LEMMA SomeoneElseStep ==
  ASSUME FInv, NEW p \in Paths, SomeoneElse(p)
  PROVE  FInv' /\ Keeps
<1>1. /\ others' = others + 1 /\ batch' = batch /\ queue' = queue /\ shown' = shown
      /\ answers' = answers /\ stored' = stored /\ errors' = errors
      /\ \/ \E x \in {"folder", "theirs"} : server' = [server EXCEPT ![p] = x]
         \/ server' = [q \in Paths |-> IF IsPrefix(p, q) THEN "nothing" ELSE server[q]]
  BY DEF SomeoneElse
<1>2. BatchesInv /\ QueueInv /\ ServerInv
  BY DEF FInv
<1>3. ServerInv' /\ Keeps
  <2>1. CASE \E x \in {"folder", "theirs"} : server' = [server EXCEPT ![p] = x]
    BY <1>1, <1>2, <2>1, FolderUploadAssumption DEF ServerInv, Things, Keeps
  <2>2. CASE server' = [q \in Paths |-> IF IsPrefix(p, q) THEN "nothing" ELSE server[q]]
    <3>1. \A q \in Paths : server'[q] = "nothing" \/ server'[q] = server[q]
      BY <2>2
    <3>2. server' \in [Paths -> Things]
      BY <1>2, <2>2 DEF ServerInv, Things
    <3>3. errors' \in Nat /\ others' \in Nat
      BY <1>1, <1>2 DEF ServerInv
    <3>4. "nothing" \notin Batches
      BY FolderUploadAssumption
    <3> QED
      BY <3>1, <3>2, <3>3, <3>4 DEF ServerInv, Keeps
  <2> QED
    BY <1>1, <2>1, <2>2
<1>4. BatchesInv'
  BY <1>1, <1>2 DEF BatchesInv
<1>5. QueueInv'
  BY <1>1, <1>2, QueueKept DEF Asking
<1>6. CalmInv'
  BY <1>1, <1>3, Troubled DEF ServerInv
<1> QED
  BY <1>3, <1>4, <1>5, <1>6 DEF FInv

LEMMA SameServer == server' = server => Keeps
BY DEF Keeps

LEMMA NextInv == FInv /\ [Next]_vars => FInv' /\ Keeps
<1> SUFFICES ASSUME FInv, [Next]_vars PROVE FInv' /\ Keeps
  OBVIOUS
<1>1. ASSUME NEW b \in Batches, Start(b) PROVE FInv' /\ Keeps
  <2>1. server' = server
    BY <1>1 DEF Start
  <2> QED
    BY <1>1, <2>1, StartStep, SameServer
<1>2. ASSUME NEW b \in Batches, RunWorkers(b) PROVE FInv' /\ Keeps
  BY <1>2, RunWorkersStep, SameServer
<1>3. ASSUME NEW b \in Batches, NEW p \in Folders(b), CreateFolder(b, p) PROVE FInv' /\ Keeps
  <2>1. FInv' /\ \A q \in Paths : server'[q] \in Batches => server'[q] = server[q]
    BY <1>3, CreateFolderStep
  <2> QED
    BY <2>1 DEF Keeps
<1>4. ASSUME NEW b \in Batches, NEW w \in Pool, WorkerStep(b, w) PROVE FInv' /\ Keeps
  <2>1. CASE Send(b, w) \/ Replace(b, w)
    BY <2>1, TakenStep
  <2>2. CASE SendFails(b, w) \/ ReplaceFails(b, w)
    BY <2>2, FailedStep
  <2>3. CASE ConflictLatched(b, w)
    BY <2>3, ConflictLatchedStep, SameServer
  <2>4. CASE ConflictAsks(b, w)
    BY <2>4, ConflictAsksStep, SameServer
  <2> QED
    BY <1>4, <2>1, <2>2, <2>3, <2>4 DEF WorkerStep
<1>5. ASSUME NEW b \in Batches, NEW w \in Pool, SendLost(b, w) PROVE FInv' /\ Keeps
  BY <1>5, SendLostStep
<1>6. ASSUME NEW choice \in Answers, Answer(choice) PROVE FInv' /\ Keeps
  BY <1>6, AnswerStep, SameServer
<1>7. ASSUME NEW p \in Paths, SomeoneElse(p) PROVE FInv' /\ Keeps
  BY <1>7, SomeoneElseStep
<1>8. CASE UNCHANGED vars
  <2>1. /\ server' = server /\ batch' = batch /\ queue' = queue /\ shown' = shown
        /\ answers' = answers /\ stored' = stored /\ errors' = errors /\ others' = others
    BY <1>8 DEF vars
  <2>2. ServerInv' /\ BatchesInv' /\ QueueInv' /\ CalmInv'
    BY <2>1 DEF FInv, ServerInv, BatchesInv, QueueInv, Asking, CalmInv, Calm, FoldersMade
  <2> QED
    BY <2>1, <2>2, SameServer DEF FInv
<1>9. CASE Next
  BY <1>1, <1>2, <1>3, <1>4, <1>5, <1>6, <1>7, <1>9 DEF Next, BatchStep, UserAnswers
<1> QED
  BY <1>8, <1>9

(* The inductive invariant: every worker holds an item of its own, items   *)
(* count as they end, the queue holds the workers that ask, and as long as *)
(* nothing interferes no folder is missing when its files are sent.        *)
THEOREM FInvHolds == Spec => []FInv
<1>1. Init => FInv
  BY InitInv
<1>2. FInv /\ [Next]_vars => FInv'
  BY NextInv
<1> QED
  BY <1>1, <1>2, PTL DEF Spec

----------------------------------------------------------------------------
(* What follows.                                                           *)

(* The prompt on the screen is the first of the queue, the queue holds     *)
(* exactly the workers that wait for the user, none twice, and the report  *)
(* names items of the batch only.                                          *)
THEOREM TypeCorrect == Spec => []TypeOK
<1>1. FInv => TypeOK
  <2> SUFFICES ASSUME FInv PROVE TypeOK
    OBVIOUS
  <2>1. server \in [Paths -> {"nothing", "folder", "theirs"} \cup Batches]
    BY DEF FInv, ServerInv, Things
  <2>2. ASSUME NEW b \in Batches
        PROVE  /\ batch[b].stage \in {"idle", "folders", "files"}
               /\ batch[b].latch \in {None, "overwrite", "skip"}
               /\ batch[b].failures \cup stored[b] \subseteq ItemSet(b)
               /\ \A w \in Pool : batch[b].work[w].phase \in {"idle", "send", "ask", "replace", "done"}
    <3>1. batch[b] \in BatchType(b) /\ stored[b] \subseteq ItemSet(b)
      BY DEF FInv, BatchesInv, BatchInv
    <3> QED
      BY <3>1 DEF BatchType, WorkType, Active
  <2>3. /\ queue # <<>> => shown = Head(queue)
        /\ IsInjective(queue) /\ ToSet(queue) = Asking
    BY DEF FInv, QueueInv
  <2> QED
    BY <2>1, <2>2, <2>3 DEF TypeOK, Asking
<1> QED
  BY <1>1, FInvHolds, PTL

LEMMA AllEnded ==
  ASSUME FInv, NEW b \in Batches, Done(b)
  PROVE  /\ batch[b].completed = Len(Items[b])
         /\ \A i \in DOMAIN Items[b] :
              Items[b][i] \in batch[b].failures \cup stored[b] \/ Skipped(b, i)
<1> DEFINE x == batch[b]
<1>1. x.stage = "files" /\ \A w \in Pool : x.work[w].phase = "done"
  BY DEF Done
<1>2. Working(b, x, answers[b], stored[b]) /\ x \in BatchType(b)
  BY <1>1 DEF FInv, BatchesInv, BatchInv
<1>3. Busy(x) = {} /\ 1 \in Pool \ Busy(x)
  BY <1>1, FolderUploadAssumption DEF Busy, Active, Pool
<1>4. Cardinality(Busy(x)) = 0
  BY <1>3, FS_EmptySet
<1>5. x.next = Total(b) + 1 /\ Total(b) \in Nat /\ DOMAIN Items[b] = 1 .. Total(b) /\ x.completed \in Nat
  BY <1>2, <1>3, ItemsOf DEF Working, BatchType
<1>6. x.completed = Total(b)
  BY <1>2, <1>4, <1>5 DEF Working
<1>7. \A i \in 1 .. Total(b) : Items[b][i] \in x.failures \cup stored[b] \/ Skips(answers[b], i)
  BY <1>2, <1>3, <1>5 DEF Working
<1> QED
  BY <1>5, <1>6, <1>7 DEF Total, Skips, Skipped

(* When a batch is done every item counted once, and each was taken,       *)
(* reported or skipped by the user; without loss or interference nothing   *)
(* fails, since a folder is made before its files are sent.                *)
THEOREM ReportsAreAccurate == Spec => []ReportIsAccurate
<1>1. FInv => ReportIsAccurate
  BY AllEnded DEF FInv, CalmInv, Calm, ReportIsAccurate
<1> QED
  BY <1>1, FInvHolds, PTL

(* A file is replaced only with the consent of the user of the batch that  *)
(* replaces it, about this file or about all.                              *)
THEOREM NothingReplacedUnasked == Spec => ReplacesWithConsent
<1>1. FInv /\ [Next]_vars =>
        [\A p \in Paths :
           (/\ server[p] \in {"theirs"} \cup Batches /\ server'[p] \in Batches
            /\ server'[p] # server[p])
             => \E i \in DOMAIN Items[server'[p]] :
                  Items[server'[p]][i] = p /\ Consented(server'[p], i)]_vars
  <2> SUFFICES ASSUME FInv, [Next]_vars, NEW p \in Paths,
                      server[p] \in {"theirs"} \cup Batches, server'[p] \in Batches,
                      server'[p] # server[p]
               PROVE  \E i \in DOMAIN Items[server'[p]] :
                        Items[server'[p]][i] = p /\ Consented(server'[p], i)
    OBVIOUS
  <2>1. ~Clear(p)
    BY FolderUploadAssumption DEF Clear
  <2>2. PICK i \in 1 .. Total(server'[p]) :
               Items[server'[p]][i] = p /\ Agreed(answers[server'[p]], i)
    BY <2>1, NextInv DEF Keeps
  <2>3. DOMAIN Items[server'[p]] = 1 .. Total(server'[p])
    BY ItemsOf
  <2> QED
    BY <2>2, <2>3 DEF Agreed, Consented
<1> QED
  BY <1>1, FInvHolds, PTL DEF Spec, ReplacesWithConsent
=============================================================================
