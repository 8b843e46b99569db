---------------------------- MODULE FolderUpload ----------------------------
(***************************************************************************)
(* Uploading folders from the portal: uploadItems creates the folders one  *)
(* after the other, then a pool of workers uploads the files; an upload    *)
(* the server answers 409 asks the user, unless an "all" answer was given  *)
(* before.  Several uploads may run at once (one drop after another); they *)
(* share the page's queue of prompts, of which the first is shown.         *)
(*                                                                         *)
(* A request to the server is one step here; AsyncFilesystem has its parts.*)
(***************************************************************************)
EXTENDS Integers, Sequences, SequencesExt, FiniteSets, Functions

CONSTANTS
  Batches,   \* calls of uploadItems
  Items,     \* for each batch the paths it uploads, a sequence
  Workers,   \* size of a batch's pool
  MaxTrouble, \* bound: requests or answers lost and changes by others, together
  None

Pool == 1 .. Workers
Answers == {"overwrite", "overwrite-all", "skip", "skip-all"}

\* An upload may hold several files of one name.
ASSUME FolderUploadAssumption ==
  /\ Workers \in Nat \ {0} /\ MaxTrouble \in Nat
  /\ \A b \in Batches : Items[b] \in Seq(Seq(STRING) \ {<<>>})
  /\ Batches \cap {"nothing", "folder", "theirs"} = {}
  /\ None \notin Answers \cup Nat \cup (Batches \X Pool)

VARIABLES
  server,  \* what is at each path: nothing, a folder, a file and whose
  batch,   \* for each batch its progress and its workers
  queue,   \* conflictQueueRef: <<batch, worker>> waiting for the user
  shown,   \* conflict: the prompt on the screen
  answers, \* history: what the user answered for an item
  stored,  \* history: the paths the server took, for each batch
  errors,  \* requests or answers lost so far
  others   \* changes made to the server by anyone else so far

vars == <<server, batch, queue, shown, answers, stored, errors, others>>

ItemSet(b) == ToSet(Items[b])
Above(p) == {SubSeq(p, 1, n) : n \in 1 .. Len(p) - 1}
Folders(b) == UNION {Above(p) : p \in ItemSet(b)}
Paths == UNION {ItemSet(b) \cup Folders(b) : b \in Batches}

\* Parents before children.
Shallowest(S) == {p \in S : \A q \in S : Len(p) <= Len(q)}
\* Bug: children before parents.
Deepest(S) == {p \in S : \A q \in S : Len(p) >= Len(q)}
NextFolders(S) == Shallowest(S)

\* The root is there always.
IsFolder(p) == p # <<>> => server[p] = "folder"
Clear(p) == server[p] = "nothing"

Waiting == [phase |-> "idle", item |-> None]
Idle == [stage |-> "idle", folders |-> {}, next |-> 1, completed |-> 0,
         failures |-> {}, latch |-> None, work |-> [w \in Pool |-> Waiting]]

Init ==
  /\ server \in {f \in [Paths -> {"nothing", "folder", "theirs"}] :
       \A p \in Paths : f[p] # "nothing" => Len(p) = 1 \/ f[Front(p)] = "folder"}
  /\ batch = [b \in Batches |-> Idle]
  /\ queue = <<>> /\ shown = None
  /\ answers = [b \in Batches |-> [i \in DOMAIN Items[b] |-> None]]
  /\ stored = [b \in Batches |-> {}]
  /\ errors = 0 /\ others = 0

Lost == errors + others < MaxTrouble /\ errors' = errors + 1

Set(b, x) == batch' = [batch EXCEPT ![b] = x]

----------------------------------------------------------------------------
(* The folders.                                                            *)

Start(b) ==
  /\ batch[b].stage = "idle"
  /\ Set(b, [Idle EXCEPT !.stage = "folders", !.folders = Folders(b)])
  /\ UNCHANGED <<server, queue, shown, answers, stored, errors, others>>

(* createFolder: 409 if there is something, 404 if the parent is missing;  *)
(* whatever it answers, the loop goes on.                                  *)
CreateFolder(b, p) ==
  /\ batch[b].stage = "folders" /\ p \in NextFolders(batch[b].folders)
  /\ \/ /\ server' = IF Clear(p) /\ IsFolder(Front(p))
                     THEN [server EXCEPT ![p] = "folder"] ELSE server
        /\ UNCHANGED errors
     \/ Lost /\ UNCHANGED server
  /\ Set(b, [batch[b] EXCEPT !.folders = @ \ {p}])
  /\ UNCHANGED <<queue, shown, answers, stored, others>>

----------------------------------------------------------------------------
(* The workers.                                                            *)

Sends(i) == [phase |-> "send", item |-> i]
IsDone == [phase |-> "done", item |-> None]

\* Worker w of the batch takes the next item.
Take(b, x, w) ==
  IF x.next > Len(Items[b]) THEN [x EXCEPT !.work[w] = IsDone]
  ELSE [x EXCEPT !.next = @ + 1, !.work[w] = Sends(x.next)]

\* The workers start one after the other.
RunWorkers(b) ==
  /\ batch[b].stage = "folders" /\ batch[b].folders = {}
  /\ Set(b, [batch[b] EXCEPT
       !.stage = "files",
       !.next = IF Workers < Len(Items[b]) THEN Workers + 1 ELSE Len(Items[b]) + 1,
       !.work = [w \in Pool |-> IF w <= Len(Items[b]) THEN Sends(w) ELSE IsDone]])
  /\ UNCHANGED <<server, queue, shown, answers, stored, errors, others>>

\* What worker w uploads.
Item(b, w) == Items[b][batch[b].work[w].item]

\* handleOne returns: the item counts, failed or not.
Finish(b, x, w) == Take(b, [x EXCEPT !.completed = @ + 1], w)

Fail(b, w) ==
  Finish(b, [batch[b] EXCEPT !.failures = @ \cup {Item(b, w)}], w)

FailReplacing(b, w) == Fail(b, w)

\* The server takes the file.
Store(b, w) ==
  LET p == Item(b, w)
  IN  /\ server' = [server EXCEPT ![p] = b]
      /\ stored' = [stored EXCEPT ![b] = @ \cup {p}]

Send(b, w) ==
  LET p == Item(b, w)
  IN  /\ batch[b].work[w].phase = "send"
      /\ IsFolder(Front(p)) /\ Clear(p)
      /\ Store(b, w)
      /\ Set(b, Finish(b, batch[b], w))
      /\ UNCHANGED <<queue, shown, answers, errors, others>>

\* The parent is missing.
SendFails(b, w) ==
  LET p == Item(b, w)
  IN  /\ batch[b].work[w].phase = "send"
      /\ ~IsFolder(Front(p))
      /\ Set(b, Fail(b, w))
      /\ UNCHANGED <<server, queue, shown, answers, stored, errors, others>>

\* A network error, before or after the server took the file.
SendLost(b, w) ==
  LET p == Item(b, w)
  IN  /\ batch[b].work[w].phase \in {"send", "replace"}
      /\ Lost
      /\ \/ UNCHANGED <<server, stored>>
         \/ /\ IsFolder(Front(p)) /\ server[p] # "folder"
            /\ batch[b].work[w].phase = "send" => Clear(p)
            /\ Store(b, w)
      /\ Set(b, Fail(b, w))
      /\ UNCHANGED <<queue, shown, answers, others>>

\* What the worker does with a decision.
Decided(b, x, w, decision) ==
  IF decision = "overwrite" THEN [x EXCEPT !.work[w].phase = "replace"] ELSE Finish(b, x, w)

\* 409, and an "all" answer was given before.
ConflictLatched(b, w) ==
  LET p == Item(b, w)
  IN  /\ batch[b].work[w].phase = "send"
      /\ IsFolder(Front(p)) /\ ~Clear(p) /\ batch[b].latch # None
      /\ Set(b, Decided(b, batch[b], w, batch[b].latch))
      /\ UNCHANGED <<server, queue, shown, answers, stored, errors, others>>

\* enqueueConflict.
ConflictAsks(b, w) ==
  LET p == Item(b, w)
  IN  /\ batch[b].work[w].phase = "send"
      /\ IsFolder(Front(p)) /\ ~Clear(p) /\ batch[b].latch = None
      /\ Set(b, [batch[b] EXCEPT !.work[w].phase = "ask"])
      /\ queue' = Append(queue, <<b, w>>)
      /\ shown' = IF shown = None THEN <<b, w>> ELSE shown
      /\ UNCHANGED <<server, answers, stored, errors, others>>

\* Bug: the last prompt that came in is answered.
AnswerLast(q) == [head |-> Last(q), rest |-> Front(q)]
TakePrompt(q) == [head |-> Head(q), rest |-> Tail(q)]

\* Bug: the next prompt waits for another conflict to be shown.
ShowNothing(q) == None
ShowNext(q) == IF q = <<>> THEN None ELSE Head(q)

LatchOf(choice) ==
  CASE choice = "overwrite-all" -> "overwrite"
    [] choice = "skip-all"      -> "skip"
DecisionOf(choice) == IF choice \in {"overwrite", "overwrite-all"} THEN "overwrite" ELSE "skip"

(* The user answers the prompt shown; the page resolves the first of its   *)
(* queue and shows the next.                                               *)
Answer(choice) ==
  LET prompt == TakePrompt(queue)
      b == prompt.head[1]
      w == prompt.head[2]
      x == IF choice \in {"overwrite-all", "skip-all"}
           THEN [batch[b] EXCEPT !.latch = LatchOf(choice)] ELSE batch[b]
  IN  /\ shown # None
      /\ queue' = prompt.rest /\ shown' = ShowNext(prompt.rest)
      /\ answers' = [answers EXCEPT ![shown[1]][batch[shown[1]].work[shown[2]].item] = choice]
      /\ Set(b, Decided(b, x, w, DecisionOf(choice)))
      /\ UNCHANGED <<server, stored, errors, others>>

\* With overwrite=true only a folder is not replaced.
Replace(b, w) ==
  LET p == Item(b, w)
  IN  /\ batch[b].work[w].phase = "replace"
      /\ IsFolder(Front(p)) /\ server[p] # "folder"
      /\ Store(b, w)
      /\ Set(b, Finish(b, batch[b], w))
      /\ UNCHANGED <<queue, shown, answers, errors, others>>

ReplaceFails(b, w) ==
  LET p == Item(b, w)
  IN  /\ batch[b].work[w].phase = "replace"
      /\ (~IsFolder(Front(p)) \/ server[p] = "folder")
      /\ Set(b, FailReplacing(b, w))
      /\ UNCHANGED <<server, queue, shown, answers, stored, errors, others>>

\* Another tab creates or deletes a file or a folder.
SomeoneElse(p) ==
  /\ errors + others < MaxTrouble /\ others' = others + 1
  /\ \/ Clear(p) /\ IsFolder(Front(p)) /\ \E x \in {"folder", "theirs"} : server' = [server EXCEPT ![p] = x]
     \/ ~Clear(p) /\ server' = [q \in Paths |-> IF IsPrefix(p, q) THEN "nothing" ELSE server[q]]
  /\ UNCHANGED <<batch, queue, shown, answers, stored, errors>>

WorkerStep(b, w) ==
  Send(b, w) \/ SendFails(b, w) \/ ConflictLatched(b, w) \/ ConflictAsks(b, w)
  \/ Replace(b, w) \/ ReplaceFails(b, w)
BatchStep(b) == RunWorkers(b) \/ \E p \in Folders(b) : CreateFolder(b, p)
UserAnswers == \E choice \in Answers : Answer(choice)

Next ==
  \/ \E b \in Batches :
       \/ Start(b) \/ BatchStep(b)
       \/ \E w \in Pool : WorkerStep(b, w) \/ SendLost(b, w)
  \/ UserAnswers
  \/ \E p \in Paths : SomeoneElse(p)

Spec == Init /\ [][Next]_vars

(* Requests are answered, and so is the prompt on the screen.              *)
FairSpec ==
  /\ Spec
  /\ WF_vars(UserAnswers)
  /\ \A b \in Batches : WF_vars(BatchStep(b)) /\ \A w \in Pool : WF_vars(WorkerStep(b, w))

----------------------------------------------------------------------------
(* Type invariant of the server and the page's state.                      *)
TypeOK ==
  /\ server \in [Paths -> {"nothing", "folder", "theirs"} \cup Batches]
  /\ \A b \in Batches :
       /\ batch[b].stage \in {"idle", "folders", "files"}
       /\ batch[b].latch \in {None, "overwrite", "skip"}
       /\ batch[b].failures \cup stored[b] \subseteq ItemSet(b)
       /\ \A w \in Pool : batch[b].work[w].phase \in {"idle", "send", "ask", "replace", "done"}
  /\ queue # <<>> => shown = Head(queue)
  /\ IsInjective(queue)
  /\ ToSet(queue) = {p \in Batches \X Pool : batch[p[1]].work[p[2]].phase = "ask"}

Done(b) == batch[b].stage = "files" /\ \A w \in Pool : batch[b].work[w].phase = "done"

Consented(b, i) ==
  IF answers[b][i] # None THEN answers[b][i] \in {"overwrite", "overwrite-all"}
  ELSE "overwrite-all" \in Range(answers[b])

(* A file is replaced only by a batch whose user, asked about this very    *)
(* file, said so, or answered "overwrite all" in this batch and was not    *)
(* asked about the file.                                                   *)
ReplacesWithConsent ==
  [][\A p \in Paths :
       (/\ server[p] \in {"theirs"} \cup Batches /\ server'[p] \in Batches
        /\ server'[p] # server[p])
         => \E i \in DOMAIN Items[server'[p]] :
              Items[server'[p]][i] = p /\ Consented(server'[p], i)]_vars

Skipped(b, i) ==
  IF answers[b][i] # None THEN answers[b][i] \in {"skip", "skip-all"}
  ELSE "skip-all" \in Range(answers[b])

(* When a batch is done, every item counts once, and an item that is not   *)
(* reported as failed was taken by the server or skipped by the user.      *)
(* "Sort by depth so parents come before children ... so workers never     *)
(* race": if nothing is lost, nobody interferes and no name is a file here *)
(* and a folder there, nothing fails.                                      *)
ReportIsAccurate ==
  /\ \A b \in Batches : Done(b) =>
       /\ batch[b].completed = Len(Items[b])
       /\ \A i \in DOMAIN Items[b] :
            Items[b][i] \in batch[b].failures \cup stored[b] \/ Skipped(b, i)
  /\ (/\ errors = 0 /\ others = 0
      /\ \A b \in Batches : \A p \in Folders(b) : server[p] \in {"nothing", "folder"}
      /\ \A b \in Batches : \A p \in ItemSet(b) : server[p] # "folder")
       => \A b \in Batches : batch[b].failures = {}

(* "Latched batch decisions - once set, applied without another prompt for *)
(* the rest of this upload."                                               *)
AllDecides == shown # None => batch[shown[1]].latch = None

(* A batch that was started ends, if the user answers what is asked.       *)
BatchEnds == \A b \in Batches : batch[b].stage # "idle" ~> Done(b)

=============================================================================
