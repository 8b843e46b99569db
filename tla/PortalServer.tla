---------------------------- MODULE PortalServer ---------------------------
(***************************************************************************)
(* The account as the portal sees it through its API: a tree of entries,   *)
(* of which a page reads single folders, and requests in flight.  A read   *)
(* is answered with what the tree is when the server gets to it, and the   *)
(* answers come back in any order.                                         *)
(*                                                                         *)
(* Whether an entry is a folder is part of its name.  Filesystem models    *)
(* what the server does inside; here a request is one step.                *)
(***************************************************************************)
EXTENDS Integers, Sequences, FiniteSets, SequencesExt, Functions

CONSTANTS
  FolderNames, FileNames,
  Depth,     \* bound: length of a path
  Start,     \* the paths that exist when the page opens
  Opened,    \* the folders it may be opened at
  MaxMoves,  \* bound: what the user does
  MaxFaults, \* bound: requests or answers lost
  None       \* no path, no rows

ASSUME PortalAssumption ==
  /\ Depth \in Nat \ {0} /\ MaxMoves \in Nat /\ MaxFaults \in Nat
  /\ FolderNames \cap FileNames = {}

VARIABLES
  tree,      \* server: the paths that exist, each with its favorite flag
  moves,     \* what the user did so far
  faults     \* requests or answers lost so far

Names == FolderNames \cup FileNames
Root == << >>
Paths == UNION {[1 .. n -> Names] : n \in 1 .. Depth}
ASSUME StartAssumption == Start \subseteq Paths /\ Opened \subseteq Start \cup {Root}

IsFolder(p) == p # Root => Last(p) \in FolderNames
Exists(p) == p # Root => p \in DOMAIN tree

\* ancestorsOf, breadcrumbs: the path itself and every folder above it
Ancestors(p) == {SubSeq(p, 1, n) : n \in 0 .. Len(p)}

\* joinPath; parentOf is Front.
Join(p, n) == Append(p, n)

\* An answer: the entries of a folder, or of a search.
Kids(p) == Restrict(tree, {q \in DOMAIN tree : Front(q) = p})
Found(name) == Restrict(tree, {q \in DOMAIN tree : Last(q) = name})
\* What counts towards the quota.
Files == [q \in {x \in DOMAIN tree : ~IsFolder(x)} |-> TRUE]
NoRows == << >>

Move == moves < MaxMoves /\ moves' = moves + 1
Fault == faults < MaxFaults /\ faults' = faults + 1

\* A read in flight: sent, answered with rows, or failed.
Ask(what, of, gen) ==
  [what |-> what, of |-> of, gen |-> gen, state |-> "sent", answer |-> NoRows]
Unread(r) == r.state = "sent"
Failed(r) == r.state = "failed"
\* A folder that does not exist cannot be listed.
Readable(r) == r.what \in {"search", "quota"} \/ Exists(r.of)
Reading(r) ==
  CASE r.what = "search" -> Found(r.of)
    [] r.what = "quota"  -> Files
    [] OTHER             -> Kids(r.of)
Reply(r, state, rows) == [r EXCEPT !.state = state, !.answer = rows]
Answered(R, r) ==
  (R \ {r}) \cup {IF Readable(r) THEN Reply(r, "ok", Reading(r)) ELSE Reply(r, "failed", NoRows)}
Lost(R, r) == (R \ {r}) \cup {Reply(r, "failed", NoRows)}

(* Whether a request that changes something is accepted, and what it then  *)
(* makes of the tree.  To move an entry to where it is, or to star it      *)
(* again, is accepted and leaves the tree as it was.                       *)
Accepts(kind, p, to) ==
  CASE kind = "create" -> ~Exists(p) /\ Exists(Front(p))
    [] kind = "place"  -> /\ p \in DOMAIN tree
                          /\ to = p \/ (~Exists(to) /\ Exists(Front(to)) /\ ~IsPrefix(p, to))
    [] OTHER           -> p \in DOMAIN tree

Put(p, b) == [q \in DOMAIN tree \cup {p} |-> IF q = p THEN b ELSE tree[q]]
Within(p) == {q \in DOMAIN tree : IsPrefix(p, q)}
Relocated(p, q) ==
  LET back(x) == IF IsPrefix(q, x) THEN p \o SubSeq(x, Len(q) + 1, Len(x)) ELSE x
      gone == Within(p)
  IN  [x \in (DOMAIN tree \ gone) \cup {q \o SubSeq(y, Len(p) + 1, Len(y)) : y \in gone}
         |-> tree[back(x)]]

Changed(kind, p, to) ==
  CASE kind = "delete" -> Restrict(tree, DOMAIN tree \ Within(p))
    [] kind \in {"star", "unstar"} -> Put(p, kind = "star")
    [] kind = "place" -> Relocated(p, to)
    [] OTHER -> Put(p, FALSE)   \* create

============================================================================
