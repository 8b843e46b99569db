------------------------------- MODULE Paths -------------------------------
(***************************************************************************)
(* The path algebra of the file store.  A path such as "/docs/a" is the    *)
(* sequence <<docs, a>> of its segments; "/" is the empty sequence.  The   *)
(* code works on strings: a folder's subtree is selected with              *)
(* path LIKE folder || '/%' and moved with new || SUBSTR(path, len + 1).   *)
(*                                                                         *)
(* LIKE is not equality of prefixes: it folds ASCII case and reads _ and % *)
(* in the folder's own name as wildcards.  Like is the relation it induces *)
(* on segments: <<m, n>> \in Like says that the pattern m matches n.  Only *)
(* matches that keep the length of each segment are represented, those of  *)
(* case folding and of _; then SUBSTR cuts at a segment boundary.          *)
(***************************************************************************)
EXTENDS Integers, Sequences

CONSTANTS
  Segments,   \* every path segment: entry names, reserved names, random ids
  Like        \* the pairs <<pattern segment, segment>> that LIKE matches

ASSUME LikeAssumption ==
  /\ Like \subseteq Segments \X Segments
  /\ \A n \in Segments : <<n, n>> \in Like

Path == Seq(Segments)
Root == << >>

(* LIKE compares segments as they are: no case folding, no wildcard.       *)
LikeIsExact == \A m, n \in Segments : <<m, n>> \in Like => m = n

\* parent_of: the code's '' for the parent of '/' is always treated as '/'.
ParentOf(p) == SubSeq(p, 1, Len(p) - 1)
NameOf(p) == p[Len(p)]
Child(p, n) == Append(p, n)

(* q is strictly below p: what str.startswith(p + "/") and a directory tree *)
(* on disk mean by it.                                                     *)
Below(p, q) == Len(p) < Len(q) /\ SubSeq(q, 1, Len(p)) = p

(* q LIKE p || '/%': what the SQL statements mean by it.                   *)
LikeBelow(p, q) ==
  Len(p) < Len(q) /\ \A i \in 1 .. Len(p) : <<p[i], q[i]>> \in Like

(* path = p OR path LIKE p || '/%'                                         *)
Covers(p, q) == q = p \/ LikeBelow(p, q)

(* new || SUBSTR(q, length(old) + 1)                                       *)
Rebase(old, new, q) == new \o SubSeq(q, Len(old) + 1, Len(q))

(***************************************************************************)
(* The path that _relocate_subtree leaves in a row whose path was p: one   *)
(* UPDATE for the entry itself, then, for a folder, one for the rows LIKE  *)
(* matches, which see the first one's result.                              *)
(***************************************************************************)
MovedPath(old, new, dir, p) ==
  LET q == IF p = old THEN new ELSE p
  IN  IF dir /\ LikeBelow(old, q) THEN Rebase(old, new, q) ELSE q

============================================================================
