----------------------------- MODULE FileTree ------------------------------
(***************************************************************************)
(* What a user is promised of the file store: a tree of entries with       *)
(* identities.  Renaming or moving a folder changes one edge and nothing   *)
(* below it; deleting an entry hangs its whole subtree in the trash and    *)
(* restoring it puts it back where it was; overwriting a file or rolling   *)
(* it back only adds to its history; nothing but a purge forgets.          *)
(*                                                                         *)
(* Paths, LIKE patterns, rows, bytes and blobs do not exist here.          *)
(* Filesystem implements this module (see FilesystemTree).                 *)
(***************************************************************************)
EXTENDS Integers, Sequences, FiniteSets

CONSTANTS Node, Name, Content, None,
          Top,   \* the parent of the entries of "/"
          Bin    \* the parent of the entries the trash lists

VARIABLE tree    \* the entries that exist, each with its edge and its contents

Entry == [parent : Node \cup {Top, Bin}, name : Name, dir : BOOLEAN,
          data : Content \cup {None}, history : Seq(Content),
          orig : Seq(Name) \cup {None}, fav : BOOLEAN]

Put(n, e) == tree' = [m \in DOMAIN tree \cup {n} |-> IF m = n THEN e ELSE tree[m]]

\* With an entry, the set has the one it hangs from.
Upward(S) == \A k \in S : tree[k].parent \in S \cup {Top, Bin}

\* the entries from n up to the one that hangs from Top or Bin
Above(n) ==
  {m \in DOMAIN tree :
     \A S \in SUBSET DOMAIN tree : n \in S /\ Upward(S) => m \in S}
Within(n) == {m \in DOMAIN tree : n \in Above(m)}
IsLive(n) == n \in DOMAIN tree /\ \E m \in Above(n) : tree[m].parent = Top

\* the same entries in order, and the names along them
Chain(n) ==
  CHOOSE w \in [1 .. Cardinality(Above(n)) -> Above(n)] :
    /\ w[Cardinality(Above(n))] = n
    /\ \A i \in 2 .. Cardinality(Above(n)) : tree[w[i]].parent = w[i - 1]
PathOf(n) == [i \in 1 .. Cardinality(Above(n)) |-> tree[Chain(n)[i]].name]

Places == {Top} \cup {n \in DOMAIN tree : IsLive(n) /\ tree[n].dir}
Free(parent, name) ==
  \A n \in DOMAIN tree : tree[n].parent = parent => tree[n].name # name

Init == tree = << >>

Create(n, parent, name, dir, c) ==
  /\ n \notin DOMAIN tree
  /\ parent \in Places /\ Free(parent, name)
  /\ c \in IF dir THEN {None} ELSE Content
  /\ Put(n, [parent |-> parent, name |-> name, dir |-> dir, data |-> c,
             history |-> << >>, orig |-> None, fav |-> FALSE])

\* The new row is not a favorite, whatever the old one was.
Overwrite(n, c) ==
  /\ IsLive(n) /\ ~tree[n].dir
  /\ Put(n, [tree[n] EXCEPT !.history = Append(@, tree[n].data), !.data = c,
                            !.fav = FALSE])

RollBack(n, i) ==
  /\ IsLive(n) /\ ~tree[n].dir
  /\ i \in DOMAIN tree[n].history
  /\ Put(n, [tree[n] EXCEPT !.history = Append(@, tree[n].data),
                            !.data = tree[n].history[i]])

Relink(n, parent, name) ==
  /\ IsLive(n)
  /\ parent \in Places \ Within(n) /\ Free(parent, name)
  /\ Put(n, [tree[n] EXCEPT !.parent = parent, !.name = name])

Trash(n) ==
  /\ IsLive(n)
  /\ Put(n, [tree[n] EXCEPT !.parent = Bin, !.orig = PathOf(n)])

Restore(n, parent) ==
  /\ n \in DOMAIN tree /\ tree[n].parent = Bin
  /\ LET orig == tree[n].orig
         name == orig[Len(orig)]
     IN  /\ parent \in Places /\ Free(parent, name)
         /\ (IF parent = Top THEN << >> ELSE PathOf(parent))
              = SubSeq(orig, 1, Len(orig) - 1)
         /\ Put(n, [tree[n] EXCEPT !.parent = parent, !.name = name, !.orig = None])

Purge(roots) ==
  /\ roots # {}
  /\ \A n \in roots : tree[n].parent = Bin
  /\ LET gone == UNION {Within(n) : n \in roots}
     IN  tree' = [m \in DOMAIN tree \ gone |-> tree[m]]

Favor(n, b) == IsLive(n) /\ Put(n, [tree[n] EXCEPT !.fav = b])

Next ==
  \/ \E n \in Node, parent \in Places, name \in Name, dir \in BOOLEAN,
       c \in Content \cup {None} : Create(n, parent, name, dir, c)
  \/ \E n \in DOMAIN tree :
       \/ \E c \in Content : Overwrite(n, c)
       \/ \E i \in DOMAIN tree[n].history : RollBack(n, i)
       \/ \E parent \in Places, name \in Name \cup {tree[n].name} :
            Relink(n, parent, name)
       \/ Trash(n)
       \/ \E parent \in Places : Restore(n, parent)
       \/ \E b \in BOOLEAN : Favor(n, b)
  \/ \E roots \in SUBSET DOMAIN tree : Purge(roots)

Spec == Init /\ [][Next]_tree

============================================================================
