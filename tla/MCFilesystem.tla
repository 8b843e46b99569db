---------------------------- MODULE MCFilesystem ---------------------------
(***************************************************************************)
(* Filesystem and its refinement of FileTree, on a small instance.         *)
(***************************************************************************)
EXTENDS FilesystemTree, TLC

MCSegments == Names \cup TrashIds \cup Refs \cup {TRASH, VERSIONS}
ExactLike == {<<n, n>> : n \in MCSegments}

\* Any two of the user's names differ only in case, as "docs" and "Docs".
FoldedLike == ExactLike \cup (Names \X Names)

Symmetry == Permutations(Names) \cup Permutations(Contents) \cup
            Permutations(TrashIds) \cup Permutations(Refs) \cup Permutations(Nodes)

============================================================================
