--------------------------- MODULE MCFolderUpload ---------------------------
(***************************************************************************)
(* A folder of two files, one of them in a folder below, next to a file    *)
(* that a second drop uploads at the same time; two workers each.          *)
(***************************************************************************)
EXTENDS FolderUpload

CONSTANTS b1, b2

MCBatches == {b1, b2}
MCItems == [b \in MCBatches |->
  IF b = b1 THEN <<<<"d", "x">>, <<"d", "e", "y">>, <<"a">>>> ELSE <<<<"a">>>>]
=============================================================================
