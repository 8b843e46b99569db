----------------------------- MODULE MCOverlays ----------------------------
(***************************************************************************)
(* A note with one earlier version and a share on it, a picture and a file *)
(* no viewer knows, an older note and picture in the trash, and a file     *)
(* that somebody else shares.                                              *)
(***************************************************************************)
EXTENDS Overlays

CONSTANTS note, picture, data

MCStart ==
  [text    |-> [p \in {note, picture, data} |-> 0],
   history |-> [p \in {note, picture, data} |-> IF p = note THEN <<1>> ELSE << >>],
   bin     |-> [i \in {1, 2} |-> [path |-> IF i = 1 THEN note ELSE picture, text |-> 1, history |-> << >>]],
   shares  |-> [i \in {3} |-> [path |-> note, role |-> "write"]],
   theirs  |-> [i \in {4} |-> data]]

MCDetected ==
  [p \in {note, picture, data} |->
     IF p = note THEN "markdown" ELSE IF p = picture THEN "image" ELSE "other"]

============================================================================
