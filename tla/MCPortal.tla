------------------------------ MODULE MCPortal -----------------------------
(***************************************************************************)
(* An account with a folder /d, a file in it, and a file /f; the page     *)
(* shows the root.                                                         *)
(***************************************************************************)
EXTENDS Portal

MCStart == {<<"d">>, <<"d", "f">>, <<"f">>}
MCOpened == { << >> }

============================================================================
