------------------------------ MODULE MCSignIn -----------------------------
(***************************************************************************)
(* Two clients behind one address and one name.  Both databases with their *)
(* scripts: TRUE for CREATE ... IF NOT EXISTS, FALSE for ALTER TABLE.      *)
(* They are new, or from before there were versions (the same to the       *)
(* start), or up to date.                                                  *)
(***************************************************************************)
EXTENDS SignIn, TLC

CONSTANTS c1, c2, ann, home

MCKey == [u \in {ann} |-> u]
MCAddress == [c \in {c1, c2} |-> home]
MCDatabases == <<"metadata", "users">>
MCScripts ==
  [d \in {"metadata", "users"} |->
     IF d = "users" THEN << <<FALSE>> >>
     ELSE << <<FALSE, FALSE, TRUE>>, <<FALSE>>, <<TRUE, TRUE>>, <<TRUE, TRUE, TRUE, TRUE>>, <<FALSE>> >>]
MCDisks ==
  {[d \in {"metadata", "users"} |-> Fresh],
   [d \in {"metadata", "users"} |->
      [version |-> Len(MCScripts[d]), applied |-> UpTo(d, Len(MCScripts[d]))]]}

\* Clients, passwords and requests are interchangeable.
MCSymmetry ==
  Permutations(Clients) \cup Permutations(Passwords) \cup Permutations(Requests)

============================================================================
