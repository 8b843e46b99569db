------------------------------ MODULE Explorer -----------------------------
(***************************************************************************)
(* The explorer next to the listing: a tree of the folders the user opened *)
(* and those above the current one.  Children are fetched when a folder is *)
(* expanded and not cached; on every refresh the cache is emptied and all  *)
(* that is expanded is fetched again.  Fetches are never cancelled.        *)
(***************************************************************************)
EXTENDS PortalServer

VARIABLES
  expanded,  \* the folders that are open
  children,  \* childrenByPath: the rows of the folders that are cached
  loading,   \* the folders marked as being fetched
  fetches    \* the fetches in flight

explorer == <<expanded, children, loading, fetches>>

Fetch(P, gen) == {Ask("children", p, gen) : p \in P}

\* Bug: the effect does not run again when a fetch has failed.
NoEffect(open, cached, marked, R, gen) ==
  expanded' = open /\ children' = cached /\ loading' = marked /\ fetches' = R
(* The effect on [expanded, childrenByPath, loading]: whatever is expanded *)
(* and neither cached nor loading is fetched.                              *)
FetchMissing(open, cached, marked, R, gen) ==
  LET missing == open \ (DOMAIN cached \cup marked)
  IN  /\ expanded' = open /\ children' = cached
      /\ loading' = marked \cup missing
      /\ fetches' = R \cup Fetch(missing, gen)

Expand(open, gen) == FetchMissing(open, children, loading, fetches, gen)

\* The effect on [refreshKey]: gen is the new key.
RefreshExplorer(open, gen) ==
  /\ expanded' = open /\ children' = NoRows
  /\ loading' = loading \cup open
  /\ fetches' = fetches \cup Fetch(open, gen)

Toggle(p) == IF p \in expanded THEN expanded \ {p} ELSE expanded \cup {p}

\* The nodes on the screen: below folders that are open and cached.
Visible(p) ==
  \A n \in 1 .. Len(p) :
    LET above == SubSeq(p, 1, n - 1)
    IN  above \in expanded \cap DOMAIN children /\ SubSeq(p, 1, n) \in DOMAIN children[above]

(* fetchChildren goes on after its await, whatever was fetched meanwhile.  *)
ChildrenFetched(r, gen) ==
  /\ r \in fetches /\ ~Unread(r)
  /\ FetchMissing(expanded,
       IF Failed(r) THEN children
       ELSE [p \in DOMAIN children \cup {r.of} |-> IF p = r.of THEN r.answer ELSE children[p]],
       loading \ {r.of}, fetches \ {r}, gen)

(* However refreshes, failures, navigation and clicks fall together: what  *)
(* is expanded has its children, or they are on their way.                 *)
ExpandedIsFetched ==
  \A p \in expanded : p \in DOMAIN children \/ \E r \in fetches : r.of = p

============================================================================
