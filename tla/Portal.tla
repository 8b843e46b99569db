------------------------------- MODULE Portal ------------------------------
(***************************************************************************)
(* The portal page: the listing of the current folder with its search box, *)
(* selection and renaming, the sidebar with its "New" menu and quota, and  *)
(* the explorer.  They share the current folder and refreshKey, which      *)
(* every change bumps: the effects on it fetch listing, quota and tree     *)
(* again.  An effect that runs anew cancels the listing or quota request   *)
(* of its last run; searches and the explorer's fetches are not cancelled. *)
(***************************************************************************)
EXTENDS Explorer

VARIABLES
  current,   \* the folder in the URL
  key,       \* refreshKey
  listing,   \* the rows of the listing, None before the first
  busy,      \* loading
  error,
  asks,      \* listing, quota and search requests whose answer counts
  search,    \* the query in the box, None if it is empty
  timer,     \* the debounce timer runs
  results,   \* searchResults, None outside of a search
  selected,
  editing,   \* renameTarget
  submitted, \* submittedRef of its RenameField
  quota,
  menuBusy,  \* "New" is disabled
  ops        \* requests that change something and whose handler goes on

page == <<current, key, listing, busy, error, asks>>
box == <<search, timer, results>>
rename == <<editing, submitted>>
vars == <<tree, moves, faults, explorer, page, box, selected, rename, quota, menuBusy, ops>>

\* rawEntries: the results, or the listing.
Shown(found, list) == IF found # None THEN found ELSE IF list # None THEN list ELSE NoRows
Rows == Shown(results, listing)
Folders == {p \in Paths : IsFolder(p) /\ Len(p) < Depth} \cup {Root}

\* The page of a folder in Opened, all answers in.
Init ==
  /\ tree = [p \in Start |-> FALSE] /\ moves = 0 /\ faults = 0
  /\ current \in Opened /\ key = 0 /\ expanded = Ancestors(current) /\ error = FALSE
  /\ children = [p \in expanded |-> Kids(p)] /\ loading = {} /\ fetches = {}
  /\ listing = Kids(current) /\ busy = FALSE /\ quota = Files /\ asks = {}
  /\ search = None /\ timer = FALSE /\ results = None
  /\ selected = {} /\ editing = None /\ submitted = FALSE
  /\ menuBusy = FALSE /\ ops = {}

----------------------------------------------------------------------------
(* The server.                                                             *)

ReadsPage ==
  /\ \E r \in {x \in asks : Unread(x)} : asks' = Answered(asks, r)
  /\ UNCHANGED <<tree, moves, faults, explorer, current, key, listing, busy, error, box, selected,
                 rename, quota, menuBusy, ops>>

ReadsTree ==
  /\ \E r \in {x \in fetches : Unread(x)} : fetches' = Answered(fetches, r)
  /\ UNCHANGED <<tree, moves, faults, expanded, children, loading, page, box, selected, rename,
                 quota, menuBusy, ops>>

\* A network error, or an answer that is not OK.
ReadLost ==
  /\ Fault
  /\ \/ \E r \in asks : asks' = Lost(asks, r) /\ UNCHANGED fetches
     \/ \E r \in fetches : fetches' = Lost(fetches, r) /\ UNCHANGED asks
  /\ UNCHANGED <<tree, moves, expanded, children, loading, current, key, listing, busy,
                 error, box, selected, rename, quota, menuBusy, ops>>

(* Item p of a request; a bulk request sends one after the other.  A       *)
(* request that is lost may have been served.                              *)
Serve(op, p) ==
  LET to == IF op.kind = "place" /\ op.from = "bar" THEN Join(op.to, Last(p)) ELSE op.to
      accepted == Accepts(op.kind, p, to)
      next == IF accepted THEN Changed(op.kind, p, to) ELSE tree
      serve(result) ==
        ops' = (ops \ {op}) \cup {[op EXCEPT !.todo = @ \ {p}, !.result = result]}
  IN  /\ p \in op.todo
      /\ \/ /\ tree' = next /\ UNCHANGED faults
            /\ serve(IF accepted THEN "ok" ELSE "refused")
         \/ Fault /\ serve("lost") /\ tree' \in {tree, next}
      /\ UNCHANGED <<moves, explorer, page, box, selected, rename, quota, menuBusy>>

----------------------------------------------------------------------------
(* The effects.                                                            *)

\* Bug: the cleanup of the last run does not cancel its request.
CancelNone(what, R) == R
Cancel(what, R) == {r \in R : r.what # what}

LoadListing(p, gen, R) == Cancel("list", R) \cup {Ask("list", p, gen)}
LoadQuota(gen, R) == Cancel("quota", R) \cup {Ask("quota", Root, gen)}

\* A rename field is unmounted with its row.
Keep(rows) == submitted' = (submitted /\ editing \in DOMAIN rows)

(* onMutate: refreshKey is bumped, and every effect on it runs, with p as  *)
(* the current folder.                                                     *)
Mutated(p) ==
  /\ key' = key + 1 /\ current' = p
  /\ asks' = LoadQuota(key + 1, LoadListing(p, key + 1, asks))
  /\ busy' = TRUE /\ error' = FALSE /\ selected' = {}
  /\ RefreshExplorer(IF p = current THEN expanded ELSE expanded \cup Ancestors(p), key + 1)
  /\ UNCHANGED listing

\* The URL changes to folder p; the explorer's folders in open are open.
ShowFolder(p, open) ==
  /\ current' = p
  /\ IF p = current
     THEN Expand(open, key) /\ UNCHANGED <<asks, busy, error, selected, rename>>
     ELSE /\ Expand(open \cup Ancestors(p), key)
          /\ asks' = LoadListing(p, key, asks)
          /\ busy' = TRUE /\ error' = FALSE /\ selected' = {}
          /\ editing' = None /\ submitted' = FALSE
  /\ UNCHANGED <<key, listing>>

----------------------------------------------------------------------------
(* Answers.                                                                *)

\* Bug: loading ends with an answer of OK only.
LoadedOk(r) == busy' = Failed(r)
Loaded(r) == busy' = FALSE

ListingLoaded(r) ==
  /\ r \in asks /\ ~Unread(r) /\ r.what = "list"
  /\ listing' = IF Failed(r) THEN listing ELSE r.answer
  /\ error' = Failed(r)
  /\ Loaded(r)
  /\ asks' = asks \ {r}
  /\ Keep(Shown(results, listing'))
  /\ UNCHANGED <<tree, moves, faults, explorer, current, key, box, selected, editing, quota,
                 menuBusy, ops>>

QuotaLoaded(r) ==
  /\ r \in asks /\ ~Unread(r) /\ r.what = "quota"
  /\ quota' = IF Failed(r) THEN quota ELSE r.answer
  /\ asks' = asks \ {r}
  /\ UNCHANGED <<tree, moves, faults, explorer, current, key, listing, busy, error, box, selected,
                 rename, menuBusy, ops>>

\* Whatever is in the box by now; a failed search has no results.
SearchAnswered(r) ==
  /\ r \in asks /\ ~Unread(r) /\ r.what = "search"
  /\ results' = IF Failed(r) THEN NoRows ELSE r.answer
  /\ asks' = asks \ {r}
  /\ Keep(Shown(results', listing))
  /\ UNCHANGED <<tree, moves, faults, explorer, current, key, listing, busy, error, search, timer,
                 selected, editing, quota, menuBusy, ops>>

FolderFetched(r) ==
  /\ ChildrenFetched(r, key)
  /\ UNCHANGED <<tree, moves, faults, page, box, selected, rename, quota, menuBusy, ops>>

(* The handler of a request goes on: it refreshes the page if all was well *)
(* (always after a bulk request and an upload) and closes what it left     *)
(* open.  A new file is then viewed, at a URL that is resolved against the *)
(* folder it was created from.                                             *)
OpDone(op) ==
  LET place == IF op.from = "view" THEN op.to ELSE current
      refresh == op.result = "ok" \/ op.from \in {"bar", "drop"}
      closes == op.from = "field" \/ (refresh /\ place # current)
  IN  /\ op.todo = {}
      /\ ops' = ops \ {op}
      /\ IF refresh THEN Mutated(place) ELSE UNCHANGED <<page, selected, explorer>>
      /\ IF closes THEN editing' = None /\ submitted' = FALSE ELSE UNCHANGED rename
      /\ menuBusy' = (menuBusy /\ op.from # "menu")
      /\ UNCHANGED <<tree, moves, faults, box, quota>>

----------------------------------------------------------------------------
(* The user.                                                               *)

\* Rows, the row "..", breadcrumbs.
OpenFolder(p) ==
  /\ Move /\ p \in DOMAIN Rows \cup (Ancestors(current) \ {current}) /\ IsFolder(p)
  /\ ShowFolder(p, expanded)
  /\ UNCHANGED <<tree, faults, box, quota, menuBusy, ops>>

\* A node of the explorer: the root is only toggled.
ClickNode(p) ==
  /\ Move /\ IsFolder(p) /\ Visible(p)
  /\ ShowFolder(IF p = Root THEN current ELSE p, Toggle(p))
  /\ UNCHANGED <<tree, faults, box, quota, menuBusy, ops>>

Send(kind, P, to, from) ==
  /\ Move
  /\ ops' = ops \cup {[kind |-> kind, todo |-> P, to |-> to, from |-> from, result |-> "sent",
                        id |-> moves]}
  /\ UNCHANGED <<tree, faults, explorer, page, box, selected, quota>>

\* A row with its buttons: every row that is not being renamed.
OnRow(p) == p \in DOMAIN Rows \ {editing}
FromRow(kind, p, to) == Send(kind, {p}, to, "row") /\ UNCHANGED <<rename, menuBusy>>

Delete(p) == OnRow(p) /\ FromRow("delete", p, None)
ToggleFavorite(p) == OnRow(p) /\ FromRow(IF Rows[p] THEN "unstar" ELSE "star", p, None)
MoveEntry(p, to) == OnRow(p) /\ FromRow("place", p, Join(to, Last(p)))

\* The bar over the listing: the ticked rows that are on the screen.
Ticked == selected \cap DOMAIN Rows
FromBar(kind, to) ==
  /\ Ticked # {} /\ Send(kind, Ticked, to, "bar")
  /\ UNCHANGED <<rename, menuBusy>>

BulkDelete == FromBar("delete", None)
BulkMove(to) == FromBar("place", to)

\* The buttons over the listing; a file may also be dropped on it.
FromToolbar(n, from) ==
  /\ Send("create", {Join(current, n)}, current, from)
  /\ UNCHANGED <<rename, menuBusy>>

CreateFolder(n) == n \in FolderNames /\ FromToolbar(n, "row")
CreateFile(n) == n \in FileNames /\ FromToolbar(n, "view")
Upload(n) == n \in FileNames /\ FromToolbar(n, "drop")

\* The sidebar's "New": upload a file, or create a folder.
FromMenu(n) ==
  /\ ~menuBusy /\ menuBusy' = TRUE
  /\ Send("create", {Join(current, n)}, current, "menu")
  /\ UNCHANGED rename

StartRename(p) ==
  /\ OnRow(p)
  /\ editing' = p /\ submitted' = FALSE
  /\ UNCHANGED <<moves, tree, faults, explorer, page, box, selected, quota, menuBusy, ops>>

\* Enter or blur with another name, once.
FinishRename(n) ==
  /\ editing \in DOMAIN Rows /\ ~submitted /\ submitted' = TRUE
  /\ n # Last(editing) /\ (n \in FolderNames <=> IsFolder(editing))
  /\ Send("place", {editing}, Join(Front(editing), n), "field")
  /\ UNCHANGED <<editing, menuBusy>>

\* Escape, or the name as it was.
CancelRename ==
  /\ Move /\ editing \in DOMAIN Rows /\ editing' = None /\ submitted' = FALSE
  /\ UNCHANGED <<tree, faults, explorer, page, box, selected, quota, menuBusy, ops>>

\* Clicks on the boxes of rows P.
Tick(P) ==
  /\ Move /\ P # {} /\ editing \notin P
  /\ selected' = SymDiff(selected, P)
  /\ UNCHANGED <<tree, faults, explorer, page, box, rename, quota, menuBusy, ops>>

\* An empty box ends the search at once, a query waits for the timer.
Type(q) ==
  /\ Move /\ search # q
  /\ search' = q /\ timer' = (q # None)
  /\ results' = IF q = None THEN None ELSE results
  /\ Keep(Shown(results', listing))
  /\ UNCHANGED <<tree, faults, explorer, page, selected, editing, quota, menuBusy, ops>>

TimerFires ==
  /\ timer /\ timer' = FALSE
  /\ asks' = asks \cup {Ask("search", search, key)}
  /\ UNCHANGED <<tree, moves, faults, explorer, current, key, listing, busy, error, search, results,
                 selected, rename, quota, menuBusy, ops>>

User ==
  \/ \E p \in Paths \cup {Root} :
       \/ OpenFolder(p) \/ ClickNode(p)
       \/ Delete(p) \/ ToggleFavorite(p) \/ StartRename(p)
       \/ \E to \in Folders : MoveEntry(p, to)
  \/ \E P \in SUBSET DOMAIN Rows : Tick(P)
  \/ BulkDelete \/ \E to \in Folders : BulkMove(to)
  \/ \E n \in Names : CreateFolder(n) \/ CreateFile(n) \/ Upload(n) \/ FromMenu(n) \/ FinishRename(n)
  \/ CancelRename
  \/ \E q \in Names \cup {None} : Type(q)

Answer ==
  \/ \E r \in asks : ListingLoaded(r) \/ QuotaLoaded(r) \/ SearchAnswered(r)
  \/ \E r \in fetches : FolderFetched(r)
  \/ \E op \in ops : OpDone(op)
  \/ TimerFires

Served == ReadsPage \/ ReadsTree \/ \E op \in ops : \E p \in op.todo : Serve(op, p)

Next == User \/ Served \/ ReadLost \/ Answer

Spec == Init /\ [][Next]_vars

(* Requests are served and answered, each of them; users need not move.    *)
FairSpec ==
  /\ Spec
  /\ WF_vars(ReadsPage)
  /\ WF_vars(\E r \in asks : ListingLoaded(r))

----------------------------------------------------------------------------
(* Type invariant of the page, and what loading means: the listing request *)
(* that counts is in flight, for the folder in the URL.                    *)
TypeOK ==
  /\ DOMAIN tree \cup selected \subseteq Seq(Names)
  /\ loading \subseteq {r.of : r \in fetches}
  /\ \A r \in asks \cup fetches : r.gen \in 0 .. key
  /\ busy <=> \E r \in asks : r.what = "list"
  /\ \A r \in asks : r.what = "list" => r.of = current /\ r.gen = key
  /\ search = None => ~timer

Working == ops # {} \/ \E r \in asks : r.what \in {"list", "quota"}

(* refreshKey, "bump to invalidate listings/quota in children after a      *)
(* mutation": when all requests are answered, in whatever order that was,  *)
(* the listing is the one of the folder in the URL and shows all the user  *)
(* did, and so does the quota; or the folder is gone, and the page says so.*)
ViewsSettle ==
  (faults = 0 /\ ~Working) =>
    /\ error <=> ~Exists(current)
    /\ ~error => listing = Kids(current)
    /\ quota = Files

(* The explorer's comment on a failed fetch, "will just show no items      *)
(* until next refresh": a folder that is open is fetched again when the    *)
(* page is refreshed, not before.                                          *)
FetchesOnRefresh ==
  [][\A r \in fetches' \ fetches : Unread(r) => key' # key \/ r.of \notin expanded]_vars

\* Loading ends, however often the user navigates and whatever fails.
LoadingEnds == busy ~> ~busy

============================================================================
