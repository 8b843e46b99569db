---------------------------- MODULE PortalProofs ---------------------------
(***************************************************************************)
(* What the page keeps for any account, any number of moves and lost       *)
(* answers: "loading" is on the screen exactly while the listing request   *)
(* of the folder in the URL and of the last refresh is in flight, all that *)
(* is expanded in the explorer is there or on its way, and once everything *)
(* is answered the views show the account as it is.                        *)
(***************************************************************************)
EXTENDS Portal, TLAPS

Entry == Seq(Names) \ {Root}
RowsTyped(rows) == rows # None => DOMAIN rows \subseteq Entry

\* What is known of entries, on the server and on the page.
NamesInv ==
  /\ DOMAIN tree \subseteq Entry /\ current \in Seq(Names) /\ selected \subseteq Entry
  /\ editing # None => editing \in Entry
  /\ RowsTyped(listing) /\ RowsTyped(results)
  /\ \A r \in asks : r.what \in {"list", "search"} => RowsTyped(r.answer)

OpsInv ==
  \A op \in ops : /\ op = [kind |-> op.kind, todo |-> op.todo, to |-> op.to, from |-> op.from,
                           result |-> op.result, id |-> op.id]
                  /\ op.todo \subseteq Entry
                  /\ op.kind = "place" => op.to \in Seq(Names) /\ (op.from # "bar" => op.to # Root)
                  /\ op.from = "view" => op.to \in Seq(Names)

IsRead(r) ==
  /\ r = [what |-> r.what, of |-> r.of, gen |-> r.gen, state |-> r.state, answer |-> r.answer]
  /\ r.gen \in 0 .. key

\* One listing request counts, that of the current folder and refresh.
LoadingInv ==
  /\ key \in Nat /\ busy \in BOOLEAN
  /\ \A r \in asks : IsRead(r)
  /\ \A r \in asks : r.what = "list" => /\ r.of = current /\ r.gen = key
                                        /\ \A s \in asks : s.what = "list" => r = s
  /\ busy <=> \E r \in asks : r.what = "list"
  /\ search = None => ~timer

\* A folder that is marked as loading is being fetched.
TreeInv ==
  /\ \A r \in fetches : IsRead(r)
  /\ loading \subseteq {r.of : r \in fetches}
  /\ \A p \in expanded : p \in DOMAIN children \/ p \in loading

PageInv == NamesInv /\ OpsInv /\ LoadingInv /\ TreeInv

----------------------------------------------------------------------------

LEMMA EntryNames ==
  /\ \A p \in Entry : Last(p) \in Names /\ Front(p) \in Seq(Names)
  /\ \A p \in Seq(Names), n \in Names : Join(p, n) \in Entry
  /\ \A p \in Paths : p \in Entry
<1>1. ASSUME NEW p \in Entry
      PROVE  Last(p) \in Names /\ Front(p) \in Seq(Names)
  BY DEF Entry, Root, Last, Front
<1>2. ASSUME NEW p \in Seq(Names), NEW n \in Names
      PROVE  Join(p, n) \in Entry
  <2>1. Append(p, n) \in Seq(Names) /\ Len(Append(p, n)) = Len(p) + 1 /\ Len(p) \in Nat
    OBVIOUS
  <2>2. Len(<< >>) = 0
    OBVIOUS
  <2>3. Append(p, n) # << >>
    BY <2>1, <2>2
  <2> QED
    BY <2>1, <2>3 DEF Join, Entry, Root
<1>3. ASSUME NEW p \in Paths
      PROVE  p \in Entry
  <2>1. PICK n \in 1 .. Depth : p \in [1 .. n -> Names]
    BY DEF Paths
  <2>2. Depth \in Nat /\ n \in Nat /\ n # 0
    BY PortalAssumption
  <2>3. p \in Seq(Names) /\ Len(p) = n
    BY <2>1, <2>2
  <2> QED
    BY <2>2, <2>3 DEF Entry, Root
<1> QED
  BY <1>1, <1>2, <1>3

LEMMA RowsAreEntries ==
  ASSUME NamesInv
  PROVE  DOMAIN Rows \subseteq Entry
<1>1. DOMAIN NoRows = {}
  BY DEF NoRows
<1> QED
  BY <1>1 DEF NamesInv, Rows, Shown, RowsTyped

\* What a request makes of the tree.
LEMMA ChangedTyped ==
  ASSUME DOMAIN tree \subseteq Entry, NEW kind, NEW p \in Entry, NEW to, kind = "place" => to \in Entry
  PROVE  DOMAIN Changed(kind, p, to) \subseteq Entry
<1>1. DOMAIN Restrict(tree, DOMAIN tree \ Within(p)) \subseteq Entry
  BY DEF Restrict
<1>2. ASSUME NEW b
      PROVE  DOMAIN Put(p, b) \subseteq Entry
  BY DEF Put
<1>3. ASSUME kind = "place"
      PROVE  DOMAIN Relocated(p, to) \subseteq Entry
  <2>1. ASSUME NEW y \in Within(p)
        PROVE  to \o SubSeq(y, Len(p) + 1, Len(y)) \in Entry
    <3>1. y \in Seq(Names) /\ p \in Seq(Names) /\ to \in Seq(Names) /\ to # << >>
      BY <1>3, <2>1 DEF Within, Entry, Root
    <3>2. Len(p) + 1 \in Nat /\ Len(y) \in Nat /\ Len(p) + 1 >= 1
      BY <3>1
    <3>3. SubSeq(y, Len(p) + 1, Len(y)) \in Seq(Names)
      BY <3>1, <3>2
    <3> QED
      BY <3>1, <3>3 DEF Entry, Root
  <2>2. DOMAIN Relocated(p, to) = (DOMAIN tree \ Within(p))
                                   \cup {to \o SubSeq(y, Len(p) + 1, Len(y)) : y \in Within(p)}
    BY DEF Relocated
  <2> QED
    BY <2>1, <2>2
<1>4. Changed(kind, p, to) \in
        {tree, Restrict(tree, DOMAIN tree \ Within(p)), Put(p, kind = "star"), Put(p, FALSE)}
        \cup (IF kind = "place" THEN {Relocated(p, to)} ELSE {})
  BY Zenon DEF Changed
<1> QED
  BY <1>1, <1>2, <1>3, <1>4

----------------------------------------------------------------------------
(* Reads in flight.                                                        *)

LEMMA Replying ==
  ASSUME NEW r, IsRead(r), NEW state, NEW rows
  PROVE  LET s == Reply(r, state, rows)
         IN  /\ s.what = r.what /\ s.of = r.of /\ s.gen = r.gen
             /\ s.state = state /\ s.answer = rows
             /\ IsRead(s)
<1>1. PICK w, o, g, t, b : r = [what |-> w, of |-> o, gen |-> g, state |-> t, answer |-> b]
  BY DEF IsRead
<1>2. [r EXCEPT !.state = state]
        = [what |-> w, of |-> o, gen |-> g, state |-> state, answer |-> b]
  BY <1>1
<1>3. [[what |-> w, of |-> o, gen |-> g, state |-> state, answer |-> b] EXCEPT !.answer = rows]
        = [what |-> w, of |-> o, gen |-> g, state |-> state, answer |-> rows]
  OBVIOUS
<1>4. Reply(r, state, rows) = [[r EXCEPT !.state = state] EXCEPT !.answer = rows]
  BY DEF Reply
<1>5. Reply(r, state, rows) = [what |-> w, of |-> o, gen |-> g, state |-> state, answer |-> rows]
  BY <1>2, <1>3, <1>4, Zenon
<1> QED
  BY <1>1, <1>5 DEF IsRead

\* What the server answers to a request of the page names entries.
LEMMA ReadingTyped ==
  ASSUME NamesInv, NEW r, r.what \in {"list", "search"}
  PROVE  DOMAIN Reading(r) \subseteq Entry
<1>1. ASSUME NEW p
      PROVE  DOMAIN Kids(p) \subseteq Entry /\ DOMAIN Found(p) \subseteq Entry
  BY DEF Kids, Found, Restrict, NamesInv
<1>2. Reading(r) \in {Found(r.of), Kids(r.of)}
  BY Zenon DEF Reading
<1> QED
  BY <1>1, <1>2

LEMMA Replied ==
  ASSUME PageInv, NEW r \in asks, NEW state, NEW rows,
         r.what \in {"list", "search"} => RowsTyped(rows),
         asks' = (asks \ {r}) \cup {Reply(r, state, rows)},
         UNCHANGED <<tree, explorer, current, key, listing, busy, box, selected, rename, ops>>
  PROVE  PageInv'
<1> USE DEF page, explorer, box, rename
<1> DEFINE s == Reply(r, state, rows)
<1>1. IsRead(r) /\ \A x \in asks : IsRead(x)
  BY DEF PageInv, LoadingInv
<1>2. s.what = r.what /\ s.of = r.of /\ s.gen = r.gen /\ s.answer = rows /\ IsRead(s)
  BY <1>1, Replying
<1>3. asks' = (asks \ {r}) \cup {s}
  OBVIOUS
<1> HIDE DEF s
<1>4. LoadingInv'
  <2>1. \A x \in asks' : IsRead(x)'
    BY <1>1, <1>2, <1>3 DEF IsRead
  <2>2. \A x \in asks' : x.what = "list" =>
           x.of = current /\ x.gen = key /\ \A y \in asks' : y.what = "list" => x = y
    BY <1>2, <1>3 DEF PageInv, LoadingInv
  <2>3. busy <=> \E x \in asks' : x.what = "list"
    BY <1>2, <1>3 DEF PageInv, LoadingInv
  <2> QED
    BY <2>1, <2>2, <2>3 DEF PageInv, LoadingInv
<1>5. NamesInv'
  BY <1>2, <1>3 DEF PageInv, NamesInv, RowsTyped
<1>6. OpsInv'
  BY DEF PageInv, OpsInv
<1>7. TreeInv'
  BY DEF PageInv, TreeInv, IsRead
<1> QED
  BY <1>4, <1>5, <1>6, <1>7 DEF PageInv

LEMMA FetchReplied ==
  ASSUME PageInv, NEW r \in fetches, NEW state, NEW rows,
         fetches' = (fetches \ {r}) \cup {Reply(r, state, rows)},
         UNCHANGED <<tree, expanded, children, loading, page, box, selected, rename, ops>>
  PROVE  PageInv'
<1> USE DEF page, explorer, box, rename
<1> DEFINE s == Reply(r, state, rows)
<1>1. IsRead(r) /\ \A x \in fetches : IsRead(x)
  BY DEF PageInv, TreeInv
<1>2. s.of = r.of /\ IsRead(s)
  BY <1>1, Replying
<1>3. fetches' = (fetches \ {r}) \cup {s}
  OBVIOUS
<1> HIDE DEF s
<1>4. TreeInv'
  BY <1>1, <1>2, <1>3 DEF PageInv, TreeInv, IsRead
<1>5. NamesInv' /\ OpsInv' /\ LoadingInv'
  BY DEF PageInv, NamesInv, RowsTyped, OpsInv, LoadingInv, IsRead
<1> QED
  BY <1>4, <1>5 DEF PageInv

\* What the server answers.
LEMMA AnsweredReply ==
  ASSUME NEW R, NEW r
  PROVE  \E state, rows : /\ Answered(R, r) = (R \ {r}) \cup {Reply(r, state, rows)}
                          /\ rows \in {Reading(r), NoRows}
                          /\ IF Readable(r) THEN state = "ok" /\ rows = Reading(r)
                                            ELSE state = "failed"
<1>1. CASE Readable(r)
  BY <1>1 DEF Answered
<1>2. CASE ~Readable(r)
  BY <1>2 DEF Answered
<1> QED
  BY <1>1, <1>2

LEMMA NoRowsTyped == RowsTyped(NoRows)
BY DEF NoRows, RowsTyped

LEMMA ReadsPageKeeps ==
  ASSUME PageInv, ReadsPage
  PROVE  PageInv'
<1>1. PICK r \in asks : asks' = Answered(asks, r)
  BY DEF ReadsPage
<1>2. PICK state, rows : /\ asks' = (asks \ {r}) \cup {Reply(r, state, rows)}
                         /\ rows \in {Reading(r), NoRows}
  BY <1>1, AnsweredReply
<1>3. r.what \in {"list", "search"} => RowsTyped(rows)
  BY <1>2, ReadingTyped, NoRowsTyped DEF PageInv, RowsTyped
<1> QED
  BY <1>2, <1>3, Replied DEF ReadsPage

LEMMA ReadsTreeKeeps ==
  ASSUME PageInv, ReadsTree
  PROVE  PageInv'
<1>1. PICK r \in fetches : fetches' = Answered(fetches, r)
  BY DEF ReadsTree
<1>2. PICK state, rows : fetches' = (fetches \ {r}) \cup {Reply(r, state, rows)}
  BY <1>1, AnsweredReply
<1> QED
  BY <1>2, FetchReplied DEF ReadsTree

LEMMA ReadLostKeeps ==
  ASSUME PageInv, ReadLost
  PROVE  PageInv'
<1>1. CASE \E r \in asks : asks' = Lost(asks, r) /\ UNCHANGED fetches
  <2>1. PICK r \in asks : /\ asks' = (asks \ {r}) \cup {Reply(r, "failed", NoRows)}
                          /\ UNCHANGED fetches
    BY <1>1 DEF Lost
  <2>2. UNCHANGED <<tree, explorer, current, key, listing, busy, box, selected, rename, ops>>
    BY <2>1 DEF ReadLost, explorer
  <2> QED
    BY <2>1, <2>2, NoRowsTyped, Replied
<1>2. CASE \E r \in fetches : fetches' = Lost(fetches, r) /\ UNCHANGED asks
  <2>1. PICK r \in fetches : /\ fetches' = (fetches \ {r}) \cup {Reply(r, "failed", NoRows)}
                             /\ UNCHANGED asks
    BY <1>2 DEF Lost
  <2>2. UNCHANGED <<tree, expanded, children, loading, page, box, selected, rename, ops>>
    BY <2>1 DEF ReadLost, page
  <2> QED
    BY <2>1, <2>2, FetchReplied
<1> QED
  BY <1>1, <1>2 DEF ReadLost

----------------------------------------------------------------------------
(* Requests that change something.                                         *)

OpTyped(op) ==
  /\ op = [kind |-> op.kind, todo |-> op.todo, to |-> op.to, from |-> op.from,
           result |-> op.result, id |-> op.id]
  /\ op.todo \subseteq Entry
  /\ op.kind = "place" => op.to \in Seq(Names) /\ (op.from # "bar" => op.to # Root)
  /\ op.from = "view" => op.to \in Seq(Names)

LEMMA OpsTyped ==
  OpsInv <=> \A op \in ops : OpTyped(op)
BY DEF OpsInv, OpTyped

LEMMA ServeKeeps ==
  ASSUME PageInv, NEW op \in ops, NEW p \in op.todo, Serve(op, p)
  PROVE  PageInv'
<1> DEFINE to == IF op.kind = "place" /\ op.from = "bar" THEN Join(op.to, Last(p)) ELSE op.to
           accepted == Accepts(op.kind, p, to)
           next == IF accepted THEN Changed(op.kind, p, to) ELSE tree
           served(result) == [op EXCEPT !.todo = op.todo \ {p}, !.result = result]
<1>1. OpTyped(op) /\ \A x \in ops : OpTyped(x)
  BY OpsTyped DEF PageInv
<1>2. p \in Entry
  BY <1>1 DEF OpTyped
<1>3. op.kind = "place" => to \in Entry
  BY <1>1, <1>2, EntryNames DEF OpTyped, Entry
<1>4. DOMAIN tree' \subseteq Entry
  <2>1. DOMAIN tree \subseteq Entry
    BY DEF PageInv, NamesInv
  <2>2. DOMAIN next \subseteq Entry
    BY <1>2, <1>3, <2>1, ChangedTyped
  <2>3. tree' \in {tree, next}
    BY DEF Serve
  <2> QED
    BY <2>1, <2>2, <2>3
<1>5. PICK result : ops' = (ops \ {op}) \cup {served(result)}
  BY DEF Serve
<1>6. OpTyped(served(result))
  <2>1. PICK k, t, o, f, r, i :
          op = [kind |-> k, todo |-> t, to |-> o, from |-> f, result |-> r, id |-> i]
    BY <1>1 DEF OpTyped
  <2>2. op.todo = t
    BY <2>1
  <2>3. ASSUME NEW u
        PROVE  [op EXCEPT !.todo = u, !.result = result]
                 = [kind |-> k, todo |-> u, to |-> o, from |-> f, result |-> result, id |-> i]
    <3>1. [op EXCEPT !.todo = u]
            = [kind |-> k, todo |-> u, to |-> o, from |-> f, result |-> r, id |-> i]
      BY <2>1
    <3>2. [[kind |-> k, todo |-> u, to |-> o, from |-> f, result |-> r, id |-> i]
             EXCEPT !.result = result]
            = [kind |-> k, todo |-> u, to |-> o, from |-> f, result |-> result, id |-> i]
      OBVIOUS
    <3>3. [op EXCEPT !.todo = u, !.result = result]
            = [[op EXCEPT !.todo = u] EXCEPT !.result = result]
      OBVIOUS
    <3> QED
      BY <3>1, <3>2, <3>3, Zenon
  <2>4. served(result) = [kind |-> k, todo |-> t \ {p}, to |-> o, from |-> f, result |-> result, id |-> i]
    BY <2>2, <2>3
  <2> QED
    BY <1>1, <2>1, <2>2, <2>4 DEF OpTyped
<1>7. OpsInv'
  BY <1>1, <1>5, <1>6, OpsTyped DEF OpsInv, OpTyped
<1>8. NamesInv' /\ LoadingInv' /\ TreeInv'
  BY <1>4 DEF Serve, explorer, page, box, rename, PageInv, NamesInv, RowsTyped, LoadingInv,
              TreeInv, IsRead
<1> QED
  BY <1>7, <1>8 DEF PageInv

----------------------------------------------------------------------------
(* The effects.                                                            *)

\* Expanding folders and the answers of fetches.
LEMMA FetchMissingKeeps ==
  ASSUME TreeInv, key \in Nat, UNCHANGED key,
         NEW open, NEW cached, NEW marked, NEW R,
         \A r \in R : r \in fetches, marked \subseteq {r.of : r \in R},
         FetchMissing(open, cached, marked, R, key)
  PROVE  TreeInv'
<1> DEFINE missing == open \ (DOMAIN cached \cup marked)
<1>1. /\ expanded' = open /\ children' = cached
      /\ loading' = marked \cup missing
      /\ fetches' = R \cup Fetch(missing, key)
  BY DEF FetchMissing
<1>2. \A p \in missing : Ask("children", p, key) \in fetches' /\ Ask("children", p, key).of = p
  BY <1>1 DEF Fetch, Ask
<1>3. \A r \in fetches' : IsRead(r)'
  BY <1>1 DEF Fetch, Ask, IsRead, TreeInv
<1>4. loading' \subseteq {r.of : r \in fetches'}
  BY <1>1, <1>2
<1>5. \A p \in expanded' : p \in DOMAIN children' \/ p \in loading'
  BY <1>1
<1> QED
  BY <1>3, <1>4, <1>5 DEF TreeInv

LEMMA RefreshKeeps ==
  ASSUME TreeInv, key \in Nat, key' = key + 1, NEW open, RefreshExplorer(open, key + 1)
  PROVE  TreeInv'
<1>1. \A p \in open : Ask("children", p, key + 1) \in fetches' /\ Ask("children", p, key + 1).of = p
  BY DEF RefreshExplorer, Fetch, Ask
<1>2. \A r \in fetches' : IsRead(r)'
  BY DEF RefreshExplorer, Fetch, Ask, IsRead, TreeInv
<1>3. loading' \subseteq {r.of : r \in fetches'}
  BY <1>1 DEF RefreshExplorer, TreeInv
<1>4. \A p \in expanded' : p \in DOMAIN children' \/ p \in loading'
  BY DEF RefreshExplorer
<1> QED
  BY <1>2, <1>3, <1>4 DEF TreeInv

\* The request of an earlier run of the effect no longer counts.
LEMMA ListingAsked ==
  ASSUME PageInv, NEW R, NEW p \in Seq(Names), NEW gen \in Nat, gen >= key,
         key' = gen, current' = p, busy' = TRUE, UNCHANGED <<search, timer>>,
         R \subseteq asks \cup {Ask("quota", Root, gen)},
         asks' = (R \ {r \in R : r.what = "list"}) \cup {Ask("list", p, gen)}
  PROVE  LoadingInv' /\ \A r \in asks' : r \in asks \/ r.answer = NoRows
<1>1. key \in Nat
  BY DEF PageInv, LoadingInv
<1>2. \A r \in asks' : IsRead(r)'
  BY <1>1 DEF PageInv, LoadingInv, IsRead, Ask
<1>3. \A r \in asks' : r.what = "list" => r = Ask("list", p, gen)
  BY DEF Ask
<1>4. Ask("list", p, gen) \in asks' /\ Ask("list", p, gen).what = "list"
      /\ Ask("list", p, gen).of = p /\ Ask("list", p, gen).gen = gen
  BY DEF Ask
<1>5. search' = None => ~timer'
  BY DEF PageInv, LoadingInv
<1>6. \A r \in asks' : r \in asks \/ r.answer = NoRows
  BY DEF Ask
<1> QED
  BY <1>2, <1>3, <1>4, <1>5, <1>6 DEF LoadingInv

\* refreshKey is bumped.
LEMMA MutatedKeeps ==
  ASSUME PageInv, NEW p \in Seq(Names), Mutated(p), UNCHANGED <<tree, box>>,
         editing' # None => editing' = editing, ops' \subseteq ops
  PROVE  PageInv'
<1> DEFINE open == IF p = current THEN expanded ELSE expanded \cup Ancestors(p)
           list == Ask("list", p, key + 1)
           count == Ask("quota", Root, key + 1)
           R == (asks \ {r \in asks : r.what = "quota"}) \cup {count}
<1>1. key \in Nat /\ key + 1 \in Nat /\ key + 1 >= key
  BY DEF PageInv, LoadingInv
<1>2. /\ key' = key + 1 /\ current' = p /\ busy' = TRUE /\ selected' = {} /\ UNCHANGED listing
      /\ RefreshExplorer(open, key + 1)
      /\ asks' = LoadQuota(key + 1, LoadListing(p, key + 1, asks))
      /\ UNCHANGED <<search, timer, results, tree>>
  BY DEF Mutated, box
<1>3. TreeInv'
  <2>1. key' = key + 1
    BY <1>2
  <2> HIDE DEF open
  <2> QED
    BY <1>1, <1>2, <2>1, RefreshKeeps DEF PageInv
<1>4. asks' = (R \ {r \in R : r.what = "list"}) \cup {list}
  <2>1. list.what = "list" /\ count.what = "quota"
    BY DEF Ask
  <2>2. asks' = (((asks \ {r \in asks : r.what = "list"}) \cup {list})
                  \ {r \in (asks \ {x \in asks : x.what = "list"}) \cup {list} : r.what = "quota"})
                \cup {count}
    <3>1. \A what, S : Cancel(what, S) = S \ {r \in S : r.what = what}
      BY DEF Cancel
    <3>2. asks' = Cancel("quota", Cancel("list", asks) \cup {list}) \cup {count}
      BY <1>2 DEF LoadQuota, LoadListing
    <3> QED
      BY <3>1, <3>2, Zenon
  <2> HIDE DEF list, count
  <2> QED
    BY <2>1, <2>2
<1>5. LoadingInv' /\ \A r \in asks' : r \in asks \/ r.answer = NoRows
  <2>1. R \subseteq asks \cup {count}
    OBVIOUS
  <2> HIDE DEF R
  <2> QED
    BY <1>1, <1>2, <1>4, <2>1, ListingAsked
<1>6. NamesInv'
  BY <1>2, <1>5, NoRowsTyped DEF PageInv, NamesInv, RowsTyped
<1>7. OpsInv'
  BY DEF PageInv, OpsInv
<1> QED
  BY <1>3, <1>5, <1>6, <1>7 DEF PageInv

\* Another folder is shown, or folders of the explorer are opened or closed.
LEMMA ShownKeeps ==
  ASSUME PageInv, NEW p \in Seq(Names), NEW open, ShowFolder(p, open), UNCHANGED <<tree, box, ops>>
  PROVE  PageInv'
<1>1. key \in Nat /\ UNCHANGED <<key, listing, tree, search, timer, results, ops>> /\ current' = p
  BY DEF PageInv, LoadingInv, ShowFolder, box
<1>2. TreeInv'
  <2>1. ASSUME NEW O, Expand(O, key)
        PROVE  TreeInv'
    <3>1. FetchMissing(O, children, loading, fetches, key)
      BY <2>1 DEF Expand
    <3>2. TreeInv /\ loading \subseteq {r.of : r \in fetches}
      BY DEF PageInv, TreeInv
    <3> QED
      BY <1>1, <3>1, <3>2, FetchMissingKeeps
  <2>2. Expand(open, key) \/ Expand(open \cup Ancestors(p), key)
    BY Zenon DEF ShowFolder
  <2> QED
    BY <2>1, <2>2
<1>3. OpsInv'
  BY <1>1 DEF PageInv, OpsInv
<1>4. CASE p = current
  <2>1. UNCHANGED <<asks, busy, selected, rename>>
    BY <1>4 DEF ShowFolder
  <2>2. NamesInv' /\ LoadingInv'
    BY <1>1, <1>4, <2>1 DEF rename, PageInv, NamesInv, LoadingInv, RowsTyped, IsRead
  <2> QED
    BY <1>2, <1>3, <2>2 DEF PageInv
<1>5. CASE p # current
  <2>1. /\ asks' = LoadListing(p, key, asks) /\ busy' = TRUE /\ selected' = {} /\ editing' = None
    BY <1>5 DEF ShowFolder
  <2>2. asks' = (asks \ {r \in asks : r.what = "list"}) \cup {Ask("list", p, key)}
    BY <2>1 DEF LoadListing, Cancel
  <2>3. key >= key /\ asks \subseteq asks \cup {Ask("quota", Root, key)}
    BY <1>1
  <2>4. LoadingInv' /\ \A r \in asks' : r \in asks \/ r.answer = NoRows
    BY <1>1, <2>1, <2>2, <2>3, ListingAsked
  <2>5. NamesInv'
    BY <1>1, <2>1, <2>4, NoRowsTyped DEF PageInv, NamesInv, RowsTyped
  <2> QED
    BY <1>2, <1>3, <2>4, <2>5 DEF PageInv
<1> QED
  BY <1>4, <1>5

----------------------------------------------------------------------------
(* Answers.                                                                *)

\* Requests of the page that are answered leave the others as they are.
LEMMA FewerAsks ==
  ASSUME LoadingInv, NEW r \in asks, asks' = asks \ {r}, UNCHANGED <<current, key, search, timer>>,
         busy' = IF r.what = "list" THEN FALSE ELSE busy
  PROVE  LoadingInv'
<1>1. \A x \in asks' : IsRead(x)'
  BY DEF LoadingInv, IsRead
<1>2. busy' <=> \E x \in asks' : x.what = "list"
  BY DEF LoadingInv
<1> QED
  BY <1>1, <1>2 DEF LoadingInv

LEMMA ListingLoadedKeeps ==
  ASSUME PageInv, NEW r \in asks, ListingLoaded(r)
  PROVE  PageInv'
<1> USE DEF explorer, box
<1>1. LoadingInv'
  <2>1. /\ asks' = asks \ {r} /\ UNCHANGED <<current, key, search, timer>>
        /\ busy' = IF r.what = "list" THEN FALSE ELSE busy
    BY DEF ListingLoaded, Loaded
  <2> QED
    BY <2>1, FewerAsks DEF PageInv
<1>2. RowsTyped(listing')
  BY DEF ListingLoaded, PageInv, NamesInv
<1>3. NamesInv'
  BY <1>2 DEF ListingLoaded, PageInv, NamesInv, RowsTyped
<1>4. OpsInv' /\ TreeInv'
  BY DEF ListingLoaded, PageInv, OpsInv, TreeInv, IsRead
<1> QED
  BY <1>1, <1>3, <1>4 DEF PageInv

LEMMA QuotaLoadedKeeps ==
  ASSUME PageInv, NEW r \in asks, QuotaLoaded(r)
  PROVE  PageInv'
<1> USE DEF explorer, box, rename
<1>1. LoadingInv'
  <2>1. /\ asks' = asks \ {r} /\ UNCHANGED <<current, key, search, timer>>
        /\ busy' = IF r.what = "list" THEN FALSE ELSE busy
    BY DEF QuotaLoaded
  <2> QED
    BY <2>1, FewerAsks DEF PageInv
<1>2. NamesInv'
  BY DEF QuotaLoaded, PageInv, NamesInv, RowsTyped
<1>3. OpsInv' /\ TreeInv'
  BY DEF QuotaLoaded, PageInv, OpsInv, TreeInv, IsRead
<1> QED
  BY <1>1, <1>2, <1>3 DEF PageInv

LEMMA SearchAnsweredKeeps ==
  ASSUME PageInv, NEW r \in asks, SearchAnswered(r)
  PROVE  PageInv'
<1> USE DEF explorer
<1>1. LoadingInv'
  <2>1. /\ asks' = asks \ {r} /\ UNCHANGED <<current, key, search, timer>>
        /\ busy' = IF r.what = "list" THEN FALSE ELSE busy
    BY DEF SearchAnswered
  <2> QED
    BY <2>1, FewerAsks DEF PageInv
<1>2. RowsTyped(results')
  <2>1. DOMAIN NoRows = {}
    BY DEF NoRows
  <2> QED
    BY <2>1 DEF SearchAnswered, PageInv, NamesInv, RowsTyped
<1>3. NamesInv'
  BY <1>2 DEF SearchAnswered, PageInv, NamesInv, RowsTyped
<1>4. OpsInv' /\ TreeInv'
  BY DEF SearchAnswered, PageInv, OpsInv, TreeInv, IsRead
<1> QED
  BY <1>1, <1>3, <1>4 DEF PageInv

LEMMA FolderFetchedKeeps ==
  ASSUME PageInv, NEW r \in fetches, FolderFetched(r)
  PROVE  PageInv'
<1> USE DEF page, box, rename
<1>1. TreeInv'
  <2>1. PICK cached : FetchMissing(expanded, cached, loading \ {r.of}, fetches \ {r}, key)
    BY DEF FolderFetched, ChildrenFetched
  <2>2. loading \ {r.of} \subseteq {x.of : x \in fetches \ {r}}
    BY DEF PageInv, TreeInv
  <2>3. TreeInv /\ key \in Nat /\ UNCHANGED key
    BY DEF PageInv, LoadingInv, FolderFetched
  <2> QED
    BY <2>1, <2>2, <2>3, FetchMissingKeeps
<1>2. NamesInv' /\ OpsInv' /\ LoadingInv'
  BY DEF FolderFetched, PageInv, NamesInv, RowsTyped, OpsInv, LoadingInv, IsRead
<1> QED
  BY <1>1, <1>2 DEF PageInv

LEMMA OpDoneKeeps ==
  ASSUME PageInv, NEW op \in ops, OpDone(op)
  PROVE  PageInv'
<1> DEFINE place == IF op.from = "view" THEN op.to ELSE current
<1>1. place \in Seq(Names)
  BY DEF PageInv, NamesInv, OpsInv
<1>2. /\ ops' \subseteq ops /\ UNCHANGED <<tree, box>> /\ editing' \in {None, editing}
      /\ Mutated(place) \/ UNCHANGED <<page, selected, explorer>>
  BY Zenon DEF OpDone, rename
<1>3. CASE Mutated(place)
  BY <1>1, <1>2, <1>3, MutatedKeeps
<1>4. CASE UNCHANGED <<page, selected, explorer>>
  BY <1>2, <1>4 DEF page, explorer, box, PageInv, NamesInv, RowsTyped, OpsInv, LoadingInv,
                    TreeInv, IsRead
<1> QED
  BY <1>2, <1>3, <1>4

LEMMA TimerFiresKeeps ==
  ASSUME PageInv, TimerFires
  PROVE  PageInv'
<1> USE DEF explorer, rename
<1>1. asks' = asks \cup {Ask("search", search, key)} /\ timer' = FALSE
      /\ UNCHANGED <<current, key, busy, search>>
  BY DEF TimerFires
<1>2. LoadingInv'
  BY <1>1 DEF PageInv, LoadingInv, IsRead, Ask
<1>3. NamesInv'
  BY NoRowsTyped DEF TimerFires, Ask, PageInv, NamesInv, RowsTyped
<1>4. OpsInv' /\ TreeInv'
  BY DEF TimerFires, PageInv, OpsInv, TreeInv, IsRead
<1> QED
  BY <1>2, <1>3, <1>4 DEF PageInv

----------------------------------------------------------------------------
(* The user.                                                               *)

LEMMA FoldersNamed == \A p \in Folders \cup Paths \cup {Root} : p \in Seq(Names)
<1>1. Root \in Seq(Names)
  BY DEF Root
<1>2. Folders \subseteq Paths \cup {Root}
  BY DEF Folders
<1> QED
  BY <1>1, <1>2, EntryNames DEF Entry

LEMMA OpenFolderKeeps ==
  ASSUME PageInv, NEW p \in Paths \cup {Root}, OpenFolder(p)
  PROVE  PageInv'
<1>1. p \in Seq(Names) /\ ShowFolder(p, expanded) /\ UNCHANGED <<tree, box, ops>>
  BY FoldersNamed DEF OpenFolder
<1> QED
  BY <1>1, ShownKeeps

LEMMA ClickNodeKeeps ==
  ASSUME PageInv, NEW p \in Paths \cup {Root}, ClickNode(p)
  PROVE  PageInv'
<1> DEFINE q == IF p = Root THEN current ELSE p
<1>1. q \in Seq(Names)
  BY FoldersNamed DEF PageInv, NamesInv
<1>2. ShowFolder(q, Toggle(p)) /\ UNCHANGED <<tree, box, ops>>
  BY DEF ClickNode
<1> HIDE DEF q
<1> QED
  BY <1>1, <1>2, ShownKeeps

\* A request is sent; a rename field stays, or was there.
LEMMA SendKeeps ==
  ASSUME PageInv, NEW kind, NEW P, NEW to, NEW from, Send(kind, P, to, from),
         P \subseteq Entry, UNCHANGED editing,
         kind = "place" => to \in Seq(Names) /\ (from # "bar" => to # Root),
         from = "view" => to \in Seq(Names)
  PROVE  PageInv'
<1> DEFINE op == [kind |-> kind, todo |-> P, to |-> to, from |-> from, result |-> "sent", id |-> moves]
<1>1. OpTyped(op)
  BY DEF OpTyped
<1>2. ops' = ops \cup {op}
  BY DEF Send
<1>3. OpsInv'
  <2> HIDE DEF op
  <2>1. \A x \in ops' : OpTyped(x)
    BY <1>1, <1>2, OpsTyped DEF PageInv
  <2> QED
    BY <2>1 DEF OpsInv, OpTyped
<1>4. NamesInv' /\ LoadingInv' /\ TreeInv'
  BY DEF Send, explorer, page, box, PageInv, NamesInv, RowsTyped, LoadingInv, TreeInv, IsRead
<1> QED
  BY <1>3, <1>4 DEF PageInv

\* The page is as it was but for ticks and the rename field.
LEMMA MarksKeep ==
  ASSUME PageInv, UNCHANGED <<tree, explorer, page, box, ops>>,
         selected' \subseteq Entry, editing' # None => editing' \in Entry
  PROVE  PageInv'
BY DEF explorer, page, box, PageInv, NamesInv, RowsTyped, OpsInv, LoadingInv, TreeInv, IsRead

LEMMA RowActionsKeep ==
  ASSUME PageInv, NEW p,
         Delete(p) \/ ToggleFavorite(p) \/ (\E to \in Folders : MoveEntry(p, to)) \/ StartRename(p)
  PROVE  PageInv'
<1>1. CASE OnRow(p)
  <2>1. p \in Entry /\ {p} \subseteq Entry
    BY <1>1, RowsAreEntries DEF OnRow, PageInv
  <2>2. ASSUME NEW kind, kind # "place", Send(kind, {p}, None, "row"), UNCHANGED editing
        PROVE  PageInv'
    BY <2>1, <2>2, SendKeeps
  <2>3. CASE Delete(p)
    <3>1. Send("delete", {p}, None, "row") /\ UNCHANGED editing /\ "delete" # "place"
      BY <2>3 DEF Delete, FromRow, rename
    <3> QED
      BY <2>2, <3>1
  <2>4. CASE ToggleFavorite(p)
    <3>1. PICK kind \in {"star", "unstar"} : Send(kind, {p}, None, "row") /\ UNCHANGED editing
      BY <2>4 DEF ToggleFavorite, FromRow, rename
    <3>2. kind # "place"
      BY <3>1
    <3> QED
      BY <2>2, <3>1, <3>2
  <2>5. ASSUME NEW to \in Folders, MoveEntry(p, to)
        PROVE  PageInv'
    <3>1. Join(to, Last(p)) \in Entry
      BY <2>1, EntryNames, FoldersNamed
    <3>2. Join(to, Last(p)) \in Seq(Names) /\ Join(to, Last(p)) # Root
      BY <3>1 DEF Entry
    <3>3. Send("place", {p}, Join(to, Last(p)), "row") /\ UNCHANGED editing
      BY <2>5 DEF MoveEntry, FromRow, rename
    <3> QED
      BY <2>1, <3>2, <3>3, SendKeeps
  <2>6. CASE StartRename(p)
    <3>1. UNCHANGED <<tree, explorer, page, box, ops, selected>> /\ editing' = p
      BY <2>6 DEF StartRename
    <3> QED
      BY <2>1, <3>1, MarksKeep DEF PageInv, NamesInv
  <2> QED
    BY <2>3, <2>4, <2>5, <2>6
<1>2. OnRow(p)
  BY Zenon DEF Delete, ToggleFavorite, MoveEntry, StartRename
<1> QED
  BY <1>1, <1>2

LEMMA BarActionsKeep ==
  ASSUME PageInv, BulkDelete \/ \E to \in Folders : BulkMove(to)
  PROVE  PageInv'
<1>1. PICK kind, to : FromBar(kind, to) /\ (kind = "place" => to \in Seq(Names))
  <2>1. ASSUME BulkDelete
        PROVE  FromBar("delete", None) /\ "delete" # "place"
    BY <2>1 DEF BulkDelete
  <2>2. ASSUME NEW to \in Folders, BulkMove(to)
        PROVE  FromBar("place", to) /\ to \in Seq(Names)
    BY <2>2, FoldersNamed DEF BulkMove
  <2> QED
    BY <2>1, <2>2
<1>2. Send(kind, Ticked, to, "bar") /\ UNCHANGED editing
  BY <1>1 DEF FromBar, rename
<1>3. Ticked \subseteq Entry
  BY RowsAreEntries DEF Ticked, PageInv
<1> QED
  BY <1>1, <1>2, <1>3, SendKeeps

LEMMA NewEntriesKeep ==
  ASSUME PageInv, NEW n \in Names, CreateFolder(n) \/ CreateFile(n) \/ Upload(n) \/ FromMenu(n)
  PROVE  PageInv'
<1>1. current \in Seq(Names)
  BY DEF PageInv, NamesInv
<1>2. {Join(current, n)} \subseteq Entry
  BY <1>1, EntryNames
<1>3. PICK from : Send("create", {Join(current, n)}, current, from) /\ UNCHANGED editing
  BY Zenon DEF CreateFolder, CreateFile, Upload, FromMenu, FromToolbar, rename
<1> QED
  BY <1>1, <1>2, <1>3, SendKeeps

LEMMA RenameKeeps ==
  ASSUME PageInv, CancelRename \/ \E n \in Names : FinishRename(n)
  PROVE  PageInv'
<1>1. CASE CancelRename
  <2>1. UNCHANGED <<tree, explorer, page, box, ops, selected>> /\ editing' = None
    BY <1>1 DEF CancelRename
  <2> QED
    BY <2>1, MarksKeep DEF PageInv, NamesInv
<1>2. ASSUME NEW n \in Names, FinishRename(n)
      PROVE  PageInv'
  <2>1. editing \in Entry
    BY <1>2, RowsAreEntries DEF FinishRename, PageInv
  <2>2. Join(Front(editing), n) \in Entry
    BY <2>1, EntryNames
  <2>3. Join(Front(editing), n) \in Seq(Names) /\ Join(Front(editing), n) # Root
    BY <2>2 DEF Entry
  <2>4. Send("place", {editing}, Join(Front(editing), n), "field") /\ UNCHANGED editing
    BY <1>2 DEF FinishRename
  <2>5. {editing} \subseteq Entry
    BY <2>1
  <2> QED
    BY <2>3, <2>4, <2>5, SendKeeps
<1> QED
  BY <1>1, <1>2

LEMMA TickKeeps ==
  ASSUME PageInv, NEW P \in SUBSET DOMAIN Rows, Tick(P)
  PROVE  PageInv'
<1>1. P \subseteq Entry
  BY RowsAreEntries DEF PageInv
<1>2. selected' \subseteq Entry
  BY <1>1 DEF Tick, SymDiff, PageInv, NamesInv
<1>3. UNCHANGED <<tree, explorer, page, box, ops, editing>>
  BY DEF Tick, rename
<1> QED
  BY <1>2, <1>3, MarksKeep DEF PageInv, NamesInv

LEMMA TypeKeeps ==
  ASSUME PageInv, NEW q, Type(q)
  PROVE  PageInv'
<1> USE DEF explorer, page
<1>1. search' = q /\ timer' = (q # None) /\ results' \in {None, results}
  BY Zenon DEF Type
<1>2. LoadingInv'
  <2>1. UNCHANGED <<current, key, busy, asks>>
    BY DEF Type
  <2> QED
    BY <1>1, <2>1 DEF PageInv, LoadingInv, IsRead
<1>3. NamesInv'
  BY <1>1 DEF Type, PageInv, NamesInv, RowsTyped
<1>4. OpsInv' /\ TreeInv'
  BY DEF Type, PageInv, OpsInv, TreeInv, IsRead
<1> QED
  BY <1>2, <1>3, <1>4 DEF PageInv

----------------------------------------------------------------------------

LEMMA InitInv ==
  ASSUME Init
  PROVE  PageInv
<1> USE DEF Init
<1>1. Start \subseteq Entry /\ DOMAIN tree = Start
  BY StartAssumption, EntryNames
<1>2. current \in Seq(Names)
  BY StartAssumption, FoldersNamed
<1>3. DOMAIN listing \subseteq Entry
  BY <1>1 DEF Kids, Restrict
<1>4. NamesInv
  BY <1>1, <1>2, <1>3 DEF NamesInv, RowsTyped
<1>5. OpsInv /\ LoadingInv /\ TreeInv
  BY DEF OpsInv, LoadingInv, TreeInv
<1> QED
  BY <1>4, <1>5 DEF PageInv

LEMMA StepInv ==
  ASSUME PageInv, [Next]_vars
  PROVE  PageInv'
<1>1. CASE User
  <2>1. ASSUME NEW p \in Paths \cup {Root},
               \/ OpenFolder(p) \/ ClickNode(p) \/ Delete(p) \/ ToggleFavorite(p) \/ StartRename(p)
               \/ \E to \in Folders : MoveEntry(p, to)
        PROVE  PageInv'
    BY <2>1, OpenFolderKeeps, ClickNodeKeeps, RowActionsKeep
  <2>2. ASSUME NEW P \in SUBSET DOMAIN Rows, Tick(P)
        PROVE  PageInv'
    BY <2>2, TickKeeps
  <2>3. CASE BulkDelete \/ \E to \in Folders : BulkMove(to)
    BY <2>3, BarActionsKeep
  <2>4. ASSUME NEW n \in Names,
               CreateFolder(n) \/ CreateFile(n) \/ Upload(n) \/ FromMenu(n) \/ FinishRename(n)
        PROVE  PageInv'
    BY <2>4, NewEntriesKeep, RenameKeeps
  <2>5. CASE CancelRename
    BY <2>5, RenameKeeps
  <2>6. ASSUME NEW q \in Names \cup {None}, Type(q)
        PROVE  PageInv'
    BY <2>6, TypeKeeps
  <2> QED
    BY <1>1, <2>1, <2>2, <2>3, <2>4, <2>5, <2>6 DEF User
<1>2. CASE Served
  BY <1>2, ReadsPageKeeps, ReadsTreeKeeps, ServeKeeps DEF Served
<1>3. CASE ReadLost
  BY <1>3, ReadLostKeeps
<1>4. CASE Answer
  BY <1>4, ListingLoadedKeeps, QuotaLoadedKeeps, SearchAnsweredKeeps, FolderFetchedKeeps,
     OpDoneKeeps, TimerFiresKeeps DEF Answer
<1>5. CASE UNCHANGED vars
  BY <1>5 DEF vars, explorer, page, box, rename, PageInv, NamesInv, RowsTyped, OpsInv,
              LoadingInv, TreeInv, IsRead
<1> QED
  BY <1>1, <1>2, <1>3, <1>4, <1>5 DEF Next

\* The page keeps its invariant through all that users, server and network do.
THEOREM PageInvariant == Spec => []PageInv
<1>1. Init => PageInv
  BY InitInv
<1>2. PageInv /\ [Next]_vars => PageInv'
  BY StepInv
<1> QED
  BY <1>1, <1>2, PTL DEF Spec

(* However navigation, refreshes, renames and lost answers interleave,     *)
(* "loading" is shown exactly while one listing request is in flight, that *)
(* of the folder in the URL and of the last refresh: no answer for another *)
(* folder, and none from before a change, can become the listing.          *)
THEOREM PageTypes == Spec => []TypeOK
<1>1. PageInv => TypeOK
  <2> SUFFICES ASSUME PageInv PROVE TypeOK
    OBVIOUS
  <2>1. \A r \in asks \cup fetches : r.gen \in 0 .. key
    BY DEF PageInv, LoadingInv, TreeInv, IsRead
  <2>2. DOMAIN tree \cup selected \subseteq Seq(Names)
    BY DEF PageInv, NamesInv, Entry
  <2> QED
    BY <2>1, <2>2 DEF TypeOK, PageInv, LoadingInv, TreeInv
<1> QED
  BY <1>1, PageInvariant, PTL

(* The explorer's cache, its marks and its requests, which nothing cancels *)
(* and which come back in any order, or not at all: every folder that is   *)
(* open has its children, or a request for them is in flight.              *)
THEOREM ExpandedFetched == Spec => []ExpandedIsFetched
<1>1. PageInv => ExpandedIsFetched
  BY DEF PageInv, TreeInv, ExpandedIsFetched
<1> QED
  BY <1>1, PageInvariant, PTL

----------------------------------------------------------------------------
(* What the listing and the quota show.  A request that changed something  *)
(* and whose handler has still to refresh the page excuses whatever is on  *)
(* the screen; without one, the answers in flight and the views with none  *)
(* on the way are those of the tree as it is.                              *)

Refreshes(op) == op.result = "ok" \/ op.from \in {"bar", "drop"}

\* Other requests are for one entry: once served, they have their result.
OneEntry ==
  \A op \in ops : op.from \notin {"bar", "drop"} =>
    \/ op.todo = {}
    \/ op.result = "sent" /\ \E p : op.todo = {p}

Says(bad, rows) == (bad <=> ~Exists(current)) /\ (~bad => rows = Kids(current))

AnswersCurrent ==
  \A r \in asks : ~Unread(r) =>
    /\ r.what = "list" => Says(Failed(r), r.answer)
    /\ r.what = "quota" => ~Failed(r) /\ r.answer = Files

ViewsCurrent ==
  /\ (\E r \in asks : r.what = "list") \/ Says(error, listing)
  /\ (\E r \in asks : r.what = "quota") \/ quota = Files

AllSeen == faults = 0 /\ \A op \in ops : ~Refreshes(op)

SettleInv ==
  /\ faults \in Nat /\ OneEntry
  /\ AllSeen => AnswersCurrent /\ ViewsCurrent

\* Steps that leave the tree, the views and their requests alone.
LEMMA SettleUndisturbed ==
  ASSUME SettleInv, UNCHANGED <<tree, faults, current, asks, error, listing, quota>>,
         OneEntry', AllSeen' => AllSeen
  PROVE  SettleInv'
<1>1. Files' = Files
  BY DEF Files
<1>2. ASSUME NEW bad, NEW rows
      PROVE  Says(bad, rows)' <=> Says(bad, rows)
  BY DEF Says, Exists, Kids
<1>3. AnswersCurrent => AnswersCurrent'
  BY <1>1, <1>2 DEF AnswersCurrent
<1>4. ViewsCurrent => ViewsCurrent'
  BY <1>1, <1>2 DEF ViewsCurrent
<1> QED
  BY <1>3, <1>4 DEF SettleInv

LEMMA SettleSameOps ==
  ASSUME SettleInv, UNCHANGED <<tree, faults, current, asks, error, listing, quota, ops>>
  PROVE  SettleInv'
<1>1. OneEntry' /\ (AllSeen' => AllSeen)
  BY DEF SettleInv, OneEntry, AllSeen
<1> QED
  BY <1>1, SettleUndisturbed

\* A request is sent.
LEMMA SendSettles ==
  ASSUME SettleInv, NEW kind, NEW P, NEW to, NEW from, Send(kind, P, to, from),
         from \notin {"bar", "drop"} => \E p : P = {p}
  PROVE  SettleInv'
<1> DEFINE op == [kind |-> kind, todo |-> P, to |-> to, from |-> from, result |-> "sent", id |-> moves]
<1>1. op.from = from /\ op.todo = P /\ op.result = "sent"
  OBVIOUS
<1>2. ops' = ops \cup {op} /\ UNCHANGED <<tree, faults, current, asks, error, listing, quota>>
  BY DEF Send, page
<1> HIDE DEF op
<1>3. OneEntry' /\ (AllSeen' => AllSeen)
  BY <1>1, <1>2 DEF SettleInv, OneEntry, AllSeen
<1> QED
  BY <1>2, <1>3, SettleUndisturbed

LEMMA ShownSettles ==
  ASSUME SettleInv, NEW p, NEW open, ShowFolder(p, open), UNCHANGED <<tree, faults, quota, ops>>
  PROVE  SettleInv'
<1> DEFINE list == Ask("list", p, key)
<1>1. CASE p = current
  BY <1>1, SettleSameOps DEF ShowFolder
<1>2. CASE p # current
  <2>1. asks' = {r \in asks : r.what # "list"} \cup {list}
    BY <1>2 DEF ShowFolder, LoadListing, Cancel
  <2>2. list.what = "list" /\ Unread(list)
    BY DEF Ask, Unread
  <2> HIDE DEF list
  <2>3. OneEntry' /\ faults' \in Nat /\ (AllSeen' => AllSeen)
    BY DEF SettleInv, OneEntry, AllSeen
  <2>4. Files' = Files
    BY DEF Files
  <2>5. AnswersCurrent => AnswersCurrent'
    <3> SUFFICES ASSUME AnswersCurrent, NEW r \in asks', ~Unread(r)
                 PROVE  r.what # "list" /\ (r.what = "quota" => ~Failed(r) /\ r.answer = Files')
      BY DEF AnswersCurrent, Unread, Failed
    <3>1. r \in asks /\ r.what # "list"
      BY <2>1, <2>2
    <3> QED
      BY <2>4, <3>1 DEF AnswersCurrent
  <2>6. ViewsCurrent => ViewsCurrent'
    <3>1. \E r \in asks' : r.what = "list"
      BY <2>1, <2>2
    <3>2. (\E r \in asks : r.what = "quota") => \E r \in asks' : r.what = "quota"
      BY <2>1
    <3> QED
      BY <2>4, <3>1, <3>2 DEF ViewsCurrent
  <2> QED
    BY <2>3, <2>5, <2>6 DEF SettleInv
<1> QED
  BY <1>1, <1>2

\* Refreshing asks for the listing and the quota again.
LEMMA MutatedSettles ==
  ASSUME SettleInv, NEW p, Mutated(p), UNCHANGED faults, ops' \subseteq ops
  PROVE  SettleInv'
<1> DEFINE list == Ask("list", p, key + 1)
           count == Ask("quota", Root, key + 1)
<1>1. list.what = "list" /\ Unread(list) /\ count.what = "quota" /\ Unread(count)
  BY DEF Ask, Unread
<1> HIDE DEF list, count
<1>2. asks' = {r \in {x \in asks : x.what # "list"} \cup {list} : r.what # "quota"} \cup {count}
  BY DEF Mutated, LoadQuota, LoadListing, Cancel, list, count
<1>3. \A r \in asks' : r.what \in {"list", "quota"} => Unread(r)
  BY <1>1, <1>2
<1>4. list \in asks' /\ count \in asks'
  BY <1>1, <1>2
<1>5. AnswersCurrent'
  BY <1>3 DEF AnswersCurrent, Unread
<1>6. ViewsCurrent'
  BY <1>1, <1>4 DEF ViewsCurrent
<1>7. OneEntry' /\ faults' \in Nat
  BY DEF SettleInv, OneEntry
<1> QED
  BY <1>5, <1>6, <1>7 DEF SettleInv

\* A read of the listing is of the folder in the URL.
LEMMA ReadsPageSettles ==
  ASSUME PageInv, SettleInv, ReadsPage
  PROVE  SettleInv'
<1>1. /\ UNCHANGED <<tree, faults, current, error, listing, quota, ops>>
      /\ \E r \in asks : asks' = Answered(asks, r)
  BY DEF ReadsPage
<1>2. PICK r \in asks : asks' = Answered(asks, r)
  BY <1>1
<1>3. PICK state, rows : /\ asks' = (asks \ {r}) \cup {Reply(r, state, rows)}
                         /\ IF Readable(r) THEN state = "ok" /\ rows = Reading(r)
                                           ELSE state = "failed"
  BY <1>2, AnsweredReply
<1> DEFINE s == Reply(r, state, rows)
<1>4. s.what = r.what /\ s.state = state /\ s.answer = rows
  BY Replying DEF PageInv, LoadingInv
<1> HIDE DEF s
<1>5. asks' = (asks \ {r}) \cup {s}
  BY <1>3 DEF s
<1>6. Files' = Files
  BY <1>1 DEF Files
<1>7. ASSUME NEW bad, NEW shown
      PROVE  Says(bad, shown)' <=> Says(bad, shown)
  BY <1>1 DEF Says, Exists, Kids
<1>8. r.what = "list" => Says(Failed(s), s.answer)
  <2> SUFFICES ASSUME r.what = "list"
               PROVE  Says(Failed(s), s.answer)
    OBVIOUS
  <2>1. r.of = current
    BY DEF PageInv, LoadingInv
  <2>2. Readable(r) <=> Exists(current)
    BY <2>1 DEF Readable
  <2>3. Reading(r) = Kids(current)
    BY <2>1 DEF Reading
  <2>4. Failed(s) <=> ~Readable(r)
    BY <1>3, <1>4 DEF Failed
  <2>5. Readable(r) => s.answer = Kids(current)
    BY <1>3, <1>4, <2>3
  <2> QED
    BY <2>2, <2>4, <2>5 DEF Says
<1>9. r.what = "quota" => ~Failed(s) /\ s.answer = Files
  <2> SUFFICES ASSUME r.what = "quota"
               PROVE  ~Failed(s) /\ s.answer = Files
    OBVIOUS
  <2>1. Readable(r) /\ Reading(r) = Files
    BY DEF Readable, Reading
  <2> QED
    BY <1>3, <1>4, <2>1 DEF Failed
<1>10. AnswersCurrent => AnswersCurrent'
  BY <1>4, <1>5, <1>6, <1>7, <1>8, <1>9 DEF AnswersCurrent, Unread, Failed
<1>11. ViewsCurrent => ViewsCurrent'
  BY <1>1, <1>4, <1>5, <1>6, <1>7 DEF ViewsCurrent
<1>12. OneEntry' /\ faults' \in Nat /\ (AllSeen' => AllSeen)
  BY <1>1 DEF SettleInv, OneEntry, AllSeen
<1> QED
  BY <1>10, <1>11, <1>12 DEF SettleInv

\* Served, a request keeps its origin and loses an entry.
LEMMA ServedOp ==
  ASSUME NEW op, OpTyped(op), NEW p, NEW result
  PROVE  LET s == [op EXCEPT !.todo = @ \ {p}, !.result = result]
         IN  s.from = op.from /\ s.todo = op.todo \ {p} /\ s.result = result
<1>1. PICK k, t, o, f, r, i :
        op = [kind |-> k, todo |-> t, to |-> o, from |-> f, result |-> r, id |-> i]
  BY DEF OpTyped
<1> DEFINE s == [op EXCEPT !.todo = @ \ {p}, !.result = result]
           u == t \ {p}
<1>2. op.todo = t /\ op.from = f
  BY <1>1
<1> HIDE DEF u
<1>3. [op EXCEPT !.todo = u]
        = [kind |-> k, todo |-> u, to |-> o, from |-> f, result |-> r, id |-> i]
  BY <1>1
<1>4. [[kind |-> k, todo |-> u, to |-> o, from |-> f, result |-> r, id |-> i]
         EXCEPT !.result = result]
        = [kind |-> k, todo |-> u, to |-> o, from |-> f, result |-> result, id |-> i]
  OBVIOUS
<1>5. s = [[op EXCEPT !.todo = u] EXCEPT !.result = result]
  BY <1>2 DEF u
<1>6. s = [kind |-> k, todo |-> u, to |-> o, from |-> f, result |-> result, id |-> i]
  BY <1>3, <1>4, <1>5, Zenon
<1> QED
  BY <1>2, <1>6 DEF u

LEMMA ServeSettles ==
  ASSUME PageInv, SettleInv, NEW op \in ops, NEW p \in op.todo, Serve(op, p)
  PROVE  SettleInv'
<1> DEFINE to == IF op.kind = "place" /\ op.from = "bar" THEN Join(op.to, Last(p)) ELSE op.to
           accepted == Accepts(op.kind, p, to)
           next == IF accepted THEN Changed(op.kind, p, to) ELSE tree
           served(result) == [op EXCEPT !.todo = @ \ {p}, !.result = result]
<1>1. PICK result : /\ ops' = (ops \ {op}) \cup {served(result)}
                    /\ \/ /\ tree' = next /\ UNCHANGED faults
                          /\ result = "ok" \/ next = tree
                       \/ Fault
  BY DEF Serve
<1> DEFINE s == served(result)
<1>2. OpTyped(op)
  BY OpsTyped DEF PageInv
<1>3. s.from = op.from /\ s.todo = op.todo \ {p} /\ s.result = result
  BY <1>2, ServedOp
<1> HIDE DEF s, served, next
<1>4. ops' = (ops \ {op}) \cup {s}
  BY <1>1 DEF s
<1>5. OneEntry'
  BY <1>3, <1>4 DEF SettleInv, OneEntry
<1>6. UNCHANGED <<current, asks, error, listing, quota>>
  BY DEF Serve, page
<1>7. CASE Fault
  <2>1. faults' \in Nat /\ faults' # 0
    BY <1>7 DEF Fault, SettleInv
  <2> QED
    BY <1>5, <2>1 DEF SettleInv, AllSeen
<1>8. CASE /\ tree' = next /\ UNCHANGED faults
           /\ result = "ok" \/ next = tree
  <2>1. CASE Refreshes(s)
    <3>1. ~AllSeen'
      BY <1>4, <2>1 DEF AllSeen
    <3> QED
      BY <1>5, <1>8, <3>1 DEF SettleInv
  <2>2. CASE ~Refreshes(s)
    <3>1. tree' = tree
      BY <1>3, <1>8, <2>2 DEF Refreshes
    <3>2. op.from \notin {"bar", "drop"} /\ op.todo # {}
      BY <1>3, <2>2 DEF Refreshes
    <3>3. ~Refreshes(op)
      BY <3>2 DEF SettleInv, OneEntry, Refreshes
    <3>4. AllSeen' => AllSeen
      BY <1>4, <1>8, <3>3 DEF AllSeen
    <3> QED
      BY <1>5, <1>6, <1>8, <3>1, <3>4, SettleUndisturbed
  <2> QED
    BY <2>1, <2>2
<1> QED
  BY <1>1, <1>7, <1>8

LEMMA ReadLostSettles ==
  ASSUME SettleInv, ReadLost
  PROVE  SettleInv'
<1>1. faults' \in Nat /\ faults' # 0
  BY DEF ReadLost, Fault, SettleInv
<1>2. OneEntry'
  BY DEF ReadLost, SettleInv, OneEntry
<1> QED
  BY <1>1, <1>2 DEF SettleInv, AllSeen

LEMMA AnswersSettle ==
  ASSUME SettleInv, NEW r \in asks, ListingLoaded(r) \/ QuotaLoaded(r) \/ SearchAnswered(r)
  PROVE  SettleInv'
<1>1. asks' = asks \ {r} /\ ~Unread(r) /\ UNCHANGED <<tree, faults, current, ops>>
  BY Zenon DEF ListingLoaded, QuotaLoaded, SearchAnswered
<1>2. Files' = Files
  BY <1>1 DEF Files
<1>3. ASSUME NEW bad, NEW shown
      PROVE  Says(bad, shown)' <=> Says(bad, shown)
  BY <1>1 DEF Says, Exists, Kids
<1>4. AnswersCurrent => AnswersCurrent'
  BY <1>1, <1>2, <1>3 DEF AnswersCurrent, Unread, Failed
<1>5. AnswersCurrent /\ ViewsCurrent => ViewsCurrent'
  <2> SUFFICES ASSUME AnswersCurrent, ViewsCurrent
               PROVE  ViewsCurrent'
    OBVIOUS
  <2>1. CASE ListingLoaded(r)
    <3>1. r.what = "list" /\ error' = Failed(r) /\ UNCHANGED quota
          /\ listing' = IF Failed(r) THEN listing ELSE r.answer
      BY <2>1 DEF ListingLoaded
    <3>2. Says(error', listing')
      BY <1>1, <3>1 DEF AnswersCurrent, Says
    <3>3. (\E x \in asks : x.what = "quota") => \E x \in asks' : x.what = "quota"
      BY <1>1, <3>1
    <3> QED
      BY <1>2, <1>3, <3>1, <3>2, <3>3 DEF ViewsCurrent
  <2>2. CASE QuotaLoaded(r)
    <3>1. r.what = "quota" /\ UNCHANGED <<error, listing>>
          /\ quota' = IF Failed(r) THEN quota ELSE r.answer
      BY <2>2 DEF QuotaLoaded
    <3>2. quota' = Files
      BY <1>1, <3>1 DEF AnswersCurrent
    <3>3. (\E x \in asks : x.what = "list") => \E x \in asks' : x.what = "list"
      BY <1>1, <3>1
    <3> QED
      BY <1>2, <1>3, <3>1, <3>2, <3>3 DEF ViewsCurrent
  <2>3. CASE SearchAnswered(r)
    <3>1. r.what = "search" /\ UNCHANGED <<error, listing, quota>>
      BY <2>3 DEF SearchAnswered
    <3>2. \A what \in {"list", "quota"} :
            (\E x \in asks : x.what = what) => \E x \in asks' : x.what = what
      BY <1>1, <3>1
    <3> QED
      BY <1>2, <1>3, <3>1, <3>2 DEF ViewsCurrent
  <2> QED
    BY <2>1, <2>2, <2>3
<1>6. OneEntry' /\ faults' \in Nat /\ (AllSeen' => AllSeen)
  BY <1>1 DEF SettleInv, OneEntry, AllSeen
<1> QED
  BY <1>4, <1>5, <1>6 DEF SettleInv

LEMMA TimerSettles ==
  ASSUME SettleInv, TimerFires
  PROVE  SettleInv'
<1> DEFINE new == Ask("search", search, key)
<1>1. asks' = asks \cup {new} /\ UNCHANGED <<tree, faults, current, error, listing, quota, ops>>
  BY DEF TimerFires
<1>2. new.what = "search"
  BY DEF Ask
<1> HIDE DEF new
<1>3. Files' = Files
  BY <1>1 DEF Files
<1>4. ASSUME NEW bad, NEW shown
      PROVE  Says(bad, shown)' <=> Says(bad, shown)
  BY <1>1 DEF Says, Exists, Kids
<1>5. AnswersCurrent => AnswersCurrent'
  BY <1>1, <1>2, <1>3, <1>4 DEF AnswersCurrent, Unread, Failed
<1>6. ViewsCurrent => ViewsCurrent'
  BY <1>1, <1>2, <1>3, <1>4 DEF ViewsCurrent
<1>7. OneEntry' /\ faults' \in Nat /\ (AllSeen' => AllSeen)
  BY <1>1 DEF SettleInv, OneEntry, AllSeen
<1> QED
  BY <1>5, <1>6, <1>7 DEF SettleInv

LEMMA OpDoneSettles ==
  ASSUME SettleInv, NEW op \in ops, OpDone(op)
  PROVE  SettleInv'
<1> DEFINE place == IF op.from = "view" THEN op.to ELSE current
<1>1. ops' = ops \ {op} /\ UNCHANGED <<tree, faults, quota>>
  BY DEF OpDone
<1>2. IF Refreshes(op) THEN Mutated(place) ELSE UNCHANGED <<page, selected, explorer>>
  BY DEF OpDone, Refreshes
<1>3. CASE Refreshes(op)
  <2>1. Mutated(place) /\ UNCHANGED faults /\ ops' \subseteq ops
    BY <1>1, <1>2, <1>3
  <2> HIDE DEF place
  <2> QED
    BY <2>1, MutatedSettles
<1>4. CASE ~Refreshes(op)
  <2>1. UNCHANGED <<current, asks, error, listing>>
    BY <1>2, <1>4 DEF page
  <2>2. OneEntry' /\ (AllSeen' => AllSeen)
    BY <1>1, <1>4 DEF SettleInv, OneEntry, AllSeen
  <2> QED
    BY <1>1, <2>1, <2>2, SettleUndisturbed
<1> QED
  BY <1>3, <1>4

LEMMA UserSettles ==
  ASSUME SettleInv, User
  PROVE  SettleInv'
<1>1. ASSUME NEW p, OpenFolder(p) \/ ClickNode(p)
      PROVE  SettleInv'
  <2>1. PICK q, open : ShowFolder(q, open) /\ UNCHANGED <<tree, faults, quota, ops>>
    BY <1>1 DEF OpenFolder, ClickNode
  <2> QED
    BY <2>1, ShownSettles
<1>2. ASSUME NEW p, Delete(p) \/ ToggleFavorite(p) \/ \E to \in Folders : MoveEntry(p, to)
      PROVE  SettleInv'
  <2>1. PICK kind, to : Send(kind, {p}, to, "row")
    BY <1>2 DEF Delete, ToggleFavorite, MoveEntry, FromRow
  <2>2. \E q : {p} = {q}
    OBVIOUS
  <2> QED
    BY <2>1, <2>2, SendSettles
<1>3. ASSUME BulkDelete \/ \E to \in Folders : BulkMove(to)
      PROVE  SettleInv'
  <2>1. PICK kind, to : Send(kind, Ticked, to, "bar")
    BY <1>3 DEF BulkDelete, BulkMove, FromBar
  <2> QED
    BY <2>1, SendSettles
<1>4. ASSUME NEW n \in Names,
             CreateFolder(n) \/ CreateFile(n) \/ Upload(n) \/ FromMenu(n) \/ FinishRename(n)
      PROVE  SettleInv'
  <2>1. PICK kind, p, to, from : Send(kind, {p}, to, from)
    <3>1. CASE CreateFolder(n) \/ CreateFile(n) \/ Upload(n)
      BY <3>1 DEF CreateFolder, CreateFile, Upload, FromToolbar
    <3>2. CASE FromMenu(n)
      BY <3>2 DEF FromMenu
    <3>3. CASE FinishRename(n)
      BY <3>3 DEF FinishRename
    <3> QED
      BY <1>4, <3>1, <3>2, <3>3
  <2>2. \E q : {p} = {q}
    OBVIOUS
  <2> QED
    BY <2>1, <2>2, SendSettles
<1>5. ASSUME \/ \E p : StartRename(p)
             \/ \E P : Tick(P)
             \/ CancelRename
             \/ \E q : Type(q)
      PROVE  SettleInv'
  <2>1. UNCHANGED <<tree, faults, page, quota, ops>>
    BY <1>5 DEF StartRename, Tick, CancelRename, Type
  <2> QED
    BY <2>1, SettleSameOps DEF page
<1> QED
  BY <1>1, <1>2, <1>3, <1>4, <1>5 DEF User

LEMMA StepSettles ==
  ASSUME PageInv, SettleInv, [Next]_vars
  PROVE  SettleInv'
<1>1. CASE User
  BY <1>1, UserSettles
<1>2. CASE Served
  <2>1. ASSUME ReadsTree
        PROVE  SettleInv'
    BY <2>1, SettleSameOps DEF ReadsTree, page
  <2> QED
    BY <1>2, <2>1, ReadsPageSettles, ServeSettles DEF Served
<1>3. CASE ReadLost
  BY <1>3, ReadLostSettles
<1>4. CASE Answer
  <2>1. ASSUME NEW r \in fetches, FolderFetched(r)
        PROVE  SettleInv'
    BY <2>1, SettleSameOps DEF FolderFetched, page
  <2> QED
    BY <1>4, <2>1, AnswersSettle, OpDoneSettles, TimerSettles DEF Answer
<1>5. CASE UNCHANGED vars
  BY <1>5, SettleSameOps DEF vars, page
<1> QED
  BY <1>1, <1>2, <1>3, <1>4, <1>5 DEF Next

(* However the reads, the answers and the handlers of changes, bulk        *)
(* operations, navigation and refreshes interleave: when no answer was     *)
(* lost and nothing is under way, the listing is that of the folder in the *)
(* URL as the server has it, or the page says the folder is gone, and the  *)
(* quota counts the files there are.                                       *)
THEOREM ViewsAgree == Spec => []ViewsSettle
<1>1. Init => SettleInv
  <2> SUFFICES ASSUME Init PROVE SettleInv
    OBVIOUS
  <2>1. faults = 0 /\ asks = {} /\ ops = {} /\ quota = Files /\ listing = Kids(current) /\ ~error
    BY DEF Init
  <2>2. Exists(current)
    BY StartAssumption DEF Init, Exists
  <2> QED
    BY <2>1, <2>2 DEF SettleInv, OneEntry, AnswersCurrent, ViewsCurrent, Says
<1>2. PageInv /\ SettleInv /\ [Next]_vars => SettleInv'
  BY StepSettles
<1>3. SettleInv => ViewsSettle
  <2> SUFFICES ASSUME SettleInv, faults = 0, ~Working
               PROVE  /\ error <=> ~Exists(current)
                      /\ ~error => listing = Kids(current)
                      /\ quota = Files
    BY DEF ViewsSettle
  <2>1. AllSeen /\ \A r \in asks : r.what \notin {"list", "quota"}
    BY DEF AllSeen, Working
  <2> QED
    BY <2>1 DEF SettleInv, ViewsCurrent, Says
<1> QED
  BY <1>1, <1>2, <1>3, PageInvariant, PTL DEF Spec

============================================================================
