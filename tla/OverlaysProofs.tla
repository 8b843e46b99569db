--------------------------- MODULE OverlaysProofs ---------------------------
(***************************************************************************)
(* Viewers and dialogs, for any account, any kinds of files, any number of *)
(* requests in flight and any order of their answers.                      *)
(*                                                                         *)
(* Nobody cancels a request, so what is known of a late answer must be     *)
(* known while it is on its way: a live fetch is of the file and for the   *)
(* component that are mounted, and there is one; the editor that a save is *)
(* of is saving; a change that the page was not told of has a handler that *)
(* will tell it.                                                           *)
(***************************************************************************)
EXTENDS Overlays, TLAPS

Paths == DOMAIN Detected
Text == Contents \cup {None}

AccountInv(d, k) ==
  /\ d = [text |-> d.text, history |-> d.history, bin |-> d.bin, shares |-> d.shares,
          theirs |-> d.theirs]
  /\ d.text \in [DOMAIN d.history -> Contents]
  /\ d.history \in [DOMAIN d.text -> Seq(Contents)]
  /\ \A i \in DOMAIN d.bin : d.bin[i].text \in Contents /\ d.bin[i].history \in Seq(Contents)
  /\ DOMAIN d.bin \cup DOMAIN d.shares \subseteq 1 .. k

ServerInv == clock \in Nat /\ clock > 9 /\ faults \in Nat /\ AccountInv(db, clock)

----------------------------------------------------------------------------
(* The fetches and what is on the screen.                                  *)

RunType == [id : Nat, path : Paths, kind : Kinds, live : BOOLEAN, got : Text]
ShownType == [id : Nat, kind : Kinds, path : Paths, text : Contents]

RunsInv ==
  /\ \A r \in runs : /\ r \in RunType /\ r.id \in 1 .. clock - 1
                     /\ r.got # None => r.kind \in Decodes
                     /\ r.live => r.path = view /\ r.kind = Mounted
  /\ \A r, s \in runs : r.live /\ s.live => r = s

ScreenInv ==
  /\ view \in Paths \cup {None} /\ as \in Overrides \cup {None} /\ (view = None => as = None)
  /\ shown # None => /\ shown \in ShownType /\ shown.id \in 1 .. clock - 1
                     /\ shown.path = view /\ shown.kind = Mounted

Decoding == {r.id : r \in {x \in runs : x.got # None}}

\* Before an image is shown, the one shown before has been revoked.
BlobsInv ==
  /\ blobs \subseteq Decoding \cup ShownUrl
  /\ \A r \in runs : r.live /\ r.kind \in Revokes => blobs \subseteq Decoding

----------------------------------------------------------------------------
(* The editor and its saves.                                               *)

EditorType ==
  [mount : Nat, initial : Text, current : Text, buffer : Text, synced : Text,
   state : {"idle", "saving", "saved", "error"}]

EditorInv ==
  /\ editor \in EditorType
  /\ editor.mount < clock
  /\ Mounted = "markdown" => editor.mount # 0
  /\ editor.initial # None => editor.current # None /\ editor.mount # 0
  /\ view = None => editor = NoEditor

SaveType ==
  [mount : Nat, path : Paths \cup {None}, text : Contents, id : Nat, out : {None, Done, Refused}]

SavesInv ==
  /\ \A s \in saves : /\ s \in SaveType /\ s.mount \in 1 .. clock - 1
                      /\ s.mount = editor.mount => editor.state = "saving"
  /\ \A s, t \in saves : s.mount = t.mount => s = t
  /\ \A b \in badges : b.mount \in Nat /\ b.mount # 0

ViewerInv == RunsInv /\ ScreenInv /\ BlobsInv /\ EditorInv /\ SavesInv

----------------------------------------------------------------------------
(* The dialogs.                                                            *)

Acts == Grants \cup {"none", "version", "restore", "purge", "empty", "revoke"}

IsTask(t) ==
  /\ t = [id |-> t.id, name |-> t.name, of |-> t.of, act |-> t.act, arg |-> t.arg,
          step |-> t.step, out |-> t.out, got |-> t.got]
  /\ t.name \in Names /\ t.act \in Acts /\ t.step \in {"change", "list"}
  /\ t.out \in {None, Done, Refused} /\ (t.act = "restore" => t.name = "trash")

\* The handler will tell the page.
Tells(t) ==
  \/ t.step = "change" /\ t.out = Done /\ Affects(t.act)
  \/ t.step = "list" /\ t.act = "restore" /\ t.out # Refused

DialogsInv ==
  /\ dialog = Closed \/ dialog.name \in Names
  /\ stale \in BOOLEAN
  /\ \A t \in tasks : IsTask(t)
  /\ faults = 0 /\ stale => \E t \in tasks : Tells(t)

OInv == ServerInv /\ ViewerInv /\ DialogsInv

----------------------------------------------------------------------------
(* What requests make of the account.                                      *)

LEMMA SetIn ==
  ASSUME NEW D, NEW S, NEW f \in [D -> S], NEW p, NEW v \in S
  PROVE  Set(f, p, v) \in [D \cup {p} -> S]
BY DEF Set

LEMMA WithoutIn ==
  ASSUME NEW D, NEW S, NEW f \in [D -> S], NEW P
  PROVE  Without(f, P) \in [D \ P -> S]
BY DEF Without, Restrict

LEMMA SetAt ==
  ASSUME NEW f, NEW p, NEW v
  PROVE  /\ DOMAIN Set(f, p, v) = DOMAIN f \cup {p}
         /\ \A q \in DOMAIN Set(f, p, v) : Set(f, p, v)[q] = IF q = p THEN v ELSE f[q]
BY DEF Set

LEMMA WithoutAt ==
  ASSUME NEW f, NEW P
  PROVE  /\ DOMAIN Without(f, P) = DOMAIN f \ P
         /\ \A q \in DOMAIN Without(f, P) : Without(f, P)[q] = f[q]
BY DEF Without, Restrict

BinInv(b, k) ==
  /\ \A i \in DOMAIN b : b[i].text \in Contents /\ b[i].history \in Seq(Contents)
  /\ DOMAIN b \subseteq 1 .. k
FilesInv(text, history) ==
  text \in [DOMAIN history -> Contents] /\ history \in [DOMAIN text -> Seq(Contents)]

LEMMA AccountParts ==
  ASSUME AccountInv(db, clock)
  PROVE  /\ FilesInv(db.text, db.history) /\ BinInv(db.bin, clock)
         /\ \A text, history, bin :
              FilesInv(text, history) /\ BinInv(bin, clock)
                => AccountInv(Account(text, history, bin), clock)
BY DEF AccountInv, FilesInv, BinInv, Account

LEMMA FilesSet ==
  ASSUME NEW text, NEW history, FilesInv(text, history), NEW p,
         NEW t \in Contents, NEW h \in Seq(Contents)
  PROVE  FilesInv(Set(text, p, t), Set(history, p, h))
<1>1. /\ Set(text, p, t) \in [DOMAIN history \cup {p} -> Contents]
      /\ Set(history, p, h) \in [DOMAIN text \cup {p} -> Seq(Contents)]
  BY SetIn DEF FilesInv
<1> QED
  BY <1>1, SetAt DEF FilesInv

LEMMA FilesWithout ==
  ASSUME NEW text, NEW history, FilesInv(text, history), NEW P
  PROVE  FilesInv(Without(text, P), Without(history, P))
<1>1. /\ Without(text, P) \in [DOMAIN history \ P -> Contents]
      /\ Without(history, P) \in [DOMAIN text \ P -> Seq(Contents)]
  BY WithoutIn DEF FilesInv
<1> QED
  BY <1>1, WithoutAt DEF FilesInv

LEMMA OverwrittenAccount ==
  ASSUME AccountInv(db, clock), NEW p, Exists(p), NEW t \in Contents
  PROVE  AccountInv(Overwritten(p, t), clock)
<1>1. Append(db.history[p], db.text[p]) \in Seq(Contents)
  BY AccountParts DEF FilesInv, Exists
<1> QED
  BY <1>1, AccountParts, FilesSet DEF Overwritten

LEMMA BinnedAccount ==
  ASSUME ServerInv, NEW p, Exists(p)
  PROVE  AccountInv(Binned(p), clock)
<1> DEFINE entry == Entry(p, db.history[p])
           bin == Set(db.bin, clock, entry)
<1>1. FilesInv(db.text, db.history) /\ BinInv(db.bin, clock) /\ AccountInv(db, clock)
  BY AccountParts DEF ServerInv
<1>2. entry.text \in Contents /\ entry.history \in Seq(Contents)
  BY <1>1 DEF FilesInv, Exists, Entry
<1> HIDE DEF entry
<1>3. DOMAIN bin = DOMAIN db.bin \cup {clock}
      /\ \A i \in DOMAIN bin : bin[i] = IF i = clock THEN entry ELSE db.bin[i]
  BY DEF Set
<1> HIDE DEF bin
<1>4. BinInv(bin, clock)
  BY <1>1, <1>2, <1>3 DEF BinInv, ServerInv
<1>5. FilesInv(Without(db.text, {p}), Without(db.history, {p}))
  BY <1>1, FilesWithout
<1> QED
  BY <1>1, <1>4, <1>5, AccountParts DEF Binned, bin, entry

LEMMA BinWithout ==
  ASSUME AccountInv(db, clock), NEW P
  PROVE  BinInv(Without(db.bin, P), clock)
<1>1. BinInv(db.bin, clock)
  BY AccountParts
<1> QED
  BY <1>1 DEF BinInv, Without, Restrict

LEMMA UnbinnedAccount ==
  ASSUME AccountInv(db, clock), NEW i \in DOMAIN db.bin
  PROVE  AccountInv(Unbinned(i), clock)
<1>1. db.bin[i].text \in Contents /\ db.bin[i].history \in Seq(Contents)
  BY AccountParts DEF BinInv
<1>2. /\ FilesInv(Set(db.text, db.bin[i].path, db.bin[i].text),
                  Set(db.history, db.bin[i].path, db.bin[i].history))
      /\ BinInv(Without(db.bin, {i}), clock)
  BY <1>1, AccountParts, FilesSet, BinWithout
<1> QED
  BY <1>2, AccountParts DEF Unbinned

LEMMA SharesAccount ==
  ASSUME AccountInv(db, clock), NEW s, DOMAIN s \subseteq 1 .. clock
  PROVE  AccountInv([db EXCEPT !.shares = s], clock)
<1>1. db = [text |-> db.text, history |-> db.history, bin |-> db.bin, shares |-> db.shares,
            theirs |-> db.theirs]
  BY DEF AccountInv
<1>2. [db EXCEPT !.shares = s]
        = [text |-> db.text, history |-> db.history, bin |-> db.bin, shares |-> s,
           theirs |-> db.theirs]
  BY <1>1
<1> QED
  BY <1>2 DEF AccountInv

LEMMA TheirsAccount ==
  ASSUME AccountInv(db, clock), NEW s
  PROVE  AccountInv([db EXCEPT !.theirs = s], clock)
<1>1. db = [text |-> db.text, history |-> db.history, bin |-> db.bin, shares |-> db.shares,
            theirs |-> db.theirs]
  BY DEF AccountInv
<1>2. [db EXCEPT !.theirs = s]
        = [text |-> db.text, history |-> db.history, bin |-> db.bin, shares |-> db.shares,
           theirs |-> s]
  BY <1>1
<1> QED
  BY <1>2 DEF AccountInv

LEMMA ChangedAccount ==
  ASSUME ServerInv, NEW act, NEW p, NEW arg, act = "save" => arg \in Contents
  PROVE  AccountInv(Changed(act, p, arg), clock)
<1>0. AccountInv(db, clock)
  BY DEF ServerInv
<1>1. CASE act = "save" /\ Exists(p)
  <2>1. Changed(act, p, arg) = Overwritten(p, arg)
    BY <1>1 DEF Changed, Grants
  <2> QED
    BY <1>0, <1>1, <2>1, OverwrittenAccount
<1>2. CASE act = "version" /\ Exists(p) /\ arg \in DOMAIN db.history[p]
  <2>1. db.history[p][arg] \in Contents
    BY <1>0, <1>2, AccountParts DEF FilesInv, Exists
  <2>2. Changed(act, p, arg) = Overwritten(p, db.history[p][arg])
    BY <1>2 DEF Changed, Grants
  <2> QED
    BY <1>0, <1>2, <2>1, <2>2, OverwrittenAccount
<1>3. CASE act = "trash" /\ Exists(p)
  <2>1. Changed(act, p, arg) = Binned(p)
    BY <1>3 DEF Changed, Grants
  <2> QED
    BY <1>3, <2>1, BinnedAccount
<1>4. CASE act = "restore" /\ arg \in DOMAIN db.bin /\ ~Exists(db.bin[arg].path)
  <2>1. Changed(act, p, arg) = Unbinned(arg)
    BY <1>4 DEF Changed, Grants
  <2> QED
    BY <1>0, <1>4, <2>1, UnbinnedAccount
<1>5. CASE act = "purge" /\ arg \in DOMAIN db.bin
  <2>1. Changed(act, p, arg) = Account(db.text, db.history, Without(db.bin, {arg}))
    BY <1>5 DEF Changed, Grants
  <2> QED
    BY <1>0, <2>1, AccountParts, BinWithout
<1>6. CASE act = "empty"
  <2>1. Changed(act, p, arg) = Account(db.text, db.history, << >>)
    BY <1>6 DEF Changed, Grants
  <2>2. BinInv(<< >>, clock)
    BY DEF BinInv
  <2> QED
    BY <1>0, <2>1, <2>2, AccountParts
<1>7. CASE act \in Grants /\ Exists(p)
  <2> DEFINE shares == Set(db.shares, clock, [path |-> p, role |-> act])
  <2>1. DOMAIN shares \subseteq 1 .. clock
    BY DEF AccountInv, ServerInv, Set
  <2>2. Changed(act, p, arg) = Sharing(shares)
    BY <1>7 DEF Changed, Grants
  <2> HIDE DEF shares
  <2> QED
    BY <1>0, <2>1, <2>2, SharesAccount DEF Sharing
<1>8. CASE act = "revoke" /\ arg \in DOMAIN db.shares
  <2> DEFINE shares == Without(db.shares, {arg})
  <2>1. DOMAIN shares \subseteq 1 .. clock
    BY DEF AccountInv, ServerInv, Without, Restrict
  <2>2. Changed(act, p, arg) = Sharing(shares)
    BY <1>8 DEF Changed, Grants
  <2> HIDE DEF shares
  <2> QED
    BY <1>0, <2>1, <2>2, SharesAccount DEF Sharing
<1>9. \/ Changed(act, p, arg) = db
      \/ act = "save" /\ Exists(p)
      \/ act = "version" /\ Exists(p) /\ arg \in DOMAIN db.history[p]
      \/ act = "trash" /\ Exists(p)
      \/ act = "restore" /\ arg \in DOMAIN db.bin /\ ~Exists(db.bin[arg].path)
      \/ act = "purge" /\ arg \in DOMAIN db.bin
      \/ act = "empty"
      \/ act \in Grants /\ Exists(p)
      \/ act = "revoke" /\ arg \in DOMAIN db.shares
  BY DEF Changed
<1> QED
  BY <1>0, <1>1, <1>2, <1>3, <1>4, <1>5, <1>6, <1>7, <1>8, <1>9

LEMMA AccountGrows ==
  ASSUME NEW d, NEW k \in Nat, NEW n \in Nat, k <= n, AccountInv(d, k)
  PROVE  AccountInv(d, n)
BY DEF AccountInv

----------------------------------------------------------------------------
(* The viewer.                                                             *)

LEMMA ComponentKind ==
  ASSUME NEW p \in Paths \cup {None}, NEW o \in Overrides \cup {None}
  PROVE  /\ Component(p, o) \in Kinds \cup {None}
         /\ Component(p, o) = None <=> p = None
         /\ None \notin Paths /\ None \notin Kinds
BY ViewersAssumption DEF Component, Paths, Kinds, Overrides, Decodes

LEMMA Earlier ==
  ASSUME NEW k \in Nat, NEW n \in Nat, k <= n
  PROVE  \A i \in 1 .. k - 1 : i \in 1 .. n - 1 /\ i \in 1 .. n
OBVIOUS

LEMMA ViewerSteady ==
  ASSUME clock \in Nat, clock' \in Nat, clock <= clock', ViewerInv, UNCHANGED viewer
  PROVE  ViewerInv'
<1>1. /\ view' = view /\ as' = as /\ runs' = runs /\ blobs' = blobs /\ shown' = shown
      /\ editor' = editor /\ saves' = saves /\ badges' = badges
  BY DEF viewer
<1>2. Mounted' = Mounted /\ ShownUrl' = ShownUrl /\ Decoding' = Decoding
  BY <1>1 DEF Mounted, ShownUrl, Decoding
<1>3. \A i \in 1 .. clock - 1 : i \in 1 .. clock' - 1
  BY Earlier
<1>4. RunsInv'
  BY <1>1, <1>2, <1>3 DEF ViewerInv, RunsInv
<1>5. ScreenInv'
  BY <1>1, <1>2, <1>3 DEF ViewerInv, ScreenInv
<1>6. BlobsInv'
  BY <1>1, <1>2 DEF ViewerInv, BlobsInv
<1>7. EditorInv'
  BY <1>1, <1>2 DEF ViewerInv, EditorInv, EditorType
<1>8. SavesInv'
  BY <1>1, <1>3 DEF ViewerInv, SavesInv
<1> QED
  BY <1>4, <1>5, <1>6, <1>7, <1>8 DEF ViewerInv

(* An effect leaves one live fetch, the new one, and no object URL of what *)
(* was on the screen.                                                      *)
LEMMA EffectRuns ==
  ASSUME ServerInv, RunsInv, NEW p \in Paths \cup {None}, NEW kind \in Kinds \cup {None},
         Loads(kind) => p # None, Effect(p, kind)
  PROVE  /\ \A r \in runs' : /\ r \in RunType /\ r.id \in 1 .. clock
                             /\ r.got # None => r.kind \in Decodes
                             /\ r.live => r.path = p /\ r.kind = kind
         /\ \A r, s \in runs' : r.live /\ s.live => r = s
         /\ \A r \in runs : r.got # None => \E s \in runs' : s.id = r.id /\ s.got # None
<1> DEFINE f == [id |-> clock, path |-> p, kind |-> kind, live |-> TRUE, got |-> None]
           C(r) == [r EXCEPT !.live = FALSE]
<1>1. /\ FetchFor(p, kind) \in {{}, {f}}
      /\ FetchFor(p, kind) # {} => Loads(kind)
  BY DEF FetchFor
<1>2. Loads(kind) => f \in RunType
  BY DEF RunType, ServerInv, Loads, Text
<1>3. f.id = clock /\ f.got = None /\ f.live /\ f.path = p /\ f.kind = kind
  OBVIOUS
<1> HIDE DEF f
<1>4. ASSUME NEW r \in runs
      PROVE  /\ C(r) \in RunType /\ C(r).id = r.id /\ C(r).got = r.got /\ C(r).kind = r.kind
             /\ C(r).live = FALSE
    <2>1. r \in RunType
      BY DEF RunsInv
    <2> QED
      BY <2>1 DEF RunType
<1>5. runs' = {C(r) : r \in runs} \cup FetchFor(p, kind)
  BY DEF Effect, CancelRuns
<1> HIDE DEF C
<1>6. clock \in 1 .. clock /\ \A r \in runs : r.id \in 1 .. clock
  BY DEF ServerInv, RunsInv
<1>7. \A r \in runs' : r.live => FetchFor(p, kind) # {} /\ r = f
  BY <1>1, <1>4, <1>5
<1>8. \A r \in runs : r.got # None => \E s \in runs' : s.id = r.id /\ s.got # None
  BY <1>4, <1>5
<1>9. ASSUME NEW r \in runs'
      PROVE  r \in RunType /\ r.id \in 1 .. clock /\ (r.got # None => r.kind \in Decodes)
  <2>1. CASE r \in FetchFor(p, kind)
    BY <1>1, <1>2, <1>3, <1>6, <2>1
  <2>2. CASE \E x \in runs : r = C(x)
    BY <1>4, <1>6, <2>2 DEF RunsInv
  <2> QED
    BY <1>5, <2>1, <2>2
<1> QED
  BY <1>3, <1>7, <1>8, <1>9

LEMMA ShowStep ==
  ASSUME ServerInv, ViewerInv, NEW p \in Paths \cup {None}, NEW o \in Overrides \cup {None},
         p = None => o = None, Show(p, o)
  PROVE  ViewerInv' /\ clock' \in {clock, clock + 1}
<1> DEFINE kind == Component(p, o)
<1>1. Mounted' = kind /\ view' = p /\ as' = o
  BY DEF Mounted, Show
<1>2. CASE <<p, kind>> = <<view, Mounted>>
  <2>1. Mounted' = Mounted /\ view' = view
    BY <1>1, <1>2
  <2>2. UNCHANGED <<runs, blobs, shown, failed, editor, clock, saves, badges>>
    BY <1>2 DEF Show
  <2>3. ShownUrl' = ShownUrl /\ Decoding' = Decoding
    BY <2>2 DEF ShownUrl, Decoding
  <2>4. RunsInv' /\ ScreenInv'
    BY <1>1, <2>1, <2>2 DEF ViewerInv, RunsInv, ScreenInv
  <2>5. BlobsInv'
    BY <2>2, <2>3 DEF ViewerInv, BlobsInv
  <2>6. EditorInv' /\ SavesInv'
    BY <2>1, <2>2 DEF ViewerInv, EditorInv, SavesInv
  <2> QED
    BY <2>2, <2>4, <2>5, <2>6 DEF ViewerInv
<1>3. CASE <<p, kind>> # <<view, Mounted>>
  <2>1. /\ Effect(p, kind) /\ clock' = clock + 1 /\ shown' = None
        /\ editor' = IF kind = "markdown" THEN [NoEditor EXCEPT !.mount = clock] ELSE NoEditor
        /\ UNCHANGED <<saves, badges>>
    BY <1>3 DEF Show
  <2>2. kind \in Kinds \cup {None} /\ (Loads(kind) => p # None) /\ (kind = "markdown" => p # None)
    BY ComponentKind DEF Loads, Kinds, Decodes
  <2> HIDE DEF kind
  <2>3. /\ \A r \in runs' : /\ r \in RunType /\ r.id \in 1 .. clock
                            /\ r.got # None => r.kind \in Decodes
                            /\ r.live => r.path = p /\ r.kind = kind
        /\ \A r, s \in runs' : r.live /\ s.live => r = s
        /\ \A r \in runs : r.got # None => \E s \in runs' : s.id = r.id /\ s.got # None
    BY <2>1, <2>2, EffectRuns DEF ViewerInv
  <2>4. clock \in Nat /\ clock > 9 /\ (clock + 1) - 1 = clock
    BY DEF ServerInv
  <2>5. RunsInv' /\ ScreenInv'
    BY <1>1, <2>1, <2>3, <2>4 DEF RunsInv, ScreenInv
  <2>6. ShownUrl' = {} /\ blobs' = blobs \ ShownUrl
    BY <2>1 DEF ShownUrl, Effect
  <2>13. Decoding \subseteq Decoding'
    BY <2>3 DEF Decoding
  <2>7. BlobsInv'
    BY <2>6, <2>13 DEF ViewerInv, BlobsInv
  <2>8. /\ NoEditor = [mount |-> 0, initial |-> None, current |-> None, buffer |-> None,
                       synced |-> None, state |-> "idle"]
        /\ [NoEditor EXCEPT !.mount = clock]
             = [mount |-> clock, initial |-> None, current |-> None, buffer |-> None,
                synced |-> None, state |-> "idle"]
    BY DEF NoEditor
  <2>9. /\ editor' \in EditorType
        /\ editor'.mount \in {0, clock} /\ editor'.initial = None
        /\ kind = "markdown" => editor'.mount = clock
        /\ kind # "markdown" => editor' = NoEditor
    BY <2>1, <2>4, <2>8 DEF EditorType, Text
  <2>10. EditorInv'
    BY <1>1, <2>1, <2>2, <2>4, <2>9 DEF EditorInv
  <2>11. \A s \in saves : s.mount # editor'.mount
    BY <2>4, <2>9 DEF ViewerInv, SavesInv
  <2>12. SavesInv'
    BY <2>1, <2>4, <2>11 DEF ViewerInv, SavesInv
  <2> QED
    BY <2>1, <2>5, <2>7, <2>10, <2>12 DEF ViewerInv
<1> QED
  BY <1>2, <1>3

LEMMA ReloadStep ==
  ASSUME ServerInv, ViewerInv, ReloadViewer, clock' = clock + 1,
         UNCHANGED <<view, as, shown, failed, editor, saves, badges>>
  PROVE  ViewerInv'
<1>1. Mounted' = Mounted /\ ShownUrl' = ShownUrl /\ clock \in Nat /\ clock > 9
  BY DEF Mounted, ShownUrl, ServerInv
<1>2. CASE ~Loads(Mounted)
  <2>1. UNCHANGED viewer
    BY <1>2 DEF ReloadViewer, viewer
  <2> QED
    BY <1>1, <2>1, ViewerSteady
<1>3. CASE Loads(Mounted)
  <2>1. Effect(view, Mounted)
    BY <1>3 DEF ReloadViewer
  <2>2. view \in Paths \cup {None} /\ as \in Overrides \cup {None}
    BY DEF ViewerInv, ScreenInv
  <2>3. Mounted \in Kinds \cup {None} /\ view # None
    BY <1>3, <2>2, ComponentKind DEF Mounted, Loads
  <2>4. /\ \A r \in runs' : /\ r \in RunType /\ r.id \in 1 .. clock
                            /\ r.got # None => r.kind \in Decodes
                            /\ r.live => r.path = view /\ r.kind = Mounted
        /\ \A r, s \in runs' : r.live /\ s.live => r = s
        /\ \A r \in runs : r.got # None => \E s \in runs' : s.id = r.id /\ s.got # None
    BY <2>1, <2>2, <2>3, EffectRuns DEF ViewerInv
  <2>5. RunsInv'
    BY <1>1, <2>4 DEF RunsInv
  <2>9. ScreenInv'
    <3>1. \A i \in 1 .. clock - 1 : i \in 1 .. clock' - 1
      BY <1>1, Earlier
    <3> QED
      BY <1>1, <3>1 DEF ViewerInv, ScreenInv
  <2>6. blobs' = blobs \ ShownUrl
    BY <2>1 DEF Effect
  <2>10. Decoding \subseteq Decoding'
    BY <2>4 DEF Decoding
  <2>7. BlobsInv'
    BY <1>1, <2>6, <2>10 DEF ViewerInv, BlobsInv
  <2>8. EditorInv' /\ SavesInv'
    BY <1>1 DEF ViewerInv, EditorInv, EditorType, SavesInv
  <2> QED
    BY <2>5, <2>7, <2>8, <2>9 DEF ViewerInv
<1> QED
  BY <1>2, <1>3

(* What is shown is not of a kind that keeps its object URL while a fetch  *)
(* of another kind is live.                                                *)
LEMMA LiveRun ==
  ASSUME ViewerInv, NEW r \in runs
  PROVE  /\ r \in RunType /\ r.id \in 1 .. clock - 1 /\ (r.got # None => r.kind \in Decodes)
         /\ r.live => /\ r.path = view /\ r.kind = Mounted
                      /\ \A x \in runs \ {r} : ~x.live
                      /\ r.kind \notin Revokes => ShownUrl = {}
                      /\ r.kind \in Revokes => blobs \subseteq Decoding
<1>1. /\ r \in RunType /\ r.id \in 1 .. clock - 1 /\ (r.got # None => r.kind \in Decodes)
      /\ r.live => r.path = view /\ r.kind = Mounted
      /\ \A x \in runs : r.live /\ x.live => r = x
  BY DEF ViewerInv, RunsInv
<1>2. shown # None => shown.kind = Mounted
  BY DEF ViewerInv, ScreenInv
<1>3. r.live /\ r.kind \in Revokes => blobs \subseteq Decoding
  BY DEF ViewerInv, BlobsInv
<1> QED
  BY <1>1, <1>2, <1>3 DEF ShownUrl

LEMMA DisplayStep ==
  ASSUME ViewerInv, NEW r \in runs, r.live, NEW t \in Contents, Display(r, t), UNCHANGED <<view, as, clock>>
  PROVE  /\ ScreenInv'
         /\ ShownUrl' = IF r.kind \in Revokes THEN {r.id} ELSE {}
<1> DEFINE s == [id |-> r.id, kind |-> r.kind, path |-> r.path, text |-> t]
<1>1. /\ r.id \in Nat /\ r.kind \in Kinds /\ r.path \in Paths /\ r.id \in 1 .. clock - 1
      /\ r.path = view /\ r.kind = Mounted
  BY LiveRun DEF RunType
<1>2. shown' = s /\ s \in ShownType /\ s.id = r.id /\ s.kind = r.kind /\ s.path = r.path
  BY <1>1 DEF Display, ShownType
<1>3. s # None
  BY <1>2, ViewersAssumption DEF ShownType, Paths
<1> HIDE DEF s
<1>4. Mounted' = Mounted /\ view' = view /\ as' = as /\ clock' = clock
  BY DEF Mounted
<1>5. ScreenInv'
  BY <1>1, <1>2, <1>4 DEF ViewerInv, ScreenInv
<1> QED
  BY <1>2, <1>3, <1>5 DEF ShownUrl

\* The editor, its saves and badges do not change.
LEMMA EditorSame ==
  ASSUME ViewerInv, UNCHANGED <<clock, view, as, editor, saves, badges>>
  PROVE  EditorInv' /\ SavesInv' /\ Mounted' = Mounted
BY DEF ViewerInv, EditorInv, SavesInv, Mounted

LEMMA RunsGone ==
  ASSUME ViewerInv, NEW r \in runs, runs' = runs \ {r}, UNCHANGED <<clock, view, as>>
  PROVE  RunsInv' /\ (r.live => \A x \in runs' : ~x.live)
<1>1. Mounted' = Mounted
  BY DEF Mounted
<1>2. r.live => \A x \in runs' : ~x.live
  BY LiveRun
<1> QED
  BY <1>1, <1>2 DEF ViewerInv, RunsInv

LEMMA FetchedStep ==
  ASSUME ServerInv, ViewerInv, NEW r, Fetched(r)
  PROVE  ViewerInv' /\ UNCHANGED server
<1>1. /\ r \in runs /\ r.got = None /\ Exists(r.path) /\ UNCHANGED server
      /\ clock' = clock /\ view' = view /\ as' = as /\ editor' = editor /\ saves' = saves
      /\ badges' = badges
  BY DEF Fetched, server
<1>2. EditorInv' /\ SavesInv' /\ Mounted' = Mounted
  BY <1>1, EditorSame
<1>3. db.text[r.path] \in Contents /\ None \notin Contents
  BY <1>1, AccountParts, FileServerAssumption DEF ServerInv, FilesInv, Exists
<1>4. blobs \subseteq Decoding \cup ShownUrl
  BY DEF ViewerInv, BlobsInv
<1>5. UNCHANGED shown => ScreenInv' /\ ShownUrl' = ShownUrl
  BY <1>1, <1>2 DEF ViewerInv, ScreenInv, ShownUrl
<1>6. CASE r.kind \in Revokes
  <2>1. runs' = runs \ {r} /\ UrlArrives(r)
    BY <1>6 DEF Fetched, Revokes, Decodes
  <2>2. RunsInv' /\ (r.live => \A x \in runs' : ~x.live)
    BY <1>1, <2>1, RunsGone
  <2>5. Decoding' = Decoding
    BY <1>1, <2>1 DEF Decoding
  <2>3. CASE r.live
    <3>1. ScreenInv' /\ ShownUrl' = {r.id} /\ blobs' = blobs \cup {r.id}
      BY <1>1, <1>3, <1>6, <2>1, <2>3, DisplayStep DEF UrlArrives
    <3>2. blobs \subseteq Decoding
      BY <1>1, <1>6, <2>3, LiveRun
    <3>3. BlobsInv'
      BY <2>2, <2>3, <2>5, <3>1, <3>2 DEF BlobsInv
    <3> QED
      BY <1>1, <1>2, <2>2, <3>1, <3>3 DEF ViewerInv
  <2>4. CASE ~r.live
    <3>1. ScreenInv' /\ ShownUrl' = ShownUrl /\ blobs' = blobs
      BY <1>5, <2>1, <2>4 DEF UrlArrives
    <3>2. BlobsInv'
      BY <2>1, <2>5, <3>1 DEF ViewerInv, BlobsInv
    <3> QED
      BY <1>1, <1>2, <2>2, <3>1, <3>2 DEF ViewerInv
  <2> QED
    BY <2>3, <2>4
<1>7. CASE r.kind \in Decodes
  <2> DEFINE n == [r EXCEPT !.got = db.text[r.path]]
  <2>1. runs' = (runs \ {r}) \cup {n} /\ blobs' = blobs \cup {r.id} /\ UNCHANGED shown
    BY <1>7 DEF Fetched, Revokes, Decodes
  <2>2. /\ n \in RunType /\ n.id = r.id /\ n.path = r.path /\ n.kind = r.kind /\ n.live = r.live
        /\ n.got # None
    BY <1>1, <1>3, LiveRun DEF RunType, Text
  <2> HIDE DEF n
  <2>3. RunsInv'
    BY <1>1, <1>2, <1>7, <2>1, <2>2, LiveRun DEF ViewerInv, RunsInv
  <2>4. Decoding' = Decoding \cup {r.id}
    BY <1>1, <2>1, <2>2 DEF Decoding
  <2>5. r.kind \notin Revokes
    BY <1>7 DEF Revokes, Decodes
  <2>6. ASSUME NEW x \in runs', x.live, x.kind \in Revokes
        PROVE  blobs' \subseteq Decoding'
    <3>1. x \in runs
      BY <2>1, <2>2, <2>5, <2>6
    <3> QED
      BY <2>1, <2>4, <2>6, <3>1, LiveRun
  <2>7. BlobsInv'
    BY <1>4, <1>5, <2>1, <2>4, <2>6 DEF BlobsInv
  <2> QED
    BY <1>1, <1>2, <1>5, <2>1, <2>3, <2>7 DEF ViewerInv
<1>8. CASE r.kind \notin Revokes \cup Decodes
  <2>1. /\ runs' = runs \ {r} /\ UNCHANGED blobs
        /\ IF r.live THEN Display(r, db.text[r.path]) ELSE UNCHANGED shown
    BY <1>8 DEF Fetched
  <2>2. RunsInv' /\ (r.live => \A x \in runs' : ~x.live)
    BY <1>1, <2>1, RunsGone
  <2>3. ScreenInv' /\ ShownUrl' = ShownUrl
    BY <1>1, <1>3, <1>5, <1>8, <2>1, DisplayStep, LiveRun
  <2>5. Decoding' = Decoding
    BY <1>1, <2>1 DEF Decoding
  <2>4. BlobsInv'
    BY <2>1, <2>3, <2>5 DEF ViewerInv, BlobsInv
  <2> QED
    BY <1>1, <1>2, <2>2, <2>3, <2>4 DEF ViewerInv
<1> QED
  BY <1>6, <1>7, <1>8

LEMMA FetchFailsStep ==
  ASSUME ServerInv, ViewerInv, NEW r, FetchFails(r)
  PROVE  ViewerInv'
<1>1. /\ r \in runs /\ r.got = None /\ runs' = runs \ {r} /\ clock' = clock /\ view' = view
      /\ as' = as /\ blobs' = blobs /\ shown' = shown /\ editor' = editor /\ saves' = saves
      /\ badges' = badges
  BY DEF FetchFails
<1>2. EditorInv' /\ SavesInv' /\ Mounted' = Mounted /\ RunsInv'
  BY <1>1, EditorSame, RunsGone
<1>3. ScreenInv' /\ ShownUrl' = ShownUrl /\ Decoding' = Decoding
  BY <1>1, <1>2 DEF ViewerInv, ScreenInv, ShownUrl, Decoding
<1> QED
  BY <1>1, <1>2, <1>3 DEF ViewerInv, BlobsInv

LEMMA LoadedParts ==
  ASSUME EditorInv, NEW t \in Contents
  PROVE  /\ Loaded(t) \in EditorType
         /\ Loaded(t).mount = editor.mount /\ Loaded(t).initial = t /\ Loaded(t).current = t
         /\ Loaded(t).state = editor.state
BY DEF EditorInv, EditorType, Loaded, Text

LEMMA DecodedStep ==
  ASSUME ServerInv, ViewerInv, NEW r, Decoded(r)
  PROVE  ViewerInv' /\ UNCHANGED server
<1>1. /\ r \in runs /\ r.got # None /\ runs' = runs \ {r} /\ UNCHANGED server
      /\ clock' = clock /\ view' = view /\ as' = as /\ blobs' = blobs \ {r.id}
      /\ saves' = saves /\ badges' = badges
  BY DEF Decoded, server
<1>2. RunsInv' /\ (r.live => \A x \in runs' : ~x.live) /\ Mounted' = Mounted
  BY <1>1, RunsGone DEF Mounted
<1>3. r.kind \in Decodes /\ r.kind \notin Revokes /\ r.got \in Contents
  BY <1>1, LiveRun DEF Decodes, Revokes, RunType, Text
<1>4. \A b \in Decoding : b \in Decoding' \/ b = r.id
  BY <1>1 DEF Decoding
<1>5. CASE r.live
  <2>1. /\ Display(r, r.got)
        /\ editor' = IF r.kind = "markdown" THEN Loaded(r.got) ELSE editor
    BY <1>5 DEF Decoded
  <2>2. ScreenInv' /\ ShownUrl' = {}
    BY <1>1, <1>3, <1>5, <2>1, DisplayStep
  <2>3. ShownUrl = {}
    BY <1>1, <1>3, <1>5, LiveRun
  <2>4. BlobsInv'
    BY <1>1, <1>2, <1>4, <1>5, <2>2, <2>3 DEF ViewerInv, BlobsInv
  <2>5. r.path = view /\ r.kind = Mounted /\ view # None
    BY <1>1, <1>5, LiveRun, ComponentKind DEF RunType, ViewerInv, ScreenInv
  <2>6. CASE r.kind = "markdown"
    <3>1. /\ editor' \in EditorType /\ editor'.mount = editor.mount
          /\ editor'.current = r.got /\ editor'.state = editor.state
      BY <1>3, <2>1, <2>6, LoadedParts DEF ViewerInv
    <3>2. EditorInv' /\ SavesInv'
      BY <1>1, <1>2, <1>3, <2>5, <2>6, <3>1, FileServerAssumption
         DEF ViewerInv, EditorInv, EditorType, SavesInv
    <3> QED
      BY <1>1, <1>2, <2>2, <2>4, <3>2 DEF ViewerInv
  <2>7. CASE r.kind # "markdown"
    <3>1. EditorInv' /\ SavesInv'
      BY <1>1, <2>1, <2>7, EditorSame
    <3> QED
      BY <1>1, <1>2, <2>2, <2>4, <3>1 DEF ViewerInv
  <2> QED
    BY <1>1, <2>6, <2>7
<1>6. CASE ~r.live
  <2>1. shown' = shown /\ editor' = editor
    BY <1>6 DEF Decoded
  <2>2. EditorInv' /\ SavesInv'
    BY <1>1, <2>1, EditorSame
  <2>3. ScreenInv' /\ ShownUrl' = ShownUrl
    BY <1>1, <1>2, <2>1 DEF ViewerInv, ScreenInv, ShownUrl
  <2>4. BlobsInv'
    BY <1>1, <1>4, <2>3 DEF ViewerInv, BlobsInv
  <2> QED
    BY <1>1, <1>2, <2>2, <2>3, <2>4 DEF ViewerInv
<1> QED
  BY <1>1, <1>5, <1>6

----------------------------------------------------------------------------
(* The editor.                                                             *)

\* Nothing but the editor, its saves and badges.
LEMMA FetchesSame ==
  ASSUME ViewerInv, clock \in Nat, clock' \in Nat, clock <= clock',
         UNCHANGED <<view, as, runs, blobs, shown>>
  PROVE  RunsInv' /\ ScreenInv' /\ BlobsInv' /\ Mounted' = Mounted /\ view' = view
<1>1. /\ view' = view /\ as' = as /\ runs' = runs /\ blobs' = blobs /\ shown' = shown
      /\ Mounted' = Mounted /\ ShownUrl' = ShownUrl /\ Decoding' = Decoding
  BY DEF Mounted, ShownUrl, Decoding
<1>2. \A i \in 1 .. clock - 1 : i \in 1 .. clock' - 1
  BY Earlier
<1>3. RunsInv'
  BY <1>1, <1>2 DEF ViewerInv, RunsInv
<1>4. ScreenInv'
  BY <1>1, <1>2 DEF ViewerInv, ScreenInv
<1>5. BlobsInv'
  BY <1>1 DEF ViewerInv, BlobsInv
<1> QED
  BY <1>1, <1>3, <1>4, <1>5

LEMMA TypeStep ==
  ASSUME ServerInv, ViewerInv, NEW t \in Texts, Type(t)
  PROVE  ViewerInv'
<1>1. /\ editor.initial # None /\ editor' = [editor EXCEPT !.buffer = t, !.current = t]
      /\ UNCHANGED <<clock, view, as, runs, blobs, shown, saves, badges>>
  BY DEF Type, OnScreen
<1>2. t \in Contents /\ None \notin Contents
  BY FileServerAssumption DEF Contents
<1>3. RunsInv' /\ ScreenInv' /\ BlobsInv' /\ Mounted' = Mounted /\ view' = view
  BY <1>1, FetchesSame DEF ServerInv
<1>4. editor \in EditorType /\ (view = None => editor = NoEditor)
  BY DEF ViewerInv, EditorInv, EditorType
<1>5. /\ editor' \in EditorType /\ editor'.mount = editor.mount /\ editor'.current = t
      /\ editor'.state = editor.state /\ editor'.initial = editor.initial
  BY <1>1, <1>2, <1>4 DEF EditorType, Text
<1>6. view # None
  BY <1>1, <1>4 DEF NoEditor
<1>7. EditorInv' /\ SavesInv'
  BY <1>1, <1>2, <1>3, <1>5, <1>6 DEF ViewerInv, EditorInv, EditorType, SavesInv
<1> QED
  BY <1>3, <1>7 DEF ViewerInv

LEMMA HandleSaveStep ==
  ASSUME ServerInv, ViewerInv, HandleSave
  PROVE  ViewerInv' /\ clock' = clock + 1
<1> DEFINE n == [mount |-> editor.mount, path |-> view, text |-> editor.current, id |-> clock,
                 out |-> None]
<1>1. /\ editor.initial # None /\ editor.state # "saving" /\ clock' = clock + 1
      /\ editor' = [editor EXCEPT !.state = "saving"] /\ saves' = saves \cup {n}
      /\ UNCHANGED <<view, as, runs, blobs, shown, badges>>
  BY DEF HandleSave, OnScreen, CanSave
<1>2. clock \in Nat /\ clock' \in Nat /\ clock <= clock' /\ clock > 9
  BY <1>1 DEF ServerInv
<1>3. RunsInv' /\ ScreenInv' /\ BlobsInv' /\ Mounted' = Mounted /\ view' = view
  BY <1>1, <1>2, FetchesSame
<1>4. /\ editor \in EditorType /\ editor.mount < clock /\ editor.mount # 0
      /\ editor.current # None /\ (Mounted = "markdown" => editor.mount # 0)
      /\ (view = None => editor = NoEditor)
  BY <1>1 DEF ViewerInv, EditorInv, EditorType
<1>5. /\ editor' \in EditorType /\ editor'.mount = editor.mount /\ editor'.state = "saving"
      /\ editor'.initial = editor.initial /\ editor'.current = editor.current
  BY <1>1, <1>4 DEF EditorType
<1>6. view # None
  BY <1>1, <1>4 DEF NoEditor
<1>7. EditorInv'
  BY <1>1, <1>2, <1>3, <1>4, <1>5, <1>6 DEF EditorInv, EditorType
<1>8. n \in SaveType /\ n.mount = editor.mount /\ n.mount \in 1 .. clock' - 1
  BY <1>1, <1>2, <1>4 DEF SaveType, EditorType, Text, ViewerInv, ScreenInv
<1> HIDE DEF n
<1>9. \A s \in saves : s \in SaveType /\ s.mount \in 1 .. clock' - 1 /\ s.mount # editor.mount
  BY <1>1, <1>2, Earlier DEF ViewerInv, SavesInv
<1>10. SavesInv'
  BY <1>1, <1>5, <1>8, <1>9 DEF ViewerInv, SavesInv
<1> QED
  BY <1>1, <1>3, <1>7, <1>10 DEF ViewerInv

LEMMA SaveServedStep ==
  ASSUME ServerInv, ViewerInv, NEW s, SaveServed(s)
  PROVE  ViewerInv' /\ AccountInv(db', clock) /\ clock' = clock
<1> DEFINE N(out) == [s EXCEPT !.out = out]
           new == Changed("save", s.path, s.text)
<1>1. /\ s \in saves /\ clock' = clock
      /\ UNCHANGED <<view, as, runs, blobs, shown, editor, badges>>
      /\ db' \in {db, new} /\ \E out \in {Done, Refused} : saves' = (saves \ {s}) \cup {N(out)}
  BY DEF SaveServed
<1>2. s \in SaveType
  BY <1>1 DEF ViewerInv, SavesInv
<1>3. AccountInv(db', clock)
  <2>1. s.text \in Contents
    BY <1>2 DEF SaveType
  <2>2. AccountInv(new, clock)
    BY <2>1, ChangedAccount
  <2> HIDE DEF new
  <2> QED
    BY <1>1, <2>2 DEF ServerInv
<1>4. PICK out \in {Done, Refused} : saves' = (saves \ {s}) \cup {N(out)}
  BY <1>1
<1>5. N(out) \in SaveType /\ N(out).mount = s.mount
  BY <1>2 DEF SaveType
<1> HIDE DEF N
<1>6. SavesInv'
  BY <1>1, <1>4, <1>5 DEF ViewerInv, SavesInv
<1>7. RunsInv' /\ ScreenInv' /\ BlobsInv' /\ Mounted' = Mounted /\ view' = view
  BY <1>1, FetchesSame DEF ServerInv
<1>8. EditorInv'
  BY <1>1, <1>7 DEF ViewerInv, EditorInv
<1> QED
  BY <1>1, <1>3, <1>6, <1>7, <1>8 DEF ViewerInv

LEMMA SaveDoneStep ==
  ASSUME ServerInv, ViewerInv, NEW s, SaveDone(s)
  PROVE  ViewerInv' /\ UNCHANGED server
<1>1. /\ s \in saves /\ saves' = saves \ {s} /\ UNCHANGED server /\ clock' = clock
      /\ UNCHANGED <<view, as, runs, blobs, shown>>
      /\ badges' \subseteq badges \cup {[mount |-> s.mount, id |-> s.id]}
      /\ editor' = IF s.mount # editor.mount THEN editor
                   ELSE IF s.out = Done
                   THEN [editor EXCEPT !.initial = editor.current, !.synced = s.text,
                                       !.state = "saved"]
                   ELSE [editor EXCEPT !.state = "error"]
  BY DEF SaveDone, server
<1>2. RunsInv' /\ ScreenInv' /\ BlobsInv' /\ Mounted' = Mounted /\ view' = view
  BY <1>1, FetchesSame DEF ServerInv
<1>3. /\ editor \in EditorType /\ editor.mount < clock
      /\ (Mounted = "markdown" => editor.mount # 0)
      /\ editor.initial # None => editor.current # None /\ editor.mount # 0
      /\ (view = None => editor = NoEditor)
  BY DEF ViewerInv, EditorInv, EditorType
<1>4. s \in SaveType /\ s.mount \in 1 .. clock - 1 /\ \A x \in saves' : x.mount # s.mount
  BY <1>1 DEF ViewerInv, SavesInv
<1>5. /\ editor' \in EditorType /\ editor'.mount = editor.mount
      /\ s.mount # editor.mount => editor' = editor
      /\ editor'.initial \in {editor.initial, editor.current} /\ editor'.current = editor.current
  BY <1>1, <1>3, <1>4 DEF EditorType, SaveType, Text
<1>6. s.mount = editor.mount => editor.mount # 0 /\ view # None
  BY <1>3, <1>4 DEF NoEditor
<1>7. EditorInv'
  BY <1>1, <1>2, <1>3, <1>5, <1>6 DEF EditorInv, EditorType
<1>8. SavesInv'
  BY <1>1, <1>4, <1>5 DEF ViewerInv, SavesInv, SaveType
<1> QED
  BY <1>1, <1>2, <1>7, <1>8 DEF ViewerInv

LEMMA BadgeClearedStep ==
  ASSUME ServerInv, ViewerInv, NEW b, BadgeCleared(b)
  PROVE  ViewerInv' /\ UNCHANGED server
<1>1. /\ b \in badges /\ badges' = badges \ {b} /\ UNCHANGED server /\ clock' = clock
      /\ UNCHANGED <<view, as, runs, blobs, shown, saves>>
      /\ editor' = IF b.mount = editor.mount
                   THEN [editor EXCEPT !.state = Cleared(editor.state)] ELSE editor
  BY DEF BadgeCleared, server
<1>2. RunsInv' /\ ScreenInv' /\ BlobsInv' /\ Mounted' = Mounted /\ view' = view
  BY <1>1, FetchesSame DEF ServerInv
<1>3. /\ editor \in EditorType /\ editor.mount < clock
      /\ (Mounted = "markdown" => editor.mount # 0)
      /\ editor.initial # None => editor.current # None /\ editor.mount # 0
      /\ (view = None => editor = NoEditor)
  BY DEF ViewerInv, EditorInv, EditorType
<1>4. /\ editor' \in EditorType /\ editor'.mount = editor.mount
      /\ b.mount # editor.mount => editor' = editor
      /\ editor'.initial = editor.initial /\ editor'.current = editor.current
      /\ editor.state = "saving" => editor'.state = "saving"
  BY <1>1, <1>3 DEF EditorType, Cleared
<1>5. b.mount # 0
  BY <1>1 DEF ViewerInv, SavesInv
<1>6. EditorInv'
  BY <1>1, <1>2, <1>3, <1>4, <1>5 DEF EditorInv, EditorType, NoEditor
<1>7. SavesInv'
  BY <1>1, <1>4 DEF ViewerInv, SavesInv
<1> QED
  BY <1>1, <1>2, <1>6, <1>7 DEF ViewerInv

----------------------------------------------------------------------------
(* The dialogs.                                                            *)

LEMMA DialogsSteady ==
  ASSUME DialogsInv, faults \in Nat, faults' \in {faults, faults + 1},
         dialog' \in {dialog, Closed}, tasks' = tasks, stale' = stale
  PROVE  DialogsInv'
BY DEF DialogsInv

LEMMA NewTask ==
  ASSUME DialogsInv, ServerInv, NEW name \in Names, NEW of, NEW act \in Acts, NEW arg,
         NEW step \in {"change", "list"}, act = "restore" => name = "trash",
         tasks' = tasks \cup {Task(name, of, act, arg, step)},
         faults' = faults, stale' = stale, dialog' = Closed \/ dialog'.name \in Names
  PROVE  DialogsInv'
<1>1. IsTask(Task(name, of, act, arg, step))
  BY DEF IsTask, Task
<1> QED
  BY <1>1 DEF DialogsInv

LEMMA OpenDialogStep ==
  ASSUME DialogsInv, ServerInv, NEW name \in Names, NEW of, OpenDialog(name, of)
  PROVE  DialogsInv' /\ clock' = clock + 1 /\ UNCHANGED <<db, faults>>
<1>1. /\ dialog'.name \in Names /\ tasks' = tasks \cup {Task(name, of, "none", None, "list")}
      /\ clock' = clock + 1 /\ UNCHANGED <<db, faults, stale>>
  BY DEF OpenDialog, Refresh
<1> QED
  BY <1>1, NewTask DEF Acts

LEMMA ReloadDialogStep ==
  ASSUME DialogsInv, ServerInv, ReloadDialog, UNCHANGED <<faults, stale, dialog>>
  PROVE  DialogsInv'
<1>1. CASE dialog = Closed
  BY <1>1, DialogsSteady DEF ReloadDialog, ServerInv
<1>2. CASE dialog # Closed
  <2>1. /\ dialog.name \in Names
        /\ tasks' = tasks \cup {Task(dialog.name, dialog.of, "none", None, "list")}
    BY <1>2 DEF ReloadDialog, DialogsInv, Refresh
  <2> QED
    BY <2>1, NewTask DEF Acts
<1> QED
  BY <1>1, <1>2

LEMMA ClickStep ==
  ASSUME DialogsInv, ServerInv, NEW name \in Names, NEW act \in Acts, NEW arg,
         act = "restore" => name = "trash", Click(name, act, arg)
  PROVE  DialogsInv' /\ clock' = clock + 1 /\ UNCHANGED <<db, faults>>
<1>1. /\ tasks' = tasks \cup {Task(name, dialog.of, act, arg, "change")}
      /\ clock' = clock + 1 /\ UNCHANGED <<db, faults, dialog, stale>>
  BY DEF Click
<1>2. dialog = Closed \/ dialog.name \in Names
  BY DEF DialogsInv
<1> QED
  BY <1>1, <1>2, NewTask

LEMMA TaskField ==
  ASSUME NEW t, IsTask(t), NEW out \in {None, Done, Refused}, NEW got, NEW step \in {"change", "list"}
  PROVE  /\ IsTask([t EXCEPT !.out = out]) /\ IsTask([t EXCEPT !.got = got])
         /\ IsTask([t EXCEPT !.step = step])
<1> DEFINE R(s, o, g) == [id |-> t.id, name |-> t.name, of |-> t.of, act |-> t.act, arg |-> t.arg,
                          step |-> s, out |-> o, got |-> g]
<1>1. t = R(t.step, t.out, t.got) /\ t.step \in {"change", "list"} /\ t.out \in {None, Done, Refused}
  BY DEF IsTask
<1>2. \A s \in {"change", "list"}, o \in {None, Done, Refused} : \A g : IsTask(R(s, o, g))
  BY DEF IsTask
<1>3. /\ [t EXCEPT !.out = out] = R(t.step, out, t.got)
      /\ [t EXCEPT !.got = got] = R(t.step, t.out, got)
      /\ [t EXCEPT !.step = step] = R(step, t.out, t.got)
  BY <1>1
<1> HIDE DEF R
<1> QED
  BY <1>1, <1>2, <1>3

LEMMA ServedTask ==
  ASSUME NEW t, IsTask(t), NEW out \in {None, Done, Refused}, NEW got, NEW step \in {"change", "list"}
  PROVE  /\ IsTask([t EXCEPT !.out = out, !.got = got]) /\ IsTask([t EXCEPT !.out = out])
         /\ IsTask([t EXCEPT !.step = step, !.out = out])
<1> DEFINE u == [t EXCEPT !.out = out]
           v == [t EXCEPT !.step = step]
<1>1. /\ [t EXCEPT !.out = out, !.got = got] = [u EXCEPT !.got = got]
      /\ [t EXCEPT !.step = step, !.out = out] = [v EXCEPT !.out = out]
  OBVIOUS
<1>2. IsTask(u) /\ IsTask(v)
  BY TaskField
<1> HIDE DEF u, v
<1>3. IsTask([u EXCEPT !.got = got]) /\ IsTask([v EXCEPT !.out = out])
  BY <1>2, TaskField
<1> QED
  BY <1>1, <1>2, <1>3, Zenon DEF u

LEMMA TaskServedStep ==
  ASSUME ServerInv, DialogsInv, NEW t, TaskServed(t)
  PROVE  /\ DialogsInv' /\ AccountInv(db', clock) /\ clock' \in {clock, clock + 1}
         /\ faults' \in {faults, faults + 1}
<1> DEFINE new == Changed(t.act, t.of, t.arg)
           N(out) == [t EXCEPT !.out = out]
           Got == [t EXCEPT !.out = Done, !.got = Answer(t)]
<1>1. /\ t \in tasks /\ t.out = None /\ IsTask(t) /\ db' \in {db, new}
      /\ clock' \in {clock, clock + 1} /\ faults' \in {faults, faults + 1}
      /\ dialog' = dialog
  BY DEF TaskServed, DialogsInv, Fault
<1>2. AccountInv(db', clock)
  <2>1. t.act # "save"
    BY <1>1 DEF IsTask, Acts, Grants
  <2>2. AccountInv(new, clock)
    BY <2>1, ChangedAccount
  <2> HIDE DEF new
  <2> QED
    BY <1>1, <2>2 DEF ServerInv
<1>3. /\ IsTask(Got) /\ \A out \in {Done, Refused} : IsTask(N(out))
  BY <1>1, ServedTask
<1>4. /\ Got.step = t.step /\ Got.act = t.act /\ Got.out = Done
      /\ \A out \in {Done, Refused} :
           N(out).step = t.step /\ N(out).act = t.act /\ N(out).out = out
  BY <1>1 DEF IsTask
<1>5. PICK n : /\ n \in {Got, N(Done), N(Refused)} /\ tasks' = (tasks \ {t}) \cup {n}
               /\ \/ /\ t.step = "list" /\ faults' = faults /\ stale' = stale
                     /\ (Answers(t) => n.out = Done)
                  \/ /\ t.step = "change" /\ faults' = faults
                     /\ stale' = (stale \/ (Affects(t.act) /\ new # db))
                     /\ n = N(IF Accepted(t.act, new) THEN Done ELSE Refused)
                  \/ faults' = faults + 1 /\ stale' \in {stale, stale \/ Affects(t.act)}
  <2>1. \/ /\ t.step = "list" /\ UNCHANGED <<faults, stale>>
           /\ tasks' = (tasks \ {t}) \cup {IF Answers(t) THEN Got ELSE N(Refused)}
        \/ /\ t.step = "change" /\ UNCHANGED faults
           /\ tasks' = (tasks \ {t}) \cup {N(IF Accepted(t.act, new) THEN Done ELSE Refused)}
           /\ stale' = (stale \/ (Affects(t.act) /\ new # db))
        \/ /\ Fault /\ tasks' = (tasks \ {t}) \cup {N(Refused)}
           /\ stale' = stale \/ stale' = (stale \/ Affects(t.act))
    BY DEF TaskServed
  <2> HIDE DEF new, N, Got
  <2> QED
    BY <1>4, <2>1 DEF Fault
<1> HIDE DEF N, Got
<1>6. IsTask(n) /\ n.step = t.step /\ n.act = t.act
  BY <1>3, <1>4, <1>5
<1>7. \A x \in tasks' : IsTask(x)
  BY <1>5, <1>6 DEF DialogsInv
<1>8. stale \in BOOLEAN /\ stale' \in BOOLEAN
  BY <1>5 DEF DialogsInv
<1>9. ASSUME faults' = 0, stale'
      PROVE  \E x \in tasks' : Tells(x)
  <2>1. faults = 0 /\ faults' = faults /\ t.out # Done
    BY <1>1, <1>9, FileServerAssumption DEF ServerInv
  <2>2. CASE t.step = "list" /\ stale' = stale /\ (Answers(t) => n.out = Done)
    <3>1. PICK x \in tasks : Tells(x)
      BY <1>9, <2>1, <2>2 DEF DialogsInv
    <3>2. CASE x = t
      <4>1. t.act = "restore" /\ t.name = "trash"
        BY <1>1, <2>1, <3>1, <3>2 DEF Tells, IsTask
      <4>2. n.out = Done
        BY <2>2, <4>1 DEF Answers
      <4>3. Tells(n)
        BY <1>6, <2>2, <4>1, <4>2, FileServerAssumption DEF Tells
      <4> QED
        BY <1>5, <4>3
    <3> QED
      BY <1>5, <3>1, <3>2
  <2>3. CASE /\ t.step = "change" /\ stale' = (stale \/ (Affects(t.act) /\ new # db))
             /\ n = N(IF Accepted(t.act, new) THEN Done ELSE Refused)
    <3>1. CASE Affects(t.act) /\ new # db
      <4>1. n.out = Done
        BY <1>4, <2>3, <3>1 DEF Accepted
      <4>2. Tells(n)
        BY <1>6, <2>3, <3>1, <4>1 DEF Tells
      <4> QED
        BY <1>5, <4>2
    <3>2. CASE stale
      <4>1. PICK x \in tasks : Tells(x)
        BY <2>1, <3>2 DEF DialogsInv
      <4>2. x # t
        BY <2>1, <2>3, <4>1 DEF Tells
      <4> QED
        BY <1>5, <4>1, <4>2
    <3> QED
      BY <1>9, <2>3, <3>1, <3>2
  <2>4. faults' # faults + 1
    BY <2>1
  <2> QED
    BY <1>5, <2>2, <2>3, <2>4
<1> QED
  BY <1>1, <1>2, <1>7, <1>8, <1>9 DEF DialogsInv

LEMMA ChangesStep ==
  ASSUME ServerInv, DialogsInv, NEW t, Changes(t)
  PROVE  DialogsInv' /\ UNCHANGED server
<1>1. /\ t \in tasks /\ t.step = "change" /\ t.out # None /\ IsTask(t)
      /\ UNCHANGED server /\ faults' = faults /\ dialog' = dialog
      /\ stale \in BOOLEAN /\ (dialog = Closed \/ dialog.name \in Names)
  BY DEF Changes, DialogsInv, server
<1>2. CASE t.out = Done
  <2> DEFINE n == [t EXCEPT !.step = "list", !.out = None]
  <2>1. tasks' = (tasks \ {t}) \cup {n} /\ stale' = (stale /\ ~BumpsFirst(t))
    BY <1>2 DEF Changes
  <2>2. IsTask(n) /\ n.act = t.act /\ n.step = "list" /\ n.out = None
    <3>1. IsTask(n)
      BY <1>1, ServedTask
    <3> QED
      BY <1>1, <3>1 DEF IsTask
  <2> HIDE DEF n
  <2>3. ASSUME faults' = 0, stale'
        PROVE  \E x \in tasks' : Tells(x)
    <3>1. PICK x \in tasks : Tells(x)
      BY <1>1, <2>1, <2>3 DEF DialogsInv
    <3>2. CASE x = t
      <4>1. t.act = "restore"
        BY <1>1, <2>1, <2>3, <3>1, <3>2 DEF Tells, Affects, BumpsFirst
      <4>2. Tells(n)
        BY <2>2, <4>1, FileServerAssumption DEF Tells
      <4> QED
        BY <2>1, <4>2
    <3> QED
      BY <2>1, <3>1, <3>2
  <2>4. stale' \in BOOLEAN
    BY <2>1
  <2> QED
    BY <1>1, <2>1, <2>2, <2>3, <2>4 DEF DialogsInv
<1>3. CASE t.out # Done
  <2>1. tasks' = tasks \ {t} /\ stale' = stale
    BY <1>3 DEF Changes
  <2>2. ~Tells(t)
    BY <1>1, <1>3 DEF Tells
  <2> QED
    BY <1>1, <2>1, <2>2 DEF DialogsInv
<1> QED
  BY <1>1, <1>2, <1>3

LEMMA ListedStep ==
  ASSUME ServerInv, DialogsInv, NEW t, Listed(t)
  PROVE  DialogsInv' /\ UNCHANGED server
<1>1. /\ t \in tasks /\ t.step = "list" /\ tasks' = tasks \ {t}
      /\ UNCHANGED server /\ faults' = faults /\ dialog' = dialog /\ stale \in BOOLEAN
      /\ IF t.out = Refused THEN stale' = stale ELSE stale' = (stale /\ ~BumpsLast(t))
  BY DEF Listed, DialogsInv, server
<1>2. stale' \in BOOLEAN /\ (stale' => stale)
  BY <1>1
<1>3. stale' => ~Tells(t)
  BY <1>1 DEF Tells, BumpsLast
<1> QED
  BY <1>1, <1>2, <1>3 DEF DialogsInv

----------------------------------------------------------------------------
(* Every step of the page.                                                 *)

LEMMA InitInv == Init => OInv
<1> SUFFICES ASSUME Init PROVE OInv
  OBVIOUS
<1>1. /\ db = Start /\ clock = 10 /\ faults = 0 /\ view = None /\ as = None /\ runs = {}
      /\ blobs = {} /\ shown = None /\ editor = NoEditor /\ saves = {} /\ badges = {}
      /\ dialog = Closed /\ tasks = {} /\ stale = FALSE
  BY DEF Init, ViewersInit, DialogsInit
<1>2. ServerInv
  <2>1. \A i \in DOMAIN Start.bin : Start.bin[i] \in Range(Start.bin)
    BY DEF Range
  <2>2. \A e \in Range(Start.bin) : e.text \in Contents /\ e.history \in Seq(Contents)
    BY FileServerAssumption DEF Contents
  <2>3. DOMAIN Start.bin \cup DOMAIN Start.shares \subseteq 1 .. 10
    BY FileServerAssumption
  <2>4. AccountInv(Start, 10)
    BY <2>1, <2>2, <2>3, FileServerAssumption DEF AccountInv
  <2> QED
    BY <1>1, <2>4 DEF ServerInv
<1>3. Mounted = None
  BY <1>1 DEF Mounted, Component
<1>4. RunsInv /\ ScreenInv /\ BlobsInv /\ SavesInv
  BY <1>1 DEF RunsInv, ScreenInv, BlobsInv, SavesInv
<1>5. EditorInv
  <2>1. /\ editor = [mount |-> 0, initial |-> None, current |-> None, buffer |-> None,
                     synced |-> None, state |-> "idle"]
        /\ clock = 10
    BY <1>1 DEF NoEditor
  <2>2. Mounted # "markdown"
    BY <1>3, ViewersAssumption DEF Kinds, Decodes
  <2> QED
    BY <1>1, <2>1, <2>2 DEF EditorInv, EditorType, Text
<1>6. DialogsInv
  BY <1>1 DEF DialogsInv
<1> QED
  BY <1>2, <1>4, <1>5, <1>6 DEF ViewerInv, OInv

\* The account and the clock after a step.
LEMMA ServerStep ==
  ASSUME ServerInv, AccountInv(db', clock), clock' \in {clock, clock + 1},
         faults' \in {faults, faults + 1}
  PROVE  ServerInv'
<1>1. clock' \in Nat /\ clock' > 9 /\ faults' \in Nat /\ clock <= clock' /\ clock \in Nat
  BY DEF ServerInv
<1> QED
  BY <1>1, AccountGrows DEF ServerInv

\* The user opens a view; the dialog is what it was or closes.
LEMMA ViewStep ==
  ASSUME OInv, NEW p \in Paths \cup {None}, NEW o \in Overrides \cup {None}, p = None => o = None,
         Show(p, o), UNCHANGED <<db, faults, tasks, stale>>, dialog' \in {dialog, Closed}
  PROVE  OInv'
<1>1. ViewerInv' /\ clock' \in {clock, clock + 1}
  BY ShowStep DEF OInv
<1>2. DialogsInv'
  BY DialogsSteady DEF OInv, ServerInv
<1>3. ServerInv'
  BY <1>1, ServerStep DEF OInv, ServerInv
<1> QED
  BY <1>1, <1>2, <1>3 DEF OInv

LEMMA OnPageStep ==
  ASSUME OInv, NEW p, OnPage(p)
  PROVE  OInv'
<1>1. p \in Paths
  BY DEF OnPage, Paths
<1>2. CASE Show(p, None) /\ UNCHANGED <<db, faults, dialogs>>
  BY <1>1, <1>2, ViewStep DEF dialogs
<1>3. CASE \E n \in {"share", "versions"} : OpenDialog(n, p) /\ UNCHANGED viewer
  <2>1. DialogsInv' /\ clock' = clock + 1 /\ UNCHANGED <<db, faults>>
    BY <1>3, OpenDialogStep DEF OInv, Names
  <2>2. ServerInv'
    BY <2>1, ServerStep DEF OInv, ServerInv
  <2>3. ViewerInv'
    BY <1>3, <2>1, ViewerSteady DEF OInv, ServerInv
  <2> QED
    BY <2>1, <2>2, <2>3 DEF OInv
<1>4. CASE /\ db' = Changed("trash", p, None) /\ clock' = clock + 1
           /\ UNCHANGED <<faults, viewer, dialogs>>
  <2>1. AccountInv(db', clock)
    BY <1>4, ChangedAccount DEF OInv
  <2>2. ServerInv'
    BY <1>4, <2>1, ServerStep DEF OInv
  <2>3. ViewerInv'
    BY <1>4, ViewerSteady DEF OInv, ServerInv
  <2>4. DialogsInv'
    BY <1>4, DialogsSteady DEF OInv, ServerInv, dialogs
  <2> QED
    BY <2>2, <2>3, <2>4 DEF OInv
<1> QED
  BY <1>2, <1>3, <1>4 DEF OnPage

LEMMA OnBarStep ==
  ASSUME OInv, OnBar
  PROVE  OInv'
<1>1. UNCHANGED viewer /\ \E n \in Names : \E of : OpenDialog(n, of)
  BY DEF OnBar, Names
<1>2. DialogsInv' /\ clock' = clock + 1 /\ UNCHANGED <<db, faults>>
  BY <1>1, OpenDialogStep DEF OInv
<1>3. ServerInv'
  BY <1>2, ServerStep DEF OInv, ServerInv
<1>4. ViewerInv'
  BY <1>1, <1>2, ViewerSteady DEF OInv, ServerInv
<1> QED
  BY <1>2, <1>3, <1>4 DEF OInv

LEMMA TokenRefreshedStep ==
  ASSUME OInv, TokenRefreshed
  PROVE  OInv'
<1>1. /\ ReloadViewer /\ ReloadDialog /\ clock' = clock + 1
      /\ UNCHANGED <<db, faults, view, as, shown, failed, editor, saves, badges, dialog, stale>>
  BY DEF TokenRefreshed
<1>2. ViewerInv'
  BY <1>1, ReloadStep DEF OInv
<1>3. DialogsInv'
  BY <1>1, ReloadDialogStep DEF OInv
<1>4. ServerInv'
  BY <1>1, ServerStep DEF OInv, ServerInv
<1> QED
  BY <1>2, <1>3, <1>4 DEF OInv

LEMMA ViewingStep ==
  ASSUME OInv, Viewing, UNCHANGED dialogs
  PROVE  OInv'
<1>1. dialog' = dialog /\ tasks' = tasks /\ stale' = stale
  BY DEF dialogs
<1> DEFINE Fits == ViewerInv' /\ AccountInv(db', clock) /\ clock' \in {clock, clock + 1}
                   /\ faults' \in {faults, faults + 1}
<1>2. ServerInv /\ ViewerInv /\ DialogsInv /\ AccountInv(db, clock)
  BY DEF OInv, ServerInv
<1>3. ASSUME Fits
      PROVE  OInv'
  <2>1. ServerInv'
    BY <1>2, <1>3, ServerStep
  <2>2. DialogsInv'
    BY <1>1, <1>2, <1>3, DialogsSteady DEF ServerInv
  <2> QED
    BY <1>3, <2>1, <2>2 DEF OInv
<1>4. CASE CloseViewer
  BY <1>1, <1>4, ViewStep DEF CloseViewer
<1>5. CASE HandleSave
  <2>1. UNCHANGED <<db, faults>>
    BY <1>5 DEF HandleSave
  <2> QED
    BY <1>2, <1>3, <1>5, <2>1, HandleSaveStep
<1>6. ASSUME NEW o \in Overrides, SetOverride(o)
      PROVE  OInv'
  <2>1. Show(view, o) /\ UNCHANGED <<db, faults>> /\ Mounted = "other"
    BY <1>6 DEF SetOverride
  <2>2. view \in Paths \cup {None} /\ view # None
    <3>1. view = None => Mounted = None
      BY DEF Mounted, Component
    <3> QED
      BY <1>2, <2>1, <3>1, ViewersAssumption DEF ViewerInv, ScreenInv, Kinds
  <2> QED
    BY <1>1, <2>1, <2>2, ViewStep
<1>7. ASSUME NEW t \in Texts, Type(t)
      PROVE  OInv'
  <2>1. UNCHANGED <<db, clock, faults>>
    BY <1>7 DEF Type
  <2> QED
    BY <1>2, <1>3, <1>7, <2>1, TypeStep
<1>8. ASSUME NEW r \in runs, Fetched(r)
      PROVE  OInv'
  BY <1>2, <1>3, <1>8, FetchedStep DEF server
<1>9. ASSUME NEW r \in runs, FetchFails(r)
      PROVE  OInv'
  <2>1. /\ UNCHANGED <<db, clock>> /\ faults' \in {faults, faults + 1}
    BY <1>9 DEF FetchFails, Fault
  <2> QED
    BY <1>2, <1>3, <1>9, <2>1, FetchFailsStep
<1>10. ASSUME NEW r \in runs, Decoded(r)
       PROVE  OInv'
  BY <1>2, <1>3, <1>10, DecodedStep DEF server
<1>11. ASSUME NEW s \in saves, SaveServed(s)
       PROVE  OInv'
  <2>1. faults' \in {faults, faults + 1}
    BY <1>11 DEF SaveServed, Fault
  <2> QED
    BY <1>2, <1>3, <1>11, <2>1, SaveServedStep
<1>12. ASSUME NEW s \in saves, SaveDone(s)
       PROVE  OInv'
  BY <1>2, <1>3, <1>12, SaveDoneStep DEF server
<1>13. ASSUME NEW b \in badges, BadgeCleared(b)
       PROVE  OInv'
  BY <1>2, <1>3, <1>13, BadgeClearedStep DEF server
<1> QED
  BY <1>4, <1>5, <1>6, <1>7, <1>8, <1>9, <1>10, <1>11, <1>12, <1>13 DEF Viewing

LEMMA TalkingStep ==
  ASSUME OInv, Talking, UNCHANGED viewer
  PROVE  OInv'
<1> DEFINE Fits == DialogsInv' /\ AccountInv(db', clock) /\ clock' \in {clock, clock + 1}
                   /\ faults' \in {faults, faults + 1}
<1>1. ServerInv /\ ViewerInv /\ DialogsInv /\ AccountInv(db, clock)
  BY DEF OInv, ServerInv
<1>2. ASSUME Fits
      PROVE  OInv'
  <2>1. ServerInv'
    BY <1>1, <1>2, ServerStep
  <2>2. clock \in Nat /\ clock' \in Nat /\ clock <= clock'
    BY <1>1, <1>2 DEF ServerInv
  <2>3. ViewerInv'
    BY <1>1, <2>2, ViewerSteady
  <2> QED
    BY <1>2, <2>1, <2>3 DEF OInv
<1>3. CASE CloseDialog
  <2>1. UNCHANGED <<db, clock, faults, tasks, stale>> /\ dialog' = Closed
    BY <1>3 DEF CloseDialog, server
  <2>2. DialogsInv'
    BY <1>1, <2>1, DialogsSteady DEF ServerInv
  <2> QED
    BY <1>1, <1>2, <2>1, <2>2
<1>4. ASSUME NEW name \in Names, NEW act \in Acts, NEW arg, act = "restore" => name = "trash",
             Click(name, act, arg)
      PROVE  OInv'
  <2>1. DialogsInv' /\ clock' = clock + 1 /\ UNCHANGED <<db, faults>>
    BY <1>1, <1>4, ClickStep
  <2> QED
    BY <1>1, <1>2, <2>1
<1>5. CASE \/ EmptyTrash \/ \E act \in Grants : SubmitShare(act)
           \/ \E i \in 1 .. clock : Revoke(i) \/ RestoreVersion(i) \/ RestoreTrash(i) \/ PurgeTrash(i)
  <2>1. \E name \in Names, act \in Acts : \E arg :
          Click(name, act, arg) /\ (act = "restore" => name = "trash")
    BY <1>5 DEF EmptyTrash, SubmitShare, Revoke, RestoreVersion, RestoreTrash, PurgeTrash, Names,
                Acts, Grants
  <2> QED
    BY <1>4, <2>1
<1>6. ASSUME NEW t \in tasks, TaskServed(t)
      PROVE  OInv'
  BY <1>1, <1>2, <1>6, TaskServedStep
<1>7. ASSUME NEW t \in tasks, Changes(t) \/ Listed(t)
      PROVE  OInv'
  <2>1. DialogsInv' /\ UNCHANGED server
    BY <1>1, <1>7, ChangesStep, ListedStep
  <2> QED
    BY <1>1, <1>2, <2>1 DEF server
<1> QED
  BY <1>3, <1>5, <1>6, <1>7 DEF Talking

LEMMA OthersStep ==
  ASSUME OInv, UNCHANGED <<viewer, dialogs>>,
         \/ \E i \in DOMAIN db.shares, t \in Texts : GuestSaves(i, t)
         \/ \E i \in DOMAIN db.theirs : OthersRevoke(i)
  PROVE  OInv'
<1>1. ServerInv /\ ViewerInv /\ DialogsInv /\ AccountInv(db, clock) /\ clock \in Nat
  BY DEF OInv, ServerInv
<1>2. clock' = clock /\ faults' = faults
  BY DEF GuestSaves, OthersRevoke
<1>3. AccountInv(db', clock)
  <2>1. ASSUME NEW i \in DOMAIN db.shares, NEW t \in Texts, GuestSaves(i, t)
        PROVE  AccountInv(db', clock)
    <3>1. db' = Overwritten(db.shares[i].path, t) /\ Exists(db.shares[i].path) /\ t \in Contents
      BY <2>1 DEF GuestSaves, Contents
    <3> QED
      BY <1>1, <3>1, OverwrittenAccount
  <2>2. ASSUME NEW i \in DOMAIN db.theirs, OthersRevoke(i)
        PROVE  AccountInv(db', clock)
    <3>1. db' = [db EXCEPT !.theirs = Without(db.theirs, {i})]
      BY <2>2 DEF OthersRevoke
    <3> QED
      BY <1>1, <3>1, TheirsAccount
  <2> QED
    BY <2>1, <2>2
<1>4. ServerInv'
  BY <1>1, <1>2, <1>3, ServerStep
<1>5. ViewerInv' /\ DialogsInv'
  BY <1>1, <1>2, ViewerSteady, DialogsSteady DEF dialogs, ServerInv
<1> QED
  BY <1>4, <1>5 DEF OInv

LEMMA NextInv == OInv /\ [Next]_vars => OInv'
<1> SUFFICES ASSUME OInv, [Next]_vars PROVE OInv'
  OBVIOUS
<1>1. ASSUME NEW p \in DOMAIN Detected, PickEntry(p) \/ LateView(p)
      PROVE  OInv'
  <2>1. Show(p, None) /\ UNCHANGED <<db, faults, tasks, stale>> /\ dialog' \in {dialog, Closed}
    BY <1>1 DEF PickEntry, LateView, dialogs
  <2> QED
    BY <2>1, ViewStep DEF Paths
<1>2. CASE UNCHANGED vars
  <2>1. UNCHANGED viewer /\ UNCHANGED <<db, clock, faults, dialog, tasks, stale>>
    BY <1>2 DEF vars, dialogs, server
  <2>2. ServerInv'
    BY <2>1, ServerStep DEF OInv, ServerInv
  <2>3. ViewerInv' /\ DialogsInv'
    BY <2>1, ViewerSteady, DialogsSteady DEF OInv, ServerInv
  <2> QED
    BY <2>2, <2>3 DEF OInv
<1> QED
  BY <1>1, <1>2, OnPageStep, OnBarStep, TokenRefreshedStep, ViewingStep, TalkingStep, OthersStep
     DEF Next

LEMMA Inductive == Spec => []OInv
BY InitInv, NextInv, PTL DEF Spec

----------------------------------------------------------------------------
(* What the page promises.                                                 *)

(* The account, the URL and the dialogs stay well formed: whatever is      *)
(* asked for, served or lost.                                              *)
THEOREM TypeCorrect == Spec => []TypeOK
<1>1. OInv => TypeOK
  <2> SUFFICES ASSUME OInv PROVE TypeOK
    OBVIOUS
  <2>1. /\ DOMAIN db.text = DOMAIN db.history
        /\ DOMAIN db.bin \cup DOMAIN db.shares \subseteq 1 .. clock
    BY DEF OInv, ServerInv, AccountInv
  <2>2. view = None => as = None /\ shown = None /\ editor = NoEditor
    BY ComponentKind DEF OInv, ViewerInv, ScreenInv, EditorInv, ShownType
  <2>3. blobs \subseteq 1 .. clock
    <3>1. \A i \in 1 .. clock - 1 : i \in 1 .. clock
      BY Earlier DEF OInv, ServerInv
    <3> QED
      BY <3>1 DEF OInv, ViewerInv, BlobsInv, RunsInv, ScreenInv, Decoding, ShownUrl
  <2> QED
    BY <2>1, <2>2, <2>3 DEF OInv, DialogsInv, TypeOK
<1> QED
  BY <1>1, Inductive, PTL

(* fetchAsBlob's callers revoke its object URLs, however views are opened, *)
(* closed and reloaded around their fetches: none is ever left over.       *)
THEOREM NoUrlLeaks == Spec => []BlobsAreOwned
<1>1. OInv => BlobsAreOwned
  <2> SUFFICES ASSUME OInv PROVE BlobsAreOwned
    OBVIOUS
  <2>1. blobs \subseteq Decoding \cup ShownUrl
    BY DEF OInv, ViewerInv, BlobsInv
  <2> QED
    BY <2>1 DEF Decoding, ShownUrl, BlobsAreOwned
<1> QED
  BY <1>1, Inductive, PTL

(* A fetch of a file that was viewed before never ends up on the screen,   *)
(* nor does one for another component.                                     *)
THEOREM ShowsWhatIsOpened == Spec => []ShownIsOpened
<1>1. OInv => ShownIsOpened
  BY DEF OInv, ViewerInv, ScreenInv, ShownIsOpened
<1> QED
  BY <1>1, Inductive, PTL

(* An editor never has two saves in flight, whatever became of the earlier *)
(* ones and of the timers that clear their badges.                         *)
THEOREM OneSave == Spec => []OneSavePerEditor
<1>1. OInv => OneSavePerEditor
  BY DEF OInv, ViewerInv, SavesInv, OneSavePerEditor
<1> QED
  BY <1>1, Inductive, PTL

(* If no answer was lost, the page is told of every restore once the       *)
(* handlers have ended.                                                    *)
THEOREM PageFollowsRestores == Spec => []ListingFollows
<1>1. OInv => ListingFollows
  BY DEF OInv, DialogsInv, ListingFollows
<1> QED
  BY <1>1, Inductive, PTL

============================================================================
