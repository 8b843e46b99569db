------------------------------ MODULE Overlays -----------------------------
(***************************************************************************)
(* Viewer and dialogs over one page and one account, with a guest who may  *)
(* write to what is shared.  An open dialog or viewer covers the page.     *)
(***************************************************************************)
EXTENDS Viewers, Dialogs

CONSTANT MayRefresh   \* whether the access token is renewed

vars == <<server, viewer, dialogs>>

Covered == dialog # Closed \/ view # None

Init ==
  /\ db = Start /\ clock = 10 /\ moves = 0 /\ faults = 0
  /\ ViewersInit /\ DialogsInit

\* A row of the page: the file is viewed, or gets a dialog, or is deleted.
OnPage(p) ==
  /\ ~Covered /\ p \in DOMAIN Detected
  /\ \/ Move /\ Show(p, None) /\ UNCHANGED <<db, faults, dialogs>>
     \/ \E n \in {"share", "versions"} : OpenDialog(n, p) /\ UNCHANGED viewer
     \/ /\ Move /\ Exists(p) /\ db' = Changed("trash", p, None) /\ clock' = clock + 1
        /\ UNCHANGED <<faults, viewer, dialogs>>

\* The buttons over the listing.
OnBar ==
  /\ ~Covered
  /\ \/ \E n \in {"trash", "withMe"} : OpenDialog(n, None)
     \/ \E m \in Modes : OpenDialog("list", m)
  /\ UNCHANGED viewer

\* An entry of a list: it is opened, and the dialog closes.
PickEntry(p) ==
  /\ dialog.name = "list" /\ p \in DOMAIN rows["list"] /\ Move
  /\ Show(p, None) /\ dialog' = Closed
  /\ UNCHANGED <<db, faults, rows, waiting, alert, tasks, stale>>

\* A file that was created opens in the viewer when its upload is answered.
LateView(p) ==
  /\ Move /\ Exists(p) /\ Show(p, None) /\ UNCHANGED <<db, faults, dialogs>>

TokenRefreshed ==
  /\ MayRefresh /\ Move /\ Covered
  /\ ReloadViewer /\ ReloadDialog /\ clock' = clock + 1
  /\ UNCHANGED <<db, faults, view, as, shown, failed, editor, saves, badges, dialog, rows,
                 alert, stale>>

Viewing ==
  \/ CloseViewer \/ HandleSave
  \/ \E o \in Overrides : SetOverride(o)
  \/ \E t \in Texts : Type(t)
  \/ \E r \in runs : Fetched(r) \/ FetchFails(r) \/ Decoded(r)
  \/ \E s \in saves : SaveServed(s) \/ SaveDone(s)
  \/ \E b \in badges : BadgeCleared(b)

Talking ==
  \/ CloseDialog \/ EmptyTrash
  \/ \E act \in Grants : SubmitShare(act)
  \/ \E i \in 1 .. clock : Revoke(i) \/ RestoreVersion(i) \/ RestoreTrash(i) \/ PurgeTrash(i)
  \/ \E t \in tasks : TaskServed(t) \/ Changes(t) \/ Listed(t)

Next ==
  \/ \E p \in DOMAIN Detected : OnPage(p) \/ PickEntry(p) \/ LateView(p)
  \/ OnBar \/ TokenRefreshed
  \/ Viewing /\ UNCHANGED dialogs
  \/ Talking /\ UNCHANGED viewer
  \/ /\ \/ \E i \in DOMAIN db.shares, t \in Texts : GuestSaves(i, t)
        \/ \E i \in DOMAIN db.theirs : OthersRevoke(i)
     /\ UNCHANGED <<viewer, dialogs>>

Spec == Init /\ [][Next]_vars

(* Requests are answered and handlers go on; users need not do anything.   *)
FairSpec ==
  /\ Spec
  /\ WF_vars((\E s \in saves : SaveServed(s) \/ SaveDone(s)) /\ UNCHANGED dialogs)
  /\ WF_vars((\E t \in tasks : TaskServed(t) \/ Changes(t) \/ Listed(t)) /\ UNCHANGED viewer)

----------------------------------------------------------------------------
(* Type invariant.                                                         *)
TypeOK ==
  /\ DOMAIN db.text = DOMAIN db.history /\ DOMAIN db.bin \cup DOMAIN db.shares \subseteq 1 .. clock
  /\ view = None => as = None /\ shown = None /\ editor = NoEditor
  /\ blobs \subseteq 1 .. clock /\ stale \in BOOLEAN
  /\ dialog = Closed \/ dialog.name \in Names

(* fetchAsBlob, "Caller must invoke revoke() when done": however viewers   *)
(* are opened, closed and reloaded around their fetches, an object URL     *)
(* that is not revoked belongs to a text that is being decoded or to the   *)
(* image on the screen.                                                    *)
BlobsAreOwned ==
  blobs \subseteq {r.id : r \in {x \in runs : x.got # None} \cup ({shown} \ {None})}

(* What the viewer shows is the file in the URL, in the component for it,  *)
(* whatever the order in which fetches of earlier files are answered.      *)
ShownIsOpened ==
  shown # None => shown.path = view /\ shown.kind = Mounted

(* An editor has one save in flight, through errors, retries and timers    *)
(* that clear the badge: two could be served in the wrong order and leave  *)
(* the older text.                                                         *)
OneSavePerEditor == \A s, t \in saves : s.mount = t.mount => s = t

(* A restore from the trash or of a version changes what the page lists:   *)
(* once its handler has ended the page was told.                           *)
ListingFollows == faults = 0 /\ tasks = {} => ~stale

(* "Saving..." ends, and so does every dialog's busy or loading, whatever  *)
(* fails.                                                                  *)
HandlersEnd ==
  /\ editor.state = "saving" ~> editor.state # "saving"
  /\ \A n \in Names : waiting[n] ~> ~waiting[n]

(* The editor's "Warn before leaving if there are unsaved changes": a text *)
(* on the screen that is not the one last loaded or stored is dirty.       *)
UnsavedIsDirty == OnScreen /\ editor.buffer # editor.synced => Dirty

============================================================================
