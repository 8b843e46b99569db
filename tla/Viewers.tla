------------------------------ MODULE Viewers ------------------------------
(***************************************************************************)
(* The viewer over the page: the URL names a file and maybe an override,   *)
(* its extension picks a component, which fetches the file.  What is       *)
(* fetched becomes an object URL that somebody must revoke: images and     *)
(* PDFs show it and revoke it when they go, texts revoke it once decoded.  *)
(* The Markdown editor saves what was typed.                               *)
(***************************************************************************)
EXTENDS FileServer

CONSTANT Detected   \* pickViewer: the component for each path

Revokes == {"image", "pdf"}
Decodes == {"text", "hex", "markdown"}
Overrides == {"text", "hex"}
Kinds == Revokes \cup Decodes \cup {"video", "zip", "other"}

ASSUME ViewersAssumption ==
  /\ Detected \in [DOMAIN Detected -> Kinds] /\ None \notin DOMAIN Detected \cup Kinds
  /\ None \notin [id : Nat, kind : Kinds, path : DOMAIN Detected, text : Contents]

VARIABLES
  view,      \* ?view=, None if the viewer is closed
  as,        \* ?as=, the override
  runs,      \* fetches: live until the effect that sent them is cleaned up
  blobs,     \* object URLs that are not revoked, by the fetch that made them
  shown,     \* what the component shows: the fetch it came from and its text
  failed,    \* the component shows an error
  editor,    \* the state of the Markdown editor
  saves,     \* saves whose handler goes on
  badges     \* timers that will clear "Saved", by save

viewer == <<view, as, runs, blobs, shown, failed, editor, saves, badges>>

(* mount: which editor this is; initial, current: its state; buffer: what  *)
(* MDXEditor shows; synced: the text last loaded or stored.                *)
NoEditor ==
  [mount |-> 0, initial |-> None, current |-> None, buffer |-> None, synced |-> None,
   state |-> "idle"]

ViewersInit ==
  /\ view = None /\ as = None /\ runs = {} /\ blobs = {} /\ shown = None /\ failed = FALSE
  /\ editor = NoEditor /\ saves = {} /\ badges = {}

Component(p, o) == IF p = None THEN None ELSE IF o # None THEN o ELSE Detected[p]
Mounted == Component(view, as)
Loads(kind) == kind \notin {None, "other"}

----------------------------------------------------------------------------
(* Mounting, unmounting, and the effects on [path, token].                 *)

\* Bug: the cleanup does not cancel the fetch.
KeepLive(R) == R
CancelRuns(R) == {[r EXCEPT !.live = FALSE] : r \in R}

\* Bug: the cleanup only cancels.
KeepUrl == {}
ShownUrl == IF shown # None /\ shown.kind \in Revokes THEN {shown.id} ELSE {}

FetchFor(p, kind) ==
  IF Loads(kind)
  THEN {[id |-> clock, path |-> p, kind |-> kind, live |-> TRUE, got |-> None]} ELSE {}

\* The effect runs (again): its cleanup, then a new fetch.
Effect(p, kind) ==
  /\ runs' = CancelRuns(runs) \cup FetchFor(p, kind)
  /\ blobs' = blobs \ ShownUrl

\* The URL changes to view p as o; the same component stays mounted.
Show(p, o) ==
  LET kind == Component(p, o)
  IN  /\ view' = p /\ as' = o
      /\ UNCHANGED <<saves, badges>>
      /\ IF <<p, kind>> = <<view, Mounted>>
         THEN UNCHANGED <<runs, blobs, shown, failed, editor, clock>>
         ELSE /\ Effect(p, kind) /\ clock' = clock + 1
              /\ shown' = None /\ failed' = FALSE
              /\ editor' = IF kind = "markdown" THEN [NoEditor EXCEPT !.mount = clock]
                           ELSE NoEditor

CloseViewer == view # None /\ Show(None, None) /\ UNCHANGED <<db, moves, faults>>

\* Offered if no component was detected.
SetOverride(o) ==
  /\ Mounted = "other" /\ Move
  /\ Show(view, o) /\ UNCHANGED <<db, faults>>

\* The access token is renewed: the effect runs again, the state stays.
ReloadViewer ==
  IF Loads(Mounted) THEN Effect(view, Mounted) ELSE UNCHANGED <<runs, blobs>>

----------------------------------------------------------------------------
(* Answers.                                                                *)

Display(r, t) == shown' = [id |-> r.id, kind |-> r.kind, path |-> r.path, text |-> t]

\* fetchAsBlob resolves: an object URL for its caller, who is now shown it.
UrlArrives(r) ==
  IF r.live THEN Display(r, db.text[r.path]) /\ blobs' = blobs \cup {r.id}
  ELSE UNCHANGED <<shown, blobs>>

Fetched(r) ==
  /\ r \in runs /\ r.got = None /\ Exists(r.path)
  /\ CASE r.kind \in Revokes -> runs' = runs \ {r} /\ UrlArrives(r)
       [] r.kind \in Decodes ->
            /\ runs' = (runs \ {r}) \cup {[r EXCEPT !.got = db.text[r.path]]}
            /\ blobs' = blobs \cup {r.id} /\ UNCHANGED shown
       [] OTHER ->  \* a view token or an archive's listing: no object URL
            /\ runs' = runs \ {r} /\ UNCHANGED blobs
            /\ IF r.live THEN Display(r, db.text[r.path]) ELSE UNCHANGED shown
  /\ UNCHANGED <<server, view, as, failed, editor, saves, badges>>

FetchFails(r) ==
  /\ r \in runs /\ r.got = None
  /\ IF Exists(r.path) THEN Fault ELSE UNCHANGED faults
  /\ runs' = runs \ {r} /\ failed' = (failed \/ r.live)
  /\ UNCHANGED <<db, clock, moves, view, as, blobs, shown, editor, saves, badges>>

\* A loaded text: MDXEditor takes it only when it is mounted with it.
Loaded(t) ==
  [editor EXCEPT !.initial = t, !.current = t, !.synced = t,
                 !.buffer = IF editor.initial = None THEN t ELSE @]

Decoded(r) ==
  /\ r \in runs /\ r.got # None
  /\ runs' = runs \ {r} /\ blobs' = blobs \ {r.id}
  /\ IF r.live
     THEN Display(r, r.got) /\ editor' = IF r.kind = "markdown" THEN Loaded(r.got) ELSE editor
     ELSE UNCHANGED <<shown, editor>>
  /\ UNCHANGED <<server, view, as, failed, saves, badges>>

----------------------------------------------------------------------------
(* The Markdown editor.                                                    *)

Dirty == editor.initial # None /\ editor.current # editor.initial
OnScreen == editor.initial # None /\ ~failed

Type(t) ==
  /\ OnScreen /\ Move /\ t # editor.buffer
  /\ editor' = [editor EXCEPT !.buffer = t, !.current = t]
  /\ UNCHANGED <<db, clock, faults, view, as, runs, blobs, shown, failed, saves, badges>>

\* Otherwise the button is disabled.
CanSave == Dirty /\ editor.state # "saving"

HandleSave ==
  /\ OnScreen /\ CanSave
  /\ editor' = [editor EXCEPT !.state = "saving"]
  /\ saves' = saves \cup
       {[mount |-> editor.mount, path |-> view, text |-> editor.current, id |-> clock, out |-> None]}
  /\ clock' = clock + 1
  /\ UNCHANGED <<db, moves, faults, view, as, runs, blobs, shown, failed, badges>>

SaveServed(s) ==
  LET new == Changed("save", s.path, s.text)
      answer(out) == saves' = (saves \ {s}) \cup {[s EXCEPT !.out = out]}
  IN  /\ s \in saves /\ s.out = None
      /\ \/ /\ db' = new /\ UNCHANGED faults
            /\ answer(IF Accepted("save", new) THEN Done ELSE Refused)
         \/ Fault /\ db' \in {db, new} /\ answer(Refused)
      /\ UNCHANGED <<clock, moves, view, as, runs, blobs, shown, failed, editor, badges>>

\* What is marked as stored is what the editor holds by now.
SaveDone(s) ==
  LET here == s.mount = editor.mount
  IN  /\ s \in saves /\ s.out # None
      /\ saves' = saves \ {s}
      /\ badges' = IF s.out = Done THEN badges \cup {[mount |-> s.mount, id |-> s.id]}
                 ELSE badges
      /\ editor' =
           IF ~here THEN editor
           ELSE IF s.out = Done
           THEN [editor EXCEPT !.initial = editor.current, !.synced = s.text, !.state = "saved"]
           ELSE [editor EXCEPT !.state = "error"]
      /\ UNCHANGED <<server, view, as, runs, blobs, shown, failed>>

\* Bug: the timer does not look at the state it finds.
Clear(state) == "idle"
Cleared(state) == IF state = "saved" THEN "idle" ELSE state

BadgeCleared(b) ==
  /\ b \in badges /\ badges' = badges \ {b}
  /\ editor' = IF b.mount = editor.mount THEN [editor EXCEPT !.state = Cleared(@)] ELSE editor
  /\ UNCHANGED <<server, view, as, runs, blobs, shown, failed, saves>>

============================================================================
