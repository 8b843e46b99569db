------------------------------ MODULE Dialogs ------------------------------
(***************************************************************************)
(* The dialogs over the page: shares and versions of an entry, the trash,  *)
(* and lists of entries to open.  All of them stay mounted: a list keeps   *)
(* its rows when the dialog closes and shows them when it opens again, for *)
(* another entry maybe, until the new ones arrive.  Their handlers are     *)
(* never cancelled.                                                        *)
(***************************************************************************)
EXTENDS FileServer

VARIABLES
  dialog,    \* the dialog that is open and the entry or mode it is open for
  rows,      \* the rows of each dialog
  waiting,   \* its loading flag; busy of the share dialog
  alert,     \* its error message
  tasks,     \* handlers that wait for an answer
  stale      \* the page's listing has changed since it was last refreshed

dialogs == <<dialog, rows, waiting, alert, tasks, stale>>

Names == {"share", "versions", "trash", "list", "withMe"}
Closed == [name |-> None, of |-> None]
Modes == {"favorites", "recent"}

DialogsInit ==
  /\ dialog = Closed /\ rows = [n \in Names |-> << >>] /\ waiting = [n \in Names |-> FALSE]
  /\ alert = [n \in Names |-> FALSE] /\ tasks = {} /\ stale = FALSE

\* A handler: a change if it starts with one, then a refresh of its rows.
Task(name, of, act, arg, step) ==
  [id |-> clock, name |-> name, of |-> of, act |-> act, arg |-> arg, step |-> step, out |-> None,
   got |-> << >>]
Refresh(name, of) == Task(name, of, "none", None, "list")
\* The refresh sets loading, but in the share dialog.
Loading(name) == IF name = "share" THEN waiting ELSE [waiting EXCEPT ![name] = TRUE]

----------------------------------------------------------------------------
(* Opening and closing.                                                    *)

OpenDialog(name, of) ==
  /\ Move /\ dialog = Closed
  /\ dialog' = [name |-> name, of |-> of]
  /\ tasks' = tasks \cup {Refresh(name, of)} /\ clock' = clock + 1
  /\ waiting' = Loading(name)
  /\ UNCHANGED <<db, faults, rows, alert, stale>>

CloseDialog ==
  /\ dialog # Closed /\ dialog' = Closed
  /\ UNCHANGED <<server, rows, waiting, alert, tasks, stale>>

\* The access token is renewed: the effect of an open dialog runs again.
ReloadDialog ==
  IF dialog = Closed THEN UNCHANGED <<tasks, waiting>>
  ELSE /\ tasks' = tasks \cup {Refresh(dialog.name, dialog.of)}
       /\ waiting' = Loading(dialog.name)

----------------------------------------------------------------------------
(* What the user may click in a dialog: the rows it shows, whosever.       *)

Click(name, act, arg) ==
  /\ Move /\ dialog.name = name
  /\ tasks' = tasks \cup {Task(name, dialog.of, act, arg, "change")} /\ clock' = clock + 1
  /\ alert' = IF act \in Grants \cup {"restore"} THEN [alert EXCEPT ![name] = FALSE] ELSE alert
  /\ waiting' = IF act \in Grants THEN [waiting EXCEPT ![name] = TRUE] ELSE waiting
  /\ UNCHANGED <<db, faults, dialog, rows, stale>>

SubmitShare(act) == ~waiting["share"] /\ Click("share", act, None)
Revoke(i) == i \in DOMAIN rows["share"] /\ Click("share", "revoke", i)
RestoreVersion(n) == n \in DOMAIN rows["versions"] /\ Click("versions", "version", n)
RestoreTrash(i) == i \in DOMAIN rows["trash"] /\ Click("trash", "restore", i)
PurgeTrash(i) == i \in DOMAIN rows["trash"] /\ Click("trash", "purge", i)
EmptyTrash == rows["trash"] # << >> /\ Click("trash", "empty", None)

----------------------------------------------------------------------------
(* The server.                                                             *)

\* The rows of a dialog; of a file that is gone there are no versions.
Answers(t) == t.name = "versions" => Exists(t.of)
Answer(t) ==
  CASE t.name = "share" ->
         Restrict(db.shares, {i \in DOMAIN db.shares : db.shares[i].path = t.of})
    [] t.name = "versions" -> db.history[t.of]
    [] t.name = "trash" -> db.bin
    [] t.name = "list" -> [p \in DOMAIN db.text |-> t.of]
    [] t.name = "withMe" -> db.theirs

Affects(act) == act \in {"restore", "version"}

TaskServed(t) ==
  LET answered(out) == tasks' = (tasks \ {t}) \cup {[t EXCEPT !.out = out]}
      new == Changed(t.act, t.of, t.arg)
  IN  /\ t \in tasks /\ t.out = None
      /\ \/ /\ t.step = "list" /\ UNCHANGED <<db, faults, stale, clock>>
            /\ IF Answers(t)
               THEN tasks' = (tasks \ {t}) \cup {[t EXCEPT !.out = Done, !.got = Answer(t)]}
               ELSE answered(Refused)
         \/ /\ t.step = "change" /\ db' = new /\ clock' = clock + 1
            /\ answered(IF Accepted(t.act, new) THEN Done ELSE Refused)
            /\ stale' = (stale \/ (Affects(t.act) /\ new # db))
            /\ UNCHANGED faults
         \/ /\ Fault /\ answered(Refused) /\ clock' = clock + 1
            /\ \/ UNCHANGED <<db, stale>>
               \/ /\ t.step = "change" /\ new # db
                  /\ db' = new /\ stale' = (stale \/ Affects(t.act))
      /\ UNCHANGED <<moves, dialog, rows, waiting, alert>>

----------------------------------------------------------------------------
(* The handlers go on.                                                     *)

\* Bug: the trash dialog does not tell the page.
NeverBumps(t) == FALSE
\* onChange, after the rows were refreshed; onRestored, before that.
BumpsLast(t) == t.act = "restore"
BumpsFirst(t) == t.act = "version"

\* Bug: the flag is only reset when all is well.
EndsIfDone(t, out) == out # Refused
Ends(t, out) == TRUE

\* A handler that has an error message of its own.
Alerts(t) == t.act \in Grants \cup {"restore"}

Changes(t) ==
  /\ t \in tasks /\ t.step = "change" /\ t.out # None
  /\ IF t.out = Done
     THEN /\ tasks' = (tasks \ {t}) \cup {[t EXCEPT !.step = "list", !.out = None]}
          /\ stale' = (stale /\ ~BumpsFirst(t))
          /\ waiting' = Loading(t.name)
          /\ UNCHANGED alert
     ELSE /\ tasks' = tasks \ {t}
          /\ alert' = [alert EXCEPT ![t.name] = @ \/ Alerts(t)]
          /\ waiting' = IF t.act \in Grants /\ Ends(t, t.out) THEN [waiting EXCEPT ![t.name] = FALSE]
                        ELSE waiting
          /\ UNCHANGED stale
  /\ UNCHANGED <<server, dialog, rows>>

Listed(t) ==
  /\ t \in tasks /\ t.step = "list" /\ t.out # None
  /\ tasks' = tasks \ {t}
  /\ waiting' = IF (t.name = "share" => t.act \in Grants) /\ Ends(t, t.out)
                THEN [waiting EXCEPT ![t.name] = FALSE] ELSE waiting
  /\ IF t.out = Refused
     THEN alert' = [alert EXCEPT ![t.name] = @ \/ Alerts(t)] /\ UNCHANGED <<rows, stale>>
     ELSE /\ rows' = [rows EXCEPT ![t.name] = t.got]
          /\ stale' = (stale /\ ~BumpsLast(t))
          /\ UNCHANGED alert
  /\ UNCHANGED <<server, dialog>>

============================================================================
