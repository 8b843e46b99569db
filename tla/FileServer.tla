----------------------------- MODULE FileServer ----------------------------
(***************************************************************************)
(* The account as the viewers and dialogs see it: files with their text    *)
(* and version history, the trash, and the shares granted on paths.  A     *)
(* request is one step here; Filesystem and AsyncFilesystem model what     *)
(* happens inside it.                                                      *)
(***************************************************************************)
EXTENDS Integers, Sequences, FiniteSets, SequencesExt, Functions

CONSTANTS
  Start,     \* the account when the page opens
  Texts,     \* what may be typed
  MaxMoves,  \* bound: what the user, a guest or the clock does
  MaxFaults, \* bound: requests or answers lost
  None,      \* nothing, no answer yet
  Refused,   \* answers of a request: not OK
  Done       \* and OK, without rows

\* What may be read from a file; ids given out by the page begin at 10.
Contents ==
  Texts \cup Range(Start.text) \cup {e.text : e \in Range(Start.bin)}
    \cup UNION {Range(h) : h \in Range(Start.history) \cup {e.history : e \in Range(Start.bin)}}

ASSUME FileServerAssumption ==
  /\ MaxMoves \in Nat /\ MaxFaults \in Nat
  /\ None # Done /\ None # Refused /\ Done # Refused /\ None \notin Contents
  /\ Start = [text |-> Start.text, history |-> Start.history, bin |-> Start.bin,
              shares |-> Start.shares, theirs |-> Start.theirs]
  /\ Start.text \in [DOMAIN Start.history -> Contents]
  /\ Start.history \in [DOMAIN Start.text -> Seq(Contents)]
  /\ \A e \in Range(Start.bin) : e.history \in Seq(Contents)
  /\ DOMAIN Start.bin \cup DOMAIN Start.shares \subseteq 1 .. 9

VARIABLES
  db,        \* text, history: by path; bin: entries by id; shares: by id;
             \* theirs: what others share with this account, by id
  clock,     \* numbers what is new: entries, shares, requests, mounts
  moves, faults

server == <<db, clock, moves, faults>>

Exists(p) == p \in DOMAIN db.text
Set(f, p, v) == [q \in DOMAIN f \cup {p} |-> IF q = p THEN v ELSE f[q]]
Without(f, P) == Restrict(f, DOMAIN f \ P)

Move == moves < MaxMoves /\ moves' = moves + 1
Fault == faults < MaxFaults /\ faults' = faults + 1

\* To share, for reading or writing.
Grants == {"read", "write"}

Account(text, history, bin) ==
  [text |-> text, history |-> history, bin |-> bin, shares |-> db.shares, theirs |-> db.theirs]
Sharing(shares) == [db EXCEPT !.shares = shares]
Entry(p, history) == [path |-> p, text |-> db.text[p], history |-> history]

\* snapshot_version, then the new bytes.
Overwritten(p, t) ==
  Account(Set(db.text, p, t), Set(db.history, p, Append(db.history[p], db.text[p])), db.bin)

\* Bug: the history stays behind.
KeepHistory(p) ==
  Account(Without(db.text, {p}), db.history, Set(db.bin, clock, Entry(p, << >>)))
\* deleted: the entry with its history goes to the bin under a new id
Binned(p) ==
  Account(Without(db.text, {p}), Without(db.history, {p}),
          Set(db.bin, clock, Entry(p, db.history[p])))

Unbinned(i) ==
  LET e == db.bin[i]
  IN  Account(Set(db.text, e.path, e.text), Set(db.history, e.path, e.history),
              Without(db.bin, {i}))

(* What a request makes of the account; nothing, if it is refused.         *)
Changed(act, p, arg) ==
  CASE act = "save" /\ Exists(p) -> Overwritten(p, arg)
    [] act = "version" /\ Exists(p) /\ arg \in DOMAIN db.history[p] ->
         Overwritten(p, db.history[p][arg])
    [] act = "trash" /\ Exists(p) -> Binned(p)
    [] act = "restore" /\ arg \in DOMAIN db.bin /\ ~Exists(db.bin[arg].path) -> Unbinned(arg)
    [] act = "purge" /\ arg \in DOMAIN db.bin -> Account(db.text, db.history, Without(db.bin, {arg}))
    [] act = "empty" -> Account(db.text, db.history, << >>)
    [] act \in Grants /\ Exists(p) -> Sharing(Set(db.shares, clock, [path |-> p, role |-> act]))
    [] act = "revoke" /\ arg \in DOMAIN db.shares -> Sharing(Without(db.shares, {arg}))
    [] OTHER -> db

\* Emptying an empty trash is OK, too.
Accepted(act, new) == act = "empty" \/ new # db

OthersRevoke(i) ==
  /\ Move /\ i \in DOMAIN db.theirs /\ db' = [db EXCEPT !.theirs = Without(@, {i})]
  /\ UNCHANGED <<clock, faults>>

\* Whoever holds a share with the right to write may overwrite its path.
GuestSaves(i, t) ==
  /\ Move
  /\ i \in DOMAIN db.shares /\ db.shares[i].role = "write" /\ Exists(db.shares[i].path)
  /\ db' = Overwritten(db.shares[i].path, t)
  /\ UNCHANGED <<clock, faults>>

============================================================================
