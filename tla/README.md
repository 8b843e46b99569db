# Pithos (CloudFileStorage): a TLA+ verification project

Pithos is a self-hosted file store: a FastAPI server that keeps rows in SQLite
and bytes on disk, and a React portal. The modules in this directory model what
its code does to that state, model-check it on small instances with TLC, and
prove some of the results for every value of the constants with TLAPS.

All source paths below are relative to `src/`. `FMP` stands for
`services/filesystem/filesystem_metadata_processor.py`.

## 1. The system

### Components

| Component | State | Operations | Modelled in |
|---|---|---|---|
| Metadata processor (`FMP`) and file endpoints (`endpoints/files.py`) | tables `files`, `file_versions`; files and directories under the owner's directory; `.trash`, `.versions` | upload, overwrite, save content, create folder, rename, move, delete, restore, purge, empty trash, restore version, favorite | `Paths`, `Storage`, `Filesystem`, `AsyncFilesystem`, `FileTree`, `FilesystemTree` |
| Database access (`services/sqlite_service.py`) | one connection per statement group; SQLite's write lock | connect, commit, rollback, lock timeout | `AsyncFilesystem` |
| Chunked upload sessions (`services/filesystem/upload_sessions.py`, client loop in `frontend/src/api/files.ts`) | sessions in memory, `.part` files on disk; the client's offset | init, chunk, status, abort, complete | `UploadSessions` |
| Authentication (`services/auth/auth_management.py`; `AuthContext.tsx`, `api/client.ts`) | revoked tokens in memory; tokens in local or session storage; a refresh in flight per tab | login, refresh, logout, verify; refresh-and-replay | `Tokens` |
| Folder upload (`frontend/src/lib/folderUpload.ts`, prompts in `MainContent.tsx`) | index, failures, latched decision of a batch; queue of prompts | pre-create folders, worker pool, conflict prompts | `FolderUpload` |
| Registration and login (`endpoints/auth.py`, `auth_management.py`; `Login.tsx`, `Register.tsx`, `AuthContext.tsx`) | table `users`; a form and a session per client | register, login, `/auth/me`; switch, submit, follow-up requests | `SignIn` |
| Rate limiter (`services/auth/rate_limiter.py`) | timestamps per key, in memory | retry_after, record_failure, record_success, register_retry_after | `LoginGuard`, `SignIn` |
| Schema migrations (`services/migrations.py`, `schema.py`, `main.py`) | each database's `schema_version` and schema | baseline, statements, version rows, start | `Migrations`, `SignIn` |
| Portal page (`MainContent.tsx`, `Explorer.tsx`, `Sidebar.tsx`, `portal.tsx`) | URL, `refreshKey`, listing, search, selection, rename field, quota, tree | navigate, search, create, rename, delete, move, favorite, upload, bulk operations | `PortalServer`, `Explorer`, `Portal` |
| Viewers and editor (`viewer/*.tsx`, `fetchAsBlob`) | the file in the URL, fetches, object URLs, the editor's texts | open, close, choose another viewer, type, save | `FileServer`, `Viewers`, `Overlays` |
| Dialogs (`dialogs.tsx`), shares (`shares.ts`, `endpoints/shares.py`, `share_service.py`) | rows, loading and error of each dialog; `shares` keyed by path | trash, versions, share, lists, shared with me | `FileServer`, `Dialogs`, `Overlays` |
| Password policy | none | a predicate on one string | who refuses, in `SignIn` |
| Presentation, wiring, deployment | none that lasts | | not modelled |

### How they interact

A request arrives at an endpoint, which looks rows up, decides, and calls the
metadata processor; each call opens its own SQLite connection. There is one
process and one event loop and no lock of the application's own: **between two
`await`s a handler runs alone; at an `await` any other may run.** SQLite admits
one writer, and a second waits at most five seconds before it fails with
"database is locked". Rows and bytes are two stores without a common
transaction. The sessions of chunked uploads, the revoked tokens and the rate
limiter's windows live in memory and go with the process. The portal talks to
the server over HTTP only; its tabs share local storage with one another.

### What is hard

- *A path is the key everywhere.* Rows, parents, versions, bytes and trash
  entries of a subtree are moved by rewriting prefixes in four UPDATEs and one
  `os.rename`. One column missed is found only when a later operation goes
  below the folder.
- *Rows and bytes.* Every handler orders its statements and file operations so
  that something survives a failure in the middle. Which, is not obvious.
- *Interleaving at awaits.* What was read before an await may be stale after it.
- *Crashes* between any two steps; *timeouts* of the write lock.
- *Lost answers.* A chunk may be appended although the client saw an error; a
  refresh token may be redeemed although no tab has its successor.
- *Shared promises and queues in the portal*: several calls wait for one
  refresh; several workers wait for one screen.

### What makes each part correct

- File store: the rows form one tree; the disk holds what the rows say; history
  follows the file; the trash can be listed, restored and purged; nothing but a
  purge loses what a user stored; requests on unrelated paths do not disturb
  one another.
- Uploads: part files have no gap or repeat, only complete files are listed, an
  acknowledged file is there, and an upload ends.
- Tokens: a refresh token is redeemed once, the stored one stays usable, a
  session is dropped only when it is over, and no call waits for ever.
- Folder upload: nothing is replaced without the user's consent, the report is
  accurate, and a batch ends.
- Sign-in: whoever is told to have a name knows its password; concurrent attempts exceed
  the limiter's maximum by no more than the attempts under way; requests meet a whole schema.
- Page: once everything is answered, listing, quota and tree are those of the server, whatever
  the order of the answers; loading ends.
- Viewers and dialogs: object URLs are revoked, what is on the screen is the file that was opened,
  an editor has one save under way, the page follows what a dialog changed, busy flags end.

## 2. Modules

```
  Paths ── Storage ─┬─ Filesystem ── FilesystemTree ─┬─ MCFilesystem
                    │            (refines FileTree)  └─ FilesystemProofs
                    └─ AsyncFilesystem ─┬─ SerialFilesystem ── (refines) Filesystem
                                        │      └─ MCAsyncFilesystem
                                        └─ AsyncProofs (with FilesystemProofs)
                                               └─ SettleProofs (with SerialFilesystem)
  UploadSessions ─┬─ UploadProofs (both)       Tokens ── TokensProofs
  FolderUpload ───┤
                  └─ MCFolderUpload (of FolderUpload)
  LoginGuard ─┬─ SignIn ── MCSignIn
  Migrations ─┘     └───── SignInProofs (both)
  PortalServer ── Explorer ── Portal ─┬─ MCPortal
                                      └─ PortalProofs
  FileServer ─┬─ Viewers ─┬─ Overlays ─┬─ MCOverlays
              └─ Dialogs ─┘            └─ OverlaysProofs
```

**Paths** — paths as sequences of names, and the operations of `FMP` on them:
`parent_of`, joining, the prefix rewrite of `_relocate_subtree`, and the
`LIKE 'folder/%'` test. SQLite's LIKE folds ASCII case and treats `_` and `%`
in the pattern as wildcards, so `Like` is a relation on names and a CONSTANT.
`LikeIsExact` says that it is equality.

**Storage** — the store as one record (`rows`, `versions`, `disk`) and what each
method of the metadata processor does to it: `AddStream`, `AddBytes`,
`AddFolder`, `RemoveFile`, `Snapshot`, `Relocate`, `SoftDelete`, `Restored`,
`Purged`, and so on. Contents are model values, a checksum is the content it is of. `node` on
a row is a history field: which entry the row stands for, through overwrites.

**Filesystem** — the endpoints, one action each, run to the end one after the
other. Requests that change nothing, the refused ones and a rename or a move to where the entry is, have no step.

**FileTree** — the abstract promise: a tree of entries with identities. Renaming
or moving a folder changes one edge; deleting hangs the subtree in the bin and
restoring puts it back; overwriting only adds to the history. There are no paths,
patterns, rows or blobs in it, and no recursion: what lies above an entry is the least set that holds the
parents of its members. `FilesystemTree!ImplementsFileTree` is the refinement:
an entry's parent is found by its `parent_path`, its data through the disk, its
history through the version rows and their blobs.

**AsyncFilesystem** — the same handlers cut at their awaits. Each operation has
a plan, the list of its labels, and a request has a position `pc` in it; a label
is an action: one SQL statement or transaction, or one stretch of file operations.
A step goes on with the next label, or skips some (an upload to a free path snapshots
and removes nothing), or ends early, as `failed`: refused, or with nothing to do. What a handler read and still believes is in its
request's record. `lock` is the
request whose write transaction is open; `GivesUp` is the lock timeout, `Crash`
kills the process with what was not committed. `overlap` and `faults` are history
variables that the properties use to say what they promise to whom.

**SerialFilesystem** — the requests of AsyncFilesystem served one after the other, with a history
variable `base`, the store when the server was last quiet. `HandlersAreAtomic`: each change of `base` is a step of
`Filesystem`, so the plans, statement by statement, come to what the endpoints are said to do as single steps.

**UploadSessions** — sessions, part files, handlers in flight, and the client's
loop (`uploadFileResumable`): offsets, 409 synchronisation, dropped connections
whose handler runs on, cancels, restarts.

**Tokens** — the server's pairs and the tabs. `verify → await get_user →
revoke and sign` is two steps (`VerifyRefresh`, `IssuePair`), and storing the
answer a third (`PersistPair`). A call is sent, refused, waits for the tab's
refresh, and is replayed. Uploads and downloads ("transfer") send their own
requests and know no refresh. Local storage is shared by all tabs, session
storage is a tab's own.

**FolderUpload** — `uploadItems`, any number of batches at once: folders by depth, a
pool of workers, the latched decision, and the page's queue of prompts with the
one that is shown. A request to the server is one step.

**LoginGuard** — the three sliding windows (failures by user and by address, registrations by
address): pruning, the wait in whole seconds, recording, forgetting. Keys stand for names, since
the limiter lowers their case.

**Migrations** — `lifespan` over the two databases: the baseline, one action per statement
and one for the version row. SQLite's `ALTER TABLE` is in effect at once here, because
Python's `sqlite3` opens a transaction before INSERT, UPDATE and DELETE only.

**SignIn** — composes both with the users' table, the forms and the network. A handler is
cut at its awaits: the guard is asked (`LoginArrives`), the row is read (`ReadsRow`), the
password is compared and the guard told (`LoginEnds`), or the row inserted (`RegisterEnds`).
A registration is followed by a login and that by `/auth/me`, each of which may be lost; a form that
is left goes on without a screen. A crash ends the handlers and clears the windows.

**PortalServer, Explorer, Portal** — the account as the page sees it (a request changes or reads
it in one step); the explorer's tree with its two effects; the page with its own. Every
effect on `refreshKey` or the folder is an action's last part, as React runs it after the state
change: it sends a request, and, for listing and quota, cancels the last run's. Searches and the explorer's fetches are not
cancelled, and their late answers are taken.

**FileServer, Viewers, Dialogs, Overlays** — files with text and history, the trash, shares and a
guest who may write; the viewer with fetches, object URLs and the Markdown
editor; the dialogs, which stay mounted and whose handlers are never cancelled; and
what is possible while a dialog or a viewer covers the page.

## 3. Properties and runs

Twelve runs. "violation" runs show where the code does not do what one of its
own comments says; each has an entry under `findings` in `PROJECT.json`.

| Run | Shows |
|---|---|
| `filesystem` | sequential handlers: `TypeOK`, `TreeClosed`, `TrashConsistent`, `DiskMatches`, `HistoryAttached`, `NothingLost`, `ImplementsFileTree` |
| `async` | any two of 25 requests at every await, with timeouts and a crash: `TypeOK`, `TablesSurvive`, `SettlesConsistently`, `BytesSurvive`, `AnswersAreTrue`, `LockReleased` |
| `async_serial` | `HandlersAreAtomic`: three requests one after the other, each handler as a whole is a step of `Filesystem` or nothing |
| `async_same_file` (violation) | two uploads of one new file: `RowsHaveBytes` fails |
| `uploads` | the chunked protocol: `UploadTypeOK`, `WholeFiles`, `AcknowledgedIsStored`, `UploadEnds` |
| `tokens` | one tab: `TypeOK`, `RotationIsLinear`, `StoredIsUsable`, `CallsDropOnlyStale`, `NoCallWaitsForEver` |
| `folder_upload` | two batches at once: `TypeOK`, `ReportIsAccurate`, `ReplacesWithConsent`, `BatchEnds` |
| `portal` | the page under every order of answers: `TypeOK`, `ViewsSettle`, `ExpandedIsFetched`, `LoadingEnds` |
| `overlays` | viewers, editor and dialogs: `TypeOK`, `BlobsAreOwned`, `ShownIsOpened`, `OneSavePerEditor`, `ListingFollows`, `HandlersEnd` |
| `editor_unsaved` (violation) | what is typed during a save counts as saved (`UnsavedIsDirty`) |
| `signin` | registration and login beside crashes of the start: `AttemptsBounded`, `SignedInAsOwner`, `ServesWholeSchema` |
| `migration_crash` (violation) | a crash after a statement and before its version row leaves a schema of no version (`CrashLeavesVersion`) |

`WholeFiles` says of chunked uploads that a part file has no gap or repeat, that what is listed is complete and
that its checksum is that of its bytes; `TablesSurvive` includes the consistency of the trash;
`ReportIsAccurate` includes that an item fails only if a request failed.

Further configurations, not among the runs, show more disagreements between a comment
and the code. `tlc -config X.cfg M` finds each of them violated:

| Configuration | Property | Shows |
|---|---|---|
| `MCFilesystemFold.cfg` (`MCFilesystem`) | `DiskMatches` | names that differ in case: LIKE takes a sibling's rows along, its bytes stay (FMP:460) |
| `MCFilesystemDotTrash.cfg` (`MCFilesystem`) | `TrashAddressable` | an entry the user calls `.trash`: renaming it carries the trash away (FMP:14) |
| `MCAsyncReused.cfg` (`MCAsyncFilesystem`) | `BytesSurviveCrash` | a rename dies between `os.rename` and its commit; an upload to the new name then replaces the only copy of the bytes (FMP:479) |
| `MCTokensOnce.cfg` (`Tokens`) | `RedeemedOnce` | two tabs: a refresh token is redeemed twice (`auth_management.py:89`) |
| `MCTokensStale.cfg` (`Tokens`) | `DropsOnlyStale` | an upload with an expired access token drops a session that could be refreshed (`files.ts:273`) |
| `MCFolderUploadAll.cfg` (`MCFolderUpload`) | `AllDecides` | after "overwrite all" the user is asked again (`folderUpload.ts:184`) |
| `MCPortalRefetch.cfg` (`MCPortal`) | `FetchesOnRefresh` | a fetch of the explorer that fails is sent again at once, as long as it fails (`Explorer.tsx:94`) |
| `MCSignInRetry.cfg` (`MCSignIn`) | `RetryIsEnough` | with more than the maximum of failures in a window, the reported wait is too short (`rate_limiter.py:44`) |

Each property of a passing run has a mutant under `mutants`: a change of one
mapped definition, of the kind a slip in the code would be, under which TLC
finds that property violated. The mutated forms stand beside the definitions they replace, marked "Bug:".

### Conditions in the properties

Some properties promise less than one may wish, because the code does:

- `TablesSurvive`, `BytesSurvive`, `AnswersAreTrue` and `SettlesConsistently`
  speak of requests in flight that touch unrelated paths (`~overlap`). With two
  requests on one path the code promises nothing. `async_same_file` shows one outcome.
- `SettlesConsistently` and `AnswersAreTrue` also require `~faults`: a crash between
  `os.rename` and the commit leaves rows and bytes apart, and nothing in the code
  repairs that. What does survive a crash is `TablesSurvive` and `BytesSurvive`.
- `BytesSurvive` also excludes contents that are given up (`Forfeited`). One is purged after it was deleted,
  as the user asked. The other is a disagreement: after a relocation that a crash cut between `os.rename` and its commit, the bytes
  lie where no row is, and a later request to that place finds it free and replaces them (`MCAsyncReused.cfg`).
- `WholeFiles` (what it says of checksums) and `AcknowledgedIsStored` exclude two completes at once (`raced`).
- `CallsDropOnlyStale` excludes logging out, a page load, a lost answer, and calls
  left over from an earlier login (`OneLogin`).
- `RotationIsLinear` excludes restarts, which forget what was revoked.
- `ViewsSettle` and `ListingFollows` are about runs without a lost request or answer: after one
  the code shows an error or nothing, and refreshes with the next change. `ViewsSettle` waits for
  the operations, the listing and the quota; search results may be late, and are.
- `AttemptsBounded` is no lock at the maximum: the limiter is asked before the awaited password check
  and told after it. What is let in together may fail together.

### Bounds, and why they are enough

- `filesystem`: three rows, three levels, two names, two contents, two versions;
  symmetry over all five sets. Three rows allow a folder, an entry below it and a sibling
  or a trashed tree, three levels a folder moved with one below it, two
  versions a numbering to get wrong. The names are two, so that a move can collide.
- `async`: one initial store with every kind of entry (`MCAsyncFilesystem`), two
  requests out of 25 chosen so that each handler meets each kind of target.
  Interference is between two requests at a time; a third adds none of a new kind, as handlers
  share nothing but the store and the lock. No symmetry, since the run checks a liveness property.
- `async_serial`: three requests in sequence, so that a handler also starts from what
  two others, possibly failed ones, left.
- `uploads`: a file of two chunks (a first and a last), three upload ids (the file already
  there may hold one, two attempts the others), two drops, one restart.
- `tokens`: three pairs (a login and two rotations, or two logins and one), two calls (one
  that starts the refresh and one that joins it), two of
  {page load, logout, lost answer, restart}, logins that do not tick "remember me" (after a page
  load the pair moves to local storage, so both storages are in use).
- `folder_upload`: a nested folder and a file shared by both batches, two workers each, every
  initial content of the server, one lost request or one change by another tab.
- `portal`: a folder with a file, and a file, beside room for more; two moves of the user
  (a change and a navigation, or two changes, with their requests and refreshes in flight together),
  one fault. Three moves give no other pair of requests.
- `overlays`: a note with a version and a share, a picture, a file without a viewer, a trashed
  note and picture; three moves (open, type or save, and one more of the user, the guest or the renewal of the token),
  one fault.
- `signin`: two clients at one address, one name, two passwords and the two kinds that are
  refused, two requests at once, four moves, one lost message, one crash; a window of two units,
  maxima of one and two, and enough time for it to pass. Both databases with their real
  scripts, new or up to date. Clients, passwords and requests are symmetric; there is no liveness property.

### Fairness

- `AsyncFilesystem`: weak fairness of each request's steps. The event loop runs every handler
  that can go on; a writer waits for the lock or times out.
- `UploadSessions`: weak fairness of the client's loop and of the handlers. Cancels, drops and
  restarts are never forced.
- `Tokens`: weak fairness of the tab's refresh and of its calls: fetches are answered (or fail),
  and promises run. Users, clocks and faults need not move.
- `FolderUpload`: weak fairness of workers, of the folder loop, and of the user's answer to the
  prompt on the screen. `BatchEnds` says only that a batch ends if prompts are answered; a user who
  walks away leaves it waiting, as the code does.
- `Portal`: weak fairness of the server's reads and of each listing's answer, which come or fail.
- `Overlays`: weak fairness of saves and of the dialogs' handlers: requests are answered or
  fail, and what follows an await runs. Users, guests and the renewal of tokens need not move.
- `SignIn` has no liveness property and no fairness: all it promises is safety.

Deadlock checking is off where a run stops by its bounds or the system may really rest
(everyone logged out, all batches done); `async` checks it, with an explicit step for "all served".

## 4. Proofs

| Theorem | Says |
|---|---|
| `TypeCorrect` (`FilesystemProofs`) | every reachable state of the file store has its type |
| `KeysStayUnique` (`FilesystemProofs`) | no handler leaves two rows at one path, and every file row keeps a checksum |
| `TrashStaysConsistent` (`FilesystemProofs`) | if `LikeIsExact` and `TRASH \notin Names`: rows are marked deleted exactly when they lie in the trash, and keep an original path exactly at the roots of trashed trees |
| `TreeStaysClosed` (`FilesystemProofs`) | under the same two assumptions: `TreeClosed`, every row lies in a folder row on its own side of the trash, and its name and parent columns agree with its path |
| `DiskStaysMatched` (`FilesystemProofs`) | if `LikeIsExact` and neither `TRASH` nor `VERSIONS` is in `Names`: `DiskMatches`, the disk has a directory for every folder row and the bytes of the stored checksum for every file row |
| `HistoryStaysAttached` (`FilesystemProofs`) | under the same assumptions: every version keeps its file, the numbers at a path run from 1 without a gap, and every blob has one version row |
| `NothingIsLost` (`FilesystemProofs`) | under the same assumptions: whatever request comes, an entry that was live exists afterwards, and each content it had is still in its bytes or its versions |
| `RequestsKeepATree` (`FilesystemProofs`) | `ImplementsFileTree`: under the same assumptions, and as the two parents that are no entries, "/" and the trash, are told apart from the entries and from each other (`EdgesApart`, about the names given to them), every behaviour of the file endpoints is one of `FileTree`: a rename or a move changes one edge, a delete hangs the subtree in the bin, a restore puts it back, an overwrite or a restored version adds to the history, a purge drops what lies at or below its entry |
| `SignInTypes` (`SignInProofs`) | requests, sessions, accounts and windows keep their types |
| `WholeSchema` (`SignInProofs`) | requests are served only with every migration of every database in effect |
| `OwnersSignIn` (`SignInProofs`) | whoever is told to have a name, or holds its token, knows the password stored for it |
| `BoundedAttempts` (`SignInProofs`) | a window holds fewer failures than its maximum plus the requests there can be at once, and no more registrations than the maximum |
| `UploadTypes`, `UploadedWhole`, `AcknowledgedStored` (`UploadProofs`) | the three safety properties of chunked uploads: types; no part file has a gap or repeat, and what is listed is complete; an acknowledged file is the one that is listed |
| `TokensTypes` (`TokensProofs`) | pairs, tabs, refreshes and calls keep their types, for any number of tabs |
| `RedeemedInTurn`, `StoredStaysUsable` (`TokensProofs`) | with one tab: a refresh token is redeemed at most once until the server restarts; the stored one was not redeemed, unless its successor is about to be stored |
| `DropsStaleOnly` (`TokensProofs`) | with one tab, an action property: `apiJson` ends the session only when the stored refresh token is of no use, unless an answer was lost or another login came in between |
| `PageTypes` (`PortalProofs`) | `Portal!TypeOK`: loading is shown exactly while one listing request is in flight, that of the current folder and the last refresh |
| `ExpandedFetched` (`PortalProofs`) | every open folder of the explorer has its children, or a request for them is in flight |
| `ViewsAgree` (`PortalProofs`) | `Portal!ViewsSettle`: when nothing is under way and nothing was lost, the listing and the quota are those of the account as the server has it, or the page says the folder is gone |
| `TypeCorrect`, `ReportsAreAccurate` (`UploadProofs`) | `FolderUpload!TypeOK`: the prompt shown is the first of the queue, which holds each worker that waits for the user once; when a batch is done every item counted once and was taken, reported or skipped by the user, and without trouble nothing fails |
| `NothingReplacedUnasked` (`UploadProofs`) | a file is replaced only with the consent of the user of the batch that replaces it (an action property) |
| `TypeCorrect`, `NoUrlLeaks`, `ShowsWhatIsOpened`, `OneSave`, `PageFollowsRestores` (`OverlaysProofs`) | the five invariants of viewers and dialogs: types; an object URL is owned until it is revoked; the screen shows the file in the URL; an editor has one save under way; the page is told of what a dialog restored |
| `TypeCorrect`, `KeysStayUnique`, `LockIsHeld` (`AsyncProofs`) | through every interleaving at awaits, lock timeout and crash: `AsyncFilesystem!TypeOK`; one committed row per path; an open transaction belongs to a request in flight that is about to commit |
| `MarksStayConsistent`, `TablesAlwaysSurvive` (`AsyncProofs`) | `TablesSurvive`: rows are marked deleted exactly when they lie in the trash, whatever overlaps; and as long as requests in flight kept to unrelated paths, the committed rows form a tree and every version has its bytes |
| `BytesAlwaysSurvive` (`AsyncProofs`) | `BytesSurvive`: under the same assumptions, as long as requests in flight kept to unrelated paths and nobody forfeited them, the bytes a client was told are stored, and those the live files and their versions had from the start, are on the disk, through every interleaving, timeout and crash |
| `AlwaysSettlesConsistently` (`SettleProofs`) | `SettlesConsistently`: under the same assumptions, when no request is in flight, none overlapped another's paths and no lock timed out and nothing crashed, the disk holds exactly what the rows and the versions say (`DiskMatches`), every version has its file, the numbers of a path run from 1 without a gap and no two versions share a blob (`HistoryAttached`), whatever other handlers did between any two steps of one |
| `HandlersActAtomically` (`SettleProofs`) | `HandlersAreAtomic`: under the same assumptions, for requests served one after the other (`SerialSpec`), each handler as a whole, wherever it ends, is one step of `Filesystem` or none, as long as the bound on rows, versions and depth (`InBounds`) is not reached; so the theorems about single steps hold of the handlers as sequences of statements and file operations |
| `AnswersStayTrue` (`SettleProofs`) | `AnswersAreTrue`, an action property: under the same assumptions, as long as no two requests in flight had related paths and no lock timed out and nothing crashed, an answer of success is true in the state it is given in: an upload, a save, a restored version and a new folder have their row and their bytes, a purge has left no row, no bytes and no blob, and what was renamed, moved, deleted or restored is at its new place and not at its old one |

The first eight are about `Filesystem`, for all names, contents, LIKE relations (except where `LikeIsExact` is
assumed) and bounds.

*Lemmas about paths* (the first part of `FilesystemProofs`): what `ParentOf`, `Child`, `NameOf`, `Rebase` and `MovedPath` return;
that with an exact LIKE the pattern selects what is below the folder (`ExactLikeBelow`), and that what a folder UPDATE rewrites lies below the
new folder, so that the second UPDATE of delete and of restore reaches every row the first one moved (`RebaseCovered`).

*`FilesystemProofs`.* `TypeOK` is not inductive: that a moved row still has a path of at least one
segment, that the checksum a snapshot stores is a content, and that a new version number is a
number (a maximum of a finite set of numbers, plus one) need more. The invariant is `StoreInv`, the conjunction of
`RowsInv` (rows of the row type, none at "/", one per path, a checksum on every file row), `VersionsInv`
(finitely many versions of their type) and `DiskInv` (what is at a path on disk is a directory or a content). There is
one lemma per operator of `Storage`, then `StoreInvStep` with one step per action.
That `RelocateFails` is tested before the UPDATEs (SQLite's PRIMARY KEY rolls back a collision) is what
keeps the paths unique.

*The trash and the tree* (its third and fourth part)*.* `TrashConsistent` is not inductive either: that a row is deleted exactly
when its path starts with `.trash` survives a move only if no live path takes along a trashed
one, and a delete or a rename must not put `.trash` at the front of a path by another way. The strengthening is `MarksInv`, on top
of `StoreInv`: `TrashInv` (deleted exactly below `.trash`; an original path exactly on deleted rows three segments deep, `.trash/<id>/<name>`,
and never itself in the trash) and `NamesInv` (neither a row's name, nor the last segment of its path or of its original
path, is `.trash`). The assumptions
are `LikeIsExact` and `TRASH \notin Names`, both needed: `MCFilesystemFold.cfg` and
`MCFilesystemDotTrash.cfg` show what happens without.
`TreeClosed` is proved on top (`TreeInv`). Every handler that takes rows away or to another place takes the rows its SQL prefix
selects, and `ParentCovered` says that such a selection takes a row's folder only together with the row: so what stays keeps its folder
(`RemovedTree`), and what moves brings its folders along, under the same new prefix. What is left is the entry itself: it is put
into a folder that is live and that does not move with it (`LiveParent`), or below `.trash` with its original path kept.

*The disk* (its fifth part)*.* The tables are read as what they promise the disk holds: the `Bytes` of the rows and the `Blobs` of the versions.
`MirrorInv` says that the disk is exactly that (`Stored`), that what lies above an entry is a directory (`Rooted`), that every version has
its file (`Attached`), and that no row is, or was before its delete, in `.versions` (`Unreserved`). Every failure the handlers
handle half way must be shown not to come up, or to be undone: nothing lies below a file, so that `os.makedirs` creates nothing a row would have to stand for
(the levels above a trash root are implicit) and an insertion cannot fail between its two halves (this is where `TreeInv` is needed); `os.rename`
takes along what the two UPDATEs select, by `ExactLikeBelow`; an overwrite inserts at a path it has just emptied; versions move with their
file as they have no key of their own at the new path; and a blob belongs to one version, as `FreshRef` looks at the disk.
`NothingIsLost` follows entries by their `node`, which is unique, through every action.

*The tree of entries* (its last part)*.* `FileTree` speaks of parents and histories, the store of paths and blobs. What makes the two agree is
the invariant of the disk together with `NodesUnique`, one row per entry (`Good`). Then what is `Above` an entry, a least fixpoint, is exactly the entries
of the rows at its path and above (`AboveIs`), and `PathOf` gives back the row's path (`PathOfIs`), which is how the guards of `FileTree` about cycles and free names
are found true where the code compares strings. A handler changes the entry of one row (`OnlyPuts`), or drops what a purge covers: the entry of every other row stays what it was,
because the row reads alike and hangs from the same entry, also when its path is another (`SameEntryOf`). That is the point of the refinement, and the work is in the two
UPDATEs: below a moved folder every path changes and no edge may (`Shifts`, `Lands`, `FolderMoves`). Histories are read by version numbers, which is sound as they run without a gap (`HistoryAttached`).

*`SignInProofs`.* That the server is complete when it is up needs to be known while it starts. `BootInv`: of every
database the statements up to its recorded version are in effect (`Sound`); while a migration is under way,
so are its statements before the next one, the databases before this one are complete, and the version
in memory is the recorded one (`Under`). It holds for any databases and any scripts (`MigrationsAssumption`), started from disks
that are themselves sound (`DisksAssumption`), and a crash cannot break it: it never speaks of what is in effect too much.

Ownership: `OwnersInv` adds to `SignedInAsOwner` the rows that were read and not yet compared, and
sessions between login and `/auth/me`; accounts only grow, as `Inserts` tests for the name in the step that writes it.
The bound: `WindowsInv` counts with the failures in a window the attempts that were let in and have not ended. Letting one in
needs room (`LetInBelow`: a wait rounded up to seconds is positive for a full window, as its oldest event still counts, `OldestCounts`);
a failure moves one from the second number to the first. Every other step leaves windows and attempts alone or
makes them fewer (`Calm`, `NoneLetIn`). What is proved of windows does not need their events to be in order of time.

*`UploadProofs`, on `UploadSessions`.* The server does not compare what it adopts with the declared size. That it is complete rests
on the client: while an upload goes on, the part file is at least as long as the client's offset (`Going`), so that an offset that has reached
the size means a whole file; and the client sends one closing call per session, its last (`OneClosing`), so that nothing is appended or removed
while a complete reads. Handlers whose connection was dropped run on, and `OneAwaited` tells them from the call the client waits for. What
is known of checksums and of the bytes below the row holds as long as one complete at a time is under way (`Alone`).

*`TokensProofs`.* The types hold for any number of tabs. `auth_management.refresh` awaits between its check and the revocation, so
that a token is redeemed once is not the server's doing: it is because a tab has one refresh under way. The invariant `Rotation` relates
the token of that refresh to what is stored and to what was revoked, under the hypothesis `OneTab`, without which the theorem is
false (`MCTokensOnce.cfg`). `Descent` is for the end of a session: a call that is replayed has a token that has not expired (it was just signed);
a pair descends from a login that was before it; and the token under verification is the stored one, or nothing is stored, or there was another login. So a refresh that
fails was of the stored token, or of a session that is gone.

*`PortalProofs`.* `LoadingInv`: of the listing requests whose answer counts there is one, it is of the current folder and key, and `busy` says
whether there is one; every effect that asks anew first cancels the last. The explorer cancels nothing. `TreeInv` says why it needs not: a folder that is marked as
loading has a request in flight, and an open one is cached or marked. An answer takes the mark away even if a later request for the folder
is still out, but then it fills the cache, or the effect asks again. `NamesInv` and `OpsInv` are about types: every row and every item
of a request is a path of the account. `SettleInv` says when the views are right: a served request whose handler has not refreshed the page yet excuses anything (`Refreshes`);
without one, every answer in flight for the listing or the quota is what the server would say now, and a view with no answer on the way shows it. A request for one entry has
its result once it is served (`OneEntry`), so it cannot change the tree and then be taken for refused; bulk requests and uploads refresh whatever came of them.

*`UploadProofs`, on `FolderUpload`.* (The two models stand beside one another there and share nothing; their
next-state relations are never combined.) `FInv` holds for any number of drops at once, any files (two of one name included), any pool that is not empty, and any interference.
Of a batch at work (`Working`) it says that the index is one past the items that were taken; that busy workers have different items; that what is
counted and what is busy add up to what was taken (so that at the end everything counted once); that an item no worker holds is reported, taken by the server or
skipped; that an item that is sent or asked about has no answer of its own; that one that is replaced was agreed to; and that a latched decision
has an "all" answer behind it. `QueueInv`: the queue is the set of workers that ask, without a repeat, and the prompt shown is its head, so that the page resolves the
promise of the worker whose file it names. `CalmInv`: as long as nothing was lost and nobody interfered, every folder that is not on the
list any more exists; the folder of an item is `Shallowest` before its child, so it is made before its files are sent. "Calm" is a condition on the present
state; the proof needs that it held before (`CalmBefore`): no step turns a file into a folder. Assumed of the constants: items are non-empty paths, the pool has a
worker, `None` and the batches' names are none of the values they are compared with.

*`OverlaysProofs`.* Requests of closed viewers and dialogs go on, so `OInv` speaks of what is in flight. A fetch that is still live is of the file and for the component
mounted, and there is one (`RunsInv`); hence what a late answer shows is what is open. `BlobsInv`: an object URL is that of a text being decoded or of what is shown, and while
a fetch of a picture is live only the former exist, as the effect that started it has revoked the last one. `SavesInv`: the editor whose save is in flight is "saving",
which disables the button. `DialogsInv`: while the page was not told of a change, the handler of that change is under way, at a step from which it tells the page. The account keeps its type through
every request (`AccountInv`); ids are below `clock`, so new ones are fresh. Assumed of the constants: the account at the start is one, every file has a kind, and `None`, `Refused` and `Done` differ from one another and from what they stand beside.

*`AsyncProofs`.* The lemmas of `FilesystemProofs` about the operators of `Storage` are cited through an instance (`FP`); what is new is the time
between a handler's steps. Four layers (`SettleProofs` adds three), each of them checked with TLC (with two and three requests) before it was proved. *Types and keys* (`IInv`): `Positions` says which labels stand where in the plans, so that a
position says what the handler has done and must remember (`Knows`); a relocation's check for clashing keys stays true while it holds the lock, as nobody else writes rows then (`LockInv`).
*Marks* (`MarksIInv`), without any condition on overlaps: from its request and its own reads a handler knows on which side of the trash its paths lie (`Sided`), and the names it drew at random
are still unused when it uses them (`DrawsInv`, with `BlobsReady` for the blob between its copy and its row), although others ran in between. *The tree and the blobs* (`QuietIInv`), as long as `overlap` is false:
requests in flight are `Apart`, so what each of them read before is still so (`Situated`: the entry it moves, the folder it adds to, the versions it is about to forget), because a step changes rows at or below
its own paths only (`RowsStay`, `FolderStays`). Then the step lemmas of the sequential proof apply at the commit (`TreeStep`), and a purge removes no blob a version still names (`BlobsThereStep`).
*The bytes* (`BytesIInv`), while `overlap` and `Forfeited` are false. "Some entry holds them" is not inductive; what is, is that an entry which holds them has a keeper (`Kept`): a file row at its path that no
relocation is about to move (`Rowed`); a version whose blob it is (`Blobbed`); a relocation that has renamed it and not yet committed (`Underway`); or one that died there (`Stranded`). Rows and versions count only
where no purge can come without forfeiting them (`Spared`). A step hands the bytes from keeper to keeper: a rename turns `Rowed` into `Underway`, its commit back, a crash into `Stranded`; when a step removes or
overwrites bytes a row leads to, a copy is already `Blobbed` (`RowedLost`), because the handler is `Prepared`: at each position of its plan it has found the row, copied the bytes or named the copy, and others left that alone
(`PreparedStays`). Two facts of the tree carry it: nothing lies below a file (`FilesAreLeaves`, by a lowest row and a well-founded order), and drawn names stand nowhere but in the trash and in `.part` files (`Named`).
Assumed besides `LikeIsExact`: `OnlyUserPaths` (no request for an entry of `.trash` or `.versions` but restores and purges, and no row there at the start but of the trash), and that the names
drawn at random occur neither in the store at the start nor in the names users choose (`Fresh`, in `StartAssumption` and `InputAssumption`).

*`SettleProofs`.* (Its invariant, and what each label does to a place, are at the end of `AsyncProofs`.) While handlers are in flight, rows and disk are never equal as a whole: bytes are in place before or after the row that speaks of them is committed.
`Settled` is a fifth layer on `BytesIInv`, while `overlap` and `faults` are false, and says where the difference is and who will remove it. `Mirrors`: rows and disk agree at every place that no handler is
in the middle of changing (`Pends`). `Owes`: what the difference is at such a place, for each position of a plan (bytes that have no row yet, a subtree that was renamed and has its rows at the old place, and so on).
`Recalls`: what a handler read before an await and decides by (the entry was free, the row was a file, the versions it is about to forget) is still so at its next step. `BlobsAgree`, `Owned` and `Numbered` say
the same of history: a blob without a version is one that a handler just copied or is about to remove; a version without a file is of the one being replaced or purged; and the numbers of a path have no gap but while it is.
The argument of every step is in two halves. In its own `Zone` (at or below its paths, and its `.part` file) a step pays what it owes: that is one lemma per label, from `Prepared` and `Recalls`. Elsewhere it changes neither rows nor files, and as
`Apart` requests have disjoint zones, nobody else's part is touched. Shared places are the hard part of that half: a parent folder of two requests (only its existence is relied on, and `FolderStays`), the folders of the trash and of the version store
(their names are drawn fresh, `Named`), and `os.makedirs`, which creates nothing that a row does not already stand for. A plan that ends, or a handler that is refused, owes nothing, so when the last one has gone no place pends: then `Mirrors` is
`DiskMatches`, and the other three are `HistoryAttached`. `faults` cannot be dropped from the hypothesis: a crash between `os.rename` and its commit, or a lock timeout of `restore_version` after its copy, leaves the difference, and nothing in the code looks for it later.
The same invariant, and a sixth layer of one conjunct (`Tells`), give `AnswersStayTrue`. Its difficulty is that a handler may answer an await after its last change, or from rows it reads again: what it says must have outlived the steps of the others.
`Tells` names what is relied on beyond `Settled`: that the new place of a relocation lies outside of its old one when it commits; that the row read back is the version's, or that no row is left at the old place; that the blobs of the versions
a purge read are gone, and stay so, as the blobs that others write have names that no version it read can have (`DrawsInv`).

*`HandlersAreAtomic`* (the last part of `SettleProofs`). That the intermediate states of a handler are none of `Filesystem` makes a step-by-step refinement impossible: the store is compared only when nobody is at work. A store at rest
is `Sound` (`SoundAtRest`), and the disk of a sound store is a function of its tables (`SameTables`), so what a handler does to the disk need not be followed: that is what `Settled` is for. From the store it found, `HandlerAt` says for
each position of its plan what the tables are by now and what it learned (`UploadAt`, `SaveAt`, `VersionAt`, `FolderGoes`, `PurgeAt`, `MoverAt`), one step lemma per kind of handler; a refused handler leaves the tables it found, so the
same store; one that ends has done all of it (`HandlerDone`), and there is one lemma per endpoint that this is its action in `Filesystem` (`UploadIsAtomic` and so on), whose guards are what the handler read and whose fresh names are what it drew
(`Unused`, from `DrawsInv`, and `NodesFresh` for the identities). A handler alone never waits for the lock (`NoWaiting`). `SerialIInv` adds this to `SettledIInv`. Only here it matters that a move keeps the entry's name (`InputAssumption`), and that
the identities of entries at the start are not those of requests (`StartAssumption`; `node` is a history field). `Large`, the bound that `Filesystem` is instantiated with, is any number: the theorem is about behaviours that stay below it.

The constants' assumptions are in the modules that declare them, and TLC evaluates them in the runs.

*Only model-checked:* liveness. Every invariant, every action property and every refinement that a passing run checks is proved. Liveness under fairness and
ENABLED are out of the prover's reach.

## 5. What the runs found

1. `async_same_file` — of two uploads of one new file the loser removes the winner's bytes.
2. `editor_unsaved` — the Markdown editor marks as saved the text it finds when the save is answered, not the text it sent.
3. `migration_crash` — the docstring's "recorded atomically" does not hold for `ALTER TABLE`: after a crash before the
   version row every start fails on the column that is already there (or gone), until somebody repairs the database by hand.
   `ServesWholeSchema` says that at least no request is served meanwhile.

Eight more are in the configurations of section 3: LIKE folds case and knows wildcards; a user's own `.trash` shares its
path with the reserved directory; bytes that a relocation left behind in a crash are replaced by the next upload to that place; `refresh` awaits between its check and the revocation; uploads and downloads treat the
first 401 as the end of the session; an "all" answer does not settle prompts that are already queued; the explorer
repeats a failing fetch without a pause; the reported wait may be too short.

## 6. What is left out

- Sizes, dates, MIME types; search, recent, favorites listing, quota sums: pure reads of the rows. `update_file`: nothing calls it.
- Path segments that are empty: `_safe_user_path` lets `//` through; paths here are sequences of names.
- A crash inside one stretch of file operations (a torn file, half a directory tree); `os.makedirs` of
  several levels is one step. Disk-full errors.
- `empty_trash` in `AsyncFilesystem`: it is `purge` in a loop; `Filesystem` has it.
- The owner: handlers take every row `WHERE owner_id = ?`, so one owner's store is the whole model.
- `UploadSessions`: the declared-size and quota checks of init; the parent's disappearance (that is `AsyncFilesystem`'s "chunked").
- `Tokens`: deleted accounts; access tokens that expire within the call they are replayed with;
  a page load while the server is at work on the tab's own refresh (it is another tab's then).
- `FolderUpload`: walking the dropped tree; the progress bar; leaving the page, which drops every prompt.
- `SignIn`: hashing and tokens' encoding (external); who is behind a proxy (an address is given); the size of a second is a
  constant. The forms' wording of errors.
- `Portal`: sorting and views; what a late `finally` of a rename does to the field of another row is in the model
  (`OpDone`), with no property, as no line promises anything. Drag and drop is its `MoveEntry`.
- `Overlays`: HexViewer's paging, ZipViewer's browsing inside an archive (one component's state, no request after the first), the
  decoders; video players. Share links, sub-paths and expiry: pure functions of one request and the clock. Downloads.
- Password policy: a predicate on one string; only who refuses is modelled.

## 7. Plan

In order:

1. **Shares** composed with `Filesystem`'s renames, deletes and restores: an abstract grant names an entry, the code's names a path.
   Link tokens, sub-paths and expiry belong to it.
2. **Tokens**, more: the storage chosen at login against page loads (`rememberRef`), and what a refresh in flight does to a logout.
3. **Viewers**: browsing in archives, and downloads beside a renewal of the token.

A violation run goes when the code it is about is fixed, or when a sharper run of the same module replaces it.
