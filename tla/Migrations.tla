----------------------------- MODULE Migrations ----------------------------
(***************************************************************************)
(* The start of the server: each database in turn gets its baseline tables *)
(* and then the migrations above its version.  A statement that changes    *)
(* the schema takes effect at once, whatever transaction surrounds it; the *)
(* row with the version takes effect when it is committed.                 *)
(***************************************************************************)
EXTENDS Integers, Sequences

CONSTANTS
  Databases,   \* a sequence, in the order they are opened
  Scripts,     \* for each its migrations: version n is Scripts[d][n], a
               \* sequence of statements; TRUE for one that may be repeated
  Disks,       \* what may be found on disk at the first start
  MaxCrashes   \* bound: crashes, while starting or later

ASSUME MigrationsAssumption ==
  /\ Databases \in Seq(DOMAIN Scripts) /\ Databases # << >>
  /\ \A d \in DOMAIN Scripts : Scripts[d] \in Seq(Seq(BOOLEAN))
  /\ MaxCrashes \in Nat

VARIABLES
  disk,      \* for each database: its version (-1 without one) and the
             \* statements, as <<version, n>>, that are in effect
  boot,      \* where the start stands: the next statement of a migration
  crashes

booting == <<disk, boot, crashes>>

Dbs == DOMAIN Scripts
Statements(d, v) == {<<v, n>> : n \in DOMAIN Scripts[d][v]}
UpTo(d, v) == UNION {Statements(d, w) : w \in 1 .. v}

\* What is found at the first start was left by this server or an older one.
ASSUME DisksAssumption ==
  \A found \in Disks :
    /\ DOMAIN found = Dbs
    /\ \A d \in Dbs : /\ found[d] = [version |-> found[d].version, applied |-> found[d].applied]
                      /\ found[d].version \in -1 .. Len(Scripts[d])
                      /\ UpTo(d, found[d].version) \subseteq found[d].applied

Fresh == [version |-> -1, applied |-> {}]

Down == [at |-> "down", db |-> 1, version |-> 0, next |-> 1]
Starting == boot.at = "migrate"
Up == boot.at = "up"
Here == Databases[boot.db]

MigrationsInit == disk \in Disks /\ boot = Down /\ crashes = 0

\* Bug: a database without a version is taken for an up-to-date one.
SeedLatest(d) == Len(Scripts[d])
\* A new or legacy database is at the baseline.
Seed(d) == 0

\* The database is opened: its version is read, or the baseline stored.
Open(n) ==
  LET d == Databases[n]
      v == IF disk[d].version < 0 THEN Seed(d) ELSE disk[d].version
  IN  /\ disk' = [disk EXCEPT ![d].version = v]
      /\ boot' = [at |-> "migrate", db |-> n, version |-> v, next |-> 1]

Start == ~Starting /\ ~Up /\ Open(1) /\ UNCHANGED crashes

Applying(v) == Starting /\ boot.version < Len(Scripts[Here]) /\ v = boot.version + 1

\* A column that is there cannot be added: the start fails.
Execute(v) ==
  LET statement == <<v, boot.next>>
  IN  /\ Applying(v) /\ boot.next \in DOMAIN Scripts[Here][v]
      /\ IF statement \in disk[Here].applied /\ ~Scripts[Here][v][boot.next]
         THEN boot' = Down /\ UNCHANGED disk
         ELSE /\ disk' = [disk EXCEPT ![Here].applied = @ \cup {statement}]
              /\ boot' = [boot EXCEPT !.next = @ + 1]
      /\ UNCHANGED crashes

Record(v) ==
  /\ Applying(v) /\ boot.next = Len(Scripts[Here][v]) + 1
  /\ disk' = [disk EXCEPT ![Here].version = v]
  /\ boot' = [boot EXCEPT !.version = v, !.next = 1]
  /\ UNCHANGED crashes

\* All migrations of a database are there: the next one, or requests.
Migrated ==
  /\ Starting /\ boot.version = Len(Scripts[Here])
  /\ IF boot.db < Len(Databases) THEN Open(boot.db + 1)
     ELSE boot' = [boot EXCEPT !.at = "up"] /\ UNCHANGED disk
  /\ UNCHANGED crashes

Crash ==
  /\ boot # Down /\ crashes < MaxCrashes /\ crashes' = crashes + 1
  /\ boot' = Down /\ UNCHANGED disk

Versions == UNION {DOMAIN Scripts[d] : d \in Dbs}

Boot == Start \/ Migrated \/ \E v \in Versions : Execute(v) \/ Record(v)

----------------------------------------------------------------------------
(* The server takes requests only with both schemas complete: a start that *)
(* finds a partly migrated database after crashes finishes it or fails.    *)
ServesWholeSchema ==
  Up => \A n \in DOMAIN Databases :
          LET d == Databases[n]
          IN  /\ disk[d].version = Len(Scripts[d])
              /\ UpTo(d, Len(Scripts[d])) \subseteq disk[d].applied

(* "Each migration runs in its own transaction and is recorded atomically, *)
(* so a crash mid-run leaves the DB at a clean, known version": of a       *)
(* server that is down, the schema is that of the recorded version.        *)
CrashLeavesVersion ==
  boot.at = "down" => \A d \in Dbs : disk[d].applied = UpTo(d, disk[d].version)

============================================================================
