---------------------------- MODULE SignInProofs ---------------------------
(***************************************************************************)
(* For any clients, names, windows, databases and any number of requests:  *)
(* the windows hold at most what was let in before they were full, a name  *)
(* belongs to whoever knows its password, and requests meet a whole schema.*)
(*                                                                         *)
(* The bound becomes inductive when the attempts that were let in and have *)
(* not ended yet are counted with the failures in the window; ownership,   *)
(* when it is stated of rows that were read and of sessions under way.     *)
(***************************************************************************)
EXTENDS SignIn, FiniteSetTheorems, TLAPS

----------------------------------------------------------------------------
(* The start of the server, for any databases and scripts.  The statements *)
(* below the recorded version are in effect, and so are those of the       *)
(* migration under way before the next one: with it no order of crashes    *)
(* lets the server take requests with a partial schema.                    *)

BootType ==
  /\ DOMAIN disk = Dbs
  /\ \A d \in Dbs : /\ disk[d] = [version |-> disk[d].version, applied |-> disk[d].applied]
                    /\ disk[d].version \in -1 .. Len(Scripts[d])
  /\ boot \in [at : {"down", "migrate", "up"}, db : DOMAIN Databases, version : Nat, next : Nat]

Sound == \A d \in Dbs : UpTo(d, disk[d].version) \subseteq disk[d].applied

Complete(d) == disk[d].version = Len(Scripts[d])

Under ==
  Starting =>
    /\ boot.version = disk[Here].version
    /\ \A n \in 1 .. boot.db - 1 : Complete(Databases[n])
    /\ boot.version < Len(Scripts[Here]) =>
         \A n \in DOMAIN Scripts[Here][boot.version + 1] :
           n < boot.next => <<boot.version + 1, n>> \in disk[Here].applied

BootInv ==
  /\ BootType /\ Sound /\ Under
  /\ Up => \A n \in DOMAIN Databases : Complete(Databases[n])

----------------------------------------------------------------------------

LEMMA DatabaseAt ==
  ASSUME NEW n \in DOMAIN Databases
  PROVE  /\ Databases[n] \in Dbs /\ n \in 1 .. Len(Databases)
         /\ Scripts[Databases[n]] \in Seq(Seq(BOOLEAN))
         /\ Len(Scripts[Databases[n]]) \in Nat
BY MigrationsAssumption DEF Dbs

LEMMA NoVersion ==
  ASSUME NEW d \in Dbs, NEW v \in Int, v <= 0
  PROVE  UpTo(d, v) = {}
BY DEF UpTo

\* The statements of one more version.
LEMMA NextVersion ==
  ASSUME NEW d \in Dbs, NEW v \in Nat
  PROVE  UpTo(d, v + 1) = UpTo(d, v) \cup Statements(d, v + 1)
<1>1. 1 .. v + 1 = (1 .. v) \cup {v + 1}
  OBVIOUS
<1> QED
  BY <1>1 DEF UpTo

LEMMA BootInit ==
  ASSUME MigrationsInit
  PROVE  BootInv
<1>1. disk \in Disks /\ boot = Down
  BY DEF MigrationsInit
<1>2. 1 \in DOMAIN Databases
  BY MigrationsAssumption
<1>3. BootType
  BY <1>1, <1>2, DisksAssumption DEF BootType, Down
<1>4. Sound
  BY <1>1, DisksAssumption DEF Sound
<1> QED
  BY <1>1, <1>3, <1>4 DEF BootInv, Under, Starting, Up, Down

\* Opening a database, once those before it are complete.
LEMMA Opened ==
  ASSUME BootInv, NEW n \in DOMAIN Databases, Open(n),
         \A m \in 1 .. n - 1 : Complete(Databases[m])
  PROVE  BootInv'
<1> DEFINE d == Databases[n]
           v == IF disk[d].version < 0 THEN Seed(d) ELSE disk[d].version
<1>1. d \in Dbs /\ Len(Scripts[d]) \in Nat /\ n \in 1 .. Len(Databases)
  BY DatabaseAt
<1>2. /\ disk[d].version \in -1 .. Len(Scripts[d]) /\ v \in 0 .. Len(Scripts[d])
  BY <1>1 DEF BootInv, BootType, Seed
<1>3. /\ disk' = [disk EXCEPT ![d].version = v]
      /\ boot' = [at |-> "migrate", db |-> n, version |-> v, next |-> 1]
  BY DEF Open
<1>4. /\ DOMAIN disk' = Dbs
      /\ disk'[d].version = v /\ disk'[d].applied = disk[d].applied
      /\ disk'[d] = [version |-> v, applied |-> disk[d].applied]
      /\ \A e \in Dbs \ {d} : disk'[e] = disk[e]
  BY <1>1, <1>3 DEF BootInv, BootType
<1>5. BootType'
  BY <1>1, <1>2, <1>3, <1>4 DEF BootInv, BootType
<1>6. UpTo(d, v) \subseteq disk[d].applied
  <2>1. CASE disk[d].version < 0
    BY <1>1, <1>2, <2>1, NoVersion DEF Seed
  <2>2. CASE ~(disk[d].version < 0)
    BY <1>1, <2>2 DEF BootInv, Sound
  <2> QED
    BY <2>1, <2>2
<1>7. Sound'
  BY <1>1, <1>4, <1>6 DEF BootInv, Sound, UpTo, Statements, Dbs
<1>8. \A m \in 1 .. n - 1 : Complete(Databases[m])'
  <2> TAKE m \in 1 .. n - 1
  <2>1. m \in DOMAIN Databases /\ Databases[m] \in Dbs
    BY <1>1, DatabaseAt, MigrationsAssumption
  <2>2. disk[Databases[m]].version = Len(Scripts[Databases[m]]) /\ Len(Scripts[Databases[m]]) \in Nat
    BY <2>1, DatabaseAt DEF Complete
  <2> QED
    BY <1>1, <1>4, <2>1, <2>2 DEF Complete, Seed
<1>9. Under'
  BY <1>1, <1>2, <1>3, <1>4, <1>8, MigrationsAssumption DEF Under, Starting, Here
<1> QED
  BY <1>3, <1>5, <1>7, <1>9 DEF BootInv, Up

----------------------------------------------------------------------------
(* The steps.                                                              *)

LEMMA StartKeeps ==
  ASSUME BootInv, Start
  PROVE  BootInv'
BY Opened, MigrationsAssumption DEF Start

LEMMA MigratedKeeps ==
  ASSUME BootInv, Migrated
  PROVE  BootInv'
<1>1. /\ boot.db \in DOMAIN Databases /\ boot.db \in 1 .. Len(Databases) /\ Complete(Here)
      /\ \A n \in 1 .. boot.db - 1 : Complete(Databases[n])
  BY DatabaseAt DEF BootInv, BootType, Under, Migrated, Complete
<1>2. \A n \in 1 .. boot.db : Complete(Databases[n])
  BY <1>1 DEF Here
<1>3. CASE boot.db < Len(Databases)
  <2>1. boot.db + 1 \in DOMAIN Databases /\ \A m \in 1 .. (boot.db + 1) - 1 : Complete(Databases[m])
    BY <1>1, <1>2, <1>3, MigrationsAssumption
  <2>2. Open(boot.db + 1)
    BY <1>3 DEF Migrated
  <2> QED
    BY <2>1, <2>2, Opened
<1>4. CASE ~(boot.db < Len(Databases))
  <2>1. boot' = [boot EXCEPT !.at = "up"] /\ UNCHANGED disk
    BY <1>4 DEF Migrated
  <2>2. \A n \in DOMAIN Databases : Complete(Databases[n])
    BY <1>1, <1>2, <1>4, MigrationsAssumption
  <2> QED
    BY <2>1, <2>2 DEF BootInv, BootType, Sound, Under, Complete, Starting, Up, UpTo, Statements, Dbs
<1> QED
  BY <1>3, <1>4

LEMMA CrashKeeps ==
  ASSUME BootInv, Crash
  PROVE  BootInv'
<1>1. boot' = Down /\ disk' = disk /\ 1 \in DOMAIN Databases
  BY MigrationsAssumption DEF Crash
<1> QED
  BY <1>1 DEF BootInv, BootType, Sound, Under, Starting, Up, Down, UpTo, Statements, Dbs

LEMMA ExecuteKeeps ==
  ASSUME BootInv, NEW v, Execute(v)
  PROVE  BootInv'
<1> DEFINE d == Here
<1>1. /\ Starting /\ v = boot.version + 1 /\ boot.version \in Nat /\ boot.next \in Nat
      /\ boot.version = disk[d].version /\ boot.version < Len(Scripts[d])
      /\ d \in Dbs /\ DOMAIN disk = Dbs
      /\ boot.next \in DOMAIN Scripts[d][v]
  BY DatabaseAt DEF BootInv, BootType, Under, Execute, Applying, Here
<1>2. CASE boot' = Down /\ disk' = disk
  BY <1>2, MigrationsAssumption
     DEF BootInv, BootType, Sound, Under, Starting, Up, Down, UpTo, Statements, Dbs
<1>3. CASE /\ disk' = [disk EXCEPT ![d].applied = @ \cup {<<v, boot.next>>}]
           /\ boot' = [boot EXCEPT !.next = @ + 1]
  <2>0. disk[d] = [version |-> disk[d].version, applied |-> disk[d].applied]
    BY <1>1 DEF BootInv, BootType
  <2>1. /\ DOMAIN disk' = Dbs
        /\ disk'[d] = [version |-> disk[d].version, applied |-> disk[d].applied \cup {<<v, boot.next>>}]
        /\ \A e \in Dbs \ {d} : disk'[e] = disk[e]
    <3> HIDE DEF d
    <3>1. disk'[d] = [disk[d] EXCEPT !.applied = disk[d].applied \cup {<<v, boot.next>>}]
      BY <1>1, <1>3
    <3>2. DOMAIN disk' = Dbs /\ \A e \in Dbs \ {d} : disk'[e] = disk[e]
      BY <1>1, <1>3
    <3> QED
      BY <2>0, <3>1, <3>2
  <2>2. /\ boot'.at = boot.at /\ boot'.db = boot.db /\ boot'.version = boot.version
        /\ boot'.next = boot.next + 1 /\ Here' = d
    BY <1>1, <1>3 DEF BootInv, BootType, Here
  <2>3. BootType'
    <3>1. boot' \in [at : {"down", "migrate", "up"}, db : DOMAIN Databases, version : Nat, next : Nat]
      BY <1>1, <1>3 DEF BootInv, BootType
    <3> QED
      BY <1>1, <2>1, <3>1 DEF BootInv, BootType
  <2>4. Sound'
    BY <1>1, <2>1 DEF BootInv, Sound, UpTo, Statements, Dbs
  <2>5. \A n \in 1 .. boot.db - 1 : Complete(Databases[n])'
    <3> TAKE n \in 1 .. boot.db - 1
    <3>1. Complete(Databases[n]) /\ Databases[n] \in Dbs
      BY <1>1, DatabaseAt DEF BootInv, BootType, Under
    <3> QED
      BY <1>1, <2>1, <3>1 DEF Complete
  <2>6. \A n \in DOMAIN Scripts[d][v] : n < boot.next + 1 => <<v, n>> \in disk'[d].applied
    <3> SUFFICES ASSUME NEW n \in DOMAIN Scripts[d][v], n < boot.next + 1
                 PROVE  <<v, n>> \in disk'[d].applied
      OBVIOUS
    <3>1. n \in Nat
      BY <1>1, MigrationsAssumption DEF Dbs
    <3>2. CASE n = boot.next
      BY <2>1, <3>2
    <3>3. CASE n < boot.next
      BY <1>1, <2>1, <3>3 DEF BootInv, Under
    <3> QED
      BY <1>1, <3>1, <3>2, <3>3
  <2>7. Under'
    BY <1>1, <2>1, <2>2, <2>5, <2>6 DEF Under
  <2>8. ~Up'
    BY <1>1, <2>2 DEF Starting, Up
  <2> QED
    BY <2>3, <2>4, <2>7, <2>8 DEF BootInv
<1> QED
  BY <1>2, <1>3 DEF Execute

LEMMA RecordKeeps ==
  ASSUME BootInv, NEW v, Record(v)
  PROVE  BootInv'
<1> DEFINE d == Here
<1>1. /\ Starting /\ v = boot.version + 1 /\ boot.version \in Nat
      /\ boot.version = disk[d].version /\ boot.version < Len(Scripts[d])
      /\ d \in Dbs /\ DOMAIN disk = Dbs /\ Scripts[d] \in Seq(Seq(BOOLEAN))
      /\ boot.next = Len(Scripts[d][v]) + 1
  BY DatabaseAt DEF BootInv, BootType, Under, Record, Applying, Here
<1>2. /\ disk' = [disk EXCEPT ![d].version = v]
      /\ boot' = [boot EXCEPT !.version = v, !.next = 1]
  BY DEF Record
<1>3. /\ DOMAIN disk' = Dbs
      /\ disk'[d] = [version |-> v, applied |-> disk[d].applied]
      /\ disk'[d].version = v /\ disk'[d].applied = disk[d].applied
      /\ \A e \in Dbs \ {d} : disk'[e] = disk[e]
  BY <1>1, <1>2 DEF BootInv, BootType
<1>4. v \in 1 .. Len(Scripts[d]) /\ Scripts[d][v] \in Seq(BOOLEAN)
  BY <1>1
<1>5. BootType'
  <2>1. boot' \in [at : {"down", "migrate", "up"}, db : DOMAIN Databases, version : Nat, next : Nat]
    <3>1. v \in Nat
      BY <1>1
    <3> QED
      BY <1>2, <3>1 DEF BootInv, BootType
  <2>2. \A e \in Dbs : /\ disk'[e] = [version |-> disk'[e].version, applied |-> disk'[e].applied]
                       /\ disk'[e].version \in -1 .. Len(Scripts[e])
    <3> TAKE e \in Dbs
    <3>1. CASE e = d
      BY <1>3, <1>4, <3>1
    <3>2. CASE e # d
      <4>1. disk'[e] = disk[e]
        BY <1>3, <3>2
      <4> QED
        BY <4>1 DEF BootInv, BootType
    <3> QED
      BY <3>1, <3>2
  <2> QED
    BY <1>3, <2>1, <2>2 DEF BootType
<1>6. Statements(d, v) \subseteq disk[d].applied
  <2> SUFFICES ASSUME NEW n \in DOMAIN Scripts[d][v]
               PROVE  <<v, n>> \in disk[d].applied
    BY DEF Statements
  <2>1. n < boot.next
    BY <1>1, <1>4
  <2> QED
    BY <1>1, <2>1 DEF BootInv, Under
<1>7. UpTo(d, v) \subseteq disk[d].applied
  BY <1>1, <1>6, NextVersion DEF BootInv, Sound
<1>8. Sound'
  BY <1>1, <1>3, <1>7, SMTT(30) DEF BootInv, Sound, UpTo, Statements, Dbs
<1>9. \A n \in 1 .. boot.db - 1 : Complete(Databases[n])'
  <2> TAKE n \in 1 .. boot.db - 1
  <2>1. Complete(Databases[n]) /\ Databases[n] \in Dbs
    BY <1>1, DatabaseAt DEF BootInv, BootType, Under
  <2>2. Databases[n] # d
    BY <1>1, <2>1 DEF Complete
  <2>3. disk'[Databases[n]] = disk[Databases[n]]
    BY <1>3, <2>1, <2>2
  <2> QED
    BY <2>1, <2>3 DEF Complete
<1>10. /\ boot'.at = boot.at /\ boot'.db = boot.db /\ boot'.version = v /\ boot'.next = 1 /\ Here' = d
  BY <1>1, <1>2 DEF BootInv, BootType, Here
<1>11. \A n \in DOMAIN Scripts[d][v + 1] : v < Len(Scripts[d]) => ~(n < 1)
  BY <1>1, <1>4
<1>12. Under'
  BY <1>3, <1>4, <1>9, <1>10, <1>11 DEF Under
<1> QED
  BY <1>1, <1>5, <1>8, <1>10, <1>12 DEF BootInv, Starting, Up

LEMMA BootKeeps ==
  ASSUME BootInv, Boot
  PROVE  BootInv'
BY StartKeeps, MigratedKeeps, ExecuteKeeps, RecordKeeps DEF Boot

LEMMA BootServes ==
  ASSUME BootInv
  PROVE  ServesWholeSchema
<1> SUFFICES ASSUME Up, NEW n \in DOMAIN Databases
             PROVE  LET d == Databases[n]
                    IN  /\ disk[d].version = Len(Scripts[d])
                        /\ UpTo(d, Len(Scripts[d])) \subseteq disk[d].applied
  BY DEF ServesWholeSchema
<1> QED
  BY DatabaseAt DEF BootInv, Sound, Complete

----------------------------------------------------------------------------
(* The windows, as functions of the time.                                  *)

ExpiredAt(e, t) == {n \in DOMAIN e : \A m \in 1 .. n : e[m] <= t - Window}
Live(e, t) == SubSeq(e, Cardinality(ExpiredAt(e, t)) + 1, Len(e))

LEMMA PrunedIsLive ==
  ASSUME NEW e
  PROVE  Pruned(e) = Live(e, now)
BY DEF Pruned, Expired, Live, ExpiredAt

LEMMA IntervalCount ==
  ASSUME NEW n \in Nat
  PROVE  IsFiniteSet(1 .. n) /\ Cardinality(1 .. n) = n
<1>1. IsFiniteSet(1 .. n) /\ Cardinality(1 .. n) = IF 1 > n THEN 0 ELSE n - 1 + 1
  BY FS_Interval
<1> QED
  BY <1>1

LEMMA SequenceLengths ==
  ASSUME NEW e \in Seq(Int), NEW x \in Int
  PROVE  /\ Len(e) \in Nat /\ DOMAIN e = 1 .. Len(e) /\ \A n \in 1 .. Len(e) : e[n] \in Int
         /\ Append(e, x) \in Seq(Int) /\ Len(Append(e, x)) = Len(e) + 1
OBVIOUS

LEMMA ExpiredCount ==
  ASSUME NEW e \in Seq(Int), NEW t \in Int
  PROVE  /\ IsFiniteSet(ExpiredAt(e, t)) /\ Cardinality(ExpiredAt(e, t)) \in 0 .. Len(e)
         /\ ExpiredAt(e, t) = 1 .. Cardinality(ExpiredAt(e, t))
<1> DEFINE X == ExpiredAt(e, t)
           c == Cardinality(X)
<1>1. Len(e) \in Nat /\ DOMAIN e = 1 .. Len(e) /\ X \in SUBSET (1 .. Len(e))
  BY DEF ExpiredAt
<1>2. IsFiniteSet(1 .. Len(e)) /\ Cardinality(1 .. Len(e)) = Len(e)
  BY <1>1, IntervalCount
<1>3. IsFiniteSet(X) /\ c <= Len(e)
  BY <1>1, <1>2, FS_Subset
<1>4. c \in Nat
  BY <1>3, FS_CardinalityType
<1>5. IsFiniteSet(1 .. c) /\ Cardinality(1 .. c) = c
  BY <1>4, IntervalCount
<1>6. ASSUME NEW n \in X
      PROVE  n <= c
  <2>1. n \in Nat /\ 1 .. n \in SUBSET X
    BY <1>1 DEF ExpiredAt
  <2>2. IsFiniteSet(1 .. n) /\ Cardinality(1 .. n) = n
    BY <2>1, IntervalCount
  <2> QED
    BY <1>3, <2>1, <2>2, FS_Subset
<1>7. X \in SUBSET (1 .. c)
  BY <1>1, <1>4, <1>6
<1>8. X = 1 .. c
  BY <1>5, <1>7, FS_Subset
<1> QED
  BY <1>1, <1>3, <1>4, <1>8

LEMMA LiveType ==
  ASSUME NEW e \in Seq(Int), NEW t \in Int
  PROVE  /\ Live(e, t) \in Seq(Int)
         /\ Len(Live(e, t)) = Len(e) - Cardinality(ExpiredAt(e, t))
         /\ Len(Live(e, t)) \in Nat /\ Len(Live(e, t)) <= Len(e)
<1> DEFINE c == Cardinality(ExpiredAt(e, t))
<1>1. c \in 0 .. Len(e) /\ Len(e) \in Nat
  BY ExpiredCount
<1> HIDE DEF c
<1>2. SubSeq(e, c + 1, Len(e)) \in Seq(Int) /\ Len(SubSeq(e, c + 1, Len(e))) = Len(e) - c
  BY <1>1
<1> QED
  BY <1>1, <1>2 DEF Live, c

\* What is left at a later time is no more.
LEMMA LiveShrinks ==
  ASSUME NEW e \in Seq(Int), NEW t \in Int, NEW u \in Int, t <= u
  PROVE  Len(Live(e, u)) <= Len(Live(e, t))
<1>1. ExpiredAt(e, t) \in SUBSET ExpiredAt(e, u)
  <2> SUFFICES ASSUME NEW n \in DOMAIN e, \A m \in 1 .. n : e[m] <= t - Window,
                      NEW m \in 1 .. n
               PROVE  e[m] <= u - Window
    BY DEF ExpiredAt
  <2>1. m \in 1 .. Len(e) /\ e[m] \in Int /\ e[m] <= t - Window /\ Window \in Int
    BY SequenceLengths, LoginGuardAssumption
  <2> QED
    BY <2>1
<1>2. Cardinality(ExpiredAt(e, t)) <= Cardinality(ExpiredAt(e, u))
  BY <1>1, ExpiredCount, FS_Subset
<1> QED
  BY <1>2, ExpiredCount, LiveType

\* The oldest event that is left still counts.
LEMMA OldestCounts ==
  ASSUME NEW e \in Seq(Int), NEW t \in Int, Len(Live(e, t)) > 0
  PROVE  Live(e, t)[1] \in Int /\ Live(e, t)[1] > t - Window
<1> DEFINE c == Cardinality(ExpiredAt(e, t))
<1>1. /\ ExpiredAt(e, t) = 1 .. c /\ c \in 0 .. Len(e)
      /\ Len(Live(e, t)) = Len(e) - c /\ Len(e) \in Nat /\ DOMAIN e = 1 .. Len(e)
  BY ExpiredCount, LiveType, SequenceLengths
<1> HIDE DEF c
<1>5. c \in Nat /\ c < Len(e) /\ c + 1 \in DOMAIN e /\ c + 1 \notin ExpiredAt(e, t)
  BY <1>1
<1>2. PICK m \in 1 .. c + 1 : ~(e[m] <= t - Window)
  BY <1>5 DEF ExpiredAt
<1>6. \A n \in 1 .. c : e[n] <= t - Window
  <2> SUFFICES ASSUME NEW n \in 1 .. c
               PROVE  e[n] <= t - Window
    OBVIOUS
  <2>1. n \in ExpiredAt(e, t) /\ n \in 1 .. n
    BY <1>1
  <2> QED
    BY <2>1 DEF ExpiredAt
<1>3. m = c + 1
  BY <1>5, <1>6, <1>2
<1>4. SubSeq(e, c + 1, Len(e))[1] = e[c + 1] /\ e[c + 1] \in Int
  BY <1>1, <1>5
<1>7. Window \in Int
  BY LoginGuardAssumption
<1> QED
  BY <1>2, <1>3, <1>4, <1>7 DEF Live, c

LEMMA LiveAppend ==
  ASSUME NEW e \in Seq(Int), NEW t \in Int
  PROVE  /\ Append(Live(e, t), t) \in Seq(Int)
         /\ Len(Live(Append(Live(e, t), t), t)) <= Len(Live(e, t)) + 1
<1>1. Live(e, t) \in Seq(Int)
  BY LiveType
<1>2. Append(Live(e, t), t) \in Seq(Int) /\ Len(Append(Live(e, t), t)) = Len(Live(e, t)) + 1
  BY <1>1, SequenceLengths
<1>3. Len(Live(Append(Live(e, t), t), t)) <= Len(Append(Live(e, t), t))
  BY <1>2, LiveType
<1> QED
  BY <1>2, <1>3

LEMMA LiveEmpty ==
  ASSUME NEW t \in Int
  PROVE  << >> \in Seq(Int) /\ Len(Live(<< >>, t)) = 0
<1>1. << >> \in Seq(Int) /\ Len(<< >>) = 0
  OBVIOUS
<1>2. Len(Live(<< >>, t)) \in Nat /\ Len(Live(<< >>, t)) <= Len(<< >>)
  BY <1>1, LiveType
<1> QED
  BY <1>1, <1>2

LEMMA AtLeastOne ==
  ASSUME NEW x \in Int, NEW y \in Nat \ {0}, x >= y
  PROVE  x \div y > 0
OBVIOUS

----------------------------------------------------------------------------
(* Types.                                                                  *)

Kinds == {"login", "register", "me"}
Steps == {"idle", "sent", "checked", "read", "done", "refused"}
Pws == Passwords \cup {Weak, Long}

GuardType ==
  /\ now \in Int
  /\ users \in [Keys -> Seq(Int)]
  /\ ips \in [Addresses -> Seq(Int)] /\ registers \in [Addresses -> Seq(Int)]

AccountsType == DOMAIN accounts \subseteq Names /\ \A u \in DOMAIN accounts : accounts[u] \in Pws

ReqType ==
  /\ req \in [Requests -> [client : Clients \cup {None}, mount : Nat, kind : Kinds \cup {None},
                           name : Names \cup {None}, pw : Pws \cup {None}, step : Steps,
                           row : Pws \cup {None}]]
  /\ \A s \in Requests : req[s].step # "idle" =>
       /\ req[s].client \in Clients /\ req[s].kind \in Kinds
       /\ req[s].name \in Names /\ req[s].pw \in Pws

Page == [form : {"login", "register"}, mount : Nat, busy : BOOLEAN, error : BOOLEAN,
         token : [name : Names, pw : Pws] \cup {None}, user : Names \cup {None}]
PageType == page \in [Clients -> Page]

TypeOK == GuardType /\ AccountsType /\ ReqType /\ PageType

LEMMA TypeInit ==
  ASSUME Init
  PROVE  TypeOK
<1>1. GuardType
  BY LoginGuardAssumption DEF Init, GuardInit, GuardType
<1>2. AccountsType
  BY DEF Init, AccountsType
<1>3. ReqType
  BY DEF Init, ReqType, Idle, Steps
<1>4. PageType
  BY DEF Init, PageType, Page, NoSession
<1> QED
  BY <1>1, <1>2, <1>3, <1>4 DEF TypeOK

LEMMA KeyInKeys == \A u \in Names : Key[u] \in Keys
BY DEF Keys

LEMMA WindowTypes ==
  ASSUME GuardType, NEW e \in Seq(Int)
  PROVE  Pruned(e) \in Seq(Int) /\ Append(Pruned(e), now) \in Seq(Int)
BY PrunedIsLive, LiveType, LiveAppend DEF GuardType

LEMMA GuardTypeKept ==
  ASSUME GuardType, Next
  PROVE  GuardType'
<1>1. ASSUME NEW u, NEW i, AskLogin(u, i), UNCHANGED now
      PROVE  GuardType'
  BY <1>1, WindowTypes DEF GuardType, AskLogin, Prune
<1>2. ASSUME NEW u, NEW i, RecordFailure(u, i), UNCHANGED now
      PROVE  GuardType'
  BY <1>2, WindowTypes DEF GuardType, RecordFailure, Add
<1>3. ASSUME NEW u, RecordSuccess(u), UNCHANGED now
      PROVE  GuardType'
  <2>1. << >> \in Seq(Int)
    OBVIOUS
  <2> QED
    BY <1>3, <2>1 DEF GuardType, RecordSuccess
<1>4. ASSUME NEW i, AskRegister(i), UNCHANGED now
      PROVE  GuardType'
  BY <1>4, WindowTypes DEF GuardType, AskRegister, Prune, Add
<1>5. ASSUME Forget, UNCHANGED now
      PROVE  GuardType'
  BY <1>5 DEF GuardType, Forget
<1>6. ASSUME Tick
      PROVE  GuardType'
  BY <1>6 DEF GuardType, Tick, guard
<1>7. ASSUME UNCHANGED <<guard, now>>
      PROVE  GuardType'
  BY <1>7 DEF GuardType, guard
<1>8. CASE Boots \/ Crashes \/ Ticks
  BY <1>5, <1>6, <1>7, <1>8 DEF Boots, Crashes, Ticks
<1>9. ASSUME NEW c \in Clients, \/ SwitchForm(c)
                               \/ \E s \in Requests, u \in Names, pw \in Passwords \cup {Weak, Long} :
                                    Submit(c, s, u, pw)
      PROVE  GuardType'
  BY <1>7, <1>9 DEF SwitchForm, Submit
<1>10. ASSUME NEW s \in Requests, Forms(s) \/ Lost(s)
       PROVE  GuardType'
  BY <1>7, <1>10 DEF Forms, Registered, LoggedIn, Authenticated, FormFails, Lost
<1>11. ASSUME NEW s \in Requests, Handlers(s)
       PROVE  GuardType'
  <2>1. CASE LoginArrives(s)
    BY <1>1, <2>1 DEF LoginArrives
  <2>2. CASE RegisterArrives(s)
    BY <1>4, <1>7, <2>2 DEF RegisterArrives
  <2>3. CASE LoginEnds(s)
    BY <1>2, <1>3, <2>3 DEF LoginEnds
  <2>4. CASE ReadsRow(s) \/ RegisterEnds(s) \/ MeArrives(s)
    BY <1>7, <2>4 DEF ReadsRow, RegisterEnds, MeArrives
  <2> QED
    BY <1>11, <2>1, <2>2, <2>3, <2>4 DEF Handlers
<1> QED
  BY <1>8, <1>9, <1>10, <1>11 DEF Next

LEMMA AccountsTypeKept ==
  ASSUME AccountsType, ReqType, Next
  PROVE  AccountsType'
<1>1. ASSUME NEW s \in Requests, RegisterEnds(s)
      PROVE  AccountsType'
  <2>1. req[s].name \in Names /\ req[s].pw \in Pws
    BY <1>1 DEF RegisterEnds, ReqType
  <2> QED
    BY <1>1, <2>1 DEF RegisterEnds, AccountsType
<1>2. ASSUME UNCHANGED accounts
      PROVE  AccountsType'
  BY <1>2 DEF AccountsType
<1> QED
  BY <1>1, <1>2
     DEF Next, Boots, Crashes, Ticks, SwitchForm, Submit, Forms, Registered, LoggedIn,
         Authenticated, FormFails, Handlers, LoginArrives, RegisterArrives, ReadsRow, LoginEnds,
         MeArrives, Lost

\* A request that goes from a step to another.
LEMMA StepType ==
  ASSUME ReqType, NEW s \in Requests, NEW x \in Steps, req[s].step # "idle", Step(s, x)
  PROVE  ReqType'
BY DEF ReqType, Step

LEMMA IdleType ==
  ASSUME ReqType, NEW s \in Requests, req' = [req EXCEPT ![s] = Idle]
  PROVE  ReqType'
BY DEF ReqType, Idle, Steps

LEMMA ReqTypeKept ==
  ASSUME TypeOK, Next
  PROVE  ReqType'
<1> USE DEF TypeOK
<1>1. ASSUME UNCHANGED req
      PROVE  ReqType'
  BY <1>1 DEF ReqType
<1>2. CASE Crashes
  BY <1>2 DEF Crashes, ReqType, Steps
<1>3. CASE Boots \/ Ticks
  BY <1>1, <1>3 DEF Boots, Ticks
<1>4. ASSUME NEW c \in Clients, SwitchForm(c)
      PROVE  ReqType'
  BY <1>1, <1>4 DEF SwitchForm
<1>5. ASSUME NEW c \in Clients, NEW s \in Requests, NEW u \in Names, NEW pw \in Pws,
             Submit(c, s, u, pw)
      PROVE  ReqType'
  <2>1. /\ page[c].mount \in Nat /\ page[c].form \in Kinds
    BY DEF PageType, Page, Kinds
  <2>2. \/ UNCHANGED req
        \/ req' = [req EXCEPT ![s] =
             [client |-> c, mount |-> page[c].mount, kind |-> page[c].form, name |-> u,
              pw |-> pw, step |-> "sent", row |-> None]]
    BY <1>5 DEF Submit
  <2> QED
    BY <1>1, <2>1, <2>2 DEF ReqType, Steps
<1>6. ASSUME NEW s \in Requests, Forms(s)
      PROVE  ReqType'
  <2>1. CASE Registered(s) \/ LoggedIn(s)
    BY <1>6, <2>1 DEF Registered, LoggedIn, ReqType, Kinds, Steps
  <2>2. CASE Authenticated(s) \/ FormFails(s)
    BY <2>2, IdleType DEF Authenticated, FormFails, FormEnds
  <2> QED
    BY <1>6, <2>1, <2>2 DEF Forms
<1>7. ASSUME NEW s \in Requests, Handlers(s) \/ Lost(s)
      PROVE  ReqType'
  <2>1. CASE ReadsRow(s)
    <3>1. Exists(req[s].name) => accounts[req[s].name] \in Pws
      BY DEF AccountsType, Exists
    <3> QED
      BY <2>1, <3>1, ZenonT(40) DEF ReadsRow, ReqType, Steps
  <2>2. CASE ~ReadsRow(s)
    <3>1. req[s].step # "idle" /\ \E x \in Steps : Step(s, x)
      BY <1>7, <2>2
         DEF Handlers, LoginArrives, RegisterArrives, LoginEnds, RegisterEnds, MeArrives, Lost, Steps
    <3> QED
      BY <3>1, StepType
  <2> QED
    BY <2>1, <2>2
<1> QED
  BY <1>2, <1>3, <1>4, <1>5, <1>6, <1>7 DEF Next, Pws

LEMMA PageTypeKept ==
  ASSUME TypeOK, Next
  PROVE  PageType'
<1> USE DEF TypeOK
<1>1. ASSUME UNCHANGED page
      PROVE  PageType'
  BY <1>1 DEF PageType
<1>2. ASSUME NEW c \in Clients, SwitchForm(c)
      PROVE  PageType'
  <2> DEFINE f == Other(page[c].form)
             m == page[c].mount + 1
  <2>1. page[c] \in Page
    BY DEF PageType
  <2>2. f \in {"login", "register"} /\ m \in Nat
    BY <2>1 DEF Other, Page
  <2>3. page' = [page EXCEPT ![c] =
                  [page[c] EXCEPT !.form = f, !.mount = m, !.busy = FALSE, !.error = FALSE]]
    BY <1>2 DEF SwitchForm
  <2> HIDE DEF f, m
  <2>4. [page[c] EXCEPT !.form = f, !.mount = m, !.busy = FALSE, !.error = FALSE] \in Page
    BY <2>1, <2>2 DEF Page
  <2> QED
    BY <2>3, <2>4 DEF PageType
<1>3. ASSUME NEW c \in Clients, NEW s \in Requests, NEW u, NEW pw, Submit(c, s, u, pw)
      PROVE  PageType'
  <2>1. page[c] \in Page
    BY DEF PageType
  <2>2. \/ page' = [page EXCEPT ![c] = [page[c] EXCEPT !.error = TRUE]]
        \/ page' = [page EXCEPT ![c] = [page[c] EXCEPT !.error = FALSE, !.busy = TRUE]]
    BY <1>3, <2>1 DEF Submit, PageType
  <2>3. /\ [page[c] EXCEPT !.error = TRUE] \in Page
        /\ [page[c] EXCEPT !.error = FALSE, !.busy = TRUE] \in Page
    BY <2>1 DEF Page
  <2> QED
    BY <2>2, <2>3 DEF PageType
<1>4. ASSUME NEW s \in Requests, Forms(s)
      PROVE  PageType'
  <2>1. /\ req[s].step # "idle" => req[s].name \in Names /\ req[s].pw \in Pws
    BY DEF ReqType
  <2>2. CASE Registered(s)
    BY <1>1, <2>2 DEF Registered
  <2>3. CASE LoggedIn(s)
    BY <2>1, <2>3 DEF LoggedIn, PageType, Page
  <2>4. CASE Authenticated(s)
    BY <2>1, <2>4 DEF Authenticated, PageType, Page
  <2>5. CASE FormFails(s)
    BY <2>5 DEF FormFails, FormEnds, PageType, Page
  <2> QED
    BY <1>4, <2>2, <2>3, <2>4, <2>5 DEF Forms
<1>5. ASSUME NEW s \in Requests, Handlers(s) \/ Lost(s)
      PROVE  UNCHANGED page
  BY <1>5
     DEF Handlers, LoginArrives, RegisterArrives, ReadsRow, LoginEnds, RegisterEnds, MeArrives, Lost
<1>6. CASE Boots \/ Crashes \/ Ticks
  BY <1>1, <1>6 DEF Boots, Crashes, Ticks
<1> QED
  BY <1>1, <1>2, <1>3, <1>4, <1>5, <1>6 DEF Next

\* The records and functions of the state have the fields and ranges above.
LEMMA TypeKept ==
  ASSUME TypeOK, [Next]_vars
  PROVE  TypeOK'
<1>1. CASE Next
  BY <1>1, GuardTypeKept, AccountsTypeKept, ReqTypeKept, PageTypeKept DEF TypeOK
<1>2. CASE UNCHANGED vars
  BY <1>2 DEF vars, guard, TypeOK, GuardType, AccountsType, ReqType, PageType
<1> QED
  BY <1>1, <1>2

----------------------------------------------------------------------------
(* Who owns a name.                                                        *)

Owns(table, u, pw) == u \in DOMAIN table /\ table[u] = pw

OwnersInv ==
  /\ \A s \in Requests :
       /\ req[s].step = "done" => Owns(accounts, req[s].name, req[s].pw)
       /\ req[s].kind = "me" /\ req[s].step = "sent" => Owns(accounts, req[s].name, req[s].pw)
       /\ req[s].step = "read" /\ req[s].row # None => Owns(accounts, req[s].name, req[s].row)
  /\ \A c \in Clients :
       page[c].token # None => Owns(accounts, page[c].token.name, page[c].token.pw)

LEMMA OwnersImply ==
  ASSUME OwnersInv
  PROVE  SignedInAsOwner
BY DEF OwnersInv, SignedInAsOwner, Owns, Exists

LEMMA OwnersInit ==
  ASSUME Init
  PROVE  OwnersInv
BY DEF Init, OwnersInv, Idle, NoSession

\* No step changes the password of a name that is registered.
LEMMA AccountsKept ==
  ASSUME TypeOK, Next, NEW u, NEW pw, Owns(accounts, u, pw)
  PROVE  Owns(accounts', u, pw)
<1>1. ASSUME NEW s \in Requests, RegisterEnds(s)
      PROVE  Owns(accounts', u, pw)
  BY <1>1 DEF RegisterEnds, Inserts, Exists, Owns
<1>2. ASSUME UNCHANGED accounts
      PROVE  Owns(accounts', u, pw)
  BY <1>2 DEF Owns, Exists
<1> QED
  BY <1>1, <1>2
     DEF Next, Boots, Crashes, Ticks, SwitchForm, Submit, Forms, Registered, LoggedIn,
         Authenticated, FormFails, Handlers, LoginArrives, RegisterArrives, ReadsRow, LoginEnds,
         MeArrives, Lost

\* A step that takes no request further and changes no token.
LEMMA OwnersFrame ==
  ASSUME TypeOK, OwnersInv, Next,
         \A s \in Requests : \/ req'[s] = req[s]
                             \/ req'[s].step \in {"idle", "refused", "checked"}
                             \/ req'[s].step = "sent" /\ req'[s].kind # "me",
         \A c \in Clients : page'[c].token = page[c].token
  PROVE  OwnersInv'
<1>1. ASSUME NEW s \in Requests
      PROVE  /\ req'[s].step = "done" => Owns(accounts', req'[s].name, req'[s].pw)
             /\ req'[s].kind = "me" /\ req'[s].step = "sent" => Owns(accounts', req'[s].name, req'[s].pw)
             /\ req'[s].step = "read" /\ req'[s].row # None => Owns(accounts', req'[s].name, req'[s].row)
  <2>1. CASE req'[s] = req[s]
    BY <2>1, AccountsKept DEF OwnersInv
  <2>2. CASE req'[s].step \in {"idle", "refused", "checked"}
    BY <2>2
  <2>3. CASE req'[s].step = "sent" /\ req'[s].kind # "me"
    BY <2>3
  <2> QED
    BY <2>1, <2>2, <2>3
<1>2. ASSUME NEW c \in Clients, page'[c].token # None
      PROVE  Owns(accounts', page'[c].token.name, page'[c].token.pw)
  BY <1>2, AccountsKept DEF OwnersInv
<1> QED
  BY <1>1, <1>2 DEF OwnersInv

\* One request goes on; what it says in its new step is shown by the caller.
LEMMA OwnersStep ==
  ASSUME TypeOK, OwnersInv, Next, NEW s \in Requests,
         \A x \in Requests \ {s} : req'[x] = req[x],
         \A c \in Clients : page'[c].token = page[c].token,
         req'[s].step = "done" => Owns(accounts', req'[s].name, req'[s].pw),
         req'[s].kind = "me" /\ req'[s].step = "sent" => Owns(accounts', req'[s].name, req'[s].pw),
         req'[s].step = "read" /\ req'[s].row # None => Owns(accounts', req'[s].name, req'[s].row)
  PROVE  OwnersInv'
<1>1. ASSUME NEW x \in Requests, x # s
      PROVE  /\ req'[x].step = "done" => Owns(accounts', req'[x].name, req'[x].pw)
             /\ req'[x].kind = "me" /\ req'[x].step = "sent" => Owns(accounts', req'[x].name, req'[x].pw)
             /\ req'[x].step = "read" /\ req'[x].row # None => Owns(accounts', req'[x].name, req'[x].row)
  <2>1. req'[x] = req[x]
    BY <1>1
  <2> QED
    BY <2>1, AccountsKept DEF OwnersInv
<1>2. ASSUME NEW c \in Clients, page'[c].token # None
      PROVE  Owns(accounts', page'[c].token.name, page'[c].token.pw)
  BY <1>2, AccountsKept DEF OwnersInv
<1> QED
  BY <1>1, <1>2 DEF OwnersInv

LEMMA OwnersForms ==
  ASSUME TypeOK, OwnersInv, Next, NEW s \in Requests, Forms(s)
  PROVE  OwnersInv'
<1>1. req[s].step = "done" => Owns(accounts', req[s].name, req[s].pw)
  BY AccountsKept DEF OwnersInv
<1>2. CASE Registered(s)
  <2>1. req'[s].step = "sent" /\ req'[s].kind = "login"
    BY <1>2 DEF Registered, TypeOK, ReqType
  <2>2. /\ \A x \in Requests \ {s} : req'[x] = req[x]
        /\ UNCHANGED page
    BY <1>2 DEF Registered, TypeOK, ReqType
  <2> QED
    BY <2>1, <2>2, OwnersStep
<1>3. CASE LoggedIn(s)
  <2>1. /\ req[s].step = "done" /\ req'[s].step = "sent" /\ req'[s].name = req[s].name /\ req'[s].pw = req[s].pw
        /\ \A x \in Requests \ {s} : req'[x] = req[x]
    BY <1>3 DEF LoggedIn, TypeOK, ReqType
  <2>2. req[s].client \in Clients
    BY <2>1 DEF TypeOK, ReqType
  <2>3. ASSUME NEW x \in Requests
        PROVE  /\ req'[x].step = "done" => Owns(accounts', req'[x].name, req'[x].pw)
               /\ req'[x].kind = "me" /\ req'[x].step = "sent" => Owns(accounts', req'[x].name, req'[x].pw)
               /\ req'[x].step = "read" /\ req'[x].row # None => Owns(accounts', req'[x].name, req'[x].row)
    <3>1. CASE x = s
      BY <1>1, <2>1, <3>1
    <3>2. CASE x # s
      <4>1. req'[x] = req[x]
        BY <2>1, <3>2
      <4> QED
        BY <4>1, AccountsKept DEF OwnersInv
    <3> QED
      BY <3>1, <3>2
  <2>4. ASSUME NEW c \in Clients, page'[c].token # None
        PROVE  Owns(accounts', page'[c].token.name, page'[c].token.pw)
    <3>1. CASE c = req[s].client
      <4>1. page'[c].token = [name |-> req[s].name, pw |-> req[s].pw]
        BY <1>3, <3>1 DEF LoggedIn, TypeOK, PageType, Page
      <4> QED
        BY <1>1, <2>1, <4>1
    <3>2. CASE c # req[s].client
      <4>1. page'[c] = page[c]
        BY <1>3, <3>2 DEF LoggedIn, TypeOK, PageType
      <4> QED
        BY <2>4, <4>1, AccountsKept DEF OwnersInv
    <3> QED
      BY <3>1, <3>2
  <2> QED
    BY <2>3, <2>4 DEF OwnersInv
<1>4. CASE Authenticated(s) \/ FormFails(s)
  <2>1. req' = [req EXCEPT ![s] = Idle]
    BY <1>4 DEF Authenticated, FormFails, FormEnds
  <2>2. \A c \in Clients : page'[c].token = page[c].token
    <3>1. CASE Authenticated(s)
      BY <3>1 DEF Authenticated, TypeOK, PageType, Page
    <3>2. CASE FormFails(s)
      BY <3>2 DEF FormFails, FormEnds, TypeOK, PageType, Page
    <3> QED
      BY <1>4, <3>1, <3>2
  <2>3. req'[s].step = "idle" /\ \A x \in Requests \ {s} : req'[x] = req[x]
    BY <2>1 DEF Idle, TypeOK, ReqType
  <2> QED
    BY <2>2, <2>3, OwnersStep
<1> QED
  BY <1>2, <1>3, <1>4 DEF Forms

LEMMA OwnersHandlers ==
  ASSUME TypeOK, OwnersInv, Next, NEW s \in Requests, Handlers(s) \/ Lost(s)
  PROVE  OwnersInv'
<1>1. UNCHANGED page
  BY DEF Handlers, LoginArrives, RegisterArrives, ReadsRow, LoginEnds, RegisterEnds, MeArrives, Lost
<1>2. CASE ReadsRow(s)
  <2>1. /\ req'[s].step = "read" /\ req'[s].name = req[s].name
        /\ req'[s].row = IF Exists(req[s].name) THEN accounts[req[s].name] ELSE None
        /\ \A x \in Requests \ {s} : req'[x] = req[x]
    BY <1>2 DEF ReadsRow, TypeOK, ReqType
  <2>2. req'[s].row # None => Owns(accounts', req'[s].name, req'[s].row)
    BY <1>2, <2>1 DEF ReadsRow, Exists, Owns
  <2> QED
    BY <1>1, <2>1, <2>2, OwnersStep
<1>3. ASSUME NEW step \in {"refused", "checked"}, Step(s, step)
      PROVE  OwnersInv'
  <2>1. req'[s].step = step /\ \A x \in Requests \ {s} : req'[x] = req[x]
    BY <1>3 DEF Step, TypeOK, ReqType
  <2> QED
    BY <1>1, <2>1, OwnersStep
<1>4. ASSUME Step(s, "done"), Owns(accounts', req[s].name, req[s].pw)
      PROVE  OwnersInv'
  <2>1. /\ req'[s].step = "done" /\ req'[s].name = req[s].name /\ req'[s].pw = req[s].pw
        /\ \A x \in Requests \ {s} : req'[x] = req[x]
    BY <1>4 DEF Step, TypeOK, ReqType
  <2> QED
    BY <1>1, <1>4, <2>1, OwnersStep
<1>5. CASE LoginArrives(s) \/ RegisterArrives(s) \/ Lost(s)
  BY <1>3, <1>5 DEF LoginArrives, RegisterArrives, Lost
<1>6. CASE LoginEnds(s)
  <2>1. CASE req[s].row = req[s].pw
    <3>1. req[s].row # None /\ req[s].step = "read" /\ Step(s, "done") /\ UNCHANGED accounts
      BY <1>6, <2>1, SignInAssumption DEF LoginEnds, TypeOK, ReqType, Pws
    <3> QED
      BY <1>4, <2>1, <3>1 DEF OwnersInv
  <2>2. CASE req[s].row # req[s].pw
    BY <1>3, <1>6, <2>2 DEF LoginEnds
  <2> QED
    BY <2>1, <2>2
<1>7. CASE RegisterEnds(s)
  BY <1>3, <1>4, <1>7 DEF RegisterEnds, Owns
<1>8. CASE MeArrives(s)
  BY <1>4, <1>8 DEF MeArrives, OwnersInv
<1> QED
  BY <1>2, <1>5, <1>6, <1>7, <1>8 DEF Handlers

LEMMA OwnersKept ==
  ASSUME TypeOK, OwnersInv, [Next]_vars
  PROVE  OwnersInv'
<1>1. CASE UNCHANGED vars
  BY <1>1 DEF vars, OwnersInv
<1>2. CASE Next
  <2>1. CASE Boots \/ Ticks
    BY <1>2, <2>1, OwnersFrame DEF Boots, Ticks
  <2>2. CASE Crashes
    <3>1. /\ UNCHANGED page
          /\ \A s \in Requests : req'[s] = req[s] \/ req'[s].step = "refused"
      BY <2>2 DEF Crashes, TypeOK, ReqType
    <3> QED
      BY <1>2, <3>1, OwnersFrame
  <2>3. ASSUME NEW c \in Clients, SwitchForm(c)
        PROVE  OwnersInv'
    <3>1. UNCHANGED req /\ \A d \in Clients : page'[d].token = page[d].token
      BY <2>3 DEF SwitchForm, TypeOK, PageType, Page
    <3> QED
      BY <1>2, <3>1, OwnersFrame
  <2>4. ASSUME NEW c \in Clients, NEW s \in Requests, NEW u \in Names, NEW pw \in Pws,
               Submit(c, s, u, pw)
        PROVE  OwnersInv'
    <3>1. \A d \in Clients : page'[d].token = page[d].token
      BY <2>4 DEF Submit, TypeOK, PageType, Page
    <3>2. page[c].form # "me"
      BY DEF TypeOK, PageType, Page
    <3>3. \A x \in Requests : \/ req'[x] = req[x]
                              \/ req'[x].step = "sent" /\ req'[x].kind # "me"
      BY <2>4, <3>2 DEF Submit, TypeOK, ReqType
    <3> QED
      BY <1>2, <3>1, <3>3, OwnersFrame
  <2> QED
    BY <1>2, <2>1, <2>2, <2>3, <2>4, OwnersForms, OwnersHandlers DEF Next, Pws
<1> QED
  BY <1>1, <1>2

----------------------------------------------------------------------------
(* The windows.  An attempt that was let in and has not ended may yet fail.*)

LetIn(r) == r.kind = "login" /\ r.step \in {"checked", "read"}
ForKey(rq, k) == {s \in Requests : LetIn(rq[s]) /\ Key[rq[s].name] = k}
ForIp(rq, i) == {s \in Requests : LetIn(rq[s]) /\ Address[rq[s].client] = i}

UsersInv ==
  \A k \in Keys :
    Len(Live(users[k], now)) + Cardinality(ForKey(req, k)) < MaxPerUser + Cardinality(Requests)
IpsInv ==
  \A i \in Addresses :
    Len(Live(ips[i], now)) + Cardinality(ForIp(req, i)) < MaxPerIp + Cardinality(Requests)
RegistersInv == \A i \in Addresses : Len(Live(registers[i], now)) <= MaxPerIp

WindowsInv == UsersInv /\ IpsInv /\ RegistersInv

LEMMA Counts ==
  /\ Cardinality(Requests) \in Nat
  /\ \A S \in SUBSET Requests : /\ Cardinality(S) \in Nat
                                /\ Cardinality(S) <= Cardinality(Requests)
                                /\ \A x \in S : Cardinality(S \ {x}) = Cardinality(S) - 1
                                /\ \A T \in SUBSET S : Cardinality(T) <= Cardinality(S)
<1>1. IsFiniteSet(Requests) /\ Cardinality(Requests) \in Nat
  BY SignInAssumption, FS_CardinalityType
<1>2. ASSUME NEW S \in SUBSET Requests
      PROVE  /\ Cardinality(S) \in Nat
             /\ Cardinality(S) <= Cardinality(Requests)
             /\ \A x \in S : Cardinality(S \ {x}) = Cardinality(S) - 1
             /\ \A T \in SUBSET S : Cardinality(T) <= Cardinality(S)
  BY <1>1, FS_CardinalityType, FS_Subset, FS_RemoveElement
<1> QED
  BY <1>1, <1>2

\* The two inequalities a window needs, whatever it is for.
LEMMA NotGrown ==
  ASSUME NEW a \in Nat, NEW b \in Nat, NEW max \in Nat, NEW S \in SUBSET Requests,
         NEW T \in SUBSET S, b <= a, a + Cardinality(S) < max + Cardinality(Requests)
  PROVE  b + Cardinality(T) < max + Cardinality(Requests)
<1>1. Cardinality(T) <= Cardinality(S) /\ Cardinality(S) \in Nat /\ Cardinality(Requests) \in Nat
  BY Counts
<1>2. Cardinality(T) \in Nat
  BY Counts
<1> QED
  BY <1>1, <1>2

LEMMA Failed ==
  ASSUME NEW a \in Nat, NEW b \in Nat, NEW max \in Nat, NEW S \in SUBSET Requests, NEW x \in S,
         b <= a + 1, a + Cardinality(S) < max + Cardinality(Requests)
  PROVE  b + Cardinality(S \ {x}) < max + Cardinality(Requests)
<1>1. Cardinality(S \ {x}) = Cardinality(S) - 1 /\ Cardinality(S) \in Nat /\ Cardinality(Requests) \in Nat
  BY Counts
<1> QED
  BY <1>1

LEMMA NotFull ==
  ASSUME NEW b \in Nat, NEW max \in Nat, NEW T \in SUBSET Requests, b < max
  PROVE  b + Cardinality(T) < max + Cardinality(Requests)
<1>1. Cardinality(T) <= Cardinality(Requests) /\ Cardinality(T) \in Nat /\ Cardinality(Requests) \in Nat
  BY Counts
<1> QED
  BY <1>1

Maxima == MaxPerUser \in Nat /\ MaxPerUser > 0 /\ MaxPerIp \in Nat /\ MaxPerIp > 0

LEMMA WindowsImply ==
  ASSUME TypeOK, WindowsInv
  PROVE  AttemptsBounded
<1>1. Maxima
  BY LoginGuardAssumption DEF Maxima
<1>2. ASSUME NEW k \in Keys
      PROVE  Len(Pruned(users[k])) < MaxPerUser + Cardinality(Requests)
  <2>1. Len(Live(users[k], now)) \in Nat
    BY LiveType DEF TypeOK, GuardType
  <2>2. Cardinality(ForKey(req, k)) \in Nat /\ Cardinality(Requests) \in Nat
    BY Counts DEF ForKey
  <2> QED
    BY <1>1, <2>1, <2>2, PrunedIsLive DEF WindowsInv, UsersInv, Maxima
<1>3. ASSUME NEW i \in Addresses
      PROVE  Len(Pruned(ips[i])) < MaxPerIp + Cardinality(Requests)
  <2>1. Len(Live(ips[i], now)) \in Nat
    BY LiveType DEF TypeOK, GuardType
  <2>2. Cardinality(ForIp(req, i)) \in Nat /\ Cardinality(Requests) \in Nat
    BY Counts DEF ForIp
  <2> QED
    BY <1>1, <2>1, <2>2, PrunedIsLive DEF WindowsInv, IpsInv, Maxima
<1> QED
  BY <1>2, <1>3, PrunedIsLive DEF WindowsInv, RegistersInv, AttemptsBounded

\* Windows that only lose events, and requests none of which is newly let in.
Calm ==
  /\ \A k \in Keys : Len(Live(users'[k], now')) <= Len(Live(users[k], now))
  /\ \A i \in Addresses : /\ Len(Live(ips'[i], now')) <= Len(Live(ips[i], now))
                          /\ Len(Live(registers'[i], now')) <= Len(Live(registers[i], now))
NoneLetIn ==
  \A s \in Requests : LetIn(req'[s]) =>
    LetIn(req[s]) /\ req'[s].name = req[s].name /\ req'[s].client = req[s].client

LEMMA WindowsFrame ==
  ASSUME TypeOK, TypeOK', WindowsInv, Calm, NoneLetIn
  PROVE  WindowsInv'
<1>1. Maxima
  BY LoginGuardAssumption DEF Maxima
<1>2. ASSUME NEW k \in Keys
      PROVE  Len(Live(users'[k], now')) + Cardinality(ForKey(req', k)) < MaxPerUser + Cardinality(Requests)
  <2>1. Len(Live(users[k], now)) \in Nat /\ Len(Live(users'[k], now')) \in Nat
    BY LiveType DEF TypeOK, GuardType
  <2>2. ForKey(req, k) \in SUBSET Requests /\ ForKey(req', k) \in SUBSET ForKey(req, k)
    BY DEF ForKey, NoneLetIn
  <2> QED
    BY <1>1, <2>1, <2>2, NotGrown DEF WindowsInv, UsersInv, Calm, Maxima
<1>3. ASSUME NEW i \in Addresses
      PROVE  Len(Live(ips'[i], now')) + Cardinality(ForIp(req', i)) < MaxPerIp + Cardinality(Requests)
  <2>1. Len(Live(ips[i], now)) \in Nat /\ Len(Live(ips'[i], now')) \in Nat
    BY LiveType DEF TypeOK, GuardType
  <2>2. ForIp(req, i) \in SUBSET Requests /\ ForIp(req', i) \in SUBSET ForIp(req, i)
    BY DEF ForIp, NoneLetIn
  <2> QED
    BY <1>1, <2>1, <2>2, NotGrown DEF WindowsInv, IpsInv, Calm, Maxima
<1>4. ASSUME NEW i \in Addresses
      PROVE  Len(Live(registers'[i], now')) <= MaxPerIp
  <2>1. Len(Live(registers[i], now)) \in Nat /\ Len(Live(registers'[i], now')) \in Nat
    BY LiveType DEF TypeOK, GuardType
  <2> QED
    BY <1>1, <1>4, <2>1 DEF WindowsInv, RegistersInv, Calm, Maxima
<1> QED
  BY <1>2, <1>3, <1>4 DEF WindowsInv, UsersInv, IpsInv, RegistersInv

LEMMA WindowsInit ==
  ASSUME Init
  PROVE  WindowsInv
<1>1. TypeOK /\ Maxima
  BY TypeInit, LoginGuardAssumption DEF Maxima
<1>2. \A s \in Requests : ~LetIn(req[s])
  BY DEF Init, Idle, LetIn
<1>3. now \in Int
  BY <1>1 DEF TypeOK, GuardType
<1>4. Len(Live(<< >>, now)) = 0
  BY <1>3, LiveEmpty
<1>5. \A k \in Keys : users[k] = << >> /\ ForKey(req, k) \in SUBSET Requests
  BY DEF Init, GuardInit, ForKey
<1>6. \A i \in Addresses : ips[i] = << >> /\ registers[i] = << >> /\ ForIp(req, i) \in SUBSET Requests
  BY DEF Init, GuardInit, ForIp
<1> QED
  BY <1>1, <1>4, <1>5, <1>6, NotFull DEF WindowsInv, UsersInv, IpsInv, RegistersInv, Maxima

LEMMA RetryPositive ==
  ASSUME TypeOK, NEW e \in Seq(Int), NEW max \in Nat, max > 0
  PROVE  /\ RetryAfter(e, max) \in Int
         /\ IF Len(Live(e, now)) >= max THEN RetryAfter(e, max) >= 1 ELSE RetryAfter(e, max) = 0
<1>1. now \in Int /\ Window \in Int /\ Len(Live(e, now)) \in Nat
  BY LiveType, LoginGuardAssumption DEF TypeOK, GuardType
<1>2. CASE Len(Live(e, now)) >= max
  <2>1. Live(e, now)[1] \in Int /\ Live(e, now)[1] > now - Window
    BY <1>1, <1>2, OldestCounts
  <2>2. RetryAfter(e, max) = Live(e, now)[1] + Window - now
    BY <1>2, PrunedIsLive DEF RetryAfter, Full
  <2> QED
    BY <1>1, <1>2, <2>1, <2>2
<1>3. CASE ~(Len(Live(e, now)) >= max)
  BY <1>3, PrunedIsLive DEF RetryAfter, Full
<1> QED
  BY <1>2, <1>3

\* Who is not refused found room in both windows.
LEMMA LetInBelow ==
  ASSUME TypeOK, NEW u \in Names, NEW i \in Addresses, ~LoginRefused(u, i)
  PROVE  /\ Len(Live(users[Key[u]], now)) < MaxPerUser
         /\ Len(Live(ips[i], now)) < MaxPerIp
<1> DEFINE a == RetryAfter(users[Key[u]], MaxPerUser)
           b == RetryAfter(ips[i], MaxPerIp)
           x == (IF a > b THEN a ELSE b) + Second - 1
<1>1. users[Key[u]] \in Seq(Int) /\ ips[i] \in Seq(Int)
  BY KeyInKeys DEF TypeOK, GuardType
<1>2. Maxima /\ Second \in Nat \ {0} /\ Second \in Nat /\ Second > 0
  BY LoginGuardAssumption DEF Maxima
<1>3. /\ Len(Live(users[Key[u]], now)) \in Nat
      /\ Len(Live(ips[i], now)) \in Nat
  BY <1>1, LiveType DEF TypeOK, GuardType
<1>4. /\ a \in Int /\ (Len(Live(users[Key[u]], now)) >= MaxPerUser => a >= 1)
      /\ b \in Int /\ (Len(Live(ips[i], now)) >= MaxPerIp => b >= 1)
  BY <1>1, <1>2, RetryPositive DEF Maxima
<1>5. ~(x \div Second > 0)
  BY DEF LoginRefused, Told
<1> HIDE DEF a, b
<1>6. x \in Int
  BY <1>2, <1>4
<1>7. ~(x >= Second)
  <2> HIDE DEF x
  <2> QED
    BY <1>2, <1>5, <1>6, AtLeastOne
<1>8. ~(a >= 1) /\ ~(b >= 1)
  BY <1>2, <1>4, <1>7
<1> QED
  BY <1>2, <1>3, <1>4, <1>8 DEF Maxima

LEMMA PrunedNoMore ==
  ASSUME TypeOK, NEW e \in Seq(Int)
  PROVE  /\ Live(e, now) \in Seq(Int) /\ Len(Live(e, now)) \in Nat
         /\ Len(Live(Live(e, now), now)) <= Len(Live(e, now))
<1>1. now \in Int
  BY DEF TypeOK, GuardType
<1> QED
  BY <1>1, LiveType

\* retry_after drops what has expired, of the two windows it is asked about.
LEMMA AskedIsCalm ==
  ASSUME TypeOK, NEW u \in Names, NEW i \in Addresses, AskLogin(u, i), now' = now
  PROVE  Calm
<1>1. ASSUME NEW k \in Keys
      PROVE  Len(Live(users'[k], now')) <= Len(Live(users[k], now))
  <2>1. users[k] \in Seq(Int) /\ Len(Live(users[k], now)) \in Nat
    BY PrunedNoMore DEF TypeOK, GuardType
  <2>2. users'[k] = users[k] \/ users'[k] = Live(users[k], now)
    BY PrunedIsLive DEF AskLogin, Prune, TypeOK, GuardType
  <2> QED
    BY <2>1, <2>2, PrunedNoMore
<1>2. ASSUME NEW j \in Addresses
      PROVE  /\ Len(Live(ips'[j], now')) <= Len(Live(ips[j], now))
             /\ Len(Live(registers'[j], now')) <= Len(Live(registers[j], now))
  <2>1. /\ ips[j] \in Seq(Int) /\ Len(Live(ips[j], now)) \in Nat
        /\ registers[j] \in Seq(Int) /\ Len(Live(registers[j], now)) \in Nat
    BY PrunedNoMore DEF TypeOK, GuardType
  <2>2. ips'[j] = ips[j] \/ ips'[j] = Live(ips[j], now)
    BY PrunedIsLive DEF AskLogin, Prune, TypeOK, GuardType
  <2>3. registers' = registers
    BY DEF AskLogin
  <2> QED
    BY <2>1, <2>2, <2>3, PrunedNoMore
<1> QED
  BY <1>1, <1>2 DEF Calm

LEMMA StillIsCalm ==
  ASSUME TypeOK, UNCHANGED <<guard, now>>
  PROVE  Calm
<1>1. \A k \in Keys : users[k] \in Seq(Int) /\ Len(Live(users[k], now)) \in Nat
  BY PrunedNoMore DEF TypeOK, GuardType
<1>2. \A i \in Addresses : /\ ips[i] \in Seq(Int) /\ Len(Live(ips[i], now)) \in Nat
                           /\ registers[i] \in Seq(Int) /\ Len(Live(registers[i], now)) \in Nat
  BY PrunedNoMore DEF TypeOK, GuardType
<1> QED
  BY <1>1, <1>2 DEF Calm, guard

LEMMA TicksAreCalm ==
  ASSUME TypeOK, Tick
  PROVE  Calm
<1>1. now \in Int /\ now' = now + 1 /\ now' \in Int /\ now <= now'
  BY DEF TypeOK, GuardType, Tick
<1>2. \A k \in Keys : users'[k] = users[k] /\ users[k] \in Seq(Int)
  BY DEF TypeOK, GuardType, Tick, guard
<1>3. \A i \in Addresses : /\ ips'[i] = ips[i] /\ ips[i] \in Seq(Int)
                           /\ registers'[i] = registers[i] /\ registers[i] \in Seq(Int)
  BY DEF TypeOK, GuardType, Tick, guard
<1> QED
  BY <1>1, <1>2, <1>3, LiveShrinks DEF Calm

LEMMA EmptyIsLess ==
  ASSUME TypeOK, NEW e \in Seq(Int), now' = now
  PROVE  Len(Live(<< >>, now')) <= Len(Live(e, now))
<1>1. now \in Int /\ Len(Live(e, now)) \in Nat
  BY PrunedNoMore DEF TypeOK, GuardType
<1> QED
  BY <1>1, LiveEmpty

LEMMA ForgettingIsCalm ==
  ASSUME TypeOK, Forget, now' = now
  PROVE  Calm
<1>1. \A k \in Keys : users'[k] = << >> /\ users[k] \in Seq(Int)
  BY DEF TypeOK, GuardType, Forget
<1>2. \A i \in Addresses : /\ ips'[i] = << >> /\ ips[i] \in Seq(Int)
                           /\ registers'[i] = << >> /\ registers[i] \in Seq(Int)
  BY DEF TypeOK, GuardType, Forget
<1> QED
  BY <1>1, <1>2, EmptyIsLess DEF Calm

LEMMA SuccessIsCalm ==
  ASSUME TypeOK, NEW u \in Names, RecordSuccess(u), now' = now
  PROVE  Calm
<1>1. ASSUME NEW k \in Keys
      PROVE  Len(Live(users'[k], now')) <= Len(Live(users[k], now))
  <2>1. users'[k] = users[k] \/ users'[k] = << >>
    BY DEF RecordSuccess, TypeOK, GuardType
  <2>2. users[k] \in Seq(Int) /\ Len(Live(users[k], now)) \in Nat
    BY PrunedNoMore DEF TypeOK, GuardType
  <2> QED
    BY <2>1, <2>2, EmptyIsLess
<1>2. ASSUME NEW j \in Addresses
      PROVE  /\ Len(Live(ips'[j], now')) <= Len(Live(ips[j], now))
             /\ Len(Live(registers'[j], now')) <= Len(Live(registers[j], now))
  <2>1. /\ ips[j] \in Seq(Int) /\ Len(Live(ips[j], now)) \in Nat
        /\ registers[j] \in Seq(Int) /\ Len(Live(registers[j], now)) \in Nat
        /\ ips' = ips /\ registers' = registers
    BY PrunedNoMore DEF TypeOK, GuardType, RecordSuccess
  <2> QED
    BY <2>1
<1> QED
  BY <1>1, <1>2 DEF Calm

\* A failure enters both windows, and its attempt is under way no longer.
LEMMA FailureKeeps ==
  ASSUME TypeOK, TypeOK', WindowsInv, NEW s \in Requests, LetIn(req[s]),
         RecordFailure(req[s].name, Ip(s)), now' = now, Step(s, "refused")
  PROVE  WindowsInv'
<1> DEFINE u == req[s].name
           ip == Address[req[s].client]
<1>1. /\ u \in Names /\ Key[u] \in Keys /\ ip \in Addresses /\ Ip(s) = ip /\ now \in Int
      /\ Maxima
  BY KeyInKeys, SignInAssumption, LoginGuardAssumption
     DEF TypeOK, ReqType, GuardType, LetIn, Ip, Maxima
<1>2. /\ req'[s].step = "refused" /\ \A x \in Requests \ {s} : req'[x] = req[x]
  BY DEF Step, TypeOK, ReqType
<1>3. ~LetIn(req'[s])
  BY <1>2 DEF LetIn
<1>4. ASSUME NEW k \in Keys
      PROVE  Len(Live(users'[k], now')) + Cardinality(ForKey(req', k)) < MaxPerUser + Cardinality(Requests)
  <2>1. /\ users[k] \in Seq(Int) /\ Len(Live(users[k], now)) \in Nat
        /\ Len(Live(users'[k], now')) \in Nat
        /\ Len(Live(users[k], now)) + Cardinality(ForKey(req, k)) < MaxPerUser + Cardinality(Requests)
    BY LiveType DEF TypeOK, GuardType, WindowsInv, UsersInv
  <2>2. CASE k = Key[u]
    <3>1. users'[k] = Append(Live(users[k], now), now)
      BY <1>1, <2>2, PrunedIsLive DEF RecordFailure, Add, TypeOK, GuardType
    <3>2. Len(Live(users'[k], now')) <= Len(Live(users[k], now)) + 1
      BY <1>1, <2>1, <3>1, LiveAppend
    <3>3. /\ s \in ForKey(req, k) /\ ForKey(req, k) \in SUBSET Requests
          /\ ForKey(req', k) = ForKey(req, k) \ {s}
      BY <1>2, <1>3, <2>2 DEF ForKey
    <3> QED
      BY <1>1, <2>1, <3>2, <3>3, Failed DEF Maxima
  <2>3. CASE k # Key[u]
    <3>1. users'[k] = users[k]
      BY <2>3 DEF RecordFailure, Add, TypeOK, GuardType
    <3>2. ForKey(req, k) \in SUBSET Requests /\ ForKey(req', k) \in SUBSET ForKey(req, k)
      BY <1>2, <1>3 DEF ForKey
    <3>3. Len(Live(users'[k], now')) <= Len(Live(users[k], now))
      BY <2>1, <3>1
    <3> QED
      BY <1>1, <2>1, <3>2, <3>3, NotGrown DEF Maxima
  <2> QED
    BY <2>2, <2>3
<1>5. ASSUME NEW i \in Addresses
      PROVE  Len(Live(ips'[i], now')) + Cardinality(ForIp(req', i)) < MaxPerIp + Cardinality(Requests)
  <2>1. /\ ips[i] \in Seq(Int) /\ Len(Live(ips[i], now)) \in Nat
        /\ Len(Live(ips'[i], now')) \in Nat
        /\ Len(Live(ips[i], now)) + Cardinality(ForIp(req, i)) < MaxPerIp + Cardinality(Requests)
    BY LiveType DEF TypeOK, GuardType, WindowsInv, IpsInv
  <2>2. CASE i = ip
    <3>1. ips'[i] = Append(Live(ips[i], now), now)
      BY <1>1, <2>2, PrunedIsLive DEF RecordFailure, Add, TypeOK, GuardType
    <3>2. Len(Live(ips'[i], now')) <= Len(Live(ips[i], now)) + 1
      BY <1>1, <2>1, <3>1, LiveAppend
    <3>3. /\ s \in ForIp(req, i) /\ ForIp(req, i) \in SUBSET Requests
          /\ ForIp(req', i) = ForIp(req, i) \ {s}
      BY <1>2, <1>3, <2>2 DEF ForIp
    <3> QED
      BY <1>1, <2>1, <3>2, <3>3, Failed DEF Maxima
  <2>3. CASE i # ip
    <3>1. ips'[i] = ips[i]
      BY <1>1, <2>3 DEF RecordFailure, Add, TypeOK, GuardType
    <3>2. ForIp(req, i) \in SUBSET Requests /\ ForIp(req', i) \in SUBSET ForIp(req, i)
      BY <1>2, <1>3 DEF ForIp
    <3>3. Len(Live(ips'[i], now')) <= Len(Live(ips[i], now))
      BY <2>1, <3>1
    <3> QED
      BY <1>1, <2>1, <3>2, <3>3, NotGrown DEF Maxima
  <2> QED
    BY <2>2, <2>3
<1>6. RegistersInv'
  <2>1. registers' = registers /\ now' = now
    BY DEF RecordFailure
  <2> QED
    BY <2>1 DEF WindowsInv, RegistersInv
<1> QED
  BY <1>4, <1>5, <1>6 DEF WindowsInv, UsersInv, IpsInv

\* An attempt is let in only while there is room for it to fail.
LEMMA LettingInKeeps ==
  ASSUME TypeOK, TypeOK', WindowsInv, NEW s \in Requests, req[s].step = "sent",
         AskLogin(req[s].name, Ip(s)), ~LoginRefused(req[s].name, Ip(s)), now' = now,
         Step(s, "checked")
  PROVE  WindowsInv'
<1> DEFINE u == req[s].name
           ip == Address[req[s].client]
<1>1. u \in Names /\ Key[u] \in Keys /\ ip \in Addresses /\ Ip(s) = ip /\ Maxima
  BY KeyInKeys, SignInAssumption, LoginGuardAssumption DEF TypeOK, ReqType, Ip, Maxima
<1>2. \A x \in Requests \ {s} : req'[x] = req[x]
  BY DEF Step, TypeOK, ReqType
<1>3. req'[s].name = u /\ req'[s].client = req[s].client
  BY DEF Step, TypeOK, ReqType
<1>4. Len(Live(users[Key[u]], now)) < MaxPerUser /\ Len(Live(ips[ip], now)) < MaxPerIp
  BY <1>1, LetInBelow
<1>5. Calm
  BY <1>1, AskedIsCalm
<1>6. ASSUME NEW k \in Keys
      PROVE  Len(Live(users'[k], now')) + Cardinality(ForKey(req', k)) < MaxPerUser + Cardinality(Requests)
  <2>1. /\ Len(Live(users[k], now)) \in Nat /\ Len(Live(users'[k], now')) \in Nat
        /\ Len(Live(users'[k], now')) <= Len(Live(users[k], now))
        /\ Len(Live(users[k], now)) + Cardinality(ForKey(req, k)) < MaxPerUser + Cardinality(Requests)
    BY <1>5, LiveType DEF TypeOK, GuardType, WindowsInv, UsersInv, Calm
  <2>2. CASE k = Key[u]
    <3>1. Len(Live(users'[k], now')) < MaxPerUser /\ ForKey(req', k) \in SUBSET Requests
      BY <1>1, <1>4, <2>1, <2>2 DEF ForKey, Maxima
    <3> QED
      BY <1>1, <2>1, <3>1, NotFull DEF Maxima
  <2>3. CASE k # Key[u]
    <3>1. ForKey(req, k) \in SUBSET Requests /\ ForKey(req', k) \in SUBSET ForKey(req, k)
      BY <1>2, <1>3, <2>3 DEF ForKey
    <3> QED
      BY <1>1, <2>1, <3>1, NotGrown DEF Maxima
  <2> QED
    BY <2>2, <2>3
<1>7. ASSUME NEW i \in Addresses
      PROVE  Len(Live(ips'[i], now')) + Cardinality(ForIp(req', i)) < MaxPerIp + Cardinality(Requests)
  <2>1. /\ Len(Live(ips[i], now)) \in Nat /\ Len(Live(ips'[i], now')) \in Nat
        /\ Len(Live(ips'[i], now')) <= Len(Live(ips[i], now))
        /\ Len(Live(ips[i], now)) + Cardinality(ForIp(req, i)) < MaxPerIp + Cardinality(Requests)
    BY <1>5, LiveType DEF TypeOK, GuardType, WindowsInv, IpsInv, Calm
  <2>2. CASE i = ip
    <3>1. Len(Live(ips'[i], now')) < MaxPerIp /\ ForIp(req', i) \in SUBSET Requests
      BY <1>1, <1>4, <2>1, <2>2 DEF ForIp, Maxima
    <3> QED
      BY <1>1, <2>1, <3>1, NotFull DEF Maxima
  <2>3. CASE i # ip
    <3>1. ForIp(req, i) \in SUBSET Requests /\ ForIp(req', i) \in SUBSET ForIp(req, i)
      BY <1>2, <1>3, <2>3 DEF ForIp
    <3> QED
      BY <1>1, <2>1, <3>1, NotGrown DEF Maxima
  <2> QED
    BY <2>2, <2>3
<1>8. RegistersInv'
  <2>1. registers' = registers /\ now' = now
    BY DEF AskLogin
  <2> QED
    BY <2>1 DEF WindowsInv, RegistersInv
<1> QED
  BY <1>6, <1>7, <1>8 DEF WindowsInv, UsersInv, IpsInv

\* A registration is counted in the step that finds room for it.
LEMMA RegisteringKeeps ==
  ASSUME TypeOK, TypeOK', WindowsInv, NEW i \in Addresses, AskRegister(i), now' = now, NoneLetIn
  PROVE  WindowsInv'
<1>1. Maxima /\ now \in Int
  BY LoginGuardAssumption DEF Maxima, TypeOK, GuardType
<1>2. users' = users /\ ips' = ips
  BY DEF AskRegister
<1>3. UsersInv'
  <2> SUFFICES ASSUME NEW k \in Keys
               PROVE  Len(Live(users'[k], now')) + Cardinality(ForKey(req', k))
                        < MaxPerUser + Cardinality(Requests)
    BY DEF UsersInv
  <2>1. /\ Len(Live(users[k], now)) \in Nat /\ users'[k] = users[k]
        /\ Len(Live(users[k], now)) + Cardinality(ForKey(req, k)) < MaxPerUser + Cardinality(Requests)
    BY <1>2, LiveType DEF TypeOK, GuardType, WindowsInv, UsersInv
  <2>2. ForKey(req, k) \in SUBSET Requests /\ ForKey(req', k) \in SUBSET ForKey(req, k)
    BY DEF ForKey, NoneLetIn
  <2> QED
    BY <1>1, <2>1, <2>2, NotGrown DEF Maxima
<1>4. IpsInv'
  <2> SUFFICES ASSUME NEW j \in Addresses
               PROVE  Len(Live(ips'[j], now')) + Cardinality(ForIp(req', j))
                        < MaxPerIp + Cardinality(Requests)
    BY DEF IpsInv
  <2>1. /\ Len(Live(ips[j], now)) \in Nat /\ ips'[j] = ips[j]
        /\ Len(Live(ips[j], now)) + Cardinality(ForIp(req, j)) < MaxPerIp + Cardinality(Requests)
    BY <1>2, LiveType DEF TypeOK, GuardType, WindowsInv, IpsInv
  <2>2. ForIp(req, j) \in SUBSET Requests /\ ForIp(req', j) \in SUBSET ForIp(req, j)
    BY DEF ForIp, NoneLetIn
  <2> QED
    BY <1>1, <2>1, <2>2, NotGrown DEF Maxima
<1>5. ASSUME NEW j \in Addresses
      PROVE  Len(Live(registers'[j], now')) <= MaxPerIp
  <2>1. /\ registers[j] \in Seq(Int) /\ Len(Live(registers[j], now)) \in Nat
        /\ Len(Live(registers[j], now)) <= MaxPerIp
    BY LiveType DEF TypeOK, GuardType, WindowsInv, RegistersInv
  <2>2. CASE registers'[j] = registers[j]
    BY <2>1, <2>2
  <2>3. CASE registers'[j] = Live(registers[j], now)
    <3>1. Len(Live(Live(registers[j], now), now)) \in Nat
      BY <1>1, <2>1, LiveType
    <3>2. Len(Live(Live(registers[j], now), now)) <= Len(Live(registers[j], now))
      BY <2>1, PrunedNoMore
    <3> QED
      BY <1>1, <2>1, <2>3, <3>1, <3>2 DEF Maxima
  <2>4. CASE ~RegisterRefused(j) /\ registers'[j] = Append(Live(registers[j], now), now)
    <3>1. Len(Live(registers[j], now)) < MaxPerIp
      BY <1>1, <2>1, <2>4, RetryPositive DEF RegisterRefused, Maxima
    <3>2. /\ Append(Live(registers[j], now), now) \in Seq(Int)
          /\ Len(Live(Append(Live(registers[j], now), now), now)) <= Len(Live(registers[j], now)) + 1
      BY <1>1, <2>1, LiveAppend
    <3>3. Len(Live(Append(Live(registers[j], now), now), now)) \in Nat
      BY <1>1, <3>2, LiveType
    <3> QED
      BY <1>1, <2>1, <2>4, <3>1, <3>2, <3>3 DEF Maxima
  <2>5. \/ registers'[j] = registers[j]
        \/ registers'[j] = Live(registers[j], now)
        \/ ~RegisterRefused(j) /\ registers'[j] = Append(Live(registers[j], now), now)
    BY PrunedIsLive DEF AskRegister, Prune, Add, TypeOK, GuardType
  <2> QED
    BY <2>2, <2>3, <2>4, <2>5
<1> QED
  BY <1>3, <1>4, <1>5 DEF WindowsInv, RegistersInv

LEMMA WindowsHandlers ==
  ASSUME TypeOK, TypeOK', WindowsInv, NEW s \in Requests, Handlers(s)
  PROVE  WindowsInv'
<1>1. ASSUME NEW x \in Steps, Step(s, x), x \in {"done", "refused"} \/ req[s].kind # "login"
      PROVE  NoneLetIn
  BY <1>1 DEF Step, TypeOK, ReqType, NoneLetIn, LetIn
<1>2. CASE LoginArrives(s)
  <2>1. /\ req[s].step = "sent" /\ now' = now /\ AskLogin(req[s].name, Ip(s))
        /\ Step(s, IF LoginRefused(req[s].name, Ip(s)) THEN "refused" ELSE "checked")
    BY <1>2 DEF LoginArrives
  <2>2. req[s].name \in Names /\ Ip(s) \in Addresses
    BY <2>1, SignInAssumption DEF TypeOK, ReqType, Ip
  <2>3. CASE LoginRefused(req[s].name, Ip(s))
    <3>1. Calm /\ NoneLetIn
      BY <1>1, <2>1, <2>2, <2>3, AskedIsCalm DEF Steps
    <3> QED
      BY <3>1, WindowsFrame
  <2>4. CASE ~LoginRefused(req[s].name, Ip(s))
    BY <2>1, <2>4, LettingInKeeps
  <2> QED
    BY <2>3, <2>4
<1>3. CASE RegisterArrives(s)
  <2>1. /\ req[s].step = "sent" /\ req[s].kind = "register" /\ now' = now
        /\ \E x \in {"refused", "checked"} : Step(s, x)
    BY <1>3 DEF RegisterArrives
  <2>2. NoneLetIn /\ Ip(s) \in Addresses
    BY <1>1, <2>1, SignInAssumption DEF Steps, TypeOK, ReqType, Ip
  <2>3. CASE UNCHANGED guard
    BY <2>1, <2>2, <2>3, StillIsCalm, WindowsFrame
  <2>4. CASE AskRegister(Ip(s))
    BY <2>1, <2>2, <2>4, RegisteringKeeps
  <2> QED
    BY <1>3, <2>3, <2>4 DEF RegisterArrives
<1>4. CASE ReadsRow(s)
  <2>1. NoneLetIn
    BY <1>4 DEF ReadsRow, TypeOK, ReqType, NoneLetIn, LetIn
  <2> QED
    BY <1>4, <2>1, StillIsCalm, WindowsFrame DEF ReadsRow
<1>5. CASE LoginEnds(s)
  <2>1. /\ req[s].step = "read" /\ req[s].kind = "login" /\ now' = now /\ LetIn(req[s])
        /\ req[s].name \in Names
    BY <1>5 DEF LoginEnds, LetIn, TypeOK, ReqType
  <2>2. CASE RecordSuccess(req[s].name) /\ Step(s, "done")
    <3>1. Calm /\ NoneLetIn
      BY <1>1, <2>1, <2>2, SuccessIsCalm DEF Steps
    <3> QED
      BY <3>1, WindowsFrame
  <2>3. CASE RecordFailure(req[s].name, Ip(s)) /\ Step(s, "refused")
    BY <2>1, <2>3, FailureKeeps
  <2> QED
    BY <1>5, <2>2, <2>3 DEF LoginEnds
<1>6. CASE RegisterEnds(s) \/ MeArrives(s)
  <2>1. /\ UNCHANGED <<guard, now>> /\ \E x \in {"done", "refused"} : Step(s, x)
    BY <1>6 DEF RegisterEnds, MeArrives
  <2>2. NoneLetIn
    BY <1>1, <2>1 DEF Steps
  <2> QED
    BY <2>1, <2>2, StillIsCalm, WindowsFrame
<1> QED
  BY <1>2, <1>3, <1>4, <1>5, <1>6 DEF Handlers

LEMMA WindowsKept ==
  ASSUME TypeOK, TypeOK', WindowsInv, [Next]_vars
  PROVE  WindowsInv'
<1>1. CASE UNCHANGED vars
  <2>1. Calm /\ NoneLetIn
    BY <1>1, StillIsCalm DEF vars, NoneLetIn
  <2> QED
    BY <2>1, WindowsFrame
<1>2. CASE Boots
  <2>1. Calm /\ NoneLetIn
    BY <1>2, StillIsCalm DEF Boots, NoneLetIn
  <2> QED
    BY <2>1, WindowsFrame
<1>3. CASE Ticks
  <2>1. Calm /\ NoneLetIn
    BY <1>3, TicksAreCalm DEF Ticks, NoneLetIn
  <2> QED
    BY <2>1, WindowsFrame
<1>4. CASE Crashes
  <2>1. Calm
    BY <1>4, ForgettingIsCalm DEF Crashes
  <2>2. \A s \in Requests : ~LetIn(req'[s])
    BY <1>4 DEF Crashes, TypeOK, ReqType, LetIn
  <2>3. NoneLetIn
    BY <2>2 DEF NoneLetIn
  <2> QED
    BY <2>1, <2>3, WindowsFrame
<1>5. ASSUME NEW c \in Clients, SwitchForm(c)
      PROVE  WindowsInv'
  <2>1. Calm /\ NoneLetIn
    BY <1>5, StillIsCalm DEF SwitchForm, NoneLetIn
  <2> QED
    BY <2>1, WindowsFrame
<1>6. ASSUME NEW c \in Clients, NEW s \in Requests, NEW u, NEW pw, Submit(c, s, u, pw)
      PROVE  WindowsInv'
  <2>1. \A x \in Requests : req'[x] = req[x] \/ ~LetIn(req'[x])
    BY <1>6 DEF Submit, TypeOK, ReqType, LetIn
  <2>2. NoneLetIn
    BY <2>1 DEF NoneLetIn
  <2>3. Calm
    BY <1>6, StillIsCalm DEF Submit
  <2> QED
    BY <2>2, <2>3, WindowsFrame
<1>7. ASSUME NEW s \in Requests, Forms(s) \/ Lost(s)
      PROVE  WindowsInv'
  <2>1. UNCHANGED <<guard, now>>
    BY <1>7 DEF Forms, Registered, LoggedIn, Authenticated, FormFails, Lost
  <2>2. \A x \in Requests : req'[x] = req[x] \/ ~LetIn(req'[x])
    BY <1>7
       DEF Forms, Registered, LoggedIn, Authenticated, FormFails, FormEnds, Lost, Step, Idle,
           TypeOK, ReqType, LetIn
  <2>3. NoneLetIn
    BY <2>2 DEF NoneLetIn
  <2> QED
    BY <2>1, <2>3, StillIsCalm, WindowsFrame
<1> QED
  BY <1>1, <1>2, <1>3, <1>4, <1>5, <1>6, <1>7, WindowsHandlers DEF Next

----------------------------------------------------------------------------
(* The theorems.                                                           *)

LEMMA BootUnder ==
  ASSUME BootInv, [Next]_vars
  PROVE  BootInv'
<1>1. CASE UNCHANGED booting
  BY <1>1 DEF booting, BootInv, BootType, Sound, Under, Starting, Up, Here, Complete, UpTo, Statements, Dbs
<1>2. CASE Boots \/ Crashes
  BY <1>2, BootKeeps, CrashKeeps DEF Boots, Crashes
<1> QED
  BY <1>1, <1>2
     DEF Next, Ticks, SwitchForm, Submit, Forms, Registered, LoggedIn, Authenticated, FormFails,
         Handlers, LoginArrives, RegisterArrives, ReadsRow, LoginEnds, RegisterEnds, MeArrives,
         Lost, vars

(* Requests, sessions, accounts and windows have the fields the handlers   *)
(* and forms read, at every moment and through every crash.                *)
THEOREM SignInTypes == Spec => []TypeOK
<1>1. Init => TypeOK
  BY TypeInit
<1>2. TypeOK /\ [Next]_vars => TypeOK'
  BY TypeKept
<1> QED
  BY <1>1, <1>2, PTL DEF Spec

(* lifespan: requests are served only with every migration of every        *)
(* database in effect, whatever crashes there were.                        *)
THEOREM WholeSchema == Spec => []ServesWholeSchema
<1>1. Init => BootInv
  BY BootInit DEF Init
<1>2. BootInv /\ [Next]_vars => BootInv'
  BY BootUnder
<1>3. BootInv => ServesWholeSchema
  BY BootServes
<1> QED
  BY <1>1, <1>2, <1>3, PTL DEF Spec

(* register and login: who is told that a name is theirs, or holds a token *)
(* of it, knows the password the users' table has.                         *)
THEOREM OwnersSignIn == Spec => []SignedInAsOwner
<1>1. Init => TypeOK /\ OwnersInv
  BY TypeInit, OwnersInit
<1>2. TypeOK /\ OwnersInv /\ [Next]_vars => (TypeOK /\ OwnersInv)'
  BY TypeKept, OwnersKept
<1>3. TypeOK /\ OwnersInv => SignedInAsOwner
  BY OwnersImply
<1> QED
  BY <1>1, <1>2, <1>3, PTL DEF Spec

(* The rate guard: however attempts interleave, a window never holds more  *)
(* failures than its maximum and the attempts under way allow, nor more    *)
(* registrations than the maximum.                                         *)
THEOREM BoundedAttempts == Spec => []AttemptsBounded
<1>1. Init => TypeOK /\ WindowsInv
  BY TypeInit, WindowsInit
<1>2. TypeOK /\ WindowsInv /\ [Next]_vars => (TypeOK /\ WindowsInv)'
  BY TypeKept, WindowsKept
<1>3. TypeOK /\ WindowsInv => AttemptsBounded
  BY WindowsImply
<1> QED
  BY <1>1, <1>2, <1>3, PTL DEF Spec

============================================================================
