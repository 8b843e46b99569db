----------------------------- MODULE LoginGuard ----------------------------
(***************************************************************************)
(* The sliding windows that limit failed logins, by user and by address,   *)
(* and registrations by address: for each key the times of recent events.  *)
(***************************************************************************)
EXTENDS Integers, Sequences, FiniteSets

CONSTANTS
  Names,       \* user names
  Key,         \* the key of each: names that differ in case share one
  Addresses,   \* of clients
  Window,      \* how long an event counts
  Second,      \* how many units of the clock are a second
  MaxPerUser, MaxPerIp,
  MaxTime      \* bound of the clock

ASSUME LoginGuardAssumption ==
  /\ Window \in Nat \ {0} /\ Second \in Nat \ {0} /\ MaxTime \in Nat
  /\ MaxPerUser \in Nat \ {0} /\ MaxPerIp \in Nat \ {0}

VARIABLES now, users, ips, registers

guard == <<users, ips, registers>>

Keys == {Key[u] : u \in Names}

GuardInit ==
  /\ users = [k \in Keys |-> << >>]
  /\ ips = [i \in Addresses |-> << >>] /\ registers = [i \in Addresses |-> << >>]

\* Events are in the order of their times; the oldest are dropped.
Expired(events) == {n \in DOMAIN events : \A m \in 1 .. n : events[m] <= now - Window}
Pruned(events) == SubSeq(events, Cardinality(Expired(events)) + 1, Len(events))

\* Bug: one event too many.
Beyond(events, max) == Len(Pruned(events)) > max
Full(events, max) == Len(Pruned(events)) >= max

RetryAfter(events, max) ==
  IF Full(events, max) THEN Pruned(events)[1] + Window - now ELSE 0

Prune(f, k) == [f EXCEPT ![k] = Pruned(@)]
Add(f, k) == [f EXCEPT ![k] = Append(Pruned(@), now)]

\* What the caller is told to wait, in seconds, and what refuses it.
Told(u, i) ==
  LET a == RetryAfter(users[Key[u]], MaxPerUser)
      b == RetryAfter(ips[i], MaxPerIp)
  IN  ((IF a > b THEN a ELSE b) + Second - 1) \div Second
LoginRefused(u, i) == Told(u, i) > 0
RegisterRefused(i) == RetryAfter(registers[i], MaxPerIp) > 0

AskLogin(u, i) ==
  /\ users' = Prune(users, Key[u]) /\ ips' = Prune(ips, i) /\ UNCHANGED registers

RecordFailure(u, i) ==
  /\ users' = Add(users, Key[u]) /\ ips' = Add(ips, i) /\ UNCHANGED registers

RecordSuccess(u) == users' = [users EXCEPT ![Key[u]] = << >>] /\ UNCHANGED <<ips, registers>>

\* Asked and told in one step: nothing is awaited in between.
AskRegister(i) ==
  /\ registers' = IF RegisterRefused(i) THEN Prune(registers, i) ELSE Add(registers, i)
  /\ UNCHANGED <<users, ips>>

\* A restart forgets the windows.
Forget ==
  /\ users' = [k \in Keys |-> << >>]
  /\ ips' = [i \in Addresses |-> << >>] /\ registers' = [i \in Addresses |-> << >>]

Tick == now < MaxTime /\ now' = now + 1 /\ UNCHANGED guard

(* retry_after, "Seconds until key is allowed again": who is told to wait  *)
(* is let in after that, unless there are new failures.                    *)
RetryIsEnough ==
  \A u \in Names, i \in Addresses :
    LET then == now + Told(u, i) * Second
        left(events) == Cardinality({n \in DOMAIN events : events[n] > then - Window})
    IN  left(users[Key[u]]) < MaxPerUser /\ left(ips[i]) < MaxPerIp

============================================================================
