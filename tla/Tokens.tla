------------------------------- MODULE Tokens ------------------------------
(***************************************************************************)
(* One user's sessions: the server's token pairs, and the browser tabs     *)
(* that hold them.  Pair n is the access token n and the refresh token n   *)
(* the server signed together.  Tokens are not stored by the server, only  *)
(* what it revoked is, in memory.                                          *)
(*                                                                         *)
(* /auth/refresh verifies the token, awaits the user's row, then revokes   *)
(* the token and signs a new pair.  In a tab, a call that is answered 401  *)
(* asks for a refresh and is replayed; calls that find a refresh in flight *)
(* wait for that one.  The two tokens of a pair are always written         *)
(* together, to local storage (all tabs) or to session storage (one tab).  *)
(***************************************************************************)
EXTENDS Integers, FiniteSets

CONSTANTS
  Tabs,
  Calls,      \* API calls a tab may have in flight at once
  MaxPairs,   \* bound: pairs signed
  Choices,    \* what users tick at login: TRUE for "remember me"
  MaxTrouble, \* bound: page loads, logouts, lost answers and restarts together
  None        \* no token

ASSUME TokensAssumption ==
  /\ MaxPairs \in Nat \ {0} /\ Choices \subseteq BOOLEAN /\ MaxTrouble \in Nat
  /\ None \notin Nat

VARIABLES
  pairs,      \* server: pairs signed so far
  expired,    \* [access, refresh]: tokens past their expiry
  revoked,    \* [access, refresh]: tokens revoked, in the server's memory
  restarted,  \* history: the server forgot what it revoked
  redeemed,   \* history: how often each refresh token was redeemed
  signed,     \* history, for each pair: [login, remember] it descends from
  local,      \* local storage: a pair
  own,        \* for each tab, its session storage: a pair
  tab,        \* for each tab its token, its refresh in flight, its logout
  call,       \* for each tab and call: [phase, token, kind]
  moves,      \* page loads and logouts so far
  faults      \* lost answers and restarts so far

stores == <<local, own>>
server == <<pairs, expired, revoked, restarted, redeemed, signed>>
vars == <<server, stores, tab, call, moves, faults>>

Move == moves + faults < MaxTrouble /\ moves' = moves + 1
Fault == moves + faults < MaxTrouble /\ faults' = faults + 1

Pairs == 1 .. MaxPairs
Out == [token |-> None, remember |-> TRUE, refresh |-> "none",
        with |-> None, new |-> None, leaving |-> FALSE]
NoCall == [phase |-> "none", token |-> None, kind |-> "api"]

\* readStored: local storage first.
Stored(t) == IF local # None THEN local ELSE own[t]

\* verify_token, of the one type and the other
GoodAccess(n) == n \notin expired.access \cup revoked.access
Verifies(n) == n # None /\ n \notin expired.refresh \cup revoked.refresh

Init ==
  /\ pairs = 0
  /\ expired = [access |-> {}, refresh |-> {}]
  /\ revoked = [access |-> {}, refresh |-> {}]
  /\ restarted = FALSE /\ redeemed = [n \in Pairs |-> 0]
  /\ signed = [n \in Pairs |-> [login |-> None, remember |-> FALSE]]
  /\ local = None /\ own = [t \in Tabs |-> None]
  /\ tab = [t \in Tabs |-> Out]
  /\ call = [t \in Tabs |-> [c \in Calls |-> NoCall]]
  /\ moves = 0 /\ faults = 0

----------------------------------------------------------------------------
(* Server.                                                                 *)

Signs(of) ==
  /\ pairs < MaxPairs
  /\ pairs' = pairs + 1
  /\ signed' = [signed EXCEPT ![pairs + 1] = of]

\* Where the tokens of pair n can still be used from; what expires elsewhere
\* has no effect.
AccessHeld(n) ==
  \E t \in Tabs : n \in {Stored(t), tab[t].token} \cup {call[t][c].token : c \in Calls}
RefreshHeld(n) == \E t \in Tabs : n \in {Stored(t), tab[t].with}

(* A token lives far longer than the call that is replayed with it as soon *)
(* as it was signed.                                                       *)
AccessExpires(n) ==
  /\ n \in 1 .. pairs \ expired.access /\ AccessHeld(n)
  /\ \A t \in Tabs : /\ tab[t].refresh = "answered" => tab[t].new # n
                    /\ \A c \in Calls : call[t][c].phase = "replayed" => call[t][c].token # n
  /\ expired' = [expired EXCEPT !.access = @ \cup {n}]
  /\ UNCHANGED <<pairs, revoked, restarted, redeemed, signed, stores, tab, call, moves, faults>>

\* The refresh token outlives the access token it was signed with.
RefreshExpires(n) ==
  /\ n \in expired.access \ expired.refresh /\ RefreshHeld(n)
  /\ expired' = [expired EXCEPT !.refresh = @ \cup {n}]
  /\ UNCHANGED <<pairs, revoked, restarted, redeemed, signed, stores, tab, call, moves, faults>>

\* What was revoked is forgotten.
Restart ==
  /\ Fault /\ revoked.access \cup revoked.refresh # {}
  /\ revoked' = [access |-> {}, refresh |-> {}] /\ restarted' = TRUE
  /\ UNCHANGED <<pairs, expired, redeemed, signed, stores, tab, call, moves>>

----------------------------------------------------------------------------
(* A tab: its storage, signing in and out, loading the page.               *)

SetTab(t, x) == tab' = [tab EXCEPT ![t] = x]

\* persistTokens: written to the one storage, removed from the other.
Persist(t, n, remember) ==
  /\ local' = IF remember THEN n ELSE None
  /\ own' = [own EXCEPT ![t] = IF remember THEN None ELSE n]

(* clearSession: both storages are emptied.  A refresh in flight is not    *)
(* cancelled.                                                              *)
ClearSession(t, x) ==
  /\ local' = None /\ own' = [own EXCEPT ![t] = None]
  /\ SetTab(t, [x EXCEPT !.token = None, !.leaving = FALSE])

Login(t, remember) ==
  /\ tab[t].token = None
  /\ Signs([login |-> pairs + 1, remember |-> remember])
  /\ Persist(t, pairs + 1, remember)
  /\ SetTab(t, [tab[t] EXCEPT !.token = pairs + 1, !.remember = remember])
  /\ UNCHANGED <<expired, revoked, restarted, redeemed, call, moves, faults>>

(* The page is loaded again: what the tab was waiting for is forgotten,    *)
(* and the stored token, if any, is tried with /auth/me.  (A refresh the   *)
(* server is at work on then goes on as that of another tab does.)         *)
LoadPage(t) ==
  LET n == Stored(t)
      c == CHOOSE d \in Calls : TRUE
  IN  /\ tab[t].refresh \notin {"verify", "issue"}
      /\ IF tab[t].refresh = "answered"
         THEN Fault /\ UNCHANGED moves
         ELSE Move /\ UNCHANGED faults
      /\ SetTab(t, [Out EXCEPT !.token = n])
      /\ call' = [call EXCEPT ![t] = [d \in Calls |->
                    IF d = c /\ n # None
                    THEN [phase |-> "sent", token |-> n, kind |-> "boot"] ELSE NoCall]]
      /\ UNCHANGED <<server, stores>>

\* The server revokes the stored access token, whatever it is.
LogoutCall(t) ==
  /\ tab[t].token # None /\ ~tab[t].leaving
  /\ Move
  /\ revoked' = [revoked EXCEPT !.access = @ \cup ({Stored(t)} \ {None})]
  /\ SetTab(t, [tab[t] EXCEPT !.leaving = TRUE])
  /\ UNCHANGED <<pairs, expired, restarted, redeemed, signed, stores, call, faults>>

LogoutDone(t) ==
  /\ tab[t].leaving
  /\ ClearSession(t, tab[t])
  /\ UNCHANGED <<server, call, moves, faults>>

----------------------------------------------------------------------------
(* apiJson, and uploads and downloads, which send their own requests.      *)

SetCall(t, c, x) == call' = [call EXCEPT ![t][c] = x]

BeginCall(t, kind) ==
  LET free == {c \in Calls : call[t][c].phase = "none"}
  IN  /\ tab[t].token # None /\ free # {}
      /\ SetCall(t, CHOOSE c \in free : TRUE,
                 [phase |-> "sent", token |-> tab[t].token, kind |-> kind])
      /\ UNCHANGED <<server, stores, tab, moves, faults>>

CallAnswered(t, c) ==
  /\ call[t][c].phase \in {"sent", "replayed"}
  /\ GoodAccess(call[t][c].token)
  /\ SetCall(t, c, NoCall)
  /\ UNCHANGED <<server, stores, tab, moves, faults>>

\* 401: wait for the refresh in flight, or start one.
JoinRefresh(x) == IF x.refresh = "none" THEN [x EXCEPT !.refresh = "read"] ELSE x

CallRefused(t, c) ==
  /\ call[t][c].phase = "sent" /\ call[t][c].kind # "transfer"
  /\ ~GoodAccess(call[t][c].token)
  /\ SetCall(t, c, [call[t][c] EXCEPT !.phase = "waiting"])
  /\ SetTab(t, JoinRefresh(tab[t]))
  /\ UNCHANGED <<server, stores, moves, faults>>

\* 401 again, with the new token, or to a transfer: notifyUnauthorized.
SessionRefused(t, c) ==
  /\ \/ call[t][c].phase = "replayed"
     \/ call[t][c].phase = "sent" /\ call[t][c].kind = "transfer"
  /\ ~GoodAccess(call[t][c].token)
  /\ SetCall(t, c, NoCall)
  /\ ClearSession(t, tab[t])
  /\ UNCHANGED <<server, moves, faults>>

\* No answer: only the call at page load takes that for a lost session.
CallLost(t, c) ==
  /\ Fault /\ call[t][c].phase \in {"sent", "replayed"}
  /\ SetCall(t, c, NoCall)
  /\ IF call[t][c].kind = "boot" THEN ClearSession(t, tab[t]) ELSE UNCHANGED <<stores, tab>>
  /\ UNCHANGED <<server, moves>>

----------------------------------------------------------------------------
(* doRefresh.                                                              *)

Waiting(t) == {c \in Calls : call[t][c].phase = "waiting"}

\* Bug: the calls are replayed with the token they had.
ReplaySame(t, n) ==
  call' = [call EXCEPT ![t] = [c \in Calls |->
             IF c \in Waiting(t) THEN [call[t][c] EXCEPT !.phase = "replayed"] ELSE call[t][c]]]
\* The promise all waiting calls share: they are replayed with token n.
Replay(t, n) ==
  call' = [call EXCEPT ![t] = [c \in Calls |->
             IF c \in Waiting(t) THEN [call[t][c] EXCEPT !.phase = "replayed", !.token = n]
             ELSE call[t][c]]]

Idle(x) == [x EXCEPT !.refresh = "none", !.with = None, !.new = None]

\* Bug: a failed refresh leaves the calls that wait for it.
StrandWaiting(t) == UNCHANGED <<stores, call>> /\ SetTab(t, Idle(tab[t]))
\* doRefresh returns null: the 401 of whoever waits stands.
RefreshFails(t) ==
  /\ call' = [call EXCEPT ![t] = [c \in Calls |->
                IF c \in Waiting(t) THEN NoCall ELSE call[t][c]]]
  /\ IF Waiting(t) # {}
     THEN ClearSession(t, Idle(tab[t]))
     ELSE UNCHANGED stores /\ SetTab(t, Idle(tab[t]))

ReadStored(t) ==
  /\ tab[t].refresh = "read"
  /\ IF Stored(t) = None
     THEN RefreshFails(t)
     ELSE /\ SetTab(t, [tab[t] EXCEPT !.refresh = "verify", !.with = Stored(t)])
          /\ UNCHANGED <<stores, call>>
  /\ UNCHANGED <<server, moves, faults>>

\* AuthManagement.refresh up to the await of get_user
VerifyRefresh(t) ==
  /\ tab[t].refresh = "verify"
  /\ IF Verifies(tab[t].with)
     THEN SetTab(t, [tab[t] EXCEPT !.refresh = "issue"]) /\ UNCHANGED <<stores, call>>
     ELSE RefreshFails(t)
  /\ UNCHANGED <<server, moves, faults>>

\* Bug: the access token is revoked instead of the refresh token.
RevokeOther(n) == revoked' = [revoked EXCEPT !.access = @ \cup {n}]
RevokeRedeemed(n) == revoked' = [revoked EXCEPT !.refresh = @ \cup {n}]

IssuePair(t) ==
  /\ tab[t].refresh = "issue"
  /\ Signs(signed[tab[t].with])
  /\ RevokeRedeemed(tab[t].with)
  /\ redeemed' = [redeemed EXCEPT ![tab[t].with] = @ + 1]
  /\ SetTab(t, [tab[t] EXCEPT !.refresh = "answered", !.new = pairs + 1])
  /\ UNCHANGED <<expired, restarted, stores, call, moves, faults>>

\* Bug: the new pair is kept by the tab but not stored.
KeepUnstored(t, n) == UNCHANGED stores
\* The new pair is stored where the tab's last login chose.
StorePair(t, n) == Persist(t, n, tab[t].remember)

\* Whatever happened to the session meanwhile.
PersistPair(t) ==
  LET n == tab[t].new
  IN  /\ tab[t].refresh = "answered"
      /\ StorePair(t, n)
      /\ Replay(t, n)
      /\ SetTab(t, [Idle(tab[t]) EXCEPT !.token = n])
      /\ UNCHANGED <<server, moves, faults>>

\* The request or its answer is lost.
LoseAnswer(t) ==
  /\ Fault /\ tab[t].refresh \in {"verify", "answered"}
  /\ RefreshFails(t)
  /\ UNCHANGED <<server, moves>>

RefreshStep(t) == ReadStored(t) \/ VerifyRefresh(t) \/ IssuePair(t) \/ PersistPair(t)
CallStep(t, c) == CallAnswered(t, c) \/ CallRefused(t, c) \/ SessionRefused(t, c)

Next ==
  \/ \E n \in Pairs : AccessExpires(n) \/ RefreshExpires(n)
  \/ Restart
  \/ \E t \in Tabs :
       \/ \E remember \in Choices : Login(t, remember)
       \/ LogoutCall(t) \/ LogoutDone(t)
       \/ LoadPage(t) \/ BeginCall(t, "api") \/ BeginCall(t, "transfer")
       \/ RefreshStep(t) \/ LoseAnswer(t)
       \/ \E c \in Calls : CallStep(t, c) \/ CallLost(t, c)

Spec == Init /\ [][Next]_vars

(* Fetches are answered and promises run; users and clocks need not move.  *)
FairSpec ==
  /\ Spec
  /\ \A t \in Tabs : WF_vars(RefreshStep(t))
  /\ \A t \in Tabs, c \in Calls : WF_vars(CallStep(t, c))

----------------------------------------------------------------------------
(* Type invariant of the server's and the tabs' state.                     *)
TypeOK ==
  LET Some == 1 .. pairs \cup {None}
  IN  /\ pairs \in 0 .. MaxPairs
      /\ expired.refresh \subseteq expired.access
      /\ expired.access \cup revoked.access \cup revoked.refresh \subseteq 1 .. pairs
      /\ local \in Some /\ own \in [Tabs -> Some]
      /\ \A t \in Tabs :
           /\ tab[t].token \in Some
           /\ tab[t].refresh \in {"none", "read", "verify", "issue", "answered"}
           /\ tab[t].refresh = "answered" => tab[t].new \in 1 .. pairs
           /\ \A c \in Calls : call[t][c].phase = "waiting" => tab[t].refresh # "none"

(* refresh: "the presented one is revoked so it can be used exactly once". *)
RedeemedOnce == \A n \in Pairs : redeemed[n] <= 1

(* The same in one tab, as long as the server does not forget what it      *)
(* revoked: however many calls are refused at once, and whatever is        *)
(* reloaded or lost.                                                       *)
RotationIsLinear == ~restarted => RedeemedOnce

(* The stored refresh token is never one that was redeemed, except while   *)
(* the tab that redeemed it is about to store its successor; otherwise the *)
(* next expiry of the access token would end a session that is alive.      *)
StoredIsUsable ==
  \A t \in Tabs :
    (faults = 0 /\ Stored(t) \in revoked.refresh) =>
      \E u \in Tabs : tab[u].refresh = "answered" /\ tab[u].with = Stored(t)

\* All that tab t has in flight belongs to the login that is stored, and was
\* not logged out.
OneLogin(t) ==
  LET login(n) == signed[n].login
  IN  Stored(t) # None =>
        /\ tab[t].with # None => login(tab[t].with) = login(Stored(t))
        /\ \A c \in Calls : call[t][c].phase # "none" =>
             /\ login(call[t][c].token) = login(Stored(t))
             /\ call[t][c].token \notin revoked.access

\* Tab t drops its session, and not because its user logs out, loads the
\* page or logged in anew, or an answer was lost.
Drops(t) ==
  /\ tab[t].token # None /\ tab'[t].token = None
  /\ ~tab[t].leaving /\ moves' = moves /\ faults' = 0
  /\ OneLogin(t)

(* "A 401 that survives a refresh attempt means the session is truly stale *)
(* (refresh token expired or revoked)": the session is dropped only when   *)
(* the stored refresh token is of no use any more.                         *)
DropsOnlyStale == [][\A t \in Tabs : Drops(t) => ~Verifies(Stored(t))]_vars

(* The same of every call that goes through apiJson.                       *)
CallsDropOnlyStale ==
  [][\A t \in Tabs :
       (Drops(t) /\ \A c \in Calls : call[t][c].kind = "transfer" => call'[t][c] = call[t][c])
         => ~Verifies(Stored(t))]_vars

OutOfPairs(t) == pairs = MaxPairs /\ tab[t].refresh = "issue"

(* No call waits for ever for a refresh, however it ends (unless the model *)
(* has no pair left to sign).                                              *)
NoCallWaitsForEver ==
  \A t \in Tabs, c \in Calls :
    (call[t][c].phase = "waiting") ~> (call[t][c].phase # "waiting" \/ OutOfPairs(t))

============================================================================
