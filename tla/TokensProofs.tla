---------------------------- MODULE TokensProofs ---------------------------
(***************************************************************************)
(* What sessions keep for any number of calls, pairs, page loads, lost     *)
(* answers and restarts: types for any number of tabs; and, for one tab,   *)
(* that refresh tokens are redeemed once, that what is stored was not, and *)
(* that the tab ends its session by itself only when it is over.           *)
(*                                                                         *)
(* auth_management.refresh checks a token, awaits, and revokes it.  That   *)
(* nobody else redeems it meanwhile rests on the tab: it has one refresh   *)
(* under way (Rotation).  With two tabs it fails.                          *)
(***************************************************************************)
EXTENDS Tokens, TLAPS

Some == 1 .. pairs \cup {None}

TabRecords ==
  [token : Some, remember : BOOLEAN, refresh : {"none", "read", "verify", "issue", "answered"},
   with : Some, new : Some, leaving : BOOLEAN]
CallRecords ==
  [phase : {"none", "sent", "waiting", "replayed"}, token : Some, kind : {"api", "boot", "transfer"}]

ServerTyped ==
  /\ pairs \in 0 .. MaxPairs
  /\ expired \in [access : SUBSET (1 .. pairs), refresh : SUBSET (1 .. pairs)]
  /\ revoked \in [access : SUBSET (1 .. pairs), refresh : SUBSET (1 .. pairs)]
  /\ expired.refresh \subseteq expired.access
  /\ redeemed \in [Pairs -> Nat] /\ restarted \in BOOLEAN /\ faults \in Nat

BrowserTyped ==
  /\ local \in Some /\ own \in [Tabs -> Some]
  /\ tab \in [Tabs -> TabRecords] /\ call \in [Tabs -> [Calls -> CallRecords]]

\* A call waits for a refresh, and a refresh has a token.
Waits ==
  \A t \in Tabs :
    /\ tab[t].refresh \in {"issue", "answered"} => tab[t].with \in 1 .. pairs
    /\ tab[t].refresh = "answered" => tab[t].new \in 1 .. pairs
    /\ \A c \in Calls : call[t][c].phase = "waiting" => tab[t].refresh # "none"

TokensInv == ServerTyped /\ BrowserTyped /\ Waits

----------------------------------------------------------------------------

LEMMA TokenValues ==
  ASSUME TokensInv, NEW t \in Tabs
  PROVE  /\ Stored(t) \in Some /\ tab[t] \in TabRecords /\ None \in Some
         /\ \A c \in Calls : call[t][c] \in CallRecords
         /\ \A n \in Some : n # None => n \in 1 .. pairs
         /\ MaxPairs \in Nat /\ pairs \in Nat /\ None \notin Nat
BY TokensAssumption DEF TokensInv, ServerTyped, BrowserTyped, Stored, Some

LEMMA TabSet ==
  ASSUME TokensInv, NEW t \in Tabs, NEW x \in TabRecords', SetTab(t, x), pairs' \in Nat, pairs <= pairs'
  PROVE  /\ tab' \in [Tabs -> TabRecords'] /\ tab'[t] = x
         /\ \A u \in Tabs : u # t => tab'[u] = tab[u]
<1>1. Some \subseteq Some' /\ pairs \in Nat
  BY DEF TokensInv, ServerTyped, Some
<1>2. TabRecords \subseteq TabRecords'
  BY <1>1 DEF TabRecords
<1> QED
  BY <1>2 DEF TokensInv, BrowserTyped, SetTab

LEMMA CallSet ==
  ASSUME TokensInv, NEW t \in Tabs, NEW c \in Calls, NEW x \in CallRecords, SetCall(t, c, x)
  PROVE  /\ call' \in [Tabs -> [Calls -> CallRecords]] /\ call'[t][c] = x
         /\ \A u \in Tabs, d \in Calls : u # t \/ d # c => call'[u][d] = call[u][d]
BY DEF TokensInv, BrowserTyped, SetCall

LEMMA StoresCleared ==
  ASSUME TokensInv, NEW t \in Tabs, NEW x \in TabRecords, ClearSession(t, x), UNCHANGED pairs
  PROVE  /\ local' = None /\ own' \in [Tabs -> Some] /\ tab' \in [Tabs -> TabRecords]
         /\ tab'[t] = [x EXCEPT !.token = None, !.leaving = FALSE]
         /\ tab'[t].refresh = x.refresh /\ tab'[t].with = x.with /\ tab'[t].new = x.new
         /\ \A u \in Tabs : u # t => tab'[u] = tab[u]
         /\ own' = [own EXCEPT ![t] = None]
<1> DEFINE y == [x EXCEPT !.token = None, !.leaving = FALSE]
<1>1. None \in Some
  BY DEF Some
<1>2. y \in TabRecords /\ y.refresh = x.refresh /\ y.with = x.with /\ y.new = x.new
  BY <1>1 DEF TabRecords
<1> HIDE DEF y
<1>3. tab' = [tab EXCEPT ![t] = y] /\ local' = None /\ own' = [own EXCEPT ![t] = None]
  BY DEF ClearSession, SetTab, y
<1> QED
  BY <1>1, <1>2, <1>3 DEF TokensInv, BrowserTyped, y

LEMMA TokensInit ==
  ASSUME Init
  PROVE  TokensInv
<1>1. MaxPairs \in Nat \ {0} /\ pairs = 0 /\ None \in Some
  BY TokensAssumption DEF Init, Some
<1>2. ServerTyped
  <2>1. expired = [access |-> {}, refresh |-> {}] /\ revoked = [access |-> {}, refresh |-> {}]
    BY DEF Init
  <2>2. redeemed \in [Pairs -> Nat] /\ restarted \in BOOLEAN /\ faults \in Nat
    BY DEF Init
  <2> QED
    BY <1>1, <2>1, <2>2 DEF ServerTyped
<1>3. Out \in TabRecords /\ NoCall \in CallRecords /\ Out.refresh = "none" /\ NoCall.phase = "none"
  BY <1>1 DEF Out, NoCall, TabRecords, CallRecords
<1>4. BrowserTyped
  BY <1>1, <1>3 DEF Init, BrowserTyped
<1>5. Waits
  BY <1>3 DEF Init, Waits
<1> QED
  BY <1>2, <1>4, <1>5 DEF TokensInv

\* The refresh ends without a pair: nothing of it is left, and nobody waits.
LEMMA FailedRefresh ==
  ASSUME TokensInv, NEW t \in Tabs, RefreshFails(t), UNCHANGED server
  PROVE  /\ BrowserTyped' /\ Waits'
         /\ tab'[t].refresh = "none" /\ tab'[t].with = None
         /\ \A u \in Tabs : u # t => tab'[u] = tab[u]
         /\ UNCHANGED stores \/ (local' = None /\ own' = [own EXCEPT ![t] = None])
<1> DEFINE x == Idle(tab[t])
<1>1. None \in Some /\ tab[t] \in TabRecords /\ UNCHANGED pairs
  BY TokenValues DEF server
<1>2. x \in TabRecords /\ x.refresh = "none" /\ x.with = None
  BY <1>1 DEF Idle, TabRecords
<1> HIDE DEF x
<1>3. /\ call' \in [Tabs -> [Calls -> CallRecords]]
      /\ \A u \in Tabs : u # t => call'[u] = call[u]
      /\ \A c \in Calls : call'[t][c].phase # "waiting"
  <2>1. NoCall \in CallRecords /\ NoCall.phase # "waiting"
    BY <1>1 DEF NoCall, CallRecords
  <2> DEFINE after == [c \in Calls |-> IF c \in Waiting(t) THEN NoCall ELSE call[t][c]]
  <2>2. /\ after \in [Calls -> CallRecords]
        /\ \A c \in Calls : after[c].phase # "waiting"
    BY <2>1 DEF TokensInv, BrowserTyped, Waiting
  <2>3. call' = [call EXCEPT ![t] = after]
    BY DEF RefreshFails
  <2> HIDE DEF after
  <2> QED
    BY <2>2, <2>3 DEF TokensInv, BrowserTyped
<1>4. \/ /\ UNCHANGED stores /\ tab' = [tab EXCEPT ![t] = x]
      \/ ClearSession(t, x)
  BY DEF RefreshFails, SetTab, x
<1>5. /\ tab' \in [Tabs -> TabRecords] /\ tab'[t].refresh = "none" /\ tab'[t].with = None
      /\ \A u \in Tabs : u # t => tab'[u] = tab[u]
      /\ local' \in Some /\ own' \in [Tabs -> Some]
      /\ UNCHANGED stores \/ (local' = None /\ own' = [own EXCEPT ![t] = None])
  <2>1. CASE UNCHANGED stores /\ tab' = [tab EXCEPT ![t] = x]
    BY <1>2, <2>1 DEF TokensInv, BrowserTyped, stores
  <2>2. CASE ClearSession(t, x)
    BY <1>1, <1>2, <2>2, StoresCleared
  <2> QED
    BY <1>4, <2>1, <2>2
<1>6. Some' = Some /\ TabRecords' = TabRecords /\ CallRecords' = CallRecords
  BY <1>1 DEF Some, TabRecords, CallRecords
<1>7. BrowserTyped'
  BY <1>3, <1>5, <1>6 DEF BrowserTyped
<1>8. Waits'
  BY <1>1, <1>3, <1>5 DEF TokensInv, Waits
<1> QED
  BY <1>5, <1>7, <1>8

----------------------------------------------------------------------------
(* The actions.                                                            *)

\* What no pair was signed by keeps its type.
LEMMA SamePairs ==
  ASSUME UNCHANGED pairs
  PROVE  Some' = Some /\ TabRecords' = TabRecords /\ CallRecords' = CallRecords
BY DEF Some, TabRecords, CallRecords

LEMMA ClockKeeps ==
  ASSUME TokensInv, NEW n, AccessExpires(n) \/ RefreshExpires(n)
  PROVE  TokensInv'
<1>1. /\ n \in 1 .. pairs
      /\ \/ expired' = [expired EXCEPT !.access = @ \cup {n}]
         \/ n \in expired.access /\ expired' = [expired EXCEPT !.refresh = @ \cup {n}]
      /\ UNCHANGED <<pairs, revoked, restarted, redeemed, local, own, tab, call, faults>>
  BY DEF AccessExpires, RefreshExpires, stores, TokensInv, ServerTyped
<1>2. ServerTyped'
  BY <1>1 DEF TokensInv, ServerTyped
<1>3. BrowserTyped' /\ Waits'
  BY <1>1, SamePairs DEF TokensInv, BrowserTyped, Waits
<1> QED
  BY <1>2, <1>3 DEF TokensInv

LEMMA TokensRestartKeeps ==
  ASSUME TokensInv, Restart
  PROVE  TokensInv'
<1>1. /\ revoked' = [access |-> {}, refresh |-> {}] /\ restarted' = TRUE /\ faults' = faults + 1
      /\ UNCHANGED <<pairs, expired, redeemed, local, own, tab, call>>
  BY DEF Restart, Fault, stores
<1>2. ServerTyped'
  BY <1>1 DEF TokensInv, ServerTyped
<1>3. BrowserTyped' /\ Waits'
  BY <1>1, SamePairs DEF TokensInv, BrowserTyped, Waits
<1> QED
  BY <1>2, <1>3 DEF TokensInv

\* A step of the browser alone.
LEMMA ServerStays ==
  ASSUME TokensInv, UNCHANGED server, faults' = faults \/ faults' = faults + 1
  PROVE  ServerTyped'
BY DEF TokensInv, ServerTyped, server

\* A step of one tab that leaves its refresh alone.
LEMMA TabKeeps ==
  ASSUME TokensInv, UNCHANGED pairs, NEW t \in Tabs, tab' \in [Tabs -> TabRecords],
         call' \in [Tabs -> [Calls -> CallRecords]], local' \in Some, own' \in [Tabs -> Some],
         \A u \in Tabs : /\ tab'[u].refresh = tab[u].refresh /\ tab'[u].with = tab[u].with
                         /\ tab'[u].new = tab[u].new,
         \A u \in Tabs, c \in Calls :
           call'[u][c].phase = "waiting" => call[u][c].phase = "waiting"
  PROVE  BrowserTyped' /\ Waits'
<1>1. BrowserTyped'
  BY SamePairs DEF BrowserTyped
<1>2. Waits'
  BY DEF TokensInv, Waits
<1> QED
  BY <1>1, <1>2

LEMMA LoginKeeps ==
  ASSUME TokensInv, NEW t \in Tabs, NEW remember \in BOOLEAN, Login(t, remember)
  PROVE  TokensInv'
<1> DEFINE x == [tab[t] EXCEPT !.token = pairs + 1, !.remember = remember]
<1>1. /\ pairs' = pairs + 1 /\ pairs < MaxPairs /\ pairs \in Nat /\ MaxPairs \in Nat
      /\ UNCHANGED <<expired, revoked, restarted, redeemed, call, faults>>
  BY TokenValues DEF Login, Signs
<1>2. Some \subseteq Some' /\ pairs + 1 \in Some' /\ None \in Some'
  BY <1>1 DEF Some
<1>3. TabRecords \subseteq TabRecords' /\ CallRecords \subseteq CallRecords'
  BY <1>2 DEF TabRecords, CallRecords
<1>4. ServerTyped'
  <2>1. 1 .. pairs \subseteq 1 .. pairs'
    BY <1>1
  <2>2. /\ expired' \in [access : SUBSET (1 .. pairs'), refresh : SUBSET (1 .. pairs')]
        /\ revoked' \in [access : SUBSET (1 .. pairs'), refresh : SUBSET (1 .. pairs')]
    BY <1>1, <2>1 DEF TokensInv, ServerTyped
  <2> QED
    BY <1>1, <2>2 DEF TokensInv, ServerTyped
<1>5. /\ x \in TabRecords' /\ x.refresh = tab[t].refresh /\ x.with = tab[t].with
      /\ x.new = tab[t].new
  BY <1>2, TokenValues DEF TabRecords
<1> HIDE DEF x
<1>6. /\ tab' \in [Tabs -> TabRecords'] /\ tab'[t] = x
      /\ \A u \in Tabs : u # t => tab'[u] = tab[u]
  BY <1>1, <1>5, TabSet DEF Login, x
<1>7. local' \in Some' /\ own' \in [Tabs -> Some']
  BY <1>1, <1>2 DEF Login, Persist, TokensInv, BrowserTyped
<1>8. BrowserTyped'
  BY <1>1, <1>3, <1>6, <1>7 DEF TokensInv, BrowserTyped
<1>9. Waits'
  BY <1>1, <1>5, <1>6 DEF TokensInv, Waits
<1> QED
  BY <1>4, <1>8, <1>9 DEF TokensInv

LEMMA LoadPageKeeps ==
  ASSUME TokensInv, NEW t \in Tabs, LoadPage(t)
  PROVE  TokensInv'
<1> DEFINE x == [Out EXCEPT !.token = Stored(t)]
           first == CHOOSE d \in Calls : TRUE
           after == [d \in Calls |-> IF d = first /\ Stored(t) # None
                                     THEN [phase |-> "sent", token |-> Stored(t), kind |-> "boot"]
                                     ELSE NoCall]
<1>1. /\ UNCHANGED <<server, stores>> /\ (faults' = faults \/ faults' = faults + 1)
      /\ SetTab(t, x) /\ call' = [call EXCEPT ![t] = after]
  BY DEF LoadPage, Fault
<1>2. Stored(t) \in Some /\ None \in Some /\ pairs' = pairs /\ pairs \in Nat
  BY <1>1, TokenValues DEF server
<1>3. x \in TabRecords /\ x.refresh = "none"
  BY <1>2 DEF Out, TabRecords
<1>4. after \in [Calls -> CallRecords] /\ \A c \in Calls : after[c].phase # "waiting"
  BY <1>2 DEF NoCall, CallRecords
<1> HIDE DEF x, after
<1>5. /\ tab' \in [Tabs -> TabRecords] /\ tab'[t] = x
      /\ \A u \in Tabs : u # t => tab'[u] = tab[u]
  BY <1>1, <1>2, <1>3, TabSet, SamePairs
<1>6. /\ call' \in [Tabs -> [Calls -> CallRecords]] /\ call'[t] = after
      /\ \A u \in Tabs : u # t => call'[u] = call[u]
  BY <1>1, <1>4 DEF TokensInv, BrowserTyped
<1>7. BrowserTyped'
  BY <1>1, <1>2, <1>5, <1>6, SamePairs DEF TokensInv, BrowserTyped, stores
<1>8. Waits'
  BY <1>2, <1>3, <1>4, <1>5, <1>6 DEF TokensInv, Waits
<1> QED
  BY <1>1, <1>7, <1>8, ServerStays DEF TokensInv

LEMMA LogoutKeeps ==
  ASSUME TokensInv, NEW t \in Tabs, LogoutCall(t) \/ LogoutDone(t)
  PROVE  TokensInv'
<1>1. CASE LogoutCall(t)
  <2> DEFINE x == [tab[t] EXCEPT !.leaving = TRUE]
  <2>1. /\ revoked' = [revoked EXCEPT !.access = @ \cup ({Stored(t)} \ {None})]
        /\ SetTab(t, x) /\ UNCHANGED <<pairs, expired, restarted, redeemed, local, own, call, faults>>
    BY <1>1 DEF LogoutCall, stores
  <2>2. x \in TabRecords /\ x.refresh = tab[t].refresh /\ x.with = tab[t].with /\ x.new = tab[t].new
    BY TokenValues DEF TabRecords
  <2> HIDE DEF x
  <2>3. {Stored(t)} \ {None} \subseteq 1 .. pairs /\ pairs \in Nat
    BY TokenValues
  <2>4. ServerTyped'
    BY <2>1, <2>3 DEF TokensInv, ServerTyped
  <2>5. /\ tab' \in [Tabs -> TabRecords] /\ tab'[t] = x
        /\ \A u \in Tabs : u # t => tab'[u] = tab[u]
    BY <2>1, <2>2, <2>3, TabSet, SamePairs
  <2>6. BrowserTyped' /\ Waits'
    BY <2>1, <2>2, <2>5, TabKeeps DEF TokensInv, BrowserTyped
  <2> QED
    BY <2>4, <2>6 DEF TokensInv
<1>2. CASE LogoutDone(t)
  <2>1. ClearSession(t, tab[t]) /\ UNCHANGED <<server, call, faults>> /\ UNCHANGED pairs
    BY <1>2 DEF LogoutDone, server
  <2>2. tab[t] \in TabRecords /\ None \in Some
    BY TokenValues
  <2>3. /\ local' \in Some /\ own' \in [Tabs -> Some] /\ tab' \in [Tabs -> TabRecords]
        /\ tab'[t].refresh = tab[t].refresh /\ tab'[t].with = tab[t].with
        /\ tab'[t].new = tab[t].new
        /\ \A u \in Tabs : u # t => tab'[u] = tab[u]
    BY <2>1, <2>2, StoresCleared
  <2>4. BrowserTyped' /\ Waits'
    BY <2>1, <2>3, TabKeeps DEF TokensInv, BrowserTyped
  <2> QED
    BY <2>1, <2>4, ServerStays DEF TokensInv
<1> QED
  BY <1>1, <1>2

\* A call ends or goes on, and may end the session.
LEMMA CallMoves ==
  ASSUME TokensInv, NEW t \in Tabs, NEW c \in Calls, NEW x \in CallRecords,
         x.phase # "waiting", SetCall(t, c, x), UNCHANGED server,
         faults' = faults \/ faults' = faults + 1,
         UNCHANGED <<stores, tab>> \/ ClearSession(t, tab[t])
  PROVE  TokensInv'
<1>1. /\ call' \in [Tabs -> [Calls -> CallRecords]] /\ call'[t][c] = x
      /\ \A u \in Tabs, d \in Calls : u # t \/ d # c => call'[u][d] = call[u][d]
  BY CallSet
<1>2. UNCHANGED pairs /\ tab[t] \in TabRecords
  BY TokenValues DEF server
<1>3. /\ local' \in Some /\ own' \in [Tabs -> Some] /\ tab' \in [Tabs -> TabRecords]
      /\ \A u \in Tabs : /\ tab'[u].refresh = tab[u].refresh /\ tab'[u].with = tab[u].with
                         /\ tab'[u].new = tab[u].new
  <2>1. CASE UNCHANGED <<stores, tab>>
    BY <2>1 DEF TokensInv, BrowserTyped, stores
  <2>2. CASE ClearSession(t, tab[t])
    <3>1. None \in Some
      BY DEF Some
    <3> QED
      BY <1>2, <2>2, <3>1, StoresCleared
  <2> QED
    BY <2>1, <2>2
<1>4. \A u \in Tabs, d \in Calls : call'[u][d].phase = "waiting" => call[u][d].phase = "waiting"
  BY <1>1
<1>5. BrowserTyped' /\ Waits'
  BY <1>1, <1>2, <1>3, <1>4, TabKeeps
<1> QED
  BY <1>5, ServerStays DEF TokensInv

LEMMA CallKeeps ==
  ASSUME TokensInv, NEW t \in Tabs, NEW c \in Calls,
         CallAnswered(t, c) \/ SessionRefused(t, c) \/ CallLost(t, c)
  PROVE  TokensInv'
<1>1. NoCall \in CallRecords /\ NoCall.phase # "waiting"
  BY DEF NoCall, CallRecords, Some
<1>2. /\ SetCall(t, c, NoCall) /\ UNCHANGED server /\ (faults' = faults \/ faults' = faults + 1)
      /\ UNCHANGED <<stores, tab>> \/ ClearSession(t, tab[t])
  BY DEF CallAnswered, SessionRefused, CallLost, Fault
<1> QED
  BY <1>1, <1>2, CallMoves

LEMMA BeginCallKeeps ==
  ASSUME TokensInv, NEW t \in Tabs, NEW kind \in {"api", "transfer"}, BeginCall(t, kind)
  PROVE  TokensInv'
<1> DEFINE x == [phase |-> "sent", token |-> tab[t].token, kind |-> kind]
           free == {c \in Calls : call[t][c].phase = "none"}
<1>1. PICK c \in Calls : SetCall(t, c, x)
  BY DEF BeginCall
<1>2. x \in CallRecords /\ x.phase # "waiting"
  BY TokenValues DEF TabRecords, CallRecords
<1> HIDE DEF x
<1>3. UNCHANGED <<server, stores, tab, faults>>
  BY DEF BeginCall
<1> QED
  BY <1>1, <1>2, <1>3, CallMoves

\* The call waits, for the refresh that is under way or begins.
LEMMA CallRefusedKeeps ==
  ASSUME TokensInv, NEW t \in Tabs, NEW c \in Calls, CallRefused(t, c)
  PROVE  /\ TokensInv' /\ UNCHANGED <<server, stores, faults>>
         /\ \A u \in Tabs : /\ tab'[u].with = tab[u].with /\ tab'[u].new = tab[u].new
                            /\ tab[u].refresh \in {"none"} \/ tab'[u].refresh = tab[u].refresh
                            /\ tab'[u].refresh \in {"read", tab[u].refresh}
<1> DEFINE x == JoinRefresh(tab[t])
           y == [call[t][c] EXCEPT !.phase = "waiting"]
<1>1. SetCall(t, c, y) /\ SetTab(t, x) /\ UNCHANGED <<server, stores, faults>> /\ UNCHANGED pairs
  BY DEF CallRefused, server
<1>2. x \in TabRecords /\ x.refresh # "none" /\ x.with = tab[t].with /\ x.new = tab[t].new
  BY TokenValues DEF JoinRefresh, TabRecords
<1>3. x.refresh \in {"read", tab[t].refresh} /\ (tab[t].refresh = "none" \/ x.refresh = tab[t].refresh)
  BY TokenValues DEF JoinRefresh, TabRecords
<1>4. y \in CallRecords
  BY TokenValues DEF CallRecords
<1> HIDE DEF x, y
<1>5. /\ tab' \in [Tabs -> TabRecords] /\ tab'[t] = x
      /\ \A u \in Tabs : u # t => tab'[u] = tab[u]
  BY <1>1, <1>2, TokenValues, TabSet, SamePairs
<1>6. /\ call' \in [Tabs -> [Calls -> CallRecords]]
      /\ \A u \in Tabs, d \in Calls : u # t => call'[u][d] = call[u][d]
  BY <1>1, <1>4, CallSet
<1>7. BrowserTyped'
  BY <1>1, <1>5, <1>6, SamePairs DEF TokensInv, BrowserTyped, stores
<1>8. Waits'
  BY <1>1, <1>2, <1>3, <1>5, <1>6 DEF TokensInv, Waits
<1> QED
  BY <1>1, <1>2, <1>3, <1>5, <1>7, <1>8, ServerStays DEF TokensInv

\* The refresh goes on to another step, with token n.
LEMMA RefreshMoves ==
  ASSUME TokensInv, NEW t \in Tabs, NEW x \in TabRecords, SetTab(t, x), x.refresh \in {"verify", "issue"},
         x.refresh = "issue" => x.with \in 1 .. pairs, UNCHANGED <<server, stores, call, faults>>
  PROVE  TokensInv'
<1>1. UNCHANGED pairs /\ pairs \in Nat
  BY TokenValues DEF server
<1>2. /\ tab' \in [Tabs -> TabRecords] /\ tab'[t] = x
      /\ \A u \in Tabs : u # t => tab'[u] = tab[u]
  BY <1>1, TabSet, SamePairs
<1>3. BrowserTyped'
  BY <1>1, <1>2, SamePairs DEF TokensInv, BrowserTyped, stores
<1>4. Waits'
  BY <1>1, <1>2 DEF TokensInv, Waits
<1> QED
  BY <1>3, <1>4, ServerStays DEF TokensInv

LEMMA ReadStoredKeeps ==
  ASSUME TokensInv, NEW t \in Tabs, ReadStored(t)
  PROVE  TokensInv'
<1>1. CASE Stored(t) = None
  BY <1>1, FailedRefresh, ServerStays DEF ReadStored, TokensInv
<1>2. CASE Stored(t) # None
  <2> DEFINE x == [tab[t] EXCEPT !.refresh = "verify", !.with = Stored(t)]
  <2>1. SetTab(t, x) /\ UNCHANGED <<server, stores, call, faults>>
    BY <1>2 DEF ReadStored
  <2>2. x \in TabRecords /\ x.refresh = "verify"
    BY TokenValues DEF TabRecords
  <2> HIDE DEF x
  <2> QED
    BY <2>1, <2>2, RefreshMoves
<1> QED
  BY <1>1, <1>2

LEMMA VerifyRefreshKeeps ==
  ASSUME TokensInv, NEW t \in Tabs, VerifyRefresh(t)
  PROVE  TokensInv'
<1>1. CASE ~Verifies(tab[t].with)
  BY <1>1, FailedRefresh, ServerStays DEF VerifyRefresh, TokensInv
<1>2. CASE Verifies(tab[t].with)
  <2> DEFINE x == [tab[t] EXCEPT !.refresh = "issue"]
  <2>1. SetTab(t, x) /\ UNCHANGED <<server, stores, call, faults>>
    BY <1>2 DEF VerifyRefresh
  <2>2. x \in TabRecords /\ x.refresh = "issue" /\ x.with = tab[t].with /\ tab[t].with \in Some
    BY TokenValues DEF TabRecords
  <2>3. tab[t].with \in 1 .. pairs
    BY <1>2, <2>2, TokenValues DEF Verifies
  <2> HIDE DEF x
  <2> QED
    BY <2>1, <2>2, <2>3, RefreshMoves
<1> QED
  BY <1>1, <1>2

LEMMA LoseAnswerKeeps ==
  ASSUME TokensInv, NEW t \in Tabs, LoseAnswer(t)
  PROVE  TokensInv'
BY FailedRefresh, ServerStays DEF LoseAnswer, Fault, TokensInv

LEMMA IssuePairKeeps ==
  ASSUME TokensInv, NEW t \in Tabs, IssuePair(t)
  PROVE  TokensInv' /\ tab'[t].with = tab[t].with /\ tab'[t].refresh = "answered"
         /\ tab'[t].new = pairs + 1 /\ \A u \in Tabs : u # t => tab'[u] = tab[u]
<1> DEFINE x == [tab[t] EXCEPT !.refresh = "answered", !.new = pairs + 1]
<1>1. /\ pairs' = pairs + 1 /\ pairs < MaxPairs /\ pairs \in Nat /\ MaxPairs \in Nat
      /\ UNCHANGED <<expired, restarted, stores, call, faults>>
      /\ revoked' = [revoked EXCEPT !.refresh = @ \cup {tab[t].with}]
      /\ redeemed' = [redeemed EXCEPT ![tab[t].with] = @ + 1]
      /\ SetTab(t, x)
  BY TokenValues DEF IssuePair, Signs, RevokeRedeemed
<1>2. Some \subseteq Some' /\ pairs + 1 \in Some' /\ pairs + 1 \in 1 .. pairs'
  BY <1>1 DEF Some
<1>3. TabRecords \subseteq TabRecords' /\ CallRecords \subseteq CallRecords'
  BY <1>2 DEF TabRecords, CallRecords
<1>4. tab[t].with \in 1 .. pairs
  BY DEF IssuePair, TokensInv, Waits
<1>5. ServerTyped'
  <2>1. 1 .. pairs \subseteq 1 .. pairs' /\ tab[t].with \in 1 .. pairs'
    BY <1>1, <1>4
  <2>2. /\ expired' \in [access : SUBSET (1 .. pairs'), refresh : SUBSET (1 .. pairs')]
        /\ revoked' \in [access : SUBSET (1 .. pairs'), refresh : SUBSET (1 .. pairs')]
    BY <1>1, <2>1 DEF TokensInv, ServerTyped
  <2>3. redeemed' \in [Pairs -> Nat]
    <3>1. tab[t].with \in Pairs
      BY <1>1, <1>4 DEF Pairs
    <3> QED
      BY <1>1, <3>1 DEF TokensInv, ServerTyped
  <2> QED
    BY <1>1, <2>2, <2>3 DEF TokensInv, ServerTyped
<1>6. /\ x \in TabRecords' /\ x.refresh = "answered" /\ x.with = tab[t].with /\ x.new = pairs + 1
  BY <1>2, TokenValues DEF TabRecords
<1> HIDE DEF x
<1>7. /\ tab' \in [Tabs -> TabRecords'] /\ tab'[t] = x
      /\ \A u \in Tabs : u # t => tab'[u] = tab[u]
  BY <1>1, <1>6, TabSet
<1>8. BrowserTyped'
  BY <1>1, <1>2, <1>3, <1>7 DEF TokensInv, BrowserTyped, stores
<1>9. Waits'
  BY <1>1, <1>2, <1>4, <1>6, <1>7 DEF TokensInv, Waits
<1> QED
  BY <1>5, <1>6, <1>7, <1>8, <1>9 DEF TokensInv

LEMMA PersistPairKeeps ==
  ASSUME TokensInv, NEW t \in Tabs, PersistPair(t)
  PROVE  TokensInv' /\ tab'[t].refresh = "none" /\ tab'[t].with = None
         /\ \A u \in Tabs : u # t => tab'[u] = tab[u]
<1> DEFINE n == tab[t].new
           x == [Idle(tab[t]) EXCEPT !.token = n]
           after == [c \in Calls |-> IF c \in Waiting(t)
                                     THEN [call[t][c] EXCEPT !.phase = "replayed", !.token = n]
                                     ELSE call[t][c]]
<1>1. /\ UNCHANGED <<server, faults>> /\ UNCHANGED pairs /\ SetTab(t, x)
      /\ call' = [call EXCEPT ![t] = after]
      /\ local' \in {n, None} /\ own' = [own EXCEPT ![t] = own'[t]] /\ own'[t] \in {n, None}
  <2>1. own \in [Tabs -> Some]
    BY DEF TokensInv, BrowserTyped
  <2> QED
    BY <2>1 DEF PersistPair, StorePair, Persist, Replay, server
<1>2. n \in Some /\ None \in Some /\ pairs \in Nat
  BY TokenValues DEF TabRecords
<1>3. x \in TabRecords /\ x.refresh = "none" /\ x.with = None
  BY <1>2, TokenValues DEF Idle, TabRecords
<1>4. after \in [Calls -> CallRecords] /\ \A c \in Calls : after[c].phase # "waiting"
  BY <1>2, TokenValues DEF Waiting, CallRecords
<1> HIDE DEF n, x, after
<1>5. /\ tab' \in [Tabs -> TabRecords] /\ tab'[t] = x
      /\ \A u \in Tabs : u # t => tab'[u] = tab[u]
  BY <1>1, <1>2, <1>3, TabSet, SamePairs
<1>6. /\ call' \in [Tabs -> [Calls -> CallRecords]] /\ call'[t] = after
      /\ \A u \in Tabs : u # t => call'[u] = call[u]
  BY <1>1, <1>4 DEF TokensInv, BrowserTyped
<1>7. local' \in Some /\ own' \in [Tabs -> Some]
  BY <1>1, <1>2 DEF TokensInv, BrowserTyped
<1>8. BrowserTyped'
  BY <1>1, <1>5, <1>6, <1>7, SamePairs DEF BrowserTyped
<1>9. Waits'
  BY <1>1, <1>3, <1>4, <1>5, <1>6 DEF TokensInv, Waits
<1> QED
  BY <1>1, <1>3, <1>5, <1>8, <1>9, ServerStays DEF TokensInv

LEMMA TokensStep ==
  ASSUME TokensInv, [Next]_vars
  PROVE  TokensInv'
<1>1. CASE \E n \in Pairs : AccessExpires(n) \/ RefreshExpires(n)
  BY <1>1, ClockKeeps
<1>2. CASE Restart
  BY <1>2, TokensRestartKeeps
<1>3. ASSUME NEW t \in Tabs, \E remember \in Choices : Login(t, remember)
      PROVE  TokensInv'
  BY <1>3, LoginKeeps, TokensAssumption
<1>4. ASSUME NEW t \in Tabs, LogoutCall(t) \/ LogoutDone(t) \/ LoadPage(t) \/ BeginCall(t, "api")
                             \/ BeginCall(t, "transfer") \/ RefreshStep(t) \/ LoseAnswer(t)
      PROVE  TokensInv'
  BY <1>4, LogoutKeeps, LoadPageKeeps, BeginCallKeeps, ReadStoredKeeps, VerifyRefreshKeeps,
     IssuePairKeeps, PersistPairKeeps, LoseAnswerKeeps DEF RefreshStep
<1>5. ASSUME NEW t \in Tabs, NEW c \in Calls, CallStep(t, c) \/ CallLost(t, c)
      PROVE  TokensInv'
  BY <1>5, CallKeeps, CallRefusedKeeps DEF CallStep
<1>6. CASE UNCHANGED vars
  BY <1>6 DEF vars, server, stores, TokensInv, ServerTyped, BrowserTyped, Waits, Some, TabRecords,
              CallRecords
<1> QED
  BY <1>1, <1>2, <1>3, <1>4, <1>5, <1>6 DEF Next

\* The invariant of the server's and the tabs' state.
THEOREM TokensInvariant == Spec => []TokensInv
<1>1. Init => TokensInv
  BY TokensInit
<1>2. TokensInv /\ [Next]_vars => TokensInv'
  BY TokensStep
<1> QED
  BY <1>1, <1>2, PTL DEF Spec

(* Tokens that are stored, in use, expired or revoked were signed, and a   *)
(* call waits only while its tab's doRefresh is under way, for any number  *)
(* of tabs and calls.                                                      *)
THEOREM TokensTypes == Spec => []TypeOK
<1>1. TokensInv => TypeOK
  BY DEF TokensInv, ServerTyped, BrowserTyped, Waits, TypeOK, Some, TabRecords
<1> QED
  BY <1>1, TokensInvariant, PTL

----------------------------------------------------------------------------
(* One tab.                                                                *)

OneTab == \A t \in Tabs, u \in Tabs : t = u

\* A token was redeemed only if it is revoked, and one that is about to be redeemed is not.
Rotation ==
  /\ ~restarted => /\ \A n \in Pairs : redeemed[n] <= 1 /\ (redeemed[n] = 0 \/ n \in revoked.refresh)
                   /\ \A t \in Tabs : tab[t].refresh = "issue" => tab[t].with \notin revoked.refresh
  /\ \A t \in Tabs : tab[t].refresh = "answered" => tab[t].new \notin revoked.refresh
  /\ faults = 0 => \A t \in Tabs : Stored(t) \in revoked.refresh =>
                     tab[t].refresh = "answered" /\ tab[t].with = Stored(t)

LEMMA RotationInit ==
  ASSUME Init
  PROVE  Rotation
BY DEF Init, Rotation, Out

\* A step that revokes no refresh token, gets none verified, and stores none that is revoked.
LEMMA RotationStays ==
  ASSUME TokensInv, Rotation, revoked'.refresh = revoked.refresh, UNCHANGED <<redeemed, restarted>>,
         faults' = faults \/ faults' = faults + 1,
         \A t \in Tabs : Stored(t)' = Stored(t) \/ Stored(t)' \notin revoked.refresh,
         \A t \in Tabs :
           \/ tab'[t].refresh = tab[t].refresh /\ tab'[t].with = tab[t].with /\ tab'[t].new = tab[t].new
           \/ /\ tab'[t].refresh \notin {"issue", "answered"}
              /\ \/ tab[t].refresh # "answered" \/ faults' = faults + 1
                 \/ Stored(t)' \notin revoked.refresh
  PROVE  Rotation'
<1>1. faults \in Nat
  BY DEF TokensInv, ServerTyped
<1> QED
  BY <1>1 DEF Rotation

LEMMA ClearedStored ==
  ASSUME TokensInv, NEW t \in Tabs, local' = None, own' = [own EXCEPT ![t] = None], OneTab
  PROVE  \A u \in Tabs : Stored(u)' \notin revoked.refresh
<1>1. \A u \in Tabs : own'[u] = None
  BY DEF OneTab, TokensInv, BrowserTyped
<1>2. None \notin revoked.refresh
  BY TokensAssumption DEF TokensInv, ServerTyped
<1> QED
  BY <1>1, <1>2 DEF Stored

LEMMA StoredStays ==
  ASSUME UNCHANGED stores
  PROVE  \A t \in Tabs : Stored(t)' = Stored(t)
BY DEF Stored, stores

\* A step of the clock or of a call.
LEMMA RotationCalls ==
  ASSUME TokensInv, Rotation, OneTab, NEW t \in Tabs, revoked'.refresh = revoked.refresh,
         UNCHANGED <<redeemed, restarted, pairs>>, faults' = faults \/ faults' = faults + 1,
         UNCHANGED <<stores, tab>> \/ ClearSession(t, tab[t])
  PROVE  Rotation'
<1>1. CASE UNCHANGED <<stores, tab>>
  BY <1>1, StoredStays, RotationStays
<1>2. CASE ClearSession(t, tab[t])
  <2>1. tab[t] \in TabRecords
    BY TokenValues
  <2>2. /\ local' = None /\ own' = [own EXCEPT ![t] = None]
        /\ tab'[t].refresh = tab[t].refresh /\ tab'[t].with = tab[t].with /\ tab'[t].new = tab[t].new
        /\ \A u \in Tabs : u # t => tab'[u] = tab[u]
    BY <1>2, <2>1, StoresCleared
  <2>3. \A u \in Tabs : Stored(u)' \notin revoked.refresh
    BY <2>2, ClearedStored
  <2> QED
    BY <2>2, <2>3, RotationStays
<1> QED
  BY <1>1, <1>2

LEMMA RotationFails ==
  ASSUME TokensInv, Rotation, OneTab, NEW t \in Tabs, RefreshFails(t), UNCHANGED server,
         \/ tab[t].refresh # "answered" /\ faults' = faults
         \/ faults' = faults + 1
  PROVE  Rotation'
<1>1. /\ tab'[t].refresh = "none" /\ \A u \in Tabs : u # t => tab'[u] = tab[u]
      /\ UNCHANGED stores \/ (local' = None /\ own' = [own EXCEPT ![t] = None])
  BY FailedRefresh
<1>2. \A u \in Tabs : Stored(u)' = Stored(u) \/ Stored(u)' \notin revoked.refresh
  BY <1>1, StoredStays, ClearedStored
<1> QED
  BY <1>1, <1>2, RotationStays DEF server

LEMMA RotationLogin ==
  ASSUME TokensInv, Rotation, OneTab, NEW t \in Tabs, NEW remember \in BOOLEAN, Login(t, remember)
  PROVE  Rotation'
<1>1. /\ pairs' = pairs + 1 /\ pairs \in Nat
      /\ UNCHANGED <<revoked, redeemed, restarted, faults>>
      /\ Persist(t, pairs + 1, remember)
      /\ tab' = [tab EXCEPT ![t] = [tab[t] EXCEPT !.token = pairs + 1, !.remember = remember]]
  BY TokenValues DEF Login, Signs, SetTab
<1>2. /\ tab'[t].refresh = tab[t].refresh /\ tab'[t].with = tab[t].with /\ tab'[t].new = tab[t].new
  BY <1>1, TokenValues DEF TokensInv, BrowserTyped, TabRecords
<1>3. Stored(t)' = pairs + 1
  BY <1>1, TokensAssumption DEF Persist, Stored, TokensInv, BrowserTyped
<1>4. pairs + 1 \notin revoked.refresh
  BY <1>1 DEF TokensInv, ServerTyped
<1> QED
  BY <1>1, <1>2, <1>3, <1>4, RotationStays DEF OneTab

LEMMA RotationLoad ==
  ASSUME TokensInv, Rotation, OneTab, NEW t \in Tabs, LoadPage(t)
  PROVE  Rotation'
<1>1. /\ UNCHANGED <<server, stores>> /\ tab' = [tab EXCEPT ![t] = [Out EXCEPT !.token = Stored(t)]]
      /\ IF tab[t].refresh = "answered" THEN faults' = faults + 1 ELSE faults' = faults
  BY DEF LoadPage, SetTab, Fault
<1>2. tab'[t].refresh = "none"
  BY <1>1 DEF TokensInv, BrowserTyped, Out
<1> QED
  BY <1>1, <1>2, StoredStays, RotationStays DEF OneTab, server

LEMMA RotationVerifies ==
  ASSUME TokensInv, Rotation, OneTab, NEW t \in Tabs, ReadStored(t) \/ VerifyRefresh(t)
  PROVE  Rotation'
<1>1. tab[t].refresh \in {"read", "verify"} /\ UNCHANGED <<server, faults>>
  BY DEF ReadStored, VerifyRefresh
<1>2. CASE RefreshFails(t)
  BY <1>1, <1>2, RotationFails
<1>3. CASE ReadStored(t) /\ ~RefreshFails(t)
  <2>1. UNCHANGED stores /\ tab' = [tab EXCEPT ![t] = [tab[t] EXCEPT !.refresh = "verify", !.with = Stored(t)]]
    BY <1>3 DEF ReadStored, SetTab
  <2>2. tab'[t].refresh = "verify"
    BY <2>1, TokenValues DEF TokensInv, BrowserTyped, TabRecords
  <2> QED
    BY <1>1, <2>1, <2>2, StoredStays, RotationStays DEF OneTab, server
<1>4. CASE VerifyRefresh(t) /\ ~RefreshFails(t)
  <2>1. /\ UNCHANGED stores /\ tab' = [tab EXCEPT ![t] = [tab[t] EXCEPT !.refresh = "issue"]]
        /\ Verifies(tab[t].with)
    BY <1>4 DEF VerifyRefresh, SetTab
  <2>2. tab'[t].refresh = "issue" /\ tab'[t].with = tab[t].with
    BY <2>1, TokenValues DEF TokensInv, BrowserTyped, TabRecords
  <2>3. tab[t].with \notin revoked.refresh
    BY <2>1 DEF Verifies
  <2> QED
    BY <1>1, <2>1, <2>2, <2>3, StoredStays DEF OneTab, server, Rotation
<1> QED
  BY <1>2, <1>3, <1>4

\* The token is redeemed, for the first time, and revoked; nobody else holds a refresh.
LEMMA RotationIssues ==
  ASSUME TokensInv, Rotation, OneTab, NEW t \in Tabs, IssuePair(t)
  PROVE  Rotation'
<1> DEFINE n == tab[t].with
<1>1. /\ tab[t].refresh = "issue" /\ n \in 1 .. pairs /\ pairs \in Nat /\ n \in Pairs
  BY TokenValues DEF IssuePair, TokensInv, Waits, ServerTyped, Pairs
<1>2. /\ revoked' = [revoked EXCEPT !.refresh = @ \cup {n}]
      /\ redeemed' = [redeemed EXCEPT ![n] = @ + 1]
      /\ UNCHANGED <<restarted, stores, faults>>
  BY DEF IssuePair, RevokeRedeemed
<1>3. tab'[t].with = n /\ tab'[t].refresh = "answered" /\ tab'[t].new = pairs + 1
  BY IssuePairKeeps
<1> HIDE DEF n
<1>4. revoked'.refresh = revoked.refresh \cup {n} /\ revoked.refresh \subseteq 1 .. pairs
  BY <1>2 DEF TokensInv, ServerTyped
<1>5. ASSUME ~restarted', NEW m \in Pairs
      PROVE  redeemed'[m] <= 1 /\ (redeemed'[m] = 0 \/ m \in revoked'.refresh)
  <2>1. redeemed \in [Pairs -> Nat] /\ ~restarted
    BY <1>2, <1>5 DEF TokensInv, ServerTyped
  <2>2. CASE m = n
    <3>1. n \notin revoked.refresh
      BY <1>1, <2>1 DEF Rotation, n
    <3>2. redeemed[n] = 0
      BY <1>1, <2>1, <3>1 DEF Rotation
    <3> QED
      BY <1>1, <1>2, <1>4, <2>1, <2>2, <3>2
  <2>3. CASE m # n
    BY <1>2, <1>4, <2>1, <2>3 DEF Rotation
  <2> QED
    BY <2>2, <2>3
<1>6. tab'[t].new \notin revoked'.refresh
  BY <1>1, <1>3, <1>4
<1>7. ASSUME faults' = 0, Stored(t)' \in revoked'.refresh
      PROVE  tab'[t].refresh = "answered" /\ tab'[t].with = Stored(t)'
  <2>1. Stored(t) \notin revoked.refresh
    BY <1>1, <1>2, <1>7 DEF Rotation
  <2>2. Stored(t)' = Stored(t)
    BY <1>2, StoredStays
  <2> QED
    BY <1>3, <1>4, <1>7, <2>1, <2>2
<1> QED
  BY <1>3, <1>5, <1>6, <1>7 DEF Rotation, OneTab

LEMMA RotationPersists ==
  ASSUME TokensInv, Rotation, OneTab, NEW t \in Tabs, PersistPair(t)
  PROVE  Rotation'
<1> DEFINE n == tab[t].new
<1>1. /\ tab[t].refresh = "answered" /\ UNCHANGED <<server, faults>>
      /\ Persist(t, n, tab[t].remember)
  BY DEF PersistPair, StorePair
<1>2. tab'[t].refresh = "none"
  BY PersistPairKeeps
<1>3. n \in 1 .. pairs /\ n \notin revoked.refresh
  BY <1>1 DEF TokensInv, Waits, Rotation
<1> HIDE DEF n
<1>4. Stored(t)' = n
  BY <1>1, <1>3, TokensAssumption DEF Persist, Stored, TokensInv, BrowserTyped
<1> QED
  BY <1>1, <1>2, <1>3, <1>4, RotationStays DEF OneTab, server

LEMMA RotationStep ==
  ASSUME TokensInv, Rotation, OneTab, [Next]_vars
  PROVE  Rotation'
<1>1. CASE \E n \in Pairs : AccessExpires(n) \/ RefreshExpires(n)
  BY <1>1, StoredStays, RotationStays DEF AccessExpires, RefreshExpires
<1>2. CASE Restart
  BY <1>2 DEF Restart, Fault, Rotation, TokensInv, ServerTyped
<1>3. ASSUME NEW t \in Tabs, \E remember \in Choices : Login(t, remember)
      PROVE  Rotation'
  BY <1>3, RotationLogin, TokensAssumption
<1>4. ASSUME NEW t \in Tabs, LogoutCall(t)
      PROVE  Rotation'
  <2>1. /\ tab' = [tab EXCEPT ![t] = [tab[t] EXCEPT !.leaving = TRUE]]
        /\ revoked'.refresh = revoked.refresh /\ UNCHANGED <<redeemed, restarted, stores, faults>>
    BY <1>4 DEF LogoutCall, SetTab, TokensInv, ServerTyped
  <2>2. /\ tab'[t].refresh = tab[t].refresh /\ tab'[t].with = tab[t].with /\ tab'[t].new = tab[t].new
    BY <2>1, TokenValues DEF TokensInv, BrowserTyped, TabRecords
  <2> QED
    BY <2>1, <2>2, StoredStays, RotationStays DEF OneTab
<1>5. ASSUME NEW t \in Tabs, LogoutDone(t) \/ BeginCall(t, "api") \/ BeginCall(t, "transfer")
      PROVE  Rotation'
  BY <1>5, RotationCalls DEF LogoutDone, BeginCall, server
<1>6. ASSUME NEW t \in Tabs, LoadPage(t) \/ RefreshStep(t) \/ LoseAnswer(t)
      PROVE  Rotation'
  BY <1>6, RotationLoad, RotationVerifies, RotationIssues, RotationPersists, RotationFails
     DEF RefreshStep, LoseAnswer, Fault
<1>7. ASSUME NEW t \in Tabs, NEW c \in Calls, CallRefused(t, c)
      PROVE  Rotation'
  BY <1>7, CallRefusedKeeps, StoredStays, RotationStays DEF server
<1>8. ASSUME NEW t \in Tabs, NEW c \in Calls, CallAnswered(t, c) \/ SessionRefused(t, c) \/ CallLost(t, c)
      PROVE  Rotation'
  BY <1>8, RotationCalls DEF CallAnswered, SessionRefused, CallLost, Fault, server
<1>9. CASE UNCHANGED vars
  BY <1>9, StoredStays, RotationStays DEF vars, server
<1> QED
  BY <1>1, <1>2, <1>3, <1>4, <1>5, <1>6, <1>7, <1>8, <1>9 DEF Next, CallStep

LEMMA OneTabRotates ==
  ASSUME OneTab
  PROVE  Spec => [](TokensInv /\ Rotation)
<1>1. Init => TokensInv /\ Rotation
  BY TokensInit, RotationInit
<1>2. TokensInv /\ Rotation /\ [Next]_vars => (TokensInv /\ Rotation)'
  BY TokensStep, RotationStep
<1> QED
  BY <1>1, <1>2, PTL DEF Spec

(* In one tab, refresh's "so it can be used exactly once" holds, although  *)
(* it awaits between its check and the revocation: until the server is     *)
(* restarted no refresh token is redeemed twice.                           *)
THEOREM RedeemedInTurn ==
  ASSUME OneTab
  PROVE  Spec => []RotationIsLinear
<1>1. TokensInv /\ Rotation => RotationIsLinear
  BY DEF Rotation, RotationIsLinear, RedeemedOnce
<1> QED
  BY <1>1, OneTabRotates, PTL

(* In one tab, what readStored finds was not redeemed before, unless the   *)
(* pair that was got for it is about to be stored or an answer was lost.   *)
THEOREM StoredStaysUsable ==
  ASSUME OneTab
  PROVE  Spec => []StoredIsUsable
<1>1. TokensInv /\ Rotation => StoredIsUsable
  BY DEF Rotation, StoredIsUsable
<1> QED
  BY <1>1, OneTabRotates, PTL

----------------------------------------------------------------------------
(* A tab ends its session by itself only when it is over.                  *)

\* Tokens that were just signed have not expired.
FreshTokens ==
  /\ \A t \in Tabs : tab[t].refresh = "answered" => tab[t].new \notin expired.access
  /\ \A t \in Tabs, c \in Calls :
       call[t][c].phase = "replayed" => call[t][c].token \notin expired.access

\* The login a pair descends from was before it.
Logins ==
  /\ signed = [n \in Pairs |-> signed[n]]
  /\ \A n \in 1 .. pairs : signed[n].login \in 1 .. pairs

\* The token that is being verified is the stored one, or there is another login by now.
VerifiesStored ==
  \A t \in Tabs : tab[t].refresh = "verify" =>
    /\ tab[t].with \in 1 .. pairs
    /\ \/ Stored(t) \in {tab[t].with, None}
       \/ signed[Stored(t)].login # signed[tab[t].with].login

Descent == FreshTokens /\ Logins /\ VerifiesStored

LEMMA DescentInit ==
  ASSUME Init
  PROVE  Descent
<1>1. FreshTokens /\ VerifiesStored
  BY DEF Init, FreshTokens, VerifiesStored, Out, NoCall
<1>2. Logins
  BY DEF Init, Logins
<1> QED
  BY <1>1, <1>2 DEF Descent

\* A step that signs no pair.
LEMMA DescentStays ==
  ASSUME Descent, UNCHANGED <<pairs, signed>>, expired'.access = expired.access,
         \A t \in Tabs : tab'[t].refresh = "answered" =>
           tab[t].refresh = "answered" /\ tab'[t].new = tab[t].new,
         \A t \in Tabs : tab'[t].refresh = "verify" =>
           \/ /\ tab[t].refresh = "verify" /\ tab'[t].with = tab[t].with
              /\ Stored(t)' \in {Stored(t), None}
           \/ tab'[t].with = Stored(t)' /\ Stored(t)' \in 1 .. pairs,
         \A t \in Tabs, c \in Calls : call'[t][c].phase = "replayed" =>
           \/ call[t][c].phase = "replayed" /\ call'[t][c].token = call[t][c].token
           \/ call'[t][c].token \notin expired.access
  PROVE  Descent'
<1>1. FreshTokens'
  BY DEF Descent, FreshTokens
<1>2. Logins'
  BY DEF Descent, Logins
<1>3. VerifiesStored'
  BY DEF Descent, VerifiesStored
<1> QED
  BY <1>1, <1>2, <1>3 DEF Descent

\* With one tab, storage is empty after its session was cleared.
LEMMA ClearedNone ==
  ASSUME TokensInv, OneTab, NEW t \in Tabs, local' = None, own' = [own EXCEPT ![t] = None]
  PROVE  \A u \in Tabs : Stored(u)' = None
<1>1. \A u \in Tabs : own'[u] = None
  BY DEF OneTab, TokensInv, BrowserTyped
<1> QED
  BY <1>1 DEF Stored

LEMMA DescentClock ==
  ASSUME TokensInv, Descent, NEW n, AccessExpires(n) \/ RefreshExpires(n)
  PROVE  Descent'
<1>1. UNCHANGED <<pairs, signed, stores, tab, call>>
  BY DEF AccessExpires, RefreshExpires
<1>2. \A t \in Tabs : Stored(t)' = Stored(t)
  BY <1>1, StoredStays
<1>3. CASE RefreshExpires(n)
  <2>1. expired'.access = expired.access
    BY <1>3 DEF RefreshExpires, TokensInv, ServerTyped
  <2> QED
    BY <1>1, <1>2, <2>1 DEF Descent, FreshTokens, Logins, VerifiesStored
<1>4. CASE AccessExpires(n)
  <2>1. expired'.access = expired.access \cup {n}
    BY <1>4 DEF AccessExpires, TokensInv, ServerTyped
  <2>2. FreshTokens'
    BY <1>1, <1>4, <2>1 DEF AccessExpires, Descent, FreshTokens
  <2> QED
    BY <1>1, <1>2, <2>2 DEF Descent, Logins, VerifiesStored
<1> QED
  BY <1>3, <1>4

\* A pair is signed that descends from a login there was, or is one.
LEMMA Signing ==
  ASSUME TokensInv, Logins, NEW of, of.login \in 1 .. pairs + 1, Signs(of)
  PROVE  /\ Logins' /\ signed'[pairs + 1] = of
         /\ \A n \in 1 .. pairs : signed'[n] = signed[n]
<1>1. pairs \in Nat /\ MaxPairs \in Nat /\ pairs < MaxPairs /\ pairs' = pairs + 1
  BY TokensAssumption DEF TokensInv, ServerTyped, Signs
<1>2. \A n \in 1 .. pairs + 1 : n \in Pairs
  BY <1>1 DEF Pairs
<1>3. signed' = [signed EXCEPT ![pairs + 1] = of] /\ signed = [n \in Pairs |-> signed[n]]
  BY DEF Signs, Logins
<1>4. signed'[pairs + 1] = of /\ \A n \in 1 .. pairs : signed'[n] = signed[n]
  BY <1>1, <1>2, <1>3
<1>5. signed' = [n \in Pairs |-> signed'[n]]
  BY <1>3
<1>6. \A n \in 1 .. pairs' : signed'[n].login \in 1 .. pairs'
  <2> TAKE n \in 1 .. pairs'
  <2>1. CASE n = pairs + 1
    BY <1>1, <1>4, <2>1
  <2>2. CASE n # pairs + 1
    <3>1. n \in 1 .. pairs
      BY <1>1, <2>2
    <3> QED
      BY <1>1, <1>4, <3>1 DEF Logins
  <2> QED
    BY <2>1, <2>2
<1> QED
  BY <1>4, <1>5, <1>6 DEF Logins

\* A new login: what is being verified belongs to an earlier one.
LEMMA DescentLogin ==
  ASSUME TokensInv, Descent, OneTab, NEW t \in Tabs, NEW remember \in BOOLEAN, Login(t, remember)
  PROVE  Descent'
<1> DEFINE of == [login |-> pairs + 1, remember |-> remember]
<1>1. /\ pairs' = pairs + 1 /\ pairs \in Nat /\ UNCHANGED <<expired, call>>
      /\ Signs(of) /\ Persist(t, pairs + 1, remember)
      /\ tab' = [tab EXCEPT ![t] = [tab[t] EXCEPT !.token = pairs + 1, !.remember = remember]]
  BY TokenValues DEF Login, Signs, SetTab
<1>2. of.login = pairs + 1 /\ of.login \in 1 .. pairs + 1
  BY <1>1
<1> HIDE DEF of
<1>3. Logins' /\ signed'[pairs + 1] = of /\ \A n \in 1 .. pairs : signed'[n] = signed[n]
  BY <1>1, <1>2, Signing DEF Descent
<1>4. tab'[t].refresh = tab[t].refresh /\ tab'[t].with = tab[t].with /\ tab'[t].new = tab[t].new
  BY <1>1, TokenValues DEF TokensInv, BrowserTyped, TabRecords
<1>5. Stored(t)' = pairs + 1
  BY <1>1, TokensAssumption DEF Persist, Stored, TokensInv, BrowserTyped
<1>6. FreshTokens'
  BY <1>1, <1>4 DEF Descent, FreshTokens, OneTab
<1>7. VerifiesStored'
  <2> SUFFICES ASSUME tab'[t].refresh = "verify"
               PROVE  /\ tab'[t].with \in 1 .. pairs'
                      /\ signed'[Stored(t)'].login # signed'[tab'[t].with].login
    BY DEF VerifiesStored, OneTab
  <2>1. tab[t].with \in 1 .. pairs
    BY <1>4 DEF Descent, VerifiesStored
  <2>2. signed[tab[t].with].login \in 1 .. pairs
    BY <2>1 DEF Descent, Logins
  <2>3. signed'[tab[t].with] = signed[tab[t].with]
    BY <1>3, <2>1
  <2> QED
    BY <1>1, <1>2, <1>3, <1>4, <1>5, <2>1, <2>2, <2>3
<1> QED
  BY <1>3, <1>6, <1>7 DEF Descent

\* A call begins, ends, or waits; the session may end with it.
LEMMA DescentCall ==
  ASSUME TokensInv, Descent, OneTab, NEW t \in Tabs, NEW c \in Calls, NEW x, x.phase # "replayed",
         SetCall(t, c, x), UNCHANGED server, UNCHANGED <<stores, tab>> \/ ClearSession(t, tab[t])
  PROVE  Descent'
<1>1. UNCHANGED <<pairs, signed>> /\ expired'.access = expired.access
  BY DEF server
<1>2. \A u \in Tabs, d \in Calls : call'[u][d].phase = "replayed" => call'[u][d] = call[u][d]
  BY DEF SetCall, TokensInv, BrowserTyped
<1>3. \A u \in Tabs : /\ tab'[u].refresh = tab[u].refresh /\ tab'[u].with = tab[u].with
                      /\ tab'[u].new = tab[u].new /\ Stored(u)' \in {Stored(u), None}
  <2>1. CASE UNCHANGED <<stores, tab>>
    BY <2>1, StoredStays
  <2>2. CASE ClearSession(t, tab[t])
    <3>1. tab[t] \in TabRecords /\ UNCHANGED pairs
      BY <1>1, TokenValues
    <3>2. \A u \in Tabs : Stored(u)' = None
      BY <2>2, ClearedNone DEF ClearSession
    <3>3. /\ tab'[t].refresh = tab[t].refresh /\ tab'[t].with = tab[t].with /\ tab'[t].new = tab[t].new
          /\ \A u \in Tabs : u # t => tab'[u] = tab[u]
      BY <2>2, <3>1, StoresCleared
    <3> QED
      BY <3>2, <3>3
  <2> QED
    BY <2>1, <2>2
<1> QED
  BY <1>1, <1>2, <1>3, DescentStays

LEMMA DescentRefused ==
  ASSUME TokensInv, Descent, NEW t \in Tabs, NEW c \in Calls, CallRefused(t, c)
  PROVE  Descent'
<1>1. /\ UNCHANGED <<server, stores>>
      /\ \A u \in Tabs : /\ tab'[u].with = tab[u].with /\ tab'[u].new = tab[u].new
                         /\ tab'[u].refresh \in {"read", tab[u].refresh}
  BY CallRefusedKeeps
<1>2. call' = [call EXCEPT ![t][c] = [call[t][c] EXCEPT !.phase = "waiting"]]
  BY DEF CallRefused, SetCall
<1>3. [call[t][c] EXCEPT !.phase = "waiting"].phase = "waiting"
  BY TokenValues DEF CallRecords
<1>4. \A u \in Tabs, d \in Calls : call'[u][d].phase = "replayed" => call'[u][d] = call[u][d]
  BY <1>2, <1>3 DEF TokensInv, BrowserTyped
<1>5. \A u \in Tabs : Stored(u)' = Stored(u)
  BY <1>1, StoredStays
<1> QED
  BY <1>1, <1>4, <1>5, DescentStays DEF server

\* Logging out, and loading the page.
LEMMA DescentLeaves ==
  ASSUME TokensInv, Descent, OneTab, NEW t \in Tabs, LogoutCall(t) \/ LogoutDone(t) \/ LoadPage(t)
  PROVE  Descent'
<1>1. UNCHANGED <<pairs, signed, expired>>
  BY DEF LogoutCall, LogoutDone, LoadPage, server
<1>2. CASE LogoutCall(t)
  <2>1. /\ tab' = [tab EXCEPT ![t] = [tab[t] EXCEPT !.leaving = TRUE]] /\ UNCHANGED <<stores, call>>
    BY <1>2 DEF LogoutCall, SetTab
  <2>2. tab'[t].refresh = tab[t].refresh /\ tab'[t].with = tab[t].with /\ tab'[t].new = tab[t].new
    BY <2>1, TokenValues DEF TokensInv, BrowserTyped, TabRecords
  <2>3. \A u \in Tabs : Stored(u)' = Stored(u)
    BY <2>1, StoredStays
  <2> QED
    BY <1>1, <2>1, <2>2, <2>3, DescentStays DEF OneTab
<1>3. CASE LogoutDone(t)
  <2>1. ClearSession(t, tab[t]) /\ UNCHANGED call
    BY <1>3 DEF LogoutDone
  <2>2. tab[t] \in TabRecords
    BY TokenValues
  <2>3. tab'[t].refresh = tab[t].refresh /\ tab'[t].with = tab[t].with /\ tab'[t].new = tab[t].new
    BY <1>1, <2>1, <2>2, StoresCleared
  <2>4. \A u \in Tabs : Stored(u)' = None
    BY <2>1, ClearedNone DEF ClearSession
  <2> QED
    BY <1>1, <2>1, <2>3, <2>4, DescentStays DEF OneTab
<1>4. CASE LoadPage(t)
  <2> DEFINE first == CHOOSE d \in Calls : TRUE
             after == [d \in Calls |-> IF d = first /\ Stored(t) # None
                                       THEN [phase |-> "sent", token |-> Stored(t), kind |-> "boot"]
                                       ELSE NoCall]
  <2>1. /\ tab' = [tab EXCEPT ![t] = [Out EXCEPT !.token = Stored(t)]]
        /\ call' = [call EXCEPT ![t] = after]
    BY <1>4 DEF LoadPage, SetTab
  <2>2. tab'[t].refresh = "none"
    BY <2>1 DEF TokensInv, BrowserTyped, Out
  <2>3. \A d \in Calls : after[d].phase # "replayed"
    BY DEF NoCall
  <2> HIDE DEF after
  <2>4. \A d \in Calls : call'[t][d].phase # "replayed"
    BY <2>1, <2>3 DEF TokensInv, BrowserTyped
  <2> QED
    BY <1>1, <2>2, <2>4, DescentStays DEF OneTab
<1> QED
  BY <1>2, <1>3, <1>4

\* A refresh that ends without a pair replays nothing.
LEMMA DescentFails ==
  ASSUME TokensInv, Descent, OneTab, NEW t \in Tabs, RefreshFails(t), UNCHANGED server
  PROVE  Descent'
<1>1. tab'[t].refresh = "none"
  BY FailedRefresh
<1> DEFINE after == [c \in Calls |-> IF c \in Waiting(t) THEN NoCall ELSE call[t][c]]
<1>2. call' = [call EXCEPT ![t] = after]
  BY DEF RefreshFails
<1>3. \A c \in Calls : after[c].phase = "replayed" => after[c] = call[t][c]
  BY DEF NoCall
<1> HIDE DEF after
<1>4. \A c \in Calls : call'[t][c].phase = "replayed" => call'[t][c] = call[t][c]
  BY <1>2, <1>3 DEF TokensInv, BrowserTyped
<1> QED
  BY <1>1, <1>4, DescentStays DEF OneTab, server

LEMMA DescentRefresh ==
  ASSUME TokensInv, Descent, OneTab, NEW t \in Tabs, RefreshStep(t) \/ LoseAnswer(t)
  PROVE  Descent'
<1>1. CASE RefreshFails(t) /\ UNCHANGED server
  BY <1>1, DescentFails
<1>2. CASE ReadStored(t) /\ ~RefreshFails(t)
  <2>1. /\ UNCHANGED <<server, stores, call>> /\ Stored(t) # None
        /\ tab' = [tab EXCEPT ![t] = [tab[t] EXCEPT !.refresh = "verify", !.with = Stored(t)]]
    BY <1>2 DEF ReadStored, SetTab
  <2>2. tab'[t].refresh = "verify" /\ tab'[t].with = Stored(t)
    BY <2>1, TokenValues DEF TokensInv, BrowserTyped, TabRecords
  <2>3. Stored(t)' = Stored(t) /\ Stored(t) \in 1 .. pairs
    BY <2>1, StoredStays, TokenValues
  <2> QED
    BY <2>1, <2>2, <2>3, DescentStays DEF OneTab, server
<1>3. CASE VerifyRefresh(t) /\ ~RefreshFails(t)
  <2>1. /\ UNCHANGED <<server, stores, call>>
        /\ tab' = [tab EXCEPT ![t] = [tab[t] EXCEPT !.refresh = "issue"]]
    BY <1>3 DEF VerifyRefresh, SetTab
  <2>2. tab'[t].refresh = "issue"
    BY <2>1, TokenValues DEF TokensInv, BrowserTyped, TabRecords
  <2> QED
    BY <2>1, <2>2, DescentStays DEF OneTab, server
<1>4. CASE IssuePair(t)
  <2>1. tab'[t].refresh = "answered" /\ tab'[t].new = pairs + 1
    BY <1>4, IssuePairKeeps
  <2>2. UNCHANGED <<expired, call>> /\ Signs(signed[tab[t].with])
    BY <1>4 DEF IssuePair
  <2>3. pairs \in Nat /\ expired.access \subseteq 1 .. pairs
    BY TokenValues DEF TokensInv, ServerTyped
  <2>4. FreshTokens'
    <3>1. pairs + 1 \notin expired.access
      BY <2>3
    <3> QED
      BY <2>1, <2>2, <3>1 DEF Descent, FreshTokens, OneTab
  <2>5. Logins'
    <3>1. tab[t].with \in 1 .. pairs
      BY <1>4 DEF IssuePair, TokensInv, Waits
    <3>2. signed[tab[t].with].login \in 1 .. pairs + 1
      BY <2>3, <3>1 DEF Descent, Logins
    <3> QED
      BY <2>2, <3>2, Signing DEF Descent
  <2>6. VerifiesStored'
    BY <2>1 DEF VerifiesStored, OneTab
  <2> QED
    BY <2>4, <2>5, <2>6 DEF Descent
<1>5. CASE PersistPair(t)
  <2> DEFINE n == tab[t].new
             after == [c \in Calls |-> IF c \in Waiting(t)
                                       THEN [call[t][c] EXCEPT !.phase = "replayed", !.token = n]
                                       ELSE call[t][c]]
  <2>1. tab'[t].refresh = "none"
    BY <1>5, PersistPairKeeps
  <2>2. UNCHANGED server /\ call' = [call EXCEPT ![t] = after] /\ tab[t].refresh = "answered"
    BY <1>5 DEF PersistPair, Replay
  <2>3. n \notin expired.access
    BY <2>2 DEF Descent, FreshTokens
  <2>4. \A c \in Calls : after[c] = call[t][c] \/ after[c].token = n
    BY TokenValues DEF CallRecords
  <2> HIDE DEF n, after
  <2>5. \A c \in Calls : call'[t][c] = call[t][c] \/ call'[t][c].token = n
    BY <2>2, <2>4 DEF TokensInv, BrowserTyped
  <2> QED
    BY <2>1, <2>2, <2>3, <2>5, DescentStays DEF OneTab, server
<1> QED
  BY <1>1, <1>2, <1>3, <1>4, <1>5 DEF RefreshStep, LoseAnswer, ReadStored, VerifyRefresh

LEMMA DescentStep ==
  ASSUME TokensInv, Descent, OneTab, [Next]_vars
  PROVE  Descent'
<1>1. CASE \E n \in Pairs : AccessExpires(n) \/ RefreshExpires(n)
  BY <1>1, DescentClock
<1>2. CASE Restart
  BY <1>2, StoredStays, DescentStays DEF Restart
<1>3. ASSUME NEW t \in Tabs, \E remember \in Choices : Login(t, remember)
      PROVE  Descent'
  BY <1>3, DescentLogin, TokensAssumption
<1>4. ASSUME NEW t \in Tabs, LogoutCall(t) \/ LogoutDone(t) \/ LoadPage(t)
      PROVE  Descent'
  BY <1>4, DescentLeaves
<1>5. ASSUME NEW t \in Tabs, NEW kind, BeginCall(t, kind)
      PROVE  Descent'
  <2> DEFINE x == [phase |-> "sent", token |-> tab[t].token, kind |-> kind]
  <2>1. PICK c \in Calls : SetCall(t, c, x)
    BY <1>5 DEF BeginCall
  <2>2. x.phase # "replayed" /\ UNCHANGED <<server, stores, tab>>
    BY <1>5 DEF BeginCall
  <2> HIDE DEF x
  <2> QED
    BY <2>1, <2>2, DescentCall
<1>6. ASSUME NEW t \in Tabs, RefreshStep(t) \/ LoseAnswer(t)
      PROVE  Descent'
  BY <1>6, DescentRefresh
<1>7. ASSUME NEW t \in Tabs, NEW c \in Calls, CallRefused(t, c)
      PROVE  Descent'
  BY <1>7, DescentRefused
<1>8. ASSUME NEW t \in Tabs, NEW c \in Calls, CallAnswered(t, c) \/ SessionRefused(t, c) \/ CallLost(t, c)
      PROVE  Descent'
  <2>1. SetCall(t, c, NoCall) /\ UNCHANGED server /\ (UNCHANGED <<stores, tab>> \/ ClearSession(t, tab[t]))
    BY <1>8 DEF CallAnswered, SessionRefused, CallLost
  <2>2. NoCall.phase # "replayed"
    BY DEF NoCall
  <2> QED
    BY <2>1, <2>2, DescentCall
<1>9. CASE UNCHANGED vars
  BY <1>9, StoredStays, DescentStays DEF vars, server
<1> QED
  BY <1>1, <1>2, <1>3, <1>4, <1>5, <1>6, <1>7, <1>8, <1>9 DEF Next, CallStep

LEMMA MovesCounted ==
  ASSUME moves \in Nat, [Next]_vars
  PROVE  moves' \in Nat
<1>1. ASSUME NEW n, AccessExpires(n) \/ RefreshExpires(n)
      PROVE  UNCHANGED moves
  BY <1>1 DEF AccessExpires, RefreshExpires
<1>2. ASSUME NEW t \in Tabs, \E remember \in Choices : Login(t, remember)
      PROVE  UNCHANGED moves
  BY <1>2 DEF Login
<1>3. ASSUME NEW t \in Tabs, LogoutCall(t) \/ LogoutDone(t) \/ LoadPage(t) \/ RefreshStep(t) \/ LoseAnswer(t)
      PROVE  moves' \in {moves, moves + 1}
  BY <1>3 DEF LogoutCall, LogoutDone, LoadPage, RefreshStep, LoseAnswer, ReadStored, VerifyRefresh,
              IssuePair, PersistPair, Move
<1>4. ASSUME NEW t \in Tabs, BeginCall(t, "api") \/ BeginCall(t, "transfer")
      PROVE  UNCHANGED moves
  BY <1>4 DEF BeginCall
<1>5. ASSUME NEW t \in Tabs, NEW c \in Calls, CallStep(t, c) \/ CallLost(t, c)
      PROVE  UNCHANGED moves
  BY <1>5 DEF CallStep, CallAnswered, CallRefused, SessionRefused, CallLost
<1>6. ASSUME Restart
      PROVE  UNCHANGED moves
  BY <1>6 DEF Restart
<1>7. moves' \in {moves, moves + 1}
  BY <1>1, <1>2, <1>3, <1>4, <1>5, <1>6 DEF Next, vars
<1> QED
  BY <1>7

\* The session ends with a refresh that fails, or with a replayed call whose token is no good.
LEMMA DropStale ==
  ASSUME TokensInv, Descent, OneTab, moves \in Nat, [Next]_vars, NEW t \in Tabs, Drops(t),
         \A c \in Calls : call[t][c].kind = "transfer" => call'[t][c] = call[t][c]
  PROVE  ~Verifies(Stored(t))
<1>1. tab[t].token # None /\ tab'[t].token = None /\ ~tab[t].leaving /\ moves' = moves /\ faults' = 0
      /\ OneLogin(t)
  BY DEF Drops
<1>2. tab' # tab /\ ~Fault
  BY <1>1 DEF Fault, TokensInv, ServerTyped
<1>3. ASSUME NEW n
      PROVE  ~AccessExpires(n) /\ ~RefreshExpires(n)
  BY <1>2 DEF AccessExpires, RefreshExpires
<1>4. ASSUME NEW u \in Tabs, NEW remember \in BOOLEAN
      PROVE  ~Login(u, remember)
  BY <1>1 DEF Login, OneTab
<1>5. ASSUME NEW u \in Tabs
      PROVE  ~LogoutCall(u) /\ ~LogoutDone(u) /\ ~LoadPage(u)
  BY <1>1, <1>2 DEF LogoutCall, LogoutDone, LoadPage, Move, OneTab
<1>6. ASSUME NEW u \in Tabs, NEW kind
      PROVE  ~BeginCall(u, kind)
  BY <1>2 DEF BeginCall
<1>7. ASSUME NEW u \in Tabs, NEW c \in Calls
      PROVE  ~CallAnswered(u, c) /\ ~CallLost(u, c)
  BY <1>2 DEF CallAnswered, CallLost
<1>8. ASSUME NEW c \in Calls
      PROVE  ~CallRefused(t, c)
  <2> SUFFICES ASSUME CallRefused(t, c)
               PROVE  FALSE
    OBVIOUS
  <2>1. tab' = [tab EXCEPT ![t] = JoinRefresh(tab[t])]
    BY DEF CallRefused, SetTab
  <2>2. JoinRefresh(tab[t]).token = tab[t].token
    BY TokenValues DEF JoinRefresh, TabRecords
  <2> QED
    BY <1>1, <2>1, <2>2 DEF TokensInv, BrowserTyped
<1>9. ASSUME NEW c \in Calls, SessionRefused(t, c)
      PROVE  ~Verifies(Stored(t))
  <2> SUFFICES ASSUME Stored(t) # None
               PROVE  FALSE
    BY DEF Verifies
  <2>1. call'[t][c] = NoCall
    BY <1>9 DEF SessionRefused, SetCall, TokensInv, BrowserTyped
  <2>2. call[t][c].kind # "transfer"
    BY <2>1 DEF NoCall
  <2>3. call[t][c].phase = "replayed" /\ ~GoodAccess(call[t][c].token)
    BY <1>9, <2>2 DEF SessionRefused
  <2>4. call[t][c].token \notin revoked.access
    BY <1>1, <2>3 DEF OneLogin
  <2> QED
    BY <2>3, <2>4 DEF GoodAccess, Descent, FreshTokens
<1>10. ASSUME RefreshStep(t) \/ LoseAnswer(t)
       PROVE  ~Verifies(Stored(t))
  <2>1. ~LoseAnswer(t)
    BY <1>2 DEF LoseAnswer
  <2>2. CASE ReadStored(t)
    <3>1. CASE Stored(t) = None
      BY <3>1 DEF Verifies
    <3>2. CASE Stored(t) # None
      <4>1. tab' = [tab EXCEPT ![t] = [tab[t] EXCEPT !.refresh = "verify", !.with = Stored(t)]]
        BY <2>2, <3>2 DEF ReadStored, SetTab
      <4>2. tab'[t].token = tab[t].token
        BY <4>1, TokenValues DEF TokensInv, BrowserTyped, TabRecords
      <4> QED
        BY <1>1, <4>2
    <3> QED
      BY <3>1, <3>2
  <2>3. CASE VerifyRefresh(t)
    <3>1. CASE Verifies(tab[t].with)
      <4>1. tab' = [tab EXCEPT ![t] = [tab[t] EXCEPT !.refresh = "issue"]]
        BY <2>3, <3>1 DEF VerifyRefresh, SetTab
      <4>2. tab'[t].token = tab[t].token
        BY <4>1, TokenValues DEF TokensInv, BrowserTyped, TabRecords
      <4> QED
        BY <1>1, <4>2
    <3>2. CASE ~Verifies(tab[t].with)
      <4>1. tab[t].with \in 1 .. pairs /\ pairs \in Nat
            /\ (Stored(t) \in {tab[t].with, None} \/ signed[Stored(t)].login # signed[tab[t].with].login)
        BY <2>3, TokenValues DEF VerifyRefresh, Descent, VerifiesStored
      <4>2. tab[t].with # None
        BY <4>1, TokensAssumption
      <4>3. Stored(t) \in {tab[t].with, None}
        BY <1>1, <4>1, <4>2 DEF OneLogin
      <4> QED
        BY <3>2, <4>3 DEF Verifies
    <3> QED
      BY <3>1, <3>2
  <2>4. ~IssuePair(t)
    <3> SUFFICES ASSUME IssuePair(t)
                 PROVE  FALSE
      OBVIOUS
    <3>1. tab' = [tab EXCEPT ![t] = [tab[t] EXCEPT !.refresh = "answered", !.new = pairs + 1]]
      BY DEF IssuePair, SetTab
    <3>2. tab'[t].token = tab[t].token
      BY <3>1, TokenValues DEF TokensInv, BrowserTyped, TabRecords
    <3> QED
      BY <1>1, <3>2
  <2>5. ~PersistPair(t)
    <3> SUFFICES ASSUME PersistPair(t)
                 PROVE  FALSE
      OBVIOUS
    <3>1. tab' = [tab EXCEPT ![t] = [Idle(tab[t]) EXCEPT !.token = tab[t].new]]
          /\ tab[t].refresh = "answered"
      BY DEF PersistPair, SetTab
    <3>2. tab[t].new \in 1 .. pairs /\ pairs \in Nat
      BY <3>1, TokenValues DEF TokensInv, Waits
    <3>3. [Idle(tab[t]) EXCEPT !.token = tab[t].new].token = tab[t].new
      BY TokenValues DEF Idle, TabRecords
    <3>4. tab'[t].token = tab[t].new
      BY <3>1, <3>3 DEF TokensInv, BrowserTyped
    <3> QED
      BY <1>1, <3>2, <3>4, TokensAssumption
  <2> QED
    BY <1>10, <2>1, <2>2, <2>3, <2>4, <2>5 DEF RefreshStep
<1>11. ~Restart /\ ~UNCHANGED vars
  BY <1>2 DEF Restart, vars
<1>12. ASSUME NEW u \in Tabs
       PROVE  u = t
  BY DEF OneTab
<1> QED
  BY <1>3, <1>4, <1>5, <1>6, <1>7, <1>8, <1>9, <1>10, <1>11, <1>12, TokensAssumption DEF Next, CallStep

(* "A 401 that survives a refresh attempt means the session is truly       *)
(* stale", in one tab and for calls that go through apiJson: however many  *)
(* are refused, wait for one refresh and are replayed, as long as no      *)
(* answer was lost and what is in flight is of the stored login, the       *)
(* session ends by itself only when the stored refresh token is of no use. *)
THEOREM DropsStaleOnly ==
  ASSUME OneTab
  PROVE  Spec => CallsDropOnlyStale
<1> DEFINE I == TokensInv /\ Descent /\ moves \in Nat
           A == \A t \in Tabs :
                  (Drops(t) /\ \A c \in Calls : call[t][c].kind = "transfer" => call'[t][c] = call[t][c])
                    => ~Verifies(Stored(t))
<1>1. Init => I
  <2>1. Init => moves \in Nat
    BY DEF Init
  <2> QED
    BY <2>1, TokensInit, DescentInit
<1>2. I /\ [Next]_vars => I'
  BY TokensStep, DescentStep, MovesCounted
<1>3. I /\ [Next]_vars => [A]_vars
  BY DropStale
<1>4. CallsDropOnlyStale <=> [][A]_vars
  BY DEF CallsDropOnlyStale
<1> QED
  BY <1>1, <1>2, <1>3, <1>4, PTL DEF Spec

============================================================================
