------------------------------- MODULE SignIn ------------------------------
(***************************************************************************)
(* Registration and login: the two forms in the browsers of some clients,  *)
(* the handlers with their awaits, the users' table, and the server that   *)
(* starts, crashes and starts again.                                       *)
(*                                                                         *)
(* A form sends a request and goes on with its answer: a registration is   *)
(* followed by a login, a login by /auth/me.                               *)
(***************************************************************************)
EXTENDS LoginGuard, Migrations

CONSTANTS
  Clients,
  Address,     \* of each client
  Passwords,   \* passwords that are accepted
  Weak, Long,  \* passwords refused by the form, and by the server only
  Requests,    \* requests under way at once
  MaxMoves,    \* bound: forms sent and left
  MaxFaults,   \* bound: requests and answers lost
  None

ASSUME SignInAssumption ==
  /\ Address \in [Clients -> Addresses] /\ IsFiniteSet(Requests)
  /\ None \notin Passwords \cup {Weak, Long}

VARIABLES
  accounts,   \* the password of each user that is registered
  req,        \* requests: their client and form, what is asked, how far
  page,       \* for each client its form, and its session
  moves, faults

vars == <<guard, now, booting, accounts, req, page, moves, faults>>

Move == moves < MaxMoves /\ moves' = moves + 1

Idle ==
  [client |-> None, mount |-> 0, kind |-> None, name |-> None, pw |-> None,
   step |-> "idle", row |-> None]

\* token: whose it is and the password it was got with; user: the name shown
NoSession == [form |-> "login", mount |-> 0, busy |-> FALSE, error |-> FALSE,
              token |-> None, user |-> None]

Init ==
  /\ GuardInit /\ MigrationsInit /\ now = Window
  /\ accounts = << >> /\ moves = 0 /\ faults = 0
  /\ req = [s \in Requests |-> Idle] /\ page = [c \in Clients |-> NoSession]

Exists(u) == u \in DOMAIN accounts
Step(s, step) == req' = [req EXCEPT ![s].step = step]

----------------------------------------------------------------------------
(* The forms.                                                              *)

Guest(c) == page[c].user = None

\* The link to the other form: the form that is left forgets its request.
Other(form) == IF form = "login" THEN "register" ELSE "login"
SwitchForm(c) ==
  /\ Guest(c) /\ Move
  /\ page' = [page EXCEPT ![c] =
       [page[c] EXCEPT !.form = Other(@), !.mount = @ + 1, !.busy = FALSE, !.error = FALSE]]
  /\ UNCHANGED <<guard, now, booting, accounts, req, faults>>

\* validatePasswordClient, for a new password only.
FormRefuses(c, pw) == page[c].form = "register" /\ pw = Weak

Submit(c, s, u, pw) ==
  /\ Guest(c) /\ ~page[c].busy /\ Move /\ req[s] = Idle
  /\ IF FormRefuses(c, pw)
     THEN page' = [page EXCEPT ![c].error = TRUE] /\ UNCHANGED req
     ELSE /\ page' = [page EXCEPT ![c].error = FALSE, ![c].busy = TRUE]
          /\ req' = [req EXCEPT ![s] =
               [client |-> c, mount |-> page[c].mount, kind |-> page[c].form, name |-> u,
                pw |-> pw, step |-> "sent", row |-> None]]
  /\ UNCHANGED <<guard, now, booting, accounts, faults>>

\* The form takes no more notice; if it is still there, it shows how it ended.
FormEnds(s, error) ==
  LET r == req[s]
  IN  /\ req' = [req EXCEPT ![s] = Idle]
      /\ page' = [page EXCEPT ![r.client] =
           IF @.mount = r.mount THEN [@ EXCEPT !.busy = FALSE, !.error = error] ELSE @]

\* register: the account is there, and is logged in to.
Registered(s) ==
  /\ req[s].step = "done" /\ req[s].kind = "register"
  /\ req' = [req EXCEPT ![s].kind = "login", ![s].step = "sent"]
  /\ UNCHANGED <<guard, now, booting, accounts, page, moves, faults>>

\* login: the tokens are stored before /auth/me is asked.
LoggedIn(s) ==
  /\ req[s].step = "done" /\ req[s].kind = "login"
  /\ page' = [page EXCEPT ![req[s].client].token = [name |-> req[s].name, pw |-> req[s].pw]]
  /\ req' = [req EXCEPT ![s].kind = "me", ![s].step = "sent"]
  /\ UNCHANGED <<guard, now, booting, accounts, moves, faults>>

\* refreshUser: the session is there, and the form goes.
Authenticated(s) ==
  /\ req[s].step = "done" /\ req[s].kind = "me"
  /\ req' = [req EXCEPT ![s] = Idle]
  /\ page' = [page EXCEPT ![req[s].client] = [@ EXCEPT !.user = req[s].name, !.busy = FALSE]]
  /\ UNCHANGED <<guard, now, booting, accounts, moves, faults>>

FormFails(s) ==
  /\ req[s].step = "refused" /\ FormEnds(s, TRUE)
  /\ UNCHANGED <<guard, now, booting, accounts, moves, faults>>

----------------------------------------------------------------------------
(* The handlers.                                                           *)

Ip(s) == Address[req[s].client]

\* /auth/login: the guard is asked, and the user's row awaited.
LoginArrives(s) ==
  /\ Up /\ req[s].step = "sent" /\ req[s].kind = "login"
  /\ AskLogin(req[s].name, Ip(s))
  /\ Step(s, IF LoginRefused(req[s].name, Ip(s)) THEN "refused" ELSE "checked")
  /\ UNCHANGED <<now, booting, accounts, page, moves, faults>>

\* /auth/register: of a password that is too long the handler learns nothing.
RegisterArrives(s) ==
  /\ Up /\ req[s].step = "sent" /\ req[s].kind = "register"
  /\ IF req[s].pw = Long THEN Step(s, "refused") /\ UNCHANGED guard
     ELSE /\ AskRegister(Ip(s))
          /\ Step(s, IF RegisterRefused(Ip(s)) THEN "refused" ELSE "checked")
  /\ UNCHANGED <<now, booting, accounts, page, moves, faults>>

\* get_user
ReadsRow(s) ==
  /\ req[s].step = "checked"
  /\ req' = [req EXCEPT ![s].step = "read",
                        ![s].row = IF Exists(req[s].name) THEN accounts[req[s].name]
                                        ELSE None]
  /\ UNCHANGED <<guard, now, booting, accounts, page, moves, faults>>

LoginEnds(s) ==
  LET r == req[s]
  IN  /\ r.step = "read" /\ r.kind = "login"
      /\ IF r.row = r.pw THEN RecordSuccess(r.name) /\ Step(s, "done")
         ELSE RecordFailure(r.name, Ip(s)) /\ Step(s, "refused")
      /\ UNCHANGED <<now, booting, accounts, page, moves, faults>>

\* Bug: the row of whoever came first is replaced.
Replaces(u) == TRUE
\* The name is UNIQUE.
Inserts(u) == ~Exists(u)

RegisterEnds(s) ==
  LET r == req[s]
  IN  /\ r.step = "read" /\ r.kind = "register"
      /\ IF r.row = None /\ Inserts(r.name)
         THEN /\ accounts' = [u \in DOMAIN accounts \cup {r.name} |->
                                IF u = r.name THEN r.pw ELSE accounts[u]]
              /\ Step(s, "done")
         ELSE Step(s, "refused") /\ UNCHANGED accounts
      /\ UNCHANGED <<guard, now, booting, page, moves, faults>>

MeArrives(s) ==
  /\ Up /\ req[s].step = "sent" /\ req[s].kind = "me" /\ Step(s, "done")
  /\ UNCHANGED <<guard, now, booting, accounts, page, moves, faults>>

----------------------------------------------------------------------------
(* The network, the process, the clock.                                    *)

\* A request is not heard or its answer lost: the form is told of an error.
Lost(s) ==
  /\ req[s].step \in {"sent", "done"}
  /\ IF Up \/ req[s].step = "done"
     THEN faults < MaxFaults /\ faults' = faults + 1 ELSE UNCHANGED faults
  /\ Step(s, "refused")
  /\ UNCHANGED <<guard, now, booting, accounts, page, moves>>

\* The handlers end without an answer.
Crashes ==
  /\ Crash /\ Forget
  /\ req' = [s \in Requests |->
       IF req[s].step \in {"checked", "read"} THEN [req[s] EXCEPT !.step = "refused"] ELSE req[s]]
  /\ UNCHANGED <<now, accounts, page, moves, faults>>

Boots == Boot /\ UNCHANGED <<guard, now, accounts, req, page, moves, faults>>
Ticks == Tick /\ UNCHANGED <<booting, accounts, req, page, moves, faults>>

Forms(s) == Registered(s) \/ LoggedIn(s) \/ Authenticated(s) \/ FormFails(s)
Handlers(s) ==
  LoginArrives(s) \/ RegisterArrives(s) \/ ReadsRow(s) \/ LoginEnds(s) \/ RegisterEnds(s)
    \/ MeArrives(s)

Next ==
  \/ Boots \/ Crashes \/ Ticks
  \/ \E c \in Clients : \/ SwitchForm(c)
                        \/ \E s \in Requests, u \in Names, pw \in Passwords \cup {Weak, Long} :
                             Submit(c, s, u, pw)
  \/ \E s \in Requests : Forms(s) \/ Handlers(s) \/ Lost(s)

Spec == Init /\ [][Next]_vars

----------------------------------------------------------------------------
(* "Once max_events fall inside window_seconds, the key is locked": the    *)
(* guard is asked before the password check and told after it, so all that *)
(* is under way may fail beyond the maximum, and no more.  Registrations,  *)
(* asked and told at once, keep to it.                                     *)
AttemptsBounded ==
  /\ \A k \in Keys : Len(Pruned(users[k])) < MaxPerUser + Cardinality(Requests)
  /\ \A i \in Addresses : /\ Len(Pruned(ips[i])) < MaxPerIp + Cardinality(Requests)
                          /\ Len(Pruned(registers[i])) <= MaxPerIp

(* However registrations and logins of a name interleave, restart or lose  *)
(* answers, whoever is told to have it or holds its token knows the        *)
(* password that is stored.                                                *)
SignedInAsOwner ==
  LET owns(u, pw) == Exists(u) /\ accounts[u] = pw
  IN  /\ \A s \in Requests : req[s].step = "done" => owns(req[s].name, req[s].pw)
      /\ \A c \in Clients : page[c].token # None => owns(page[c].token.name, page[c].token.pw)

============================================================================
