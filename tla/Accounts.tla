------------------------------ MODULE Accounts ------------------------------
(***************************************************************************)
(* The accounts of the console and the sessions of its browsers            *)
(* (ui/auth.ts, the handlers of ui/server.ts, the users table of           *)
(* storage/db.ts).  The accounts are in a database that the consoles and   *)
(* the command line share; the sessions are held by each console in memory *)
(* and mirrored to one file, which a console reads when it first needs a   *)
(* session after its start.                                                *)
(*                                                                         *)
(* Left out: the hash of a password, the avatar, the delay of an answer    *)
(* after failures, and the wording of the errors.                          *)
(***************************************************************************)
EXTENDS Naturals, FiniteSets

CONSTANTS
  Names,      \* the user names, without regard to their case
  Admin,      \* the name the command line resets
  Passwords,
  Consoles,   \* the console processes
  Tokens,     \* the sessions there may be, numbered
  TTL,        \* days a session lasts
  LastDay,    \* bound
  Loads       \* how much happens

NoUser == [role |-> "none", pw |-> 0]
NoToken == [name |-> "none", role |-> "none", expires |-> 0]
Unread == [read |-> FALSE, tokens |-> {}]
Load == [consoles : SUBSET Consoles, resets : Nat, restarts : Nat, faults : Nat]

VARIABLES
  users,    \* the table: Names -> role and password
  legacy,   \* the accounts of users.json from before the database, by name
  cache,    \* sessionCache of each console
  file,     \* sessions.json: the tokens in it
  issued,   \* what each token was made for
  sign,     \* the sign-up that a process is carrying out
  granted,  \* the tokens whose cookie a browser was given
  left,     \* the tokens a browser asked to end
  ended,    \* those of them whose end was answered
  owners,   \* the names that became admin by signing up
  day,
  load

vars == <<users, legacy, cache, file, issued, sign, granted, left, ended, owners, day, load>>

Procs == Consoles \cup {"cli"}
Known == {n \in Names : users[n] # NoUser}
Idle == [name |-> "none", role |-> "none", pw |-> 0]

TypeOK ==
  /\ users \in [Names -> [role : {"none", "admin", "member"}, pw : Passwords \cup {0}]]
  /\ legacy \subseteq Names
  /\ cache \in [Consoles -> [read : BOOLEAN, tokens : SUBSET Tokens]]
  /\ {file, granted, left, ended} \subseteq SUBSET Tokens
  /\ \A t \in Tokens : issued[t] = NoToken \/ issued[t].name \in Names
  /\ \A p \in Procs : sign[p] = Idle \/ sign[p].name \in Names
  /\ owners \subseteq Names /\ day \in 1 .. LastDay

Init ==
  /\ users = [n \in Names |-> NoUser]
  /\ legacy \in {{}, {Admin}}
  /\ cache = [p \in Consoles |-> Unread]
  /\ file = {} /\ granted = {} /\ left = {} /\ ended = {} /\ owners = {}
  /\ issued = [t \in Tokens |-> NoToken]
  /\ sign = [p \in Procs |-> Idle]
  /\ day = 1
  /\ load \in Loads

(***************************************************************************)
(* migrateLegacyJson, when a process opens the database: the accounts of   *)
(* the file are taken over if the table is empty, and the file set aside;  *)
(* a process that ends in between leaves it.                               *)
(***************************************************************************)
Imported == [n \in Names |-> IF n \in legacy THEN [role |-> "admin", pw |-> 1] ELSE NoUser]

Opens(archived) ==
  /\ legacy # {} /\ Known = {}
  /\ users' = Imported
  /\ legacy' = IF archived THEN {} ELSE legacy
  /\ UNCHANGED <<cache, file, issued, sign, granted, left, ended, owners, day, load>>

Opened == legacy = {} \/ Known # {}
Free(p) == Opened /\ sign[p] = Idle

(***************************************************************************)
(* loadSessions, pruneExpiredSessions: what a console holds of the         *)
(* sessions; the file is written again if one has expired.                 *)
(***************************************************************************)
Alive(S) == {t \in S : issued[t].expires > day}
Held(p) == IF cache[p].read THEN cache[p].tokens ELSE Alive(file)
Swept(p) == IF cache[p].read THEN file ELSE Alive(file)

(* persistSessions: the whole of the cache becomes the file.  When the     *)
(* write fails the cache has changed and the request is answered with an   *)
(* error.                                                                  *)
Persist(p, S, fails) ==
  /\ cache' = [cache EXCEPT ![p] = [read |-> TRUE, tokens |-> S]]
  /\ file' = IF fails THEN Swept(p) ELSE S
  /\ fails => load.faults > 0

(* createSession *)
Fresh == CHOOSE t \in Tokens : issued[t] = NoToken
Session(p, n, role, fails) ==
  /\ \E t \in Tokens : issued[t] = NoToken
  /\ issued' = [issued EXCEPT ![Fresh] = [name |-> n, role |-> role, expires |-> day + TTL]]
  /\ Persist(p, Held(p) \cup {Fresh}, fails)
  /\ granted' = IF fails THEN granted ELSE granted \cup {Fresh}

Paid(fails) == load' = IF fails THEN [load EXCEPT !.faults = @ - 1] ELSE load

(***************************************************************************)
(* handleRegister, registerUser: whether the name is free and whether the  *)
(* table is empty is read, then the row is inserted; another process may   *)
(* come in between.                                                        *)
(***************************************************************************)
Looks(p, n, pw) ==
  /\ Free(p) /\ n \notin Known
  /\ sign' = [sign EXCEPT ![p] = [name |-> n, pw |-> pw, role |-> IF Known = {} THEN "admin" ELSE "member"]]
  /\ UNCHANGED <<users, legacy, cache, file, issued, granted, left, ended, owners, day, load>>

(* runAdminStep of the setup wizard, and adminCommand: the account Admin   *)
(* is looked for, and made if it is not there.  The wizard asks in         *)
(* between.                                                                *)
CliLooks(pw) ==
  /\ Free("cli") /\ Admin \notin Known
  /\ sign' = [sign EXCEPT !["cli"] = [name |-> Admin, pw |-> pw, role |-> "admin"]]
  /\ UNCHANGED <<users, legacy, cache, file, issued, granted, left, ended, owners, day, load>>

(* dbInsertUser: the name is unique, so the later of two fails. *)
Inserts(p, fails) ==
  LET s == sign[p] IN
  /\ s # Idle /\ sign' = [sign EXCEPT ![p] = Idle]
  /\ UNCHANGED <<legacy, left, ended, day>>
  /\ IF s.name \in Known
     THEN fails = FALSE /\ UNCHANGED <<users, cache, file, issued, granted, owners, load>>
     ELSE /\ users' = [users EXCEPT ![s.name] = [role |-> s.role, pw |-> s.pw]]
          /\ IF p = "cli"
             THEN fails = FALSE /\ UNCHANGED <<cache, file, issued, granted, owners, load>>
             ELSE /\ owners' = IF s.role = "admin" THEN owners \cup {s.name} ELSE owners
                  /\ Session(p, s.name, s.role, fails) /\ Paid(fails)

(***************************************************************************)
(* handleLogin                                                             *)
(***************************************************************************)
Login(p, n, pw, fails) ==
  /\ Free(p) /\ n \in Known /\ users[n].pw = pw
  /\ Session(p, n, users[n].role, fails) /\ Paid(fails)
  /\ UNCHANGED <<users, legacy, sign, left, ended, owners, day>>

(***************************************************************************)
(* resolveAuthContext, getSession: an expired session is deleted when it   *)
(* is shown.                                                               *)
(***************************************************************************)
Accepts(p, t) == t \in Held(p) /\ issued[t].expires > day

Shown(p, t) ==
  /\ Free(p) /\ t \in granted
  /\ IF t \in Held(p) /\ ~Accepts(p, t)
     THEN Persist(p, Held(p) \ {t}, FALSE)
     ELSE /\ cache' = [cache EXCEPT ![p] = [read |-> TRUE, tokens |-> Held(p)]]
          /\ file' = Swept(p)
  /\ UNCHANGED <<users, legacy, issued, sign, granted, left, ended, owners, day, load>>

(* Mutant of Logout: the file is left to the next session that is made. *)
LogoutInMemory(p, t, fails) ==
  /\ Free(p) /\ t \in granted \ ended /\ Accepts(p, t) /\ ~fails
  /\ cache' = [cache EXCEPT ![p] = [read |-> TRUE, tokens |-> Held(p) \ {t}]] /\ file' = Swept(p)
  /\ left' = left \cup {t} /\ ended' = ended \cup {t}
  /\ UNCHANGED <<users, legacy, issued, sign, granted, owners, day, load>>

(* handleLogout, destroySession *)
Logout(p, t, fails) ==
  /\ Free(p) /\ t \in granted \ ended /\ Accepts(p, t)
  /\ Persist(p, Held(p) \ {t}, fails) /\ Paid(fails)
  /\ left' = left \cup {t}
  /\ ended' = IF fails THEN ended ELSE ended \cup {t}
  /\ UNCHANGED <<users, legacy, issued, sign, granted, owners, day>>

(***************************************************************************)
(* setPassword: by the user on this machine, or by the command line for   *)
(* the name Admin.                                                         *)
(***************************************************************************)
Repassworded(n, pw) ==
  /\ n \in Known /\ users[n].pw # pw
  /\ users' = [users EXCEPT ![n].pw = pw]

ResetPassword(p, n, pw) ==
  /\ Free(p) /\ Repassworded(n, pw)
  /\ load.resets > 0 /\ load' = [load EXCEPT !.resets = @ - 1]
  /\ UNCHANGED <<legacy, cache, file, issued, sign, granted, left, ended, owners, day>>

CliResets(pw) ==
  /\ Free("cli") /\ Repassworded(Admin, pw)
  /\ load.resets > 0 /\ load' = [load EXCEPT !.resets = @ - 1]
  /\ UNCHANGED <<legacy, cache, file, issued, sign, granted, left, ended, owners, day>>

(* handleRequest: the pages of the owner are open to who is signed in as   *)
(* an admin, by the role the session was made with.                        *)
OwnerOnly(p, t) == Accepts(p, t) /\ issued[t].role = "admin"

(* adminUsers: an admin who is signed in adds an account. *)
AdminAdds(p, t, n, role) ==
  /\ Free(p) /\ t \in granted \ left /\ OwnerOnly(p, t)
  /\ n \notin Known
  /\ users' = [users EXCEPT ![n] = [role |-> role, pw |-> 1]]
  /\ cache' = [cache EXCEPT ![p] = [read |-> TRUE, tokens |-> Held(p)]] /\ file' = Swept(p)
  /\ UNCHANGED <<legacy, issued, sign, granted, left, ended, owners, day, load>>

(* A console ends, at any time, and is started again. *)
Restart(p) ==
  /\ load.restarts > 0 /\ load' = [load EXCEPT !.restarts = @ - 1]
  /\ cache' = [cache EXCEPT ![p] = Unread] /\ sign' = [sign EXCEPT ![p] = Idle]
  /\ UNCHANGED <<users, legacy, file, issued, granted, left, ended, owners, day>>

NextDay ==
  /\ day < LastDay /\ day' = day + 1
  /\ UNCHANGED <<users, legacy, cache, file, issued, sign, granted, left, ended, owners, load>>

Running == {p \in Consoles : p \in load.consoles}

Next ==
  \/ \E archived \in BOOLEAN : Opens(archived)
  \/ \E p \in Running, n \in Names, pw \in Passwords : Looks(p, n, pw) \/ ResetPassword(p, n, pw)
  \/ \E pw \in Passwords : CliLooks(pw) \/ CliResets(pw)
  \/ \E p \in Running \cup {"cli"}, fails \in BOOLEAN : Inserts(p, fails)
  \/ \E p \in Running, n \in Names, pw \in Passwords, fails \in BOOLEAN : Login(p, n, pw, fails)
  \/ \E p \in Running, t \in Tokens : Shown(p, t)
  \/ \E p \in Running, t \in Tokens, fails \in BOOLEAN : Logout(p, t, fails)
  \/ \E p \in Running, t \in Tokens, n \in Names, role \in {"admin", "member"} : AdminAdds(p, t, n, role)
  \/ \E p \in Running : Restart(p)
  \/ NextDay

Spec == Init /\ [][Next]_vars

(***************************************************************************)
(* Properties, for one console beside the command line; two consoles write *)
(* their caches over each other's file.                                    *)
(***************************************************************************)
Alone == Cardinality(load.consoles) = 1

(* A session whose end was answered is not accepted again, not after a     *)
(* restart either (destroySession).                                        *)
EndedStaysOut == Alone => \A p \in Running : \A t \in ended : ~Accepts(p, t)

(* No restart drops a browser whose session has not run out and that did   *)
(* not ask to end it (auth.ts, on sessions.json).                          *)
RestartsKeep ==
  Alone => \A p \in Running : \A t \in granted \ left : issued[t].expires > day => Accepts(p, t)

(* One account at most becomes the owner by signing up, and none once      *)
(* there was an account of before (registerUser).                          *)
OneOwner == Alone => Cardinality(owners) <= 1

(* What the command line says was set opens the console as an admin        *)
(* (index.ts, on the recovery of a lost password).                         *)
RecoveryIsAdmin == [][\A pw \in Passwords : CliResets(pw) => users[Admin].role = "admin"]_vars
=============================================================================
