------------------------------ MODULE Accounts ------------------------------
(***************************************************************************)
(* Who a client is: users, their Discord and bot credentials, login        *)
(* sessions and one-time access codes.  AuthApi (bw/auth/api.py) over      *)
(* UserStore (bw/auth/user.py) and SessionStore (bw/auth/session.py).      *)
(*                                                                         *)
(* A request does its work without interruption, except that a Discord     *)
(* login first waits for Discord to confirm the account.  Each call of a   *)
(* store is a transaction of its own: when the database fails or the       *)
(* backend dies, what the request committed before stays.                  *)
(***************************************************************************)
EXTENDS Integers, FiniteSets, Sequences, Functions

CONSTANTS
    Discord,        \* Discord accounts
    Code,           \* the state parameters of Discord's OAuth flow
    Login,          \* the Discord logins that may wait at the same time
    SessionLength,  \* default_session_length and api_session_length
    MaxUsers, MaxTokens, MaxTime, MaxFaults,    \* bounds
    Nobody

Kind == {"human", "api"}

ASSUME LengthAssumption == SessionLength \in [Kind -> Nat]
ASSUME MaximaAssumption == {MaxUsers, MaxTokens, MaxTime, MaxFaults} \subseteq Nat
ASSUME NobodyAssumption == Nobody \notin Discord

VARIABLES
    db,         \* the tables of users and sessions, see Database
    codes,      \* discord_oauth_codes: per state, when its code expires
    now,        \* the clock of the database
    login,      \* per waiting login: the account, or Nobody
    faults      \* how many requests failed half-way

vars == <<db, codes, now, login, faults>>

UserId == 1..MaxUsers
Token == 1..MaxTokens
Time == 0..(MaxTime + SessionLength["human"] + SessionLength["api"])

(* kind is no column: it tells which login made the row. *)
Session == [token : Token, user : UserId, until : Time, kind : Kind]

Database ==
    [created : 0..MaxUsers, users : SUBSET UserId,
     discord : UNION {[A -> UserId] : A \in SUBSET Discord},
     bots : SUBSET UserId, issued : 0..MaxTokens, sessions : SUBSET Session]

(* db.created and db.issued are the serial numbers of users and tokens;    *)
(* db.discord maps an account to its user, db.bots are the users that have *)
(* a bot token.                                                            *)
Init ==
    /\ db = [created |-> 0, users |-> {}, discord |-> << >>, bots |-> {},
             issued |-> 0, sessions |-> {}]
    /\ codes = << >>
    /\ now = 0
    /\ login = [l \in Login |-> Nobody]
    /\ faults = 0

-----------------------------------------------------------------------------
(* Transactions: what each makes of the database d *)

CreateUser(d) == [d EXCEPT !.created = @ + 1, !.users = @ \union {d.created + 1}]

LinkDiscord(d, account, user) ==
    [d EXCEPT !.discord = [a \in DOMAIN d.discord \union {account} |->
                              IF a = account THEN user ELSE d.discord[a]]]

LinkBot(d, user) == [d EXCEPT !.bots = @ \union {user}]

(* Faulty variant: only sessions that are over are deleted. *)
ExpireOld(d, user) == [d EXCEPT !.sessions = {s \in @ : s.user # user \/ s.until >= now}]

Expire(d, user) == [d EXCEPT !.sessions = {s \in @ : s.user # user}]

(* Faulty variant: the token is drawn once and then used for every login.  *)
StartSessionSameToken(d, user, kind) ==
    [d EXCEPT !.issued = @ + 1,
              !.sessions = @ \union {[token |-> 1, user |-> user, kind |-> kind,
                                      until |-> now + SessionLength[kind]]}]

(* Faulty variant: the other sessions of the user are renewed as well.     *)
StartSessionRenewing(d, user, kind) ==
    [d EXCEPT !.issued = @ + 1,
              !.sessions = {IF s.user = user THEN [s EXCEPT !.until = now + SessionLength[kind]]
                            ELSE s : s \in @}
                           \union {[token |-> d.issued + 1, user |-> user, kind |-> kind,
                                    until |-> now + SessionLength[kind]]}]

StartSession(d, user, kind) ==
    [d EXCEPT !.issued = @ + 1,
              !.sessions = @ \union {[token |-> d.issued + 1, user |-> user, kind |-> kind,
                                      until |-> now + SessionLength[kind]]}]

Registered(c) ==
    [x \in DOMAIN codes \union {c} |-> IF x = c THEN now + SessionLength["human"] ELSE codes[x]]

(* The stores' look-ups; what they do not find is an error to the client.  *)
HasBotToken(u) == u \in db.bots
Known(account) == account \in DOMAIN db.discord
HasCode(c) == c \in DOMAIN codes /\ now <= codes[c]

(* A request commits the transactions that lead to stages[1], stages[2]    *)
(* and so on; a failure leaves it at one of them but the last.             *)
Commit(stages) ==
    \/ /\ db' = stages[Len(stages)]
       /\ UNCHANGED faults
    \/ /\ faults < MaxFaults
       /\ faults' = faults + 1
       /\ \E i \in 1..(Len(stages) - 1) : db' = stages[i]

-----------------------------------------------------------------------------
(* Requests *)

(* create_new_user_bot: the savepoint is of another session than the ones  *)
(* in which the two stores commit.                                         *)
CreateNewUserBot ==
    /\ db.created < MaxUsers
    /\ LET created == CreateUser(db)
           linked == LinkBot(created, created.created)
       IN  Commit(<<db, created, linked>>)
    /\ UNCHANGED <<codes, now, login>>

(* A bot is logged out before it is logged in, in two transactions.        *)
LoginWithBot(u) ==
    /\ HasBotToken(u)
    /\ db.issued < MaxTokens
    /\ LET expired == Expire(db, u)
       IN  Commit(<<db, expired, StartSession(expired, u, "api")>>)
    /\ UNCHANGED <<codes, now, login>>

(* Discord is asked who the bearer is. *)
LoginBegin(l, account) ==
    /\ login[l] = Nobody
    /\ login' = [login EXCEPT ![l] = account]
    /\ UNCHANGED <<db, codes, now, faults>>

Forgotten(l) == login' = [login EXCEPT ![l] = Nobody]

(* Faulty variant: every login makes a user and links it.                  *)
LoginWithDiscordAnew(l) ==
    /\ login[l] # Nobody
    /\ db.issued < MaxTokens /\ db.created < MaxUsers
    /\ LET created == CreateUser(db)
           linked == LinkDiscord(created, login[l], created.created)
       IN  Commit(<<db, created, linked, StartSession(linked, linked.discord[login[l]], "human")>>)
    /\ Forgotten(l)
    /\ UNCHANGED <<codes, now>>

(* Faulty variant: the user is made before the account is looked up.       *)
LoginWithDiscordEager(l) ==
    /\ login[l] # Nobody
    /\ db.issued < MaxTokens /\ db.created < MaxUsers
    /\ LET created == CreateUser(db)
           linked == IF login[l] \in DOMAIN db.discord THEN created
                     ELSE LinkDiscord(created, login[l], created.created)
       IN  Commit(<<db, created, linked, StartSession(linked, linked.discord[login[l]], "human")>>)
    /\ Forgotten(l)
    /\ UNCHANGED <<codes, now>>

(* Discord answers; the account is looked up now. *)
LoginWithDiscord(l) ==
    /\ login[l] # Nobody
    /\ db.issued < MaxTokens
    /\ IF Known(login[l])
       THEN Commit(<<db, StartSession(db, db.discord[login[l]], "human")>>)
       ELSE /\ db.created < MaxUsers
            /\ LET created == CreateUser(db)
                   linked == LinkDiscord(created, login[l], created.created)
               IN  Commit(<<db, created, linked, StartSession(linked, created.created, "human")>>)
    /\ Forgotten(l)
    /\ UNCHANGED <<codes, now>>

(* Discord refuses, or does not answer. *)
LoginRefused(l) ==
    /\ login[l] # Nobody
    /\ Forgotten(l)
    /\ UNCHANGED <<db, codes, now, faults>>

(* revoke_discord_user_session and revoke_bot_user_session *)
Revoke(u) ==
    /\ u \in db.bots \union Range(db.discord)
    /\ Commit(<<db, Expire(db, u)>>)
    /\ UNCHANGED <<codes, now, login>>

(* The state parameter is the key of the table, also of a code that is     *)
(* over; the error of a second insert is not told.                         *)
RegisterAccessCode(c) ==
    /\ c \notin DOMAIN codes
    /\ codes' = Registered(c)
    /\ UNCHANGED <<db, now, login, faults>>

(* A code that is there and not over is deleted and handed out in one      *)
(* transaction.                                                            *)
RetrieveAccessCode(c) ==
    /\ HasCode(c)
    /\ codes' = [x \in DOMAIN codes \ {c} |-> codes[x]]
    /\ UNCHANGED <<db, now, login, faults>>

(* The backend dies between requests: logins that wait are gone. *)
Restart ==
    /\ \E l \in Login : login[l] # Nobody
    /\ login' = [l \in Login |-> Nobody]
    /\ UNCHANGED <<db, codes, now, faults>>

Tick ==
    /\ now < MaxTime
    /\ now' = now + 1
    /\ UNCHANGED <<db, codes, login, faults>>

Next ==
    \/ CreateNewUserBot
    \/ \E u \in UserId : LoginWithBot(u) \/ Revoke(u)
    \/ \E l \in Login : LoginWithDiscord(l) \/ LoginRefused(l)
    \/ \E l \in Login, a \in Discord : LoginBegin(l, a)
    \/ \E c \in Code : RegisterAccessCode(c) \/ RetrieveAccessCode(c)
    \/ Restart \/ Tick

Spec == Init /\ [][Next]_vars

-----------------------------------------------------------------------------
(* Properties *)

(* get_user_from_session_token finds a user: the token counts. *)
Active(t) == \E s \in db.sessions : s.token = t /\ now <= s.until

(* Unique columns and foreign keys: serial numbers count the users, a user *)
(* has one account, and tokens are drawn once.                             *)
DatabaseOK(d) ==
    /\ d \in Database
    /\ d.users = 1..d.created
    /\ d.bots \union Range(d.discord) \union {s.user : s \in d.sessions} \subseteq d.users
    /\ IsInjective(d.discord)
    /\ \A s \in d.sessions : s.token <= d.issued
    /\ \A s, t \in d.sessions : s.token = t.token => s = t

(* Every variable has its type, and the constraints of the tables hold.    *)
TypeOK ==
    /\ DatabaseOK(db)
    /\ codes \in UNION {[C -> Time] : C \in SUBSET Code}
    /\ now \in 0..MaxTime /\ faults \in 0..MaxFaults
    /\ login \in [Login -> Discord \union {Nobody}]

(* A bot that logs in again is logged out elsewhere: it never has two      *)
(* sessions, however its logins fail and are tried again.                  *)
OneApiSession ==
    \A s, t \in db.sessions : s.user = t.user /\ s.kind = "api" /\ t.kind = "api" => s = t

(* A token that was issued and no longer counts never counts again: what   *)
(* was revoked or ran out stays so, whatever logins follow.                *)
InactiveForEver ==
    [][\A t \in Token : t <= db.issued /\ ~Active(t) => ~Active(t)']_vars

(* An account is one user for ever: neither two first logins that wait for *)
(* Discord together nor a retry after a failure link it to another.        *)
AccountKeepsItsUser ==
    [][\A a \in DOMAIN db.discord : a \in DOMAIN db'.discord /\ db'.discord[a] = db.discord[a]]_vars

(* Each failure leaves at most one user nobody can log in as, and nothing  *)
(* else does: "Rolls back the transaction" is not what happens.            *)
StrandedOnlyByFailure ==
    Cardinality(db.users \ (db.bots \union Range(db.discord))) <= faults

=============================================================================
