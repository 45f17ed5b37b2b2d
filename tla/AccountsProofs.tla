--------------------------- MODULE AccountsProofs ---------------------------
(***************************************************************************)
(* Theorems about Accounts for every set of Discord accounts, codes and    *)
(* waiting logins, every length of sessions and any number of failures.    *)
(***************************************************************************)
EXTENDS Accounts, FiniteSetTheorems, TLAPS

-----------------------------------------------------------------------------
(* What a transaction may do *)

OneApi(d) ==
    \A s, t \in d.sessions : s.user = t.user /\ s.kind = "api" /\ t.kind = "api" => s = t

Good(d) == DatabaseOK(d) /\ OneApi(d)

Counts(d, t) == \E s \in d.sessions : s.token = t /\ now <= s.until

(* From d to e no account changes its user, and no token that was issued   *)
(* begins to count.                                                        *)
Follows(d, e) ==
    /\ d.issued <= e.issued
    /\ \A a \in DOMAIN d.discord : a \in DOMAIN e.discord /\ e.discord[a] = d.discord[a]
    /\ \A t \in 1..d.issued : Counts(e, t) => Counts(d, t)

(* The ranges of a good database's fields. *)
LEMMA GoodFields ==
    ASSUME NEW d, Good(d)
    PROVE  /\ d.created \in 0..MaxUsers /\ d.users = 1..d.created
           /\ d.discord \in UNION {[A -> UserId] : A \in SUBSET Discord}
           /\ d.bots \in SUBSET UserId
           /\ d.issued \in 0..MaxTokens
           /\ d.sessions \in SUBSET Session
           /\ MaxUsers \in Nat /\ MaxTokens \in Nat /\ MaxTime \in Nat
  BY MaximaAssumption DEF Good, DatabaseOK, Database

(* Follows is reflexive and transitive on good databases. *)
LEMMA FollowsItself ==
    ASSUME NEW d, Good(d)
    PROVE  Follows(d, d)
  BY GoodFields DEF Follows

LEMMA FollowsTransitive ==
    ASSUME NEW d, NEW e, NEW f, Good(d), Good(e), Good(f), Follows(d, e), Follows(e, f)
    PROVE  Follows(d, f)
<1>1. d.issued \in Nat /\ e.issued \in Nat /\ f.issued \in Nat
  BY GoodFields
<1>2. d.issued <= f.issued /\ \A t \in 1..d.issued : t \in 1..e.issued
  BY <1>1 DEF Follows
<1> QED
  BY <1>2 DEF Follows

(* A user of its own is made. *)
LEMMA CreateUserGood ==
    ASSUME NEW d, Good(d), d.created < MaxUsers
    PROVE  /\ Good(CreateUser(d)) /\ Follows(d, CreateUser(d))
           /\ CreateUser(d).created = d.created + 1
           /\ CreateUser(d).discord = d.discord
           /\ CreateUser(d).issued = d.issued
           /\ d.created + 1 \notin Range(d.discord)
<1> DEFINE e == CreateUser(d)
<1>1. /\ e.created = d.created + 1 /\ e.users = d.users \union {d.created + 1}
      /\ e.discord = d.discord /\ e.bots = d.bots /\ e.issued = d.issued
      /\ e.sessions = d.sessions
  BY DEF CreateUser, Good, DatabaseOK, Database
<1>2. e \in Database
  <2>1. d.created + 1 \in 0..MaxUsers /\ d.created + 1 \in UserId
    BY GoodFields DEF UserId
  <2>2. d \in Database
    BY DEF Good, DatabaseOK
  <2>3. d.users \union {d.created + 1} \in SUBSET UserId
    BY <2>1, <2>2 DEF Database
  <2> QED
    BY <2>1, <2>2, <2>3 DEF CreateUser, Database
<1> HIDE DEF e
<1>3. e.users = 1..e.created
  BY <1>1, GoodFields
<1>4. DatabaseOK(e) /\ OneApi(e)
  BY <1>1, <1>2, <1>3, GoodFields DEF Good, DatabaseOK, OneApi
<1>5. Follows(d, e)
  BY <1>1, GoodFields DEF Follows, Counts
<1>6. d.created + 1 \notin Range(d.discord)
  <2>1. Range(d.discord) \subseteq 1..d.created
    BY DEF Good, DatabaseOK
  <2> QED
    BY <2>1, GoodFields
<1> QED
  BY <1>1, <1>4, <1>5, <1>6 DEF e, Good

(* A user of the table gets a bot token. *)
LEMMA LinkBotGood ==
    ASSUME NEW d, Good(d), NEW u \in d.users
    PROVE  Good(LinkBot(d, u)) /\ Follows(d, LinkBot(d, u))
<1> DEFINE e == LinkBot(d, u)
<1>1. /\ e.created = d.created /\ e.users = d.users /\ e.discord = d.discord
      /\ e.bots = d.bots \union {u} /\ e.issued = d.issued /\ e.sessions = d.sessions
  BY DEF LinkBot, Good, DatabaseOK, Database
<1>2. e \in Database
  BY DEF LinkBot, Good, DatabaseOK, Database
<1> HIDE DEF e
<1>3. DatabaseOK(e) /\ OneApi(e)
  BY <1>1, <1>2 DEF Good, DatabaseOK, OneApi
<1>4. Follows(d, e)
  BY <1>1, GoodFields DEF Follows, Counts
<1> QED
  BY <1>3, <1>4 DEF e, Good

(* An account that is not linked is linked to a user that has none.        *)
LEMMA LinkDiscordGood ==
    ASSUME NEW d, Good(d), NEW a \in Discord \ DOMAIN d.discord,
           NEW u \in d.users \ Range(d.discord)
    PROVE  /\ Good(LinkDiscord(d, a, u)) /\ Follows(d, LinkDiscord(d, a, u))
           /\ LinkDiscord(d, a, u).users = d.users
           /\ LinkDiscord(d, a, u).issued = d.issued
<1> DEFINE links == [b \in DOMAIN d.discord \union {a} |-> IF b = a THEN u ELSE d.discord[b]]
           e == LinkDiscord(d, a, u)
<1>1. /\ e.created = d.created /\ e.users = d.users /\ e.discord = links
      /\ e.bots = d.bots /\ e.issued = d.issued /\ e.sessions = d.sessions
  BY DEF LinkDiscord, Good, DatabaseOK, Database
<1>2. d \in Database /\ u \in UserId /\ DOMAIN d.discord \subseteq Discord
      /\ d.discord \in [DOMAIN d.discord -> UserId]
  BY DEF Good, DatabaseOK, Database
<1>3. links \in [DOMAIN d.discord \union {a} -> UserId]
  BY <1>2
<1>4. links \in UNION {[A -> UserId] : A \in SUBSET Discord}
  BY <1>2, <1>3
<1>5. e \in Database
  <2> HIDE DEF links
  <2>1. e = [d EXCEPT !.discord = links]
    BY DEF LinkDiscord, links
  <2> QED
    BY <1>2, <1>4, <2>1 DEF Database
<1>6. \A b \in DOMAIN d.discord : links[b] = d.discord[b]
  OBVIOUS
<1>7. links[a] = u /\ DOMAIN links = DOMAIN d.discord \union {a}
  OBVIOUS
<1> HIDE DEF e, links
<1>8. IsInjective(links)
  BY <1>6, <1>7 DEF Good, DatabaseOK, IsInjective, Range
<1>9. Range(links) \subseteq d.users
  BY <1>6, <1>7 DEF Good, DatabaseOK, Range
<1>10. DatabaseOK(e) /\ OneApi(e)
  BY <1>1, <1>5, <1>8, <1>9 DEF Good, DatabaseOK, OneApi
<1>11. Follows(d, e)
  BY <1>1, <1>6, <1>7, GoodFields DEF Follows, Counts
<1> QED
  BY <1>1, <1>10, <1>11 DEF e, Good

(* Every session of a user is deleted. *)
LEMMA ExpireGood ==
    ASSUME NEW d, Good(d), NEW u
    PROVE  /\ Good(Expire(d, u)) /\ Follows(d, Expire(d, u))
           /\ Expire(d, u).users = d.users /\ Expire(d, u).issued = d.issued
           /\ \A s \in Expire(d, u).sessions : s.user # u
<1> DEFINE e == Expire(d, u)
<1>1. /\ e.created = d.created /\ e.users = d.users /\ e.discord = d.discord
      /\ e.bots = d.bots /\ e.issued = d.issued
      /\ e.sessions = {s \in d.sessions : s.user # u}
  BY DEF Expire, Good, DatabaseOK, Database
<1>2. e \in Database
  BY DEF Expire, Good, DatabaseOK, Database
<1> HIDE DEF e
<1>3. DatabaseOK(e) /\ OneApi(e)
  BY <1>1, <1>2 DEF Good, DatabaseOK, OneApi
<1>4. Follows(d, e)
  BY <1>1, GoodFields DEF Follows, Counts
<1> QED
  BY <1>1, <1>3, <1>4 DEF e, Good

(* A new token is drawn; an api session is only added where none is left.  *)
LEMMA StartSessionGood ==
    ASSUME NEW d, Good(d), NEW u \in d.users, NEW kind \in Kind, now \in 0..MaxTime,
           d.issued < MaxTokens,
           kind = "api" => \A s \in d.sessions : s.user # u
    PROVE  Good(StartSession(d, u, kind)) /\ Follows(d, StartSession(d, u, kind))
<1> DEFINE new == [token |-> d.issued + 1, user |-> u, kind |-> kind,
                   until |-> now + SessionLength[kind]]
           e == StartSession(d, u, kind)
<1>1. /\ e.created = d.created /\ e.users = d.users /\ e.discord = d.discord
      /\ e.bots = d.bots /\ e.issued = d.issued + 1
      /\ e.sessions = d.sessions \union {new}
  BY DEF StartSession, Good, DatabaseOK, Database
<1>2. new \in Session
  <2>1. SessionLength["human"] \in Nat /\ SessionLength["api"] \in Nat
        /\ kind \in {"human", "api"}
    BY LengthAssumption DEF Kind
  <2>2. now + SessionLength[kind] \in Time
    BY <2>1, MaximaAssumption DEF Time
  <2>3. d.issued + 1 \in Token
    BY GoodFields DEF Token
  <2>4. u \in UserId
    BY DEF Good, DatabaseOK, Database
  <2> QED
    BY <2>2, <2>3, <2>4 DEF Session
<1>3. e \in Database
  <2>1. d.issued + 1 \in 0..MaxTokens
    BY GoodFields
  <2>2. d \in Database /\ d.sessions \union {new} \in SUBSET Session
    <3> HIDE DEF new
    <3> QED
      BY <1>2, GoodFields DEF Good, DatabaseOK
  <2>3. e = [d EXCEPT !.issued = d.issued + 1, !.sessions = d.sessions \union {new}]
    BY DEF StartSession
  <2> HIDE DEF new, e
  <2> QED
    BY <2>1, <2>2, <2>3 DEF Database
<1>4. new.token = d.issued + 1 /\ new.user = u /\ new.kind = kind
  OBVIOUS
<1> HIDE DEF e, new
<1>5. \A s \in d.sessions : s.token \in Nat /\ s.token <= d.issued /\ s.token # new.token
  <2> SUFFICES ASSUME NEW s \in d.sessions
               PROVE  s.token \in Nat /\ s.token <= d.issued /\ s.token # new.token
    OBVIOUS
  <2>1. s.token \in Token /\ s.token <= d.issued
    BY DEF Good, DatabaseOK, Database, Session
  <2>2. d.issued \in Nat /\ MaxTokens \in Nat
    BY GoodFields
  <2> QED
    BY <1>4, <2>1, <2>2 DEF Token
<1>6. /\ \A s \in e.sessions : s.token <= e.issued
      /\ \A s, t \in e.sessions : s.token = t.token => s = t
  <2>1. \A s, t \in d.sessions : s.token = t.token => s = t
    BY DEF Good, DatabaseOK
  <2>2. d.issued \in Nat
    BY GoodFields
  <2> QED
    BY <1>1, <1>4, <1>5, <2>1, <2>2
<1>7. {s.user : s \in e.sessions} \subseteq e.users
  BY <1>1, <1>4 DEF Good, DatabaseOK
<1>8. DatabaseOK(e)
  BY <1>1, <1>3, <1>6, <1>7 DEF Good, DatabaseOK
<1>9. OneApi(e)
  BY <1>1, <1>4 DEF Good, OneApi
<1>10. Follows(d, e)
  <2>1. \A t \in 1..d.issued : Counts(e, t) => Counts(d, t)
    BY <1>1, <1>4, GoodFields DEF Counts
  <2> QED
    BY <1>1, <2>1, GoodFields DEF Follows
<1> QED
  BY <1>8, <1>9, <1>10 DEF e, Good

-----------------------------------------------------------------------------
(* Requests: wherever they stop, the database is good and follows          *)

Safe(stages) == \A i \in 1..Len(stages) : Good(stages[i]) /\ Follows(db, stages[i])

Kept == Good(db') /\ Follows(db, db') /\ faults' \in 0..MaxFaults

(* A request whose stages are all good may stop at any of them. *)
LEMMA CommitKeeps ==
    ASSUME NEW stages, Len(stages) \in Nat \ {0}, Safe(stages), Commit(stages),
           faults \in 0..MaxFaults
    PROVE  Kept
<1>1. faults' \in 0..MaxFaults
  BY MaximaAssumption DEF Commit
<1>2. PICK i \in 1..Len(stages) : db' = stages[i]
  BY DEF Commit
<1> QED
  BY <1>1, <1>2 DEF Safe, Kept

(* The stages of each request are good and follow from the database.      *)
LEMMA CreateNewUserBotStep ==
    ASSUME Good(db), faults \in 0..MaxFaults, CreateNewUserBot
    PROVE  Kept
<1> DEFINE e == CreateUser(db)
           f == LinkBot(e, e.created)
<1>1. Good(db) /\ Follows(db, db)
  BY FollowsItself
<1>2. Good(e) /\ Follows(db, e)
  BY CreateUserGood DEF CreateNewUserBot
<1>3. e.created \in e.users
  <2>1. e.created = db.created + 1 /\ db.created \in Nat /\ e.users = 1..e.created
    BY <1>2, CreateUserGood, GoodFields DEF CreateNewUserBot
  <2> QED
    BY <2>1
<1>4. Good(f) /\ Follows(db, f)
  <2>1. Good(f) /\ Follows(e, f)
    BY <1>2, <1>3, LinkBotGood
  <2> QED
    BY <1>2, <2>1, FollowsTransitive
<1>5. Commit(<<db, e, f>>)
  BY DEF CreateNewUserBot
<1> HIDE DEF e, f
<1>6. Safe(<<db, e, f>>) /\ Len(<<db, e, f>>) = 3
  BY <1>1, <1>2, <1>4 DEF Safe
<1> DEFINE stages == <<db, e, f>>
<1>7. Len(stages) \in Nat \ {0} /\ Safe(stages) /\ Commit(stages)
  BY <1>5, <1>6
<1> HIDE DEF stages
<1> QED
  BY <1>7, CommitKeeps

LEMMA LoginWithBotStep ==
    ASSUME Good(db), now \in 0..MaxTime, faults \in 0..MaxFaults,
           NEW u \in UserId, LoginWithBot(u)
    PROVE  Kept
<1> DEFINE e == Expire(db, u)
           f == StartSession(e, u, "api")
<1>1. Good(db) /\ Follows(db, db)
  BY FollowsItself
<1>2. /\ Good(e) /\ Follows(db, e) /\ e.users = db.users /\ e.issued = db.issued
      /\ \A s \in e.sessions : s.user # u
  BY ExpireGood
<1>3. u \in e.users
  BY <1>2 DEF LoginWithBot, HasBotToken, Good, DatabaseOK
<1>4. Good(f) /\ Follows(db, f)
  <2>1. Good(f) /\ Follows(e, f)
    BY <1>2, <1>3, StartSessionGood DEF LoginWithBot, Kind
  <2> QED
    BY <1>2, <2>1, FollowsTransitive
<1>5. Commit(<<db, e, f>>)
  BY DEF LoginWithBot
<1> HIDE DEF e, f
<1>6. Safe(<<db, e, f>>) /\ Len(<<db, e, f>>) = 3
  BY <1>1, <1>2, <1>4 DEF Safe
<1> DEFINE stages == <<db, e, f>>
<1>7. Len(stages) \in Nat \ {0} /\ Safe(stages) /\ Commit(stages)
  BY <1>5, <1>6
<1> HIDE DEF stages
<1> QED
  BY <1>7, CommitKeeps

LEMMA LoginWithDiscordStep ==
    ASSUME Good(db), now \in 0..MaxTime, faults \in 0..MaxFaults,
           NEW l \in Login, login[l] \in Discord, LoginWithDiscord(l)
    PROVE  Kept
<1> DEFINE a == login[l]
<1>1. Good(db) /\ Follows(db, db) /\ db.issued < MaxTokens
  BY FollowsItself DEF LoginWithDiscord
<1>2. CASE Known(a)
  <2> DEFINE f == StartSession(db, db.discord[a], "human")
  <2>1. db.discord[a] \in db.users
    <3>1. db.discord[a] \in Range(db.discord)
      BY <1>2 DEF Known, Range
    <3>2. Range(db.discord) \subseteq db.users
      BY DEF Good, DatabaseOK
    <3> QED
      BY <3>1, <3>2
  <2>2. Good(f) /\ Follows(db, f)
    BY <1>1, <2>1, StartSessionGood DEF Kind
  <2>3. Commit(<<db, f>>)
    BY <1>2 DEF LoginWithDiscord
  <2> HIDE DEF a, f
  <2>4. Safe(<<db, f>>) /\ Len(<<db, f>>) = 2
    BY <1>1, <2>2 DEF Safe
  <2> DEFINE stages == <<db, f>>
  <2>5. Len(stages) \in Nat \ {0} /\ Safe(stages) /\ Commit(stages)
    BY <2>3, <2>4
  <2> HIDE DEF stages
  <2> QED
    BY <2>5, CommitKeeps
<1>3. CASE ~Known(a)
  <2> DEFINE e == CreateUser(db)
             f == LinkDiscord(e, a, e.created)
             g == StartSession(f, e.created, "human")
  <2>1. /\ Good(e) /\ Follows(db, e) /\ e.created = db.created + 1
        /\ e.discord = db.discord /\ e.issued = db.issued
        /\ db.created + 1 \notin Range(db.discord)
    BY <1>3, CreateUserGood DEF LoginWithDiscord
  <2>2. e.created \in e.users \ Range(e.discord)
    <3>1. db.created \in Nat /\ e.users = 1..e.created
      BY <2>1, GoodFields
    <3> QED
      BY <2>1, <3>1
  <2>3. a \in Discord \ DOMAIN e.discord
    BY <1>3, <2>1 DEF Known
  <2> HIDE DEF e, a
  <2>4. Good(f) /\ Follows(e, f) /\ f.users = e.users /\ f.issued = e.issued
    BY <2>1, <2>2, <2>3, LinkDiscordGood DEF f
  <2> HIDE DEF f
  <2>5. Follows(db, f)
    BY <2>1, <2>4, FollowsTransitive
  <2>6. Good(g) /\ Follows(f, g)
    BY <1>1, <2>1, <2>2, <2>4, StartSessionGood DEF Kind
  <2> HIDE DEF g
  <2>7. Follows(db, g)
    BY <2>4, <2>5, <2>6, FollowsTransitive
  <2>8. Commit(<<db, e, f, g>>)
    BY <1>3 DEF LoginWithDiscord, a, e, f, g
  <2>9. Safe(<<db, e, f, g>>) /\ Len(<<db, e, f, g>>) = 4
    BY <1>1, <2>1, <2>4, <2>5, <2>6, <2>7 DEF Safe
  <2> DEFINE stages == <<db, e, f, g>>
  <2>10. Len(stages) \in Nat \ {0} /\ Safe(stages) /\ Commit(stages)
    BY <2>8, <2>9
  <2> HIDE DEF stages
  <2> QED
    BY <2>10, CommitKeeps
<1> QED
  BY <1>2, <1>3

LEMMA RevokeStep ==
    ASSUME Good(db), faults \in 0..MaxFaults, NEW u \in UserId, Revoke(u)
    PROVE  Kept
<1> DEFINE e == Expire(db, u)
<1>1. Good(db) /\ Follows(db, db) /\ Good(e) /\ Follows(db, e)
  BY FollowsItself, ExpireGood
<1>2. Commit(<<db, e>>)
  BY DEF Revoke
<1> HIDE DEF e
<1>3. Safe(<<db, e>>) /\ Len(<<db, e>>) = 2
  BY <1>1 DEF Safe
<1> DEFINE stages == <<db, e>>
<1>4. Len(stages) \in Nat \ {0} /\ Safe(stages) /\ Commit(stages)
  BY <1>2, <1>3
<1> HIDE DEF stages
<1> QED
  BY <1>4, CommitKeeps

-----------------------------------------------------------------------------
(* The theorems *)

Inv == TypeOK /\ OneApiSession

(* The invariant is a good database and the ranges of the rest.            *)
LEMMA InvIsGood == Inv <=> /\ Good(db)
                           /\ codes \in UNION {[C -> Time] : C \in SUBSET Code}
                           /\ now \in 0..MaxTime /\ faults \in 0..MaxFaults
                           /\ login \in [Login -> Discord \union {Nobody}]
  BY DEF Inv, TypeOK, OneApiSession, Good, OneApi

LEMMA InvHolds ==
    ASSUME Good(db)', codes' \in UNION {[C -> Time] : C \in SUBSET Code},
           now' \in 0..MaxTime, faults' \in 0..MaxFaults,
           login' \in [Login -> Discord \union {Nobody}]
    PROVE  Inv'
  BY DEF Inv, TypeOK, OneApiSession, Good, OneApi

LEMMA InitGood == Init => Inv
<1> SUFFICES ASSUME Init PROVE Inv
  OBVIOUS
<1> DEFINE d == [created |-> 0, users |-> {}, discord |-> << >>, bots |-> {},
                 issued |-> 0, sessions |-> {}]
<1>1. << >> = [x \in {} |-> 0]
  OBVIOUS
<1>2. \A S : << >> \in [{} -> S]
  BY <1>1
<1>3. d.discord \in UNION {[A -> UserId] : A \in SUBSET Discord}
  BY <1>2
<1>4. codes \in UNION {[C -> Time] : C \in SUBSET Code}
  BY <1>2 DEF Init
<1>5. d \in Database
  BY <1>3, MaximaAssumption DEF Database
<1>6. Range(d.discord) = {} /\ IsInjective(d.discord)
  BY <1>1 DEF Range, IsInjective
<1>7. Good(d)
  BY <1>5, <1>6 DEF Good, DatabaseOK, OneApi
<1>8. /\ now \in 0..MaxTime /\ faults \in 0..MaxFaults
      /\ login \in [Login -> Discord \union {Nobody}]
  BY MaximaAssumption DEF Init
<1> QED
  BY <1>4, <1>7, <1>8, InvIsGood DEF Init

(* Every request keeps the database good; what leaves it alone changes     *)
(* nothing that a token's validity rests on but the clock.                 *)
LEMMA NextKeeps ==
    ASSUME Inv, Next
    PROVE  Inv' /\ Follows(db, db')
           /\ (now' = now \/ (db' = db /\ now' = now + 1))
<1>1. /\ Good(db) /\ codes \in UNION {[C -> Time] : C \in SUBSET Code}
      /\ now \in 0..MaxTime /\ faults \in 0..MaxFaults
      /\ login \in [Login -> Discord \union {Nobody}]
  BY InvIsGood
<1> DEFINE CodesOK == codes' \in UNION {[C -> Time] : C \in SUBSET Code}
           LoginOK == login' \in [Login -> Discord \union {Nobody}]
           Goal == /\ Kept /\ CodesOK /\ LoginOK /\ now' \in 0..MaxTime
                   /\ (now' = now \/ (db' = db /\ now' = now + 1))
<1>2. ASSUME UNCHANGED <<db, faults>> PROVE Kept
  BY <1>1, <1>2, FollowsItself DEF Kept
<1>3. ASSUME CreateNewUserBot PROVE Goal
  <2>1. Kept
    BY <1>1, <1>3, CreateNewUserBotStep
  <2> QED
    BY <1>1, <1>3, <2>1 DEF CreateNewUserBot
<1>4. ASSUME NEW u \in UserId, LoginWithBot(u) PROVE Goal
  <2>1. Kept
    BY <1>1, <1>4, LoginWithBotStep
  <2> QED
    BY <1>1, <1>4, <2>1 DEF LoginWithBot
<1>5. ASSUME NEW u \in UserId, Revoke(u) PROVE Goal
  <2>1. Kept
    BY <1>1, <1>5, RevokeStep
  <2> QED
    BY <1>1, <1>5, <2>1 DEF Revoke
<1>6. ASSUME NEW l \in Login, LoginWithDiscord(l) PROVE Goal
  <2>1. login[l] \in Discord
    BY <1>1, <1>6 DEF LoginWithDiscord
  <2>2. Kept
    BY <1>1, <1>6, <2>1, LoginWithDiscordStep
  <2> QED
    BY <1>1, <1>6, <2>2 DEF LoginWithDiscord, Forgotten
<1>7. ASSUME NEW l \in Login, LoginRefused(l) PROVE Goal
  BY <1>1, <1>2, <1>7 DEF LoginRefused, Forgotten
<1>8. ASSUME NEW l \in Login, NEW a \in Discord, LoginBegin(l, a) PROVE Goal
  BY <1>1, <1>2, <1>8 DEF LoginBegin
<1>9. ASSUME NEW c \in Code, RegisterAccessCode(c) PROVE Goal
  <2>1. codes' \in [DOMAIN codes \union {c} -> Time] /\ DOMAIN codes \subseteq Code
    <3>1. codes \in [DOMAIN codes -> Time] /\ DOMAIN codes \subseteq Code
      BY <1>1
    <3>2. now + SessionLength["human"] \in Time
      BY <1>1, LengthAssumption, MaximaAssumption DEF Time, Kind
    <3> QED
      BY <1>9, <3>1, <3>2 DEF RegisterAccessCode, Registered
  <2>2. CodesOK
    BY <2>1
  <2> QED
    BY <1>1, <1>2, <1>9, <2>2 DEF RegisterAccessCode
<1>10. ASSUME NEW c \in Code, RetrieveAccessCode(c) PROVE Goal
  <2>1. codes' \in [DOMAIN codes \ {c} -> Time] /\ DOMAIN codes \subseteq Code
    BY <1>1, <1>10 DEF RetrieveAccessCode
  <2>2. CodesOK
    BY <2>1
  <2> QED
    BY <1>1, <1>2, <1>10, <2>2 DEF RetrieveAccessCode
<1>11. ASSUME Restart PROVE Goal
  BY <1>1, <1>2, <1>11 DEF Restart
<1>12. ASSUME Tick PROVE Goal
  BY <1>1, <1>2, <1>12, MaximaAssumption DEF Tick
<1>13. Goal
  BY <1>3, <1>4, <1>5, <1>6, <1>7, <1>8, <1>9, <1>10, <1>11, <1>12 DEF Next
<1>14. Good(db)'
  BY <1>13 DEF Kept
<1> QED
  BY <1>13, <1>14, InvHolds DEF Kept

LEMMA InvInductive == Inv /\ [Next]_vars => Inv'
<1> SUFFICES ASSUME Inv, [Next]_vars PROVE Inv'
  OBVIOUS
<1>1. CASE Next
  BY <1>1, NextKeeps
<1>2. CASE UNCHANGED vars
  BY <1>2 DEF vars, Inv, TypeOK, OneApiSession, DatabaseOK
<1> QED
  BY <1>1, <1>2

(* The inductive invariant of the requests of AuthApi, which may fail      *)
(* between two transactions of UserStore and SessionStore.                 *)
THEOREM Invariant == Spec => []Inv
  BY InitGood, InvInductive, PTL DEF Spec

(* Every variable has its type and the constraints of the tables hold,     *)
(* wherever a request of UserStore and SessionStore stops.                 *)
THEOREM TypeCorrect == Spec => []TypeOK
<1>1. Inv => TypeOK
  BY DEF Inv
<1> QED
  BY <1>1, Invariant, PTL

(* start_api_session leaves a bot one session, however its logins fail.    *)
THEOREM OneApiSessionCorrect == Spec => []OneApiSession
<1>1. Inv => OneApiSession
  BY DEF Inv
<1> QED
  BY <1>1, Invariant, PTL

(* A revoked or expired token never counts again, whoever logs in and      *)
(* whenever requests fail: tokens are drawn once and no row is renewed.    *)
THEOREM InactiveForEverCorrect == Spec => InactiveForEver
<1> DEFINE Step == \A t \in Token : t <= db.issued /\ ~Active(t) => ~Active(t)'
<1>1. Inv /\ [Next]_vars => [Step]_vars
  <2> SUFFICES ASSUME Inv, Next, NEW t \in Token, t <= db.issued, Active(t)'
               PROVE  Active(t)
    BY DEF vars
  <2>1. Follows(db, db') /\ (now' = now \/ (db' = db /\ now' = now + 1))
    BY NextKeeps
  <2>2. CASE now' = now
    <3>1. t \in 1..db.issued
      <4>1. db.issued \in Nat /\ MaxTokens \in Nat
        BY GoodFields, InvIsGood
      <4> QED
        BY <4>1 DEF Token
    <3>2. Counts(db', t)
      BY <2>2 DEF Active, Counts
    <3> QED
      BY <2>1, <3>1, <3>2 DEF Follows, Active, Counts
  <2>3. CASE db' = db /\ now' = now + 1
    <3>1. PICK s \in db.sessions : s.token = t /\ now + 1 <= s.until
      BY <2>3 DEF Active
    <3>2. s \in Session /\ now \in Nat
      BY <3>1, InvIsGood, GoodFields
    <3>3. s.until \in Int
      BY <3>2, LengthAssumption, MaximaAssumption DEF Session, Time, Kind
    <3> QED
      BY <3>1, <3>2, <3>3 DEF Active
  <2> QED
    BY <2>1, <2>2, <2>3
<1> QED
  BY <1>1, Invariant, PTL DEF Spec, InactiveForEver

(* create_discord_user never links an account anew: neither two first      *)
(* logins at a time nor a retry after a failure change whose it is.        *)
THEOREM AccountKeepsItsUserCorrect == Spec => AccountKeepsItsUser
<1> DEFINE Step == \A a \in DOMAIN db.discord :
                       a \in DOMAIN db'.discord /\ db'.discord[a] = db.discord[a]
<1>1. Inv /\ [Next]_vars => [Step]_vars
  BY NextKeeps DEF Follows, vars
<1> QED
  BY <1>1, Invariant, PTL DEF Spec, AccountKeepsItsUser

-----------------------------------------------------------------------------
(* Users nobody can log in as *)

Stranded(d) == d.users \ (d.bots \union Range(d.discord))

(* Sessions make and strand no user. *)
LEMMA SessionsStrandNobody ==
    ASSUME NEW d \in Database, NEW u, NEW kind
    PROVE  /\ Stranded(Expire(d, u)) = Stranded(d)
           /\ Stranded(StartSession(d, u, kind)) = Stranded(d)
  BY DEF Stranded, Expire, StartSession, Database

(* A user is stranded until it is linked. *)
LEMMA CreatedIsStranded ==
    ASSUME NEW d \in Database
    PROVE  /\ Stranded(CreateUser(d)) \subseteq Stranded(d) \union {d.created + 1}
           /\ CreateUser(d).created = d.created + 1
           /\ CreateUser(d).discord = d.discord
  BY DEF Stranded, CreateUser, Database

LEMMA LinkedIsNotStranded ==
    ASSUME NEW d \in Database, NEW u
    PROVE  /\ Stranded(LinkBot(d, u)) \subseteq Stranded(d) \ {u}
           /\ \A a : a \notin DOMAIN d.discord =>
                 Stranded(LinkDiscord(d, a, u)) \subseteq Stranded(d) \ {u}
<1>1. Stranded(LinkBot(d, u)) \subseteq Stranded(d) \ {u}
  BY DEF Stranded, LinkBot, Database
<1>2. ASSUME NEW a, a \notin DOMAIN d.discord
      PROVE  Stranded(LinkDiscord(d, a, u)) \subseteq Stranded(d) \ {u}
  <2> DEFINE links == [b \in DOMAIN d.discord \union {a} |-> IF b = a THEN u ELSE d.discord[b]]
             e == LinkDiscord(d, a, u)
  <2>1. e.users = d.users /\ e.bots = d.bots /\ e.discord = links
    BY DEF LinkDiscord, Database
  <2>2. links[a] = u /\ DOMAIN links = DOMAIN d.discord \union {a}
        /\ \A b \in DOMAIN d.discord : links[b] = d.discord[b]
    BY <1>2
  <2> HIDE DEF links, e
  <2>3. Range(d.discord) \union {u} \subseteq Range(links)
    BY <2>2 DEF Range
  <2> QED
    BY <2>1, <2>3 DEF Stranded, e
<1> QED
  BY <1>1, <1>2

(* A request strands at most the user it made, and only when it fails.     *)
StrandsAtMostOne ==
    \/ Stranded(db') \subseteq Stranded(db) /\ faults' \in {faults, faults + 1}
    \/ \E u : Stranded(db') \subseteq Stranded(db) \union {u} /\ faults' = faults + 1

(* What a request that commits these stages strands. *)
LEMMA CommitStrands ==
    ASSUME NEW stages, Len(stages) \in Nat \ {0}, NEW u, Commit(stages),
           \A i \in 1..Len(stages) : Stranded(stages[i]) \subseteq Stranded(db) \union {u},
           Stranded(stages[Len(stages)]) \subseteq Stranded(db)
    PROVE  StrandsAtMostOne
  BY DEF Commit, StrandsAtMostOne

LEMMA NextStrands ==
    ASSUME Inv, Next
    PROVE  StrandsAtMostOne
<1>1. db \in Database /\ Good(db) /\ faults \in Nat
  BY InvIsGood, MaximaAssumption DEF Good, DatabaseOK
<1>2. CASE CreateNewUserBot
  <2> DEFINE e == CreateUser(db)
             f == LinkBot(e, e.created)
             stages == <<db, e, f>>
  <2>1. e \in Database /\ e.created = db.created + 1
    BY <1>1, <1>2, CreateUserGood DEF CreateNewUserBot, Good, DatabaseOK
  <2>2. Stranded(e) \subseteq Stranded(db) \union {db.created + 1}
    BY <1>1, CreatedIsStranded
  <2>3. Stranded(f) \subseteq Stranded(db)
    <3> HIDE DEF e
    <3> QED
      BY <2>1, <2>2, LinkedIsNotStranded
  <2>4. Commit(stages)
    BY <1>2 DEF CreateNewUserBot
  <2> HIDE DEF e, f
  <2>5. /\ Len(stages) \in Nat \ {0} /\ stages[Len(stages)] = f
        /\ \A i \in 1..Len(stages) : Stranded(stages[i]) \subseteq Stranded(db) \union {db.created + 1}
    BY <2>2, <2>3
  <2> HIDE DEF stages
  <2> QED
    BY <2>3, <2>4, <2>5, CommitStrands
<1>3. ASSUME NEW u \in UserId, LoginWithBot(u) PROVE StrandsAtMostOne
  <2> DEFINE e == Expire(db, u)
             f == StartSession(e, u, "api")
             stages == <<db, e, f>>
  <2>1. e \in Database
    BY <1>1, ExpireGood DEF Good, DatabaseOK
  <2>2. Stranded(e) = Stranded(db) /\ Stranded(f) = Stranded(db)
    <3>1. Stranded(e) = Stranded(db)
      BY <1>1, SessionsStrandNobody
    <3> HIDE DEF e
    <3> QED
      BY <2>1, <3>1, SessionsStrandNobody
  <2>3. Commit(stages)
    BY <1>3 DEF LoginWithBot
  <2> HIDE DEF e, f
  <2>4. /\ Len(stages) \in Nat \ {0} /\ stages[Len(stages)] = f
        /\ \A i \in 1..Len(stages) : Stranded(stages[i]) \subseteq Stranded(db) \union {u}
    BY <2>2
  <2> HIDE DEF stages
  <2> QED
    BY <2>2, <2>3, <2>4, CommitStrands
<1>4. ASSUME NEW u \in UserId, Revoke(u) PROVE StrandsAtMostOne
  <2> DEFINE e == Expire(db, u)
             stages == <<db, e>>
  <2>1. Stranded(e) = Stranded(db)
    BY <1>1, SessionsStrandNobody
  <2>2. Commit(stages)
    BY <1>4 DEF Revoke
  <2> HIDE DEF e
  <2>3. /\ Len(stages) \in Nat \ {0} /\ stages[Len(stages)] = e
        /\ \A i \in 1..Len(stages) : Stranded(stages[i]) \subseteq Stranded(db) \union {u}
    BY <2>1
  <2> HIDE DEF stages
  <2> QED
    BY <2>1, <2>2, <2>3, CommitStrands
<1>5. ASSUME NEW l \in Login, LoginWithDiscord(l) PROVE StrandsAtMostOne
  <2> DEFINE a == login[l]
  <2>1. CASE Known(a)
    <3> DEFINE f == StartSession(db, db.discord[a], "human")
               stages == <<db, f>>
    <3>1. Stranded(f) = Stranded(db)
      BY <1>1, SessionsStrandNobody
    <3>2. Commit(stages)
      BY <1>5, <2>1 DEF LoginWithDiscord
    <3> HIDE DEF f
    <3>3. /\ Len(stages) \in Nat \ {0} /\ stages[Len(stages)] = f
          /\ \A i \in 1..Len(stages) : Stranded(stages[i]) \subseteq Stranded(db) \union {a}
      BY <3>1
    <3> HIDE DEF stages
    <3> QED
      BY <3>1, <3>2, <3>3, CommitStrands
  <2>2. CASE ~Known(a)
    <3> DEFINE e == CreateUser(db)
               f == LinkDiscord(e, a, e.created)
               g == StartSession(f, e.created, "human")
               stages == <<db, e, f, g>>
    <3>1. login[l] \in Discord
      BY <1>5, InvIsGood DEF LoginWithDiscord
    <3>2. /\ e \in Database /\ Good(e) /\ e.created = db.created + 1 /\ e.discord = db.discord
          /\ db.created + 1 \notin Range(db.discord)
      BY <1>1, <1>5, <2>2, CreateUserGood DEF LoginWithDiscord, Good, DatabaseOK
    <3>3. Stranded(e) \subseteq Stranded(db) \union {db.created + 1}
      BY <1>1, CreatedIsStranded
    <3>4. e.created \in e.users \ Range(e.discord)
      <4>1. db.created \in Nat /\ e.users = 1..e.created
        BY <1>1, <3>2, GoodFields
      <4> QED
        BY <3>2, <4>1
    <3>5. a \notin DOMAIN e.discord
      BY <2>2, <3>2 DEF Known
    <3> HIDE DEF e
    <3>6. f \in Database /\ Stranded(f) \subseteq Stranded(db)
      <4>1. Good(f)
        BY <3>1, <3>2, <3>4, <3>5, LinkDiscordGood
      <4>2. Stranded(f) \subseteq Stranded(e) \ {e.created}
        BY <3>2, <3>5, LinkedIsNotStranded
      <4> QED
        BY <3>2, <3>3, <4>1, <4>2 DEF Good, DatabaseOK
    <3> HIDE DEF f
    <3>7. Stranded(g) \subseteq Stranded(db)
      BY <3>6, SessionsStrandNobody
    <3>8. Commit(stages)
      BY <1>5, <2>2 DEF LoginWithDiscord, e, f
    <3> HIDE DEF g
    <3>9. /\ Len(stages) \in Nat \ {0} /\ stages[Len(stages)] = g
          /\ \A i \in 1..Len(stages) : Stranded(stages[i]) \subseteq Stranded(db) \union {db.created + 1}
      BY <3>3, <3>6, <3>7
    <3> HIDE DEF stages
    <3> QED
      BY <3>7, <3>8, <3>9, CommitStrands
  <2> QED
    BY <2>1, <2>2
<1>6. ASSUME UNCHANGED <<db, faults>> PROVE StrandsAtMostOne
  BY <1>6 DEF StrandsAtMostOne
<1> QED
  BY <1>2, <1>3, <1>4, <1>5, <1>6
     DEF Next, LoginRefused, LoginBegin, RegisterAccessCode, RetrieveAccessCode, Restart, Tick

(* Each failure strands at most one user, and nothing else strands any:    *)
(* create_new_user_bot and the first login with Discord make a user and    *)
(* link it in transactions of their own.                                   *)
THEOREM StrandedOnlyByFailureCorrect == Spec => []StrandedOnlyByFailure
<1>1. Init => StrandedOnlyByFailure
  <2> SUFFICES ASSUME Init PROVE StrandedOnlyByFailure
    OBVIOUS
  <2>1. db.users \ (db.bots \union Range(db.discord)) = {} /\ faults = 0
    BY DEF Init
  <2> QED
    BY <2>1, FS_EmptySet DEF StrandedOnlyByFailure
<1>2. Inv /\ StrandedOnlyByFailure /\ [Next]_vars => StrandedOnlyByFailure'
  <2> SUFFICES ASSUME Inv, StrandedOnlyByFailure, [Next]_vars PROVE StrandedOnlyByFailure'
    OBVIOUS
  <2>1. CASE UNCHANGED vars
    BY <2>1 DEF vars, StrandedOnlyByFailure
  <2>2. CASE Next
    <3>1. StrandsAtMostOne
      BY <2>2, NextStrands
    <3>2. IsFiniteSet(Stranded(db)) /\ Cardinality(Stranded(db)) \in Nat /\ faults \in Nat
      <4>1. db.users = 1..db.created /\ db.created \in Int /\ faults \in Nat
        BY InvIsGood, GoodFields, MaximaAssumption
      <4>2. IsFiniteSet(db.users)
        BY <4>1, FS_Interval
      <4> QED
        BY <4>1, <4>2, FS_Subset, FS_CardinalityType DEF Stranded
    <3>3. Cardinality(Stranded(db)) <= faults
      BY DEF StrandedOnlyByFailure, Stranded
    <3>4. Cardinality(Stranded(db')) <= faults'
      <4>1. CASE Stranded(db') \subseteq Stranded(db) /\ faults' \in {faults, faults + 1}
        <5>1. Cardinality(Stranded(db')) <= Cardinality(Stranded(db)) /\ Cardinality(Stranded(db')) \in Nat
          BY <3>2, <4>1, FS_Subset, FS_CardinalityType
        <5> QED
          BY <3>2, <3>3, <4>1, <5>1
      <4>2. CASE \E u : Stranded(db') \subseteq Stranded(db) \union {u} /\ faults' = faults + 1
        <5>1. PICK u : Stranded(db') \subseteq Stranded(db) \union {u} /\ faults' = faults + 1
          BY <4>2
        <5>2. /\ IsFiniteSet(Stranded(db) \union {u})
              /\ Cardinality(Stranded(db) \union {u}) <= Cardinality(Stranded(db)) + 1
          BY <3>2, FS_AddElement
        <5>3. /\ Cardinality(Stranded(db')) <= Cardinality(Stranded(db) \union {u})
              /\ Cardinality(Stranded(db')) \in Nat /\ Cardinality(Stranded(db) \union {u}) \in Nat
          BY <5>1, <5>2, FS_Subset, FS_CardinalityType
        <5> QED
          BY <3>2, <3>3, <5>1, <5>2, <5>3
      <4> QED
        BY <3>1, <4>1, <4>2 DEF StrandsAtMostOne
    <3> QED
      BY <3>4 DEF StrandedOnlyByFailure, Stranded
  <2> QED
    BY <2>1, <2>2
<1> QED
  BY <1>1, <1>2, Invariant, PTL DEF Spec
=============================================================================
