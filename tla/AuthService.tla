----------------------------- MODULE AuthService -----------------------------
(***************************************************************************)
(* The authentication backend: apps/backend/src/auth, with the User and    *)
(* RefreshToken tables it keeps in PostgreSQL.                              *)
(*                                                                         *)
(* Every HTTP request is a process.  A handler runs without interruption   *)
(* from one await to the next, so a request has one action per database    *)
(* statement (and one for each await whose result depends on the clock),   *)
(* and req[r] holds the handler's local variables in between.  Passwords,  *)
(* token secrets and argon2 hashes are abstracted to whether a             *)
(* verification succeeds.                                                  *)
(***************************************************************************)
EXTENDS Naturals, FiniteSets

CONSTANTS
    Requests,     \* requests the backend serves at the same time
    UserIds,      \* the uuids of User rows
    Emails,       \* the addresses people register with
    TokenIds,     \* the uuids of RefreshToken rows
    None,         \* no user, no token, no address
    AccessTTL,    \* JWT_ACCESS_TTL
    RefreshTTL,   \* JWT_REFRESH_TTL
    MaxClock      \* bound: the clock stops here

ASSUME NoneAssumption ==
    None \notin UserIds /\ None \notin TokenIds /\ None \notin Emails
ASSUME TTLAssumption ==
    AccessTTL \in Nat \ {0} /\ RefreshTTL \in Nat \ {0} /\ MaxClock \in Nat

VARIABLES
    users,     \* the User table: users[u] is the row with id u
    tokens,    \* the RefreshToken table: tokens[t] is the row with id t
    jwts,      \* the access tokens returned to clients so far
    clock,     \* Date.now() of the backend
    req,       \* req[r]: the local variables of the handler serving r
    parent,    \* history: the token a token was rotated from, None for a login
    family     \* history: the token whose login opened the token's session

table == <<users, tokens, jwts>>
history == <<parent, family>>
vars == <<users, tokens, jwts, clock, req, parent, family>>

(***************************************************************************)
(* Rows.  A uuid is "unused" until its row is inserted and never used      *)
(* again after the row is "deleted".  A RefreshToken row with revokedAt =  *)
(* null is "live", with revokedAt set "revoked".                           *)
(***************************************************************************)
UserRow == [status : {"unused", "present", "deleted"}, email : Emails \cup {None}]
TokenStatus == {"unused", "live", "revoked", "deleted"}
TokenRow == [status : TokenStatus, userId : UserIds \cup {None},
             expiresAt : 0 .. (MaxClock + RefreshTTL)]
Jwt == [sub : UserIds, exp : 0 .. (MaxClock + AccessTTL)]

Steps == {"idle", "registerFind", "registerCreate", "loginFind",
          "refreshFind", "refreshCheck", "refreshRevoke", "refreshUser",
          "issueSign", "issueCreate", "logoutRevoke", "meFind"}
Ops == {"none", "register", "login", "refresh", "logout", "me"}
\* "down": the client got no answer of the handler (a database error in the middle
\* of it, or the process died).
Replies == {"none", "200", "201", "401", "409", "500", "down"}

Request == [op : Ops, step : Steps, reply : Replies,
            email : Emails \cup {None}, token : TokenIds \cup {None},
            user : UserIds \cup {None},
            seen : TokenStatus,                   \* the row as refreshFind read it
            exp : 0 .. (MaxClock + AccessTTL),    \* exp claim of the signed JWT
            dead : BOOLEAN]                       \* history: token dead on arrival

NewRequest(op, step, e, t) ==
    [op |-> op, step |-> step, reply |-> "none", email |-> e, token |-> t,
     user |-> None, seen |-> "unused", exp |-> 0, dead |-> FALSE]

Issued == {t \in TokenIds : tokens[t].status # "unused"}
Unused == {t \in TokenIds : tokens[t].status = "unused"}
Present(u) == users[u].status = "present"
At(r, step) == req[r].step = step

\* A refresh past the conditional revocation: it alone may replace the token.
Rotating(r) ==
    req[r].op = "refresh" /\ req[r].step \in {"refreshUser", "issueSign", "issueCreate"}

Init ==
    /\ users = [u \in UserIds |-> [status |-> "unused", email |-> None]]
    /\ tokens = [t \in TokenIds |->
                    [status |-> "unused", userId |-> None, expiresAt |-> 0]]
    /\ jwts = {}
    /\ clock = 0
    /\ req = [r \in Requests |-> NewRequest("none", "idle", None, None)]
    /\ parent = [t \in TokenIds |-> None]
    /\ family = [t \in TokenIds |-> None]

-----------------------------------------------------------------------------
(* Small conditions and updates of the handlers.                           *)

Goto(r, step) == req' = [req EXCEPT ![r].step = step]

\* The handler returns or throws: its local variables are gone, the reply stays (and,
\* for LogoutSpendsToken, the token a logout was about).
Answer(r, status) ==
    req' = [req EXCEPT ![r] =
        [NewRequest(req[r].op, "idle", None, IF req[r].op = "logout" THEN req[r].token ELSE None)
            EXCEPT !.reply = status]]

Arrive(r, q) == At(r, "idle") /\ req' = [req EXCEPT ![r] = q]

\* Bound: a request that may insert a RefreshToken row starts only while an id is
\* left for it, so that running out of ids never stops a handler half way.
Minting == {"loginFind", "refreshFind", "refreshCheck", "refreshRevoke", "refreshUser",
            "issueSign", "issueCreate"}
IdLeft == Cardinality({r \in Requests : req[r].step \in Minting}) < Cardinality(Unused)
UserIdLeft ==
    Cardinality({r \in Requests : req[r].step \in {"registerFind", "registerCreate"}})
        < Cardinality({u \in UserIds : users[u].status = "unused"})

EmailTaken(e) == \E u \in UserIds : Present(u) /\ users[u].email = e

\* Mutant: updateMany forgets revokedAt: null.
RevokeMatchesAnyState(t) == tokens[t].status \in {"live", "revoked"}

\* where: { id, revokedAt: null } of the two updateMany calls.
RevokeMatches(t) == tokens[t].status = "live"
Revoke(t) ==
    tokens' = IF RevokeMatches(t) THEN [tokens EXCEPT ![t].status = "revoked"] ELSE tokens

Expired(t) == tokens[t].expiresAt < clock

\* Mutant: the check forgets expiresAt.
RefreshAllowedForever(r) == req[r].seen = "live"

\* The synchronous part of the check after refreshFind, on the row as it was read.
RefreshAllowed(r) == req[r].seen = "live" /\ ~Expired(req[r].token)

\* Mutant: RefreshToken.userId has no foreign key.
OwnerUnchecked(u) == u \in UserIds

\* The foreign key of RefreshToken.userId at the INSERT.
OwnerExists(u) == Present(u)

\* Mutant: the access token is signed with the lifetime of a refresh token.
AccessExpirySwapped == clock + RefreshTTL

AccessExpiry == clock + AccessTTL
RefreshExpiry == clock + RefreshTTL

-----------------------------------------------------------------------------
(* POST /auth/register: findUnique by email, argon2.hash, INSERT.           *)

StartRegister(r, e) ==
    /\ UserIdLeft
    /\ Arrive(r, NewRequest("register", "registerFind", e, None))
    /\ UNCHANGED <<table, clock, history>>

RegisterFind(r) ==
    /\ At(r, "registerFind")
    /\ IF EmailTaken(req[r].email) THEN Answer(r, "409") ELSE Goto(r, "registerCreate")
    /\ UNCHANGED <<table, clock, history>>

\* Mutant: User.email has no unique index.
RegisterCreateUnindexed(r) ==
    /\ At(r, "registerCreate")
    /\ \E u \in UserIds :
        /\ users[u].status = "unused"
        /\ users' = [users EXCEPT ![u] = [status |-> "present", email |-> req[r].email]]
    /\ Answer(r, "201")
    /\ UNCHANGED <<tokens, jwts, clock, history>>

RegisterCreate(r) ==
    /\ At(r, "registerCreate")
    /\ ~EmailTaken(req[r].email)
    /\ \E u \in UserIds :
        /\ users[u].status = "unused"
        /\ users' = [users EXCEPT ![u] = [status |-> "present", email |-> req[r].email]]
    /\ Answer(r, "201")
    /\ UNCHANGED <<tokens, jwts, clock, history>>

\* Another registration inserted the address after registerFind: the unique index
\* refuses the row, and nothing turns the database error into a ConflictException.
RegisterDuplicate(r) ==
    /\ At(r, "registerCreate")
    /\ EmailTaken(req[r].email)
    /\ Answer(r, "500")
    /\ UNCHANGED <<table, clock, history>>

-----------------------------------------------------------------------------
(* POST /auth/login: validateUser, then issueTokens.                        *)

StartLogin(r, e) ==
    /\ IdLeft
    /\ Arrive(r, NewRequest("login", "loginFind", e, None))
    /\ UNCHANGED <<table, clock, history>>

LoginFind(r) ==
    /\ At(r, "loginFind")
    /\ \E u \in UserIds :
        /\ Present(u) /\ users[u].email = req[r].email
        /\ req' = [req EXCEPT ![r].step = "issueSign", ![r].user = u]
    /\ UNCHANGED <<table, clock, history>>

\* No such user, or argon2.verify refuses the password (any password may be wrong).
LoginReject(r) ==
    /\ At(r, "loginFind")
    /\ Answer(r, "401")
    /\ UNCHANGED <<table, clock, history>>

-----------------------------------------------------------------------------
(* POST /auth/refresh: find, check, revoke conditionally, find the user,    *)
(* issueTokens.                                                             *)

\* The cookie holds a token handed out earlier; it may be spent or expired by now.
StartRefresh(r, t) ==
    /\ IdLeft
    /\ t \in Issued
    /\ Arrive(r, [NewRequest("refresh", "refreshFind", None, t)
                    EXCEPT !.dead = ~RevokeMatches(t) \/ Expired(t)])
    /\ UNCHANGED <<table, clock, history>>

\* Mutant: the user of the new pair comes from an access token sent along.
RefreshFindBearer(r) ==
    /\ At(r, "refreshFind")
    /\ \E j \in jwts :
        req' = [req EXCEPT ![r].step = "refreshCheck",
                           ![r].seen = tokens[req[r].token].status, ![r].user = j.sub]
    /\ UNCHANGED <<table, clock, history>>

RefreshFind(r) ==
    /\ At(r, "refreshFind")
    /\ LET row == tokens[req[r].token] IN
        req' = [req EXCEPT ![r].step = "refreshCheck",
                           ![r].seen = row.status, ![r].user = row.userId]
    /\ UNCHANGED <<table, clock, history>>

RefreshCheck(r) ==
    /\ At(r, "refreshCheck")
    /\ RefreshAllowed(r)
    /\ Goto(r, "refreshRevoke")
    /\ UNCHANGED <<table, clock, history>>

\* No row, revoked, expired, or argon2.verify refuses the secret (any may be wrong).
RefreshReject(r) ==
    /\ At(r, "refreshCheck")
    /\ Answer(r, "401")
    /\ UNCHANGED <<table, clock, history>>

\* updateMany matched the row: this request, and no other, rotates the token.
RefreshRevoke(r) ==
    /\ At(r, "refreshRevoke")
    /\ RevokeMatches(req[r].token)
    /\ tokens' = [tokens EXCEPT ![req[r].token].status = "revoked"]
    /\ Goto(r, "refreshUser")
    /\ UNCHANGED <<users, jwts, clock, history>>

\* Mutant: the affected count is ignored.
RefreshLoseUnchecked(r) ==
    /\ At(r, "refreshRevoke")
    /\ ~RevokeMatches(req[r].token)
    /\ Goto(r, "refreshUser")
    /\ UNCHANGED <<table, clock, history>>

\* Mutant: the rejection of the loser is never sent.
RefreshLoseSilent(r) == At(r, "refreshRevoke") /\ FALSE /\ UNCHANGED vars

\* updateMany matched no row: somebody else revoked (or deleted) it first.
RefreshLose(r) ==
    /\ At(r, "refreshRevoke")
    /\ ~RevokeMatches(req[r].token)
    /\ Answer(r, "401")
    /\ UNCHANGED <<table, clock, history>>

RefreshUser(r) ==
    /\ At(r, "refreshUser")
    /\ IF Present(req[r].user) THEN Goto(r, "issueSign") ELSE Answer(r, "401")
    /\ UNCHANGED <<table, clock, history>>

-----------------------------------------------------------------------------
(* issueTokens, the tail of login and refresh.                              *)

IssueSign(r) ==
    /\ At(r, "issueSign")
    /\ req' = [req EXCEPT ![r].step = "issueCreate", ![r].exp = AccessExpiry]
    /\ UNCHANGED <<table, clock, history>>

\* The INSERT of the new row, and with it the answer that carries both tokens.
IssueCreate(r) ==
    /\ At(r, "issueCreate")
    /\ OwnerExists(req[r].user)
    /\ \E t \in Unused :
        /\ tokens' = [tokens EXCEPT ![t] =
              [status |-> "live", userId |-> req[r].user, expiresAt |-> RefreshExpiry]]
        /\ parent' = [parent EXCEPT ![t] = req[r].token]
        /\ family' = [family EXCEPT ![t] =
              IF req[r].token = None THEN t ELSE family[req[r].token]]
    /\ jwts' = jwts \cup {[sub |-> req[r].user, exp |-> req[r].exp]}
    /\ Answer(r, "201")
    /\ UNCHANGED <<users, clock>>

\* The user was deleted since it was read: the foreign key refuses the row.
IssueOrphan(r) ==
    /\ At(r, "issueCreate")
    /\ ~OwnerExists(req[r].user)
    /\ Answer(r, "500")
    /\ UNCHANGED <<table, clock, history>>

-----------------------------------------------------------------------------
(* POST /auth/logout and GET /auth/me, behind JwtAuthGuard.                 *)

\* passport-jwt accepts an access token by its signature and its exp claim alone.
JwtValid(j) == clock < j.exp

StartLogout(r, t) ==
    /\ t \in Issued
    /\ \E j \in jwts : JwtValid(j)
    /\ Arrive(r, NewRequest("logout", "logoutRevoke", None, t))
    /\ UNCHANGED <<table, clock, history>>

\* Mutant: logout answers without revoking the row.
LogoutCookieOnly(r) ==
    /\ At(r, "logoutRevoke")
    /\ Answer(r, "201")
    /\ UNCHANGED <<table, clock, history>>

\* updateMany; the number of rows it matched is not looked at.
LogoutRevoke(r) ==
    /\ At(r, "logoutRevoke")
    /\ Revoke(req[r].token)
    /\ Answer(r, "201")
    /\ UNCHANGED <<users, jwts, clock, history>>

StartMe(r) ==
    /\ \E j \in jwts :
        /\ JwtValid(j)
        /\ Arrive(r, [NewRequest("me", "meFind", None, None) EXCEPT !.user = j.sub])
    /\ UNCHANGED <<table, clock, history>>

MeFind(r) ==
    /\ At(r, "meFind")
    /\ Answer(r, IF Present(req[r].user) THEN "200" ELSE "401")
    /\ UNCHANGED <<table, clock, history>>

-----------------------------------------------------------------------------
(* Requests answered before any statement: no parsable refresh cookie, or   *)
(* no valid access token in front of a guarded route.                       *)

Refuse(r, op, status) ==
    /\ Arrive(r, [NewRequest(op, "idle", None, None) EXCEPT !.reply = status])
    /\ UNCHANGED <<table, clock, history>>

RefreshWithoutCookie(r) == Refuse(r, "refresh", "401")
LogoutWithoutCookie(r) == (\E j \in jwts : JwtValid(j)) /\ Refuse(r, "logout", "201")
GuardRejects(r) == \E op \in {"logout", "me"} : Refuse(r, op, "401")

-----------------------------------------------------------------------------
(* The environment.                                                         *)

\* A statement fails, or the process dies with the request in flight: what was
\* committed stays, the rest of the handler does not run.
Abort(r) ==
    /\ ~At(r, "idle")
    /\ Answer(r, "down")
    /\ UNCHANGED <<table, clock, history>>

\* An operator deletes a User row; ON DELETE CASCADE takes the user's tokens.
DeleteUser(u) ==
    /\ Present(u)
    /\ users' = [users EXCEPT ![u].status = "deleted"]
    /\ tokens' = [t \in TokenIds |->
          IF tokens[t].userId = u THEN [tokens[t] EXCEPT !.status = "deleted"] ELSE tokens[t]]
    /\ UNCHANGED <<jwts, clock, req, history>>

Tick ==
    /\ clock < MaxClock
    /\ clock' = clock + 1
    /\ UNCHANGED <<table, req, history>>

\* One step of the handler that serves r.
Handle(r) ==
    \/ RegisterFind(r) \/ RegisterCreate(r) \/ RegisterDuplicate(r)
    \/ LoginFind(r) \/ LoginReject(r)
    \/ RefreshFind(r) \/ RefreshCheck(r) \/ RefreshReject(r)
    \/ RefreshRevoke(r) \/ RefreshLose(r) \/ RefreshUser(r)
    \/ IssueSign(r) \/ IssueCreate(r) \/ IssueOrphan(r)
    \/ LogoutRevoke(r) \/ MeFind(r)

\* A request reaches the backend.
Receive(r) ==
    \/ \E e \in Emails : StartRegister(r, e) \/ StartLogin(r, e)
    \/ \E t \in TokenIds : StartRefresh(r, t) \/ StartLogout(r, t)
    \/ StartMe(r)
    \/ RefreshWithoutCookie(r) \/ LogoutWithoutCookie(r) \/ GuardRejects(r)

Next ==
    \/ \E r \in Requests : Receive(r) \/ Handle(r) \/ Abort(r)
    \/ \E u \in UserIds : DeleteUser(u)
    \/ Tick

Spec == Init /\ [][Next]_vars

\* The event loop and the database serve every request they have accepted.
FairSpec == Spec /\ \A r \in Requests : WF_vars(Handle(r))

-----------------------------------------------------------------------------
(* Sessions, as the promise of SessionFamilies sees them.                   *)

Usable == [f \in TokenIds |->
              {t \in TokenIds : tokens[t].status = "live" /\ family[t] = f}]
RotatingFamilies == {family[req[r].token] : r \in {q \in Requests : Rotating(q)}}

Promise == INSTANCE SessionFamilies
             WITH issued <- Issued, usable <- Usable, rotating <- RotatingFamilies

(***************************************************************************)
(* Properties.                                                             *)
(***************************************************************************)

Types ==
    /\ users \in [UserIds -> UserRow]
    /\ tokens \in [TokenIds -> TokenRow]
    /\ jwts \subseteq Jwt
    /\ clock \in 0 .. MaxClock
    /\ req \in [Requests -> Request]
    /\ parent \in [TokenIds -> TokenIds \cup {None}]
    /\ family \in [TokenIds -> TokenIds \cup {None}]

\* What is signed or inserted never has more than its own TTL before it, now or later.
Lifetimes ==
    /\ \A j \in jwts : j.exp <= clock + AccessTTL
    /\ \A r \in Requests : req[r].exp <= clock + AccessTTL
    /\ \A t \in TokenIds : tokens[t].expiresAt <= clock + RefreshTTL

\* The rows and the handlers' local variables keep their types, and no token lives longer
\* than its own TTL: from the moment it is signed or inserted on, an access token is
\* accepted for AccessTTL at the most and a refresh token for RefreshTTL.
TypeOK == Types /\ Lifetimes

\* Rotation is single use: whatever the requests that bear the same refresh token do
\* between their reads and their writes, at most one successor is ever minted from it.
RotationMintsOnce ==
    \A a, b \in Issued : parent[a] = parent[b] /\ parent[a] # None => a = b

\* A session never has two ways on: at most one of its tokens is live or one rotation
\* is in flight, so a replayed or doubled refresh cannot fork it.
SessionHasOneToken ==
    /\ \A a, b \in Issued :
        tokens[a].status = "live" /\ tokens[b].status = "live" /\ family[a] = family[b] => a = b
    /\ \A r \in Requests, t \in Issued :
        Rotating(r) /\ tokens[t].status = "live" => family[req[r].token] # family[t]
    /\ \A q, r \in Requests :
        Rotating(q) /\ Rotating(r) /\ family[req[q].token] = family[req[r].token] => q = r

\* A session belongs to one user from its login on: the user a rotation read stays the
\* owner of every token it mints, whichever users come and go meanwhile.
SessionKeepsUser ==
    /\ \A a, b \in Issued : family[a] = family[b] => tokens[a].userId = tokens[b].userId
    /\ \A r \in Requests : Rotating(r) => req[r].user = tokens[req[r].token].userId

\* Two registrations of one address never both succeed, although each of them looks
\* the address up before the other has inserted it.
OneUserPerEmail ==
    \A u, v \in UserIds :
        Present(u) /\ Present(v) /\ users[u].email = users[v].email => u = v

\* A refresh token that was spent, deleted or expired when the request arrived never
\* gets past the gate, however the row changes while the request is served.
DeadRefreshRejected ==
    \A r \in Requests : req[r].dead => ~Rotating(r)

\* When logout answers, the token it was given is spent, also when a rotation or
\* another logout got to the row first.
LogoutSpendsToken ==
    \A r \in Requests :
        req[r].op = "logout" /\ req[r].reply = "201" /\ req[r].token # None
            => tokens[req[r].token].status # "live"

\* After a user is deleted no request, however long it was in flight, hands out an access
\* token for that user, or inserts a refresh token that could fetch one later: neither a
\* login nor a rotation that had read the user before.
DeletedUserGetsNoAccess ==
    [][\A u \in UserIds : users[u].status = "deleted"
          => /\ \A j \in jwts' \ jwts : j.sub # u
             /\ \A t \in TokenIds :
                    tokens[t].status = "unused" /\ tokens'[t].status # "unused"
                        => tokens'[t].userId # u]_vars

\* A session with no live token and no rotation in flight is over for good: no
\* request in flight brings it back.
EndedSessionStaysEnded ==
    [][\A f \in Issued : Usable[f] = {} /\ f \notin RotatingFamilies
          => Usable'[f] = {} /\ f \notin RotatingFamilies']_vars

\* The rows and the handlers implement the promise of SessionFamilies.
KeepsPromise == Promise!Spec

\* Every request the backend accepts is answered.
EveryRequestAnswered ==
    \A r \in Requests : ~At(r, "idle") ~> At(r, "idle")
=============================================================================
