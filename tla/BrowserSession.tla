---------------------------- MODULE BrowserSession ----------------------------
(***************************************************************************)
(* The browser client: apps/frontend (auth store, router guard, login and  *)
(* dashboard views) over packages/api-client.                               *)
(*                                                                         *)
(* The tabs of one browser each have a store of their own and share one    *)
(* refresh cookie.  Every async function of a tab that is awaiting the     *)
(* network is a call; several calls of one tab may be in flight, and their *)
(* answers arrive in any order, late, or never.  The backend is the        *)
(* promise it keeps, SessionFamilies: AuthService is shown to implement    *)
(* it.  An access token carries the name of the refresh token issued with  *)
(* it.                                                                      *)
(***************************************************************************)
EXTENDS Naturals, FiniteSets

CONSTANTS
    Tabs,            \* tabs of the browser
    Calls,           \* async functions in flight at the same time
    Users,           \* people who sign in on this browser
    TokenIds,        \* pairs of tokens the backend can issue
    None,            \* no tab, user, token or call
    Faults,          \* may answers be lost or requests be refused (429, 5xx)?
    CookieHasDomain  \* is COOKIE_DOMAIN a real domain, as production requires?

ASSUME NoneAssumption == None \notin Tabs \cup Calls \cup Users \cup TokenIds
ASSUME SwitchAssumption == Faults \in BOOLEAN /\ CookieHasDomain \in BOOLEAN

VARIABLES
    tab,        \* tab[b]: the Pinia store and the router of tab b
    call,       \* call[c]: the async function c and its request
    cookie,     \* the refresh_token cookie of the browser
    issued, usable, rotating,   \* the backend: see SessionFamilies
    home,       \* the session a token belongs to
    owner,      \* the user of a token's session
    stale,      \* access tokens the guard no longer accepts
    closed,     \* history: sessions ended by a logout, a deletion or by age
    lossy,      \* history: a new cookie was minted and never reached the browser
    loggedOut   \* history: somebody logged out, and nobody signed in since

Backend == INSTANCE SessionFamilies
backend == <<issued, usable, rotating>>
ids == <<home, owner>>
vars == <<tab, call, cookie, backend, ids, stale, closed, lossy, loggedOut>>

Tab == [token : TokenIds \cup {None}, user : Users \cup {None},
        loading : BOOLEAN, error : BOOLEAN,
        route : {"closed", "blank", "login", "dashboard"},
        nav : Calls \cup {None},  \* the call the pending navigation waits for
        busy : Calls \cup {None}, \* onSubmit or onLogout of the view that is mounted
        out : BOOLEAN]            \* history: logged out, no new pair since
Call == [fn : {"none", "restore", "login", "logout", "reload"},
         op : {"none", "refresh", "login", "logout", "me"},
         at : {"idle", "sent", "rotating", "back"},
         tab : Tabs \cup {None}, cookie : TokenIds \cup {None},
         bearer : TokenIds \cup {None}, user : Users \cup {None},
         new : TokenIds \cup {None}, ok : BOOLEAN, heard : BOOLEAN]

Fresh(route) == [token |-> None, user |-> None, loading |-> FALSE, error |-> FALSE,
                 route |-> route, nav |-> None, busy |-> None, out |-> FALSE]
Free == [fn |-> "none", op |-> "none", at |-> "idle", tab |-> None, cookie |-> None,
         bearer |-> None, user |-> None, new |-> None, ok |-> FALSE, heard |-> FALSE]

\* ApiClient.request: the cookie and the access token as they are when fetch is called.
Fetch(b, fn, op, jar, bearer, u) ==
    [Free EXCEPT !.fn = fn, !.op = op, !.at = "sent", !.tab = b, !.cookie = jar,
                 !.bearer = bearer, !.user = u, !.heard = TRUE]

Init ==
    /\ tab = [b \in Tabs |-> Fresh("closed")]
    /\ call = [c \in Calls |-> Free]
    /\ cookie = None
    /\ Backend!Init
    /\ home = [t \in TokenIds |-> None]
    /\ owner = [t \in TokenIds |-> None]
    /\ stale = {} /\ closed = {}
    /\ lossy = FALSE /\ loggedOut = FALSE

At(c, place) == call[c].at = place
Mine(c) == call[c].tab

\* Names mean nothing: a new call or a new pair takes one of the free names, always the same.
Takes(c) == At(c, "idle") /\ c = CHOOSE x \in Calls : At(x, "idle")
Unused(t) == t \notin issued /\ t = CHOOSE x \in TokenIds : x \notin issued

\* submitting and loggingOut are reset when their function returns.
Done(c, q) == [q EXCEPT !.busy = IF @ = c THEN None ELSE @]

-----------------------------------------------------------------------------
(* The store and the router.                                                *)

\* Mutant: isAuthenticated looks at the profile alone.
AuthenticatedByProfile(q) == q.user # None

Authenticated(q) == q.token # None /\ q.user # None

Clear(q) == [q EXCEPT !.token = None, !.user = None]

\* The dashboard is mounted and loads the profile again, in the call that brought it up.
OpenDashboard(c, b, q, jar) ==
    /\ tab' = [tab EXCEPT ![b] = [q EXCEPT !.route = "dashboard", !.nav = None, !.busy = None,
                                           !.loading = TRUE, !.error = FALSE]]
    /\ call' = [call EXCEPT ![c] = Fetch(b, "reload", "me", jar, q.token, None)]

\* beforeEach, on the way to the dashboard.
GoToDashboard(c, b, q, jar) ==
    IF Authenticated(q)
    THEN OpenDashboard(c, b, q, jar)
    ELSE /\ tab' = [tab EXCEPT ![b] = [q EXCEPT !.nav = c]]
         /\ call' = [call EXCEPT ![c] = Fetch(b, "restore", "refresh", jar, q.token, None)]

\* Mutant: the navigation that a push replaces is not dropped.
ToLoginKeepsNav(q) == [q EXCEPT !.route = "login", !.busy = None]

\* beforeEach, on the way to the login page, for a store that is not authenticated.
ToLogin(q) ==
    [q EXCEPT !.route = "login", !.nav = None, !.busy = IF q.route = "login" THEN @ ELSE None]

-----------------------------------------------------------------------------
(* What a user does.                                                        *)

\* A page load at "/": a new store, and nobody waits for the calls of the old page.
Load(b, c) ==
    LET left == [x \in Calls |-> IF call[x].tab = b THEN [call[x] EXCEPT !.heard = FALSE]
                                 ELSE call[x]]
    IN  /\ Takes(c)
        /\ tab' = [tab EXCEPT ![b] = [Fresh("blank") EXCEPT !.nav = c]]
        /\ call' = [x \in Calls |->
              IF x = c THEN Fetch(b, "restore", "refresh", cookie, None, None)
              ELSE IF At(x, "back") /\ ~left[x].heard THEN Free ELSE left[x]]
        /\ lossy' = (lossy \/ \E x \in Calls :
                        At(x, "back") /\ call[x].tab = b /\ call[x].new # None)
        /\ UNCHANGED <<cookie, backend, ids, stale, closed, loggedOut>>

\* History navigation from the login page to "/".
Forward(b, c) ==
    /\ Takes(c) /\ tab[b].route = "login"
    /\ GoToDashboard(c, b, tab[b], cookie)
    /\ UNCHANGED <<cookie, backend, ids, stale, closed, lossy, loggedOut>>

\* History navigation back to /login; an authenticated store is sent to the dashboard.
Back(b) ==
    /\ tab[b].route = "dashboard" /\ ~Authenticated(tab[b])
    /\ tab' = [tab EXCEPT ![b] = ToLogin(@)]
    /\ UNCHANGED <<call, cookie, backend, ids, stale, closed, lossy, loggedOut>>

\* onSubmit of the login form, disabled while submitting.
Submit(b, c, u) ==
    /\ Takes(c) /\ tab[b].route = "login" /\ tab[b].busy = None
    /\ tab' = [tab EXCEPT ![b].busy = c]
    /\ call' = [call EXCEPT ![c] = Fetch(b, "login", "login", cookie, tab[b].token, u)]
    /\ loggedOut' = FALSE
    /\ UNCHANGED <<cookie, backend, ids, stale, closed, lossy>>

\* onLogout of the dashboard, disabled while loggingOut.
ClickLogout(b, c) ==
    /\ Takes(c) /\ tab[b].route = "dashboard" /\ tab[b].busy = None
    /\ tab' = [tab EXCEPT ![b].busy = c]
    /\ call' = [call EXCEPT ![c] = Fetch(b, "logout", "logout", cookie, tab[b].token, None)]
    /\ UNCHANGED <<cookie, backend, ids, stale, closed, lossy, loggedOut>>

\* The Reload and Retry buttons, disabled while loading.
ClickReload(b, c) ==
    /\ Takes(c) /\ tab[b].route = "dashboard" /\ ~tab[b].loading
    /\ tab' = [tab EXCEPT ![b].loading = TRUE, ![b].error = FALSE]
    /\ call' = [call EXCEPT ![c] = Fetch(b, "reload", "me", cookie, tab[b].token, None)]
    /\ UNCHANGED <<cookie, backend, ids, stale, closed, lossy, loggedOut>>

-----------------------------------------------------------------------------
(* The backend serves a request, whether or not somebody still waits for it. *)

Reply(c, ok, new) ==
    /\ call' = [call EXCEPT ![c] =
          IF call[c].heard THEN [@ EXCEPT !.at = "back", !.ok = ok, !.new = new] ELSE Free]
    /\ lossy' = (lossy \/ (~call[c].heard /\ new # None))

Accepts(t) == t # None /\ t \notin stale

\* Bound: a pair is begun only while an id is left for every rotation in flight.  The rest
\* of the sign-ins and refreshes meet AUTH_THROTTLE, which is a bound on pairs too.
PairLeft == Cardinality(rotating) < Cardinality(TokenIds \ issued)

ServeLogin(c) ==
    /\ At(c, "sent") /\ call[c].op = "login" /\ PairLeft
    /\ \E t \in TokenIds :
        /\ Unused(t) /\ Backend!Open(t)
        /\ home' = [home EXCEPT ![t] = t]
        /\ owner' = [owner EXCEPT ![t] = call[c].user]
        /\ Reply(c, TRUE, t)
    /\ UNCHANGED <<tab, cookie, stale, closed, loggedOut>>

ServeSpend(c) ==
    /\ At(c, "sent") /\ call[c].op = "refresh" /\ call[c].cookie # None /\ PairLeft
    /\ Backend!Spend(home[call[c].cookie], call[c].cookie)
    /\ call' = [call EXCEPT ![c].at = "rotating"]
    /\ UNCHANGED <<tab, cookie, ids, stale, closed, lossy, loggedOut>>

ServeMint(c) ==
    /\ At(c, "rotating")
    /\ \E t \in TokenIds :
        /\ Unused(t) /\ Backend!Mint(home[call[c].cookie], t)
        /\ home' = [home EXCEPT ![t] = home[call[c].cookie]]
        /\ owner' = [owner EXCEPT ![t] = owner[call[c].cookie]]
        /\ Reply(c, TRUE, t)
    /\ UNCHANGED <<tab, cookie, stale, closed, loggedOut>>

\* The INSERT fails after the old token was revoked: the session is over.
ServeAbandon(c) ==
    /\ Faults /\ At(c, "rotating")
    /\ Backend!Abandon(home[call[c].cookie])
    /\ closed' = closed \cup {home[call[c].cookie]}
    /\ Reply(c, FALSE, None)
    /\ UNCHANGED <<tab, cookie, ids, stale, loggedOut>>

\* A guarded route with a token that is accepted.
ServeLogout(c) ==
    /\ At(c, "sent") /\ call[c].op = "logout" /\ Accepts(call[c].bearer)
    /\ LET F == {f \in TokenIds : usable[f] = {call[c].cookie}}
       IN  Backend!Close(F) /\ closed' = closed \cup F
    /\ Reply(c, TRUE, None)
    /\ UNCHANGED <<tab, cookie, ids, stale, loggedOut>>

ServeMe(c) ==
    /\ At(c, "sent") /\ call[c].op = "me" /\ Accepts(call[c].bearer)
    /\ Reply(c, TRUE, None)
    /\ UNCHANGED <<tab, cookie, backend, ids, stale, closed, loggedOut>>

\* 401 for a spent or missing cookie or a token not accepted; 429 once the pairs are used
\* up; with Faults, 429 or 5xx for anything.
ServeRefuse(c) ==
    /\ At(c, "sent")
    /\ \/ Faults
       \/ call[c].op \in {"login", "refresh"} /\ ~PairLeft
       \/ call[c].op = "refresh" /\ \A f \in TokenIds : call[c].cookie \notin usable[f]
       \/ call[c].op \in {"logout", "me"} /\ ~Accepts(call[c].bearer)
    /\ Reply(c, FALSE, None)
    /\ UNCHANGED <<tab, cookie, backend, ids, stale, closed, loggedOut>>

\* JWT_ACCESS_TTL passes, or JWT_ACCESS_SECRET is rotated: seen by a tab that holds t.
Outdate(t) ==
    /\ t \notin stale /\ \E b \in Tabs : tab[b].token = t
    /\ stale' = stale \cup {t}
    /\ UNCHANGED <<tab, call, cookie, backend, ids, closed, lossy, loggedOut>>

\* The session ages out, or its user is deleted.
EndSession(f) ==
    /\ Faults /\ usable[f] # {}
    /\ Backend!Close({f})
    /\ closed' = closed \cup {f}
    /\ UNCHANGED <<tab, call, cookie, ids, stale, lossy, loggedOut>>

-----------------------------------------------------------------------------
(* Answers reach the browser.                                               *)

\* Mutant: refresh answers without setRefreshCookie.
CookieAfterLoginOnly(c) == IF call[c].op = "login" THEN call[c].new ELSE cookie

\* Set-Cookie.  clearCookie names no domain, so it removes only a host-only cookie.
CookieAfter(c) ==
    IF call[c].new # None THEN call[c].new
    ELSE IF call[c].op = "logout" /\ ~CookieHasDomain THEN None ELSE cookie

Arrives(c) == call[c].heard /\ At(c, "back") /\ call[c].ok

\* tryRefresh and login got their pair and ask for the profile with it.
ReceiveTokens(c) ==
    /\ Arrives(c) /\ call[c].op \in {"refresh", "login"}
    /\ cookie' = CookieAfter(c)
    /\ tab' = [tab EXCEPT ![Mine(c)].token = call[c].new, ![Mine(c)].out = FALSE]
    /\ call' = [call EXCEPT ![c] =
          Fetch(Mine(c), call[c].fn, "me", CookieAfter(c), call[c].new, None)]
    /\ UNCHANGED <<backend, ids, stale, closed, lossy, loggedOut>>

\* fetchMe returns: to reload, to the guard that waits for tryRefresh, or to onSubmit,
\* which pushes the dashboard.  A navigation that was replaced is dropped.
ReceiveProfile(c) ==
    /\ Arrives(c) /\ call[c].op = "me"
    /\ LET b == Mine(c)
           q == [tab[b] EXCEPT !.user = owner[call[c].bearer]]
           done == /\ tab' = [tab EXCEPT ![b] = Done(c,
                        [q EXCEPT !.loading = IF call[c].fn = "reload" THEN FALSE ELSE @])]
                   /\ call' = [call EXCEPT ![c] = Free]
       IN  CASE call[c].fn = "restore" /\ q.nav = c -> OpenDashboard(c, b, q, cookie)
             [] call[c].fn = "login" /\ q.route # "dashboard" -> GoToDashboard(c, b, q, cookie)
             [] OTHER -> done
    /\ UNCHANGED <<cookie, backend, ids, stale, closed, lossy, loggedOut>>

\* logout clears the store and onLogout pushes /login, whether or not the request succeeds.
AfterLogout(q) == ToLogin([Clear(q) EXCEPT !.out = TRUE])

\* Mutant: beforeEach returns nothing when tryRefresh fails.
AfterFailureStays(c, q) == IF call[c].fn = "restore" THEN Clear(q) ELSE q

\* What a function leaves in its tab when the call it awaits fails.
AfterFailure(c, q) ==
    CASE call[c].fn = "restore" -> Done(c, IF q.nav = c THEN ToLogin(Clear(q)) ELSE Clear(q))
      [] call[c].fn = "logout" -> AfterLogout(q)
      [] call[c].fn = "reload" -> [q EXCEPT !.error = TRUE, !.loading = FALSE]
      [] OTHER -> Done(c, q)

ReceiveLogout(c) ==
    /\ Arrives(c) /\ call[c].op = "logout"
    /\ cookie' = CookieAfter(c)
    /\ tab' = [tab EXCEPT ![Mine(c)] = AfterLogout(@)]
    /\ call' = [call EXCEPT ![c] = Free]
    /\ loggedOut' = TRUE
    /\ UNCHANGED <<backend, ids, stale, closed, lossy>>

Fail(c) ==
    /\ tab' = [tab EXCEPT ![Mine(c)] = AfterFailure(c, @)]
    /\ loggedOut' = (loggedOut \/ call[c].fn = "logout")
    /\ UNCHANGED <<backend, ids, stale, closed>>

\* An error status.
ReceiveError(c) ==
    /\ call[c].heard /\ At(c, "back") /\ ~call[c].ok
    /\ Fail(c)
    /\ call' = [call EXCEPT ![c] = Free]
    /\ UNCHANGED <<cookie, lossy>>

\* AbortSignal.timeout, or the connection breaks: the request may still be served.
GiveUp(c) ==
    /\ Faults /\ call[c].heard /\ call[c].at \in {"sent", "rotating"}
    /\ Fail(c)
    /\ call' = [call EXCEPT ![c].heard = FALSE]
    /\ UNCHANGED <<cookie, lossy>>

\* The answer is lost, or cut off after its headers, with the cookie set.
LoseAnswer(c) ==
    /\ Faults /\ Arrives(c)
    /\ Fail(c)
    /\ call' = [call EXCEPT ![c] = Free]
    /\ \/ cookie' = cookie /\ lossy' = (lossy \/ call[c].new # None)
       \/ cookie' = CookieAfter(c) /\ UNCHANGED lossy

\* A request nobody waits for never reached the backend.
LoseRequest(c) ==
    /\ ~call[c].heard /\ At(c, "sent")
    /\ call' = [call EXCEPT ![c] = Free]
    /\ UNCHANGED <<tab, cookie, backend, ids, stale, closed, lossy, loggedOut>>

-----------------------------------------------------------------------------
Use ==
    \/ \E b \in Tabs, c \in Calls :
        Load(b, c) \/ Forward(b, c) \/ ClickLogout(b, c) \/ ClickReload(b, c)
    \/ \E b \in Tabs, c \in Calls, u \in Users : Submit(b, c, u)
    \/ \E b \in Tabs : Back(b)

Serve(c) ==
    \/ ServeLogin(c) \/ ServeSpend(c) \/ ServeMint(c) \/ ServeAbandon(c)
    \/ ServeLogout(c) \/ ServeMe(c) \/ ServeRefuse(c)

Receive(c) ==
    \/ ReceiveTokens(c) \/ ReceiveProfile(c) \/ ReceiveLogout(c) \/ ReceiveError(c)

Lose(c) == GiveUp(c) \/ LoseAnswer(c) \/ LoseRequest(c)

Next ==
    \/ Use
    \/ \E c \in Calls : Serve(c) \/ Receive(c) \/ Lose(c)
    \/ \E t \in TokenIds : Outdate(t) \/ EndSession(t)

Spec == Init /\ [][Next]_vars

\* Requests are served and answers received.
FairSpec == Spec /\ \A c \in Calls : WF_vars(Serve(c)) /\ WF_vars(Receive(c))

(***************************************************************************)
(* Properties.                                                             *)
(***************************************************************************)

\* The stores, the calls and the jar keep their types, and a navigation waits only for
\* a restore of its own tab.
TypeOK ==
    /\ tab \in [Tabs -> Tab]
    /\ call \in [Calls -> Call]
    /\ cookie \in TokenIds \cup {None}
    /\ home \in [TokenIds -> TokenIds \cup {None}]
    /\ owner \in [TokenIds -> Users \cup {None}]
    /\ stale \subseteq issued /\ closed \subseteq issued
    /\ \A b \in Tabs : tab[b].nav # None =>
          call[tab[b].nav].fn = "restore" /\ Mine(tab[b].nav) = b

\* Tabs that restore and sign in at the same time, with the losers of a rotation refused,
\* never leave the browser with a spent cookie: once nothing is in flight, the cookie is
\* the usable token of its session, unless the session has ended or an answer was lost.
CookieFollowsRotation ==
    (\A c \in Calls : At(c, "idle")) /\ ~lossy /\ cookie # None /\ home[cookie] \notin closed
        => usable[home[cookie]] = {cookie}

\* A tab that logged out shows the dashboard only after it got a new pair, although a
\* profile it asked for before the logout may still arrive and fill its store.
OutMeansOut ==
    \A b \in Tabs : tab[b].out => tab[b].route # "dashboard"

\* Every navigation that waits for tryRefresh is decided or replaced.
NavigationDecided ==
    \A b \in Tabs, c \in Calls : tab[b].nav = c ~> tab[b].nav # c

\* "The dashboard route is guarded once the session is cleared"
\* (apps/frontend/e2e/auth.spec.ts:61): after a logout nobody gets there without signing in.
LogoutGuardsDashboard ==
    loggedOut => \A b \in Tabs : tab[b].route # "dashboard"
=============================================================================
