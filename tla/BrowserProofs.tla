----------------------------- MODULE BrowserProofs -----------------------------
(***************************************************************************)
(* TLAPS proofs about BrowserSession, for every number of tabs, calls,      *)
(* users and tokens, with and without faults.                               *)
(***************************************************************************)
EXTENDS BrowserSession, FiniteSetTheorems, TLAPS

USE NoneAssumption, SwitchAssumption

-----------------------------------------------------------------------------
(* The inductive invariant.                                                 *)

\* A request: only an answered sign-in or refresh holds a pair the browser has not seen.
Wired(q) ==
    /\ q \in Call
    /\ q.at # "idle" => q.tab \in Tabs
    /\ q.at = "rotating" => q.op = "refresh"
    /\ q.at = "back" => q.heard
    /\ q.new # None => q.at = "back" /\ q.ok /\ q.op \in {"refresh", "login"}
    /\ q.at = "back" /\ q.ok /\ q.op \in {"refresh", "login"} => q.new # None
    /\ q.at = "back" /\ q.ok /\ q.op = "me" => q.bearer # None

CallsWired == \A c \in Calls : Wired(call[c])

\* The navigation of tab b waits for a restore of b that still listens, and a tab that
\* logged out holds no token, and waits at most for a new pair.
TabWired(b) ==
    /\ tab[b] \in Tab
    /\ tab[b].token \in issued \cup {None}
    /\ tab[b].nav # None =>
          LET q == call[tab[b].nav]
          IN  q.fn = "restore" /\ q.tab = b /\ q.heard /\ q.at # "idle"
    /\ tab[b].out => /\ tab[b].token = None /\ tab[b].route # "dashboard"
                     /\ tab[b].nav # None => call[tab[b].nav].op = "refresh"

TabsWired == \A b \in Tabs : TabWired(b)

HistoryTyped ==
    /\ tab \in [Tabs -> Tab]
    /\ call \in [Calls -> Call]
    /\ home \in [TokenIds -> TokenIds \cup {None}]
    /\ owner \in [TokenIds -> Users \cup {None}]
    /\ stale \subseteq issued /\ closed \subseteq issued
    /\ lossy \in BOOLEAN

\* The promise of the backend, with the session a token belongs to.
Families ==
    /\ issued \subseteq TokenIds /\ rotating \subseteq issued
    /\ usable \in [TokenIds -> SUBSET TokenIds]
    /\ \A t \in issued : home[t] \in issued
    /\ \A f \in TokenIds : \A t \in usable[f] : t \in issued /\ home[t] = f /\ usable[f] = {t}
    /\ \A f \in rotating : usable[f] = {}

\* Every token in the jar or in a request was issued.
HeldIssued ==
    /\ cookie \in issued \cup {None}
    /\ \A c \in Calls : call[c].cookie \in issued \cup {None} /\ call[c].new \in issued \cup {None}

Rotates(c, f) == At(c, "rotating") /\ home[call[c].cookie] = f

\* A rotation in flight is that of one request.
Rotators ==
    /\ \A c \in Calls : At(c, "rotating") =>
          call[c].cookie \in issued /\ home[call[c].cookie] \in rotating
    /\ \A c, d \in Calls : \A f \in issued : Rotates(c, f) /\ Rotates(d, f) => c = d

\* A pair under way is known to nobody: no jar, no request and no other answer has it.
Undelivered ==
    \A c \in Calls : call[c].new # None =>
        /\ call[c].new # cookie
        /\ \A d \in Calls : call[d].cookie # call[c].new
        /\ \A d \in Calls \ {c} : call[d].new # call[c].new

Current(t) == home[t] \in closed \/ usable[home[t]] = {t}

\* So nobody can spend it before it is delivered.
NewIsCurrent == \A c \in Calls : call[c].new # None => Current(call[c].new)

\* The jar holds the usable token of its session, or its session has been closed, or the
\* successor is being minted or on its way.
CookieTracked ==
    ~lossy /\ cookie # None =>
        \/ Current(cookie)
        \/ \E c \in Calls : Rotates(c, home[cookie])
        \/ \E c \in Calls : call[c].new # None /\ home[call[c].new] = home[cookie]

SessionInv ==
    /\ Families /\ HeldIssued /\ Rotators /\ Undelivered /\ NewIsCurrent /\ CookieTracked

ClientInv == HistoryTyped /\ CallsWired /\ TabsWired

BrowserInv == ClientInv /\ SessionInv

-----------------------------------------------------------------------------
(* The sessions.                                                            *)

Carried(x) ==
    /\ call'[x].at = call[x].at /\ call'[x].cookie = call[x].cookie
    /\ call'[x].new = call[x].new

\* x starts, is answered without a pair, hands its pair over or loses it.
Turned(x) ==
    /\ call[x].at # "rotating" /\ call'[x].at # "rotating" /\ call'[x].new = None
    /\ call'[x].cookie \in {call[x].cookie, cookie', None}
    /\ call[x].new # None => lossy' \/ cookie' = call[x].new

\* A step that mints and spends nothing; it may end sessions.
Quiet ==
    /\ issued' = issued /\ rotating' = rotating /\ home' = home
    /\ usable' \in [TokenIds -> SUBSET TokenIds]
    /\ \A f \in TokenIds : usable'[f] = usable[f] \/ (usable'[f] = {} /\ f \in closed')
    /\ closed \subseteq closed'
    /\ lossy => lossy'
    /\ \A x \in Calls : Carried(x) \/ Turned(x)
    /\ \/ cookie' \in {cookie, None}
       \/ \E x \in Calls : Turned(x) /\ cookie' = call[x].new

\* A quiet step delivers a pair whole, loses it on the record, or leaves it alone.
LEMMA QuietKeepsSessions ==
    ASSUME SessionInv, Quiet
    PROVE  SessionInv'
<1>1. cookie' \in issued \cup {None} /\ issued' = issued /\ home' = home /\ rotating' = rotating
  BY DEF SessionInv, HeldIssued, Quiet
<1>2. Families'
  <2>1. \A f \in TokenIds : usable'[f] = usable[f] \/ usable'[f] = {}
    BY DEF Quiet
  <2> QED
    BY <1>1, <2>1 DEF SessionInv, Families, Quiet
<1>3. HeldIssued'
  BY <1>1 DEF SessionInv, HeldIssued, Quiet, Carried, Turned
<1>4. \A c \in Calls : call'[c].at = "rotating" =>
          call[c].at = "rotating" /\ call'[c].cookie = call[c].cookie
  BY DEF Quiet, Carried, Turned
<1>5. Rotators'
  BY <1>1, <1>4 DEF SessionInv, Rotators, Rotates, At
<1>6. \A c \in Calls : call'[c].new # None => call'[c].new = call[c].new /\ Carried(c) /\ ~Turned(c)
  BY DEF Quiet, Carried, Turned
<1>7. \A c \in Calls : call'[c].new # None => call[c].new # cookie'
  <2> SUFFICES ASSUME NEW c \in Calls, call'[c].new # None PROVE call[c].new # cookie'
    OBVIOUS
  <2>1. CASE cookie' \in {cookie, None}
    BY <1>6, <2>1 DEF SessionInv, Undelivered
  <2>2. ASSUME NEW x \in Calls, Turned(x), cookie' = call[x].new PROVE call[c].new # cookie'
    BY <1>6, <2>2 DEF SessionInv, Undelivered
  <2> QED
    BY <2>1, <2>2 DEF Quiet
<1>8. \A c, d \in Calls : call'[c].new # None => call'[d].cookie # call[c].new
  BY <1>6, <1>7 DEF SessionInv, Undelivered, Quiet, Carried, Turned
<1>9. Undelivered'
  BY <1>6, <1>7, <1>8 DEF SessionInv, Undelivered
<1>10. \A t \in issued : Current(t) => Current(t)'
  <2>1. \A t \in issued : home[t] \in TokenIds
    BY DEF SessionInv, Families
  <2> QED
    BY <1>1, <2>1 DEF Current, Quiet
<1>11. NewIsCurrent'
  <2> SUFFICES ASSUME NEW c \in Calls, call'[c].new # None PROVE Current(call[c].new)'
    BY <1>6 DEF NewIsCurrent, Current
  <2>1. call[c].new \in issued /\ Current(call[c].new)
    BY <1>6 DEF SessionInv, HeldIssued, NewIsCurrent
  <2>2. PICK t \in issued : t = call[c].new /\ Current(t)
    BY <2>1
  <2>3. Current(t)'
    BY <1>10, <2>2
  <2> QED
    BY <1>1, <1>6, <2>2, <2>3 DEF Current
<1>12. CookieTracked'
  <2> SUFFICES ASSUME ~lossy', cookie' # None
               PROVE  \/ Current(cookie)'
                      \/ \E c \in Calls : Rotates(c, home[cookie])'
                      \/ \E c \in Calls : call'[c].new # None /\ home'[call'[c].new] = home'[cookie']
    BY DEF CookieTracked
  <2>1. CASE cookie' = cookie
    <3>1. ~lossy
      BY DEF Quiet
    <3>2. CASE Current(cookie)
      BY <1>1, <1>10, <2>1, <3>2 DEF Current
    <3>3. ASSUME NEW c \in Calls, Rotates(c, home[cookie]) PROVE Rotates(c, home[cookie])'
      BY <1>1, <2>1, <3>3 DEF Rotates, At, Quiet, Carried, Turned
    <3>4. ASSUME NEW c \in Calls, call[c].new # None, home[call[c].new] = home[cookie]
          PROVE  call'[c].new = call[c].new
      BY <2>1, <3>4 DEF SessionInv, Undelivered, Quiet, Carried, Turned
    <3> QED
      BY <1>1, <2>1, <3>1, <3>2, <3>3, <3>4 DEF SessionInv, CookieTracked
  <2>2. ASSUME NEW x \in Calls, cookie' = call[x].new PROVE Current(cookie)'
    <3>1. PICK t \in issued : t = call[x].new /\ Current(t)
      BY <1>1, <2>2 DEF SessionInv, NewIsCurrent, HeldIssued
    <3> QED
      BY <1>10, <2>2, <3>1 DEF Current
  <2> QED
    BY <2>1, <2>2 DEF Quiet
<1> QED
  BY <1>2, <1>3, <1>5, <1>9, <1>11, <1>12 DEF SessionInv

\* What becomes of the other calls when c is served.
OnlyCall(c) == c \in Calls /\ \A x \in Calls \ {c} : call'[x] = call[x]

\* A pair of session f is minted for c, in a new session or as its successor.
LEMMA PairKeepsSessions ==
    ASSUME SessionInv, NEW c \in Calls, NEW f \in TokenIds, NEW t \in TokenIds, OnlyCall(c),
           t \notin issued, call[c].new = None,
           \/ f = t /\ call[c].at # "rotating"
           \/ f \in rotating /\ Rotates(c, f),
           issued' = issued \cup {t}, rotating' = rotating \ {f},
           usable' = [usable EXCEPT ![f] = {t}], home' = [home EXCEPT ![t] = f],
           home \in [TokenIds -> TokenIds \cup {None}],
           call'[c].at # "rotating", call'[c].cookie \in {call[c].cookie, None},
           call'[c].new = t \/ (call'[c].new = None /\ lossy'),
           UNCHANGED <<cookie, closed>>, lossy => lossy'
    PROVE  SessionInv'
<1>1. /\ \A x \in issued : home'[x] = home[x] /\ x # t /\ x \in TokenIds /\ home[x] \in issued
      /\ home'[t] = f /\ usable'[f] = {t} /\ f \in issued' /\ None \notin issued'
      /\ \A g \in TokenIds \ {f} : usable'[g] = usable[g]
  BY DEF SessionInv, Families
<1>2. \A x \in issued : usable[home[x]] = {x} => home[x] # f
  <2> SUFFICES ASSUME NEW x \in issued, usable[f] = {x}, home[x] = f PROVE FALSE
    OBVIOUS
  <2>1. f \notin rotating
    BY DEF SessionInv, Families
  <2> QED
    BY <1>1, <2>1
<1>3. Families'
  <2>1. usable' \in [TokenIds -> SUBSET TokenIds] /\ issued' \subseteq TokenIds
          /\ rotating' \subseteq issued'
    BY DEF SessionInv, Families
  <2>2. \A x \in issued' : home'[x] \in issued'
    BY <1>1
  <2>3. \A g \in TokenIds : \A x \in usable'[g] : x \in issued' /\ home'[x] = g /\ usable'[g] = {x}
    BY <1>1 DEF SessionInv, Families
  <2>4. \A g \in rotating' : usable'[g] = {}
    BY <1>1 DEF SessionInv, Families
  <2> QED
    BY <2>1, <2>2, <2>3, <2>4 DEF Families
<1>4. HeldIssued'
  BY DEF SessionInv, HeldIssued, OnlyCall
<1>5. \A d \in Calls : call'[d].at = "rotating" =>
          /\ d # c /\ call'[d] = call[d] /\ call[d].cookie \in issued
          /\ home'[call[d].cookie] = home[call[d].cookie] /\ home[call[d].cookie] \in rotating'
  <2> SUFFICES ASSUME NEW d \in Calls, call'[d].at = "rotating"
               PROVE  /\ d # c /\ call'[d] = call[d] /\ call[d].cookie \in issued
                      /\ home'[call[d].cookie] = home[call[d].cookie]
                      /\ home[call[d].cookie] \in rotating'
    OBVIOUS
  <2>1. d # c /\ call'[d] = call[d] /\ call[d].cookie \in issued /\ home[call[d].cookie] \in rotating
    BY DEF OnlyCall, SessionInv, Rotators, At
  <2>2. home[call[d].cookie] # f
    <3>1. CASE f = t
      BY <1>1, <2>1, <3>1
    <3>2. CASE Rotates(c, f) /\ f \in rotating
      BY <2>1, <3>2 DEF Rotates, At, SessionInv, Rotators, Families
    <3> QED
      BY <3>1, <3>2
  <2> QED
    BY <1>1, <2>1, <2>2
<1>6. Rotators'
  <2>1. \A d, e \in Calls : \A g \in issued' : Rotates(d, g)' /\ Rotates(e, g)' => d = e
    <3> SUFFICES ASSUME NEW d \in Calls, NEW e \in Calls, NEW g \in issued',
                        Rotates(d, g)', Rotates(e, g)'
                 PROVE  d = e
      OBVIOUS
    <3>1. g \in issued /\ Rotates(d, g) /\ Rotates(e, g)
      BY <1>5 DEF Rotates, At, SessionInv, Families
    <3> QED
      BY <3>1 DEF SessionInv, Rotators
  <2> QED
    BY <1>5, <2>1 DEF Rotators, At
<1>7. Undelivered'
  <2>1. \A x \in Calls : call[x].cookie # t /\ call[x].new # t /\ cookie # t
    BY DEF SessionInv, HeldIssued
  <2>2. \A x \in Calls \ {c} : call'[x] = call[x]
    BY DEF OnlyCall
  <2>3. cookie' = cookie
    OBVIOUS
  <2>4. ASSUME NEW x \in Calls, call'[x].new # None, x # c
        PROVE  /\ call'[x].new # cookie'
               /\ \A d \in Calls : call'[d].cookie # call'[x].new
               /\ \A d \in Calls \ {x} : call'[d].new # call'[x].new
    BY <2>1, <2>2, <2>3, <2>4 DEF SessionInv, Undelivered
  <2>5. ASSUME call'[c].new # None
        PROVE  /\ call'[c].new # cookie'
               /\ \A d \in Calls : call'[d].cookie # call'[c].new
               /\ \A d \in Calls \ {c} : call'[d].new # call'[c].new
    BY <2>1, <2>2, <2>3, <2>5
  <2> QED
    BY <2>4, <2>5 DEF Undelivered
<1>8. \A x \in issued : Current(x) => Current(x)'
  BY <1>1, <1>2 DEF Current
<1>9. Current(t)'
  BY <1>1 DEF Current
<1>10. NewIsCurrent'
  <2> SUFFICES ASSUME NEW x \in Calls, call'[x].new # None PROVE Current(call[x].new)'
    BY DEF NewIsCurrent
  <2>1. PICK n \in issued' : n = call'[x].new /\ Current(n)'
    BY <1>8, <1>9 DEF OnlyCall, SessionInv, NewIsCurrent, HeldIssued
  <2> QED
    BY <2>1 DEF Current
<1>11. CookieTracked'
  <2> SUFFICES ASSUME ~lossy', cookie' # None
               PROVE  \/ Current(cookie)'
                      \/ \E d \in Calls : Rotates(d, home[cookie])'
                      \/ \E d \in Calls : call'[d].new # None /\ home'[call'[d].new] = home'[cookie']
    BY DEF CookieTracked
  <2>1. cookie' = cookie /\ cookie \in issued /\ home'[cookie] = home[cookie] /\ call'[c].new = t
    BY <1>1 DEF SessionInv, HeldIssued
  <2>2. CASE Current(cookie)
    BY <1>8, <2>1, <2>2 DEF Current
  <2>3. ASSUME NEW d \in Calls, Rotates(d, home[cookie]), d = c
        PROVE  call'[c].new # None /\ home'[call'[c].new] = home'[cookie']
    BY <1>1, <2>1, <2>3 DEF Rotates, At
  <2>4. ASSUME NEW d \in Calls, Rotates(d, home[cookie]), d # c PROVE Rotates(d, home[cookie])'
    <3>1. call'[d] = call[d] /\ call[d].cookie \in issued
      BY <2>4 DEF OnlyCall, Rotates, At, SessionInv, Rotators
    <3> QED
      BY <1>1, <2>1, <2>4, <3>1 DEF Rotates, At
  <2>5. ASSUME NEW d \in Calls, call[d].new # None, home[call[d].new] = home[cookie]
        PROVE  call'[d].new # None /\ home'[call'[d].new] = home'[cookie']
    <3>1. d # c /\ call'[d] = call[d] /\ call[d].new \in issued
      BY <2>5 DEF OnlyCall, SessionInv, HeldIssued
    <3> QED
      BY <1>1, <2>1, <2>5, <3>1
  <2> QED
    BY <2>1, <2>2, <2>3, <2>4, <2>5 DEF SessionInv, CookieTracked
<1> QED
  BY <1>3, <1>4, <1>6, <1>7, <1>10, <1>11 DEF SessionInv

\* The token of call c is taken out of circulation.
LEMMA SpendKeepsSessions ==
    ASSUME SessionInv, NEW c \in Calls, call[c].at = "sent", call[c].cookie # None,
           Backend!Spend(home[call[c].cookie], call[c].cookie), OnlyCall(c),
           call'[c].at = "rotating", call'[c].cookie = call[c].cookie, call'[c].new = call[c].new,
           UNCHANGED <<cookie, home, closed, lossy>>
    PROVE  SessionInv'
<1> DEFINE t == call[c].cookie
           f == home[t]
<1>1. t \in issued /\ f \in issued /\ t \in TokenIds /\ f \in TokenIds
  BY DEF SessionInv, HeldIssued, Families
<1>2. /\ usable[f] = {t} /\ usable'[f] = {} /\ f \notin rotating /\ f \in rotating'
      /\ \A g \in TokenIds \ {f} : usable'[g] = usable[g]
      /\ rotating' = rotating \cup {f} /\ issued' = issued
  BY <1>1 DEF Backend!Spend, SessionInv, Families
<1>3. Families'
  <2>1. usable' \in [TokenIds -> SUBSET TokenIds]
    BY DEF Backend!Spend, SessionInv, Families
  <2> QED
    BY <1>1, <1>2, <2>1 DEF SessionInv, Families
<1>4. \A x \in Calls : call'[x].cookie = call[x].cookie /\ call'[x].new = call[x].new
  BY DEF OnlyCall
<1>5. \A x \in Calls \ {c} : call'[x].at = call[x].at
  BY DEF OnlyCall
<1>6. HeldIssued'
  BY <1>2, <1>4 DEF SessionInv, HeldIssued
<1>7. Rotators'
  BY <1>1, <1>2, <1>4, <1>5 DEF SessionInv, Rotators, Rotates, At
<1>8. Undelivered'
  BY <1>4 DEF SessionInv, Undelivered
<1>9. \A x \in issued : Current(x) /\ x # t => Current(x)'
  BY <1>1, <1>2 DEF Current, SessionInv, Families
<1>10. NewIsCurrent'
  <2> SUFFICES ASSUME NEW x \in Calls, call[x].new # None PROVE Current(call[x].new)'
    BY <1>4 DEF NewIsCurrent, Current
  <2>1. PICK n \in issued : n = call[x].new /\ Current(n) /\ n # t
    BY DEF SessionInv, HeldIssued, NewIsCurrent, Undelivered
  <2>2. Current(n)'
    BY <1>9, <2>1
  <2> QED
    BY <1>4, <2>1, <2>2 DEF Current
<1>11. Rotates(c, f)'
  BY <1>4 DEF Rotates, At
<1>12. \A x \in Calls : \A g \in issued : Rotates(x, g) => Rotates(x, g)'
  BY <1>4, <1>5 DEF Rotates, At
<1>13. CookieTracked'
  <2> SUFFICES ASSUME ~lossy, cookie # None
               PROVE  \/ Current(cookie)'
                      \/ \E x \in Calls : Rotates(x, home[cookie])'
                      \/ \E x \in Calls : call'[x].new # None /\ home[call'[x].new] = home[cookie]
    BY DEF CookieTracked
  <2>1. cookie \in issued /\ home[cookie] \in issued
    BY DEF SessionInv, HeldIssued, Families
  <2>2. CASE Current(cookie)
    BY <1>9, <1>11, <2>1, <2>2 DEF Current, Rotates
  <2>3. ASSUME NEW x \in Calls, Rotates(x, home[cookie]) PROVE Rotates(x, home[cookie])'
    BY <1>12, <2>1, <2>3 DEF Rotates, At
  <2> QED
    BY <1>4, <2>2, <2>3 DEF SessionInv, CookieTracked
<1> QED
  BY <1>3, <1>6, <1>7, <1>8, <1>10, <1>13 DEF SessionInv

\* The rotation of call c fails, and its session is over.
LEMMA AbandonKeepsSessions ==
    ASSUME SessionInv, NEW c \in Calls, call[c].at = "rotating",
           Backend!Abandon(home[call[c].cookie]), OnlyCall(c),
           closed' = closed \cup {home[call[c].cookie]}, call[c].new = None,
           call'[c].at # "rotating", call'[c].cookie \in {call[c].cookie, None},
           call'[c].new = None, UNCHANGED <<cookie, home>>, lossy => lossy'
    PROVE  SessionInv'
<1> DEFINE f == home[call[c].cookie]
<1>1. f \in issued /\ issued' = issued /\ usable' = usable /\ rotating' = rotating \ {f}
  BY DEF Backend!Abandon, SessionInv, Families
<1>2. Families'
  BY <1>1 DEF SessionInv, Families
<1>3. \A x \in Calls : call'[x].cookie \in {call[x].cookie, None} /\ call'[x].new = call[x].new
  BY DEF OnlyCall
<1>4. HeldIssued'
  BY <1>1, <1>3 DEF SessionInv, HeldIssued
<1>5. \A x \in Calls : call'[x].at = "rotating" => x # c /\ call'[x] = call[x]
  BY DEF OnlyCall
<1>6. \A x \in Calls : call'[x].at = "rotating" => home[call[x].cookie] # f
  BY <1>1, <1>5 DEF SessionInv, Rotators, Rotates, At
<1>7. Rotators'
  BY <1>1, <1>5, <1>6 DEF SessionInv, Rotators, Rotates, At
<1>8. Undelivered'
  BY <1>3 DEF SessionInv, Undelivered
<1>9. NewIsCurrent'
  BY <1>1, <1>3 DEF SessionInv, NewIsCurrent, Current
<1>10. CookieTracked'
  <2> SUFFICES ASSUME ~lossy', cookie # None
               PROVE  \/ Current(cookie)'
                      \/ \E x \in Calls : Rotates(x, home[cookie])'
                      \/ \E x \in Calls : call'[x].new # None /\ home[call'[x].new] = home[cookie]
    BY DEF CookieTracked
  <2>1. CASE Current(cookie)
    BY <1>1, <2>1 DEF Current
  <2>2. ASSUME Rotates(c, home[cookie]) PROVE Current(cookie)'
    BY <2>2 DEF Rotates, Current
  <2>3. ASSUME NEW x \in Calls \ {c}, Rotates(x, home[cookie]) PROVE Rotates(x, home[cookie])'
    BY <2>3 DEF Rotates, At, OnlyCall
  <2> QED
    BY <1>3, <2>1, <2>2, <2>3 DEF SessionInv, CookieTracked
<1> QED
  BY <1>2, <1>4, <1>7, <1>8, <1>9, <1>10 DEF SessionInv

-----------------------------------------------------------------------------
(* The requests and the stores.                                             *)

LEMMA FreeWired == Wired(Free)
BY DEF Wired, Free, Call

LEMMA FetchWired ==
    ASSUME NEW b \in Tabs, NEW fn \in {"restore", "login", "logout", "reload"},
           NEW op \in {"refresh", "login", "logout", "me"}, NEW jar \in TokenIds \cup {None},
           NEW bearer \in TokenIds \cup {None}, NEW u \in Users \cup {None}
    PROVE  /\ Wired(Fetch(b, fn, op, jar, bearer, u))
           /\ Fetch(b, fn, op, jar, bearer, u).at = "sent"
           /\ Fetch(b, fn, op, jar, bearer, u).heard
           /\ Fetch(b, fn, op, jar, bearer, u).fn = fn
           /\ Fetch(b, fn, op, jar, bearer, u).op = op
           /\ Fetch(b, fn, op, jar, bearer, u).tab = b
           /\ Fetch(b, fn, op, jar, bearer, u).cookie = jar
           /\ Fetch(b, fn, op, jar, bearer, u).new = None
BY ZenonT(40) DEF Wired, Fetch, Free, Call

\* The call that Reply leaves behind.
Replied(q, ok, new) == IF q.heard THEN [q EXCEPT !.at = "back", !.ok = ok, !.new = new] ELSE Free

LEMMA RepliedWired ==
    ASSUME NEW q, Wired(q), q.at \in {"sent", "rotating"}, NEW ok \in BOOLEAN,
           NEW new \in TokenIds \cup {None},
           new # None <=> ok /\ q.op \in {"refresh", "login"},
           ok /\ q.op = "me" => q.bearer # None
    PROVE  /\ Wired(Replied(q, ok, new))
           /\ Replied(q, ok, new).at # "rotating"
           /\ Replied(q, ok, new).cookie \in {q.cookie, None}
           /\ Replied(q, ok, new).new = IF q.heard THEN new ELSE None
           /\ q.heard => LET r == Replied(q, ok, new)
                         IN  r.fn = q.fn /\ r.tab = q.tab /\ r.op = q.op /\ r.heard /\ r.at = "back"
<1>1. CASE q.heard
  BY <1>1, ZenonT(40) DEF Wired, Replied, Call
<1>2. CASE ~q.heard
  BY <1>2, FreeWired DEF Replied, Free
<1> QED
  BY <1>1, <1>2

\* A step of one call and of one tab, of which the other tabs see nothing.
LEMMA CallKeepsClient ==
    ASSUME ClientInv, NEW c \in Calls, NEW b \in Tabs, NEW k, NEW q,
           call' = [call EXCEPT ![c] = k], tab' = [tab EXCEPT ![b] = q],
           Wired(k), q \in Tab, q.token \in issued \cup {None},
           call[c].at = "idle" \/ call[c].tab = b,
           q.nav # None => \/ q.nav = c /\ k.fn = "restore" /\ k.tab = b /\ k.heard /\ k.at # "idle"
                           \/ q.nav # c /\ q.nav = tab[b].nav,
           q.out => /\ q.token = None /\ q.route # "dashboard"
                    /\ q.nav = c => k.op = "refresh"
                    /\ q.nav \notin {c, None} => tab[b].out,
           UNCHANGED <<issued, home, owner, stale, closed>>, lossy' \in BOOLEAN
    PROVE  ClientInv'
<1>1. /\ call' \in [Calls -> Call] /\ tab' \in [Tabs -> Tab]
      /\ call'[c] = k /\ \A x \in Calls \ {c} : call'[x] = call[x]
      /\ tab'[b] = q /\ \A d \in Tabs \ {b} : tab'[d] = tab[d]
  BY DEF ClientInv, HistoryTyped, Wired
<1>2. HistoryTyped'
  BY <1>1 DEF ClientInv, HistoryTyped
<1>3. CallsWired'
  BY <1>1 DEF ClientInv, CallsWired, Wired
<1>4. ASSUME NEW d \in Tabs \ {b} PROVE TabWired(d)'
  <2>1. TabWired(d) /\ tab'[d] = tab[d]
    BY <1>1 DEF ClientInv, TabsWired
  <2>2. tab[d].nav # None => tab[d].nav \in Calls \ {c}
    BY <2>1 DEF TabWired, Tab
  <2> QED
    BY <1>1, <2>1, <2>2 DEF TabWired
<1>5. TabWired(b)'
  <2>1. TabWired(b)
    BY DEF ClientInv, TabsWired
  <2>2. q.nav \in Calls \cup {None}
    BY DEF Tab
  <2>3. q.nav # None =>
          call'[q.nav].fn = "restore" /\ call'[q.nav].tab = b /\ call'[q.nav].heard
            /\ call'[q.nav].at # "idle"
    BY <1>1, <2>1, <2>2 DEF TabWired
  <2>4. q.out /\ q.nav # None => call'[q.nav].op = "refresh"
    BY <1>1, <2>1, <2>2 DEF TabWired
  <2> QED
    BY <1>1, <2>3, <2>4 DEF TabWired
<1> QED
  BY <1>2, <1>3, <1>4, <1>5 DEF ClientInv, TabsWired

\* A step of the backend, of which the tabs see nothing.
LEMMA ServeKeepsClient ==
    ASSUME ClientInv, NEW c \in Calls, NEW k, call' = [call EXCEPT ![c] = k], tab' = tab,
           Wired(k),
           call[c].heard => /\ k.fn = call[c].fn /\ k.tab = call[c].tab /\ k.op = call[c].op
                            /\ k.heard /\ k.at # "idle",
           issued \subseteq issued', stale' = stale, closed' \subseteq issued',
           home' \in [TokenIds -> TokenIds \cup {None}],
           owner' \in [TokenIds -> Users \cup {None}], lossy' \in BOOLEAN
    PROVE  ClientInv'
<1>1. /\ call' \in [Calls -> Call]
      /\ call'[c] = k /\ \A x \in Calls \ {c} : call'[x] = call[x]
  BY DEF ClientInv, HistoryTyped, Wired
<1>2. HistoryTyped'
  BY <1>1 DEF ClientInv, HistoryTyped
<1>3. CallsWired'
  BY <1>1 DEF ClientInv, CallsWired, Wired
<1>4. ASSUME NEW b \in Tabs PROVE TabWired(b)'
  <2>1. TabWired(b)
    BY DEF ClientInv, TabsWired
  <2>2. tab[b].nav # None => tab[b].nav \in Calls
    BY <2>1 DEF TabWired, Tab
  <2> QED
    BY <1>1, <2>1, <2>2 DEF TabWired
<1> QED
  BY <1>2, <1>3, <1>4 DEF ClientInv, TabsWired

\* Likewise for the sessions: one call turns, and nothing is minted or spent.
LEMMA CallKeepsSessions ==
    ASSUME SessionInv, NEW c \in Calls, OnlyCall(c), Carried(c) \/ Turned(c),
           UNCHANGED <<issued, usable, rotating, home, closed>>, lossy => lossy',
           cookie' \in {cookie, None} \/ (Turned(c) /\ cookie' = call[c].new)
    PROVE  SessionInv'
<1>1. \A x \in Calls : Carried(x) \/ Turned(x)
  BY DEF OnlyCall, Carried
<1>2. usable' \in [TokenIds -> SUBSET TokenIds]
  BY DEF SessionInv, Families
<1>3. Quiet
  BY <1>1, <1>2 DEF Quiet
<1> QED
  BY <1>3, QuietKeepsSessions

-----------------------------------------------------------------------------
(* The steps of the browser.                                                *)

\* What such a step has to show of its call and its tab.
LEMMA CallKeeps ==
    ASSUME BrowserInv, NEW c \in Calls, NEW b \in Tabs, NEW k, NEW q,
           call' = [call EXCEPT ![c] = k], tab' = [tab EXCEPT ![b] = q],
           Wired(k), q \in Tab, q.token \in issued \cup {None},
           call[c].at = "idle" \/ call[c].tab = b,
           q.nav # None => \/ q.nav = c /\ k.fn = "restore" /\ k.tab = b /\ k.heard /\ k.at # "idle"
                           \/ q.nav # c /\ q.nav = tab[b].nav,
           q.out => /\ q.token = None /\ q.route # "dashboard"
                    /\ q.nav = c => k.op = "refresh"
                    /\ q.nav \notin {c, None} => tab[b].out,
           \/ k.at = call[c].at /\ k.cookie = call[c].cookie /\ k.new = call[c].new
                /\ cookie' \in {cookie, None}
           \/ /\ call[c].at # "rotating" /\ k.at # "rotating" /\ k.new = None
              /\ k.cookie \in {call[c].cookie, cookie', None}
              /\ call[c].new # None => lossy' \/ cookie' = call[c].new
              /\ cookie' \in {cookie, None, call[c].new},
           UNCHANGED <<issued, usable, rotating, home, owner, stale, closed>>,
           lossy' \in BOOLEAN, lossy => lossy'
    PROVE  BrowserInv'
<1>1. ClientInv'
  BY CallKeepsClient DEF BrowserInv
<1>2. call'[c] = k /\ \A x \in Calls \ {c} : call'[x] = call[x]
  BY DEF BrowserInv, ClientInv, HistoryTyped
<1>3. OnlyCall(c)
  BY <1>2 DEF OnlyCall
<1>4. /\ Carried(c) \/ Turned(c)
      /\ cookie' \in {cookie, None} \/ (Turned(c) /\ cookie' = call[c].new)
  BY <1>2 DEF Carried, Turned
<1>5. SessionInv'
  BY <1>3, <1>4, CallKeepsSessions DEF BrowserInv
<1> QED
  BY <1>1, <1>5 DEF BrowserInv

\* The calls and tabs as the invariant has them.
LEMMA Reads ==
    ASSUME BrowserInv
    PROVE  /\ \A c \in Calls :
                /\ Wired(call[c]) /\ call[c] \in Call
                /\ call[c].new \in issued \cup {None}
                /\ call[c].at = "idle" => call[c].new = None
                /\ call[c].at # "idle" => call[c].tab \in Tabs
           /\ \A b \in Tabs : TabWired(b) /\ tab[b] \in Tab /\ tab[b].token \in TokenIds \cup {None}
           /\ cookie \in TokenIds \cup {None} /\ cookie \in issued \cup {None}
           /\ issued \subseteq TokenIds /\ lossy \in BOOLEAN
BY DEF BrowserInv, ClientInv, CallsWired, TabsWired, SessionInv, HeldIssued, Families, HistoryTyped,
       Wired, TabWired

LEMMA OpenDashboardKeeps ==
    ASSUME BrowserInv, NEW c \in Calls, NEW b \in Tabs, NEW q \in Tab,
           OpenDashboard(c, b, q, cookie), q.token \in issued \cup {None}, ~q.out,
           call[c].at = "idle" \/ call[c].tab = b, call[c].at # "rotating", call[c].new = None,
           UNCHANGED <<cookie, issued, usable, rotating, home, owner, stale, closed, lossy>>
    PROVE  BrowserInv'
<1>1. PICK k : k = Fetch(b, "reload", "me", cookie, q.token, None)
  OBVIOUS
<1>2. Wired(k) /\ k.at = "sent" /\ k.cookie = cookie /\ k.new = None
  BY <1>1, FetchWired, Reads
<1>3. PICK p : p = [q EXCEPT !.route = "dashboard", !.nav = None, !.busy = None,
                             !.loading = TRUE, !.error = FALSE]
  OBVIOUS
<1>4. p \in Tab /\ p.token = q.token /\ p.nav = None /\ ~p.out
  BY <1>3 DEF Tab
<1>5. call' = [call EXCEPT ![c] = k] /\ tab' = [tab EXCEPT ![b] = p]
  BY <1>1, <1>3 DEF OpenDashboard
<1> QED
  BY <1>2, <1>4, <1>5, CallKeeps, Reads

LEMMA GoToDashboardKeeps ==
    ASSUME BrowserInv, NEW c \in Calls, NEW b \in Tabs, NEW q \in Tab,
           GoToDashboard(c, b, q, cookie), q.token \in issued \cup {None},
           q.out => q.token = None /\ q.route # "dashboard",
           call[c].at = "idle" \/ call[c].tab = b, call[c].at # "rotating", call[c].new = None,
           UNCHANGED <<cookie, issued, usable, rotating, home, owner, stale, closed, lossy>>
    PROVE  BrowserInv'
<1>1. CASE Authenticated(q)
  BY <1>1, OpenDashboardKeeps DEF GoToDashboard, Authenticated
<1>2. CASE ~Authenticated(q)
  <2>1. PICK k : k = Fetch(b, "restore", "refresh", cookie, q.token, None)
    OBVIOUS
  <2>2. /\ Wired(k) /\ k.at = "sent" /\ k.cookie = cookie /\ k.new = None
        /\ k.fn = "restore" /\ k.tab = b /\ k.heard /\ k.op = "refresh"
    BY <2>1, FetchWired, Reads
  <2>3. PICK p : p = [q EXCEPT !.nav = c]
    OBVIOUS
  <2>4. p \in Tab /\ p.token = q.token /\ p.nav = c /\ p.out = q.out /\ p.route = q.route
    BY <2>3 DEF Tab
  <2>5. call' = [call EXCEPT ![c] = k] /\ tab' = [tab EXCEPT ![b] = p]
    BY <1>2, <2>1, <2>3 DEF GoToDashboard
  <2> QED
    BY <2>2, <2>4, <2>5, CallKeeps, Reads, ZenonT(40)
<1> QED
  BY <1>1, <1>2

\* A request sent by a view of tab b, whose router does not move.
LEMMA ClickKeeps ==
    ASSUME BrowserInv, NEW b \in Tabs, NEW c \in Calls, NEW u \in Users \cup {None},
           Forward(b, c) \/ Submit(b, c, u) \/ ClickLogout(b, c) \/ ClickReload(b, c)
    PROVE  BrowserInv'
<1>1. call[c].at = "idle" /\ call[c].new = None
  BY Reads DEF Forward, Submit, ClickLogout, ClickReload, Takes, At
<1>2. UNCHANGED <<cookie, issued, usable, rotating, home, owner, stale, closed, lossy>>
  BY DEF Forward, Submit, ClickLogout, ClickReload, backend, ids
<1>3. TabWired(b) /\ tab[b] \in Tab
  BY Reads
<1>4. CASE Forward(b, c)
  BY <1>1, <1>2, <1>3, <1>4, GoToDashboardKeeps DEF Forward, TabWired
<1>5. CASE Submit(b, c, u) \/ ClickLogout(b, c) \/ ClickReload(b, c)
  <2>1. PICK p : p = IF ClickReload(b, c) THEN [tab[b] EXCEPT !.loading = TRUE, !.error = FALSE]
                                          ELSE [tab[b] EXCEPT !.busy = c]
    OBVIOUS
  <2>2. /\ p \in Tab /\ p.token = tab[b].token
        /\ p.nav = tab[b].nav /\ p.out = tab[b].out /\ p.route = tab[b].route
    BY <1>3, <2>1 DEF Tab
  <2>3. tab' = [tab EXCEPT ![b] = p]
    <3>1. CASE ClickReload(b, c)
      BY <2>1, <3>1 DEF ClickReload, BrowserInv, ClientInv, HistoryTyped
    <3>2. CASE ~ClickReload(b, c)
      BY <1>5, <2>1, <3>2 DEF Submit, ClickLogout
    <3> QED
      BY <3>1, <3>2
  <2>4. PICK k : /\ call' = [call EXCEPT ![c] = k]
                 /\ Wired(k) /\ k.at = "sent" /\ k.cookie = cookie /\ k.new = None
    <3>1. PICK f : f = Fetch(b, "login", "login", cookie, tab[b].token, u)
      OBVIOUS
    <3>2. PICK g : g = Fetch(b, "logout", "logout", cookie, tab[b].token, None)
      OBVIOUS
    <3>3. PICK h : h = Fetch(b, "reload", "me", cookie, tab[b].token, None)
      OBVIOUS
    <3>4. cookie \in TokenIds \cup {None} /\ tab[b].token \in TokenIds \cup {None}
      BY Reads
    <3>5. Wired(f) /\ f.at = "sent" /\ f.cookie = cookie /\ f.new = None
      BY <3>1, <3>4 DEF Fetch, Free, Wired, Call
    <3>6. Wired(g) /\ g.at = "sent" /\ g.cookie = cookie /\ g.new = None
      BY <3>2, <3>4 DEF Fetch, Free, Wired, Call
    <3>7. Wired(h) /\ h.at = "sent" /\ h.cookie = cookie /\ h.new = None
      BY <3>3, <3>4 DEF Fetch, Free, Wired, Call
    <3>8. \E k \in {f, g, h} : call' = [call EXCEPT ![c] = k]
      BY <1>5, <3>1, <3>2, <3>3 DEF Submit, ClickLogout, ClickReload
    <3> QED
      BY <3>5, <3>6, <3>7, <3>8
  <2>5. tab[b].nav # c
    BY <1>1, <1>3 DEF TabWired
  <2>6. /\ tab[b].token \in issued \cup {None}
        /\ tab[b].out => tab[b].token = None /\ tab[b].route # "dashboard"
    BY <1>3 DEF TabWired
  <2> QED
    BY <1>1, <1>2, <2>2, <2>3, <2>4, <2>5, <2>6, CallKeeps, Reads
<1> QED
  BY <1>4, <1>5

\* The navigations and calls of the page that is left are nobody's.
LEMMA LoadKeeps ==
    ASSUME BrowserInv, NEW b \in Tabs, NEW c \in Calls, Load(b, c)
    PROVE  BrowserInv'
<1>1. call[c].at = "idle" /\ call[c].new = None
  BY Reads DEF Load, Takes, At
<1>2. UNCHANGED <<cookie, issued, usable, rotating, home, owner, stale, closed>>
  BY DEF Load, backend, ids
<1>3. PICK k : k = Fetch(b, "restore", "refresh", cookie, None, None)
  OBVIOUS
<1>4. /\ Wired(k) /\ k.at = "sent" /\ k.cookie = cookie /\ k.new = None
      /\ k.fn = "restore" /\ k.tab = b /\ k.heard /\ k.op = "refresh"
  BY <1>3, FetchWired, Reads
<1>5. call' \in [Calls -> Call] /\ call'[c] = k
  <2>1. Free \in Call /\ k \in Call /\ \A x \in Calls : [call[x] EXCEPT !.heard = FALSE] \in Call
    <3>1. Free \in Call /\ k \in Call
      BY <1>4, FreeWired DEF Wired
    <3>2. \A q \in Call : [q EXCEPT !.heard = FALSE] \in Call
      BY DEF Call
    <3> QED
      BY <3>1, <3>2, Reads
  <2>2. call' = [x \in Calls |-> call'[x]]
    BY DEF Load
  <2>3. \A x \in Calls : call'[x] \in {k, Free, call[x], [call[x] EXCEPT !.heard = FALSE]}
    BY <1>3 DEF Load
  <2>4. \A x \in Calls : call'[x] \in Call
    BY <2>1, <2>3, Reads
  <2>5. call'[c] = k
    BY <1>3 DEF Load
  <2> QED
    BY <2>2, <2>4, <2>5
<1>6. ASSUME NEW x \in Calls \ {c}
      PROVE  \/ call'[x] = call[x]
             \/ call[x].tab = b /\ call[x].at # "back" /\ call'[x] = [call[x] EXCEPT !.heard = FALSE]
             \/ call[x].tab = b /\ call[x].at = "back" /\ call'[x] = Free
  <2>1. call[x].at = "back" => call[x].heard
    BY Reads DEF Wired
  <2>2. call[x] \in Call
    BY Reads
  <2> QED
    BY <2>1, <2>2 DEF Load, At, Call
<1>7. ASSUME NEW x \in Calls \ {c} PROVE Wired(call'[x])
  <2>1. PICK r : r = call[x] /\ Wired(r)
    BY Reads
  <2>2. r.at # "back" => Wired([r EXCEPT !.heard = FALSE])
    BY <2>1 DEF Wired, Call
  <2> QED
    BY <1>6, <2>1, <2>2, FreeWired
<1>8. lossy' \in BOOLEAN /\ (lossy => lossy')
  BY Reads DEF Load
<1>9. PICK q : q = [Fresh("blank") EXCEPT !.nav = c]
  OBVIOUS
<1>10. q \in Tab /\ q.token = None /\ q.nav = c /\ ~q.out
  BY <1>9 DEF Fresh, Tab
<1>11. /\ tab' \in [Tabs -> Tab] /\ tab'[b] = q
       /\ \A d \in Tabs \ {b} : tab'[d] = tab[d]
  BY <1>9, <1>10 DEF Load, BrowserInv, ClientInv, HistoryTyped
<1>12. ASSUME NEW d \in Tabs \ {b} PROVE TabWired(d)'
  <2>1. TabWired(d) /\ tab[d] \in Tab
    BY Reads
  <2>2. tab[d].nav # None => tab[d].nav \in Calls \ {c} /\ call[tab[d].nav].tab # b
    BY <1>1, <2>1 DEF TabWired, Tab
  <2>3. tab[d].nav # None => call'[tab[d].nav] = call[tab[d].nav]
    BY <1>6, <2>2
  <2> QED
    BY <1>2, <1>11, <2>1, <2>3 DEF TabWired
<1>13. TabWired(b)'
  BY <1>4, <1>5, <1>10, <1>11 DEF TabWired
<1>14. ClientInv'
  BY <1>2, <1>4, <1>5, <1>7, <1>8, <1>11, <1>12, <1>13
     DEF BrowserInv, ClientInv, HistoryTyped, CallsWired, TabsWired
<1>15. \A x \in Calls : Carried(x) \/ Turned(x)
  <2>1. Turned(c)
    BY <1>1, <1>4, <1>5, <1>2 DEF Turned
  <2>2. ASSUME NEW x \in Calls \ {c} PROVE Carried(x) \/ Turned(x)
    <3>1. CASE call'[x] = call[x]
      BY <3>1 DEF Carried
    <3>2. CASE call'[x] = [call[x] EXCEPT !.heard = FALSE]
      BY <3>2, Reads DEF Carried, Call
    <3>3. CASE call[x].tab = b /\ call[x].at = "back" /\ call'[x] = Free
      <4>1. call[x].new # None => lossy'
        BY <3>3 DEF Load, At
      <4> QED
        BY <3>3, <4>1 DEF Turned, Free
    <3> QED
      BY <1>6, <3>1, <3>2, <3>3
  <2> QED
    BY <2>1, <2>2
<1>16. usable \in [TokenIds -> SUBSET TokenIds]
  BY DEF BrowserInv, SessionInv, Families
<1>17. Quiet
  BY <1>2, <1>8, <1>15, <1>16 DEF Quiet
<1> QED
  BY <1>14, <1>17, QuietKeepsSessions DEF BrowserInv

\* What a failed function leaves: its tab does not wait for it any more.
LEMMA FailureLeaves ==
    ASSUME BrowserInv, NEW c \in Calls, NEW b \in Tabs, call[c].tab = b,
           NEW r, r = AfterFailure(c, tab[b]) \/ r = AfterLogout(tab[b])
    PROVE  /\ r \in Tab /\ r.token \in issued \cup {None} /\ r.nav # c
           /\ r.nav # None => r.nav = tab[b].nav
           /\ r.out => /\ r.token = None /\ r.route # "dashboard"
                       /\ r.nav # None => tab[b].out
<1>1. TabWired(b) /\ tab[b] \in Tab
  BY Reads
<1>2. PICK q : q = tab[b]
  OBVIOUS
<1>3. /\ q \in Tab /\ q.token \in issued \cup {None}
      /\ q.nav = c => call[c].fn = "restore"
      /\ q.out => q.token = None /\ q.route # "dashboard"
  BY <1>1, <1>2 DEF TabWired
<1>4. CASE r = AfterLogout(q)
  BY <1>3, <1>4 DEF AfterLogout, ToLogin, Clear, Tab
<1>5. CASE call[c].fn = "restore" /\ r = AfterFailure(c, q)
  <2>1. r = Done(c, IF q.nav = c THEN ToLogin(Clear(q)) ELSE Clear(q))
    BY <1>5 DEF AfterFailure
  <2>2. CASE q.nav = c
    <3>1. r = Done(c, ToLogin(Clear(q)))
      BY <2>1, <2>2
    <3> QED
      BY <1>3, <3>1, ZenonT(40) DEF Done, ToLogin, Clear, Tab
  <2>3. CASE q.nav # c
    <3>1. r = Done(c, Clear(q))
      BY <2>1, <2>3
    <3> QED
      BY <1>2, <1>3, <2>3, <3>1 DEF Done, Clear, Tab
  <2> QED
    BY <2>2, <2>3
<1>6. CASE call[c].fn = "logout" /\ r = AfterFailure(c, q)
  BY <1>4, <1>6 DEF AfterFailure
<1>7. CASE call[c].fn = "reload" /\ r = AfterFailure(c, q)
  <2>1. r = [q EXCEPT !.error = TRUE, !.loading = FALSE]
    BY <1>7 DEF AfterFailure
  <2> QED
    BY <1>2, <1>3, <1>7, <2>1 DEF Tab
<1>8. CASE call[c].fn \notin {"restore", "logout", "reload"} /\ r = AfterFailure(c, q)
  <2>1. r = Done(c, q)
    BY <1>8 DEF AfterFailure
  <2> QED
    BY <1>2, <1>3, <1>8, <2>1 DEF Done, Tab
<1> QED
  BY <1>2, <1>4, <1>5, <1>6, <1>7, <1>8

\* An answer that ends its function, a failure, and a request that never arrived.
LEMMA EndKeeps ==
    ASSUME BrowserInv, NEW c \in Calls,
           ReceiveLogout(c) \/ ReceiveError(c) \/ GiveUp(c) \/ LoseAnswer(c)
    PROVE  BrowserInv'
<1>1. PICK b : b = call[c].tab
  OBVIOUS
<1>2. call[c].at # "idle" /\ b \in Tabs /\ Wired(call[c])
  BY <1>1, Reads DEF ReceiveLogout, ReceiveError, GiveUp, LoseAnswer, Arrives, At
<1>3. UNCHANGED <<issued, usable, rotating, home, owner, stale, closed>>
  BY DEF ReceiveLogout, ReceiveError, GiveUp, LoseAnswer, Fail, backend, ids
<1>4. lossy' \in BOOLEAN /\ (lossy => lossy')
  BY Reads DEF ReceiveLogout, ReceiveError, GiveUp, LoseAnswer
<1>5. PICK r : /\ tab' = [tab EXCEPT ![b] = r]
               /\ r = AfterFailure(c, tab[b]) \/ r = AfterLogout(tab[b])
  <2>1. CASE ReceiveLogout(c)
    BY <1>1, <2>1 DEF ReceiveLogout, Mine
  <2>2. CASE ~ReceiveLogout(c)
    BY <1>1, <2>2 DEF ReceiveError, GiveUp, LoseAnswer, Fail, Mine
  <2> QED
    BY <2>1, <2>2
<1>6. /\ r \in Tab /\ r.token \in issued \cup {None} /\ r.nav # c
      /\ r.nav # None => r.nav = tab[b].nav
      /\ r.out => /\ r.token = None /\ r.route # "dashboard"
                  /\ r.nav # None => tab[b].out
  BY <1>1, <1>2, <1>5, FailureLeaves
<1>7. CASE GiveUp(c)
  <2>1. PICK k : k = [call[c] EXCEPT !.heard = FALSE]
    OBVIOUS
  <2>2. /\ Wired(k) /\ k.at = call[c].at /\ k.cookie = call[c].cookie /\ k.new = call[c].new
        /\ call' = [call EXCEPT ![c] = k] /\ cookie' = cookie
    <3>1. call' = [call EXCEPT ![c] = k] /\ cookie' = cookie
      BY <1>7, <2>1, Reads DEF GiveUp, Call, BrowserInv, ClientInv, HistoryTyped
    <3>2. call[c].at # "back"
      BY <1>7 DEF GiveUp
    <3>3. PICK q : q = call[c]
      OBVIOUS
    <3>4. Wired(q) /\ q.at # "back" /\ k = [q EXCEPT !.heard = FALSE]
      BY <1>2, <2>1, <3>2, <3>3
    <3>5. Wired(k) /\ k.at = q.at /\ k.cookie = q.cookie /\ k.new = q.new
      BY <3>4 DEF Wired, Call
    <3> QED
      BY <3>1, <3>3, <3>5
  <2> QED
    BY <1>1, <1>2, <1>3, <1>4, <1>5, <1>6, <2>2, CallKeeps
<1>8. CASE ~GiveUp(c)
  <2>1. call' = [call EXCEPT ![c] = Free] /\ call[c].at = "back"
    BY <1>8 DEF ReceiveLogout, ReceiveError, LoseAnswer, Arrives, At
  <2>2. Free.at = "idle" /\ Free.new = None /\ Free.cookie = None
    BY DEF Free
  <2>3. /\ cookie' \in {cookie, None, call[c].new}
        /\ call[c].new # None => lossy' \/ cookie' = call[c].new
    <3>1. CASE ReceiveLogout(c)
      BY <1>2, <3>1 DEF ReceiveLogout, CookieAfter, Wired
    <3>2. CASE ReceiveError(c)
      BY <1>2, <3>2 DEF ReceiveError, Wired
    <3>3. CASE LoseAnswer(c)
      BY <3>3 DEF LoseAnswer, CookieAfter
    <3> QED
      BY <1>8, <3>1, <3>2, <3>3
  <2> QED
    BY <1>1, <1>2, <1>3, <1>4, <1>5, <1>6, <2>1, <2>2, <2>3, FreeWired, CallKeeps
<1> QED
  BY <1>7, <1>8

LEMMA LoseRequestKeeps ==
    ASSUME BrowserInv, NEW c \in Calls, LoseRequest(c)
    PROVE  BrowserInv'
<1>1. PICK b : b = call[c].tab
  OBVIOUS
<1>2. /\ call[c].at = "sent" /\ b \in Tabs /\ ~call[c].heard /\ call[c].new = None
      /\ TabWired(b) /\ tab[b] \in Tab
  BY <1>1, Reads DEF LoseRequest, At, Wired
<1>3. tab' = [tab EXCEPT ![b] = tab[b]] /\ call' = [call EXCEPT ![c] = Free]
  BY <1>2 DEF LoseRequest, BrowserInv, ClientInv, HistoryTyped
<1>4. Free.at = "idle" /\ Free.new = None /\ Free.cookie = None
  BY DEF Free
<1>5. UNCHANGED <<cookie, issued, usable, rotating, home, owner, stale, closed, lossy>>
  BY DEF LoseRequest, backend, ids
<1>6. tab[b].nav # c /\ tab[b].token \in issued \cup {None}
        /\ (tab[b].out => tab[b].token = None /\ tab[b].route # "dashboard")
  BY <1>2 DEF TabWired
<1> QED
  BY <1>1, <1>2, <1>3, <1>4, <1>5, <1>6, FreeWired, CallKeeps, Reads

\* A pair is handed over: its cookie is current, and the tab is signed in again.
LEMMA ReceiveTokensKeeps ==
    ASSUME BrowserInv, NEW c \in Calls, ReceiveTokens(c)
    PROVE  BrowserInv'
<1>1. PICK b : b = call[c].tab
  OBVIOUS
<1>2. PICK n : n = call[c].new
  OBVIOUS
<1>3. /\ call[c].at = "back" /\ b \in Tabs /\ Wired(call[c]) /\ call[c].heard
      /\ n # None /\ n \in issued /\ n \in TokenIds /\ cookie' = n
      /\ call[c].fn \in {"none", "restore", "login", "logout", "reload"}
  BY <1>1, <1>2, Reads DEF ReceiveTokens, Arrives, At, CookieAfter, Wired, Call
<1>4. PICK q : q = [tab[b] EXCEPT !.token = n, !.out = FALSE]
  OBVIOUS
<1>5. /\ q \in Tab /\ q.token = n /\ ~q.out /\ q.nav = tab[b].nav
      /\ tab' = [tab EXCEPT ![b] = q]
  <2>1. tab[b] \in Tab
    BY <1>3, Reads
  <2>2. tab' = [tab EXCEPT ![b].token = n, ![b].out = FALSE]
    BY <1>1, <1>2 DEF ReceiveTokens, Mine
  <2>3. tab' = [tab EXCEPT ![b] = q]
    BY <1>3, <1>4, <2>2 DEF BrowserInv, ClientInv, HistoryTyped
  <2> QED
    BY <1>3, <1>4, <2>1, <2>3 DEF Tab
<1>6. PICK k : k = Fetch(b, call[c].fn, "me", n, n, None)
  OBVIOUS
<1>7. /\ Wired(k) /\ k.at = "sent" /\ k.heard /\ k.fn = call[c].fn /\ k.op = "me"
      /\ k.tab = b /\ k.cookie = n /\ k.new = None
  BY <1>3, <1>6 DEF Fetch, Free, Wired, Call
<1>8. call' = [call EXCEPT ![c] = k]
  BY <1>1, <1>2, <1>3, <1>6 DEF ReceiveTokens, Mine
<1>9. UNCHANGED <<issued, usable, rotating, home, owner, stale, closed, lossy>>
  BY DEF ReceiveTokens, backend, ids
<1>10. q.nav = c => call[c].fn = "restore"
  <2>1. TabWired(b)
    BY <1>3, Reads
  <2> QED
    BY <1>3, <1>5, <2>1 DEF TabWired
<1> QED
  BY <1>1, <1>2, <1>3, <1>5, <1>7, <1>8, <1>9, <1>10, CallKeeps, Reads

\* The profile arrives: only a tab that waits for it, or whose form sent it, moves on.
LEMMA ReceiveProfileKeeps ==
    ASSUME BrowserInv, NEW c \in Calls, ReceiveProfile(c)
    PROVE  BrowserInv'
<1>1. PICK b : b = call[c].tab
  OBVIOUS
<1>2. /\ call[c].at = "back" /\ b \in Tabs /\ Wired(call[c]) /\ call[c].op = "me"
      /\ call[c].bearer \in TokenIds /\ call[c].new = None
      /\ TabWired(b) /\ tab[b] \in Tab
  BY <1>1, Reads DEF ReceiveProfile, Arrives, At, Wired, Call
<1>3. PICK q : q = [tab[b] EXCEPT !.user = owner[call[c].bearer]]
  OBVIOUS
<1>4. /\ q \in Tab /\ q.token = tab[b].token /\ q.nav = tab[b].nav
      /\ q.out = tab[b].out /\ q.route = tab[b].route
  <2>1. owner[call[c].bearer] \in Users \cup {None}
    BY <1>2 DEF BrowserInv, ClientInv, HistoryTyped
  <2> QED
    BY <1>2, <1>3, <2>1 DEF Tab
<1>5. UNCHANGED <<cookie, issued, usable, rotating, home, owner, stale, closed, lossy>>
  BY DEF ReceiveProfile, backend, ids
<1>6. /\ q.token \in issued \cup {None}
      /\ q.out => q.token = None /\ q.route # "dashboard"
      /\ q.nav = c => call[c].fn = "restore" /\ ~q.out
  BY <1>2, <1>4 DEF TabWired
<1>7. CASE call[c].fn = "restore" /\ q.nav = c
  <2>1. OpenDashboard(c, b, q, cookie)
    BY <1>1, <1>3, <1>7 DEF ReceiveProfile, Mine
  <2> QED
    BY <1>1, <1>2, <1>4, <1>5, <1>6, <1>7, <2>1, OpenDashboardKeeps
<1>8. CASE ~(call[c].fn = "restore" /\ q.nav = c) /\ call[c].fn = "login" /\ q.route # "dashboard"
  <2>1. GoToDashboard(c, b, q, cookie)
    BY <1>1, <1>3, <1>8 DEF ReceiveProfile, Mine
  <2> QED
    BY <1>1, <1>2, <1>4, <1>5, <1>6, <1>8, <2>1, GoToDashboardKeeps
<1>9. CASE ~(call[c].fn = "restore" /\ q.nav = c) /\ ~(call[c].fn = "login" /\ q.route # "dashboard")
  <2>1. PICK p : p = Done(c, [q EXCEPT !.loading = IF call[c].fn = "reload" THEN FALSE ELSE @])
    OBVIOUS
  <2>2. tab' = [tab EXCEPT ![b] = p] /\ call' = [call EXCEPT ![c] = Free]
    BY <1>1, <1>3, <1>9, <2>1 DEF ReceiveProfile, Mine
  <2>3. /\ p \in Tab /\ p.token = q.token /\ p.nav = q.nav /\ p.out = q.out /\ p.route = q.route
    <3>1. PICK l : l = IF call[c].fn = "reload" THEN FALSE ELSE q.loading
      OBVIOUS
    <3>2. l \in BOOLEAN
      BY <1>4, <3>1 DEF Tab
    <3>3. p = Done(c, [q EXCEPT !.loading = l])
      BY <2>1, <3>1
    <3> QED
      BY <1>4, <3>2, <3>3 DEF Done, Tab
  <2>4. Free.at = "idle" /\ Free.new = None /\ Free.cookie = None
    BY DEF Free
  <2>5. /\ p.nav # None => p.nav # c /\ p.nav = tab[b].nav
        /\ p.out => p.token = None /\ p.route # "dashboard" /\ tab[b].out
        /\ p.token \in issued \cup {None}
    BY <1>4, <1>6, <1>9, <2>3
  <2>6. p.nav # c /\ lossy' \in BOOLEAN
    BY <1>5, <1>6, <1>9, <2>3, Reads
  <2> QED
    BY <1>1, <1>2, <1>5, <2>2, <2>3, <2>4, <2>5, <2>6, FreeWired, CallKeeps
<1> QED
  BY <1>7, <1>8, <1>9

LEMMA BackKeeps ==
    ASSUME BrowserInv, NEW b \in Tabs, Back(b)
    PROVE  BrowserInv'
<1>1. PICK q : q = ToLogin(tab[b])
  OBVIOUS
<1>2. TabWired(b) /\ tab[b] \in Tab
  BY Reads
<1>3. q \in Tab /\ q.token = tab[b].token /\ q.nav = None /\ q.out = tab[b].out /\ q.route = "login"
  BY <1>1, <1>2 DEF ToLogin, Tab
<1>4. UNCHANGED <<call, cookie, issued, usable, rotating, home, owner, stale, closed, lossy>>
  BY DEF Back, backend, ids
<1>5. /\ tab' \in [Tabs -> Tab] /\ tab'[b] = q /\ \A d \in Tabs \ {b} : tab'[d] = tab[d]
  BY <1>1, <1>3 DEF Back, BrowserInv, ClientInv, HistoryTyped
<1>6. ASSUME NEW d \in Tabs PROVE TabWired(d)'
  <2>1. TabWired(d)
    BY Reads
  <2> QED
    BY <1>2, <1>3, <1>4, <1>5, <2>1 DEF TabWired
<1>7. ClientInv'
  BY <1>4, <1>5, <1>6 DEF BrowserInv, ClientInv, HistoryTyped, CallsWired, TabsWired, Wired
<1>8. SessionInv'
  BY <1>4 DEF BrowserInv, SessionInv, Families, HeldIssued, Rotators, Rotates, At, Undelivered,
              NewIsCurrent, Current, CookieTracked
<1> QED
  BY <1>7, <1>8 DEF BrowserInv

-----------------------------------------------------------------------------
(* The steps of the backend.                                                *)

\* Call c has become k, which brings a new pair if it is heard and new is one.
AnsweredBy(c, k, new) ==
    /\ call' = [call EXCEPT ![c] = k] /\ Wired(k)
    /\ call[c].heard => /\ k.fn = call[c].fn /\ k.tab = call[c].tab
                        /\ k.op = call[c].op /\ k.heard /\ k.at = "back"
    /\ OnlyCall(c) /\ call'[c].at # "rotating" /\ call[c].new = None
    /\ call'[c].cookie \in {call[c].cookie, None}
    /\ call'[c].new = IF call[c].heard THEN new ELSE None
    /\ lossy' \in BOOLEAN /\ (lossy => lossy')
    /\ new # None /\ ~call[c].heard => lossy'

LEMMA ReplyCall ==
    ASSUME BrowserInv, NEW c \in Calls, NEW ok \in BOOLEAN, NEW new \in TokenIds \cup {None},
           Reply(c, ok, new), call[c].at \in {"sent", "rotating"},
           new # None <=> ok /\ call[c].op \in {"refresh", "login"},
           ok /\ call[c].op = "me" => call[c].bearer # None
    PROVE  \E k : AnsweredBy(c, k, new)
<1>1. call' = [call EXCEPT ![c] = Replied(call[c], ok, new)]
  BY DEF Reply, Replied
<1>2. PICK q : q = call[c] /\ Wired(q)
  BY Reads
<1>3. PICK r : r = Replied(q, ok, new)
  OBVIOUS
<1>4. /\ Wired(r) /\ r.at # "rotating" /\ r.cookie \in {q.cookie, None}
      /\ r.new = IF q.heard THEN new ELSE None
      /\ q.heard => r.fn = q.fn /\ r.tab = q.tab /\ r.op = q.op /\ r.heard /\ r.at = "back"
  BY <1>2, <1>3, RepliedWired
<1>5. call'[c] = r /\ OnlyCall(c)
  BY <1>1, <1>2, <1>3 DEF BrowserInv, ClientInv, HistoryTyped, OnlyCall
<1>6. call[c].new = None
  BY <1>2 DEF Wired
<1>7. /\ lossy => lossy'
      /\ new # None /\ ~call[c].heard => lossy'
      /\ lossy' \in BOOLEAN
  BY DEF Reply
<1> QED
  BY <1>1, <1>2, <1>3, <1>4, <1>5, <1>6, <1>7 DEF AnsweredBy

\* Sessions that are closed are over, and were issued.
LEMMA ClosesKnown ==
    ASSUME BrowserInv, NEW F \in SUBSET TokenIds, \A f \in F : usable[f] # {},
           Backend!Close(F), closed' = closed \cup F
    PROVE  /\ closed' \subseteq issued
           /\ usable' \in [TokenIds -> SUBSET TokenIds]
           /\ \A f \in TokenIds : usable'[f] = usable[f] \/ (usable'[f] = {} /\ f \in closed')
<1>1. \A f \in F : f \in issued
  BY DEF BrowserInv, SessionInv, Families
<1> QED
  BY <1>1 DEF BrowserInv, SessionInv, Families, ClientInv, HistoryTyped, Backend!Close

LEMMA AnswerKeeps ==
    ASSUME BrowserInv, NEW c \in Calls, ServeLogout(c) \/ ServeMe(c) \/ ServeRefuse(c)
    PROVE  BrowserInv'
<1>1. PICK ok \in BOOLEAN : /\ Reply(c, ok, None) /\ call[c].at = "sent"
                            /\ ok => call[c].op \in {"logout", "me"} /\ call[c].bearer # None
  BY DEF ServeLogout, ServeMe, ServeRefuse, At, Accepts
<1>2. PICK k : AnsweredBy(c, k, None)
  BY <1>1, ReplyCall
<1>3. /\ call' = [call EXCEPT ![c] = k] /\ Wired(k)
      /\ call[c].heard => /\ k.fn = call[c].fn /\ k.tab = call[c].tab
                          /\ k.op = call[c].op /\ k.heard /\ k.at = "back"
      /\ OnlyCall(c) /\ call'[c].at # "rotating" /\ call'[c].new = None /\ call[c].new = None
      /\ call'[c].cookie \in {call[c].cookie, None} /\ (lossy => lossy') /\ lossy' \in BOOLEAN
  BY <1>2 DEF AnsweredBy
<1>4. UNCHANGED <<tab, cookie, issued, rotating, home, owner, stale>>
  BY DEF ServeLogout, ServeMe, ServeRefuse, backend, ids, Backend!Close
<1>5. /\ closed \subseteq closed' /\ closed' \subseteq issued
      /\ usable' \in [TokenIds -> SUBSET TokenIds]
      /\ \A f \in TokenIds : usable'[f] = usable[f] \/ (usable'[f] = {} /\ f \in closed')
  <2>1. CASE ServeLogout(c)
    <3>1. PICK F : /\ F = {f \in TokenIds : usable[f] = {call[c].cookie}}
                   /\ Backend!Close(F) /\ closed' = closed \cup F
      BY <2>1 DEF ServeLogout
    <3> QED
      BY <3>1, ClosesKnown
  <2>2. CASE ServeMe(c) \/ ServeRefuse(c)
    BY <2>2 DEF ServeMe, ServeRefuse, backend, BrowserInv, ClientInv, HistoryTyped, SessionInv, Families
  <2> QED
    BY <2>1, <2>2
<1>6. home \in [TokenIds -> TokenIds \cup {None}] /\ owner \in [TokenIds -> Users \cup {None}]
  BY DEF BrowserInv, ClientInv, HistoryTyped
<1>7. ClientInv'
  BY <1>3, <1>4, <1>5, <1>6, ServeKeepsClient DEF BrowserInv
<1>8. \A x \in Calls : Carried(x) \/ Turned(x)
  BY <1>1, <1>3 DEF OnlyCall, Carried, Turned
<1>9. Quiet
  BY <1>3, <1>4, <1>5, <1>8 DEF Quiet
<1> QED
  BY <1>7, <1>9, QuietKeepsSessions DEF BrowserInv

\* A pair is issued, to a call that may be gone.
LEMMA PairKeeps ==
    ASSUME BrowserInv, NEW c \in Calls, ServeLogin(c) \/ ServeMint(c)
    PROVE  BrowserInv'
<1>1. PICK t \in TokenIds : /\ Unused(t) /\ Reply(c, TRUE, t)
                            /\ \/ ServeLogin(c) /\ Backend!Open(t) /\ home' = [home EXCEPT ![t] = t]
                                    /\ owner' = [owner EXCEPT ![t] = call[c].user]
                               \/ /\ ServeMint(c) /\ Backend!Mint(home[call[c].cookie], t)
                                  /\ home' = [home EXCEPT ![t] = home[call[c].cookie]]
                                  /\ owner' = [owner EXCEPT ![t] = owner[call[c].cookie]]
  BY DEF ServeLogin, ServeMint
<1>2. /\ call[c].at \in {"sent", "rotating"} /\ call[c].op \in {"refresh", "login"}
      /\ t # None /\ t \notin issued /\ call[c] \in Call
  BY <1>1, Reads DEF ServeLogin, ServeMint, At, Wired, Unused
<1>3. PICK k : AnsweredBy(c, k, t)
  BY <1>1, <1>2, ReplyCall
<1>4. /\ call' = [call EXCEPT ![c] = k] /\ Wired(k)
      /\ call[c].heard => /\ k.fn = call[c].fn /\ k.tab = call[c].tab
                          /\ k.op = call[c].op /\ k.heard /\ k.at = "back"
      /\ OnlyCall(c) /\ call'[c].at # "rotating" /\ call[c].new = None
      /\ call'[c].new = IF call[c].heard THEN t ELSE None
      /\ call'[c].cookie \in {call[c].cookie, None}
      /\ (lossy => lossy') /\ (~call[c].heard => lossy') /\ lossy' \in BOOLEAN
  BY <1>2, <1>3 DEF AnsweredBy
<1>5. UNCHANGED <<tab, cookie, stale, closed>>
  BY <1>1 DEF ServeLogin, ServeMint
<1>6. PICK f \in TokenIds :
          /\ \/ f = t /\ call[c].at # "rotating"
             \/ f \in rotating /\ Rotates(c, f)
          /\ issued' = issued \cup {t} /\ rotating' = rotating \ {f}
          /\ usable' = [usable EXCEPT ![f] = {t}] /\ home' = [home EXCEPT ![t] = f]
  <2>1. CASE ServeLogin(c) /\ Backend!Open(t) /\ home' = [home EXCEPT ![t] = t]
    <3>1. rotating' = rotating \ {t} /\ call[c].at # "rotating"
      BY <2>1, <1>2 DEF ServeLogin, At, Backend!Open, BrowserInv, SessionInv, Families
    <3> QED
      BY <2>1, <3>1 DEF Backend!Open
  <2>2. CASE /\ ServeMint(c) /\ Backend!Mint(home[call[c].cookie], t)
             /\ home' = [home EXCEPT ![t] = home[call[c].cookie]]
    <3>1. PICK f : f = home[call[c].cookie]
      OBVIOUS
    <3>2. f \in rotating /\ f \in TokenIds /\ Rotates(c, f)
      BY <2>2, <3>1 DEF ServeMint, Rotates, At, Backend!Mint, BrowserInv, SessionInv, Families
    <3> QED
      BY <2>2, <3>1, <3>2 DEF Backend!Mint
  <2> QED
    BY <1>1, <2>1, <2>2
<1>7. SessionInv'
  <2>1. home \in [TokenIds -> TokenIds \cup {None}]
    BY DEF BrowserInv, ClientInv, HistoryTyped
  <2>2. call'[c].new = t \/ (call'[c].new = None /\ lossy')
    BY <1>4
  <2> QED
    BY <1>2, <1>4, <1>5, <1>6, <2>1, <2>2, PairKeepsSessions DEF BrowserInv
<1>8. closed' \subseteq issued' /\ issued \subseteq issued'
  BY <1>5, <1>6 DEF BrowserInv, ClientInv, HistoryTyped
<1>9. home' \in [TokenIds -> TokenIds \cup {None}] /\ owner' \in [TokenIds -> Users \cup {None}]
  <2>1. PICK u : owner' = [owner EXCEPT ![t] = u] /\ (u = call[c].user \/ (u = owner[call[c].cookie] /\ ServeMint(c)))
    BY <1>1
  <2>2. u \in Users \cup {None}
    <3>1. CASE u = call[c].user
      BY <1>2, <3>1 DEF Call
    <3>2. CASE u = owner[call[c].cookie] /\ ServeMint(c)
      <4>1. call[c].cookie \in TokenIds
        BY <3>2 DEF ServeMint, BrowserInv, SessionInv, Rotators, Families
      <4> QED
        BY <3>2, <4>1 DEF BrowserInv, ClientInv, HistoryTyped
    <3> QED
      BY <2>1, <3>1, <3>2
  <2> QED
    BY <1>6, <2>1, <2>2 DEF BrowserInv, ClientInv, HistoryTyped
<1>10. ClientInv'
  BY <1>4, <1>5, <1>8, <1>9, ServeKeepsClient DEF BrowserInv
<1> QED
  BY <1>7, <1>10 DEF BrowserInv

LEMMA SpendKeeps ==
    ASSUME BrowserInv, NEW c \in Calls, ServeSpend(c)
    PROVE  BrowserInv'
<1>1. PICK q : q = call[c] /\ Wired(q)
  BY Reads
<1>2. q.at = "sent" /\ q.op = "refresh" /\ q.cookie # None
  BY <1>1 DEF ServeSpend, At
<1>3. PICK k : k = [q EXCEPT !.at = "rotating"]
  OBVIOUS
<1>4. /\ Wired(k) /\ k.at = "rotating" /\ k.cookie = q.cookie /\ k.new = q.new
      /\ k.fn = q.fn /\ k.tab = q.tab /\ k.op = q.op /\ k.heard = q.heard
  BY <1>1, <1>2, <1>3 DEF Wired, Call
<1>5. call' = [call EXCEPT ![c] = k]
  BY <1>1, <1>3 DEF ServeSpend, BrowserInv, ClientInv, HistoryTyped
<1>6. call'[c] = k /\ OnlyCall(c)
  BY <1>5 DEF OnlyCall, BrowserInv, ClientInv, HistoryTyped
<1>7. /\ UNCHANGED <<tab, cookie, home, owner, stale, closed, lossy, issued>>
      /\ Backend!Spend(home[call[c].cookie], call[c].cookie)
  BY DEF ServeSpend, ids, Backend!Spend
<1>8. SessionInv'
  BY <1>1, <1>2, <1>4, <1>6, <1>7, SpendKeepsSessions DEF BrowserInv
<1>9. /\ home \in [TokenIds -> TokenIds \cup {None}] /\ owner \in [TokenIds -> Users \cup {None}]
      /\ closed \subseteq issued /\ lossy \in BOOLEAN
  BY DEF BrowserInv, ClientInv, HistoryTyped
<1>10. ClientInv'
  BY <1>1, <1>4, <1>5, <1>7, <1>9, ServeKeepsClient DEF BrowserInv
<1> QED
  BY <1>8, <1>10 DEF BrowserInv

LEMMA AbandonKeeps ==
    ASSUME BrowserInv, NEW c \in Calls, ServeAbandon(c)
    PROVE  BrowserInv'
<1>1. call[c].at = "rotating" /\ Reply(c, FALSE, None)
  BY DEF ServeAbandon, At
<1>2. PICK k : AnsweredBy(c, k, None)
  BY <1>1, ReplyCall
<1>3. /\ call' = [call EXCEPT ![c] = k] /\ Wired(k)
      /\ call[c].heard => /\ k.fn = call[c].fn /\ k.tab = call[c].tab
                          /\ k.op = call[c].op /\ k.heard /\ k.at = "back"
      /\ OnlyCall(c) /\ call'[c].at # "rotating" /\ call'[c].new = None /\ call[c].new = None
      /\ call'[c].cookie \in {call[c].cookie, None} /\ (lossy => lossy') /\ lossy' \in BOOLEAN
  BY <1>2 DEF AnsweredBy
<1>4. /\ UNCHANGED <<tab, cookie, home, owner, stale, issued>>
      /\ closed' = closed \cup {home[call[c].cookie]}
      /\ Backend!Abandon(home[call[c].cookie])
  BY DEF ServeAbandon, ids, Backend!Abandon
<1>5. SessionInv'
  BY <1>1, <1>3, <1>4, AbandonKeepsSessions DEF BrowserInv
<1>6. /\ home \in [TokenIds -> TokenIds \cup {None}] /\ owner \in [TokenIds -> Users \cup {None}]
      /\ closed' \subseteq issued'
  BY <1>4 DEF BrowserInv, ClientInv, HistoryTyped, SessionInv, Families, Backend!Abandon
<1>7. ClientInv'
  BY <1>3, <1>4, <1>6, ServeKeepsClient DEF BrowserInv
<1> QED
  BY <1>5, <1>7 DEF BrowserInv

\* Time and the operator: an access token goes stale, a session ends.
LEMMA OutsideKeeps ==
    ASSUME BrowserInv, NEW t \in TokenIds, Outdate(t) \/ EndSession(t)
    PROVE  BrowserInv'
<1>1. UNCHANGED <<tab, call, cookie, issued, rotating, home, owner, lossy>>
  BY DEF Outdate, EndSession, backend, ids, Backend!Close
<1>2. /\ closed \subseteq closed' /\ closed' \subseteq issued
      /\ usable' \in [TokenIds -> SUBSET TokenIds]
      /\ \A f \in TokenIds : usable'[f] = usable[f] \/ (usable'[f] = {} /\ f \in closed')
  <2>1. CASE EndSession(t)
    <3>1. PICK F : F = {t} /\ Backend!Close(F) /\ closed' = closed \cup F /\ usable[t] # {}
      BY <2>1 DEF EndSession
    <3> QED
      BY <3>1, ClosesKnown
  <2>2. CASE Outdate(t)
    BY <2>2 DEF Outdate, backend, BrowserInv, ClientInv, HistoryTyped, SessionInv, Families
  <2> QED
    BY <2>1, <2>2
<1>3. stale' \subseteq issued
  <2>1. \A b \in Tabs : tab[b].token \in issued \cup {None}
    BY Reads DEF TabWired
  <2> QED
    BY <2>1 DEF Outdate, EndSession, BrowserInv, ClientInv, HistoryTyped
<1>4. ASSUME NEW b \in Tabs PROVE TabWired(b)'
  <2>1. TabWired(b)
    BY Reads
  <2> QED
    BY <1>1, <2>1 DEF TabWired
<1>5. CallsWired'
  BY <1>1 DEF BrowserInv, ClientInv, CallsWired, Wired
<1>6. ClientInv'
  BY <1>1, <1>2, <1>3, <1>4, <1>5 DEF BrowserInv, ClientInv, HistoryTyped, TabsWired
<1>7. Quiet
  BY <1>1, <1>2 DEF Quiet, Carried
<1> QED
  BY <1>6, <1>7, QuietKeepsSessions DEF BrowserInv

-----------------------------------------------------------------------------
(* The theorems.                                                            *)

LEMMA BrowserInvariance == Spec => []BrowserInv
<1>1. Init => BrowserInv
  <2> SUFFICES ASSUME Init PROVE BrowserInv
    OBVIOUS
  <2>1. Fresh("closed") \in Tab /\ Free \in Call
    BY DEF Fresh, Tab, Free, Call
  <2>2. ClientInv
    BY <2>1, FreeWired
       DEF Init, Backend!Init, ClientInv, HistoryTyped, CallsWired, TabsWired, TabWired, Fresh
  <2>3. SessionInv
    BY DEF Init, Backend!Init, Free, SessionInv, Families, HeldIssued, Rotators, Rotates, At,
           Undelivered, NewIsCurrent, CookieTracked
  <2> QED
    BY <2>2, <2>3 DEF BrowserInv
<1>2. BrowserInv /\ [Next]_vars => BrowserInv'
  <2> SUFFICES ASSUME BrowserInv, [Next]_vars PROVE BrowserInv'
    OBVIOUS
  <2>1. CASE Use
    <3>1. ASSUME NEW b \in Tabs, NEW c \in Calls,
                 Forward(b, c) \/ ClickLogout(b, c) \/ ClickReload(b, c)
          PROVE  BrowserInv'
      <4>1. PICK u \in Users \cup {None} : u = None
        OBVIOUS
      <4> QED
        BY <3>1, <4>1, ClickKeeps
    <3>2. ASSUME NEW b \in Tabs, NEW c \in Calls, NEW u \in Users, Submit(b, c, u)
          PROVE  BrowserInv'
      BY <3>2, ClickKeeps
    <3> QED
      BY <2>1, <3>1, <3>2, LoadKeeps, BackKeeps DEF Use
  <2>2. ASSUME NEW c \in Calls, Serve(c) PROVE BrowserInv'
    BY <2>2, AnswerKeeps, PairKeeps, SpendKeeps, AbandonKeeps DEF Serve
  <2>3. ASSUME NEW c \in Calls, Receive(c) PROVE BrowserInv'
    BY <2>3, ReceiveTokensKeeps, ReceiveProfileKeeps, EndKeeps DEF Receive
  <2>4. ASSUME NEW c \in Calls, Lose(c) PROVE BrowserInv'
    BY <2>4, EndKeeps, LoseRequestKeeps DEF Lose
  <2>5. ASSUME NEW t \in TokenIds, Outdate(t) \/ EndSession(t) PROVE BrowserInv'
    BY <2>5, OutsideKeeps
  <2>6. CASE UNCHANGED vars
    <3>1. ClientInv'
      BY <2>6 DEF vars, backend, ids, BrowserInv, ClientInv, HistoryTyped, CallsWired, TabsWired,
                  TabWired, Wired
    <3>2. SessionInv'
      BY <2>6 DEF vars, backend, ids, BrowserInv, SessionInv, Families, HeldIssued, Rotators,
                  Rotates, At, Undelivered, NewIsCurrent, Current, CookieTracked
    <3> QED
      BY <3>1, <3>2 DEF BrowserInv
  <2> QED
    BY <2>1, <2>2, <2>3, <2>4, <2>5, <2>6 DEF Next
<1> QED
  BY <1>1, <1>2, PTL DEF Spec

\* Stores, calls and jar keep their types, and a navigation waits for a restore of its tab.
THEOREM BrowserTypeCorrect == Spec => []TypeOK
<1>1. BrowserInv => TypeOK
  <2> SUFFICES ASSUME BrowserInv PROVE TypeOK
    OBVIOUS
  <2>1. \A b \in Tabs : tab[b].nav # None =>
            call[tab[b].nav].fn = "restore" /\ Mine(tab[b].nav) = b
    BY Reads DEF TabWired, Mine
  <2> QED
    BY <2>1, Reads DEF TypeOK, BrowserInv, ClientInv, HistoryTyped
<1> QED
  BY <1>1, BrowserInvariance, PTL

\* However many tabs restore and sign in at the same time, and in whatever order their
\* answers arrive, an idle browser holds the usable token of its session.
THEOREM CookieCorrect == Spec => []CookieFollowsRotation
<1>1. BrowserInv => CookieFollowsRotation
  <2> SUFFICES ASSUME BrowserInv, \A c \in Calls : call[c].at = "idle", ~lossy, cookie # None,
                      home[cookie] \notin closed
               PROVE  usable[home[cookie]] = {cookie}
    BY DEF CookieFollowsRotation, At
  <2>1. \A c \in Calls : call[c].new = None
    BY Reads
  <2> QED
    BY <2>1 DEF BrowserInv, SessionInv, CookieTracked, Current, Rotates, At
<1> QED
  BY <1>1, BrowserInvariance, PTL

\* A tab that logged out shows the dashboard only after it got a new pair.
THEOREM OutCorrect == Spec => []OutMeansOut
<1>1. BrowserInv => OutMeansOut
  BY Reads DEF OutMeansOut, TabWired
<1> QED
  BY <1>1, BrowserInvariance, PTL

-----------------------------------------------------------------------------
(* The browser asks of the backend what it promises, and no more.           *)

\* What a request makes the backend do is a step of the promise.
LEMMA ServeIsPromised ==
    ASSUME BrowserInv, NEW c \in Calls, Serve(c)
    PROVE  [Backend!Next]_Backend!vars
<1>1. CASE ServeLogin(c)
  BY <1>1 DEF ServeLogin, Backend!Next
<1>2. CASE ServeSpend(c)
  <2>1. PICK t : t = call[c].cookie
    OBVIOUS
  <2>2. PICK f : f = home[t]
    OBVIOUS
  <2>3. t \in issued /\ f \in TokenIds
    BY <1>2, <2>1, <2>2 DEF ServeSpend, BrowserInv, SessionInv, Families, HeldIssued
  <2>4. t \in TokenIds
    BY <2>3 DEF BrowserInv, SessionInv, Families
  <2>5. Backend!Spend(f, t)
    BY <1>2, <2>1, <2>2 DEF ServeSpend
  <2> QED
    BY <2>3, <2>4, <2>5 DEF Backend!Next
<1>3. CASE ServeMint(c) \/ ServeAbandon(c)
  <2>1. PICK f : f = home[call[c].cookie]
    OBVIOUS
  <2>2. f \in TokenIds
    BY <1>3, <2>1 DEF ServeMint, ServeAbandon, At, BrowserInv, SessionInv, Families, Rotators
  <2>3. CASE ServeAbandon(c)
    BY <2>1, <2>2, <2>3 DEF ServeAbandon, Backend!Next
  <2>4. CASE ServeMint(c)
    BY <2>1, <2>2, <2>4 DEF ServeMint, Backend!Next
  <2> QED
    BY <1>3, <2>3, <2>4
<1>4. CASE ServeLogout(c)
  BY <1>4 DEF ServeLogout, Backend!Next
<1>5. CASE ServeMe(c) \/ ServeRefuse(c)
  BY <1>5 DEF ServeMe, ServeRefuse, backend, Backend!vars
<1> QED
  BY <1>1, <1>2, <1>3, <1>4, <1>5 DEF Serve

\* Whatever the tabs do and lose, what becomes of the sessions is a behaviour of
\* SessionFamilies: the composition stands on the same promise that AuthService keeps.
THEOREM PromiseSuffices == Spec => Backend!Spec
<1>1. Init => Backend!Init
  BY DEF Init
<1>2. BrowserInv /\ [Next]_vars => [Backend!Next]_Backend!vars
  <2> SUFFICES ASSUME BrowserInv, [Next]_vars
               PROVE  [Backend!Next]_Backend!vars
    OBVIOUS
  <2>1. CASE Use
    BY <2>1, ZenonT(40)
       DEF Use, Load, Forward, Back, Submit, ClickLogout, ClickReload, backend, Backend!vars
  <2>2. ASSUME NEW c \in Calls, Receive(c) \/ Lose(c) PROVE [Backend!Next]_Backend!vars
    BY <2>2 DEF Receive, Lose, ReceiveTokens, ReceiveProfile, ReceiveLogout, ReceiveError, Fail,
                GiveUp, LoseAnswer, LoseRequest, backend, Backend!vars
  <2>3. ASSUME NEW t \in TokenIds, Outdate(t) PROVE [Backend!Next]_Backend!vars
    BY <2>3 DEF Outdate, backend, Backend!vars
  <2>4. ASSUME NEW t \in TokenIds, EndSession(t) PROVE [Backend!Next]_Backend!vars
    BY <2>4 DEF EndSession, Backend!Next
  <2>5. CASE UNCHANGED vars
    BY <2>5 DEF vars, backend, Backend!vars
  <2> QED
    BY <2>1, <2>2, <2>3, <2>4, <2>5, ServeIsPromised DEF Next
<1> QED
  BY <1>1, <1>2, BrowserInvariance, PTL DEF Spec, Backend!Spec

-----------------------------------------------------------------------------
(* A navigation that waits for tryRefresh is decided.  Of FairSpec the proof *)
(* uses what weak fairness gives one call, with the guards in place of       *)
(* ENABLED: NeverRefused below says that a request that was sent can be      *)
(* served, and an answer always has a function that awaits it.               *)

\* The backend gets round to the request of c, and the browser to its answer.
Serves(c) == []<>~(At(c, "sent") \/ At(c, "rotating")) \/ []<><<Serve(c)>>_vars
Receives(c) == []<>~(call[c].heard /\ At(c, "back")) \/ []<><<Receive(c)>>_vars

\* That is what weak fairness of the two actions gives them.
LEMMA FairServes ==
    ASSUME NEW c \in Calls
    PROVE  /\ WF_vars(Serve(c))
             /\ [](At(c, "sent") \/ At(c, "rotating") => ENABLED <<Serve(c)>>_vars) => Serves(c)
           /\ WF_vars(Receive(c))
             /\ [](call[c].heard /\ At(c, "back") => ENABLED <<Receive(c)>>_vars) => Receives(c)
BY PTL DEF Serves, Receives

\* What is left of a restore: the refresh is sent, rotates and answers, then the profile.
ToGo(c) ==
    CASE At(c, "rotating") -> 4
      [] call[c].op # "me" /\ At(c, "sent") -> 5
      [] call[c].op # "me" /\ At(c, "back") -> 3
      [] call[c].op = "me" /\ At(c, "sent") -> 2
      [] OTHER -> 1

Waits(b, c) == tab[b].nav = c

LEMMA WaitsReads ==
    ASSUME BrowserInv, NEW b \in Tabs, NEW c \in Calls, Waits(b, c)
    PROVE  /\ call[c].fn = "restore" /\ Mine(c) = b /\ call[c].heard
           /\ call[c].at \in {"sent", "rotating", "back"}
           /\ At(c, "rotating") => call[c].op = "refresh"
<1>1. TabWired(b) /\ Wired(call[c]) /\ tab[b].nav # None
  BY Reads DEF Waits
<1> QED
  BY <1>1 DEF TabWired, Waits, Wired, Call, Mine, At

\* A request of c that is served has less to go.
LEMMA ServeNearer ==
    ASSUME BrowserInv, NEW b \in Tabs, NEW c \in Calls, Waits(b, c), Serve(c)
    PROVE  Waits(b, c)' /\ ToGo(c)' < ToGo(c)
<1>1. tab' = tab
  BY DEF Serve, ServeLogin, ServeSpend, ServeMint, ServeAbandon, ServeLogout, ServeMe, ServeRefuse
<1>2. /\ At(c, "sent") \/ At(c, "rotating")
      /\ At(c, "rotating") => call[c].op = "refresh"
      /\ call[c] \in Call /\ call[c].heard /\ call \in [Calls -> Call]
  BY WaitsReads DEF Serve, ServeLogin, ServeSpend, ServeMint, ServeAbandon, ServeLogout, ServeMe,
                    ServeRefuse, BrowserInv, ClientInv, HistoryTyped
<1>3. CASE ServeSpend(c)
  <2>1. call'[c].at = "rotating" /\ call[c].at = "sent" /\ call[c].op = "refresh"
    BY <1>2, <1>3 DEF ServeSpend, At, Call
  <2> QED
    BY <1>1, <2>1 DEF ToGo, At, Waits
<1>4. CASE ~ServeSpend(c)
  <2>1. PICK ok, new : Reply(c, ok, new)
    BY <1>4 DEF Serve, ServeLogin, ServeMint, ServeAbandon, ServeLogout, ServeMe, ServeRefuse
  <2>2. call'[c].at = "back" /\ call'[c].op = call[c].op
    BY <1>2, <2>1 DEF Reply, Call
  <2> QED
    BY <1>1, <1>2, <2>2 DEF ToGo, At, Waits
<1> QED
  BY <1>3, <1>4

\* A call that has failed is nobody's navigation.
LEMMA FailDecides ==
    ASSUME BrowserInv, NEW b \in Tabs, NEW c \in Calls, Waits(b, c), Fail(c)
    PROVE  ~Waits(b, c)'
<1>1. call[c].tab = b
  BY WaitsReads DEF Mine
<1>2. PICK r : r = AfterFailure(c, tab[b])
  OBVIOUS
<1>3. r.nav # c
  BY <1>1, <1>2, FailureLeaves
<1>4. tab' = [tab EXCEPT ![b] = r] /\ tab \in [Tabs -> Tab]
  BY <1>1, <1>2 DEF Fail, Mine, BrowserInv, ClientInv, HistoryTyped
<1> QED
  BY <1>3, <1>4 DEF Waits

\* An answer to c either decides the navigation or brings it nearer.
LEMMA ReceiveNearer ==
    ASSUME BrowserInv, NEW b \in Tabs, NEW c \in Calls, Waits(b, c), Receive(c)
    PROVE  ~Waits(b, c)' \/ ToGo(c)' < ToGo(c)
<1>1. /\ call[c].fn = "restore" /\ call[c].tab = b /\ Mine(c) = b
      /\ call \in [Calls -> Call] /\ tab \in [Tabs -> Tab]
  BY WaitsReads DEF Mine, BrowserInv, ClientInv, HistoryTyped
<1>2. CASE ReceiveTokens(c)
  <2>1. call[c].at = "back" /\ call[c].op # "me"
    BY <1>2 DEF ReceiveTokens, Arrives, At
  <2>2. call'[c] = Fetch(b, call[c].fn, "me", CookieAfter(c), call[c].new, None)
    BY <1>1, <1>2 DEF ReceiveTokens
  <2>3. call'[c].at = "sent" /\ call'[c].op = "me"
    BY <2>2 DEF Fetch, Free
  <2> QED
    BY <2>1, <2>3 DEF ToGo, At
<1>3. CASE ReceiveProfile(c)
  <2>1. PICK q : q = [tab[b] EXCEPT !.user = owner[call[c].bearer]]
    OBVIOUS
  <2>2. q.nav = c
    BY <1>1, <2>1 DEF Waits, Tab
  <2>3. OpenDashboard(c, b, q, cookie)
    BY <1>1, <1>3, <2>1, <2>2 DEF ReceiveProfile
  <2>4. PICK p : p = [q EXCEPT !.route = "dashboard", !.nav = None, !.busy = None,
                               !.loading = TRUE, !.error = FALSE]
    OBVIOUS
  <2>5. tab' = [tab EXCEPT ![b] = p]
    BY <2>3, <2>4 DEF OpenDashboard
  <2>6. p.nav = None
    BY <1>1, <2>1, <2>4 DEF Tab
  <2> QED
    BY <1>1, <2>5, <2>6 DEF Waits
<1>4. CASE ReceiveLogout(c)
  <2>1. PICK r : r = AfterLogout(tab[b])
    OBVIOUS
  <2>2. r.nav # c
    BY <1>1, <2>1, FailureLeaves
  <2>3. tab' = [tab EXCEPT ![b] = r]
    BY <1>1, <1>4, <2>1 DEF ReceiveLogout
  <2> QED
    BY <1>1, <2>2, <2>3 DEF Waits
<1>5. CASE ReceiveError(c)
  BY <1>5, FailDecides DEF ReceiveError
<1> QED
  BY <1>2, <1>3, <1>4, <1>5 DEF Receive

\* Whatever else happens, the request of c is not touched while its tab waits for it.
LEMMA OthersLeaveAlone ==
    ASSUME BrowserInv, NEW b \in Tabs, NEW c \in Calls, Waits(b, c), [Next]_vars,
           ~Serve(c), ~Receive(c)
    PROVE  ~Waits(b, c)' \/ call'[c] = call[c]
<1>1. /\ call[c].tab = b /\ Mine(c) = b /\ call[c].heard /\ ~At(c, "idle")
      /\ call \in [Calls -> Call] /\ tab \in [Tabs -> Tab]
  BY WaitsReads DEF Mine, At, BrowserInv, ClientInv, HistoryTyped
<1>2. ASSUME NEW d \in Tabs, NEW x \in Calls, Load(d, x)
      PROVE  ~Waits(b, c)' \/ call'[c] = call[c]
  <2>1. x # c
    BY <1>1, <1>2 DEF Load, Takes
  <2>2. CASE d = b
    <3>1. PICK p : p = [Fresh("blank") EXCEPT !.nav = x]
      OBVIOUS
    <3>2. p.nav = x
      BY <3>1 DEF Fresh
    <3>3. tab' = [tab EXCEPT ![b] = p]
      BY <1>2, <2>2, <3>1 DEF Load
    <3> QED
      BY <1>1, <2>1, <3>2, <3>3 DEF Waits
  <2>3. CASE d # b
    <3> DEFINE left == [y \in Calls |-> IF call[y].tab = d THEN [call[y] EXCEPT !.heard = FALSE]
                                        ELSE call[y]]
    <3>1. left[c] = call[c]
      BY <1>1, <2>3
    <3>2. call' = [y \in Calls |->
              IF y = x THEN Fetch(d, "restore", "refresh", cookie, None, None)
              ELSE IF At(y, "back") /\ ~left[y].heard THEN Free ELSE left[y]]
      BY <1>2 DEF Load
    <3> HIDE DEF left
    <3> QED
      BY <1>1, <2>1, <3>1, <3>2
  <2> QED
    BY <2>2, <2>3
<1>3. ASSUME NEW d \in Tabs, NEW x \in Calls, NEW u \in Users \cup {None},
             Forward(d, x) \/ ClickLogout(d, x) \/ ClickReload(d, x) \/ Submit(d, x, u)
      PROVE  call'[c] = call[c]
  <2>1. x # c
    BY <1>1, <1>3 DEF Forward, ClickLogout, ClickReload, Submit, Takes
  <2>2. \E k : call' = [call EXCEPT ![x] = k]
    BY <1>3 DEF Forward, GoToDashboard, OpenDashboard, ClickLogout, ClickReload, Submit
  <2> QED
    BY <1>1, <2>1, <2>2
<1>4. CASE Use
  BY <1>2, <1>3, <1>4 DEF Use, Back
<1>5. ASSUME NEW x \in Calls, x # c, Serve(x) PROVE call'[c] = call[c]
  <2>1. \E k : call' = [call EXCEPT ![x] = k]
    <3>1. CASE ServeSpend(x)
      BY <3>1 DEF ServeSpend
    <3>2. CASE ~ServeSpend(x)
      <4>1. PICK ok, new : Reply(x, ok, new)
        BY <1>5, <3>2 DEF Serve, ServeLogin, ServeMint, ServeAbandon, ServeLogout, ServeMe,
                          ServeRefuse
      <4> QED
        BY <4>1 DEF Reply
    <3> QED
      BY <3>1, <3>2
  <2> QED
    BY <1>1, <1>5, <2>1
<1>6. ASSUME NEW x \in Calls, x # c, Receive(x) PROVE call'[c] = call[c]
  <2>1. \E k : call' = [call EXCEPT ![x] = k]
    <3>1. CASE ReceiveProfile(x)
      BY <3>1 DEF ReceiveProfile, GoToDashboard, OpenDashboard
    <3>2. CASE ~ReceiveProfile(x)
      BY <1>6, <3>2 DEF Receive, ReceiveTokens, ReceiveLogout, ReceiveError
    <3> QED
      BY <3>1, <3>2
  <2> QED
    BY <1>1, <1>6, <2>1
<1>7. ASSUME NEW x \in Calls, Lose(x)
      PROVE  ~Waits(b, c)' \/ call'[c] = call[c]
  <2>1. CASE x = c
    <3>1. Fail(c)
      BY <1>1, <1>7, <2>1 DEF Lose, GiveUp, LoseAnswer, LoseRequest
    <3> QED
      BY <3>1, FailDecides
  <2>2. CASE x # c
    <3>1. \E k : call' = [call EXCEPT ![x] = k]
      <4>1. CASE GiveUp(x)
        BY <4>1 DEF GiveUp
      <4>2. CASE LoseAnswer(x) \/ LoseRequest(x)
        BY <4>2 DEF LoseAnswer, LoseRequest
      <4> QED
        BY <1>7, <4>1, <4>2 DEF Lose
    <3> QED
      BY <1>1, <2>2, <3>1
  <2> QED
    BY <2>1, <2>2
<1>8. ASSUME NEW t \in TokenIds, Outdate(t) \/ EndSession(t) PROVE call'[c] = call[c]
  BY <1>8 DEF Outdate, EndSession
<1>9. CASE UNCHANGED vars
  BY <1>9 DEF vars
<1> QED
  BY <1>4, <1>5, <1>6, <1>7, <1>8, <1>9 DEF Next

\* Nothing sets the restore back that a tab waits for.
LEMMA NeverFurther ==
    ASSUME BrowserInv, NEW b \in Tabs, NEW c \in Calls, Waits(b, c), [Next]_vars
    PROVE  ~Waits(b, c)' \/ ToGo(c)' = ToGo(c) \/ ToGo(c)' < ToGo(c)
<1>1. call'[c] = call[c] => ToGo(c)' = ToGo(c)
  BY DEF ToGo, At
<1> QED
  BY <1>1, ServeNearer, ReceiveNearer, OthersLeaveAlone

\* From k steps left to fewer, or to a decision.
Nearer(b, c, k) == Waits(b, c) /\ ToGo(c) = k ~> ~Waits(b, c) \/ ToGo(c) < k

LEMMA GetsNearer ==
    ASSUME NEW b \in Tabs, NEW c \in Calls, NEW k \in 1 .. 5
    PROVE  Spec /\ Serves(c) /\ Receives(c) => Nearer(b, c, k)
<1> DEFINE P == Waits(b, c) /\ ToGo(c) = k
           Q == ~Waits(b, c) \/ ToGo(c) < k
<1>1. BrowserInv /\ P /\ [Next]_vars => P' \/ Q'
  <2> SUFFICES ASSUME BrowserInv, P, [Next]_vars PROVE P' \/ Q'
    OBVIOUS
  <2> QED
    BY NeverFurther
<1>2. BrowserInv /\ P /\ <<Serve(c)>>_vars => Q'
  BY ServeNearer
<1>3. BrowserInv /\ P /\ <<Receive(c)>>_vars => Q'
  BY ReceiveNearer
<1>4. BrowserInv /\ P => call[c].heard /\ (At(c, "sent") \/ At(c, "rotating") \/ At(c, "back"))
  BY WaitsReads DEF At
<1>5. CASE k \in {2, 4, 5}
  <2>1. BrowserInv /\ P => At(c, "sent") \/ At(c, "rotating")
    BY <1>4, <1>5 DEF ToGo, At
  <2> QED
    BY <1>1, <1>2, <2>1, BrowserInvariance, PTL DEF Spec, Serves, Nearer
<1>6. CASE k \in {1, 3}
  <2>1. BrowserInv /\ P => call[c].heard /\ At(c, "back")
    BY <1>4, <1>6 DEF ToGo, At
  <2> QED
    BY <1>1, <1>3, <2>1, BrowserInvariance, PTL DEF Spec, Receives, Nearer
<1> QED
  BY <1>5, <1>6

LEMMA OneDecided ==
    ASSUME NEW b \in Tabs, NEW c \in Calls
    PROVE  Spec /\ Serves(c) /\ Receives(c) => (tab[b].nav = c ~> tab[b].nav # c)
<1> DEFINE n == ToGo(c)
<1>1. /\ n = 1 \/ n = 2 \/ n = 3 \/ n = 4 \/ n = 5
      /\ ~(n < 1)
      /\ n < 2 => n = 1
      /\ n < 3 => n = 1 \/ n = 2
      /\ n < 4 => n = 1 \/ n = 2 \/ n = 3
      /\ n < 5 => n = 1 \/ n = 2 \/ n = 3 \/ n = 4
  <2>1. n \in 1 .. 5
    BY DEF ToGo
  <2> HIDE DEF n
  <2> QED
    BY <2>1
<1>2. 1 \in 1 .. 5 /\ 2 \in 1 .. 5 /\ 3 \in 1 .. 5 /\ 4 \in 1 .. 5 /\ 5 \in 1 .. 5
  OBVIOUS
<1>3. Spec /\ Serves(c) /\ Receives(c) => Nearer(b, c, 1)
  BY <1>2, GetsNearer
<1>4. Spec /\ Serves(c) /\ Receives(c) => Nearer(b, c, 2)
  BY <1>2, GetsNearer
<1>5. Spec /\ Serves(c) /\ Receives(c) => Nearer(b, c, 3)
  BY <1>2, GetsNearer
<1>6. Spec /\ Serves(c) /\ Receives(c) => Nearer(b, c, 4)
  BY <1>2, GetsNearer
<1>7. Spec /\ Serves(c) /\ Receives(c) => Nearer(b, c, 5)
  BY <1>2, GetsNearer
<1>8. (Waits(b, c) <=> tab[b].nav = c) /\ (~Waits(b, c) <=> tab[b].nav # c)
  BY DEF Waits
<1> QED
  BY <1>1, <1>3, <1>4, <1>5, <1>6, <1>7, <1>8, PTL DEF Nearer

\* Every navigation that waits for tryRefresh is decided or replaced when the backend serves
\* its requests and the browser receives the answers, whatever the other tabs and calls do
\* and whatever is lost.
THEOREM NavigationCorrect ==
    Spec /\ (\A c \in Calls : Serves(c) /\ Receives(c)) => NavigationDecided
BY OneDecided DEF NavigationDecided

-----------------------------------------------------------------------------
(* The bound on ids never stops a rotation half way, so that a request that *)
(* was sent can always be served.                                           *)

Left == TokenIds \ issued

\* Every rotation in flight has a pair left for it.
PairsSuffice == Cardinality(rotating) <= Cardinality(Left)

\* Whatever the tabs and the backend have done, one of the outcomes of the request of c is
\* possible: it is refused, or what it asks for can be given.
NeverRefused ==
    \A c \in Calls :
        /\ At(c, "rotating") => Left # {}
        /\ At(c, "sent") /\ call[c].op = "login" => ~PairLeft \/ Left # {}
        /\ At(c, "sent") /\ call[c].op = "refresh" =>
              \/ ~PairLeft
              \/ \A f \in TokenIds : call[c].cookie \notin usable[f]
              \/ /\ call[c].cookie # None /\ home[call[c].cookie] \notin rotating
                 /\ usable[home[call[c].cookie]] = {call[c].cookie}

LEMMA FiniteSides ==
    ASSUME IsFiniteSet(TokenIds), rotating \subseteq TokenIds
    PROVE  /\ IsFiniteSet(rotating) /\ IsFiniteSet(Left)
           /\ Cardinality(rotating) \in Nat /\ Cardinality(Left) \in Nat
<1>1. Left \subseteq TokenIds
  BY DEF Left
<1>2. IsFiniteSet(rotating) /\ IsFiniteSet(Left)
  BY <1>1, FS_Subset
<1> QED
  BY <1>2, FS_CardinalityType

\* What a step takes of the pairs, and which rotations still need one after it.
LEMMA SuppliesKept ==
    ASSUME IsFiniteSet(TokenIds), rotating \subseteq TokenIds, PairsSuffice,
           \/ rotating' \subseteq rotating /\ issued' = issued
           \/ /\ PairLeft /\ issued' = issued
              /\ \E f : rotating' = rotating \cup {f}
           \/ /\ PairLeft /\ rotating' = rotating
              /\ \E t \in Left : issued' = issued \cup {t}
           \/ \E f \in rotating, t \in Left :
                rotating' = rotating \ {f} /\ issued' = issued \cup {t}
    PROVE  PairsSuffice'
<1> USE FiniteSides
<1>1. CASE rotating' \subseteq rotating /\ issued' = issued
  <2>1. IsFiniteSet(rotating') /\ Cardinality(rotating') <= Cardinality(rotating)
    BY <1>1, FS_Subset
  <2>2. Cardinality(rotating') \in Nat /\ Left' = Left
    BY <1>1, <2>1, FS_CardinalityType DEF Left
  <2> QED
    BY <2>1, <2>2 DEF PairsSuffice
<1>2. ASSUME NEW f, PairLeft, issued' = issued, rotating' = rotating \cup {f}
      PROVE  PairsSuffice'
  <2>1. /\ IsFiniteSet(rotating) /\ Cardinality(rotating) \in Nat /\ Cardinality(Left) \in Nat
        /\ Left' = Left
    BY <1>2, FiniteSides DEF Left
  <2> HIDE FiniteSides
  <2>2. /\ IsFiniteSet(rotating \cup {f})
        /\ Cardinality(rotating \cup {f}) \in {Cardinality(rotating), Cardinality(rotating) + 1}
    BY <2>1, FS_AddElement
  <2>3. Cardinality(rotating) < Cardinality(Left)
    BY <1>2 DEF PairLeft, Left
  <2> QED
    BY <1>2, <2>1, <2>2, <2>3 DEF PairsSuffice
<1>3. ASSUME NEW t \in Left, issued' = issued \cup {t} PROVE Cardinality(Left') = Cardinality(Left) - 1
  <2>1. Left' = Left \ {t}
    BY <1>3 DEF Left
  <2> QED
    BY <2>1, FS_RemoveElement
<1>4. ASSUME NEW t \in Left, PairLeft, rotating' = rotating, issued' = issued \cup {t}
      PROVE  PairsSuffice'
  BY <1>3, <1>4 DEF PairsSuffice, PairLeft, Left
<1>5. ASSUME NEW f \in rotating, NEW t \in Left, rotating' = rotating \ {f},
             issued' = issued \cup {t}
      PROVE  PairsSuffice'
  <2>1. Cardinality(rotating') = Cardinality(rotating) - 1
    BY <1>5, FS_RemoveElement
  <2> QED
    BY <1>3, <1>5, <2>1 DEF PairsSuffice
<1> QED
  BY <1>1, <1>2, <1>4, <1>5

LEMMA PairsInvariance == ASSUME IsFiniteSet(TokenIds) PROVE Spec => []PairsSuffice
<1>1. Init => PairsSuffice
  <2> SUFFICES ASSUME Init PROVE PairsSuffice
    OBVIOUS
  <2>1. rotating = {}
    BY DEF Init, Backend!Init
  <2> QED
    BY <2>1, FiniteSides, FS_EmptySet DEF PairsSuffice
<1>2. BrowserInv /\ PairsSuffice /\ [Next]_vars => PairsSuffice'
  <2> SUFFICES ASSUME BrowserInv, PairsSuffice, [Next]_vars PROVE PairsSuffice'
    OBVIOUS
  <2>1. rotating \subseteq TokenIds
    BY DEF BrowserInv, SessionInv, Families
  <2>2. ASSUME rotating' \subseteq rotating, issued' = issued PROVE PairsSuffice'
    BY <2>1, <2>2, SuppliesKept
  <2>3. CASE Use \/ UNCHANGED vars
    <3>1. rotating' = rotating /\ issued' = issued
      BY <2>3 DEF Use, Load, Forward, Back, Submit, ClickLogout, ClickReload, backend, vars
    <3> QED
      BY <2>2, <3>1
  <2>4. ASSUME NEW c \in Calls, Receive(c) \/ Lose(c) PROVE PairsSuffice'
    <3>1. rotating' = rotating /\ issued' = issued
      BY <2>4 DEF Receive, Lose, ReceiveTokens, ReceiveProfile, ReceiveLogout, ReceiveError, Fail,
                  GiveUp, LoseAnswer, LoseRequest, backend
    <3> QED
      BY <2>2, <3>1
  <2>5. ASSUME NEW t \in TokenIds, Outdate(t) \/ EndSession(t) PROVE PairsSuffice'
    <3>1. rotating' = rotating /\ issued' = issued
      BY <2>5 DEF Outdate, EndSession, Backend!Close, backend
    <3> QED
      BY <2>2, <3>1
  <2>6. ASSUME NEW c \in Calls, Serve(c) PROVE PairsSuffice'
    <3>1. CASE ServeLogin(c)
      <4>1. PICK t \in TokenIds : Backend!Open(t)
        BY <3>1 DEF ServeLogin
      <4>2. t \in Left /\ issued' = issued \cup {t} /\ rotating' = rotating /\ PairLeft
        BY <3>1, <4>1 DEF ServeLogin, Backend!Open, Left
      <4> QED
        BY <2>1, <4>2, SuppliesKept
    <3>2. CASE ServeSpend(c)
      <4>1. PICK f : f = home[call[c].cookie]
        OBVIOUS
      <4>2. PairLeft /\ issued' = issued /\ rotating' = rotating \cup {f}
        BY <3>2, <4>1 DEF ServeSpend, Backend!Spend
      <4> QED
        BY <2>1, <4>2, SuppliesKept
    <3>3. CASE ServeMint(c)
      <4>1. PICK f : f = home[call[c].cookie]
        OBVIOUS
      <4>2. PICK t \in TokenIds : Backend!Mint(f, t)
        BY <3>3, <4>1 DEF ServeMint
      <4>3. /\ f \in rotating /\ t \in Left
            /\ rotating' = rotating \ {f} /\ issued' = issued \cup {t}
        BY <4>2 DEF Backend!Mint, Left
      <4> QED
        BY <2>1, <4>3, SuppliesKept
    <3>4. CASE ServeAbandon(c) \/ ServeLogout(c) \/ ServeMe(c) \/ ServeRefuse(c)
      <4>1. rotating' \subseteq rotating /\ issued' = issued
        BY <3>4 DEF ServeAbandon, ServeLogout, ServeMe, ServeRefuse, Backend!Abandon,
                    Backend!Close, backend
      <4> QED
        BY <2>2, <4>1
    <3> QED
      BY <2>6, <3>1, <3>2, <3>3, <3>4 DEF Serve
  <2> QED
    BY <2>3, <2>4, <2>5, <2>6 DEF Next
<1> QED
  BY <1>1, <1>2, BrowserInvariance, PTL DEF Spec

\* A rotation that has spent its token always finds a pair to replace it with, and a cookie
\* that some session still takes is the one token of its own session, with no rotation in
\* flight: no request waits for another one.
THEOREM NeverRefusedCorrect == ASSUME IsFiniteSet(TokenIds) PROVE Spec => []NeverRefused
<1>1. BrowserInv /\ PairsSuffice => NeverRefused
  <2> SUFFICES ASSUME BrowserInv, PairsSuffice PROVE NeverRefused
    OBVIOUS
  <2>1. rotating \subseteq TokenIds
    BY DEF BrowserInv, SessionInv, Families
  <2>2. rotating # {} \/ PairLeft => Left # {}
    <3>1. Left = {} => Cardinality(Left) = 0
      BY FS_EmptySet
    <3>2. Cardinality(rotating) = 0 => rotating = {}
      BY <2>1, FiniteSides, FS_EmptySet
    <3> QED
      BY <2>1, <3>1, <3>2, FiniteSides DEF PairsSuffice, PairLeft, Left
  <2>3. \A c \in Calls : At(c, "rotating") => rotating # {}
    BY DEF BrowserInv, SessionInv, Rotators
  <2>4. ASSUME NEW c \in Calls, NEW f \in TokenIds, call[c].cookie \in usable[f]
        PROVE  /\ call[c].cookie # None /\ home[call[c].cookie] \notin rotating
               /\ usable[home[call[c].cookie]] = {call[c].cookie}
    BY <2>4 DEF BrowserInv, SessionInv, Families
  <2> QED
    BY <2>2, <2>3, <2>4 DEF NeverRefused
<1> QED
  BY <1>1, BrowserInvariance, PairsInvariance, PTL
=============================================================================
