-------------------------- MODULE AuthServiceProofs --------------------------
(***************************************************************************)
(* TLAPS proofs about AuthService, for every number of requests, users,    *)
(* addresses and tokens and every value of the two lifetimes.              *)
(***************************************************************************)
EXTENDS AuthService, FiniteSetTheorems, TLAPS

USE NoneAssumption, TTLAssumption

-----------------------------------------------------------------------------
(* The inductive invariant behind type correctness.                        *)

\* What the control flow of a handler guarantees about its local variables q, given
\* the rows I inserted so far: a refresh holds the id of a row, and whoever issues a
\* pair or reads a profile knows for whom.
Wired(q, I) ==
    /\ q.step \in {"refreshFind", "refreshCheck", "refreshRevoke", "refreshUser"}
          => q.op = "refresh"
    /\ q.step = "loginFind" => q.op = "login"
    /\ q.step \in {"issueSign", "issueCreate"} => q.op \in {"login", "refresh"}
    /\ q.step = "logoutRevoke" => q.op = "logout" /\ q.token \in I
    /\ q.op = "login" => q.token = None
    /\ q.op = "refresh" /\ q.step # "idle" => q.token \in I
    /\ q.step \in {"refreshCheck", "refreshRevoke", "refreshUser",
                   "issueSign", "issueCreate", "meFind"} => q.user \in UserIds

Wiring == \A r \in Requests : Wired(req[r], Issued)

\* A row was inserted for a user id, and only inserted rows have a history.
RowsOwned ==
    \A t \in TokenIds :
        /\ tokens[t].status # "unused" => tokens[t].userId \in UserIds /\ family[t] \in Issued
        /\ tokens[t].status = "unused"
              => parent[t] = None /\ family[t] = None /\ tokens[t].userId = None

TypeInv == Types /\ Wiring /\ RowsOwned

\* Replacing one handler's local variables by well-typed, well-wired ones.
LEMMA Replace ==
    ASSUME TypeInv, NEW r \in Requests, NEW q \in Request,
           req' = [req EXCEPT ![r] = q], Issued \subseteq Issued', Wired(q, Issued')
    PROVE  req' \in [Requests -> Request] /\ Wiring'
<1>1. req' \in [Requests -> Request]
  BY DEF TypeInv, Types
<1>2. ASSUME NEW x \in Requests PROVE Wired(req'[x], Issued')
  <2>1. CASE x = r
    BY <2>1 DEF TypeInv, Types
  <2>2. CASE x # r
    <3>1. req'[x] = req[x] /\ Wired(req[x], Issued)
      BY <2>2 DEF TypeInv, Types, Wiring
    <3> QED
      BY <3>1 DEF Wired
  <2> QED
    BY <2>1, <2>2
<1> QED
  BY <1>1, <1>2 DEF Wiring

\* The same when no row changes.
LEMMA Quiet ==
    ASSUME TypeInv, NEW r \in Requests, NEW q \in Request,
           req' = [req EXCEPT ![r] = q], UNCHANGED <<table, clock, history>>,
           Wired(q, Issued)
    PROVE  TypeInv'
<1>1. Issued' = Issued
  BY DEF Issued, table
<1>2. req' \in [Requests -> Request] /\ Wiring'
  BY <1>1, Replace
<1> QED
  BY <1>1, <1>2 DEF TypeInv, Types, RowsOwned, table, history

\* A handler's fresh local variables are well typed.
LEMMA NewRequestType ==
    ASSUME NEW op \in Ops, NEW step \in Steps,
           NEW e \in Emails \cup {None}, NEW t \in TokenIds \cup {None}
    PROVE  NewRequest(op, step, e, t) \in Request
BY DEF NewRequest, Request, TokenStatus, Replies

\* What a handler that has answered leaves behind.
Answered(r, s) ==
    [NewRequest(req[r].op, "idle", None, IF req[r].op = "logout" THEN req[r].token ELSE None)
        EXCEPT !.reply = s]

LEMMA AnsweredType ==
    ASSUME Types, NEW r \in Requests, NEW s \in Replies, NEW I
    PROVE  Answered(r, s) \in Request /\ Wired(Answered(r, s), I)
<1> DEFINE t == IF req[r].op = "logout" THEN req[r].token ELSE None
           n == NewRequest(req[r].op, "idle", None, t)
<1>1. req[r].op \in Ops /\ t \in TokenIds \cup {None} /\ "idle" \in Steps
  BY DEF Types, Request, Steps
<1>2. n \in Request
  BY <1>1, NewRequestType
<1>3. Answered(r, s) \in Request
  BY <1>2 DEF Request, Answered
<1>4. Answered(r, s).step = "idle" /\ (Answered(r, s).op = "login" => Answered(r, s).token = None)
  BY DEF Answered, NewRequest
<1> QED
  BY <1>3, <1>4 DEF Wired

\* A handler step that only answers.
LEMMA AnswerOnly ==
    ASSUME TypeInv, NEW r \in Requests, NEW s \in Replies, Answer(r, s),
           UNCHANGED <<table, clock, history>>
    PROVE  TypeInv'
<1>1. Types /\ req' = [req EXCEPT ![r] = Answered(r, s)]
  BY DEF Answer, Answered, TypeInv
<1>2. Answered(r, s) \in Request /\ Wired(Answered(r, s), Issued)
  BY <1>1, AnsweredType
<1> QED
  BY <1>1, <1>2, Quiet

\* A handler step that only moves on to a step it is wired for.
LEMMA GotoOnly ==
    ASSUME TypeInv, NEW r \in Requests, NEW step \in Steps, Goto(r, step),
           UNCHANGED <<table, clock, history>>,
           Wired([req[r] EXCEPT !.step = step], Issued)
    PROVE  TypeInv'
<1>1. req' = [req EXCEPT ![r] = [req[r] EXCEPT !.step = step]]
  BY DEF Goto
<1>2. [req[r] EXCEPT !.step = step] \in Request
  BY DEF TypeInv, Types, Request
<1> QED
  BY <1>1, <1>2, Quiet

-----------------------------------------------------------------------------
(* Every step keeps TypeInv.                                               *)

\* An arriving request that is well typed and well wired.
LEMMA ArriveOnly ==
    ASSUME TypeInv, NEW r \in Requests, NEW q \in Request, Arrive(r, q),
           UNCHANGED <<table, clock, history>>, Wired(q, Issued)
    PROVE  TypeInv'
BY Quiet DEF Arrive

LEMMA RefuseTyped ==
    ASSUME TypeInv, NEW r \in Requests, NEW op \in Ops, NEW s \in Replies, Refuse(r, op, s)
    PROVE  TypeInv'
<1> DEFINE q == [NewRequest(op, "idle", None, None) EXCEPT !.reply = s]
<1>1. NewRequest(op, "idle", None, None) \in Request
  BY NewRequestType DEF Steps
<1>2. q \in Request
  BY <1>1 DEF Request
<1>3. Wired(q, Issued)
  BY DEF NewRequest, Wired
<1> QED
  BY <1>2, <1>3, ArriveOnly DEF Refuse

LEMMA ReceiveTyped ==
    ASSUME TypeInv, NEW r \in Requests, Receive(r)
    PROVE  TypeInv'
<1>1. ASSUME NEW e \in Emails, StartRegister(r, e) PROVE TypeInv'
  <2> DEFINE q == NewRequest("register", "registerFind", e, None)
  <2>1. q \in Request
    BY NewRequestType DEF Ops, Steps
  <2>2. Wired(q, Issued)
    BY DEF NewRequest, Wired
  <2> QED
    BY <1>1, <2>1, <2>2, ArriveOnly DEF StartRegister
<1>2. ASSUME NEW e \in Emails, StartLogin(r, e) PROVE TypeInv'
  <2> DEFINE q == NewRequest("login", "loginFind", e, None)
  <2>1. q \in Request
    BY NewRequestType DEF Ops, Steps
  <2>2. Wired(q, Issued)
    BY DEF NewRequest, Wired
  <2> QED
    BY <1>2, <2>1, <2>2, ArriveOnly DEF StartLogin
<1>3. ASSUME NEW t \in TokenIds, StartRefresh(r, t) PROVE TypeInv'
  <2> DEFINE n == NewRequest("refresh", "refreshFind", None, t)
             d == ~RevokeMatches(t) \/ Expired(t)
             q == [n EXCEPT !.dead = d]
  <2>1. n \in Request
    BY NewRequestType DEF Ops, Steps
  <2>2. d \in BOOLEAN
    OBVIOUS
  <2>3. q \in Request
    BY <2>1, <2>2 DEF Request
  <2>4. Wired(q, Issued)
    <3> HIDE DEF d
    <3> QED
      BY <1>3 DEF NewRequest, Wired, StartRefresh
  <2> QED
    BY <1>3, <2>3, <2>4, ArriveOnly DEF StartRefresh
<1>4. ASSUME NEW t \in TokenIds, StartLogout(r, t) PROVE TypeInv'
  <2> DEFINE q == NewRequest("logout", "logoutRevoke", None, t)
  <2>1. q \in Request
    BY NewRequestType DEF Ops, Steps
  <2>2. Wired(q, Issued)
    BY <1>4 DEF NewRequest, Wired, StartLogout
  <2> QED
    BY <1>4, <2>1, <2>2, ArriveOnly DEF StartLogout
<1>5. ASSUME StartMe(r) PROVE TypeInv'
  <2> DEFINE n == NewRequest("me", "meFind", None, None)
  <2>1. n \in Request
    BY NewRequestType DEF Ops, Steps
  <2>2. PICK j \in jwts : Arrive(r, [n EXCEPT !.user = j.sub])
    BY <1>5 DEF StartMe
  <2>3. j.sub \in UserIds
    BY DEF TypeInv, Types, Jwt
  <2>4. [n EXCEPT !.user = j.sub] \in Request
    BY <2>1, <2>3 DEF Request
  <2>5. Wired([n EXCEPT !.user = j.sub], Issued)
    BY <2>3 DEF NewRequest, Wired
  <2> QED
    BY <1>5, <2>2, <2>4, <2>5, ArriveOnly DEF StartMe
<1>6. RefreshWithoutCookie(r) \/ LogoutWithoutCookie(r) \/ GuardRejects(r) => TypeInv'
  BY RefuseTyped DEF RefreshWithoutCookie, LogoutWithoutCookie, GuardRejects, Ops, Replies
<1> QED
  BY <1>1, <1>2, <1>3, <1>4, <1>5, <1>6 DEF Receive

\* Registration, login and profile: what precedes the issue of a pair.
LEMMA AccountTyped ==
    ASSUME TypeInv, NEW r \in Requests,
           \/ RegisterFind(r) \/ RegisterCreate(r) \/ RegisterDuplicate(r)
           \/ LoginFind(r) \/ LoginReject(r) \/ MeFind(r)
    PROVE  TypeInv'
<1> USE DEF Replies, Steps
<1>1. CASE RegisterFind(r)
  <2>1. Wired([req[r] EXCEPT !.step = "registerCreate"], Issued)
    BY <1>1 DEF Wired, Wiring, TypeInv, Types, Request, At, RegisterFind
  <2> QED
    BY <1>1, <2>1, AnswerOnly, GotoOnly DEF RegisterFind
<1>2. CASE RegisterCreate(r)
  <2>1. PICK u \in UserIds :
          users' = [users EXCEPT ![u] = [status |-> "present", email |-> req[r].email]]
    BY <1>2 DEF RegisterCreate
  <2>2. req[r].email \in Emails \cup {None}
    BY DEF TypeInv, Types, Request
  <2>3. [status |-> "present", email |-> req[r].email] \in UserRow
    BY <2>2 DEF UserRow
  <2>4. users' \in [UserIds -> UserRow]
    BY <2>1, <2>3 DEF TypeInv, Types
  <2>5. Answered(r, "201") \in Request /\ Wired(Answered(r, "201"), Issued')
    BY AnsweredType DEF TypeInv
  <2>6. Issued' = Issued
    BY <1>2 DEF RegisterCreate, Issued
  <2>7. req' \in [Requests -> Request] /\ Wiring'
    BY <1>2, <2>5, <2>6, Replace DEF RegisterCreate, Answer, Answered
  <2> QED
    BY <1>2, <2>4, <2>6, <2>7 DEF RegisterCreate, TypeInv, Types, RowsOwned, history
<1>3. CASE RegisterDuplicate(r)
  BY <1>3, AnswerOnly DEF RegisterDuplicate
<1>4. CASE LoginFind(r)
  <2>1. PICK u \in UserIds : req' = [req EXCEPT ![r].step = "issueSign", ![r].user = u]
    BY <1>4 DEF LoginFind
  <2> DEFINE q == [req[r] EXCEPT !.step = "issueSign", !.user = u]
  <2>0. req[r] \in Request /\ req[r].step = "loginFind" /\ Wired(req[r], Issued)
    BY <1>4 DEF TypeInv, Types, Wiring, LoginFind, At
  <2>2. q \in Request
    BY <2>0 DEF Request
  <2>3. req' = [req EXCEPT ![r] = q]
    BY <2>1
  <2>4. Wired(q, Issued)
    BY <2>0 DEF Wired, Request
  <2> QED
    BY <1>4, <2>2, <2>3, <2>4, Quiet DEF LoginFind
<1>5. CASE LoginReject(r)
  BY <1>5, AnswerOnly DEF LoginReject
<1>6. CASE MeFind(r)
  BY <1>6, AnswerOnly DEF MeFind
<1> QED
  BY <1>1, <1>2, <1>3, <1>4, <1>5, <1>6

\* The rows change only from one status to another, and never back to unused.
LEMMA StatusOnly ==
    ASSUME TypeInv, UNCHANGED <<users, jwts, clock, history>>,
           NEW r \in Requests, NEW q \in Request, req' = [req EXCEPT ![r] = q],
           NEW t \in Issued, tokens' = [tokens EXCEPT ![t].status = "revoked"],
           Wired(q, Issued)
    PROVE  TypeInv'
<1>1. t \in TokenIds /\ tokens[t].status # "unused"
  BY DEF Issued
<1>2. tokens' \in [TokenIds -> TokenRow]
  BY <1>1 DEF TypeInv, Types, TokenRow, TokenStatus
<1>3. \A x \in TokenIds : /\ tokens'[x].userId = tokens[x].userId
                          /\ tokens'[x].status = "unused" <=> tokens[x].status = "unused"
  BY <1>1 DEF TypeInv, Types, TokenRow
<1>4. Issued' = Issued
  BY <1>3 DEF Issued
<1>5. req' \in [Requests -> Request] /\ Wiring'
  BY <1>4, Replace
<1>6. RowsOwned'
  BY <1>3, <1>4 DEF TypeInv, RowsOwned, history
<1> QED
  BY <1>2, <1>5, <1>6 DEF TypeInv, Types, history

\* A refresh up to the point where its pair is issued.
LEMMA RefreshTyped ==
    ASSUME TypeInv, NEW r \in Requests,
           \/ RefreshFind(r) \/ RefreshCheck(r) \/ RefreshReject(r)
           \/ RefreshRevoke(r) \/ RefreshLose(r) \/ RefreshUser(r)
    PROVE  TypeInv'
<1> USE DEF Replies, Steps
<1>0. req[r] \in Request /\ Wired(req[r], Issued)
  BY DEF TypeInv, Types, Wiring
<1>1. CASE RefreshFind(r)
  <2> DEFINE row == tokens[req[r].token]
             q == [req[r] EXCEPT !.step = "refreshCheck",
                                 !.seen = row.status, !.user = row.userId]
  <2>1. req[r].step = "refreshFind" /\ req[r].token \in Issued /\ req[r].token \in TokenIds
    BY <1>0, <1>1 DEF Wired, RefreshFind, At, Issued
  <2>2. row.status \in TokenStatus /\ row.userId \in UserIds
    BY <2>1 DEF TypeInv, Types, TokenRow, RowsOwned, Issued
  <2>3. req' = [req EXCEPT ![r] = q]
    BY <1>1 DEF RefreshFind
  <2>4. q \in Request /\ Wired(q, Issued)
    <3> HIDE DEF row
    <3> QED
      BY <1>0, <2>1, <2>2 DEF Wired, Request
  <2> QED
    BY <1>1, <2>3, <2>4, Quiet DEF RefreshFind
<1>2. CASE RefreshCheck(r)
  <2>1. Wired([req[r] EXCEPT !.step = "refreshRevoke"], Issued)
    BY <1>0, <1>2 DEF RefreshCheck, At, Wired, Request
  <2> QED
    BY <1>2, <2>1, GotoOnly DEF RefreshCheck
<1>3. CASE RefreshReject(r)
  BY <1>3, AnswerOnly DEF RefreshReject
<1>4. CASE RefreshRevoke(r)
  <2> DEFINE q == [req[r] EXCEPT !.step = "refreshUser"]
  <2>1. q \in Request /\ Wired(q, Issued) /\ req[r].token \in Issued
    BY <1>0, <1>4 DEF RefreshRevoke, At, Wired, Request
  <2>2. req' = [req EXCEPT ![r] = q]
    BY <1>4 DEF RefreshRevoke, Goto
  <2> QED
    BY <1>4, <2>1, <2>2, StatusOnly DEF RefreshRevoke
<1>5. CASE RefreshLose(r)
  BY <1>5, AnswerOnly DEF RefreshLose
<1>6. CASE RefreshUser(r)
  <2>1. Wired([req[r] EXCEPT !.step = "issueSign"], Issued)
    BY <1>0, <1>6 DEF RefreshUser, At, Wired, Request
  <2> QED
    BY <1>6, <2>1, GotoOnly, AnswerOnly DEF RefreshUser
<1> QED
  BY <1>1, <1>2, <1>3, <1>4, <1>5, <1>6

\* What a step that inserts a RefreshToken row for the user of request r does.
LEMMA IssueCreateEffect ==
    ASSUME TypeInv, NEW r \in Requests, IssueCreate(r)
    PROVE  \E t \in Unused :
             LET f == IF req[r].token = None THEN t ELSE family[req[r].token]
                 row == [status |-> "live", userId |-> req[r].user, expiresAt |-> RefreshExpiry]
             IN  /\ tokens' = [tokens EXCEPT ![t] = row] /\ row \in TokenRow
                 /\ parent' = [parent EXCEPT ![t] = req[r].token]
                 /\ family' = [family EXCEPT ![t] = f]
                 /\ f = t \/ f \in Issued
                 /\ Issued' = Issued \cup {t}
                 /\ req[r].user \in UserIds
                 /\ req[r].token \in Issued \cup {None}
<1>1. req[r] \in Request /\ Wired(req[r], Issued) /\ req[r].step = "issueCreate"
  BY DEF TypeInv, Types, Wiring, IssueCreate, At
<1>2. /\ req[r].user \in UserIds
      /\ req[r].token = None \/ req[r].token \in Issued
  BY <1>1 DEF Wired, Request
<1>3. PICK t \in Unused :
        LET f == IF req[r].token = None THEN t ELSE family[req[r].token]
            row == [status |-> "live", userId |-> req[r].user, expiresAt |-> RefreshExpiry]
        IN  /\ tokens' = [tokens EXCEPT ![t] = row]
            /\ parent' = [parent EXCEPT ![t] = req[r].token]
            /\ family' = [family EXCEPT ![t] = f]
  BY DEF IssueCreate
<1> DEFINE f == IF req[r].token = None THEN t ELSE family[req[r].token]
           row == [status |-> "live", userId |-> req[r].user, expiresAt |-> RefreshExpiry]
<1>4. clock \in 0 .. MaxClock /\ RefreshExpiry \in 0 .. (MaxClock + RefreshTTL)
  BY DEF RefreshExpiry, TypeInv, Types
<1>5. row \in TokenRow
  BY <1>2, <1>4 DEF TokenRow, TokenStatus
<1>6. f = t \/ f \in Issued
  BY <1>2 DEF TypeInv, RowsOwned, Issued
<1>7. Issued' = Issued \cup {t}
  <2>1. t \in TokenIds /\ tokens' = [tokens EXCEPT ![t] = row]
    BY <1>3 DEF Unused
  <2>2. tokens'[t].status = "live" /\ \A x \in TokenIds \ {t} : tokens'[x] = tokens[x]
    BY <2>1 DEF TypeInv, Types
  <2> QED
    BY <2>1, <2>2 DEF Issued
<1> QED
  BY <1>2, <1>3, <1>5, <1>6, <1>7

\* issueTokens and logout.
LEMMA IssueLogoutTyped ==
    ASSUME TypeInv, NEW r \in Requests,
           IssueSign(r) \/ IssueCreate(r) \/ IssueOrphan(r) \/ LogoutRevoke(r)
    PROVE  TypeInv'
<1> USE DEF Replies, Steps
<1>0. req[r] \in Request /\ Wired(req[r], Issued)
  BY DEF TypeInv, Types, Wiring
<1>1. CASE IssueSign(r)
  <2> DEFINE q == [req[r] EXCEPT !.step = "issueCreate", !.exp = AccessExpiry]
  <2>1. clock \in 0 .. MaxClock /\ AccessExpiry \in 0 .. (MaxClock + AccessTTL)
    BY DEF AccessExpiry, TypeInv, Types
  <2>2. q \in Request /\ Wired(q, Issued)
    BY <1>0, <1>1, <2>1 DEF IssueSign, At, Wired, Request
  <2>3. req' = [req EXCEPT ![r] = q]
    BY <1>1 DEF IssueSign
  <2> QED
    BY <1>1, <2>2, <2>3, Quiet DEF IssueSign
<1>2. CASE IssueCreate(r)
  <2>1. PICK t \in Unused :
             LET f == IF req[r].token = None THEN t ELSE family[req[r].token]
                 row == [status |-> "live", userId |-> req[r].user, expiresAt |-> RefreshExpiry]
             IN  /\ tokens' = [tokens EXCEPT ![t] = row] /\ row \in TokenRow
                 /\ parent' = [parent EXCEPT ![t] = req[r].token]
                 /\ family' = [family EXCEPT ![t] = f]
                 /\ f = t \/ f \in Issued
                 /\ Issued' = Issued \cup {t}
                 /\ req[r].user \in UserIds
                 /\ req[r].token \in Issued \cup {None}
    BY <1>2, IssueCreateEffect
  <2>2. t \in TokenIds /\ Issued \subseteq TokenIds
    BY DEF Unused, Issued
  <2>3. tokens' \in [TokenIds -> TokenRow] /\ parent' \in [TokenIds -> TokenIds \cup {None}]
        /\ family' \in [TokenIds -> TokenIds \cup {None}]
    BY <2>1, <2>2 DEF TypeInv, Types
  <2>4. jwts' \subseteq Jwt /\ users' = users /\ clock' = clock
    BY <1>0, <1>2, <2>1 DEF TypeInv, Types, Jwt, Request, IssueCreate
  <2>5. Answered(r, "201") \in Request /\ Wired(Answered(r, "201"), Issued')
    BY AnsweredType DEF TypeInv
  <2>6. req' \in [Requests -> Request] /\ Wiring'
    BY <1>2, <2>1, <2>5, Replace DEF IssueCreate, Answer, Answered
  <2>7. RowsOwned'
    <3>1. ASSUME NEW x \in TokenIds \ {t}
          PROVE  tokens'[x] = tokens[x] /\ parent'[x] = parent[x] /\ family'[x] = family[x]
      BY <2>1, <2>2 DEF TypeInv, Types
    <3>2. tokens'[t].status = "live" /\ tokens'[t].userId \in UserIds /\ family'[t] \in Issued'
      BY <2>1, <2>2 DEF TypeInv, Types
    <3> QED
      BY <2>1, <3>1, <3>2 DEF RowsOwned, TypeInv
  <2> QED
    BY <2>3, <2>4, <2>6, <2>7 DEF TypeInv, Types
<1>3. CASE IssueOrphan(r)
  BY <1>3, AnswerOnly DEF IssueOrphan
<1>4. CASE LogoutRevoke(r)
  <2>1. req[r].token \in Issued
    BY <1>0, <1>4 DEF LogoutRevoke, At, Wired
  <2>2. Answered(r, "201") \in Request /\ Wired(Answered(r, "201"), Issued)
    BY AnsweredType DEF TypeInv
  <2>3. req' = [req EXCEPT ![r] = Answered(r, "201")]
    BY <1>4 DEF LogoutRevoke, Answer, Answered
  <2>4. CASE RevokeMatches(req[r].token)
    BY <1>4, <2>1, <2>2, <2>3, <2>4, StatusOnly DEF LogoutRevoke, Revoke
  <2>5. CASE ~RevokeMatches(req[r].token)
    BY <1>4, <2>2, <2>3, <2>5, Quiet DEF LogoutRevoke, Revoke, table
  <2> QED
    BY <2>4, <2>5
<1> QED
  BY <1>1, <1>2, <1>3, <1>4

LEMMA DeleteTyped ==
    ASSUME TypeInv, NEW u \in UserIds, DeleteUser(u)
    PROVE  TypeInv'
<1>1. users' \in [UserIds -> UserRow]
  BY DEF DeleteUser, TypeInv, Types, UserRow
<1>2. tokens' \in [TokenIds -> TokenRow]
  BY DEF DeleteUser, TypeInv, Types, TokenRow, TokenStatus
<1>3. \A x \in TokenIds : /\ tokens'[x].userId = tokens[x].userId
                          /\ tokens'[x].status = "unused" <=> tokens[x].status = "unused"
  <2> TAKE x \in TokenIds
  <2>1. tokens[x] \in TokenRow
    BY DEF TypeInv, Types
  <2>2. tokens[x].status = "unused" => tokens[x].userId # u
    BY DEF TypeInv, RowsOwned
  <2> QED
    BY <2>1, <2>2 DEF DeleteUser, TokenRow
<1>4. Issued' = Issued
  BY <1>3 DEF Issued
<1> QED
  BY <1>1, <1>2, <1>3, <1>4 DEF DeleteUser, TypeInv, Types, Wiring, RowsOwned, history

LEMMA StepTyped == TypeInv /\ [Next]_vars => TypeInv'
<1> SUFFICES ASSUME TypeInv, [Next]_vars PROVE TypeInv'
  OBVIOUS
<1>1. ASSUME NEW r \in Requests, Receive(r) PROVE TypeInv'
  BY <1>1, ReceiveTyped
<1>2. ASSUME NEW r \in Requests, Handle(r) PROVE TypeInv'
  BY <1>2, AccountTyped, RefreshTyped, IssueLogoutTyped DEF Handle
<1>3. ASSUME NEW r \in Requests, Abort(r) PROVE TypeInv'
  BY <1>3, AnswerOnly DEF Abort, Replies
<1>4. ASSUME NEW u \in UserIds, DeleteUser(u) PROVE TypeInv'
  BY <1>4, DeleteTyped
<1>5. CASE Tick
  <2>1. clock' \in 0 .. MaxClock
    BY <1>5 DEF Tick, TypeInv, Types
  <2>2. Issued' = Issued
    BY <1>5 DEF Tick, table, Issued
  <2> QED
    BY <1>5, <2>1, <2>2 DEF Tick, TypeInv, Types, Wiring, RowsOwned, table, history
<1>6. CASE UNCHANGED vars
  <2>1. Issued' = Issued
    BY <1>6 DEF vars, Issued
  <2> QED
    BY <1>6, <2>1 DEF vars, TypeInv, Types, Wiring, RowsOwned
<1> QED
  BY <1>1, <1>2, <1>3, <1>4, <1>5, <1>6 DEF Next

LEMMA InitTyped == Init => TypeInv
<1> SUFFICES ASSUME Init PROVE TypeInv
  OBVIOUS
<1>1. NewRequest("none", "idle", None, None) \in Request
  BY NewRequestType DEF Ops, Steps
<1>2. Types
  BY <1>1 DEF Init, Types, UserRow, TokenRow, TokenStatus
<1>3. Wired(NewRequest("none", "idle", None, None), Issued)
  BY DEF Wired, NewRequest
<1>4. Wiring
  BY <1>3 DEF Init, Wiring
<1> QED
  BY <1>2, <1>4 DEF Init, TypeInv, RowsOwned

\* The strengthened type invariant holds throughout.
LEMMA TypeInvariance == Spec => []TypeInv
BY InitTyped, StepTyped, PTL DEF Spec

LEMMA TypesAlways == Spec => []Types
<1>1. TypeInv => Types
  BY DEF TypeInv
<1> QED
  BY <1>1, TypeInvariance, PTL

\* A step of r leaves it with the expiry it had, with none, or with the one it signs now.
SignsInTime(r) ==
    \E q : /\ req' = [req EXCEPT ![r] = q]
          /\ q.exp \in {0, req[r].exp, AccessExpiry}

LEMMA RequestsSignInTime ==
    ASSUME TypeInv, NEW r \in Requests, Receive(r) \/ Handle(r) \/ Abort(r)
    PROVE  SignsInTime(r)
<1>0. ASSUME NEW q, req' = [req EXCEPT ![r] = q], q.exp \in {0, req[r].exp, AccessExpiry}
      PROVE  SignsInTime(r)
  BY <1>0 DEF SignsInTime
<1>1. ASSUME NEW s, Answer(r, s) PROVE SignsInTime(r)
  <2>1. req' = [req EXCEPT ![r] = Answered(r, s)] /\ Answered(r, s).exp = 0
    BY <1>1 DEF Answer, Answered, NewRequest
  <2> QED
    BY <1>0, <2>1
<1>2. ASSUME NEW s, Goto(r, s) PROVE SignsInTime(r)
  <2> DEFINE q == [req[r] EXCEPT !.step = s]
  <2>1. req' = [req EXCEPT ![r] = q]
    BY <1>2 DEF Goto
  <2>2. req[r] \in Request => q.exp = req[r].exp
    BY DEF Request
  <2> QED
    BY <1>0, <2>1, <2>2 DEF TypeInv, Types
<1>3. ASSUME NEW op, NEW s, Refuse(r, op, s) PROVE SignsInTime(r)
  <2> DEFINE q == [NewRequest(op, "idle", None, None) EXCEPT !.reply = s]
  <2>1. req' = [req EXCEPT ![r] = q] /\ q.exp = 0
    BY <1>3 DEF Refuse, Arrive, NewRequest
  <2> QED
    BY <1>0, <2>1
<1>4. ASSUME Receive(r) PROVE SignsInTime(r)
  <2>1. ASSUME NEW e \in Emails, StartRegister(r, e) \/ StartLogin(r, e) PROVE SignsInTime(r)
    BY <2>1 DEF StartRegister, StartLogin, Arrive, NewRequest, SignsInTime
  <2>2. ASSUME NEW t \in TokenIds, StartRefresh(r, t) \/ StartLogout(r, t) PROVE SignsInTime(r)
    BY <2>2 DEF StartRefresh, StartLogout, Arrive, NewRequest, SignsInTime
  <2>3. ASSUME StartMe(r) PROVE SignsInTime(r)
    BY <2>3 DEF StartMe, Arrive, NewRequest, SignsInTime
  <2>4. ASSUME RefreshWithoutCookie(r) \/ LogoutWithoutCookie(r) \/ GuardRejects(r)
        PROVE  SignsInTime(r)
    BY <2>4, <1>3 DEF RefreshWithoutCookie, LogoutWithoutCookie, GuardRejects
  <2> QED
    BY <1>4, <2>1, <2>2, <2>3, <2>4 DEF Receive
<1>5. ASSUME Handle(r) PROVE SignsInTime(r)
  <2>1. ASSUME RegisterFind(r) \/ RegisterCreate(r) \/ RegisterDuplicate(r) \/ LoginReject(r)
        PROVE  SignsInTime(r)
    BY <2>1, <1>1, <1>2 DEF RegisterFind, RegisterCreate, RegisterDuplicate, LoginReject
  <2>2. ASSUME LoginFind(r) \/ RefreshFind(r) \/ IssueSign(r) PROVE SignsInTime(r)
    <3>0. req[r] \in Request
      BY DEF TypeInv, Types
    <3>1. CASE LoginFind(r)
      <4>1. PICK u : req' = [req EXCEPT ![r].step = "issueSign", ![r].user = u]
        BY <3>1 DEF LoginFind
      <4> DEFINE q == [req[r] EXCEPT !.step = "issueSign", !.user = u]
      <4>2. req' = [req EXCEPT ![r] = q] /\ q.exp = req[r].exp
        BY <3>0, <4>1 DEF Request
      <4> QED
        BY <1>0, <4>2
    <3>2. CASE RefreshFind(r)
      <4> DEFINE row == tokens[req[r].token]
                 q == [req[r] EXCEPT !.step = "refreshCheck", !.seen = row.status,
                                     !.user = row.userId]
      <4>1. req' = [req EXCEPT ![r] = q] /\ q.exp = req[r].exp
        BY <3>0, <3>2 DEF RefreshFind, Request
      <4> QED
        BY <1>0, <4>1
    <3>3. CASE IssueSign(r)
      <4> DEFINE q == [req[r] EXCEPT !.step = "issueCreate", !.exp = AccessExpiry]
      <4>1. req' = [req EXCEPT ![r] = q] /\ q.exp = AccessExpiry
        BY <3>0, <3>3 DEF IssueSign, Request
      <4> QED
        BY <1>0, <4>1
    <3> QED
      BY <2>2, <3>1, <3>2, <3>3
  <2>3. ASSUME RefreshCheck(r) \/ RefreshReject(r) \/ RefreshRevoke(r) \/ RefreshLose(r)
            \/ RefreshUser(r)
        PROVE  SignsInTime(r)
    BY <2>3, <1>1, <1>2 DEF RefreshCheck, RefreshReject, RefreshRevoke, RefreshLose, RefreshUser
  <2>4. ASSUME IssueCreate(r) \/ IssueOrphan(r) \/ LogoutRevoke(r) \/ MeFind(r)
        PROVE  SignsInTime(r)
    BY <2>4, <1>1 DEF IssueCreate, IssueOrphan, LogoutRevoke, MeFind
  <2> QED
    BY <1>5, <2>1, <2>2, <2>3, <2>4 DEF Handle
<1>6. ASSUME Abort(r) PROVE SignsInTime(r)
  BY <1>6, <1>1 DEF Abort
<1> QED
  BY <1>4, <1>5, <1>6

\* Access tokens are handed out by IssueCreate only, and it hands out the one just signed.
LEMMA HandedOut ==
    ASSUME [Next]_vars, NEW j \in jwts' \ jwts
    PROVE  \E r \in Requests : IssueCreate(r) /\ j = [sub |-> req[r].user, exp |-> req[r].exp]
<1>1. ASSUME NEW r \in Requests, Receive(r) \/ Abort(r) PROVE FALSE
  BY <1>1 DEF Receive, StartRegister, StartLogin, StartRefresh, StartLogout, StartMe,
              RefreshWithoutCookie, LogoutWithoutCookie, GuardRejects, Refuse, Abort, table
<1>2. ASSUME NEW r \in Requests, Handle(r) PROVE IssueCreate(r)
  BY <1>2 DEF Handle, RegisterFind, RegisterCreate, RegisterDuplicate, LoginFind,
              LoginReject, RefreshFind, RefreshCheck, RefreshReject, RefreshRevoke,
              RefreshLose, RefreshUser, IssueSign, IssueOrphan, LogoutRevoke, MeFind, table
<1>3. ASSUME NEW v \in UserIds, DeleteUser(v) PROVE FALSE
  BY <1>3 DEF DeleteUser
<1>4. ~Tick /\ ~UNCHANGED vars
  BY DEF Tick, table, vars
<1>5. PICK r \in Requests : IssueCreate(r)
  BY <1>1, <1>2, <1>3, <1>4 DEF Next
<1> QED
  BY <1>5 DEF IssueCreate

\* A row that changes keeps its owner and expiry, or is inserted by IssueCreate.
LEMMA RowsWritten ==
    ASSUME TypeInv, [Next]_vars, NEW t \in TokenIds
    PROVE  \/ /\ tokens'[t].expiresAt = tokens[t].expiresAt
              /\ tokens'[t].userId = tokens[t].userId
              /\ tokens[t].status = "unused" => tokens'[t].status = "unused"
           \/ /\ tokens[t].status = "unused"
              /\ \E r \in Requests :
                    /\ IssueCreate(r)
                    /\ tokens'[t] = [status |-> "live", userId |-> req[r].user,
                                     expiresAt |-> RefreshExpiry]
<1> DEFINE Kept == /\ tokens'[t].expiresAt = tokens[t].expiresAt
                   /\ tokens'[t].userId = tokens[t].userId
                   /\ tokens[t].status = "unused" => tokens'[t].status = "unused"
<1>0. tokens \in [TokenIds -> TokenRow]
  BY DEF TypeInv, Types
<1>1. ASSUME tokens' = tokens PROVE Kept
  BY <1>1
<1>2. ASSUME NEW r \in Requests, Receive(r) \/ Abort(r) PROVE Kept
  BY <1>1, <1>2 DEF Receive, StartRegister, StartLogin, StartRefresh, StartLogout, StartMe,
                    RefreshWithoutCookie, LogoutWithoutCookie, GuardRejects, Refuse, Abort, table
<1>3. ASSUME NEW r \in Requests, RefreshRevoke(r) \/ LogoutRevoke(r) PROVE Kept
  <2>1. PICK x : \/ tokens' = tokens
                 \/ tokens[x].status = "live" /\ tokens' = [tokens EXCEPT ![x].status = "revoked"]
    BY <1>3 DEF RefreshRevoke, LogoutRevoke, Revoke, RevokeMatches
  <2> QED
    BY <1>0, <2>1 DEF TokenRow
<1>4. ASSUME NEW r \in Requests, IssueCreate(r)
      PROVE  \/ Kept
             \/ /\ tokens[t].status = "unused"
                /\ tokens'[t] = [status |-> "live", userId |-> req[r].user,
                                 expiresAt |-> RefreshExpiry]
  BY <1>0, <1>4 DEF IssueCreate, Unused
<1>5. ASSUME NEW r \in Requests, Handle(r), ~IssueCreate(r) PROVE Kept
  BY <1>1, <1>3, <1>5
     DEF Handle, RegisterFind, RegisterCreate, RegisterDuplicate, LoginFind, LoginReject,
         RefreshFind, RefreshCheck, RefreshReject, RefreshLose, RefreshUser, IssueSign,
         IssueOrphan, MeFind, table
<1>6. ASSUME NEW v \in UserIds, DeleteUser(v) PROVE Kept
  <2>1. PICK u \in UserIds :
           tokens' = [x \in TokenIds |->
              IF tokens[x].userId = u THEN [tokens[x] EXCEPT !.status = "deleted"] ELSE tokens[x]]
    BY <1>6 DEF DeleteUser
  <2>2. tokens[t].status = "unused" => tokens[t].userId # u
    BY DEF TypeInv, RowsOwned
  <2> QED
    BY <1>0, <2>1, <2>2 DEF TokenRow
<1>7. ASSUME Tick \/ UNCHANGED vars PROVE Kept
  BY <1>1, <1>7 DEF Tick, table, vars
<1> QED
  BY <1>2, <1>4, <1>5, <1>6, <1>7 DEF Next

\* A handler signs an access token, or inserts a row, with its TTL ahead of it; everything
\* else only lets time pass.
LEMMA StepAges == TypeInv /\ Lifetimes /\ [Next]_vars => Lifetimes'
<1> SUFFICES ASSUME TypeInv, Lifetimes, [Next]_vars PROVE Lifetimes'
  OBVIOUS
<1>0. Types /\ Types'
  BY StepTyped DEF TypeInv
<1>1. clock \in Nat /\ clock' \in Nat /\ clock <= clock'
  <2>1. clock \in Nat /\ clock' \in Nat
    BY <1>0 DEF Types
  <2>2. clock' = clock \/ clock' = clock + 1
    BY DEF Next, Receive, StartRegister, StartLogin, StartRefresh, StartLogout, StartMe,
           RefreshWithoutCookie, LogoutWithoutCookie, GuardRejects, Refuse, Abort, Handle,
           RegisterFind, RegisterCreate, RegisterDuplicate, LoginFind, LoginReject, RefreshFind,
           RefreshCheck, RefreshReject, RefreshRevoke, RefreshLose, RefreshUser, IssueSign,
           IssueCreate, IssueOrphan, LogoutRevoke, MeFind, DeleteUser, Tick, vars
  <2> QED
    BY <2>1, <2>2
<1>2. \A j \in jwts' : j.exp <= clock' + AccessTTL
  <2>1. SUFFICES ASSUME NEW j \in jwts' PROVE \E e \in Nat : j.exp = e /\ e <= clock + AccessTTL
    BY <1>1
  <2>2. CASE j \in jwts
    BY <1>0, <2>2 DEF Types, Jwt, Lifetimes
  <2>3. CASE j \notin jwts
    <3>1. PICK r \in Requests : j = [sub |-> req[r].user, exp |-> req[r].exp]
      BY <2>3, HandedOut
    <3> QED
      BY <1>0, <3>1 DEF Types, Request, Lifetimes
  <2> QED
    BY <2>2, <2>3
<1>3. \A x \in Requests : req'[x].exp <= clock' + AccessTTL
  <2> SUFFICES ASSUME NEW x \in Requests PROVE req'[x].exp <= clock' + AccessTTL
    OBVIOUS
  <2>1. req'[x].exp \in {0, req[x].exp, AccessExpiry}
    <3>1. CASE req' = req
      BY <3>1
    <3>2. CASE \E r \in Requests : Receive(r) \/ Handle(r) \/ Abort(r)
      <4>1. PICK r \in Requests : SignsInTime(r)
        BY <3>2, RequestsSignInTime
      <4>2. PICK q : req' = [req EXCEPT ![r] = q] /\ q.exp \in {0, req[r].exp, AccessExpiry}
        BY <4>1 DEF SignsInTime
      <4> QED
        BY <1>0, <4>2 DEF Types
    <3> QED
      BY <3>1, <3>2 DEF Next, DeleteUser, Tick, vars
  <2>2. req[x].exp \in Nat /\ req[x].exp <= clock + AccessTTL
    BY <1>0 DEF Types, Request, Lifetimes
  <2> QED
    BY <1>1, <2>1, <2>2 DEF AccessExpiry
<1>4. \A t \in TokenIds : tokens'[t].expiresAt <= clock' + RefreshTTL
  <2> SUFFICES ASSUME NEW t \in TokenIds PROVE tokens'[t].expiresAt <= clock' + RefreshTTL
    OBVIOUS
  <2>1. tokens'[t].expiresAt \in {tokens[t].expiresAt, RefreshExpiry}
    <3>1. CASE tokens'[t].expiresAt = tokens[t].expiresAt
      BY <3>1
    <3>2. CASE tokens'[t].expiresAt # tokens[t].expiresAt
      <4>1. PICK r \in Requests :
               tokens'[t] = [status |-> "live", userId |-> req[r].user, expiresAt |-> RefreshExpiry]
        BY <3>2, RowsWritten
      <4> QED
        BY <4>1
    <3> QED
      BY <3>1, <3>2
  <2>2. tokens[t].expiresAt \in Nat /\ tokens[t].expiresAt <= clock + RefreshTTL
    BY <1>0 DEF Types, TokenRow, Lifetimes
  <2> QED
    BY <1>1, <2>1, <2>2 DEF RefreshExpiry
<1> QED
  BY <1>2, <1>3, <1>4 DEF Lifetimes

\* Every table, handler and history keeps its type, whatever the number of requests and
\* rows, and no access or refresh token is ever more than its own TTL from its expiry:
\* since that holds when the token is made, it lives no longer than its TTL.
THEOREM TypeCorrect == Spec => []TypeOK
<1>1. Init => Lifetimes
  BY DEF Init, Lifetimes, NewRequest
<1>2. TypeInv /\ TypeInv' /\ Lifetimes => TypeOK
  BY DEF TypeInv, TypeOK
<1> QED
  BY <1>1, <1>2, StepAges, TypeInvariance, PTL DEF Spec

-----------------------------------------------------------------------------
(* The inductive invariant behind the properties of sessions.              *)

Spent(t) == tokens[t].status \in {"revoked", "deleted"}

\* The handler state q acts for the owner of the token it was given.
Acting(q) ==
    q.op = "refresh" /\ q.step \in {"refreshCheck", "refreshRevoke", "refreshUser",
                                   "issueSign", "issueCreate"}
HandingOver(q) == q.op = "refresh" /\ q.step \in {"refreshUser", "issueSign", "issueCreate"}

\* A token is replaced only after it was spent, and while it is being replaced it has
\* no successor yet.
SpentBeforeReplaced ==
    /\ \A t \in Issued : parent[t] # None => parent[t] \in Issued /\ Spent(parent[t])
    /\ \A r \in Requests : HandingOver(req[r]) =>
          Spent(req[r].token) /\ \A t \in Issued : parent[t] # req[r].token

ActsForOwner ==
    \A r \in Requests : Acting(req[r]) => req[r].user = tokens[req[r].token].userId

FamiliesKeepUser ==
    \A a, b \in Issued : family[a] = family[b] => tokens[a].userId = tokens[b].userId

SessionInv ==
    /\ SpentBeforeReplaced
    /\ ActsForOwner
    /\ RotationMintsOnce
    /\ SessionHasOneToken
    /\ FamiliesKeepUser

\* A step that mints nothing, revives nothing and starts no rotation.
Calm ==
    /\ UNCHANGED history
    /\ Issued' = Issued
    /\ \A t \in Issued : /\ tokens'[t].userId = tokens[t].userId
                         /\ tokens'[t].status = "live" => tokens[t].status = "live"
                         /\ Spent(t) => Spent(t)'
    /\ \A r \in Requests : HandingOver(req'[r])
          => HandingOver(req[r]) /\ req'[r].token = req[r].token
    /\ \A r \in Requests : Acting(req'[r]) => req'[r].user = tokens'[req'[r].token].userId

LEMMA CalmKeepsSessions ==
    ASSUME TypeInv, SessionInv, Calm
    PROVE  SessionInv'
<1> USE DEF Calm, SessionInv, history
<1>1. \A r \in Requests : HandingOver(req[r]) => req[r].token \in Issued
  BY DEF TypeInv, Wiring, Wired, HandingOver
<1>2. SpentBeforeReplaced'
  BY <1>1 DEF SpentBeforeReplaced
<1>3. ActsForOwner'
  BY DEF ActsForOwner
<1>4. RotationMintsOnce'
  BY DEF RotationMintsOnce
<1>5. SessionHasOneToken'
  BY DEF SessionHasOneToken, Rotating, HandingOver
<1>6. FamiliesKeepUser'
  BY DEF FamiliesKeepUser
<1> QED
  BY <1>2, <1>3, <1>4, <1>5, <1>6

\* A step that changes the local variables of request r, and no refresh token.
Local(r) ==
    /\ UNCHANGED <<tokens, history>>
    /\ \A x \in Requests \ {r} : req'[x] = req[x]

\* Calm steps of one handler that change no row.
LEMMA LocalCalm ==
    ASSUME TypeInv, SessionInv, NEW r \in Requests, NEW q,
           req' = [req EXCEPT ![r] = q], UNCHANGED <<tokens, history>>,
           HandingOver(q) => HandingOver(req[r]) /\ q.token = req[r].token,
           Acting(q) => q.user = tokens[q.token].userId
    PROVE  Calm /\ Local(r)
<1>1. Issued' = Issued
  BY DEF Issued
<1>2. req'[r] = q /\ \A x \in Requests \ {r} : req'[x] = req[x]
  BY DEF TypeInv, Types
<1> QED
  BY <1>1, <1>2 DEF Calm, Local, Spent, SessionInv, ActsForOwner

\* A handler that has answered is out of any rotation.
LEMMA AnswerCalm ==
    ASSUME TypeInv, SessionInv, NEW r \in Requests, NEW s, Answer(r, s),
           UNCHANGED <<tokens, history>>
    PROVE  Calm /\ Local(r)
<1>1. req' = [req EXCEPT ![r] = Answered(r, s)]
  BY DEF Answer, Answered
<1>2. ~HandingOver(Answered(r, s)) /\ ~Acting(Answered(r, s))
  BY DEF Answered, NewRequest, HandingOver, Acting
<1> QED
  BY <1>1, <1>2, LocalCalm

\* A handler that has just started is in no rotation yet.
LEMMA ArriveCalm ==
    ASSUME TypeInv, SessionInv, NEW r \in Requests, NEW q, Arrive(r, q),
           UNCHANGED <<table, clock, history>>, ~HandingOver(q), ~Acting(q)
    PROVE  Calm /\ Local(r)
BY LocalCalm DEF Arrive, table

LEMMA RefuseCalm ==
    ASSUME TypeInv, SessionInv, NEW r \in Requests, NEW op, NEW s, Refuse(r, op, s)
    PROVE  Calm /\ Local(r)
<1> DEFINE q == [NewRequest(op, "idle", None, None) EXCEPT !.reply = s]
<1>1. ~HandingOver(q) /\ ~Acting(q)
  BY DEF NewRequest, HandingOver, Acting
<1> QED
  BY <1>1, ArriveCalm DEF Refuse

LEMMA ReceiveCalm ==
    ASSUME TypeInv, SessionInv, NEW r \in Requests, Receive(r)
    PROVE  Calm /\ Local(r)
<1> USE DEF NewRequest, HandingOver, Acting
<1>1. ASSUME NEW e \in Emails, StartRegister(r, e) PROVE Calm /\ Local(r)
  <2> DEFINE q == NewRequest("register", "registerFind", e, None)
  <2>1. ~HandingOver(q) /\ ~Acting(q)
    OBVIOUS
  <2> QED
    BY <1>1, <2>1, ArriveCalm DEF StartRegister
<1>2. ASSUME NEW e \in Emails, StartLogin(r, e) PROVE Calm /\ Local(r)
  <2> DEFINE q == NewRequest("login", "loginFind", e, None)
  <2>1. ~HandingOver(q) /\ ~Acting(q)
    OBVIOUS
  <2> QED
    BY <1>2, <2>1, ArriveCalm DEF StartLogin
<1>3. ASSUME NEW t \in TokenIds, StartRefresh(r, t) PROVE Calm /\ Local(r)
  <2> DEFINE q == [NewRequest("refresh", "refreshFind", None, t)
                      EXCEPT !.dead = ~RevokeMatches(t) \/ Expired(t)]
  <2>1. ~HandingOver(q) /\ ~Acting(q)
    OBVIOUS
  <2> QED
    BY <1>3, <2>1, ArriveCalm DEF StartRefresh
<1>4. ASSUME NEW t \in TokenIds, StartLogout(r, t) PROVE Calm /\ Local(r)
  <2> DEFINE q == NewRequest("logout", "logoutRevoke", None, t)
  <2>1. ~HandingOver(q) /\ ~Acting(q)
    OBVIOUS
  <2> QED
    BY <1>4, <2>1, ArriveCalm DEF StartLogout
<1>5. ASSUME StartMe(r) PROVE Calm /\ Local(r)
  <2> DEFINE n == NewRequest("me", "meFind", None, None)
  <2>1. PICK j \in jwts : Arrive(r, [n EXCEPT !.user = j.sub])
    BY <1>5 DEF StartMe
  <2>2. ~HandingOver([n EXCEPT !.user = j.sub]) /\ ~Acting([n EXCEPT !.user = j.sub])
    OBVIOUS
  <2> QED
    BY <1>5, <2>1, <2>2, ArriveCalm DEF StartMe
<1>6. RefreshWithoutCookie(r) \/ LogoutWithoutCookie(r) \/ GuardRejects(r) => Calm /\ Local(r)
  BY RefuseCalm DEF RefreshWithoutCookie, LogoutWithoutCookie, GuardRejects
<1> QED
  BY <1>1, <1>2, <1>3, <1>4, <1>5, <1>6 DEF Receive

\* The steps of a handler that write no RefreshToken row.
LEMMA HandleCalm ==
    ASSUME TypeInv, SessionInv, NEW r \in Requests,
           \/ RegisterFind(r) \/ RegisterCreate(r) \/ RegisterDuplicate(r)
           \/ LoginFind(r) \/ LoginReject(r) \/ MeFind(r)
           \/ RefreshFind(r) \/ RefreshCheck(r) \/ RefreshReject(r)
           \/ RefreshLose(r) \/ RefreshUser(r) \/ IssueSign(r) \/ IssueOrphan(r)
    PROVE  Calm /\ Local(r)
<1> USE DEF table
<1>0. req[r] \in Request /\ Wired(req[r], Issued)
  BY DEF TypeInv, Types, Wiring
<1>1. CASE \/ RegisterDuplicate(r) \/ RegisterCreate(r) \/ LoginReject(r) \/ MeFind(r)
           \/ RefreshReject(r) \/ RefreshLose(r) \/ IssueOrphan(r)
  BY <1>1, AnswerCalm DEF RegisterDuplicate, RegisterCreate, LoginReject, MeFind,
                          RefreshReject, RefreshLose, IssueOrphan
<1>2. CASE RegisterFind(r)
  <2> DEFINE q == [req[r] EXCEPT !.step = "registerCreate"]
  <2>1. ~HandingOver(q) /\ ~Acting(q)
    BY <1>0 DEF HandingOver, Acting, Request
  <2>2. Goto(r, "registerCreate") => req' = [req EXCEPT ![r] = q]
    BY DEF Goto
  <2> QED
    BY <1>2, <2>1, <2>2, LocalCalm, AnswerCalm DEF RegisterFind
<1>3. CASE LoginFind(r)
  <2>1. PICK u \in UserIds : req' = [req EXCEPT ![r].step = "issueSign", ![r].user = u]
    BY <1>3 DEF LoginFind
  <2> DEFINE q == [req[r] EXCEPT !.step = "issueSign", !.user = u]
  <2>2. req[r].op = "login"
    BY <1>0, <1>3 DEF LoginFind, At, Wired
  <2>3. ~HandingOver(q) /\ ~Acting(q)
    BY <1>0, <2>2 DEF HandingOver, Acting, Request
  <2>4. req' = [req EXCEPT ![r] = q]
    BY <2>1
  <2> QED
    BY <1>3, <2>3, <2>4, LocalCalm DEF LoginFind
<1>4. CASE RefreshFind(r)
  <2> DEFINE row == tokens[req[r].token]
             q == [req[r] EXCEPT !.step = "refreshCheck",
                                 !.seen = row.status, !.user = row.userId]
  <2>1. req' = [req EXCEPT ![r] = q]
    BY <1>4 DEF RefreshFind
  <2>2. ~HandingOver(q) /\ q.user = tokens[q.token].userId
    BY <1>0 DEF HandingOver, Request
  <2> QED
    BY <1>4, <2>1, <2>2, LocalCalm DEF RefreshFind
<1>5. CASE RefreshCheck(r)
  <2> DEFINE q == [req[r] EXCEPT !.step = "refreshRevoke"]
  <2>1. req' = [req EXCEPT ![r] = q] /\ ~HandingOver(q)
    BY <1>0, <1>5 DEF RefreshCheck, Goto, HandingOver, Request
  <2>2. Acting(q) => q.user = tokens[q.token].userId
    BY <1>0, <1>5 DEF RefreshCheck, At, Acting, SessionInv, ActsForOwner, Request
  <2> QED
    BY <1>5, <2>1, <2>2, LocalCalm DEF RefreshCheck
<1>6. CASE RefreshUser(r)
  <2> DEFINE q == [req[r] EXCEPT !.step = "issueSign"]
  <2>1. HandingOver(q) => HandingOver(req[r]) /\ q.token = req[r].token
    BY <1>0, <1>6 DEF RefreshUser, At, HandingOver, Request
  <2>2. Acting(q) => q.user = tokens[q.token].userId
    BY <1>0, <1>6 DEF RefreshUser, At, Acting, SessionInv, ActsForOwner, Request
  <2>3. Goto(r, "issueSign") => req' = [req EXCEPT ![r] = q]
    BY DEF Goto
  <2> QED
    BY <1>6, <2>1, <2>2, <2>3, LocalCalm, AnswerCalm DEF RefreshUser
<1>7. CASE IssueSign(r)
  <2> DEFINE q == [req[r] EXCEPT !.step = "issueCreate", !.exp = AccessExpiry]
  <2>1. HandingOver(q) => HandingOver(req[r]) /\ q.token = req[r].token
    BY <1>0, <1>7 DEF IssueSign, At, HandingOver, Request
  <2>2. Acting(q) => q.user = tokens[q.token].userId
    BY <1>0, <1>7 DEF IssueSign, At, Acting, SessionInv, ActsForOwner, Request
  <2>3. req' = [req EXCEPT ![r] = q]
    BY <1>7 DEF IssueSign
  <2> QED
    BY <1>7, <2>1, <2>2, <2>3, LocalCalm DEF IssueSign
<1> QED
  BY <1>1, <1>2, <1>3, <1>4, <1>5, <1>6, <1>7

LEMMA LogoutCalm ==
    ASSUME TypeInv, SessionInv, NEW r \in Requests, LogoutRevoke(r)
    PROVE  Calm
<1> DEFINE t == req[r].token
<1>1. t \in Issued /\ t \in TokenIds
  BY DEF TypeInv, Wiring, Wired, LogoutRevoke, At, Issued
<1>2. CASE ~RevokeMatches(t)
  BY <1>2, AnswerCalm DEF LogoutRevoke, Revoke
<1>3. CASE RevokeMatches(t)
  <2>1. tokens' = [tokens EXCEPT ![t].status = "revoked"]
    BY <1>3 DEF LogoutRevoke, Revoke
  <2>2. \A x \in TokenIds :
          /\ tokens'[x].userId = tokens[x].userId
          /\ tokens'[x].status = IF x = t THEN "revoked" ELSE tokens[x].status
    BY <1>1, <2>1 DEF TypeInv, Types, TokenRow
  <2>3. Issued' = Issued
    BY <1>1, <2>2 DEF Issued
  <2>4. req' = [req EXCEPT ![r] = Answered(r, "201")]
    BY DEF LogoutRevoke, Answer, Answered
  <2>5. ~HandingOver(Answered(r, "201")) /\ ~Acting(Answered(r, "201"))
    BY DEF Answered, NewRequest, HandingOver, Acting
  <2>6. ~HandingOver(req'[r]) /\ ~Acting(req'[r])
        /\ \A x \in Requests \ {r} : req'[x] = req[x]
    BY <2>4, <2>5 DEF TypeInv, Types
  <2>7. \A x \in Requests : Acting(req[x]) => req[x].token \in TokenIds
    BY DEF TypeInv, Wiring, Wired, Acting, Issued
  <2> QED
    BY <2>2, <2>3, <2>6, <2>7
       DEF Calm, Spent, SessionInv, ActsForOwner, LogoutRevoke, history, Issued
<1> QED
  BY <1>2, <1>3

LEMMA DeleteCalm ==
    ASSUME TypeInv, SessionInv, NEW u \in UserIds, DeleteUser(u)
    PROVE  Calm
<1>1. \A x \in TokenIds :
        /\ tokens'[x].userId = tokens[x].userId
        /\ tokens'[x].status = IF tokens[x].userId = u THEN "deleted" ELSE tokens[x].status
  BY DEF DeleteUser, TypeInv, Types, TokenRow
<1>2. Issued' = Issued
  BY <1>1 DEF Issued, TypeInv, RowsOwned
<1>3. \A x \in Requests : Acting(req[x]) => req[x].token \in TokenIds
  BY DEF TypeInv, Wiring, Wired, Acting, Issued
<1> QED
  BY <1>1, <1>2, <1>3 DEF DeleteUser, Calm, Spent, SessionInv, ActsForOwner, history, Issued

\* Winning the conditional revocation: the session's live token becomes a rotation.
LEMMA RevokeKeepsSessions ==
    ASSUME TypeInv, SessionInv, NEW r \in Requests, RefreshRevoke(r)
    PROVE  SessionInv'
<1> DEFINE t == req[r].token
           q == [req[r] EXCEPT !.step = "refreshUser"]
<1> USE DEF SessionInv
<1>1. /\ req[r] \in Request /\ req[r].op = "refresh" /\ req[r].step = "refreshRevoke"
      /\ t \in Issued /\ t \in TokenIds /\ tokens[t].status = "live"
  BY DEF TypeInv, Types, Wiring, Wired, RefreshRevoke, At, RevokeMatches, Issued
<1>2. \A x \in TokenIds :
        /\ tokens'[x].userId = tokens[x].userId
        /\ tokens'[x].status = IF x = t THEN "revoked" ELSE tokens[x].status
  BY <1>1 DEF RefreshRevoke, TypeInv, Types, TokenRow
<1>3. Issued' = Issued /\ Issued \subseteq TokenIds
  BY <1>1, <1>2 DEF Issued
<1>4. /\ req'[r] = q /\ q.token = t /\ q.user = req[r].user /\ HandingOver(q)
      /\ \A x \in Requests \ {r} : req'[x] = req[x]
  BY <1>1 DEF RefreshRevoke, Goto, TypeInv, Types, Request, HandingOver
<1>5. parent' = parent /\ family' = family
  BY DEF RefreshRevoke, history
<1>6. \A x \in Requests : HandingOver(req[x]) \/ Acting(req[x]) => req[x].token \in Issued
  BY DEF TypeInv, Wiring, Wired, HandingOver, Acting
<1>7. ~HandingOver(req[r])
  BY <1>1 DEF HandingOver
<1> HIDE DEF t, q
<1>8. SpentBeforeReplaced'
  <2>1. \A c \in Issued : parent[c] # t
    BY <1>1 DEF SpentBeforeReplaced, Spent
  <2> QED
    BY <1>1, <1>2, <1>3, <1>4, <1>5, <1>6, <2>1 DEF SpentBeforeReplaced, Spent
<1>9. ActsForOwner'
  <2>1. req[r].user = tokens[t].userId
    BY <1>1 DEF ActsForOwner, Acting, t
  <2> QED
    BY <1>1, <1>2, <1>3, <1>4, <1>6, <2>1 DEF ActsForOwner
<1>10. RotationMintsOnce'
  BY <1>3, <1>5 DEF RotationMintsOnce
<1>11. SessionHasOneToken'
  <2>1. \A x \in Requests : Rotating(x) <=> HandingOver(req[x])
    BY DEF Rotating, HandingOver
  <2>2. \A x \in Requests : Rotating(x)' <=> HandingOver(req'[x])
    BY DEF Rotating, HandingOver
  <2>3. \A x \in Requests : HandingOver(req[x]) => family[req[x].token] # family[t]
    BY <1>1, <2>1 DEF SessionHasOneToken
  <2> QED
    BY <1>1, <1>2, <1>3, <1>4, <1>5, <1>7, <2>1, <2>2, <2>3 DEF SessionHasOneToken
<1>12. FamiliesKeepUser'
  BY <1>2, <1>3, <1>5 DEF FamiliesKeepUser
<1> QED
  BY <1>8, <1>9, <1>10, <1>11, <1>12

\* Inserting a row: a login opens a session of its own, a rotation hands the session
\* it alone holds to the new token.
LEMMA IssueKeepsSessions ==
    ASSUME TypeInv, SessionInv, NEW r \in Requests, IssueCreate(r)
    PROVE  SessionInv'
<1> USE DEF SessionInv
<1>1. PICK t \in Unused :
             LET f == IF req[r].token = None THEN t ELSE family[req[r].token]
                 row == [status |-> "live", userId |-> req[r].user, expiresAt |-> RefreshExpiry]
             IN  /\ tokens' = [tokens EXCEPT ![t] = row] /\ row \in TokenRow
                 /\ parent' = [parent EXCEPT ![t] = req[r].token]
                 /\ family' = [family EXCEPT ![t] = f]
                 /\ f = t \/ f \in Issued
                 /\ Issued' = Issued \cup {t}
                 /\ req[r].user \in UserIds
                 /\ req[r].token \in Issued \cup {None}
  BY IssueCreateEffect
<1> DEFINE p == req[r].token
<1>2. t \in TokenIds /\ t \notin Issued /\ Issued \subseteq TokenIds /\ None \notin Issued
  BY DEF Unused, Issued
<1>3. \A x \in Issued : /\ tokens'[x] = tokens[x] /\ parent'[x] = parent[x]
                       /\ family'[x] = family[x]
  BY <1>1, <1>2 DEF TypeInv, Types
<1>4. /\ tokens'[t].status = "live" /\ tokens'[t].userId = req[r].user
      /\ parent'[t] = p /\ family'[t] = IF p = None THEN t ELSE family[p]
  BY <1>1, <1>2 DEF TypeInv, Types
<1>5. /\ ~HandingOver(req'[r]) /\ ~Acting(req'[r])
      /\ \A x \in Requests \ {r} : req'[x] = req[x]
  <2>1. req' = [req EXCEPT ![r] = Answered(r, "201")]
    BY DEF IssueCreate, Answer, Answered
  <2>2. ~HandingOver(Answered(r, "201")) /\ ~Acting(Answered(r, "201"))
    BY DEF Answered, NewRequest, HandingOver, Acting
  <2> QED
    BY <2>1, <2>2 DEF TypeInv, Types
<1>6. p # None => HandingOver(req[r]) /\ Acting(req[r]) /\ p \in Issued
  <2>1. req[r].step = "issueCreate" /\ Wired(req[r], Issued)
    BY DEF IssueCreate, At, TypeInv, Wiring
  <2> QED
    BY <1>1, <2>1 DEF Wired, HandingOver, Acting
<1>7. \A x \in Requests : HandingOver(req[x]) \/ Acting(req[x]) => req[x].token \in Issued
  BY DEF TypeInv, Wiring, Wired, HandingOver, Acting
<1>8. \A x \in Issued : family[x] \in Issued
  BY DEF TypeInv, RowsOwned, Issued
<1>9. \A x \in Requests \ {r} :
         HandingOver(req[x]) => req[x].token # p /\ family[req[x].token] # family'[t]
  <2> SUFFICES ASSUME NEW x \in Requests \ {r}, HandingOver(req[x])
               PROVE  req[x].token # p /\ family[req[x].token] # family'[t]
    OBVIOUS
  <2>1. Rotating(x) /\ req[x].token \in Issued
    BY <1>7 DEF Rotating, HandingOver
  <2>2. CASE p = None
    BY <1>2, <1>4, <1>8, <2>1, <2>2
  <2>3. CASE p # None
    <3>1. Rotating(r)
      BY <1>6, <2>3 DEF Rotating, HandingOver
    <3> QED
      BY <1>4, <2>1, <2>3, <3>1 DEF SessionHasOneToken
  <2> QED
    BY <2>2, <2>3
<1>10. Issued' = Issued \cup {t}
  BY <1>1
<1> HIDE DEF p
<1>11. SpentBeforeReplaced'
  <2>1. p # None => p \in Issued /\ Spent(p)
    BY <1>6 DEF SpentBeforeReplaced, p
  <2>2. \A x \in Issued : Spent(x)' <=> Spent(x)
    BY <1>3 DEF Spent
  <2> QED
    BY <1>2, <1>3, <1>4, <1>5, <1>7, <1>9, <1>10, <2>1, <2>2 DEF SpentBeforeReplaced
<1>12. ActsForOwner'
  BY <1>3, <1>5, <1>7 DEF ActsForOwner
<1>13. RotationMintsOnce'
  <2>1. p # None => \A x \in Issued : parent[x] # p
    BY <1>6 DEF SpentBeforeReplaced, p
  <2> QED
    BY <1>3, <1>4, <1>10, <2>1 DEF RotationMintsOnce
<1>14. SessionHasOneToken'
  <2>1. \A x \in Requests : Rotating(x)' <=> HandingOver(req'[x])
    BY DEF Rotating, HandingOver
  <2>2. \A x \in Requests : Rotating(x) <=> HandingOver(req[x])
    BY DEF Rotating, HandingOver
  <2>3. \A x \in Issued : tokens[x].status = "live" => family[x] # family'[t]
    <3>1. CASE p = None
      BY <1>2, <1>4, <1>8, <3>1
    <3>2. CASE p # None
      BY <1>4, <1>6, <2>2, <3>2 DEF SessionHasOneToken, p
    <3> QED
      BY <3>1, <3>2
  <2>4. \A a, b \in Issued' :
          tokens'[a].status = "live" /\ tokens'[b].status = "live" /\ family'[a] = family'[b]
            => a = b
    BY <1>3, <1>10, <2>3 DEF SessionHasOneToken
  <2>5. \A x \in Requests, y \in Issued' :
          Rotating(x)' /\ tokens'[y].status = "live" => family'[req'[x].token] # family'[y]
    BY <1>3, <1>5, <1>7, <1>9, <1>10, <2>1, <2>2 DEF SessionHasOneToken
  <2>6. \A x, y \in Requests :
          Rotating(x)' /\ Rotating(y)' /\ family'[req'[x].token] = family'[req'[y].token]
            => x = y
    BY <1>3, <1>5, <1>7, <2>1, <2>2 DEF SessionHasOneToken
  <2> QED
    BY <2>4, <2>5, <2>6 DEF SessionHasOneToken
<1>15. FamiliesKeepUser'
  <2>1. p # None => tokens[p].userId = req[r].user
    BY <1>6 DEF ActsForOwner, p
  <2>2. \A x \in Issued : family[x] = family'[t] => tokens[x].userId = req[r].user
    <3>1. CASE p = None
      BY <1>2, <1>4, <1>8, <3>1
    <3>2. CASE p # None
      BY <1>4, <1>6, <2>1, <3>2 DEF FamiliesKeepUser
    <3> QED
      BY <3>1, <3>2
  <2> QED
    BY <1>3, <1>4, <1>10, <2>2 DEF FamiliesKeepUser
<1> QED
  BY <1>11, <1>12, <1>13, <1>14, <1>15

LEMMA StepKeepsSessions == TypeInv /\ SessionInv /\ [Next]_vars => SessionInv'
<1> SUFFICES ASSUME TypeInv, SessionInv, [Next]_vars PROVE SessionInv'
  OBVIOUS
<1>1. ASSUME NEW r \in Requests, Receive(r) PROVE SessionInv'
  BY <1>1, ReceiveCalm, CalmKeepsSessions
<1>2. ASSUME NEW r \in Requests, Handle(r) PROVE SessionInv'
  BY <1>2, HandleCalm, LogoutCalm, CalmKeepsSessions, RevokeKeepsSessions, IssueKeepsSessions
     DEF Handle
<1>3. ASSUME NEW r \in Requests, Abort(r) PROVE SessionInv'
  BY <1>3, AnswerCalm, CalmKeepsSessions DEF Abort, table
<1>4. ASSUME NEW u \in UserIds, DeleteUser(u) PROVE SessionInv'
  BY <1>4, DeleteCalm, CalmKeepsSessions
<1>5. CASE Tick \/ UNCHANGED vars
  <2>1. UNCHANGED <<tokens, req, history>>
    BY <1>5 DEF Tick, vars, table, history
  <2>2. Calm
    BY <2>1 DEF Calm, Issued, Spent, SessionInv, ActsForOwner
  <2> QED
    BY <2>2, CalmKeepsSessions
<1> QED
  BY <1>1, <1>2, <1>3, <1>4, <1>5 DEF Next

\* The inductive invariant of sessions holds throughout.
LEMMA SessionInvariance == Spec => []SessionInv
<1>1. Init => SessionInv
  BY DEF Init, SessionInv, SpentBeforeReplaced, ActsForOwner, RotationMintsOnce,
         SessionHasOneToken, FamiliesKeepUser, Issued, HandingOver, Acting, Rotating, NewRequest
<1> QED
  BY <1>1, TypeInvariance, StepKeepsSessions, PTL DEF Spec

\* Single-use rotation: of all the requests that ever bear one refresh token, however
\* many run at once and wherever they are interleaved, at most one mints a successor.
THEOREM RotationCorrect == Spec => []RotationMintsOnce
<1>1. SessionInv => RotationMintsOnce
  BY DEF SessionInv
<1> QED
  BY <1>1, SessionInvariance, PTL

\* A session is never forked: it has one live token, or one rotation in flight.
THEOREM SessionCorrect == Spec => []SessionHasOneToken
<1>1. SessionInv => SessionHasOneToken
  BY DEF SessionInv
<1> QED
  BY <1>1, SessionInvariance, PTL

\* The tokens of a session, and whoever is rotating it, belong to one user.
THEOREM SessionUserCorrect == Spec => []SessionKeepsUser
<1>1. SessionInv => SessionKeepsUser
  BY DEF SessionInv, SessionKeepsUser, FamiliesKeepUser, ActsForOwner, Rotating, Acting
<1> QED
  BY <1>1, SessionInvariance, PTL

-----------------------------------------------------------------------------
(* What AuthService owes to single requests, whatever the other requests do *)
(* between its statements: one user for an address, no way past the gate    *)
(* for a dead token, a spent token behind every logout, and no access token *)
(* for a user who is gone.                                                  *)

\* An address is inserted only when no present user has it.
THEOREM EmailCorrect == Spec => []OneUserPerEmail
<1>1. Init => OneUserPerEmail
    BY DEF Init, OneUserPerEmail, Present
<1>2. TypeInv /\ OneUserPerEmail /\ [Next]_vars => OneUserPerEmail'
    <2> SUFFICES ASSUME TypeInv, OneUserPerEmail, [Next]_vars
                 PROVE  OneUserPerEmail'
        OBVIOUS
    <2>1. CASE users' = users
        BY <2>1 DEF OneUserPerEmail, Present
    <2>2. ASSUME NEW r \in Requests, RegisterCreate(r) PROVE OneUserPerEmail'
        <3>1. PICK u \in UserIds :
                  users' = [users EXCEPT ![u] = [status |-> "present", email |-> req[r].email]]
            BY <2>2 DEF RegisterCreate
        <3>2. \A v \in UserIds : Present(v) => users[v].email # req[r].email
            BY <2>2 DEF RegisterCreate, EmailTaken
        <3>3. users'[u].email = req[r].email /\ \A v \in UserIds \ {u} : users'[v] = users[v]
            BY <3>1 DEF TypeInv, Types
        <3> QED
            BY <3>2, <3>3 DEF OneUserPerEmail, Present
    <2>3. ASSUME NEW u \in UserIds, DeleteUser(u) PROVE OneUserPerEmail'
        <3>1. \A v \in UserIds : Present(v)' => users'[v] = users[v]
            BY <2>3 DEF DeleteUser, TypeInv, Types, UserRow, Present
        <3> QED
            BY <3>1 DEF OneUserPerEmail, Present
    <2>4. ASSUME NEW r \in Requests, Receive(r) \/ Abort(r) PROVE users' = users
        BY <2>4 DEF Receive, StartRegister, StartLogin, StartRefresh, StartLogout, StartMe,
                    RefreshWithoutCookie, LogoutWithoutCookie, GuardRejects, Refuse, Abort, table
    <2>5. ASSUME NEW r \in Requests, Handle(r), ~RegisterCreate(r) PROVE users' = users
        BY <2>5 DEF Handle, RegisterFind, RegisterDuplicate, LoginFind, LoginReject, RefreshFind,
                    RefreshCheck, RefreshReject, RefreshRevoke, RefreshLose, RefreshUser, IssueSign,
                    IssueCreate, IssueOrphan, LogoutRevoke, MeFind, table
    <2>6. Tick \/ UNCHANGED vars => users' = users
        BY DEF Tick, table, vars
    <2> QED
        BY <2>1, <2>2, <2>3, <2>4, <2>5, <2>6 DEF Next
<1> QED
    BY <1>1, <1>2, TypeInvariance, PTL DEF Spec

\* An access token is returned with the row of its refresh token, whose foreign key asks
\* for the user.
THEOREM AccessCorrect == Spec => DeletedUserGetsNoAccess
<1>1. TypeInv /\ [Next]_vars =>
          \A u \in UserIds : users[u].status = "deleted" =>
              /\ \A j \in jwts' \ jwts : j.sub # u
              /\ \A t \in TokenIds :
                    tokens[t].status = "unused" /\ tokens'[t].status # "unused"
                        => tokens'[t].userId # u
    <2> SUFFICES ASSUME TypeInv, [Next]_vars, NEW u \in UserIds, users[u].status = "deleted"
                 PROVE  /\ \A j \in jwts' \ jwts : j.sub # u
                        /\ \A t \in TokenIds :
                              tokens[t].status = "unused" /\ tokens'[t].status # "unused"
                                  => tokens'[t].userId # u
        OBVIOUS
    <2>1. ASSUME NEW r \in Requests, IssueCreate(r) PROVE req[r].user # u
        BY <2>1 DEF IssueCreate, OwnerExists, Present
    <2>2. ASSUME NEW j \in jwts' \ jwts PROVE j.sub # u
        BY <2>1, HandedOut
    <2>3. ASSUME NEW t \in TokenIds, tokens[t].status = "unused", tokens'[t].status # "unused"
          PROVE  tokens'[t].userId # u
        <3>1. PICK r \in Requests :
                 /\ IssueCreate(r)
                 /\ tokens'[t] = [status |-> "live", userId |-> req[r].user,
                                  expiresAt |-> RefreshExpiry]
            BY <2>3, RowsWritten
        <3> QED
            BY <2>1, <3>1
    <2> QED
        BY <2>2, <2>3
<1> QED
    BY <1>1, TypeInvariance, PTL DEF Spec, DeletedUserGetsNoAccess

-----------------------------------------------------------------------------
\* Only four actions write RefreshToken rows, and none makes a spent row live or moves the
\* expiry of a row that was inserted.
LEMMA SpentForGood ==
    ASSUME TypeInv, [Next]_vars, NEW t \in TokenIds
    PROVE  /\ Spent(t) => Spent(t)'
           /\ tokens[t].status # "unused" => tokens'[t].expiresAt = tokens[t].expiresAt
<1> DEFINE Kept == tokens'[t].expiresAt = tokens[t].expiresAt /\ (Spent(t) => Spent(t)')
<1>0. tokens[t] \in TokenRow
    BY DEF TypeInv, Types
<1>1. CASE tokens' = tokens
    BY <1>1 DEF Spent
<1>2. ASSUME NEW r \in Requests, RefreshRevoke(r) PROVE Kept
    <2>1. tokens' = [tokens EXCEPT ![req[r].token].status = "revoked"]
        BY <1>2 DEF RefreshRevoke
    <2> QED
        BY <1>0, <2>1 DEF TypeInv, Types, TokenRow, Spent
<1>3. ASSUME NEW r \in Requests, LogoutRevoke(r) PROVE Kept
    <2>1. tokens' = tokens \/ tokens' = [tokens EXCEPT ![req[r].token].status = "revoked"]
        BY <1>3 DEF LogoutRevoke, Revoke
    <2> QED
        BY <1>0, <1>1, <2>1 DEF TypeInv, Types, TokenRow, Spent
<1>4. ASSUME NEW r \in Requests, IssueCreate(r), tokens[t].status # "unused"
      PROVE  tokens'[t] = tokens[t]
    BY <1>4 DEF IssueCreate, Unused, TypeInv, Types
<1>5. ASSUME NEW u \in UserIds, DeleteUser(u) PROVE Kept
    <2>1. tokens'[t] = IF tokens[t].userId = u THEN [tokens[t] EXCEPT !.status = "deleted"]
                       ELSE tokens[t]
        BY <1>5 DEF DeleteUser
    <2> QED
        BY <1>0, <2>1 DEF TokenRow, Spent
<1>6. ASSUME NEW r \in Requests, Receive(r) \/ Abort(r) PROVE tokens' = tokens
    BY <1>6 DEF Receive, StartRegister, StartLogin, StartRefresh, StartLogout, StartMe,
                RefreshWithoutCookie, LogoutWithoutCookie, GuardRejects, Refuse, Abort, table
<1>7. ASSUME NEW r \in Requests, Handle(r),
             ~RefreshRevoke(r), ~LogoutRevoke(r), ~IssueCreate(r)
      PROVE  tokens' = tokens
    BY <1>7 DEF Handle, RegisterFind, RegisterCreate, RegisterDuplicate, LoginFind, LoginReject,
                RefreshFind, RefreshCheck, RefreshReject, RefreshLose, RefreshUser, IssueSign,
                IssueOrphan, MeFind, table
<1>8. Tick \/ UNCHANGED vars => tokens' = tokens
    BY DEF Tick, table, vars
<1>9. CASE \E r \in Requests : IssueCreate(r)
    BY <1>4, <1>9 DEF Spent
<1> QED
    BY <1>1, <1>2, <1>3, <1>5, <1>6, <1>7, <1>8, <1>9 DEF Next

\* What a handler's local variables q say about the rows: a logout that has answered is
\* over with its token, and a refresh with a dead token has not passed its check.
OnItsWay(q) ==
    /\ q.step \in {"registerFind", "registerCreate"} => q.op = "register"
    /\ q.step # "idle" => q.reply = "none"
    /\ q.op = "logout" /\ q.reply = "201" /\ q.token # None => Spent(q.token)
    /\ q.dead =>
          /\ q.step \in {"refreshFind", "refreshCheck"}
          /\ q.step = "refreshFind" => Spent(q.token) \/ Expired(q.token)
          /\ q.step = "refreshCheck" => q.seen # "live" \/ Expired(q.token)

OnTheirWay == \A r \in Requests : OnItsWay(req[r])

\* Whatever happens elsewhere, what is true of a handler's local variables stays true.
LEMMA OnItsWayStays ==
    ASSUME TypeInv, [Next]_vars, NEW q \in Request, Wired(q, Issued), OnItsWay(q)
    PROVE  OnItsWay(q)'
<1>1. q.dead => q.token \in TokenIds /\ tokens[q.token].status # "unused"
    BY DEF OnItsWay, Wired, Issued
<1>2. clock \in Nat /\ clock' \in Nat /\ clock <= clock'
    <2>1. clock \in Nat
        BY DEF TypeInv, Types
    <2>2. clock' = clock \/ clock' = clock + 1
        BY DEF Next, Receive, StartRegister, StartLogin, StartRefresh, StartLogout, StartMe,
               RefreshWithoutCookie, LogoutWithoutCookie, GuardRejects, Refuse, Abort, DeleteUser,
               Tick, Handle, RegisterFind, RegisterCreate, RegisterDuplicate, LoginFind,
               LoginReject, RefreshFind, RefreshCheck, RefreshReject, RefreshRevoke, RefreshLose,
               RefreshUser, IssueSign, IssueCreate, IssueOrphan, LogoutRevoke, MeFind, vars
    <2> QED
        BY <2>1, <2>2
<1>3. ASSUME NEW t \in TokenIds, tokens[t].status # "unused", Expired(t) PROVE Expired(t)'
    <2>1. tokens'[t].expiresAt = tokens[t].expiresAt /\ tokens[t].expiresAt \in Nat
        BY <1>3, SpentForGood DEF TypeInv, Types, TokenRow
    <2> QED
        BY <1>2, <1>3, <2>1 DEF Expired
<1>4. q.op = "logout" /\ q.reply = "201" /\ q.token # None => q.token \in TokenIds
    BY DEF Request
<1>5. \A t \in TokenIds : Spent(t) => Spent(t)'
    BY SpentForGood
<1> QED
    BY <1>1, <1>3, <1>4, <1>5 DEF OnItsWay

\* A step gives one handler new local variables; it is enough to look at those.
LEMMA OnTheirWayOthers ==
    ASSUME TypeInv, OnTheirWay, [Next]_vars, NEW r \in Requests, NEW q,
           req' = [req EXCEPT ![r] = q], OnItsWay(q)'
    PROVE  OnTheirWay'
<1>1. ASSUME NEW x \in Requests, x # r PROVE OnItsWay(req[x])' /\ req'[x] = req[x]
    <2>1. req'[x] = req[x]
        BY <1>1 DEF TypeInv, Types
    <2> DEFINE y == req[x]
    <2>2. req[x] \in Request /\ Wired(req[x], Issued) /\ OnItsWay(req[x])
        BY DEF TypeInv, Types, Wiring, OnTheirWay
    <2>3. ASSUME NEW z, z = req[x] PROVE OnItsWay(z)'
        BY <2>2, <2>3, OnItsWayStays
    <2> QED
        BY <2>1, <2>3 DEF OnItsWay
<1>2. req'[r] = q
    BY DEF TypeInv, Types
<1>3. OnItsWay(req[r])'
    BY <1>2 DEF OnItsWay
<1> QED
    BY <1>1, <1>3 DEF OnTheirWay

\* A handler answers; the answer to a logout comes after the token is spent.
LEMMA OnTheirWayAnswer ==
    ASSUME TypeInv, OnTheirWay, [Next]_vars, NEW r \in Requests, NEW reply, Answer(r, reply),
           NEW t, t = req[r].token,
           req[r].op = "logout" /\ reply = "201" /\ t # None => Spent(t)'
    PROVE  OnTheirWay'
<1>1. PICK q : q = Answered(r, reply)
    OBVIOUS
<1>2. /\ q.step = "idle" /\ q.reply = reply /\ ~q.dead /\ q.op = req[r].op
      /\ q.op = "logout" => q.token = t
    BY <1>1 DEF Answered, NewRequest
<1>3. OnItsWay(q)'
    BY <1>2 DEF OnItsWay
<1>4. req' = [req EXCEPT ![r] = q]
    BY <1>1 DEF Answer, Answered
<1> QED
    BY <1>3, <1>4, OnTheirWayOthers

\* A request arrives: it has no answer yet, or it was answered without a token.
LEMMA OnTheirWayReceive ==
    ASSUME TypeInv, OnTheirWay, [Next]_vars, NEW r \in Requests, Receive(r)
    PROVE  OnTheirWay'
<1>1. ASSUME NEW q, Arrive(r, q), OnItsWay(q)' PROVE OnTheirWay'
    BY <1>1, OnTheirWayOthers DEF Arrive
<1>2. ASSUME NEW e \in Emails, StartRegister(r, e) \/ StartLogin(r, e) PROVE OnTheirWay'
    <2>1. OnItsWay(NewRequest("register", "registerFind", e, None))'
        BY DEF OnItsWay, NewRequest
    <2>2. OnItsWay(NewRequest("login", "loginFind", e, None))'
        BY DEF OnItsWay, NewRequest
    <2> QED
        BY <1>1, <1>2, <2>1, <2>2 DEF StartRegister, StartLogin
<1>3. ASSUME NEW t \in TokenIds, StartRefresh(r, t) PROVE OnTheirWay'
    <2>1. PICK d \in BOOLEAN : d = (~RevokeMatches(t) \/ Expired(t))
        OBVIOUS
    <2>2. PICK q : q = [NewRequest("refresh", "refreshFind", None, t) EXCEPT !.dead = d]
        OBVIOUS
    <2>3. Arrive(r, q)
        BY <1>3, <2>1, <2>2 DEF StartRefresh
    <2>4. tokens' = tokens /\ clock' = clock /\ t \in Issued
        BY <1>3 DEF StartRefresh, table
    <2>5. tokens[t].status \in TokenStatus
        BY DEF TypeInv, Types, TokenRow
    <2>6. d => Spent(t) \/ Expired(t)
        BY <2>1, <2>4, <2>5 DEF RevokeMatches, Spent, Issued, TokenStatus
    <2>7. d => Spent(t)' \/ Expired(t)'
        BY <2>4, <2>6 DEF Spent, Expired
    <2>8. q.step = "refreshFind" /\ q.reply = "none" /\ q.op = "refresh" /\ q.token = t /\ q.dead = d
        BY <2>2 DEF NewRequest
    <2>9. OnItsWay(q)'
        BY <2>7, <2>8 DEF OnItsWay
    <2> QED
        BY <1>1, <2>3, <2>9
<1>4. ASSUME NEW t \in TokenIds, StartLogout(r, t) PROVE OnTheirWay'
    <2>1. OnItsWay(NewRequest("logout", "logoutRevoke", None, t))'
        BY DEF OnItsWay, NewRequest
    <2> QED
        BY <1>1, <1>4, <2>1 DEF StartLogout
<1>5. ASSUME StartMe(r) PROVE OnTheirWay'
    <2>1. PICK j \in jwts : Arrive(r, [NewRequest("me", "meFind", None, None) EXCEPT !.user = j.sub])
        BY <1>5 DEF StartMe
    <2>2. PICK u : u = j.sub
        OBVIOUS
    <2>3. OnItsWay([NewRequest("me", "meFind", None, None) EXCEPT !.user = u])'
        BY DEF OnItsWay, NewRequest
    <2> QED
        BY <1>1, <2>1, <2>2, <2>3
<1>6. ASSUME NEW op, NEW reply, Refuse(r, op, reply) PROVE OnTheirWay'
    <2>1. OnItsWay([NewRequest(op, "idle", None, None) EXCEPT !.reply = reply])'
        BY DEF OnItsWay, NewRequest
    <2> QED
        BY <1>1, <1>6, <2>1 DEF Refuse
<1>7. RefreshWithoutCookie(r) \/ LogoutWithoutCookie(r) \/ GuardRejects(r) => OnTheirWay'
    BY <1>6 DEF RefreshWithoutCookie, LogoutWithoutCookie, GuardRejects
<1> QED
    BY <1>2, <1>3, <1>4, <1>5, <1>7 DEF Receive

\* A handler moves on to a step past the check, with nothing new in what OnItsWay reads.
LEMMA OnTheirWayGoto ==
    ASSUME TypeInv, OnTheirWay, [Next]_vars, NEW r \in Requests, NEW q,
           req' = [req EXCEPT ![r] = q],
           req[r].step # "idle", ~req[r].dead, req[r].op # "logout",
           q.op = req[r].op, q.reply = req[r].reply, q.dead = req[r].dead,
           q.step = "registerCreate" => req[r].op = "register", q.step # "registerFind"
    PROVE  OnTheirWay'
<1>1. OnItsWay(req[r])
    BY DEF OnTheirWay
<1>2. q.reply = "none" /\ ~q.dead /\ q.op # "logout"
    BY <1>1 DEF OnItsWay
<1>3. q.step \in {"registerFind", "registerCreate"} => q.op = "register"
    OBVIOUS
<1>4. OnItsWay(q)'
    BY <1>2, <1>3 DEF OnItsWay
<1> QED
    BY <1>4, OnTheirWayOthers

\* A handler's step: only logoutRevoke answers a logout with 201, and it has spent the
\* token; only refreshCheck lets a refresh pass, and it looks at what dead is about.
LEMMA OnTheirWayHandle ==
    ASSUME TypeInv, OnTheirWay, [Next]_vars, NEW r \in Requests, Handle(r)
    PROVE  OnTheirWay'
<1>0. req[r] \in Request /\ Wired(req[r], Issued) /\ OnItsWay(req[r])
    BY DEF TypeInv, Types, Wiring, OnTheirWay
<1>1. ASSUME NEW reply, Answer(r, reply), req[r].op # "logout" \/ reply # "201"
      PROVE  OnTheirWay'
    <2>1. PICK t : t = req[r].token
        OBVIOUS
    <2> QED
        BY <1>1, <2>1, OnTheirWayAnswer
<1>2. ASSUME NEW step \in {"registerCreate", "issueSign", "refreshRevoke", "refreshUser"},
             Goto(r, step), req[r].step # "idle", ~req[r].dead, req[r].op # "logout",
             step = "registerCreate" => req[r].op = "register"
      PROVE  OnTheirWay'
    <2>1. PICK q : q = [req[r] EXCEPT !.step = step]
        OBVIOUS
    <2>2. /\ q.step = step /\ q.op = req[r].op /\ q.reply = req[r].reply
          /\ q.dead = req[r].dead
        BY <1>0, <2>1 DEF Request
    <2>3. req' = [req EXCEPT ![r] = q]
        BY <1>2, <2>1 DEF Goto
    <2> QED
        BY <1>2, <2>2, <2>3, OnTheirWayGoto
<1>3. CASE RegisterFind(r)
    <2>1. req[r].op = "register" /\ ~req[r].dead /\ req[r].step # "idle"
        BY <1>0, <1>3 DEF RegisterFind, At, OnItsWay
    <2> QED
        BY <1>1, <1>2, <1>3, <2>1 DEF RegisterFind
<1>4. CASE RegisterCreate(r) \/ RegisterDuplicate(r)
    <2>1. req[r].op = "register"
        BY <1>0, <1>4 DEF RegisterCreate, RegisterDuplicate, At, OnItsWay
    <2> QED
        BY <1>1, <1>4, <2>1 DEF RegisterCreate, RegisterDuplicate
<1>5. CASE LoginFind(r)
    <2>1. req[r].op = "login" /\ ~req[r].dead /\ req[r].step = "loginFind"
        BY <1>0, <1>5 DEF LoginFind, At, OnItsWay, Wired
    <2>2. PICK u \in UserIds : req' = [req EXCEPT ![r].step = "issueSign", ![r].user = u]
        BY <1>5 DEF LoginFind
    <2>3. PICK q : q = [req[r] EXCEPT !.step = "issueSign", !.user = u]
        OBVIOUS
    <2>4. /\ q.step = "issueSign" /\ q.op = req[r].op /\ q.reply = req[r].reply
          /\ q.dead = req[r].dead
        BY <1>0, <2>3 DEF Request
    <2>5. req' = [req EXCEPT ![r] = q]
        BY <2>2, <2>3
    <2> QED
        BY <2>1, <2>4, <2>5, OnTheirWayGoto
<1>6. CASE LoginReject(r) \/ RefreshReject(r) \/ RefreshLose(r) \/ IssueOrphan(r) \/ MeFind(r)
    BY <1>1, <1>6 DEF LoginReject, RefreshReject, RefreshLose, IssueOrphan, MeFind
<1>7. CASE RefreshFind(r)
    <2>1. PICK row : row = tokens[req[r].token]
        OBVIOUS
    <2>2. PICK q : q = [req[r] EXCEPT !.step = "refreshCheck", !.seen = row.status,
                                      !.user = row.userId]
        OBVIOUS
    <2>3. req' = [req EXCEPT ![r] = q]
        BY <1>7, <2>1, <2>2 DEF RefreshFind
    <2>4. /\ q.step = "refreshCheck" /\ q.op = req[r].op /\ q.reply = req[r].reply
          /\ q.dead = req[r].dead /\ q.token = req[r].token /\ q.seen = row.status
        BY <1>0, <2>2 DEF Request
    <2>5. tokens' = tokens /\ clock' = clock
        BY <1>7 DEF RefreshFind, table
    <2>6. q.dead => q.seen # "live" \/ Expired(q.token)
        BY <1>0, <1>7, <2>1, <2>4 DEF RefreshFind, At, OnItsWay, Spent
    <2>7. q.op = "refresh" /\ q.reply = "none"
        BY <1>0, <1>7, <2>4 DEF RefreshFind, At, OnItsWay, Wired
    <2>8. q.dead => q.seen # "live" \/ Expired(q.token)'
        BY <2>5, <2>6 DEF Expired
    <2>9. OnItsWay(q)'
        BY <2>4, <2>7, <2>8 DEF OnItsWay
    <2> QED
        BY <2>3, <2>9, OnTheirWayOthers
<1>8. CASE RefreshCheck(r)
    <2>1. ~req[r].dead /\ req[r].op = "refresh" /\ req[r].step # "idle"
        BY <1>0, <1>8 DEF RefreshCheck, RefreshAllowed, At, OnItsWay, Wired
    <2> QED
        BY <1>2, <1>8, <2>1 DEF RefreshCheck
<1>9. CASE RefreshRevoke(r) \/ RefreshUser(r)
    <2>1. ~req[r].dead /\ req[r].op = "refresh" /\ req[r].step # "idle"
        BY <1>0, <1>9 DEF RefreshRevoke, RefreshUser, At, OnItsWay, Wired
    <2> QED
        BY <1>1, <1>2, <1>9, <2>1 DEF RefreshRevoke, RefreshUser
<1>10. CASE IssueSign(r)
    <2>1. ~req[r].dead /\ req[r].op # "logout" /\ req[r].step = "issueSign"
        BY <1>0, <1>10 DEF IssueSign, At, OnItsWay, Wired
    <2>2. PICK q : q = [req[r] EXCEPT !.step = "issueCreate", !.exp = AccessExpiry]
        OBVIOUS
    <2>3. /\ q.step = "issueCreate" /\ q.op = req[r].op /\ q.reply = req[r].reply
          /\ q.dead = req[r].dead
        BY <1>0, <2>2 DEF Request
    <2>4. req' = [req EXCEPT ![r] = q]
        BY <1>10, <2>2 DEF IssueSign
    <2> QED
        BY <2>1, <2>3, <2>4, OnTheirWayGoto
<1>11. CASE IssueCreate(r)
    <2>1. req[r].op # "logout"
        BY <1>0, <1>11 DEF IssueCreate, At, Wired
    <2> QED
        BY <1>1, <1>11, <2>1 DEF IssueCreate
<1>12. CASE LogoutRevoke(r)
    <2>1. PICK t : t = req[r].token
        OBVIOUS
    <2>2. t \in TokenIds /\ tokens[t].status \in TokenStatus /\ tokens[t].status # "unused"
        BY <1>0, <1>12, <2>1 DEF LogoutRevoke, At, Wired, Issued, TypeInv, Types, TokenRow
    <2>3. Spent(t)'
        BY <1>12, <2>1, <2>2
           DEF LogoutRevoke, Revoke, RevokeMatches, Spent, TokenStatus, TypeInv, Types, TokenRow
    <2> QED
        BY <1>12, <2>1, <2>3, OnTheirWayAnswer DEF LogoutRevoke
<1> QED
    BY <1>3, <1>4, <1>5, <1>6, <1>7, <1>8, <1>9, <1>10, <1>11, <1>12 DEF Handle

\* Every step keeps OnTheirWay.
LEMMA OnTheirWayAlways == Spec => []OnTheirWay
<1>1. Init => OnTheirWay
    BY DEF Init, OnTheirWay, OnItsWay, NewRequest
<1>2. TypeInv /\ OnTheirWay /\ [Next]_vars => OnTheirWay'
    <2> SUFFICES ASSUME TypeInv, OnTheirWay, [Next]_vars
                 PROVE  OnTheirWay'
        OBVIOUS
    <2>1. ASSUME NEW r \in Requests, Abort(r) PROVE OnTheirWay'
        <3>1. PICK t : t = req[r].token
            OBVIOUS
        <3> QED
            BY <2>1, <3>1, OnTheirWayAnswer DEF Abort
    <2>2. ASSUME req' = req PROVE OnTheirWay'
        <3>1. ASSUME NEW r \in Requests PROVE OnItsWay(req[r])'
            <4>1. PICK q : q = req[r]
                OBVIOUS
            <4>2. OnItsWay(q)'
                BY <4>1, OnItsWayStays DEF OnTheirWay, TypeInv, Types, Wiring
            <4> QED
                BY <2>2, <4>1, <4>2 DEF OnItsWay
        <3> QED
            BY <3>1 DEF OnTheirWay
    <2>3. ASSUME NEW u \in UserIds, DeleteUser(u) PROVE req' = req
        BY <2>3 DEF DeleteUser
    <2>4. Tick \/ UNCHANGED vars => req' = req
        BY DEF Tick, vars
    <2> QED
        BY <2>1, <2>2, <2>3, <2>4, OnTheirWayReceive, OnTheirWayHandle DEF Next
<1> QED
    BY <1>1, <1>2, TypeInvariance, PTL DEF Spec

\* A refresh token that was dead on arrival never gets past the gate.
THEOREM DeadCorrect == Spec => []DeadRefreshRejected
<1>1. OnTheirWay => DeadRefreshRejected
    BY DEF OnTheirWay, OnItsWay, DeadRefreshRejected, Rotating
<1> QED
    BY <1>1, OnTheirWayAlways, PTL

\* When logout answers, the token it was given is spent.
THEOREM LogoutCorrect == Spec => []LogoutSpendsToken
<1>1. OnTheirWay => LogoutSpendsToken
    BY DEF OnTheirWay, OnItsWay, LogoutSpendsToken, Spent
<1> QED
    BY <1>1, OnTheirWayAlways, PTL

-----------------------------------------------------------------------------
(* AuthService implements SessionFamilies: each step of a handler, of the   *)
(* operator or of the clock is a step of the promise or leaves it alone.    *)

PromiseVars == <<Issued, Usable, RotatingFamilies>>

\* A rotating session, by a request that rotates it.
LEMMA RotatingMember ==
    /\ \A r \in Requests : HandingOver(req[r]) => family[req[r].token] \in RotatingFamilies
    /\ \A f \in RotatingFamilies : \E r \in Requests :
          HandingOver(req[r]) /\ f = family[req[r].token]
BY DEF RotatingFamilies, Rotating, HandingOver

\* A local step of a handler leaves the rows alone: at most its rotation is over.
LEMMA LocalKeepsPromise ==
    ASSUME TypeInv, SessionInv, NEW r \in Requests, Calm, Local(r)
    PROVE  [Promise!Next]_PromiseVars
<1> DEFINE f == family[req[r].token]
<1>1. Issued' = Issued /\ Usable' = Usable /\ family' = family
  BY DEF Local, Issued, Usable, history
<1>2. \A x \in Requests : HandingOver(req[x]) => req[x].token \in Issued
  BY DEF TypeInv, Wiring, Wired, HandingOver
<1>3. CASE HandingOver(req[r]) /\ ~HandingOver(req'[r])
  <2>1. \A x \in Requests \ {r} : HandingOver(req[x]) => family[req[x].token] # f
    BY <1>3 DEF SessionInv, SessionHasOneToken, Rotating, HandingOver
  <2>2. \A x \in Requests : HandingOver(req'[x]) <=> x # r /\ HandingOver(req[x])
    BY <1>3 DEF Local
  <2>3. RotatingFamilies' = {family[req'[x].token] : x \in {y \in Requests : HandingOver(req'[y])}}
    BY <1>1 DEF RotatingFamilies, Rotating, HandingOver
  <2>4. RotatingFamilies = {family[req[x].token] : x \in {y \in Requests : HandingOver(req[y])}}
    BY DEF RotatingFamilies, Rotating, HandingOver
  <2>5. RotatingFamilies' = RotatingFamilies \ {f}
    BY <2>1, <2>2, <2>3, <2>4 DEF Local
  <2>6. f \in RotatingFamilies /\ f \in TokenIds
    BY <1>2, <1>3, RotatingMember DEF TypeInv, RowsOwned, Issued
  <2> QED
    BY <1>1, <2>5, <2>6 DEF Promise!Next, Promise!Abandon
<1>4. CASE ~(HandingOver(req[r]) /\ ~HandingOver(req'[r]))
  <2>1. \A x \in Requests : /\ HandingOver(req'[x]) <=> HandingOver(req[x])
                            /\ HandingOver(req[x]) => req'[x].token = req[x].token
    BY <1>4 DEF Local, Calm
  <2>2. RotatingFamilies' = {family[req'[x].token] : x \in {y \in Requests : HandingOver(req'[y])}}
    BY <1>1 DEF RotatingFamilies, Rotating, HandingOver
  <2>3. RotatingFamilies = {family[req[x].token] : x \in {y \in Requests : HandingOver(req[y])}}
    BY DEF RotatingFamilies, Rotating, HandingOver
  <2>4. RotatingFamilies' = RotatingFamilies
    BY <2>1, <2>2, <2>3
  <2> QED
    BY <1>1, <2>4 DEF PromiseVars
<1> QED
  BY <1>3, <1>4

\* Steps that start, end and move no rotation keep the set of rotating sessions.
LEMMA SameRotations ==
    ASSUME TypeInv, UNCHANGED family,
           \A x \in Requests : /\ HandingOver(req'[x]) <=> HandingOver(req[x])
                               /\ HandingOver(req[x]) => req'[x].token = req[x].token
    PROVE  RotatingFamilies' = RotatingFamilies
<1>1. RotatingFamilies' = {family[req'[x].token] : x \in {y \in Requests : HandingOver(req'[y])}}
  BY DEF RotatingFamilies, Rotating, HandingOver
<1>2. RotatingFamilies = {family[req[x].token] : x \in {y \in Requests : HandingOver(req[y])}}
  BY DEF RotatingFamilies, Rotating, HandingOver
<1> QED
  BY <1>1, <1>2

\* A logout that finds its token live closes the token's session.
LEMMA LogoutKeepsPromise ==
    ASSUME TypeInv, SessionInv, NEW r \in Requests, LogoutRevoke(r)
    PROVE  [Promise!Next]_PromiseVars
<1> DEFINE t == req[r].token
<1>1. t \in Issued /\ t \in TokenIds /\ req[r].op = "logout"
  BY DEF TypeInv, Wiring, Wired, LogoutRevoke, At, Issued
<1>2. Calm
  BY LogoutCalm
<1>3. req' = [req EXCEPT ![r] = Answered(r, "201")]
  BY DEF LogoutRevoke, Answer, Answered
<1>4. ~HandingOver(req[r]) /\ ~HandingOver(Answered(r, "201"))
  BY <1>1 DEF Answered, NewRequest, HandingOver
<1>5. RotatingFamilies' = RotatingFamilies
  <2>1. ~HandingOver(req'[r]) /\ \A x \in Requests \ {r} : req'[x] = req[x]
    BY <1>3, <1>4 DEF TypeInv, Types
  <2> QED
    BY <1>2, <1>4, <2>1, SameRotations DEF Calm, history
<1>6. CASE RevokeMatches(t)
  <2>1. tokens' = [tokens EXCEPT ![t].status = "revoked"] /\ tokens[t].status = "live"
    BY <1>6 DEF LogoutRevoke, Revoke, RevokeMatches
  <2>2. \A x \in TokenIds :
          tokens'[x].status = IF x = t THEN "revoked" ELSE tokens[x].status
    BY <1>1, <2>1 DEF TypeInv, Types, TokenRow
  <2>3. \A x \in Issued : tokens[x].status = "live" /\ family[x] = family[t] => x = t
    BY <1>1, <2>1 DEF SessionInv, SessionHasOneToken
  <2>4. ASSUME NEW f \in TokenIds
        PROVE  {x \in TokenIds : tokens'[x].status = "live" /\ family[x] = f}
                 = IF f \in {family[t]} THEN {}
                   ELSE {x \in TokenIds : tokens[x].status = "live" /\ family[x] = f}
    BY <1>1, <2>2, <2>3 DEF Issued
  <2>5. Usable' = [f \in TokenIds |-> IF f \in {family[t]} THEN {} ELSE Usable[f]]
    BY <1>2, <2>4 DEF Usable, Calm, history
  <2>6. {family[t]} \in SUBSET TokenIds
    BY <1>1 DEF TypeInv, RowsOwned, Issued
  <2> QED
    BY <1>2, <1>5, <2>5, <2>6 DEF Promise!Next, Promise!Close, Calm
<1>7. CASE ~RevokeMatches(t)
  <2>1. Usable' = Usable
    BY <1>2, <1>7 DEF Usable, Calm, history, LogoutRevoke, Revoke
  <2> QED
    BY <1>2, <1>5, <2>1 DEF PromiseVars, Calm
<1> QED
  BY <1>6, <1>7

\* Deleting a user closes exactly the sessions of that user.
LEMMA DeleteKeepsPromise ==
    ASSUME TypeInv, SessionInv, NEW u \in UserIds, DeleteUser(u)
    PROVE  [Promise!Next]_PromiseVars
<1> DEFINE F == {family[t] : t \in {x \in Issued : tokens[x].userId = u}}
<1>1. Calm /\ req' = req /\ family' = family
  BY DeleteCalm DEF DeleteUser, history
<1>2. RotatingFamilies' = RotatingFamilies
  BY <1>1, SameRotations
<1>3. \A x \in TokenIds :
        tokens'[x].status = IF tokens[x].userId = u THEN "deleted" ELSE tokens[x].status
  BY DEF DeleteUser, TypeInv, Types, TokenRow
<1>4. F \in SUBSET TokenIds
  BY DEF TypeInv, RowsOwned, Issued
<1>5. ASSUME NEW f \in TokenIds
      PROVE  {x \in TokenIds : tokens'[x].status = "live" /\ family[x] = f}
               = IF f \in F THEN {}
                 ELSE {x \in TokenIds : tokens[x].status = "live" /\ family[x] = f}
  <2>1. \A x \in Issued : family[x] = f /\ f \in F => tokens[x].userId = u
    BY DEF SessionInv, FamiliesKeepUser
  <2> QED
    BY <1>3, <2>1 DEF Issued
<1>6. Usable' = [f \in TokenIds |-> IF f \in F THEN {} ELSE Usable[f]]
  <2> HIDE DEF F
  <2> QED
    BY <1>1, <1>5 DEF Usable
<1> HIDE DEF F
<1> QED
  BY <1>1, <1>2, <1>4, <1>6 DEF Promise!Next, Promise!Close, Calm

\* Winning the conditional revocation spends the session's token.
LEMMA RevokeKeepsPromise ==
    ASSUME TypeInv, SessionInv, NEW r \in Requests, RefreshRevoke(r)
    PROVE  [Promise!Next]_PromiseVars
<1> DEFINE t == req[r].token
           f == family[t]
           q == [req[r] EXCEPT !.step = "refreshUser"]
<1>1. /\ req[r] \in Request /\ req[r].op = "refresh" /\ req[r].step = "refreshRevoke"
      /\ t \in Issued /\ t \in TokenIds /\ tokens[t].status = "live"
  BY DEF TypeInv, Types, Wiring, Wired, RefreshRevoke, At, RevokeMatches, Issued
<1>2. \A x \in TokenIds :
        tokens'[x].status = IF x = t THEN "revoked" ELSE tokens[x].status
  BY <1>1 DEF RefreshRevoke, TypeInv, Types, TokenRow
<1>3. Issued' = Issued /\ family' = family /\ f \in TokenIds
  BY <1>1, <1>2 DEF Issued, RefreshRevoke, history, TypeInv, RowsOwned
<1>4. /\ req'[r] = q /\ q.token = t /\ HandingOver(q) /\ ~HandingOver(req[r])
      /\ \A x \in Requests \ {r} : req'[x] = req[x]
  BY <1>1 DEF RefreshRevoke, Goto, TypeInv, Types, Request, HandingOver
<1>5. \A x \in Issued : tokens[x].status = "live" /\ family[x] = f => x = t
  BY <1>1 DEF SessionInv, SessionHasOneToken
<1>6. f \notin RotatingFamilies
  BY <1>1 DEF SessionInv, SessionHasOneToken, RotatingFamilies
<1> HIDE DEF q
<1>7. RotatingFamilies' = RotatingFamilies \cup {f}
  <2>1. RotatingFamilies' = {family[req'[x].token] : x \in {y \in Requests : HandingOver(req'[y])}}
    BY <1>3 DEF RotatingFamilies, Rotating, HandingOver
  <2>2. RotatingFamilies = {family[req[x].token] : x \in {y \in Requests : HandingOver(req[y])}}
    BY DEF RotatingFamilies, Rotating, HandingOver
  <2> HIDE DEF t
  <2> QED
    BY <1>4, <2>1, <2>2
<1>8. Usable[f] = {t}
  BY <1>1, <1>3, <1>5 DEF Usable, Issued
<1>9. Usable' = [Usable EXCEPT ![f] = {}]
  <2>1. ASSUME NEW g \in TokenIds
        PROVE  {x \in TokenIds : tokens'[x].status = "live" /\ family[x] = g}
                 = IF g = f THEN {}
                   ELSE {x \in TokenIds : tokens[x].status = "live" /\ family[x] = g}
    BY <1>1, <1>2, <1>5 DEF Issued
  <2> HIDE DEF t, f
  <2> QED
    BY <1>3, <2>1, ZenonT(40) DEF Usable
<1>10. Promise!Spend(f, t)
  BY <1>3, <1>6, <1>7, <1>8, <1>9 DEF Promise!Spend
<1> QED
  BY <1>1, <1>3, <1>10 DEF Promise!Next

\* The INSERT of a login opens a session, that of a rotation delivers its next token.
LEMMA IssueKeepsPromise ==
    ASSUME TypeInv, SessionInv, NEW r \in Requests, IssueCreate(r)
    PROVE  [Promise!Next]_PromiseVars
<1>1. PICK t \in Unused :
             LET f == IF req[r].token = None THEN t ELSE family[req[r].token]
                 row == [status |-> "live", userId |-> req[r].user, expiresAt |-> RefreshExpiry]
             IN  /\ tokens' = [tokens EXCEPT ![t] = row] /\ row \in TokenRow
                 /\ parent' = [parent EXCEPT ![t] = req[r].token]
                 /\ family' = [family EXCEPT ![t] = f]
                 /\ f = t \/ f \in Issued
                 /\ Issued' = Issued \cup {t}
                 /\ req[r].user \in UserIds
                 /\ req[r].token \in Issued \cup {None}
  BY IssueCreateEffect
<1> DEFINE p == req[r].token
           f == IF p = None THEN t ELSE family[p]
<1>2. t \in TokenIds /\ t \notin Issued /\ Issued \subseteq TokenIds /\ None \notin Issued
  BY NoneAssumption DEF Unused, Issued
<1>3. \A x \in TokenIds :
        /\ tokens'[x].status = IF x = t THEN "live" ELSE tokens[x].status
        /\ family'[x] = IF x = t THEN f ELSE family[x]
  BY <1>1, <1>2 DEF TypeInv, Types
<1>4. Issued' = Issued \cup {t} /\ (f = t \/ f \in Issued) /\ f \in TokenIds
  BY <1>1, <1>2
<1>5. ~HandingOver(req'[r]) /\ \A x \in Requests \ {r} : req'[x] = req[x]
  <2>1. req' = [req EXCEPT ![r] = Answered(r, "201")]
    BY DEF IssueCreate, Answer, Answered
  <2>2. ~HandingOver(Answered(r, "201"))
    BY DEF Answered, NewRequest, HandingOver
  <2> QED
    BY <2>1, <2>2 DEF TypeInv, Types
<1>6. \A x \in Requests : HandingOver(req[x]) => req[x].token \in Issued
  BY DEF TypeInv, Wiring, Wired, HandingOver
<1>7. \A x \in Issued : family[x] \in Issued
  BY DEF TypeInv, RowsOwned, Issued
<1>8. p = None <=> ~HandingOver(req[r])
  <2>1. req[r].step = "issueCreate" /\ Wired(req[r], Issued)
    BY DEF IssueCreate, At, TypeInv, Wiring
  <2> QED
    BY <1>2, <1>6, <2>1 DEF Wired, HandingOver
<1>9. RotatingFamilies' = {family'[req'[x].token] : x \in {y \in Requests : HandingOver(req'[y])}}
  BY DEF RotatingFamilies, Rotating, HandingOver
<1>10. RotatingFamilies = {family[req[x].token] : x \in {y \in Requests : HandingOver(req[y])}}
  BY DEF RotatingFamilies, Rotating, HandingOver
<1>11. \A x \in Requests \ {r} :
          /\ HandingOver(req'[x]) <=> HandingOver(req[x])
          /\ HandingOver(req[x]) => family'[req'[x].token] = family[req[x].token]
  BY <1>2, <1>3, <1>5, <1>6
<1> HIDE DEF p, f
<1>12. CASE p = None
  <2>1. f = t
    BY <1>12 DEF f
  <2>2. RotatingFamilies' = RotatingFamilies
    BY <1>5, <1>8, <1>9, <1>10, <1>11, <1>12
  <2>3. ASSUME NEW g \in TokenIds
        PROVE  {x \in TokenIds : tokens'[x].status = "live" /\ family'[x] = g}
                 = IF g = t THEN {t}
                   ELSE {x \in TokenIds : tokens[x].status = "live" /\ family[x] = g}
    <3>1. \A x \in TokenIds : tokens[x].status = "live" => family[x] # t
      BY <1>2, <1>7 DEF Issued
    <3>2. tokens[t].status # "live"
      BY <1>2 DEF Issued
    <3> QED
      BY <1>2, <1>3, <2>1, <3>1, <3>2
  <2>4. Usable' = [Usable EXCEPT ![t] = {t}]
    BY <1>2, <2>3 DEF Usable
  <2>5. Promise!Open(t)
    BY <1>2, <1>4, <2>2, <2>4 DEF Promise!Open
  <2> QED
    BY <1>2, <2>5 DEF Promise!Next
<1>13. CASE p # None
  <2>1. HandingOver(req[r]) /\ p \in Issued /\ f = family[p] /\ f \in TokenIds
    BY <1>4, <1>6, <1>8, <1>13 DEF f, p
  <2>2. \A x \in Requests \ {r} : HandingOver(req[x]) => family[req[x].token] # f
    BY <2>1 DEF SessionInv, SessionHasOneToken, Rotating, HandingOver, p
  <2>3. f \in RotatingFamilies
    BY <2>1, RotatingMember DEF p
  <2>4. RotatingFamilies' = RotatingFamilies \ {f}
    BY <1>5, <1>9, <1>10, <1>11, <2>1, <2>2 DEF p
  <2>5. ASSUME NEW g \in TokenIds
        PROVE  {x \in TokenIds : tokens'[x].status = "live" /\ family'[x] = g}
                 = IF g = f THEN {t}
                   ELSE {x \in TokenIds : tokens[x].status = "live" /\ family[x] = g}
    <3>1. \A x \in Issued : tokens[x].status = "live" => family[x] # f
      BY <2>1 DEF SessionInv, SessionHasOneToken, Rotating, HandingOver, p
    <3>2. \A x \in TokenIds : tokens[x].status = "live" => x \in Issued
      BY DEF Issued
    <3> QED
      BY <1>2, <1>3, <3>1, <3>2
  <2>6. Usable' = [Usable EXCEPT ![f] = {t}]
    BY <2>1, <2>5 DEF Usable
  <2>7. Promise!Mint(f, t)
    BY <1>2, <1>4, <2>3, <2>4, <2>6 DEF Promise!Mint
  <2> QED
    BY <1>2, <2>1, <2>7 DEF Promise!Next
<1> QED
  BY <1>12, <1>13

\* Every step is a step of the promise, or none.
LEMMA StepKeepsPromise == TypeInv /\ SessionInv /\ [Next]_vars => [Promise!Next]_PromiseVars
<1> SUFFICES ASSUME TypeInv, SessionInv, [Next]_vars PROVE [Promise!Next]_PromiseVars
  OBVIOUS
<1>1. ASSUME NEW r \in Requests, Receive(r) PROVE [Promise!Next]_PromiseVars
  BY <1>1, ReceiveCalm, LocalKeepsPromise
<1>2. ASSUME NEW r \in Requests, Handle(r) PROVE [Promise!Next]_PromiseVars
  BY <1>2, HandleCalm, LocalKeepsPromise, LogoutKeepsPromise, RevokeKeepsPromise,
     IssueKeepsPromise DEF Handle
<1>3. ASSUME NEW r \in Requests, Abort(r) PROVE [Promise!Next]_PromiseVars
  BY <1>3, AnswerCalm, LocalKeepsPromise DEF Abort, table
<1>4. ASSUME NEW u \in UserIds, DeleteUser(u) PROVE [Promise!Next]_PromiseVars
  BY <1>4, DeleteKeepsPromise
<1>5. CASE Tick \/ UNCHANGED vars
  <2>1. UNCHANGED <<tokens, req, family>>
    BY <1>5 DEF Tick, vars, table, history
  <2> QED
    BY <2>1 DEF PromiseVars, Issued, Usable, RotatingFamilies, Rotating
<1> QED
  BY <1>1, <1>2, <1>3, <1>4, <1>5 DEF Next

\* No token, no session, no rotation at first.
LEMMA InitPromise == Init => Promise!Init
<1> SUFFICES ASSUME Init PROVE Promise!Init
  OBVIOUS
<1>1. Issued = {}
  BY DEF Init, Issued
<1>2. Usable = [f \in TokenIds |-> {}]
  BY DEF Init, Usable
<1>3. RotatingFamilies = {}
  BY DEF Init, RotatingFamilies, Rotating, NewRequest
<1> QED
  BY <1>1, <1>2, <1>3 DEF Promise!Init

\* The backend keeps the promise of SessionFamilies, for any number of requests, users
\* and tokens: the handlers that find, check, revoke and insert in separate statements
\* implement a session that is opened, spent, minted, abandoned or closed in one step.
THEOREM PromiseKept == Spec => KeepsPromise
<1>1. TypeInv /\ SessionInv /\ [Next]_vars => [Promise!Next]_Promise!vars
  BY StepKeepsPromise DEF PromiseVars, Promise!vars
<1> QED
  BY <1>1, InitPromise, TypeInvariance, SessionInvariance, PTL DEF Spec, KeepsPromise, Promise!Spec

\* No step of the promise brings back a session that is over, so none of the backend does.
THEOREM EndedCorrect == Spec => EndedSessionStaysEnded
<1>1. [Promise!Next]_PromiseVars =>
          \A f \in Issued : Usable[f] = {} /\ f \notin RotatingFamilies
              => Usable'[f] = {} /\ f \notin RotatingFamilies'
  <2> SUFFICES ASSUME [Promise!Next]_PromiseVars, NEW f \in Issued,
                      Usable[f] = {}, f \notin RotatingFamilies
               PROVE  Usable'[f] = {} /\ f \notin RotatingFamilies'
    OBVIOUS
  <2>0. Issued \subseteq TokenIds /\ DOMAIN Usable = TokenIds
    BY DEF Issued, Usable
  <2>1. ASSUME NEW t \in TokenIds, Promise!Open(t)
        PROVE  Usable'[f] = {} /\ f \notin RotatingFamilies'
    BY <2>0, <2>1 DEF Promise!Open
  <2>2. ASSUME NEW g \in TokenIds, NEW t \in TokenIds, Promise!Spend(g, t) \/ Promise!Mint(g, t)
        PROVE  Usable'[f] = {} /\ f \notin RotatingFamilies'
    BY <2>0, <2>2 DEF Promise!Spend, Promise!Mint
  <2>3. ASSUME NEW g \in TokenIds, Promise!Abandon(g)
        PROVE  Usable'[f] = {} /\ f \notin RotatingFamilies'
    BY <2>3 DEF Promise!Abandon
  <2>4. ASSUME NEW F \in SUBSET TokenIds, Promise!Close(F)
        PROVE  Usable'[f] = {} /\ f \notin RotatingFamilies'
    BY <2>0, <2>4 DEF Promise!Close
  <2>5. CASE UNCHANGED PromiseVars
    BY <2>5 DEF PromiseVars
  <2> QED
    BY <2>1, <2>2, <2>3, <2>4, <2>5 DEF Promise!Next
<1> QED
  BY <1>1, StepKeepsPromise, TypeInvariance, SessionInvariance, PTL
     DEF Spec, EndedSessionStaysEnded

-----------------------------------------------------------------------------
(* Every request is answered: a handler has only so many statements left,   *)
(* nobody else moves it, and it never waits for another handler.            *)

\* How many statements the handler that stands at a step still has, at most.
Left(step) ==
    CASE step = "idle" -> 0
      [] step \in {"registerCreate", "issueCreate", "logoutRevoke", "meFind"} -> 1
      [] step \in {"registerFind", "issueSign"} -> 2
      [] step \in {"loginFind", "refreshUser"} -> 3
      [] step = "refreshRevoke" -> 4
      [] step = "refreshCheck" -> 5
      [] step = "refreshFind" -> 6

\* No handler loops or retries, and no step of another handler, of an operator or of the
\* clock sets it back.
HandlersAdvance ==
    [][\A r \in Requests : ~At(r, "idle") =>
          req'[r] = req[r] \/ Left(req'[r].step) < Left(req[r].step)]_vars

\* A step of a handler is one of its statements less.
LEMMA HandleAdvances ==
    ASSUME Types, NEW r \in Requests, Handle(r)
    PROVE  /\ ~At(r, "idle") /\ Left(req'[r].step) < Left(req[r].step)
           /\ \A x \in Requests \ {r} : req'[x] = req[x]
<1>1. CASE RegisterFind(r)
  BY <1>1 DEF RegisterFind, At, Answer, NewRequest, Goto, Left, Types, Request
<1>2. CASE RegisterCreate(r) \/ RegisterDuplicate(r)
  BY <1>2 DEF RegisterCreate, RegisterDuplicate, At, Answer, NewRequest, Left, Types, Request
<1>3. CASE LoginFind(r)
  BY <1>3 DEF LoginFind, At, Left, Types, Request
<1>4. CASE LoginReject(r)
  BY <1>4 DEF LoginReject, At, Answer, NewRequest, Left, Types, Request
<1>5. CASE RefreshFind(r)
  BY <1>5 DEF RefreshFind, At, Left, Types, Request
<1>6. CASE RefreshCheck(r) \/ RefreshReject(r)
  BY <1>6 DEF RefreshCheck, RefreshReject, At, Answer, NewRequest, Goto, Left, Types, Request
<1>7. CASE RefreshRevoke(r) \/ RefreshLose(r)
  BY <1>7 DEF RefreshRevoke, RefreshLose, At, Answer, NewRequest, Goto, Left, Types, Request
<1>8. CASE RefreshUser(r)
  BY <1>8 DEF RefreshUser, At, Answer, NewRequest, Goto, Left, Types, Request
<1>9. CASE IssueSign(r)
  BY <1>9 DEF IssueSign, At, Left, Types, Request
<1>10. CASE IssueCreate(r) \/ IssueOrphan(r)
  BY <1>10 DEF IssueCreate, IssueOrphan, At, Answer, NewRequest, Left, Types, Request
<1>11. CASE LogoutRevoke(r) \/ MeFind(r)
  BY <1>11 DEF LogoutRevoke, MeFind, At, Answer, NewRequest, Left, Types, Request
<1> QED
  BY <1>1, <1>2, <1>3, <1>4, <1>5, <1>6, <1>7, <1>8, <1>9, <1>10, <1>11 DEF Handle

\* Whatever else happens, a handler stays where it is, or is aborted.
LEMMA StepAdvances ==
    ASSUME Types, [Next]_vars, NEW r \in Requests, ~At(r, "idle")
    PROVE  req'[r] = req[r] \/ Left(req'[r].step) < Left(req[r].step)
<1>1. ASSUME NEW x \in Requests, Receive(x) PROVE req'[r] = req[r]
  <2>1. PICK q : Arrive(x, q)
    BY <1>1 DEF Receive, StartRegister, StartLogin, StartRefresh, StartLogout, StartMe, Refuse,
                RefreshWithoutCookie, LogoutWithoutCookie, GuardRejects
  <2> QED
    BY <2>1 DEF Arrive, At, Types
<1>2. ASSUME NEW x \in Requests, Handle(x)
      PROVE  req'[r] = req[r] \/ Left(req'[r].step) < Left(req[r].step)
  BY <1>2, HandleAdvances
<1>3. ASSUME NEW x \in Requests, Abort(x)
      PROVE  req'[r] = req[r] \/ Left(req'[r].step) < Left(req[r].step)
  <2>1. CASE x # r
    BY <1>3, <2>1 DEF Abort, Answer, Types
  <2>2. CASE x = r
    <3>1. req'[r].step = "idle" /\ req[r].step \in Steps \ {"idle"}
      BY <1>3, <2>2 DEF Abort, Answer, NewRequest, Types, Request, At
    <3>2. Left("idle") = 0 /\ \A s \in Steps \ {"idle"} : Left(s) > 0
      BY DEF Left, Steps
    <3> QED
      BY <3>1, <3>2
  <2> QED
    BY <2>1, <2>2
<1>4. CASE Tick \/ (\E u \in UserIds : DeleteUser(u)) \/ UNCHANGED vars
  BY <1>4 DEF Tick, DeleteUser, vars
<1> QED
  BY <1>1, <1>2, <1>3, <1>4 DEF Next

\* No handler is set back or repeats a statement.
THEOREM AdvanceCorrect == Spec => HandlersAdvance
<1>1. Types /\ [Next]_vars => [\A r \in Requests : ~At(r, "idle") =>
          req'[r] = req[r] \/ Left(req'[r].step) < Left(req[r].step)]_vars
  BY StepAdvances
<1> QED
  BY <1>1, TypesAlways, PTL DEF Spec, HandlersAdvance

\* The fairness of FairSpec with the handler's guards in place of ENABLED: a handler that
\* has a next statement from some time on goes on with it.
Served(r) == []<>At(r, "idle") \/ []<><<Handle(r)>>_vars

\* That is what weak fairness gives it, since Handle(r) is enabled while r is not idle: see
\* NeverStuck for the two INSERTs; every other statement has an outcome in every state.
LEMMA FairIsServed ==
    ASSUME NEW r \in Requests
    PROVE  WF_vars(Handle(r)) /\ [](~At(r, "idle") => ENABLED <<Handle(r)>>_vars) => Served(r)
BY PTL DEF Served

\* From k statements left to fewer, in the end.
GoesDown(r, k) == Left(req[r].step) = k ~> Left(req[r].step) < k

\* A handler that is served gets one statement further.
LEMMA Shorter ==
    ASSUME NEW r \in Requests, NEW k \in 1 .. 6
    PROVE  Spec /\ Served(r) => GoesDown(r, k)
<1>1. Types /\ Left(req[r].step) = k /\ [Next]_vars
        => (Left(req[r].step) = k)' \/ (Left(req[r].step) < k)'
  <2> SUFFICES ASSUME Types, Left(req[r].step) = k, [Next]_vars
               PROVE  (Left(req[r].step) = k)' \/ (Left(req[r].step) < k)'
    OBVIOUS
  <2>1. ~At(r, "idle")
    BY DEF At, Left
  <2> QED
    BY <2>1, StepAdvances
<1>2. Types /\ Left(req[r].step) = k /\ <<Handle(r)>>_vars => (Left(req[r].step) < k)'
  BY HandleAdvances
<1>3. Left(req[r].step) = k => ~At(r, "idle")
  BY DEF At, Left
<1> QED
  BY <1>1, <1>2, <1>3, TypesAlways, PTL DEF Spec, Served, GoesDown

\* A request that is served is answered.
LEMMA ServedIsAnswered ==
    ASSUME NEW r \in Requests
    PROVE  Spec /\ Served(r) => (~At(r, "idle") ~> At(r, "idle"))
<1> DEFINE n == Left(req[r].step)
<1>1. Types => n \in 0 .. 6 /\ (n = 0 <=> At(r, "idle"))
  BY DEF Types, Request, Steps, Left, At
<1>2. Types => /\ n = 0 \/ n = 1 \/ n = 2 \/ n = 3 \/ n = 4 \/ n = 5 \/ n = 6
               /\ n < 1 => n = 0
               /\ n < 2 => n = 0 \/ n = 1
               /\ n < 3 => n = 0 \/ n = 1 \/ n = 2
               /\ n < 4 => n = 0 \/ n = 1 \/ n = 2 \/ n = 3
               /\ n < 5 => n = 0 \/ n = 1 \/ n = 2 \/ n = 3 \/ n = 4
               /\ n < 6 => n = 0 \/ n = 1 \/ n = 2 \/ n = 3 \/ n = 4 \/ n = 5
  BY <1>1
<1>3. 1 \in 1 .. 6 /\ 2 \in 1 .. 6 /\ 3 \in 1 .. 6 /\ 4 \in 1 .. 6 /\ 5 \in 1 .. 6 /\ 6 \in 1 .. 6
  OBVIOUS
<1>4. Spec /\ Served(r) => GoesDown(r, 1)
  BY <1>3, Shorter
<1>5. Spec /\ Served(r) => GoesDown(r, 2)
  BY <1>3, Shorter
<1>6. Spec /\ Served(r) => GoesDown(r, 3)
  BY <1>3, Shorter
<1>7. Spec /\ Served(r) => GoesDown(r, 4)
  BY <1>3, Shorter
<1>8. Spec /\ Served(r) => GoesDown(r, 5)
  BY <1>3, Shorter
<1>9. Spec /\ Served(r) => GoesDown(r, 6)
  BY <1>3, Shorter
<1> QED
  BY <1>1, <1>2, <1>4, <1>5, <1>6, <1>7, <1>8, <1>9, TypesAlways, PTL DEF GoesDown

\* Every request is answered when every handler is served, whatever the other requests do to
\* the rows it works on, however many they are, and whatever fails.
THEOREM AnswerCorrect == Spec /\ (\A r \in Requests : Served(r)) => EveryRequestAnswered
BY ServedIsAnswered DEF EveryRequestAnswered

-----------------------------------------------------------------------------
(* The bounds on ids never stop a handler half way, so that a statement is  *)
(* always there to go on with.                                              *)

MintingRequests == {r \in Requests : req[r].step \in Minting}
Registering == {r \in Requests : req[r].step \in {"registerFind", "registerCreate"}}
UnusedUsers == {u \in UserIds : users[u].status = "unused"}

\* Every request that may insert a row has an id left for it.
IdsSuffice ==
    /\ Cardinality(MintingRequests) <= Cardinality(Unused)
    /\ Cardinality(Registering) <= Cardinality(UnusedUsers)

\* Whatever the other requests and the operator have done to the rows, one of the outcomes
\* of r's next statement is possible: no handler waits for another one.
NeverStuck ==
    \A r \in Requests :
        /\ At(r, "registerCreate") => EmailTaken(req[r].email) \/ UnusedUsers # {}
        /\ At(r, "issueCreate") => ~OwnerExists(req[r].user) \/ Unused # {}

Finite == IsFiniteSet(Requests) /\ IsFiniteSet(UserIds) /\ IsFiniteSet(TokenIds)

LEMMA FiniteParts ==
    ASSUME Finite
    PROVE  /\ IsFiniteSet(MintingRequests) /\ IsFiniteSet(Registering)
           /\ IsFiniteSet(Unused) /\ IsFiniteSet(UnusedUsers)
           /\ Cardinality(MintingRequests) \in Nat /\ Cardinality(Registering) \in Nat
           /\ Cardinality(Unused) \in Nat /\ Cardinality(UnusedUsers) \in Nat
<1>1. /\ MintingRequests \subseteq Requests /\ Registering \subseteq Requests
      /\ Unused \subseteq TokenIds /\ UnusedUsers \subseteq UserIds
  BY DEF MintingRequests, Registering, Unused, UnusedUsers
<1>2. /\ IsFiniteSet(MintingRequests) /\ IsFiniteSet(Registering)
      /\ IsFiniteSet(Unused) /\ IsFiniteSet(UnusedUsers)
  BY <1>1, FS_Subset DEF Finite
<1> QED
  BY <1>2, FS_CardinalityType

\* A demand that shrinks or stays against a supply that stays.
LEMMA LessDemand ==
    ASSUME NEW D, NEW E, IsFiniteSet(D), E \subseteq D, NEW n \in Nat, Cardinality(D) <= n
    PROVE  Cardinality(E) <= n
<1>1. IsFiniteSet(E) /\ Cardinality(E) <= Cardinality(D)
  BY FS_Subset
<1>2. Cardinality(D) \in Nat /\ Cardinality(E) \in Nat
  BY <1>1, FS_CardinalityType
<1> QED
  BY <1>1, <1>2

\* One more demand, when there was more than enough.
LEMMA MoreDemand ==
    ASSUME NEW D, NEW E, NEW x, IsFiniteSet(D), E \subseteq D \cup {x}, NEW n \in Nat,
           Cardinality(D) < n
    PROVE  Cardinality(E) <= n
<1>1. IsFiniteSet(D \cup {x}) /\ Cardinality(D) \in Nat /\ Cardinality(D \cup {x}) \in Nat
  BY FS_AddElement, FS_CardinalityType
<1>2. Cardinality(D \cup {x}) <= n
  BY <1>1, FS_AddElement
<1> QED
  BY <1>1, <1>2, LessDemand

\* A demand is met.
LEMMA DemandMet ==
    ASSUME NEW D, NEW E, NEW x \in D, IsFiniteSet(D), E \subseteq D \ {x},
           NEW S, NEW y \in S, IsFiniteSet(S), Cardinality(D) <= Cardinality(S)
    PROVE  Cardinality(E) <= Cardinality(S \ {y})
<1>1. /\ IsFiniteSet(D \ {x}) /\ Cardinality(D \ {x}) = Cardinality(D) - 1
      /\ IsFiniteSet(S \ {y}) /\ Cardinality(S \ {y}) = Cardinality(S) - 1
  BY FS_RemoveElement
<1>2. /\ Cardinality(D) \in Nat /\ Cardinality(S) \in Nat
      /\ Cardinality(D \ {x}) \in Nat /\ Cardinality(S \ {y}) \in Nat
  BY <1>1, FS_CardinalityType
<1> QED
  BY <1>1, <1>2, LessDemand

\* What a step takes of the ids, and who may still ask for one after it.
LEMMA ReceiveDemands ==
    ASSUME TypeInv, NEW r \in Requests, Receive(r)
    PROVE  /\ Unused' = Unused /\ UnusedUsers' = UnusedUsers
           /\ \/ MintingRequests' \subseteq MintingRequests
              \/ MintingRequests' \subseteq MintingRequests \cup {r} /\ IdLeft
           /\ \/ Registering' \subseteq Registering
              \/ Registering' \subseteq Registering \cup {r} /\ UserIdLeft
<1>1. UNCHANGED <<users, tokens>>
  BY DEF Receive, StartRegister, StartLogin, StartRefresh, StartLogout, StartMe, Refuse,
         RefreshWithoutCookie, LogoutWithoutCookie, GuardRejects, table
<1>2. PICK q : /\ req' = [req EXCEPT ![r] = q]
               /\ q.step \in Minting => IdLeft
               /\ q.step \in {"registerFind", "registerCreate"} => UserIdLeft
  <2> DEFINE Allowed(q) == /\ req' = [req EXCEPT ![r] = q]
                           /\ q.step \in Minting => IdLeft
                           /\ q.step \in {"registerFind", "registerCreate"} => UserIdLeft
  <2>1. ASSUME NEW e \in Emails, StartRegister(r, e)
        PROVE  Allowed(NewRequest("register", "registerFind", e, None))
    BY <2>1 DEF StartRegister, Arrive, NewRequest, Minting
  <2>2. ASSUME NEW e \in Emails, StartLogin(r, e)
        PROVE  Allowed(NewRequest("login", "loginFind", e, None))
    BY <2>2 DEF StartLogin, Arrive, NewRequest, Minting
  <2>3. ASSUME NEW t \in TokenIds, StartRefresh(r, t)
        PROVE  Allowed([NewRequest("refresh", "refreshFind", None, t)
                          EXCEPT !.dead = ~RevokeMatches(t) \/ Expired(t)])
    BY <2>3 DEF StartRefresh, Arrive, NewRequest, Minting
  <2>4. ASSUME NEW t \in TokenIds, StartLogout(r, t)
        PROVE  Allowed(NewRequest("logout", "logoutRevoke", None, t))
    BY <2>4 DEF StartLogout, Arrive, NewRequest, Minting
  <2>5. ASSUME NEW j \in jwts, Arrive(r, [NewRequest("me", "meFind", None, None) EXCEPT !.user = j.sub])
        PROVE  Allowed([NewRequest("me", "meFind", None, None) EXCEPT !.user = j.sub])
    BY <2>5 DEF Arrive, NewRequest, Minting
  <2>6. ASSUME NEW op, NEW s, Refuse(r, op, s)
        PROVE  Allowed([NewRequest(op, "idle", None, None) EXCEPT !.reply = s])
    BY <2>6 DEF Refuse, Arrive, NewRequest, Minting
  <2> HIDE DEF Allowed
  <2>7. \E q : Allowed(q)
    BY <2>1, <2>2, <2>3, <2>4, <2>5, <2>6
       DEF Receive, StartMe, RefreshWithoutCookie, LogoutWithoutCookie, GuardRejects
  <2> QED
    BY <2>7 DEF Allowed
<1>3. req'[r] = q /\ \A x \in Requests \ {r} : req'[x] = req[x]
  BY <1>2 DEF TypeInv, Types
<1> QED
  BY <1>1, <1>2, <1>3 DEF Unused, UnusedUsers, MintingRequests, Registering

LEMMA HandleDemands ==
    ASSUME TypeInv, NEW r \in Requests, Handle(r), ~IssueCreate(r), ~RegisterCreate(r)
    PROVE  /\ Unused' = Unused /\ UnusedUsers' = UnusedUsers
           /\ MintingRequests' \subseteq MintingRequests /\ Registering' \subseteq Registering
<1>1. users' = users /\ Unused' = Unused
  <2>1. CASE RefreshRevoke(r) \/ LogoutRevoke(r)
    <3>1. /\ users' = users
          /\ \/ tokens' = tokens
             \/ /\ tokens[req[r].token].status = "live"
                /\ tokens' = [tokens EXCEPT ![req[r].token].status = "revoked"]
      BY <2>1 DEF RefreshRevoke, LogoutRevoke, Revoke, RevokeMatches
    <3>2. \A x \in TokenIds : tokens'[x].status = "unused" <=> tokens[x].status = "unused"
      BY <3>1 DEF TypeInv, Types, TokenRow
    <3> QED
      BY <3>1, <3>2 DEF Unused
  <2>2. CASE ~(RefreshRevoke(r) \/ LogoutRevoke(r))
    <3>1. users' = users /\ tokens' = tokens
      BY <2>2 DEF Handle, RegisterFind, RegisterDuplicate, LoginFind, LoginReject, RefreshFind,
                  RefreshCheck, RefreshReject, RefreshLose, RefreshUser, IssueSign, IssueOrphan,
                  MeFind, table
    <3> QED
      BY <3>1 DEF Unused
  <2> QED
    BY <2>1, <2>2
<1>2. \A x \in Requests \ {r} : req'[x] = req[x]
  BY HandleAdvances DEF TypeInv
<1>3. /\ req'[r].step \in Minting => req[r].step \in Minting
      /\ req'[r].step \in {"registerFind", "registerCreate"}
            => req[r].step \in {"registerFind", "registerCreate"}
  <2>1. req \in [Requests -> Request]
    BY DEF TypeInv, Types
  <2>2. CASE RegisterFind(r)
    BY <2>1, <2>2 DEF RegisterFind, At, Answer, NewRequest, Goto, Minting, Request
  <2>3. CASE LoginFind(r) \/ RefreshFind(r) \/ IssueSign(r)
    BY <2>1, <2>3 DEF LoginFind, RefreshFind, IssueSign, At, Minting, Request
  <2>4. CASE RefreshCheck(r) \/ RefreshRevoke(r)
    BY <2>1, <2>4 DEF RefreshCheck, RefreshRevoke, At, Goto, Minting, Request
  <2>5. CASE RefreshUser(r)
    BY <2>1, <2>5 DEF RefreshUser, At, Answer, NewRequest, Goto, Minting, Request
  <2>6. CASE RegisterDuplicate(r) \/ LoginReject(r) \/ RefreshReject(r) \/ RefreshLose(r)
             \/ IssueOrphan(r) \/ LogoutRevoke(r) \/ MeFind(r)
    BY <2>1, <2>6 DEF RegisterDuplicate, LoginReject, RefreshReject, RefreshLose, IssueOrphan,
                LogoutRevoke, MeFind, Answer, NewRequest, Minting, Request
  <2> QED
    BY <2>2, <2>3, <2>4, <2>5, <2>6 DEF Handle
<1> QED
  BY <1>1, <1>2, <1>3 DEF UnusedUsers, MintingRequests, Registering

LEMMA RegisterDemands ==
    ASSUME TypeInv, NEW r \in Requests, RegisterCreate(r)
    PROVE  /\ Unused' = Unused /\ MintingRequests' \subseteq MintingRequests
           /\ r \in Registering /\ Registering' \subseteq Registering \ {r}
           /\ \E u \in UnusedUsers : UnusedUsers' = UnusedUsers \ {u}
<1>1. PICK u \in UserIds : /\ users[u].status = "unused"
                           /\ users' = [users EXCEPT ![u] = [status |-> "present", email |-> req[r].email]]
  BY DEF RegisterCreate
<1>2. tokens' = tokens /\ req[r].step = "registerCreate"
  BY DEF RegisterCreate, At
<1>3. req'[r].step = "idle" /\ \A x \in Requests \ {r} : req'[x] = req[x]
  BY DEF RegisterCreate, Answer, NewRequest, TypeInv, Types
<1>4. \A x \in UserIds : users'[x].status = IF x = u THEN "present" ELSE users[x].status
  BY <1>1 DEF TypeInv, Types
<1> QED
  BY <1>1, <1>2, <1>3, <1>4 DEF Unused, UnusedUsers, MintingRequests, Registering, Minting

LEMMA IssueDemands ==
    ASSUME TypeInv, NEW r \in Requests, IssueCreate(r)
    PROVE  /\ UnusedUsers' = UnusedUsers /\ Registering' \subseteq Registering
           /\ r \in MintingRequests /\ MintingRequests' \subseteq MintingRequests \ {r}
           /\ \E t \in Unused : Unused' = Unused \ {t}
<1>1. PICK t \in Unused :
        tokens' = [tokens EXCEPT ![t] =
              [status |-> "live", userId |-> req[r].user, expiresAt |-> RefreshExpiry]]
  BY DEF IssueCreate
<1>2. users' = users /\ req[r].step = "issueCreate"
  BY DEF IssueCreate, At
<1>3. req'[r].step = "idle" /\ \A x \in Requests \ {r} : req'[x] = req[x]
  BY DEF IssueCreate, Answer, NewRequest, TypeInv, Types
<1>4. \A x \in TokenIds : tokens'[x].status = IF x = t THEN "live" ELSE tokens[x].status
  BY <1>1 DEF TypeInv, Types
<1>5. Unused' = Unused \ {t}
  BY <1>4 DEF Unused
<1> QED
  BY <1>2, <1>3, <1>5 DEF UnusedUsers, MintingRequests, Registering, Minting

LEMMA OtherDemands ==
    ASSUME TypeInv, (\E r \in Requests : Abort(r)) \/ (\E u \in UserIds : DeleteUser(u))
                    \/ Tick \/ UNCHANGED vars
    PROVE  /\ Unused' = Unused /\ UnusedUsers' = UnusedUsers
           /\ MintingRequests' \subseteq MintingRequests /\ Registering' \subseteq Registering
<1>1. ASSUME NEW r \in Requests, Abort(r)
      PROVE  UNCHANGED <<users, tokens>> /\ req'[r].step = "idle"
             /\ \A x \in Requests \ {r} : req'[x] = req[x]
  BY <1>1 DEF Abort, Answer, NewRequest, table, TypeInv, Types
<1>2. ASSUME NEW u \in UserIds, DeleteUser(u)
      PROVE  Unused' = Unused /\ UnusedUsers' = UnusedUsers /\ req' = req
  <2>1. \A x \in TokenIds : tokens'[x].status = "unused" <=> tokens[x].status = "unused"
    BY <1>2, NoneAssumption DEF DeleteUser, TypeInv, Types, TokenRow, RowsOwned
  <2>2. \A x \in UserIds : users'[x].status = "unused" <=> users[x].status = "unused"
    BY <1>2 DEF DeleteUser, Present, TypeInv, Types, UserRow
  <2> QED
    BY <1>2, <2>1, <2>2 DEF DeleteUser, Unused, UnusedUsers
<1>3. CASE Tick \/ UNCHANGED vars
  BY <1>3 DEF Tick, vars, table, Unused, UnusedUsers, MintingRequests, Registering
<1>4. CASE \E r \in Requests : Abort(r)
  BY <1>1, <1>4 DEF Unused, UnusedUsers, MintingRequests, Registering, Minting
<1>5. CASE \E u \in UserIds : DeleteUser(u)
  BY <1>2, <1>5 DEF MintingRequests, Registering
<1> QED
  BY <1>3, <1>4, <1>5

\* The ids suffice for the requests that are in flight.
LEMMA SupplyInvariance == ASSUME Finite PROVE Spec => []IdsSuffice
<1>1. Init => IdsSuffice
  <2> SUFFICES ASSUME Init PROVE IdsSuffice
    OBVIOUS
  <2>1. MintingRequests = {} /\ Registering = {}
    BY DEF Init, MintingRequests, Registering, NewRequest, Minting
  <2> QED
    BY <2>1, FiniteParts, FS_EmptySet DEF IdsSuffice
<1>2. TypeInv /\ IdsSuffice /\ [Next]_vars => IdsSuffice'
  <2> SUFFICES ASSUME TypeInv, IdsSuffice, [Next]_vars PROVE IdsSuffice'
    OBVIOUS
  <2> USE FiniteParts DEF IdsSuffice
  <2>1. ASSUME /\ Unused' = Unused /\ UnusedUsers' = UnusedUsers
               /\ MintingRequests' \subseteq MintingRequests /\ Registering' \subseteq Registering
        PROVE  IdsSuffice'
    BY <2>1, LessDemand
  <2>2. ASSUME NEW r \in Requests, Receive(r) PROVE IdsSuffice'
    <3>1. /\ Unused' = Unused /\ UnusedUsers' = UnusedUsers
          /\ \/ MintingRequests' \subseteq MintingRequests
             \/ MintingRequests' \subseteq MintingRequests \cup {r} /\ IdLeft
          /\ \/ Registering' \subseteq Registering
             \/ Registering' \subseteq Registering \cup {r} /\ UserIdLeft
      BY <2>2, ReceiveDemands
    <3>2. Cardinality(MintingRequests') <= Cardinality(Unused)
      BY <3>1, LessDemand, MoreDemand DEF IdLeft, MintingRequests
    <3>3. Cardinality(Registering') <= Cardinality(UnusedUsers)
      BY <3>1, LessDemand, MoreDemand DEF UserIdLeft, Registering, UnusedUsers
    <3> QED
      BY <3>1, <3>2, <3>3
  <2>3. ASSUME NEW r \in Requests, RegisterCreate(r) PROVE IdsSuffice'
    <3>1. PICK u \in UnusedUsers :
             /\ Unused' = Unused /\ MintingRequests' \subseteq MintingRequests
             /\ r \in Registering /\ Registering' \subseteq Registering \ {r}
             /\ UnusedUsers' = UnusedUsers \ {u}
      BY <2>3, RegisterDemands
    <3>2. Cardinality(Registering') <= Cardinality(UnusedUsers \ {u})
      BY <3>1, DemandMet
    <3> QED
      BY <3>1, <3>2, LessDemand
  <2>4. ASSUME NEW r \in Requests, IssueCreate(r) PROVE IdsSuffice'
    <3>1. PICK t \in Unused :
             /\ UnusedUsers' = UnusedUsers /\ Registering' \subseteq Registering
             /\ r \in MintingRequests /\ MintingRequests' \subseteq MintingRequests \ {r}
             /\ Unused' = Unused \ {t}
      BY <2>4, IssueDemands
    <3>2. Cardinality(MintingRequests') <= Cardinality(Unused \ {t})
      BY <3>1, DemandMet
    <3> QED
      BY <3>1, <3>2, LessDemand
  <2>5. ASSUME NEW r \in Requests, Handle(r) PROVE IdsSuffice'
    BY <2>1, <2>3, <2>4, <2>5, HandleDemands
  <2> QED
    BY <2>1, <2>2, <2>5, OtherDemands DEF Next
<1> QED
  BY <1>1, <1>2, TypeInvariance, PTL DEF Spec

\* For finitely many ids, as in a run, the bounds stop no handler half way: the request that
\* is at its INSERT has an id left, or an error of the database to answer with.
THEOREM NeverStuckCorrect == ASSUME Finite PROVE Spec => []NeverStuck
<1>1. IdsSuffice => NeverStuck
  <2> SUFFICES ASSUME IdsSuffice, NEW r \in Requests
               PROVE  /\ At(r, "registerCreate") => UnusedUsers # {}
                      /\ At(r, "issueCreate") => Unused # {}
    BY DEF NeverStuck
  <2>1. At(r, "registerCreate") => r \in Registering
    BY DEF At, Registering
  <2>2. At(r, "issueCreate") => r \in MintingRequests
    BY DEF At, MintingRequests, Minting
  <2>3. /\ Registering # {} => Cardinality(Registering) # 0
        /\ MintingRequests # {} => Cardinality(MintingRequests) # 0
        /\ UnusedUsers = {} => Cardinality(UnusedUsers) = 0
        /\ Unused = {} => Cardinality(Unused) = 0
    BY FiniteParts, FS_EmptySet
  <2> QED
    BY <2>1, <2>2, <2>3, FiniteParts DEF IdsSuffice
<1> QED
  BY <1>1, SupplyInvariance, PTL
=============================================================================
