--------------------------- MODULE SessionFamilies ---------------------------
(***************************************************************************)
(* What the authentication backend promises about refresh tokens.          *)
(*                                                                         *)
(* A login opens a session.  A session is named by the refresh token the   *)
(* login returned, and every token the session later rotates to belongs to *)
(* the same session.  At any time a session has at most one token that can *)
(* still be exchanged, or one rotation in flight that will deliver the next *)
(* one, or it is over; and a session that is over stays over.              *)
(*                                                                         *)
(* AuthService implements this specification with database rows and        *)
(* requests that interleave; it holds no row or handler, only the promise. *)
(***************************************************************************)
CONSTANT TokenIds

VARIABLES
    issued,     \* the tokens handed out so far
    usable,     \* usable[f]: the tokens of session f that can be exchanged
    rotating    \* the sessions whose token is spent and not yet replaced

vars == <<issued, usable, rotating>>

Init ==
    /\ issued = {}
    /\ usable = [f \in TokenIds |-> {}]
    /\ rotating = {}

(* A login opens session t, with t as its only usable token. *)
Open(t) ==
    /\ t \notin issued
    /\ issued' = issued \cup {t}
    /\ usable' = [usable EXCEPT ![t] = {t}]
    /\ UNCHANGED rotating

(* A refresh takes the one usable token of session f out of circulation. *)
Spend(f, t) ==
    /\ usable[f] = {t}
    /\ f \notin rotating
    /\ usable' = [usable EXCEPT ![f] = {}]
    /\ rotating' = rotating \cup {f}
    /\ UNCHANGED issued

(* The rotation of session f completes with a token never handed out before. *)
Mint(f, t) ==
    /\ f \in rotating
    /\ t \notin issued
    /\ issued' = issued \cup {t}
    /\ usable' = [usable EXCEPT ![f] = {t}]
    /\ rotating' = rotating \ {f}

(* The rotation of session f fails after the spend: the session is over. *)
Abandon(f) ==
    /\ f \in rotating
    /\ rotating' = rotating \ {f}
    /\ UNCHANGED <<issued, usable>>

(* A logout ends one session, the deletion of a user all of that user's.    *)
(* A rotation already in flight is not stopped by either.                  *)
Close(F) ==
    /\ usable' = [f \in TokenIds |-> IF f \in F THEN {} ELSE usable[f]]
    /\ UNCHANGED <<issued, rotating>>

Next ==
    \/ \E t \in TokenIds : Open(t)
    \/ \E f, t \in TokenIds : Spend(f, t) \/ Mint(f, t)
    \/ \E f \in TokenIds : Abandon(f)
    \/ \E F \in SUBSET TokenIds : Close(F)

Spec == Init /\ [][Next]_vars
=============================================================================
