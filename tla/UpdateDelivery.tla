---------------------------- MODULE UpdateDelivery ----------------------------
(***************************************************************************)
(* What the bot promises about the updates of its chats: they are taken in  *)
(* the order they were sent, one at a time and each at least once, and      *)
(* every one that is taken is settled, once or more: a command is answered  *)
(* and then counted, or its handler fails, on the record, and counts        *)
(* nothing.  Telegram is told to forget only what is settled, and at most   *)
(* the one in hand.                                                         *)
(*                                                                         *)
(* Bot implements this specification with processes that come and go.       *)
(***************************************************************************)
EXTENDS Naturals

CONSTANTS
    Chats,
    Updates,        \* updates, in the order they are sent: 1 .. n
    ChatOf,         \* the chat of an update
    Commands,       \* the updates that are counted
    Answerable      \* those whose handler replies

VARIABLES
    sent,           \* updates 1 .. sent have been sent
    confirmed,      \* updates 1 .. confirmed are forgotten
    hand,           \* the update in hand, or 0
    settled,        \* updates that were counted, or whose handling failed
    replied,        \* updates that were answered
    session         \* session[c]: the commands counted for chat c

vars == <<sent, confirmed, hand, settled, replied, session>>

Init ==
    /\ sent = 0 /\ confirmed = 0 /\ hand = 0
    /\ settled = {} /\ replied = {}
    /\ session = [c \in Chats |-> 0]

(* A user writes. *)
Send ==
    /\ sent + 1 \in Updates
    /\ sent' = sent + 1
    /\ UNCHANGED <<confirmed, hand, settled, replied, session>>

(* An update is taken, for the first time or again: all before it are settled. *)
Take(u) ==
    /\ hand = 0 /\ u \in confirmed + 1 .. sent
    /\ 1 .. u - 1 \subseteq settled
    /\ hand' = u
    /\ UNCHANGED <<sent, confirmed, settled, replied, session>>

Answer ==
    /\ hand \in Answerable
    /\ replied' = replied \cup {hand}
    /\ UNCHANGED <<sent, confirmed, hand, settled, session>>

(* Nothing is left to do; a command has been answered, if it can be, and counts once. *)
Finish ==
    /\ hand # 0 /\ (hand \in Answerable => hand \in replied)
    /\ settled' = settled \cup {hand}
    /\ session' = IF hand \in Commands THEN [session EXCEPT ![ChatOf[hand]] = @ + 1] ELSE session
    /\ hand' = 0
    /\ UNCHANGED <<sent, confirmed, replied>>

(* The handler fails, or its process dies, before that: nothing is counted. *)
Drop ==
    /\ hand # 0
    /\ settled' = settled \cup {hand}
    /\ hand' = 0
    /\ UNCHANGED <<sent, confirmed, replied, session>>

(* Telegram forgets updates that are settled or in hand. *)
Confirm(n) ==
    /\ n \in confirmed .. sent
    /\ 1 .. n \subseteq settled \cup {hand}
    /\ confirmed' = n
    /\ UNCHANGED <<sent, hand, settled, replied, session>>

Next ==
    \/ Send
    \/ \E u \in Updates : Take(u) \/ Confirm(u)
    \/ Answer \/ Finish \/ Drop

Spec == Init /\ [][Next]_vars
=============================================================================
