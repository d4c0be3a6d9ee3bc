---------------------------------- MODULE Bot ----------------------------------
(***************************************************************************)
(* The Telegram bot: apps/telegram-bot (bot.ts, context.ts, index.ts), one  *)
(* process at a time, with the two things that outlive it: the queue of     *)
(* updates at Telegram and the sessions in Redis.                           *)
(*                                                                         *)
(* grammY polls: it handles the updates of one answer one after the other,  *)
(* and the offset of the next request tells Telegram which updates it need  *)
(* not deliver again.  A signal stops the polling at once, closes Redis and *)
(* the telemetry, and does not wait for the handler that is running.        *)
(***************************************************************************)
EXTENDS Naturals, FiniteSets

CONSTANTS
    Chats,          \* chats that talk to the bot
    MaxUpdates,     \* bound: updates sent in a behaviour
    ChatOf,         \* ChatOf[u]: the chat update u is from
    TextOf,         \* TextOf[u]: the command it carries, or "text"
    MaxLaunches     \* bound: processes started; the last one is left alone

Updates == 1 .. MaxUpdates
Answered == {"/start", "/stats", "/help"}       \* commands with a handler
Texts == Answered \cup {"/unknown", "text"}

ASSUME BotAssumption ==
    /\ MaxUpdates \in Nat /\ MaxLaunches \in Nat
    /\ ChatOf \in [Updates -> Chats]
    /\ TextOf \in [Updates -> Texts]

VARIABLES
    sent,           \* updates 1 .. sent have reached Telegram
    confirmed,      \* updates 1 .. confirmed are not delivered again
    session,        \* session[c]: commandCount, in Redis
    backend,        \* the backend answers (with anything), or keeps silent
    launches,       \* processes started so far
    phase,          \* the polling loop of the process
    lastTried,      \* lastTriedUpdateId
    fetched,        \* the last update of the answer being handled
    step,           \* where the handler of update lastTried is
    count,          \* ctx.session.commandCount of that handler
    shutdown,       \* where shutdown() is
    offset,         \* what bot.stop() will confirm
    redis,          \* the process's connection is open
    tried, replied, excused,            \* history, for the properties only
    saved           \* history: <<process, update>>, for every session write that Redis has taken

telegram == <<sent, confirmed>>
loop == <<phase, lastTried, fetched>>
handler == <<step, count>>
stopping == <<shutdown, offset, redis>>
history == <<tried, replied, saved, excused>>
vars == <<telegram, session, backend, launches, loop, handler, stopping, history>>

Phases == {"exited", "setup", "polling", "handling", "ended"}
Steps == {"none", "read", "backend", "reply", "write", "written"}
ShutdownSteps == {"running", "stop", "quit", "otel", "complete", "failed"}

Init ==
    /\ sent = 0 /\ confirmed = 0
    /\ session = [c \in Chats |-> 0]
    /\ backend = "answers"
    /\ launches = 0
    /\ phase = "exited" /\ lastTried = 0 /\ fetched = 0
    /\ step = "none" /\ count = 0
    /\ shutdown = "running" /\ offset = 0 /\ redis = FALSE
    /\ tried = {} /\ replied = {} /\ excused = {} /\ saved = {}

Larger(a, b) == IF a > b THEN a ELSE b
IsCommand(u) == TextOf[u] # "text"
InHand(u) == step # "none" /\ u = lastTried

\* The answer to getUpdates starts after what was confirmed; its updates follow each other.
Passed == Larger(lastTried, confirmed)

-----------------------------------------------------------------------------
(* The world: users, the backend, and whatever ends a process.               *)

Send ==
    /\ sent < MaxUpdates
    /\ sent' = sent + 1
    /\ UNCHANGED <<confirmed, session, backend, launches, loop, handler, stopping, history>>

BackendTurns ==
    /\ backend' = IF backend = "answers" THEN "silent" ELSE "answers"
    /\ UNCHANGED <<telegram, session, launches, loop, handler, stopping, history>>

\* main() up to bot.start(), with an environment that names a bot token.
Launch ==
    /\ phase = "exited" /\ launches < MaxLaunches
    /\ launches' = launches + 1
    /\ phase' = "setup" /\ lastTried' = 0 /\ fetched' = 0
    /\ shutdown' = "running" /\ offset' = 0 /\ redis' = TRUE
    /\ UNCHANGED <<telegram, session, backend, handler, history>>

\* The process is gone, in the middle of a handler or not.
Gone ==
    /\ phase' = "exited" /\ redis' = FALSE
    /\ step' = "none" /\ count' = 0
    /\ excused' = IF step = "none" THEN excused ELSE excused \cup {lastTried}
    /\ UNCHANGED <<telegram, session, backend, launches, lastTried, fetched, shutdown, offset,
                   tried, replied, saved>>

\* Killed, out of memory, or a polling error that bot.start() rejects with.
Crash == phase # "exited" /\ launches < MaxLaunches /\ Gone

\* The container runtime's patience after a signal runs out.
GraceExpires == phase # "exited" /\ shutdown # "running" /\ Gone

-----------------------------------------------------------------------------
(* bot.start(): set-up, then the polling loop.                               *)

\* Mutant: bot.start({ drop_pending_updates: true }).
SetupDropsPending ==
    /\ phase = "setup" /\ shutdown = "running"
    /\ phase' = "polling"
    /\ confirmed' = sent
    /\ UNCHANGED <<sent, session, backend, launches, lastTried, fetched, handler, stopping,
                   history>>

Setup ==
    /\ phase = "setup" /\ shutdown = "running"
    /\ phase' = "polling"
    /\ UNCHANGED <<telegram, session, backend, launches, lastTried, fetched, handler, stopping,
                   history>>

\* stop() aborts the set-up, start() rejects, and main() calls process.exit(1).
SetupAborted == phase = "setup" /\ shutdown # "running" /\ Gone

\* getUpdates, whose offset confirms what was tried before.
Poll ==
    /\ phase = "polling" /\ shutdown = "running"
    /\ confirmed' = Larger(confirmed, lastTried)
    /\ fetched' = sent
    /\ phase' = IF sent > confirmed' THEN "handling" ELSE "polling"
    /\ UNCHANGED <<sent, session, backend, launches, lastTried, handler, stopping, history>>

\* The next update of the answer, whether the bot is stopping or not.
Handle ==
    /\ phase = "handling" /\ step = "none" /\ Passed < fetched
    /\ lastTried' = Passed + 1
    /\ tried' = tried \cup {lastTried'}
    /\ step' = "read"
    /\ UNCHANGED <<telegram, session, backend, launches, phase, fetched, count, stopping,
                   replied, saved, excused>>

BatchDone ==
    /\ phase = "handling" /\ step = "none" /\ Passed = fetched
    /\ phase' = IF shutdown = "running" THEN "polling" ELSE "ended"
    /\ UNCHANGED <<telegram, session, backend, launches, lastTried, fetched, handler, stopping,
                   history>>

-----------------------------------------------------------------------------
(* The middleware of createBot, for update lastTried.                        *)

\* Mutant: a session that cannot be read is taken for a new one.
ReadOrInitial ==
    /\ step = "read"
    /\ \E stored \in {0, session[ChatOf[lastTried]]} :
           count' = stored + (IF IsCommand(lastTried) THEN 1 ELSE 0)
    /\ step' = IF TextOf[lastTried] = "/stats" THEN "backend"
               ELSE IF TextOf[lastTried] \in Answered THEN "reply" ELSE "write"
    /\ UNCHANGED <<telegram, session, backend, launches, loop, stopping, history>>

\* session() reads the chat's session, the next middleware counts the command.
Read ==
    /\ step = "read" /\ redis
    /\ count' = session[ChatOf[lastTried]] + (IF IsCommand(lastTried) THEN 1 ELSE 0)
    /\ step' = IF TextOf[lastTried] = "/stats" THEN "backend"
               ELSE IF TextOf[lastTried] \in Answered THEN "reply" ELSE "write"
    /\ UNCHANGED <<telegram, session, backend, launches, loop, stopping, history>>

\* Mutant: a request without a deadline.
AskPatiently ==
    /\ step = "backend" /\ backend = "answers"
    /\ step' = "reply"
    /\ UNCHANGED <<telegram, session, backend, launches, loop, count, stopping, history>>

\* buildStatsReply never throws: a number, a refusal, an error of the network and, when the
\* backend keeps silent, the deadline of the request all end in a text to reply with.
AskBackend ==
    /\ step = "backend"
    /\ step' = "reply"
    /\ UNCHANGED <<telegram, session, backend, launches, loop, count, stopping, history>>

Reply ==
    /\ step = "reply"
    /\ replied' = replied \cup {lastTried}
    /\ step' = "write"
    /\ UNCHANGED <<telegram, session, backend, launches, loop, count, stopping, tried, saved,
                   excused>>

\* session() writes what the handlers left, when they have not thrown: Redis takes the SET.
Write ==
    /\ step = "write" /\ redis
    /\ session' = [session EXCEPT ![ChatOf[lastTried]] = count]
    /\ saved' = saved \cup {<<launches, lastTried>>}
    /\ step' = "written"
    /\ UNCHANGED <<telegram, backend, launches, loop, count, stopping, tried, replied, excused>>

\* Its answer arrives (quit() waits for it too), and the handler has run to its end.
HandlerEnds ==
    /\ step = "written"
    /\ step' = "none" /\ count' = 0
    /\ UNCHANGED <<telegram, session, backend, launches, loop, stopping, history>>

\* Redis does not answer or is closed, before or after it has taken the SET, or Telegram
\* refuses the reply: bot.catch logs the update, and the loop goes on with the next one.
HandlerFails ==
    /\ step \in {"read", "reply", "write", "written"}
    /\ excused' = excused \cup {lastTried}
    /\ step' = "none" /\ count' = 0
    /\ UNCHANGED <<telegram, session, backend, launches, loop, stopping, tried, replied, saved>>

-----------------------------------------------------------------------------
(* shutdown(): SIGINT or SIGTERM, the first of them.                         *)

\* Mutant: the update that is being handled is abandoned with the polling.
SignalAbandons ==
    /\ phase \in {"setup", "polling", "handling"} /\ shutdown = "running"
    /\ launches < MaxLaunches
    /\ shutdown' = "stop" /\ offset' = lastTried
    /\ phase' = IF phase = "setup" THEN phase ELSE "ended"
    /\ UNCHANGED <<telegram, session, backend, launches, lastTried, fetched, handler, redis,
                   history>>

\* Mutant: the offset of stop() is that of the whole answer.
SignalConfirmsAll ==
    /\ phase \in {"setup", "polling", "handling"} /\ shutdown = "running"
    /\ launches < MaxLaunches
    /\ shutdown' = "stop" /\ offset' = fetched
    /\ phase' = IF phase = "polling" THEN "ended" ELSE phase
    /\ UNCHANGED <<telegram, session, backend, launches, lastTried, fetched, handler, redis,
                   history>>

\* stop() ends the polling and computes the offset of its own request at once.
Signal ==
    /\ phase \in {"setup", "polling", "handling"} /\ shutdown = "running"
    /\ launches < MaxLaunches
    /\ shutdown' = "stop" /\ offset' = lastTried
    /\ phase' = IF phase = "polling" THEN "ended" ELSE phase
    /\ UNCHANGED <<telegram, session, backend, launches, lastTried, fetched, handler, redis,
                   history>>

Stop ==
    /\ phase # "exited" /\ shutdown = "stop"
    /\ confirmed' = Larger(confirmed, offset)
    /\ shutdown' = "quit"
    /\ UNCHANGED <<sent, session, backend, launches, loop, handler, offset, redis, history>>

Quit ==
    /\ phase # "exited" /\ shutdown = "quit"
    /\ redis' = FALSE
    /\ shutdown' = "otel"
    /\ UNCHANGED <<telegram, session, backend, launches, loop, handler, offset, history>>

\* Mutant: shutdown() ends with process.exit(0), as the backend's does.
StopOtelAndExit ==
    /\ phase # "exited" /\ shutdown = "otel"
    /\ phase' = "exited" /\ step' = "none" /\ count' = 0
    /\ shutdown' = "complete"
    /\ UNCHANGED <<telegram, session, backend, launches, lastTried, fetched, offset, redis,
                   history>>

StopOtel ==
    /\ phase # "exited" /\ shutdown = "otel"
    /\ shutdown' = "complete"
    /\ UNCHANGED <<telegram, session, backend, launches, loop, handler, offset, redis, history>>

\* One of the three throws: the others are skipped, and the process may be left with an
\* open connection that keeps it alive.
ShutdownFails ==
    /\ phase # "exited" /\ shutdown \in {"stop", "quit", "otel"}
    /\ shutdown' = "failed"
    /\ UNCHANGED <<telegram, session, backend, launches, loop, handler, offset, redis, history>>

\* Nothing is left in the event loop: no handler, no connection.
Drained ==
    /\ phase = "ended" /\ shutdown \in {"complete", "failed"} /\ ~redis
    /\ Gone

-----------------------------------------------------------------------------
Loop == Setup \/ SetupAborted \/ Poll \/ Handle \/ BatchDone
Handler == Read \/ AskBackend \/ Reply \/ Write \/ HandlerEnds \/ HandlerFails
Shutdown == Stop \/ Quit \/ StopOtel \/ ShutdownFails \/ Drained \/ GraceExpires

Next ==
    \/ Send \/ BackendTurns \/ Launch \/ Crash \/ Signal
    \/ Loop \/ Handler \/ Shutdown

Spec == Init /\ [][Next]_vars

\* The process runs, the container runtime restarts and, after a signal, ends it.  Nothing
\* is assumed of users, of the backend, or that a request to Telegram or Redis succeeds.
FairSpec ==
    /\ Spec
    /\ WF_vars(Launch) /\ WF_vars(Loop) /\ WF_vars(Handler) /\ WF_vars(Shutdown)

(***************************************************************************)
(* Properties.                                                             *)
(***************************************************************************)

\* The queue, the sessions and the process keep their types; a process that handles
\* something is alive, and nothing is confirmed that was not sent.
TypeOK ==
    /\ sent \in 0 .. MaxUpdates /\ confirmed \in 0 .. sent
    /\ session \in [Chats -> Nat]
    /\ backend \in {"answers", "silent"}
    /\ launches \in 0 .. MaxLaunches
    /\ phase \in Phases /\ lastTried \in 0 .. sent /\ fetched \in 0 .. sent
    /\ step \in Steps /\ count \in Nat
    /\ shutdown \in ShutdownSteps /\ offset \in 0 .. sent /\ redis \in BOOLEAN
    /\ tried \subseteq Updates /\ replied \subseteq Updates /\ excused \subseteq Updates
    /\ saved \subseteq (0 .. MaxLaunches) \X Updates
    /\ step # "none" => phase = "handling" /\ lastTried > 0

\* No command is lost in silence: once Telegram will not deliver it again, it has been
\* answered and counted, or its failure was logged, or its process was killed over it,
\* however signals, kills and redeliveries fall between the steps of its handler.
CommandsAccountedFor ==
    \A u \in 1 .. confirmed :
        IsCommand(u) /\ ~InHand(u) =>
            \/ u \in excused
            \/ (\E run \in saved : run[2] = u) /\ (TextOf[u] \in Answered => u \in replied)

\* The handlers of commands of chat c whose session reached Redis, each with its process.
SavedCommands(c) == {run \in saved : ChatOf[run[2]] = c /\ IsCommand(run[2])}

\* A chat's counter is the number of its commands' handlers whose write reached Redis,
\* whether the bot heard of it or not: none is forgotten or counted twice by processes that
\* fail over a write that was done, die, restart and read the counter back, and none counts
\* an update again that its own process has counted.
CounterIsRuns == \A c \in Chats : session[c] = Cardinality(SavedCommands(c))

\* The promise's view: an update is settled when Redis has its session, or its handler has
\* failed or was cut off.
Hand == IF step \in {"none", "written"} THEN 0 ELSE lastTried
Settled == excused \cup {run[2] : run \in saved}
Commands == {u \in Updates : IsCommand(u)}
Answerable == {u \in Updates : TextOf[u] \in Answered}
Delivery == INSTANCE UpdateDelivery WITH hand <- Hand, settled <- Settled

\* Processes that are killed, signalled and restarted between any two steps deliver as
\* UpdateDelivery says: in order, at least once, one at a time, nothing forgotten before it
\* is settled but the one in hand, and no command counted but by a handler that answered it.
KeepsDelivery == Delivery!Spec

\* Updates are tried in the order they were sent, none before its predecessors, over all
\* processes.
TriedInOrder ==
    \A u \in tried : 1 .. u \subseteq tried

\* Every update is tried in the end: neither a silent backend, nor a failing Redis, nor a
\* shutdown that fails keeps the ones behind it waiting for ever.
EveryUpdateTried ==
    \A u \in Updates : sent >= u ~> u \in tried
=============================================================================
