------------------------------ MODULE BotProofs ------------------------------
(***************************************************************************)
(* Type correctness of Bot, the order in which updates are tried, and that  *)
(* no command is lost in silence, for any number of chats, updates and      *)
(* processes.                                                               *)
(***************************************************************************)
EXTENDS Bot, FiniteSetTheorems, TLAPS

\* Every process keeps the types, whatever ends it and wherever it is.
THEOREM BotTypeCorrect == Spec => []TypeOK
<1>1. Init => TypeOK
    <2> SUFFICES ASSUME Init PROVE TypeOK
        OBVIOUS
    <2>1. session \in [Chats -> Nat] /\ saved \subseteq (0 .. MaxLaunches) \X Updates
        BY DEF Init
    <2>2. redis \in BOOLEAN
        BY DEF Init
    <2>3. /\ sent \in 0 .. MaxUpdates /\ confirmed \in 0 .. sent /\ launches \in 0 .. MaxLaunches
          /\ lastTried \in 0 .. sent /\ fetched \in 0 .. sent /\ offset \in 0 .. sent
          /\ count \in Nat
        BY BotAssumption DEF Init
    <2>4. /\ tried \subseteq Updates /\ replied \subseteq Updates /\ excused \subseteq Updates
          /\ step = "none"
        BY DEF Init
    <2>5. /\ backend \in {"answers", "silent"} /\ phase \in Phases /\ step \in Steps
          /\ shutdown \in ShutdownSteps
        BY DEF Init, Phases, Steps, ShutdownSteps
    <2> QED
        BY <2>1, <2>2, <2>3, <2>4, <2>5 DEF TypeOK
<1>2. TypeOK /\ [Next]_vars => TypeOK'
    <2> SUFFICES ASSUME TypeOK, [Next]_vars
                 PROVE  TypeOK'
        OBVIOUS
    <2> USE DEF TypeOK, Phases, Steps, ShutdownSteps
    <2>1. CASE Send \/ BackendTurns
        BY <2>1, BotAssumption DEF Send, BackendTurns, loop, handler, stopping, history, telegram
    <2>2. CASE Launch
        BY <2>2, BotAssumption DEF Launch, handler, history, telegram
    <2>3. ASSUME Gone PROVE TypeOK'
        <3>1. step # "none" => lastTried \in Updates
            BY BotAssumption DEF Updates
        <3> QED
            BY <2>3, <3>1 DEF Gone, telegram
    <2>4. CASE Crash \/ GraceExpires \/ SetupAborted \/ Drained
        BY <2>3, <2>4 DEF Crash, GraceExpires, SetupAborted, Drained
    <2>5. CASE Setup \/ BatchDone
        BY <2>5 DEF Setup, BatchDone, handler, stopping, history, telegram
    <2>6. CASE Poll
        BY <2>6 DEF Poll, Larger, handler, stopping, history
    <2>7. CASE Handle
        <3>1. lastTried' \in 1 .. sent
            BY <2>7 DEF Handle, Passed, Larger
        <3>2. lastTried' \in Updates
            BY <3>1, BotAssumption DEF Updates
        <3>3. tried' \subseteq Updates
            BY <2>7, <3>2 DEF Handle
        <3>4. sent' = sent /\ lastTried' \in 0 .. sent'
            BY <2>7, <3>1 DEF Handle, telegram
        <3> QED
            BY <2>7, <3>1, <3>3, <3>4 DEF Handle, stopping, telegram
    <2>8. CASE Handler
        <3>1. lastTried \in Updates
            BY <2>8, BotAssumption DEF Handler, Read, AskBackend, Reply, Write, HandlerEnds,
                                       HandlerFails, Updates
        <3>2. ChatOf[lastTried] \in Chats
            BY <3>1, BotAssumption
        <3>3. CASE Read
            <4>1. session[ChatOf[lastTried]] \in Nat
                BY <3>2
            <4>2. count' \in Nat
                BY <3>3, <4>1 DEF Read
            <4> QED
                BY <3>3, <4>2 DEF Read, loop, stopping, history, telegram
        <3>4. CASE AskBackend
            BY <3>4 DEF AskBackend, loop, stopping, history, telegram
        <3>5. CASE Reply
            BY <3>1, <3>5 DEF Reply, loop, stopping, telegram
        <3>6. CASE Write
            <4>1. session' \in [Chats -> Nat]
                BY <3>6 DEF Write
            <4>2. saved' \subseteq (0 .. MaxLaunches) \X Updates
                BY <3>1, <3>6 DEF Write
            <4> QED
                BY <3>6, <4>1, <4>2 DEF Write, loop, stopping, telegram
        <3>7. CASE HandlerFails
            BY <3>1, <3>7 DEF HandlerFails, loop, stopping, telegram
        <3>8. CASE HandlerEnds
            BY <3>8 DEF HandlerEnds, loop, stopping, history, telegram
        <3> QED
            BY <2>8, <3>3, <3>4, <3>5, <3>6, <3>7, <3>8 DEF Handler
    <2>9. CASE Signal
        BY <2>9 DEF Signal, handler, history, telegram
    <2>10. CASE Stop
        BY <2>10 DEF Stop, Larger, loop, handler, history
    <2>11. CASE Quit \/ StopOtel \/ ShutdownFails
        BY <2>11 DEF Quit, StopOtel, ShutdownFails, loop, handler, history, telegram
    <2>12. CASE UNCHANGED vars
        BY <2>12 DEF vars, loop, handler, stopping, history, telegram
    <2> QED
        BY <2>1, <2>2, <2>4, <2>5, <2>6, <2>7, <2>8, <2>9, <2>10, <2>11, <2>12
        DEF Next, Loop, Shutdown
<1> QED
    BY <1>1, <1>2, PTL DEF Spec

-----------------------------------------------------------------------------
\* Whatever names an update, Telegram's queue, the process or its shutdown, names one whose
\* predecessors have been tried.
NothingSkipped ==
    /\ TriedInOrder
    /\ 1 .. confirmed \subseteq tried
    /\ 1 .. lastTried \subseteq tried
    /\ 1 .. offset \subseteq tried

\* Updates are tried in the order they were sent, by however many processes.
THEOREM OrderCorrect == Spec => []TriedInOrder
<1>1. Init => NothingSkipped
    BY DEF Init, NothingSkipped, TriedInOrder
<1>2. TypeOK /\ NothingSkipped /\ [Next]_vars => NothingSkipped'
    <2> SUFFICES ASSUME TypeOK, NothingSkipped, [Next]_vars
                 PROVE  NothingSkipped'
        OBVIOUS
    <2> USE DEF TypeOK, NothingSkipped, TriedInOrder
    <2>1. CASE Handle
        <3>1. 1 .. Passed \subseteq tried
            BY DEF Passed, Larger
        <3>2. Passed \in Nat
            BY DEF Passed, Larger
        <3>3. 1 .. Passed + 1 \subseteq tried \cup {Passed + 1}
            BY <3>1, <3>2
        <3> QED
            BY <2>1, <3>2, <3>3 DEF Handle, stopping, telegram
    <2>2. CASE Poll
        BY <2>2 DEF Poll, Larger, handler, stopping, history
    <2>3. CASE Stop
        BY <2>3 DEF Stop, Larger, loop, handler, history
    <2>4. CASE Signal
        BY <2>4 DEF Signal, handler, history, telegram
    <2>5. CASE Launch
        BY <2>5 DEF Launch, handler, history, telegram
    <2>6. CASE \/ Send \/ BackendTurns \/ Setup \/ BatchDone
               \/ Quit \/ StopOtel \/ ShutdownFails \/ UNCHANGED vars
        BY <2>6 DEF Send, BackendTurns, Setup, BatchDone, Quit, StopOtel, ShutdownFails, vars,
                    loop, handler, stopping, history, telegram
    <2>7. CASE Crash \/ GraceExpires \/ SetupAborted \/ Drained
        BY <2>7 DEF Crash, GraceExpires, SetupAborted, Drained, Gone, telegram
    <2>8. CASE Handler
        BY <2>8 DEF Handler, Read, AskBackend, Reply, Write, HandlerEnds, HandlerFails, loop,
                    stopping, history, telegram
    <2> QED
        BY <2>1, <2>2, <2>3, <2>4, <2>5, <2>6, <2>7, <2>8 DEF Next, Loop, Shutdown
<1>3. NothingSkipped => TriedInOrder
    BY DEF NothingSkipped
<1> QED
    BY <1>1, <1>2, <1>3, BotTypeCorrect, PTL DEF Spec

-----------------------------------------------------------------------------
\* What became of an update of which nobody will hear again.
AccountedFor(u) ==
    \/ u \in excused
    \/ (\E run \in saved : run[2] = u) /\ (TextOf[u] \in Answered => u \in replied)

\* Everything that is confirmed, or may be, is settled or in hand; and a handler that
\* will reply can, one that is about to write has replied, and one that has written is done.
NothingForgotten ==
    /\ \A u \in Updates :
           /\ u <= confirmed \/ u <= lastTried \/ u <= offset
           /\ IsCommand(u) /\ ~InHand(u)
           => AccountedFor(u)
    /\ step \in {"backend", "reply"} => TextOf[lastTried] \in Answered
    /\ step = "write" /\ TextOf[lastTried] \in Answered => lastTried \in replied
    /\ step = "written" => AccountedFor(lastTried)

LEMMA AccountInvariance == Spec => []NothingForgotten
<1>1. Init => NothingForgotten
    BY DEF Init, NothingForgotten, Updates
<1>2. TypeOK /\ NothingForgotten /\ [Next]_vars => NothingForgotten'
    <2> SUFFICES ASSUME TypeOK, NothingForgotten, [Next]_vars
                 PROVE  NothingForgotten'
        OBVIOUS
    <2> USE DEF TypeOK, NothingForgotten, IsCommand, InHand, AccountedFor
    <2>1. CASE Handle
        BY <2>1 DEF Handle, Passed, Larger, stopping, telegram, Updates
    <2>2. CASE Poll
        BY <2>2 DEF Poll, Larger, handler, stopping, history, Updates
    <2>3. CASE Stop
        BY <2>3 DEF Stop, Larger, loop, handler, history, Updates
    <2>4. CASE Signal
        BY <2>4 DEF Signal, handler, history, telegram, Updates
    <2>5. CASE Launch
        BY <2>5 DEF Launch, handler, history, telegram, Updates
    <2>6. CASE \/ Send \/ BackendTurns \/ Setup \/ BatchDone
               \/ Quit \/ StopOtel \/ ShutdownFails \/ UNCHANGED vars
        BY <2>6 DEF Send, BackendTurns, Setup, BatchDone, Quit, StopOtel, ShutdownFails, vars,
                    loop, handler, stopping, history, telegram
    <2>7. CASE Crash \/ GraceExpires \/ SetupAborted \/ Drained
        BY <2>7 DEF Crash, GraceExpires, SetupAborted, Drained, Gone, telegram
    <2>8. CASE Read \/ AskBackend
        BY <2>8 DEF Read, AskBackend, loop, stopping, history, telegram, Answered
    <2>9. CASE Reply
        BY <2>9 DEF Reply, loop, stopping, telegram
    <2>10. CASE Write
        <3>1. <<launches, lastTried>> \in saved' /\ saved \subseteq saved'
            BY <2>10 DEF Write
        <3>2. \E run \in saved' : run[2] = lastTried
            BY <3>1
        <3>3. \A u \in Updates : (\E run \in saved : run[2] = u) => \E run \in saved' : run[2] = u
            BY <3>1
        <3>4. AccountedFor(lastTried)'
            BY <2>10, <3>2 DEF Write, loop
        <3>5. \A u \in Updates : AccountedFor(u) => AccountedFor(u)'
            BY <2>10, <3>3 DEF Write
        <3> QED
            BY <2>10, <3>4, <3>5 DEF Write, loop, stopping, telegram
    <2>11. CASE HandlerFails
        BY <2>11 DEF HandlerFails, loop, stopping, telegram
    <2>12. CASE HandlerEnds
        BY <2>12 DEF HandlerEnds, loop, stopping, history, telegram
    <2> QED
        BY <2>1, <2>2, <2>3, <2>4, <2>5, <2>6, <2>7, <2>8, <2>9, <2>10, <2>11,
           <2>12
        DEF Next, Loop, Handler, Shutdown
<1> QED
    BY <1>1, <1>2, BotTypeCorrect, PTL DEF Spec

\* No command is lost in silence, by however many processes.
THEOREM AccountCorrect == Spec => []CommandsAccountedFor
<1>1. TypeOK /\ NothingForgotten => CommandsAccountedFor
    BY BotAssumption DEF TypeOK, NothingForgotten, CommandsAccountedFor, AccountedFor, Updates
<1> QED
    BY <1>1, AccountInvariance, BotTypeCorrect, PTL

-----------------------------------------------------------------------------
\* The runs that are saved are finite in number, and one more makes one more.
LEMMA RunsFinite ==
    ASSUME TypeOK, NEW c
    PROVE  IsFiniteSet(SavedCommands(c))
<1>1. IsFiniteSet(0 .. MaxLaunches) /\ IsFiniteSet(Updates)
    BY FS_Interval, BotAssumption DEF Updates
<1>2. IsFiniteSet((0 .. MaxLaunches) \X Updates)
    BY <1>1, FS_Product
<1>3. SavedCommands(c) \subseteq (0 .. MaxLaunches) \X Updates
    BY DEF TypeOK, SavedCommands
<1> QED
    BY <1>2, <1>3, FS_Subset

\* A handler past its session read holds what it will write: the stored count, plus one for
\* a command.  No other handler writes the session in between, and the process saves this
\* update for the first time: what it has saved comes before the update it is at.
RunsCounted ==
    /\ CounterIsRuns
    /\ step \in {"backend", "reply", "write"} =>
           count = session[ChatOf[lastTried]] + (IF IsCommand(lastTried) THEN 1 ELSE 0)
    /\ \A run \in saved :
           /\ run[1] <= launches
           /\ run[1] = launches =>
                /\ run[2] <= lastTried
                /\ step \in {"read", "backend", "reply", "write"} => run[2] # lastTried

LEMMA RunsInvariance == Spec => []RunsCounted
<1>1. Init => RunsCounted
    BY FS_EmptySet DEF Init, RunsCounted, CounterIsRuns, SavedCommands
<1>2. TypeOK /\ TypeOK' /\ RunsCounted /\ [Next]_vars => RunsCounted'
    <2> SUFFICES ASSUME TypeOK, TypeOK', RunsCounted, [Next]_vars
                 PROVE  RunsCounted'
        OBVIOUS
    <2> USE DEF RunsCounted
    <2>1. ASSUME UNCHANGED <<session, saved>>
          PROVE  CounterIsRuns'
        BY <2>1 DEF CounterIsRuns, SavedCommands
    <2>2. CASE Handle
        <3>1. lastTried' \in Nat /\ lastTried < lastTried'
            BY <2>2 DEF Handle, Passed, Larger, TypeOK
        <3>2. \A run \in saved : run[2] \in Nat
            BY DEF TypeOK, Updates
        <3>3. \A run \in saved : run[1] = launches => run[2] < lastTried'
            BY <3>1, <3>2 DEF TypeOK
        <3>4. saved' = saved /\ session' = session /\ launches' = launches /\ step' = "read"
            BY <2>2 DEF Handle
        <3> QED
            BY <2>1, <3>1, <3>2, <3>3, <3>4
    <2>3. CASE Launch
        BY <2>1, <2>3 DEF Launch, handler, history, telegram, TypeOK
    <2>4. CASE \/ Send \/ BackendTurns \/ Setup \/ BatchDone \/ Poll \/ Signal \/ Stop
               \/ Quit \/ StopOtel \/ ShutdownFails \/ UNCHANGED vars
        BY <2>1, <2>4 DEF Send, BackendTurns, Setup, BatchDone, Poll, Signal, Stop, Quit, StopOtel,
                    ShutdownFails, vars, loop, handler, stopping, history, telegram
    <2>5. CASE Crash \/ GraceExpires \/ SetupAborted \/ Drained
        BY <2>1, <2>5 DEF Crash, GraceExpires, SetupAborted, Drained, Gone, telegram
    <2>6. CASE AskBackend \/ Reply \/ HandlerEnds \/ HandlerFails
        BY <2>1, <2>6 DEF AskBackend, Reply, HandlerEnds, HandlerFails, loop, stopping, history, telegram
    <2>7. CASE Read
        BY <2>1, <2>7 DEF Read, loop, stopping, history, telegram
    <2>8. CASE Write
        <3> DEFINE chat == ChatOf[lastTried]
                   run == <<launches, lastTried>>
        <3>1. lastTried \in Updates
            BY <2>8, BotAssumption DEF Write, TypeOK, Updates
        <3>2. chat \in Chats /\ session[chat] \in Nat
            BY <3>1, BotAssumption DEF TypeOK
        <3>3. run \notin saved
            BY <2>8 DEF Write
        <3>4. session' = [session EXCEPT ![chat] = count] /\ saved' = saved \cup {run}
            BY <2>8 DEF Write
        <3>5. CounterIsRuns'
            <4> SUFFICES ASSUME NEW c \in Chats
                         PROVE  session'[c] = Cardinality(SavedCommands(c)')
                BY DEF CounterIsRuns
            <4>1. session[c] = Cardinality(SavedCommands(c))
                BY DEF CounterIsRuns
            <4>2. CASE c = chat /\ IsCommand(lastTried)
                <5>1. SavedCommands(c)' = SavedCommands(c) \cup {run}
                    BY <3>4, <4>2 DEF SavedCommands
                <5>2. run \notin SavedCommands(c)
                    BY <3>3 DEF SavedCommands
                <5>3. Cardinality(SavedCommands(c)') = Cardinality(SavedCommands(c)) + 1
                    BY <5>1, <5>2, RunsFinite, FS_AddElement
                <5>4. session'[c] = session[c] + 1
                    BY <2>8, <3>2, <3>4, <4>2 DEF Write, TypeOK
                <5> QED
                    BY <4>1, <5>3, <5>4
            <4>3. CASE ~(c = chat /\ IsCommand(lastTried))
                <5>1. SavedCommands(c)' = SavedCommands(c)
                    BY <3>4, <4>3 DEF SavedCommands
                <5>2. session'[c] = session[c]
                    BY <2>8, <3>2, <3>4, <4>3 DEF Write, TypeOK
                <5> QED
                    BY <4>1, <5>1, <5>2
            <4> QED
                BY <4>2, <4>3
        <3>6. \A other \in saved' :
                  /\ other[1] <= launches'
                  /\ other[1] = launches' => other[2] <= lastTried'
            BY <2>8, <3>4 DEF Write, loop, TypeOK
        <3> QED
            BY <2>8, <3>5, <3>6 DEF Write
    <2> QED
        BY <2>2, <2>3, <2>4, <2>5, <2>6, <2>7, <2>8 DEF Next, Loop, Handler, Shutdown
<1> QED
    BY <1>1, <1>2, BotTypeCorrect, PTL DEF Spec

\* A chat's counter is the number of its commands' writes that reached Redis, over any number
\* of chats, updates and processes, however these end and whether or not they hear of it.
THEOREM CounterCorrect == Spec => []CounterIsRuns
<1>1. RunsCounted => CounterIsRuns
    BY DEF RunsCounted
<1> QED
    BY <1>1, RunsInvariance, PTL

-----------------------------------------------------------------------------
(* The bot implements the promise of UpdateDelivery.                        *)

\* Whatever names an update names one that is in hand or settled, like those before it.
SettledInOrder ==
    /\ 1 .. confirmed \subseteq Settled \cup {Hand}
    /\ 1 .. lastTried \subseteq Settled \cup {Hand}
    /\ 1 .. offset \subseteq Settled \cup {Hand}

LEMMA SettledInvariance == Spec => []SettledInOrder
<1>1. Init => SettledInOrder
    BY DEF Init, SettledInOrder
<1>2. TypeOK /\ SettledInOrder /\ [Next]_vars => SettledInOrder'
    <2> SUFFICES ASSUME TypeOK, SettledInOrder, [Next]_vars
                 PROVE  SettledInOrder'
        OBVIOUS
    <2> USE DEF SettledInOrder, Settled, Hand
    <2>1. CASE Handle
        <3>1. 1 .. Passed \subseteq Settled
            BY <2>1 DEF Handle, Passed, Larger, TypeOK
        <3>2. Passed \in Nat
            BY DEF Passed, Larger, TypeOK
        <3>3. 1 .. Passed + 1 \subseteq Settled \cup {Passed + 1}
            BY <3>1, <3>2
        <3>4. Hand' = Passed + 1 /\ lastTried' = Passed + 1 /\ Settled' = Settled
              /\ confirmed' = confirmed /\ offset' = offset
            BY <2>1 DEF Handle, stopping, telegram
        <3>5. Hand = 0
            BY <2>1 DEF Handle
        <3>6. 1 .. confirmed \subseteq Settled /\ 1 .. offset \subseteq Settled
            BY <3>5 DEF TypeOK
        <3> QED
            BY <3>3, <3>4, <3>6
    <2>2. CASE Poll
        BY <2>2 DEF Poll, Larger, handler, stopping, history, TypeOK
    <2>3. CASE Stop
        BY <2>3 DEF Stop, Larger, loop, handler, history, TypeOK
    <2>4. CASE Signal
        BY <2>4 DEF Signal, handler, history, telegram, TypeOK
    <2>5. CASE Launch
        BY <2>5 DEF Launch, handler, history, telegram, TypeOK
    <2>6. CASE \/ Send \/ BackendTurns \/ Setup \/ BatchDone
               \/ Quit \/ StopOtel \/ ShutdownFails \/ UNCHANGED vars
        BY <2>6 DEF Send, BackendTurns, Setup, BatchDone, Quit, StopOtel, ShutdownFails, vars,
                    loop, handler, stopping, history, telegram
    <2>7. CASE Crash \/ GraceExpires \/ SetupAborted \/ Drained
        BY <2>7 DEF Crash, GraceExpires, SetupAborted, Drained, Gone, telegram, TypeOK
    <2>8. CASE Handler
        <3>1. UNCHANGED <<confirmed, lastTried, offset>>
            BY <2>8 DEF Handler, Read, AskBackend, Reply, Write, HandlerEnds, HandlerFails, loop,
                        stopping, telegram
        <3>2. CASE Read \/ AskBackend \/ Reply
            <4>1. Hand' = Hand /\ Settled' = Settled
                BY <3>1, <3>2 DEF Read, AskBackend, Reply, history
            <4> QED
                BY <3>1, <4>1
        <3>3. CASE Write \/ HandlerFails \/ HandlerEnds
            <4>1. Hand \in {0, lastTried} /\ Hand' = 0
                BY <3>3 DEF Write, HandlerEnds, HandlerFails
            <4>2. Settled \subseteq Settled' /\ (Hand # 0 => Hand \in Settled')
                <5>1. CASE HandlerEnds
                    BY <5>1 DEF HandlerEnds, history
                <5>2. CASE HandlerFails
                    BY <4>1, <5>2 DEF HandlerFails
                <5>3. CASE Write
                    <6>1. PICK run : run = <<launches, lastTried>>
                        OBVIOUS
                    <6>2. run \in saved' /\ run[2] = lastTried /\ saved \subseteq saved'
                          /\ excused' = excused
                        BY <5>3, <6>1 DEF Write
                    <6> QED
                        BY <4>1, <6>2
                <5> QED
                    BY <3>3, <5>1, <5>2, <5>3
            <4>3. \A n \in Nat : 1 .. n \subseteq Settled \cup {Hand} => 1 .. n \subseteq Settled'
                BY <4>2
            <4> QED
                BY <3>1, <4>3 DEF TypeOK
        <3> QED
            BY <2>8, <3>2, <3>3 DEF Handler
    <2> QED
        BY <2>1, <2>2, <2>3, <2>4, <2>5, <2>6, <2>7, <2>8 DEF Next, Loop, Shutdown
<1> QED
    BY <1>1, <1>2, BotTypeCorrect, PTL DEF Spec

\* A handler that has written, or fails, adds its update to the settled ones.
LEMMA WriteSettles ==
    ASSUME Write
    PROVE  Settled' = Settled \cup {lastTried}
<1>1. saved' = saved \cup {<<launches, lastTried>>} /\ excused' = excused
    BY DEF Write
<1>2. PICK run : run = <<launches, lastTried>>
    OBVIOUS
<1>3. saved' = saved \cup {run} /\ run[2] = lastTried
    BY <1>1, <1>2
<1> QED
    BY <1>1, <1>3 DEF Settled

LEMMA DropSettles ==
    ASSUME excused' = excused \cup {lastTried}, saved' = saved
    PROVE  Settled' = Settled \cup {lastTried}
BY DEF Settled

LEMMA InitDelivers == Init => Delivery!Init
BY DEF Init, Delivery!Init, Hand, Settled

\* The loop takes an update, the first request after it confirms it, and every way a handler
\* may end is an end of the promise; the rest is invisible.
LEMMA StepDelivers ==
    /\ TypeOK /\ RunsCounted /\ NothingForgotten /\ SettledInOrder /\ [Next]_vars
    => [Delivery!Next]_Delivery!vars
<1> SUFFICES ASSUME TypeOK, RunsCounted, NothingForgotten, SettledInOrder, [Next]_vars
             PROVE  [Delivery!Next]_Delivery!vars
    OBVIOUS
<1>a. step # "none" => /\ lastTried \in Updates /\ lastTried # 0
                       /\ step # "written" => Hand = lastTried
    BY BotAssumption DEF TypeOK, Hand, Updates
<1>1. CASE Send
    <2>1. sent + 1 \in Updates
        BY <1>1, BotAssumption DEF Send, TypeOK, Updates
    <2>2. Delivery!Send
        BY <1>1, <2>1 DEF Send, Delivery!Send, Hand, Settled, loop, handler, history
    <2> QED
        BY <2>2 DEF Delivery!Next
<1>2. CASE Handle
    <2>1. Hand = 0 /\ Passed \in Nat
        BY <1>2 DEF Handle, Hand, Passed, Larger, TypeOK
    <2>2. 1 .. Passed \subseteq Settled
        BY <2>1 DEF SettledInOrder, Passed, Larger, TypeOK
    <2>3. PICK u : u = Passed + 1
        OBVIOUS
    <2>4. u \in confirmed + 1 .. sent
        BY <1>2, <2>1, <2>3 DEF Handle, Passed, Larger, TypeOK
    <2>5. 1 .. u - 1 \subseteq Settled /\ u \in Updates
        BY <2>1, <2>2, <2>3, <2>4, BotAssumption DEF TypeOK, Updates
    <2>6. Hand' = u /\ Settled' = Settled /\ UNCHANGED <<sent, confirmed, replied, session>>
        BY <1>2, <2>3 DEF Handle, Hand, Settled, telegram
    <2>7. Delivery!Take(u)
        BY <2>1, <2>4, <2>5, <2>6 DEF Delivery!Take
    <2> QED
        BY <2>5, <2>7 DEF Delivery!Next
<1>3. CASE Poll \/ Stop
    <2>1. confirmed' \in {confirmed, lastTried, offset} /\ confirmed' >= confirmed
        BY <1>3 DEF Poll, Stop, Larger, TypeOK
    <2>2. /\ UNCHANGED <<sent, replied, session>>
          /\ Hand' = Hand /\ Settled' = Settled
        BY <1>3 DEF Poll, Stop, Hand, Settled, handler, loop, history
    <2>3. confirmed' \in confirmed .. sent /\ 1 .. confirmed' \subseteq Settled \cup {Hand}
        BY <2>1 DEF SettledInOrder, TypeOK
    <2>4. Delivery!Confirm(confirmed')
        BY <2>2, <2>3 DEF Delivery!Confirm
    <2>5. CASE confirmed' = confirmed
        BY <2>2, <2>5 DEF Delivery!vars
    <2>6. CASE confirmed' # confirmed
        <3>1. confirmed' \in Updates
            BY <2>3, <2>6, BotAssumption DEF TypeOK, Updates
        <3> QED
            BY <2>4, <3>1 DEF Delivery!Next
    <2> QED
        BY <2>5, <2>6
<1>4. CASE Reply
    <2>1. Hand \in Answerable
        BY <1>4, <1>a DEF Reply, Answerable, NothingForgotten
    <2>2. /\ replied' = replied \cup {Hand}
          /\ Hand' = Hand /\ Settled' = Settled /\ UNCHANGED <<sent, confirmed, session>>
        BY <1>4, <1>a DEF Reply, Hand, Settled, loop, telegram
    <2>3. Delivery!Answer
        BY <2>1, <2>2 DEF Delivery!Answer
    <2> QED
        BY <2>3 DEF Delivery!Next
<1>5. CASE Write
    <2>1. Hand \in Answerable => Hand \in replied
        BY <1>5, <1>a DEF Write, Answerable, NothingForgotten
    <2>2. session' = IF Hand \in Commands THEN [session EXCEPT ![ChatOf[Hand]] = @ + 1] ELSE session
        <3>1. count = session[ChatOf[lastTried]] + (IF IsCommand(lastTried) THEN 1 ELSE 0)
            BY <1>5 DEF Write, RunsCounted
        <3>2. session \in [Chats -> Nat] /\ ChatOf[lastTried] \in Chats
            BY <1>5, <1>a, BotAssumption DEF Write, TypeOK
        <3>3. session' = [session EXCEPT ![ChatOf[lastTried]] = count]
            BY <1>5 DEF Write
        <3>4. Hand \in Commands <=> IsCommand(lastTried)
            BY <1>5, <1>a DEF Write, Commands
        <3>5. CASE IsCommand(lastTried)
            BY <1>5, <1>a, <3>1, <3>3, <3>4, <3>5 DEF Write
        <3>6. CASE ~IsCommand(lastTried)
            <4>1. count = session[ChatOf[lastTried]]
                BY <3>1, <3>2, <3>6
            <4>2. session' = session
                BY <3>2, <3>3, <4>1
            <4> QED
                BY <3>4, <3>6, <4>2
        <3> QED
            BY <3>5, <3>6
    <2>3. Hand' = 0 /\ UNCHANGED <<sent, confirmed, replied>>
        BY <1>5 DEF Write, Hand, telegram
    <2>4. Delivery!Finish
        BY <1>5, <1>a, <2>1, <2>2, <2>3, WriteSettles DEF Write, Delivery!Finish
    <2> QED
        BY <2>4 DEF Delivery!Next
<1>6. ASSUME HandlerFails \/ Gone PROVE [Delivery!Next]_Delivery!vars
    <2>1. Hand' = 0 /\ UNCHANGED <<sent, confirmed, replied, session>>
        BY <1>6 DEF HandlerFails, Gone, Hand, telegram
    <2>2. CASE step = "none"
        <3>1. Hand = 0 /\ Settled' = Settled
            BY <1>6, <2>2 DEF HandlerFails, Gone, Hand, Settled
        <3> QED
            BY <2>1, <3>1 DEF Delivery!vars
    <2>3. CASE step # "none"
        <3>1. Settled' = Settled \cup {lastTried}
            BY <1>6, <2>3, DropSettles DEF HandlerFails, Gone
        <3>2. CASE step # "written"
            <4>1. Delivery!Drop
                BY <1>a, <2>1, <2>3, <3>1, <3>2 DEF Delivery!Drop
            <4> QED
                BY <4>1 DEF Delivery!Next
        <3>3. CASE step = "written"
            <4>1. Hand = 0
                BY <3>3 DEF Hand
            <4>2. lastTried \in 1 .. lastTried
                BY <1>a, <2>3 DEF Updates
            <4>3. lastTried \in Settled
                BY <1>a, <2>3, <4>1, <4>2 DEF SettledInOrder
            <4> QED
                BY <2>1, <3>1, <4>1, <4>3 DEF Delivery!vars
        <3> QED
            BY <3>2, <3>3
    <2> QED
        BY <2>2, <2>3
<1>7. CASE \/ BackendTurns \/ Setup \/ BatchDone \/ Signal \/ Quit \/ StopOtel \/ ShutdownFails
           \/ UNCHANGED vars
    <2>1. UNCHANGED <<sent, confirmed, step, lastTried, excused, saved, replied, session>>
        BY <1>7 DEF BackendTurns, Setup, BatchDone, Signal, Quit, StopOtel, ShutdownFails, vars,
                    loop, handler, history, telegram
    <2> QED
        BY <2>1 DEF Delivery!vars, Hand, Settled
<1>8. CASE Launch
    <2>1. UNCHANGED <<sent, confirmed, excused, saved, replied, session, step>> /\ step = "none"
        BY <1>8 DEF Launch, handler, history, telegram, TypeOK
    <2> QED
        BY <2>1 DEF Delivery!vars, Hand, Settled
<1>9. CASE Read \/ AskBackend
    <2>1. UNCHANGED <<sent, confirmed, lastTried, excused, saved, replied, session>>
          /\ step \notin {"none", "written"} /\ step' \notin {"none", "written"}
        BY <1>9 DEF Read, AskBackend, loop, history, telegram
    <2> QED
        BY <2>1 DEF Delivery!vars, Hand, Settled
<1>10. CASE HandlerEnds
    <2>1. Hand' = Hand /\ UNCHANGED <<sent, confirmed, excused, saved, replied, session>>
        BY <1>10 DEF HandlerEnds, Hand, history, telegram
    <2> QED
        BY <2>1 DEF Delivery!vars, Settled
<1> QED
    BY <1>1, <1>2, <1>3, <1>4, <1>5, <1>6, <1>7, <1>8, <1>9, <1>10
    DEF Next, Loop, Handler, Shutdown, Crash, GraceExpires, SetupAborted, Drained

\* However many processes come and go, between whichever steps, the bot delivers as
\* UpdateDelivery promises.
THEOREM DeliveryKept == Spec => KeepsDelivery
<1> QED
    BY InitDelivers, StepDelivers, BotTypeCorrect, RunsInvariance, AccountInvariance,
       SettledInvariance, PTL DEF Spec, KeepsDelivery, Delivery!Spec

=============================================================================
