----------------------------- MODULE SystemProofs -----------------------------
(***************************************************************************)
(* Proofs about System, for every set of TCP clients.                      *)
(***************************************************************************)
EXTENDS System, TLAPS

USE SystemAssumption

-----------------------------------------------------------------------------
\* The inductive invariant, in parts.

\* What main has done before it is where it is.
BeforeJoins == {"start", "await", "ready", "watchdog", "telemetry", "heartbeats",
                "demo"}

\* Main counts the loop threads it joined, and a joined thread has ended.
JoinsCounted ==
  /\ main \in BeforeJoins => joined = 0
  /\ main = "join_loops" => joined < 4
  /\ main \notin BeforeJoins \cup {"join_loops"} => joined = 4
  /\ \A i \in 1 .. joined : loop[Joins[i]] = "exited"

\* The service threads are unborn until main starts them.
ThreadsStarted == main = "start" => udp = "unborn" /\ tcp = "unborn"

\* Past a join of a service thread, that thread has ended.
ServicesJoined ==
  /\ main \in {"join_tcp", "stop_logger", "join_logger", "down"} => udp = "exited"
  /\ main \in {"stop_logger", "join_logger", "down"} => tcp = "exited"

\* A session begun after stop is the last one: running is not set again, and
\* the next test of it ends the thread.
LateSessionIsLast ==
  lateSessions # 0 =>
    /\ lateSessions = 1
    /\ ~serverRunning
    /\ tcp \in InSession \cup {"test", "exited"}

SystemInv ==
  /\ TypeOK
  /\ JoinsCounted
  /\ ThreadsStarted
  /\ ServicesJoined
  /\ LateSessionIsLast

-----------------------------------------------------------------------------
\* The loop threads by name, in the order in which main joins them.
LEMMA LoopNames ==
  /\ Len(Joins) = 4
  /\ Joins[1] = "dashboard" /\ Joins[2] = "telemetry"
  /\ Joins[3] = "heartbeat" /\ Joins[4] = "watchdog"
  /\ Loops = {"dashboard", "telemetry", "heartbeat", "watchdog"}
<1>1. /\ Len(Joins) = 4
      /\ Joins[1] = "dashboard" /\ Joins[2] = "telemetry"
      /\ Joins[3] = "heartbeat" /\ Joins[4] = "watchdog"
  BY DEF Joins
<1>2. \A l : l \in Loops <=> \E i \in 1 .. 4 : l = Joins[i]
  BY <1>1 DEF Loops
<1>3. \A l : l \in Loops
               <=> l \in {"dashboard", "telemetry", "heartbeat", "watchdog"}
  BY <1>1, <1>2
<1> QED
  BY <1>1, <1>3

\* Every constructor leaves the process in a state that satisfies all parts.
LEMMA InitInv == Init => SystemInv
<1> SUFFICES ASSUME Init PROVE SystemInv
  OBVIOUS
<1>1. TypeOK
  <2>1. /\ joined \in 0 .. Len(Joins)
        /\ loop \in [Loops -> {"unborn", "test", "body", "exited"}]
        /\ loopRunning \in [Loops -> BOOLEAN]
    BY LoopNames DEF Init
  <2>2. /\ udpBound \in BOOLEAN /\ udpReady \in BOOLEAN
        /\ receiverRunning \in BOOLEAN
        /\ tcpBound \in BOOLEAN /\ tcpReady \in BOOLEAN
        /\ serverRunning \in BOOLEAN /\ killed \in BOOLEAN
        /\ clientConnected \in BOOLEAN
    BY DEF Init
  <2>3. /\ session \in IF tcp \in InSession THEN Clients ELSE {NoClient}
        /\ client \in [Clients -> {"away", "queued", "open", "asking", "gone",
                                 "fled"}]
        /\ clientConnected <=> tcp \in {"read", "returned"}
    BY DEF Init, InSession
  <2> QED
    BY <2>1, <2>2, <2>3 DEF Init, TypeOK
<1>2. JoinsCounted /\ ServicesJoined /\ LateSessionIsLast
  BY LoopNames
     DEF Init, JoinsCounted, ServicesJoined, LateSessionIsLast, BeforeJoins
<1>3. ThreadsStarted
  BY DEF Init, ThreadsStarted
<1> QED
  BY <1>1, <1>2, <1>3 DEF SystemInv

-----------------------------------------------------------------------------
\* Each step preserves each part.

\* No thread, client or shutdown step takes a variable out of its type.
LEMMA TypeStep == SystemInv /\ [Next]_vars => TypeOK'
<1> SUFFICES ASSUME SystemInv, [Next]_vars
             PROVE  TypeOK'
  OBVIOUS
<1> USE DEF SystemInv, TypeOK, InSession, mainVars, udpVars, tcpVars, endVars
<1>1. CASE startServices
  BY <1>1 DEF startServices, ThreadsStarted
<1>2. CASE awaitReady
  BY <1>2 DEF awaitReady
<1>3. CASE startDashboard \/ startWatchdog \/ startTelemetry \/ startHeartbeat
  BY <1>3, LoopNames
     DEF startDashboard, startWatchdog, startTelemetry, startHeartbeat, startLoop
<1>4. CASE shutdown
  BY <1>4 DEF shutdown
<1>5. CASE joinLoop
  BY <1>5, LoopNames DEF joinLoop, JoinsCounted
<1>6. CASE stopReceiver
  <2>1. receiverRunning' \in BOOLEAN
    BY <1>6 DEF stopReceiver
  <2> QED
    BY <1>6, <2>1 DEF stopReceiver
<1>7. CASE stopServer
  <2>1. serverRunning' \in BOOLEAN
    BY <1>7 DEF stopServer
  <2> QED
    BY <1>7, <2>1 DEF stopServer
<1>8. CASE joinReceiver \/ joinServer \/ stopLogger \/ joinLogger
  BY <1>8 DEF joinReceiver, joinServer, stopLogger, joinLogger
<1>9. ASSUME NEW l \in Loops, LoopStep(l)
      PROVE  TypeOK'
  BY <1>9 DEF LoopStep
<1>10. CASE UdpStep
  <2>1. /\ udpBound' \in BOOLEAN /\ udpReady' \in BOOLEAN
        /\ receiverRunning' \in BOOLEAN
    BY <1>10 DEF UdpStep
  <2>2. udp' \in {"unborn", "born", "enter", "test", "receive", "exited"}
    BY <1>10 DEF UdpStep
  <2> QED
    BY <1>10, <2>1, <2>2 DEF UdpStep
<1>11. CASE enterServer
  <2>1. /\ tcpBound' \in BOOLEAN /\ tcpReady' \in BOOLEAN
        /\ serverRunning' \in BOOLEAN
    BY <1>11 DEF enterServer
  <2>2. /\ tcp' \in {"unborn", "born", "enter", "test", "accept", "exited"}
        /\ clientConnected' <=> tcp' \in {"read", "returned"}
        /\ session' \in IF tcp' \in InSession THEN Clients ELSE {NoClient}
    BY <1>11 DEF enterServer
  <2> QED
    BY <1>11, <2>1, <2>2 DEF enterServer
<1>12. CASE testServerRunning \/ acceptNobody
  BY <1>12 DEF testServerRunning, acceptNobody
<1>13. CASE acceptClient
  BY <1>13 DEF acceptClient, Queued
<1>14. CASE setConnected \/ readNothing \/ clearConnected \/ closeClient
  <2>1. /\ clientConnected' \in BOOLEAN
        /\ clientConnected' <=> tcp' \in {"read", "returned"}
    <3>1. CASE setConnected
      BY <3>1 DEF setConnected
    <3>2. CASE readNothing
      BY <3>2 DEF readNothing
    <3>3. CASE clearConnected
      BY <3>3 DEF clearConnected
    <3>4. CASE closeClient
      BY <3>4 DEF closeClient
    <3> QED
      BY <1>14, <3>1, <3>2, <3>3, <3>4
  <2>2. /\ tcp' \in InSession \cup {"test"}
        /\ session' \in IF tcp' \in InSession THEN Clients ELSE {NoClient}
    BY <1>14 DEF setConnected, readNothing, clearConnected, closeClient
  <2> QED
    BY <1>14, <2>1, <2>2
       DEF setConnected, readNothing, clearConnected, closeClient
<1>15. CASE answer \/ answerFled
  <2>1. killed' \in BOOLEAN
    BY <1>15 DEF answer, answerFled
  <2>2. client' \in [Clients -> {"away", "queued", "open", "asking", "gone", "fled"}]
    BY <1>15 DEF answer, answerFled
  <2>3. /\ tcp' \in {"read", "returned"}
        /\ UNCHANGED <<session, clientConnected>>
    BY <1>15 DEF answer, answerFled
  <2> QED
    BY <1>15, <2>1, <2>2, <2>3 DEF answer, answerFled
<1>16. ASSUME NEW c \in Clients, connect(c) \/ ask(c) \/ leave(c)
       PROVE  TypeOK'
  BY <1>16 DEF connect, ask, leave
<1>17. CASE UNCHANGED vars
  BY <1>17 DEF vars
<1> QED
  BY <1>1, <1>2, <1>3, <1>4, <1>5, <1>6, <1>7, <1>8, <1>9, <1>10, <1>11, <1>12,
     <1>13, <1>14, <1>15, <1>16, <1>17 DEF Next, Threads, MainStep, TcpStep

\* Main joins the loop threads one by one, each after it has ended, and an ended
\* thread stays so (joinLoop, LoopStep).
LEMMA JoinsStep == SystemInv /\ [Next]_vars => JoinsCounted'
<1> SUFFICES ASSUME SystemInv, [Next]_vars
             PROVE  JoinsCounted'
  OBVIOUS
<1> USE DEF BeforeJoins
<1>1. /\ TypeOK /\ JoinsCounted
      /\ joined \in 0 .. 4
  BY LoopNames DEF SystemInv, TypeOK
<1>2. CASE \/ startServices \/ awaitReady \/ startDashboard \/ startWatchdog
           \/ startTelemetry \/ startHeartbeat \/ shutdown
  BY <1>1, <1>2
     DEF startServices, awaitReady, startDashboard, startWatchdog, startTelemetry,
         startHeartbeat, startLoop, shutdown, JoinsCounted
<1>3. CASE joinLoop
  BY <1>1, <1>3, LoopNames DEF joinLoop, JoinsCounted
<1>4. CASE \/ stopReceiver \/ stopServer \/ joinReceiver \/ joinServer
           \/ stopLogger \/ joinLogger
  BY <1>1, <1>4
     DEF stopReceiver, stopServer, joinReceiver, joinServer, stopLogger,
         joinLogger, JoinsCounted
<1>5. ASSUME NEW l \in Loops, LoopStep(l)
      PROVE  JoinsCounted'
  <2>1. \A i \in 1 .. joined : Joins[i] \in Loops
    BY <1>1, LoopNames
  <2>2. \A k \in Loops : loop[k] = "exited" => loop'[k] = "exited"
    BY <1>1, <1>5 DEF LoopStep, TypeOK
  <2>3. main' = main /\ joined' = joined
    BY <1>5 DEF LoopStep, mainVars
  <2> QED
    BY <1>1, <2>1, <2>2, <2>3 DEF JoinsCounted
<1>6. CASE UNCHANGED <<main, joined, loop>>
  BY <1>1, <1>6 DEF JoinsCounted
<1> QED
  BY <1>2, <1>3, <1>4, <1>5, <1>6
     DEF Next, Threads, MainStep, UdpStep, TcpStep, enterServer,
         testServerRunning, acceptClient, setConnected, acceptNobody, answer,
         answerFled, readNothing, clearConnected, closeClient, connect, ask,
         leave, vars, mainVars

\* Nobody but main starts a thread (startServices).
LEMMA StartStep == SystemInv /\ [Next]_vars => ThreadsStarted'
<1> SUFFICES ASSUME SystemInv, [Next]_vars
             PROVE  ThreadsStarted'
  OBVIOUS
<1> USE DEF mainVars, udpVars, tcpVars, ThreadsStarted
<1>1. ThreadsStarted
  BY DEF SystemInv
<1>2. CASE MainStep \/ shutdown
  BY <1>2
     DEF MainStep, startServices, awaitReady, startDashboard, startWatchdog,
         startTelemetry, startHeartbeat, startLoop, shutdown, joinLoop,
         stopReceiver, stopServer, joinReceiver, joinServer, stopLogger, joinLogger
<1>3. CASE UdpStep
  BY <1>1, <1>3 DEF UdpStep
<1>4. CASE TcpStep
  BY <1>1, <1>4
     DEF TcpStep, enterServer, testServerRunning, acceptClient, setConnected,
         acceptNobody, answer, answerFled, readNothing, clearConnected, closeClient
<1>5. CASE UNCHANGED <<main, udp, tcp>>
  BY <1>1, <1>5
<1> QED
  BY <1>2, <1>3, <1>4, <1>5
     DEF Next, Threads, LoopStep, connect, ask, leave, vars

\* A service thread that main has joined has ended and does not come back
\* (joinReceiver, joinServer).
LEMMA ServicesStep == SystemInv /\ [Next]_vars => ServicesJoined'
<1> SUFFICES ASSUME SystemInv, [Next]_vars
             PROVE  ServicesJoined'
  OBVIOUS
<1> USE DEF mainVars, udpVars, tcpVars
<1>1. TypeOK /\ ServicesJoined
  BY DEF SystemInv
<1>2. CASE \/ startServices \/ awaitReady \/ startDashboard \/ startWatchdog
           \/ startTelemetry \/ startHeartbeat \/ shutdown \/ joinLoop
  BY <1>2
     DEF startServices, awaitReady, startDashboard, startWatchdog, startTelemetry,
         startHeartbeat, startLoop, shutdown, joinLoop, ServicesJoined
<1>3. CASE \/ stopReceiver \/ stopServer \/ joinReceiver \/ joinServer
           \/ stopLogger \/ joinLogger
  BY <1>1, <1>3
     DEF stopReceiver, stopServer, joinReceiver, joinServer, stopLogger,
         joinLogger, ServicesJoined
<1>4. CASE UdpStep
  BY <1>1, <1>4 DEF UdpStep, ServicesJoined
<1>5. CASE TcpStep
  BY <1>1, <1>5
     DEF TcpStep, enterServer, testServerRunning, acceptClient, setConnected,
         acceptNobody, answer, answerFled, readNothing, clearConnected,
         closeClient, ServicesJoined
<1>6. CASE UNCHANGED <<main, udp, tcp>>
  BY <1>1, <1>6 DEF ServicesJoined
<1> QED
  BY <1>2, <1>3, <1>4, <1>5, <1>6
     DEF Next, Threads, MainStep, LoopStep, connect, ask, leave, vars

\* Between stop and the next test of running there is one accept at most, and
\* the assignment running = true at the head of run is behind (acceptClient).
LEMMA LateStep == SystemInv /\ [Next]_vars => LateSessionIsLast'
<1> SUFFICES ASSUME SystemInv, [Next]_vars
             PROVE  LateSessionIsLast'
  OBVIOUS
<1> USE DEF mainVars, udpVars, tcpVars, InSession
<1>1. TypeOK /\ LateSessionIsLast /\ ThreadsStarted
  BY DEF SystemInv
<1>2. CASE startServices
  BY <1>1, <1>2 DEF startServices, LateSessionIsLast, ThreadsStarted
<1>3. CASE stopServer
  BY <1>1, <1>3 DEF stopServer, LateSessionIsLast
<1>4. CASE acceptClient
  BY <1>1, <1>4 DEF acceptClient, LateSessionIsLast, TypeOK
<1>5. CASE enterServer \/ testServerRunning \/ acceptNobody
  BY <1>1, <1>5
     DEF enterServer, testServerRunning, acceptNobody, LateSessionIsLast
<1>6. CASE \/ setConnected \/ answer \/ answerFled \/ readNothing
           \/ clearConnected \/ closeClient
  BY <1>1, <1>6
     DEF setConnected, answer, answerFled, readNothing, clearConnected,
         closeClient, LateSessionIsLast
<1>7. CASE UNCHANGED tcpVars
  BY <1>1, <1>7 DEF LateSessionIsLast
<1> QED
  BY <1>2, <1>3, <1>4, <1>5, <1>6, <1>7
     DEF Next, Threads, MainStep, TcpStep, awaitReady, startDashboard,
         startWatchdog, startTelemetry, startHeartbeat, startLoop, shutdown,
         joinLoop, stopReceiver, joinReceiver, joinServer, stopLogger, joinLogger,
         LoopStep, UdpStep, connect, ask, leave, vars

-----------------------------------------------------------------------------
\* The theorems.

\* The parts together are inductive.
LEMMA Invariance == Spec => []SystemInv
<1>1. SystemInv /\ [Next]_vars => SystemInv'
  BY TypeStep, JoinsStep, StartStep, ServicesStep, LateStep DEF SystemInv
<1> QED
  BY <1>1, InitInv, PTL DEF Spec

\* Every variable keeps its type; in particular joined stays within the four
\* loop threads, a session lasts from accept to close, and clientConnected is
\* set exactly between the two assignments around handleClient.
THEOREM TypeCorrect == Spec => []TypeOK
<1>1. SystemInv => TypeOK
  BY DEF SystemInv
<1> QED
  BY <1>1, Invariance, PTL

\* When main stops the logger every other thread has ended, in every order in
\* which threads can end: what Logger assumes of its stop (main.cpp, shutdown).
THEOREM LoggerIsLast == Spec => []LoggerStoppedLast
<1>1. SystemInv => LoggerStoppedLast
  <2> SUFFICES ASSUME SystemInv, main \in {"stop_logger", "join_logger", "down"}
               PROVE  /\ \A l \in Loops : loop[l] = "exited"
                      /\ udp = "exited"
                      /\ tcp = "exited"
    BY DEF LoggerStoppedLast
  <2>1. joined = 4 /\ \A i \in 1 .. 4 : loop[Joins[i]] = "exited"
    BY DEF SystemInv, JoinsCounted, BeforeJoins
  <2>2. \A l \in Loops : loop[l] = "exited"
    BY <2>1, LoopNames
  <2> QED
    BY <2>2 DEF SystemInv, ServicesJoined
<1> QED
  BY <1>1, Invariance, PTL

\* After TcpServer::stop at most one more session begins, whatever the clients in
\* the backlog do.
THEOREM OneLateSession == Spec => []AtMostOneLateSession
<1>1. SystemInv => AtMostOneLateSession
  BY DEF SystemInv, TypeOK, LateSessionIsLast, AtMostOneLateSession
<1> QED
  BY <1>1, Invariance, PTL
=============================================================================
