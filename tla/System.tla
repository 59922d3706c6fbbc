------------------------------- MODULE System -------------------------------
(***************************************************************************)
(* The life of the process (src/main.cpp): main starts the UDP and TCP     *)
(* service threads, waits for their ready flags, starts the four loop      *)
(* threads, waits for ENTER, and shuts everything down in a fixed order.   *)
(* The run and stop of UdpReceiver and TcpServer are modelled whole, with  *)
(* the sessions of TCP clients; what the loop bodies do to the gateway is  *)
(* in Gateway and Monitor.  Of Logger only the outcome of its stop is kept.*)
(*                                                                         *)
(* Both sockets are non-blocking, so recvfrom and accept return at once;   *)
(* the client socket is not, so read waits for the client.  Nobody ignores *)
(* SIGPIPE: writing to a client that has gone may end the process.         *)
(***************************************************************************)
EXTENDS Integers, Sequences

CONSTANTS
  Clients,        \* TCP clients; each connects at most once
  NoClient

ASSUME SystemAssumption == NoClient \notin Clients

\* The threads that loop on a flag of main, in the order main joins them.
Joins == <<"dashboard", "telemetry", "heartbeat", "watchdog">>
Loops == {Joins[i] : i \in 1 .. Len(Joins)}

VARIABLES
  main,             \* where main is
  joined,           \* how many of the loop threads it has joined
  loop,             \* where each loop thread is
  loopRunning,      \* dashboardRunning, telemetrySimulationRunning, ...
  udp, udpBound, udpReady, receiverRunning,    \* UdpReceiver and its thread
  tcp, tcpBound, tcpReady, serverRunning,      \* TcpServer and its thread
  session,          \* the client handleClient serves, or NoClient
  clientConnected,
  client,           \* what each client is doing
  lateSessions,     \* sessions begun while TcpServer::running is false
  worker,           \* the thread of the logger
  killed            \* SIGPIPE ended the process

mainVars == <<main, joined, loopRunning>>
udpVars  == <<udp, udpBound, udpReady, receiverRunning>>
tcpVars  == <<tcp, tcpBound, tcpReady, serverRunning, session, clientConnected,
              lateSessions>>
endVars  == <<worker, killed>>
vars     == <<mainVars, loop, udpVars, tcpVars, client, endVars>>

\* The constructors have run: bind may have failed, then the socket is -1.
Init ==
  /\ main = "start"
  /\ joined = 0
  /\ loop = [l \in Loops |-> "unborn"]
  /\ loopRunning = [l \in Loops |-> TRUE]
  /\ udp = "unborn" /\ udpReady = FALSE /\ receiverRunning = FALSE
  /\ tcp = "unborn" /\ tcpReady = FALSE /\ serverRunning = FALSE
  /\ udpBound \in BOOLEAN /\ tcpBound \in BOOLEAN
  /\ session = NoClient
  /\ clientConnected = FALSE
  /\ client = [c \in Clients |-> "away"]
  /\ lateSessions = 0
  /\ worker = "up"
  /\ killed = FALSE

-----------------------------------------------------------------------------
\* main.  A definition named ..._faulty is what a plausible bug would make of
\* the definition that follows it; no specification uses one.

startServices ==
  /\ main = "start"
  /\ udp' = "born"
  /\ tcp' = "born"
  /\ main' = "await"
  /\ UNCHANGED <<joined, loopRunning, loop, udpBound, udpReady, receiverRunning,
                 tcpBound, tcpReady, serverRunning, session, clientConnected,
                 lateSessions, client, endVars>>

awaitReady ==
  /\ main = "await"
  /\ udpReady /\ tcpReady
  /\ main' = "ready"
  /\ UNCHANGED <<joined, loopRunning, loop, udpVars, tcpVars, client, endVars>>

\* The four loop threads, each created by a statement of its own.
startLoop(l, next) ==
  /\ loop' = [loop EXCEPT ![l] = "test"]
  /\ main' = next
  /\ UNCHANGED <<joined, loopRunning, udpVars, tcpVars, client, endVars>>

startDashboard == main = "ready" /\ startLoop("dashboard", "watchdog")
startWatchdog  == main = "watchdog" /\ startLoop("watchdog", "telemetry")
startTelemetry == main = "telemetry" /\ startLoop("telemetry", "heartbeats")
startHeartbeat == main = "heartbeats" /\ startLoop("heartbeat", "demo")

\* ENTER is pressed: main clears the four flags.  Each is read by one thread
\* only, so clearing them is one step.
shutdown ==
  /\ main = "demo"
  /\ loopRunning' = [l \in Loops |-> FALSE]
  /\ main' = "join_loops"
  /\ UNCHANGED <<joined, loop, udpVars, tcpVars, client, endVars>>

joinLoop ==
  /\ main = "join_loops"
  /\ loop[Joins[joined + 1]] = "exited"
  /\ joined' = joined + 1
  /\ main' = IF joined + 1 = Len(Joins) THEN "stop_udp" ELSE "join_loops"
  /\ UNCHANGED <<loopRunning, loop, udpVars, tcpVars, client, endVars>>

stopReceiver ==
  /\ main = "stop_udp"
  /\ receiverRunning' = FALSE
  /\ main' = "stop_tcp"
  /\ UNCHANGED <<joined, loopRunning, loop, udp, udpBound, udpReady, tcpVars,
                 client, endVars>>

stopServer_faulty ==       \* stops the receiver a second time instead
  /\ main = "stop_tcp"
  /\ receiverRunning' = FALSE
  /\ main' = "join_udp"
  /\ UNCHANGED <<joined, loopRunning, loop, udp, udpBound, udpReady, tcpVars,
                 client, endVars>>

stopServer ==
  /\ main = "stop_tcp"
  /\ serverRunning' = FALSE
  /\ main' = "join_udp"
  /\ UNCHANGED <<joined, loopRunning, loop, udpVars, tcp, tcpBound, tcpReady,
                 session, clientConnected, lateSessions, client, endVars>>

joinReceiver ==
  /\ main = "join_udp" /\ udp = "exited"
  /\ main' = "join_tcp"
  /\ UNCHANGED <<joined, loopRunning, loop, udpVars, tcpVars, client, endVars>>

joinServer_faulty ==       \* the TCP thread is not joined
  /\ main = "join_tcp"
  /\ main' = "stop_logger"
  /\ UNCHANGED <<joined, loopRunning, loop, udpVars, tcpVars, client, endVars>>

joinServer ==
  /\ main = "join_tcp" /\ tcp = "exited"
  /\ main' = "stop_logger"
  /\ UNCHANGED <<joined, loopRunning, loop, udpVars, tcpVars, client, endVars>>

\* logger.stop: the worker ends, or the notification falls between its test and
\* its wait and it sleeps for ever (both are behaviours of Logger).
stopLogger ==
  /\ main = "stop_logger"
  /\ worker' \in {"exited", "asleep"}
  /\ main' = "join_logger"
  /\ UNCHANGED <<joined, loopRunning, loop, udpVars, tcpVars, client, killed>>

joinLogger ==
  /\ main = "join_logger" /\ worker = "exited"
  /\ main' = "down"
  /\ UNCHANGED <<joined, loopRunning, loop, udpVars, tcpVars, client, endVars>>

MainStep ==
  \/ startServices \/ awaitReady
  \/ startDashboard \/ startWatchdog \/ startTelemetry \/ startHeartbeat
  \/ joinLoop \/ stopReceiver \/ stopServer \/ joinReceiver \/ joinServer
  \/ stopLogger \/ joinLogger

-----------------------------------------------------------------------------
\* The loop threads: while (flag) { body; sleep }.

LoopStep(l) ==
  /\ \/ loop[l] = "test"
        /\ loop' = [loop EXCEPT ![l] = IF loopRunning[l] THEN "body" ELSE "exited"]
     \/ loop[l] = "body"
        /\ loop' = [loop EXCEPT ![l] = "test"]
  /\ UNCHANGED <<mainVars, udpVars, tcpVars, client, endVars>>

-----------------------------------------------------------------------------
\* The UDP thread: udpReady, then UdpReceiver::run.

UdpStep ==
  /\ \/ /\ udp = "born"
        /\ udpReady' = TRUE
        /\ udp' = "enter"
        /\ UNCHANGED receiverRunning
     \/ /\ udp = "enter"                                  \* run
        /\ udp' = IF udpBound THEN "test" ELSE "exited"
        /\ receiverRunning' = (udpBound \/ receiverRunning)
        /\ UNCHANGED udpReady
     \/ /\ udp = "test"                                   \* while (running)
        /\ udp' = IF receiverRunning THEN "receive" ELSE "exited"
        /\ UNCHANGED <<udpReady, receiverRunning>>
     \/ /\ udp = "receive"                                \* receivePacket
        /\ udp' = "test"
        /\ UNCHANGED <<udpReady, receiverRunning>>
  /\ UNCHANGED <<mainVars, loop, udpBound, tcpVars, client, endVars>>

-----------------------------------------------------------------------------
\* The TCP thread: tcpReady, then TcpServer::run.

Queued == {c \in Clients : client[c] = "queued"}

enterServer ==
  /\ \/ /\ tcp = "born"
        /\ tcpReady' = TRUE
        /\ tcp' = "enter"
        /\ UNCHANGED serverRunning
     \/ /\ tcp = "enter"                                  \* run
        /\ tcp' = IF tcpBound THEN "test" ELSE "exited"
        /\ serverRunning' = (tcpBound \/ serverRunning)
        /\ UNCHANGED tcpReady
  /\ UNCHANGED <<mainVars, loop, udpVars, tcpBound, session, clientConnected,
                 lateSessions, client, endVars>>

testServerRunning_faulty ==      \* while (true)
  /\ tcp = "test"
  /\ tcp' = "accept"
  /\ UNCHANGED <<mainVars, loop, udpVars, tcpBound, tcpReady, serverRunning,
                 session, clientConnected, lateSessions, client, endVars>>

testServerRunning ==
  /\ tcp = "test"
  /\ tcp' = IF serverRunning THEN "accept" ELSE "exited"
  /\ UNCHANGED <<mainVars, loop, udpVars, tcpBound, tcpReady, serverRunning,
                 session, clientConnected, lateSessions, client, endVars>>

acceptClient ==
  /\ tcp = "accept"
  /\ \E c \in Queued :
       /\ session' = c
       /\ client' = [client EXCEPT ![c] = "open"]
  /\ tcp' = "accepted"
  /\ lateSessions' = lateSessions + (IF serverRunning THEN 0 ELSE 1)
  /\ UNCHANGED <<mainVars, loop, udpVars, tcpBound, tcpReady, serverRunning,
                 clientConnected, endVars>>

\* After the log line "Client connected".
setConnected ==
  /\ tcp = "accepted"
  /\ clientConnected' = TRUE
  /\ tcp' = "read"
  /\ UNCHANGED <<mainVars, loop, udpVars, tcpBound, tcpReady, serverRunning,
                 session, lateSessions, client, endVars>>

acceptNobody_faulty ==           \* leaves the loop when nobody connects
  /\ tcp = "accept"
  /\ Queued = {}
  /\ tcp' = "exited"
  /\ UNCHANGED <<mainVars, loop, udpVars, tcpBound, tcpReady, serverRunning,
                 session, clientConnected, lateSessions, client, endVars>>

acceptNobody ==
  /\ tcp = "accept"
  /\ Queued = {}
  /\ tcp' = IF serverRunning THEN "test" ELSE "exited"
  /\ UNCHANGED <<mainVars, loop, udpVars, tcpBound, tcpReady, serverRunning,
                 session, clientConnected, lateSessions, client, endVars>>

\* handleClient: a request was read, processRequest answers it.
answer ==
  /\ tcp = "read"
  /\ client[session] = "asking"
  /\ client' = [client EXCEPT ![session] = "open"]
  /\ UNCHANGED <<mainVars, loop, udpVars, tcpVars, endVars>>

\* The request is answered to a client that has gone: the write goes nowhere,
\* fails, or raises SIGPIPE.
answerFled ==
  /\ tcp = "read"
  /\ client[session] = "fled"
  /\ \/ /\ client' = [client EXCEPT ![session] = "gone"]
        /\ UNCHANGED <<tcp, killed>>
     \/ /\ tcp' = "returned"
        /\ UNCHANGED <<client, killed>>
     \/ /\ killed' = TRUE
        /\ UNCHANGED <<tcp, client>>
  /\ UNCHANGED <<mainVars, loop, udpVars, tcpBound, tcpReady, serverRunning,
                 session, clientConnected, lateSessions, worker>>

\* read returns 0 or an error: handleClient returns.
readNothing ==
  /\ tcp = "read"
  /\ client[session] \in {"gone", "fled"}
  /\ tcp' = "returned"
  /\ UNCHANGED <<mainVars, loop, udpVars, tcpBound, tcpReady, serverRunning,
                 session, clientConnected, lateSessions, client, endVars>>

clearConnected_faulty ==         \* clientConnected is not reset
  /\ tcp = "returned"
  /\ tcp' = "close"
  /\ UNCHANGED <<mainVars, loop, udpVars, tcpBound, tcpReady, serverRunning,
                 session, clientConnected, lateSessions, client, endVars>>

clearConnected ==
  /\ tcp = "returned"
  /\ clientConnected' = FALSE
  /\ tcp' = "close"
  /\ UNCHANGED <<mainVars, loop, udpVars, tcpBound, tcpReady, serverRunning,
                 session, lateSessions, client, endVars>>

closeClient ==
  /\ tcp = "close"
  /\ session' = NoClient
  /\ tcp' = "test"
  /\ UNCHANGED <<mainVars, loop, udpVars, tcpBound, tcpReady, serverRunning,
                 clientConnected, lateSessions, client, endVars>>

TcpStep ==
  \/ enterServer \/ testServerRunning \/ acceptNobody
  \/ acceptClient \/ setConnected \/ answer \/ answerFled \/ readNothing
  \/ clearConnected \/ closeClient

-----------------------------------------------------------------------------
\* The clients.  A connection needs a listening socket: it is open from the
\* constructor of TcpServer until the process ends.

connect(c) ==
  /\ client[c] = "away" /\ tcpBound /\ main # "down"
  /\ client' = [client EXCEPT ![c] = "queued"]
  /\ UNCHANGED <<mainVars, loop, udpVars, tcpVars, endVars>>

ask(c) ==
  /\ client[c] = "open"
  /\ client' = [client EXCEPT ![c] = "asking"]
  /\ UNCHANGED <<mainVars, loop, udpVars, tcpVars, endVars>>

\* One that leaves before its answer has fled.
leave(c) ==
  /\ \/ /\ client[c] = "open"
        /\ client' = [client EXCEPT ![c] = "gone"]
     \/ /\ client[c] = "asking"
        /\ client' = [client EXCEPT ![c] = "fled"]
  /\ UNCHANGED <<mainVars, loop, udpVars, tcpVars, endVars>>

Threads == MainStep \/ (\E l \in Loops : LoopStep(l)) \/ UdpStep \/ TcpStep

Next ==
  /\ ~killed
  /\ \/ Threads
     \/ shutdown
     \/ \E c \in Clients : connect(c) \/ ask(c) \/ leave(c)

Spec == Init /\ [][Next]_vars

\* The scheduler runs every thread that can run.  Nothing makes the user press
\* ENTER or a client connect, ask or leave.
Fairness ==
  /\ WF_vars(~killed /\ MainStep)
  /\ \A l \in Loops : WF_vars(~killed /\ LoopStep(l))
  /\ WF_vars(~killed /\ UdpStep)
  /\ WF_vars(~killed /\ TcpStep)

FairSpec == Spec /\ Fairness

-----------------------------------------------------------------------------
\* Properties.

\* Every variable keeps its type; a session lasts from accept to close, and
\* clientConnected is set from the assignment before handleClient to the one
\* after it (TcpServer::run).
InSession == {"accepted", "read", "returned", "close"}

TypeOK ==
  /\ main \in {"start", "await", "ready", "watchdog", "telemetry", "heartbeats",
               "demo", "join_loops", "stop_udp", "stop_tcp", "join_udp",
               "join_tcp", "stop_logger", "join_logger", "down"}
  /\ joined \in 0 .. Len(Joins)
  /\ loop \in [Loops -> {"unborn", "test", "body", "exited"}]
  /\ loopRunning \in [Loops -> BOOLEAN]
  /\ udp \in {"unborn", "born", "enter", "test", "receive", "exited"}
  /\ tcp \in {"unborn", "born", "enter", "test", "accept", "exited"} \cup InSession
  /\ udpBound \in BOOLEAN /\ udpReady \in BOOLEAN /\ receiverRunning \in BOOLEAN
  /\ tcpBound \in BOOLEAN /\ tcpReady \in BOOLEAN /\ serverRunning \in BOOLEAN
  /\ clientConnected \in BOOLEAN
  /\ clientConnected <=> tcp \in {"read", "returned"}
  /\ session \in IF tcp \in InSession THEN Clients ELSE {NoClient}
  /\ client \in [Clients -> {"away", "queued", "open", "asking", "gone", "fled"}]
  /\ lateSessions \in Nat
  /\ worker \in {"up", "exited", "asleep"}
  /\ killed \in BOOLEAN

\* When main stops the logger no other thread is left that could log: what the
\* Logger model assumes of its stop.
LoggerStoppedLast ==
  main \in {"stop_logger", "join_logger", "down"} =>
    /\ \A l \in Loops : loop[l] = "exited"
    /\ udp = "exited"
    /\ tcp = "exited"

\* After stop cleared running, the server begins at most one more session: the
\* one whose accept had already passed the test of running (TcpServer::run).
AtMostOneLateSession == lateSessions <= 1

\* A client that left before its answer may have taken the process down: the
\* write of handleClient raised SIGPIPE.
TakenDown == killed /\ \E c \in Clients : client[c] = "fled"

\* No client keeps its connection open for ever.  Nothing in handleClient
\* enforces this; it is the premise of the next two properties.
Leaves(c) ==
  client[c] \in {"open", "asking"} ~> (client[c] \in {"gone", "fled"} \/ TakenDown)
ClientsLeave == \A c \in Clients : Leaves(c)

\* A stop that comes before the assignment running = true at the head of run is
\* overwritten (UdpReceiver::stop, TcpServer::stop).
InRun(t) == t \notin {"unborn", "born", "enter"}

\* Once ENTER is pressed main gets as far as logger.stop, if both services are in
\* their run by then and clients leave: no join waits for ever on a thread that
\* no longer looks at its flag, whichever of the threads is slow.  (Whether
\* logger.stop returns is another matter: StopReturns of Logger.)
ShutdownReachesLogger ==
  ClientsLeave =>
    (main = "join_loops" /\ InRun(udp) /\ InRun(tcp)
       ~> (main = "stop_logger" \/ TakenDown))

\* A client that connected, even before run began, is served in its turn,
\* however slow the client before it is, unless main stops the server first or
\* a client that did not wait for its answer took the process down.
StopCalled ==
  main \in {"join_udp", "join_tcp", "stop_logger", "join_logger", "down"}

ClientsServed ==
  ClientsLeave =>
    \A c \in Clients :
      client[c] = "queued" ~> (client[c] # "queued" \/ StopCalled \/ TakenDown)

\* What TcpServer.hpp says of stop: it makes the main loop of the server end.
StopEndsServer ==
  (StopCalled /\ InRun(tcp) /\ ~serverRunning) ~> (tcp = "exited" \/ TakenDown)
=============================================================================
