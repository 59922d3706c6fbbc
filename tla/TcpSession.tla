----------------------------- MODULE TcpSession -----------------------------
(***************************************************************************)
(* One session of the TCP server (src/network/TcpServer.cpp, handleClient  *)
(* and processRequest), while the other threads change the registry.       *)
(* Accepting, ending and stopping sessions are in System; the reports are  *)
(* those of Monitor, with the session as their reading thread.             *)
(*                                                                         *)
(* A request is whatever one read returns.  TCP keeps the order of bytes   *)
(* and nothing else, so a read returns any prefix of what is there.  Bytes *)
(* come in the pieces at which splitting a command makes a difference.     *)
(*                                                                         *)
(* Nobody ignores SIGPIPE: writing to a client that has gone may end the   *)
(* process before write can return an error.                               *)
(***************************************************************************)
EXTENDS Monitor, SequencesExt

CONSTANTS
  Commands,    \* what clients ask: text, and the answer the text asks for
  IntMax,      \* the greatest int: std::stoi throws beyond it
  MaxAsked     \* bound: commands sent in the session

Digits  == [d \in {ToString(n) : n \in 0 .. 9} |->
              CHOOSE n \in 0 .. 9 : ToString(n) = d]
Newline == "\n"

-----------------------------------------------------------------------------
\* What a text asks for.

Answer(kind, id) == [kind |-> kind, id |-> id]
NoAnswer == Answer("none", 0)

help   == <<"he", "lp">>
list   == <<"li", "st">>
health == <<"he", "alth">>
stats  == <<"st", "ats">>

IsGet(text) == text # <<>> /\ Head(text) = "get "

\* std::stoi reads digits up to the first other character.  It would also skip
\* blanks before them and take a sign: CommandAssumption leaves both out.
IdDigits(text) ==
  LET rest == Tail(text)
      ends == {n \in 0 .. Len(rest) : \A i \in 1 .. n : rest[i] \in DOMAIN Digits}
  IN  SubSeq(rest, 1, Max(ends))

parseId(text) ==
  LET digits == IdDigits(text)
      value[n \in 0 .. Len(digits)] ==
        IF n = 0 THEN 0 ELSE 10 * value[n - 1] + Digits[digits[n]]
  IN  value[Len(digits)]

\* No digits, a number that does not fit, or zero: parseId throws.
IdThrows(text) ==
  IdDigits(text) = <<>> \/ parseId(text) > IntMax \/ parseId(text) <= 0

Simple == [help |-> help, list |-> list, health |-> health, stats |-> stats]

\* The answer that a text is promised.
Asks(text, answer) ==
  \/ \E kind \in DOMAIN Simple : text = Simple[kind] /\ answer = Answer(kind, 0)
  \/ IsGet(text) /\ IdThrows(text)  /\ answer = Answer("invalid", 0)
  \/ IsGet(text) /\ ~IdThrows(text) /\ answer = Answer("details", parseId(text))
  \/ /\ ~IsGet(text) /\ \A kind \in DOMAIN Simple : text # Simple[kind]
     /\ answer = Answer("unknown", 0)

\* What TCP carries.
Pieces == {Newline} \cup UNION {ToSet(c.text) : c \in Commands}

ASSUME CommandAssumption ==
  /\ IntMax \in Nat /\ MaxAsked \in Nat
  /\ Pieces \cap {" ", "+", "-"} = {}
  /\ \A c \in Commands :
       /\ c.text \in Seq(Pieces) /\ c.text # <<>>
       /\ \A i \in DOMAIN c.text : c.text[i] # Newline
       /\ Asks(c.text, c.asksFor)

VARIABLES
  client,       \* "open" or "gone"
  stream,       \* pieces sent and not yet read
  session,      \* where handleClient is
  request,      \* what the last read returned, normalized
  answer,       \* the response being made: its kind and sensor id
  lastCommand,
  counted,      \* history: the ids registered when "get" counted them
  notFound,     \* "Sensor <id> not found" was logged for this request
  sends,        \* commands sent so far
  pending,      \* history: the commands sent and not answered
  misframed,    \* history: a read returned other than one whole command
  leftEarly     \* history: the client left before it had all answers

sessionVars == <<client, stream, session, request, answer, lastCommand, counted,
                 notFound, sends, pending, misframed, leftEarly>>

tcpVars == <<monitorVars, sessionVars>>

TcpInit ==
  /\ MonitorInit
  /\ client = "open"
  /\ stream = <<>>
  /\ session = "read"
  /\ request = <<>>
  /\ answer = NoAnswer
  /\ lastCommand = <<>>
  /\ counted = {}
  /\ notFound = FALSE
  /\ sends = 0
  /\ pending = <<>>
  /\ misframed = FALSE
  /\ leftEarly = FALSE

-----------------------------------------------------------------------------
\* The client.

sendCommand(c) ==
  /\ client = "open"
  /\ sends < MaxAsked
  /\ stream' = stream \o c.text \o <<Newline>>
  /\ sends' = sends + 1
  /\ pending' = IF misframed THEN pending ELSE Append(pending, c)
  /\ UNCHANGED <<monitorVars, client, session, request, answer, lastCommand,
                 counted, notFound, misframed, leftEarly>>

leave ==
  /\ client = "open"
  /\ client' = "gone"
  /\ leftEarly' = (pending # <<>>)
  /\ UNCHANGED <<monitorVars, stream, session, request, answer, lastCommand,
                 counted, notFound, sends, pending, misframed>>

-----------------------------------------------------------------------------
\* handleClient.

normalize_faulty(text) == text                 \* the newline stays

\* Newlines at the end are dropped, those in between are not.
normalize(text) ==
  LET kept == {i \in DOMAIN text : text[i] # Newline}
  IN  SubSeq(text, 1, IF kept = {} THEN 0 ELSE Max(kept))

\* One read, and processRequest up to its first test.
readRequest ==
  /\ session = "read" /\ stream # <<>>
  /\ \E n \in DOMAIN stream :
       LET text == SubSeq(stream, 1, n)
       IN  /\ stream' = SubSeq(stream, n + 1, Len(stream))
           /\ request' = normalize(text)
           /\ lastCommand' = normalize(text)
           /\ IF /\ ~misframed /\ pending # <<>>
                 /\ text = Head(pending).text \o <<Newline>>
              THEN UNCHANGED <<pending, misframed>>
              ELSE pending' = <<>> /\ misframed' = TRUE
  /\ session' = "process"
  /\ UNCHANGED <<monitorVars, client, answer, counted, notFound, sends, leftEarly>>

readNothing_faulty ==             \* < for <=: end of file is an empty request
  /\ session = "read" /\ stream = <<>> /\ client = "gone"
  /\ session' = "process"
  /\ request' = <<>>
  /\ lastCommand' = <<>>
  /\ UNCHANGED <<monitorVars, client, stream, answer, counted, notFound, sends,
                 pending, misframed, leftEarly>>

\* read returns 0 or an error: the session ends.
readNothing ==
  /\ session = "read" /\ client = "gone"
  /\ session' = "closed"
  /\ UNCHANGED <<monitorVars, client, stream, request, answer, lastCommand,
                 counted, notFound, sends, pending, misframed, leftEarly>>

\* processRequest returns a response.
respond(kind) ==
  /\ answer' = Answer(kind, 0)
  /\ session' = "write"
  /\ UNCHANGED <<monitorVars, client, stream, request, lastCommand, counted,
                 notFound, sends, pending, misframed, leftEarly>>

\* processRequest calls the monitor: what the monitor does is another conjunct.
callMonitor(kind, id) ==
  /\ answer' = Answer(kind, id)
  /\ session' = "report"
  /\ UNCHANGED <<client, stream, request, lastCommand, counted, notFound, sends,
                 pending, misframed, leftEarly>>

processRequest ==
  /\ session = "process"
  /\ \/ request = help   /\ respond("help")
     \/ request = list   /\ sensorList    /\ callMonitor("list", 0)
     \/ request = health /\ healthSummary /\ callMonitor("health", 0)
     \/ request = stats  /\ getStats      /\ callMonitor("stats", 0)
     \/ request \notin {help, list, health, stats} /\ ~IsGet(request) /\ respond("unknown")

-----------------------------------------------------------------------------
\* The command "get ": parseId, then the number of sensors, then the details.

invalidId ==
  /\ session = "process" /\ IsGet(request) /\ IdThrows(request)
  /\ respond("invalid")

Missing_faulty(id) == id >= Cardinality(DOMAIN sensors)

Missing(id) == id > Cardinality(DOMAIN sensors)

countSensors ==
  /\ session = "process" /\ IsGet(request) /\ ~IdThrows(request)
  /\ counted' = DOMAIN sensors
  /\ notFound' = Missing(parseId(request))
  /\ session' = "details"
  /\ UNCHANGED <<monitorVars, client, stream, request, answer, lastCommand, sends,
                 pending, misframed, leftEarly>>

details ==
  /\ session = "details"
  /\ sensorDetails(parseId(request))
  /\ callMonitor("details", parseId(request))

-----------------------------------------------------------------------------
\* The monitor works on its report and returns it.
workOnReport ==
  /\ session = "report" /\ report # "idle"
  /\ getStats \/ healthSummary \/ printRow
  /\ UNCHANGED sessionVars

finishReport ==
  /\ session = "report"
  /\ returnReport
  /\ session' = "write"
  /\ UNCHANGED <<client, stream, request, answer, lastCommand, counted, notFound,
                 sends, pending, misframed, leftEarly>>

\* The loop of writes.
EndRequest(next) ==
  /\ session' = next
  /\ request' = <<>>
  /\ answer' = NoAnswer
  /\ counted' = {}
  /\ notFound' = FALSE
  /\ UNCHANGED <<monitorVars, client, stream, lastCommand, sends, misframed,
                 leftEarly>>

writeResponse ==
  /\ session = "write"
  /\ pending' = IF pending = <<>> THEN <<>> ELSE Tail(pending)
  /\ EndRequest("read")

\* "Failed to send response", or SIGPIPE.
writeFails ==
  /\ session = "write" /\ client = "gone"
  /\ \E next \in {"closed", "killed"} : EndRequest(next)
  /\ UNCHANGED pending

tcpThread ==
  \/ readRequest
  \/ readNothing
  \/ processRequest
  \/ invalidId
  \/ countSensors
  \/ details
  \/ workOnReport
  \/ finishReport
  \/ writeResponse
  \/ writeFails

otherThreads == Next /\ UNCHANGED <<locals, sessionVars>>

\* The model ends with the session, or with the process.
Open == session \notin {"closed", "killed"}

TcpNext ==
  /\ Open
  /\ \/ otherThreads
     \/ \E c \in Commands : sendCommand(c)
     \/ leave
     \/ tcpThread

TcpSpec == TcpInit /\ [][TcpNext]_tcpVars

\* What the dashboard shows.
getLastCommand == IF lastCommand = <<>> THEN <<"None">> ELSE lastCommand

-----------------------------------------------------------------------------
\* Properties.

\* Every variable of the session keeps its type, and the monitor works exactly
\* while a session waits for its report.
TcpTypeOK ==
  /\ MonitorTypeOK
  /\ client \in {"open", "gone"}
  /\ session \in {"read", "process", "details", "report", "write", "closed", "killed"}
  /\ report # "idle" <=> session = "report"
  /\ answer.id \in 0 .. IntMax
  /\ counted \subseteq Sensors
  /\ pending \in Seq(Commands) /\ Len(pending) <= sends /\ sends <= MaxAsked
  /\ {notFound, misframed, leftEarly} \subseteq BOOLEAN

\* As long as every read returned one whole command, the commands are answered
\* one by one, in order, each with what it asked for, and the dashboard shows
\* the command being answered.  (TCP does not promise such reads.)
WholeCommandsAnswered ==
  session = "write" /\ ~misframed =>
    /\ pending # <<>>
    /\ answer = Head(pending).asksFor
    /\ getLastCommand = Head(pending).text

\* While the sensors have the ids 1 .. n, the log agrees with the answer to
\* "get": what is not found was logged as such, and a sensor logged as not found
\* is shown only when its first packet came between counting and copying.
NotFoundLogged ==
  session = "report" /\ answer.kind = "details"
    /\ counted = 1 .. Cardinality(counted) =>
       \/ notFound /\ answer.id \notin counted
       \/ ~notFound /\ answer.id \in DOMAIN snapshot

\* A client that leaves after it has all its answers does no harm: the process
\* can be killed only when it left early or TCP split a command.
PatientClientHarmless == session = "killed" => leftEarly \/ misframed
=============================================================================
