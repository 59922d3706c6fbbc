-------------------------- MODULE TcpSessionProofs --------------------------
(***************************************************************************)
(* Proofs about a session of the TCP server, for every set of commands,    *)
(* every way TCP splits what the client sends, and whatever the other      *)
(* threads do to the registry in between.                                  *)
(***************************************************************************)
EXTENDS TcpSession, MonitorProofs

USE GatewayAssumption, MonitorAssumption

-----------------------------------------------------------------------------
\* Texts.

\* A nonempty set of numbers up to n has a greatest one.
LEMMA MaxInSet ==
  ASSUME NEW n \in Nat, NEW T \in SUBSET (0 .. n), T # {}
  PROVE  Max(T) \in T /\ \A y \in T : y <= Max(T)
<1> DEFINE U == {m \in Nat : n - m \in T}
<1>1. U \in SUBSET Nat /\ U # {}
  <2>1. PICK x \in T : TRUE
    OBVIOUS
  <2>2. n - x \in Nat /\ n - (n - x) = x
    BY <2>1
  <2> QED
    BY <2>1, <2>2
<1>2. PICK m \in U : \A y \in U : m <= y
  BY <1>1, LeastOfSome
<1>3. ASSUME NEW y \in T PROVE n - m >= y
  <2>1. n - y \in U
    <3>1. n - y \in Nat /\ n - (n - y) = y
      OBVIOUS
    <3> QED
      BY <3>1
  <2>2. y \in Nat /\ m \in Nat
    OBVIOUS
  <2>3. m <= n - y
    BY <1>2, <2>1
  <2> QED
    BY <2>2, <2>3
<1>4. n - m \in T
  BY <1>2
<1>5. \E x \in T : \A y \in T : x >= y
  BY <1>3, <1>4
<1>6. Max(T) \in T /\ \A y \in T : Max(T) >= y
  BY <1>5 DEF Max
<1> QED
  BY <1>6

\* A prefix of a text is a text.
LEMMA Prefix ==
  ASSUME NEW S, NEW s \in Seq(S), NEW n \in 0 .. Len(s)
  PROVE  /\ SubSeq(s, 1, n) \in Seq(S)
         /\ Len(SubSeq(s, 1, n)) = n
         /\ \A i \in 1 .. n : SubSeq(s, 1, n)[i] = s[i]
OBVIOUS

LEMMA OneMore ==
  ASSUME NEW S, NEW s \in Seq(S), NEW x \in S
  PROVE  /\ s \o <<x>> \in Seq(S)
         /\ Len(s \o <<x>>) = Len(s) + 1
         /\ \A i \in 1 .. Len(s) : (s \o <<x>>)[i] = s[i]
         /\ (s \o <<x>>)[Len(s) + 1] = x
OBVIOUS

\* Dropping the newlines at the end leaves a text, and a command as it is.
LEMMA Normalized ==
  ASSUME NEW text \in Seq(Pieces)
  PROVE  /\ normalize(text) \in Seq(Pieces)
         /\ \A c \in Commands : text = c.text \o <<Newline>>
                                  => normalize(text) = c.text
<1> DEFINE kept == {i \in DOMAIN text : text[i] # Newline}
           n == IF kept = {} THEN 0 ELSE Max(kept)
<1>1. Len(text) \in Nat /\ DOMAIN text = 1 .. Len(text)
  OBVIOUS
<1>2. kept \in SUBSET (0 .. Len(text))
  BY <1>1
<1>3. n \in 0 .. Len(text)
  <2>1. CASE kept = {}
    BY <1>1, <2>1
  <2>2. CASE kept # {}
    <3>1. Max(kept) \in kept
      BY <1>1, <1>2, <2>2, MaxInSet
    <3> QED
      BY <1>1, <1>2, <2>2, <3>1
  <2> QED
    BY <2>1, <2>2
<1>4. normalize(text) = SubSeq(text, 1, n)
  BY DEF normalize
<1>5. ASSUME NEW c \in Commands, text = c.text \o <<Newline>>
      PROVE  SubSeq(text, 1, n) = c.text
  <2>1. /\ c.text \in Seq(Pieces) /\ c.text # <<>>
        /\ \A i \in DOMAIN c.text : c.text[i] # Newline
    BY CommandAssumption
  <2> DEFINE t == c.text
  <2> HIDE DEF t
  <2>2. /\ t \in Seq(Pieces) /\ t # <<>> /\ text = t \o <<Newline>>
        /\ \A i \in DOMAIN t : t[i] # Newline
    BY <1>5, <2>1 DEF t
  <2>3. Len(t) \in Nat /\ Len(t) # 0 /\ DOMAIN t = 1 .. Len(t)
    BY <2>2
  <2>4. /\ Len(text) = Len(t) + 1
        /\ \A i \in 1 .. Len(t) : text[i] = t[i]
        /\ text[Len(t) + 1] = Newline
    <3>1. Newline \in Pieces
      BY DEF Pieces
    <3>2. /\ Len(t \o <<Newline>>) = Len(t) + 1
          /\ \A i \in 1 .. Len(t) : (t \o <<Newline>>)[i] = t[i]
          /\ (t \o <<Newline>>)[Len(t) + 1] = Newline
      BY <2>2, <3>1, OneMore
    <3> QED
      BY <2>2, <3>2, Zenon
  <2>5. kept = 1 .. Len(t)
    BY <1>1, <2>2, <2>3, <2>4
  <2>6. n = Len(t)
    <3>1. Len(t) \in kept
      BY <2>3, <2>5
    <3>2. Max(kept) \in kept /\ \A y \in kept : y <= Max(kept)
      BY <1>1, <1>2, <3>1, MaxInSet
    <3>3. Max(kept) \in 1 .. Len(t) /\ Len(t) <= Max(kept)
      BY <2>5, <3>1, <3>2
    <3> QED
      BY <2>3, <3>1, <3>3
  <2>7. /\ SubSeq(text, 1, n) \in Seq(Pieces)
        /\ Len(SubSeq(text, 1, n)) = n
        /\ \A i \in 1 .. n : SubSeq(text, 1, n)[i] = text[i]
    BY <1>3, Prefix
  <2> HIDE DEF n
  <2> DEFINE u == SubSeq(text, 1, n)
  <2>8. /\ u \in Seq(Pieces) /\ Len(u) = Len(t)
        /\ \A i \in 1 .. Len(t) : u[i] = t[i]
    BY <2>4, <2>6, <2>7
  <2> HIDE DEF u
  <2>9. u = t
    BY <2>2, <2>8
  <2> QED
    BY <2>9 DEF u, t
<1>6. SubSeq(text, 1, n) \in Seq(Pieces)
  BY <1>3, Prefix
<1> HIDE DEF n
<1> QED
  BY <1>4, <1>5, <1>6

-----------------------------------------------------------------------------
\* The number that parseId reads.

IsValue(f, digits, n) ==
  f = [k \in 0 .. n |-> IF k = 0 THEN 0 ELSE 10 * f[k - 1] + Digits[digits[k]]]

\* The recursive function in parseId exists.
LEMMA ValueExists ==
  ASSUME NEW digits, NEW n \in Nat
  PROVE  \E f : IsValue(f, digits, n)
<1> DEFINE T == {m \in Nat : ~ \E f : IsValue(f, digits, m)}
<1> SUFFICES ASSUME T # {}
             PROVE  FALSE
  OBVIOUS
<1>1. PICK m \in T : \A y \in T : m <= y
  BY LeastOfSome
<1>2. m # 0
  <2>1. IsValue([k \in 0 .. 0 |-> 0], digits, 0)
    BY DEF IsValue
  <2> QED
    BY <2>1
<1>3. m - 1 \in Nat /\ m - 1 \notin T
  BY <1>1, <1>2
<1>4. PICK f : IsValue(f, digits, m - 1)
  BY <1>3
<1> DEFINE g == [k \in 0 .. m |->
                   IF k = m THEN 10 * f[m - 1] + Digits[digits[m]] ELSE f[k]]
<1>5. ASSUME NEW k \in 0 .. m
      PROVE  g[k] = IF k = 0 THEN 0 ELSE 10 * g[k - 1] + Digits[digits[k]]
  <2>1. CASE k = m
    BY <1>2, <1>3, <2>1
  <2>2. CASE k # m
    <3>1. f[k] = IF k = 0 THEN 0 ELSE 10 * f[k - 1] + Digits[digits[k]]
      BY <1>3, <1>4, <2>2 DEF IsValue
    <3> QED
      BY <1>3, <2>2, <3>1
  <2> QED
    BY <2>1, <2>2
<1>6. IsValue(g, digits, m)
  BY <1>5 DEF IsValue
<1> QED
  BY <1>6

\* Its values are numbers.
LEMMA ValueType ==
  ASSUME NEW n \in Nat, NEW digits, \A i \in 1 .. n : Digits[digits[i]] \in 0 .. 9,
         NEW f, IsValue(f, digits, n)
  PROVE  f[n] \in Nat
<1> DEFINE T == {j \in Nat : j <= n /\ f[j] \notin Nat}
<1> SUFFICES ASSUME T # {}
             PROVE  FALSE
  OBVIOUS
<1>1. PICK j \in T : \A y \in T : j <= y
  BY LeastOfSome
<1>2. \A i \in 0 .. n :
        f[i] = IF i = 0 THEN 0 ELSE 10 * f[i - 1] + Digits[digits[i]]
  BY DEF IsValue
<1>3. j \in 0 .. n /\ f[j] \notin Nat
  BY <1>1
<1>4. j # 0
  BY <1>2, <1>3
<1>5. f[j - 1] \in Nat
  BY <1>1, <1>4
<1>6. Digits[digits[j]] \in 0 .. 9
  BY <1>3, <1>4
<1>7. f[j] = 10 * f[j - 1] + Digits[digits[j]]
  BY <1>2, <1>3, <1>4
<1> QED
  BY <1>3, <1>5, <1>6, <1>7

\* The digits of a "get" are digits.
LEMMA DigitsOnly ==
  ASSUME NEW text \in Seq(Pieces), text # <<>>
  PROVE  /\ Len(IdDigits(text)) \in Nat
         /\ \A i \in 1 .. Len(IdDigits(text)) : Digits[IdDigits(text)[i]] \in 0 .. 9
<1>1. Tail(text) \in Seq(Pieces)
  OBVIOUS
<1> DEFINE rest == Tail(text)
           ends == {n \in 0 .. Len(rest) :
                      \A i \in 1 .. n : rest[i] \in DOMAIN Digits}
<1>2. IdDigits(text) = SubSeq(rest, 1, Max(ends))
  BY DEF IdDigits
<1> HIDE DEF rest
<1>3. rest \in Seq(Pieces) /\ Len(rest) \in Nat
  BY <1>1 DEF rest
<1>4. 0 \in ends
  BY <1>3
<1>5. Max(ends) \in ends
  BY <1>3, <1>4, MaxInSet
<1>6. /\ Max(ends) \in 0 .. Len(rest)
      /\ \A i \in 1 .. Max(ends) : rest[i] \in DOMAIN Digits
  BY <1>5
<1>7. ASSUME NEW d \in DOMAIN Digits PROVE Digits[d] \in 0 .. 9
  BY DEF Digits
<1>8. /\ Len(SubSeq(rest, 1, Max(ends))) = Max(ends)
      /\ \A i \in 1 .. Max(ends) : SubSeq(rest, 1, Max(ends))[i] = rest[i]
  BY <1>3, <1>6, Prefix
<1> HIDE DEF ends
<1>9. \A i \in 1 .. Max(ends) :
        SubSeq(rest, 1, Max(ends))[i] \in DOMAIN Digits
  BY <1>6, <1>8
<1>10. \A i \in 1 .. Len(SubSeq(rest, 1, Max(ends))) :
         Digits[SubSeq(rest, 1, Max(ends))[i]] \in 0 .. 9
  BY <1>7, <1>8, <1>9
<1> QED
  BY <1>2, <1>6, <1>8, <1>10

LEMMA ParsedId ==
  ASSUME NEW text \in Seq(Pieces), text # <<>>
  PROVE  /\ parseId(text) \in Nat
         /\ ~IdThrows(text) => parseId(text) \in 1 .. IntMax
<1> DEFINE digits == IdDigits(text)
           n == Len(digits)
<1>1. n \in Nat /\ \A i \in 1 .. n : Digits[digits[i]] \in 0 .. 9
  BY DigitsOnly
<1> HIDE DEF digits
<1> DEFINE f == CHOOSE f : IsValue(f, digits, n)
<1>2. IsValue(f, digits, n)
  BY <1>1, ValueExists
<1>3. parseId(text) = f[n]
  BY DEF parseId, IsValue, digits
<1> HIDE DEF f, n
<1>4. f[n] \in Nat
  BY <1>1, <1>2, ValueType
<1>5. IntMax \in Nat
  BY CommandAssumption
<1>6. parseId(text) \in Nat
  BY <1>3, <1>4
<1> HIDE DEF parseId
<1> QED
  BY <1>5, <1>6 DEF IdThrows
\* A text asks for one answer only.
LEMMA OneAnswer ==
  ASSUME NEW text, NEW a, NEW b, Asks(text, a), Asks(text, b)
  PROVE  a = b
<1>1. /\ DOMAIN Simple = {"help", "list", "health", "stats"}
      /\ Simple["help"] = help /\ Simple["list"] = list
      /\ Simple["health"] = health /\ Simple["stats"] = stats
  BY DEF Simple
<1>2. \A j, k \in DOMAIN Simple : Simple[j] = Simple[k] => j = k
  <2>1. /\ help[1] = "he" /\ list[1] = "li" /\ health[1] = "he" /\ stats[1] = "st"
        /\ help[2] = "lp" /\ health[2] = "alth"
    BY DEF help, list, health, stats
  <2>2. "he" # "li" /\ "he" # "st" /\ "li" # "st" /\ "lp" # "alth"
    OBVIOUS
  <2>3. /\ help # list /\ help # health /\ help # stats
        /\ list # health /\ list # stats /\ health # stats
    BY <2>1, <2>2, Zenon
  <2> QED
    BY <1>1, <2>3, Zenon
<1>3. \A k \in DOMAIN Simple : ~IsGet(Simple[k])
  <2>1. /\ Head(help) = "he" /\ Head(list) = "li"
        /\ Head(health) = "he" /\ Head(stats) = "st"
    BY DEF help, list, health, stats
  <2>2. "he" # "get " /\ "li" # "get " /\ "st" # "get "
    OBVIOUS
  <2>3. ~IsGet(help) /\ ~IsGet(list) /\ ~IsGet(health) /\ ~IsGet(stats)
    BY <2>1, <2>2, Zenon DEF IsGet
  <2> QED
    BY <1>1, <2>3, Zenon
<1> HIDE DEF Simple
<1>4. CASE \E k \in DOMAIN Simple : text = Simple[k]
  <2>1. PICK k \in DOMAIN Simple : text = Simple[k]
    BY <1>4
  <2>2. ~IsGet(text)
    BY <1>3, <2>1, Zenon
  <2>3. ASSUME NEW x, Asks(text, x) PROVE x = Answer(k, 0)
    <3>1. PICK j \in DOMAIN Simple : text = Simple[j] /\ x = Answer(j, 0)
      BY <2>1, <2>2, <2>3, Zenon DEF Asks
    <3> QED
      BY <1>2, <2>1, <3>1, Zenon
  <2> QED
    BY <2>3, Zenon
<1>5. CASE ~ \E k \in DOMAIN Simple : text = Simple[k]
  <2>1. ASSUME NEW x, Asks(text, x)
        PROVE  \/ IsGet(text) /\ IdThrows(text) /\ x = Answer("invalid", 0)
               \/ IsGet(text) /\ ~IdThrows(text)
                    /\ x = Answer("details", parseId(text))
               \/ ~IsGet(text) /\ x = Answer("unknown", 0)
    BY <1>5, <2>1, Zenon DEF Asks
  <2>2. CASE ~IsGet(text)
    <3>1. a = Answer("unknown", 0) /\ b = Answer("unknown", 0)
      BY <2>1, <2>2, Zenon
    <3> QED
      BY <3>1, Zenon
  <2>3. CASE IsGet(text) /\ IdThrows(text)
    <3>1. a = Answer("invalid", 0) /\ b = Answer("invalid", 0)
      BY <2>1, <2>3, Zenon
    <3> QED
      BY <3>1, Zenon
  <2>4. CASE IsGet(text) /\ ~IdThrows(text)
    <3>1. /\ a = Answer("details", parseId(text))
          /\ b = Answer("details", parseId(text))
      BY <2>1, <2>4, Zenon
    <3> QED
      BY <3>1, Zenon
  <2> QED
    BY <2>2, <2>3, <2>4, Zenon
<1> QED
  BY <1>4, <1>5

-----------------------------------------------------------------------------
\* The reports of a session are those of Monitor.

LEMMA SessionStep ==
  ASSUME [TcpNext]_tcpVars
  PROVE  [ReportStep]_monitorVars
<1>1. CASE otherThreads
  BY <1>1 DEF otherThreads, ReportStep
<1>2. CASE processRequest \/ details \/ workOnReport \/ finishReport
  BY <1>2 DEF processRequest, details, workOnReport, finishReport, respond,
              ReportStep
<1>3. CASE UNCHANGED monitorVars
  BY <1>3
<1> QED
  BY <1>1, <1>2, <1>3
     DEF TcpNext, tcpVars, sendCommand, leave, tcpThread, readRequest,
         readNothing, invalidId, respond, countSensors, writeResponse,
         writeFails, EndRequest

LEMMA SessionsReport == TcpSpec => ReportSpec
<1>1. TcpInit => MonitorInit
  BY DEF TcpInit
<1>2. [TcpNext]_tcpVars => [ReportStep]_monitorVars
  BY SessionStep
<1> QED
  BY <1>1, <1>2, PTL DEF TcpSpec, ReportSpec

\* The numbers of a report that a client gets account for each other, whatever
\* happens between the calls of processRequest (getStats, healthSummary).
THEOREM SessionReportsAddUp == TcpSpec => []ReportsCovered
BY SessionsReport, ReportsCount, PTL

\* No row that a client gets shows a longer silence than there was.
THEOREM SessionAgesWithinSilence ==
  ASSUME ~ClockSteps
  PROVE  TcpSpec => []AgesNotOverstated
BY SessionsReport, AgesBounded, PTL

-----------------------------------------------------------------------------
\* The inductive invariant of the session.

\* The monitor works exactly while the session waits for its report.
Waits == report # "idle" <=> session = "report"

SessionTypes ==
  /\ client \in {"open", "gone"}
  /\ session \in {"read", "process", "details", "report", "write", "closed", "killed"}
  /\ stream \in Seq(Pieces) /\ request \in Seq(Pieces)
  /\ answer.id \in 0 .. IntMax
  /\ counted \subseteq Sensors
  /\ pending \in Seq(Commands) /\ Len(pending) <= sends
  /\ sends \in Nat /\ sends <= MaxAsked

Flags == notFound \in BOOLEAN /\ misframed \in BOOLEAN /\ leftEarly \in BOOLEAN

\* Between counting and the report the registry only grows, so what was counted
\* is in the copy.
Lookup ==
  /\ IsFiniteSet(counted)
  /\ session = "details" =>
       /\ request # <<>> /\ ~IdThrows(request)
       /\ counted \subseteq DOMAIN sensors
       /\ notFound <=> parseId(request) > Cardinality(counted)
  /\ session = "report" /\ answer.kind = "details" =>
       /\ answer.id \in 1 .. IntMax
       /\ counted \subseteq DOMAIN snapshot
       /\ notFound <=> answer.id > Cardinality(counted)

\* While TCP has kept the commands whole, the one being answered is the first
\* of those that wait for an answer.
InTurn ==
  ~misframed =>
    /\ session \in {"process", "details", "report", "write"} =>
         /\ pending # <<>>
         /\ request = Head(pending).text /\ lastCommand = request
    /\ session = "details" => IsGet(request) /\ ~IdThrows(request)
    /\ session \in {"report", "write"} => Asks(request, answer)

\* A client that left with all its answers has none to come.
LeftDone ==
  /\ client = "gone" => leftEarly \/ misframed \/ pending = <<>>
  /\ session = "killed" => leftEarly \/ misframed

LEMMA WaitsStep ==
  ASSUME Waits, [TcpNext]_tcpVars
  PROVE  Waits'
<1>1. CASE processRequest
  BY <1>1 DEF Waits, processRequest, respond, callMonitor, sensorList, getStats,
              healthSummary, getSensors, countHealthSensors, monitorVars, locals
<1>2. CASE details
  BY <1>2 DEF Waits, details, sensorDetails, getSensors, callMonitor
<1>3. CASE workOnReport
  BY <1>3 DEF Waits, workOnReport, getStats, healthSummary, printRow, getSensors,
              countHealthSensors, sessionVars
<1>4. CASE finishReport
  BY <1>4 DEF Waits, finishReport, returnReport
<1>5. CASE UNCHANGED report
  <2>1. /\ ~processRequest /\ ~details /\ ~workOnReport /\ ~finishReport
         => (session' = "report" <=> session = "report")
    BY DEF TcpNext, tcpVars, otherThreads, sendCommand, leave, tcpThread,
           readRequest, readNothing, invalidId, respond, countSensors,
           writeResponse, writeFails, EndRequest, sessionVars
  <2> QED
    BY <1>1, <1>2, <1>3, <1>4, <1>5, <2>1 DEF Waits
<1> QED
  BY <1>1, <1>2, <1>3, <1>4, <1>5
     DEF TcpNext, tcpVars, otherThreads, sendCommand, leave, tcpThread,
         readRequest, readNothing, invalidId, respond, countSensors,
         writeResponse, writeFails, EndRequest, monitorVars, locals
LEMMA TypesStep ==
  ASSUME TypeOK, SessionTypes, Lookup, [TcpNext]_tcpVars
  PROVE  SessionTypes'
<1>1. IntMax \in Nat /\ MaxAsked \in Nat
  BY CommandAssumption
<1>2. /\ client' \in {"open", "gone"}
      /\ session' \in {"read", "process", "details", "report", "write", "closed",
                       "killed"}
  BY DEF SessionTypes, TcpNext, tcpVars, otherThreads, sendCommand, leave,
         tcpThread, readRequest, readNothing, processRequest, respond,
         callMonitor, invalidId, countSensors, details, workOnReport,
         finishReport, writeResponse, writeFails, EndRequest, sessionVars
<1>3. counted' \subseteq Sensors
  BY DEF SessionTypes, TypeOK, TcpNext, tcpVars, otherThreads, sendCommand, leave,
         tcpThread, readRequest, readNothing, processRequest, respond,
         callMonitor, invalidId, countSensors, details, workOnReport,
         finishReport, writeResponse, writeFails, EndRequest, sessionVars
<1>4. answer'.id \in 0 .. IntMax
  <2>1. answer.id \in 0 .. IntMax
    BY DEF SessionTypes
  <2>2. CASE details
    <3>1. answer'.id = parseId(request)
      BY <2>2 DEF details, callMonitor, Answer
    <3>2. parseId(request) \in 1 .. IntMax
      BY <2>2, ParsedId DEF details, Lookup, SessionTypes
    <3> QED
      BY <1>1, <3>1, <3>2
  <2>3. CASE ~details
    <3>1. answer' = answer \/ \E kind : answer' = Answer(kind, 0)
      BY <2>3 DEF TcpNext, tcpVars, otherThreads, sendCommand, leave,
           tcpThread, readRequest, readNothing, processRequest, respond,
           callMonitor, invalidId, countSensors, workOnReport,
           finishReport, writeResponse, writeFails, EndRequest, sessionVars,
           NoAnswer
    <3> QED
      BY <1>1, <2>1, <3>1 DEF Answer
  <2> QED
    BY <2>2, <2>3
<1>5. stream' \in Seq(Pieces) /\ request' \in Seq(Pieces)
  <2>1. stream \in Seq(Pieces) /\ request \in Seq(Pieces)
    BY DEF SessionTypes
  <2>2. ASSUME NEW c \in Commands, sendCommand(c)
        PROVE  stream' \in Seq(Pieces) /\ request' \in Seq(Pieces)
    <3>1. c.text \in Seq(Pieces)
      BY CommandAssumption
    <3>2. Newline \in Pieces
      BY DEF Pieces
    <3> DEFINE t == c.text
    <3>3. stream' = stream \o t \o <<Newline>> /\ request' = request
      BY <2>2 DEF sendCommand
    <3> HIDE DEF t
    <3>4. t \in Seq(Pieces)
      BY <3>1 DEF t
    <3>5. stream \o t \in Seq(Pieces)
      BY <2>1, <3>4
    <3> QED
      BY <2>1, <3>2, <3>3, <3>5, OneMore
  <2>3. CASE readRequest
    <3>1. PICK n \in DOMAIN stream :
            /\ stream' = SubSeq(stream, n + 1, Len(stream))
            /\ request' = normalize(SubSeq(stream, 1, n))
      BY <2>3 DEF readRequest
    <3>2. n \in 0 .. Len(stream) /\ Len(stream) \in Nat /\ n \in 1 .. Len(stream)
      BY <2>1
    <3>3. SubSeq(stream, 1, n) \in Seq(Pieces)
      BY <2>1, <3>2, Prefix
    <3>4. SubSeq(stream, n + 1, Len(stream)) \in Seq(Pieces)
      BY <2>1, <3>2
    <3> QED
      BY <3>1, <3>3, <3>4, Normalized
  <2>4. CASE UNCHANGED stream /\ (UNCHANGED request \/ request' = <<>>)
    <3>1. <<>> \in Seq(Pieces)
      OBVIOUS
    <3> QED
      BY <2>1, <2>4, <3>1, Zenon
  <2> QED
    BY <2>2, <2>3, <2>4
       DEF TcpNext, tcpVars, otherThreads, leave,
           tcpThread, readNothing, processRequest, respond,
           callMonitor, invalidId, countSensors, details, workOnReport,
           finishReport, writeResponse, writeFails, EndRequest, sessionVars
<1>6. /\ pending' \in Seq(Commands) /\ Len(pending') <= sends'
      /\ sends' \in Nat /\ sends' <= MaxAsked
  <2>1. /\ pending \in Seq(Commands) /\ Len(pending) <= sends
        /\ sends \in Nat /\ sends <= MaxAsked /\ Len(pending) \in Nat
    BY DEF SessionTypes
  <2>2. ASSUME NEW c \in Commands, sendCommand(c)
        PROVE  /\ pending' \in Seq(Commands) /\ Len(pending') <= sends'
               /\ sends' \in Nat /\ sends' <= MaxAsked
    <3>1. /\ Append(pending, c) \in Seq(Commands)
          /\ Len(Append(pending, c)) = Len(pending) + 1
      BY <2>1
    <3>2. /\ pending' \in {pending, Append(pending, c)}
          /\ sends < MaxAsked /\ sends' = sends + 1
      BY <2>2 DEF sendCommand
    <3> QED
      BY <1>1, <2>1, <3>1, <3>2
  <2>3. ASSUME sends' = sends,
               \/ pending' = pending
               \/ pending' = <<>>
               \/ pending # <<>> /\ pending' = Tail(pending)
        PROVE  /\ pending' \in Seq(Commands) /\ Len(pending') <= sends'
               /\ sends' \in Nat /\ sends' <= MaxAsked
    <3>1. pending # <<>> => /\ Tail(pending) \in Seq(Commands)
                            /\ Len(Tail(pending)) = Len(pending) - 1
      BY <2>1
    <3>2. CASE pending' = <<>>
      BY <2>1, <2>3, <3>2
    <3>3. CASE pending # <<>> /\ pending' = Tail(pending)
      BY <2>1, <2>3, <3>1, <3>3
    <3> QED
      BY <2>1, <2>3, <3>2, <3>3
  <2> QED
    BY <2>2, <2>3
       DEF TcpNext, tcpVars, otherThreads, leave, readRequest,
           tcpThread, readNothing, processRequest, respond,
           callMonitor, invalidId, countSensors, details, workOnReport,
           finishReport, writeResponse, writeFails, EndRequest, sessionVars
<1> QED
  BY <1>2, <1>3, <1>4, <1>5, <1>6 DEF SessionTypes

LEMMA FlagsStep ==
  ASSUME Flags, [TcpNext]_tcpVars
  PROVE  Flags'
<1>1. notFound' \in BOOLEAN
  <2>1. notFound \in BOOLEAN
    BY DEF Flags
  <2>2. Missing(parseId(request)) \in BOOLEAN
    BY DEF Missing
  <2> QED
    BY <2>1, <2>2
       DEF TcpNext, tcpVars, otherThreads, sendCommand, leave, readRequest,
           tcpThread, readNothing, processRequest, respond,
           callMonitor, invalidId, countSensors, details, workOnReport,
           finishReport, writeResponse, writeFails, EndRequest, sessionVars
<1>2. misframed' \in BOOLEAN
  <2>1. misframed \in BOOLEAN
    BY DEF Flags
  <2> QED
    BY <2>1
       DEF TcpNext, tcpVars, otherThreads, sendCommand, leave, readRequest,
           tcpThread, readNothing, processRequest, respond,
           callMonitor, invalidId, countSensors, details, workOnReport,
           finishReport, writeResponse, writeFails, EndRequest, sessionVars
<1>3. leftEarly' \in BOOLEAN
  <2>1. leftEarly \in BOOLEAN
    BY DEF Flags
  <2> QED
    BY <2>1
       DEF TcpNext, tcpVars, otherThreads, sendCommand, leave, readRequest,
           tcpThread, readNothing, processRequest, respond,
           callMonitor, invalidId, countSensors, details, workOnReport,
           finishReport, writeResponse, writeFails, EndRequest, sessionVars
<1> QED
  BY <1>1, <1>2, <1>3 DEF Flags
LEMMA LookupStep ==
  ASSUME TypeOK, FiniteRegistry, SessionTypes, Waits, Lookup,
         [TcpNext]_tcpVars, Registered \subseteq Registered'
  PROVE  Lookup'
<1>1. /\ IsFiniteSet(counted)
      /\ session = "details" =>
           /\ request # <<>> /\ ~IdThrows(request)
           /\ counted \subseteq DOMAIN sensors
           /\ notFound <=> parseId(request) > Cardinality(counted)
      /\ session = "report" /\ answer.kind = "details" =>
           /\ answer.id \in 1 .. IntMax
           /\ counted \subseteq DOMAIN snapshot
           /\ notFound <=> answer.id > Cardinality(counted)
  BY DEF Lookup
<1>2. DOMAIN sensors \subseteq DOMAIN sensors'
  BY DEF Registered
<1>3. CASE countSensors
  <2>1. /\ counted' = DOMAIN sensors /\ session' = "details"
        /\ IsGet(request) /\ ~IdThrows(request) /\ request' = request
        /\ notFound' = Missing(parseId(request)) /\ sensors' = sensors
    BY <1>3 DEF countSensors, monitorVars, vars
  <2>2. IsFiniteSet(DOMAIN sensors)
    BY DEF FiniteRegistry, Registered
  <2> QED
    BY <2>1, <2>2 DEF Lookup, Missing, IsGet
<1>4. CASE details
  <2>1. /\ session = "details" /\ session' = "report"
        /\ answer' = Answer("details", parseId(request))
        /\ counted' = counted /\ notFound' = notFound
        /\ snapshot' = sensors
    BY <1>4 DEF details, callMonitor, sensorDetails, getSensors
  <2>2. answer'.id = parseId(request) /\ parseId(request) \in 1 .. IntMax
    BY <1>1, <2>1, ParsedId DEF Answer, SessionTypes
  <2> QED
    BY <1>1, <2>1, <2>2 DEF Lookup
<1>5. CASE processRequest
  <2>1. counted' = counted /\ session' # "details"
    BY <1>5 DEF processRequest, respond, callMonitor
  <2>2. session' = "report" => answer'.kind # "details"
    <3>1. session' = "report" =>
            \E kind \in {"list", "health", "stats"} : answer' = Answer(kind, 0)
      BY <1>5 DEF processRequest, respond, callMonitor
    <3> QED
      BY <3>1 DEF Answer
  <2> QED
    BY <1>1, <2>1, <2>2 DEF Lookup
<1>6. CASE workOnReport
  <2>1. UNCHANGED <<session, request, answer, counted, notFound>>
    BY <1>6 DEF workOnReport, sessionVars
  <2>2. session = "report" /\ snapshot' = snapshot
    BY <1>6 DEF workOnReport, getStats, healthSummary, printRow, getSensors,
                countHealthSensors
  <2> QED
    BY <1>1, <2>1, <2>2 DEF Lookup
<1>7. CASE session' \notin {"details", "report"} /\ (counted' = counted \/ counted' = {})
  BY <1>1, <1>7, FS_EmptySet DEF Lookup
<1>8. CASE UNCHANGED <<session, request, answer, counted, notFound, snapshot>>
  BY <1>1, <1>2, <1>8 DEF Lookup
<1> QED
  BY <1>3, <1>4, <1>5, <1>6, <1>7, <1>8
     DEF TcpNext, tcpVars, otherThreads, sendCommand, leave, readRequest,
         tcpThread, readNothing, respond, invalidId, finishReport,
         writeResponse, writeFails, EndRequest, sessionVars, monitorVars, locals

LEMMA Queueing ==
  ASSUME NEW S, NEW s \in Seq(S), s # <<>>, NEW x \in S
  PROVE  Append(s, x) # <<>> /\ Head(Append(s, x)) = Head(s)
OBVIOUS

\* What a session answers is what the first waiting command asked for.
LEMMA TurnStep ==
  ASSUME SessionTypes, InTurn, [TcpNext]_tcpVars
  PROVE  InTurn'
<1> DEFINE Busy == {"process", "details", "report", "write"}
<1>1. SUFFICES ASSUME ~misframed'
               PROVE  InTurn'
  BY DEF InTurn
<1>2. ~misframed
  BY <1>1
     DEF TcpNext, tcpVars, otherThreads, sendCommand, leave, readRequest,
         tcpThread, readNothing, processRequest, respond,
         callMonitor, invalidId, countSensors, details, workOnReport,
         finishReport, writeResponse, writeFails, EndRequest, sessionVars
<1>3. /\ session \in Busy =>
           /\ pending # <<>>
           /\ request = Head(pending).text /\ lastCommand = request
      /\ session = "details" => IsGet(request) /\ ~IdThrows(request)
      /\ session \in {"report", "write"} => Asks(request, answer)
  BY <1>2 DEF InTurn
<1>4. pending \in Seq(Commands)
  BY DEF SessionTypes
<1>5. ASSUME NEW c \in Commands, sendCommand(c)
      PROVE  InTurn'
  <2>1. /\ pending' = Append(pending, c)
        /\ UNCHANGED <<session, request, answer, lastCommand>>
    BY <1>2, <1>5 DEF sendCommand
  <2>2. pending # <<>> => pending' # <<>> /\ Head(pending') = Head(pending)
    BY <1>4, <2>1, Queueing
  <2> QED
    BY <1>3, <2>1, <2>2 DEF InTurn
<1>6. CASE readRequest
  <2>1. PICK n \in DOMAIN stream :
          /\ pending # <<>> /\ pending' = pending
          /\ SubSeq(stream, 1, n) = Head(pending).text \o <<Newline>>
          /\ request' = normalize(SubSeq(stream, 1, n))
          /\ lastCommand' = normalize(SubSeq(stream, 1, n))
    BY <1>1, <1>6 DEF readRequest
  <2>2. Head(pending) \in Commands
    BY <1>4, <2>1
  <2>3. SubSeq(stream, 1, n) \in Seq(Pieces)
    <3>1. stream \in Seq(Pieces)
      BY DEF SessionTypes
    <3>2. n \in 0 .. Len(stream)
      BY <3>1
    <3> QED
      BY <3>1, <3>2, Prefix
  <2>4. normalize(SubSeq(stream, 1, n)) = Head(pending).text
    BY <2>1, <2>2, <2>3, Normalized
  <2>5. session' = "process"
    BY <1>6 DEF readRequest
  <2> QED
    BY <2>1, <2>4, <2>5 DEF InTurn
<1>7. CASE processRequest \/ invalidId
  <2>1. /\ session = "process" /\ session' \in {"report", "write"}
        /\ UNCHANGED <<request, pending, lastCommand>>
    BY <1>7 DEF processRequest, invalidId, respond, callMonitor
  <2>2. Asks(request, answer')
    <3>1. CASE invalidId
      BY <3>1 DEF invalidId, respond, Asks
    <3>2. ASSUME NEW kind \in DOMAIN Simple, request = Simple[kind],
                 answer' = Answer(kind, 0)
          PROVE  Asks(request, answer')
      BY <3>2 DEF Asks
    <3>3. ASSUME \A kind \in DOMAIN Simple : request # Simple[kind],
                 ~IsGet(request), answer' = Answer("unknown", 0)
          PROVE  Asks(request, answer')
      BY <3>3 DEF Asks
    <3>4. /\ DOMAIN Simple = {"help", "list", "health", "stats"}
          /\ Simple["help"] = help /\ Simple["list"] = list
          /\ Simple["health"] = health /\ Simple["stats"] = stats
      BY DEF Simple
    <3>5. CASE processRequest
      BY <3>2, <3>3, <3>4, <3>5 DEF processRequest, respond, callMonitor
    <3> QED
      BY <1>7, <3>1, <3>5
  <2> QED
    BY <1>3, <2>1, <2>2 DEF InTurn
<1>8. CASE countSensors
  BY <1>3, <1>8 DEF countSensors, InTurn
<1>9. CASE details
  <2>1. /\ session = "details" /\ session' = "report"
        /\ answer' = Answer("details", parseId(request))
        /\ UNCHANGED <<request, pending, lastCommand>>
    BY <1>9 DEF details, callMonitor
  <2>2. Asks(request, answer')
    BY <1>3, <2>1 DEF Asks
  <2> QED
    BY <1>3, <2>1, <2>2 DEF InTurn
<1>10. CASE finishReport
  BY <1>3, <1>10 DEF finishReport, InTurn
<1>11. CASE session' \in {"read", "closed", "killed"}
  BY <1>11 DEF InTurn
<1>12. CASE UNCHANGED <<session, request, answer, lastCommand, pending>>
  BY <1>3, <1>12 DEF InTurn
<1> QED
  BY <1>5, <1>6, <1>7, <1>8, <1>9, <1>10, <1>11, <1>12
     DEF TcpNext, tcpVars, otherThreads, leave, tcpThread, readNothing,
         workOnReport, writeResponse, writeFails, EndRequest, sessionVars

LEMMA LeftStep ==
  ASSUME SessionTypes, InTurn, LeftDone, [TcpNext]_tcpVars
  PROVE  LeftDone'
<1>1. CASE leave
  <2>1. /\ client = "open" /\ client' = "gone"
        /\ UNCHANGED <<session, pending, misframed>>
    BY <1>1 DEF leave
  <2>2. leftEarly' \/ pending = <<>>
    BY <1>1 DEF leave
  <2>3. session # "killed"
    BY <2>1 DEF TcpNext, Open, tcpVars, sessionVars
  <2> QED
    BY <2>1, <2>2, <2>3 DEF LeftDone
<1>2. CASE writeFails
  <2>1. /\ client = "gone" /\ session = "write"
        /\ UNCHANGED <<client, leftEarly, misframed, pending>>
    BY <1>2 DEF writeFails, EndRequest
  <2>2. leftEarly \/ misframed
    BY <2>1 DEF InTurn, LeftDone
  <2> QED
    BY <2>1, <2>2 DEF LeftDone
<1>3. CASE readRequest
  BY <1>3 DEF readRequest, LeftDone
<1>4. CASE writeResponse
  BY <1>4 DEF writeResponse, EndRequest, LeftDone
<1>5. ASSUME NEW c, sendCommand(c) PROVE LeftDone'
  BY <1>5 DEF sendCommand, LeftDone
<1>6. CASE session' # "killed" /\ UNCHANGED <<client, leftEarly, misframed, pending>>
  BY <1>6 DEF LeftDone
<1>7. CASE UNCHANGED sessionVars
  BY <1>7 DEF sessionVars, LeftDone
<1> QED
  BY <1>1, <1>2, <1>3, <1>4, <1>5, <1>6, <1>7
     DEF TcpNext, tcpVars, otherThreads, tcpThread, readNothing, processRequest,
         respond, callMonitor, invalidId, countSensors, details, workOnReport,
         finishReport
SessionInv ==
  Waits /\ SessionTypes /\ Flags /\ Lookup /\ InTurn /\ LeftDone

LEMMA SessionStart == TcpInit => SessionInv
<1> SUFFICES ASSUME TcpInit PROVE SessionInv
  OBVIOUS
<1>1. Waits
  BY DEF TcpInit, MonitorInit, Waits
<1>2. SessionTypes
  <2>1. IntMax \in Nat /\ MaxAsked \in Nat
    BY CommandAssumption
  <2>2. stream = <<>> /\ request = <<>> /\ pending = <<>> /\ sends = 0
    BY DEF TcpInit
  <2>3. stream \in Seq(Pieces) /\ request \in Seq(Pieces)
    BY <2>2
  <2>4. pending \in Seq(Commands) /\ Len(pending) <= sends
    BY <2>2
  <2>5. answer.id \in 0 .. IntMax
    BY <2>1 DEF TcpInit, NoAnswer, Answer
  <2> QED
    BY <2>1, <2>2, <2>3, <2>4, <2>5 DEF TcpInit, SessionTypes
<1>3. Flags
  BY DEF TcpInit, Flags
<1>4. Lookup
  BY FS_EmptySet DEF TcpInit, Lookup
<1>5. InTurn /\ LeftDone
  BY DEF TcpInit, InTurn, LeftDone
<1> QED
  BY <1>1, <1>2, <1>3, <1>4, <1>5 DEF SessionInv

LEMMA SessionInvariant == TcpSpec => []SessionInv
<1>1. TcpInit => SessionInv
  BY SessionStart
<1>2. TypeOK /\ FiniteRegistry /\ SessionInv /\ [TcpNext]_tcpVars => SessionInv'
  <2> SUFFICES ASSUME TypeOK, FiniteRegistry, SessionInv, [TcpNext]_tcpVars
               PROVE  SessionInv'
    OBVIOUS
  <2>1. Waits /\ SessionTypes /\ Flags /\ Lookup /\ InTurn /\ LeftDone
    BY DEF SessionInv
  <2>2. Registered \subseteq Registered'
    <3>1. [Next]_vars
      BY SessionStep, ReportsOnlyRead
    <3> QED
      BY <3>1, GatewayOnlyAdds
  <2>3. Waits' /\ SessionTypes' /\ Flags'
    BY <2>1, WaitsStep, TypesStep, FlagsStep
  <2>4. Lookup' /\ InTurn' /\ LeftDone'
    BY <2>1, <2>2, LookupStep, TurnStep, LeftStep
  <2> QED
    BY <2>3, <2>4 DEF SessionInv
<1>3. TcpSpec => Spec
  BY SessionsReport, ReportsKeepGateway, PTL
<1> QED
  BY <1>1, <1>2, <1>3, TypeCorrect, RegistryCounted, PTL DEF TcpSpec

-----------------------------------------------------------------------------
\* The theorems about a session.

\* Every variable of a session keeps its type; the monitor works exactly while
\* the session waits for it, and an id beyond int never gets that far.
THEOREM SessionTypeCorrect == TcpSpec => []TcpTypeOK
<1>1. MonitorTypeOK /\ SessionInv => TcpTypeOK
  <2> SUFFICES ASSUME MonitorTypeOK, SessionInv PROVE TcpTypeOK
    OBVIOUS
  <2>1. {notFound, misframed, leftEarly} \subseteq BOOLEAN
    <3>1. notFound \in BOOLEAN /\ misframed \in BOOLEAN /\ leftEarly \in BOOLEAN
      BY DEF SessionInv, Flags
    <3> QED
      BY <3>1, Zenon
  <2> QED
    BY <2>1 DEF SessionInv, SessionTypes, Waits, TcpTypeOK
<1> QED
  BY <1>1, SessionInvariant, SessionsReport, ReportTypes, PTL

\* As long as reads return whole commands, commands are answered one by one, in
\* order, each with what it asked for (handleClient, processRequest).
THEOREM CommandsAnswered == TcpSpec => []WholeCommandsAnswered
<1>1. SessionInv => WholeCommandsAnswered
  <2> SUFFICES ASSUME SessionInv, session = "write", ~misframed
               PROVE  /\ pending # <<>>
                      /\ answer = Head(pending).asksFor
                      /\ getLastCommand = Head(pending).text
    BY DEF WholeCommandsAnswered
  <2>1. /\ pending # <<>>
        /\ request = Head(pending).text /\ lastCommand = request
        /\ Asks(request, answer)
    BY DEF SessionInv, InTurn
  <2>2. pending \in Seq(Commands)
    BY DEF SessionInv, SessionTypes
  <2>3. Head(pending) \in Commands
    BY <2>1, <2>2
  <2>4. Head(pending).text # <<>> /\ Asks(Head(pending).text, Head(pending).asksFor)
    BY <2>3, CommandAssumption
  <2>5. answer = Head(pending).asksFor
    BY <2>1, <2>4, OneAnswer
  <2> QED
    BY <2>1, <2>4, <2>5 DEF getLastCommand
<1> QED
  BY <1>1, SessionInvariant, PTL

\* The log agrees with the answer to "get", even when packets of new sensors
\* come between counting the sensors and copying them (processRequest).
THEOREM LogAgrees == TcpSpec => []NotFoundLogged
<1>1. SessionInv => NotFoundLogged
  <2> SUFFICES ASSUME SessionInv, session = "report", answer.kind = "details",
                      counted = 1 .. Cardinality(counted)
               PROVE  \/ notFound /\ answer.id \notin counted
                      \/ ~notFound /\ answer.id \in DOMAIN snapshot
    BY DEF NotFoundLogged
  <2>1. /\ IsFiniteSet(counted) /\ answer.id \in 1 .. IntMax
        /\ counted \subseteq DOMAIN snapshot
        /\ notFound <=> answer.id > Cardinality(counted)
    BY DEF SessionInv, Lookup
  <2>2. Cardinality(counted) \in Nat /\ IntMax \in Nat
    BY <2>1, FS_CardinalityType, CommandAssumption
  <2> DEFINE k == Cardinality(counted)
             id == answer.id
  <2>3. counted = 1 .. k /\ k \in Nat /\ id \in Nat /\ 1 <= id
    BY <2>1, <2>2
  <2> HIDE DEF k, id
  <2>4. id \in counted <=> ~(id > k)
    BY <2>3
  <2>5. (notFound <=> id > k) /\ counted \subseteq DOMAIN snapshot
    BY <2>1 DEF k, id
  <2>6. \/ notFound /\ id \notin counted
        \/ ~notFound /\ id \in DOMAIN snapshot
    BY <2>4, <2>5, Zenon
  <2> QED
    BY <2>6 DEF id
<1> QED
  BY <1>1, SessionInvariant, PTL

\* The process is killed by SIGPIPE only when the client left before it had all
\* its answers, or TCP split a command (the loop of writes in handleClient).
THEOREM PatientClient == TcpSpec => []PatientClientHarmless
<1>1. SessionInv => PatientClientHarmless
  BY DEF SessionInv, LeftDone, PatientClientHarmless
<1> QED
  BY <1>1, SessionInvariant, PTL
=============================================================================
