# Smart Sensor Network: TLA+ specifications and proofs

This directory specifies the concurrent core of the smart sensor network in TLA+.
TLC checks the specifications on small instances, and TLAPS checks proofs of all
their safety properties, and of the refinements, for every instance. Every definition is translated from
the C++ source; `PROJECT.json` maps each one to its lines.

## 1. The system

One process simulates seven sensors, the gateway that collects their data and the
interfaces that show it. Paths are relative to the repository.

| Component | State | Operations | Threads that use it |
|---|---|---|---|
| `Gateway` (src/gateway) | registry id -> {last telemetry, receive times, health}, two packet counters, a mutex | `handlePacket` (telemetry, heartbeat, unknown type), `detectOfflineSensors`, `getSensors`, `getSecondsSinceLastHeartbeat`, counters | UDP thread writes, watchdog thread writes, TCP and dashboard threads read |
| `Monitor` (src/monitor) | none of its own; locals of a report | `sensorList`, `sensorDetails`, `healthSummary`, `stats`, `getStats`, `help` | TCP thread, dashboard thread |
| `Logger` (src/monitor) | queue, history of 15, `running`, mutex, condition variable, worker thread | `start`, `stop`, `log`, `run`, `getRecentLogs` | all |
| `UdpReceiver` (src/network) | non-blocking socket, `running` | `run`, `receivePacket`, `stop` | UDP thread, main |
| `TcpServer` (src/network) | listening socket, `running`, `clientConnected`, `lastCommand` | `run`, `handleClient`, `processRequest`, `stop` | TCP thread, main, dashboard |
| `Sensor` and its four types (src/sensor) | level, state, current reading | `collectData`, `createTelemetry` | telemetry thread |
| `SensorNode`, `UdpSender` | timers, socket | `tick`, `sendHeartbeat`, `run`, `stop`, `send` | telemetry, heartbeat and main threads |
| `PacketSerializer` | none | `serialize`, `deserialize...`, `peekMessageType` | senders and UDP thread |
| `ConsoleRenderer` (src/ui) | none | `render` | dashboard thread |
| `main` | thread handles and eight flags | start, wait for ready, demo, shutdown | main |

How they interact: sensors -> `SensorNode` -> UDP -> `UdpReceiver` ->
`Gateway::handlePacket`; the watchdog calls `detectOfflineSensors` every second;
`TcpServer` and the dashboard read through `Monitor`; everybody logs through
`Logger`; `main` starts and stops everything through atomic flags and joins.

What is hard to test here: the watchdog's clock reading races with heartbeats;
times are unsigned and the clock is not monotonic; reports are assembled from
several lock sections; the logger's condition variable; threads that must all end
at shutdown; a blocking TCP session without framing; UDP loss, repetition and
reordering; exceptions and signals that nobody catches. `PROJECT.json`
lists these hazards line by line with the properties that address them.

What makes each component correct:

* Gateway: health follows heartbeats only; silent sensors are found, others are
  not accused; each silence is reported once; the counters account for the registry.
* Monitor: what a report says still relates to one state of the registry.
* Logger: history is the tail of the log, the worker never sleeps on a message,
  messages are consumed, stop ends.
* Life cycle: every TCP client is served in its turn, stop ends the server, shutdown
  joins every thread and stops the logger last.
* Sensors: the reported state is the class of the reported value; the battery only
  goes down; the timers of `SensorNode::run` keep their intervals.
* Wire and network: what the registry stores was sent, field by field; live sensors
  stay ONLINE, silent ones are found, recovered ones return.
* TCP session: each command gets its own answer; a client cannot end the process.

## 2. Modules

| Module | Models | Relation |
|---|---|---|
| `SensorHealth` | abstract: what the gateway promises about health and alarms | implemented by `Gateway` |
| `Gateway` | `Gateway.cpp`, the watchdog thread, `now()` | instantiates `SensorHealth` |
| `GatewayProofs` | theorems about `Gateway` | extends `Gateway` |
| `PacketSerializer` | `PacketSerializer.cpp`, the wire format | |
| `SerializerProofs` | round trips of both messages | extends `PacketSerializer` |
| `SensorNetwork` | telemetry and heartbeat threads of `main.cpp`, `SensorNode::tick/sendHeartbeat`, `UdpSender::send`, the network, `UdpReceiver::receivePacket`, the branches of `Gateway::handlePacket` | extends `Gateway` and `PacketSerializer`, implements `Gateway` |
| `SensorNetworkProofs` | theorems about the composed system, refinement of `Gateway` | extends `SensorNetwork`, uses `GatewayProofs` and `SerializerProofs` |
| `Monitor`, `MonitorProofs` | `Monitor.cpp` on top of the running gateway, and its theorems | extends `Gateway` |
| `TcpSession` | `TcpServer::handleClient`, `processRequest`, `parseId`, `getLastCommand` | extends `Monitor` |
| `TcpSessionProofs` | theorems about a session | extends `TcpSession`, uses `MonitorProofs` |
| `Logger`, `LoggerProofs` | `Logger.cpp` and its theorems | |
| `System`, `SystemProofs` | `main.cpp`, `UdpReceiver::run/stop`, `TcpServer::run/handleClient/stop` | establishes what `Logger` assumes of its `stop` |
| `Sensor` | the four sensor types and `SensorNode::tick` | |
| `SensorNode`, `SensorNodeProofs` | `SensorNode::run` and `stop`, theorems about both | extends `Sensor`, implements it |
| `MCGateway`, `MCSensorNetwork`, `MCMonitor`, `MCTcpSession`, `MCLogger`, `MCSystem`, `MCSensor`, `MCSensorNode` | instances for TLC | |

A definition named `..._faulty` is what a plausible programming error would make
of the definition that follows it. No specification uses one; `PROJECT.json` names,
for every property of every passing run, a faulty variant under which TLC finds
that property violated.

### Gateway
State: `sensors` is the registry, a function whose domain grows as `operator[]`
creates entries; `currentTime` is the local of `detectOfflineSensors`; `clock` is
`system_clock`; `alarms` and `unknownTypes` count log lines. `Gateway::mtx` is held
for the whole of every handler and of the sweep, so each is one action.
`detectOfflineSensors` reads the clock before it locks, so it is two actions
(`readCurrentTime`, `detectOfflineSensors`), and the handlers interleave. Subtraction
is modulo `Word` (2^64 in the code). With `ClockSteps` the clock may be set back
(`SetBack`), which `system_clock` permits. Telemetry messages are arbitrary values
here: this module accepts any packet at any time, which is what the network comes to
when nothing is known of the senders.

### PacketSerializer
Fields are written most significant byte first and read back the same way. The
number of values of a byte is the constant `Base` (256 in the code; 5 in the run,
where the integers of TLC have 32 bits and `Base^7` must fit). A `double` travels as
its bit pattern, so a value is such a pattern. `ShiftRight` is the shift by whole
bytes; `Fits` says that a value has the width of its field, and `HeartbeatMessages` and
`TelemetryMessages` are the messages whose fields all do, as the C++ types ensure. `read` throws at the end of the buffer;
a message is deserialized before anything is done with it, so throwing is a predicate
of the length (`HeaderThrows`, `TelemetryThrows`).

### SensorNetwork
The gateway of `Gateway`, fed by the nodes. main first sends one heartbeat for every
sensor; then the heartbeat thread does a round over the enabled sensors, sleeps
`HeartbeatInterval`, and so on; the telemetry thread does the same for readings.
`Failing` are the sensors whose heartbeats main leaves out (3 and 7), `Recovering`
those it switches on again (7). A packet is decided on at `send`: it arrives, is lost,
is duplicated, is delayed (and overtaken by later packets), or `sendto` fails. Other
programs may send datagrams (`Strays`): of an unknown type, cut inside the header, cut
behind it. `receivePacket` takes the next datagram and decodes it with the
operators of `PacketSerializer`; the handlers are those of `Gateway`.

Two assumptions on the constants carry the proofs. `MessageAssumption`: ids, times and
measurements have the widths of their C++ types. `StrayAssumption`: no other program
sends a complete message of a known type; the protocol has no authentication, so with
such senders the registry would hold readings that no sensor sent.

The exceptions of the deserializer and of `UdpSender::send` are not caught anywhere on
their threads, so they end the process: `aborted`.

Time: a thread wakes at most `Oversleep` late, a delayed packet comes at most `Delay`
late, and what is due is done before the clock moves on. A round of sends, an ordinary
delivery and a pass of the UDP thread, which polls its socket, take far less than the
second that a unit stands for. The watchdog is not tied to the clock: it may be
arbitrarily slow between reading the clock and locking.

### Monitor
One reading thread runs reports against the gateway. Each call to the gateway is one
step because each takes the lock by itself: `getStats` is four steps, `healthSummary`
two, `sensorList` one plus one per row. Readers do not write shared state, so one
reader meets every anomaly that several would.

### TcpSession
One session, with the gateway running beside it and `Monitor` making its reports. A
client writes commands into a byte stream; a read returns any non-empty prefix of
it, as TCP may, and the server takes what one read returned for one command. Bytes are
grouped into the pieces at which cutting matters ("he" + "lp", "get " + digits +
newline), since a cut elsewhere gives another unknown command. `std::stoi` reads the
leading digits and throws without any or beyond `IntMax`; it would also skip blanks and
take a sign, which the model leaves out. `CommandAssumption` says of the instance that a
command is non-empty, contains no newline, no blank or sign in an id, and is labelled
with the answer that is owed to it (`Asks`). The client may leave at any
time; the process does not ignore `SIGPIPE`, so a write to a client that has gone
either fails or ends the process ("killed"). The model ends with the session; `System` has the next ones.

### Logger
The block of `log` under the lock is one step, `notify_one` another. The worker's
`cv.wait` is split into taking the mutex, testing the predicate, starting to wait
(which releases the mutex) and being woken; spurious wakeups are allowed. `stop` is
three steps, none of which takes the mutex. `logged` is a history variable. `stop`
requires that no thread is inside `log`: `main` joins every other thread first, which
`LoggerStoppedLast` of `System` checks.

The worker (`drain`) empties the queue and does nothing with the messages: there is no
output in `Logger.cpp`, although `Logger.hpp` says in several places that the worker
prints. "Consumed" therefore means discarded, and all that becomes visible of a message
is its entry in the history.

### System
Each thread is a program counter. Loop bodies of the dashboard, telemetry, heartbeat
and watchdog threads are single steps (their effects are the other modules' subject).
`bind` may fail for either socket (`udpBound`, `tcpBound`). `accept` and `recvfrom`
do not block; `read` on a client does. A session is the steps of `TcpServer::run` that
another thread can tell apart: accept, `clientConnected = true`, `handleClient`,
`clientConnected = false`, close. Clients connect, ask and leave when they like;
one that gives up before it is accepted is one that leaves as soon as it is open. A
client that leaves with an answer outstanding has "fled": its request may still be read,
and the write then goes nowhere, fails, or raises `SIGPIPE` and ends the process
(`killed`), as in `TcpSession`. The other uncaught failures, those of UDP, are in
`SensorNetwork`.

Of the logger only the outcome of its `stop` is kept: the worker has exited, or it is
asleep for ever because it missed the notification. `Logger` shows that both happen. So
no property of `System` says that the process ends; what is claimed of the shutdown is
that main reaches `logger.stop`.

### Sensor and SensorNode
One sensor of any type. Levels are integers in tenths; the random draws are sets with
a level on each side of every threshold. `SensorNode` runs the node's own loop: a
pass reads the clock once, tests the two timers and sleeps. Only differences of
`steady_clock` matter, so the model keeps how long ago each remembered moment is, which
makes its state finite without a bound on time. main never calls `run` (it drives
the nodes from its own threads, see SensorNetwork); it is the class's public interface.

## 3. Runs

| Run | Result | Shows |
|---|---|---|
| `gateway_safety` | holds | type; health and heartbeat time agree; one report per silence; counters cover the registry; refinement of `SensorHealth`; with clock set-backs |
| `gateway_false_offline` | violated | a heartbeat between the watchdog's clock reading and its lock makes a live sensor OFFLINE |
| `network` | holds | stored readings were sent, field by field, and go back in time only when the network reorders; the nodes' own packets never abort the process; a sweep misses nobody and gives up only silent or overtaken sensors; ages are real; a live node is given up only after more lost heartbeats than tolerated; silent sensors are found, recovered ones return; the whole implements `Gateway` |
| `tcp_session` | holds | counts cover the copy and counters cover the counts; ages never overstate; commands that arrive whole are answered in order, each with its own answer; the "not found" log line agrees with the answer while ids are contiguous; a client that waits for its answers cannot end the process |
| `monitor_stats_snapshot` | violated | more sensors online and offline than in total |
| `logger_queue` | holds | history is the tail, no lost wakeup, messages are consumed, stop returns outside the window |
| `logger_stop_hangs` | violated | stop's notification can be lost and join hangs |
| `logger_stop_flushes` | violated | messages remain queued after stop (and the others were discarded unprinted) |
| `system_lifecycle` | holds | logger stopped last, at most one session after stop; if clients leave, all are served and shutdown reaches `logger.stop`, unless a client that did not wait for its answer took the process down |
| `system_idle_client` | violated | a silent client keeps the server running after stop, and so blocks shutdown |
| `sensor_node` | holds | battery clamps, only worsens, runs out; heartbeats neither late nor in bursts; a stop after the start ends `run` |
| `sensor_pressure` | violated | the pressure sensor never reports WARNING or ERROR |

The violated runs check what a comment, a log line or a test of the repository says;
`findings` in `PROJECT.json` quotes it.

Facts that the models show without a run of their own:

* With `ClockSteps` the age shown to users wraps (`AgeIsReal` fails under the constants
  of `gateway_safety`), although `TimeUtils.hpp` calls `now()` monotonic.
* The logger prints nothing. `Logger.cpp:62-65` pops and discards; `Logger.hpp` lines
  16-17, 38-39, 48-49, 56 and 73 say that the messages are printed.
* Main announces "All services ready" when the ready flags are set, which is before the
  services run and also when a socket could not be bound.
* A stop that comes before `running = true` at the head of `run` is overwritten (in
  `UdpReceiver`, `TcpServer` and `SensorNode`): `ShutdownReachesLogger`,
  `StopEndsServer` and `StopEndsRun` therefore ask only about stops that come later, as they do in practice after the 30 s
  that main sleeps.
* `Tolerated`, the number of heartbeats in a row that may be lost, is
  (Timeout - Delay) div (HeartbeatInterval + Oversleep) - 1. With 10 s and 5 s it is 1
  if nothing is ever late, and 0 as soon as anything is.
* One short datagram ends the process, and so does one failed `sendto`:
  `NodesNeverAbort` can only say that the nodes' packets do not.
* A command that TCP splits is answered as two, and two that it joins as one unknown
  command: `WholeCommandsAnswered` is about sessions in which that did not happen.
* main logs that sensor 7 recovered when it sets the flag; the sensor comes back
  ONLINE with a later round (`RecoveredOnline`), if that heartbeat is not lost.

### Bounds
* `gateway_safety`: two sensors (interference between two entries of one sweep; a third
  adds no new relation), timeout 2, clock up to 4: enough for heartbeat, silence,
  OFFLINE, recovery. Two packets of each type (`MaxTelemetry`, `MaxHeartbeats`,
  `MaxUnknown`), one reading. `Word` is 64: larger than
  any time plus the timeout, so a wrapped difference exceeds the timeout, as with 2^64
  and 10 s. The run uses symmetry of sensor ids, and no other run does.
* `network`: one sensor that lives and one that fails and recovers, because these are
  the only two kinds; timeout twice the heartbeat interval, as in the code; telemetry
  rounds begin up to time 2, heartbeats go on to the end of the clock at 5, which leaves
  room for silence, timeout and recovery. One fault of any kind: a delayed or repeated
  reading meets a newer one of the same sensor. With `Delay` 1 `Tolerated` is 0, so one
  lost heartbeat is the case where `LiveNodeKept` has to make a distinction.
  The bounds on packets exceed what the threads can send by then.
* `monitor_stats_snapshot`: two sensors, timeout 1 and clock up to 4; one reader.
* `tcp_session`: timeout 0 and two instants, so that a sensor goes silent and is found
  during a report; two heartbeats, so that a heartbeat known to the copy can be followed by
  a newer one before the age of its row is asked for; one telemetry packet and none of
  unknown type, which adds nothing here; two commands in the session, which TCP
  may cut and join. The commands cover every branch of `processRequest`; "get 12" is
  beyond `IntMax` = 11 and, cut, becomes "get 1". Ids 1 and 2.
* Logger: two threads, two messages, history of 2, up to 5 messages: the history
  overflows and two threads are between push and notify at once.
* System: two clients, so that one waits while the other is served and a second
  session after stop would show, and so that the first can take the process down while
  the second waits.
* `sensor_node`: every battery level in tenths is reachable; draws are next to
  thresholds. The heartbeat interval is a multiple of the longest pass, which itself
  exceeds the telemetry interval, so that timers come due early, on time and late.

`CHECK_DEADLOCK FALSE` is set where the system may stop: Logger and System (the process
ends), `network` (it may be aborted) and `tcp_session` (the
session ends). `gateway_safety` and `sensor_node` are checked for deadlock.

### Fairness
* `network`: weak fairness of `progress` (as long as something is due, a thread, the
  network or the clock takes a step) and of the watchdog, both while the process is not
  aborted. All threads of main loop until shutdown, `std::mutex` sections are short, and
  the network delivers what it neither lost nor holds back. Nothing forces faults,
  strays or the recovery of a sensor.
* Logger: weak fairness of the worker, of a thread inside `log` and of `stop` once
  begun; none for logging, stopping or spurious wakeups.
* System: weak fairness of every thread while the process is not killed, none of clients
  or of the user. That clients
  leave is a premise (`ClientsLeave`) of the two properties that need it; the code does
  not enforce it, which is what `system_idle_client` shows.
* `sensor_node`: weak fairness of the thread in `run` and of time, since every pass
  sleeps; none of `enterRun` and `stop`.
* Gateway, Monitor and TcpSession are checked for safety only and assume none.

## 4. Proofs

The proofs hold for every value of the constants that satisfies the named assumptions,
which TLC evaluates in every run that uses the module:

* `GatewayAssumption`: the clock starts after 0 (`now()` counts from 1970), and times
  plus the timeout stay below the word size;
* `MonitorAssumption`, `NetworkAssumption`: ids are numbers; main's recovering
  sensors (7) are among its failing ones (3 and 7); intervals are positive;
* `SerializerAssumption` (a byte has more than four values), `MessageAssumption`,
  `StrayAssumption` and `CommandAssumption`: see section 2;
* `LoggerAssumption`, `SystemAssumption`, `SensorAssumption`, `NodeAssumption`: types of
  the parameters; a battery drains by a positive amount.

Theorems that depend on a clock that is not set back say so: `~ClockSteps` is a
hypothesis of theirs, and section 3 says what happens without it.

### GatewayProofs
* `TypeCorrect`: type invariant, one step per action, from lemmas on `Entry`,
  `Stored`, `AfterTelemetry`, `AfterHeartbeat` and the sweep. `TypeStep` is its
  induction step, which the composed system uses again.
* `HealthStep` (lemma): the four ways a step can affect an entry's health and
  heartbeat time; the later proofs use it instead of expanding the actions.
* `HealthTracked`, `AlarmsBounded`: inductive with the type invariant. For the alarms
  the invariant distinguishes ONLINE sensors (strictly fewer reports than heartbeats),
  because giving one up uses the heartbeat that made it ONLINE.
* `OnlineFresh`, `OfflineJustified`: without set-back. They need
  `NothingFromTheFuture` (no stored time is ahead of the clock), proved first; without
  it a new heartbeat could be older than the sweep's reading.
* `AgesAreReal`: without set-back. A heartbeat time is 0 or between the start and the
  clock, so the unsigned difference does not wrap (`HeardSinceStart`); `WholeSeconds`
  is about the division by 1000.
* `CountersCover`: induction with finiteness of the registry.
* `GatewayImplementsSensorHealth`: every step maps to a step of `SensorHealth` or a
  stutter; the sweep maps to `GiveUp` of the set of newly offline sensors.

### MonitorProofs
All theorems are proved of `ReportSpec`, in which the details of any id may be asked
for, so that they hold for the reports of main's dashboard and of a TCP session alike.
* `MonitorTypeCorrect`, with `NoRowsLeft`: ids whose age is still to be asked for exist
  only between the rows of a list.
* `ReportsAddUp`: the counters are read after the copy and in sections of their own. The
  invariant says that the registry only grows beyond the copy (`CopyBehind`) and that
  what was counted is already covered by the counters still to be read
  (`StatsPending`); the start is the gateway's own invariant on its counters.
* `AgesWithinSilence`: without set-back. An age is computed from the heartbeat time at
  the time of asking, which is never older than the copied one (`BeatsStayBehind`).

### SerializerProofs
`HeartbeatRoundTrip` and `TelemetryRoundTrip`: decoding what was encoded returns the
message, for every `Base`. The loops over bytes are recursive functions; that such a
function exists and what it computes is proved with a least counterexample (`LeastFailure`,
from the well-foundedness of the naturals), not with an induction theorem. The core is
`FieldReadBack`: after reading k bytes of a field the value is the field shifted right by
the bytes that are left.

### SensorNetworkProofs
* `NetInv` consists of the type invariant, `SentByNodes` (what nodes sent are messages
  of the right widths), `TrafficKnown` (each datagram under way is the encoding of a
  heartbeat or of a reading sent, or a stray that was counted) and the two properties
  `StoredWasSent` and `NodesNeverAbort`. `TrafficKnown` is needed because a packet is
  stored long after it was sent, possibly twice; the round-trip theorems turn a
  datagram back into its message. Theorems: `NetTypeCorrect`, `ReadingsWereSent`,
  `AbortsHaveCause`.
* `NetworkImplementsGateway`: every step of the composed system is a step of `Gateway`
  or leaves it alone; what is received is a message `Gateway` accepts. So the gateway's
  theorems hold of the whole system; `NetworkOnlineFresh`, `NetworkAgesAreReal` and
  `NetworkOfflineJustified` are the ones its run checks.
* `ReadingsAdvance`: `InOrder` adds that, as long as nothing was delayed or repeated, the
  readings in the socket are in the order of their times, not older than any stored and
  not newer than the clock.
* `LiveNodesStay`: `OnSchedule` bounds how old the last heartbeat of a live node can be.
  As long as the process runs, heartbeat rounds begin in time (`RoundsPunctual`),
  heartbeats are under way for at most `Delay` (`PacketsPunctual`), and for each live
  node the next heartbeat is under way or will be sent, no later than one period
  (`HeartbeatInterval + Oversleep`) per lost heartbeat, and one more, after the last one
  handled (`BeatExpected`). A silence beyond the timeout then means more than `Tolerated`
  losses. TLC checked `OnSchedule` on two instances before the proof. The theorem needs no
  assumption on the clock: this model's clock only advances.

### SensorNodeProofs
* `NodeImplementsSensor`: timers decide when a node measures, never what.
* `BatteryWorsens`, `NodeBatteryWorsens`: need `BatteryClassified` (the reported state is
  the class of the level), since the property compares states.
* `HeartbeatsRegular`: `TimersInStep` relates the three remembered moments: the
  loop's own timer lags the real silence by at most one pass, because a heartbeat is sent
  after the clock was read, and no pass ends with a timer overdue.
* `NodeTypeCorrect`.

### TcpSessionProofs
`SessionInv`: `Waits` (the monitor works exactly while the session waits for a
report), types, `Lookup` (the ids counted by "get" are still in the copy that the report is
made of), `InTurn` (the request in hand is the oldest unanswered command and the answer is
the one owed to it, unless a read misframed a command) and `LeftDone`.
Theorems: `SessionTypeCorrect`, `CommandsAnswered`, `LogAgrees`, `PatientClient`, and, as a
session is a reader in the sense of `ReportSpec`, `SessionReportsAddUp` and
`SessionAgesWithinSilence`. The lemmas `Normalized` (stripping line ends returns a
command that arrived whole), `ParsedId` and `OneAnswer` (a text is owed one answer) are
about the operators of the module.

### SystemProofs
`SystemInv` adds to the type invariant how far main has joined (`JoinsCounted`,
`ServicesJoined`: a thread main is past has exited), that the services are unborn until main
starts them (`ThreadsStarted`), and that a session begun after stop is the last one
(`LateSessionIsLast`: the loop tests `running` before it accepts again). From it:
`TypeCorrect`, `LoggerIsLast`, `OneLateSession`.

### LoggerProofs
`TypeCorrect`, `HistoryCorrect` (by index arithmetic on the two
sequences), and `WakeupNeverLost`, whose strengthening adds that the worker blocks only
on an empty queue, since it tests under the mutex that `log` needs.

### Only model-checked
Every invariant and action property of the passing runs is proved, and so are the
refinements. TLC alone checks liveness, because fairness is outside the prover:
`MessagesConsumed`, `StopReturnsOutsideWindow`, `ShutdownReachesLogger`,
`ClientsServed`, `SilenceDetected`, `RecoveredOnline`, `BatteryRunsOut`, `StopEndsRun`.

## 5. Not modelled

* `ConsoleRenderer`, the display strings of enumerations and the formatting of reports
  and time stamps: text without state. What the dashboard reads is in `Monitor`,
  `Logger` and `TcpSession`.
* Failure of `socket()` in a constructor, before main starts its threads, and of
  `inet_pton`, whose argument is a constant address.
* The pauses and log lines of the demo script in `main.cpp`, beyond the switching of
  sensors 3 and 7.
* `Sensor::updateState`, which nothing calls.

## 6. Plan

The safety side is complete. What is left is to keep the proofs short: lemmas that
several modules state in their own terms (sequences of packets, least counterexamples)
could be shared.
