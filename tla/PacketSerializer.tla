-------------------------- MODULE PacketSerializer --------------------------
(***************************************************************************)
(* The wire format (src/network/PacketSerializer.cpp): every field is      *)
(* written byte by byte, most significant byte first.                      *)
(*                                                                         *)
(* The number of values of a byte is a parameter, 256 in the code.  A      *)
(* double travels as its 64-bit pattern, so a value is such a pattern      *)
(* here.  read throws when the buffer ends before the field; a message is  *)
(* deserialized completely before anything is done with it, so throwing is *)
(* a predicate of the buffer alone.                                        *)
(***************************************************************************)
EXTENDS Integers, Sequences

CONSTANT Base      \* the values of a byte are 0 .. Base - 1

\* The values of the enumerations fit into a byte.
ASSUME SerializerAssumption == Base \in Nat /\ Base > 4

Byte == 0 .. Base - 1

\* The wire values of MessageType.
TELEMETRY == 1
HEARTBEAT == 2

\* sizeof, in bytes.
uint8  == 1
uint32 == 4
uint64 == 8

HeaderSize    == uint8 + uint32 + uint64
HeartbeatSize == HeaderSize
TelemetrySize == HeaderSize + uint8 + uint8 + uint64

-----------------------------------------------------------------------------
\* value >> (n * BITS_PER_BYTE): the value without its n lowest bytes.
ShiftRight(value, n) ==
  LET shifted[k \in 0 .. n] == IF k = 0 THEN value ELSE shifted[k - 1] \div Base
  IN  shifted[n]

write_faulty(width, value) ==         \* least significant byte first
  [i \in 1 .. width |-> ShiftRight(value, i - 1) % Base]

\* The bytes of an unsigned integer of the given width.
write(width, value) ==
  [i \in 1 .. width |-> ShiftRight(value, width - i) % Base]

\* The value is one of an unsigned integer type of that width.
Fits(width, value) == value \in Nat /\ ShiftRight(value, width) = 0

\* The integer whose bytes follow the first offset bytes of the buffer.
read(width, buffer, offset) ==
  LET value[i \in 0 .. width] ==
        IF i = 0 THEN 0 ELSE value[i - 1] * Base + buffer[offset + i]
  IN  value[width]

\* The messages: every field has the width of its type in the code.
Headers ==
  {h \in [type : Nat, sensorId : Nat, timestamp_ms : Nat] :
     /\ Fits(uint8, h.type)
     /\ Fits(uint32, h.sensorId)
     /\ Fits(uint64, h.timestamp_ms)}

HeartbeatMessages == [header : Headers]

TelemetryMessages ==
  {m \in [header : Headers, type : Nat, state : Nat, value : Nat] :
     Fits(uint8, m.type) /\ Fits(uint8, m.state) /\ Fits(uint64, m.value)}

writeHeader(header) ==
  write(uint8, header.type) \o write(uint32, header.sensorId)
    \o write(uint64, header.timestamp_ms)

readHeader(buffer) ==
  [type         |-> read(uint8, buffer, 0),
   sensorId     |-> read(uint32, buffer, uint8),
   timestamp_ms |-> read(uint64, buffer, uint8 + uint32)]

serializeTelemetry_faulty(message) ==      \* the state is not written
  writeHeader(message.header) \o write(uint8, message.type)
    \o write(uint64, message.value)

serializeTelemetry(message) ==
  writeHeader(message.header) \o write(uint8, message.type)
    \o write(uint8, message.state) \o write(uint64, message.value)

serializeHeartbeat(message) == writeHeader(message.header)

deserializeTelemetry_faulty(buffer) ==     \* type and state swapped
  [header |-> readHeader(buffer),
   state  |-> read(uint8, buffer, HeaderSize),
   type   |-> read(uint8, buffer, HeaderSize + uint8),
   value  |-> read(uint64, buffer, HeaderSize + uint8 + uint8)]

\* deserializeTelemetry and deserializeHeartbeat of buffers they do not reject.
deserializeTelemetry(buffer) ==
  [header |-> readHeader(buffer),
   type   |-> read(uint8, buffer, HeaderSize),
   state  |-> read(uint8, buffer, HeaderSize + uint8),
   value  |-> read(uint64, buffer, HeaderSize + uint8 + uint8)]

deserializeHeartbeat(buffer) == [header |-> readHeader(buffer)]

peekMessageType(buffer) == readHeader(buffer).type

\* "Buffer underflow during deserialization": some field ends after the buffer.
HeaderThrows(buffer)    == Len(buffer) < HeaderSize
TelemetryThrows(buffer) == Len(buffer) < TelemetrySize
=============================================================================
