-------------------------- MODULE SerializerProofs --------------------------
(***************************************************************************)
(* Proofs about PacketSerializer, for every number of values of a byte:    *)
(* what is written is read back, field by field and message by message.    *)
(*                                                                         *)
(* Loops over bytes are recursive functions in the model.  A fact about    *)
(* all their values is proved by looking at the least argument at which it *)
(* fails.                                                                  *)
(***************************************************************************)
EXTENDS PacketSerializer, WellFoundedInduction, TLAPS

USE SerializerAssumption

\* A set of numbers has a least one.
LEMMA LeastFailure ==
  ASSUME NEW T \in SUBSET Nat, T # {}
  PROVE  \E x \in T : \A y \in T : x <= y
<1>1. PICK x \in T : \A y \in T : ~(<<y, x>> \in OpToRel(<, Nat))
  BY NatLessThanWellFounded, WFMin
<1>2. \A y \in T : <<y, x>> \in OpToRel(<, Nat) <=> y < x
  BY DEF OpToRel
<1>3. \A y \in T : ~(y < x)
  BY <1>1, <1>2, Zenon
<1> QED
  BY <1>3

-----------------------------------------------------------------------------
\* Shifting.

IsShift(f, value, n) ==
  f = [k \in 0 .. n |-> IF k = 0 THEN value ELSE f[k - 1] \div Base]

\* The recursive function in ShiftRight exists, and is the only one.
LEMMA ShiftExists ==
  ASSUME NEW value, NEW n \in Nat
  PROVE  \E f : IsShift(f, value, n)
<1> DEFINE T == {m \in Nat : ~ \E f : IsShift(f, value, m)}
<1> SUFFICES ASSUME T # {}
             PROVE  FALSE
  OBVIOUS
<1>1. PICK m \in T : \A y \in T : m <= y
  BY LeastFailure
<1>2. m # 0
  <2>1. IsShift([k \in 0 .. 0 |-> value], value, 0)
    BY DEF IsShift
  <2> QED
    BY <2>1
<1>3. m - 1 \in Nat /\ m - 1 \notin T
  BY <1>1, <1>2
<1>4. PICK f : IsShift(f, value, m - 1)
  BY <1>3
<1> DEFINE g == [k \in 0 .. m |-> IF k = m THEN f[m - 1] \div Base ELSE f[k]]
<1>5. ASSUME NEW k \in 0 .. m
      PROVE  g[k] = IF k = 0 THEN value ELSE g[k - 1] \div Base
  <2>1. CASE k = m
    BY <1>2, <1>3, <2>1
  <2>2. CASE k # m
    <3>1. f[k] = IF k = 0 THEN value ELSE f[k - 1] \div Base
      BY <1>3, <1>4, <2>2 DEF IsShift
    <3> QED
      BY <1>3, <2>2, <3>1
  <2> QED
    BY <2>1, <2>2
<1>6. IsShift(g, value, m)
  BY <1>5 DEF IsShift
<1> QED
  BY <1>6

LEMMA ShiftUnique ==
  ASSUME NEW value, NEW n \in Nat, NEW m \in Nat, NEW f, NEW g,
         IsShift(f, value, n), IsShift(g, value, m),
         NEW k \in Nat, k <= n, k <= m
  PROVE  f[k] = g[k]
<1> DEFINE T == {j \in Nat : j <= n /\ j <= m /\ f[j] # g[j]}
<1> SUFFICES ASSUME T # {}
             PROVE  FALSE
  OBVIOUS
<1>1. PICK j \in T : \A y \in T : j <= y
  BY LeastFailure
<1>2. \A i \in 0 .. n : f[i] = IF i = 0 THEN value ELSE f[i - 1] \div Base
  BY DEF IsShift
<1>3. \A i \in 0 .. m : g[i] = IF i = 0 THEN value ELSE g[i - 1] \div Base
  BY DEF IsShift
<1>4. j \in 0 .. n /\ j \in 0 .. m /\ f[j] # g[j]
  BY <1>1
<1>5. j # 0
  BY <1>2, <1>3, <1>4
<1>6. f[j - 1] = g[j - 1]
  BY <1>1, <1>5
<1> QED
  BY <1>2, <1>3, <1>4, <1>5, <1>6

LEMMA ShiftValue ==
  ASSUME NEW value, NEW n \in Nat
  PROVE  \E f : IsShift(f, value, n) /\ ShiftRight(value, n) = f[n]
<1> DEFINE f == CHOOSE f : IsShift(f, value, n)
<1>1. IsShift(f, value, n)
  BY ShiftExists
<1>2. ShiftRight(value, n) = f[n]
  BY DEF ShiftRight, IsShift
<1> QED
  BY <1>1, <1>2

\* Shifting by one byte more divides once more.
LEMMA ShiftNone ==
  ASSUME NEW value
  PROVE  ShiftRight(value, 0) = value
<1>1. PICK f : IsShift(f, value, 0) /\ ShiftRight(value, 0) = f[0]
  BY ShiftValue
<1> QED
  BY <1>1 DEF IsShift

LEMMA ShiftMore ==
  ASSUME NEW value, NEW n \in Nat
  PROVE  ShiftRight(value, n + 1) = ShiftRight(value, n) \div Base
<1>1. PICK f : IsShift(f, value, n) /\ ShiftRight(value, n) = f[n]
  BY ShiftValue
<1>2. PICK g : IsShift(g, value, n + 1) /\ ShiftRight(value, n + 1) = g[n + 1]
  BY ShiftValue
<1>3. f[n] = g[n]
  BY <1>1, <1>2, ShiftUnique
<1>4. g[n + 1] = g[n] \div Base
  BY <1>2 DEF IsShift
<1> QED
  BY <1>1, <1>2, <1>3, <1>4

\* Dividing by the number of values of a byte.
LEMMA LowByte ==
  ASSUME NEW x \in Nat
  PROVE  /\ x \div Base \in Nat
         /\ x % Base \in Byte
         /\ x = (x \div Base) * Base + (x % Base)
BY DEF Byte

LEMMA ShiftType ==
  ASSUME NEW value \in Nat, NEW n \in Nat
  PROVE  ShiftRight(value, n) \in Nat
<1> DEFINE T == {m \in Nat : ShiftRight(value, m) \notin Nat}
<1> SUFFICES ASSUME T # {}
             PROVE  FALSE
  OBVIOUS
<1>1. PICK m \in T : \A y \in T : m <= y
  BY LeastFailure
<1>2. m # 0
  BY ShiftNone
<1>3. m - 1 \in Nat /\ ShiftRight(value, m - 1) \in Nat
  BY <1>1, <1>2
<1>4. ShiftRight(value, m) = ShiftRight(value, m - 1) \div Base
  BY <1>3, ShiftMore
<1> QED
  BY <1>3, <1>4, LowByte

-----------------------------------------------------------------------------
\* Reading.

IsRead(f, width, buffer, offset) ==
  f = [i \in 0 .. width |->
         IF i = 0 THEN 0 ELSE f[i - 1] * Base + buffer[offset + i]]

\* The recursive function in read exists, and is the only one.
LEMMA ReadExists ==
  ASSUME NEW width \in Nat, NEW buffer, NEW offset
  PROVE  \E f : IsRead(f, width, buffer, offset)
<1> DEFINE T == {m \in Nat : ~ \E f : IsRead(f, m, buffer, offset)}
<1> SUFFICES ASSUME T # {}
             PROVE  FALSE
  OBVIOUS
<1>1. PICK m \in T : \A y \in T : m <= y
  BY LeastFailure
<1>2. m # 0
  <2>1. IsRead([i \in 0 .. 0 |-> 0], 0, buffer, offset)
    BY DEF IsRead
  <2> QED
    BY <2>1
<1>3. m - 1 \in Nat /\ m - 1 \notin T
  BY <1>1, <1>2
<1>4. PICK f : IsRead(f, m - 1, buffer, offset)
  BY <1>3
<1> DEFINE g == [i \in 0 .. m |-> IF i = m
                                  THEN f[m - 1] * Base + buffer[offset + m]
                                  ELSE f[i]]
<1>5. ASSUME NEW i \in 0 .. m
      PROVE  g[i] = IF i = 0 THEN 0 ELSE g[i - 1] * Base + buffer[offset + i]
  <2>1. CASE i = m
    BY <1>2, <1>3, <2>1
  <2>2. CASE i # m
    <3>1. f[i] = IF i = 0 THEN 0 ELSE f[i - 1] * Base + buffer[offset + i]
      BY <1>3, <1>4, <2>2 DEF IsRead
    <3> QED
      BY <1>3, <2>2, <3>1
  <2> QED
    BY <2>1, <2>2
<1>6. IsRead(g, m, buffer, offset)
  BY <1>5 DEF IsRead
<1> QED
  BY <1>6

LEMMA ReadUnique ==
  ASSUME NEW n \in Nat, NEW m \in Nat, NEW buffer, NEW offset, NEW f, NEW g,
         IsRead(f, n, buffer, offset), IsRead(g, m, buffer, offset),
         NEW k \in Nat, k <= n, k <= m
  PROVE  f[k] = g[k]
<1> DEFINE T == {j \in Nat : j <= n /\ j <= m /\ f[j] # g[j]}
<1> SUFFICES ASSUME T # {}
             PROVE  FALSE
  OBVIOUS
<1>1. PICK j \in T : \A y \in T : j <= y
  BY LeastFailure
<1>2. \A i \in 0 .. n :
        f[i] = IF i = 0 THEN 0 ELSE f[i - 1] * Base + buffer[offset + i]
  BY DEF IsRead
<1>3. \A i \in 0 .. m :
        g[i] = IF i = 0 THEN 0 ELSE g[i - 1] * Base + buffer[offset + i]
  BY DEF IsRead
<1>4. j \in 0 .. n /\ j \in 0 .. m /\ f[j] # g[j]
  BY <1>1
<1>5. j # 0
  BY <1>2, <1>3, <1>4
<1>6. f[j - 1] = g[j - 1]
  BY <1>1, <1>5
<1> QED
  BY <1>2, <1>3, <1>4, <1>5, <1>6

LEMMA ReadValue ==
  ASSUME NEW width \in Nat, NEW buffer, NEW offset
  PROVE  \E f : /\ IsRead(f, width, buffer, offset)
                /\ read(width, buffer, offset) = f[width]
<1> DEFINE f == CHOOSE f : IsRead(f, width, buffer, offset)
<1>1. IsRead(f, width, buffer, offset)
  BY ReadExists
<1>2. read(width, buffer, offset) = f[width]
  BY DEF read, IsRead
<1> QED
  BY <1>1, <1>2

\* Reading one byte more shifts what was read and adds the byte.
LEMMA ReadNone ==
  ASSUME NEW buffer, NEW offset
  PROVE  read(0, buffer, offset) = 0
<1>1. PICK f : IsRead(f, 0, buffer, offset) /\ read(0, buffer, offset) = f[0]
  BY ReadValue
<1> QED
  BY <1>1 DEF IsRead

LEMMA ReadMore ==
  ASSUME NEW n \in Nat, NEW buffer, NEW offset
  PROVE  read(n + 1, buffer, offset)
           = read(n, buffer, offset) * Base + buffer[offset + (n + 1)]
<1>1. PICK f : IsRead(f, n, buffer, offset) /\ read(n, buffer, offset) = f[n]
  BY ReadValue
<1>2. PICK g : /\ IsRead(g, n + 1, buffer, offset)
               /\ read(n + 1, buffer, offset) = g[n + 1]
  BY ReadValue
<1>3. f[n] = g[n]
  BY <1>1, <1>2, ReadUnique
<1>4. g[n + 1] = g[n] * Base + buffer[offset + (n + 1)]
  BY <1>2 DEF IsRead
<1> QED
  BY <1>1, <1>2, <1>3, <1>4

-----------------------------------------------------------------------------
\* One field.

\* The bytes after the first offset bytes of the buffer are those of the value.
HoldsField(buffer, offset, width, value) ==
  \A i \in 1 .. width : buffer[offset + i] = ShiftRight(value, width - i) % Base

\* What write puts into a buffer is what read gets out of it, if the value has
\* the width of the field: after i bytes, read holds the i highest bytes of it.
LEMMA FieldReadBack ==
  ASSUME NEW width \in Nat, NEW buffer, NEW offset \in Nat, NEW value,
         Fits(width, value), HoldsField(buffer, offset, width, value)
  PROVE  read(width, buffer, offset) = value
<1> DEFINE T == {n \in 0 .. width :
                   read(n, buffer, offset) # ShiftRight(value, width - n)}
<1>1. T = {}
  <2> SUFFICES ASSUME T # {}
               PROVE  FALSE
    OBVIOUS
  <2>1. PICK n \in T : \A y \in T : n <= y
    <3>1. T \in SUBSET Nat
      OBVIOUS
    <3> QED
      BY <3>1, LeastFailure
  <2>2. n \in 0 .. width /\ read(n, buffer, offset) # ShiftRight(value, width - n)
    BY <2>1
  <2>3. n # 0
    BY <2>2, ReadNone DEF Fits
  <2>4. n - 1 \in 0 .. width /\ n - 1 \notin T
    BY <2>1, <2>2, <2>3
  <2>5. read(n - 1, buffer, offset) = ShiftRight(value, width - (n - 1))
    BY <2>4
  <2>6. ShiftRight(value, width - (n - 1)) = ShiftRight(value, width - n) \div Base
    <3>1. width - n \in Nat /\ width - (n - 1) = (width - n) + 1
      BY <2>2
    <3> QED
      BY <3>1, ShiftMore
  <2>7. buffer[offset + n] = ShiftRight(value, width - n) % Base
    BY <2>2, <2>3 DEF HoldsField
  <2>8. read(n, buffer, offset)
          = read(n - 1, buffer, offset) * Base + buffer[offset + n]
    <3>1. n - 1 \in Nat /\ (n - 1) + 1 = n
      BY <2>2, <2>3
    <3> QED
      BY <3>1, ReadMore
  <2>9. ShiftRight(value, width - n) \in Nat
    BY <2>2, ShiftType DEF Fits
  <2>10. read(n, buffer, offset)
           = (ShiftRight(value, width - n) \div Base) * Base
               + (ShiftRight(value, width - n) % Base)
    BY <2>5, <2>6, <2>7, <2>8
  <2> QED
    BY <2>2, <2>9, <2>10, LowByte
<1>2. read(width, buffer, offset) = ShiftRight(value, width - width)
  BY <1>1
<1> QED
  BY <1>2, ShiftNone

\* A written field has as many bytes as its type.
LEMMA WriteField ==
  ASSUME NEW width \in Nat, NEW value \in Nat
  PROVE  /\ write(width, value) \in Seq(Byte)
         /\ Len(write(width, value)) = width
         /\ HoldsField(write(width, value), 0, width, value)
<1>1. \A i \in 1 .. width : ShiftRight(value, width - i) % Base \in Byte
  BY ShiftType, LowByte
<1>2. write(width, value) \in [1 .. width -> Byte]
  BY <1>1 DEF write
<1> QED
  BY <1>2 DEF write, HoldsField

\* What was written before and what is written later leave a field alone.
LEMMA FieldKept ==
  ASSUME NEW a \in Seq(Byte), NEW b \in Seq(Byte), NEW offset \in Nat,
         NEW width \in Nat, NEW value, offset + width <= Len(a),
         HoldsField(a, offset, width, value)
  PROVE  HoldsField(a \o b, offset, width, value)
BY DEF HoldsField

LEMMA FieldMoved ==
  ASSUME NEW a \in Seq(Byte), NEW b \in Seq(Byte), NEW n \in Nat,
         NEW width \in Nat, NEW value, Len(a) = n, width <= Len(b),
         HoldsField(b, 0, width, value)
  PROVE  HoldsField(a \o b, n, width, value)
<1> SUFFICES ASSUME NEW i \in 1 .. width
             PROVE  (a \o b)[n + i] = ShiftRight(value, width - i) % Base
  BY DEF HoldsField
<1>1. b[0 + i] = ShiftRight(value, width - i) % Base
  BY DEF HoldsField
<1>2. 0 + i = i /\ (a \o b)[n + i] = b[i]
  OBVIOUS
<1> QED
  BY <1>1, <1>2

\* Writing one more field into a buffer of n bytes.
LEMMA FieldAppended ==
  ASSUME NEW a, NEW n, a \in Seq(Byte), n \in Nat, Len(a) = n,
         NEW width \in Nat, NEW value \in Nat
  PROVE  /\ a \o write(width, value) \in Seq(Byte)
         /\ Len(a \o write(width, value)) = n + width
         /\ HoldsField(a \o write(width, value), n, width, value)
         /\ \A o \in Nat, w \in Nat : \A v :
              o + w <= n /\ HoldsField(a, o, w, v)
                => HoldsField(a \o write(width, value), o, w, v)
<1> DEFINE b == write(width, value)
<1>1. b \in Seq(Byte) /\ Len(b) = width
  BY WriteField
<1>2. HoldsField(b, 0, width, value)
  BY WriteField
<1> HIDE DEF b
<1>3. a \o b \in Seq(Byte) /\ Len(a \o b) = n + width
  BY <1>1
<1>4. HoldsField(a \o b, n, width, value)
  <2>1. width <= Len(b)
    BY <1>1
  <2> QED
    BY <1>1, <1>2, <2>1, FieldMoved, Zenon
<1>5. ASSUME NEW o \in Nat, NEW w \in Nat, NEW v, o + w <= n,
             HoldsField(a, o, w, v)
      PROVE  HoldsField(a \o b, o, w, v)
  BY <1>1, <1>5, FieldKept, Zenon
<1> QED
  BY <1>3, <1>4, <1>5 DEF b

LEMMA BufferGrows ==
  ASSUME NEW a, a \in Seq(Byte), NEW width \in Nat, NEW value \in Nat
  PROVE  /\ a \o write(width, value) \in Seq(Byte)
         /\ Len(a \o write(width, value)) = Len(a) + width
<1>1. Len(a) \in Nat
  OBVIOUS
<1> QED
  BY <1>1, FieldAppended, Zenon

-----------------------------------------------------------------------------
\* Headers and messages.

\* Offsets and widths of the fields.
LEMMA Widths ==
  /\ 0 \in Nat /\ uint8 \in Nat /\ uint32 \in Nat /\ uint64 \in Nat
  /\ uint8 + uint32 \in Nat /\ HeaderSize \in Nat
  /\ HeaderSize + uint8 \in Nat /\ HeaderSize + uint8 + uint8 \in Nat
BY DEF uint8, uint32, uint64, HeaderSize

LEMMA Layout ==
  /\ 0 + uint8 <= uint8 /\ 0 + uint8 <= uint8 + uint32
  /\ uint8 + uint32 <= uint8 + uint32
  /\ 0 + uint8 <= HeaderSize /\ uint8 + uint32 <= HeaderSize
  /\ uint8 + uint32 + uint64 <= HeaderSize
  /\ HeaderSize <= HeaderSize
  /\ HeaderSize <= HeaderSize + uint8 /\ HeaderSize <= HeaderSize + uint8 + uint8
  /\ HeaderSize + uint8 <= HeaderSize + uint8
  /\ HeaderSize + uint8 <= HeaderSize + uint8 + uint8
  /\ HeaderSize + uint8 + uint8 <= HeaderSize + uint8 + uint8
  /\ HeaderSize <= TelemetrySize
BY DEF uint8, uint32, uint64, HeaderSize, TelemetrySize

HoldsHeader(buffer, h) ==
  /\ HoldsField(buffer, 0, uint8, h.type)
  /\ HoldsField(buffer, uint8, uint32, h.sensorId)
  /\ HoldsField(buffer, uint8 + uint32, uint64, h.timestamp_ms)

LEMMA WriteHeader ==
  ASSUME NEW h \in Headers
  PROVE  /\ writeHeader(h) \in Seq(Byte)
         /\ Len(writeHeader(h)) = HeaderSize
         /\ HoldsHeader(writeHeader(h), h)
<1> DEFINE a == write(uint8, h.type)
           b == a \o write(uint32, h.sensorId)
           c == b \o write(uint64, h.timestamp_ms)
<1>1. h.type \in Nat /\ h.sensorId \in Nat /\ h.timestamp_ms \in Nat
  BY DEF Headers
<1>2. writeHeader(h) = c
  BY DEF writeHeader
<1>3. a \in Seq(Byte) /\ Len(a) = uint8 /\ HoldsField(a, 0, uint8, h.type)
  BY <1>1, Widths, WriteField, Zenon
<1> HIDE DEF a
<1>4. /\ b \in Seq(Byte) /\ Len(b) = uint8 + uint32
      /\ HoldsField(b, uint8, uint32, h.sensorId)
  <2>1. b \in Seq(Byte) /\ Len(b) = Len(a) + uint32
    BY <1>1, <1>3, Widths, BufferGrows, Zenon
  <2>2. HoldsField(b, uint8, uint32, h.sensorId)
    BY <1>1, <1>3, Widths, FieldAppended, Zenon
  <2> QED
    BY <1>1, <1>3, <2>1, <2>2, Zenon
<1>5. HoldsField(b, 0, uint8, h.type)
  BY <1>1, <1>3, Widths, Layout, FieldAppended, Zenon
<1> HIDE DEF b
<1>6. /\ c \in Seq(Byte) /\ Len(c) = uint8 + uint32 + uint64
      /\ HoldsField(c, uint8 + uint32, uint64, h.timestamp_ms)
  <2>1. c \in Seq(Byte) /\ Len(c) = Len(b) + uint64
    BY <1>1, <1>4, Widths, BufferGrows, Zenon
  <2>2. HoldsField(c, uint8 + uint32, uint64, h.timestamp_ms)
    BY <1>1, <1>4, Widths, FieldAppended, Zenon
  <2> QED
    BY <1>1, <1>4, <2>1, <2>2, Zenon
<1>7. HoldsField(c, 0, uint8, h.type)
  BY <1>1, <1>4, <1>5, Widths, Layout, FieldAppended, Zenon
<1>8. HoldsField(c, uint8, uint32, h.sensorId)
  BY <1>1, <1>4, Widths, Layout, FieldAppended, Zenon
<1> HIDE DEF c
<1> QED
  BY <1>2, <1>6, <1>7, <1>8, Zenon DEF HoldsHeader, HeaderSize

LEMMA HeaderReadBack ==
  ASSUME NEW h \in Headers, NEW buffer, HoldsHeader(buffer, h)
  PROVE  readHeader(buffer) = h
<1>1. /\ read(uint8, buffer, 0) = h.type
      /\ read(uint32, buffer, uint8) = h.sensorId
      /\ read(uint64, buffer, uint8 + uint32) = h.timestamp_ms
  <2>1. uint8 \in Nat /\ uint32 \in Nat /\ uint64 \in Nat /\ uint8 + uint32 \in Nat
    BY DEF uint8, uint32, uint64
  <2>2. /\ Fits(uint8, h.type) /\ Fits(uint32, h.sensorId)
        /\ Fits(uint64, h.timestamp_ms)
    BY DEF Headers
  <2> QED
    BY <2>1, <2>2, FieldReadBack DEF HoldsHeader
<1>2. h = [type |-> h.type, sensorId |-> h.sensorId,
           timestamp_ms |-> h.timestamp_ms]
  BY DEF Headers
<1> QED
  BY <1>1, <1>2 DEF readHeader

LEMMA HeaderKept ==
  ASSUME NEW a, NEW n, a \in Seq(Byte), n \in Nat, Len(a) = n, HeaderSize <= n,
         NEW h, HoldsHeader(a, h), NEW width \in Nat, NEW value \in Nat
  PROVE  HoldsHeader(a \o write(width, value), h)
<1>1. 0 + uint8 <= n /\ uint8 + uint32 <= n /\ (uint8 + uint32) + uint64 <= n
  BY DEF uint8, uint32, uint64, HeaderSize
<1> QED
  BY <1>1, Widths, Layout, FieldAppended, Zenon DEF HoldsHeader

\* A heartbeat that the deserializer gets complete is the one that was
\* serialized, and it is not rejected (PacketSerializer.cpp: serialize,
\* deserializeHeartbeat, peekMessageType).
THEOREM HeartbeatRoundTrip ==
  ASSUME NEW m \in HeartbeatMessages
  PROVE  /\ serializeHeartbeat(m) \in Seq(Byte)
         /\ ~HeaderThrows(serializeHeartbeat(m))
         /\ peekMessageType(serializeHeartbeat(m)) = m.header.type
         /\ deserializeHeartbeat(serializeHeartbeat(m)) = m
<1>1. m.header \in Headers /\ m = [header |-> m.header]
  BY DEF HeartbeatMessages
<1>2. /\ serializeHeartbeat(m) \in Seq(Byte)
      /\ Len(serializeHeartbeat(m)) = HeaderSize
      /\ HoldsHeader(serializeHeartbeat(m), m.header)
  BY <1>1, WriteHeader DEF serializeHeartbeat
<1>3. readHeader(serializeHeartbeat(m)) = m.header
  BY <1>1, <1>2, HeaderReadBack
<1>4. HeaderSize \in Nat
  BY DEF HeaderSize, uint8, uint32, uint64
<1> QED
  BY <1>1, <1>2, <1>3, <1>4
     DEF HeaderThrows, peekMessageType, deserializeHeartbeat

\* The same of telemetry: every field comes back, the value with the bit pattern
\* it was sent with (serialize, deserializeTelemetry).
THEOREM TelemetryRoundTrip ==
  ASSUME NEW m \in TelemetryMessages
  PROVE  /\ serializeTelemetry(m) \in Seq(Byte)
         /\ ~HeaderThrows(serializeTelemetry(m))
         /\ ~TelemetryThrows(serializeTelemetry(m))
         /\ peekMessageType(serializeTelemetry(m)) = m.header.type
         /\ readHeader(serializeTelemetry(m)) = m.header
         /\ deserializeTelemetry(serializeTelemetry(m)) = m
<1> DEFINE a == writeHeader(m.header)
           b == a \o write(uint8, m.type)
           c == b \o write(uint8, m.state)
           d == c \o write(uint64, m.value)
           toType  == HeaderSize
           toState == HeaderSize + uint8
           toValue == HeaderSize + uint8 + uint8
<1>1. /\ m.header \in Headers
      /\ m = [header |-> m.header, type |-> m.type, state |-> m.state,
              value |-> m.value]
      /\ Fits(uint8, m.type) /\ Fits(uint8, m.state) /\ Fits(uint64, m.value)
  BY DEF TelemetryMessages
<1>2. m.type \in Nat /\ m.state \in Nat /\ m.value \in Nat
  BY <1>1 DEF Fits
<1>3. serializeTelemetry(m) = d
  BY DEF serializeTelemetry
<1>4. a \in Seq(Byte) /\ Len(a) = toType /\ HoldsHeader(a, m.header)
  BY <1>1, WriteHeader
<1> HIDE DEF a
<1>5. HoldsHeader(b, m.header)
  BY <1>2, <1>4, Widths, Layout, HeaderKept, Zenon
<1>6. /\ b \in Seq(Byte) /\ Len(b) = toState
      /\ HoldsField(b, toType, uint8, m.type)
  <2>1. b \in Seq(Byte) /\ Len(b) = Len(a) + uint8
    BY <1>2, <1>4, Widths, BufferGrows, Zenon
  <2>2. HoldsField(b, toType, uint8, m.type)
    BY <1>2, <1>4, Widths, FieldAppended, Zenon
  <2> QED
    BY <1>2, <1>4, <2>1, <2>2, Zenon
<1> HIDE DEF b
<1>7. HoldsHeader(c, m.header)
  BY <1>2, <1>5, <1>6, Widths, Layout, HeaderKept, Zenon
<1>8. /\ c \in Seq(Byte) /\ Len(c) = toValue
      /\ HoldsField(c, toState, uint8, m.state)
  <2>1. c \in Seq(Byte) /\ Len(c) = Len(b) + uint8
    BY <1>2, <1>6, Widths, BufferGrows, Zenon
  <2>2. HoldsField(c, toState, uint8, m.state)
    BY <1>2, <1>6, Widths, FieldAppended, Zenon
  <2> QED
    BY <1>2, <1>6, <2>1, <2>2, Zenon
<1>9. HoldsField(c, toType, uint8, m.type)
  BY <1>2, <1>6, Widths, Layout, FieldAppended, Zenon
<1> HIDE DEF c
<1>10. HoldsHeader(d, m.header)
  BY <1>2, <1>7, <1>8, Widths, Layout, HeaderKept, Zenon
<1>11. /\ d \in Seq(Byte) /\ Len(d) = toValue + uint64
       /\ HoldsField(d, toValue, uint64, m.value)
  <2>1. d \in Seq(Byte) /\ Len(d) = Len(c) + uint64
    BY <1>2, <1>8, Widths, BufferGrows, Zenon
  <2>2. HoldsField(d, toValue, uint64, m.value)
    BY <1>2, <1>8, Widths, FieldAppended, Zenon
  <2> QED
    BY <1>2, <1>8, <2>1, <2>2, Zenon
<1>12. HoldsField(d, toType, uint8, m.type)
  BY <1>2, <1>8, <1>9, Widths, Layout, FieldAppended, Zenon
<1>13. HoldsField(d, toState, uint8, m.state)
  BY <1>2, <1>8, Widths, Layout, FieldAppended, Zenon
<1> HIDE DEF d
<1>14. readHeader(d) = m.header
  BY <1>1, <1>10, HeaderReadBack
<1>15. /\ read(uint8, d, toType) = m.type
       /\ read(uint8, d, toState) = m.state
       /\ read(uint64, d, toValue) = m.value
  BY <1>1, <1>11, <1>12, <1>13, Widths, FieldReadBack, Zenon
<1>16. deserializeTelemetry(d) = m
  BY <1>1, <1>14, <1>15 DEF deserializeTelemetry
<1>17. ~HeaderThrows(d) /\ ~TelemetryThrows(d)
  BY <1>11 DEF HeaderThrows, TelemetryThrows, HeaderSize, TelemetrySize, uint8,
               uint32, uint64
<1> QED
  BY <1>3, <1>11, <1>14, <1>16, <1>17 DEF peekMessageType
=============================================================================
