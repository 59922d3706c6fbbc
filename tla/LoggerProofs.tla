---------------------------- MODULE LoggerProofs ----------------------------
(***************************************************************************)
(* Proofs about Logger, for any number of threads and messages and any     *)
(* MAX_HISTORY.                                                            *)
(***************************************************************************)
EXTENDS Logger, SequenceTheorems, TLAPS

USE LoggerAssumption

-----------------------------------------------------------------------------
\* Trimming the history removes at most the oldest entry.
LEMMA TrimmedFacts ==
  ASSUME NEW h \in Seq(Messages), h # <<>>
  PROVE  /\ Trimmed(h) \in Seq(Messages)
         /\ Len(Trimmed(h)) = IF Len(h) > MAX_HISTORY THEN Len(h) - 1 ELSE Len(h)
         /\ \A i \in 1 .. Len(Trimmed(h)) :
              Trimmed(h)[i] = h[Len(h) - Len(Trimmed(h)) + i]
<1>1. CASE Len(h) > MAX_HISTORY
  <2>1. Trimmed(h) = Tail(h)
    BY <1>1 DEF Trimmed
  <2>2. /\ Tail(h) \in Seq(Messages)
        /\ Len(Tail(h)) = Len(h) - 1
        /\ \A i \in 1 .. Len(Tail(h)) : Tail(h)[i] = h[i + 1]
    BY HeadTailProperties
  <2> QED
    BY <1>1, <2>1, <2>2
<1>2. CASE ~(Len(h) > MAX_HISTORY)
  BY <1>2 DEF Trimmed
<1> QED
  BY <1>1, <1>2

\* Every step of log, of the worker and of main keeps every variable in its
\* type; in particular the history never exceeds MAX_HISTORY.
THEOREM TypeCorrect == Spec => []TypeOK
<1>1. Init => TypeOK
  <2> SUFFICES ASSUME Init PROVE TypeOK
    OBVIOUS
  <2>1. /\ queue \in Seq(Messages) /\ history \in Seq(Messages)
        /\ logged \in Seq(Messages)
    BY DEF Init
  <2>2. Len(history) <= MAX_HISTORY
    BY DEF Init
  <2>3. thread \in [Threads -> {"out", "notify"}]
    BY DEF Init
  <2> QED
    BY <2>1, <2>2, <2>3 DEF Init, TypeOK
<1>2. TypeOK /\ [Next]_vars => TypeOK'
  <2> SUFFICES ASSUME TypeOK, [Next]_vars
               PROVE  TypeOK'
    OBVIOUS
  <2>1. ASSUME NEW t \in Threads, NEW msg \in Messages, log(t, msg)
        PROVE  TypeOK'
    <3>1. /\ Append(history, msg) \in Seq(Messages)
          /\ Append(history, msg) # <<>>
          /\ Len(Append(history, msg)) = Len(history) + 1
      BY AppendProperties DEF TypeOK
    <3>2. /\ history' \in Seq(Messages)
          /\ Len(history') <= MAX_HISTORY
      <4>1. Len(history) \in Nat /\ Len(history) <= MAX_HISTORY
        BY DEF TypeOK
      <4>2. history' = Trimmed(Append(history, msg))
        BY <2>1 DEF log
      <4> DEFINE h == Append(history, msg)
      <4>3. /\ Trimmed(h) \in Seq(Messages)
            /\ Len(Trimmed(h)) = IF Len(h) > MAX_HISTORY THEN Len(h) - 1
                                                         ELSE Len(h)
        BY <3>1, TrimmedFacts
      <4> QED
        BY <3>1, <4>1, <4>2, <4>3
    <3>3. queue' \in Seq(Messages) /\ logged' \in Seq(Messages)
      BY <2>1, AppendProperties DEF log, TypeOK
    <3> QED
      BY <2>1, <3>2, <3>3 DEF log, TypeOK
  <2>2. CASE drain
    BY <2>2 DEF drain, TypeOK
  <2>3. CASE start \/ stop \/ notifyAll \/ join
    BY <2>3 DEF start, stop, notifyAll, join, TypeOK
  <2>4. ASSUME NEW t \in Threads, notifyOne(t)
        PROVE  TypeOK'
    BY <2>4 DEF notifyOne, TypeOK
  <2>5. CASE testRunning \/ acquire \/ testPredicate \/ block \/ spuriousWakeup
    BY <2>5 DEF testRunning, acquire, testPredicate, block, spuriousWakeup, TypeOK
  <2>6. CASE UNCHANGED vars
    BY <2>6 DEF vars, TypeOK
  <2> QED
    BY <2>1, <2>2, <2>3, <2>4, <2>5, <2>6 DEF Next, WorkerStep
<1> QED
  BY <1>1, <1>2, PTL DEF Spec

-----------------------------------------------------------------------------
\* The dashboard's history is exactly the last MAX_HISTORY messages logged
\* (the push, the size test and the erase of log are under one lock).
THEOREM HistoryCorrect == Spec => []HistoryIsTail
<1>1. Init => HistoryIsTail
  BY DEF Init, HistoryIsTail
<1>2. TypeOK /\ HistoryIsTail /\ [Next]_vars => HistoryIsTail'
  <2> SUFFICES ASSUME TypeOK, HistoryIsTail, [Next]_vars
               PROVE  HistoryIsTail'
    OBVIOUS
  <2>1. ASSUME NEW t \in Threads, NEW msg \in Messages, log(t, msg)
        PROVE  HistoryIsTail'
    <3> DEFINE h == Append(history, msg)
    <3>1. /\ h \in Seq(Messages) /\ h # <<>> /\ Len(h) = Len(history) + 1
          /\ \A i \in 1 .. Len(history) : h[i] = history[i]
          /\ h[Len(history) + 1] = msg
      BY AppendProperties DEF TypeOK
    <3>2. /\ Len(logged') = Len(logged) + 1
          /\ \A i \in 1 .. Len(logged) : logged'[i] = logged[i]
          /\ logged'[Len(logged) + 1] = msg
      BY <2>1, AppendProperties DEF log, TypeOK
    <3>3. history' = Trimmed(h)
      BY <2>1 DEF log
    <3>4. /\ Len(history') = IF Len(h) > MAX_HISTORY THEN Len(h) - 1 ELSE Len(h)
          /\ \A i \in 1 .. Len(history') :
               history'[i] = h[Len(h) - Len(history') + i]
      BY <3>1, <3>3, TrimmedFacts
    <3>5. Len(history) \in Nat /\ Len(logged) \in Nat /\ Len(history) <= Len(logged)
      BY DEF TypeOK, HistoryIsTail
    <3>6. \A i \in 1 .. Len(h) : h[i] = logged'[Len(logged') - Len(h) + i]
      <4> TAKE i \in 1 .. Len(h)
      <4>1. CASE i = Len(history) + 1
        BY <3>1, <3>2, <3>5, <4>1
      <4>2. CASE i \in 1 .. Len(history)
        <5>1. /\ h[i] = history[i]
              /\ history[i] = logged[Len(logged) - Len(history) + i]
          BY <3>1, <4>2 DEF HistoryIsTail
        <5>2. Len(logged) - Len(history) + i \in 1 .. Len(logged)
          BY <3>5, <4>2
        <5>3. Len(logged') - Len(h) + i = Len(logged) - Len(history) + i
          BY <3>1, <3>2, <3>5, <4>2
        <5> QED
          BY <3>2, <5>1, <5>2, <5>3
      <4> QED
        BY <3>1, <3>5, <4>1, <4>2
    <3>7. Len(history') = IF Len(logged') <= MAX_HISTORY THEN Len(logged')
                                                         ELSE MAX_HISTORY
      BY <3>1, <3>2, <3>4, <3>5 DEF HistoryIsTail
    <3>8. ASSUME NEW i \in 1 .. Len(history')
          PROVE  history'[i] = logged'[Len(logged') - Len(history') + i]
      <4> DEFINE j == Len(h) - Len(history') + i
      <4>1. j \in 1 .. Len(h)
        BY <3>1, <3>4, <3>5
      <4>2. history'[i] = h[j]
        BY <3>4
      <4>3. h[j] = logged'[Len(logged') - Len(h) + j]
        BY <3>6, <4>1
      <4>4. Len(logged') - Len(h) + j = Len(logged') - Len(history') + i
        BY <3>1, <3>2, <3>4, <3>5
      <4> QED
        BY <4>2, <4>3, <4>4
    <3> QED
      BY <3>7, <3>8 DEF HistoryIsTail
  <2>2. CASE UNCHANGED <<history, logged>>
    BY <2>2 DEF HistoryIsTail
  <2> QED
    BY <2>1, <2>2
       DEF Next, WorkerStep, start, stop, notifyAll, join, notifyOne, drain,
           testRunning, acquire, testPredicate, block, spuriousWakeup, vars
<1> QED
  BY <1>1, <1>2, TypeCorrect, PTL DEF Spec

-----------------------------------------------------------------------------
\* The inductive strengthening: the worker blocks only on an empty queue,
\* because it tested the predicate under the mutex that log needs to push.
WakeupInv ==
  /\ worker = "block" => queue = <<>>
  /\ NoLostWakeup

\* The worker never waits on a message that nobody will notify it of.
THEOREM WakeupNeverLost == Spec => []NoLostWakeup
<1>1. Init => WakeupInv
  BY DEF Init, WakeupInv, NoLostWakeup
<1>2. TypeOK /\ WakeupInv /\ [Next]_vars => WakeupInv'
  <2> SUFFICES ASSUME TypeOK, WakeupInv, [Next]_vars
               PROVE  WakeupInv'
    OBVIOUS
  <2>1. ASSUME NEW t \in Threads, NEW msg \in Messages, log(t, msg)
        PROVE  WakeupInv'
    <3>1. worker' # "block"
      BY <2>1 DEF log, WorkerHoldsLock
    <3>2. thread'[t] = "notify"
      BY <2>1 DEF log, TypeOK
    <3> QED
      BY <3>1, <3>2 DEF WakeupInv, NoLostWakeup
  <2>2. ASSUME NEW t \in Threads, notifyOne(t)
        PROVE  WakeupInv'
    BY <2>2 DEF notifyOne, WakeupInv, NoLostWakeup
  <2>3. CASE notifyAll
    BY <2>3 DEF notifyAll, WakeupInv, NoLostWakeup
  <2>4. CASE start
    BY <2>4 DEF start, WakeupInv, NoLostWakeup
  <2>5. CASE stop \/ join
    BY <2>5 DEF stop, join, WakeupInv, NoLostWakeup
  <2>6. CASE testRunning \/ acquire \/ spuriousWakeup \/ drain
    BY <2>6 DEF testRunning, acquire, spuriousWakeup, drain, WakeupInv,
                NoLostWakeup
  <2>7. CASE testPredicate
    BY <2>7 DEF testPredicate, WorkToDo, WakeupInv, NoLostWakeup
  <2>8. CASE block
    BY <2>8 DEF block, WakeupInv, NoLostWakeup
  <2>9. CASE UNCHANGED vars
    BY <2>9 DEF vars, WakeupInv, NoLostWakeup
  <2> QED
    BY <2>1, <2>2, <2>3, <2>4, <2>5, <2>6, <2>7, <2>8, <2>9
       DEF Next, WorkerStep
<1>3. WakeupInv => NoLostWakeup
  BY DEF WakeupInv
<1> QED
  BY <1>1, <1>2, <1>3, TypeCorrect, PTL DEF Spec
=============================================================================
