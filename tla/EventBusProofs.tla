--------------------------- MODULE EventBusProofs ---------------------------
(***************************************************************************)
(* Theorems about EventBus, for any number of writers, tabs and breaks.    *)
(***************************************************************************)
EXTENDS EventBus, TLAPS

(* What a stream that is yielding knows.  If no ring was answered since it  *)
(* sampled the generation, then whatever it has not read still has a ring   *)
(* to come: that is what the comparison before the wait relies on.  Its     *)
(* cursor lies between the patches it has yielded and those it has yet to.  *)
ReadOf(t) ==
  /\ pc[t] = "emit" => gen[t] <= generation
  /\ pc[t] = "emit" /\ gen[t] = generation =>
       /\ due[t] < count \/ ~(Unread(t) \subseteq fresh[t]) => Ringing
       /\ closing = "yes" => bells > 0
  /\ pc[t] \in {"new", "off"} => chan[t] = <<>> /\ fresh[t] = {}
  /\ \A p \in fresh[t] : Committed(p) /\ stamp[p] >= cursor[t]
  /\ \A p \in pushed[t] : Committed(p) /\ stamp[p] <= cursor[t]

ReadInv == \A t \in Tabs : ReadOf(t)

IInv ==
  TypeOK /\ NoLostWakeup /\ ShutdownHeard /\ OnceEach /\ PushedOnce /\ ReadInv

-----------------------------------------------------------------------------

(* A run of consecutive numbers loses its first and stays one.             *)
LEMMA TailOfRun ==
  ASSUME NEW c \in Seq(Nat), c # <<>>, NEW n \in Nat,
         \A i \in DOMAIN c : c[i] = n + i
  PROVE  /\ Head(c) = n + 1
         /\ Len(c) = Len(Tail(c)) + 1
         /\ \A i \in DOMAIN Tail(c) : Tail(c)[i] = n + 1 + i
<1>1. Len(c) \in Nat \ {0} /\ DOMAIN c = 1..Len(c)
  OBVIOUS
<1>2. Len(Tail(c)) = Len(c) - 1 /\ DOMAIN Tail(c) = 1..(Len(c) - 1)
  BY <1>1
<1>3. ASSUME NEW i \in 1..(Len(c) - 1) PROVE Tail(c)[i] = n + 1 + i
  <2>1. Tail(c)[i] = c[i + 1] /\ i + 1 \in DOMAIN c
    BY <1>1, <1>3
  <2> QED
    BY <2>1, <1>3
<1>4. Head(c) = c[1]
  OBVIOUS
<1> QED
  BY <1>1, <1>2, <1>3, <1>4

(* A run of consecutive numbers followed by the next one is again a run.   *)
LEMMA RunExtended ==
  ASSUME NEW c \in Seq(Nat), NEW n \in Nat, \A i \in DOMAIN c : c[i] = n + i
  PROVE  /\ Len(Append(c, n + Len(c) + 1)) = Len(c) + 1
         /\ \A i \in DOMAIN Append(c, n + Len(c) + 1) :
              Append(c, n + Len(c) + 1)[i] = n + i
<1> DEFINE d == Append(c, n + Len(c) + 1)
<1>1. Len(c) \in Nat /\ DOMAIN c = 1..Len(c)
  OBVIOUS
<1>2. Len(d) = Len(c) + 1 /\ DOMAIN d = 1..(Len(c) + 1)
  BY <1>1
<1>3. ASSUME NEW i \in 1..(Len(c) + 1) PROVE d[i] = n + i
  <2>1. CASE i \in 1..Len(c)
    <3>1. d[i] = c[i]
      BY <1>1, <2>1
    <3> QED
      BY <1>1, <2>1, <3>1
  <2>2. CASE i = Len(c) + 1
    <3>1. d[i] = n + Len(c) + 1
      BY <1>1, <2>2
    <3> QED
      BY <1>1, <2>2, <3>1
  <2> QED
    BY <1>1, <1>3, <2>1, <2>2
<1> QED
  BY <1>1, <1>2, <1>3

(* Every initial state satisfies the invariant: nothing is open.           *)
LEMMA InitIInv == Init => IInv
<1> SUFFICES ASSUME Init PROVE IInv
  OBVIOUS
<1> USE DEF Init
<1>1. TypeOK
  BY BusAssumption DEF TypeOK, WriterState, StreamState
<1>2. NoLostWakeup /\ ShutdownHeard
  BY DEF NoLostWakeup, ShutdownHeard
<1>3. OnceEach
  BY DEF OnceEach, Open
<1>4. PushedOnce
  BY DEF PushedOnce
<1>5. ReadInv
  BY DEF ReadInv, ReadOf
<1> QED
  BY <1>1, <1>2, <1>3, <1>4, <1>5 DEF IInv

(* Every step keeps the types, and a future registered exactly while its   *)
(* stream sleeps.                                                          *)
LEMMA TypeStep == IInv /\ [Next]_vars => TypeOK'
<1> SUFFICES ASSUME IInv, [Next]_vars PROVE TypeOK'
  OBVIOUS
<1> USE DEF IInv, TypeOK, WriterState, StreamState, Writers, Open, dbVars,
         bellVars, readVars, streamVars, tabVars
<1>1. ASSUME NEW m \in Inserts, Insert(m) PROVE TypeOK'
  BY <1>1 DEF Insert, Phase
<1>2. ASSUME NEW p \in Patches, StampPatch(p) PROVE TypeOK'
  BY <1>2 DEF StampPatch, Phase
<1>3. ASSUME NEW p \in Patches, CommitPatch(p) PROVE TypeOK'
  BY <1>3 DEF CommitPatch, Phase
<1>4. ASSUME NEW w \in Writers, Ring(w) PROVE TypeOK'
  BY <1>4 DEF Ring, Phase
<1>5. ASSUME Release PROVE TypeOK'
  BY <1>5 DEF Release
<1>6. ASSUME BeginShutdown PROVE TypeOK'
  BY <1>6 DEF BeginShutdown
<1>7. ASSUME Restart PROVE TypeOK'
  <2>1. writer' \in [Writers -> WriterState]
    BY <1>7 DEF Restart
  <2>2. /\ pc' \in [Tabs -> StreamState]
        /\ waiters' = {s \in Tabs : pc'[s] = "asleep"}
    BY <1>7 DEF Restart, Disconnected
  <2>3. chan' \in [Tabs -> Seq(Nat)] /\ fresh' \in [Tabs -> SUBSET Patches]
    BY <1>7 DEF Restart, Disconnected
  <2>4. UNCHANGED <<gen, last, due, cursor, pushed, joined, mark>>
    BY <1>7 DEF Restart, Disconnected
  <2>5. breaks' \in 0..MaxBreaks
    BY <1>7, BusAssumption DEF Restart
  <2> QED
    BY <1>7, <2>1, <2>2, <2>3, <2>4, <2>5 DEF Restart
<1>8. ASSUME NEW t \in Tabs, Stop(t) PROVE TypeOK'
  BY <1>8 DEF Stop, AtTop, Drained
<1>9. ASSUME NEW t \in Tabs, Look(t) PROVE TypeOK'
  <2>1. Unread(t) \subseteq Patches
    BY DEF Unread
  <2>2. CASE last[t] = count /\ Unread(t) = {}
    <3>1. pc' = [pc EXCEPT ![t] = "asleep"] /\ waiters' = waiters \cup {t}
      BY <1>9, <2>2 DEF Look
    <3>2. /\ pc' \in [Tabs -> StreamState]
          /\ waiters' = {s \in Tabs : pc'[s] = "asleep"}
      BY <3>1
    <3> QED
      BY <1>9, <2>1, <3>2 DEF Look
  <2>3. CASE ~(last[t] = count /\ Unread(t) = {})
    BY <1>9, <2>1, <2>3 DEF Look, AtTop, Drained
  <2> QED
    BY <2>2, <2>3
<1>10. ASSUME NEW t \in Tabs, YieldMessage(t) PROVE TypeOK'
  BY <1>10 DEF YieldMessage
<1>11. ASSUME NEW t \in Tabs, YieldPatch(t) PROVE TypeOK'
  BY <1>11 DEF YieldPatch
<1>12. ASSUME NEW t \in Tabs, Sleep(t) PROVE TypeOK'
  BY <1>12 DEF Sleep, Drained
<1>13. ASSUME NEW t \in Tabs, Heartbeat(t) PROVE TypeOK'
  BY <1>13 DEF Heartbeat
<1>14. ASSUME NEW t \in Tabs, Seed(t) PROVE TypeOK'
  BY <1>14 DEF Seed
<1>15. ASSUME NEW t \in Tabs, Connect(t) PROVE TypeOK'
  <2>1. /\ pc' = [pc EXCEPT ![t] = "top"] /\ pc[t] = "off"
        /\ UNCHANGED <<count, writer, stamp, bells, generation, waiters, closing,
                       gen, due, fresh, chan, mark, breaks>>
    BY <1>15 DEF Connect
  <2>2. /\ pc' \in [Tabs -> StreamState]
        /\ waiters' = {s \in Tabs : pc'[s] = "asleep"}
    BY <2>1
  <2>3. /\ clock' \in Nat /\ last' \in [Tabs -> Nat]
        /\ cursor' \in [Tabs -> Nat] /\ joined' \in [Tabs -> Nat]
        /\ pushed' \in [Tabs -> SUBSET Patches]
    BY <1>15 DEF Connect
  <2> QED
    BY <2>1, <2>2, <2>3
<1>16. ASSUME NEW t \in Tabs, Receive(t) PROVE TypeOK'
  <2>1. chan[t] \in Seq(Nat) /\ chan[t] # <<>> /\ mark[t] \in Nat
    BY <1>16 DEF Receive
  <2>2. Head(chan[t]) \in Nat /\ Tail(chan[t]) \in Seq(Nat)
    BY <2>1
  <2>3. /\ chan' \in [Tabs -> Seq(Nat)]
        /\ mark' \in [Tabs -> Nat]
    BY <1>16, <2>1, <2>2 DEF Receive
  <2> QED
    BY <1>16, <2>3 DEF Receive
<1>17. ASSUME NEW t \in Tabs, Hangup(t) PROVE TypeOK'
  BY <1>17 DEF Hangup, Disconnected
<1>18. ASSUME NEW t \in Tabs, Drop(t) PROVE TypeOK'
  <2>2. /\ pc' \in [Tabs -> StreamState]
        /\ waiters' = {s \in Tabs : pc'[s] = "asleep"}
    BY <1>18 DEF Drop, Disconnected
  <2>3. chan' \in [Tabs -> Seq(Nat)] /\ fresh' \in [Tabs -> SUBSET Patches]
    BY <1>18 DEF Drop, Disconnected
  <2>4. UNCHANGED <<gen, last, due, cursor, pushed, joined, mark>>
    BY <1>18 DEF Drop, Disconnected
  <2>5. breaks' \in 0..MaxBreaks
    BY <1>18, BusAssumption DEF Drop
  <2> QED
    BY <1>18, <2>2, <2>3, <2>4, <2>5 DEF Drop
<1>19. CASE UNCHANGED vars
  BY <1>19 DEF vars
<1> QED
  BY <1>1, <1>2, <1>3, <1>4, <1>5, <1>6, <1>7, <1>8, <1>9, <1>10, <1>11,
     <1>12, <1>13, <1>14, <1>15, <1>16, <1>17, <1>18, <1>19
     DEF Next,
     WriterStep, StreamStep, TabStep

(* A stream falls asleep only on a read that nothing has overtaken.        *)
LEMMA WakeupStep == IInv /\ [Next]_vars => NoLostWakeup'
<1> SUFFICES ASSUME IInv, [Next]_vars PROVE NoLostWakeup'
  OBVIOUS
<1> USE DEF IInv, TypeOK, NoLostWakeup, ReadInv, ReadOf, Ringing, Unread, Committed,
         Writers, dbVars, bellVars, readVars, streamVars, tabVars
<1>1. ASSUME NEW m \in Inserts, Insert(m) PROVE NoLostWakeup'
  BY <1>1 DEF Insert, Phase
<1>2. ASSUME NEW p \in Patches, StampPatch(p) PROVE NoLostWakeup'
  BY <1>2 DEF StampPatch, Phase
<1>3. ASSUME NEW p \in Patches, CommitPatch(p) PROVE NoLostWakeup'
  BY <1>3 DEF CommitPatch, Phase
<1>4. ASSUME NEW w \in Writers, Ring(w) PROVE NoLostWakeup'
  BY <1>4 DEF Ring, Phase
<1>5. ASSUME Release PROVE NoLostWakeup'
  BY <1>5 DEF Release
<1>6. ASSUME BeginShutdown PROVE NoLostWakeup'
  BY <1>6 DEF BeginShutdown
<1>7. ASSUME Restart PROVE NoLostWakeup'
  BY <1>7 DEF Restart, Disconnected
<1>8. ASSUME NEW t \in Tabs, Stop(t) PROVE NoLostWakeup'
  BY <1>8 DEF Stop, AtTop, Drained
<1>9. ASSUME NEW t \in Tabs, Look(t) PROVE NoLostWakeup'
  <2>1. UNCHANGED <<count, writer, stamp, bells, last, cursor>>
    BY <1>9 DEF Look
  <2>2. /\ Ringing' = Ringing
        /\ \A s \in Tabs : Unread(s)' = Unread(s)
    BY <2>1
  <2>3. \/ waiters' = waiters
        \/ /\ waiters' = waiters \cup {t}
           /\ last[t] = count /\ Unread(t) = {}
    BY <1>9 DEF Look
  <2>4. ASSUME NEW s \in waiters'
        PROVE  last'[s] < count' \/ Unread(s)' # {} => Ringing'
    <3>1. CASE s \in waiters
      <4>1. last[s] < count \/ Unread(s) # {} => Ringing
        BY <3>1
      <4>2. Unread(s)' = Unread(s)
        BY <2>2, <3>1
      <4> HIDE DEF IInv, TypeOK, NoLostWakeup, Unread, Ringing
      <4> QED
        BY <2>1, <2>2, <4>1, <4>2
    <3>2. CASE s = t /\ last[t] = count /\ Unread(t) = {}
      BY <2>1, <2>2, <3>2
    <3> QED
      BY <2>3, <2>4, <3>1, <3>2
  <2> QED
    BY <2>4
<1>10. ASSUME NEW t \in Tabs, YieldMessage(t) PROVE NoLostWakeup'
  BY <1>10 DEF YieldMessage
<1>11. ASSUME NEW t \in Tabs, YieldPatch(t) PROVE NoLostWakeup'
  BY <1>11 DEF YieldPatch
<1>12. ASSUME NEW t \in Tabs, Sleep(t) PROVE NoLostWakeup'
  BY <1>12 DEF Sleep, Drained
<1>13. ASSUME NEW t \in Tabs, Heartbeat(t) PROVE NoLostWakeup'
  BY <1>13 DEF Heartbeat
<1>14. ASSUME NEW t \in Tabs, Seed(t) PROVE NoLostWakeup'
  BY <1>14 DEF Seed
<1>15. ASSUME NEW t \in Tabs, Connect(t) PROVE NoLostWakeup'
  BY <1>15 DEF Connect
<1>16. ASSUME NEW t \in Tabs, Receive(t) PROVE NoLostWakeup'
  BY <1>16 DEF Receive
<1>17. ASSUME NEW t \in Tabs, Hangup(t) PROVE NoLostWakeup'
  BY <1>17 DEF Hangup, Disconnected
<1>18. ASSUME NEW t \in Tabs, Drop(t) PROVE NoLostWakeup'
  BY <1>18 DEF Drop, Disconnected
<1>19. CASE UNCHANGED vars
  BY <1>19 DEF vars
<1> QED
  BY <1>1, <1>2, <1>3, <1>4, <1>5, <1>6, <1>7, <1>8, <1>9, <1>10, <1>11,
     <1>12, <1>13, <1>14, <1>15, <1>16, <1>17, <1>18, <1>19
     DEF Next,
     WriterStep, StreamStep, TabStep

(* The flag is set before its ring is queued, so no sleeper misses it.     *)
LEMMA ShutdownStep == IInv /\ [Next]_vars => ShutdownHeard'
<1> SUFFICES ASSUME IInv, [Next]_vars PROVE ShutdownHeard'
  OBVIOUS
<1> USE DEF IInv, TypeOK, ShutdownHeard, ReadInv, ReadOf, dbVars, bellVars, readVars,
         streamVars, tabVars
<1>1. ASSUME NEW m \in Inserts, Insert(m) PROVE ShutdownHeard'
  BY <1>1 DEF Insert, Phase
<1>2. ASSUME NEW p \in Patches, StampPatch(p) PROVE ShutdownHeard'
  BY <1>2 DEF StampPatch, Phase
<1>3. ASSUME NEW p \in Patches, CommitPatch(p) PROVE ShutdownHeard'
  BY <1>3 DEF CommitPatch, Phase
<1>4. ASSUME NEW w \in Writers, Ring(w) PROVE ShutdownHeard'
  BY <1>4 DEF Ring, Phase
<1>5. ASSUME Release PROVE ShutdownHeard'
  BY <1>5 DEF Release
<1>6. ASSUME BeginShutdown PROVE ShutdownHeard'
  BY <1>6 DEF BeginShutdown
<1>7. ASSUME Restart PROVE ShutdownHeard'
  BY <1>7 DEF Restart, Disconnected
<1>8. ASSUME NEW t \in Tabs, Stop(t) PROVE ShutdownHeard'
  BY <1>8 DEF Stop, AtTop, Drained
<1>9. ASSUME NEW t \in Tabs, Look(t) PROVE ShutdownHeard'
  BY <1>9 DEF Look, AtTop, Drained
<1>10. ASSUME NEW t \in Tabs, YieldMessage(t) PROVE ShutdownHeard'
  BY <1>10 DEF YieldMessage
<1>11. ASSUME NEW t \in Tabs, YieldPatch(t) PROVE ShutdownHeard'
  BY <1>11 DEF YieldPatch
<1>12. ASSUME NEW t \in Tabs, Sleep(t) PROVE ShutdownHeard'
  BY <1>12 DEF Sleep, Drained
<1>13. ASSUME NEW t \in Tabs, Heartbeat(t) PROVE ShutdownHeard'
  BY <1>13 DEF Heartbeat
<1>14. ASSUME NEW t \in Tabs, Seed(t) PROVE ShutdownHeard'
  BY <1>14 DEF Seed
<1>15. ASSUME NEW t \in Tabs, Connect(t) PROVE ShutdownHeard'
  BY <1>15 DEF Connect
<1>16. ASSUME NEW t \in Tabs, Receive(t) PROVE ShutdownHeard'
  BY <1>16 DEF Receive
<1>17. ASSUME NEW t \in Tabs, Hangup(t) PROVE ShutdownHeard'
  BY <1>17 DEF Hangup, Disconnected
<1>18. ASSUME NEW t \in Tabs, Drop(t) PROVE ShutdownHeard'
  BY <1>18 DEF Drop, Disconnected
<1>19. CASE UNCHANGED vars
  BY <1>19 DEF vars
<1> QED
  BY <1>1, <1>2, <1>3, <1>4, <1>5, <1>6, <1>7, <1>8, <1>9, <1>10, <1>11,
     <1>12, <1>13, <1>14, <1>15, <1>16, <1>17, <1>18, <1>19
     DEF Next,
     WriterStep, StreamStep, TabStep

(* A yield extends the run on the wire, a receipt moves the watermark along *)
(* it, and a reconnect resumes at the watermark.                           *)
LEMMA OnceStep == IInv /\ [Next]_vars => OnceEach'
<1> SUFFICES ASSUME IInv, [Next]_vars PROVE OnceEach'
  OBVIOUS
<1> USE DEF IInv, TypeOK, OnceEach, ReadInv, ReadOf, Open, dbVars, bellVars, readVars,
         streamVars, tabVars
<1>1. ASSUME NEW m \in Inserts, Insert(m) PROVE OnceEach'
  BY <1>1 DEF Insert, Phase
<1>2. ASSUME NEW p \in Patches, StampPatch(p) PROVE OnceEach'
  BY <1>2 DEF StampPatch, Phase
<1>3. ASSUME NEW p \in Patches, CommitPatch(p) PROVE OnceEach'
  BY <1>3 DEF CommitPatch, Phase
<1>4. ASSUME NEW w \in Writers, Ring(w) PROVE OnceEach'
  BY <1>4 DEF Ring, Phase
<1>5. ASSUME Release PROVE OnceEach'
  BY <1>5 DEF Release
<1>6. ASSUME BeginShutdown PROVE OnceEach'
  BY <1>6 DEF BeginShutdown
<1>7. ASSUME Restart PROVE OnceEach'
  BY <1>7 DEF Restart, Disconnected
<1>8. ASSUME NEW t \in Tabs, Stop(t) PROVE OnceEach'
  BY <1>8 DEF Stop, AtTop, Drained
<1>9. ASSUME NEW t \in Tabs, Look(t) PROVE OnceEach'
  BY <1>9 DEF Look, AtTop, Drained
<1>10. ASSUME NEW t \in Tabs, YieldMessage(t) PROVE OnceEach'
  <2>1. ASSUME NEW s \in Tabs \ {t}
        PROVE  /\ chan'[s] = chan[s] /\ mark'[s] = mark[s]
               /\ last'[s] = last[s] /\ pc'[s] = pc[s]
    BY <1>10 DEF YieldMessage
  <2>2. /\ last[t] = mark[t] + Len(chan[t])
        /\ chan'[t] = Append(chan[t], last[t] + 1)
        /\ mark'[t] = mark[t] /\ last'[t] = last[t] + 1
    BY <1>10 DEF YieldMessage
  <2> DEFINE c == chan[t]
  <2>3. c \in Seq(Nat) /\ (\A i \in DOMAIN c : c[i] = mark[t] + i)
    OBVIOUS
  <2>4. chan'[t] = Append(c, last[t] + 1) /\ last[t] = mark[t] + Len(c)
    BY <2>2
  <2> HIDE DEF c
  <2>5. /\ Len(Append(c, last[t] + 1)) = Len(c) + 1
        /\ \A i \in DOMAIN Append(c, last[t] + 1) :
             Append(c, last[t] + 1)[i] = mark[t] + i
    <3>1. mark[t] \in Nat
      OBVIOUS
    <3>2. last[t] = mark[t] + Len(c)
      BY <2>4
    <3>3. last[t] + 1 = mark[t] + Len(c) + 1
      BY <3>2
    <3>4. /\ Len(Append(c, mark[t] + Len(c) + 1)) = Len(c) + 1
          /\ \A i \in DOMAIN Append(c, mark[t] + Len(c) + 1) :
               Append(c, mark[t] + Len(c) + 1)[i] = mark[t] + i
      <4> HIDE DEF IInv, TypeOK, OnceEach, ReadInv, ReadOf
      <4> QED
        BY <2>3, <3>1, RunExtended, Zenon
    <3> QED
      BY <3>3, <3>4
  <2>6. mark[t] \in Nat /\ Len(c) \in Nat
    BY <2>3
  <2>7. \A i \in DOMAIN chan'[t] : chan'[t][i] = mark'[t] + i
    <3>1. chan'[t] = Append(c, last[t] + 1) /\ mark'[t] = mark[t]
      BY <2>2, <2>4
    <3> QED
      BY <2>5, <3>1
  <2>8. last'[t] = mark'[t] + Len(chan'[t])
    <3>1. Len(chan'[t]) = Len(c) + 1
      BY <2>4, <2>5
    <3>2. mark'[t] = mark[t] /\ last'[t] = last[t] + 1
      BY <2>2
    <3>3. last[t] = mark[t] + Len(c)
      BY <2>4
    <3> HIDE DEF IInv, OnceEach, TypeOK, ReadInv, ReadOf
    <3> QED
      BY <2>6, <3>1, <3>2, <3>3
  <2>9. ASSUME NEW s \in Tabs \ {t}
        PROVE  /\ (\A i \in DOMAIN chan[s] : chan[s][i] = mark[s] + i)'
               /\ (Open(s) => last[s] = mark[s] + Len(chan[s]))'
    <3>1. /\ \A i \in DOMAIN chan[s] : chan[s][i] = mark[s] + i
          /\ Open(s) => last[s] = mark[s] + Len(chan[s])
      OBVIOUS
    <3> HIDE DEF IInv, TypeOK, OnceEach, ReadInv, ReadOf
    <3> QED
      BY <2>1, <3>1
  <2> HIDE DEF IInv, TypeOK, ReadInv, ReadOf, Open
  <2> QED
    BY <2>7, <2>8, <2>9
<1>11. ASSUME NEW t \in Tabs, YieldPatch(t) PROVE OnceEach'
  BY <1>11 DEF YieldPatch
<1>12. ASSUME NEW t \in Tabs, Sleep(t) PROVE OnceEach'
  BY <1>12 DEF Sleep, Drained
<1>13. ASSUME NEW t \in Tabs, Heartbeat(t) PROVE OnceEach'
  BY <1>13 DEF Heartbeat
<1>14. ASSUME NEW t \in Tabs, Seed(t) PROVE OnceEach'
  BY <1>14 DEF Seed
<1>15. ASSUME NEW t \in Tabs, Connect(t) PROVE OnceEach'
  BY <1>15 DEF Connect
<1>16. ASSUME NEW t \in Tabs, Receive(t) PROVE OnceEach'
  <2>1. ASSUME NEW s \in Tabs \ {t}
        PROVE  /\ chan'[s] = chan[s] /\ mark'[s] = mark[s]
               /\ last'[s] = last[s] /\ pc'[s] = pc[s]
    BY <1>16 DEF Receive
  <2> DEFINE c == chan[t]
  <2>2. /\ c \in Seq(Nat) /\ c # <<>> /\ mark[t] \in Nat
        /\ \A i \in DOMAIN c : c[i] = mark[t] + i
    BY <1>16 DEF Receive
  <2>3. /\ chan'[t] = Tail(c)
        /\ mark'[t] = (IF Head(c) > mark[t] THEN Head(c) ELSE mark[t])
    BY <1>16 DEF Receive
  <2>4. /\ last'[t] = last[t] /\ pc'[t] = pc[t]
        /\ Open(t) => last[t] = mark[t] + Len(c)
    BY <1>16 DEF Receive
  <2> HIDE DEF c
  <2>5. /\ Head(c) = mark[t] + 1
        /\ Len(c) = Len(Tail(c)) + 1
        /\ \A i \in DOMAIN Tail(c) : Tail(c)[i] = mark[t] + 1 + i
    <3> HIDE DEF IInv, TypeOK, OnceEach, ReadInv, ReadOf
    <3> QED
      BY <2>2, TailOfRun, Zenon
  <2>6. mark'[t] = mark[t] + 1
    BY <2>2, <2>3, <2>5
  <2>7. (\A i \in DOMAIN chan[t] : chan[t][i] = mark[t] + i)'
    BY <2>3, <2>5, <2>6
  <2>8. Len(Tail(c)) \in Nat
    BY <2>2
  <2>9. (Open(t) => last[t] = mark[t] + Len(chan[t]))'
    BY <2>2, <2>3, <2>4, <2>5, <2>6, <2>8
  <2>10. ASSUME NEW s \in Tabs \ {t}
         PROVE  /\ (\A i \in DOMAIN chan[s] : chan[s][i] = mark[s] + i)'
                /\ (Open(s) => last[s] = mark[s] + Len(chan[s]))'
    <3>1. /\ \A i \in DOMAIN chan[s] : chan[s][i] = mark[s] + i
          /\ Open(s) => last[s] = mark[s] + Len(chan[s])
      OBVIOUS
    <3> HIDE DEF IInv, TypeOK, OnceEach, ReadInv, ReadOf
    <3> QED
      BY <2>1, <3>1
  <2> QED
    BY <2>7, <2>9, <2>10
<1>17. ASSUME NEW t \in Tabs, Hangup(t) PROVE OnceEach'
  BY <1>17 DEF Hangup, Disconnected
<1>18. ASSUME NEW t \in Tabs, Drop(t) PROVE OnceEach'
  BY <1>18 DEF Drop, Disconnected
<1>19. CASE UNCHANGED vars
  BY <1>19 DEF vars
<1> QED
  BY <1>1, <1>2, <1>3, <1>4, <1>5, <1>6, <1>7, <1>8, <1>9, <1>10, <1>11,
     <1>12, <1>13, <1>14, <1>15, <1>16, <1>17, <1>18, <1>19
     DEF Next,
     WriterStep, StreamStep, TabStep

(* The cursor is past whatever was yielded.                                *)
LEMMA PushStep == IInv /\ [Next]_vars => PushedOnce'
<1> SUFFICES ASSUME IInv, [Next]_vars PROVE PushedOnce'
  OBVIOUS
<1> USE DEF IInv, TypeOK, PushedOnce, ReadInv, ReadOf, Unread, dbVars, bellVars,
         readVars, streamVars, tabVars
<1>1. ASSUME NEW m \in Inserts, Insert(m) PROVE PushedOnce'
  BY <1>1 DEF Insert, Phase
<1>2. ASSUME NEW p \in Patches, StampPatch(p) PROVE PushedOnce'
  BY <1>2 DEF StampPatch, Phase
<1>3. ASSUME NEW p \in Patches, CommitPatch(p) PROVE PushedOnce'
  BY <1>3 DEF CommitPatch, Phase
<1>4. ASSUME NEW w \in Writers, Ring(w) PROVE PushedOnce'
  BY <1>4 DEF Ring, Phase
<1>5. ASSUME Release PROVE PushedOnce'
  BY <1>5 DEF Release
<1>6. ASSUME BeginShutdown PROVE PushedOnce'
  BY <1>6 DEF BeginShutdown
<1>7. ASSUME Restart PROVE PushedOnce'
  BY <1>7 DEF Restart, Disconnected
<1>8. ASSUME NEW t \in Tabs, Stop(t) PROVE PushedOnce'
  BY <1>8 DEF Stop, AtTop, Drained
<1>9. ASSUME NEW t \in Tabs, Look(t) PROVE PushedOnce'
  BY <1>9 DEF Look, AtTop, Drained
<1>10. ASSUME NEW t \in Tabs, YieldMessage(t) PROVE PushedOnce'
  BY <1>10 DEF YieldMessage
<1>11. ASSUME NEW t \in Tabs, YieldPatch(t) PROVE PushedOnce'
  BY <1>11 DEF YieldPatch
<1>12. ASSUME NEW t \in Tabs, Sleep(t) PROVE PushedOnce'
  BY <1>12 DEF Sleep, Drained
<1>13. ASSUME NEW t \in Tabs, Heartbeat(t) PROVE PushedOnce'
  BY <1>13 DEF Heartbeat
<1>14. ASSUME NEW t \in Tabs, Seed(t) PROVE PushedOnce'
  BY <1>14 DEF Seed
<1>15. ASSUME NEW t \in Tabs, Connect(t) PROVE PushedOnce'
  BY <1>15 DEF Connect
<1>16. ASSUME NEW t \in Tabs, Receive(t) PROVE PushedOnce'
  BY <1>16 DEF Receive
<1>17. ASSUME NEW t \in Tabs, Hangup(t) PROVE PushedOnce'
  BY <1>17 DEF Hangup, Disconnected
<1>18. ASSUME NEW t \in Tabs, Drop(t) PROVE PushedOnce'
  BY <1>18 DEF Drop, Disconnected
<1>19. CASE UNCHANGED vars
  BY <1>19 DEF vars
<1> QED
  BY <1>1, <1>2, <1>3, <1>4, <1>5, <1>6, <1>7, <1>8, <1>9, <1>10, <1>11,
     <1>12, <1>13, <1>14, <1>15, <1>16, <1>17, <1>18, <1>19
     DEF Next,
     WriterStep, StreamStep, TabStep

(* The strengthening: a ring answered changes the generation.              *)
LEMMA ReadStep == IInv /\ [Next]_vars => ReadInv'
<1> SUFFICES ASSUME IInv, [Next]_vars PROVE ReadInv'
  OBVIOUS
<1> USE DEF IInv, TypeOK, ReadInv, ReadOf, Ringing, Unread, Committed, Writers,
         dbVars, bellVars, readVars, streamVars, tabVars
<1>1. ASSUME NEW m \in Inserts, Insert(m) PROVE ReadInv'
  BY <1>1 DEF Insert, Phase
<1>2. ASSUME NEW p \in Patches, StampPatch(p) PROVE ReadInv'
  BY <1>2 DEF StampPatch, Phase
<1>3. ASSUME NEW p \in Patches, CommitPatch(p) PROVE ReadInv'
  BY <1>3 DEF CommitPatch, Phase
<1>4. ASSUME NEW w \in Writers, Ring(w) PROVE ReadInv'
  BY <1>4 DEF Ring, Phase
<1>5. ASSUME Release PROVE ReadInv'
  BY <1>5 DEF Release
<1>6. ASSUME BeginShutdown PROVE ReadInv'
  BY <1>6 DEF BeginShutdown
<1>7. ASSUME Restart PROVE ReadInv'
  <2>1. \A p \in Patches : Committed(p) => Committed(p)'
    BY <1>7 DEF Restart, Committed, Writers
  <2> QED
    BY <1>7, <2>1 DEF Restart, Disconnected
<1>8. ASSUME NEW t \in Tabs, Stop(t) PROVE ReadInv'
  BY <1>8 DEF Stop, AtTop, Drained
<1>9. ASSUME NEW t \in Tabs, Look(t) PROVE ReadInv'
  <2>1. /\ UNCHANGED <<count, writer, stamp, bells, generation, closing>>
        /\ UNCHANGED <<last, cursor, pushed, chan>>
        /\ closing = "no"
    BY <1>9 DEF Look
  <2>2. /\ Ringing' = Ringing
        /\ \A s \in Tabs : Unread(s)' = Unread(s)
        /\ \A q \in Patches : Committed(q)' = Committed(q)
    BY <2>1
  <2>3. /\ gen'[t] = generation /\ due'[t] = count /\ fresh'[t] = Unread(t)
        /\ pc'[t] \in {"asleep", "emit"}
    BY <1>9 DEF Look
  <2>4. \A p \in Unread(t) : Committed(p) /\ stamp[p] >= cursor[t]
    OBVIOUS
  <2>5. ASSUME NEW s \in Tabs \ {t}
        PROVE  /\ pc'[s] = pc[s] /\ gen'[s] = gen[s] /\ due'[s] = due[s]
               /\ fresh'[s] = fresh[s]
    BY <1>9 DEF Look
  <2>6. ReadOf(t)'
    <3>1. ~(due'[t] < count') /\ Unread(t)' \subseteq fresh'[t]
      BY <2>1, <2>2, <2>3
    <3>2. \A p \in fresh'[t] : Committed(p)' /\ stamp'[p] >= cursor'[t]
      BY <2>1, <2>3, <2>4
    <3>3. \A p \in pushed'[t] : Committed(p)' /\ stamp'[p] <= cursor'[t]
      BY <2>1
    <3> HIDE DEF Unread, Committed, Ringing
    <3> QED
      BY <2>1, <2>3, <3>1, <3>2, <3>3
  <2>7. ASSUME NEW s \in Tabs \ {t} PROVE ReadOf(s)'
    <3>1. ReadOf(s) /\ gen[s] \in Nat
      OBVIOUS
    <3>2. \A p \in fresh'[s] : Committed(p)' /\ stamp'[p] >= cursor'[s]
      BY <2>1, <2>5
    <3>3. \A p \in pushed'[s] : Committed(p)' /\ stamp'[p] <= cursor'[s]
      BY <2>1
    <3>4. Unread(s)' = Unread(s)
      BY <2>2
    <3> HIDE DEF IInv, Unread, Committed, Ringing
    <3> QED
      BY <2>1, <2>2, <2>5, <3>1, <3>2, <3>3, <3>4
  <2> QED
    BY <2>6, <2>7
<1>10. ASSUME NEW t \in Tabs, YieldMessage(t) PROVE ReadInv'
  BY <1>10 DEF YieldMessage
<1>11. ASSUME NEW t \in Tabs, YieldPatch(t) PROVE ReadInv'
  <2>1. PICK p \in fresh[t] :
          /\ \A r \in fresh[t] : stamp[p] <= stamp[r]
          /\ cursor' = [cursor EXCEPT ![t] = stamp[p]]
          /\ fresh' = [fresh EXCEPT ![t] = @ \ {p}]
          /\ pushed' = [pushed EXCEPT ![t] = @ \cup {p}]
    BY <1>11 DEF YieldPatch
  <2>2. UNCHANGED <<dbVars, bellVars, pc, gen, last, due, chan>>
    BY <1>11 DEF YieldPatch, tabVars
  <2>3. Unread(t)' \ {p} \subseteq Unread(t)
    BY <2>1, <2>2
  <2>4. p \notin Unread(t)'
    BY <2>1, <2>2
  <2>5. ASSUME NEW s \in Tabs \ {t} PROVE Unread(s)' = Unread(s)
    BY <2>1, <2>2
  <2>6. \A q \in Patches : Committed(q)' = Committed(q)
    BY <2>2
  <2>7. \A q \in fresh'[t] : Committed(q) /\ stamp[q] >= cursor'[t]
    BY <2>1
  <2>8. \A q \in pushed'[t] : Committed(q) /\ stamp[q] <= cursor'[t]
    BY <2>1
  <2>9. Ringing' = Ringing
    BY <2>2
  <2>10. ReadOf(t)'
    <3>1. ReadOf(t) /\ pc[t] = "emit" /\ fresh'[t] = fresh[t] \ {p}
      BY <1>11, <2>1 DEF YieldPatch
    <3>2. /\ pc'[t] = pc[t] /\ gen'[t] = gen[t] /\ due'[t] = due[t]
          /\ generation' = generation /\ count' = count
          /\ closing' = closing /\ bells' = bells
      BY <2>2
    <3>3. /\ \A q \in fresh'[t] : Committed(q)' /\ stamp'[q] >= cursor'[t]
          /\ \A q \in pushed'[t] : Committed(q)' /\ stamp'[q] <= cursor'[t]
      BY <2>1, <2>2, <2>7, <2>8
    <3>4. Unread(t)' \subseteq fresh'[t] \/ ~(Unread(t) \subseteq fresh[t])
      <4> HIDE DEF IInv, Unread, Committed, Ringing
      <4> QED
        BY <2>3, <2>4, <3>1
    <3> HIDE DEF IInv, Unread, Committed, Ringing
    <3> QED
      BY <2>9, <3>1, <3>2, <3>3, <3>4
  <2>11. ASSUME NEW s \in Tabs \ {t} PROVE ReadOf(s)'
    <3>1. ReadOf(s)
      OBVIOUS
    <3>2. /\ pc'[s] = pc[s] /\ chan'[s] = chan[s] /\ fresh'[s] = fresh[s]
          /\ gen'[s] = gen[s] /\ due'[s] = due[s] /\ Unread(s)' = Unread(s)
          /\ pushed'[s] = pushed[s] /\ cursor'[s] = cursor[s]
      BY <2>1, <2>2, <2>5
    <3>3. /\ \A q \in fresh'[s] : Committed(q)' /\ stamp'[q] >= cursor'[s]
          /\ \A q \in pushed'[s] : Committed(q)' /\ stamp'[q] <= cursor'[s]
      BY <2>2, <3>1, <3>2
    <3>4. UNCHANGED <<generation, count, closing, bells>>
      BY <2>2
    <3> HIDE DEF IInv, Unread, Committed, Ringing
    <3> QED
      BY <2>9, <3>1, <3>2, <3>3, <3>4
  <2> QED
    BY <2>10, <2>11
<1>12. ASSUME NEW t \in Tabs, Sleep(t) PROVE ReadInv'
  BY <1>12 DEF Sleep, Drained
<1>13. ASSUME NEW t \in Tabs, Heartbeat(t) PROVE ReadInv'
  BY <1>13 DEF Heartbeat
<1>14. ASSUME NEW t \in Tabs, Seed(t) PROVE ReadInv'
  BY <1>14 DEF Seed
<1>15. ASSUME NEW t \in Tabs, Connect(t) PROVE ReadInv'
  BY <1>15 DEF Connect
<1>16. ASSUME NEW t \in Tabs, Receive(t) PROVE ReadInv'
  BY <1>16 DEF Receive
<1>17. ASSUME NEW t \in Tabs, Hangup(t) PROVE ReadInv'
  <2>1. /\ UNCHANGED <<dbVars, bellVars, gen, last, due, cursor, pushed>>
        /\ pc' = [s \in Tabs |-> IF s = t THEN "off" ELSE pc[s]]
        /\ chan' = [s \in Tabs |-> IF s = t THEN <<>> ELSE chan[s]]
        /\ fresh' = [s \in Tabs |-> IF s = t THEN {} ELSE fresh[s]]
    BY <1>17 DEF Hangup, Disconnected
  <2>2. /\ Ringing' = Ringing
        /\ \A s \in Tabs : Unread(s)' = Unread(s)
        /\ \A q \in Patches : Committed(q)' = Committed(q)
    BY <2>1
  <2>3. ReadOf(t)'
    <3>1. /\ pc'[t] = "off" /\ chan'[t] = <<>> /\ fresh'[t] = {}
          /\ pushed'[t] = pushed[t] /\ cursor'[t] = cursor[t]
      BY <2>1
    <3>2. \A p \in pushed'[t] : Committed(p)' /\ stamp'[p] <= cursor'[t]
      BY <2>1, <3>1
    <3> HIDE DEF IInv, Unread, Committed, Ringing
    <3> QED
      BY <3>1, <3>2
  <2>4. ASSUME NEW s \in Tabs \ {t} PROVE ReadOf(s)'
    <3>1. ReadOf(s)
      OBVIOUS
    <3>2. /\ pc'[s] = pc[s] /\ chan'[s] = chan[s] /\ fresh'[s] = fresh[s]
          /\ gen'[s] = gen[s] /\ due'[s] = due[s] /\ Unread(s)' = Unread(s)
          /\ pushed'[s] = pushed[s] /\ cursor'[s] = cursor[s]
      BY <2>1, <2>2
    <3>3. /\ \A p \in fresh'[s] : Committed(p)' /\ stamp'[p] >= cursor'[s]
          /\ \A p \in pushed'[s] : Committed(p)' /\ stamp'[p] <= cursor'[s]
      BY <2>1, <3>2
    <3>4. UNCHANGED <<generation, count, closing, bells>>
      BY <2>1
    <3> HIDE DEF IInv, Unread, Committed, Ringing
    <3> QED
      BY <2>2, <3>1, <3>2, <3>3, <3>4
  <2> QED
    BY <2>3, <2>4
<1>18. ASSUME NEW t \in Tabs, Drop(t) PROVE ReadInv'
  BY <1>18 DEF Drop, Disconnected
<1>19. CASE UNCHANGED vars
  BY <1>19 DEF vars
<1> QED
  BY <1>1, <1>2, <1>3, <1>4, <1>5, <1>6, <1>7, <1>8, <1>9, <1>10, <1>11,
     <1>12, <1>13, <1>14, <1>15, <1>16, <1>17, <1>18, <1>19
     DEF Next,
     WriterStep, StreamStep, TabStep

THEOREM Invariance == Spec => []IInv
<1>1. Init => IInv
  BY InitIInv
<1>2. IInv /\ [Next]_vars => IInv'
  BY TypeStep, WakeupStep, ShutdownStep, OnceStep, PushStep, ReadStep DEF IInv
<1> QED
  BY <1>1, <1>2, PTL DEF Spec

-----------------------------------------------------------------------------

(* The bus's variables keep their types, and events._waiters holds exactly  *)
(* the streams that sleep: a dropped connection leaks none.                 *)
THEOREM TypeCorrect == Spec => []TypeOK
BY Invariance, PTL DEF IInv

(* The lost-wakeup invariant of events.py: whatever the interleaving of     *)
(* commits, rings and reads, no stream sleeps on an unread row unless a     *)
(* ring is still to come.                                                   *)
THEOREM WakeupNeverLost == Spec => []NoLostWakeup
BY Invariance, PTL DEF IInv

(* begin_shutdown reaches every stream: none sleeps on after the flag is    *)
(* set without a ring on its way, so uvicorn's drain can end.               *)
THEOREM ShutdownAlwaysHeard == Spec => []ShutdownHeard
BY Invariance, PTL DEF IInv

(* Over any number of drops, restarts and reconnects the tab is sent each   *)
(* message once and in order (stream's `last`, the tab's watermark).        *)
THEOREM EachMessageOnce == Spec => []OnceEach
BY Invariance, PTL DEF IInv

(* One connection yields no patch twice (stream's updated_at cursors).      *)
THEOREM EachPatchOnce == Spec => []PushedOnce
BY Invariance, PTL DEF IInv
=============================================================================
