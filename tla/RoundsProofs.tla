---------------------------- MODULE RoundsProofs ----------------------------
(***************************************************************************)
(* Theorems about Rounds: its types, the mutual exclusion of a chat's      *)
(* rounds, who may outlive a round, the refinement of ChatTurn, and what   *)
(* the rounds leave in the transcript.                                     *)
(***************************************************************************)
EXTENDS Rounds, TLAPS

(* The inductive invariant.  LockInv ties the three things a starter reads *)
(* (_claims, _rounds, Round.done) to where the requests and tasks are;     *)
(* SeatInv says a seat has the floor whenever `live` holds something, and  *)
(* that no save is under way when a seat starts to write.                  *)

LockInv ==
  /\ OneRound
  /\ ClaimIsHeld
  /\ latest # None => req[latest] = "started"
  /\ \A q \in Starters :
       /\ Claiming(q) => q \in Sends
       /\ q \in done => req[q] = "started"
       /\ task[q] = "none" <=> req[q] # "started"
  /\ \A a \in Aborts : abt[a] = "waiting" =>
       target[a] \in Starters \cap cancel

SeatInv ==
  \A q \in Starters :
    /\ task[q] \in {"dropping", "saving"} \/ live[q] # "none" => left[q] > 0
    /\ worker[q] # "idle" => task[q] \in {"saving", "ended", "failed"}
    /\ worker[q] = "done" => live[q] = "none"
    /\ task[q] \in {"none", "created"} => live[q] = "none"
    /\ task[q] = "wedged" => q \in cancel

IInv == TypeOK /\ LockInv /\ SeatInv /\ OnlyAbortedTasksLinger

-----------------------------------------------------------------------------

(* What the arithmetic needs of the bound on seats.                        *)
LEMMA SeatCounts ==
  /\ 0 \in 0..MaxSeats
  /\ 1 \in 0..MaxSeats
  /\ \A n \in 0..MaxSeats : n > 0 => n - 1 \in 0..MaxSeats
BY StartersAssumption

(* Every initial state satisfies the invariant: nothing has been asked.    *)
LEMMA InitIInv == Init => IInv
<1> SUFFICES ASSUME Init PROVE IInv
  OBVIOUS
<1> USE DEF Init
<1>1. TypeOK
  BY SeatCounts DEF TypeOK, ReqState, TaskState, Content, WorkerState,
     AbortState
<1>2. LockInv
  BY DEF LockInv, OneRound, ClaimIsHeld, Claiming, Active, Starters
<1>3. SeatInv
  BY DEF SeatInv
<1>4. OnlyAbortedTasksLinger
  BY DEF OnlyAbortedTasksLinger
<1> QED
  BY <1>1, <1>2, <1>3, <1>4 DEF IInv

(* Every step keeps the types: a seat that gives up the floor had it, so    *)
(* the count of seats never goes below zero.                               *)
LEMMA TypeStep == IInv /\ [Next]_vars => TypeOK'
<1> SUFFICES ASSUME IInv, [Next]_vars PROVE TypeOK'
  OBVIOUS
<1> USE SeatCounts DEF IInv, TypeOK, SeatInv, LockInv, Active, Starters,
         ReqState, TaskState, Content, WorkerState, AbortState, lockVars,
         taskVars, seatVars, abortVars
<1>1. ASSUME NEW s \in Sends, SendStep(s) PROVE TypeOK'
  <2>1. CASE SendClaim(s)
    BY <2>1 DEF SendClaim, Move
  <2>2. CASE SendRefused(s)
    BY <2>2 DEF SendRefused, Move
  <2>3. CASE SendSlash(s)
    BY <2>3 DEF SendSlash, Move, Save, Row
  <2>4. CASE SendCommit(s)
    BY <2>4 DEF SendCommit, Move, Save, Row
  <2>5. CASE SendFails(s)
    BY <2>5 DEF SendFails, Move
  <2>6. CASE SendStart(s)
    BY <2>6 DEF SendStart, Move, Start
  <2> QED
    BY <1>1, <2>1, <2>2, <2>3, <2>4, <2>5, <2>6 DEF SendStep
<1>2. ASSUME NEW c \in Continues, ContinueStep(c) PROVE TypeOK'
  <2>1. CASE ContinueStart(c)
    BY <2>1 DEF ContinueStart, Move, Start
  <2>2. CASE ContinueRefused(c)
    BY <2>2 DEF ContinueRefused, Move
  <2> QED
    BY <1>2, <2>1, <2>2 DEF ContinueStep
<1>3. ASSUME NEW h \in Handbacks, HandbackStep(h) PROVE TypeOK'
  <2>1. CASE HandbackStart(h)
    BY <2>1 DEF HandbackStart, Move, Start
  <2>2. CASE HandbackDropped(h)
    BY <2>2 DEF HandbackDropped, Move
  <2> QED
    BY <1>3, <2>1, <2>2 DEF HandbackStep
<1>4. ASSUME NEW q \in Starters, SeatStep(q) PROVE TypeOK'
  <2>1. CASE SeatWrites(q)
    BY <2>1 DEF SeatWrites, Runs
  <2>2. CASE SeatSilent(q)
    BY <2>2 DEF SeatSilent, Runs, NextSeat
  <2>3. CASE SeatAccepted(q)
    BY <2>3 DEF SeatAccepted, Runs, Goto
  <2>4. CASE SeatWithdrawn(q)
    BY <2>4 DEF SeatWithdrawn, Runs, Goto
  <2>5. CASE SeatRetried(q)
    BY <2>5 DEF SeatRetried, Runs, Goto
  <2>6. CASE SeatSuppressed(q)
    BY <2>6 DEF SeatSuppressed, Runs, Goto, NextSeat
  <2> QED
    BY <1>4, <2>1, <2>2, <2>3, <2>4, <2>5, <2>6 DEF SeatStep
<1>5. ASSUME NEW q \in Starters, WorkerStep(q) PROVE TypeOK'
  <2>1. CASE WorkerReads(q)
    BY <2>1 DEF WorkerReads
  <2>2. CASE WorkerStores(q)
    BY <2>2 DEF WorkerStores, Save, Row
  <2>3. CASE WorkerClears(q)
    BY <2>3 DEF WorkerClears
  <2>4. CASE WorkerFails(q)
    BY <2>4 DEF WorkerFails
  <2> QED
    BY <1>5, <2>1, <2>2, <2>3, <2>4 DEF WorkerStep
<1>6. ASSUME NEW q \in Starters, TaskStep(q) PROVE TypeOK'
  <2>1. CASE FirstStep(q)
    BY <2>1 DEF FirstStep, Runs, Goto
  <2>2. CASE SaveReturns(q)
    BY <2>2 DEF SaveReturns, Runs, Goto, NextSeat
  <2>3. CASE SaveRaises(q)
    BY <2>3 DEF SaveRaises, Runs, Goto, Close
  <2>4. CASE RoundEnds(q)
    BY <2>4 DEF RoundEnds, Runs, Goto, Close
  <2> QED
    BY <1>6, <2>1, <2>2, <2>3, <2>4 DEF TaskStep
<1>7. ASSUME NEW q \in Starters, CancelStep(q) PROVE TypeOK'
  <2>1. CASE CutOff(q)
    <3>1. CASE KeptWhenCut(q)
      <4> DEFINE row == [by |-> q, seat |-> left[q], what |-> live[q], end |-> "cut"]
      <4>1. row \in Row
        BY <3>1 DEF KeptWhenCut, Row
      <4>2. log' = Append(log, row)
        BY <2>1, <3>1 DEF CutOff, KeptWhenCut, Save
      <4> HIDE DEF row
      <4>3. log' \in Seq(Row)
        BY <4>1, <4>2
      <4>4. /\ done' \subseteq Starters
            /\ task' \in [Starters -> TaskState]
            /\ live' \in [Starters -> Content]
        BY <2>1 DEF CutOff, Close, Goto
      <4> QED
        BY <2>1, <4>3, <4>4 DEF CutOff, Close
    <3>2. CASE ~KeptWhenCut(q)
      BY <2>1, <3>2 DEF CutOff, KeptWhenCut, Close, Goto
    <3> QED
      BY <3>1, <3>2
  <2>2. CASE CutOffFails(q)
    BY <2>2 DEF CutOffFails, Close, Goto
  <2>3. CASE Wedge(q)
    BY <2>3 DEF Wedge, Goto
  <2>4. CASE CancelledUnstarted(q)
    BY <2>4 DEF CancelledUnstarted, Goto
  <2> QED
    BY <1>7, <2>1, <2>2, <2>3, <2>4 DEF CancelStep
<1>8. ASSUME NEW a \in Aborts, AbortStep(a) PROVE TypeOK'
  <2>1. CASE AbortCancels(a)
    BY <2>1 DEF AbortCancels
  <2>2. CASE AbortFindsNone(a)
    BY <2>2 DEF AbortFindsNone
  <2>3. CASE AbortSettles(a)
    BY <2>3 DEF AbortSettles
  <2>4. CASE AbortGivesUp(a)
    BY <2>4 DEF AbortGivesUp
  <2> QED
    BY <1>8, <2>1, <2>2, <2>3, <2>4 DEF AbortStep
<1>9. CASE UNCHANGED vars
  BY <1>9 DEF vars
<1> QED
  BY <1>1, <1>2, <1>3, <1>4, <1>5, <1>6, <1>7, <1>8, <1>9 DEF Next

(* A starter begins a round only when the chat is free, or holds the claim  *)
(* itself; everything else leaves the lock alone or gives it back.          *)
LEMMA LockStep == IInv /\ [Next]_vars => LockInv'
<1> SUFFICES ASSUME IInv, [Next]_vars PROVE LockInv'
  OBVIOUS
<1> USE StartersAssumption DEF IInv, TypeOK, LockInv, OneRound, ClaimIsHeld,
         Claiming, Active, Busy, Starters, lockVars, taskVars, seatVars,
         abortVars
<1>1. ASSUME NEW s \in Sends, SendStep(s) PROVE LockInv'
  <2>1. CASE SendClaim(s)
    BY <2>1 DEF SendClaim, Move
  <2>2. CASE SendRefused(s)
    BY <2>2 DEF SendRefused, Move
  <2>3. CASE SendSlash(s)
    BY <2>3 DEF SendSlash, Move, Save
  <2>4. CASE SendCommit(s)
    BY <2>4 DEF SendCommit, Move, Save
  <2>5. CASE SendFails(s)
    BY <2>5 DEF SendFails, Move
  <2>6. CASE SendStart(s)
    BY <2>6 DEF SendStart, Move, Start
  <2> QED
    BY <1>1, <2>1, <2>2, <2>3, <2>4, <2>5, <2>6 DEF SendStep
<1>2. ASSUME NEW c \in Continues, ContinueStep(c) PROVE LockInv'
  BY <1>2 DEF ContinueStep, ContinueStart, ContinueRefused, Move, Start
<1>3. ASSUME NEW h \in Handbacks, HandbackStep(h) PROVE LockInv'
  BY <1>3 DEF HandbackStep, HandbackStart, HandbackDropped, Move, Start
<1>4. ASSUME NEW q \in Starters, SeatStep(q) PROVE LockInv'
  BY <1>4 DEF SeatStep, SeatWrites, SeatSilent, SeatAccepted, SeatWithdrawn,
     SeatRetried, SeatSuppressed, Runs, NextSeat, Goto
<1>5. ASSUME NEW q \in Starters, WorkerStep(q) PROVE LockInv'
  BY <1>5 DEF WorkerStep, WorkerReads, WorkerStores, WorkerClears,
     WorkerFails, Save
<1>6. ASSUME NEW q \in Starters, TaskStep(q) PROVE LockInv'
  BY <1>6 DEF TaskStep, FirstStep, SaveReturns, SaveRaises, RoundEnds, Runs,
     Goto, NextSeat, Close
<1>7. ASSUME NEW q \in Starters, CancelStep(q) PROVE LockInv'
  BY <1>7 DEF CancelStep, CutOff, CutOffFails, Wedge, CancelledUnstarted,
     KeptWhenCut, Save, Close, Goto
<1>8. ASSUME NEW a \in Aborts, AbortStep(a) PROVE LockInv'
  BY <1>8 DEF AbortStep, AbortCancels, AbortFindsNone, AbortSettles,
     AbortGivesUp
<1>9. CASE UNCHANGED vars
  BY <1>9 DEF vars
<1> QED
  BY <1>1, <1>2, <1>3, <1>4, <1>5, <1>6, <1>7, <1>8, <1>9 DEF Next

(* No seat writes while a save of the seat before it is still under way.    *)
LEMMA SeatInvStep == IInv /\ [Next]_vars => SeatInv'
<1> SUFFICES ASSUME IInv, [Next]_vars PROVE SeatInv'
  OBVIOUS
<1> USE SeatCounts DEF IInv, TypeOK, SeatInv, LockInv, Starters, lockVars,
         taskVars, seatVars, abortVars
<1>1. ASSUME NEW s \in Sends, SendStep(s) PROVE SeatInv'
  <2>1. CASE SendClaim(s)
    BY <2>1 DEF SendClaim, Move
  <2>2. CASE SendRefused(s)
    BY <2>2 DEF SendRefused, Move
  <2>3. CASE SendSlash(s)
    BY <2>3 DEF SendSlash, Move, Save
  <2>4. CASE SendCommit(s)
    BY <2>4 DEF SendCommit, Move, Save
  <2>5. CASE SendFails(s)
    BY <2>5 DEF SendFails, Move
  <2>6. CASE SendStart(s)
    BY <2>6 DEF SendStart, Move, Start
  <2> QED
    BY <1>1, <2>1, <2>2, <2>3, <2>4, <2>5, <2>6 DEF SendStep
<1>2. ASSUME NEW c \in Continues, ContinueStep(c) PROVE SeatInv'
  <2>1. CASE ContinueStart(c)
    BY <2>1 DEF ContinueStart, Move, Start
  <2>2. CASE ContinueRefused(c)
    BY <2>2 DEF ContinueRefused, Move
  <2> QED
    BY <1>2, <2>1, <2>2 DEF ContinueStep
<1>3. ASSUME NEW h \in Handbacks, HandbackStep(h) PROVE SeatInv'
  <2>1. CASE HandbackStart(h)
    BY <2>1 DEF HandbackStart, Move, Start
  <2>2. CASE HandbackDropped(h)
    BY <2>2 DEF HandbackDropped, Move
  <2> QED
    BY <1>3, <2>1, <2>2 DEF HandbackStep
<1>4. ASSUME NEW q \in Starters, SeatStep(q) PROVE SeatInv'
  <2>1. CASE SeatWrites(q)
    BY <2>1 DEF SeatWrites, Runs
  <2>2. CASE SeatSilent(q)
    BY <2>2 DEF SeatSilent, Runs, NextSeat
  <2>3. CASE SeatAccepted(q)
    BY <2>3 DEF SeatAccepted, Runs, Goto
  <2>4. CASE SeatWithdrawn(q)
    BY <2>4 DEF SeatWithdrawn, Runs, Goto
  <2>5. CASE SeatRetried(q)
    BY <2>5 DEF SeatRetried, Runs, Goto
  <2>6. CASE SeatSuppressed(q)
    BY <2>6 DEF SeatSuppressed, Runs, Goto, NextSeat
  <2> QED
    BY <1>4, <2>1, <2>2, <2>3, <2>4, <2>5, <2>6 DEF SeatStep
<1>5. ASSUME NEW q \in Starters, WorkerStep(q) PROVE SeatInv'
  BY <1>5 DEF WorkerStep, WorkerReads, WorkerStores, WorkerClears,
     WorkerFails, Save
<1>6. ASSUME NEW q \in Starters, TaskStep(q) PROVE SeatInv'
  BY <1>6 DEF TaskStep, FirstStep, SaveReturns, SaveRaises, RoundEnds, Runs,
     Goto, NextSeat, Close
<1>7. ASSUME NEW q \in Starters, CancelStep(q) PROVE SeatInv'
  BY <1>7 DEF CancelStep, CutOff, CutOffFails, Wedge, CancelledUnstarted,
     KeptWhenCut, Save, Close, Goto
<1>8. ASSUME NEW a \in Aborts, AbortStep(a) PROVE SeatInv'
  BY <1>8 DEF AbortStep, AbortCancels, AbortFindsNone, AbortSettles,
     AbortGivesUp
<1>9. CASE UNCHANGED vars
  BY <1>9 DEF vars
<1> QED
  BY <1>1, <1>2, <1>3, <1>4, <1>5, <1>6, <1>7, <1>8, <1>9 DEF Next

(* Only the abort that gives up closes a round whose task still runs.       *)
LEMMA LingerStep == IInv /\ [Next]_vars => OnlyAbortedTasksLinger'
<1> SUFFICES ASSUME IInv, [Next]_vars PROVE OnlyAbortedTasksLinger'
  OBVIOUS
<1> USE DEF IInv, TypeOK, OnlyAbortedTasksLinger, Over, SeatInv, LockInv,
         Starters, lockVars, taskVars, seatVars, abortVars
<1>1. ASSUME NEW s \in Sends, SendStep(s) PROVE OnlyAbortedTasksLinger'
  BY <1>1 DEF SendStep, SendClaim, SendRefused, SendSlash, SendCommit,
     SendFails, SendStart, Move, Save, Start
<1>2. ASSUME NEW c \in Continues, ContinueStep(c) PROVE OnlyAbortedTasksLinger'
  BY <1>2 DEF ContinueStep, ContinueStart, ContinueRefused, Move, Start
<1>3. ASSUME NEW h \in Handbacks, HandbackStep(h) PROVE OnlyAbortedTasksLinger'
  BY <1>3 DEF HandbackStep, HandbackStart, HandbackDropped, Move, Start
<1>4. ASSUME NEW q \in Starters, SeatStep(q) PROVE OnlyAbortedTasksLinger'
  BY <1>4 DEF SeatStep, SeatWrites, SeatSilent, SeatAccepted, SeatWithdrawn,
     SeatRetried, SeatSuppressed, Runs, NextSeat, Goto
<1>5. ASSUME NEW q \in Starters, WorkerStep(q) PROVE OnlyAbortedTasksLinger'
  BY <1>5 DEF WorkerStep, WorkerReads, WorkerStores, WorkerClears,
     WorkerFails, Save
<1>6. ASSUME NEW q \in Starters, TaskStep(q) PROVE OnlyAbortedTasksLinger'
  BY <1>6 DEF TaskStep, FirstStep, SaveReturns, SaveRaises, RoundEnds, Runs,
     Goto, NextSeat, Close
<1>7. ASSUME NEW q \in Starters, CancelStep(q) PROVE OnlyAbortedTasksLinger'
  <2>1. CASE CutOff(q)
    BY <2>1 DEF CutOff, KeptWhenCut, Save, Close, Goto
  <2>2. CASE CutOffFails(q)
    BY <2>2 DEF CutOffFails, Close, Goto
  <2>3. CASE Wedge(q)
    BY <2>3 DEF Wedge, Goto
  <2>4. CASE CancelledUnstarted(q)
    BY <2>4 DEF CancelledUnstarted, Goto
  <2> QED
    BY <1>7, <2>1, <2>2, <2>3, <2>4 DEF CancelStep
<1>8. ASSUME NEW a \in Aborts, AbortStep(a) PROVE OnlyAbortedTasksLinger'
  BY <1>8 DEF AbortStep, AbortCancels, AbortFindsNone, AbortSettles,
     AbortGivesUp
<1>9. CASE UNCHANGED vars
  BY <1>9 DEF vars
<1> QED
  BY <1>1, <1>2, <1>3, <1>4, <1>5, <1>6, <1>7, <1>8, <1>9 DEF Next

LEMMA StepIInv == IInv /\ [Next]_vars => IInv'
BY TypeStep, LockStep, SeatInvStep, LingerStep DEF IInv

THEOREM Invariance == Spec => []IInv
<1>1. Init => IInv
  BY InitIInv
<1>2. IInv /\ [Next]_vars => IInv'
  BY StepIInv
<1> QED
  BY <1>1, <1>2, PTL DEF Spec

-----------------------------------------------------------------------------

(* The variables of rounds.py, the routes and the engine keep their types   *)
(* for any number of requests and seats: no seat is counted below zero, and *)
(* every row of the transcript names a seat of the round that wrote it.     *)
THEOREM TypeCorrect == Spec => []TypeOK
BY Invariance, PTL DEF IInv

(* However many sends, continues, hand-backs and aborts meet, a chat never  *)
(* has two unfinished rounds (rounds.start, rounds.busy).                   *)
THEOREM OneRoundAlways == Spec => []OneRound
BY Invariance, PTL DEF IInv, LockInv

(* rounds._claims holds the chat exactly while one send is between its      *)
(* check and its round, and never beside an active round (rounds.claim).    *)
THEOREM ClaimAlwaysHeld == Spec => []ClaimIsHeld
BY Invariance, PTL DEF IInv, LockInv

(* A round is closed over a task that still runs only by rounds.abort, on a *)
(* teardown that hangs.                                                     *)
THEOREM OnlyAbortedTasksEverLinger == Spec => []OnlyAbortedTasksLinger
BY Invariance, PTL DEF IInv
-----------------------------------------------------------------------------
(* Rounds implements ChatTurn.  Who holds the chat, in each of the three    *)
(* cases of Holder; the CHOOSE of the second is fixed by ClaimIsHeld.       *)

LEMMA Holders ==
  /\ Active => Holder = Turn!Round(latest)
  /\ ClaimIsHeld => \A s \in Sends : Claiming(s) => Holder = Turn!Claim(s)
  /\ ~Busy => Holder = Turn!Nobody
<1>1. Active => Holder = Turn!Round(latest)
  BY DEF Holder, Turn!Round
<1>2. ASSUME ClaimIsHeld, NEW s \in Sends, Claiming(s)
      PROVE  Holder = Turn!Claim(s)
  <2>1. claim = "held" /\ ~Active
    BY <1>2 DEF ClaimIsHeld
  <2>2. (CHOOSE r \in Sends : Claiming(r)) = s
    BY <1>2 DEF ClaimIsHeld
  <2> QED
    BY <2>1, <2>2 DEF Holder, Turn!Claim
<1>3. ~Busy => Holder = Turn!Nobody
  BY DEF Busy, Holder, Turn!Nobody
<1> QED
  BY <1>1, <1>2, <1>3

(* The holder stays when nothing a starter reads has changed.               *)
LEMMA HolderKept ==
  ASSUME IInv, IInv', UNCHANGED claim, Active' <=> Active, UNCHANGED latest,
         \A s \in Sends : Claiming(s)' <=> Claiming(s)
  PROVE  Holder' = Holder
<1>1. Holders!1' /\ Holders!2' /\ Holders!3'
  BY Holders, PTL
<1>2. CASE Active
  BY <1>1, <1>2, Holders DEF Turn!Round
<1>3. ASSUME NEW s \in Sends, Claiming(s) PROVE Holder' = Holder
  BY <1>1, <1>3, Holders DEF IInv, LockInv, Turn!Claim
<1>4. CASE ~Active /\ \A s \in Sends : ~Claiming(s)
  <2>1. ~Busy /\ ~Busy'
    BY <1>4 DEF Busy, IInv, TypeOK, LockInv, ClaimIsHeld
  <2> QED
    BY <1>1, <2>1, Holders DEF Turn!Nobody
<1> QED
  BY <1>2, <1>3, <1>4
(* A step that leaves the lock and the requests alone is a stutter.         *)
LEMMA LockUntouched ==
  ASSUME IInv, IInv', UNCHANGED <<lockVars, req, done>>
  PROVE  UNCHANGED Turn!vars
<1>1. UNCHANGED Holder
  BY HolderKept DEF lockVars, Active, Claiming
<1> QED
  BY <1>1 DEF Turn!vars, lockVars

(* So is a request that ends without the claim and without a round.         *)
LEMMA RequestEnds ==
  ASSUME IInv, IInv', UNCHANGED <<lockVars, done>>, NEW q \in Starters,
         NEW to \in {"refused", "noted", "dropped"}, Move(q, "idle", to)
  PROVE  UNCHANGED Turn!vars
<1>1. /\ \A r \in Starters : req'[r] = "started" <=> req[r] = "started"
      /\ \A r \in Starters :
           req'[r] \in {"saving", "saved"} <=> req[r] \in {"saving", "saved"}
      /\ \A r \in Starters :
           req'[r] \in {"saved", "started"} <=> req[r] \in {"saved", "started"}
  BY DEF IInv, TypeOK, Move
<1>2. UNCHANGED Holder
  BY <1>1, HolderKept DEF lockVars, Active, Claiming, Starters
<1>3. /\ UNCHANGED {s \in Sends : req[s] \in {"saved", "started"}}
      /\ UNCHANGED {r \in Starters : req[r] = "started"}
  BY <1>1 DEF Starters
<1> QED
  BY <1>2, <1>3 DEF Turn!vars

(* Setting Round.done ends the round that holds the chat, or one that an    *)
(* abort has closed before.                                                 *)
LEMMA RoundCloses ==
  ASSUME IInv, IInv', UNCHANGED <<lockVars, req>>, NEW q \in Starters,
         req[q] = "started", done' = done \cup {q}
  PROVE  [Turn!Next]_(Turn!vars)
<1>1. CASE q \in done
  BY <1>1, LockUntouched
<1>2. CASE q \notin done
  <2>1. latest = q /\ Active /\ ~Busy'
    BY <1>2, StartersAssumption
       DEF IInv, TypeOK, LockInv, OneRound, ClaimIsHeld, Active, Busy, lockVars
  <2>2. (~Busy => Holder = Turn!Nobody)'
    BY Holders, PTL
  <2>3. Turn!Finish(q)
    BY <2>1, <2>2, Holders DEF Turn!Finish
  <2> QED
    BY <2>3 DEF Turn!Next
<1> QED
  BY <1>1, <1>2
(* Each step of the requests that touches the lock is a step of ChatTurn.   *)
LEMMA SendMapped ==
  ASSUME IInv, IInv', NEW s \in Sends, SendStep(s)
  PROVE  [Turn!Next]_(Turn!vars)
<1> USE DEF Starters
<1>1. /\ Active' => Holder' = Turn!Round(latest)'
      /\ Claiming(s)' => Holder' = Turn!Claim(s)
      /\ ~Busy' => Holder' = Turn!Nobody
  <2>1. Holders!1' /\ Holders!2' /\ Holders!3'
    BY Holders, PTL
  <2> QED
    BY <2>1 DEF IInv, LockInv, Turn!Claim
<1>2. CASE SendClaim(s)
  <2>1. Claiming(s)' /\ UNCHANGED {r \in Sends : req[r] \in {"saved", "started"}}
        /\ UNCHANGED {r \in Starters : req[r] = "started"}
    BY <1>2 DEF SendClaim, Move, Claiming, IInv, TypeOK
  <2>2. Turn!Reserve(s)
    BY <1>1, <1>2, <2>1, Holders DEF SendClaim, Move, Turn!Reserve
  <2> QED
    BY <2>2 DEF Turn!Next
<1>3. CASE SendRefused(s)
  BY <1>3, RequestEnds DEF SendRefused, taskVars
<1>4. CASE SendSlash(s)
  BY <1>4, RequestEnds DEF SendSlash, taskVars
<1>5. CASE SendCommit(s)
  <2>1. /\ Claiming(s) /\ Claiming(s)'
        /\ {r \in Sends : req[r] \in {"saved", "started"}}' =
             {r \in Sends : req[r] \in {"saved", "started"}} \cup {s}
        /\ UNCHANGED {r \in Starters : req[r] = "started"}
    BY <1>5 DEF SendCommit, Move, Claiming, IInv, TypeOK
  <2>2. Turn!SaveTurn(s)
    BY <1>1, <2>1, Holders DEF IInv, LockInv, Turn!SaveTurn
  <2> QED
    BY <2>2 DEF Turn!Next
<1>6. CASE SendFails(s)
  <2>1. /\ Claiming(s) /\ ~Busy'
        /\ UNCHANGED {r \in Sends : req[r] \in {"saved", "started"}}
        /\ UNCHANGED {r \in Starters : req[r] = "started"}
    BY <1>6 DEF SendFails, Move, Claiming, Busy, Active, IInv, TypeOK, LockInv,
       ClaimIsHeld, taskVars
  <2>2. Turn!GiveUp(s)
    BY <1>1, <1>6, <2>1, Holders DEF SendFails, Move, IInv, LockInv, Turn!GiveUp
  <2> QED
    BY <2>2 DEF Turn!Next
<1>7. CASE SendStart(s)
  <2>1. /\ Claiming(s) /\ Active' /\ latest' = s
        /\ UNCHANGED {r \in Sends : req[r] \in {"saved", "started"}}
        /\ {r \in Starters : req[r] = "started"}' =
             {r \in Starters : req[r] = "started"} \cup {s}
    BY <1>7, StartersAssumption
       DEF SendStart, Start, Move, Claiming, Active, IInv, TypeOK, LockInv
  <2>2. Turn!Answer(s)
    BY <1>1, <1>7, <2>1, Holders
       DEF SendStart, Move, IInv, LockInv, Turn!Answer, Turn!Round
  <2> QED
    BY <2>2 DEF Turn!Next
<1> QED
  BY <1>2, <1>3, <1>4, <1>5, <1>6, <1>7, SendStep(s) DEF SendStep

LEMMA StartMapped ==
  ASSUME IInv, IInv', NEW q \in Starters \ Sends, ~Busy, Move(q, "idle", "started"),
         NEW n, Start(q, n), UNCHANGED claim
  PROVE  [Turn!Next]_(Turn!vars)
<1>1. Holders!1'
  BY Holders, PTL
<1>2. /\ Active' /\ latest' = q
      /\ UNCHANGED {r \in Sends : req[r] \in {"saved", "started"}}
      /\ {r \in Starters : req[r] = "started"}' =
           {r \in Starters : req[r] = "started"} \cup {q}
  BY StartersAssumption
     DEF Start, Move, Active, IInv, TypeOK, LockInv, Starters
<1>3. Turn!BeginAlone(q)
  BY <1>1, <1>2, Holders DEF Move, Turn!BeginAlone, Turn!Round
<1> QED
  BY <1>3 DEF Turn!Next

LEMMA StepMapped == IInv /\ IInv' /\ [Next]_vars => [Turn!Next]_(Turn!vars)
<1> SUFFICES ASSUME IInv, IInv', [Next]_vars PROVE [Turn!Next]_(Turn!vars)
  OBVIOUS
<1> USE DEF taskVars
<1>1. ASSUME NEW s \in Sends, SendStep(s) PROVE [Turn!Next]_(Turn!vars)
  BY <1>1, SendMapped
<1>2. ASSUME NEW c \in Continues, ContinueStep(c) PROVE [Turn!Next]_(Turn!vars)
  <2>1. c \in Starters \ Sends
    BY StartersAssumption DEF Starters
  <2>2. CASE ContinueStart(c)
    BY <2>1, <2>2, StartMapped DEF ContinueStart
  <2>3. CASE ContinueRefused(c)
    BY <2>1, <2>3, RequestEnds DEF ContinueRefused
  <2> QED
    BY <1>2, <2>2, <2>3 DEF ContinueStep
<1>3. ASSUME NEW h \in Handbacks, HandbackStep(h) PROVE [Turn!Next]_(Turn!vars)
  <2>1. h \in Starters \ Sends
    BY StartersAssumption DEF Starters
  <2>2. CASE HandbackStart(h)
    BY <2>1, <2>2, StartMapped DEF HandbackStart
  <2>3. CASE HandbackDropped(h)
    BY <2>1, <2>3, RequestEnds DEF HandbackDropped
  <2> QED
    BY <1>3, <2>2, <2>3 DEF HandbackStep
<1>4. ASSUME NEW q \in Starters, SeatStep(q) PROVE [Turn!Next]_(Turn!vars)
  BY <1>4, LockUntouched DEF SeatStep, SeatWrites, SeatSilent, SeatAccepted,
     SeatWithdrawn, SeatRetried, SeatSuppressed
<1>5. ASSUME NEW q \in Starters, WorkerStep(q) PROVE [Turn!Next]_(Turn!vars)
  BY <1>5, LockUntouched DEF WorkerStep, WorkerReads, WorkerStores, WorkerClears,
     WorkerFails
<1>6. ASSUME NEW q \in Starters, task[q] # "none" PROVE req[q] = "started"
  BY <1>6 DEF IInv, LockInv
<1>7. ASSUME NEW q \in Starters, TaskStep(q) PROVE [Turn!Next]_(Turn!vars)
  <2>1. CASE FirstStep(q) \/ SaveReturns(q)
    BY <2>1, LockUntouched DEF FirstStep, SaveReturns
  <2>2. CASE SaveRaises(q) \/ RoundEnds(q)
    BY <2>2, <1>6, RoundCloses DEF SaveRaises, RoundEnds, Runs, Close
  <2> QED
    BY <1>7, <2>1, <2>2 DEF TaskStep
<1>8. ASSUME NEW q \in Starters, CancelStep(q) PROVE [Turn!Next]_(Turn!vars)
  <2>1. CASE Wedge(q) \/ CancelledUnstarted(q)
    BY <2>1, LockUntouched DEF Wedge, CancelledUnstarted
  <2>2. CASE CutOff(q) \/ CutOffFails(q)
    BY <2>2, <1>6, RoundCloses DEF CutOff, CutOffFails, Close
  <2> QED
    BY <1>8, <2>1, <2>2 DEF CancelStep
<1>9. ASSUME NEW a \in Aborts, AbortStep(a) PROVE [Turn!Next]_(Turn!vars)
  <2>1. CASE AbortCancels(a) \/ AbortFindsNone(a) \/ AbortSettles(a)
    BY <2>1, LockUntouched DEF AbortCancels, AbortFindsNone, AbortSettles
  <2>2. CASE AbortGivesUp(a)
    <3>1. target[a] \in Starters /\ req[target[a]] = "started"
      BY <2>2, <1>6 DEF AbortGivesUp, IInv, LockInv
    <3> QED
      BY <2>2, <3>1, RoundCloses DEF AbortGivesUp
  <2> QED
    BY <1>9, <2>1, <2>2 DEF AbortStep
<1>10. CASE UNCHANGED vars
  BY <1>10, LockUntouched DEF vars
<1> QED
  BY <1>1, <1>2, <1>3, <1>4, <1>5, <1>7, <1>8, <1>9, <1>10 DEF Next

(* Every behaviour of the rounds is one of ChatTurn: one party at a time    *)
(* holds the chat, a send from before its turn is saved until its own round *)
(* holds it, so a refused turn was never saved and a saved turn is answered *)
(* by the very next round.                                                  *)
THEOREM Implements == Spec => ImplementsChatTurn
<1>1. Init => Turn!Init
  <2>1. ASSUME Init PROVE ~Busy
    BY <2>1 DEF Init, Busy, Active
  <2> QED
    BY <2>1, Holders DEF Init, Turn!Init, Starters
<1>2. IInv /\ IInv' /\ [Next]_vars => [Turn!Next]_(Turn!vars)
  BY StepMapped
<1> QED
  BY <1>1, <1>2, Invariance, PTL DEF Spec, ImplementsChatTurn, Turn!Spec

-----------------------------------------------------------------------------
(* The transcript: a turn once, a turn with its replies in one block, and  *)
(* nothing a seat wrote lost.                                              *)

(* RowOK says what a row tells of the round that wrote it: a row of the    *)
(* seat that has the floor is the saver's, and a cut-off row closed it.    *)
RowOK(r) ==
  /\ r.seat = 0 =>
       r.end = "whole" /\ req[r.by] \in {"saved", "started", "noted"}
  /\ r.seat > 0 =>
       /\ req[r.by] = "started" /\ task[r.by] # "created"
       /\ r.seat >= left[r.by]
       /\ r.seat = left[r.by] /\ r.end = "whole" =>
            worker[r.by] \in {"stored", "done"}
  /\ r.end = "cut" => Over(r.by)

RowInv == \A i \in DOMAIN log : RowOK(log[i])

InChat(q) == \E i \in DOMAIN log : log[i].by = q /\ log[i].seat = left[q]

(* A save under way is of a seat that has the floor; only an abort ends a  *)
(* task whose save is still under way.                                     *)
SaveInv ==
  \A q \in Starters :
    /\ worker[q] # "idle" => left[q] > 0
    /\ worker[q] \in {"queued", "read", "stored"} /\ Over(q) => q \in cancel
    /\ task[q] = "dropping" => live[q] \in {"pass", "echo"}
    /\ worker[q] = "stored" => InChat(q)

(* What lands after a round's row, by another and not a slash command,     *)
(* lands when the round is over, or one of the two was aborted.            *)
Left(q)  == q \in cancel \cup done \/ req[q] = "noted"
BlockInv ==
  \A i, j \in DOMAIN log :
    i < j /\ log[i].by # log[j].by /\ log[j].what # "slash" =>
      log[j].by \in cancel \/ Left(log[i].by)

TInv == /\ IInv /\ RowInv /\ SaveInv /\ BlockInv /\ AtMostOneCopy /\ TurnsAreBlocks

-----------------------------------------------------------------------------

LEMMA LogTypes ==
  ASSUME TypeOK
  PROVE  /\ Len(log) \in Nat /\ DOMAIN log = 1..Len(log)
         /\ \A i \in DOMAIN log : log[i] \in Row
BY DEF TypeOK

LEMMA RowFields ==
  ASSUME NEW r \in Row
  PROVE  /\ r.by \in Starters /\ r.seat \in Nat /\ r.seat \in 0..MaxSeats
         /\ r.end \in {"whole", "cut"}
BY StartersAssumption DEF Row

LEMMA Appended ==
  ASSUME TypeOK, NEW r \in Row, log' = Append(log, r)
  PROVE  /\ DOMAIN log' = DOMAIN log \cup {Len(log) + 1}
         /\ Len(log) + 1 \notin DOMAIN log
         /\ \A i \in DOMAIN log : log'[i] = log[i] /\ i < Len(log) + 1
         /\ log'[Len(log) + 1] = r
BY DEF TypeOK

(* What stays: a cancellation, a round that is closed, an answered command. *)
LEMMA Stays ==
  ASSUME TypeOK, [Next]_vars, NEW q \in Starters
  PROVE  /\ q \in cancel => q \in cancel'
         /\ Left(q) => Left(q)'
<1> USE DEF TypeOK, Left, Starters, lockVars, taskVars, seatVars, abortVars
<1>1. ASSUME NEW s \in Sends, SendStep(s)
      PROVE  /\ q \in cancel => q \in cancel'
             /\ Left(q) => Left(q)'
  BY <1>1 DEF SendStep, SendClaim, SendRefused, SendSlash, SendCommit,
     SendFails, SendStart, Move, Start
<1>2. ASSUME NEW s \in Starters, ContinueStep(s) \/ HandbackStep(s)
      PROVE  /\ q \in cancel => q \in cancel'
             /\ Left(q) => Left(q)'
  BY <1>2 DEF ContinueStep, ContinueStart, ContinueRefused, HandbackStep,
     HandbackStart, HandbackDropped, Move, Start
<1>3. ASSUME NEW s \in Starters,
             SeatStep(s) \/ WorkerStep(s) \/ TaskStep(s) \/ CancelStep(s)
      PROVE  /\ q \in cancel => q \in cancel'
             /\ Left(q) => Left(q)'
  BY <1>3 DEF SeatStep, SeatWrites, SeatSilent, SeatAccepted, SeatWithdrawn,
     SeatRetried, SeatSuppressed, WorkerStep, WorkerReads, WorkerStores,
     WorkerClears, WorkerFails, TaskStep, FirstStep, SaveReturns, SaveRaises,
     RoundEnds, CancelStep, CutOff, CutOffFails, Wedge, CancelledUnstarted,
     Close, Goto
<1>4. ASSUME NEW a \in Aborts, AbortStep(a)
      PROVE  /\ q \in cancel => q \in cancel'
             /\ Left(q) => Left(q)'
  BY <1>4 DEF AbortStep, AbortCancels, AbortFindsNone, AbortSettles,
     AbortGivesUp
<1>5. CASE UNCHANGED vars
  BY <1>5 DEF vars
<1> QED
  BY <1>1, <1>2, <1>3, <1>4, <1>5 DEF Next

-----------------------------------------------------------------------------

(* A row keeps what it tells, whatever is done after it. *)
LEMMA RowsKept ==
  ASSUME IInv, SaveInv, [Next]_vars, NEW r \in Row, RowOK(r)
  PROVE  RowOK(r)'
<1> DEFINE q == r.by
<1>0. /\ q \in Starters /\ r.seat \in Nat /\ r.end \in {"whole", "cut"}
      /\ left[q] \in Nat /\ MaxSeats \in Nat
  BY RowFields, StartersAssumption DEF IInv, TypeOK
<1>1. SUFFICES ASSUME NEW u \in Starters,
                 \/ u \in Sends /\ SendStep(u)
                 \/ u \in Continues /\ ContinueStep(u)
                 \/ u \in Handbacks /\ HandbackStep(u)
                 \/ SeatStep(u) \/ WorkerStep(u) \/ TaskStep(u) \/ CancelStep(u)
        PROVE  RowOK(r)'
  <2>1. ASSUME NEW a \in Aborts, AbortStep(a) PROVE RowOK(r)'
    BY <2>1 DEF AbortStep, AbortCancels, AbortFindsNone, AbortSettles,
       AbortGivesUp, RowOK, Over, taskVars, seatVars
  <2>2. CASE UNCHANGED vars
    BY <2>2 DEF vars, RowOK, Over, taskVars, seatVars
  <2> QED
    BY <1>1, <2>1, <2>2 DEF Next, Starters
<1> HIDE DEF q
<1>2. CASE u # q
  <2>1. /\ req'[q] = req[q] /\ task'[q] = task[q] /\ left'[q] = left[q]
        /\ worker'[q] = worker[q]
    BY <1>0, <1>1, <1>2 DEF IInv, TypeOK, SendStep, SendClaim, SendRefused, SendSlash,
       SendCommit, SendFails, SendStart, ContinueStep, ContinueStart,
       ContinueRefused, HandbackStep, HandbackStart, HandbackDropped, Move,
       Start, SeatStep, SeatWrites, SeatSilent, SeatAccepted, SeatWithdrawn,
       SeatRetried, SeatSuppressed, WorkerStep, WorkerReads, WorkerStores,
       WorkerClears, WorkerFails, TaskStep, FirstStep, SaveReturns,
       SaveRaises, RoundEnds, CancelStep, CutOff, CutOffFails, Wedge,
       CancelledUnstarted, Close, Goto, NextSeat, taskVars, seatVars
  <2> QED
    BY <2>1 DEF RowOK, Over, q
<1>3. CASE u = q
  <2> USE <1>0, <1>3 DEF RowOK, Over, q, IInv, TypeOK, taskVars, seatVars
  <2>1. CASE u \in Sends /\ SendStep(u)
    BY <2>1 DEF LockInv, SendStep, SendClaim, SendRefused, SendSlash,
       SendCommit, SendFails, SendStart, Move, Start
  <2>2. CASE \/ u \in Continues /\ ContinueStep(u)
             \/ u \in Handbacks /\ HandbackStep(u)
    BY <2>2 DEF ContinueStep, ContinueStart, ContinueRefused, HandbackStep,
       HandbackStart, HandbackDropped, Move, Start
  <2>3. CASE SeatStep(u)
    BY <2>3 DEF SeatInv, LockInv, SeatStep, SeatWrites, SeatSilent,
       SeatAccepted, SeatWithdrawn, SeatRetried, SeatSuppressed, Runs, Goto,
       NextSeat
  <2>4. CASE WorkerStep(u)
    BY <2>4 DEF WorkerStep, WorkerReads, WorkerStores, WorkerClears, WorkerFails
  <2>5. CASE TaskStep(u)
    BY <2>5 DEF SeatInv, SaveInv, TaskStep, FirstStep, SaveReturns, SaveRaises,
       RoundEnds, Runs, Goto, NextSeat, Close
  <2>6. CASE CancelStep(u)
    BY <2>6 DEF CancelStep, CutOff, CutOffFails, Wedge, CancelledUnstarted,
       Goto, Close
  <2> QED
    BY <1>1, <2>1, <2>2, <2>3, <2>4, <2>5, <2>6
<1> QED
  BY <1>2, <1>3

(* The step that saves a row: whose it is, and that it is not there yet.   *)
SavedBy(r) ==
  /\ log' = Append(log, r)
  /\ RowOK(r)'
  /\ \A i \in DOMAIN log :
       log[i].by = r.by /\ log[i].seat = r.seat => log[i].end # r.end
  /\ \/ /\ r.what = "slash"
        /\ \A i \in DOMAIN log : log[i].by # r.by
     \/ /\ Claiming(r.by) /\ r.by \in Sends
        /\ \A i \in DOMAIN log : log[i].by # r.by
     \/ r.by \in cancel
     \/ req[r.by] = "started" /\ r.by \notin done

LEMMA RowSaved ==
  ASSUME IInv, RowInv, SaveInv, [Next]_vars
  PROVE  log' = log \/ \E r \in Row : SavedBy(r)
<1>0. \A i \in DOMAIN log : log[i] \in Row /\ RowOK(log[i]) /\ log[i].seat \in Nat
  BY LogTypes, RowFields DEF IInv, RowInv
<1>1. ASSUME NEW s \in Sends, SendSlash(s) PROVE \E r \in Row : SavedBy(r)
  <2> DEFINE r == [by |-> s, seat |-> 0, what |-> "slash", end |-> "whole"]
  <2>1. r \in Row /\ log' = Append(log, r)
    BY <1>1, SeatCounts DEF SendSlash, Save, Row, Starters
  <2>2. RowOK(r)'
    BY <1>1 DEF SendSlash, Move, RowOK, IInv, TypeOK, Starters
  <2>3. \A i \in DOMAIN log : log[i].by # s
    BY <1>0, <1>1 DEF SendSlash, Move, RowOK
  <2>4. r.by = s /\ r.what = "slash"
    OBVIOUS
  <2> HIDE DEF r
  <2> QED
    BY <2>1, <2>2, <2>3, <2>4 DEF SavedBy
<1>2. ASSUME NEW s \in Sends, SendCommit(s) PROVE \E r \in Row : SavedBy(r)
  <2> DEFINE r == [by |-> s, seat |-> 0, what |-> "words", end |-> "whole"]
  <2>1. r \in Row /\ log' = Append(log, r)
    BY <1>2, SeatCounts DEF SendCommit, Save, Row, Starters
  <2>2. RowOK(r)'
    BY <1>2 DEF SendCommit, Move, RowOK, IInv, TypeOK, Starters
  <2>3. \A i \in DOMAIN log : log[i].by # s
    BY <1>0, <1>2 DEF SendCommit, Move, RowOK
  <2>4. r.by = s /\ Claiming(s)
    BY <1>2 DEF SendCommit, Move, Claiming
  <2> HIDE DEF r
  <2> QED
    BY <2>1, <2>2, <2>3, <2>4 DEF SavedBy
<1>3. ASSUME NEW q \in Starters, WorkerStores(q) PROVE \E r \in Row : SavedBy(r)
  <2> DEFINE r == [by |-> q, seat |-> left[q], what |-> "words", end |-> "whole"]
  <2>1. r \in Row /\ log' = Append(log, r)
    BY <1>3 DEF WorkerStores, Save, Row, IInv, TypeOK
  <2>2. /\ left[q] > 0 /\ left[q] \in Nat
        /\ task[q] \in {"saving", "ended", "failed"} /\ worker[q] = "read"
        /\ req[q] = "started"
    BY <1>3, StartersAssumption
       DEF WorkerStores, SaveInv, IInv, SeatInv, LockInv, TypeOK
  <2>3. RowOK(r)'
    BY <1>3, <2>2 DEF WorkerStores, RowOK, IInv, TypeOK, taskVars, seatVars
  <2>4. ASSUME NEW i \in DOMAIN log, log[i].by = q, log[i].seat = left[q]
        PROVE  log[i].end # "whole"
    BY <1>0, <2>2, <2>4 DEF RowOK
  <2>5. q \in cancel \/ q \notin done
    BY <2>2 DEF SaveInv, Over, IInv, OnlyAbortedTasksLinger
  <2>6. r.by = q /\ r.seat = left[q] /\ r.end = "whole"
    OBVIOUS
  <2> HIDE DEF r
  <2>7. \A i \in DOMAIN log :
          log[i].by = r.by /\ log[i].seat = r.seat => log[i].end # r.end
    BY <2>4, <2>6
  <2>8. r.by \in cancel \/ (req[r.by] = "started" /\ r.by \notin done)
    BY <2>2, <2>5, <2>6
  <2>9. SavedBy(r)
    BY <2>1, <2>3, <2>7, <2>8, Zenon DEF SavedBy
  <2> QED
    BY <2>1, <2>9
<1>4. ASSUME NEW q \in Starters, CutOff(q), KeptWhenCut(q)
      PROVE  \E r \in Row : SavedBy(r)
  <2> DEFINE r == [by |-> q, seat |-> left[q], what |-> live[q], end |-> "cut"]
  <2>1. r \in Row /\ log' = Append(log, r)
    BY <1>4 DEF CutOff, KeptWhenCut, Save, Row, IInv, TypeOK
  <2>2. /\ left[q] > 0 /\ left[q] \in Nat /\ q \in cancel
        /\ task[q] \in {"running", "dropping", "saving", "wedged"}
        /\ req[q] = "started"
    BY <1>4, StartersAssumption
       DEF CutOff, KeptWhenCut, IInv, SeatInv, LockInv, TypeOK
  <2>3. RowOK(r)'
    BY <1>4, <2>2 DEF CutOff, Close, Goto, RowOK, Over, IInv, TypeOK
  <2>4. ASSUME NEW i \in DOMAIN log, log[i].by = q PROVE log[i].end # "cut"
    BY <1>0, <2>2, <2>4 DEF RowOK, Over
  <2>5. r.by = q /\ r.seat = left[q] /\ r.end = "cut"
    OBVIOUS
  <2> HIDE DEF r
  <2>6. \A i \in DOMAIN log :
          log[i].by = r.by /\ log[i].seat = r.seat => log[i].end # r.end
    BY <2>4, <2>5
  <2>7. r.by \in cancel
    BY <2>2, <2>5
  <2>8. SavedBy(r)
    BY <2>1, <2>3, <2>6, <2>7, Zenon DEF SavedBy
  <2> QED
    BY <2>1, <2>8
<1>5. CASE \A q \in Starters : /\ ~WorkerStores(q)
                               /\ ~(CutOff(q) /\ KeptWhenCut(q))
                               /\ ~(q \in Sends /\ SendSlash(q))
                               /\ ~(q \in Sends /\ SendCommit(q))
  <2>1. ASSUME NEW s \in Sends, SendStep(s) PROVE log' = log
    BY <1>5, <2>1 DEF SendStep, SendClaim, SendRefused, SendFails, SendStart,
       Starters
  <2>2. ASSUME NEW q \in Starters, ContinueStep(q) \/ HandbackStep(q)
        PROVE  log' = log
    BY <2>2 DEF ContinueStep, ContinueStart, ContinueRefused, HandbackStep,
       HandbackStart, HandbackDropped
  <2>3. ASSUME NEW q \in Starters,
               SeatStep(q) \/ WorkerStep(q) \/ TaskStep(q) \/ CancelStep(q)
        PROVE  log' = log
    BY <1>5, <2>3 DEF SeatStep, SeatWrites, SeatSilent, SeatAccepted,
       SeatWithdrawn, SeatRetried, SeatSuppressed, WorkerStep, WorkerReads,
       WorkerClears, WorkerFails, TaskStep, FirstStep, SaveReturns, SaveRaises,
       RoundEnds, CancelStep, CutOff, CutOffFails, Wedge, CancelledUnstarted
  <2>4. ASSUME NEW a \in Aborts, AbortStep(a) PROVE log' = log
    BY <2>4 DEF AbortStep, AbortCancels, AbortFindsNone, AbortSettles,
       AbortGivesUp
  <2> QED
    BY <2>1, <2>2, <2>3, <2>4 DEF Next, vars, Starters
<1> QED
  BY <1>1, <1>2, <1>3, <1>4, <1>5

LEMMA RowInvStep == IInv /\ RowInv /\ SaveInv /\ [Next]_vars => RowInv'
<1> SUFFICES ASSUME IInv, RowInv, SaveInv, [Next]_vars PROVE RowInv'
  OBVIOUS
<1>1. \A i \in DOMAIN log : log[i] \in Row /\ RowOK(log[i])
  BY LogTypes DEF IInv, RowInv
<1>2. \A r \in Row : RowOK(r) => RowOK(r)'
  BY RowsKept
<1>3. CASE log' = log
  <2>1. ASSUME NEW i \in DOMAIN log' PROVE RowOK(log[i])'
    <3>1. PICK r \in Row : r = log[i] /\ RowOK(r) /\ r = log'[i]
      BY <1>1, <1>3, <2>1
    <3>2. RowOK(r)'
      BY <1>2, <3>1
    <3> QED
      BY <3>1, <3>2 DEF RowOK
  <2> QED
    BY <2>1 DEF RowInv
<1>4. ASSUME NEW n \in Row, SavedBy(n) PROVE RowInv'
  <2>1. ASSUME NEW i \in DOMAIN log' PROVE RowOK(log[i])'
    <3>1. PICK r \in Row : r = log'[i] /\ (r = n \/ RowOK(r))
      BY <1>1, <1>4, <2>1, Appended DEF SavedBy, IInv
    <3>2. RowOK(r)'
      BY <1>2, <1>4, <3>1 DEF SavedBy
    <3> QED
      BY <3>1, <3>2 DEF RowOK
  <2> QED
    BY <2>1 DEF RowInv
<1> QED
  BY <1>3, <1>4, RowSaved

(* A seat's turn is saved whole once, and cut off once.                    *)
LEMMA CopyStep ==
  IInv /\ RowInv /\ SaveInv /\ AtMostOneCopy /\ [Next]_vars => AtMostOneCopy'
<1> SUFFICES ASSUME IInv, RowInv, SaveInv, AtMostOneCopy, [Next]_vars
             PROVE  AtMostOneCopy'
  OBVIOUS
<1>1. CASE log' = log
  BY <1>1 DEF AtMostOneCopy
<1>2. ASSUME NEW n \in Row, SavedBy(n) PROVE AtMostOneCopy'
  <2> DEFINE m == Len(log) + 1
  <2>1. /\ DOMAIN log' = DOMAIN log \cup {m} /\ m \notin DOMAIN log
        /\ \A i \in DOMAIN log : log'[i] = log[i] /\ i < m
        /\ log'[m] = n /\ m \in Nat /\ DOMAIN log \subseteq Nat
    BY <1>2, Appended, LogTypes DEF SavedBy, IInv
  <2> HIDE DEF m
  <2>2. ASSUME NEW i \in DOMAIN log', NEW j \in DOMAIN log', i < j,
               log'[i].by = log'[j].by, log'[i].seat = log'[j].seat
        PROVE  log'[i].end # log'[j].end
    <3>1. i \in DOMAIN log
      BY <2>1, <2>2
    <3>2. CASE j = m
      BY <1>2, <2>1, <2>2, <3>1, <3>2 DEF SavedBy
    <3>3. CASE j # m
      BY <2>1, <2>2, <3>1, <3>3 DEF AtMostOneCopy
    <3> QED
      BY <3>2, <3>3
  <2> QED
    BY <2>2 DEF AtMostOneCopy
<1> QED
  BY <1>1, <1>2, RowSaved

(* A row that lands beside a claim or an active round finds every other    *)
(* round that has rows over, or its own round aborted.                     *)
LEMMA BlockStep ==
  TInv /\ [Next]_vars => BlockInv' /\ TurnsAreBlocks'
<1> SUFFICES ASSUME TInv, [Next]_vars PROVE BlockInv' /\ TurnsAreBlocks'
  OBVIOUS
<1>0. /\ DOMAIN log \subseteq Nat
      /\ \A i \in DOMAIN log : /\ log[i] \in Row /\ log[i].by \in Starters
                               /\ RowOK(log[i]) /\ log[i].seat \in Nat
  BY LogTypes, RowFields DEF TInv, IInv, RowInv
<1>1. \A q \in Starters : (q \in cancel => q \in cancel') /\ (Left(q) => Left(q)')
  BY Stays DEF TInv, IInv
<1>2. CASE log' = log
  <2>1. BlockInv'
    <3>1. ASSUME NEW i \in DOMAIN log', NEW j \in DOMAIN log', i < j,
                 log'[i].by # log'[j].by, log'[j].what # "slash"
          PROVE  log'[j].by \in cancel' \/ Left(log[i].by)'
      <4>1. PICK q \in Starters : q = log[i].by /\ q = log'[i].by
        BY <1>0, <1>2
      <4>2. log[j].by \in cancel \/ Left(q)
        BY <1>2, <3>1, <4>1 DEF TInv, BlockInv
      <4>3. log'[j].by \in cancel' \/ Left(q)'
        BY <1>0, <1>1, <1>2, <4>2
      <4> QED
        BY <4>1, <4>3 DEF Left
    <3> QED
      BY <3>1 DEF BlockInv
  <2>2. TurnsAreBlocks'
    BY <1>0, <1>1, <1>2 DEF TInv, TurnsAreBlocks
  <2> QED
    BY <2>1, <2>2
<1>3. ASSUME NEW n \in Row, SavedBy(n) PROVE BlockInv' /\ TurnsAreBlocks'
  <2> DEFINE m == Len(log) + 1
  <2>1. /\ DOMAIN log' = DOMAIN log \cup {m} /\ m \notin DOMAIN log
        /\ \A i \in DOMAIN log : log'[i] = log[i] /\ i < m
        /\ log'[m] = n /\ m \in Nat
    BY <1>3, Appended, LogTypes DEF SavedBy, TInv, IInv
  <2> HIDE DEF m
  <2>2. n.by \in Starters
    BY RowFields
  <2>3. ASSUME NEW q \in Starters, NEW i \in DOMAIN log, log[i].by = q,
               q # n.by, n.what # "slash"
        PROVE  n.by \in cancel \/ Left(q)
    <3>1. req[q] \in {"saved", "started", "noted"}
      BY <1>0, <2>3 DEF RowOK
    <3>2. CASE Claiming(n.by) /\ n.by \in Sends
      <4>1. ~Active /\ req[q] # "saved"
        BY <2>3, <3>2 DEF TInv, IInv, LockInv, ClaimIsHeld, Claiming
      <4>2. req[q] = "started" => q \in done
        BY <4>1, StartersAssumption DEF TInv, IInv, LockInv, OneRound, Active
      <4> QED
        BY <3>1, <4>1, <4>2 DEF Left
    <3>3. CASE req[n.by] = "started" /\ n.by \notin done
      <4>1. n.by = latest /\ Active
        BY <2>2, <3>3, StartersAssumption
           DEF TInv, IInv, LockInv, OneRound, Active
      <4>2. req[q] # "saved"
        BY <2>3, <4>1 DEF TInv, IInv, LockInv, ClaimIsHeld, Claiming
      <4>3. req[q] = "started" => q \in done
        BY <2>3, <4>1 DEF TInv, IInv, LockInv, OneRound
      <4> QED
        BY <3>1, <4>2, <4>3 DEF Left
    <3> QED
      BY <1>3, <2>3, <3>2, <3>3 DEF SavedBy
  <2>4. ASSUME NEW i \in DOMAIN log', NEW j \in DOMAIN log', i < j,
               log'[i].by # log'[j].by, log'[j].what # "slash"
        PROVE  log'[j].by \in cancel' \/ Left(log[i].by)'
    <3>1. i \in DOMAIN log
      BY <1>0, <2>1, <2>4
    <3>2. PICK q \in Starters : q = log[i].by /\ q = log'[i].by
      BY <1>0, <2>1, <3>1
    <3>3. CASE j = m
      <4>1. n.by \in cancel \/ Left(q)
        BY <2>1, <2>3, <2>4, <3>1, <3>2, <3>3
      <4> QED
        BY <1>1, <2>1, <2>2, <3>2, <3>3, <4>1 DEF Left
    <3>4. CASE j # m
      <4>1. j \in DOMAIN log /\ log'[j] = log[j]
        BY <2>1, <3>4
      <4>2. log[j].by \in cancel \/ Left(q)
        BY <2>4, <3>1, <3>2, <4>1 DEF TInv, BlockInv
      <4> QED
        BY <1>0, <1>1, <3>2, <4>1, <4>2 DEF Left
    <3> QED
      BY <3>3, <3>4
  <2>5. ASSUME NEW i \in DOMAIN log', NEW j \in DOMAIN log',
               NEW k \in DOMAIN log', i < j, j < k,
               log'[i].by = log'[k].by, log'[j].by # log'[i].by,
               log'[j].what # "slash"
        PROVE  log'[j].by \in cancel' \/ log'[k].by \in cancel'
    <3>1. i \in DOMAIN log /\ j \in DOMAIN log
      BY <1>0, <2>1, <2>5
    <3>2. log'[i] = log[i] /\ log'[j] = log[j]
      BY <2>1, <3>1
    <3>3. CASE k # m
      <4>1. k \in DOMAIN log /\ log'[k] = log[k]
        BY <2>1, <3>3
      <4>2. log[j].by \in cancel \/ log[k].by \in cancel
        BY <2>5, <3>1, <3>2, <4>1 DEF TInv, TurnsAreBlocks
      <4> QED
        BY <1>0, <1>1, <3>1, <3>2, <4>1, <4>2
    <3>4. CASE k = m
      <4>1. log[i].by = n.by /\ log'[k].by = n.by
        BY <2>1, <2>5, <3>2, <3>4
      <4>2. n.by \in cancel \/ (req[n.by] = "started" /\ n.by \notin done)
        BY <1>3, <3>1, <4>1 DEF SavedBy
      <4>3. log[j].by \in cancel \/ Left(n.by)
        BY <2>5, <3>1, <3>2, <4>1 DEF TInv, BlockInv
      <4>4. log[j].by \in cancel \/ n.by \in cancel
        BY <4>2, <4>3 DEF Left
      <4> QED
        BY <1>0, <1>1, <2>2, <3>1, <3>2, <4>1, <4>4
    <3> QED
      BY <3>3, <3>4
  <2>6. BlockInv'
    BY <2>4 DEF BlockInv
  <2>7. TurnsAreBlocks'
    BY <2>5 DEF TurnsAreBlocks
  <2> QED
    BY <2>6, <2>7
<1> QED
  BY <1>2, <1>3, RowSaved DEF TInv

-----------------------------------------------------------------------------

(* Rows are only added, so what is in the chat stays while the same seat   *)
(* has the floor.                                                          *)
LEMMA ChatKept ==
  ASSUME IInv, RowInv, SaveInv, [Next]_vars, NEW q \in Starters, InChat(q),
         left'[q] = left[q]
  PROVE  InChat(q)'
<1>1. PICK i \in DOMAIN log : log[i].by = q /\ log[i].seat = left[q]
  BY DEF InChat
<1>2. i \in DOMAIN log' /\ log'[i] = log[i]
  BY <1>1, RowSaved, Appended DEF SavedBy, IInv
<1> QED
  BY <1>1, <1>2 DEF InChat

(* The same invariant without the rows: what the steps do to one round.    *)
SaveOK(q) ==
  /\ worker[q] # "idle" => left[q] > 0
  /\ worker[q] \in {"queued", "read", "stored"} /\ Over(q) => q \in cancel
  /\ task[q] = "dropping" => live[q] \in {"pass", "echo"}

LEMMA SaveOKStep ==
  ASSUME IInv, SaveInv, [Next]_vars, NEW q \in Starters
  PROVE  /\ SaveOK(q)'
         /\ worker'[q] = "stored" /\ worker[q] = "stored" => left'[q] = left[q]
         /\ worker'[q] = "stored" /\ worker[q] # "stored" => WorkerStores(q)
<1> DEFINE Goal == /\ SaveOK(q)'
                   /\ worker'[q] = "stored" /\ worker[q] = "stored" => left'[q] = left[q]
                   /\ worker'[q] = "stored" /\ worker[q] # "stored" => WorkerStores(q)
<1> SUFFICES Goal
  OBVIOUS
<1>0. /\ SaveOK(q) /\ left[q] \in Nat
      /\ task[q] \in {"dropping", "saving"} \/ live[q] # "none" => left[q] > 0
      /\ worker[q] # "idle" => task[q] \in {"saving", "ended", "failed"}
      /\ task[q] = "none" <=> req[q] # "started"
  BY StartersAssumption DEF SaveInv, SaveOK, IInv, TypeOK, SeatInv, LockInv
<1> USE <1>0 DEF SaveOK, Over, IInv, TypeOK, Starters, lockVars, taskVars,
         seatVars, abortVars
<1>1. ASSUME NEW s \in Sends, SendStep(s) PROVE Goal
  BY <1>1 DEF SendStep, SendClaim, SendRefused, SendSlash, SendCommit,
     SendFails, SendStart, Move, Start
<1>2. ASSUME NEW s \in Starters, ContinueStep(s) \/ HandbackStep(s) PROVE Goal
  BY <1>2 DEF ContinueStep, ContinueStart, ContinueRefused, HandbackStep,
     HandbackStart, HandbackDropped, Move, Start
<1>3. ASSUME NEW s \in Starters, SeatStep(s) PROVE Goal
  BY <1>3 DEF SeatStep, SeatWrites, SeatSilent, SeatAccepted, SeatWithdrawn,
     SeatRetried, SeatSuppressed, Runs, Goto, NextSeat
<1>4. ASSUME NEW s \in Starters, WorkerStep(s) PROVE Goal
  BY <1>4 DEF WorkerStep, WorkerReads, WorkerStores, WorkerClears, WorkerFails
<1>5. ASSUME NEW s \in Starters, TaskStep(s) PROVE Goal
  BY <1>5 DEF TaskStep, FirstStep, SaveReturns, SaveRaises, RoundEnds, Runs,
     Goto, NextSeat, Close
<1>6. ASSUME NEW s \in Starters, CancelStep(s) PROVE Goal
  BY <1>6 DEF CancelStep, CutOff, CutOffFails, Wedge, CancelledUnstarted,
     Goto, Close
<1>7. ASSUME NEW a \in Aborts, AbortStep(a) PROVE Goal
  BY <1>7 DEF AbortStep, AbortCancels, AbortFindsNone, AbortSettles,
     AbortGivesUp
<1>8. CASE UNCHANGED vars
  BY <1>8 DEF vars
<1> QED
  BY <1>1, <1>2, <1>3, <1>4, <1>5, <1>6, <1>7, <1>8 DEF Next

LEMMA StoredRow ==
  ASSUME IInv, NEW q \in Starters, WorkerStores(q)
  PROVE  InChat(q)'
<1> DEFINE r == [by |-> q, seat |-> left[q], what |-> "words", end |-> "whole"]
<1>1. r \in Row /\ log' = Append(log, r) /\ left' = left
  BY DEF WorkerStores, Save, Row, IInv, TypeOK, seatVars
<1>2. r.by = q /\ r.seat = left[q]
  OBVIOUS
<1> HIDE DEF r
<1> QED
  BY <1>1, <1>2, Appended DEF InChat, IInv

LEMMA SaveInvStep == IInv /\ RowInv /\ SaveInv /\ [Next]_vars => SaveInv'
<1> SUFFICES ASSUME IInv, RowInv, SaveInv, [Next]_vars, NEW q \in Starters
             PROVE  SaveOK(q)' /\ (worker'[q] = "stored" => InChat(q)')
  BY DEF SaveInv, SaveOK, Over
<1>1. CASE worker'[q] = "stored" /\ worker[q] = "stored"
  BY <1>1, SaveOKStep, ChatKept DEF SaveInv
<1>2. CASE worker'[q] = "stored" /\ worker[q] # "stored"
  BY <1>2, SaveOKStep, StoredRow
<1>3. CASE worker'[q] # "stored"
  BY <1>3, SaveOKStep
<1> QED
  BY <1>1, <1>2, <1>3, SaveOKStep

LEMMA InitTInv == Init => TInv
<1> SUFFICES ASSUME Init PROVE TInv
  OBVIOUS
<1>1. IInv
  BY InitIInv
<1>2. DOMAIN log = {}
  BY DEF Init
<1>3. RowInv /\ BlockInv /\ AtMostOneCopy /\ TurnsAreBlocks
  BY <1>2 DEF RowInv, BlockInv, AtMostOneCopy, TurnsAreBlocks
<1>4. SaveInv
  BY DEF Init, SaveInv, Over
<1> QED
  BY <1>1, <1>3, <1>4 DEF TInv

LEMMA StepTInv == TInv /\ [Next]_vars => TInv'
<1> SUFFICES ASSUME TInv, [Next]_vars PROVE TInv'
  OBVIOUS
<1>1. IInv'
  BY StepIInv DEF TInv
<1>2. RowInv' /\ SaveInv' /\ AtMostOneCopy'
  BY RowInvStep, SaveInvStep, CopyStep DEF TInv
<1>3. BlockInv' /\ TurnsAreBlocks'
  BY BlockStep
<1> QED
  BY <1>1, <1>2, <1>3 DEF TInv

LEMMA TranscriptKept == Spec => []TInv
BY InitTInv, StepTInv, PTL DEF Spec

-----------------------------------------------------------------------------

(* However many requests, seats and aborts meet, persist_live never saves  *)
(* one seat's turn whole twice, nor cut off twice.                         *)
THEOREM AlwaysAtMostOneCopy == Spec => []AtMostOneCopy
BY TranscriptKept, PTL DEF TInv

(* A person's turn and the replies to it stand together in the chat unless *)
(* an abort parts them: the claim of send_message and the busy check of    *)
(* every other starter keep the rounds of a chat apart.                    *)
THEOREM TurnsAlwaysBlocks == Spec => []TurnsAreBlocks
BY TranscriptKept, PTL DEF TInv

LEMMA CutRow ==
  ASSUME IInv, NEW q \in Starters, CutOff(q), KeptWhenCut(q)
  PROVE  \E i \in DOMAIN log' : log'[i].by = q /\ log'[i].seat = left[q]
<1> DEFINE r == [by |-> q, seat |-> left[q], what |-> live[q], end |-> "cut"]
<1>1. r \in Row /\ log' = Append(log, r)
  BY DEF CutOff, KeptWhenCut, Save, Row, IInv, TypeOK
<1>2. r.by = q /\ r.seat = left[q]
  OBVIOUS
<1> HIDE DEF r
<1> QED
  BY <1>1, <1>2, Appended DEF IInv

LEMMA NothingLostStep ==
  ASSUME TInv, [Next]_vars, NEW q \in Starters,
         live[q] = "words", live'[q] # "words"
  PROVE  \E i \in DOMAIN log' : log'[i].by = q /\ log'[i].seat = left[q]
<1> USE DEF TInv
<1>1. CASE CutOff(q)
  BY <1>1, CutRow DEF KeptWhenCut
<1>2. CASE WorkerClears(q)
  <2>1. InChat(q) /\ left' = left
    BY <1>2 DEF WorkerClears, SaveInv
  <2> QED
    BY <2>1, ChatKept DEF InChat
<1>3. CASE ~CutOff(q) /\ ~WorkerClears(q)
  <2>0. live \in [Starters -> Content] /\ task[q] # "dropping"
    BY DEF IInv, TypeOK, SaveInv
  <2> USE <2>0 DEF Starters, taskVars, seatVars
  <2>1. ASSUME NEW s \in Sends, SendStep(s) PROVE live' = live
    BY <2>1 DEF SendStep, SendClaim, SendRefused, SendSlash, SendCommit,
       SendFails, SendStart, Start
  <2>2. ASSUME NEW s \in Starters, ContinueStep(s) \/ HandbackStep(s)
        PROVE  live' = live
    BY <2>2 DEF ContinueStep, ContinueStart, ContinueRefused, HandbackStep,
       HandbackStart, HandbackDropped, Start
  <2>3. ASSUME NEW s \in Starters,
               SeatStep(s) \/ WorkerStep(s) \/ TaskStep(s) \/ CancelStep(s)
        PROVE  live'[q] = live[q]
    BY <1>3, <2>3 DEF SeatStep, SeatWrites, SeatSilent, SeatAccepted,
       SeatWithdrawn, SeatRetried, SeatSuppressed, WorkerStep, WorkerReads,
       WorkerStores, WorkerClears, WorkerFails, TaskStep, FirstStep,
       SaveReturns, SaveRaises, RoundEnds, CancelStep, CutOff, CutOffFails,
       Wedge, CancelledUnstarted, Runs
  <2>4. ASSUME NEW a \in Aborts, AbortStep(a) PROVE live' = live
    BY <2>4 DEF AbortStep, AbortCancels, AbortFindsNone, AbortSettles,
       AbortGivesUp
  <2> QED
    BY <2>1, <2>2, <2>3, <2>4 DEF Next, vars
<1> QED
  BY <1>1, <1>2, <1>3

(* What a seat wrote leaves `live` only when the chat has it: neither the  *)
(* worker that saves it, nor a cancellation at any await of run_round,     *)
(* drops a reply that was not withdrawn.                                   *)
THEOREM NothingEverLost == Spec => NothingLost
<1>1. ASSUME TInv, [Next]_vars
      PROVE  \A q \in Starters : live[q] = "words" /\ live'[q] # "words" =>
               \E i \in DOMAIN log' : log'[i].by = q /\ log'[i].seat = left[q]
  BY <1>1, NothingLostStep
<1> QED
  BY <1>1, TranscriptKept, PTL DEF Spec, NothingLost
=============================================================================
