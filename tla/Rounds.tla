------------------------------- MODULE Rounds -------------------------------
(***************************************************************************)
(* The rounds of one chat (backend/rounds.py), every way one is started    *)
(* (send, continue, hand-back), the round's task as far as it decides what *)
(* is saved (backend/engine.py), and the abort.                            *)
(*                                                                         *)
(* Everything on the event loop is atomic between two awaits, so an action *)
(* is the code from one await to the next.  The two things that are not on *)
(* the loop are the worker threads: the one that saves a user's turn       *)
(* (SendCommit) and the one that saves a seat's reply (Worker...).         *)
(*                                                                         *)
(* A round is named by the request that started it: rounds of one chat     *)
(* share nothing else, and a request starts at most one.                   *)
(***************************************************************************)
EXTENDS Naturals, Sequences

CONSTANTS
  Sends,      \* POST /send requests
  Continues,  \* POST /continue requests
  Handbacks,  \* hand-backs of a finished background job
  Aborts,     \* POST /round/abort requests
  MaxSeats,   \* the most seats that answer in one round
  None        \* no round

Starters == Sends \cup Continues \cup Handbacks

ASSUME StartersAssumption ==
  /\ Sends \cap Continues = {}
  /\ Sends \cap Handbacks = {}
  /\ Continues \cap Handbacks = {}
  /\ None \notin Starters
  /\ MaxSeats \in Nat \ {0}

VARIABLES
  claim,    \* whether the chat is in rounds._claims
  latest,   \* rounds._rounds[chat]: the newest round, finished or not
  req,      \* where each request that may start a round is
  done,     \* the rounds with Round.done set
  task,     \* where the round's asyncio task is
  cancel,   \* the rounds whose task.cancel() was called
  left,     \* seats still to speak, the one speaking included
  live,     \* what the speaking seat has in run_round's `live`
  retried,  \* the rounds whose speaking seat is on its second try
  worker,   \* the thread that runs persist_live for the round
  log,      \* the chat's messages, in the order they were committed
  abt,      \* where each abort request is
  target    \* the round an abort request cancelled

lockVars  == <<claim, latest>>
taskVars  == <<done, task, cancel>>
seatVars  == <<left, live, retried>>
abortVars == <<abt, target>>
vars == <<lockVars, req, taskVars, seatVars, worker, log, abortVars>>

ReqState    == {"idle", "saving", "saved", "started", "refused", "failed",
                "dropped", "noted"}
TaskState   == {"none", "created", "running", "dropping", "saving", "wedged",
                "ended", "failed"}
\* "words": something that must reach the chat (text, or tool calls alone).
\* "echo": a reply the echo guard calls a restatement.  "pass": a [pass].
Content     == {"none", "words", "echo", "pass"}
WorkerState == {"idle", "queued", "read", "stored", "done", "failed"}
AbortState  == {"idle", "waiting", "returned"}

\* A row of the messages table.  `seat` is 0 for a person's turn.
Row == [by: Starters, seat: 0..MaxSeats, end: {"whole", "cut"},
        what: {"words", "echo", "pass", "slash"}]

TypeOK ==
  /\ claim \in {"free", "held"}
  /\ latest \in Starters \cup {None}
  /\ req \in [Starters -> ReqState]
  /\ done \subseteq Starters
  /\ task \in [Starters -> TaskState]
  /\ cancel \subseteq Starters
  /\ left \in [Starters -> 0..MaxSeats]
  /\ live \in [Starters -> Content]
  /\ retried \subseteq Starters
  /\ worker \in [Starters -> WorkerState]
  /\ log \in Seq(Row)
  /\ abt \in [Aborts -> AbortState]
  /\ target \in [Aborts -> Starters \cup {None}]

Init ==
  /\ claim = "free"
  /\ latest = None
  /\ req = [q \in Starters |-> "idle"]
  /\ done = {}
  /\ task = [q \in Starters |-> "none"]
  /\ cancel = {}
  /\ left = [q \in Starters |-> 0]
  /\ live = [q \in Starters |-> "none"]
  /\ retried = {}
  /\ worker = [q \in Starters |-> "idle"]
  /\ log = <<>>
  /\ abt = [a \in Aborts |-> "idle"]
  /\ target = [a \in Aborts |-> None]

-----------------------------------------------------------------------------
(* rounds.active, rounds.busy, rounds.claim and rounds.start.              *)

Active == latest # None /\ latest \notin done

\* Mutant: the check before #434, blind to a send that is saving its turn.
BusyIsActive == Active

Busy == Active \/ claim = "held"

Save(q, seat, what, end) ==
  log' = Append(log, [by |-> q, seat |-> seat, what |-> what, end |-> end])

Move(q, from, to) ==
  /\ req[q] = from
  /\ req' = [req EXCEPT ![q] = to]

Start(q, n) ==
  /\ latest' = q
  /\ task' = [task EXCEPT ![q] = "created"]
  /\ left' = [left EXCEPT ![q] = n]
  /\ UNCHANGED <<done, cancel, live, retried, worker, abortVars>>

-----------------------------------------------------------------------------
(* The requests that start rounds.                                         *)

\* send_message: the claim, or the 409, before anything is saved.
SendClaim(s) ==
  /\ ~Busy
  /\ Move(s, "idle", "saving")
  /\ claim' = "held"
  /\ UNCHANGED <<latest, taskVars, seatVars, worker, log, abortVars>>

SendRefused(s) ==
  /\ Busy
  /\ Move(s, "idle", "refused")
  /\ UNCHANGED <<lockVars, taskVars, seatVars, worker, log, abortVars>>

\* A slash command: saved at once, round or no round, and answered by none.
SendSlash(s) ==
  /\ Move(s, "idle", "noted")
  /\ Save(s, 0, "slash", "whole")
  /\ UNCHANGED <<lockVars, taskVars, seatVars, worker, abortVars>>

\* _persist_user_message on its worker thread.
SendCommit(s) ==
  /\ Move(s, "saving", "saved")
  /\ Save(s, 0, "words", "whole")
  /\ UNCHANGED <<lockVars, taskVars, seatVars, worker, abortVars>>

\* Mutant: the release is not in a finally.
SendFailsKeepsClaim(s) ==
  /\ Move(s, "saving", "failed")
  /\ UNCHANGED <<lockVars, taskVars, seatVars, worker, log, abortVars>>

\* Mutant: the send is refused after its turn was saved.
SendFailsAfterSaving(s) ==
  /\ Move(s, "saved", "failed")
  /\ claim' = "free"
  /\ UNCHANGED <<latest, taskVars, seatVars, worker, log, abortVars>>

\* The same call raising (no such chat, empty message, database locked): the
\* route's finally releases the claim.
SendFails(s) ==
  /\ Move(s, "saving", "failed")
  /\ claim' = "free"
  /\ UNCHANGED <<latest, taskVars, seatVars, worker, log, abortVars>>

\* Mutant: the turn is saved and its round never started.
SendStartForgotten(s) ==
  /\ Move(s, "saved", "noted")
  /\ claim' = "free"
  /\ UNCHANGED <<latest, taskVars, seatVars, worker, log, abortVars>>

\* _send resumes on the loop: pick_responders, rounds.start, and the release
\* in the route's finally, with no await between.
SendStart(s) ==
  /\ Move(s, "saved", "started")
  /\ \E n \in 0..MaxSeats : Start(s, n)
  /\ claim' = "free"
  /\ UNCHANGED log

ContinueStart(c) ==
  /\ ~Busy
  /\ Move(c, "idle", "started")
  /\ \E n \in 0..MaxSeats : Start(c, n)
  /\ UNCHANGED <<claim, log>>

ContinueRefused(c) ==
  /\ Busy
  /\ Move(c, "idle", "refused")
  /\ UNCHANGED <<lockVars, taskVars, seatVars, worker, log, abortVars>>

\* Mutant: the hand-back checks rounds.active, not rounds.busy.
HandbackStartInGap(h) ==
  /\ ~Active
  /\ Move(h, "idle", "started")
  /\ Start(h, 1)
  /\ UNCHANGED <<claim, log>>

\* make_handback: one seat relays, and a busy chat drops the hand-back.
HandbackStart(h) ==
  /\ ~Busy
  /\ Move(h, "idle", "started")
  /\ Start(h, 1)
  /\ UNCHANGED <<claim, log>>

\* Also its other early returns: no such chat, no roster, nobody to speak.
HandbackDropped(h) ==
  /\ Move(h, "idle", "dropped")
  /\ UNCHANGED <<lockVars, taskVars, seatVars, worker, log, abortVars>>

-----------------------------------------------------------------------------
(* The round's task.  A cancelled task takes no ordinary step: the         *)
(* cancellation is thrown in at the await it is parked on.                 *)

Runs(q, at) == task[q] = at /\ q \notin cancel

Goto(q, to) == task' = [task EXCEPT ![q] = to]

Close(q, how) ==
  /\ done' = done \cup {q}
  /\ Goto(q, how)
  /\ UNCHANGED cancel

NextSeat(q) ==
  /\ left' = [left EXCEPT ![q] = @ - 1]
  /\ retried' = retried \ {q}

FirstStep(q) ==
  /\ Runs(q, "created")
  /\ Goto(q, "running")
  /\ UNCHANGED <<lockVars, req, done, cancel, seatVars, worker, log, abortVars>>

\* The provider stream brings the seat's text.
SeatWrites(q) ==
  /\ Runs(q, "running")
  /\ left[q] > 0
  /\ live[q] = "none"
  /\ \E c \in Content \ {"none"} : live' = [live EXCEPT ![q] = c]
  /\ UNCHANGED <<lockVars, req, taskVars, left, retried, worker, log, abortVars>>

\* The seat failed, stalled or came back empty, and wrote nothing.
SeatSilent(q) ==
  /\ Runs(q, "running")
  /\ left[q] > 0
  /\ live[q] = "none"
  /\ NextSeat(q)
  /\ UNCHANGED <<lockVars, req, taskVars, live, worker, log, abortVars>>

\* _judge_reply accepts (an echo too when the chat is spoken, or the guard is
\* off): the reply goes to a worker thread and the task awaits it.
SeatAccepted(q) ==
  /\ Runs(q, "running")
  /\ live[q] \in {"words", "echo"}
  /\ Goto(q, "saving")
  /\ worker' = [worker EXCEPT ![q] = "queued"]
  /\ UNCHANGED <<lockVars, req, done, cancel, seatVars, log, abortVars>>

\* _judge_reply refuses or suppresses: `passed` is sent to the client, and the
\* call's cost is recorded on a worker thread while `live` still holds it.
SeatWithdrawn(q) ==
  /\ Runs(q, "running")
  /\ live[q] \in {"pass", "echo"}
  /\ Goto(q, "dropping")
  /\ UNCHANGED <<lockVars, req, done, cancel, seatVars, worker, log, abortVars>>

SeatRetried(q) ==
  /\ Runs(q, "dropping")
  /\ q \notin retried
  /\ retried' = retried \cup {q}
  /\ live' = [live EXCEPT ![q] = "none"]
  /\ Goto(q, "running")
  /\ UNCHANGED <<lockVars, req, done, cancel, left, worker, log, abortVars>>

\* A first pass may stand; an echo only goes on the second try.
SeatSuppressed(q) ==
  /\ Runs(q, "dropping")
  /\ q \in retried \/ live[q] = "pass"
  /\ NextSeat(q)
  /\ live' = [live EXCEPT ![q] = "none"]
  /\ Goto(q, "running")
  /\ UNCHANGED <<lockVars, req, done, cancel, worker, log, abortVars>>

\* persist_live on the worker thread: it reads `live`, commits the insert and
\* only then clears `live`.
WorkerReads(q) ==
  /\ worker[q] = "queued"
  /\ worker' = [worker EXCEPT ![q] = IF live[q] = "none" THEN "done" ELSE "read"]
  /\ UNCHANGED <<lockVars, req, taskVars, seatVars, log, abortVars>>

\* Mutant: an insert that was committed is retried.
WorkerStoresRetried(q) ==
  /\ worker[q] = "read"
  /\ \E w \in {"stored", "read"} : worker' = [worker EXCEPT ![q] = w]
  /\ Save(q, left[q], "words", "whole")
  /\ UNCHANGED <<lockVars, req, taskVars, seatVars, abortVars>>

WorkerStores(q) ==
  /\ worker[q] = "read"
  /\ worker' = [worker EXCEPT ![q] = "stored"]
  /\ Save(q, left[q], "words", "whole")
  /\ UNCHANGED <<lockVars, req, taskVars, seatVars, abortVars>>

WorkerClears(q) ==
  /\ worker[q] = "stored"
  /\ worker' = [worker EXCEPT ![q] = "done"]
  /\ live' = [live EXCEPT ![q] = "none"]
  /\ UNCHANGED <<lockVars, req, taskVars, left, retried, log, abortVars>>

\* The insert raises: the database stayed locked, or the chat was deleted.
WorkerFails(q) ==
  /\ worker[q] = "read"
  /\ worker' = [worker EXCEPT ![q] = "failed"]
  /\ UNCHANGED <<lockVars, req, taskVars, seatVars, log, abortVars>>

SaveReturns(q) ==
  /\ Runs(q, "saving")
  /\ worker[q] = "done"
  /\ worker' = [worker EXCEPT ![q] = "idle"]
  /\ NextSeat(q)
  /\ Goto(q, "running")
  /\ UNCHANGED <<lockVars, req, done, cancel, live, log, abortVars>>

\* Mutant: the exception escapes without the finally that sets done.
SaveRaisesUnfinished(q) ==
  /\ Runs(q, "saving")
  /\ worker[q] = "failed"
  /\ Goto(q, "failed")
  /\ UNCHANGED <<lockVars, req, done, cancel, seatVars, worker, log, abortVars>>

\* The exception leaves run_round; _run reports it and closes the round.
SaveRaises(q) ==
  /\ Runs(q, "saving")
  /\ worker[q] = "failed"
  /\ Close(q, "failed")
  /\ UNCHANGED <<lockVars, req, seatVars, worker, log, abortVars>>

\* Every seat has had its turn: _finish_round, then _run's finally.
RoundEnds(q) ==
  /\ Runs(q, "running")
  /\ left[q] = 0
  /\ Close(q, "ended")
  /\ UNCHANGED <<lockVars, req, seatVars, worker, log, abortVars>>

-----------------------------------------------------------------------------
(* Cancellation.                                                           *)

\* What persist_live(interrupted=True) keeps: not a pass cut off halfway.
KeptWhenCut(q) == live[q] \in {"words", "echo"}

\* Mutant: the partial is handed to a thread, and that await is cancelled too.
CutOffLosesReply(q) ==
  /\ q \in cancel
  /\ task[q] \in {"running", "dropping", "saving", "wedged"}
  /\ live' = [live EXCEPT ![q] = "none"]
  /\ Close(q, "ended")
  /\ UNCHANGED <<lockVars, req, left, retried, worker, log, abortVars>>

\* CancelledError reaches run_round: what the seat had is saved on the loop
\* with the cut-off marker, and _run closes the round.  A worker thread that
\* was already saving the same reply is not stopped by it.
CutOff(q) ==
  /\ q \in cancel
  /\ task[q] \in {"running", "dropping", "saving", "wedged"}
  /\ IF KeptWhenCut(q) THEN Save(q, left[q], live[q], "cut") ELSE UNCHANGED log
  /\ live' = [live EXCEPT ![q] = "none"]
  /\ Close(q, "ended")
  /\ UNCHANGED <<lockVars, req, left, retried, worker, abortVars>>

\* The same insert raising.
CutOffFails(q) ==
  /\ q \in cancel
  /\ task[q] \in {"running", "dropping", "saving", "wedged"}
  /\ KeptWhenCut(q)
  /\ Close(q, "failed")
  /\ UNCHANGED <<lockVars, req, seatVars, worker, log, abortVars>>

\* The provider's teardown hangs with the cancellation inside it.
Wedge(q) ==
  /\ q \in cancel
  /\ task[q] = "running"
  /\ Goto(q, "wedged")
  /\ UNCHANGED <<lockVars, req, done, cancel, seatVars, worker, log, abortVars>>

\* A task cancelled before its first step never enters _run, so neither the
\* handlers nor the finally that sets Round.done ever run.
CancelledUnstarted(q) ==
  /\ q \in cancel
  /\ task[q] = "created"
  /\ Goto(q, "ended")
  /\ UNCHANGED <<lockVars, req, done, cancel, seatVars, worker, log, abortVars>>

\* rounds.abort up to its wait.
AbortCancels(a) ==
  /\ abt[a] = "idle"
  /\ Active
  /\ abt' = [abt EXCEPT ![a] = "waiting"]
  /\ target' = [target EXCEPT ![a] = latest]
  /\ cancel' = cancel \cup {latest}
  /\ UNCHANGED <<lockVars, req, done, task, seatVars, worker, log>>

AbortFindsNone(a) ==
  /\ abt[a] = "idle"
  /\ ~Active
  /\ abt' = [abt EXCEPT ![a] = "returned"]
  /\ UNCHANGED <<lockVars, req, taskVars, seatVars, worker, log, target>>

AbortSettles(a) ==
  /\ abt[a] = "waiting"
  /\ task[target[a]] \in {"ended", "failed"}
  /\ abt' = [abt EXCEPT ![a] = "returned"]
  /\ UNCHANGED <<lockVars, req, taskVars, seatVars, worker, log, target>>

\* Mutant: the wait for the cancelled task is unbounded.
AbortWaitsForever(a) ==
  /\ abt[a] = "waiting"
  /\ task[target[a]] = "ended"
  /\ abt' = [abt EXCEPT ![a] = "returned"]
  /\ UNCHANGED <<lockVars, req, taskVars, seatVars, worker, log, target>>

\* ABORT_SETTLE_S passes: only a wedged teardown can take that long.
AbortGivesUp(a) ==
  /\ abt[a] = "waiting"
  /\ task[target[a]] = "wedged"
  /\ done' = done \cup {target[a]}
  /\ abt' = [abt EXCEPT ![a] = "returned"]
  /\ UNCHANGED <<lockVars, req, task, cancel, seatVars, worker, log, target>>

-----------------------------------------------------------------------------

SendStep(s) ==
  \/ SendClaim(s) \/ SendRefused(s) \/ SendSlash(s)
  \/ SendCommit(s) \/ SendFails(s) \/ SendStart(s)

ContinueStep(c) == ContinueStart(c) \/ ContinueRefused(c)

HandbackStep(h) == HandbackStart(h) \/ HandbackDropped(h)

SeatStep(q) ==
  \/ SeatWrites(q) \/ SeatSilent(q) \/ SeatAccepted(q)
  \/ SeatWithdrawn(q) \/ SeatRetried(q) \/ SeatSuppressed(q)

WorkerStep(q) ==
  \/ WorkerReads(q) \/ WorkerStores(q) \/ WorkerClears(q) \/ WorkerFails(q)

TaskStep(q) ==
  \/ FirstStep(q) \/ SaveReturns(q) \/ SaveRaises(q) \/ RoundEnds(q)

CancelStep(q) ==
  \/ CutOff(q) \/ CutOffFails(q) \/ Wedge(q) \/ CancelledUnstarted(q)

AbortStep(a) ==
  \/ AbortCancels(a) \/ AbortFindsNone(a) \/ AbortSettles(a) \/ AbortGivesUp(a)

Next ==
  \/ \E s \in Sends : SendStep(s)
  \/ \E c \in Continues : ContinueStep(c)
  \/ \E h \in Handbacks : HandbackStep(h)
  \/ \E q \in Starters : SeatStep(q) \/ WorkerStep(q) \/ TaskStep(q) \/ CancelStep(q)
  \/ \E a \in Aborts : AbortStep(a)

Spec == Init /\ [][Next]_vars

(* The loop and its threads run whatever is ready, so every step a request *)
(* or a task has begun is taken; SEAT_STALL_TIMEOUT_S makes a silent       *)
(* provider end as a failed seat.  Nothing makes a client send or a hung   *)
(* teardown finish.                                                        *)
Fairness ==
  /\ \A s \in Sends : WF_vars(SendCommit(s) \/ SendFails(s)) /\ WF_vars(SendStart(s))
  /\ \A q \in Starters :
       /\ WF_vars(SeatStep(q))
       /\ WF_vars(WorkerStep(q))
       /\ WF_vars(TaskStep(q))
       /\ WF_vars(task[q] # "wedged" /\ CancelStep(q))
  /\ \A a \in Aborts : WF_vars(AbortSettles(a) \/ AbortGivesUp(a))

FairSpec == Spec /\ Fairness

-----------------------------------------------------------------------------
(* Safety.                                                                 *)

Over(q) == task[q] \in {"ended", "failed"}

\* A chat has at most one unfinished round, and it is the one _rounds names:
\* what rounds.busy, claim and every starter's check are there for.
OneRound == \A q \in Starters : req[q] = "started" /\ q \notin done => q = latest

\* A claim is held by exactly one send, from before it saves its turn until
\* its round has started, and no round is active meanwhile (#434): a turn is
\* never saved by a send that could still be refused, and no claim leaks.
Claiming(s) == req[s] \in {"saving", "saved"}
ClaimIsHeld ==
  /\ claim = "held" <=> \E s \in Sends : Claiming(s)
  /\ \A s, t \in Sends : Claiming(s) /\ Claiming(t) => s = t
  /\ claim = "held" => ~Active

\* A round's task outlives its round only after an abort that gave up on it:
\* nothing else leaves two generations running in one chat.
OnlyAbortedTasksLinger ==
  \A q \in Starters : q \in done /\ ~Over(q) => q \in cancel /\ task[q] = "wedged"

\* A person's turn and the replies to it are one block of the transcript:
\* another round's row can only come between them when one of the two rounds
\* was aborted ("two rounds for one chat can't interleave").
TurnsAreBlocks ==
  \A i, j, k \in DOMAIN log :
    /\ i < j /\ j < k
    /\ log[i].by = log[k].by /\ log[j].by # log[i].by
    /\ log[j].what # "slash"
    => log[j].by \in cancel \/ log[k].by \in cancel

\* A seat's turn is in the chat at most once, except that an abort during its
\* save may add the cut-off copy.
AtMostOneCopy ==
  \A i, j \in DOMAIN log :
    i < j /\ log[i].by = log[j].by /\ log[i].seat = log[j].seat
      => log[i].end # log[j].end

\* What a seat wrote leaves `live` only once the chat has it, cut or whole:
\* neither an abort nor a slow save can lose a reply that was not withdrawn.
NothingLost ==
  [][\A q \in Starters :
       live[q] = "words" /\ live'[q] # "words"
         => \E i \in DOMAIN log' : log'[i].by = q /\ log'[i].seat = left[q]]_vars

-----------------------------------------------------------------------------
(* Liveness.                                                               *)

\* Stop always answers, however badly the round's teardown hangs.
AbortReturns == \A a \in Aborts : abt[a] = "waiting" ~> abt[a] = "returned"

\* A saved turn gets its round, and the round's task comes to rest or hangs
\* in its teardown.
TurnAnswered ==
  \A s \in Sends : req[s] = "saved" ~> Over(s) \/ task[s] = "wedged"

\* A round that took its first step frees the chat in the end.
RoundFinishes == \A q \in Starters : task[q] = "running" ~> q \in done

-----------------------------------------------------------------------------
(* Refinement.                                                             *)

Holder ==
  IF Active THEN [by |-> "round", round |-> latest]
  ELSE IF claim = "held" THEN [by |-> "send", send |-> CHOOSE s \in Sends : Claiming(s)]
  ELSE [by |-> "nobody"]

Turn == INSTANCE ChatTurn WITH
  holder <- Holder,
  saved <- {s \in Sends : req[s] \in {"saved", "started"}},
  began <- {q \in Starters : req[q] = "started"}

\* The rounds give the chat to one party at a time, in ChatTurn's order.
ImplementsChatTurn == Turn!Spec

-----------------------------------------------------------------------------
(* Promises of the docs that the code breaks.                              *)

\* rounds.abort: a round must never latch the running lock; once abort has
\* returned, the round it stopped no longer holds the chat.
AbortFreesTheChat ==
  \A a \in Aborts : abt[a] = "returned" /\ target[a] # None => target[a] \in done

\* A seat's turn is saved once: the abort waits for the save, so it cannot
\* race it.
OneCopy ==
  \A i, j \in DOMAIN log :
    i < j => log[i].by # log[j].by \/ log[i].seat # log[j].seat
=============================================================================
