----------------------------- MODULE GuestJobs -----------------------------
(***************************************************************************)
(* The guest jobs of one chat: the summons a seat makes in a round         *)
(* (backend/guest.py), the detached job the end of a round launches        *)
(* (backend/guestjobs.py), and the hand-back round that relays its reply   *)
(* (backend/engine.py, make_handback).                                     *)
(*                                                                         *)
(* The chat under them is ChatTurn, which Rounds implements: here a round  *)
(* is only begun, has seats that summon, and ends or is stopped.           *)
(*                                                                         *)
(* Rounds are named <<a, n>>: <<a, 0>> answers the turn, or serves the     *)
(* continue, a, and the job that a round launched is named after that      *)
(* round; <<a, n + 1>> is the hand-back of the job of <<a, n>>.  A         *)
(* continue may run several rounds of seats inside its one round of the    *)
(* chat: all but the last are its parts, and <<p, 0>> names the job that   *)
(* the part p launched.                                                    *)
(***************************************************************************)
EXTENDS Naturals

CONSTANTS
  Turns,        \* what people send
  Continues,    \* requests for rounds without a turn
  Parts,        \* the rounds of seats in a continue, before its last
  MaxRelays,    \* bound on a chain of hand-backs of hand-backs
  SettlePolls,  \* polls of an idle chat before a result is handed back
  MaxRestarts,  \* bound on restarts of the process
  None

ASSUME GuestAssumption ==
  /\ MaxRelays \in Nat \ {0}
  /\ SettlePolls \in Nat \ {0}
  /\ MaxRestarts \in Nat
  /\ Turns \cap Continues = {}
  /\ (Turns \cup Continues) \cap Parts = {}
  /\ None \notin (Turns \cup Continues \cup Parts) \X (0..MaxRelays)

Plain    == Turns \X {0}
Alone    == Continues \X {0}
Inner    == Parts \X {0}
Rounds   == (Turns \cup Continues \cup Parts) \X (0..MaxRelays)
Relay(j) == <<j[1], j[2] + 1>>

VARIABLES
  holder, saved, began,  \* the chat, as in ChatTurn
  code,      \* chats.code_enabled, or "gone" with the chat's row
  offered,   \* the round whose seat was given the summons tool
  pending,   \* guest._pending: the round whose summons is queued
  job,       \* where each job is
  narrate,   \* the jobs started with narrate=True
  kind,      \* GuestJob.kind
  row,       \* guest_jobs.status
  reply,     \* the jobs whose reply is a message of the chat
  notices,   \* the summons the chat was told did not start
  idle,      \* polls for which a finished job has seen the chat idle
  restarts

chatVars   == <<holder, saved, began>>
summonVars == <<code, offered, pending, notices>>
jobVars    == <<job, narrate, kind, row, reply, idle>>
vars == <<chatVars, summonVars, jobVars, restarts>>

Chat == INSTANCE ChatTurn WITH Sends <- Plain, Starters <- Rounds

JobState == {"none", "created", "working", "waiting", "relayed", "dropped", "ended"}
RowState == {"none", "running", "completed", "failed", "cancelled"}

TypeOK ==
  /\ holder \in Chat!Holders
  /\ saved \subseteq Plain
  /\ began \subseteq Rounds
  /\ code \in {"on", "off", "gone"}
  /\ offered \in Rounds \cup {None}
  /\ pending \in Rounds \cup {None}
  /\ job \in [Rounds -> JobState]
  /\ narrate \subseteq Rounds
  /\ kind \in [Rounds -> {"result", "blocker"}]
  /\ row \in [Rounds -> RowState]
  /\ reply \subseteq Rounds
  /\ notices \subseteq Rounds
  /\ idle \in [Rounds -> 0..(SettlePolls - 1)]
  /\ restarts \in 0..MaxRestarts

Init ==
  /\ Chat!Init
  /\ code = "on"
  /\ offered = None
  /\ pending = None
  /\ job = [r \in Rounds |-> "none"]
  /\ narrate = {}
  /\ kind = [r \in Rounds |-> "result"]
  /\ row = [r \in Rounds |-> "none"]
  /\ reply = {}
  /\ notices = {}
  /\ idle = [r \in Rounds |-> 0]
  /\ restarts = 0

-----------------------------------------------------------------------------
(* The chat and its rounds.                                                *)

RoundActive == holder \in {Chat!Round(r) : r \in Rounds}

ChatBusy == holder # Chat!Nobody

Gone == code = "gone"

Turn(s) ==
  /\ \/ Chat!Reserve(s) \/ Chat!GiveUp(s) \/ Chat!Answer(s)
     \/ ~Gone /\ Chat!SaveTurn(s)
  /\ UNCHANGED <<summonVars, jobVars, restarts>>

ContinueStart(c) ==
  /\ ~Gone
  /\ Chat!BeginAlone(c)
  /\ UNCHANGED <<summonVars, jobVars, restarts>>

\* The chat's row goes, and its messages and guest_jobs rows with it.  What
\* holds the chat, queues for it or works for it is not told.
DeleteChat ==
  /\ ~Gone
  /\ code' = "gone"
  /\ reply' = {}
  /\ notices' = {}
  /\ row' = [r \in Rounds |-> "none"]
  /\ UNCHANGED <<chatVars, offered, pending, job, narrate, kind, idle, restarts>>

\* PATCH /api/chats: the chat's Claude Code switch.
Switch ==
  /\ ~Gone
  /\ code' = IF code = "on" THEN "off" ELSE "on"
  /\ UNCHANGED <<chatVars, offered, pending, notices, jobVars, restarts>>

\* The prompt of the round's next seat is put together.
SeatStarts(r) ==
  /\ holder = Chat!Round(r)
  /\ offered' = IF code = "on" THEN r ELSE None
  /\ UNCHANGED <<chatVars, code, pending, notices, jobVars, restarts>>

\* Mutant: a job counts as running only once its task has taken a step.
WorkingOnly(j) == job[j] = "working"

\* guestjobs.active_for_chat.
Running(j) == job[j] \in {"created", "working"}

AnyRunning == \E j \in Rounds : Running(j)

\* guest.request; its refusals change nothing.
Summon(r) ==
  /\ holder = Chat!Round(r)
  /\ offered = r
  /\ pending = None
  /\ ~AnyRunning
  /\ pending' = r
  /\ UNCHANGED <<chatVars, code, offered, notices, jobVars, restarts>>

\* guestjobs.start, with what _finish_round passes as `narrate`.
StartJob(r) ==
  /\ job' = [job EXCEPT ![r] = "created"]
  /\ row' = [row EXCEPT ![r] = "running"]
  /\ narrate' = IF r[2] = 0 THEN narrate \cup {r} ELSE narrate
  /\ UNCHANGED <<kind, reply, idle, notices>>

\* Mutant: a summons that cannot start is dropped without a word.
LaunchQuietly(r) ==
  IF code # "on" \/ AnyRunning THEN UNCHANGED <<jobVars, notices>> ELSE StartJob(r)

\* _launch_guest_job: there is no chat to tell when it was deleted.
Launch(r) ==
  \/ Gone /\ UNCHANGED <<jobVars, notices>>
  \/ /\ ~Gone
     /\ code = "off" \/ AnyRunning
     /\ notices' = notices \cup {pending}
     /\ UNCHANGED jobVars
  \/ code = "on" /\ ~AnyRunning /\ StartJob(r)

\* The round's last step: _finish_round takes the summons and launches it.
RoundEnds(r) ==
  /\ Chat!Finish(r)
  /\ IF pending = None THEN UNCHANGED <<jobVars, notices>> ELSE Launch(r)
  /\ pending' = None
  /\ offered' = None
  /\ UNCHANGED <<code, restarts>>

\* A part of the continue r ends and its stream goes on to the next: the same
\* last step, with the chat still held.
PartEnds(r, part) ==
  /\ holder = Chat!Round(r)
  /\ pending # None
  /\ job[part] = "none"
  /\ Launch(part)
  /\ pending' = None
  /\ offered' = None
  /\ UNCHANGED <<chatVars, code, restarts>>

\* The launch reads and writes the database with the summons already taken:
\* when that raises, the round ends in an error and the summons is gone.  It
\* is gone as well when the notice of a launch that failed cannot be saved.
LaunchRaises(r) ==
  /\ Chat!Finish(r)
  /\ pending # None
  /\ pending' = None
  /\ offered' = None
  /\ UNCHANGED <<code, notices, jobVars, restarts>>

\* An abort, or an exception in a seat's save: _finish_round is not reached.
RoundStops(r) ==
  /\ Chat!Finish(r)
  /\ offered' = None
  /\ UNCHANGED <<code, pending, notices, jobVars, restarts>>

-----------------------------------------------------------------------------
(* The job's task.                                                         *)

Become(j, from, to) ==
  /\ job[j] = from
  /\ job' = [job EXCEPT ![j] = to]

\* A deleted chat has no row of the job to update.
RowTo(j, status) == row' = IF Gone THEN row ELSE [row EXCEPT ![j] = status]

\* The task of a job is through, and the job is forgotten with it.
Reap(j) ==
  /\ kind' = [kind EXCEPT ![j] = "result"]
  /\ idle' = [idle EXCEPT ![j] = 0]

JobStarts(j) ==
  /\ Become(j, "created", "working")
  /\ UNCHANGED <<chatVars, summonVars, narrate, kind, row, reply, idle, restarts>>

\* The guest is done and said something: its reply is saved, the row is
\* completed, and a job that narrates goes on to wait for a pause.
JobCompletes(j) ==
  /\ ~Gone
  /\ Become(j, "working", IF j \in narrate THEN "waiting" ELSE "ended")
  /\ RowTo(j, "completed")
  /\ reply' = reply \cup {j}
  /\ \E k \in {"result", "blocker"} :
       kind' = [kind EXCEPT ![j] = IF j \in narrate THEN k ELSE @]
  /\ UNCHANGED <<chatVars, summonVars, narrate, idle, restarts>>

\* The guest is done and said nothing: no message and no hand-back.
JobSaysNothing(j) ==
  /\ Become(j, "working", "ended")
  /\ RowTo(j, "completed")
  /\ UNCHANGED <<chatVars, summonVars, narrate, kind, reply, idle, restarts>>

JobFails(j) ==
  /\ Become(j, "working", "ended")
  /\ RowTo(j, "failed")
  /\ UNCHANGED <<chatVars, summonVars, narrate, kind, reply, idle, restarts>>

\* _persist_reply or the _broadcast after it raises: the task is gone, and the
\* row still says running.  A reply to a deleted chat always raises.
JobBreaks(j) ==
  /\ Become(j, "working", "ended")
  /\ reply' = reply \/ (~Gone /\ reply' = reply \cup {j})
  /\ UNCHANGED <<chatVars, summonVars, narrate, kind, row, idle, restarts>>

-----------------------------------------------------------------------------
(* wait_for_pause, and the hand-back it leads to.                          *)

Polls(j) == IF kind[j] = "blocker" THEN 1 ELSE SettlePolls

\* A blocker goes at the first poll that finds the chat idle.
Settled(j) == ~RoundActive /\ idle[j] + 1 >= Polls(j)

PollBusy(j) ==
  /\ job[j] = "waiting"
  /\ RoundActive
  /\ idle' = [idle EXCEPT ![j] = 0]
  /\ UNCHANGED <<chatVars, summonVars, job, narrate, kind, row, reply, restarts>>

PollIdle(j) ==
  /\ job[j] = "waiting"
  /\ ~RoundActive
  /\ ~Settled(j)
  /\ idle' = [idle EXCEPT ![j] = @ + 1]
  /\ UNCHANGED <<chatVars, summonVars, job, narrate, kind, row, reply, restarts>>

\* Mutant: the hand-back trusts the poll, which looks at rounds.active only.
HandBackUnchecked(j) ==
  /\ ~Gone
  /\ Become(j, "waiting", "relayed")
  /\ Settled(j)
  /\ j[2] < MaxRelays
  /\ holder' = Chat!Round(Relay(j))
  /\ began' = began \cup {Relay(j)}
  /\ Reap(j)
  /\ UNCHANGED <<saved, summonVars, narrate, row, reply, restarts>>

\* Mutant: only one finished job at a time asks for the chat.
HandBackAlone(j) ==
  /\ ~Gone
  /\ Become(j, "waiting", "relayed")
  /\ Settled(j)
  /\ ~ChatBusy
  /\ \A i \in Rounds \ {j} : job[i] # "waiting"
  /\ j[2] < MaxRelays
  /\ holder' = Chat!Round(Relay(j))
  /\ began' = began \cup {Relay(j)}
  /\ Reap(j)
  /\ UNCHANGED <<saved, summonVars, narrate, row, reply, restarts>>

\* make_handback's handback: the relay round starts in the step of the poll.
HandBack(j) ==
  /\ ~Gone
  /\ Become(j, "waiting", "relayed")
  /\ Settled(j)
  /\ ~ChatBusy
  /\ j[2] < MaxRelays
  /\ holder' = Chat!Round(Relay(j))
  /\ began' = began \cup {Relay(j)}
  /\ Reap(j)
  /\ UNCHANGED <<saved, summonVars, narrate, row, reply, restarts>>

\* A send that saves its turn holds the claim, which the poll does not see;
\* or the chat was deleted.
HandBackDropped(j) ==
  /\ Become(j, "waiting", "dropped")
  /\ Settled(j)
  /\ ChatBusy \/ Gone
  /\ Reap(j)
  /\ UNCHANGED <<chatVars, summonVars, narrate, row, reply, restarts>>

\* HANDBACK_MAX_WAIT_S passed, nobody is left to relay, or the hand-back
\* raised.
WaitEnds(j) ==
  /\ Become(j, "waiting", "dropped")
  /\ Reap(j)
  /\ UNCHANGED <<chatVars, summonVars, narrate, row, reply, restarts>>

-----------------------------------------------------------------------------

\* The process stops.  A kill leaves the rows as they are; a shutdown cancels
\* the tasks, and a job at work then saves what it has and settles its row.
\* The new process knows of no summons and no job.
Restart ==
  /\ restarts < MaxRestarts
  /\ restarts' = restarts + 1
  /\ holder' = Chat!Nobody
  /\ pending' = None
  /\ offered' = None
  /\ job' = [j \in Rounds |-> IF job[j] \in {"created", "working", "waiting"}
                                THEN "ended" ELSE job[j]]
  /\ \E settled \in SUBSET {j \in Rounds : job[j] = "working" /\ ~Gone} :
       /\ row' = [j \in Rounds |-> IF j \in settled THEN "cancelled" ELSE row[j]]
       /\ \E partial \in SUBSET settled : reply' = reply \cup partial
  /\ kind' = [j \in Rounds |-> "result"]
  /\ idle' = [j \in Rounds |-> 0]
  /\ UNCHANGED <<saved, began, code, notices, narrate>>

RoundStep(r) ==
  \/ SeatStarts(r) \/ Summon(r) \/ RoundEnds(r) \/ RoundStops(r) \/ LaunchRaises(r)

TaskStep(j) ==
  \/ JobStarts(j) \/ JobCompletes(j) \/ JobSaysNothing(j) \/ JobFails(j)
  \/ JobBreaks(j)

WaitStep(j) ==
  \/ PollBusy(j) \/ PollIdle(j) \/ HandBack(j) \/ HandBackDropped(j)

Next ==
  \/ \E s \in Plain : Turn(s)
  \/ \E c \in Alone : ContinueStart(c) \/ \E part \in Inner : PartEnds(c, part)
  \/ Switch \/ DeleteChat \/ Restart
  \/ \E r \in Rounds : RoundStep(r) \/ TaskStep(r) \/ WaitStep(r) \/ WaitEnds(r)

Spec == Init /\ [][Next]_vars

(* Rounds ends every round that began and answers every turn it saved; a   *)
(* finished job polls until it is through.  Nothing makes a guest finish,  *)
(* and the hour of HANDBACK_MAX_WAIT_S is left out: the pause must come.   *)
Fairness ==
  /\ \A s \in Plain : WF_vars(holder = Chat!Claim(s) /\ Turn(s))
  /\ \A r \in Rounds : WF_vars(RoundEnds(r) \/ RoundStops(r) \/ LaunchRaises(r))
  /\ \A j \in Rounds : WF_vars(WaitStep(j))

FairSpec == Spec /\ Fairness

-----------------------------------------------------------------------------
(* Safety.                                                                 *)

\* One guest at a time: no two jobs of a chat run at once, whatever was left
\* queued by rounds that were stopped.
OneGuest == \A i, j \in Rounds : Running(i) /\ Running(j) => i = j

\* Auto-rounds are bounded: a hand-back relays a job that a person's round
\* launched, never one of another hand-back.
RelaysBounded == \A r \in began : r[2] <= 1

\* Jobs that finish at any moment take the chat only between its parties:
\* hand-backs keep ChatTurn's order, and only a restart breaks it off.
KeepsChatTurn ==
  [][Chat!Next \/ restarts' # restarts]_chatVars

\* A hand-back round begins only when the reply it relays is in the chat.
RelaysAreOfReplies ==
  \A j \in Rounds : j[2] < MaxRelays /\ Relay(j) \in began /\ ~Gone =>
    j \in reply /\ row[j] = "completed"

Starts(j) == job[j] = "none" /\ job'[j] = "created"

\* A summons a round took is a job or the chat was told (#170): the one that
\* is dropped in silence is the one whose launch raised, unless the chat is
\* deleted, which leaves nothing to tell.
SummonsAnswered ==
  [][\A r \in Rounds :
       pending = r /\ pending' = None /\ restarts' = restarts
         => \/ Gone \/ r \in notices'
            \/ \E j \in Rounds : Starts(j) \/ LaunchRaises(j)]_vars

-----------------------------------------------------------------------------
(* Liveness.                                                               *)

\* A finished job's wait comes to an end by itself: its result is relayed,
\* or it is dropped because somebody else has the chat.
PauseComes == \A j \in Rounds : job[j] = "waiting" ~> job[j] # "waiting"

-----------------------------------------------------------------------------
(* A promise of the docs that the code breaks.                             *)

\* "Claude Code will join at the end of this round": the job of a summons is
\* launched by the round the summons was made in.
JoinsItsRound ==
  [][\A j \in Rounds : Starts(j) =>
       IF j \in Inner THEN pending \in Alone ELSE pending = j]_vars
=============================================================================
