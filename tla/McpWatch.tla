------------------------------ MODULE McpWatch ------------------------------
(***************************************************************************)
(* A watch on the background work of one MCP server in one chat            *)
(* (backend/mcpjobs.py): the poll loop, the blocks that seats' own calls   *)
(* bring, and the hand-back each block may make due.                       *)
(*                                                                         *)
(* The module follows one Watcher from the call that starts it to its end; *)
(* a later call starts another, which shares nothing with it but the chat. *)
(* When it is over the server is of no more interest and rests.            *)
(*                                                                         *)
(* The code runs on the event loop, so folding a block in and queueing its *)
(* hand-back is one step; the server moves at any time, and an answer it   *)
(* has given may be folded in later.                                       *)
(***************************************************************************)
EXTENDS Naturals, Sequences

CONSTANTS
  MaxJobs,    \* bound on the requests the server works on
  MaxAsks,    \* bound on the questions of one job
  MaxStages,  \* bound on the stages of one job
  None        \* no answer under way

States == {"running", "waiting", "done", "idle"}

\* What matters here of a `background` block.
Block == [job: 0..MaxJobs, state: States, ask: 0..MaxAsks, stage: 0..MaxStages]

ASSUME WatchAssumption ==
  /\ MaxJobs \in Nat \ {0}
  /\ MaxAsks \in Nat \ {0}
  /\ MaxStages \in Nat \ {0}
  /\ None \notin Block

VARIABLES
  work,      \* what the server last answered
  chat,      \* a round runs, or a send holds the claim, or neither
  call,      \* the answer to a seat's call that the seat has yet to get
  watch,     \* where Watcher.run is
  answer,    \* the answer to a poll that the watcher has yet to get
  seen,      \* the state and stage of the last block folded in
  finished,  \* Watcher.finished
  asked,     \* Watcher.asked
  doneJobs,  \* Watcher.done_jobs
  spoken,    \* Watcher.last_spoken_stage
  relay,     \* the kind of the pending hand-back
  said,      \* what the watch has posted in the chat, in order
  unsaid,    \* what it could not post
  told,      \* what a seat had from its own call
  missed     \* what the watch counts as out and nobody had: a job it notes as
             \* done on a seat's word that nothing runs, a question outranked

blockVars == <<seen, finished, asked, doneJobs>>
relayVars == <<relay, said, unsaid>>
heard == <<told, missed>>
vars == <<work, chat, call, watch, answer, blockVars, spoken, relayVars, heard>>

Question(b) == [kind |-> "blocker", job |-> b.job, ask |-> b.ask]
Result(b)   == [kind |-> "result", job |-> b.job, ask |-> 0]

\* What a post says.
News == [kind: {"blocker", "result"}, job: 0..MaxJobs, ask: 0..MaxAsks]

WatchState == {"none", "asleep", "polling", "over"}

TypeOK ==
  /\ work \in Block
  /\ chat \in {"quiet", "claimed", "round"}
  /\ call \in Block \cup {None}
  /\ watch \in WatchState
  /\ answer \in Block \cup {None}
  /\ seen \in [state: States, stage: 0..MaxStages]
  /\ finished \in {"no", "yes"}
  /\ asked \subseteq News
  /\ doneJobs \subseteq 0..MaxJobs
  /\ spoken \in 0..MaxStages
  /\ relay \in {"none", "progress", "blocker", "result"}
  /\ said \in Seq(News)
  /\ unsaid \subseteq News
  /\ told \subseteq News
  /\ missed \subseteq News
  \* Only a poll that is under way has an answer coming.
  /\ answer # None => watch = "polling"

NoWork == [job |-> 0, state |-> "idle", ask |-> 0, stage |-> 0]

Init ==
  /\ work = NoWork
  /\ chat = "quiet"
  /\ call = None
  /\ watch = "none"
  /\ answer = None
  /\ seen = [state |-> "running", stage |-> 0]
  /\ finished = "no"
  /\ asked = {}
  /\ doneJobs = {}
  /\ spoken = 0
  /\ relay = "none"
  /\ said = <<>>
  /\ unsaid = {}
  /\ told = {}
  /\ missed = {}

-----------------------------------------------------------------------------
(* The server.                                                             *)

\* A job stops for each of its questions in turn, goes through its stages,
\* and leaves a result, which the server forgets in the end.
Over(b) == b.state \in {"done", "idle"}

Honest == {b \in Block :
  /\ b.job > 0
  /\ b.state = "waiting" => b.ask > 0
  /\ Over(b) => b.ask = 0 /\ b.stage = 0}

\* What the server may answer after it has answered w: the same, or what came
\* of the job since, or the work on a later request.
Later(w) == {b \in Honest \cup {NoWork} :
  \/ b = w
  \/ b.job > w.job
  \/ /\ b.job = w.job /\ b.job > 0
     /\ \/ b.state = "idle"
        \/ b.state = "done" /\ ~Over(w)
        \/ /\ ~Over(b) /\ ~Over(w)
           /\ b.stage >= w.stage
           /\ b.ask > w.ask \/ (b.ask = w.ask /\ (b.state = "running" \/ w.state = "waiting"))}

-----------------------------------------------------------------------------
(* The chat, as far as a hand-back looks at it.                            *)

ChatMoves ==
  /\ \/ chat = "quiet" /\ chat' \in {"claimed", "round"} /\ UNCHANGED call
     \/ chat = "claimed" /\ chat' \in {"quiet", "round"} /\ UNCHANGED call
     \/ chat = "round" /\ chat' = "quiet" /\ call' = None
  /\ UNCHANGED <<work, watch, answer, blockVars, spoken, relayVars, heard>>

\* A seat calls one of the server's tools and the server answers.
SeatCalls ==
  /\ watch # "over"
  /\ chat = "round"
  /\ call = None
  /\ work' \in Later(work)
  /\ call' = work'
  /\ UNCHANGED <<chat, watch, answer, blockVars, spoken, relayVars, heard>>

-----------------------------------------------------------------------------
(* Watcher.apply.                                                          *)

Going(b) == b.state \in {"running", "waiting"}

\* What every block does.
Fold(b) ==
  /\ seen' = [state |-> b.state, stage |-> b.stage]
  /\ finished' = IF Going(b) THEN "no" ELSE "yes"

\* What a block has to say: a question, or how a job ended.  An idle one has
\* nothing.
Says(b) ==
  CASE b.state = "waiting" -> {Question(b)}
    [] b.state = "done" -> {Result(b)}
    [] OTHER -> {}

\* Mutant: a question a seat has in front of it is not remembered as asked.
FoldSeatsForgetful(b) ==
  /\ Fold(b)
  /\ UNCHANGED asked
  /\ doneJobs' = IF Going(b) THEN doneJobs ELSE doneJobs \cup {b.job}
  /\ spoken' = b.stage
  /\ told' = told \cup Says(b)
  /\ missed' = IF b.state = "idle" /\ b.job \notin doneJobs
               THEN missed \cup {Result(b)} ELSE missed

\* From a seat's own call: nothing is due, the seat is talking about it now.
\* An idle block marks the job as reported, though it brings no result; one
\* that a poll brings afterwards is not news any more.
FoldSeats(b) ==
  /\ Fold(b)
  /\ asked' = IF b.state = "waiting" THEN asked \cup {Question(b)} ELSE asked
  /\ doneJobs' = IF Going(b) THEN doneJobs ELSE doneJobs \cup {b.job}
  /\ spoken' = b.stage
  /\ told' = told \cup Says(b)
  /\ missed' = IF b.state = "idle" /\ b.job \notin doneJobs
               THEN missed \cup {Result(b)} ELSE missed

\* The hand-backs a polled block may make due.  Its age and the two clocks of
\* a progress note are left open; that the stage is a new one is not.
Due(b) ==
  CASE b.state = "idle" -> {"none"}
    [] b.state = "done" -> {IF b.job \in doneJobs THEN "none" ELSE "result"}
    [] b.state = "waiting" -> {IF Question(b) \in asked THEN "none" ELSE "blocker"}
    [] OTHER -> IF b.stage \notin {0, spoken} THEN {"none", "progress"} ELSE {"none"}

FoldPolled(b) ==
  /\ Fold(b)
  /\ asked' = IF b.state = "waiting" THEN asked \cup {Question(b)} ELSE asked
  /\ doneJobs' = IF b.state = "done" THEN doneJobs \cup {b.job} ELSE doneJobs

-----------------------------------------------------------------------------
(* Watcher.queue: the more urgent hand-back wins, posting is never retried.*)

Rank(kind) ==
  CASE kind = "none" -> 0 [] kind = "progress" -> 1
    [] kind = "blocker" -> 2 [] kind = "result" -> 3

Post(news) ==
  \/ said' = Append(said, news) /\ UNCHANGED unsaid
  \/ unsaid' = unsaid \cup {news} /\ UNCHANGED said

\* What a hand-back posts when it is queued: a progress note nothing.
PostFor(kind, b) ==
  CASE kind = "blocker" -> Post(Question(b))
    [] kind = "result" -> Post(Result(b))
    [] OTHER -> UNCHANGED <<said, unsaid>>

\* A question that comes while a result is pending is outranked, and it is in
\* `asked` by then.
Outranked(kind) == kind = "blocker" /\ Rank(relay) > Rank(kind)

\* Mutant: a hand-back of the same kind counts as already waiting.
QueueOneOfAKind(kind, b) ==
  /\ missed' = IF Outranked(kind) THEN missed \cup {Question(b)} ELSE missed
  /\ IF Rank(relay) >= Rank(kind)
     THEN UNCHANGED relayVars
     ELSE relay' = kind /\ PostFor(kind, b)

Queue(kind, b) ==
  /\ missed' = IF Outranked(kind) THEN missed \cup {Question(b)} ELSE missed
  /\ IF \/ kind = "none"
        \/ Rank(relay) > Rank(kind)
        \/ kind = "progress" /\ relay = "progress"
     THEN UNCHANGED relayVars
     ELSE relay' = kind /\ PostFor(kind, b)

-----------------------------------------------------------------------------
(* mcpjobs.on_result.                                                      *)

StartWatch ==
  /\ call # None
  /\ watch = "none"
  /\ Going(call)
  /\ FoldSeats(call)
  /\ watch' = "asleep"
  /\ call' = None
  /\ UNCHANGED <<work, chat, answer, relayVars>>

SeatReturns ==
  /\ call # None
  /\ watch \in {"asleep", "polling"}
  /\ FoldSeats(call)
  /\ call' = None
  /\ UNCHANGED <<work, chat, watch, answer, relayVars>>

\* No watch, and nothing to watch; or a call after the watch, which is another
\* Watcher's.
SeatReturnsUnwatched ==
  /\ call # None
  /\ watch = "over" \/ (watch = "none" /\ ~Going(call))
  /\ call' = None
  /\ UNCHANGED <<work, chat, watch, answer, blockVars, spoken, relayVars, heard>>

-----------------------------------------------------------------------------
(* Watcher.run.                                                            *)

\* Mutant: the loop does not look whether the work is over.
TopOfLoopBlind(fin, pending) == "asleep"

\* The top of the loop: the watch ends, or sleeps till the next poll.
TopOfLoop(fin, pending) ==
  IF fin = "yes" /\ pending = "none" THEN "over" ELSE "asleep"

PollStarts ==
  /\ watch = "asleep"
  /\ finished = "no"
  /\ watch' = "polling"
  /\ UNCHANGED <<work, chat, call, answer, blockVars, spoken, relayVars, heard>>

\* The server answers a poll; the answer is on its way.
PollAnswered ==
  /\ watch = "polling"
  /\ answer = None
  /\ work' \in Later(work)
  /\ answer' = work'
  /\ UNCHANGED <<chat, call, watch, blockVars, spoken, relayVars, heard>>

PollReturns ==
  /\ watch = "polling"
  /\ answer # None
  /\ FoldPolled(answer)
  /\ \E kind \in Due(answer) : Queue(kind, answer)
  /\ watch' = TopOfLoop(finished', relay')
  /\ answer' = None
  /\ UNCHANGED <<work, chat, call, spoken, told>>

\* A poll that fails or times out says nothing about the work.
PollFails ==
  /\ watch = "polling"
  /\ answer' = None
  /\ watch' = "asleep"
  /\ UNCHANGED <<work, chat, call, blockVars, spoken, relayVars, heard>>

\* The sleep ends with the work over: no more polls, only the wait for the
\* hand-back that is pending.
WakesFinished ==
  /\ watch = "asleep"
  /\ finished = "yes"
  /\ watch' = TopOfLoop(finished, relay)
  /\ UNCHANGED <<work, chat, call, answer, blockVars, spoken, relayVars, heard>>

\* GIVE_UP_S of failed polls, or MAX_WATCH_S in all.
Lost ==
  /\ watch = "polling" \/ (watch = "asleep" /\ finished = "no")
  /\ watch' = "over"
  /\ answer' = None
  /\ UNCHANGED <<work, chat, call, blockVars, spoken, relayVars, heard>>

\* stop_all, at the app's shutdown.
Stop ==
  /\ watch \in {"asleep", "polling"}
  /\ watch' = "over"
  /\ answer' = None
  /\ relay' = "none"
  /\ UNCHANGED <<work, chat, call, blockVars, spoken, said, unsaid, heard>>

-----------------------------------------------------------------------------
(* Watcher._relay_run.                                                     *)

\* progress_still_wanted.
Wanted ==
  /\ seen.state = "running"
  /\ finished = "no"
  /\ seen.stage \notin {0, spoken}

\* A pause came.  A send holding the claim makes the hand-back a no-op, as an
\* empty roster does, and the stage counts as spoken all the same.
RelayFires ==
  /\ relay # "none"
  /\ chat # "round"
  /\ relay' = "none"
  /\ IF relay = "progress" /\ ~Wanted
     THEN UNCHANGED <<chat, spoken>>
     ELSE /\ spoken' = seen.stage
          /\ chat' \in IF chat = "quiet" THEN {"round", "quiet"} ELSE {chat}
  /\ UNCHANGED <<work, call, watch, answer, blockVars, said, unsaid, heard>>

\* HANDBACK_MAX_WAIT_S passed with no pause, or the round that started the
\* watch had no hand-back to give it, or the hand-back raised.
RelayEnds ==
  /\ relay # "none"
  /\ relay' = "none"
  /\ UNCHANGED <<work, chat, call, watch, answer, blockVars, spoken, said, unsaid, heard>>

-----------------------------------------------------------------------------

SeatStep == StartWatch \/ SeatReturns \/ SeatReturnsUnwatched

LoopStep == PollStarts \/ PollReturns \/ PollFails \/ WakesFinished

Next ==
  \/ ChatMoves \/ SeatCalls \/ SeatStep
  \/ LoopStep \/ PollAnswered \/ Lost \/ Stop
  \/ RelayFires \/ RelayEnds

Spec == Init /\ [][Next]_vars

(* Polls have a timeout, the loop wakes every POLL_S, and a pending        *)
(* hand-back fires or runs into HANDBACK_MAX_WAIT_S.                       *)
Fairness == WF_vars(LoopStep) /\ WF_vars(RelayFires \/ RelayEnds)

FairSpec == Spec /\ Fairness

-----------------------------------------------------------------------------
(* Safety.                                                                 *)

Out(news) ==
  (\E i \in DOMAIN said : said[i] = news) \/ news \in unsaid \cup told

ResultOf(j) == [kind |-> "result", job |-> j, ask |-> 0]

\* What the watch will not say again has been said: a job it counts as
\* reported and a question it counts as asked are in the chat, or the post
\* failed, or a seat had them from its own call, but for the two ways in which
\* apply and queue note what nobody has had.
NoNewsLost ==
  /\ \A j \in doneJobs : Out(ResultOf(j)) \/ ResultOf(j) \in missed
  /\ \A q \in asked : Out(q) \/ q \in missed

\* A question or a result comes to the room once: it is not posted again, nor
\* after a seat had it from its own call, however late a poll's answer is; and
\* what was missed is never made up for.
NothingRepeated ==
  [][\A news \in News :
       said' = Append(said, news)
         => /\ news \notin told \cup missed
            /\ \A i \in DOMAIN said : said[i] # news]_vars

-----------------------------------------------------------------------------
(* Liveness.                                                               *)

\* Work that is over ends its watch, unless a new request takes it up.
WatchEnds == finished = "yes" ~> watch = "over" \/ finished = "no"

-----------------------------------------------------------------------------
(* Two promises of the docs that the code breaks.                          *)

\* "waiting is a BLOCKER: the question is posted in the chat": every question
\* the watch has noted was posted, or its post failed, or a seat had it.
QuestionsPosted == \A q \in asked : Out(q)

\* "done is a RESULT: the reply, trimmed, is posted the same way": every job
\* whose result the watcher was given is in the chat, or its post failed, or a
\* seat had it.
ResultsPosted ==
  [][\A n \in News :
       PollReturns /\ answer.state = "done" /\ n = Result(answer) => Out(n)']_vars
=============================================================================
