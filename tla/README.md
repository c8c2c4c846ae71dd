# Crossband: a verification project

Crossband is a group chat of one or more people and several language models
("seats"). A Python backend (`src/backend`, one process, one asyncio event loop,
SQLite) runs the conversation; a React client (`src/frontend/src`) sends turns,
tails the round that answers them and keeps a live-events stream open. A round
is detached from the request that started it; some work is detached from the
round (a Claude Code guest, the background work of an MCP server, the handoff of
a chat to the memory service, the pass that learns voices); and all of it meets
in one chat. This directory holds TLA+ models of that core, TLC runs over small
instances, and TLAPS proofs for every size.

`tlc -config X.cfg M` and `tlapm M.tla`, run in this directory, repeat any of it.
`PROJECT.json` lists the runs, the map from every definition to the lines it
models, the hazards, the findings, the theorems, and for each property a mutant:
a small change of the model, of the kind a bug would make, under which the
property fails.

## 1. The modules

| module | models | proofs |
| --- | --- | --- |
| `ChatTurn` | abstract: a chat belongs to nobody, to a send, or to a round | refined by `Rounds`, used by `GuestJobs` |
| `Rounds` | `rounds.py`, the routes that start and abort rounds, the engine's seat loop as far as it decides what is saved | `RoundsProofs` |
| `EventBus` | `events.py` between database writers and the tabs' streams | `EventBusProofs` |
| `GuestJobs` | `guestjobs.py`, the summons in `guest.py`, launch and hand-back in `engine.py`; composed over `ChatTurn` | `GuestJobsProofs` |
| `McpWatch` | one `Watcher` of `mcpjobs.py` | `McpWatchProofs` |
| `SendClient` | what a tab does with typed turns: `useRoundStream.js`, `sendRetry.js`, `textQueue.js`, and the round's buffer it re-attaches to | `TabProofs` |
| `LiveTab` | what a tab shows: `useEventStream.js`, the painting half of `useRoundStream.js`, `selectChat` and relabelling in `App.jsx` | `TabProofs` |
| `MemoryHandoff` | how a chat's rows reach the memory service: `memory_client.py`, the sweep and the leaving job of `engine.py`, `importer.py`, the discard | `MemoryHandoffProofs` |
| `RoomState` | room mode, solo mode, roster and asks: `room_state.py`, and the jobs that write them (`voice_pass.py`, `introductions.py`, `voice_ask.py`) | `RecordsProofs` |
| `Reflection` | the rolling summary, the project's notes and the title: `chat_memory.py` | `RecordsProofs` |
| `VoiceBank` | the store of remembered voices and its ledger of corrections: `AnchorStore` of `anchors.py` | `PersonSyncProofs` |
| `PersonSync` | the pass between that store and membro: `person_sync.py`; extends `VoiceBank` | `PersonSyncProofs` |

`MCRounds`, `MCEventBus`, `MCGuestJobs`, `MCMcpWatch`, `MCTab` and `MCRecords`
instantiate them for TLC. `MCTab` and `MCRecords` each explore two modules that
share nothing, one at a time: in every behaviour one of them moves and the other
rests in its initial state, so the states of the two add up and do not multiply.
Definitions marked "Mutant" stand beside the one they would replace and are used
by no run as it is.

**What a step is.** Code on the event loop, or in the browser, is atomic between
two awaits, so an action is the code from one await to the next with every call
it makes. Worker threads (`asyncio.to_thread`, FastAPI's sync routes) interleave
with it, and each of their database commits is a step of its own.

**Ghosts.** Some properties hold but for a loss the code accepts. What is lost
that way is kept in a variable that no guard reads (`excused`, `buried`, `missed`,
`strayed`, `dull`, `blind`, `left`, `overtaken`, `raced`, `dropped`, `crossed`,
`orphans`), set by the step that causes it, and the property says that nothing else
is lost. Each has a line in its module that says what it stands for. Where a doc or a
comment of the code promises that the loss does not happen, it is a finding
(section 3) as well.

### Rounds

`Round` objects are named by the request that started them. `claim` is
membership in `_claims`; `latest` is `_rounds[chat]`; `done` is `Round.done`;
`task` is where the asyncio task is parked; `live` is what `run_round`'s `live`
holds for the seat that speaks; `worker` is the thread running `persist_live`;
`log` is the messages table in commit order.

- `SendClaim`, `SendRefused`, `SendCommit`, `SendFails`, `SendStart`,
  `SendSlash`: `send_message` and `_send` (`routers/chats.py`). The commit is on a
  worker thread; the start of the round and the release of the claim are one step.
- `ContinueStart`, `HandbackStart` and their refusals: the other two starters.
- `FirstStep`, the `Seat...` actions, `SaveReturns`, `SaveRaises`, `RoundEnds`: the
  round's task. A seat brings words, an echo or a pass, or stays silent; the
  guard accepts, retries once or suppresses.
- `WorkerReads`, `WorkerStores`, `WorkerClears`, `WorkerFails`: `persist_live` on its
  thread, which reads `live`, inserts, and clears it last.
- `AbortCancels`, `AbortSettles`, `AbortGivesUp`, `AbortFindsNone`, `CutOff`,
  `CutOffFails`, `Wedge`, `CancelledUnstarted`: `rounds.abort` and what the
  cancellation meets at each place the task may be parked.

`ChatTurn` says what all this is for: a send reserves the chat, saves its turn,
and then its round has the chat; any other round takes it only from nobody.
`Holder` in `Rounds` is the refinement mapping, `ImplementsChatTurn` the claim.

### EventBus

A writer commits a message (`Insert`) or an update in place (`StampPatch`, then
`CommitPatch`: the stamp is read before the statement has the write lock), and
then rings (`Ring`, a callback queued on the loop, answered by `Release`). A
stream reads the generation and the database (`Look`), yields what it found, and
sleeps if no ring was answered meanwhile (`Sleep`). `Connect`, `Receive`, `Drop`,
`Hangup`, `Restart` and `BeginShutdown` are the tab, the network and the process.
The five kinds of row that are updated in place have the same code behind
cursors of their own; the module follows one kind.

### GuestJobs

`pending` is `guest._pending`, `job` where each job is, `row` its
`guest_jobs.status`, `reply` the jobs whose reply is a message. A round answers a
turn, serves a continue (`ContinueStart`) or hands a job back. A seat is offered
the tool (`SeatStarts`), summons (`Summon`), and `_finish_round` takes the
summons and launches it (`RoundEnds` with `Launch`), or never gets there
(`RoundStops`), or fails on the way (`LaunchRaises`). A continue of several rounds runs
`_finish_round` after each of them inside one `Round`: `PartEnds` is one that is not
the last, and launches with the chat still held. `DeleteChat` may come at any
time, and what holds, waits for or works for the chat goes on without its row
(`Gone`): a summons is then dropped, a reply cannot be saved. The job's task ends in
one of four ways; one that narrates polls for a pause (`PollBusy`, `PollIdle`) and hands
back (`HandBack`, `HandBackDropped`). The chat underneath is the instance `Chat` of
`ChatTurn`: what `Rounds` proves about rounds is used here and not modelled again.

### McpWatch

`seen`, `finished`, `asked`, `doneJobs`, `spoken` and `relay` are the fields of
`Watcher`; `work` is the server, which has moved on by each answer (`Later`).
`SeatCalls`/`SeatReturns` and `PollAnswered`/`PollReturns` are separate so that
answers cross. `FoldSeats` and `FoldPolled` are the two halves of `apply`, `Queue`
is `queue` with `_post`, `TopOfLoop` the end test of `run`. `said`, `unsaid` and
`told` record what the room had, for the properties; `told` holds only what a block
did bring (`Says`). `missed` is what the watch notes as out and nobody had: the job of
a seat's idle block, which `apply` puts in `done_jobs` without a result, and a question
that a waiting result outranks (`Outranked`).

### SendClient

A send is named by its first turn. `run` is where `runStream` is for it, `ctrl`
the `roundCtrl` that Stop aborts (set and cleared with `streamingRef`), `batch` the
`batchStore`, `held` the `pendingSends`, `retry` and `retrying` the loop of
`sendRetry`; `chatOf` is `runStream`'s own `chatId`, `home` the chat a turn was typed
in. `req` is the request on the network and what became of it: taken, refused
409, refused for good, or lost, and a lost answer is not a lost request
(`HoldOffline`). `rounds` is every `Round` there was, `up` whether its process still
lives, so that ids start again at 1 after `Restart`.

- `TypeQueued`, `TypeSent`, `Post`: `send()` while a reply streams, and when none does.
- `Take`, `RefuseBusy`, `RefuseBad`: the route. What `Rounds` takes apart (claim,
  save, start) is one step here.
- `Answered`, `Receive`, `StreamEnds`, `HoldBusy`, `HoldOffline`, `ShowRefusal`: the run
  and its ends; `Settle` is `runStream`'s `finally`, which drains the batch of its
  chat into the next send in the same step.
- `Break`, `Reattach`, `RoundGone`, `Refetched`, `WakeCut`: `reattachRound`, from the
  event after the last one counted, by the round's id.
- `SendHeld`, `RetryAfter`: the retry loop. `Stop`, `SelectChat`, `CancelBatch`: the
  person.

### LiveTab

`rows` is the database, by id, with a version for each change of a label; `list`
the copies of each row that the tab has. `NewMessage` and `MessageUpdate` are the
event stream's callbacks, which fetch the row or wait for the round's end
(`Handle`); a fetch is `Read` at the server and answers late (`Lands`, `OpenLands`)
or not at all (`Fails`), in any order. `Merge` is `mergeMessagesById`, `HydrateCursor`
where a fetch starts. `UserSaved`, `SpeakerStart`, `SpeakerEnd` are the tab's own
round painting rows that no fetch brings. That round is posted to the open chat
(`Send`) or, a held send retried or a batch drained, to one that was open before
(`SendLater`): `runStream` takes the open chat for its own all the same, so its rows
are saved in `source` and painted into whatever is open (`Paint`, `strayed`).

### MemoryHandoff

`upto` is `chats.ingested_upto`, the only record of what was handed over; `held` is
what the service has. A pass goes through `PassOver` (the chat-side pass), `Begin`
(probe), `ReadMark`, `AskHeld` or `AskInVain`, `WindBack` (the reconcile), `ReadRows`,
`Send`, `SendNothing` or `SendRaises`, `Advance` and `Distill`: one action for each
await of `handoff_chat`. Leaving, the sweep and an import run the same steps;
`Discard`, `Toggle`, `Restart`, `Expire` (the cached probe), `ServiceDown`, `ServiceUp` and
`Restore` (the archive from a backup) are the world. A send may raise after the
service took the rows. `checked` are the passes whose reconcile was answered and that
nothing has disturbed since.

### RoomState

A job is a script: the calls it still has to make. Each call is one action for
each statement it runs, for every statement commits by itself: `arm` is `ReadMode`
then `TurnOn`; `seat` is `SeatAsked` (the cap), `FindRow`, `TakeSeat`; an ask is
`ReadAsks` then `RaiseAsk`; `disarm` is `ReadMode`, `TurnOff`, `ClearRoster` and one
`MarkLeft` for each person. A voice pass (`ReadFlags`, `Decide`) and an introduction
(`Scan`, `PlaceNames`) add the calls they decide on. Whose voice or name it was is an
input.

### Reflection

A pass reads its chat once (`Start`), and writes three things after as many model
calls: `Fold` (summary and `summary_upto`), `ReadProject` then `WriteNotes` (the
project's notes and `distilled_upto`), `Retitle`. A summary, and the notes, are the
set of the rows that went into them.

### VoiceBank and PersonSync

`VoiceBank` has an action for each operation of the store, which rewrites its index
under a lock: introduce, learn a clip, delete, move, forget, merge, and what the
pass asks of it. `ledger` is `pending_corrections`; `SettleRow` is what
`_settle_corrections` makes of a waiting row when a person it names loses their
id. `PersonSync` is `_run`: `Begin`, `Mirror` (forget marks first), `ReadForgets`,
`Build` and `PullClip`, `ReadPeople`, `Push` and `Pushed`, `ReadLedger`, `Replay` and
`TakeOff`, `ReadPending`, `Diff`, `Upload` and `Restore` person by person, `Finish`. The
owner acts between any two of them, and membro may forget somebody by itself. A
request may fail and end the pass (`Fail`), or be refused and the pass goes on without
it: a person (`PushRefused`), clips (`ClipsRefused`), or a row of the ledger
(`ReplayFails`), which stays pending while the rows after it land; a transport error
in the replay skips the rows that are left. Membro refuses somebody whose name or
alias is another's (`Conflicts`).

## 2. What the runs show

| run | instance | states | properties |
| --- | --- | --- | --- |
| `rounds` | 2 sends (interchangeable), 1 hand-back, 1 abort, 2 seats | 2.3 M | `OneRound`, `ClaimIsHeld`, `TurnsAreBlocks`, `AtMostOneCopy`, `NothingLost`, `ImplementsChatTurn` |
| `rounds_live` | 1 send, 1 continue, 1 abort, 2 seats | 145 k | `AbortReturns`, `TurnAnswered`, `RoundFinishes` |
| `event_bus` | 2 inserts, 1 update, 1 tab, 2 breaks | 460 k | `NoLostWakeup`, `OnceEach`, `MessagesArrive`, `StreamsEnd` |
| `guest_jobs` | 1 turn, 1 continue of 2 rounds, hand-backs of depth 2, 1 restart, a deletion | 160 k | `OneGuest`, `KeepsChatTurn`, `SummonsAnswered`, `PauseComes` |
| `mcp_watch` | 2 jobs, 1 question and 1 stage each | 1.9 M | `NoNewsLost`, `NothingRepeated`, `WatchEnds` |
| `tab` | 2 chats; 2 turns, 2 events a round, 1 break, 1 extra; 3 changes, 1 fetch ahead, 1 break, 1 switch | 1.3 M | `NothingDropped`, `SavedTwiceOnlyBlind`, `StreamIsPrefix`, `NothingStuck`; `NothingMissed`, `LabelsFresh`, `NoStrangers` |
| `records` | 2 threads, 4 jobs, 3 guests, cap 1; 2 chats, 2 passes, 3 rows, 1 rename | 2.2 M | `CapHolds`, `AsksNotStacked`, `SoloUnlessOvertaken`; `SummaryCovers`, `NotesKept` |
| `voices` | 3 ids, 2 names, 1 clip, 3 acts, 1 fault | 0.9 M | types, `StaysRemoved`, `NobodyReturns`, `Converges` |
| `memory` | 2 rows, the sweep and one more pass, 1 fault, 1 restore or toggle | 563 k | `HandedOn`, `GapsShow`, `ReconcileHeals`, `RowsArrive` |

Three more runs end in a counterexample (section 3). Each property is stated in
words above its definition. In brief:

- **One round at a time.** Two rounds never run in a chat unless an abort gave
  one up whose teardown hung; a claim is never leaked and never shared; a
  person's turn and the replies to it stay together in the transcript unless one
  of two rounds was aborted.
- **Nothing a seat wrote is lost**, nor saved twice but for the cut-off copy an
  abort may add (finding 2).
- **The bell.** No stream sleeps on an unread row unless a ring is still to come;
  over drops, restarts and reconnects a tab is sent each message once, in order;
  every message arrives, and a shutdown ends every stream.
- **Guests.** One at a time; a summons that a round, or a part of a continue, takes
  becomes a job or a notice, or its launch raised, or the chat was deleted; a
  hand-back keeps to the chat's turn-taking.
- **Watches.** A result that counts as reported and a question that counts as asked
  were posted or told or their post failed, but for the two the code misses
  (`missed`, findings 6 and 11); nothing is posted twice or after a seat had it; a
  watch over finished work ends.
- **Typed turns.** None is lost between the keyboard and the transcript; one is
  saved twice only when its answer was lost on the way (the client cannot tell,
  and the route has no idempotency key); what waits, in a batch or held, always
  has somebody who will send it. A stream gives its round's events once and in
  order over any number of breaks, but for a restart that hands out its id again.
- **The list.** A row of the open chat shows, is still to be told of, waits, or is
  being fetched (the poll, which may find nothing new, does not count), or is one
  a failed fetch or a late answer took; a label that shows is the newest or will be
  replaced, or is one of the named losses; rows of another chat show only until
  the open chat has answered, unless a stream posted to another chat paints them
  (`strayed`, finding 9), and those go with the next fetch of the open chat.
- **The memory.** Whatever passes overlap, crash or wind it back, what the
  watermark has passed the service was given. The named losses: rows whose `ingest`
  answered None without sending, and rows a restored archive lost. The reconcile
  sees the second kind and the first, unless passes overlapped or it got no answer;
  and a pass whose reconcile was answered and that nothing disturbed leaves nothing
  missing below the watermark. Nothing is claimed of a discarded turn: the handoff
  may have it in hand (finding 12).
- **The room.** How far the check-then-write races can go: guests exceed the cap,
  and asks stack, by at most the other jobs under way; a room is on in spite of
  solo mode only if a pass had read the flags before.
- **Summaries and notes.** The rows up to the summary's watermark, and no others,
  went into the summary beside it. A row called noted is in the project's notes, unless another
  pass wrote between the read and the write of one.
- **Voices.** Removed clips and forgotten people stay away, and bank and membro
  converge, over passes cut short anywhere. Removed means deleted, or its person
  forgotten, and not moved or merged since. The exceptions are named by `crossed`
  and `orphans`: acts that cross a pass (`Touched`, `Unseen`, `Replayed`); a clip
  fetched with a rebuilt person while a correction names it (`PullClip`), or with a
  person to be forgotten while somebody else has it (`Doubled`); and corrections that
  come to nothing, because their target is gone (`Stranded`) or because
  `_settle_corrections` reads a chain of rows otherwise than membro will replay it
  (`Carried`, `Misnamed`). `Stranded` also has the rows that land out of order: one is
  settled as converged, or a merge takes a clip along, while an earlier row that
  membro refused, or whose target is not there yet, is still to move or delete the
  clip (finding 13).

**The bounds.** Every hazard of `Rounds` needs at most two requests that want the
chat at once and one that cancels; a second send or the hand-back is the
bystander, and two seats give a round a reply before and after the one that is
cut. `MaxSeats` counts silent seats too, so the loop's boundaries are met. In
`EventBus` the second insert is what a stream may miss while it yields the first;
two breaks give a connection before, between and after them. Tabs share nothing
but the bell, so one is enough for what is stated of each, and the proofs have any
number. `GuestJobs` needs two rounds for a summons left over from one to meet the
other: a turn and a continue, whose one part is the third; depth 2 lets a chain of
hand-backs happen if the code allowed one, and
`SettlePolls = 2` distinguishes a blocker (one quiet poll) from a result (eight
in the code). `McpWatch` needs a second job for the follow-up and a question in
it. In `tab`, two turns are one that streams or is held and one that queues behind
it or overtakes it; the extra is a stop, a switch, an emptied batch or a round of
somebody else; the break is a lost request, a lost answer, a lost connection or a
restart. Three changes are two rows and a label, or three rows, so that an older
answer can meet a newer list. In `memory`, the second pass is enough to overlap the
sweep, and two rows are one that is handed over and one that is not; one fault is
an outage, a lost answer, a refused route or a restart. In `records`, two threads
race for one seat with a third person in it; three rows with `Keep = 1` let two
passes fold from snapshots of different age. In `voices`, three ids are an owner's
two people and one rebuilt; three acts are what a settled correction needs (move,
then merge or forget, then again). `MaxRelays`, `MaxBreaks`, `MaxRestarts`, `MaxJobs`,
`MaxAsks`, `MaxStages`, `MaxEvents`, `MaxExtras`, `MaxChanges`, `MaxFetches`,
`MaxSwitches`, `MaxRows`, `MaxFaults`, `MaxTurns`, `MaxNames`, `MaxRenames` and `MaxActs`
are the only bounds in guards or types that the code does not have. Runs do not
check deadlock: a finite set of requests is served and then nothing is left to do.
`McpWatch` follows one watcher; afterwards the server is of no interest and rests.

**Fairness.** Weak fairness only, and of these:

- the loop runs what is ready and threads finish, so a save that has begun
  returns or raises, and a task that is not parked goes on;
- a provider that goes silent becomes a failed seat (`SEAT_STALL_TIMEOUT_S`), so a
  seat's turn ends; a teardown that hangs inside the cancellation is the
  exception, and has no fairness (`Wedge`);
- `abort`'s wait is bounded by `ABORT_SETTLE_S`, an MCP poll by `POLL_TIMEOUT_S`,
  the wait for a pause by `HANDBACK_MAX_WAIT_S`;
- tabs reconnect (`startEventStream`'s loop) and writers that committed ring;
- the sweep comes round (`reflection_sweep_loop`), a pass of a handoff goes on, an
  outage of the service ends, and a cached probe runs out (`PROBE_TTL`);
- a sync pass is scheduled after every round, at startup and at every forget, so a
  pass that can go on does (`WF_vars(Pass)`): one that a fault ended is run again.

Two timers are left out of the fairness on purpose. The stream's heartbeat may
happen but need not: messages arrive by the bell alone. In `GuestJobs` the hour of
`HANDBACK_MAX_WAIT_S` may pass but need not: a wait ends because the pause comes.
Nothing makes a person send, a guest finish, a chat be left, or a server answer.
`SendClient`, `LiveTab`, `RoomState` and `Reflection` are checked for safety only; that
something will move is stated there as an invariant (`NothingStuck`: who waits has
somebody to send it).

## 3. Where the code and its documentation part

`findings` in `PROJECT.json` quotes the lines. The first three are runs that end
in a counterexample:

1. `v_abort_frees_the_chat` (`rounds.py:132`). An abort between `rounds.start` and
   the task's first step cancels a coroutine that never entered its `try`: `done`
   stays false and the chat is busy until the process restarts.
2. `v_one_copy` (`engine.py:1471`). An abort during `asyncio.to_thread(persist_live)`
   cancels the wait and not the thread, and a reply that was complete is saved
   again with the cut-off marker.
3. `v_never_offered_back` (`person_sync.py:428`). A clip deleted after the pass read
   the pending corrections is restored to its bank by the same pass.

The others stay in their modules as definitions that no run checks. To see one
fail, name it in place of the properties of the configuration given.

4. `PatchesArrive` (`db.py:2020`; `EventBus.cfg` with `Patches = {p1, p2}`, as an
   INVARIANT). Of two updates in place the one stamped first may commit last, and the
   cursor steps over it.
5. `JoinsItsRound` (`engine.py:1496`; `GuestJobs.cfg`, as a PROPERTY). A round that
   is stopped leaves its summons queued. Later rounds are refused theirs, and the
   next to end launches the old.
6. `QuestionsPosted` (`mcpjobs.py:478`; `McpWatch.cfg`, as an INVARIANT). A question that comes while a
   result waits for its pause is noted as asked and dropped.
7. `SoloHolds` (`voice_pass.py:290`; `Records.cfg`, as a PROPERTY, without the
   symmetry). A pass arms the room on flags it read before the owner went solo.
8. `RenameSticks` (`chat_memory.py:208`; `Reflection` by itself, with the last five
   constants of `Records.cfg`, as a PROPERTY). A rename made while a pass runs is
   overwritten, and unlocked.
9. `WriteGuard` (`useRoundStream.js:189`; `Tab.cfg`, as an INVARIANT). A held send, or
   a batch drained in the background, paints its events into whichever chat is open.
   What that does to the list is `strayed` in `LiveTab`.
10. `NotesPass` (`engine.py:1734`; `Memory.cfg`, as a PROPERTY). A running-cost line
    that is the last row is never passed, and the sweep comes back to it for ever.
11. `ResultsPosted` (`mcpjobs.py:328`; `McpWatch.cfg`, as a PROPERTY). A seat's idle
    block counts as the report of its job; a result a poll had been answered with, and
    that is folded in after it, is dropped.
12. `DiscardHolds` (`routers/chats.py:373`; `Memory.cfg`, as a PROPERTY). A turn is
    discarded while a handoff has it in hand, and the service gets it although the
    watermark had not passed it.
13. `SettledWhenCorrected` (`person_sync.py:277`; `Voices.cfg` with `MaxActs = 2`, as a
    PROPERTY). A move waits, refused or with no target yet; the delete of the clip
    from that target finds none and is taken as done; then the move lands.

## 4. What is proved

For every value of the constants, from the named assumptions of the modules
(`StartersAssumption`: kinds of request are disjoint and a round has at least one
seat to offer; `BusAssumption`; `GuestAssumption`: turns, continues and parts are
disjoint; `WatchAssumption`;
`HandoffAssumption`: the sweep is not one of the other passes and bounds are
naturals; `RoomAssumption`: threads and guests are finite sets, the owner is no
guest; `SendAssumption`: `None` is neither a turn nor a chat and bounds are naturals;
`BankAssumption`: ids are positive numbers and `NoClip` is no clip; `ChangesAreNat`,
`NotesAssumption`, `FaultsAssumption`: bounds are naturals).
No finiteness is assumed of the sets of requests, writers, tabs, chats, turns,
passes, clips or ids of people.

- `RoundsProofs`. `IInv` adds to the properties what ties the three things a
  starter reads (`_claims`, `_rounds`, `done`) to where requests and tasks are
  (`LockInv`), and that a seat has the floor when `live` holds something
  (`SeatInv`). `OneRound` alone is not inductive: that `latest` is taken only when it
  is done needs the claim to exclude an active round, and that needs every
  claiming request to be the one. From `IInv` follow `TypeCorrect`,
  `OneRoundAlways`, `ClaimAlwaysHeld`, `OnlyAbortedTasksEverLinger`. `Implements` maps
  each action to a step of `ChatTurn` or a stutter: lemmas say when `Holder` stays,
  what a close of the latest or of an older round does to it, and how the send's
  steps map.
- Its second half goes on from there to what the rounds leave in the
  transcript. `RowInv` reads a row backwards: a row of the seat that has the floor
  means that its saver has stored it, a row of an earlier seat that its seat gave
  up the floor, a cut-off row that its task is over; so the step that saves a row
  finds no copy (`AlwaysAtMostOneCopy`). `SaveInv` says what is in the chat while
  the saver has yet to clear `live`, which makes `NothingEverLost`. `BlockInv` says
  that what lands after another round's row finds that round over, or is of an
  aborted one; with the lock's invariant it makes `TurnsAlwaysBlocks`, which is not
  inductive by itself: it speaks of three rows, and the step that adds the third
  must know that of two.
- `EventBusProofs`. `ReadInv` is the strengthening: a stream that yields, with the
  generation it sampled still current, has a ring to come for whatever it has
  not read. That is what makes the comparison before the wait right, and from it
  `WakeupNeverLost` and `ShutdownAlwaysHeard`. `EachMessageOnce` carries the wire as a
  run of consecutive numbers (`TailOfRun`, `RunExtended`); `EachPatchOnce` needs the
  cursor between what was yielded and what is to be.
- `GuestJobsProofs`. A queued summons and a running job exclude each other
  (`SummonsInv`), also where a part of a continue launches; only a round a person
  asked for launches a job that narrates (`RoundInv`);
  and a hand-back that began is of a relayed, completed job with its reply saved
  (`RelayInv`). `ChatTurnKept` and `SummonsAlwaysAnswered` are about steps and use them.
  `HandBack`'s relay is new to the chat only because of `RelayInv`.
- `McpWatchProofs`. `Remembered`: `asked` and `done_jobs` cover what the room had and
  what it missed; `NoNewsLost` is the other direction, and the two are kept together. With
  `Remembered` a polled block that is due is news (`DueIsNews`), and a result, which nothing
  outranks, is always posted (`QueueAdds`).
- `MemoryHandoffProofs`. `Passed(m)` is the promise of a watermark at `m`; `PassInv`
  carries it from where a pass reads the watermark, or the rows above it, to where
  it writes one, over whatever the others do meanwhile. `NoHoles` is what a
  wind-back relies on: below the highest row the service holds nothing is missing
  unnoticed. `CheckedInv` is what a pass still knows that nobody has disturbed
  since its reconcile: where its watermark, its rows in hand and the gaps still open
  lie at each of its awaits. It gives `GapsAlwaysShow` and, at the last of them,
  `ReconcileAlwaysHeals`.
- `RecordsProofs`, the room. The three bounds count threads: `CapInv`, `RowsInv` and `AskInv` say
  that the guests present (the rows of a name, the open asks) together with the
  threads that have passed the check and not yet written stay within the bound, so
  a step moves a thread from one count to the other. `SoloInv` says that in
  solo mode neither the room is on, nor any pass may yet arm it, but for one that
  had read the flags before. Cardinalities are handled by
  lemmas on one element more or less.
- `RecordsProofs`, the notes. A pass writes long after it read, so `SnapInv` says of
  what it read what the properties say of what is stored: its summary covered its
  rows then, and covers them still when it is written back over a newer one. `ProjInv`
  says that a pass nobody overtook knows all the notes there are, which makes
  its rewrite of them lose nothing. The run's behaviours are those of `MCSpec`, where
  one part moves and the other rests; `PartsAlone` shows that such a behaviour is one
  of `RoomState` and one of `Reflection`, and carries the results over.
- `TabProofs`, the sends. The four properties of a tab's sends hold together, in one
  invariant. `PlaceInv` says where a turn is: in a batch it has no run and no request,
  and a request on the network belongs to a run that still waits for its answer or
  was stopped. `HeldInv` makes the queue of held sends exactly the runs that ended
  held, each once, so the loop never sends what is in flight. `SavedInv` is what
  `CopiesOnlyBlind` needs: a send that may yet be saved, because it is on the network
  or may be posted again, is saved already only if its answer was lost. `IdInv` says
  that ids of the rounds of one process are distinct and count them; with it a round
  found under the kept id is the one that was kept, if that one is still of this
  process, which carries `HeardInv` over a re-attachment (`StreamsInOrder`).
  Seven steps end a run in the same way, so what they have in common is one
  operator, `Ends`, and one lemma, `EndsKeeps`; the steps that only move what is in
  flight share `Moves` and `MovesKeep`.
- `TabProofs`, the view. `NothingMissed` carries itself once copies, answers and the
  round's own rows are known to be of rows there are (`CopiesInv`, `AnswersInv`),
  and of the chat the stream was posted to (`TapeInv`), which is one that was open
  (`TrailInv`). It did not while the poll's fetch counted as one that brings a row: a
  poll asks from the highest id shown, which a late answer moves. `LabelsFresh` is
  not inductive: it speaks of rows that show, and a row may come to show by an
  answer read before its label changed. `KnownInv` says the same of every row of the
  open chat, shown or not.
- `PersonSyncProofs`. First what settling the ledger keeps. `Settled` and `Without` are
  recursive functions; that they are what their equations say is `Recursion`, proved
  from the well-foundedness of the naturals, and `SettledIs` then reads off them, row
  by row: order and ids stay, a row stands for the one it was made from, and a row
  goes only if it is no forget and not the merge that becomes one. `NobodyReturns`
  needs all of `Deep`. `ForgotInv` says where each forgotten person is: forgotten by membro,
  or in the ledger, or never heard of and never to be. `LedgerInv` compares the
  ledger with the rows a pass read of it, since the owner rewrites the one while
  the pass replays the other: a row it takes off as done is the one it replayed, or
  a merge that became a forget meanwhile (`SameRow`). `MarkInv` says that
  membro's mark is acted on before anything else; `MirrorInv`, `BuildInv` and
  `PushInv` what a pass may hold that is stale, and that it does not matter; `SlugInv`
  that a slug has one bearer, which rests on no two people having one name.
- `PersonSyncProofs`, the clips. `StaysRemoved` speaks of a clip that is back in a
  bank; what keeps it away is the chain of rows that wait for it: moved, moved on,
  merged along, deleted. `SInv` follows that chain. `Held` says of every clip at membro
  that whoever has it there is to be forgotten, or has it in the store, or that a row
  not yet done is to take it from them, alone (`Ahead`) or with all they hold (`Goes`);
  `Chain` that a move leads to the bank that has the clip, or to a later row that takes
  it on. Both are about the rows that are not done (`Undone`), whatever the pass has
  made of the rows after them: so a row that membro refuses stays in the chain, and what
  a later row may then break is what `Stranded` names. A merge takes a link out of
  the middle: `HopOver` and `Hop` show that the settled ledger still gets past it.
  `ReadInv` and `MergeReadInv` compare this with the rows as a pass read them: a row
  still names the source and target it had, and a merge whose winner has changed
  finds nothing it should have taken elsewhere (`Earlier`). `WantInv` is about the clips a
  pass is to fetch, `People` and `HandInv` what the chain needs of the store and of the
  pass. The invariant is of one clip at a time, for the clips outside `crossed`; the step
  lemmas (`ToldPush`, `ToldForget`, `ToldMerge`, `ToldReplay`, ...) take one action each.
  Looking for it is what found two of the exceptions, `Misnamed` and `Doubled`: both were
  histories that it could not be carried over.

`TypeCorrect`, `ShutdownAlwaysHeard`, `OnlyAbortedTasksEverLinger`, `EachPatchOnce`,
`RelaysAlwaysBounded`, `RelaysAlwaysOfReplies`, `RowsAreReused` and `NotesTypeCorrect` state what no run
repeats: a theorem covers every instance, and the runs keep their time for what is
not proved.

Every invariant and every safety action property of a passing run is proved.
Model-checked only: the liveness properties, since fairness and `ENABLED` are out of
the prover's reach.

## 5. Inventory

What the system is made of, the state each part keeps, and what would make it
correct. `components` in `PROJECT.json` has the sources.

| part | state | operations | hard behaviour | correct when | status |
| --- | --- | --- | --- | --- | --- |
| Rounds | `_rounds`, `_claims`, `Round.done`, task | claim, start, abort, finish | cancellation at any await, bounded abort, save on a thread | one round a chat, claims returned, abort returns | modelled |
| Starters and seat loop | `live`, messages | send, continue, hand-back, seats, guard, persist | gap between claim and start, abort during a save | replies saved once, nothing lost, turns in blocks | partly: what decides saving |
| Live event bus | `_waiters`, `_generation`, cursors, watermark | notify, stream, reconnect, shutdown | lost wake-ups, drops, restarts, commit order | every row reaches every tab once | partly: one kind of update |
| Guest jobs | `_pending`, `_jobs`, `guest_jobs` | summon, launch, run, wait, hand back, stop | detached task against rounds, partial failure, restart | one guest, summons answered, bounded relays | partly: the visit itself is a step |
| MCP watchers | `Watcher`, `_watchers`, `_latest` | call result, poll, apply, queue, relay, stop | crossing answers, ranks, follow-up work | results and questions reach the room once | partly: status to clients left out |
| Round buffer, re-attachment | `Round.events`, `round_id`, tab's position | emit, tail, reattach | restart reuses ids, late attach | a tab sees each event once or knows it does not | partly: rounds the tab sent |
| A tab's sends | text queue, held sends, active chat | queue, send, hold, retry, stop | lost answer, chat switched during a retry | a typed turn is saved once and never lost | partly: no continue, no deletion of a chat |
| A tab's live view | message list, labels, cursors | hydrate, patch, poll, open, paint | fetches out of order or failed, missed updates | the view converges to the database | partly: jobs and roster left out |
| Memory handoff, discard | watermark, pending handoffs | leave, sweep, import, ingest, restore, discard | service down, overlap, discard during a handoff | each message handed over, none that was discarded | partly: recall left out |
| Room state, voice pass | roster rows, solo flag, mode, asks | seat, introduce, arm, disarm, solo, ask | check-then-act over threads and awaits | seats under the cap, solo stays solo | partly: recognition is an input |
| Recall, chat memory | summary, notes, title and their watermarks | fold, distill, title | overlapping passes, snapshots | watermarks cover what they say | partly: the chat-side pass |
| Person sync | sync watermark, corrections | pull, apply, upload, restore, record | crash between steps, owner acts during a pass | bank and membro converge; the removed stays away | partly: clip rotation, manifest left out |
| Voice sessions, anchors, recognition | store of voices, embeddings, calibration | introduce, learn, merge, forget; capture, match | corrections about people who go; numeric thresholds | each correction lands on whoever has the clip | partly: the store and its ledger |
| Voice client, speech routes | audio graph, sockets | speak, listen, barge in | browser callbacks, outside services | its turn is a send | not modelled |
| Turn policy, intent, depth | none kept | who answers, when a turn ends | language | left open in `Rounds`: any number of seats | not modelled |
| Providers, tools, egress | per call | stream, call a tool | outside I/O | an environment of `Rounds` | not modelled |
| Accounting, pricing, busy report | rows, caches | sum, read | none of their own | | not modelled |
| Sign-in, settings, import, integrations, UI, evaluation | rows | CRUD, presentation | one transaction a request | | not modelled |

How they meet: a send claims the chat and starts a round; the round's seats
write messages, which ring the bus; a seat's tool call starts a watch or queues
a summons; the end of a round launches the guest; guest and watch wait for
`rounds.active` to be clear and then start a hand-back round, if `rounds.busy`
agrees; tabs see it all through the stream and the round's buffer. A turn that
was spoken runs a voice pass, which may change the room and bring a clip to the
store; a round schedules a chat-side pass and a sync pass; leaving a chat, or the
sweep, hands its rows to the memory service.

## 6. What is not modelled, and why

Simplifications in the modelled parts: `Rounds`, `EventBus`, `GuestJobs` and
`McpWatch` have one chat (chats share only the bell); the database is one committed
sequence and a write may fail; ids are sequence numbers; a seat's text is one of
words, echo or pass. In particular:

- `GuestJobs`: a continue has as many parts before its last round as `Parts`, each
  launching once at most; the deletion of a chat is followed there and not in the other
  modules.
- `GuestJobs`, `McpWatch`: a guest's tool steps and its ephemeral check-in label, the
  words and clocks of an MCP progress note, and the status lines sent to clients are
  data.
- `SendClient`: `continueRound` as a stream of the tab and a round it follows without
  having sent (`runningState`); the deletion of a chat with `dropBatchFor`; voice's own
  attachment to a round; a fetch that times out before `round_start` is a lost one.
- `LiveTab`: one stream of the tab at a time (those that overlap are in `SendClient`),
  so a batch that drains while a stream the person left is still to notice its abort;
  jobs and the roster, which arrive by the same cursors and are re-seeded
  by the same calls; the marks of what was heard; what voice does with an event.
- `MemoryHandoff`: recall, the banner of `handoffWatch.js`, and the cut of a reply to
  what was heard. One chat: passes of different chats share only the probe.
- `RoomState`: aliases, relationships, links and merge questions, app seats that leave
  (`unseat_apps`), and whether the owner was recognised (`voice_pass.py:115`): the
  owner's voice is taken as known.
- `VoiceBank`, `PersonSync`: the rotation, quarantine and capacity of a bank and drops
  by quality, the manifest of kept clips, embeddings, and the debounce of the pass.
  That a bank has room is a choice of `Diff`.
- Whole parts: see the table. They are numbers over audio, calls to outside
  services, pure rules over text, or one transaction a request; what they decide is
  an input of the modules above.

## 7. Where to go next

1. What one pass that nothing disturbs leaves behind, as a safety property: the step of
   `Converges` that could be proved.
2. That `EventBus` implements a queue that delivers each tab a prefix of the
   messages, composed with `LiveTab`, so that the list's convergence rests on the bus
   instead of on its own `NewMessage`.
3. `Rounds` as the server of `SendClient`: today `Take` is what `ChatTurn` promises, by
   reading and not by a refinement.
4. The second half of `anchors.py` (capacity and rotation of a bank), where the
   order of additions matters.
5. Voice sessions: which turn an utterance belongs to when playback, barge-in and
   transcription overlap.
