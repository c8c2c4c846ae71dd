------------------------------ MODULE EventBus ------------------------------
(***************************************************************************)
(* The live-events bus (backend/events.py) between the threads that write  *)
(* to the database and the tabs that hold GET /api/events/stream open      *)
(* (frontend/src/hooks/useEventStream.js).                                 *)
(*                                                                         *)
(* A writer commits on any thread and then rings: the ring is a callback   *)
(* queued on the event loop.  A stream is a generator on that loop, so it  *)
(* runs unbroken from one yield or wait to the next; only commits fall     *)
(* between its reads.                                                      *)
(*                                                                         *)
(* Five kinds of row are updated in place, each behind a cursor of its own *)
(* that works as the others do; the module follows one of them.            *)
(***************************************************************************)
EXTENDS Naturals, Sequences, FiniteSets

CONSTANTS
  Inserts,      \* calls of db.insert_message
  Patches,      \* updates in place of rows of one kind: jobs, labels, a roster ...
  Tabs,         \* browser tabs, each with its one stream
  MaxBreaks     \* bound on dropped connections and restarts together

Writers == Inserts \cup Patches

ASSUME BusAssumption ==
  /\ Inserts \cap Patches = {}
  /\ MaxBreaks \in Nat

VARIABLES
  count,       \* message rows committed; the n-th has the n-th id
  writer,      \* where each writer is
  stamp,       \* the updated_at each patch wrote (0: none yet)
  clock,       \* db.now(), one tick a reading
  bells,       \* _release_waiters callbacks queued on the loop
  generation,  \* events._generation
  waiters,     \* events._waiters: the tabs whose stream is asleep
  closing,     \* "yes" once events._shutting_down is set
  pc,          \* where each tab's stream is
  gen,         \* stream(): the generation sampled before the read
  last,        \* stream(): the last message id yielded
  due,         \* stream(): the highest id the read returned
  cursor,      \* stream(): the newest updated_at yielded
  fresh,       \* stream(): patches read and not yet yielded
  joined,      \* the cursor the stream was opened with
  pushed,      \* the patches the stream has yielded
  chan,        \* message events on the wire to the tab
  mark,        \* watermarkRef: the highest message id the tab has seen
  breaks       \* dropped connections and restarts so far

dbVars     == <<count, writer, stamp, clock>>
bellVars   == <<bells, generation, waiters, closing>>
readVars   == <<gen, last, due, cursor, fresh, pushed>>
streamVars == <<pc, readVars, joined>>
tabVars    == <<chan, mark, breaks>>
vars == <<dbVars, bellVars, streamVars, tabVars>>

WriterState == {"idle", "stamped", "committed", "rung", "dead"}
StreamState == {"new", "off", "top", "emit", "asleep", "ended"}

TypeOK ==
  /\ count \in Nat
  /\ writer \in [Writers -> WriterState]
  /\ stamp \in [Patches -> Nat]
  /\ clock \in Nat
  /\ bells \in Nat
  /\ generation \in Nat
  /\ waiters \subseteq Tabs
  /\ closing \in {"no", "yes"}
  /\ pc \in [Tabs -> StreamState]
  /\ gen \in [Tabs -> Nat]
  /\ last \in [Tabs -> Nat]
  /\ due \in [Tabs -> Nat]
  /\ cursor \in [Tabs -> Nat]
  /\ fresh \in [Tabs -> SUBSET Patches]
  /\ joined \in [Tabs -> Nat]
  /\ pushed \in [Tabs -> SUBSET Patches]
  /\ chan \in [Tabs -> Seq(Nat)]
  /\ mark \in [Tabs -> Nat]
  /\ breaks \in 0..MaxBreaks
  \* A future is registered exactly while its stream sleeps.
  /\ waiters = {t \in Tabs : pc[t] = "asleep"}

Init ==
  /\ count = 0
  /\ writer = [w \in Writers |-> "idle"]
  /\ stamp = [p \in Patches |-> 0]
  /\ clock = 0
  /\ bells = 0
  /\ generation = 0
  /\ waiters = {}
  /\ closing = "no"
  /\ pc = [t \in Tabs |-> "new"]
  /\ gen = [t \in Tabs |-> 0]
  /\ last = [t \in Tabs |-> 0]
  /\ due = [t \in Tabs |-> 0]
  /\ cursor = [t \in Tabs |-> 0]
  /\ fresh = [t \in Tabs |-> {}]
  /\ joined = [t \in Tabs |-> 0]
  /\ pushed = [t \in Tabs |-> {}]
  /\ chan = [t \in Tabs |-> <<>>]
  /\ mark = [t \in Tabs |-> 0]
  /\ breaks = 0

-----------------------------------------------------------------------------
(* Writers, on any thread.                                                 *)

Phase(w, from, to) ==
  /\ writer[w] = from
  /\ writer' = [writer EXCEPT ![w] = to]

Committed(w) == writer[w] \in {"committed", "rung", "dead"}

\* db.insert_message up to its commit.
Insert(m) ==
  /\ Phase(m, "idle", "committed")
  /\ count' = count + 1
  /\ UNCHANGED <<stamp, clock, bellVars, streamVars, tabVars>>

\* A patch reads the clock before its statement gets the write lock ...
StampPatch(p) ==
  /\ Phase(p, "idle", "stamped")
  /\ clock' = clock + 1
  /\ stamp' = [stamp EXCEPT ![p] = clock + 1]
  /\ UNCHANGED <<count, bellVars, streamVars, tabVars>>

\* ... and another patch may get the lock first.
CommitPatch(p) ==
  /\ Phase(p, "stamped", "committed")
  /\ UNCHANGED <<count, stamp, clock, bellVars, streamVars, tabVars>>

\* Mutant: the bell rings only for a stream that is already asleep.
RingIfHeard(w) ==
  /\ Phase(w, "committed", "rung")
  /\ bells' = bells + (IF waiters = {} THEN 0 ELSE 1)
  /\ UNCHANGED <<count, stamp, clock, generation, waiters, closing, streamVars, tabVars>>

\* events.notify_new_message and its aliases: call_soon_threadsafe.
Ring(w) ==
  /\ Phase(w, "committed", "rung")
  /\ bells' = bells + 1
  /\ UNCHANGED <<count, stamp, clock, generation, waiters, closing, streamVars, tabVars>>

-----------------------------------------------------------------------------
(* The loop's side of the bell.                                            *)

\* _release_waiters: every sleeping stream goes back to the top of its loop.
Release ==
  /\ bells > 0
  /\ bells' = bells - 1
  /\ generation' = generation + 1
  /\ waiters' = {}
  /\ pc' = [t \in Tabs |-> IF t \in waiters THEN "top" ELSE pc[t]]
  /\ UNCHANGED <<dbVars, closing, readVars, joined, tabVars>>

\* Mutant: the flag alone, without the wake-up.
BeginShutdownQuietly ==
  /\ closing = "no"
  /\ closing' = "yes"
  /\ UNCHANGED <<dbVars, bells, generation, waiters, streamVars, tabVars>>

\* begin_shutdown, in the signal handler.
BeginShutdown ==
  /\ closing = "no"
  /\ closing' = "yes"
  /\ bells' = bells + 1
  /\ UNCHANGED <<dbVars, generation, waiters, streamVars, tabVars>>

-----------------------------------------------------------------------------
(* stream().                                                               *)

Open(t) == pc[t] \in {"top", "emit", "asleep"}

\* The patches the cursor query of a stream returns.
Unread(t) == {p \in Patches : Committed(p) /\ stamp[p] > cursor[t]}

Drained(t) == pc[t] = "emit" /\ last[t] = due[t] /\ fresh[t] = {}

\* At the top of the loop: from the start, from a wait, or by `continue`.
AtTop(t) == pc[t] = "top" \/ (Drained(t) /\ generation # gen[t])

\* The test at the top of the loop.
Stop(t) ==
  /\ AtTop(t)
  /\ closing = "yes"
  /\ pc' = [pc EXCEPT ![t] = "ended"]
  /\ UNCHANGED <<dbVars, bellVars, readVars, joined, tabVars>>

\* Sample the generation, then read.  With nothing to yield the stream runs
\* straight on to its wait, and no ring can be answered in between.
Look(t) ==
  /\ AtTop(t)
  /\ closing = "no"
  /\ gen' = [gen EXCEPT ![t] = generation]
  /\ due' = [due EXCEPT ![t] = count]
  /\ fresh' = [fresh EXCEPT ![t] = Unread(t)]
  /\ IF last[t] = count /\ Unread(t) = {}
     THEN /\ pc' = [pc EXCEPT ![t] = "asleep"]
          /\ waiters' = waiters \cup {t}
     ELSE /\ pc' = [pc EXCEPT ![t] = "emit"]
          /\ UNCHANGED waiters
  /\ UNCHANGED <<dbVars, bells, generation, closing, last, cursor, pushed, joined, tabVars>>

YieldMessage(t) ==
  /\ pc[t] = "emit"
  /\ last[t] < due[t]
  /\ last' = [last EXCEPT ![t] = @ + 1]
  /\ chan' = [chan EXCEPT ![t] = Append(@, last[t] + 1)]
  /\ UNCHANGED <<dbVars, bellVars, pc, gen, due, cursor, fresh, pushed, joined, mark, breaks>>

\* Patches go out in the order of their stamps.
YieldPatch(t) ==
  /\ pc[t] = "emit"
  /\ last[t] = due[t]
  /\ \E p \in fresh[t] :
       /\ \A r \in fresh[t] : stamp[p] <= stamp[r]
       /\ cursor' = [cursor EXCEPT ![t] = stamp[p]]
       /\ fresh' = [fresh EXCEPT ![t] = @ \ {p}]
       /\ pushed' = [pushed EXCEPT ![t] = @ \cup {p}]
  /\ UNCHANGED <<dbVars, bellVars, pc, gen, last, due, joined, tabVars>>

\* Mutant: no generation check between the read and the wait.
SleepUnchecked(t) ==
  /\ Drained(t)
  /\ pc' = [pc EXCEPT ![t] = "asleep"]
  /\ waiters' = waiters \cup {t}
  /\ UNCHANGED <<dbVars, bells, generation, closing, readVars, joined, tabVars>>

\* Everything read has been yielded and no ring was answered meanwhile.
Sleep(t) ==
  /\ Drained(t)
  /\ generation = gen[t]
  /\ pc' = [pc EXCEPT ![t] = "asleep"]
  /\ waiters' = waiters \cup {t}
  /\ UNCHANGED <<dbVars, bells, generation, closing, readVars, joined, tabVars>>

\* HEARTBEAT_SECS passed: a ping, and back to the top of the loop.
Heartbeat(t) ==
  /\ t \in waiters
  /\ waiters' = waiters \ {t}
  /\ pc' = [pc EXCEPT ![t] = "top"]
  /\ UNCHANGED <<dbVars, bells, generation, closing, readVars, joined, tabVars>>

-----------------------------------------------------------------------------
(* The tab.                                                                *)

\* The mount effect seeds the watermark from the state snapshot.
Seed(t) ==
  /\ pc[t] = "new"
  /\ pc' = [pc EXCEPT ![t] = "off"]
  /\ mark' = [mark EXCEPT ![t] = count]
  /\ UNCHANGED <<dbVars, bellVars, readVars, joined, chan, breaks>>

\* Mutant: a reconnect resumes from what the server last sent.
ConnectFromServer(t) ==
  /\ pc[t] = "off"
  /\ closing = "no"
  /\ pc' = [pc EXCEPT ![t] = "top"]
  /\ last' = [last EXCEPT ![t] = IF joined[t] = 0 THEN mark[t] ELSE last[t]]
  /\ clock' = clock + 1
  /\ cursor' = [cursor EXCEPT ![t] = clock + 1]
  /\ joined' = [joined EXCEPT ![t] = clock + 1]
  /\ pushed' = [pushed EXCEPT ![t] = {}]
  /\ UNCHANGED <<count, writer, stamp, bellVars, gen, due, fresh, tabVars>>

\* startEventStream: since is the watermark, the cursors start at now.
Connect(t) ==
  /\ pc[t] = "off"
  /\ closing = "no"
  /\ pc' = [pc EXCEPT ![t] = "top"]
  /\ last' = [last EXCEPT ![t] = mark[t]]
  /\ clock' = clock + 1
  /\ cursor' = [cursor EXCEPT ![t] = clock + 1]
  /\ joined' = [joined EXCEPT ![t] = clock + 1]
  /\ pushed' = [pushed EXCEPT ![t] = {}]
  /\ UNCHANGED <<count, writer, stamp, bellVars, gen, due, fresh, tabVars>>

\* handleLiveEvent moves the watermark.
Receive(t) ==
  /\ chan[t] # <<>>
  /\ chan' = [chan EXCEPT ![t] = Tail(@)]
  /\ mark' = [mark EXCEPT ![t] = IF Head(chan[t]) > @ THEN Head(chan[t]) ELSE @]
  /\ UNCHANGED <<dbVars, bellVars, streamVars, breaks>>

\* What is left of a connection: the generator is cancelled, its waiter goes
\* with it, and what was on the wire is lost.
Disconnected(gone) ==
  /\ pc' = [t \in Tabs |-> IF t \in gone THEN "off" ELSE pc[t]]
  /\ chan' = [t \in Tabs |-> IF t \in gone THEN <<>> ELSE chan[t]]
  /\ fresh' = [t \in Tabs |-> IF t \in gone THEN {} ELSE fresh[t]]
  /\ UNCHANGED <<gen, last, due, cursor, pushed, joined, mark>>

\* A network drop, a laptop asleep, a proxy timing out.
Drop(t) ==
  /\ Open(t)
  /\ breaks < MaxBreaks
  /\ breaks' = breaks + 1
  /\ Disconnected({t})
  /\ waiters' = waiters \ {t}
  /\ UNCHANGED <<dbVars, bells, generation, closing>>

\* The stream ended by itself; the tab reads what is on the wire first.
Hangup(t) ==
  /\ pc[t] = "ended"
  /\ chan[t] = <<>>
  /\ Disconnected({t})
  /\ UNCHANGED <<dbVars, bellVars, breaks>>

\* The process is gone, killed or shut down, and a new one binds its loop.
\* Writers die with it; what they committed stays.
Restart ==
  /\ breaks < MaxBreaks
  /\ breaks' = breaks + 1
  /\ Disconnected({t \in Tabs : pc[t] # "new"})
  /\ writer' = [w \in Writers |-> CASE writer[w] = "stamped" -> "idle"
                                   [] writer[w] = "committed" -> "dead"
                                   [] OTHER -> writer[w]]
  /\ bells' = 0
  /\ generation' = 0
  /\ waiters' = {}
  /\ closing' = "no"
  /\ UNCHANGED <<count, stamp, clock>>

-----------------------------------------------------------------------------

WriterStep(w) ==
  \/ w \in Inserts /\ Insert(w)
  \/ w \in Patches /\ (StampPatch(w) \/ CommitPatch(w))
  \/ Ring(w)

StreamStep(t) ==
  Stop(t) \/ Look(t) \/ YieldMessage(t) \/ YieldPatch(t) \/ Sleep(t)

TabStep(t) == Seed(t) \/ Connect(t) \/ Receive(t) \/ Hangup(t)

Next ==
  \/ \E w \in Writers : WriterStep(w)
  \/ Release \/ BeginShutdown \/ Restart
  \/ \E t \in Tabs : StreamStep(t) \/ Heartbeat(t) \/ TabStep(t) \/ Drop(t)

Spec == Init /\ [][Next]_vars

(* A writer that committed rings, the loop runs its callbacks and whatever *)
(* stream is ready, and a tab keeps reconnecting.  The heartbeat is left   *)
(* out: the bell alone must do.                                            *)
Fairness ==
  /\ \A w \in Writers : WF_vars(Ring(w))
  /\ WF_vars(Release)
  /\ \A t \in Tabs : WF_vars(StreamStep(t)) /\ WF_vars(TabStep(t))

FairSpec == Spec /\ Fairness

-----------------------------------------------------------------------------
(* Safety.                                                                 *)

Ringing == bells > 0 \/ \E w \in Writers : writer[w] = "committed"

\* The lost-wakeup invariant: no stream sleeps on something it has not read
\* unless a ring is still to come for it.
NoLostWakeup ==
  \A t \in waiters : last[t] < count \/ Unread(t) # {} => Ringing

\* No stream sleeps through a shutdown, so the drain ends.
ShutdownHeard == \A t \in waiters : closing = "yes" => bells > 0

\* The message events on their way to a tab continue its watermark one by
\* one: over drops, restarts and races none is skipped and none comes twice.
OnceEach ==
  \A t \in Tabs :
    /\ \A i \in DOMAIN chan[t] : chan[t][i] = mark[t] + i
    /\ Open(t) => last[t] = mark[t] + Len(chan[t])

\* A stream yields a patch at most once.
PushedOnce == \A t \in Tabs : fresh[t] \cap pushed[t] = {}

-----------------------------------------------------------------------------
(* Liveness.                                                               *)

\* Every tab learns of every message, whatever breaks in between.
MessagesArrive ==
  \A n \in 1..Cardinality(Inserts), t \in Tabs :
    count >= n /\ closing = "no" ~> mark[t] >= n \/ closing = "yes"

\* A shutdown ends every stream, or the drain waits for ever.
StreamsEnd == closing = "yes" ~> closing = "no" \/ \A t \in Tabs : ~Open(t)

-----------------------------------------------------------------------------
(* A promise of the docs that the code breaks.                             *)

\* "Nothing is ever invisible indefinitely": a sleeping stream, with every
\* writer at rest and no ring to come, has yielded each patch that was
\* stamped since it was opened.
PatchesArrive ==
  \A t \in waiters :
    bells = 0 /\ (\A w \in Writers : writer[w] \notin {"stamped", "committed"})
      => \A p \in Patches : Committed(p) /\ stamp[p] > joined[t] => p \in pushed[t]
=============================================================================
