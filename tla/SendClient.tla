----------------------------- MODULE SendClient -----------------------------
(* What a tab does with the turns a person types: hooks/useRoundStream.js,  *)
(* sendRetry.js and textQueue.js, against the routes of routers/chats.py    *)
(* that take a send and stream its round.                                   *)
(*                                                                          *)
(* A turn typed while a reply streams waits in its chat's batch, and the    *)
(* batch is one send.  A send that cannot go is held and retried.  A round  *)
(* outlives its connection: the tab re-attaches by the round's id, from the *)
(* event after the last one it counted.                                     *)
(*                                                                          *)
(* A send is named by its first turn.  What the browser runs to completion  *)
(* between two awaits is one step.                                          *)
EXTENDS Naturals, Sequences, FiniteSets, Functions

CONSTANTS
  Turns,       \* what the person may type
  Chats,       \* the chats of the tab
  None,        \* neither a turn nor a chat
  MaxEvents,   \* bound: events in a round's buffer
  MaxBreaks,   \* bound: lost connections and restarts
  MaxExtras    \* bound: stops, switches of the chat, emptied batches, and
               \* rounds that something else than this tab starts

ASSUME SendAssumption ==
  /\ None \notin Turns \cup Chats
  /\ {MaxEvents, MaxBreaks, MaxExtras} \subseteq Nat

VARIABLES
  active,     \* activeChatIdRef
  batch,      \* batchStore: the turns queued in each chat
  held,       \* pendingSends: the sends held, first to last
  retry,      \* the loop of sendRetry
  retrying,   \* the send the loop awaits
  ctrl,       \* roundCtrl, the stream that Stop aborts, and streamingRef: they
              \* are set and cleared together
  item,       \* the turns a send consists of
  home,       \* the chat a turn was typed in
  run,        \* where runStream is for a send
  chatOf,     \* runStream's chatId
  req,        \* the request of a send on the network
  rounds,     \* every Round there was, in the order of their starts
  won,        \* the round a send was given
  src,        \* the round its stream now reads
  heard,      \* the events its stream took, as <<round, index>>
  saved,      \* the sends each chat saved, in the order it saved them
  painted,    \* pairs <<chat shown, chat of the round>> that were painted
  left,       \* chats whose stream the person aborted, or that queued behind it
  blind,      \* sends that were taken and whose answer was lost
  breaks, extras

personVars == <<active, extras>>
queueVars  == <<batch, held, item, home>>
retryVars  == <<retry, retrying>>
runVars    == <<ctrl, run, chatOf>>
wireVars   == <<req, won, src, heard, painted>>
serverVars == <<rounds, saved>>
ghostVars  == <<left, blind>>
vars == <<personVars, queueVars, retryVars, runVars, wireVars, serverVars,
          ghostVars, breaks>>

\* `adrift` waits to re-attach, `cut` does so with its signal aborted, and
\* `gone` fetches the chat because its round is no more.  The last four are
\* ways a run ends: the round did, the send was held, it was refused for
\* good, or the person stopped it before the answer came.
RunState  == {"none", "posted", "reading", "adrift", "cut", "gone",
              "done", "held", "refused", "stopped"}
InFlight  == {"posted", "reading", "adrift", "cut", "gone"}
ReqState  == {"none", "out", "ok", "busy", "bad", "lost"}
Round     == [chat : Chats, id : Nat, len : Nat, done : BOOLEAN, up : BOOLEAN]

TypeOK ==
  /\ active \in Chats
  /\ batch \in [Chats -> Seq(Turns)]
  /\ held \in Seq(Turns)
  /\ retry \in {"off", "waiting", "sending"}
  /\ retrying \in Turns \cup {None}
  /\ ctrl \in Turns \cup {None}
  /\ item \in [Turns -> Seq(Turns)]
  /\ home \in [Turns -> Chats \cup {None}]
  /\ run \in [Turns -> RunState]
  /\ chatOf \in [Turns -> Chats \cup {None}]
  /\ req \in [Turns -> ReqState]
  /\ rounds \in Seq(Round)
  /\ won \in [Turns -> Nat] /\ src \in [Turns -> Nat]
  /\ heard \in [Turns -> Seq(Nat \X Nat)]
  /\ saved \in [Chats -> Seq(Turns)]
  /\ painted \subseteq Chats \X Chats
  /\ left \subseteq Chats /\ blind \subseteq Turns
  /\ breaks \in 0..MaxBreaks /\ extras \in 0..MaxExtras

Init ==
  /\ active \in Chats
  /\ batch = [c \in Chats |-> <<>>]
  /\ held = <<>>
  /\ retry = "off" /\ retrying = None /\ ctrl = None
  /\ item = [t \in Turns |-> <<>>]
  /\ home = [t \in Turns |-> None]
  /\ run = [t \in Turns |-> "none"]
  /\ chatOf = [t \in Turns |-> None]
  /\ req = [t \in Turns |-> "none"]
  /\ rounds = <<>>
  /\ won = [t \in Turns |-> 0] /\ src = [t \in Turns |-> 0]
  /\ heard = [t \in Turns |-> <<>>]
  /\ saved = [c \in Chats |-> <<>>]
  /\ painted = {} /\ left = {} /\ blind = {}
  /\ breaks = 0 /\ extras = 0

-----------------------------------------------------------------------------
(* The server: one round a chat, and a buffer that outlives its readers.   *)

\* The chat's latest round in this process; 0 is none (rounds._rounds).
Latest(c) ==
  LET mine == {n \in DOMAIN rounds : rounds[n].chat = c /\ rounds[n].up}
  IN  CHOOSE n \in mine \cup {0} : \A m \in mine : m <= n

Busy(c) == Latest(c) # 0 /\ ~rounds[Latest(c)].done

\* Round ids count from 1 in each process.
NewRound(c) ==
  [chat |-> c, id |-> Cardinality({n \in DOMAIN rounds : rounds[n].up}) + 1,
   len |-> 0, done |-> FALSE, up |-> TRUE]

\* The claim, the save and the start, which Rounds takes apart.
Take(t) ==
  /\ req[t] = "out"
  /\ ~Busy(home[t])
  /\ saved' = [saved EXCEPT ![home[t]] = Append(@, t)]
  /\ rounds' = Append(rounds, NewRound(home[t]))
  /\ req' = [req EXCEPT ![t] = "ok"]
  /\ won' = [won EXCEPT ![t] = Len(rounds) + 1]
  /\ UNCHANGED <<personVars, queueVars, retryVars, runVars, src, heard,
                 painted, ghostVars, breaks>>

\* Mutant: the turn is saved before the chat is claimed (#434).
SaveThenRefuse(t) ==
  /\ req[t] = "out"
  /\ Busy(home[t])
  /\ saved' = [saved EXCEPT ![home[t]] = Append(@, t)]
  /\ req' = [req EXCEPT ![t] = "busy"]
  /\ UNCHANGED <<personVars, queueVars, retryVars, runVars, won, src, heard,
                 painted, rounds, ghostVars, breaks>>

\* 409: nothing is saved.
RefuseBusy(t) ==
  /\ req[t] = "out"
  /\ Busy(home[t])
  /\ req' = [req EXCEPT ![t] = "busy"]
  /\ UNCHANGED <<personVars, queueVars, retryVars, runVars, won, src, heard,
                 painted, serverVars, ghostVars, breaks>>

\* No such chat, nothing to send, a save that raised.
RefuseBad(t) ==
  /\ req[t] = "out"
  /\ ~Busy(home[t])
  /\ req' = [req EXCEPT ![t] = "bad"]
  /\ UNCHANGED <<personVars, queueVars, retryVars, runVars, won, src, heard,
                 painted, serverVars, ghostVars, breaks>>

OtherRound(c) ==
  /\ ~Busy(c)
  /\ extras < MaxExtras
  /\ extras' = extras + 1
  /\ rounds' = Append(rounds, NewRound(c))
  /\ UNCHANGED <<active, queueVars, retryVars, runVars, wireVars, saved,
                 ghostVars, breaks>>

Emit(n) ==
  /\ rounds[n].up /\ ~rounds[n].done
  /\ rounds[n].len < MaxEvents
  /\ rounds' = [rounds EXCEPT ![n].len = @ + 1]
  /\ UNCHANGED <<personVars, queueVars, retryVars, runVars, wireVars, saved,
                 ghostVars, breaks>>

RoundFinishes(n) ==
  /\ rounds[n].up /\ ~rounds[n].done
  /\ rounds' = [rounds EXCEPT ![n].done = TRUE]
  /\ UNCHANGED <<personVars, queueVars, retryVars, runVars, wireVars, saved,
                 ghostVars, breaks>>

\* The process goes: its rounds, its buffers and every connection with it.
Restart ==
  /\ breaks < MaxBreaks
  /\ breaks' = breaks + 1
  /\ rounds' = [n \in DOMAIN rounds |-> [rounds[n] EXCEPT !.up = FALSE]]
  /\ run' = [t \in Turns |-> IF run[t] = "reading" THEN "adrift" ELSE run[t]]
  /\ req' = [t \in Turns |-> IF req[t] = "none" THEN "none" ELSE "lost"]
  /\ UNCHANGED <<personVars, queueVars, retryVars, ctrl, chatOf,
                 won, src, heard, painted, saved, ghostVars>>

-----------------------------------------------------------------------------
(* runStream.                                                               *)

\* It posts the send, under whichever chat is open now.
Post(t, text) ==
  /\ run' = [run EXCEPT ![t] = "posted"]
  /\ chatOf' = [chatOf EXCEPT ![t] = active]
  /\ item' = [item EXCEPT ![t] = text]
  /\ req' = [req EXCEPT ![t] = "out"]
  /\ ctrl' = t

\* Mutant: the batch waits for the next send.
SettleOnly(t, end, drain) ==
  /\ run' = [run EXCEPT ![t] = end]
  /\ req' = [req EXCEPT ![t] = IF end = "stopped" THEN @ ELSE "none"]
  /\ ctrl' = None
  /\ UNCHANGED <<chatOf, item, batch>>

\* Its `finally`: the flag and the controller are cleared, and unless it was
\* aborted the batch of its chat goes out as one send.
Settle(t, end, drain) ==
  LET b == batch[chatOf[t]]
      h == Head(b)
  IN  IF drain /\ b # <<>>
      THEN /\ run' = [run EXCEPT ![t] = end, ![h] = "posted"]
           /\ chatOf' = [chatOf EXCEPT ![h] = active]
           /\ item' = [item EXCEPT ![h] = b]
           /\ batch' = [batch EXCEPT ![chatOf[t]] = <<>>]
           /\ req' = [req EXCEPT ![t] = "none", ![h] = "out"]
           /\ ctrl' = h
      ELSE /\ run' = [run EXCEPT ![t] = end]
           /\ req' = [req EXCEPT ![t] = IF end = "stopped" THEN @ ELSE "none"]
           /\ ctrl' = None
           /\ UNCHANGED <<chatOf, item, batch>>

\* The retry loop goes on when the send it awaits has settled, and a send
\* that is held starts it if it is at rest.
RetryAfter(t, queue) ==
  IF retrying = t
  THEN /\ retrying' = None
       /\ retry' = IF queue = <<>> THEN "off" ELSE "waiting"
  ELSE /\ retry' = IF queue # <<>> /\ retry = "off" THEN "waiting" ELSE retry
       /\ UNCHANGED retrying

\* send() in the open chat.
TypeQueued(t) ==
  /\ home[t] = None
  /\ ctrl # None
  /\ home' = [home EXCEPT ![t] = active]
  /\ batch' = [batch EXCEPT ![active] = Append(@, t)]
  /\ left' = IF \E u \in Turns : run[u] \in InFlight /\ chatOf[u] = active
             THEN left ELSE left \cup {active}
  /\ UNCHANGED <<personVars, held, item, retryVars, runVars, wireVars,
                 serverVars, blind, breaks>>

TypeSent(t) ==
  /\ home[t] = None
  /\ ctrl = None
  /\ home' = [home EXCEPT ![t] = active]
  /\ Post(t, <<t>>)
  /\ UNCHANGED <<personVars, batch, held, retryVars, won, src, heard,
                 painted, serverVars, ghostVars, breaks>>

\* The answer's first event is round_start.
Answered(t) ==
  /\ run[t] = "posted"
  /\ req[t] = "ok"
  /\ run' = [run EXCEPT ![t] = "reading"]
  /\ req' = [req EXCEPT ![t] = "none"]
  /\ src' = [src EXCEPT ![t] = won[t]]
  /\ UNCHANGED <<personVars, queueVars, retryVars, ctrl, chatOf,
                 won, heard, painted, serverVars, ghostVars, breaks>>

\* A TypeError or a 409: hold the send and let the loop retry it.
Hold(t) ==
  /\ run[t] = "posted"
  /\ held' = Append(held, t)
  /\ Settle(t, "held", TRUE)
  /\ RetryAfter(t, held')
  /\ UNCHANGED <<personVars, home, won, src, heard, painted, serverVars, left>>

\* Mutant: a send that meets a running round is dropped.
DropBusy(t) ==
  /\ req[t] = "busy"
  /\ run[t] = "posted"
  /\ Settle(t, "held", TRUE)
  /\ RetryAfter(t, held)
  /\ UNCHANGED <<personVars, held, home, won, src, heard, painted, serverVars,
                 ghostVars, breaks>>

HoldBusy(t) ==
  /\ req[t] = "busy"
  /\ Hold(t)
  /\ UNCHANGED <<blind, breaks>>

\* The fetch fails.  The request never arrived, or the answer never did.
HoldOffline(t) ==
  /\ IF req[t] = "lost"
     THEN UNCHANGED breaks
     ELSE /\ req[t] \in {"out", "ok", "busy"}
          /\ breaks < MaxBreaks
          /\ breaks' = breaks + 1
  /\ Hold(t)
  /\ blind' = IF won[t] # 0 THEN blind \cup {t} ELSE blind

\* Any other answer is a banner, and the text is gone.
ShowRefusal(t) ==
  /\ run[t] = "posted"
  /\ req[t] = "bad"
  /\ Settle(t, "refused", TRUE)
  /\ RetryAfter(t, held)
  /\ UNCHANGED <<personVars, held, home, won, src, heard, painted, serverVars,
                 ghostVars, breaks>>

\* handleEvent, with its write-guard: the chat the stream was opened for
\* against the chat that is open.
Receive(t) ==
  /\ run[t] = "reading"
  /\ Len(heard[t]) < rounds[src[t]].len
  /\ heard' = [heard EXCEPT ![t] = Append(@, <<src[t], Len(heard[t]) + 1>>)]
  /\ painted' = IF chatOf[t] = active
                THEN painted \cup {<<active, rounds[src[t]].chat>>}
                ELSE painted
  /\ UNCHANGED <<personVars, queueVars, retryVars, runVars, req, won, src,
                 serverVars, ghostVars, breaks>>

StreamEnds(t) ==
  /\ run[t] = "reading"
  /\ rounds[src[t]].done
  /\ Len(heard[t]) >= rounds[src[t]].len
  /\ Settle(t, "done", TRUE)
  /\ RetryAfter(t, held)
  /\ UNCHANGED <<personVars, held, home, won, src, heard, painted, serverVars,
                 ghostVars, breaks>>

\* The connection breaks, or goes quiet for SSE_IDLE_TIMEOUT_MS.
Break(t) ==
  /\ run[t] = "reading"
  /\ breaks < MaxBreaks
  /\ breaks' = breaks + 1
  /\ run' = [run EXCEPT ![t] = "adrift"]
  /\ UNCHANGED <<personVars, queueVars, retryVars, ctrl, chatOf,
                 wireVars, serverVars, ghostVars>>

\* The round that GET round/stream finds: the chat's latest, if it has the
\* id the tab kept; 0 is a 404.
Found(t) ==
  LET n == Latest(chatOf[t])
  IN  IF n # 0 /\ rounds[n].id = rounds[src[t]].id THEN n ELSE 0

\* Mutant: round_start is counted with the events.
ReattachPastOne(t) ==
  /\ run[t] = "adrift"
  /\ Found(t) # 0
  /\ src' = [src EXCEPT ![t] = Found(t)]
  /\ heard' = [heard EXCEPT ![t] = Append(@, <<Found(t), Len(@) + 2>>)]
  /\ run' = [run EXCEPT ![t] = "reading"]
  /\ UNCHANGED <<personVars, queueVars, retryVars, ctrl, chatOf,
                 req, won, painted, serverVars, ghostVars, breaks>>

Reattach(t) ==
  /\ run[t] = "adrift"
  /\ Found(t) # 0
  /\ src' = [src EXCEPT ![t] = Found(t)]
  /\ run' = [run EXCEPT ![t] = "reading"]
  /\ UNCHANGED <<personVars, queueVars, retryVars, ctrl, chatOf,
                 req, won, heard, painted, serverVars, ghostVars, breaks>>

\* The round is gone: the chat is fetched again, and the run ends, even if
\* it was aborted meanwhile.
RoundGone(t) ==
  /\ run[t] = "adrift"
  /\ Found(t) = 0
  /\ run' = [run EXCEPT ![t] = "gone"]
  /\ UNCHANGED <<personVars, queueVars, retryVars, ctrl, chatOf,
                 wireVars, serverVars, ghostVars, breaks>>

Refetched(t) ==
  /\ run[t] = "gone"
  /\ Settle(t, "done", TRUE)
  /\ RetryAfter(t, held)
  /\ UNCHANGED <<personVars, held, home, won, src, heard, painted, serverVars,
                 ghostVars, breaks>>

\* An aborted run that was waiting for its next try wakes and ends.
WakeCut(t) ==
  /\ run[t] = "cut"
  /\ Settle(t, "done", FALSE)
  /\ RetryAfter(t, held)
  /\ UNCHANGED <<personVars, held, home, won, src, heard, painted, serverVars,
                 ghostVars, breaks>>

-----------------------------------------------------------------------------
(* The retry of held sends.                                                 *)

\* The timer fired and the ping was answered, or else the loop waits again:
\* the first held send leaves the queue and goes through runStream.
SendHeld ==
  /\ retry = "waiting"
  /\ held # <<>>
  /\ retry' = "sending"
  /\ retrying' = Head(held)
  /\ held' = Tail(held)
  /\ Post(Head(held), item[Head(held)])
  /\ UNCHANGED <<personVars, batch, home, won, src, heard, painted,
                 serverVars, ghostVars, breaks>>

-----------------------------------------------------------------------------
(* The person.                                                              *)

\* The controller's stream is aborted: at once, unless it waits to re-attach.
AbortReader ==
  IF ctrl = None
  THEN UNCHANGED <<runVars, retryVars, batch, item, req, left>>
  ELSE /\ left' = left \cup {chatOf[ctrl]}
       /\ CASE run[ctrl] = "adrift" ->
                 /\ run' = [run EXCEPT ![ctrl] = "cut"]
                 /\ UNCHANGED <<ctrl, chatOf, retryVars, batch,
                                item, req>>
            [] run[ctrl] \in {"cut", "gone"} ->
                 UNCHANGED <<runVars, retryVars, batch, item, req>>
            [] run[ctrl] \in {"posted", "reading"} ->
                 /\ Settle(ctrl, IF run[ctrl] = "posted" THEN "stopped"
                                 ELSE "done", FALSE)
                 /\ RetryAfter(ctrl, held)

Stop ==
  /\ extras < MaxExtras
  /\ extras' = extras + 1
  /\ AbortReader
  /\ UNCHANGED <<active, held, home, won, src, heard, painted, serverVars,
                 blind, breaks>>

SelectChat(c) ==
  /\ c # active
  /\ extras < MaxExtras
  /\ extras' = extras + 1
  /\ active' = c
  /\ AbortReader
  /\ UNCHANGED <<held, home, won, src, heard, painted, serverVars, blind,
                 breaks>>

\* Allowed until the batch is flipped; the turns leave with it.
CancelBatch ==
  /\ extras < MaxExtras
  /\ batch[active] # <<>>
  /\ extras' = extras + 1
  /\ batch' = [batch EXCEPT ![active] = <<>>]
  /\ run' = [t \in Turns |-> IF t \in Range(batch[active]) THEN "stopped" ELSE run[t]]
  /\ item' = [t \in Turns |-> IF t \in Range(batch[active]) THEN <<t>> ELSE item[t]]
  /\ UNCHANGED <<active, held, home, ctrl, chatOf, retryVars,
                 wireVars, serverVars, ghostVars, breaks>>

-----------------------------------------------------------------------------

Person ==
  \/ \E t \in Turns : TypeQueued(t) \/ TypeSent(t)
  \/ Stop \/ CancelBatch
  \/ \E c \in Chats : SelectChat(c)

Stream(t) ==
  \/ Answered(t) \/ HoldBusy(t) \/ HoldOffline(t) \/ ShowRefusal(t)
  \/ Receive(t) \/ StreamEnds(t) \/ Break(t)
  \/ Reattach(t) \/ RoundGone(t) \/ Refetched(t) \/ WakeCut(t)

Server ==
  \/ \E t \in Turns : Take(t) \/ RefuseBusy(t) \/ RefuseBad(t)
  \/ \E c \in Chats : OtherRound(c)
  \/ \E n \in DOMAIN rounds : Emit(n) \/ RoundFinishes(n)
  \/ Restart

Next == Person \/ (\E t \in Turns : Stream(t)) \/ SendHeld \/ Server

Spec == Init /\ [][Next]_vars

-----------------------------------------------------------------------------
(* Properties.                                                              *)

SendOf(t) == {h \in Turns : t \in Range(item[h])}
Saved(h) == h \in Range(saved[home[h]])

\* A typed turn is never lost on the way: it waits in its chat's batch, or
\* the send it is part of is held, on its way or saved, or the person
\* stopped it before its answer came, or the server refused it for good and
\* the banner said so.
NothingDropped ==
  \A t \in Turns : home[t] # None =>
    \/ t \in Range(batch[home[t]])
    \/ \E h \in SendOf(t) :
         \/ h \in Range(held) /\ run[h] = "held"
         \/ run[h] \in {"posted", "refused", "stopped"}
         \/ Saved(h)

\* A send is saved again only when its answer was lost: neither a 409, nor
\* the retry, nor a batch that drains beside it makes a second copy.
SavedTwiceOnlyBlind ==
  \A c \in Chats : \A i, j \in DOMAIN saved[c] :
    i # j /\ saved[c][i] = saved[c][j] => saved[c][i] \in blind

\* Each stream is given its own round's events, each once and in order,
\* over any number of breaks.  Only a restart can hand it another round of
\* the chat, one that has the id again.
StreamIsPrefix ==
  \A t \in Turns : \A i \in DOMAIN heard[t] :
    LET n == heard[t][i][1]
    IN  /\ heard[t][i][2] = i
        /\ \/ n = won[t]
           \/ /\ ~rounds[won[t]].up
              /\ rounds[n].chat = chatOf[t]
              /\ rounds[n].id = rounds[won[t]].id

\* A queued turn has a stream of its chat that will send it when it ends,
\* unless the person aborted that stream, or queued behind an aborted one:
\* then it waits for the next round of the chat.
BatchWillDrain ==
  \A c \in Chats : batch[c] # <<>> /\ c \notin left =>
    \E t \in Turns : run[t] \in InFlight /\ chatOf[t] = c

\* One retry loop, that holds one send at a time, and it never stops while
\* something is held.
RetryAwake ==
  /\ held # <<>> => retry # "off"
  /\ retry = "sending" <=> retrying # None
  /\ retrying # None => run[retrying] \in InFlight

\* What waits is always somebody's to send.
NothingStuck == BatchWillDrain /\ RetryAwake

\* A stream never writes into a chat it did not originate from
\* (streamGuard.js:3).
WriteGuard == \A p \in painted : p[1] = p[2]
=============================================================================
