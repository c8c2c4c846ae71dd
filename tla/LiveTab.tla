------------------------------- MODULE LiveTab -------------------------------
(* What a tab shows of the chat it has open: hooks/useEventStream.js,       *)
(* eventStream.js, the painting half of hooks/useRoundStream.js, and        *)
(* selectChat, reassignSpeaker and refetch of App.jsx.                      *)
(*                                                                          *)
(* The event connection only names rows: the tab fetches them, and merges   *)
(* the answer into its list.  Fetches answer late, fail, and overtake one   *)
(* another; a row that the tab's own round stream paints is not fetched,    *)
(* and events that come during a round wait for its end.                    *)
(*                                                                          *)
(* A row of the database is its id.  A version counts the changes of its    *)
(* labels.                                                                  *)
EXTENDS Naturals, Sequences, FiniteSets, FiniteSetsExt, SequencesExt

CONSTANTS
  Chats, None,
  MaxChanges,  \* bound: rows that are inserted and labels that are changed
  MaxFetches,  \* bound: fetches in flight before an event starts another
  MaxBreaks,   \* bound: broken event connections and failed fetches
  MaxSwitches  \* bound: chats opened after the first

Ids  == 1..MaxChanges
Vers == 0..MaxChanges

VARIABLES
  rows,       \* the rows of the database: their chats and versions
  conn,       \* whether the event connection is up
  news,       \* rows whose message_update is on its way
  active,     \* activeChatIdRef
  list,       \* messages: the copies of each row, by their versions
  watermark,  \* watermarkRef
  pending,    \* pendingLiveEvents
  fetches,    \* the requests for rows
  stream,     \* runStream: "off", "on", "gone" (fetches the chat again), or
              \* "cut" (aborted, and still to notice it)
  tape,       \* the rows its round saved, whose events are on their way
  bubble,     \* the placeholder of the reply that streams
  source,     \* the chat of that round, while the stream reads it
  edits, breaks,
  trail,      \* the chats that were open before this one
  excused,    \* rows that a failed fetch or an overwrite took from the list
  dull,       \* rows whose newest label the tab has no way to learn of
  unopened,   \* the fetch of the open chat failed: the last chat's list stays
  strayed     \* rows painted by a stream that was posted to another chat than
              \* the one that was open

serverVars == <<rows, edits>>
busVars    == <<conn, news, watermark>>
viewVars   == <<active, list, unopened, strayed>>
roundVars  == <<stream, tape, bubble, source>>
ghostVars  == <<excused, dull>>
vars == <<serverVars, busVars, viewVars, pending, fetches, roundVars, breaks,
          trail, ghostVars>>

Row   == [chat : Chats, ver : Vers]
Kinds == {"hydrate", "poll", "open", "gone"}
Fetch == [kind : Kinds, chat : Chats, after : Vers, read : BOOLEAN,
          rows : SUBSET (Ids \X Vers)]

TypeOK ==
  /\ rows \in BoundedSeq(Row, MaxChanges)
  /\ conn \in BOOLEAN
  /\ news \subseteq DOMAIN rows
  /\ active \in Chats
  /\ \A i \in Ids : list[i] \in BoundedSeq(Vers, 2)
  /\ watermark \in 0..Len(rows)
  /\ pending \subseteq DOMAIN rows
  /\ Cardinality(fetches) <= MaxFetches + MaxChanges + MaxSwitches + 1
  /\ \A f \in fetches : f.kind \in Kinds /\ f.chat \in Chats
  /\ stream \in {"off", "on", "gone", "cut"}
  /\ tape \in BoundedSeq(DOMAIN rows, 1)
  /\ bubble \in {"none", "shown", "wiped"}
  /\ excused \cup dull \cup strayed \subseteq DOMAIN rows /\ unopened \in BOOLEAN
  /\ edits \in Vers /\ breaks \in 0..MaxBreaks
  /\ source \in Chats \cup {None}
  /\ trail \in BoundedSeq(Chats, MaxSwitches)

Init ==
  /\ rows = <<>> /\ edits = 0
  /\ conn = TRUE /\ news = {} /\ watermark = 0
  /\ active \in Chats /\ list = [i \in Ids |-> <<>>]
  /\ pending = {} /\ fetches = {}
  /\ stream = "off" /\ tape = <<>> /\ bubble = "none"
  /\ source = None
  /\ breaks = 0 /\ trail = <<>>
  /\ excused = {} /\ dull = {} /\ unopened = FALSE /\ strayed = {}

-----------------------------------------------------------------------------

Shown(i) == list[i] # <<>>
Highest(shown) == Max({0} \cup {i \in Ids : shown[i] # <<>>})
RowsOf(c) == {i \in DOMAIN rows : rows[i].chat = c}
Newest(i, shown) == shown[i] # <<>> /\ Last(shown[i]) = rows[i].ver

Ask(kind, c, after) ==
  [kind |-> kind, chat |-> c, after |-> after, read |-> FALSE, rows |-> {}]

\* Mutant: the fetch asks for what is after the highest row.
AfterHighest(i, shown) == Highest(shown)

\* The fetch for one event reaches below the rows the tab has.
HydrateCursor(i, shown) == Min({i - 1, Highest(shown)})

\* One fetch for each event that is of the open chat.
Hydrate(events, shown) ==
  {Ask("hydrate", active, HydrateCursor(i, shown)) :
     i \in events \cap RowsOf(active)}

\* mergeMessagesById: the fresh row replaces every copy of it, and of any
\* other row the last copy stays.
Merge(fresh) ==
  [i \in Ids |->
     IF \E v \in Vers : <<i, v>> \in fresh
     THEN <<CHOOSE v \in Vers : <<i, v>> \in fresh>>
     ELSE IF Shown(i) THEN <<Last(list[i])>> ELSE <<>>]

Only(fresh) ==
  [i \in Ids |-> IF \E v \in Vers : <<i, v>> \in fresh
                 THEN <<CHOOSE v \in Vers : <<i, v>> \in fresh>>
                 ELSE <<>>]

\* An older answer took rows out of the list, or put an older label back.
Track(shown, lost) ==
  /\ excused' = {i \in excused \cup lost
                      \cup {j \in DOMAIN rows : Shown(j) /\ shown[j] = <<>>} :
                   shown[i] = <<>>}
  /\ dull' = {i \in dull \cup lost \cup {j \in DOMAIN rows : Newest(j, list)} :
                ~Newest(i, shown)}

-----------------------------------------------------------------------------
(* The server.                                                              *)

\* A row from outside the tab's round: a notice, a guest, another tab, a
\* round of its own.
RowInserted(c) ==
  /\ Len(rows) + edits < MaxChanges
  /\ rows' = Append(rows, [chat |-> c, ver |-> 0])
  /\ UNCHANGED <<edits, busVars, viewVars, pending, fetches, roundVars, breaks,
                 trail, ghostVars>>

\* A pass attaches a label to a row.  A connection that is down will not be
\* told: its cursors start anew.
Label(i) ==
  /\ Len(rows) + edits < MaxChanges
  /\ edits' = edits + 1
  /\ rows' = [rows EXCEPT ![i].ver = @ + 1]
  /\ news' = IF conn THEN news \cup {i} ELSE news
  /\ dull' = IF conn THEN dull ELSE dull \cup {i}

Labelled(i) ==
  /\ Label(i)
  /\ UNCHANGED <<conn, watermark, viewVars, pending, fetches, roundVars,
                 breaks, trail, excused>>

\* The person corrects a label, and the tab fetches from that row on.
Reassign(i) ==
  /\ rows[i].chat = active /\ Shown(i)
  /\ Cardinality(fetches) < MaxFetches
  /\ Label(i)
  /\ fetches' = fetches \cup {Ask("hydrate", active, i - 1)}
  /\ UNCHANGED <<conn, watermark, viewVars, pending, roundVars, breaks,
                 trail, excused>>

\* The answer is made; it has still to arrive.  The route of a whole chat
\* goes on to probe the memory service after this read.
Read(f) ==
  /\ ~f.read
  /\ fetches' = (fetches \ {f}) \cup
       {[f EXCEPT !.read = TRUE,
                  !.rows = {<<i, rows[i].ver>> :
                              i \in {j \in RowsOf(f.chat) : j > f.after}}]}
  /\ UNCHANGED <<serverVars, busVars, viewVars, pending, roundVars, breaks,
                 trail, ghostVars>>

-----------------------------------------------------------------------------
(* The event connection.                                                    *)

\* Mutant: what comes during a round is dropped.
HandleUnlessStreaming(i) ==
  /\ fetches' = IF stream # "off" THEN fetches
                ELSE fetches \cup Hydrate({i}, list)
  /\ UNCHANGED pending

\* An event of the open chat waits while a round streams; else its row is
\* fetched.  One of another chat marks that chat unread.
Handle(i) ==
  IF stream # "off" /\ rows[i].chat = active
  THEN pending' = pending \cup {i} /\ UNCHANGED fetches
  ELSE fetches' = fetches \cup Hydrate({i}, list) /\ UNCHANGED pending

NewMessage ==
  /\ conn
  /\ watermark < Len(rows)
  /\ Cardinality(fetches) < MaxFetches
  /\ watermark' = watermark + 1
  /\ Handle(watermark + 1)
  /\ UNCHANGED <<serverVars, conn, news, viewVars, roundVars, breaks, trail,
                 ghostVars>>

MessageUpdate(i) ==
  /\ conn
  /\ i \in news
  /\ Cardinality(fetches) < MaxFetches
  /\ news' = news \ {i}
  /\ Handle(i)
  /\ UNCHANGED <<serverVars, conn, watermark, viewVars, roundVars, breaks,
                 trail, ghostVars>>

\* New messages are replayed from the watermark, updates are not.
ConnectionBreaks ==
  /\ conn
  /\ breaks < MaxBreaks
  /\ breaks' = breaks + 1
  /\ conn' = FALSE
  /\ news' = {}
  /\ dull' = dull \cup news
  /\ UNCHANGED <<serverVars, watermark, viewVars, pending, fetches, roundVars,
                 trail, excused>>

Reconnect ==
  /\ ~conn
  /\ conn' = TRUE
  /\ UNCHANGED <<serverVars, news, watermark, viewVars, pending, fetches,
                 roundVars, breaks, trail, ghostVars>>

Poll ==
  /\ stream = "off"
  /\ Cardinality(fetches) < MaxFetches
  /\ fetches' = fetches \cup {Ask("poll", active, Highest(list))}
  /\ UNCHANGED <<serverVars, busVars, viewVars, pending, roundVars, breaks,
                 trail, ghostVars>>

-----------------------------------------------------------------------------
(* Fetches.                                                                 *)

\* The end of runStream: the events that waited are handled.
Settle(shown, inFlight) ==
  /\ stream' = "off" /\ tape' = <<>> /\ bubble' = "none" /\ source' = None
  /\ pending' = {}
  /\ fetches' = inFlight \cup Hydrate(pending, shown)

\* Mutant: the chat is not looked at again when the answer comes.
LandsAnywhere(f) ==
  /\ f.read
  /\ f.kind \in {"hydrate", "poll"}
  /\ fetches' = fetches \ {f}
  /\ IF f.rows # {}
     THEN list' = Merge(f.rows) /\ Track(list', {})
     ELSE UNCHANGED <<list, ghostVars>>
  /\ UNCHANGED <<serverVars, busVars, active, unopened, strayed, pending, roundVars,
                 breaks, trail>>

Lands(f) ==
  /\ f.read
  /\ f.kind \in {"hydrate", "poll"}
  /\ fetches' = fetches \ {f}
  /\ IF f.chat = active /\ f.rows # {}
     THEN list' = Merge(f.rows) /\ Track(list', {})
     ELSE UNCHANGED <<list, ghostVars>>
  /\ UNCHANGED <<serverVars, busVars, active, unopened, strayed, pending, roundVars,
                 breaks, trail>>

\* The whole chat replaces the list, the placeholder of a reply included.
OpenLands(f) ==
  /\ f.read
  /\ f.kind \in {"open", "gone"}
  /\ IF f.chat = active
     THEN /\ list' = Only(f.rows) /\ Track(list', {})
          /\ unopened' = FALSE /\ strayed' = {}
     ELSE UNCHANGED <<list, ghostVars, unopened, strayed>>
  /\ IF f.kind = "gone"
     THEN Settle(list', fetches \ {f})
     ELSE /\ fetches' = fetches \ {f}
          /\ bubble' = IF f.chat = active /\ bubble = "shown" THEN "wiped"
                       ELSE bubble
          /\ UNCHANGED <<pending, stream, tape, source>>
  /\ UNCHANGED <<serverVars, busVars, active, breaks, trail>>

\* Nobody asks again for the rows of a fetch that failed.
Fails(f) ==
  /\ breaks < MaxBreaks
  /\ breaks' = breaks + 1
  /\ IF f.kind = "gone"
     THEN Settle(list, fetches \ {f})
     ELSE fetches' = fetches \ {f} /\ UNCHANGED <<pending, roundVars>>
  /\ IF f.kind = "poll" \/ f.chat # active
     THEN UNCHANGED ghostVars
     ELSE Track(list, {i \in RowsOf(active) : i > f.after})
  /\ unopened' = (unopened \/ (f.kind = "open" /\ f.chat = active))
  /\ UNCHANGED <<serverVars, busVars, active, list, strayed, trail>>

-----------------------------------------------------------------------------
(* The tab's own round.                                                     *)

\* runStream: the turn is saved in the chat it is posted to, and the stream
\* opens with user_saved.
Posts(c) ==
  /\ stream = "off"
  /\ Len(rows) + edits < MaxChanges
  /\ rows' = Append(rows, [chat |-> c, ver |-> 0])
  /\ stream' = "on"
  /\ tape' = <<Len(rows) + 1>>
  /\ source' = c
  /\ UNCHANGED <<edits, busVars, viewVars, pending, fetches, bubble, breaks,
                 trail, ghostVars>>

Send == Posts(active)

\* A held send that is retried, and a batch that the end of a stream drains,
\* go to the chat they were typed in.  The stream takes the chat that is open
\* for its own, so its events pass the write-guard.
SendLater == \E c \in Range(trail) \ {active} : Posts(c)

\* A row that the stream paints into the open chat's list.
Paint(i) ==
  /\ list' = [list EXCEPT ![i] = Append(@, 0)]
  /\ strayed' = IF source = active THEN strayed ELSE strayed \cup {i}

UserSaved ==
  /\ stream = "on"
  /\ bubble = "none"
  /\ tape # <<>>
  /\ Paint(Head(tape))
  /\ tape' = <<>>
  /\ Track(list', {})
  /\ UNCHANGED <<serverVars, busVars, active, unopened, pending, fetches, stream,
                 bubble, source, breaks, trail>>

SpeakerStart ==
  /\ stream = "on"
  /\ bubble = "none" /\ tape = <<>>
  /\ bubble' = "shown"
  /\ UNCHANGED <<serverVars, busVars, viewVars, pending, fetches, stream, tape,
                 source, breaks, trail, ghostVars>>

\* A reply is saved, and its speaker_end is sent.
ReplySaved ==
  /\ stream = "on"
  /\ bubble # "none" /\ tape = <<>>
  /\ Len(rows) + edits < MaxChanges
  /\ rows' = Append(rows, [chat |-> source, ver |-> 0])
  /\ tape' = <<Len(rows) + 1>>
  /\ UNCHANGED <<edits, busVars, viewVars, pending, fetches, stream, bubble,
                 source, breaks, trail, ghostVars>>

\* speaker_end puts the row in its placeholder's place, if that is there.
SpeakerEnd ==
  /\ stream = "on"
  /\ bubble # "none" /\ tape # <<>>
  /\ IF bubble = "shown" THEN Paint(Head(tape)) ELSE UNCHANGED <<list, strayed>>
  /\ Track(list', {})
  /\ tape' = <<>> /\ bubble' = "none"
  /\ UNCHANGED <<serverVars, busVars, active, unopened, pending, fetches, stream,
                 source, breaks, trail>>

\* The round is over, was stopped, or failed.
RoundEnds ==
  /\ stream = "on"
  /\ Settle(list, fetches)
  /\ UNCHANGED <<serverVars, busVars, viewVars, breaks, trail, ghostVars>>

\* The connection was lost, and the round is no more when the tab is back; or
\* it is sought in the chat that is open, which has no such round.
RoundGone ==
  /\ stream = "on"
  /\ stream' = "gone" /\ tape' = <<>> /\ source' = None
  /\ fetches' = fetches \cup {Ask("gone", active, 0)}
  /\ UNCHANGED <<serverVars, busVars, viewVars, pending, bubble, breaks,
                 trail, ghostVars>>

CutWakes ==
  /\ stream = "cut"
  /\ Settle(list, fetches)
  /\ UNCHANGED <<serverVars, busVars, viewVars, breaks, trail, ghostVars>>

-----------------------------------------------------------------------------

\* selectChat.  The old list stays until the chat is fetched.  A stream that
\* waits to re-attach notices the abort later.
SelectChat(c) ==
  /\ c # active
  /\ Len(trail) < MaxSwitches
  /\ trail' = Append(trail, active)
  /\ active' = c
  /\ \/ /\ stream = "on"
        /\ stream' \in {"off", "cut"}
        /\ pending' = IF stream' = "off" THEN {} ELSE pending
        /\ tape' = <<>> /\ bubble' = "none" /\ source' = None
     \/ /\ stream # "on"
        /\ UNCHANGED <<pending, roundVars>>
  /\ fetches' = fetches \cup {Ask("open", c, 0)}
  /\ unopened' = FALSE
  /\ UNCHANGED <<serverVars, busVars, list, strayed, breaks, ghostVars>>

-----------------------------------------------------------------------------

Server ==
  \/ \E c \in Chats : RowInserted(c)
  \/ \E i \in DOMAIN rows : Labelled(i)
  \/ \E f \in fetches : Read(f)

Bus == NewMessage \/ ConnectionBreaks \/ Reconnect \/ Poll
         \/ \E i \in news : MessageUpdate(i)

Answers == \E f \in fetches : Lands(f) \/ OpenLands(f) \/ Fails(f)

Round == \/ UserSaved \/ SpeakerStart \/ ReplySaved \/ SpeakerEnd
         \/ RoundEnds \/ RoundGone \/ CutWakes

Person == \/ Send \/ SendLater \/ \E c \in Chats : SelectChat(c)
          \/ \E i \in DOMAIN rows : Reassign(i)

Next == Server \/ Bus \/ Answers \/ Round \/ Person

Spec == Init /\ [][Next]_vars

-----------------------------------------------------------------------------
(* Properties.                                                              *)

\* A fetch whose answer is made, or will be, from row i as it now is.  The
\* poll is not counted on: it is for what comes without an event.
Brings(f, i) ==
  /\ f.kind # "poll"
  /\ f.chat = active /\ rows[i].chat = active /\ i > f.after
  /\ f.read => \E v \in Vers : <<i, v>> \in f.rows

Fresh(f, i) == Brings(f, i) /\ (f.read => <<i, rows[i].ver>> \in f.rows)

Opening == \E f \in fetches : f.kind = "open" /\ f.chat = active

\* No row of the open chat is passed over, poll or no poll.  It is in the
\* list, or its event is to come or waits, or a fetch will bring it; or a
\* fetch for it failed, or the late answer of another removed it.
NothingMissed ==
  \A i \in RowsOf(active) :
    \/ Shown(i)
    \/ i > watermark
    \/ i \in pending
    \/ \E f \in fetches : Brings(f, i)
    \/ i \in excused

\* A label the list shows is the newest, or the tab will learn of the newer
\* one; or its event was lost with the connection, its fetch failed, or an
\* older answer landed after a newer.
LabelsFresh ==
  \A i \in RowsOf(active) : Shown(i) =>
    \/ Newest(i, list)
    \/ i \in news \/ i \in pending
    \/ i > watermark
    \/ \E f \in fetches : Fresh(f, i)
    \/ i \in dull

\* Rows of another chat are in the list only until the open chat's answer
\* comes, or when it failed; or a stream painted them there that was posted to
\* another chat, and the open chat has not been fetched since.
NoStrangers ==
  \A i \in DOMAIN rows :
    Shown(i) /\ rows[i].chat # active => Opening \/ unopened \/ i \in strayed
=============================================================================
