------------------------------- MODULE MCTab -------------------------------
(* The two halves of a browser tab, each explored by itself: its sends      *)
(* (SendClient) and its live view (LiveTab).  The other half rests in its   *)
(* initial state.                                                           *)
EXTENDS SendClient, TLC

CONSTANTS MaxChanges, MaxFetches, MaxSwitches

ASSUME ChangesAreNat == MaxChanges \in Nat

VARIABLES half, dbRows, conn, news, openChat, list, watermark, pending,
          fetches, stream, tape, bubble, edits, cuts, trail, excused, dull,
          unopened, strayed, source

View == INSTANCE LiveTab
  WITH rows <- dbRows, active <- openChat, breaks <- cuts

viewState == <<dbRows, conn, news, openChat, list, watermark, pending, fetches,
               stream, tape, bubble, edits, cuts, trail, excused, dull,
               unopened, strayed, source>>

MCInit ==
  /\ half \in {"sends", "view"}
  /\ Init /\ View!Init
  /\ openChat = active

MCNext ==
  \/ half = "sends" /\ Next /\ UNCHANGED <<half, viewState>>
  \/ half = "view" /\ View!Next /\ UNCHANGED <<half, vars>>

MCSpec == MCInit /\ [][MCNext]_<<half, vars, viewState>>

\* Chats, and turns, are interchangeable.
Symmetry == Permutations(Turns) \cup Permutations(Chats)

\* selectChat and handleEvent: another chat's rows show only until the chat
\* that is open has its answer, or if a send of that other chat's painted them.
NoStrangers == View!NoStrangers

\* useEventStream.js: the tab shows each row of the open chat that its
\* watermark has passed, or a fetch that will bring it is under way.
NothingMissed == View!NothingMissed

\* A label the server changed shows, or is on its way to the tab.
LabelsFresh == View!LabelsFresh
=============================================================================
