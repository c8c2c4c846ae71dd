----------------------------- MODULE MCRecords -----------------------------
(* What the server writes down beside the messages, each part explored by   *)
(* itself: the room of a chat (RoomState) and the notes, summaries and      *)
(* titles of a project (Reflection).  The other part rests in its initial   *)
(* state.                                                                   *)
EXTENDS RoomState, TLC

CONSTANTS Chats, Passes, MaxRows, Keep, MaxRenames

ASSUME NotesAssumption ==
  MaxRows \in Nat /\ Keep \in Nat /\ MaxRenames \in Nat

VARIABLES part, rows, summary, title, notes, noted, pc, kind, chatOf, snap,
          seen, proj, renames, raced, dropped

noteState == <<rows, summary, title, notes, noted, pc, kind, chatOf, snap,
               seen, proj, renames, raced, dropped>>

Notes == INSTANCE Reflection

MCInit == part \in {"room", "notes"} /\ Init /\ Notes!Init

MCNext ==
  \/ part = "room" /\ Next /\ UNCHANGED <<part, noteState>>
  \/ part = "notes" /\ Notes!Next /\ UNCHANGED <<part, vars>>

MCSpec == MCInit /\ [][MCNext]_<<part, vars, noteState>>

\* Workers, guests whose voice is known, chats and passes are interchangeable.
Symmetry ==
  Permutations(Workers) \cup Permutations(Learnt)
    \cup Permutations(Chats) \cup Permutations(Passes)

\* A summary covers every row up to its watermark, and no other.
SummaryCovers == Notes!SummaryCovers

\* A noted row stays noted: only passes that overlapped may write over it.
NotesKept == Notes!NotesKept
=============================================================================
