----------------------------- MODULE Reflection -----------------------------
(* The chat-side pass over the chats of one project: chat_memory.py, run    *)
(* by post_round_reflect_job after a round and by leave_chat_job.           *)
(*                                                                          *)
(* A pass reads the chat and its rows once.  It then asks a model three     *)
(* times: for the rolling summary, for the project's notes (leave only)     *)
(* and for a title.  What it writes after each answer it made from what it  *)
(* read before.  Passes overlap.                                            *)
(*                                                                          *)
(* A row is its number in its chat.  A summary, and the project's notes,    *)
(* are the set of the rows that went into them.                             *)
EXTENDS Integers, FiniteSets

CONSTANTS
  Chats,      \* the chats of the project
  Passes,     \* the passes, each once
  MaxRows,    \* bound: rows of a chat
  Keep,       \* cfg.keep_recent_messages
  MaxRenames  \* bound: renames

VARIABLES
  rows,     \* the number of rows of each chat
  summary,  \* chats.summary and summary_upto
  title,    \* who titled a chat, and title_upto
  notes,    \* projects.memory
  noted,    \* chats.distilled_upto
  pc, kind, chatOf,
  snap,     \* the chat as the pass read it
  seen,     \* the number of rows the pass read
  proj,     \* projects.memory as the pass read it
  renames,
  raced,    \* passes that saw another write the notes since they read them
  dropped   \* noted rows that a pass of `raced` wrote over

chatVars  == <<rows, summary, title, notes, noted, renames>>
passVars  == <<kind, chatOf, snap, seen>>
ghostVars == <<raced, dropped>>
vars == <<chatVars, pc, passVars, proj, ghostVars>>

Ids     == 1..MaxRows
Summary == [of : SUBSET Ids, upto : 0..MaxRows]
Title   == [by : {"first", "model", "person"}, upto : -1..MaxRows]
Snap    == [summary : Summary, title : Title, noted : 0..MaxRows]

TypeOK ==
  /\ rows \in [Chats -> 0..MaxRows]
  /\ summary \in [Chats -> Summary] /\ title \in [Chats -> Title]
  /\ notes \subseteq Chats \X Ids /\ noted \in [Chats -> 0..MaxRows]
  /\ pc \in [Passes -> {"idle", "fold", "project", "notes", "title", "done"}]
  /\ kind \in [Passes -> {"round", "leave"}]
  /\ chatOf \in [Passes -> Chats]
  /\ snap \in [Passes -> Snap] /\ seen \in [Passes -> 0..MaxRows]
  /\ proj \in [Passes -> SUBSET (Chats \X Ids)]
  /\ renames \in 0..MaxRenames
  /\ raced \subseteq Passes /\ dropped \subseteq Chats \X Ids

Row(c) == [summary |-> summary[c], title |-> title[c], noted |-> noted[c]]

Init ==
  /\ rows = [c \in Chats |-> 0]
  /\ summary = [c \in Chats |-> [of |-> {}, upto |-> 0]]
  /\ title = [c \in Chats |-> [by |-> "first", upto |-> 0]]
  /\ notes = {} /\ noted = [c \in Chats |-> 0]
  /\ pc = [p \in Passes |-> "idle"]
  /\ kind = [p \in Passes |-> "round"]
  /\ chatOf \in [Passes -> Chats]
  /\ snap = [p \in Passes |-> Row(chatOf[p])]
  /\ seen = [p \in Passes |-> 0]
  /\ proj = [p \in Passes |-> {}]
  /\ renames = 0 /\ raced = {} /\ dropped = {}

-----------------------------------------------------------------------------

RowLands(c) ==
  /\ rows[c] < MaxRows
  /\ rows' = [rows EXCEPT ![c] = @ + 1]
  /\ UNCHANGED <<summary, title, notes, noted, renames, pc, passVars, proj,
                 ghostVars>>

Rename(c) ==
  /\ renames < MaxRenames
  /\ renames' = renames + 1
  /\ title' = [title EXCEPT ![c] = [by |-> "person", upto |-> -1]]
  /\ UNCHANGED <<rows, summary, notes, noted, pc, passVars, proj, ghostVars>>

Start(p) ==
  /\ pc[p] = "idle"
  /\ kind' \in {[kind EXCEPT ![p] = k] : k \in {"round", "leave"}}
  /\ snap' = [snap EXCEPT ![p] = Row(chatOf[p])]
  /\ seen' = [seen EXCEPT ![p] = rows[chatOf[p]]]
  /\ pc' = [pc EXCEPT ![p] = "fold"]
  /\ UNCHANGED <<chatVars, chatOf, proj, ghostVars>>

AfterFold(p) ==
  pc' = [pc EXCEPT ![p] = IF kind[p] = "leave" THEN "project" ELSE "title"]

\* Mutant: the watermark covers the rows that were kept, too.
FoldsPast(p) ==
  [of |-> snap[p].summary.of \cup (snap[p].summary.upto + 1)..(seen[p] - Keep),
   upto |-> seen[p]]

\* The summary that folds in all but the last rows of what the pass read.
Folded(p) ==
  [of |-> snap[p].summary.of \cup (snap[p].summary.upto + 1)..(seen[p] - Keep),
   upto |-> seen[p] - Keep]

\* Heavy enough to fold, and the model kept the speakers' tags.
Fold(p) ==
  /\ pc[p] = "fold"
  /\ seen[p] - snap[p].summary.upto > Keep
  /\ summary' = [summary EXCEPT ![chatOf[p]] = Folded(p)]
  /\ AfterFold(p)
  /\ UNCHANGED <<rows, title, notes, noted, renames, passVars, proj, ghostVars>>

\* Not heavy enough, no model, or a summary that lost the tags.
NoFold(p) ==
  /\ pc[p] = "fold"
  /\ AfterFold(p)
  /\ UNCHANGED <<chatVars, passVars, proj, ghostVars>>

ReadProject(p) ==
  /\ pc[p] = "project"
  /\ proj' = [proj EXCEPT ![p] = notes]
  /\ raced' = raced \ {p}
  /\ pc' = [pc EXCEPT ![p] = "notes"]
  /\ UNCHANGED <<chatVars, passVars, dropped>>

NewFor(p) == {<<chatOf[p], i>> : i \in (snap[p].noted + 1)..seen[p]}

\* Mutant: the notes are made anew from what is new.
NotesAnew(p) ==
  /\ pc[p] = "notes"
  /\ NewFor(p) # {}
  /\ notes' = NewFor(p)
  /\ noted' = [noted EXCEPT ![chatOf[p]] = seen[p]]
  /\ raced' = raced \cup {q \in Passes \ {p} : pc[q] = "notes"}
  /\ dropped' = (IF p \in raced THEN dropped \cup (notes \ notes') ELSE dropped)
                  \ notes'
  /\ pc' = [pc EXCEPT ![p] = "title"]
  /\ UNCHANGED <<rows, summary, title, renames, passVars, proj>>

\* Both writes are one commit.
WriteNotes(p) ==
  /\ pc[p] = "notes"
  /\ NewFor(p) # {}
  /\ notes' = proj[p] \cup NewFor(p)
  /\ noted' = [noted EXCEPT ![chatOf[p]] = seen[p]]
  /\ raced' = raced \cup {q \in Passes \ {p} : pc[q] = "notes"}
  /\ dropped' = (IF p \in raced THEN dropped \cup (notes \ notes') ELSE dropped)
                  \ notes'
  /\ pc' = [pc EXCEPT ![p] = "title"]
  /\ UNCHANGED <<rows, summary, title, renames, passVars, proj>>

\* Nothing new, or no model.
NoNotes(p) ==
  /\ pc[p] = "notes"
  /\ pc' = [pc EXCEPT ![p] = "title"]
  /\ UNCHANGED <<chatVars, passVars, proj, ghostVars>>

\* maybe_title_chat: the lock is the one the pass read.
Retitle(p) ==
  /\ pc[p] = "title"
  /\ snap[p].title.upto >= 0
  /\ seen[p] > snap[p].title.upto
  /\ title' = [title EXCEPT ![chatOf[p]] = [by |-> "model", upto |-> seen[p]]]
  /\ pc' = [pc EXCEPT ![p] = "done"]
  /\ UNCHANGED <<rows, summary, notes, noted, renames, passVars, proj, ghostVars>>

NoTitle(p) ==
  /\ pc[p] = "title"
  /\ pc' = [pc EXCEPT ![p] = "done"]
  /\ UNCHANGED <<chatVars, passVars, proj, ghostVars>>

Next ==
  \/ \E c \in Chats : RowLands(c) \/ Rename(c)
  \/ \E p \in Passes :
       \/ Start(p) \/ Fold(p) \/ NoFold(p) \/ ReadProject(p)
       \/ WriteNotes(p) \/ NoNotes(p) \/ Retitle(p) \/ NoTitle(p)

Spec == Init /\ [][Next]_vars

-----------------------------------------------------------------------------
(* Properties.                                                              *)

\* What a model is no longer shown is in the summary, and nothing is told
\* twice, whichever passes overlapped and in whatever order they wrote: the
\* rows up to summary_upto, and no others, went into the summary beside it.
SummaryCovers ==
  \A c \in Chats : summary[c].of = 1..summary[c].upto

\* A row the watermark calls noted is in the project's notes, unless another
\* pass of the project wrote between the read and the write of a pass.
NotesKept ==
  \A c \in Chats : \A i \in 1..noted[c] : <<c, i>> \in notes \cup dropped

\* A chat the person has renamed is never titled again (chat_memory.py:168).
RenameSticks ==
  [][\A c \in Chats : title[c].by = "person" => title'[c].by = "person"]_vars
=============================================================================
