---------------------------- MODULE MemoryHandoff ----------------------------
(* How the rows of one chat reach the memory service: leave_chat_job and    *)
(* reflection_sweep_loop of engine.py, handoff_chat, its reconcile, ingest  *)
(* and probe of memory_client.py, the seeding of importer.py, and           *)
(* discard_turn of routers/chats.py.                                        *)
(*                                                                          *)
(* chats.ingested_upto is the only record of what was handed over.  Passes  *)
(* of one chat overlap: leaving starts one and does not wait, the sweep     *)
(* and an import run their own.  The service comes and goes, loses an       *)
(* answer, and may be restored from a backup.                               *)
(*                                                                          *)
(* A row is its id; the service keeps one copy of an id (external_id).  The *)
(* service itself is external, and is what these calls make of it.          *)
EXTENDS Naturals, Sequences, FiniteSets, FiniteSetsExt

CONSTANTS
  Others,     \* passes that leaving the chat or an import starts, each once
  Sweep,      \* the sweep's pass, again and again
  Modern,     \* whether the service has the watermark route (contract 1.4)
  MaxRows,    \* bound: rows
  MaxFaults,  \* bound: outages, lost answers, refused calls, restarts
  MaxTurns    \* bound: restores, and flips of the memory toggle

ASSUME HandoffAssumption ==
  /\ Sweep \notin Others
  /\ Modern \in BOOLEAN
  /\ {MaxRows, MaxFaults, MaxTurns} \subseteq Nat

Passes == Others \cup {Sweep}
Ids    == 1..MaxRows

VARIABLES
  rows,      \* the kinds of the chat's rows: "said", or "note" (spend_note)
  gone,      \* rows the owner discarded
  enabled,   \* chats.memory_enabled
  upto,      \* chats.ingested_upto
  held,      \* the rows the service holds
  up,        \* whether the service answers
  avail,     \* the cached probe: "yes", "no", or "old" when its time is over
  writes,    \* MemoryClient.writes of the chat
  pc,        \* where a pass is
  seeding,   \* the passes that are imports
  on,        \* the toggle as the pass read it
  mark,      \* the reconcile's `current`, then its `target`
  hand,      \* msgs
  faults, turns,
  checked,   \* passes that began their reconcile, had it answered, sent what
             \* they read, and saw nobody else change the watermark or the
             \* archive since
  excused,   \* rows passed by a watermark that nobody sent, or restored away
  buried     \* the part of them that a row above hides from the reconcile

chatVars    == <<rows, gone, enabled>>
serviceVars == <<held, up>>
localVars   == <<seeding, on, mark, hand>>
boundVars   == <<faults, turns>>
ghostVars   == <<checked, excused, buried>>
vars == <<chatVars, upto, serviceVars, avail, writes, pc, localVars,
          boundVars, ghostVars>>

Marks  == 0..MaxRows
States == {"idle", "pass", "begin", "mark", "ask", "wind", "read", "send",
           "advance", "distill", "done"}

TypeOK ==
  /\ rows \in Seq({"said", "note"}) /\ Len(rows) <= MaxRows
  /\ gone \subseteq DOMAIN rows
  /\ enabled \in BOOLEAN
  /\ upto \in 0..Len(rows)
  /\ held \subseteq DOMAIN rows
  /\ up \in BOOLEAN
  /\ avail \in {"yes", "no", "old"}
  /\ writes \in {"none", "running", "ok", "failed"}
  /\ pc \in [Passes -> States]
  /\ seeding \subseteq Others
  /\ on \in [Passes -> BOOLEAN]
  /\ mark \in [Passes -> 0..Len(rows)]
  /\ hand \in [Passes -> SUBSET DOMAIN rows]
  /\ \A p \in Passes : pc[p] \in {"send", "advance"} => hand[p] # {}
  /\ faults \in 0..MaxFaults /\ turns \in 0..MaxTurns
  /\ checked \subseteq Passes
  /\ excused \subseteq DOMAIN rows /\ buried \subseteq excused

Init ==
  /\ rows = <<>> /\ gone = {} /\ enabled = TRUE /\ upto = 0
  /\ held = {} /\ up = TRUE
  /\ avail = "old" /\ writes = "none"
  /\ pc = [p \in Passes |-> "idle"]
  /\ seeding = {}
  /\ on = [p \in Passes |-> FALSE]
  /\ mark = [p \in Passes |-> 0]
  /\ hand = [p \in Passes |-> {}]
  /\ faults = 0 /\ turns = 0
  /\ checked = {} /\ excused = {} /\ buried = {}

-----------------------------------------------------------------------------
(* The chat and the service.                                                *)

Said == {i \in DOMAIN rows : rows[i] = "said"}
Kept == DOMAIN rows \ gone
Highest(S) == Max({0} \cup S)

\* What ingest_rows gives a pass; an import reads the rows as they are.
RowsFor(p) ==
  {i \in Kept : i > upto /\ (p \in seeding \/ i \in Said)}

RowLands(kind) ==
  /\ Len(rows) < MaxRows
  /\ rows' = Append(rows, kind)
  /\ UNCHANGED <<gone, enabled, upto, serviceVars, avail, writes, pc, localVars,
                 boundVars, ghostVars>>

\* discard_turn: `ingested` is what the watermark says.
Discard(i) ==
  /\ i \in Said \ gone
  /\ gone' = gone \cup {i}
  /\ UNCHANGED <<rows, enabled, upto, serviceVars, avail, writes, pc, localVars,
                 boundVars, ghostVars>>

Toggle ==
  /\ turns < MaxTurns
  /\ turns' = turns + 1
  /\ enabled' = ~enabled
  /\ UNCHANGED <<rows, gone, upto, serviceVars, avail, writes, pc, localVars,
                 faults, ghostVars>>

ServiceDown ==
  /\ up
  /\ faults < MaxFaults
  /\ faults' = faults + 1
  /\ up' = FALSE
  /\ UNCHANGED <<chatVars, upto, held, avail, writes, pc, localVars,
                 turns, ghostVars>>

ServiceUp ==
  /\ ~up
  /\ up' = TRUE
  /\ UNCHANGED <<chatVars, upto, held, avail, writes, pc, localVars,
                 boundVars, ghostVars>>

\* The archive goes back to what it held when its last row was k.
Restore(k) ==
  /\ turns < MaxTurns
  /\ \E i \in held : i > k
  /\ turns' = turns + 1
  /\ held' = {i \in held : i <= k}
  /\ excused' = excused \cup (held \ held')
  /\ checked' = {}
  /\ UNCHANGED <<chatVars, upto, up, avail, writes, pc, localVars,
                 faults, buried>>

\* PROBE_TTL is over.
Expire ==
  /\ avail # "old"
  /\ avail' = "old"
  /\ UNCHANGED <<chatVars, upto, serviceVars, writes, pc, localVars,
                 boundVars, ghostVars>>

\* probe(): the cached answer, or the service's.
Answers == IF avail = "old" THEN up ELSE avail = "yes"
Probe   == avail' = IF Answers THEN "yes" ELSE "no"

\* A restart of this process: its passes go with it.
Restart ==
  /\ faults < MaxFaults
  /\ faults' = faults + 1
  /\ pc' = [p \in Passes |-> IF pc[p] = "idle" THEN "idle"
                             ELSE IF p = Sweep THEN "idle" ELSE "done"]
  /\ seeding' = {}
  /\ on' = [p \in Passes |-> FALSE]
  /\ mark' = [p \in Passes |-> 0]
  /\ hand' = [p \in Passes |-> {}]
  /\ writes' = "none" /\ avail' = "old" /\ checked' = {}
  /\ UNCHANGED <<chatVars, upto, serviceVars, turns, excused, buried>>

-----------------------------------------------------------------------------
(* A pass.                                                                  *)

Goto(p, s) == pc' = [pc EXCEPT ![p] = s]

\* Where a pass ends; the sweep comes round again.
Ends(p) ==
  /\ Goto(p, IF p = Sweep THEN "idle" ELSE "done")
  /\ seeding' = seeding \ {p}
  /\ on' = [on EXCEPT ![p] = FALSE]
  /\ mark' = [mark EXCEPT ![p] = 0]
  /\ hand' = [hand EXCEPT ![p] = {}]

\* The row of the chat is read, and the chat-side pass begins.
Leave(p) ==
  /\ pc[p] = "idle"
  /\ p \in Others
  /\ Goto(p, "pass")
  /\ on' = [on EXCEPT ![p] = enabled]
  /\ UNCHANGED <<chatVars, upto, serviceVars, avail, writes, seeding, mark, hand,
                 boundVars, ghostVars>>

\* Mutant: the last row does not make the chat a candidate.
SweepLags ==
  /\ pc[Sweep] = "idle"
  /\ enabled
  /\ Highest(Kept) > upto + 1
  /\ Goto(Sweep, "pass")
  /\ on' = [on EXCEPT ![Sweep] = TRUE]
  /\ UNCHANGED <<chatVars, upto, serviceVars, avail, writes, seeding, mark,
                 hand, boundVars, ghostVars>>

\* sweep_candidates: the chat has a row past its watermark.
SweepComes ==
  /\ pc[Sweep] = "idle"
  /\ enabled
  /\ Highest(Kept) > upto
  /\ Goto(Sweep, "pass")
  /\ on' = [on EXCEPT ![Sweep] = TRUE]
  /\ UNCHANGED <<chatVars, upto, serviceVars, avail, writes, seeding, mark, hand,
                 boundVars, ghostVars>>

\* The chat-side pass is over, with its calls to a model.
PassOver(p) ==
  /\ pc[p] = "pass"
  /\ IF on[p] THEN Goto(p, "begin") /\ UNCHANGED localVars ELSE Ends(p)
  /\ UNCHANGED <<chatVars, upto, serviceVars, avail, writes, boundVars,
                 ghostVars>>

\* handoff_chat.
Begin(p) ==
  /\ pc[p] = "begin"
  /\ Probe
  /\ IF Answers
     THEN /\ writes' = "running"
          /\ Goto(p, IF Modern THEN "mark" ELSE "read")
          /\ UNCHANGED localVars
     ELSE writes' = "none" /\ Ends(p)
  /\ UNCHANGED <<chatVars, upto, serviceVars, boundVars, ghostVars>>

ReadMark(p) ==
  /\ pc[p] = "mark"
  /\ mark' = [mark EXCEPT ![p] = upto]
  /\ Goto(p, "ask")
  /\ checked' = checked \cup {p}
  /\ UNCHANGED <<chatVars, upto, serviceVars, avail, writes, seeding, on, hand,
                 boundVars, excused, buried>>

\* Mutant: the lower watermark is not written.
WindForgotten(p) ==
  /\ pc[p] = "wind"
  /\ checked' = checked \cap {p}
  /\ Goto(p, "read")
  /\ UNCHANGED <<chatVars, upto, serviceVars, avail, writes, localVars,
                 boundVars, excused, buried>>

\* Mutant: an archive that is empty, or absent, is taken for no answer.
AskNonEmpty(p) ==
  /\ pc[p] = "ask"
  /\ up
  /\ IF held # {} /\ Highest(held) < mark[p]
     THEN mark' = [mark EXCEPT ![p] = Highest(held)] /\ Goto(p, "wind")
     ELSE UNCHANGED mark /\ Goto(p, "read")
  /\ UNCHANGED <<chatVars, upto, serviceVars, avail, writes, seeding, on, hand,
                 boundVars, ghostVars>>

\* held_watermark: wind back to what the service holds, if that is less.
AskHeld(p) ==
  /\ pc[p] = "ask"
  /\ up
  /\ IF Highest(held) < mark[p]
     THEN mark' = [mark EXCEPT ![p] = Highest(held)] /\ Goto(p, "wind")
     ELSE UNCHANGED mark /\ Goto(p, "read")
  /\ UNCHANGED <<chatVars, upto, serviceVars, avail, writes, seeding, on, hand,
                 boundVars, ghostVars>>

\* The route does not answer: the handoff runs as it always has.
AskInVain(p) ==
  /\ pc[p] = "ask"
  /\ IF up THEN faults < MaxFaults /\ faults' = faults + 1
     ELSE UNCHANGED faults
  /\ Goto(p, "read")
  /\ checked' = checked \ {p}
  /\ UNCHANGED <<chatVars, upto, serviceVars, avail, writes, localVars,
                 turns, excused, buried>>

WindBack(p) ==
  /\ pc[p] = "wind"
  /\ upto' = mark[p]
  /\ checked' = checked \cap {p}
  /\ Goto(p, "read")
  /\ UNCHANGED <<chatVars, serviceVars, avail, writes, localVars,
                 boundVars, excused, buried>>

ReadRows(p) ==
  /\ pc[p] = "read"
  /\ hand' = [hand EXCEPT ![p] = RowsFor(p)]
  /\ Goto(p, IF RowsFor(p) # {} THEN "send"
             ELSE IF p \in seeding THEN "done" ELSE "distill")
  /\ UNCHANGED <<chatVars, upto, serviceVars, avail, writes, seeding, on, mark,
                 boundVars, ghostVars>>

\* A gap below a row the service holds is out of the reconcile's sight.
Bury(p) ==
  buried' = (buried \cap excused') \cup
              {i \in excused' : p \notin checked /\ \E h \in held' : h > i}

Take(p) ==
  /\ held' = held \cup hand[p]
  /\ excused' = excused \ held'
  /\ Bury(p)

\* ingest, when its own probe says yes and the service takes the rows.
Send(p) ==
  /\ pc[p] = "send"
  /\ Answers /\ up /\ Probe
  /\ Take(p)
  /\ checked' = checked \cap {p}
  /\ Goto(p, "advance")
  /\ UNCHANGED <<chatVars, upto, up, writes, localVars, boundVars>>

\* Its probe says no: it returns None, and the watermark moves all the same.
SendNothing(p) ==
  /\ pc[p] = "send"
  /\ ~Answers /\ Probe
  /\ checked' = checked \ {p}
  /\ Goto(p, "advance")
  /\ UNCHANGED <<chatVars, upto, serviceVars, writes, localVars, boundVars>>
  /\ excused' = excused \cup (hand[p] \ held)
  /\ Bury(p)

\* Mutant: ingest catches its own error.
SendSwallows(p) ==
  /\ pc[p] = "send"
  /\ Answers /\ Probe
  /\ ~up
  /\ Goto(p, "advance")
  /\ UNCHANGED <<chatVars, upto, serviceVars, writes, localVars, boundVars,
                 ghostVars>>

\* The call raises; the service may have taken the rows.
SendRaises(p) ==
  /\ pc[p] = "send"
  /\ Answers /\ Probe
  /\ \/ ~up /\ UNCHANGED <<faults, held, excused, buried, checked>>
     \/ /\ up /\ faults < MaxFaults
        /\ faults' = faults + 1
        /\ Take(p)
        /\ checked' = {}
  /\ writes' = IF p \in seeding THEN writes ELSE "failed"
  /\ Ends(p)
  /\ UNCHANGED <<chatVars, upto, up, turns>>

\* _advance: whatever the watermark has become meanwhile.
Advance(p) ==
  /\ pc[p] = "advance"
  /\ upto' = Highest(hand[p])
  /\ checked' = checked \cap {p}
  /\ IF p \in seeding THEN Ends(p)
     ELSE Goto(p, "distill") /\ UNCHANGED localVars
  /\ UNCHANGED <<chatVars, serviceVars, avail, writes, boundVars, excused,
                 buried>>

Distill(p) ==
  /\ pc[p] = "distill"
  /\ \/ up /\ writes' = "ok" /\ UNCHANGED faults
     \/ ~up /\ writes' = "failed" /\ UNCHANGED faults
     \/ /\ up /\ faults < MaxFaults
        /\ faults' = faults + 1 /\ writes' = "failed"
  /\ Ends(p)
  /\ UNCHANGED <<chatVars, upto, serviceVars, avail, turns, ghostVars>>

\* An import that topped the chat up goes on to seed the service.
Import(p) ==
  /\ pc[p] = "idle"
  /\ p \in Others
  /\ Probe
  /\ IF Answers THEN Goto(p, "read") /\ seeding' = seeding \cup {p}
     ELSE Goto(p, "done") /\ UNCHANGED seeding
  /\ UNCHANGED <<chatVars, upto, serviceVars, writes, on, mark, hand,
                 boundVars, ghostVars>>

-----------------------------------------------------------------------------

Pass(p) ==
  \/ PassOver(p) \/ Begin(p) \/ ReadMark(p) \/ AskHeld(p) \/ AskInVain(p)
  \/ WindBack(p) \/ ReadRows(p) \/ Send(p) \/ SendNothing(p) \/ SendRaises(p)
  \/ Advance(p) \/ Distill(p)

World ==
  \/ \E kind \in {"said", "note"} : RowLands(kind)
  \/ \E i \in Ids : Discard(i)
  \/ Toggle \/ ServiceDown \/ ServiceUp \/ Expire \/ Restart
  \/ \E k \in Marks : Restore(k)

Next ==
  \/ World \/ SweepComes
  \/ \E p \in Passes : Leave(p) \/ Import(p) \/ Pass(p)

Spec == Init /\ [][Next]_vars

\* The sweep comes round, a pass goes on, an outage ends and a cached probe
\* runs out.  Nobody has to leave a chat, or to import.
Fairness ==
  /\ WF_vars(SweepComes) /\ WF_vars(ServiceUp) /\ WF_vars(Expire)
  /\ \A p \in Passes : WF_vars(Pass(p))

FairSpec == Spec /\ Fairness

-----------------------------------------------------------------------------
(* Properties.                                                              *)

\* What the watermark has passed the service was given: whichever passes
\* overlapped, crashed or wound it back, a row at or below it is held, was
\* discarded, or is one of the named losses.
HandedOn ==
  \A i \in Said \ gone : i <= upto => i \in held \cup excused

\* A gap the reconcile can close stays in its sight, above everything the
\* service holds.  Only a pass that overlapped another, or whose reconcile
\* got no answer, hides one.
GapsShow ==
  \A i \in (excused \cap Said) \ (buried \cup gone) : \A h \in held : h < i

\* A pass whose reconcile was answered, and whom nothing disturbed, has made
\* the archive whole when it comes to its last call: what a restored service
\* lost is there again, but for the gaps that a row above them hides.
ReconcileHeals ==
  \A p \in checked : pc[p] = "distill" =>
    \A i \in Said \ (gone \cup buried) : i <= upto => i \in held

\* A row is handed over in the end, over outages, restarts and overlaps,
\* while the toggle is on.
RowsArrive ==
  \A i \in Ids :
    i \in Said ~> i \in held \cup gone \cup excused \/ ~enabled

\* A row discarded before the watermark passed it never reaches the service
\* (chats.py:347): a pass may have it in hand.
DiscardHolds ==
  [][\A i \in gone : i > upto /\ i \notin held => i \notin held']_vars

\* The watermark moves past the running-cost line with the rest
\* (engine.py:1726): when no pass runs and the sweep has nothing to do, or
\* else a pass will move it.
NotesPass == <>[](enabled => Highest(Kept) <= upto)
=============================================================================
