----------------------------- MODULE RoomState -----------------------------
(* The room of one chat: chats.room_mode and chats.ambient_off, the roster  *)
(* and the open "who is speaking?" asks (room_state.py), and the jobs that  *)
(* write them: a turn's voice pass, an introduction, a departure, a spoken  *)
(* or manual switch, a tap on a label, an ask answered or dismissed.        *)
(*                                                                          *)
(* Jobs run on threads, each with its own connection.  Every statement      *)
(* commits by itself, so a job is a list of calls and a call is one action  *)
(* for each statement: others write between a call's read and its write.    *)
EXTENDS Integers, Sequences, FiniteSets

CONSTANTS
  Workers,  \* the jobs that can be under way at once
  Guests,   \* people who are not the owner
  Learnt,   \* the guests whose voice is known
  Owner,    \* the owner's name
  Stranger, \* a clear voice nobody knows
  Cap,      \* room_roster_max
  MaxNames, \* bound: names in one introduction
  MaxJobs   \* bound: jobs

ASSUME RoomAssumption ==
  /\ IsFiniteSet(Workers) /\ IsFiniteSet(Guests)
  /\ Learnt \subseteq Guests /\ Owner \notin Guests
  /\ Cap \in Nat /\ MaxJobs \in Nat

VARIABLES
  roomOn,    \* chats.room_mode
  soloOff,   \* chats.ambient_off, the owner's "solo mode"
  roster,    \* room_roster, in the order of its ids
  asks,      \* the number of open unknown_voice flags
  script,    \* the calls each job has still to make
  at,        \* how far a job is in the first of them
  saw,       \* what that call has read
  jobs,      \* jobs begun
  overtaken  \* a voice pass had found solo mode unset when it was last set

roomVars == <<roomOn, soloOff, roster, asks>>
jobVars  == <<script, at, saw>>
vars     == <<roomVars, jobVars, jobs, overtaken>>

People == Guests \cup {Owner}
Row    == [name : People, here : BOOLEAN, via : {"owner", "guest"}]

Arm(clear, seats)          == [do |-> "arm", clear |-> clear, seats |-> seats]
Seat(name, capped, answer) ==
  [do |-> "seat", name |-> name, capped |-> capped, answer |-> answer]
Leave(name)                == [do |-> "leave", name |-> name]
Plain(what)                == [do |-> what]
SeatOwner                  == Seat(Owner, FALSE, FALSE)

Call ==
  [do : {"arm"}, clear : BOOLEAN, seats : {"never", "on_arm", "always"}]
    \cup [do : {"seat"}, name : People, capped : BOOLEAN, answer : BOOLEAN]
    \cup [do : {"leave", "answer"}, name : People]
    \cup [do : {"hear"}, name : Guests \cup {Stranger}]
    \cup [do : {"scan"}, names : SUBSET Guests]
    \cup [do : {"place"}, names : SUBSET Guests, seeds : BOOLEAN]
    \cup [do : {"disarm", "ask", "close", "resolve"}]

Nothing == [on |-> FALSE, solo |-> FALSE, row |-> 0, left |-> FALSE]
Saw     == [on : BOOLEAN, solo : BOOLEAN, row : Nat, left : BOOLEAN]

TypeOK ==
  /\ roomOn \in BOOLEAN /\ soloOff \in BOOLEAN
  /\ roster \in Seq(Row) /\ asks \in Nat
  /\ script \in [Workers -> Seq(Call)]
  /\ at \in [Workers -> {"call", "read", "found"}]
  /\ saw \in [Workers -> Saw]
  /\ jobs \in 0..MaxJobs
  /\ overtaken \in BOOLEAN

Present      == {i \in DOMAIN roster : roster[i].here}
Seated       == {roster[i].name : i \in Present}
RowsOf(name) == {i \in DOMAIN roster : roster[i].name = name}
Orders(S)    == {q \in [1..Cardinality(S) -> S] :
                    \A i, j \in DOMAIN q : q[i] = q[j] => i = j}

Doing(w, what, where) ==
  script[w] # <<>> /\ Head(script[w]).do = what /\ at[w] = where

(* The first call of w is over; calls come before the rest of the script. *)
Then(w, calls) ==
  /\ script' = [script EXCEPT ![w] = calls \o Tail(@)]
  /\ at' = [at EXCEPT ![w] = "call"]
  /\ saw' = [saw EXCEPT ![w] = Nothing]

Return(w) == Then(w, <<>>)

GoOn(w, where, what) ==
  /\ at' = [at EXCEPT ![w] = where]
  /\ saw' = [saw EXCEPT ![w] = what]
  /\ UNCHANGED script

Init ==
  /\ roomOn = FALSE /\ soloOff = FALSE /\ roster = <<>> /\ asks = 0
  /\ script = [w \in Workers |-> <<>>]
  /\ at = [w \in Workers |-> "call"]
  /\ saw = [w \in Workers |-> Nothing]
  /\ jobs = 0 /\ overtaken = FALSE

-----------------------------------------------------------------------------
(* What begins a job. *)

Begin(w, call) ==
  /\ script[w] = <<>> /\ jobs < MaxJobs
  /\ script' = [script EXCEPT ![w] = <<call>>]
  /\ jobs' = jobs + 1
  /\ UNCHANGED <<roomVars, at, saw, overtaken>>

VoicePass(w) ==
  \E v \in Guests \cup {Stranger} : Begin(w, [do |-> "hear", name |-> v])

(* With no name, someone was introduced by a relationship alone. *)
Introduction(w) ==
  \E S \in SUBSET Guests :
     Cardinality(S) <= MaxNames /\ Begin(w, [do |-> "scan", names |-> S])

Departure(w) == \E g \in Guests : Begin(w, Leave(g))
Command(w)   == Begin(w, Arm(TRUE, "on_arm"))
ToggleOn(w)  == Begin(w, Arm(TRUE, "always"))
GoSolo(w)    == Begin(w, Plain("disarm"))
Tap(w)       == \E p \in People : Begin(w, Seat(p, FALSE, FALSE))

(* The owner says aloud whose the new voice was. *)
AnswerAsk(w) ==
  asks > 0 /\ \E g \in Guests : Begin(w, [do |-> "answer", name |-> g])

(* The dismissal of an open flag, or a correction of the turn it is about. *)
Dismiss ==
  /\ asks > 0 /\ asks' = asks - 1
  /\ UNCHANGED <<roomOn, soloOff, roster, jobVars, jobs, overtaken>>

-----------------------------------------------------------------------------
(* room_state.arm and room_state.disarm. *)

ReadMode(w) ==
  /\ Doing(w, "arm", "call") \/ Doing(w, "disarm", "call")
  /\ GoOn(w, "read", [Nothing EXCEPT !.on = roomOn])
  /\ UNCHANGED <<roomVars, jobs, overtaken>>

(* A command that was spoken seats the owner once more, from its audio. *)
OwnerSeats(c, flipped) ==
  CASE c.seats = "always"               -> {<<SeatOwner>>}
    [] c.seats = "on_arm" /\ flipped    ->
         {<<SeatOwner>>} \cup IF c.clear THEN {<<SeatOwner, SeatOwner>>} ELSE {}
    [] OTHER                            -> {<<>>}

TurnOn(w) ==
  LET c == Head(script[w])
  IN /\ Doing(w, "arm", "read")
     /\ roomOn' = TRUE
     /\ soloOff' = (soloOff /\ ~c.clear)
     /\ \E calls \in OwnerSeats(c, ~saw[w].on) : Then(w, calls)
     /\ UNCHANGED <<roster, asks, jobs, overtaken>>

(* A pass that has found solo mode unset and may yet arm the room. *)
MayArm(w) ==
  \/ Doing(w, "hear", "read") /\ ~saw[w].solo
  \/ \E i \in DOMAIN script[w] :
        script[w][i].do = "arm" /\ ~script[w][i].clear

TurnOff(w) ==
  /\ Doing(w, "disarm", "read")
  /\ roomOn' = FALSE /\ soloOff' = TRUE
  /\ overtaken' = \E x \in Workers : MayArm(x)
  /\ IF saw[w].on THEN GoOn(w, "found", Nothing) ELSE Return(w)
  /\ UNCHANGED <<roster, asks, jobs>>

(* Everyone present goes, one commit each; then the asks are closed. *)
ClearRoster(w) ==
  /\ Doing(w, "disarm", "found")
  /\ \E q \in Orders(Seated) :
        Then(w, Append([i \in DOMAIN q |-> Leave(q[i])], Plain("resolve")))
  /\ UNCHANGED <<roomVars, jobs, overtaken>>

-----------------------------------------------------------------------------
(* room_state.seat and db.add_room_person. *)

\* Mutant: the cap is forgotten.
RefusedPresent(c) == c.name \in Seated

Refused(c) ==
  \/ c.name \in Seated
  \/ c.capped /\ Cardinality(Present) >= Cap

SeatAsked(w) ==
  /\ Doing(w, "seat", "call")
  /\ IF Refused(Head(script[w])) THEN Return(w) ELSE GoOn(w, "read", Nothing)
  /\ UNCHANGED <<roomVars, jobs, overtaken>>

First(S) == CHOOSE i \in S : \A j \in S : i <= j

(* The row of a name, whether it is there or left; 0 when it has none. *)
FindRow(w) ==
  LET S == RowsOf(Head(script[w]).name)
      i == IF S = {} THEN 0 ELSE First(S)
  IN /\ Doing(w, "seat", "read")
     /\ GoOn(w, "found", [Nothing EXCEPT !.row = i,
                                         !.left = i # 0 /\ ~roster[i].here])
     /\ UNCHANGED <<roomVars, jobs, overtaken>>

TakeSeat(w) ==
  LET c == Head(script[w])
      r == [name |-> c.name, here |-> TRUE,
            via |-> IF c.capped THEN "guest" ELSE "owner"]
  IN /\ Doing(w, "seat", "found")
     /\ roster' = IF saw[w].row = 0 THEN Append(roster, r)
                  ELSE [roster EXCEPT ![saw[w].row] =
                          IF saw[w].left THEN r ELSE [@ EXCEPT !.here = TRUE]]
     /\ Then(w, IF c.answer THEN <<Plain("resolve")>> ELSE <<>>)
     /\ UNCHANGED <<roomOn, soloOff, asks, jobs, overtaken>>

(* db.mark_room_person_left: every row of the name, in one statement. *)
MarkLeft(w) ==
  /\ Doing(w, "leave", "call")
  /\ roster' = [i \in DOMAIN roster |->
                  IF roster[i].name = Head(script[w]).name
                  THEN [roster[i] EXCEPT !.here = FALSE] ELSE roster[i]]
  /\ Return(w)
  /\ UNCHANGED <<roomOn, soloOff, asks, jobs, overtaken>>

-----------------------------------------------------------------------------
(* Asks. *)

\* Mutant: asks are stacked.
AskAnyway(w) == Doing(w, "ask", "call") /\ GoOn(w, "read", Nothing)
                  /\ UNCHANGED <<roomVars, jobs, overtaken>>

(* One open ask at a time: none is raised over another. *)
ReadAsks(w) ==
  /\ Doing(w, "ask", "call")
  /\ IF asks > 0 THEN Return(w) ELSE GoOn(w, "read", Nothing)
  /\ UNCHANGED <<roomVars, jobs, overtaken>>

RaiseAsk(w) ==
  /\ Doing(w, "ask", "read")
  /\ asks' = asks + 1
  /\ Return(w)
  /\ UNCHANGED <<roomOn, soloOff, roster, jobs, overtaken>>

(* All of the chat's, or one by its id, which may have been closed since.   *)
CloseAsks(w) ==
  /\ \/ Doing(w, "resolve", "call") /\ asks' = 0
     \/ Doing(w, "close", "call") /\ asks' \in {asks, asks - 1} \cap Nat
  /\ Return(w)
  /\ UNCHANGED <<roomOn, soloOff, roster, jobs, overtaken>>

(* voice_ask.answer: nothing in solo mode. *)
Answer(w) ==
  /\ Doing(w, "answer", "call")
  /\ Then(w, IF soloOff THEN <<>>
             ELSE <<Plain("close"), Seat(Head(script[w]).name, TRUE, FALSE)>>)
  /\ UNCHANGED <<roomVars, jobs, overtaken>>

-----------------------------------------------------------------------------
(* The voice pass of a turn (voice_pass.run). *)

ReadFlags(w) ==
  /\ Doing(w, "hear", "call")
  /\ GoOn(w, "read", [Nothing EXCEPT !.on = roomOn, !.solo = soloOff])
  /\ UNCHANGED <<roomVars, jobs, overtaken>>

Unlearnt == {i \in Present : roster[i].name \in Guests \ Learnt}

\* Mutant: a known voice arms the room in solo mode too.
DecidedAlways(v, on, solo) ==
  IF v \in Guests /\ ~on
  THEN <<Arm(FALSE, "never"), Seat(v, TRUE, FALSE)>> ELSE <<>>

(* A known voice arms the room or takes a seat.  A voice nobody knows is    *)
(* named after the one person still unlearnt, or arms the room and asks.    *)
Decided(v, on, solo) ==
  IF solo \/ (v \in Seated /\ on) THEN <<>>
  ELSE IF v \in Guests
  THEN IF on THEN <<Seat(v, TRUE, TRUE)>>
       ELSE <<Arm(FALSE, "never"), Seat(v, TRUE, FALSE)>>
  ELSE IF on
  THEN IF Cardinality(Unlearnt) = 1 THEN <<>> ELSE <<Plain("ask")>>
  ELSE <<Arm(FALSE, "on_arm"), Plain("ask")>>

Decide(w) ==
  /\ Doing(w, "hear", "read")
  /\ Then(w, Decided(Head(script[w]).name, saw[w].on, saw[w].solo))
  /\ UNCHANGED <<roomVars, jobs, overtaken>>

-----------------------------------------------------------------------------
(* An introduction (introductions.apply_scan). *)

Scan(w) ==
  /\ Doing(w, "scan", "call")
  /\ Then(w, <<Arm(TRUE, "never"),
               [do |-> "place", names |-> Head(script[w]).names,
                seeds |-> ~roomOn]>>)
  /\ UNCHANGED <<roomVars, jobs, overtaken>>

Lesser(a, b) == IF a < b THEN a ELSE b

(* As many of the new names as fit are seated, and the asks closed; with no *)
(* name an ask is raised.  Where the room was off, the audio may seat the   *)
(* owner.                                                                   *)
PlaceNames(w) ==
  LET c    == Head(script[w])
      new  == c.names \ Seated
      room == IF Cardinality(Present) >= Cap THEN 0
              ELSE Cap - Cardinality(Present)
  IN /\ Doing(w, "place", "call")
     /\ \E S \in SUBSET new, seed \in {FALSE, c.seeds} :
        \E q \in Orders(S) :
          /\ Cardinality(S) = Lesser(Cardinality(new), room)
          /\ Then(w, [i \in DOMAIN q |-> Seat(q[i], TRUE, FALSE)]
                       \o <<Plain(IF c.names = {} THEN "ask" ELSE "resolve")>>
                       \o IF seed THEN <<SeatOwner>> ELSE <<>>)
     /\ UNCHANGED <<roomVars, jobs, overtaken>>

-----------------------------------------------------------------------------

Start(w) ==
  \/ VoicePass(w) \/ Introduction(w) \/ Departure(w) \/ Command(w)
  \/ ToggleOn(w) \/ GoSolo(w) \/ Tap(w) \/ AnswerAsk(w)

Step(w) ==
  \/ ReadMode(w) \/ TurnOn(w) \/ TurnOff(w) \/ ClearRoster(w)
  \/ SeatAsked(w) \/ FindRow(w) \/ TakeSeat(w) \/ MarkLeft(w)
  \/ ReadAsks(w) \/ RaiseAsk(w) \/ CloseAsks(w) \/ Answer(w)
  \/ ReadFlags(w) \/ Decide(w) \/ Scan(w) \/ PlaceNames(w)

Next == Dismiss \/ \E w \in Workers : Start(w) \/ Step(w)

Spec == Init /\ [][Next]_vars

-----------------------------------------------------------------------------
(* A seat has passed the check of the cap, and is not taken yet. *)
Admitted == {w \in Workers : /\ script[w] # <<>> /\ at[w] # "call"
                             /\ Head(script[w]).do = "seat"
                             /\ Head(script[w]).capped}

(* The cap is checked before the seat is written, in another statement: the *)
(* guests the jobs seat exceed it by at most the other jobs under way.      *)
(* Seats of the owner's own hand are not counted: they outrank the cap.     *)
CapHolds ==
  Cardinality({i \in Present : roster[i].via = "guest"})
    <= IF Cap = 0 THEN 0 ELSE Cap - 1 + Cardinality(Workers)

(* A name has one row, reused when its person comes back, or as many as     *)
(* there were jobs that looked for it before the first of them was written. *)
RowsReused == \A p \in People : Cardinality(RowsOf(p)) <= Cardinality(Workers)

(* An unanswered ask is not stacked: no more are open than jobs that looked *)
(* before the first was raised.                                             *)
AsksNotStacked == asks <= Cardinality(Workers)

(* "Solo mode" stays: the room is on in spite of it only when a voice pass  *)
(* had already found it unset, the time it was last set.                    *)
SoloUnlessOvertaken == roomOn /\ soloOff => overtaken

(* room_state.py: the automatic arms "only ever fire while the flag is      *)
(* unset".                                                                  *)
SoloHolds == [][soloOff /\ soloOff' /\ roomOn' => roomOn]_vars

=============================================================================
