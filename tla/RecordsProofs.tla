--------------------------- MODULE RecordsProofs ---------------------------
(***************************************************************************)
(* Theorems about what the server writes down beside the messages.  The    *)
(* room of a chat (RoomState): its types, the cap of the roster, the asks, *)
(* the rows of a name and what solo mode promises.  The passes over a      *)
(* project (Reflection, as Notes): what a summary and the notes cover,     *)
(* however the passes overlap.                                             *)
(***************************************************************************)
EXTENDS MCRecords, FiniteSetTheorems, WellFoundedInduction, TLAPS

-----------------------------------------------------------------------------
(* Types.                                                                  *)

LEMMA CallFields ==
  ASSUME NEW c \in Call
  PROVE  /\ c.do = "seat" => c.name \in People /\ c.capped \in BOOLEAN
                               /\ c.answer \in BOOLEAN
         /\ c.do = "leave" => c.name \in People
         /\ c.do = "answer" => c.name \in People
         /\ c.do = "hear" => c.name \in Guests \cup {Stranger}
         /\ c.do \in {"scan", "place"} => c.names \in SUBSET Guests
         /\ c.do = "place" => c.seeds \in BOOLEAN
BY DEF Call

LEMMA Calls ==
  /\ \A b \in BOOLEAN, s \in {"never", "on_arm", "always"} : Arm(b, s) \in Call
  /\ \A p \in People, b, d \in BOOLEAN : Seat(p, b, d) \in Call
  /\ \A p \in People : Leave(p) \in Call
  /\ SeatOwner \in Call
  /\ \A s \in {"disarm", "ask", "close", "resolve"} : Plain(s) \in Call
  /\ \A v \in Guests \cup {Stranger} : [do |-> "hear", name |-> v] \in Call
  /\ \A g \in Guests : [do |-> "answer", name |-> g] \in Call
  /\ \A S \in SUBSET Guests : [do |-> "scan", names |-> S] \in Call
  /\ \A S \in SUBSET Guests, b \in BOOLEAN :
        [do |-> "place", names |-> S, seeds |-> b] \in Call
<1>1. \A b \in BOOLEAN, s \in {"never", "on_arm", "always"} : Arm(b, s) \in Call
  BY DEF Call, Arm
<1>2. \A p \in People, b, d \in BOOLEAN : Seat(p, b, d) \in Call
  BY DEF Call, Seat
<1>3. \A p \in People : Leave(p) \in Call
  BY DEF Call, Leave
<1>4. SeatOwner \in Call
  BY <1>2 DEF SeatOwner, People
<1>5. \A s \in {"disarm", "ask", "close", "resolve"} : Plain(s) \in Call
  BY DEF Call, Plain
<1>6. \A v \in Guests \cup {Stranger} : [do |-> "hear", name |-> v] \in Call
  BY DEF Call
<1>7. \A g \in Guests : [do |-> "answer", name |-> g] \in Call
  BY DEF Call, People
<1>8. \A S \in SUBSET Guests : [do |-> "scan", names |-> S] \in Call
  BY DEF Call
<1>9. \A S \in SUBSET Guests, b \in BOOLEAN :
        [do |-> "place", names |-> S, seeds |-> b] \in Call
  BY DEF Call
<1> QED
  BY <1>1, <1>2, <1>3, <1>4, <1>5, <1>6, <1>7, <1>8, <1>9

(* Calls that do not arm the room in spite of solo mode. *)
Tame == {c \in Call : c.do = "arm" => c.clear}

LEMMA TameCalls ==
  /\ \A s \in {"never", "on_arm", "always"} : Arm(TRUE, s) \in Tame
  /\ \A p \in People, b, d \in BOOLEAN : Seat(p, b, d) \in Tame
  /\ \A p \in People : Leave(p) \in Tame
  /\ SeatOwner \in Tame
  /\ \A s \in {"disarm", "ask", "close", "resolve"} : Plain(s) \in Tame
  /\ \A S \in SUBSET Guests, b \in BOOLEAN :
        [do |-> "place", names |-> S, seeds |-> b] \in Tame
  /\ Seq(Tame) \subseteq Seq(Call)
<1>1. \A s \in {"never", "on_arm", "always"} : Arm(TRUE, s) \in Tame
  BY Calls DEF Tame, Arm
<1>2. \A p \in People, b, d \in BOOLEAN : Seat(p, b, d) \in Tame
  BY Calls DEF Tame, Seat
<1>3. \A p \in People : Leave(p) \in Tame
  BY Calls DEF Tame, Leave
<1>4. SeatOwner \in Tame
  BY <1>2 DEF SeatOwner, People
<1>5. \A s \in {"disarm", "ask", "close", "resolve"} : Plain(s) \in Tame
  BY Calls DEF Tame, Plain
<1>6. \A S \in SUBSET Guests, b \in BOOLEAN :
        [do |-> "place", names |-> S, seeds |-> b] \in Tame
  BY Calls DEF Tame
<1>7. Seq(Tame) \subseteq Seq(Call)
  BY DEF Tame
<1> QED
  BY <1>1, <1>2, <1>3, <1>4, <1>5, <1>6, <1>7

(* Where a call ends, its job goes on with what the call left to do. *)
LEMMA ThenTypes ==
  ASSUME TypeOK, NEW w \in Workers, script[w] # <<>>,
         NEW calls \in Seq(Call), Then(w, calls)
  PROVE  /\ script' \in [Workers -> Seq(Call)]
         /\ at' \in [Workers -> {"call", "read", "found"}]
         /\ saw' \in [Workers -> Saw]
         /\ script'[w] = calls \o Tail(script[w]) /\ at'[w] = "call"
         /\ \A x \in Workers \ {w} :
               script'[x] = script[x] /\ at'[x] = at[x] /\ saw'[x] = saw[x]
<1>1. calls \o Tail(script[w]) \in Seq(Call)
  BY DEF TypeOK
<1>2. Nothing \in Saw
  BY DEF Nothing, Saw
<1> QED
  BY <1>1, <1>2 DEF Then, TypeOK

LEMMA GoOnTypes ==
  ASSUME TypeOK, NEW w \in Workers, NEW where \in {"read", "found"},
         NEW what \in Saw, GoOn(w, where, what)
  PROVE  /\ script' = script
         /\ at' \in [Workers -> {"call", "read", "found"}]
         /\ saw' \in [Workers -> Saw]
         /\ at'[w] = where /\ saw'[w] = what
         /\ \A x \in Workers \ {w} : at'[x] = at[x] /\ saw'[x] = saw[x]
BY DEF GoOn, TypeOK

LEMMA BeginTypes ==
  ASSUME TypeOK, NEW w \in Workers, NEW call \in Call, Begin(w, call)
  PROVE  /\ TypeOK'
         /\ script[w] = <<>> /\ script'[w] = <<call>>
         /\ \A x \in Workers \ {w} : script'[x] = script[x]
         /\ UNCHANGED <<roomVars, at, saw, overtaken>>
<1>1. jobs' \in 0..MaxJobs
  BY RoomAssumption DEF Begin, TypeOK
<1>2. <<call>> \in Seq(Call)
  OBVIOUS
<1> QED
  BY <1>1, <1>2 DEF Begin, TypeOK, roomVars

(* The order in which a finite set is gone through. *)
LEMMA OrderTypes ==
  ASSUME NEW S, IsFiniteSet(S), NEW q \in Orders(S)
  PROVE  /\ q \in Seq(S)
         /\ DOMAIN q = 1..Len(q)
<1>1. Cardinality(S) \in Nat
  BY FS_CardinalityType
<1> QED
  BY <1>1 DEF Orders

(* The roster as a function. *)
LEMMA RosterTypes ==
  ASSUME TypeOK
  PROVE  /\ Len(roster) \in Nat /\ DOMAIN roster = 1..Len(roster)
         /\ roster \in [1..Len(roster) -> Row]
         /\ \A i \in DOMAIN roster :
               /\ roster[i].name \in People /\ roster[i].here \in BOOLEAN
               /\ roster[i].via \in {"owner", "guest"}
         /\ IsFiniteSet(DOMAIN roster)
         /\ Present \subseteq DOMAIN roster /\ IsFiniteSet(Present)
         /\ Seated \subseteq People /\ IsFiniteSet(Seated)
<1>1. /\ Len(roster) \in Nat /\ DOMAIN roster = 1..Len(roster)
      /\ roster \in [1..Len(roster) -> Row]
  BY DEF TypeOK
<1>2. \A i \in DOMAIN roster :
        /\ roster[i].name \in People /\ roster[i].here \in BOOLEAN
        /\ roster[i].via \in {"owner", "guest"}
  BY <1>1 DEF Row
<1>3. IsFiniteSet(DOMAIN roster)
  BY <1>1, FS_Interval
<1>4. Present \subseteq DOMAIN roster /\ IsFiniteSet(Present)
  BY <1>3, FS_Subset DEF Present
<1>5. IsFiniteSet(People)
  BY RoomAssumption, FS_AddElement DEF People
<1>6. Seated \subseteq People /\ IsFiniteSet(Seated)
  BY <1>2, <1>4, <1>5, FS_Subset DEF Seated
<1> QED
  BY <1>1, <1>2, <1>3, <1>4, <1>6

(* What a seat, or a departure, makes of the roster. *)
LEMMA RosterStep ==
  ASSUME TypeOK, NEW w \in Workers, TakeSeat(w) \/ MarkLeft(w)
  PROVE  roster' \in Seq(Row)
<1> USE RosterTypes
<1>1. ASSUME TakeSeat(w) PROVE roster' \in Seq(Row)
  <2> DEFINE c == Head(script[w])
             r == [name |-> c.name, here |-> TRUE,
                   via |-> IF c.capped THEN "guest" ELSE "owner"]
  <2>1. c \in Call /\ c.do = "seat"
    BY <1>1 DEF TakeSeat, Doing, TypeOK
  <2>2. r \in Row
    BY <2>1, CallFields DEF Row
  <2> HIDE DEF r
  <2>3. Append(roster, r) \in Seq(Row)
    BY <2>2 DEF TypeOK
  <2>4. ASSUME NEW i, NEW l \in BOOLEAN
        PROVE  [roster EXCEPT ![i] = IF l THEN r ELSE [@ EXCEPT !.here = TRUE]]
                 \in Seq(Row)
    <3> DEFINE f == [roster EXCEPT ![i] = IF l THEN r ELSE [@ EXCEPT !.here = TRUE]]
    <3>1. \A j \in 1..Len(roster) : [roster[j] EXCEPT !.here = TRUE] \in Row
      BY DEF Row
    <3>2. f \in [1..Len(roster) -> Row]
      BY <2>2, <3>1
    <3> QED
      BY <3>2
  <2>5. saw[w].left \in BOOLEAN
    BY DEF TypeOK, Saw
  <2> QED
    BY <1>1, <2>3, <2>4, <2>5 DEF TakeSeat, r
<1>2. ASSUME MarkLeft(w) PROVE roster' \in Seq(Row)
  <2> DEFINE f == [i \in DOMAIN roster |->
                     IF roster[i].name = Head(script[w]).name
                     THEN [roster[i] EXCEPT !.here = FALSE] ELSE roster[i]]
  <2>1. \A i \in 1..Len(roster) : f[i] \in Row
    BY DEF Row
  <2>2. f \in [1..Len(roster) -> Row]
    BY <2>1
  <2>3. roster' = f
    BY <1>2 DEF MarkLeft
  <2> QED
    BY <2>2, <2>3
<1> QED
  BY <1>1, <1>2

(* Lists of calls. *)
LEMMA Lists ==
  ASSUME NEW S
  PROVE  /\ <<>> \in Seq(S)
         /\ \A c \in S : <<c>> \in Seq(S)
         /\ \A c, d \in S : <<c, d>> \in Seq(S)
         /\ \A s, t \in Seq(S) : s \o t \in Seq(S)
         /\ \A s \in Seq(S), c \in S : Append(s, c) \in Seq(S)
OBVIOUS

LEMMA Went ==
  ASSUME NEW S, IsFiniteSet(S), S \subseteq People, NEW q \in Orders(S)
  PROVE  /\ [i \in DOMAIN q |-> Leave(q[i])] \in Seq(Tame)
         /\ [i \in DOMAIN q |-> Seat(q[i], TRUE, FALSE)] \in Seq(Tame)
<1>1. DOMAIN q = 1..Len(q) /\ Len(q) \in Nat /\ \A i \in 1..Len(q) : q[i] \in People
  BY OrderTypes
<1>2. /\ \A i \in 1..Len(q) : Leave(q[i]) \in Tame
      /\ \A i \in 1..Len(q) : Seat(q[i], TRUE, FALSE) \in Tame
  BY <1>1, TameCalls
<1>3. ASSUME NEW f \in [1..Len(q) -> Tame] PROVE f \in Seq(Tame)
  BY <1>1
<1>4. /\ [i \in 1..Len(q) |-> Leave(q[i])] \in [1..Len(q) -> Tame]
      /\ [i \in 1..Len(q) |-> Seat(q[i], TRUE, FALSE)] \in [1..Len(q) -> Tame]
  BY <1>2, Zenon
<1> QED
  BY <1>1, <1>3, <1>4

(* What a pass decides. *)
LEMMA DecidedIs ==
  ASSUME NEW v, NEW on \in BOOLEAN, NEW solo \in BOOLEAN
  PROVE  \/ Decided(v, on, solo) = <<>>
         \/ /\ ~solo /\ v \in Guests
            /\ Decided(v, on, solo)
                  = <<Arm(FALSE, "never"), Seat(v, TRUE, FALSE)>>
         \/ /\ ~solo /\ v \in Guests
            /\ Decided(v, on, solo) = <<Seat(v, TRUE, TRUE)>>
         \/ /\ ~solo
            /\ Decided(v, on, solo) = <<Arm(FALSE, "on_arm"), Plain("ask")>>
         \/ /\ ~solo /\ Decided(v, on, solo) = <<Plain("ask")>>
BY DEF Decided

(* The calls a step leaves to be made; only what a pass decides, which had *)
(* found solo mode unset, may arm the room in spite of it.                 *)
LEMMA CallsLeft ==
  ASSUME TypeOK, NEW w \in Workers,
         \/ TurnOn(w) \/ ClearRoster(w) \/ TakeSeat(w) \/ Answer(w)
         \/ Decide(w) \/ Scan(w) \/ PlaceNames(w)
  PROVE  \E calls \in Seq(Call) :
           Then(w, calls) /\ (calls \in Seq(Tame) \/ MayArm(w))
<1>0. PICK c \in Call : script[w] # <<>> /\ c = Head(script[w])
  <2>1. script[w] # <<>> /\ script[w] \in Seq(Call)
    BY DEF TurnOn, ClearRoster, TakeSeat, Answer, Decide, Scan, PlaceNames,
       Doing, TypeOK
  <2> QED
    BY <2>1
<1>1. CASE TurnOn(w)
  <2>1. PICK calls \in OwnerSeats(c, ~saw[w].on) : Then(w, calls)
    BY <1>0, <1>1, Zenon DEF TurnOn
  <2>2. calls \in Seq(Tame)
    BY <2>1, TameCalls, Lists DEF OwnerSeats
  <2> QED
    BY <2>1, <2>2, TameCalls
<1>2. CASE ClearRoster(w)
  <2>1. PICK q \in Orders(Seated) :
          Then(w, Append([i \in DOMAIN q |-> Leave(q[i])], Plain("resolve")))
    BY <1>2 DEF ClearRoster
  <2> QED
    BY <2>1, Went, RosterTypes, TameCalls, Lists
<1>3. CASE TakeSeat(w)
  BY <1>3, TameCalls, Lists DEF TakeSeat
<1>4. CASE Answer(w)
  <2>1. Seat(c.name, TRUE, FALSE) \in Tame /\ Plain("close") \in Tame
    BY <1>0, <1>4, TameCalls, CallFields DEF Answer, Doing
  <2>2. \/ Then(w, <<>>)
        \/ Then(w, <<Plain("close"), Seat(c.name, TRUE, FALSE)>>)
    BY <1>0, <1>4 DEF Answer
  <2> QED
    BY <2>1, <2>2, Lists, TameCalls
<1>5. CASE Decide(w)
  <2>1. Then(w, Decided(c.name, saw[w].on, saw[w].solo))
    BY <1>0, <1>5 DEF Decide
  <2>2. /\ Plain("ask") \in Call
        /\ Arm(FALSE, "never") \in Call /\ Arm(FALSE, "on_arm") \in Call
        /\ \A b \in BOOLEAN : c.name \in Guests => Seat(c.name, TRUE, b) \in Call
    BY Calls DEF People
  <2>3. Decided(c.name, saw[w].on, saw[w].solo) \in Seq(Call)
    <3>1. /\ saw[w].on \in BOOLEAN /\ saw[w].solo \in BOOLEAN
      BY DEF TypeOK, Saw
    <3>2. /\ <<>> \in Seq(Call) /\ \A a \in Call : <<a>> \in Seq(Call)
          /\ \A a, b \in Call : <<a, b>> \in Seq(Call)
      BY Lists
    <3> QED
      BY <2>2, <3>1, <3>2, DecidedIs
  <2>4. Decided(c.name, saw[w].on, saw[w].solo) \in Seq(Tame) \/ MayArm(w)
    <3>1. CASE saw[w].solo
      BY <3>1, Lists DEF Decided
    <3>2. CASE ~saw[w].solo
      BY <1>5, <3>2 DEF Decide, MayArm
    <3> QED
      BY <3>1, <3>2
  <2> QED
    BY <2>1, <2>3, <2>4
<1>6. CASE Scan(w)
  <2>1. [do |-> "place", names |-> c.names, seeds |-> ~roomOn] \in Tame
    BY <1>0, <1>6, TameCalls, CallFields DEF Scan, Doing, TypeOK
  <2>2. Then(w, <<Arm(TRUE, "never"), [do |-> "place", names |-> c.names,
                                       seeds |-> ~roomOn]>>)
    BY <1>0, <1>6 DEF Scan
  <2> QED
    BY <2>1, <2>2, TameCalls, Lists
<1>7. CASE PlaceNames(w)
  <2>1. c.names \in SUBSET Guests
    BY <1>0, <1>7, CallFields DEF PlaceNames, Doing
  <2>2. PICK S \in SUBSET (c.names \ Seated), seed \in {FALSE, c.seeds} :
        \E q \in Orders(S) :
           Then(w, [i \in DOMAIN q |-> Seat(q[i], TRUE, FALSE)]
                     \o <<Plain(IF c.names = {} THEN "ask" ELSE "resolve")>>
                     \o IF seed THEN <<SeatOwner>> ELSE <<>>)
    BY <1>0, <1>7, Zenon DEF PlaceNames
  <2>3. PICK q \in Orders(S) :
           Then(w, [i \in DOMAIN q |-> Seat(q[i], TRUE, FALSE)]
                     \o <<Plain(IF c.names = {} THEN "ask" ELSE "resolve")>>
                     \o IF seed THEN <<SeatOwner>> ELSE <<>>)
    BY <2>2
  <2>4. IsFiniteSet(S) /\ S \subseteq People
    BY <2>1, RoomAssumption, FS_Subset DEF People
  <2>5. [i \in DOMAIN q |-> Seat(q[i], TRUE, FALSE)] \in Seq(Tame)
    BY <2>4, Went
  <2>6. /\ <<Plain(IF c.names = {} THEN "ask" ELSE "resolve")>> \in Seq(Tame)
        /\ (IF seed THEN <<SeatOwner>> ELSE <<>>) \in Seq(Tame)
    BY TameCalls, Lists
  <2> QED
    BY <2>3, <2>5, <2>6, Lists, TameCalls
<1> QED
  BY <1>1, <1>2, <1>3, <1>4, <1>5, <1>6, <1>7

(* The first row of a name is one of them. *)
LEMMA FirstIs ==
  ASSUME NEW S \in SUBSET Nat, S # {}
  PROVE  First(S) \in S /\ \A j \in S : First(S) <= j
<1>1. \E i \in S : \A j \in S : i <= j
  <2>1. PICK i \in S : \A j \in S : ~(j < i)
    <3>1. \E i \in S : \A j \in S : ~(<<j, i>> \in OpToRel(<, Nat))
      BY NatLessThanWellFounded, WFMin
    <3> QED
      BY <3>1 DEF OpToRel
  <2> QED
    BY <2>1
<1> QED
  BY <1>1 DEF First

LEMMA FoundRow ==
  ASSUME TypeOK, NEW p
  PROVE  /\ RowsOf(p) # {} => First(RowsOf(p)) \in RowsOf(p)
         /\ RowsOf(p) \subseteq Nat
<1>1. RowsOf(p) \subseteq Nat
  BY RosterTypes DEF RowsOf
<1> QED
  BY <1>1, FirstIs

LEMMA FoundAt ==
  ASSUME TypeOK, NEW w \in Workers, FindRow(w)
  PROVE  \E i \in Nat, e \in BOOLEAN :
           /\ GoOn(w, "found", [Nothing EXCEPT !.row = i, !.left = e])
           /\ LET S == RowsOf(Head(script[w]).name)
              IN /\ i = 0 <=> S = {}
                 /\ i # 0 => i \in S
           /\ i # 0 => (e <=> ~roster[i].here)
<1> DEFINE S == RowsOf(Head(script[w]).name)
           i == IF S = {} THEN 0 ELSE First(S)
           e == i # 0 /\ ~roster[i].here
<1>1. GoOn(w, "found", [Nothing EXCEPT !.row = i, !.left = e])
  BY DEF FindRow
<1>2. S \subseteq Nat \ {0} /\ (S # {} => First(S) \in S)
  <2>1. 0 \notin S
    BY RosterTypes DEF RowsOf
  <2> QED
    BY <2>1, FoundRow
<1>3. i \in Nat /\ e \in BOOLEAN
  BY <1>2
<1>4. (i = 0 <=> S = {}) /\ (i # 0 => i \in S)
  BY <1>2
<1>5. i # 0 => (e <=> ~roster[i].here)
  OBVIOUS
<1> HIDE DEF i, e
<1> QED
  BY <1>1, <1>3, <1>4, <1>5

(* What a call keeps of what it reads. *)
LEMMA Reads ==
  /\ Nothing \in Saw
  /\ \A r \in Saw, b \in BOOLEAN, i \in Nat :
        /\ [r EXCEPT !.on = b] \in Saw /\ [r EXCEPT !.solo = b] \in Saw
        /\ [r EXCEPT !.row = i] \in Saw /\ [r EXCEPT !.left = b] \in Saw
<1>1. Nothing \in Saw
  BY DEF Nothing, Saw
<1>2. ASSUME NEW r \in Saw, NEW b \in BOOLEAN, NEW i \in Nat
      PROVE  /\ [r EXCEPT !.on = b] \in Saw /\ [r EXCEPT !.solo = b] \in Saw
             /\ [r EXCEPT !.row = i] \in Saw /\ [r EXCEPT !.left = b] \in Saw
  BY DEF Saw
<1> QED
  BY <1>1, <1>2

(* A step ends a call, or goes on in it. *)
LEMMA StepIs ==
  ASSUME TypeOK, NEW w \in Workers, Step(w)
  PROVE  \/ \E calls \in Seq(Call) :
               Then(w, calls) /\ (calls \in Seq(Tame) \/ MayArm(w))
         \/ \E where \in {"read", "found"}, what \in Saw : GoOn(w, where, what)
<1>0. \A b, d, e \in BOOLEAN, i \in Nat :
        [on |-> b, solo |-> d, row |-> i, left |-> e] \in Saw
  BY DEF Saw
<1>1. Nothing \in Saw
  BY <1>0 DEF Nothing
<1>2. CASE \/ TurnOn(w) \/ ClearRoster(w) \/ TakeSeat(w) \/ Answer(w)
           \/ Decide(w) \/ Scan(w) \/ PlaceNames(w)
  BY <1>2, CallsLeft
<1>3. CASE \/ TurnOff(w) \/ SeatAsked(w) \/ MarkLeft(w) \/ ReadAsks(w)
           \/ RaiseAsk(w) \/ CloseAsks(w)
  BY <1>1, <1>3, Lists DEF TurnOff, SeatAsked, MarkLeft, ReadAsks, RaiseAsk,
     CloseAsks, Return
<1>4. CASE ReadMode(w) \/ ReadFlags(w)
  <2>1. /\ [Nothing EXCEPT !.on = roomOn] \in Saw
        /\ [Nothing EXCEPT !.on = roomOn, !.solo = soloOff] \in Saw
    BY Reads DEF TypeOK
  <2> QED
    BY <1>4, <2>1 DEF ReadMode, ReadFlags
<1>5. CASE FindRow(w)
  <2>1. PICK i \in Nat, e \in BOOLEAN :
          GoOn(w, "found", [Nothing EXCEPT !.row = i, !.left = e])
    BY <1>5, FoundRow, FoundAt
  <2>2. [Nothing EXCEPT !.row = i, !.left = e] \in Saw
    BY Reads
  <2> QED
    BY <2>1, <2>2
<1> QED
  BY <1>2, <1>3, <1>4, <1>5 DEF Step

LEMMA InitTypes == Init => TypeOK
<1>1. Nothing \in Saw
  BY DEF Nothing, Saw
<1> QED
  <2> SUFFICES ASSUME Init PROVE TypeOK
    OBVIOUS
  <2>1. /\ script \in [Workers -> Seq(Call)] /\ roster \in Seq(Row)
        /\ at \in [Workers -> {"call", "read", "found"}]
    BY DEF Init
  <2>2. saw \in [Workers -> Saw]
    BY <1>1 DEF Init
  <2>3. roomOn \in BOOLEAN /\ soloOff \in BOOLEAN /\ overtaken \in BOOLEAN
    BY Zenon DEF Init
  <2>4. asks \in Nat /\ jobs \in 0..MaxJobs
    BY RoomAssumption DEF Init
  <2> QED
    BY <2>1, <2>2, <2>3, <2>4 DEF TypeOK

(* Every step keeps the types. *)
LEMMA TypeStep == TypeOK /\ [Next]_vars => TypeOK'
<1> SUFFICES ASSUME TypeOK, [Next]_vars PROVE TypeOK'
  OBVIOUS
<1>1. CASE Dismiss
  BY <1>1 DEF Dismiss, TypeOK, jobVars
<1>2. ASSUME NEW w \in Workers, Start(w) PROVE TypeOK'
  <2>1. \A call \in Call : Begin(w, call) => TypeOK'
    BY BeginTypes
  <2>2. \A g \in Guests : g \in People
    BY DEF People
  <2> QED
    BY <1>2, <2>1, <2>2, Calls DEF Start, VoicePass, Introduction, Departure,
       Command, ToggleOn, GoSolo, Tap, AnswerAsk, SeatOwner, Seat
<1>3. ASSUME NEW w \in Workers, Step(w) PROVE TypeOK'
  <2>1. script[w] # <<>>
    BY <1>3 DEF Step, Doing, ReadMode, TurnOn, TurnOff, ClearRoster,
       SeatAsked, FindRow, TakeSeat, MarkLeft, ReadAsks, RaiseAsk,
       CloseAsks, Answer, ReadFlags, Decide, Scan, PlaceNames
  <2>2. /\ script' \in [Workers -> Seq(Call)]
        /\ at' \in [Workers -> {"call", "read", "found"}]
        /\ saw' \in [Workers -> Saw]
    <3>1. CASE \E calls \in Seq(Call) : Then(w, calls)
      BY <2>1, <3>1, ThenTypes
    <3>2. CASE \E where \in {"read", "found"}, what \in Saw : GoOn(w, where, what)
      BY <3>2, GoOnTypes DEF TypeOK
    <3>3. \/ \E calls \in Seq(Call) : Then(w, calls)
          \/ \E where \in {"read", "found"}, what \in Saw : GoOn(w, where, what)
      BY <1>3, StepIs DEF Step
    <3> QED
      BY <3>1, <3>2, <3>3
  <2>3. roster' \in Seq(Row)
    BY <1>3, RosterStep DEF Step, ReadMode, TurnOn, TurnOff, ClearRoster,
       SeatAsked, FindRow, ReadAsks, RaiseAsk, CloseAsks, Answer,
       ReadFlags, Decide, Scan, PlaceNames, roomVars, TypeOK
  <2>4. CASE TurnOn(w)
    BY <2>2, <2>4 DEF TurnOn, TypeOK
  <2>5. CASE TurnOff(w)
    BY <2>2, <2>5 DEF TurnOff, TypeOK
  <2>6. CASE ReadMode(w) \/ ClearRoster(w) \/ ReadAsks(w) \/ Answer(w)
             \/ ReadFlags(w) \/ Decide(w) \/ Scan(w) \/ PlaceNames(w)
    BY <2>2, <2>6 DEF ReadMode, ClearRoster, ReadAsks, Answer, ReadFlags,
       Decide, Scan, PlaceNames, roomVars, TypeOK
  <2>7. CASE SeatAsked(w) \/ FindRow(w) \/ TakeSeat(w) \/ MarkLeft(w)
    BY <2>2, <2>3, <2>7 DEF SeatAsked, FindRow, TakeSeat, MarkLeft, roomVars,
       TypeOK
  <2>8. CASE RaiseAsk(w) \/ CloseAsks(w)
    <3>1. asks' \in Nat
      BY <2>8 DEF RaiseAsk, CloseAsks, TypeOK
    <3>2. UNCHANGED <<roomOn, soloOff, roster, jobs, overtaken>>
      BY <2>8 DEF RaiseAsk, CloseAsks
    <3> QED
      BY <2>2, <3>1, <3>2 DEF TypeOK
  <2> QED
    BY <1>3, <2>4, <2>5, <2>6, <2>7, <2>8 DEF Step
<1>4. CASE UNCHANGED vars
  BY <1>4 DEF vars, roomVars, jobVars, TypeOK
<1> QED
  BY <1>1, <1>2, <1>3, <1>4 DEF Next

-----------------------------------------------------------------------------
(* Jobs.                                                                   *)

(* A job moves itself only. *)
LEMMA Stand ==
  ASSUME TypeOK, NEW w \in Workers, Start(w) \/ Step(w)
  PROVE  \A x \in Workers \ {w} :
            script'[x] = script[x] /\ at'[x] = at[x] /\ saw'[x] = saw[x]
<1>1. CASE Start(w)
  <2>1. PICK call : Begin(w, call)
    BY <1>1 DEF Start, VoicePass, Introduction, Departure, Command, ToggleOn,
       GoSolo, Tap, AnswerAsk
  <2> QED
    BY <2>1 DEF Begin, TypeOK
<1>2. CASE Step(w)
  <2>1. CASE \E calls : Then(w, calls)
    BY <2>1 DEF Then, TypeOK
  <2>2. CASE \E where, what : GoOn(w, where, what)
    BY <2>2 DEF GoOn, TypeOK
  <2> QED
    BY <1>2, <2>1, <2>2, StepIs
<1> QED
  BY <1>1, <1>2

(* Where a step of a job leaves it. *)
LEMMA Moved ==
  ASSUME TypeOK, NEW w \in Workers, Step(w)
  PROVE  /\ script[w] # <<>>
         /\ at'[w] = "call" \/ (script' = script /\ at'[w] \in {"read", "found"})
<1>1. script[w] # <<>>
  BY DEF Step, Doing, ReadMode, TurnOn, TurnOff, ClearRoster,
     SeatAsked, FindRow, TakeSeat, MarkLeft, ReadAsks, RaiseAsk,
     CloseAsks, Answer, ReadFlags, Decide, Scan, PlaceNames
<1> QED
  BY <1>1, StepIs DEF Then, GoOn, TypeOK

(* What a job begins with. *)
LEMMA Begun ==
  ASSUME TypeOK, NEW w \in Workers, Start(w)
  PROVE  /\ script[w] = <<>>
         /\ \E call \in Tame : script'[w] = <<call>>
         /\ UNCHANGED <<roomVars, at, saw, overtaken>>
<1>1. \A v \in Guests \cup {Stranger} : [do |-> "hear", name |-> v] \in Tame
  BY Calls DEF Tame
<1>2. \A g \in Guests : [do |-> "answer", name |-> g] \in Tame
  BY Calls DEF Tame
<1>3. \A S \in SUBSET Guests : [do |-> "scan", names |-> S] \in Tame
  BY Calls DEF Tame
<1>4. PICK call \in Tame : Begin(w, call)
  <2>1. \A g \in Guests : g \in People
    BY DEF People
  <2> QED
    BY <1>1, <1>2, <1>3, <2>1, TameCalls DEF Start, VoicePass, Introduction,
       Departure, Command, ToggleOn, GoSolo, Tap, AnswerAsk
<1> QED
  BY <1>4, BeginTypes DEF Tame

-----------------------------------------------------------------------------
(* Solo mode.                                                              *)

(* A job that waits is at the start of whatever it is given next. *)
IdleInv == \A w \in Workers : script[w] = <<>> => at[w] = "call"

SoloInv == soloOff /\ (roomOn \/ \E w \in Workers : MayArm(w)) => overtaken

LEMMA IdleStep == TypeOK /\ IdleInv /\ [Next]_vars => IdleInv'
<1> SUFFICES ASSUME TypeOK, IdleInv, [Next]_vars, NEW x \in Workers,
                    script'[x] = <<>>
             PROVE  at'[x] = "call"
  BY DEF IdleInv
<1>1. CASE Dismiss
  BY <1>1 DEF Dismiss, jobVars, IdleInv
<1>2. ASSUME NEW w \in Workers, Start(w) PROVE at'[x] = "call"
  <2>1. CASE x = w
    <3>1. script[w] = <<>> /\ at' = at
      BY <1>2, Begun
    <3> QED
      BY <2>1, <3>1 DEF IdleInv
  <2>2. CASE x # w
    BY <1>2, <2>2, Stand DEF IdleInv
  <2> QED
    BY <2>1, <2>2
<1>3. ASSUME NEW w \in Workers, Step(w) PROVE at'[x] = "call"
  BY <1>3, Moved, Stand DEF IdleInv
<1>4. CASE UNCHANGED vars
  BY <1>4 DEF vars, jobVars, IdleInv
<1> QED
  BY <1>1, <1>2, <1>3, <1>4 DEF Next

(* No call but the reading of an unset solo mode puts a job in the way of   *)
(* arming the room in spite of it.                                          *)
LEMMA MayArmKept ==
  ASSUME TypeOK, IdleInv, NEW w \in Workers, Start(w) \/ Step(w),
         NEW x \in Workers, MayArm(x)'
  PROVE  MayArm(x) \/ (~soloOff /\ ReadFlags(w))
<1>1. CASE x # w
  BY <1>1, Stand DEF MayArm, Doing
<1>2. CASE x = w /\ Start(w)
  <2>1. PICK call \in Tame : script'[w] = <<call>>
    BY <1>2, Begun
  <2>2. at'[w] = "call"
    BY <1>2, Begun DEF IdleInv
  <2>3. DOMAIN script'[w] = {1} /\ script'[w][1] = call
    BY <2>1
  <2> QED
    BY <1>2, <2>2, <2>3 DEF MayArm, Doing, Tame
<1>3. CASE x = w /\ Step(w)
  <2>1. script[w] # <<>> /\ script[w] \in Seq(Call)
    BY <1>3, Moved DEF TypeOK
  <2>2. ASSUME NEW calls \in Seq(Tame), Then(w, calls) PROVE MayArm(w)
    <3>1. /\ script'[w] = calls \o Tail(script[w]) /\ at'[w] = "call"
      BY <2>1, <2>2, TameCalls, ThenTypes
    <3>2. PICK i \in DOMAIN script'[w] :
            script'[w][i].do = "arm" /\ ~script'[w][i].clear
      BY <1>3, <3>1 DEF MayArm, Doing
    <3>3. /\ Len(calls) \in Nat /\ Len(script[w]) \in Nat \ {0}
          /\ \A j \in 1..Len(calls) : calls[j] \in Tame
          /\ DOMAIN script[w] = 1..Len(script[w])
      BY <2>1
    <3>4. /\ DOMAIN script'[w] = 1..(Len(calls) + Len(script[w]) - 1)
          /\ \A j \in 1..Len(calls) : script'[w][j] = calls[j]
          /\ \A j \in DOMAIN script'[w] : j > Len(calls) =>
                script'[w][j] = script[w][j - Len(calls) + 1]
      BY <2>1, <3>1, <3>3
    <3>5. i > Len(calls)
      BY <3>2, <3>3, <3>4 DEF Tame
    <3>6. i - Len(calls) + 1 \in DOMAIN script[w]
      BY <3>2, <3>3, <3>4, <3>5
    <3> QED
      BY <3>2, <3>4, <3>5, <3>6 DEF MayArm
  <2>3. ASSUME NEW where \in {"read", "found"}, NEW what \in Saw,
               GoOn(w, where, what)
        PROVE  MayArm(w) \/ (~soloOff /\ ReadFlags(w))
    <3>1. script' = script /\ at'[w] = where /\ saw'[w] = what
      BY <2>3, GoOnTypes
    <3>2. CASE \E i \in DOMAIN script[w] :
                  script[w][i].do = "arm" /\ ~script[w][i].clear
      BY <3>2 DEF MayArm
    <3>3. CASE Doing(w, "hear", "read")' /\ ~saw'[w].solo
      <4>1. Head(script[w]).do = "hear" /\ at'[w] = "read"
        BY <3>1, <3>3 DEF Doing
      <4>2. ReadFlags(w)
        BY <1>3, <4>1, <3>1 DEF Step, Doing, ReadMode, TurnOn, TurnOff, ClearRoster,
           SeatAsked, FindRow, TakeSeat, MarkLeft, ReadAsks, RaiseAsk,
           CloseAsks, Answer, Decide, Scan, PlaceNames, Then, Return, TypeOK
      <4>3. saw'[w] = [Nothing EXCEPT !.on = roomOn, !.solo = soloOff]
        BY <4>2 DEF ReadFlags, GoOn, TypeOK
      <4>4. saw'[w].solo = soloOff
        BY <4>3 DEF Nothing
      <4> QED
        BY <3>3, <4>2, <4>4
    <3> QED
      BY <1>3, <3>1, <3>2, <3>3 DEF MayArm
  <2> QED
    BY <1>3, <2>2, <2>3, StepIs
<1> QED
  BY <1>1, <1>2, <1>3

LEMMA SoloStep == TypeOK /\ IdleInv /\ SoloInv /\ [Next]_vars => SoloInv'
<1> SUFFICES ASSUME TypeOK, IdleInv, SoloInv, [Next]_vars, soloOff',
                    roomOn' \/ \E x \in Workers : MayArm(x)'
             PROVE  overtaken'
  BY DEF SoloInv
<1>1. CASE Dismiss
  BY <1>1 DEF Dismiss, jobVars, SoloInv, MayArm, Doing
<1>2. ASSUME NEW w \in Workers, Start(w) PROVE overtaken'
  <2>1. UNCHANGED <<roomOn, soloOff, overtaken>>
    BY <1>2, Begun DEF roomVars
  <2>2. ~ReadFlags(w)
    BY <1>2, Begun DEF ReadFlags, Doing
  <2> QED
    BY <1>2, <2>1, <2>2, MayArmKept DEF SoloInv
<1>3. ASSUME NEW w \in Workers, Step(w) PROVE overtaken'
  <2>1. CASE TurnOff(w)
    <3>1. \E x \in Workers : MayArm(x)'
      BY <2>1 DEF TurnOff
    <3>2. ~ReadFlags(w)
      BY <2>1 DEF TurnOff, ReadFlags, Doing
    <3>3. \E x \in Workers : MayArm(x)
      BY <1>3, <3>1, <3>2, MayArmKept
    <3> QED
      BY <2>1, <3>3 DEF TurnOff
  <2>2. CASE TurnOn(w)
    <3>1. script[w] # <<>> /\ script[w] \in Seq(Call)
      BY <1>3, Moved DEF TypeOK
    <3>2. Head(script[w]).do = "arm" /\ ~Head(script[w]).clear /\ soloOff
      BY <2>2 DEF TurnOn, Doing
    <3>3. 1 \in DOMAIN script[w] /\ Head(script[w]) = script[w][1]
      BY <3>1
    <3>4. MayArm(w)
      BY <3>2, <3>3 DEF MayArm
    <3> QED
      BY <2>2, <3>2, <3>4 DEF TurnOn, SoloInv
  <2>3. CASE ~TurnOff(w) /\ ~TurnOn(w)
    <3>1. UNCHANGED <<roomOn, soloOff, overtaken>>
      BY <1>3, <2>3 DEF Step, ReadMode, ClearRoster, SeatAsked, FindRow,
         TakeSeat, MarkLeft, ReadAsks, RaiseAsk, CloseAsks, Answer, ReadFlags,
         Decide, Scan, PlaceNames, roomVars
    <3> QED
      BY <1>3, <3>1, MayArmKept DEF SoloInv
  <2> QED
    BY <2>1, <2>2, <2>3
<1>4. CASE UNCHANGED vars
  BY <1>4 DEF vars, roomVars, jobVars, SoloInv, MayArm, Doing
<1> QED
  BY <1>1, <1>2, <1>3, <1>4 DEF Next

-----------------------------------------------------------------------------
(* Counting jobs and rows.                                                 *)

LEMMA Jobs ==
  ASSUME NEW S \in SUBSET Workers
  PROVE  /\ IsFiniteSet(S) /\ Cardinality(S) \in Nat
         /\ Cardinality(Workers) \in Nat /\ Cardinality(S) <= Cardinality(Workers)
BY RoomAssumption, FS_Subset, FS_CardinalityType

LEMMA Fewer ==
  ASSUME NEW S, IsFiniteSet(S), NEW T \in SUBSET S
  PROVE  Cardinality(T) \in Nat /\ Cardinality(S) \in Nat
         /\ Cardinality(T) <= Cardinality(S)
BY FS_Subset, FS_CardinalityType

LEMMA OneFewer ==
  ASSUME NEW S, IsFiniteSet(S), NEW x \in S, NEW T \in SUBSET (S \ {x})
  PROVE  Cardinality(T) \in Nat /\ Cardinality(S) \in Nat
         /\ Cardinality(T) <= Cardinality(S) - 1
<1>1. IsFiniteSet(S \ {x}) /\ Cardinality(S \ {x}) = Cardinality(S) - 1
  BY FS_RemoveElement
<1> QED
  BY <1>1, Fewer, FS_CardinalityType

LEMMA OneMore ==
  ASSUME NEW S, IsFiniteSet(S), NEW x, NEW T \in SUBSET (S \cup {x})
  PROVE  Cardinality(T) \in Nat /\ Cardinality(S) \in Nat
         /\ Cardinality(T) <= Cardinality(S) + 1
<1>0. Cardinality(S) \in Nat
  BY FS_CardinalityType
<1>1. IsFiniteSet(S \cup {x}) /\ Cardinality(S \cup {x}) <= Cardinality(S) + 1
  <2>1. \/ Cardinality(S \cup {x}) = Cardinality(S)
        \/ Cardinality(S \cup {x}) = Cardinality(S) + 1
    BY FS_AddElement
  <2> QED
    BY <1>0, <2>1, FS_AddElement
<1> QED
  BY <1>1, Fewer, FS_CardinalityType

-----------------------------------------------------------------------------
(* Asks: those that are open, and those a job is about to raise.           *)

Askers == {w \in Workers : Doing(w, "ask", "read")}

AskInv == asks + Cardinality(Askers) <= Cardinality(Workers)

(* A job is about to raise an ask only where it found none. *)
LEMMA AskersStep ==
  ASSUME TypeOK, IdleInv, NEW w \in Workers, Start(w) \/ Step(w)
  PROVE  Askers' \subseteq Askers \/ (asks = 0 /\ ReadAsks(w))
<1>1. ASSUME NEW x \in Askers', x # w PROVE x \in Askers
  BY <1>1, Stand DEF Askers, Doing
<1>2. ASSUME w \in Askers' PROVE asks = 0 /\ ReadAsks(w)
  <2>1. Doing(w, "ask", "read")'
    BY <1>2 DEF Askers
  <2>2. Step(w)
    BY <2>1, Begun DEF IdleInv, Doing
  <2>3. script' = script
    BY <2>1, <2>2, Moved DEF Doing
  <2>4. ReadAsks(w)
    BY <2>1, <2>2, <2>3 DEF Step, Doing, ReadMode, TurnOn, TurnOff, ClearRoster,
       SeatAsked, FindRow, TakeSeat, MarkLeft, RaiseAsk, CloseAsks, Answer,
       ReadFlags, Decide, Scan, PlaceNames, Then, Return, TypeOK
  <2>5. ~(asks > 0)
    BY <2>1, <2>4 DEF ReadAsks, Return, Then, Doing, TypeOK
  <2> QED
    BY <2>4, <2>5 DEF TypeOK
<1> QED
  BY <1>1, <1>2

LEMMA AskStep == TypeOK /\ IdleInv /\ AskInv /\ [Next]_vars => AskInv'
<1> SUFFICES ASSUME TypeOK, IdleInv, AskInv, [Next]_vars PROVE AskInv'
  OBVIOUS
<1>0. /\ asks \in Nat /\ asks' \in Nat
      /\ Askers \in SUBSET Workers /\ Askers' \in SUBSET Workers
  BY TypeStep DEF TypeOK, Askers
<1>1. ASSUME asks' <= asks, Askers' \subseteq Askers PROVE AskInv'
  BY <1>0, <1>1, Jobs, Fewer DEF AskInv
<1>2. CASE Dismiss
  <2>1. Askers' = Askers /\ asks' <= asks
    BY <1>0, <1>2 DEF Dismiss, jobVars, Askers, Doing
  <2> QED
    BY <1>1, <2>1
<1>3. ASSUME NEW w \in Workers, Start(w) \/ Step(w) PROVE AskInv'
  <2>1. CASE asks = 0 /\ ReadAsks(w)
    <3>1. asks' = 0
      BY <2>1 DEF ReadAsks, roomVars
    <3> QED
      BY <1>0, <3>1, Jobs DEF AskInv
  <2>2. CASE RaiseAsk(w)
    <3>1. w \in Askers /\ asks' = asks + 1
      BY <2>2 DEF RaiseAsk, Askers
    <3>2. at'[w] = "call"
      BY <2>2 DEF RaiseAsk, Return, Then, TypeOK
    <3>3. Askers' \subseteq Askers \ {w}
      <4>1. w \notin Askers'
        BY <3>2 DEF Askers, Doing
      <4>2. Askers' \subseteq Askers
        BY <1>3, <2>2, AskersStep DEF RaiseAsk, ReadAsks, Doing
      <4> QED
        BY <4>1, <4>2
    <3>4. Cardinality(Askers') <= Cardinality(Askers) - 1
      BY <1>0, <3>1, <3>3, Jobs, OneFewer
    <3> QED
      BY <1>0, <3>1, <3>4, Jobs DEF AskInv
  <2>3. CASE ~(asks = 0 /\ ReadAsks(w)) /\ ~RaiseAsk(w)
    <3>1. asks' <= asks
      <4>1. CASE Start(w)
        BY <1>0, <4>1, Begun DEF roomVars
      <4>2. CASE CloseAsks(w)
        BY <1>0, <4>2 DEF CloseAsks
      <4>3. CASE Step(w) /\ ~CloseAsks(w)
        <5>1. asks' = asks
          BY <2>3, <4>3 DEF Step, ReadMode, TurnOn, TurnOff, ClearRoster,
             SeatAsked, FindRow, TakeSeat, MarkLeft, ReadAsks, Answer,
             ReadFlags, Decide, Scan, PlaceNames, roomVars
        <5> QED
          BY <1>0, <5>1
      <4> QED
        BY <1>3, <4>1, <4>2, <4>3
    <3> QED
      BY <1>1, <1>3, <2>3, <3>1, AskersStep
  <2> QED
    BY <2>1, <2>2, <2>3
<1>4. CASE UNCHANGED vars
  <2>1. Askers' = Askers /\ asks' <= asks
    BY <1>0, <1>4 DEF vars, roomVars, jobVars, Askers, Doing
  <2> QED
    BY <1>1, <2>1
<1> QED
  BY <1>2, <1>3, <1>4 DEF Next

-----------------------------------------------------------------------------
(* Rows: those of a name, and those a job is about to write.               *)

Finds(w) == Doing(w, "seat", "found")

(* The row a job found is still a row of the name it seats. *)
FoundInv ==
  \A w \in Workers : Finds(w) /\ saw[w].row # 0 =>
    /\ saw[w].row \in DOMAIN roster
    /\ roster[saw[w].row].name = Head(script[w]).name

(* The jobs that found no row of p, and will write one. *)
Seekers(p) == {w \in Workers : /\ Finds(w) /\ Head(script[w]).name = p
                               /\ saw[w].row = 0}

RowsInv ==
  \A p \in People :
     Cardinality(RowsOf(p)) + Cardinality(Seekers(p)) <= Cardinality(Workers)

(* What the taking of a seat does to the roster. *)
LEMMA SeatTaken ==
  ASSUME TypeOK, FoundInv, NEW w \in Workers, TakeSeat(w)
  PROVE  \/ /\ saw[w].row = 0
            /\ DOMAIN roster' = DOMAIN roster \cup {Len(roster) + 1}
            /\ Len(roster) + 1 \notin DOMAIN roster
            /\ roster'[Len(roster) + 1].name = Head(script[w]).name
            /\ roster'[Len(roster) + 1].via
                  = IF Head(script[w]).capped THEN "guest" ELSE "owner"
            /\ \A i \in DOMAIN roster : roster'[i] = roster[i]
         \/ /\ saw[w].row \in DOMAIN roster
            /\ roster[saw[w].row].name = Head(script[w]).name
            /\ DOMAIN roster' = DOMAIN roster
            /\ roster'[saw[w].row].name = Head(script[w]).name
            /\ roster'[saw[w].row].via
                  = IF saw[w].left
                    THEN IF Head(script[w]).capped THEN "guest" ELSE "owner"
                    ELSE roster[saw[w].row].via
            /\ \A i \in DOMAIN roster \ {saw[w].row} : roster'[i] = roster[i]
<1> DEFINE c == Head(script[w])
           r == [name |-> c.name, here |-> TRUE,
                 via |-> IF c.capped THEN "guest" ELSE "owner"]
           k == saw[w].row
<1>0. r.name = c.name /\ r.via = IF c.capped THEN "guest" ELSE "owner"
  OBVIOUS
<1>1. roster' = IF k = 0 THEN Append(roster, r)
                ELSE [roster EXCEPT ![k] =
                        IF saw[w].left THEN r ELSE [@ EXCEPT !.here = TRUE]]
  BY DEF TakeSeat
<1>2. Finds(w)
  BY DEF TakeSeat, Finds
<1> HIDE DEF r
<1>3. CASE k = 0
  BY <1>0, <1>1, <1>3, RosterTypes DEF TypeOK
<1>4. CASE k # 0
  <2>1. k \in DOMAIN roster /\ roster[k].name = c.name
    BY <1>2, <1>4 DEF FoundInv
  <2>2. /\ DOMAIN roster' = DOMAIN roster
        /\ roster'[k] = IF saw[w].left THEN r ELSE [roster[k] EXCEPT !.here = TRUE]
        /\ \A i \in DOMAIN roster \ {k} : roster'[i] = roster[i]
    BY <1>1, <1>4, <2>1
  <2>3. /\ [roster[k] EXCEPT !.here = TRUE].name = roster[k].name
        /\ [roster[k] EXCEPT !.here = TRUE].via = roster[k].via
    BY <2>1, RosterTypes DEF Row
  <2> QED
    BY <1>0, <2>1, <2>2, <2>3
<1> QED
  BY <1>3, <1>4

LEMMA LeftMarked ==
  ASSUME TypeOK, NEW w \in Workers, MarkLeft(w)
  PROVE  /\ DOMAIN roster' = DOMAIN roster
         /\ \A i \in DOMAIN roster :
               /\ roster'[i].name = roster[i].name
               /\ roster'[i].via = roster[i].via
               /\ roster'[i].here => roster[i].here
<1>1. roster' = [i \in DOMAIN roster |->
                   IF roster[i].name = Head(script[w]).name
                   THEN [roster[i] EXCEPT !.here = FALSE] ELSE roster[i]]
  BY DEF MarkLeft
<1>2. \A i \in DOMAIN roster :
        /\ [roster[i] EXCEPT !.here = FALSE].name = roster[i].name
        /\ [roster[i] EXCEPT !.here = FALSE].via = roster[i].via
        /\ [roster[i] EXCEPT !.here = FALSE].here = FALSE
  BY RosterTypes DEF Row
<1> QED
  BY <1>1, <1>2

LEMMA OnlySeats ==
  ASSUME TypeOK, NEW w \in Workers, Start(w) \/ Step(w),
         ~TakeSeat(w), ~MarkLeft(w)
  PROVE  roster' = roster
<1>1. CASE Start(w)
  BY <1>1, Begun DEF roomVars
<1>2. CASE Step(w)
  BY <1>2 DEF Step, ReadMode, TurnOn, TurnOff, ClearRoster,
       SeatAsked, FindRow, ReadAsks, RaiseAsk, CloseAsks, Answer, ReadFlags,
       Decide, Scan, PlaceNames, roomVars
<1> QED
  BY <1>1, <1>2

(* Rows keep their names. *)
LEMMA NamesStay ==
  ASSUME TypeOK, FoundInv, NEW w \in Workers, Start(w) \/ Step(w)
  PROVE  \A i \in DOMAIN roster :
            i \in DOMAIN roster' /\ roster'[i].name = roster[i].name
BY SeatTaken, LeftMarked, OnlySeats

(* A job is where it writes a seat only by having looked for the row. *)
LEMMA FindsStep ==
  ASSUME TypeOK, IdleInv, NEW w \in Workers, Start(w) \/ Step(w), Finds(w)'
  PROVE  FindRow(w) /\ script' = script
<1>1. Step(w)
  BY Begun DEF IdleInv, Finds, Doing
<1>2. script' = script /\ script[w] # <<>>
  BY <1>1, Moved DEF Finds, Doing
<1>3. Head(script[w]).do = "seat" /\ at'[w] = "found"
  BY <1>2 DEF Finds, Doing
<1>4. ~SeatAsked(w) /\ ~TakeSeat(w)
  BY <1>3 DEF SeatAsked, TakeSeat, Then, Return, GoOn, TypeOK
<1>5. FindRow(w)
  BY <1>1, <1>3, <1>4 DEF Step, Doing, ReadMode, TurnOn, TurnOff, ClearRoster,
     MarkLeft, ReadAsks, RaiseAsk, CloseAsks, Answer, ReadFlags, Decide, Scan,
     PlaceNames
<1> QED
  BY <1>2, <1>5

(* What the job has found then. *)
LEMMA RowFound ==
  ASSUME TypeOK, NEW w \in Workers, FindRow(w)
  PROVE  /\ roster' = roster
         /\ saw'[w].row = 0 => RowsOf(Head(script[w]).name) = {}
         /\ saw'[w].row # 0 => saw'[w].row \in RowsOf(Head(script[w]).name)
         /\ saw'[w].row # 0 => (saw'[w].left <=> ~roster[saw'[w].row].here)
<1>1. PICK i \in Nat, e \in BOOLEAN :
         /\ GoOn(w, "found", [Nothing EXCEPT !.row = i, !.left = e])
         /\ LET S == RowsOf(Head(script[w]).name)
            IN /\ i = 0 <=> S = {}
               /\ i # 0 => i \in S
         /\ i # 0 => (e <=> ~roster[i].here)
  BY FoundAt
<1>2. saw'[w] = [Nothing EXCEPT !.row = i, !.left = e]
  BY <1>1 DEF GoOn, TypeOK
<1>3. saw'[w].row = i /\ saw'[w].left = e
  BY <1>2 DEF Nothing
<1>4. roster' = roster
  BY DEF FindRow, roomVars
<1> QED
  BY <1>1, <1>3, <1>4

LEMMA FoundStep == TypeOK /\ IdleInv /\ FoundInv /\ [Next]_vars => FoundInv'
<1> SUFFICES ASSUME TypeOK, IdleInv, FoundInv, [Next]_vars,
                    NEW x \in Workers, Finds(x)', saw'[x].row # 0
             PROVE  /\ saw'[x].row \in DOMAIN roster'
                    /\ roster'[saw'[x].row].name = Head(script'[x]).name
  BY DEF FoundInv
<1>1. CASE UNCHANGED <<roster, jobVars>>
  BY <1>1 DEF jobVars, FoundInv, Finds, Doing
<1>2. ASSUME NEW w \in Workers, Start(w) \/ Step(w)
      PROVE  /\ saw'[x].row \in DOMAIN roster'
             /\ roster'[saw'[x].row].name = Head(script'[x]).name
  <2>1. CASE x = w
    <3>1. FindRow(w) /\ script' = script
      BY <1>2, <2>1, FindsStep
    <3>2. roster' = roster /\ saw'[w].row \in RowsOf(Head(script[w]).name)
      BY <2>1, <3>1, RowFound
    <3> QED
      BY <2>1, <3>1, <3>2 DEF RowsOf
  <2>2. CASE x # w
    <3>1. script'[x] = script[x] /\ at'[x] = at[x] /\ saw'[x] = saw[x]
      BY <1>2, <2>2, Stand
    <3>2. Finds(x)
      BY <3>1 DEF Finds, Doing
    <3>3. /\ saw[x].row \in DOMAIN roster
          /\ roster[saw[x].row].name = Head(script[x]).name
      BY <3>1, <3>2 DEF FoundInv
    <3> QED
      BY <1>2, <3>1, <3>3, NamesStay
  <2> QED
    BY <2>1, <2>2
<1> QED
  BY <1>1, <1>2 DEF Next, Dismiss, vars, roomVars, jobVars

LEMMA RowsStep ==
  TypeOK /\ IdleInv /\ FoundInv /\ RowsInv /\ [Next]_vars => RowsInv'
<1> SUFFICES ASSUME TypeOK, IdleInv, FoundInv, RowsInv, [Next]_vars,
                    NEW p \in People
             PROVE  Cardinality(RowsOf(p)') + Cardinality(Seekers(p)')
                      <= Cardinality(Workers)
  BY DEF RowsInv
<1> DEFINE R == RowsOf(p)
           S == Seekers(p)
<1>0. /\ S \in SUBSET Workers /\ S' \in SUBSET Workers
      /\ IsFiniteSet(R) /\ Cardinality(R) \in Nat
      /\ Cardinality(R) + Cardinality(S) <= Cardinality(Workers)
  <2>1. IsFiniteSet(R)
    BY RosterTypes, FS_Subset DEF RowsOf
  <2> QED
    BY <2>1, FS_CardinalityType DEF RowsInv, Seekers
<1> HIDE DEF R, S
<1>1. ASSUME R' = R, S' \subseteq S
      PROVE  Cardinality(R') + Cardinality(S') <= Cardinality(Workers)
  BY <1>0, <1>1, Jobs, Fewer
<1>2. CASE UNCHANGED <<roster, jobVars>>
  <2>1. R' = R /\ S' = S
    BY <1>2 DEF jobVars, R, S, RowsOf, Seekers, Finds, Doing
  <2> QED
    BY <1>1, <2>1 DEF R, S
<1>3. ASSUME NEW w \in Workers, Start(w) \/ Step(w)
      PROVE  Cardinality(R') + Cardinality(S') <= Cardinality(Workers)
  <2>1. S' \ {w} \subseteq S
    BY <1>3, Stand DEF S, Seekers, Finds, Doing
  <2>2. CASE FindRow(w)
    <3>1. R' = R
      BY <2>2, RowFound DEF R, RowsOf
    <3>2. CASE w \in S'
      <4>1. saw'[w].row = 0 /\ Head(script[w]).name = p
        BY <1>3, <3>2, FindsStep DEF S, Seekers
      <4>2. R = {}
        BY <2>2, <4>1, RowFound DEF R
      <4> QED
        BY <1>0, <3>1, <4>2, Jobs, FS_EmptySet
    <3>3. CASE w \notin S'
      BY <1>1, <2>1, <3>1, <3>3
    <3> QED
      BY <3>2, <3>3
  <2>3. CASE ~FindRow(w)
    <3>1. S' \subseteq S
      <4>1. w \notin S'
        BY <1>3, <2>3, FindsStep DEF S, Seekers
      <4> QED
        BY <2>1, <4>1
    <3>2. CASE TakeSeat(w) /\ saw[w].row = 0 /\ Head(script[w]).name = p
      <4>1. w \in S
        BY <3>2 DEF S, Seekers, Finds, TakeSeat
      <4>2. w \notin S'
        BY <1>3, <2>3, FindsStep DEF S, Seekers
      <4>3. R' \subseteq R \cup {Len(roster) + 1}
        <5>1. 0 \notin DOMAIN roster
          BY RosterTypes
        <5> QED
          BY <3>2, <5>1, SeatTaken DEF R, RowsOf
      <4>4. Cardinality(R') <= Cardinality(R) + 1 /\ Cardinality(R') \in Nat
        BY <1>0, <4>3, OneMore
      <4>5. Cardinality(S') <= Cardinality(S) - 1
        BY <1>0, <3>1, <4>1, <4>2, Jobs, OneFewer
      <4> QED
        BY <1>0, <4>4, <4>5, Jobs
    <3>3. CASE ~(TakeSeat(w) /\ saw[w].row = 0 /\ Head(script[w]).name = p)
      <4>1. R' = R
        BY <1>3, <3>3, SeatTaken, LeftMarked, OnlySeats DEF R, RowsOf
      <4> QED
        BY <1>1, <3>1, <4>1
    <3> QED
      BY <3>2, <3>3
  <2> QED
    BY <2>2, <2>3
<1> QED
  BY <1>2, <1>3 DEF Next, Dismiss, vars, roomVars, jobVars, R, S

-----------------------------------------------------------------------------
(* The cap: the rows of guests the jobs seated, and the seats admitted.     *)

(* A job of the owner's own hand that found a row there writes it there     *)
(* again: such a row counts although its guest has left meanwhile.          *)
Holder(w) ==
  /\ Finds(w) /\ ~Head(script[w]).capped
  /\ saw[w].row # 0 /\ ~saw[w].left

Holders == {w \in Workers : Holder(w)}

GuestRows ==
  {i \in DOMAIN roster : /\ roster[i].via = "guest"
                         /\ roster[i].here \/ \E w \in Holders : saw[w].row = i}

Bound == IF Cap = 0 THEN 0 ELSE Cap - 1 + Cardinality(Workers)

CapInv == Cardinality(GuestRows) + Cardinality(Admitted) <= Bound

LEMMA CapTypes ==
  ASSUME TypeOK
  PROVE  /\ IsFiniteSet(GuestRows) /\ Cardinality(GuestRows) \in Nat
         /\ Admitted \in SUBSET Workers /\ Holders \in SUBSET Workers
         /\ Bound \in Nat
         /\ GuestRows \subseteq Present \cup {saw[w].row : w \in Holders}
<1>1. IsFiniteSet(GuestRows)
  BY RosterTypes, FS_Subset DEF GuestRows
<1>2. Bound \in Nat
  BY RoomAssumption, FS_CardinalityType DEF Bound
<1> QED
  BY <1>1, <1>2, FS_CardinalityType DEF Admitted, Holders, GuestRows, Present

(* As many rows are held as jobs hold one, at most. *)
LEMMA HeldRows ==
  ASSUME TypeOK
  PROVE  LET H == {saw[w].row : w \in Holders}
         IN IsFiniteSet(H) /\ Cardinality(H) <= Cardinality(Holders)
<1> DEFINE H == {saw[w].row : w \in Holders}
           f == [w \in Holders |-> saw[w].row]
<1>1. IsFiniteSet(Holders)
  BY CapTypes, Jobs
<1>2. f \in Surjection(Holders, H)
  BY DEF Surjection
<1> HIDE DEF f, H
<1>3. IsFiniteSet(H) /\ Cardinality(H) <= Cardinality(Holders)
  BY <1>1, <1>2, FS_Surjection
<1> QED
  BY <1>3 DEF H

(* No step but a capped seat's own enlarges what counts. *)
LEMMA HoldersStep ==
  ASSUME TypeOK, IdleInv, NEW w \in Workers, Start(w) \/ Step(w)
  PROVE  /\ Holders' \ {w} \subseteq Holders
         /\ \A x \in Workers \ {w} : saw'[x].row = saw[x].row
         /\ w \in Holders' => /\ FindRow(w) /\ roster' = roster
                              /\ saw'[w].row \in DOMAIN roster
                              /\ roster[saw'[w].row].here
<1>1. /\ Holders' \ {w} \subseteq Holders
      /\ \A x \in Workers \ {w} : saw'[x].row = saw[x].row
  BY Stand DEF Holders, Holder, Finds, Doing
<1>2. ASSUME w \in Holders'
      PROVE  /\ FindRow(w) /\ roster' = roster
             /\ saw'[w].row \in DOMAIN roster /\ roster[saw'[w].row].here
  <2>1. Finds(w)' /\ saw'[w].row # 0 /\ ~saw'[w].left
    BY <1>2 DEF Holders, Holder
  <2>2. FindRow(w)
    BY <2>1, FindsStep
  <2> QED
    BY <2>1, <2>2, RowFound, RosterTypes DEF RowsOf
<1> QED
  BY <1>1, <1>2

LEMMA AdmittedStep ==
  ASSUME TypeOK, IdleInv, NEW w \in Workers, Start(w) \/ Step(w)
  PROVE  /\ Admitted' \ {w} \subseteq Admitted
         /\ w \in Admitted' \ Admitted =>
               /\ SeatAsked(w) /\ script' = script
               /\ Cardinality(Present) < Cap
         /\ TakeSeat(w) => w \notin Admitted'
<1>1. Admitted' \ {w} \subseteq Admitted
  BY Stand DEF Admitted
<1>2. ASSUME w \in Admitted', w \notin Admitted
      PROVE  /\ SeatAsked(w) /\ script' = script /\ Cardinality(Present) < Cap
  <2>1. script'[w] # <<>> /\ at'[w] # "call"
    BY <1>2 DEF Admitted
  <2>2. Step(w)
    BY <2>1, Begun DEF IdleInv
  <2>3. script' = script /\ script[w] # <<>>
    BY <2>1, <2>2, Moved
  <2>4. /\ Head(script[w]).do = "seat" /\ Head(script[w]).capped
        /\ at[w] = "call"
    BY <1>2, <2>3 DEF Admitted
  <2>5. SeatAsked(w)
    BY <2>2, <2>4 DEF Step, Doing, ReadMode, TurnOn, TurnOff, ClearRoster,
       FindRow, TakeSeat, MarkLeft, ReadAsks, RaiseAsk, CloseAsks, Answer,
       ReadFlags, Decide, Scan, PlaceNames
  <2>6. ~Refused(Head(script[w]))
    BY <2>1, <2>5 DEF SeatAsked, Return, Then, TypeOK
  <2>7. Cardinality(Present) \in Nat /\ Cap \in Nat
    BY RosterTypes, FS_CardinalityType, RoomAssumption
  <2> QED
    BY <2>3, <2>4, <2>5, <2>6, <2>7 DEF Refused
<1>3. TakeSeat(w) => w \notin Admitted'
  BY DEF TakeSeat, Then, Admitted, TypeOK
<1> QED
  BY <1>1, <1>2, <1>3

(* A row counts after a step only where it did before, or a capped seat was *)
(* taken in it.                                                             *)
LEMMA GuestRowsStep ==
  ASSUME TypeOK, IdleInv, FoundInv, NEW w \in Workers, Start(w) \/ Step(w)
  PROVE  \/ GuestRows' \subseteq GuestRows
         \/ /\ TakeSeat(w) /\ w \in Admitted
            /\ \E k : GuestRows' \subseteq GuestRows \cup {k}
<1>1. ASSUME NEW i \in GuestRows', i \in DOMAIN roster,
             roster[i].via = "guest", roster'[i].here => roster[i].here
      PROVE  i \in GuestRows
  <2>1. CASE roster'[i].here
    BY <1>1, <2>1 DEF GuestRows
  <2>2. CASE ~roster'[i].here
    <3>1. PICK x \in Holders' : saw'[x].row = i
      BY <2>2 DEF GuestRows
    <3>2. CASE x = w
      BY <1>1, <3>1, <3>2, HoldersStep DEF GuestRows
    <3>3. CASE x # w
      <4>1. x \in Holders /\ saw[x].row = i
        BY <3>1, <3>3, HoldersStep DEF Holders
      <4> QED
        BY <1>1, <4>1 DEF GuestRows
    <3> QED
      BY <3>2, <3>3
  <2> QED
    BY <2>1, <2>2
<1>2. CASE MarkLeft(w)
  <2>1. \A i \in GuestRows' : /\ i \in DOMAIN roster /\ roster[i].via = "guest"
                              /\ roster'[i].here => roster[i].here
    BY <1>2, LeftMarked DEF GuestRows
  <2> QED
    BY <1>1, <2>1
<1>3. CASE ~TakeSeat(w) /\ ~MarkLeft(w)
  <2>1. roster' = roster
    BY <1>3, OnlySeats
  <2>2. \A i \in GuestRows' : /\ i \in DOMAIN roster /\ roster[i].via = "guest"
                              /\ roster'[i].here => roster[i].here
    BY <2>1 DEF GuestRows
  <2> QED
    BY <1>1, <2>2
<1>4. CASE TakeSeat(w)
  <2> DEFINE c == Head(script[w])
             k == IF saw[w].row = 0 THEN Len(roster) + 1 ELSE saw[w].row
  <2>1. 0 \notin DOMAIN roster
    BY RosterTypes
  <2>2. \A i \in DOMAIN roster' \ {k} : i \in DOMAIN roster /\ roster'[i] = roster[i]
    BY <1>4, <2>1, SeatTaken
  <2>3. GuestRows' \subseteq GuestRows \cup {k}
    <3>1. \A i \in GuestRows' \ {k} :
            /\ i \in DOMAIN roster /\ roster[i].via = "guest"
            /\ roster'[i].here => roster[i].here
      BY <2>2 DEF GuestRows
    <3> QED
      BY <1>1, <3>1
  <2>4. CASE c.capped
    <3>1. w \in Admitted
      BY <1>4, <2>4 DEF TakeSeat, Doing, Admitted
    <3> QED
      BY <1>4, <2>3, <3>1
  <2>5. CASE ~c.capped
    <3>1. k \in GuestRows' => k \in GuestRows
      <4> SUFFICES ASSUME k \in GuestRows' PROVE k \in GuestRows
        OBVIOUS
      <4>1. roster'[k].via = "guest"
        BY DEF GuestRows
      <4>2. saw[w].row # 0 /\ ~saw[w].left /\ roster[k].via = "guest"
            /\ k \in DOMAIN roster
        BY <1>4, <2>1, <2>5, <4>1, SeatTaken
      <4>3. w \in Holders
        BY <1>4, <2>5, <4>2 DEF TakeSeat, Holders, Holder, Finds
      <4> QED
        BY <4>2, <4>3 DEF GuestRows
    <3> QED
      BY <2>3, <3>1
  <2> QED
    BY <2>4, <2>5
<1> QED
  BY <1>2, <1>3, <1>4

LEMMA CapStep ==
  TypeOK /\ IdleInv /\ FoundInv /\ CapInv /\ [Next]_vars => CapInv'
<1> SUFFICES ASSUME TypeOK, IdleInv, FoundInv, CapInv, [Next]_vars PROVE CapInv'
  OBVIOUS
<1>0. /\ IsFiniteSet(GuestRows) /\ Cardinality(GuestRows) \in Nat
      /\ Admitted \in SUBSET Workers /\ Admitted' \in SUBSET Workers
      /\ Bound \in Nat /\ Bound' = Bound
      /\ Cardinality(GuestRows) + Cardinality(Admitted) <= Bound
  BY CapTypes DEF CapInv, Admitted, Bound
<1>1. ASSUME GuestRows' \subseteq GuestRows, Admitted' \subseteq Admitted
      PROVE  CapInv'
  BY <1>0, <1>1, Jobs, Fewer DEF CapInv
<1>2. CASE UNCHANGED <<roster, jobVars>>
  <2>1. GuestRows' = GuestRows /\ Admitted' = Admitted
    BY <1>2 DEF jobVars, GuestRows, Holders, Holder, Finds, Doing, Admitted
  <2> QED
    BY <1>1, <2>1
<1>3. ASSUME NEW w \in Workers, Start(w) \/ Step(w) PROVE CapInv'
  <2>1. CASE w \in Admitted' \ Admitted
    <3>1. SeatAsked(w) /\ script' = script /\ Cardinality(Present) < Cap
      BY <1>3, <2>1, AdmittedStep
    <3>2. GuestRows' \subseteq GuestRows
      BY <1>3, <3>1, GuestRowsStep DEF SeatAsked, TakeSeat, Doing
    <3> DEFINE H == {saw[x].row : x \in Holders}
    <3>3. /\ IsFiniteSet(H) /\ Cardinality(H) \in Nat
          /\ Cardinality(H) <= Cardinality(Holders)
      BY HeldRows, FS_CardinalityType
    <3>4. IsFiniteSet(Present) /\ Cardinality(Present) \in Nat
      BY RosterTypes, FS_CardinalityType
    <3>5. Holders \cap Admitted' = {}
      <4>1. ASSUME NEW x \in Holders, x \in Admitted' PROVE FALSE
        <5>1. Head(script[x]).capped
          BY <3>1, <4>1 DEF Admitted
        <5> QED
          BY <4>1, <5>1 DEF Holders, Holder
      <4> QED
        BY <4>1
    <3>6. Cardinality(Holders) + Cardinality(Admitted') <= Cardinality(Workers)
      <4>1. Holders \in SUBSET Workers /\ Holders \cup Admitted' \in SUBSET Workers
        BY <1>0, CapTypes
      <4>2. /\ IsFiniteSet(Holders) /\ IsFiniteSet(Admitted')
            /\ Cardinality(Holders) \in Nat /\ Cardinality(Admitted') \in Nat
            /\ Cardinality(Holders \cup Admitted') <= Cardinality(Workers)
        BY <1>0, <4>1, Jobs
      <4>3. Cardinality(Holders \cup Admitted')
              = Cardinality(Holders) + Cardinality(Admitted') - Cardinality({})
        BY <3>5, <4>2, FS_Union
      <4> QED
        BY <4>2, <4>3, FS_EmptySet
    <3>7. Cardinality(GuestRows) <= Cardinality(Present) + Cardinality(H)
      <4>1. /\ IsFiniteSet(Present \cup H) /\ Cardinality(Present \cap H) \in Nat
            /\ Cardinality(Present \cup H)
                 = Cardinality(Present) + Cardinality(H) - Cardinality(Present \cap H)
        <5>1. IsFiniteSet(Present \cap H)
          BY <3>4, FS_Subset
        <5> QED
          BY <3>3, <3>4, <5>1, FS_Union, FS_CardinalityType
      <4>2. GuestRows \subseteq Present \cup H
        BY CapTypes
      <4> HIDE DEF H
      <4> QED
        BY <1>0, <3>3, <3>4, <4>1, <4>2, Fewer
    <3>8. Cardinality(GuestRows') \in Nat
          /\ Cardinality(GuestRows') <= Cardinality(GuestRows)
      BY <1>0, <3>2, Fewer
    <3>9. /\ Cap \in Nat /\ Bound = Cap - 1 + Cardinality(Workers)
          /\ Cardinality(Workers) \in Nat
          /\ Cardinality(Admitted') \in Nat /\ Cardinality(Holders) \in Nat
      <4>1. Cap \in Nat /\ Cap # 0
        BY <3>1, <3>4, RoomAssumption
      <4> QED
        BY <1>0, <4>1, CapTypes, Jobs DEF Bound
    <3> HIDE DEF H
    <3> QED
      BY <1>0, <3>1, <3>3, <3>4, <3>6, <3>7, <3>8, <3>9 DEF CapInv
  <2>2. CASE ~(w \in Admitted' \ Admitted)
    <3>1. Admitted' \subseteq Admitted
      BY <1>3, <2>2, AdmittedStep
    <3>2. CASE GuestRows' \subseteq GuestRows
      BY <1>1, <3>1, <3>2
    <3>3. CASE /\ TakeSeat(w) /\ w \in Admitted
               /\ \E k : GuestRows' \subseteq GuestRows \cup {k}
      <4>1. PICK k : GuestRows' \subseteq GuestRows \cup {k}
        BY <3>3
      <4>2. w \notin Admitted'
        BY <1>3, <3>3, AdmittedStep
      <4>3. Cardinality(Admitted') <= Cardinality(Admitted) - 1
        BY <1>0, <3>1, <3>3, <4>2, Jobs, OneFewer
      <4>4. Cardinality(GuestRows') <= Cardinality(GuestRows) + 1
            /\ Cardinality(GuestRows') \in Nat
        BY <1>0, <4>1, OneMore
      <4> QED
        BY <1>0, <4>3, <4>4, Jobs DEF CapInv
    <3> QED
      BY <1>3, <3>2, <3>3, GuestRowsStep
  <2> QED
    BY <2>1, <2>2
<1> QED
  BY <1>2, <1>3 DEF Next, Dismiss, vars, roomVars, jobVars

-----------------------------------------------------------------------------
(* The inductive invariant.                                                *)

IInv ==
  /\ TypeOK /\ IdleInv /\ SoloInv /\ AskInv
  /\ FoundInv /\ RowsInv /\ CapInv

LEMMA InitIInv == Init => IInv
<1> SUFFICES ASSUME Init PROVE IInv
  OBVIOUS
<1>1. TypeOK
  BY InitTypes
<1>2. /\ \A w \in Workers : script[w] = <<>> /\ at[w] = "call"
      /\ DOMAIN roster = {} /\ asks = 0 /\ ~roomOn /\ ~soloOff
  BY DEF Init
<1>3. IdleInv /\ SoloInv /\ FoundInv
  BY <1>2 DEF IdleInv, SoloInv, FoundInv, Finds, Doing
<1>4. /\ Askers = {} /\ Admitted = {} /\ GuestRows = {}
      /\ \A p \in People : RowsOf(p) = {} /\ Seekers(p) = {}
  BY <1>2 DEF Askers, Admitted, GuestRows, RowsOf, Seekers, Finds, Doing
<1>5. Cardinality(Workers) \in Nat /\ Bound \in Nat /\ Cardinality({}) = 0
  BY <1>1, Jobs, CapTypes, FS_EmptySet
<1>6. AskInv /\ CapInv
  BY <1>2, <1>4, <1>5 DEF AskInv, CapInv
<1>7. RowsInv
  <2>1. \A p \in People : Cardinality(RowsOf(p)) = 0 /\ Cardinality(Seekers(p)) = 0
    BY <1>4, <1>5
  <2> QED
    BY <1>5, <2>1 DEF RowsInv
<1> QED
  BY <1>1, <1>3, <1>6, <1>7 DEF IInv

LEMMA NextIInv == IInv /\ [Next]_vars => IInv'
BY TypeStep, IdleStep, SoloStep, AskStep, FoundStep, RowsStep, CapStep DEF IInv

LEMMA Invariance == Spec => []IInv
<1>1. Init => IInv
  BY InitIInv
<1>2. IInv /\ [Next]_vars => IInv'
  BY NextIInv
<1> QED
  BY <1>1, <1>2, PTL DEF Spec

-----------------------------------------------------------------------------

(* Every variable keeps its type.                                          *)
THEOREM TypeCorrect == Spec => []TypeOK
BY Invariance, PTL DEF IInv

(* room_state.seat: the guests the jobs seat exceed the cap by at most the *)
(* other jobs under way, however their calls are interleaved.              *)
THEOREM CapAlwaysHolds == Spec => []CapHolds
<1>1. IInv => CapHolds
  <2> SUFFICES ASSUME IInv PROVE CapHolds
    OBVIOUS
  <2>1. {i \in Present : roster[i].via = "guest"} \subseteq GuestRows
    BY DEF Present, GuestRows
  <2>2. /\ IsFiniteSet(GuestRows) /\ Cardinality(GuestRows) \in Nat
        /\ Bound \in Nat /\ Admitted \in SUBSET Workers
    BY CapTypes DEF IInv
  <2>3. Cardinality({i \in Present : roster[i].via = "guest"}) <= Bound
    BY <2>1, <2>2, Fewer, Jobs DEF IInv, CapInv
  <2> QED
    BY <2>3 DEF CapHolds, Bound
<1> QED
  BY <1>1, Invariance, PTL

(* db.add_room_person: a name has one row, or as many as there are jobs    *)
(* that looked for it before the first was written.                        *)
THEOREM RowsAreReused == Spec => []RowsReused
<1>1. IInv => RowsReused
  <2> SUFFICES ASSUME IInv, NEW p \in People
               PROVE  Cardinality(RowsOf(p)) <= Cardinality(Workers)
    BY DEF RowsReused
  <2>1. /\ IsFiniteSet(RowsOf(p)) /\ Cardinality(RowsOf(p)) \in Nat
        /\ Seekers(p) \in SUBSET Workers
    BY RosterTypes, FS_Subset, FS_CardinalityType DEF IInv, RowsOf, Seekers
  <2> QED
    BY <2>1, Jobs DEF IInv, RowsInv
<1> QED
  BY <1>1, Invariance, PTL

(* voice_ask: asks are not stacked, whatever the jobs.                     *)
THEOREM AsksNeverStacked == Spec => []AsksNotStacked
<1>1. IInv => AsksNotStacked
  <2> SUFFICES ASSUME IInv PROVE asks <= Cardinality(Workers)
    BY DEF AsksNotStacked
  <2>1. asks \in Nat /\ Askers \in SUBSET Workers
    BY DEF IInv, TypeOK, Askers
  <2> QED
    BY <2>1, Jobs DEF IInv, AskInv
<1> QED
  BY <1>1, Invariance, PTL

(* Only a pass that had found solo mode unset, the last time it was set,   *)
(* turns the room on in spite of it.                                       *)
THEOREM SoloAlwaysUnlessOvertaken == Spec => []SoloUnlessOvertaken
BY Invariance, PTL DEF IInv, SoloInv, SoloUnlessOvertaken

-----------------------------------------------------------------------------
(* The notes.  A pass writes from what it read: SnapInv says that what it  *)
(* read was covered, and still is, when it comes to write; ProjInv, that a *)
(* pass nobody overtook knows all the notes there are.                     *)

SnapInv ==
  \A p \in Passes :
    /\ snap[p].summary.of = 1..snap[p].summary.upto
    /\ \A i \in 1..snap[p].noted : <<chatOf[p], i>> \in notes \cup dropped

ProjInv ==
  \A p \in Passes : pc[p] = "notes" /\ p \notin raced => notes \subseteq proj[p]

NotesInv ==
  /\ Notes!TypeOK /\ Notes!SummaryCovers /\ Notes!NotesKept
  /\ SnapInv /\ ProjInv

LEMMA NoRows == 1..0 = {}
OBVIOUS

LEMMA NotesInit == Notes!Init => NotesInv
<1> SUFFICES ASSUME Notes!Init
             PROVE  NotesInv
  OBVIOUS
<1>1. Notes!TypeOK
  <2>1. 0 \in 0..MaxRows /\ 0 \in -1..MaxRows /\ 0 \in 0..MaxRenames
    BY NotesAssumption
  <2>2. [of |-> {}, upto |-> 0] \in Notes!Summary
    BY <2>1 DEF Notes!Summary
  <2>3. [by |-> "first", upto |-> 0] \in Notes!Title
    BY <2>1 DEF Notes!Title
  <2>4. \A p \in Passes : Notes!Row(chatOf[p]) \in Notes!Snap
    BY <2>1, <2>2, <2>3 DEF Notes!Init, Notes!Row, Notes!Snap
  <2> QED
    BY <2>1, <2>2, <2>3, <2>4 DEF Notes!Init, Notes!TypeOK
<1>2. Notes!SummaryCovers /\ Notes!NotesKept
  BY NoRows DEF Notes!Init, Notes!SummaryCovers, Notes!NotesKept
<1>3. SnapInv /\ ProjInv
  BY NoRows DEF Notes!Init, Notes!Row, SnapInv, ProjInv
<1> QED
  BY <1>1, <1>2, <1>3 DEF NotesInv

(* A fold extends a summary that covers its rows to one that does.         *)
LEMMA FoldCovers ==
  ASSUME NotesInv, NEW p \in Passes, Notes!Fold(p)
  PROVE  /\ Notes!Folded(p) \in Notes!Summary
         /\ Notes!Folded(p).of = 1..Notes!Folded(p).upto
<1> DEFINE from == snap[p].summary.upto
           to   == seen[p] - Keep
<1>1. /\ from \in 0..MaxRows /\ to \in Int /\ from < to /\ to <= MaxRows
      /\ snap[p].summary.of = 1..from
  BY NotesAssumption DEF NotesInv, Notes!TypeOK, Notes!Snap, Notes!Summary, SnapInv,
     Notes!Fold
<1>2. Notes!Folded(p) = [of |-> 1..from \cup (from + 1)..to, upto |-> to]
  BY <1>1 DEF Notes!Folded
<1> HIDE DEF from, to
<1>3. 1..from \cup (from + 1)..to = 1..to
  BY <1>1
<1>4. 1..to \subseteq Notes!Ids /\ to \in 0..MaxRows
  BY <1>1, NotesAssumption DEF Notes!Ids
<1> QED
  BY <1>2, <1>3, <1>4 DEF Notes!Summary

(* What a pass writes holds every row noted before, unless it is one that  *)
(* others overtook; then what it loses is counted as dropped.              *)
LEMMA WriteKeeps ==
  ASSUME NotesInv, NEW p \in Passes, Notes!WriteNotes(p)
  PROVE  /\ notes \cup dropped \subseteq notes' \cup dropped'
         /\ \A i \in 1..seen[p] : <<chatOf[p], i>> \in notes' \cup dropped'
<1>1. /\ notes' = proj[p] \cup Notes!NewFor(p)
      /\ dropped' = (IF p \in raced THEN dropped \cup (notes \ notes') ELSE dropped)
                      \ notes'
      /\ pc[p] = "notes"
  BY DEF Notes!WriteNotes
<1>2. p \notin raced => notes \subseteq notes'
  BY <1>1 DEF NotesInv, ProjInv
<1>3. notes \cup dropped \subseteq notes' \cup dropped'
  BY <1>1, <1>2
<1>4. ASSUME NEW i \in 1..seen[p]
      PROVE  <<chatOf[p], i>> \in notes' \cup dropped'
  <2>1. snap[p].noted \in Int /\ seen[p] \in Int
    BY NotesAssumption DEF NotesInv, Notes!TypeOK, Notes!Snap
  <2>2. CASE i \in 1..snap[p].noted
    BY <2>2, <1>3 DEF NotesInv, SnapInv
  <2>3. CASE i \in (snap[p].noted + 1)..seen[p]
    BY <2>3, <1>1 DEF Notes!NewFor
  <2> QED
    BY <2>1, <2>2, <2>3
<1> QED
  BY <1>3, <1>4

LEMMA NotesTypes == NotesInv /\ [Notes!Next]_(Notes!vars) => Notes!TypeOK'
<1> SUFFICES ASSUME NotesInv, [Notes!Next]_(Notes!vars)
             PROVE  Notes!TypeOK'
  OBVIOUS
<1>0. Notes!TypeOK
  BY DEF NotesInv
<1> USE DEF Notes!chatVars, Notes!passVars, Notes!ghostVars
<1>1. ASSUME NEW c \in Chats, Notes!RowLands(c)
      PROVE  Notes!TypeOK'
  <2>1. rows[c] + 1 \in 0..MaxRows
    BY <1>0, <1>1, NotesAssumption DEF Notes!TypeOK, Notes!RowLands
  <2> QED
    BY <1>0, <1>1, <2>1 DEF Notes!TypeOK, Notes!RowLands
<1>2. ASSUME NEW c \in Chats, Notes!Rename(c)
      PROVE  Notes!TypeOK'
  <2>1. renames + 1 \in 0..MaxRenames
    BY <1>0, <1>2, NotesAssumption DEF Notes!TypeOK, Notes!Rename
  <2>2. [by |-> "person", upto |-> -1] \in Notes!Title
    BY NotesAssumption DEF Notes!Title
  <2> QED
    BY <1>0, <1>2, <2>1, <2>2 DEF Notes!TypeOK, Notes!Rename
<1>3. ASSUME NEW p \in Passes, Notes!Start(p)
      PROVE  Notes!TypeOK'
  <2>1. chatOf[p] \in Chats
    BY <1>0 DEF Notes!TypeOK
  <2>2. Notes!Row(chatOf[p]) \in Notes!Snap /\ rows[chatOf[p]] \in 0..MaxRows
    BY <1>0, <2>1 DEF Notes!TypeOK, Notes!Row, Notes!Snap
  <2>3. kind' \in [Passes -> {"round", "leave"}]
    BY <1>0, <1>3 DEF Notes!TypeOK, Notes!Start
  <2> QED
    BY <1>0, <1>3, <2>2, <2>3 DEF Notes!TypeOK, Notes!Start
<1>4. ASSUME NEW p \in Passes, Notes!Fold(p)
      PROVE  Notes!TypeOK'
  <2>1. Notes!Folded(p) \in Notes!Summary
    BY <1>4, FoldCovers
  <2> QED
    BY <1>0, <1>4, <2>1 DEF Notes!TypeOK, Notes!Fold, Notes!AfterFold
<1>5. ASSUME NEW p \in Passes, Notes!NoFold(p)
      PROVE  Notes!TypeOK'
  BY <1>0, <1>5 DEF Notes!TypeOK, Notes!NoFold, Notes!AfterFold
<1>6. ASSUME NEW p \in Passes, Notes!ReadProject(p)
      PROVE  Notes!TypeOK'
  BY <1>0, <1>6 DEF Notes!TypeOK, Notes!ReadProject
<1>7. ASSUME NEW p \in Passes, Notes!WriteNotes(p)
      PROVE  Notes!TypeOK'
  <2>1. Notes!NewFor(p) \subseteq Chats \X Notes!Ids
    <3>1. /\ chatOf[p] \in Chats /\ seen[p] \in 0..MaxRows
          /\ snap[p].noted \in 0..MaxRows
      BY <1>0 DEF Notes!TypeOK, Notes!Snap
    <3>2. \A i \in (snap[p].noted + 1)..seen[p] : i \in Notes!Ids
      BY <3>1, NotesAssumption DEF Notes!Ids
    <3> QED
      BY <3>1, <3>2 DEF Notes!NewFor
  <2>2. /\ notes' \subseteq Chats \X Notes!Ids /\ dropped' \subseteq Chats \X Notes!Ids
        /\ raced' \subseteq Passes
    BY <1>0, <1>7, <2>1 DEF Notes!TypeOK, Notes!WriteNotes
  <2>3. noted' \in [Chats -> 0..MaxRows]
    BY <1>0, <1>7 DEF Notes!TypeOK, Notes!WriteNotes
  <2> QED
    BY <1>0, <1>7, <2>2, <2>3 DEF Notes!TypeOK, Notes!WriteNotes
<1>8. ASSUME NEW p \in Passes, Notes!NoNotes(p)
      PROVE  Notes!TypeOK'
  BY <1>0, <1>8 DEF Notes!TypeOK, Notes!NoNotes
<1>9. ASSUME NEW p \in Passes, Notes!Retitle(p)
      PROVE  Notes!TypeOK'
  <2>1. [by |-> "model", upto |-> seen[p]] \in Notes!Title
    BY <1>0, NotesAssumption DEF Notes!TypeOK, Notes!Title
  <2> QED
    BY <1>0, <1>9, <2>1 DEF Notes!TypeOK, Notes!Retitle
<1>10. ASSUME NEW p \in Passes, Notes!NoTitle(p)
       PROVE  Notes!TypeOK'
  BY <1>0, <1>10 DEF Notes!TypeOK, Notes!NoTitle
<1>11. CASE UNCHANGED Notes!vars
  BY <1>0, <1>11 DEF Notes!TypeOK, Notes!vars
<1> QED
  BY <1>1, <1>2, <1>3, <1>4, <1>5, <1>6, <1>7, <1>8, <1>9, <1>10, <1>11
     DEF Notes!Next

(* Steps that write neither the summaries nor the notes, and after which a *)
(* pass knows what it knew, or what is there now.                          *)
LEMMA NotesRest ==
  ASSUME NotesInv, UNCHANGED <<summary, notes, noted, chatOf, dropped>>,
         \A p \in Passes :
           \/ snap'[p] = snap[p]
           \/ /\ chatOf[p] \in Chats
              /\ snap'[p] = Notes!Row(chatOf[p]),
         \A p \in Passes : pc'[p] = "notes" /\ p \notin raced' =>
           \/ pc[p] = "notes" /\ p \notin raced /\ proj'[p] = proj[p]
           \/ proj'[p] = notes
  PROVE  Notes!SummaryCovers' /\ Notes!NotesKept' /\ SnapInv' /\ ProjInv'
<1>1. Notes!SummaryCovers' /\ Notes!NotesKept'
  BY DEF NotesInv, Notes!SummaryCovers, Notes!NotesKept
<1>2. \A p \in Passes :
        /\ snap'[p].summary.of = 1..snap'[p].summary.upto
        /\ \A i \in 1..snap'[p].noted : <<chatOf[p], i>> \in notes \cup dropped
  <2> SUFFICES ASSUME NEW p \in Passes
               PROVE  /\ snap'[p].summary.of = 1..snap'[p].summary.upto
                      /\ \A i \in 1..snap'[p].noted :
                           <<chatOf[p], i>> \in notes \cup dropped
    OBVIOUS
  <2>1. CASE snap'[p] = snap[p]
    BY <2>1 DEF NotesInv, SnapInv
  <2>2. CASE chatOf[p] \in Chats /\ snap'[p] = Notes!Row(chatOf[p])
    <3>1. /\ snap'[p].summary = summary[chatOf[p]]
          /\ snap'[p].noted = noted[chatOf[p]]
      BY <2>2 DEF Notes!Row
    <3> QED
      BY <2>2, <3>1 DEF NotesInv, Notes!SummaryCovers, Notes!NotesKept
  <2> QED
    BY <2>1, <2>2
<1>3. SnapInv'
  BY <1>2 DEF SnapInv
<1>4. ProjInv'
  BY DEF NotesInv, ProjInv
<1> QED
  BY <1>1, <1>3, <1>4

LEMMA NotesStep == NotesInv /\ [Notes!Next]_(Notes!vars) => NotesInv'
<1> SUFFICES ASSUME NotesInv, [Notes!Next]_(Notes!vars)
             PROVE  NotesInv'
  OBVIOUS
<1> DEFINE Kept == Notes!SummaryCovers' /\ Notes!NotesKept' /\ SnapInv' /\ ProjInv'
<1>0. Notes!TypeOK /\ Notes!TypeOK'
  BY NotesTypes DEF NotesInv
<1> USE DEF Notes!chatVars, Notes!passVars, Notes!ghostVars
<1>1. ASSUME NEW c \in Chats, Notes!RowLands(c) \/ Notes!Rename(c)
      PROVE  Kept
  <2>1. UNCHANGED <<summary, notes, noted, chatOf, dropped, snap, pc, proj, raced>>
    BY <1>1 DEF Notes!RowLands, Notes!Rename
  <2> QED
    BY <2>1, NotesRest
<1>2. ASSUME NEW p \in Passes, Notes!Start(p)
      PROVE  Kept
  <2>1. /\ UNCHANGED <<summary, notes, noted, chatOf, dropped, proj, raced>>
        /\ snap' = [snap EXCEPT ![p] = Notes!Row(chatOf[p])]
        /\ pc' = [pc EXCEPT ![p] = "fold"]
    BY <1>2 DEF Notes!Start
  <2>2. \A q \in Passes : snap'[q] = IF q = p THEN Notes!Row(chatOf[p]) ELSE snap[q]
    BY <1>0, <2>1 DEF Notes!TypeOK
  <2>3. \A q \in Passes : pc'[q] = "notes" => pc[q] = "notes"
    BY <1>0, <2>1 DEF Notes!TypeOK
  <2>4. chatOf[p] \in Chats
    BY <1>0 DEF Notes!TypeOK
  <2> QED
    BY <2>1, <2>2, <2>3, <2>4, NotesRest
<1>3. ASSUME NEW p \in Passes, Notes!Fold(p)
      PROVE  Kept
  <2>1. /\ UNCHANGED <<notes, noted, chatOf, dropped, snap, proj, raced>>
        /\ summary' = [summary EXCEPT ![chatOf[p]] = Notes!Folded(p)]
    BY <1>3 DEF Notes!Fold
  <2>2. \A q \in Passes : pc'[q] = "notes" => pc[q] = "notes"
    BY <1>0, <1>3 DEF Notes!TypeOK, Notes!Fold, Notes!AfterFold
  <2>3. Notes!SummaryCovers'
    <3>1. \A c \in Chats :
            summary'[c] = IF c = chatOf[p] THEN Notes!Folded(p) ELSE summary[c]
      BY <1>0, <2>1 DEF Notes!TypeOK
    <3>2. \A c \in Chats : summary'[c].of = 1..summary'[c].upto
      BY <3>1, <1>3, FoldCovers DEF NotesInv, Notes!SummaryCovers
    <3> QED
      BY <3>2 DEF Notes!SummaryCovers
  <2>4. Notes!NotesKept' /\ SnapInv' /\ ProjInv'
    BY <2>1, <2>2 DEF NotesInv, Notes!NotesKept, SnapInv, ProjInv
  <2> QED
    BY <2>3, <2>4
<1>4. ASSUME NEW p \in Passes,
             Notes!NoFold(p) \/ Notes!NoNotes(p) \/ Notes!Retitle(p) \/ Notes!NoTitle(p)
      PROVE  Kept
  <2>1. UNCHANGED <<summary, notes, noted, chatOf, dropped, snap, proj, raced>>
    BY <1>4 DEF Notes!NoFold, Notes!NoNotes, Notes!Retitle, Notes!NoTitle
  <2>2. \A q \in Passes : pc'[q] = "notes" => pc[q] = "notes"
    BY <1>0, <1>4 DEF Notes!TypeOK, Notes!NoFold, Notes!NoNotes, Notes!Retitle,
       Notes!NoTitle, Notes!AfterFold
  <2> QED
    BY <2>1, <2>2, NotesRest
<1>5. ASSUME NEW p \in Passes, Notes!ReadProject(p)
      PROVE  Kept
  <2>1. /\ UNCHANGED <<summary, notes, noted, chatOf, dropped, snap>>
        /\ proj' = [proj EXCEPT ![p] = notes] /\ raced' = raced \ {p}
        /\ pc' = [pc EXCEPT ![p] = "notes"]
    BY <1>5 DEF Notes!ReadProject
  <2>2. \A q \in Passes :
          /\ proj'[q] = IF q = p THEN notes ELSE proj[q]
          /\ q # p => pc'[q] = pc[q] /\ (q \in raced' <=> q \in raced)
    BY <1>0, <2>1 DEF Notes!TypeOK
  <2> QED
    BY <2>1, <2>2, NotesRest
<1>6. ASSUME NEW p \in Passes, Notes!WriteNotes(p)
      PROVE  Kept
  <2>1. /\ UNCHANGED <<summary, snap, chatOf, proj>>
        /\ noted' = [noted EXCEPT ![chatOf[p]] = seen[p]]
        /\ raced' = raced \cup {q \in Passes \ {p} : pc[q] = "notes"}
        /\ pc' = [pc EXCEPT ![p] = "title"]
    BY <1>6 DEF Notes!WriteNotes
  <2>2. /\ notes \cup dropped \subseteq notes' \cup dropped'
        /\ \A i \in 1..seen[p] : <<chatOf[p], i>> \in notes' \cup dropped'
    BY <1>6, WriteKeeps
  <2>3. Notes!SummaryCovers'
    BY <2>1 DEF NotesInv, Notes!SummaryCovers
  <2>4. Notes!NotesKept'
    <3>1. \A c \in Chats : noted'[c] = IF c = chatOf[p] THEN seen[p] ELSE noted[c]
      BY <1>0, <2>1 DEF Notes!TypeOK
    <3>2. \A c \in Chats : \A i \in 1..noted'[c] : <<c, i>> \in notes' \cup dropped'
      BY <3>1, <2>2 DEF NotesInv, Notes!NotesKept
    <3> QED
      BY <3>2 DEF Notes!NotesKept
  <2>5. SnapInv'
    <3>1. \A q \in Passes : \A i \in 1..snap[q].noted :
            <<chatOf[q], i>> \in notes' \cup dropped'
      BY <2>2 DEF NotesInv, SnapInv
    <3> QED
      BY <2>1, <3>1 DEF NotesInv, SnapInv
  <2>6. ProjInv'
    <3>1. \A q \in Passes : ~ (pc'[q] = "notes" /\ q \notin raced')
      BY <1>0, <2>1 DEF Notes!TypeOK
    <3> QED
      BY <3>1 DEF ProjInv
  <2> QED
    BY <2>3, <2>4, <2>5, <2>6
<1>7. ASSUME UNCHANGED Notes!vars
      PROVE  Kept
  <2>1. UNCHANGED <<summary, notes, noted, chatOf, dropped, snap, pc, proj, raced>>
    BY <1>7 DEF Notes!vars
  <2> QED
    BY <2>1, NotesRest
<1> HIDE DEF Kept
<1>8. Kept
  BY <1>1, <1>2, <1>3, <1>4, <1>5, <1>6, <1>7 DEF Notes!Next
<1> QED
  BY <1>0, <1>8 DEF Kept, NotesInv

LEMMA NotesInvariance == Notes!Spec => []NotesInv
BY NotesInit, NotesStep, PTL DEF Notes!Spec

(* Each part goes on as it would alone.                                    *)
THEOREM PartsAlone == MCSpec => Spec /\ Notes!Spec
<1>1. MCInit => Init /\ Notes!Init
  BY DEF MCInit
<1>2. [MCNext]_<<part, vars, noteState>> => [Next]_vars /\ [Notes!Next]_(Notes!vars)
  <2>1. UNCHANGED noteState => UNCHANGED Notes!vars
    BY DEF noteState, Notes!vars, Notes!chatVars, Notes!passVars, Notes!ghostVars
  <2> QED
    BY <2>1 DEF MCNext
<1> QED
  BY <1>1, <1>2, PTL DEF MCSpec, Spec, Notes!Spec

(* The types of Reflection.                                                *)
THEOREM NotesTypeCorrect == MCSpec => []Notes!TypeOK
BY PartsAlone, NotesInvariance, PTL DEF NotesInv

(* chat_memory.maybe_summarize: passes that overlap write whole summaries  *)
(* with their watermark, so summary_upto never says more, or less, than    *)
(* the summary beside it covers.                                           *)
THEOREM SummaryAlwaysCovers == MCSpec => []SummaryCovers
BY PartsAlone, NotesInvariance, PTL DEF NotesInv, SummaryCovers

(* chat_memory.distill_project_memory: only a pass that another overtook   *)
(* writes over a row that the watermark calls noted.                       *)
THEOREM NotesAlwaysKept == MCSpec => []NotesKept
BY PartsAlone, NotesInvariance, PTL DEF NotesInv, NotesKept

=============================================================================
