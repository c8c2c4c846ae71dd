------------------------ MODULE MemoryHandoffProofs ------------------------
(***************************************************************************)
(* Theorems about MemoryHandoff: its types, what the watermark promises,   *)
(* what the reconcile can still see, and what it makes whole.              *)
(***************************************************************************)
EXTENDS MemoryHandoff, FiniteSetTheorems, TLAPS

(* The inductive invariant.  Passed(m) is the promise of a watermark at m; *)
(* a pass carries it from where it reads the watermark, or the rows above  *)
(* it, to where it writes one.                                             *)

Passed(m) == \A i \in Said \ gone : i <= m => i \in held \cup excused

PassInvOf(p) ==
  /\ pc[p] \in {"ask", "wind"} => Passed(mark[p])
  /\ pc[p] = "send" =>
       \A i \in Said \ gone :
          i <= Highest(hand[p]) => i \in hand[p] \cup held \cup excused
  /\ pc[p] = "advance" => Passed(Highest(hand[p]))
  /\ p \in seeding => pc[p] \in {"read", "send", "advance", "done"}
  /\ pc[p] \in {"mark", "ask", "wind"} => Modern

PassInv == \A p \in Passes : PassInvOf(p)

(* The service holds nothing above a row that was passed over unnoticed.   *)
NoHoles ==
  \A i \in Said \ gone, h \in held : i < h => i \in held \cup excused

(* What a pass knows that had its reconcile answered and saw nobody else   *)
(* change the watermark or the archive since.                              *)
Opened == (excused \cap Said) \ (buried \cup gone)

CheckedInvOf(p) ==
  /\ Modern
  /\ p \notin seeding
  /\ p \in Others => pc[p] \notin {"idle", "pass", "begin", "mark"}
  /\ pc[p] = "ask" => mark[p] = upto
  /\ pc[p] = "wind" => mark[p] = Highest(held)
  /\ pc[p] = "read" => upto <= Highest(held)
  /\ pc[p] = "send" =>
       /\ \A i \in Opened : i > upto
       /\ \A i \in Said \ gone :
             i > upto => i \in hand[p] \/ \A h \in hand[p] : h < i
  /\ pc[p] = "advance" => \A i \in Opened : i > Highest(hand[p])
  /\ pc[p] = "distill" => \A i \in Opened : i > upto

CheckedInv == \A p \in checked : CheckedInvOf(p)

IInv ==
  /\ TypeOK /\ HandedOn /\ PassInv /\ NoHoles
  /\ GapsShow /\ CheckedInv

-----------------------------------------------------------------------------

(* A set of numbers up to n has a highest one: the smallest of its upper   *)
(* parts, which are finite, has one element, and that is it.               *)
LEMMA HighestIs ==
  ASSUME NEW n \in Nat, NEW S \in SUBSET (0..n)
  PROVE  /\ Highest(S) \in {0} \cup S
         /\ Highest(S) \in 0..n
         /\ \A x \in S : x <= Highest(S)
<1> DEFINE T == {0} \cup S
           Upper(x) == {y \in T : x <= y}
           Uppers == {Upper(x) : x \in T}
           F == FiniteSubsetsOf(0..n)
<1>0. T \subseteq 0..n
  OBVIOUS
<1>1. IsFiniteSet(0..n)
  BY FS_Interval
<1>2. ASSUME NEW x \in T PROVE Upper(x) \in F
  <2>1. Upper(x) \in SUBSET (0..n)
    <3> HIDE DEF T
    <3> QED
      BY <1>0
  <2>2. IsFiniteSet(Upper(x))
    BY <1>1, <2>1, FS_Subset
  <2> QED
    BY <2>1, <2>2 DEF FiniteSubsetsOf
<1>3. IsWellFoundedOn(StrictSubsetOrdering(0..n), F)
  BY FS_StrictSubsetOrderingWellFounded
<1>4. PICK m \in T :
        \A x \in T : ~(<<Upper(x), Upper(m)>> \in StrictSubsetOrdering(0..n))
  <2> HIDE DEF F, Upper
  <2>1. Uppers \subseteq F /\ Uppers # {}
    BY <1>2
  <2>2. \E U \in Uppers :
          \A V \in Uppers : ~(<<V, U>> \in StrictSubsetOrdering(0..n))
    <3> HIDE DEF Uppers
    <3> QED
      BY <1>3, <2>1, WFMin
  <2> QED
    BY <2>2
<1>5. \A y \in T : y <= m
  <2> SUFFICES ASSUME NEW y \in T, ~(y <= m) PROVE FALSE
    OBVIOUS
  <2> HIDE DEF T
  <2>1. m \in Int /\ y \in Int /\ m < y
    BY <1>0
  <2>2. Upper(y) \subseteq Upper(m) /\ m \in Upper(m) /\ m \notin Upper(y)
    <3>1. \A z \in T : y <= z => m <= z
      BY <1>0, <2>1
    <3>2. m <= m /\ ~(y <= m)
      BY <2>1
    <3> QED
      BY <3>1, <3>2, Zenon
  <2>3. Upper(y) \in SUBSET (0..n) /\ Upper(m) \in SUBSET (0..n)
    BY <1>0
  <2>4. <<Upper(y), Upper(m)>> \in StrictSubsetOrdering(0..n)
    <3> HIDE DEF Upper
    <3> QED
      BY <2>2, <2>3 DEF StrictSubsetOrdering
  <2> QED
    BY <1>4, <2>4
<1>6. T \subseteq 0..n /\ Highest(S) = Max(T)
  BY DEF Highest
<1>7. /\ Max(T) \in T
      /\ \A y \in T : Max(T) >= y
  <2> HIDE DEF T
  <2> QED
    BY <1>5, <1>6 DEF Max
<1> QED
  BY <1>6, <1>7

-----------------------------------------------------------------------------

(* What the types say of the highest of a set of rows.                     *)
LEMMA HighTypes ==
  ASSUME TypeOK
  PROVE  /\ Len(rows) \in Nat /\ DOMAIN rows = 1..Len(rows)
         /\ Len(rows) \in 0..MaxRows
         /\ Highest(held) \in 0..Len(rows)
         /\ Highest(held) \in {0} \cup held
         /\ \A h \in held : h <= Highest(held)
         /\ \A p \in Passes : /\ Highest(hand[p]) \in 0..Len(rows)
                              /\ hand[p] # {} => Highest(hand[p]) \in hand[p]
                              /\ \A h \in hand[p] : h <= Highest(hand[p])
<1>1. /\ Len(rows) \in Nat /\ DOMAIN rows = 1..Len(rows)
      /\ Len(rows) \in 0..MaxRows
  BY HandoffAssumption DEF TypeOK
<1>2. held \in SUBSET (0..Len(rows))
  BY <1>1 DEF TypeOK
<1>3. ASSUME NEW p \in Passes PROVE hand[p] \in SUBSET (1..Len(rows))
  BY <1>1 DEF TypeOK
<1>4. ASSUME NEW p \in Passes
      PROVE  /\ Highest(hand[p]) \in 0..Len(rows)
             /\ hand[p] # {} => Highest(hand[p]) \in hand[p]
             /\ \A h \in hand[p] : h <= Highest(hand[p])
  <2>1. hand[p] \in SUBSET (0..Len(rows))
    BY <1>1, <1>3
  <2> HIDE DEF TypeOK
  <2>2. /\ Highest(hand[p]) \in {0} \cup hand[p]
        /\ Highest(hand[p]) \in 0..Len(rows)
        /\ \A h \in hand[p] : h <= Highest(hand[p])
    BY <1>1, <2>1, HighestIs
  <2>3. \A h \in hand[p] : h \in Nat /\ 0 < h
    BY <1>1, <1>3
  <2>4. hand[p] # {} => Highest(hand[p]) # 0
    BY <2>2, <2>3
  <2> QED
    BY <2>2, <2>4, Zenon
<1> QED
  BY <1>1, <1>2, <1>4, HighestIs

(* Nothing has happened yet. *)
LEMMA InitIInv == Init => IInv
<1> SUFFICES ASSUME Init PROVE IInv
  OBVIOUS
<1>1. TypeOK
  BY HandoffAssumption DEF Init, TypeOK, States
<1> QED
  BY <1>1 DEF Init, IInv, HandedOn, PassInv, NoHoles, GapsShow, CheckedInv,
     Said, Passed, PassInvOf, CheckedInvOf, Opened

(* The rows a pass is given are rows of the chat, and not discarded ones.  *)
LEMMA RowsGiven ==
  ASSUME NEW p \in Passes
  PROVE  /\ RowsFor(p) \subseteq DOMAIN rows \ gone
         /\ p \notin seeding =>
              RowsFor(p) = {i \in Said \ gone : i > upto}
BY DEF RowsFor, Kept, Said

(* A row lands after all the others. *)
LEMMA RowAdded ==
  ASSUME TypeOK, NEW kind \in {"said", "note"}, RowLands(kind)
  PROVE  /\ rows' \in Seq({"said", "note"})
         /\ Len(rows') = Len(rows) + 1 /\ Len(rows') <= MaxRows
         /\ DOMAIN rows' = DOMAIN rows \cup {Len(rows) + 1}
         /\ DOMAIN rows \subseteq DOMAIN rows'
         /\ Said \subseteq Said' /\ Said' \subseteq Said \cup {Len(rows) + 1}
<1>1. rows \in Seq({"said", "note"}) /\ Len(rows) \in Nat /\ MaxRows \in Nat
  BY HandoffAssumption DEF TypeOK
<1>2. rows' = Append(rows, kind) /\ Len(rows) < MaxRows
  BY DEF RowLands
<1>3. /\ rows' \in Seq({"said", "note"})
      /\ Len(rows') = Len(rows) + 1
      /\ \A i \in 1..Len(rows) : rows'[i] = rows[i]
      /\ DOMAIN rows = 1..Len(rows) /\ DOMAIN rows' = 1..(Len(rows) + 1)
  BY <1>1, <1>2
<1> QED
  BY <1>1, <1>2, <1>3 DEF Said

(* Where a pass ends, the others are as they were. *)
LEMMA EndsOf ==
  ASSUME TypeOK, NEW p \in Passes, Ends(p)
  PROVE  /\ pc' \in [Passes -> States] /\ pc'[p] \in {"idle", "done"}
         /\ seeding' = seeding \ {p}
         /\ on' \in [Passes -> BOOLEAN]
         /\ mark' \in [Passes -> 0..Len(rows)]
         /\ hand' \in [Passes -> SUBSET DOMAIN rows] /\ hand'[p] = {}
         /\ \A q \in Passes : q # p =>
              pc'[q] = pc[q] /\ mark'[q] = mark[q] /\ hand'[q] = hand[q]
<1>1. 0 \in 0..Len(rows)
  BY HighTypes
<1> QED
  BY <1>1 DEF TypeOK, Ends, Goto, States

LEMMA GotoOf ==
  ASSUME TypeOK, NEW p \in Passes, NEW s \in States, Goto(p, s)
  PROVE  /\ pc' \in [Passes -> States] /\ pc'[p] = s
         /\ \A q \in Passes : q # p => pc'[q] = pc[q]
BY DEF TypeOK, Goto

LEMMA Counts ==
  ASSUME NEW n \in 0..MaxFaults, n < MaxFaults PROVE n + 1 \in 0..MaxFaults
BY HandoffAssumption

(* Every step keeps the types. *)
LEMMA TypeStep == TypeOK /\ [Next]_vars => TypeOK'
<1> SUFFICES ASSUME TypeOK, [Next]_vars PROVE TypeOK'
  OBVIOUS
<1> USE DEF TypeOK, chatVars, serviceVars, localVars, boundVars, ghostVars
<1>1. ASSUME NEW kind \in {"said", "note"}, RowLands(kind) PROVE TypeOK'
  <2>1. /\ rows' \in Seq({"said", "note"})
        /\ Len(rows') = Len(rows) + 1 /\ Len(rows') <= MaxRows
        /\ DOMAIN rows \subseteq DOMAIN rows'
    BY <1>1, RowAdded
  <2>2. 0..Len(rows) \subseteq 0..Len(rows')
    BY <2>1
  <2> QED
    BY <1>1, <2>1, <2>2 DEF RowLands
<1>2. ASSUME NEW i \in Ids, Discard(i) PROVE TypeOK'
  BY <1>2 DEF Discard, Said
<1>3. CASE Toggle
  BY <1>3, HandoffAssumption DEF Toggle
<1>4. CASE ServiceDown
  BY <1>4, Counts DEF ServiceDown
<1>5. CASE ServiceUp
  BY <1>5 DEF ServiceUp
<1>6. ASSUME NEW k \in Marks, Restore(k) PROVE TypeOK'
  BY <1>6, HandoffAssumption DEF Restore
<1>7. CASE Expire
  BY <1>7 DEF Expire
<1>8. CASE Restart
  BY <1>8, Counts, HighTypes DEF Restart, States
<1>9. ASSUME NEW p \in Passes, Leave(p) \/ (p = Sweep /\ SweepComes) PROVE TypeOK'
  BY <1>9 DEF Leave, SweepComes, Goto, States
<1>10. ASSUME NEW p \in Passes, Import(p) PROVE TypeOK'
  BY <1>10 DEF Import, Goto, States, Probe
<1>11. ASSUME NEW p \in Passes, Pass(p) PROVE TypeOK'
  <2> USE DEF Probe
  <2>0. States = {"idle", "pass", "begin", "mark", "ask", "wind", "read",
                  "send", "advance", "distill", "done"}
    BY DEF States
  <2>1. CASE PassOver(p)
    <3>1. CASE on[p]
      BY <2>0, <2>1, <3>1, GotoOf DEF PassOver
    <3>2. CASE ~on[p]
      BY <2>1, <3>2, EndsOf DEF PassOver
    <3> QED
      BY <3>1, <3>2
  <2>2. CASE Begin(p)
    <3>1. CASE Answers
      BY <2>0, <2>2, <3>1, GotoOf DEF Begin
    <3>2. CASE ~Answers
      BY <2>2, <3>2, EndsOf DEF Begin
    <3> QED
      BY <3>1, <3>2
  <2>3. CASE ReadMark(p)
    BY <2>0, <2>3, GotoOf DEF ReadMark
  <2>4. CASE AskHeld(p)
    BY <2>0, <2>4, GotoOf, HighTypes DEF AskHeld
  <2>5. CASE AskInVain(p)
    BY <2>0, <2>5, GotoOf, Counts DEF AskInVain
  <2>6. CASE WindBack(p)
    BY <2>0, <2>6, GotoOf DEF WindBack
  <2>7. CASE ReadRows(p)
    BY <2>0, <2>7, GotoOf, RowsGiven DEF ReadRows
  <2>8. CASE Send(p)
    BY <2>0, <2>8, GotoOf DEF Send, Take, Bury
  <2>9. CASE SendNothing(p)
    BY <2>0, <2>9, GotoOf DEF SendNothing, Bury
  <2>10. CASE SendRaises(p)
    BY <2>10, EndsOf, Counts DEF SendRaises, Take, Bury
  <2>11. CASE Advance(p)
    <3>1. upto' \in 0..Len(rows)
      BY <2>11, HighTypes DEF Advance
    <3>2. CASE p \in seeding
      BY <2>11, <3>1, <3>2, EndsOf DEF Advance
    <3>3. CASE p \notin seeding
      BY <2>0, <2>11, <3>1, <3>3, GotoOf DEF Advance
    <3> QED
      BY <3>2, <3>3
  <2>12. CASE Distill(p)
    BY <2>12, EndsOf, Counts DEF Distill
  <2> QED
    BY <1>11, <2>1, <2>2, <2>3, <2>4, <2>5, <2>6, <2>7, <2>8, <2>9, <2>10,
       <2>11, <2>12 DEF Pass
<1>12. CASE UNCHANGED vars
  BY <1>12 DEF vars
<1>13. Sweep \in Passes
  BY DEF Passes
<1> QED
  BY <1>1, <1>2, <1>3, <1>4, <1>5, <1>6, <1>7, <1>8, <1>9, <1>10, <1>11,
     <1>12, <1>13 DEF Next, World

-----------------------------------------------------------------------------

Unmoved(q) == pc'[q] = pc[q] /\ mark'[q] = mark[q] /\ hand'[q] = hand[q]

(* A pass moves itself only. *)
LEMMA OthersStand ==
  ASSUME TypeOK, NEW p \in Passes,
         Pass(p) \/ Leave(p) \/ Import(p) \/ (p = Sweep /\ SweepComes)
  PROVE  \A q \in Passes \ {p} :
            Unmoved(q) /\ (q \in seeding' <=> q \in seeding)
BY EndsOf DEF Pass, Leave, Import, SweepComes, PassOver, Begin, ReadMark, AskHeld,
   AskInVain, WindBack, ReadRows, Send, SendNothing, SendRaises, Advance,
   Distill, Goto, localVars, Unmoved, TypeOK

(* No step forgets: rows land above the others, and a row the service has  *)
(* or is excused for stays one.                                            *)
LEMMA NothingForgotten ==
  ASSUME TypeOK, [Next]_vars
  PROVE  /\ Said' \ gone' \subseteq (Said \ gone) \cup {Len(rows) + 1}
         /\ held \cup excused \subseteq held' \cup excused'
<1> USE DEF chatVars, serviceVars, ghostVars, Said
<1>1. ASSUME NEW kind \in {"said", "note"}, RowLands(kind)
      PROVE  /\ Said' \ gone' \subseteq (Said \ gone) \cup {Len(rows) + 1}
             /\ held \cup excused \subseteq held' \cup excused'
  <2> HIDE DEF Said
  <2> QED
    BY <1>1, RowAdded DEF RowLands
<1>2. ASSUME NEW i \in Ids, Discard(i)
      PROVE  /\ Said' \ gone' \subseteq Said \ gone
             /\ held' = held /\ excused' = excused
  BY <1>2 DEF Discard
<1>3. ASSUME NEW k \in Marks, Restore(k)
      PROVE  /\ Said' \ gone' \subseteq Said \ gone
             /\ held \cup excused \subseteq held' \cup excused'
  BY <1>3 DEF Restore
<1>4. CASE Toggle \/ ServiceDown \/ ServiceUp \/ Expire \/ Restart \/ SweepComes
           \/ UNCHANGED vars
  BY <1>4 DEF Toggle, ServiceDown, ServiceUp, Expire, Restart, SweepComes, vars
<1>5. ASSUME NEW p \in Passes, Leave(p) \/ Import(p) \/ Pass(p)
      PROVE  /\ Said' \ gone' \subseteq Said \ gone
             /\ held \cup excused \subseteq held' \cup excused'
  BY <1>5 DEF Leave, Import, Pass, PassOver, Begin, ReadMark, AskHeld, AskInVain,
     WindBack, ReadRows, Send, SendNothing, SendRaises, Take, Advance, Distill
<1> QED
  BY <1>1, <1>2, <1>3, <1>4, <1>5 DEF Next, World

(* So a watermark's promise stays, wherever it is kept. *)
LEMMA PassedStays ==
  ASSUME TypeOK, [Next]_vars, NEW m \in 0..Len(rows), Passed(m)
  PROVE  Passed(m)'
<1>1. Len(rows) \in Nat
  BY HighTypes
<1>2. ~(Len(rows) + 1 <= m)
  BY <1>1
<1> QED
  BY <1>2, NothingForgotten DEF Passed

LEMMA PassInvStays ==
  ASSUME TypeOK, [Next]_vars, NEW q \in Passes, Unmoved(q),
         q \in seeding' => q \in seeding, PassInvOf(q)
  PROVE  PassInvOf(q)'
<1>1. Len(rows) \in Nat /\ Highest(hand[q]) \in 0..Len(rows)
      /\ mark[q] \in 0..Len(rows)
  BY HighTypes DEF TypeOK
<1>2. ~(Len(rows) + 1 <= Highest(hand[q]))
  BY <1>1
<1>3. Highest(hand[q])' = Highest(hand[q])
  BY DEF Unmoved, Highest
<1>4. ASSUME pc'[q] \in {"ask", "wind"} PROVE Passed(mark[q])'
  <2>1. PICK m \in 0..Len(rows) : m = mark[q]
    BY <1>1
  <2>2. Passed(m)
    BY <1>4, <2>1 DEF PassInvOf, Unmoved
  <2>3. Passed(m)'
    BY <2>2, PassedStays
  <2> QED
    BY <2>1, <2>3 DEF Passed, Unmoved
<1>5. ASSUME pc'[q] = "advance" PROVE Passed(Highest(hand[q]))'
  <2>1. PICK m \in 0..Len(rows) : m = Highest(hand[q])
    BY <1>1
  <2>2. Passed(m)
    BY <1>5, <2>1 DEF PassInvOf, Unmoved
  <2>3. Passed(m)'
    BY <2>2, PassedStays
  <2> QED
    BY <1>3, <2>1, <2>3 DEF Passed
<1> QED
  BY <1>2, <1>3, <1>4, <1>5, NothingForgotten DEF PassInvOf, Unmoved

(* The steps that are not a pass's own leave every pass where it is, except *)
(* a restart, which ends them.                                             *)
LEMMA WorldStands ==
  ASSUME TypeOK, [Next]_vars,
         ~\E p \in Passes : Leave(p) \/ Import(p) \/ Pass(p), ~SweepComes,
         NEW q \in Passes
  PROVE  /\ \/ Unmoved(q) /\ (q \in seeding' <=> q \in seeding)
            \/ /\ pc'[q] \in {"idle", "done"} /\ q \notin seeding'
               /\ hand'[q] = {} /\ checked' = {}
         /\ upto' = upto
BY DEF Next, World, RowLands, Discard, Toggle, ServiceDown, ServiceUp, Expire,
   Restart, Restore, localVars, vars, Unmoved, TypeOK

(* The watermark's promise, and what the passes carry of it.               *)
LEMMA HandedStep ==
  ASSUME TypeOK, HandedOn, PassInv, [Next]_vars
  PROVE  HandedOn' /\ PassInv'
<1>1. Len(rows) \in Nat /\ upto \in 0..Len(rows) /\ Passed(upto)
  BY HighTypes DEF TypeOK, HandedOn, Passed
<1>2. Passed(upto)' \/ upto' # upto
  <2>1. PICK m \in 0..Len(rows) : m = upto
    BY <1>1
  <2>2. Passed(m)'
    BY <1>1, <2>1, PassedStays
  <2> QED
    BY <2>1, <2>2 DEF Passed
<1>3. CASE ~(\E p \in Passes : Leave(p) \/ Import(p) \/ Pass(p)) /\ ~SweepComes
  <2>1. upto' = upto
    BY <1>3, WorldStands DEF Passes
  <2>2. ASSUME NEW q \in Passes PROVE PassInvOf(q)'
    <3>1. CASE Unmoved(q) /\ (q \in seeding' <=> q \in seeding)
      BY <3>1, PassInvStays DEF PassInv
    <3>2. CASE pc'[q] \in {"idle", "done"} /\ q \notin seeding'
      BY <3>2 DEF PassInvOf
    <3> QED
      BY <1>3, <3>1, <3>2, WorldStands
  <2> QED
    BY <1>2, <2>1, <2>2 DEF PassInv, HandedOn, Passed
<1>4. ASSUME NEW p \in Passes, (p = Sweep /\ SweepComes) \/ Leave(p) \/ Import(p)
      PROVE  HandedOn' /\ PassInv'
  <2>1. upto' = upto
    BY <1>4 DEF SweepComes, Leave, Import
  <2>2. pc'[p] \in {"pass", "read", "done"} /\ (pc'[p] = "pass" => p \notin seeding')
    BY <1>4 DEF SweepComes, Leave, Import, Goto, TypeOK, PassInv, PassInvOf
  <2>3. PassInvOf(p)'
    BY <2>2 DEF PassInvOf
  <2>4. ASSUME NEW q \in Passes \ {p} PROVE PassInvOf(q)'
    BY <1>4, OthersStand, PassInvStays DEF PassInv
  <2> QED
    BY <1>2, <2>1, <2>3, <2>4 DEF PassInv, HandedOn, Passed
<1>5. ASSUME NEW p \in Passes, Pass(p) PROVE HandedOn' /\ PassInv'
  <2>1. ASSUME NEW q \in Passes \ {p} PROVE PassInvOf(q)'
    BY <1>5, OthersStand, PassInvStays DEF PassInv
  <2>2. SUFFICES HandedOn' /\ PassInvOf(p)'
    BY <2>1 DEF PassInv
  <2>3. ASSUME upto' = upto PROVE HandedOn'
    BY <1>2, <2>3 DEF HandedOn, Passed
  <2>4. /\ p \in seeding => pc[p] \in {"read", "send", "advance", "done"}
        /\ pc[p] \in {"mark", "ask", "wind"} => Modern
    BY DEF PassInv, PassInvOf
  <2>5. ASSUME Ends(p) PROVE PassInvOf(p)'
    BY <2>5, EndsOf DEF PassInvOf
  <2>6. CASE PassOver(p)
    BY <2>3, <2>4, <2>5, <2>6 DEF PassOver, Goto, localVars, TypeOK, PassInvOf
  <2>7. CASE Begin(p)
    <3>1. /\ upto' = upto /\ p \notin seeding
          /\ \/ Ends(p)
             \/ Goto(p, IF Modern THEN "mark" ELSE "read") /\ seeding' = seeding
      BY <2>4, <2>7 DEF Begin, localVars
    <3>2. CASE Ends(p)
      BY <2>3, <2>5, <3>1, <3>2
    <3>3. CASE Goto(p, IF Modern THEN "mark" ELSE "read") /\ seeding' = seeding
      <4>1. pc'[p] \in {"mark", "read"} /\ (pc'[p] = "mark" => Modern)
        BY <3>3, HandoffAssumption DEF Goto, TypeOK
      <4> QED
        BY <2>3, <3>1, <3>3, <4>1 DEF PassInvOf
    <3> QED
      BY <3>1, <3>2, <3>3
  <2>8. CASE ReadMark(p)
    BY <1>2, <2>3, <2>4, <2>8 DEF ReadMark, Goto, TypeOK, PassInvOf, Passed
  <2>9. CASE AskHeld(p)
    <3>1. Passed(mark[p])
      BY <2>9 DEF AskHeld, PassInv, PassInvOf
    <3>2. Highest(held) < mark[p] => Passed(Highest(held))
      <4>1. /\ Highest(held) \in Int /\ mark[p] \in Int
            /\ \A i \in Said : i \in Int
        BY HighTypes DEF TypeOK, Said
      <4> QED
        BY <3>1, <4>1 DEF Passed
    <3>3. Passed(mark'[p])
      BY <2>9, <3>1, <3>2 DEF AskHeld, TypeOK
    <3>4. Passed(mark[p])'
      BY <2>9, <3>3 DEF AskHeld, Passed, chatVars, serviceVars, ghostVars, Said
    <3>5. Modern /\ p \notin seeding
      BY <2>4, <2>9 DEF AskHeld, PassInv, PassInvOf
    <3>6. pc'[p] \in {"wind", "read"} /\ seeding' = seeding /\ upto' = upto
      BY <2>9 DEF AskHeld, Goto, TypeOK
    <3> QED
      BY <2>3, <3>4, <3>5, <3>6 DEF PassInvOf
  <2>10. CASE AskInVain(p)
    BY <2>3, <2>4, <2>10 DEF AskInVain, Goto, localVars, TypeOK, PassInvOf
  <2>11. CASE WindBack(p)
    <3>1. Passed(mark[p])
      BY <2>11 DEF WindBack, PassInv, PassInvOf
    <3>2. HandedOn'
      BY <2>11, <3>1 DEF WindBack, Passed, HandedOn, chatVars, serviceVars, Said
    <3> QED
      BY <2>4, <2>11, <3>2 DEF WindBack, Goto, localVars, TypeOK, PassInvOf
  <2>12. CASE ReadRows(p)
    <3>1. \A i \in Said \ gone :
             i <= upto \/ i > upto
      BY HighTypes DEF TypeOK, Said
    <3>2. \A i \in Said \ gone : i \in RowsFor(p) \cup held \cup excused
      BY <1>1, <3>1, RowsGiven DEF RowsFor, Kept, Said, Passed
    <3>3. hand'[p] = RowsFor(p) /\ pc'[p] \in {"send", "done", "distill"}
          /\ (p \in seeding' => pc'[p] \in {"send", "done"})
      BY <2>12 DEF ReadRows, Goto, TypeOK
    <3>4. \A i \in (Said \ gone)' : i \in hand'[p] \cup held' \cup excused'
      BY <2>12, <3>2, <3>3 DEF ReadRows, chatVars, serviceVars, ghostVars, Said
    <3> QED
      BY <2>3, <2>12, <3>3, <3>4 DEF ReadRows, PassInvOf
  <2>13. CASE Send(p) \/ SendNothing(p)
    <3>1. /\ \A i \in Said \ gone :
               i <= Highest(hand[p]) => i \in hand[p] \cup held \cup excused
          /\ pc'[p] = "advance" /\ hand' = hand /\ seeding' = seeding /\ upto' = upto
          /\ rows' = rows /\ gone' = gone
      BY <2>13 DEF Send, SendNothing, Goto, TypeOK, PassInv, PassInvOf, localVars,
         chatVars
    <3>2. hand[p] \cup held \cup excused \subseteq held' \cup excused'
      BY <2>13 DEF Send, SendNothing, Take, serviceVars
    <3>3. Passed(Highest(hand[p]))'
      BY <3>1, <3>2 DEF Passed, Said, Highest
    <3> QED
      BY <2>3, <2>4, <3>1, <3>3 DEF PassInvOf
  <2>14. CASE SendRaises(p)
    BY <2>3, <2>5, <2>14 DEF SendRaises
  <2>15. CASE Advance(p)
    <3>1. Passed(Highest(hand[p]))
      BY <2>15 DEF Advance, PassInv, PassInvOf
    <3>2. HandedOn'
      BY <2>15, <3>1 DEF Advance, Passed, HandedOn, chatVars, serviceVars, Said
    <3> QED
      BY <2>4, <2>5, <2>15, <3>2 DEF Advance, Goto, localVars, TypeOK, PassInvOf
  <2>16. CASE Distill(p)
    BY <2>3, <2>5, <2>16 DEF Distill
  <2> QED
    BY <1>5, <2>6, <2>7, <2>8, <2>9, <2>10, <2>11, <2>12, <2>13, <2>14, <2>15,
       <2>16 DEF Pass
<1>6. Sweep \in Passes
  BY DEF Passes
<1> QED
  BY <1>3, <1>4, <1>5, <1>6

(* A hole below a row the service holds is excused.                        *)
LEMMA NoHolesStep ==
  ASSUME TypeOK, PassInv, NoHoles, [Next]_vars
  PROVE  NoHoles'
<1>1. ASSUME held' \subseteq held PROVE NoHoles'
  <2>1. \A h \in held : ~(Len(rows) + 1 < h)
    BY HighTypes DEF TypeOK
  <2> QED
    BY <1>1, <2>1, NothingForgotten DEF NoHoles
<1>2. ASSUME NEW p \in Passes, Send(p) \/ (SendRaises(p) /\ Take(p))
      PROVE  NoHoles'
  <2>1. /\ held' = held \cup hand[p] /\ Said' = Said /\ gone' = gone
        /\ \A i \in Said \ gone :
             i <= Highest(hand[p]) => i \in hand[p] \cup held \cup excused
    BY <1>2 DEF Send, SendRaises, Take, chatVars, Said, PassInv, PassInvOf
  <2>2. \A i \in Said, h \in hand[p] : i < h => i <= Highest(hand[p])
    BY HighTypes DEF TypeOK, Said
  <2> QED
    BY <2>1, <2>2, NothingForgotten DEF NoHoles
<1>3. \/ held' \subseteq held
      \/ \E p \in Passes : Send(p) \/ (SendRaises(p) /\ Take(p))
  BY DEF Next, World, RowLands, Discard, Toggle, ServiceDown, ServiceUp, Expire,
     Restart, Restore, SweepComes, Leave, Import, Pass, PassOver, Begin, ReadMark,
     AskHeld, AskInVain, WindBack, ReadRows, SendNothing, SendRaises,
     Advance, Distill, serviceVars, vars
<1> QED
  BY <1>1, <1>2, <1>3

(* No gap that is not hidden lies below a row the service holds.           *)
LEMMA GapsStep ==
  ASSUME TypeOK, NoHoles, GapsShow, CheckedInv, [Next]_vars
  PROVE  GapsShow'
<1>0. /\ \A i \in Said : i \in Int /\ i \in DOMAIN rows
      /\ \A h \in held : h \in Int
      /\ \A p \in Passes : \A h \in hand[p] : h \in Int
  BY HighTypes DEF TypeOK, Said
<1>1. ASSUME held' \subseteq held, Opened' \subseteq Opened PROVE GapsShow'
  BY <1>1 DEF GapsShow, Opened
<1>2. ASSUME NEW kind \in {"said", "note"}, RowLands(kind) PROVE GapsShow'
  <2>1. held' = held /\ excused' = excused /\ buried' = buried /\ gone' = gone
    BY <1>2 DEF RowLands, serviceVars, ghostVars
  <2>2. excused \cap Said' \subseteq Said
    BY <1>2, RowAdded, HighTypes DEF TypeOK
  <2> QED
    BY <1>1, <2>1, <2>2 DEF Opened
<1>3. ASSUME NEW k \in Marks, Restore(k) PROVE GapsShow'
  <2>1. /\ held' = {i \in held : i <= k} /\ excused' = excused \cup (held \ held')
        /\ buried' = buried /\ gone' = gone /\ Said' = Said
    BY <1>3 DEF Restore, chatVars, Said
  <2>2. k \in Int
    BY HandoffAssumption DEF Marks
  <2> QED
    BY <1>0, <2>1, <2>2 DEF GapsShow
<1>4. ASSUME NEW p \in Passes, Send(p) \/ (SendRaises(p) /\ Take(p))
      PROVE  GapsShow'
  <2>1. /\ held' = held \cup hand[p] /\ excused' = excused \ held'
        /\ Bury(p) /\ gone' = gone /\ Said' = Said /\ pc[p] = "send"
    BY <1>4 DEF Send, SendRaises, Take, chatVars, Said
  <2>2. SUFFICES ASSUME NEW i \in Opened', NEW h \in held' PROVE h < i
    BY DEF GapsShow, Opened
  <2>3. i \in excused /\ i \notin held' /\ i \in Said \ gone /\ i \notin buried'
    BY <2>1 DEF Opened
  <2>4. CASE p \notin checked
    <3>1. ~(h > i)
      BY <2>1, <2>3, <2>4 DEF Bury
    <3> QED
      BY <1>0, <2>1, <2>3, <3>1
  <2>5. CASE p \in checked
    <3>1. i \in Opened
      BY <2>1, <2>3 DEF Bury, Opened
    <3>2. i \notin hand[p] /\ (i \in hand[p] \/ \A j \in hand[p] : j < i)
      BY <2>1, <2>3, <2>5, <3>1 DEF CheckedInv, CheckedInvOf
    <3> QED
      BY <2>1, <3>1, <3>2 DEF GapsShow, Opened
  <2> QED
    BY <2>4, <2>5
<1>5. ASSUME NEW p \in Passes, SendNothing(p) PROVE GapsShow'
  <2>1. /\ held' = held /\ excused' = excused \cup (hand[p] \ held)
        /\ Bury(p) /\ gone' = gone /\ Said' = Said
    BY <1>5 DEF SendNothing, chatVars, serviceVars, Said
  <2>2. SUFFICES ASSUME NEW i \in Opened', NEW h \in held PROVE h < i
    BY <2>1 DEF GapsShow, Opened
  <2>3. i \in excused' /\ i \in Said \ gone /\ i \notin buried' /\ i \notin buried
    BY <2>1 DEF Opened, Bury
  <2>4. CASE i \in excused
    BY <2>3, <2>4 DEF GapsShow
  <2>5. CASE i \notin excused
    <3>1. i \notin held
      BY <2>1, <2>3, <2>5
    <3>2. ~(i < h)
      BY <2>3, <2>5, <3>1 DEF NoHoles
    <3> QED
      BY <1>0, <2>3, <3>1, <3>2
  <2> QED
    BY <2>4, <2>5
<1>6. \/ held' \subseteq held /\ Opened' \subseteq Opened
      \/ \E kind \in {"said", "note"} : RowLands(kind)
      \/ \E k \in Marks : Restore(k)
      \/ \E p \in Passes : Send(p) \/ (SendRaises(p) /\ Take(p)) \/ SendNothing(p)
  BY DEF Next, World, Discard, Toggle, ServiceDown, ServiceUp, Expire,
     Restart, SweepComes, Leave, Import, Pass, PassOver, Begin, ReadMark,
     AskHeld, AskInVain, WindBack, ReadRows, SendRaises,
     Advance, Distill, chatVars, serviceVars, ghostVars, vars, Opened, Said
<1> QED
  BY <1>1, <1>2, <1>3, <1>4, <1>5, <1>6

(* What a checked pass knows stays true under the steps of others.         *)
LEMMA CheckedStays ==
  ASSUME TypeOK, HandedOn, [Next]_vars, NEW q \in Passes, CheckedInvOf(q),
         PassInvOf(q),
         Unmoved(q), q \in seeding' => q \in seeding, upto' = upto, held' = held,
         \A i \in Opened' :
            i \in Opened \/ (i \in Said \ gone /\ i \notin held \cup excused)
  PROVE  CheckedInvOf(q)'
<1>1. \A h \in hand[q] : h < Len(rows) + 1
  BY HighTypes DEF TypeOK
<1>2. Highest(held)' = Highest(held) /\ Highest(hand[q])' = Highest(hand[q])
  BY DEF Highest, Unmoved
<1>3. \A i \in Said : i \in Int
  BY HighTypes DEF TypeOK, Said
<1>4. Highest(hand[q]) \in Int /\ upto \in Int
  BY HighTypes DEF TypeOK
<1>5. \A i \in Opened' : i \in Opened \/ i > upto
  BY <1>3, <1>4 DEF HandedOn
<1>6. pc[q] = "advance" => \A i \in Opened' : i \in Opened \/ i > Highest(hand[q])
  BY <1>3, <1>4 DEF PassInvOf, Passed
<1> QED
  BY <1>1, <1>2, <1>5, <1>6, NothingForgotten DEF CheckedInvOf, Unmoved

LEMMA CheckedStep ==
  ASSUME TypeOK, HandedOn, PassInv, GapsShow, CheckedInv, [Next]_vars
  PROVE  CheckedInv'
<1>1. CASE ~(\E p \in Passes : Leave(p) \/ Import(p) \/ Pass(p)) /\ ~SweepComes
  <2>1. /\ checked' = {} \/ (checked' = checked /\ held' = held)
        /\ upto' = upto
    BY <1>1 DEF Next, World, RowLands, Discard, Toggle, ServiceDown, ServiceUp,
       Expire, Restart, Restore, serviceVars, ghostVars, vars
  <2>2. checked' # {} => Opened' \subseteq Opened
    <3>1. ASSUME NEW kind \in {"said", "note"}, RowLands(kind)
          PROVE  Opened' \subseteq Opened
      <4>1. excused \cap Said' \subseteq Said
        BY <3>1, RowAdded, HighTypes DEF TypeOK
      <4> QED
        BY <3>1, <4>1 DEF RowLands, ghostVars, Opened
    <3> QED
      BY <1>1, <3>1 DEF Next, World, Discard, Toggle, ServiceDown, ServiceUp,
         Expire, Restart, Restore, chatVars, ghostVars, vars, Opened, Said
  <2>3. ASSUME NEW q \in checked' PROVE CheckedInvOf(q)'
    <3>1. q \in checked /\ q \in Passes
      BY <2>1, <2>3 DEF TypeOK
    <3>2. Unmoved(q) /\ (q \in seeding' <=> q \in seeding)
      BY <1>1, <2>3, <3>1, WorldStands
    <3> QED
      BY <2>1, <2>2, <2>3, <3>1, <3>2, CheckedStays DEF CheckedInv, PassInv
  <2> QED
    BY <2>3 DEF CheckedInv
<1>2. ASSUME NEW p \in Passes, (p = Sweep /\ SweepComes) \/ Leave(p) \/ Import(p)
      PROVE  CheckedInv'
  <2>1. /\ upto' = upto /\ held' = held /\ checked' = checked
        /\ Opened' = Opened
    BY <1>2 DEF SweepComes, Leave, Import, chatVars, serviceVars, ghostVars,
       Opened, Said
  <2>2. ASSUME NEW q \in checked, q # p PROVE CheckedInvOf(q)'
    BY <1>2, <2>1, <2>2, OthersStand, CheckedStays DEF CheckedInv, PassInv, TypeOK
  <2>3. ASSUME p \in checked PROVE CheckedInvOf(p)'
    <3>1. p = Sweep /\ SweepComes /\ p \notin Others
      BY <1>2, <2>3, HandoffAssumption DEF CheckedInv, CheckedInvOf, Leave, Import
    <3> QED
      BY <2>3, <3>1 DEF SweepComes, Goto, TypeOK, CheckedInv, CheckedInvOf
  <2> QED
    BY <2>1, <2>2, <2>3 DEF CheckedInv
<1>3. ASSUME NEW p \in Passes, Pass(p) PROVE CheckedInv'
  <2>1. ASSUME NEW q \in checked', q # p PROVE CheckedInvOf(q)'
    <3>1. /\ q \in checked /\ q \in Passes /\ upto' = upto /\ held' = held
      BY <1>3, <2>1 DEF Pass, PassOver, Begin, ReadMark, AskHeld, AskInVain,
         WindBack, ReadRows, Send, SendNothing, SendRaises, Advance, Distill,
         serviceVars, ghostVars, TypeOK
    <3>2. CASE SendNothing(p)
      <4>1. /\ excused' = excused \cup (hand[p] \ held) /\ Said' = Said
            /\ gone' = gone /\ Bury(p)
        BY <3>2 DEF SendNothing, chatVars, Said
      <4>2. ASSUME NEW i \in Opened', i \notin Opened
            PROVE  i \in Said \ gone /\ i \notin held /\ i \notin excused
        BY <4>1, <4>2 DEF Opened, Bury
      <4> QED
        BY <1>3, <2>1, <3>1, <4>2, OthersStand, CheckedStays
           DEF CheckedInv, PassInv
    <3>3. CASE ~SendNothing(p)
      <4>1. Opened' \subseteq Opened
        BY <1>3, <2>1, <3>3 DEF Pass, PassOver, Begin, ReadMark, AskHeld,
           AskInVain, WindBack, ReadRows, Send, SendRaises, Advance,
           Distill, chatVars, ghostVars, Opened, Said
      <4> QED
        BY <1>3, <2>1, <3>1, <4>1, OthersStand, CheckedStays
           DEF CheckedInv, PassInv
    <3> QED
      BY <3>2, <3>3
  <2>2. ASSUME p \in checked' PROVE CheckedInvOf(p)'
    <3>1. p \in checked => CheckedInvOf(p)
      BY DEF CheckedInv
    <3>2. p \in Others => p # Sweep
      BY HandoffAssumption
    <3>3. PassInvOf(p)
      BY DEF PassInv
    <3>4. ASSUME Ends(p), p \in checked PROVE CheckedInvOf(p)'
      BY <3>1, <3>2, <3>4 DEF Ends, Goto, TypeOK, CheckedInvOf
    <3>5. CASE PassOver(p)
      BY <2>2, <3>1, <3>4, <3>5 DEF PassOver, Goto, TypeOK, CheckedInvOf,
         localVars, ghostVars
    <3>6. CASE Begin(p)
      BY <2>2, <3>1, <3>4, <3>6 DEF Begin, Goto, TypeOK, CheckedInvOf,
         localVars, ghostVars
    <3>7. CASE ReadMark(p)
      BY <3>3, <3>7 DEF ReadMark, Goto, TypeOK, CheckedInvOf, PassInvOf
    <3>8. CASE AskHeld(p)
      <4>1. /\ p \in checked /\ mark[p] = upto /\ held' = held /\ upto' = upto
            /\ Highest(held)' = Highest(held) /\ seeding' = seeding
        BY <2>2, <3>1, <3>8 DEF AskHeld, CheckedInvOf, serviceVars, ghostVars,
           Highest
      <4>2. mark[p] \in Int /\ Highest(held) \in Int
        BY HighTypes DEF TypeOK
      <4> QED
        BY <3>1, <3>8, <4>1, <4>2 DEF AskHeld, Goto, TypeOK, CheckedInvOf
    <3>9. CASE AskInVain(p)
      BY <2>2, <3>9 DEF AskInVain
    <3>10. CASE WindBack(p)
      <4>1. p \in checked /\ upto' = Highest(held) /\ held' = held
        BY <2>2, <3>1, <3>10 DEF WindBack, CheckedInvOf, serviceVars
      <4>2. Highest(held)' = Highest(held) /\ Highest(held) \in Int
        BY <4>1, HighTypes DEF Highest
      <4> QED
        BY <3>1, <3>10, <4>1, <4>2 DEF WindBack, Goto, TypeOK, CheckedInvOf,
           localVars
    <3>11. CASE ReadRows(p)
      <4>1. /\ p \in checked /\ upto <= Highest(held) /\ p \notin seeding
            /\ upto' = upto /\ seeding' = seeding
            /\ Opened' = Opened /\ Said' = Said /\ gone' = gone
        BY <2>2, <3>1, <3>11 DEF ReadRows, CheckedInvOf, chatVars, ghostVars,
           Opened, Said
      <4>2. ASSUME NEW i \in Opened PROVE i > upto
        <5>1. i \in Int /\ i > 0 /\ upto \in Int /\ Highest(held) \in Int
          BY HighTypes DEF Opened, Said, TypeOK
        <5>2. Highest(held) < i
          BY <5>1, HighTypes DEF GapsShow, Opened
        <5> QED
          BY <4>1, <5>1, <5>2
      <4>3. hand'[p] = {i \in Said \ gone : i > upto}
            /\ pc'[p] \in {"send", "distill", "done"}
        BY <3>11, <4>1, RowsGiven DEF ReadRows, Goto, TypeOK
      <4>4. /\ \A i \in Opened' : i > upto'
            /\ \A i \in (Said \ gone)' : i > upto' => i \in hand'[p]
        BY <4>1, <4>2, <4>3
      <4> QED
        BY <3>1, <4>1, <4>3, <4>4 DEF CheckedInvOf
    <3>12. CASE Send(p)
      <4>1. /\ p \in checked /\ pc[p] = "send" /\ pc'[p] = "advance"
            /\ hand' = hand /\ seeding' = seeding /\ Said' = Said /\ gone' = gone
            /\ held' = held \cup hand[p] /\ excused' = excused \ held' /\ Bury(p)
        BY <2>2, <3>12 DEF Send, Take, Goto, TypeOK, localVars, chatVars, Said
      <4>2. hand[p] # {} /\ Highest(hand[p])' = Highest(hand[p])
        BY <4>1 DEF TypeOK, Highest
      <4>3. Highest(hand[p]) \in hand[p]
        BY <4>2, HighTypes
      <4>4. ASSUME NEW i \in Opened' PROVE i > Highest(hand[p])
        <5>1. i \in Opened /\ i \in Said \ gone /\ i \notin hand[p]
          BY <4>1 DEF Opened, Bury
        <5>2. i > upto /\ \A h \in hand[p] : h < i
          BY <3>1, <4>1, <5>1 DEF CheckedInvOf
        <5>3. i \in Int /\ Highest(hand[p]) \in Int
          BY <5>1, HighTypes DEF TypeOK, Said
        <5> QED
          BY <4>3, <5>2, <5>3
      <4> QED
        BY <3>1, <4>1, <4>2, <4>4 DEF CheckedInvOf
    <3>16. CASE SendNothing(p)
      BY <2>2, <3>16 DEF SendNothing
    <3>13. CASE SendRaises(p)
      BY <2>2, <3>4, <3>13 DEF SendRaises
    <3>14. CASE Advance(p)
      <4>1. /\ p \in checked /\ p \notin seeding /\ pc[p] = "advance"
            /\ pc'[p] = "distill" /\ seeding' = seeding
            /\ upto' = Highest(hand[p]) /\ Opened' = Opened
        BY <2>2, <3>1, <3>14 DEF Advance, Goto, TypeOK, CheckedInvOf, localVars,
           chatVars, Opened, Said
      <4> QED
        BY <3>1, <4>1 DEF CheckedInvOf
    <3>15. CASE Distill(p)
      BY <2>2, <3>4, <3>15 DEF Distill, ghostVars
    <3> QED
      BY <1>3, <3>5, <3>6, <3>7, <3>8, <3>9, <3>10, <3>11, <3>12, <3>13, <3>14,
         <3>15, <3>16 DEF Pass
  <2> QED
    BY <2>1, <2>2 DEF CheckedInv
<1>4. Sweep \in Passes
  BY DEF Passes
<1> QED
  BY <1>1, <1>2, <1>3, <1>4

LEMMA NextIInv == IInv /\ [Next]_vars => IInv'
BY TypeStep, HandedStep, NoHolesStep, GapsStep, CheckedStep DEF IInv

LEMMA Invariance == Spec => []IInv
<1>1. Init => IInv
  BY InitIInv
<1>2. IInv /\ [Next]_vars => IInv'
  BY NextIInv
<1> QED
  BY <1>1, <1>2, PTL DEF Spec

-----------------------------------------------------------------------------

(* Every variable keeps its type.                                          *)
THEOREM TypeCorrect == Spec => []TypeOK
BY Invariance, PTL DEF IInv

(* What the watermark has passed the service was given, or it is one of    *)
(* the named losses: _advance and the reconcile of memory_client.py,       *)
(* however many passes of a chat overlap, crash and wind it back.          *)
THEOREM EveryRowHandedOn == Spec => []HandedOn
BY Invariance, PTL DEF IInv

(* The gaps that the reconcile could close lie where it looks: above the   *)
(* highest row the service holds, unless passes overlapped or it got no    *)
(* answer.                                                                 *)
THEOREM GapsAlwaysShow == Spec => []GapsShow
BY Invariance, PTL DEF IInv

(* A pass whose reconcile was answered and that nobody disturbed leaves no *)
(* gap below the watermark but the hidden ones: what a restored service    *)
(* had lost it holds again (_reconcile of memory_client.py).               *)
THEOREM ReconcileAlwaysHeals == Spec => []ReconcileHeals
<1>1. IInv => ReconcileHeals
  <2> SUFFICES ASSUME IInv, NEW p \in checked, pc[p] = "distill",
                      NEW i \in Said \ (gone \cup buried), i <= upto
               PROVE  i \in held
    BY DEF ReconcileHeals
  <2>1. i \in held \cup excused
    BY DEF IInv, HandedOn
  <2>2. i \in Int /\ upto \in Int
    BY HighTypes DEF IInv, TypeOK, Said
  <2>3. i \notin Opened
    BY <2>2 DEF IInv, CheckedInv, CheckedInvOf
  <2> QED
    BY <2>1, <2>3 DEF Opened
<1> QED
  BY <1>1, Invariance, PTL

=============================================================================
