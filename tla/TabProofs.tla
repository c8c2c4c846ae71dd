------------------------------ MODULE TabProofs ------------------------------
(***************************************************************************)
(* Theorems about a tab.  Its sends (SendClient): no typed turn is         *)
(* dropped, only a send whose answer was lost is saved again, each stream  *)
(* takes its own round's events, and whatever waits is somebody's to send. *)
(* Its view (LiveTab, as View): no row and no label of the open chat is    *)
(* passed over, and no other chat's rows stay.                             *)
(***************************************************************************)
EXTENDS MCTab, FiniteSetTheorems, WellFoundedInduction, TLAPS

(* Given says that the send of t was answered by its round.                *)
Given    == {"reading", "adrift", "cut", "gone", "done"}
Untaken  == {"none", "held", "refused"}

(* Where a turn is: unsent until its batch goes out, and a run has a chat, *)
(* and a send on the network a run that made it.                           *)
PlaceInv ==
  /\ \A t \in Turns :
       /\ home[t] = None => run[t] = "none"
       /\ run[t] = "none" => item[t] = <<>> /\ req[t] = "none"
       /\ run[t] \in InFlight => chatOf[t] # None
       /\ req[t] # "none" => run[t] \in {"posted", "stopped"}
  /\ \A c \in Chats : \A u \in Range(batch[c]) :
       home[u] = c /\ run[u] = "none"

(* The queue of held sends is the sends that are held, each once.          *)
HeldInv ==
  /\ \A t \in Turns : run[t] = "held" <=> t \in Range(held)
  /\ \A i, j \in DOMAIN held : held[i] = held[j] => i = j

(* What Stop aborts is a run in flight, and a cut run left its chat.       *)
CtrlInv ==
  /\ ctrl # None => run[ctrl] \in InFlight
  /\ \A t \in Turns : run[t] = "cut" => chatOf[t] \in left

(* A send is saved under its own chat and is given a round by it; one that *)
(* may be saved again is saved already only if its answer was lost.        *)
SavedInv ==
  /\ \A c \in Chats : \A t \in Range(saved[c]) : home[t] = c
  /\ \A t \in Turns :
       /\ home[t] # None /\ Saved(t) => won[t] # 0
       /\ req[t] = "ok" \/ run[t] \in Given =>
            home[t] # None /\ Saved(t) /\ won[t] \in DOMAIN rounds
       /\ home[t] # None /\ Saved(t) /\ t \notin blind =>
            req[t] \notin {"out", "busy", "bad"} /\ run[t] \notin Untaken

(* The ids of this process's rounds are distinct and count them.           *)
Up == {n \in DOMAIN rounds : rounds[n].up}
IdInv ==
  /\ \A n \in Up : rounds[n].id <= Cardinality(Up)
  /\ \A m, n \in Up : rounds[m].id = rounds[n].id => m = n

(* The round n may stand for the one that the send was given.              *)
StandsIn(t, n) ==
  \/ n = won[t]
  \/ /\ ~rounds[won[t]].up
     /\ rounds[n].chat = chatOf[t]
     /\ rounds[n].id = rounds[won[t]].id

HeardInv ==
  \A t \in Turns :
    /\ run[t] \notin Given => heard[t] = <<>>
    /\ run[t] \in Given => src[t] \in DOMAIN rounds /\ StandsIn(t, src[t])
    /\ \A i \in DOMAIN heard[t] :
         /\ heard[t][i][1] \in DOMAIN rounds /\ heard[t][i][2] = i
         /\ StandsIn(t, heard[t][i][1])

IInv ==
  /\ TypeOK /\ PlaceInv /\ HeldInv /\ CtrlInv /\ SavedInv /\ IdInv /\ HeardInv
  /\ NothingDropped /\ SavedTwiceOnlyBlind /\ NothingStuck

-----------------------------------------------------------------------------
(* Sequences.                                                              *)

LEMMA Ranges ==
  ASSUME NEW S, NEW s \in Seq(S)
  PROVE  /\ Range(s) \subseteq S
         /\ \A x : x \in Range(s) <=> \E i \in 1..Len(s) : s[i] = x
         /\ s = <<>> => Range(s) = {}
         /\ s # <<>> => Head(s) \in Range(s) /\ Range(s) # {}
BY DEF Range

LEMMA Appended ==
  ASSUME NEW S, NEW s \in Seq(S), NEW x \in S
  PROVE  /\ Len(s) \in Nat /\ DOMAIN s = 1..Len(s)
         /\ Append(s, x) \in Seq(S) /\ Append(s, x) # <<>>
         /\ Len(Append(s, x)) = Len(s) + 1
         /\ DOMAIN Append(s, x) = 1..Len(s) + 1
         /\ Append(s, x)[Len(s) + 1] = x
         /\ \A k \in 1..Len(s) : Append(s, x)[k] = s[k]
OBVIOUS

LEMMA RangeAppend ==
  ASSUME NEW S, NEW s \in Seq(S), NEW x \in S
  PROVE  /\ Append(s, x) \in Seq(S)
         /\ Range(Append(s, x)) = Range(s) \cup {x}
<1>1. /\ Append(s, x) \in Seq(S) /\ Len(Append(s, x)) = Len(s) + 1
      /\ Append(s, x)[Len(s) + 1] = x
      /\ \A i \in 1..Len(s) : Append(s, x)[i] = s[i]
  OBVIOUS
<1>2. ASSUME NEW y
      PROVE  y \in Range(Append(s, x)) <=> y \in Range(s) \cup {x}
  <2>1. y \in Range(Append(s, x)) <=>
          \E i \in 1..Len(s) + 1 : Append(s, x)[i] = y
    BY <1>1, Ranges
  <2>2. y \in Range(s) <=> \E i \in 1..Len(s) : s[i] = y
    BY Ranges
  <2> QED
    BY <1>1, <2>1, <2>2
<1> QED
  BY <1>1, <1>2

LEMMA RangeTail ==
  ASSUME NEW S, NEW s \in Seq(S), s # <<>>
  PROVE  /\ Head(s) \in S /\ Tail(s) \in Seq(S)
         /\ Range(s) = Range(Tail(s)) \cup {Head(s)}
<1>1. /\ Head(s) \in S /\ Tail(s) \in Seq(S) /\ Len(Tail(s)) = Len(s) - 1
      /\ \A i \in 1..Len(s) - 1 : Tail(s)[i] = s[i + 1]
      /\ Head(s) = s[1] /\ Len(s) >= 1 /\ Len(s) \in Nat
  OBVIOUS
<1>2. ASSUME NEW y
      PROVE  y \in Range(s) <=> y \in Range(Tail(s)) \cup {Head(s)}
  <2>1. y \in Range(s) <=> \E i \in 1..Len(s) : s[i] = y
    BY Ranges
  <2>2. y \in Range(Tail(s)) <=> \E i \in 1..Len(s) - 1 : Tail(s)[i] = y
    BY <1>1, Ranges
  <2>3. ASSUME y \in Range(s), y # Head(s)
        PROVE  y \in Range(Tail(s))
    <3>1. PICK i \in 1..Len(s) : s[i] = y
      BY <2>1, <2>3
    <3>2. i - 1 \in 1..Len(s) - 1 /\ Tail(s)[i - 1] = y
      BY <1>1, <2>3, <3>1
    <3> QED
      BY <2>2, <3>2
  <2>4. ASSUME y \in Range(Tail(s))
        PROVE  y \in Range(s)
    <3>1. PICK i \in 1..Len(s) - 1 : Tail(s)[i] = y
      BY <2>2, <2>4
    <3>2. i + 1 \in 1..Len(s) /\ s[i + 1] = y
      BY <1>1, <3>1
    <3> QED
      BY <2>1, <3>2
  <2>5. Head(s) \in Range(s)
    BY Ranges
  <2> QED
    BY <2>3, <2>4, <2>5
<1> QED
  BY <1>1, <1>2

LEMMA RangeOne ==
  ASSUME NEW S, NEW x \in S
  PROVE  <<x>> \in Seq(S) /\ Range(<<x>>) = {x}
BY DEF Range

-----------------------------------------------------------------------------
(* The end of a run.                                                       *)

(* Its batch stays, or goes out under its first turn.                      *)
Quiet(t, end) ==
  /\ run' = [run EXCEPT ![t] = end]
  /\ \/ req' = [req EXCEPT ![t] = "none"]
     \/ req' = req /\ end = "stopped"
  /\ ctrl' = None
  /\ UNCHANGED <<chatOf, item, batch>>

Drained(t, end, h) ==
  /\ h # t /\ run[h] = "none" /\ item[h] = <<>> /\ home[h] = chatOf[t]
  /\ h \in Range(batch[chatOf[t]])
  /\ run' = [run EXCEPT ![t] = end, ![h] = "posted"]
  /\ chatOf' = [chatOf EXCEPT ![h] = active]
  /\ item' = [item EXCEPT ![h] = batch[chatOf[t]]]
  /\ batch' = [batch EXCEPT ![chatOf[t]] = <<>>]
  /\ req' = [req EXCEPT ![t] = "none", ![h] = "out"]
  /\ ctrl' = h

LEMMA SettleShape ==
  ASSUME TypeOK, PlaceInv, NEW t \in Turns, run[t] \in InFlight,
         NEW end, NEW drain \in BOOLEAN, Settle(t, end, drain)
  PROVE  /\ chatOf[t] \in Chats
         /\ \/ Quiet(t, end) /\ (drain => batch[chatOf[t]] = <<>>)
            \/ \E h \in Turns : drain /\ Drained(t, end, h)
<1>1. chatOf[t] \in Chats
  BY DEF TypeOK, PlaceInv
<1>2. batch[chatOf[t]] \in Seq(Turns)
  BY <1>1 DEF TypeOK
<1>3. CASE drain /\ batch[chatOf[t]] # <<>>
  <2> DEFINE h == Head(batch[chatOf[t]])
  <2>1. h \in Turns /\ h \in Range(batch[chatOf[t]])
    BY <1>2, <1>3, Ranges
  <2>2. home[h] = chatOf[t] /\ run[h] = "none" /\ item[h] = <<>>
    BY <1>1, <2>1 DEF PlaceInv
  <2>3. h # t
    BY <2>2 DEF InFlight
  <2>4. Drained(t, end, h)
    BY <1>3, <2>1, <2>2, <2>3 DEF Drained, Settle
  <2> QED
    BY <1>1, <1>3, <2>1, <2>4
<1>4. CASE ~(drain /\ batch[chatOf[t]] # <<>>)
  <2>1. req = [req EXCEPT ![t] = @]
    BY DEF TypeOK
  <2>2. Quiet(t, end)
    BY <1>4, <2>1 DEF Settle, Quiet
  <2> QED
    BY <1>1, <1>4, <2>2
<1> QED
  BY <1>3, <1>4

(* What the steps that end a run have in common.                           *)
Ends(t, end, drain) ==
  /\ run[t] \in InFlight
  /\ Settle(t, end, drain)
  /\ RetryAfter(t, held')
  /\ held' = IF end = "held" THEN Append(held, t) ELSE held
  /\ UNCHANGED <<home, won, src, heard, painted, serverVars>>
  /\ left \subseteq left' /\ left' \subseteq Chats
  /\ blind \subseteq blind' /\ blind' \subseteq Turns
  /\ drain \/ chatOf[t] \in left'
  /\ active' \in Chats /\ breaks' \in 0..MaxBreaks /\ extras' \in 0..MaxExtras
  /\ \/ end = "done" /\ run[t] # "posted"
     \/ end = "held" /\ run[t] = "posted" /\ (Saved(t) => t \in blind')
     \/ end = "refused" /\ run[t] = "posted" /\ req[t] = "bad"
     \/ end = "stopped" /\ run[t] = "posted"
(* The parts of TypeOK that are used most.                                 *)
LEMMA Shapes ==
  ASSUME TypeOK
  PROVE  /\ batch \in [Chats -> Seq(Turns)] /\ saved \in [Chats -> Seq(Turns)]
         /\ run \in [Turns -> RunState] /\ req \in [Turns -> ReqState]
         /\ home \in [Turns -> Chats \cup {None}]
         /\ src \in [Turns -> Nat] /\ won \in [Turns -> Nat]
         /\ rounds \in Seq(Round)
         /\ Len(rounds) \in Nat /\ DOMAIN rounds = 1..Len(rounds)
         /\ \A n \in DOMAIN rounds : rounds[n] \in Round
<1>1. /\ batch \in [Chats -> Seq(Turns)] /\ saved \in [Chats -> Seq(Turns)]
      /\ run \in [Turns -> RunState] /\ req \in [Turns -> ReqState]
      /\ home \in [Turns -> Chats \cup {None}]
      /\ src \in [Turns -> Nat] /\ won \in [Turns -> Nat]
      /\ rounds \in Seq(Round)
  BY DEF TypeOK
<1>2. /\ Len(rounds) \in Nat /\ DOMAIN rounds = 1..Len(rounds)
      /\ \A n \in DOMAIN rounds : rounds[n] \in Round
  BY <1>1
<1> QED
  BY <1>1, <1>2

LEMMA BatchSeq ==
  ASSUME TypeOK, NEW c \in Chats
  PROVE  /\ batch[c] \in Seq(Turns) /\ Range(batch[c]) \subseteq Turns
         /\ saved[c] \in Seq(Turns) /\ Range(saved[c]) \subseteq Turns
BY Ranges DEF TypeOK

LEMMA EndsTypes ==
  ASSUME TypeOK, PlaceInv, NEW t \in Turns, NEW end, NEW drain \in BOOLEAN,
         Ends(t, end, drain)
  PROVE  TypeOK'
<1>1. /\ chatOf[t] \in Chats
      /\ \/ Quiet(t, end) /\ (drain => batch[chatOf[t]] = <<>>)
         \/ \E h \in Turns : drain /\ Drained(t, end, h)
  BY SettleShape DEF Ends
<1>2. end \in RunState
  BY DEF Ends, RunState
<1>3. held' \in Seq(Turns)
  BY RangeAppend DEF Ends, TypeOK
<1>4. /\ retry' \in {"off", "waiting", "sending"}
      /\ retrying' \in Turns \cup {None}
  BY DEF Ends, RetryAfter, TypeOK
<1>5. /\ batch' \in [Chats -> Seq(Turns)] /\ ctrl' \in Turns \cup {None}
      /\ item' \in [Turns -> Seq(Turns)] /\ run' \in [Turns -> RunState]
      /\ chatOf' \in [Turns -> Chats \cup {None}]
      /\ req' \in [Turns -> ReqState]
  <2>1. CASE Quiet(t, end)
    BY <1>2, <2>1 DEF Quiet, TypeOK, ReqState
  <2>2. ASSUME NEW h \in Turns, Drained(t, end, h)
        PROVE  <1>5
    <3>1. <<>> \in Seq(Turns) /\ batch[chatOf[t]] \in Seq(Turns)
      BY <1>1, BatchSeq
    <3>2. "posted" \in RunState /\ {"none", "out"} \subseteq ReqState
      BY DEF RunState, ReqState
    <3> QED
      BY <1>2, <2>2, <3>1, <3>2 DEF Drained, TypeOK
  <2> QED
    BY <1>1, <2>1, <2>2
<1> QED
  BY <1>3, <1>4, <1>5 DEF TypeOK, Ends, serverVars

(* The runs and the batches after it.                                      *)
Same(u) ==
  /\ run'[u] = run[u] /\ item'[u] = item[u]
  /\ req'[u] = req[u] /\ chatOf'[u] = chatOf[u]

Sent(u) ==
  /\ run[u] = "none" /\ item[u] = <<>>
  /\ run'[u] = "posted" /\ req'[u] = "out" /\ chatOf'[u] \in Chats

RunsAfter(t, end, drain) ==
  /\ run'[t] = end /\ item'[t] = item[t] /\ chatOf'[t] = chatOf[t]
  /\ req'[t] = "none" \/ (end = "stopped" /\ req'[t] = req[t])
  /\ \A u \in Turns \ {t} : Same(u) \/ Sent(u)
  /\ ctrl' = None \/ (ctrl' \in Turns /\ run'[ctrl'] = "posted")
  /\ \A c \in Chats :
       \/ batch'[c] = batch[c] /\ (drain /\ c = chatOf[t] => batch[c] = <<>>)
       \/ /\ batch'[c] = <<>> /\ drain
          /\ \E h \in Turns : item'[h] = batch[c] /\ run'[h] = "posted"

LEMMA EndsRuns ==
  ASSUME TypeOK, PlaceInv, NEW t \in Turns, NEW end, NEW drain \in BOOLEAN,
         Ends(t, end, drain)
  PROVE  RunsAfter(t, end, drain)
<1>1. /\ chatOf[t] \in Chats
      /\ \/ Quiet(t, end) /\ (drain => batch[chatOf[t]] = <<>>)
         \/ \E h \in Turns : drain /\ Drained(t, end, h)
  BY SettleShape DEF Ends
<1>2. CASE Quiet(t, end) /\ (drain => batch[chatOf[t]] = <<>>)
  <2>1. /\ run'[t] = end /\ item' = item /\ chatOf' = chatOf /\ batch' = batch
        /\ ctrl' = None
        /\ req'[t] = "none" \/ (end = "stopped" /\ req'[t] = req[t])
    BY <1>2 DEF Quiet, TypeOK
  <2>2. \A u \in Turns \ {t} : Same(u)
    BY <1>2 DEF Quiet, TypeOK, Same
  <2> QED
    BY <1>2, <2>1, <2>2 DEF RunsAfter
<1>3. ASSUME NEW h \in Turns, drain, Drained(t, end, h)
      PROVE  RunsAfter(t, end, drain)
  <2>1. /\ run'[t] = end /\ item'[t] = item[t] /\ chatOf'[t] = chatOf[t]
        /\ req'[t] = "none" /\ ctrl' = h /\ run'[h] = "posted"
    BY <1>3 DEF Drained, TypeOK
  <2>2. Sent(h)
    BY <1>3 DEF Drained, TypeOK, Sent
  <2>3. \A u \in Turns \ {t, h} : Same(u)
    BY <1>3 DEF Drained, TypeOK, Same
  <2>4. \A c \in Chats :
          \/ c # chatOf[t] /\ batch'[c] = batch[c]
          \/ batch'[c] = <<>> /\ item'[h] = batch[c]
    BY <1>3 DEF Drained, TypeOK
  <2> QED
    BY <1>3, <2>1, <2>2, <2>3, <2>4 DEF RunsAfter
<1> QED
  BY <1>1, <1>2, <1>3

LEMMA EndsPlace ==
  ASSUME TypeOK, PlaceInv, NEW t \in Turns, NEW end, NEW drain \in BOOLEAN,
         Ends(t, end, drain)
  PROVE  PlaceInv'
<1>1. /\ chatOf[t] \in Chats
      /\ \/ Quiet(t, end) /\ (drain => batch[chatOf[t]] = <<>>)
         \/ \E h \in Turns : drain /\ Drained(t, end, h)
  BY SettleShape DEF Ends
<1>2. /\ end \in {"done", "held", "refused", "stopped"} /\ home' = home
      /\ run[t] # "none"
  BY DEF Ends, InFlight
<1>3. ASSUME NEW u \in Turns
      PROVE  /\ home'[u] = None => run'[u] = "none"
             /\ run'[u] = "none" => item'[u] = <<>> /\ req'[u] = "none"
             /\ run'[u] \in InFlight => chatOf'[u] # None
             /\ req'[u] # "none" => run'[u] \in {"posted", "stopped"}
  <2>1. CASE u = t
    BY <1>2, <2>1, EndsRuns, SendAssumption DEF RunsAfter, PlaceInv, InFlight
  <2>2. CASE u # t /\ run'[u] = run[u]
    BY <1>2, <2>2, EndsRuns, SendAssumption
       DEF RunsAfter, Same, Sent, PlaceInv
  <2>3. CASE u # t /\ run'[u] # run[u]
    <3>1. /\ run[u] = "none" /\ run'[u] = "posted" /\ chatOf'[u] \in Chats
      BY <2>3, EndsRuns DEF RunsAfter, Same, Sent
    <3>2. home[u] # None
      <4>1. CASE Quiet(t, end)
        BY <2>3, <4>1 DEF Quiet, TypeOK
      <4>2. ASSUME NEW h \in Turns, Drained(t, end, h)
            PROVE  home[u] # None
        <5>1. u = h
          BY <2>3, <4>2 DEF Drained, TypeOK
        <5> QED
          BY <1>1, <4>2, <5>1, SendAssumption DEF Drained
      <4> QED
        BY <1>1, <4>1, <4>2
    <3> QED
      BY <1>2, <3>1, <3>2, SendAssumption
  <2> QED
    BY <2>1, <2>2, <2>3
<1>4. ASSUME NEW c \in Chats, NEW u \in Range(batch'[c])
      PROVE  home'[u] = c /\ run'[u] = "none"
  <2>1. CASE Quiet(t, end)
    BY <1>2, <1>4, <2>1, BatchSeq DEF Quiet, TypeOK, PlaceInv
  <2>2. ASSUME NEW h \in Turns, Drained(t, end, h)
        PROVE  home'[u] = c /\ run'[u] = "none"
    <3>1. c # chatOf[t] /\ batch'[c] = batch[c]
      BY <1>1, <1>4, <2>2, Ranges DEF Drained, TypeOK
    <3>2. u \in Turns /\ home[u] = c /\ run[u] = "none"
      BY <1>4, <3>1, BatchSeq DEF PlaceInv
    <3> QED
      BY <1>2, <2>2, <3>1, <3>2 DEF Drained, TypeOK
  <2> QED
    BY <1>1, <2>1, <2>2
<1> QED
  BY <1>3, <1>4 DEF PlaceInv

LEMMA EndsKeeps ==
  ASSUME IInv, NEW t \in Turns, NEW end, NEW drain \in BOOLEAN,
         Ends(t, end, drain)
  PROVE  IInv'
<1>1. TypeOK /\ PlaceInv
  BY DEF IInv
<1>2. /\ run'[t] = end /\ item'[t] = item[t] /\ chatOf'[t] = chatOf[t]
      /\ \A u \in Turns \ {t} : Same(u) \/ Sent(u)
      /\ req'[t] = "none" \/ (end = "stopped" /\ req'[t] = req[t])
      /\ ctrl' = None \/ (ctrl' \in Turns /\ run'[ctrl'] = "posted")
  BY <1>1, EndsRuns DEF RunsAfter
<1>3. /\ run[t] \in InFlight
      /\ held' = IF end = "held" THEN Append(held, t) ELSE held
      /\ UNCHANGED <<home, won, src, heard, painted, rounds, saved>>
      /\ left \subseteq left' /\ blind \subseteq blind'
      /\ drain \/ chatOf[t] \in left'
      /\ \/ end = "done" /\ run[t] # "posted"
         \/ end = "held" /\ run[t] = "posted" /\ (Saved(t) => t \in blind')
         \/ end = "refused" /\ run[t] = "posted" /\ req[t] = "bad"
         \/ end = "stopped" /\ run[t] = "posted"
  BY DEF Ends, serverVars
<1>4. TypeOK' /\ PlaceInv'
  BY <1>1, EndsTypes, EndsPlace
<1>a. held \in Seq(Turns) /\ DOMAIN held = 1..Len(held)
  BY <1>1 DEF TypeOK
<1>5. HeldInv'
  <2>1. CASE end = "held"
    <3>1. held' = Append(held, t) /\ t \notin Range(held)
      BY <1>3, <2>1 DEF IInv, HeldInv
    <3>2. Range(held') = Range(held) \cup {t}
      BY <1>1, <3>1, RangeAppend DEF TypeOK
    <3>3. ASSUME NEW u \in Turns
          PROVE  run'[u] = "held" <=> u \in Range(held')
      BY <1>2, <2>1, <3>2 DEF IInv, HeldInv, Same, Sent
    <3>4. ASSUME NEW i \in DOMAIN held', NEW j \in DOMAIN held', held'[i] = held'[j]
          PROVE  i = j
      <4>1. \A k \in 1..Len(held) : held[k] # t
        BY <1>1, <3>1, Ranges DEF TypeOK
      <4>2. /\ Len(held) \in Nat /\ DOMAIN held' = 1..Len(held) + 1
            /\ held'[Len(held) + 1] = t
            /\ \A k \in 1..Len(held) : held'[k] = held[k]
        BY <1>1, <3>1, Appended DEF TypeOK
      <4>3. \A k, l \in 1..Len(held) : held[k] = held[l] => k = l
        BY <1>a DEF IInv, HeldInv
      <4>4. (i \in 1..Len(held) \/ i = Len(held) + 1)
            /\ (j \in 1..Len(held) \/ j = Len(held) + 1)
        BY <3>4, <4>2
      <4> QED
        BY <3>4, <4>1, <4>2, <4>3, <4>4
    <3> QED
      BY <3>3, <3>4 DEF HeldInv
  <2>2. CASE end # "held"
    <3>1. held' = held /\ run[t] # "held"
      BY <1>3, <2>2 DEF InFlight
    <3>2. ASSUME NEW u \in Turns
          PROVE  run'[u] = "held" <=> run[u] = "held"
      BY <1>2, <2>2, <3>1 DEF Same, Sent
    <3> QED
      BY <3>1, <3>2 DEF IInv, HeldInv
  <2> QED
    BY <2>1, <2>2
<1>6. CtrlInv'
  <2>1. ctrl' # None => run'[ctrl'] \in InFlight
    BY <1>2 DEF InFlight
  <2>2. ASSUME NEW u \in Turns, run'[u] = "cut"
        PROVE  chatOf'[u] \in left'
    BY <1>2, <1>3, <2>2 DEF IInv, CtrlInv, Same, Sent
  <2> QED
    BY <2>1, <2>2 DEF CtrlInv
<1>7. SavedInv'
  <2>1. \A u : Saved(u)' <=> Saved(u)
    BY <1>3 DEF Saved
  <2>2. ASSUME NEW u \in Turns
        PROVE  /\ home'[u] # None /\ Saved(u)' => won'[u] # 0
               /\ req'[u] = "ok" \/ run'[u] \in Given =>
                    home'[u] # None /\ Saved(u)' /\ won'[u] \in DOMAIN rounds'
               /\ home'[u] # None /\ Saved(u)' /\ u \notin blind' =>
                    /\ req'[u] \notin {"out", "busy", "bad"}
                    /\ run'[u] \notin Untaken
    <3>1. CASE u # t /\ Same(u)
      BY <1>2, <1>3, <2>1, <3>1 DEF IInv, SavedInv, Same, Sent
    <3>2. CASE u # t /\ Sent(u)
      BY <1>2, <1>3, <2>1, <3>2 DEF IInv, SavedInv, Given, Untaken, Same, Sent
    <3>3. CASE u = t
      BY <1>2, <1>3, <2>1, <3>3 DEF IInv, SavedInv, Given, Untaken, InFlight
    <3> QED
      BY <1>2, <3>1, <3>2, <3>3
  <2> QED
    BY <1>3, <2>2 DEF IInv, SavedInv
<1>8. IdInv'
  BY <1>3 DEF IInv, IdInv, Up
<1>9. HeardInv'
  <2>1. ASSUME NEW u \in Turns
        PROVE  /\ run'[u] \in Given <=> run[u] \in Given
               /\ run[u] \in Given => chatOf'[u] = chatOf[u]
    BY <1>2, <1>3 DEF Given, InFlight, Same, Sent
  <2>2. ASSUME NEW u \in Turns, NEW n, run[u] \in Given, StandsIn(u, n)
        PROVE  StandsIn(u, n)'
    BY <1>3, <2>1, <2>2 DEF StandsIn
  <2>3. \A u \in Turns : run[u] \notin Given => heard[u] = <<>>
    BY DEF IInv, HeardInv
  <2> QED
    BY <1>3, <2>1, <2>2, <2>3 DEF IInv, HeardInv
<1>10. NothingDropped'
  <2> SUFFICES ASSUME NEW u \in Turns, home'[u] # None
               PROVE  \/ u \in Range(batch'[home'[u]])
                      \/ \E h \in SendOf(u)' :
                           \/ h \in Range(held') /\ run'[h] = "held"
                           \/ run'[h] \in {"posted", "refused", "stopped"}
                           \/ Saved(h)'
    BY DEF NothingDropped
  <2>1. home[u] \in Chats
    BY <1>1, <1>3 DEF TypeOK
  <2>2. CASE u \in Range(batch[home[u]])
    <3>1. \/ batch'[home[u]] = batch[home[u]]
          \/ \E h \in Turns : item'[h] = batch[home[u]] /\ run'[h] = "posted"
      BY <1>1, <2>1, EndsRuns DEF RunsAfter
    <3> QED
      BY <1>3, <2>2, <3>1 DEF SendOf
  <2>3. ASSUME NEW h \in SendOf(u),
               \/ h \in Range(held) /\ run[h] = "held"
               \/ run[h] \in {"posted", "refused", "stopped"}
               \/ Saved(h)
        PROVE  \E g \in SendOf(u)' :
                 \/ g \in Range(held') /\ run'[g] = "held"
                 \/ run'[g] \in {"posted", "refused", "stopped"}
                 \/ Saved(g)'
    <3>1. h \in Turns /\ u \in Range(item[h])
      BY DEF SendOf
    <3>2. item[h] # <<>>
      BY <1>1, <3>1, Ranges DEF TypeOK
    <3>3. item'[h] = item[h]
      BY <1>2, <3>1, <3>2 DEF Same, Sent
    <3>4. h \in SendOf(u)'
      BY <3>1, <3>3 DEF SendOf
    <3>5. CASE h = t
      <4>1. CASE Saved(h)
        BY <1>3, <3>4, <4>1 DEF Saved
      <4>2. CASE ~Saved(h)
        <5>1. end \in {"held", "refused", "stopped"}
          BY <1>3, <2>3, <3>5, <4>2 DEF InFlight
        <5>2. run'[h] = "held" => h \in Range(held')
          BY <1>5, <3>1 DEF HeldInv
        <5> QED
          BY <1>2, <3>4, <3>5, <5>1, <5>2
      <4> QED
        BY <4>1, <4>2
    <3>6. CASE h # t
      <4>1. Same(h)
        BY <1>2, <3>1, <3>2, <3>6 DEF Same, Sent
      <4>2. run'[h] = "held" => h \in Range(held')
        BY <1>5, <3>1 DEF HeldInv
      <4>3. Saved(h) => Saved(h)'
        BY <1>3 DEF Saved
      <4> QED
        BY <2>3, <3>4, <4>1, <4>2, <4>3 DEF Same, Sent
    <3> QED
      BY <3>5, <3>6
  <2> QED
    BY <1>3, <2>2, <2>3 DEF IInv, NothingDropped
<1>11. SavedTwiceOnlyBlind'
  BY <1>3 DEF IInv, SavedTwiceOnlyBlind
<1>12. NothingStuck'
  <2>1. ASSUME NEW c \in Chats, batch'[c] # <<>>, c \notin left'
        PROVE  \E u \in Turns : run'[u] \in InFlight /\ chatOf'[u] = c
    <3>1. batch'[c] = batch[c] /\ (drain /\ c = chatOf[t] => batch[c] = <<>>)
      BY <1>1, <2>1, EndsRuns DEF RunsAfter
    <3>2. PICK u \in Turns : run[u] \in InFlight /\ chatOf[u] = c
      BY <1>3, <2>1, <3>1 DEF IInv, NothingStuck, BatchWillDrain
    <3>3. u # t
      BY <1>3, <2>1, <3>1, <3>2
    <3>4. Same(u)
      BY <1>2, <3>2, <3>3 DEF InFlight, Same, Sent
    <3> QED
      BY <3>2, <3>4 DEF Same, Sent
  <2>2. BatchWillDrain'
    BY <2>1 DEF BatchWillDrain
  <2>3. RetryAfter(t, held')
    BY DEF Ends
  <2>4. retrying # None /\ retrying # t => run'[retrying] \in InFlight
    BY <1>1, <1>2 DEF IInv, NothingStuck, RetryAwake, TypeOK, InFlight,
       Same, Sent
  <2>5. held' # <<>> \/ held = <<>>
    <3>1. CASE end = "held"
      BY <1>3, <1>a, <3>1, Appended
    <3>2. CASE end # "held"
      BY <1>3, <3>2
    <3> QED
      BY <3>1, <3>2
  <2>6. RetryAwake'
    BY <1>1, <2>3, <2>4, <2>5, SendAssumption
       DEF RetryAfter, IInv, NothingStuck, RetryAwake, TypeOK
  <2> QED
    BY <2>2, <2>6 DEF NothingStuck
<1> QED
  BY <1>4, <1>5, <1>6, <1>7, <1>8, <1>9, <1>10, <1>11, <1>12 DEF IInv
-----------------------------------------------------------------------------
(* The rounds.                                                             *)

(* A set of round numbers has a greatest one, so a chat has a latest round *)
(* or none.                                                                *)
LEMMA Greatest ==
  ASSUME NEW L \in Nat, NEW S \in SUBSET (0..L), S # {}
  PROVE  \E n \in S : \A m \in S : m <= n
<1> DEFINE T == {L - n : n \in S}
<1>1. T \subseteq Nat /\ T # {}
  <2>1. \A n \in S : L - n \in Nat
    OBVIOUS
  <2> QED
    BY <2>1
<1>2. PICK x \in T : \A y \in T : ~ (<<y, x>> \in OpToRel(<, Nat))
  BY <1>1, WFMin, NatLessThanWellFounded
<1>3. \A y \in T : ~ (y < x)
  BY <1>1, <1>2 DEF OpToRel
<1>4. PICK n \in S : x = L - n
  OBVIOUS
<1>5. \A m \in S : m <= n
  BY <1>3, <1>4
<1> QED
  BY <1>5

LEMMA LatestRound ==
  ASSUME TypeOK, NEW c \in Chats, Latest(c) # 0
  PROVE  Latest(c) \in Up /\ rounds[Latest(c)].chat = c
<1> DEFINE mine == {n \in DOMAIN rounds : rounds[n].chat = c /\ rounds[n].up}
           S == mine \cup {0}
<1>1. Len(rounds) \in Nat /\ DOMAIN rounds = 1..Len(rounds)
  BY DEF TypeOK
<1>2. S \in SUBSET (0..Len(rounds)) /\ S # {}
  BY <1>1
<1>3. \E n \in S : \A m \in S : m <= n
  BY <1>1, <1>2, Greatest
<1>4. \E n \in S : \A m \in mine : m <= n
  BY <1>3
<1>5. Latest(c) = CHOOSE n \in S : \A m \in mine : m <= n
  BY DEF Latest
<1>6. Latest(c) \in S
  <2> HIDE DEF S, mine
  <2> QED
    BY <1>4, <1>5
<1> QED
  BY <1>6 DEF Up

LEMMA NewRoundIs ==
  ASSUME TypeOK, NEW c \in Chats
  PROVE  /\ NewRound(c) \in Round
         /\ NewRound(c).id = Cardinality(Up) + 1
         /\ NewRound(c).chat = c /\ NewRound(c).up
         /\ IsFiniteSet(Up) /\ Cardinality(Up) \in Nat
<1>1. Up \subseteq 1..Len(rounds) /\ Len(rounds) \in Nat
  BY Shapes DEF Up
<1>2. IsFiniteSet(Up)
  <2>1. IsFiniteSet(1..Len(rounds))
    BY <1>1, FS_Interval
  <2> QED
    BY <1>1, <2>1, FS_Subset
<1>3. Cardinality(Up) \in Nat
  BY <1>2, FS_CardinalityType
<1> QED
  BY <1>2, <1>3 DEF NewRound, Round, Up

(* What the server does to its rounds: they keep their chats and their     *)
(* ids, none comes back, and a round that starts has the next id.          *)
RoundsGoOn ==
  /\ rounds' \in Seq(Round)
  /\ \A n \in DOMAIN rounds :
       /\ n \in DOMAIN rounds'
       /\ rounds'[n].chat = rounds[n].chat /\ rounds'[n].id = rounds[n].id
       /\ rounds'[n].up => rounds[n].up

LEMMA RoundStarts ==
  ASSUME TypeOK, IdInv, NEW c \in Chats,
         rounds' = Append(rounds, NewRound(c))
  PROVE  RoundsGoOn /\ IdInv' /\ Len(rounds) + 1 \in DOMAIN rounds'
<1>1. /\ rounds \in Seq(Round) /\ NewRound(c) \in Round
      /\ NewRound(c).id = Cardinality(Up) + 1 /\ NewRound(c).up
      /\ IsFiniteSet(Up) /\ Cardinality(Up) \in Nat
  BY NewRoundIs DEF TypeOK
<1> DEFINE k == Len(rounds) + 1
<1>2. /\ Len(rounds) \in Nat /\ DOMAIN rounds = 1..Len(rounds)
      /\ rounds' \in Seq(Round) /\ DOMAIN rounds' = 1..k
      /\ rounds'[k] = NewRound(c)
      /\ \A n \in 1..Len(rounds) : rounds'[n] = rounds[n]
  BY <1>1, Appended
<1>3. Up' = Up \cup {k} /\ k \notin Up
  BY <1>1, <1>2 DEF Up
<1>4. Cardinality(Up') = Cardinality(Up) + 1
  BY <1>1, <1>3, FS_AddElement
<1>5. \A n \in Up : rounds'[n] = rounds[n] /\ rounds[n] \in Round
  BY <1>1, <1>2 DEF Up
<1>6. \A n \in Up : rounds[n].id \in Nat
  BY <1>5 DEF Round
<1>7. rounds'[k].id = Cardinality(Up) + 1
  BY <1>1, <1>2
<1>8. IdInv'
  <2> HIDE DEF k
  <2>1. \A n \in Up :
          /\ rounds'[n] = rounds[n] /\ rounds[n].id \in Nat
          /\ rounds[n].id <= Cardinality(Up)
    BY <1>5, <1>6 DEF IdInv
  <2>2. \A m, n \in Up : rounds[m].id = rounds[n].id => m = n
    BY DEF IdInv
  <2>3. /\ \A n \in Up \cup {k} : rounds'[n].id <= Cardinality(Up) + 1
        /\ \A m, n \in Up \cup {k} : rounds'[m].id = rounds'[n].id => m = n
    <3> DEFINE new == rounds'
    <3>1. /\ \A n \in Up :
              /\ new[n] = rounds[n] /\ rounds[n].id \in Nat
              /\ rounds[n].id <= Cardinality(Up)
          /\ new[k].id = Cardinality(Up) + 1 /\ Cardinality(Up) \in Nat
      BY <1>1, <1>7, <2>1
    <3> HIDE DEF new
    <3>2. /\ \A n \in Up \cup {k} : new[n].id <= Cardinality(Up) + 1
          /\ \A m, n \in Up \cup {k} : new[m].id = new[n].id => m = n
      BY <2>2, <3>1
    <3> QED
      BY <3>2 DEF new
  <2> QED
    BY <1>3, <1>4, <2>3 DEF IdInv
<1>9. \A n \in DOMAIN rounds : n \in DOMAIN rounds' /\ rounds'[n] = rounds[n]
  BY <1>2
<1>10. RoundsGoOn
  BY <1>2, <1>9 DEF RoundsGoOn
<1> QED
  BY <1>2, <1>8, <1>10

LEMMA RoundChanges ==
  ASSUME TypeOK, IdInv, NEW n \in DOMAIN rounds, NEW r \in Round,
         r.chat = rounds[n].chat, r.id = rounds[n].id, r.up = rounds[n].up,
         rounds' = [rounds EXCEPT ![n] = r]
  PROVE  RoundsGoOn /\ IdInv'
<1>1. /\ rounds' \in Seq(Round) /\ DOMAIN rounds' = DOMAIN rounds
      /\ \A m \in DOMAIN rounds :
            /\ rounds'[m].chat = rounds[m].chat
            /\ rounds'[m].id = rounds[m].id /\ rounds'[m].up = rounds[m].up
  <2>1. rounds \in Seq(Round)
    BY Shapes
  <2> QED
    BY <2>1
<1>2. Up' = Up
  BY <1>1 DEF Up
<1> QED
  BY <1>1, <1>2 DEF RoundsGoOn, IdInv, Up

LEMMA RoundsEnd ==
  ASSUME TypeOK,
         rounds' = [n \in DOMAIN rounds |-> [rounds[n] EXCEPT !.up = FALSE]]
  PROVE  RoundsGoOn /\ IdInv'
<1>1. /\ Len(rounds) \in Nat /\ DOMAIN rounds = 1..Len(rounds)
      /\ \A n \in 1..Len(rounds) : rounds[n] \in Round
  BY DEF TypeOK
<1>2. /\ DOMAIN rounds' = DOMAIN rounds
      /\ \A n \in DOMAIN rounds :
            /\ rounds'[n] \in Round /\ ~rounds'[n].up
            /\ rounds'[n].chat = rounds[n].chat /\ rounds'[n].id = rounds[n].id
  BY <1>1 DEF Round
<1>3. rounds' \in Seq(Round)
  BY <1>1, <1>2
<1>4. Up' = {}
  BY <1>2 DEF Up
<1> QED
  BY <1>2, <1>3, <1>4 DEF RoundsGoOn, IdInv

(* What a stream took stands as long as its send keeps round and chat.     *)
LEMMA StandsOn ==
  ASSUME TypeOK, RoundsGoOn, NEW t \in Turns, NEW n \in DOMAIN rounds,
         won[t] \in DOMAIN rounds, won'[t] = won[t], chatOf'[t] = chatOf[t],
         StandsIn(t, n)
  PROVE  StandsIn(t, n)' /\ n \in DOMAIN rounds'
BY DEF StandsIn, RoundsGoOn
-----------------------------------------------------------------------------
(* Steps that neither send, save nor end a run: they move runs that are in *)
(* flight, and requests on the network.                                    *)
Moves ==
  /\ UNCHANGED <<batch, held, item, home, chatOf, saved, blind, retryVars,
                 ctrl, won>>
  /\ left \subseteq left'
  /\ DOMAIN rounds \subseteq DOMAIN rounds'
  /\ \A u \in Turns :
       /\ \/ run'[u] = run[u]
          \/ /\ run[u] \in InFlight /\ run'[u] \in InFlight \ {"posted"}
             /\ run[u] = "posted" => req[u] = "ok"
             /\ run'[u] = "cut" => chatOf[u] \in left'
             /\ req'[u] = "none"
       /\ \/ req'[u] \in {"none", req[u]}
          \/ req[u] = "out" /\ req'[u] \in {"busy", "bad"}
          \/ req[u] # "none" /\ req'[u] = "lost"

LEMMA MovesKeep ==
  ASSUME IInv, Moves
  PROVE  /\ PlaceInv' /\ HeldInv' /\ CtrlInv' /\ SavedInv'
         /\ NothingDropped' /\ SavedTwiceOnlyBlind' /\ NothingStuck'
<1>1. /\ TypeOK /\ PlaceInv
      /\ UNCHANGED <<batch, held, item, home, chatOf, saved, blind, retry,
                     retrying, ctrl, won>>
      /\ left \subseteq left'
  BY DEF IInv, Moves, retryVars
<1>2. ASSUME NEW u \in Turns
      PROVE  \/ run'[u] = run[u]
             \/ /\ run[u] \in InFlight /\ run'[u] \in InFlight \ {"posted"}
                /\ run[u] = "posted" => req[u] = "ok"
                /\ run'[u] = "cut" => chatOf[u] \in left'
                /\ req'[u] = "none"
  BY DEF Moves
<1>3. ASSUME NEW u \in Turns
      PROVE  \/ req'[u] \in {"none", req[u]}
             \/ req[u] = "out" /\ req'[u] \in {"busy", "bad"}
             \/ req[u] # "none" /\ req'[u] = "lost"
  BY DEF Moves
<1>4. ASSUME NEW u \in Turns
      PROVE  /\ run'[u] = "none" <=> run[u] = "none"
             /\ run'[u] = "held" <=> run[u] = "held"
             /\ run[u] \in InFlight <=> run'[u] \in InFlight
             /\ run'[u] \in Untaken <=> run[u] \in Untaken
  BY <1>2 DEF InFlight, Untaken
<1>5. \A u \in Turns : Saved(u) <=> Saved(u)'
  BY <1>1 DEF Saved
<1>6. PlaceInv'
  <2>1. ASSUME NEW u \in Turns
        PROVE  /\ home'[u] = None => run'[u] = "none"
               /\ run'[u] = "none" => item'[u] = <<>> /\ req'[u] = "none"
               /\ run'[u] \in InFlight => chatOf'[u] # None
               /\ req'[u] # "none" => run'[u] \in {"posted", "stopped"}
    BY <1>1, <1>2, <1>3, <1>4 DEF PlaceInv
  <2>2. \A c \in Chats : \A u \in Range(batch'[c]) :
          home'[u] = c /\ run'[u] = "none"
    BY <1>1, <1>4, BatchSeq DEF PlaceInv
  <2> QED
    BY <2>1, <2>2 DEF PlaceInv
<1>7. HeldInv'
  BY <1>1, <1>4 DEF IInv, HeldInv
<1>8. CtrlInv'
  <2>1. ctrl' # None => run'[ctrl'] \in InFlight
    BY <1>1, <1>4 DEF IInv, CtrlInv, TypeOK
  <2>2. ASSUME NEW u \in Turns, run'[u] = "cut"
        PROVE  chatOf'[u] \in left'
    BY <1>1, <1>2, <2>2 DEF IInv, CtrlInv
  <2> QED
    BY <2>1, <2>2 DEF CtrlInv
<1>9. SavedInv'
  <2>1. ASSUME NEW u \in Turns
        PROVE  /\ home'[u] # None /\ Saved(u)' => won'[u] # 0
               /\ req'[u] = "ok" \/ run'[u] \in Given =>
                    home'[u] # None /\ Saved(u)' /\ won'[u] \in DOMAIN rounds'
               /\ home'[u] # None /\ Saved(u)' /\ u \notin blind' =>
                    /\ req'[u] \notin {"out", "busy", "bad"}
                    /\ run'[u] \notin Untaken
    <3>1. home[u] # None /\ Saved(u) => won[u] # 0
      BY DEF IInv, SavedInv
    <3>2. req[u] = "ok" \/ run[u] \in Given =>
            home[u] # None /\ Saved(u) /\ won[u] \in DOMAIN rounds
      BY DEF IInv, SavedInv
    <3>3. home[u] # None /\ Saved(u) /\ u \notin blind =>
            req[u] \notin {"out", "busy", "bad"} /\ run[u] \notin Untaken
      BY DEF IInv, SavedInv
    <3>4. run'[u] \in Given => run[u] \in Given \/ req[u] = "ok"
      BY <1>2 DEF Given, InFlight
    <3>5. req'[u] = "ok" => req[u] = "ok"
      BY <1>3
    <3>6. req'[u] \in {"out", "busy", "bad"} => req[u] \in {"out", "busy", "bad"}
      BY <1>3
    <3>7. DOMAIN rounds \subseteq DOMAIN rounds'
      BY DEF Moves
    <3> QED
      BY <1>1, <1>4, <1>5, <3>1, <3>2, <3>3, <3>4, <3>5, <3>6, <3>7
  <2>2. \A c \in Chats : \A u \in Range(saved'[c]) : home'[u] = c
    BY <1>1 DEF IInv, SavedInv
  <2> QED
    BY <2>1, <2>2 DEF SavedInv
<1>10. NothingDropped'
  <2>1. \A u \in Turns : SendOf(u)' = SendOf(u)
    BY <1>1 DEF SendOf
  <2>2. \A h \in Turns : run[h] \in {"posted", "refused", "stopped"} =>
          run'[h] = run[h] \/ Saved(h)
    BY <1>2 DEF IInv, SavedInv, InFlight
  <2>3. ASSUME NEW u \in Turns, home'[u] # None
        PROVE  \/ u \in Range(batch'[home'[u]])
               \/ \E h \in SendOf(u)' :
                    \/ h \in Range(held') /\ run'[h] = "held"
                    \/ run'[h] \in {"posted", "refused", "stopped"}
                    \/ Saved(h)'
    <3>1. CASE u \in Range(batch[home[u]])
      BY <1>1, <3>1
    <3>2. ASSUME NEW h \in SendOf(u),
                 \/ h \in Range(held) /\ run[h] = "held"
                 \/ run[h] \in {"posted", "refused", "stopped"}
                 \/ Saved(h)
          PROVE  \E g \in SendOf(u)' :
                   \/ g \in Range(held') /\ run'[g] = "held"
                   \/ run'[g] \in {"posted", "refused", "stopped"}
                   \/ Saved(g)'
      <4>1. h \in Turns
        BY DEF SendOf
      <4> QED
        BY <1>1, <1>4, <1>5, <2>1, <2>2, <3>2, <4>1
    <3> QED
      BY <1>1, <2>3, <3>1, <3>2 DEF IInv, NothingDropped
  <2> QED
    BY <2>3 DEF NothingDropped
<1>11. SavedTwiceOnlyBlind'
  BY <1>1 DEF IInv, SavedTwiceOnlyBlind
<1>12. NothingStuck'
  BY <1>1, <1>4 DEF IInv, NothingStuck, BatchWillDrain, RetryAwake, TypeOK
<1> QED
  BY <1>6, <1>7, <1>8, <1>9, <1>10, <1>11, <1>12

(* What streams took stands, if none gets another round or takes more.     *)
LEMMA HeardKept ==
  ASSUME IInv, RoundsGoOn, UNCHANGED <<won, chatOf, heard>>,
         \A u \in Turns :
           /\ run'[u] \in Given <=> run[u] \in Given
           /\ src'[u] = src[u]
  PROVE  HeardInv'
<1>1. ASSUME NEW u \in Turns
      PROVE  /\ run'[u] \notin Given => heard'[u] = <<>>
             /\ run'[u] \in Given => src'[u] \in DOMAIN rounds' /\ StandsIn(u, src[u])'
             /\ \A i \in DOMAIN heard'[u] :
                  /\ heard'[u][i][1] \in DOMAIN rounds' /\ heard'[u][i][2] = i
                  /\ StandsIn(u, heard[u][i][1])'
  <2>1. CASE run[u] \notin Given
    <3>1. heard[u] = <<>> /\ heard'[u] = <<>>
      BY <2>1 DEF IInv, HeardInv
    <3> QED
      BY <2>1, <3>1
  <2>2. CASE run[u] \in Given
    <3>1. won[u] \in DOMAIN rounds
      BY <2>2 DEF IInv, SavedInv
    <3>2. \A n \in DOMAIN rounds : StandsIn(u, n) => StandsIn(u, n)' /\ n \in DOMAIN rounds'
      BY <3>1, StandsOn DEF IInv
    <3> QED
      BY <2>2, <3>2 DEF IInv, HeardInv
  <2> QED
    BY <2>1, <2>2
<1> QED
  BY <1>1 DEF HeardInv, StandsIn
-----------------------------------------------------------------------------
(* The server's steps.                                                     *)

LEMMA Refusals ==
  ASSUME IInv, NEW t \in Turns, RefuseBusy(t) \/ RefuseBad(t)
  PROVE  IInv'
<1>1. /\ TypeOK /\ req[t] = "out"
      /\ req' = [req EXCEPT ![t] = "busy"] \/ req' = [req EXCEPT ![t] = "bad"]
      /\ UNCHANGED <<personVars, queueVars, retryVars, runVars, won, src, heard,
                     painted, serverVars, ghostVars, breaks>>
  BY DEF IInv, RefuseBusy, RefuseBad
<1>2. TypeOK'
  BY <1>1 DEF TypeOK, ReqState, personVars, queueVars, retryVars, runVars,
              serverVars, ghostVars
<1>3. Moves
  BY <1>1 DEF Moves, TypeOK, queueVars, retryVars, runVars, serverVars, ghostVars
<1>4. RoundsGoOn /\ IdInv'
  BY <1>1 DEF RoundsGoOn, TypeOK, IInv, IdInv, Up, serverVars
<1>5. HeardInv'
  BY <1>1, <1>4, HeardKept DEF runVars
<1> QED
  BY <1>2, <1>3, <1>4, <1>5, MovesKeep DEF IInv

LEMMA RoundSteps ==
  ASSUME IInv,
         \/ \E c \in Chats : OtherRound(c)
         \/ \E n \in DOMAIN rounds : Emit(n) \/ RoundFinishes(n)
  PROVE  IInv'
<1>1. /\ TypeOK /\ IdInv /\ extras' \in 0..MaxExtras
      /\ UNCHANGED <<active, queueVars, retryVars, runVars, wireVars, saved,
                     ghostVars, breaks>>
  <2>1. TypeOK /\ IdInv
    BY DEF IInv
  <2>2. /\ UNCHANGED <<active, queueVars, retryVars, runVars, wireVars, saved,
                       ghostVars, breaks>>
    BY DEF OtherRound, Emit, RoundFinishes, personVars
  <2>3. extras' = extras \/ (extras < MaxExtras /\ extras' = extras + 1)
    BY DEF OtherRound, Emit, RoundFinishes, personVars
  <2>4. extras \in 0..MaxExtras /\ MaxExtras \in Nat
    BY <2>1, SendAssumption DEF TypeOK
  <2>5. extras' \in 0..MaxExtras
    BY <2>3, <2>4
  <2> QED
    BY <2>1, <2>2, <2>5
<1>2. RoundsGoOn /\ IdInv'
  <2>1. ASSUME NEW c \in Chats, OtherRound(c)
        PROVE  RoundsGoOn /\ IdInv'
    BY <1>1, <2>1, RoundStarts DEF OtherRound
  <2>2. ASSUME NEW n \in DOMAIN rounds, Emit(n)
        PROVE  RoundsGoOn /\ IdInv'
    <3> DEFINE r == [rounds[n] EXCEPT !.len = @ + 1]
    <3>1. rounds[n] \in Round
      BY <1>1 DEF TypeOK
    <3>2. r \in Round /\ r.chat = rounds[n].chat /\ r.id = rounds[n].id
          /\ r.up = rounds[n].up
      BY <3>1 DEF Round
    <3>3. rounds' = [rounds EXCEPT ![n] = r]
      BY <2>2 DEF Emit
    <3> HIDE DEF r
    <3> QED
      BY <1>1, <3>2, <3>3, RoundChanges
  <2>3. ASSUME NEW n \in DOMAIN rounds, RoundFinishes(n)
        PROVE  RoundsGoOn /\ IdInv'
    <3> DEFINE r == [rounds[n] EXCEPT !.done = TRUE]
    <3>1. rounds[n] \in Round
      BY <1>1 DEF TypeOK
    <3>2. r \in Round /\ r.chat = rounds[n].chat /\ r.id = rounds[n].id
          /\ r.up = rounds[n].up
      BY <3>1 DEF Round
    <3>3. rounds' = [rounds EXCEPT ![n] = r]
      BY <2>3 DEF RoundFinishes
    <3> HIDE DEF r
    <3> QED
      BY <1>1, <3>2, <3>3, RoundChanges
  <2> QED
    BY <2>1, <2>2, <2>3
<1>3. TypeOK'
  BY <1>1, <1>2 DEF TypeOK, RoundsGoOn, queueVars, retryVars, runVars,
                    wireVars, ghostVars
<1>4. Moves
  BY <1>1, <1>2 DEF Moves, RoundsGoOn, queueVars, retryVars, runVars, wireVars,
                    ghostVars
<1>5. HeardInv'
  BY <1>1, <1>2, HeardKept DEF runVars, wireVars
<1> QED
  BY <1>2, <1>3, <1>4, <1>5, MovesKeep DEF IInv

LEMMA Restarts ==
  ASSUME IInv, Restart
  PROVE  IInv'
<1>1. /\ TypeOK /\ PlaceInv /\ breaks' \in 0..MaxBreaks
      /\ rounds' = [n \in DOMAIN rounds |-> [rounds[n] EXCEPT !.up = FALSE]]
      /\ run' = [t \in Turns |-> IF run[t] = "reading" THEN "adrift" ELSE run[t]]
      /\ req' = [t \in Turns |-> IF req[t] = "none" THEN "none" ELSE "lost"]
      /\ UNCHANGED <<personVars, queueVars, retryVars, ctrl, chatOf,
                     won, src, heard, painted, saved, ghostVars>>
  <2>1. TypeOK /\ PlaceInv
    BY DEF IInv
  <2>2. breaks < MaxBreaks /\ breaks' = breaks + 1
    BY DEF Restart
  <2>3. breaks' \in 0..MaxBreaks
    BY <2>1, <2>2, SendAssumption DEF TypeOK
  <2> QED
    BY <2>1, <2>3, Zenon DEF Restart
<1>2. RoundsGoOn /\ IdInv'
  BY <1>1, RoundsEnd
<1>3. TypeOK'
  BY <1>1, <1>2 DEF TypeOK, RoundsGoOn, RunState, ReqState, personVars,
                    queueVars, retryVars, ghostVars
<1>4. Moves
  <2>1. \A u \in Turns : run[u] = "reading" => req[u] = "none"
    BY <1>1 DEF PlaceInv
  <2> QED
    BY <1>1, <1>2, <2>1 DEF Moves, RoundsGoOn, InFlight, queueVars, retryVars,
                            ghostVars
<1>5. HeardInv'
  BY <1>1, <1>2, HeardKept DEF Given
<1> QED
  BY <1>2, <1>3, <1>4, <1>5, MovesKeep DEF IInv

(* The claim, the save and the start.                                      *)
LEMMA Takes ==
  ASSUME IInv, NEW t \in Turns, Take(t)
  PROVE  IInv'
<1>1. /\ TypeOK /\ PlaceInv /\ IdInv /\ req[t] = "out"
      /\ saved' = [saved EXCEPT ![home[t]] = Append(@, t)]
      /\ rounds' = Append(rounds, NewRound(home[t]))
      /\ req' = [req EXCEPT ![t] = "ok"]
      /\ won' = [won EXCEPT ![t] = Len(rounds) + 1]
      /\ UNCHANGED <<active, batch, held, retry, retrying, ctrl, item, home, run,
                     chatOf, src, heard, painted, left, blind, breaks, extras>>
  BY DEF IInv, Take, personVars, queueVars, retryVars, runVars, ghostVars
<1>2. /\ run[t] \in {"posted", "stopped"} /\ home[t] # None /\ home[t] \in Chats
      /\ run[t] \notin Given
  <2>1. run[t] \in {"posted", "stopped"}
    BY <1>1 DEF PlaceInv
  <2>2. home[t] # None
    BY <1>1, <2>1 DEF PlaceInv
  <2>3. home[t] \in Chats
    BY <1>1, <2>2, Shapes
  <2> QED
    BY <2>1, <2>2, <2>3 DEF Given
<1>3. RoundsGoOn /\ IdInv' /\ Len(rounds) + 1 \in DOMAIN rounds'
  BY <1>1, <1>2, RoundStarts
<1>4. /\ saved[home[t]] \in Seq(Turns) /\ saved'[home[t]] = Append(saved[home[t]], t)
      /\ saved' \in [Chats -> Seq(Turns)]
      /\ \A c \in Chats \ {home[t]} : saved'[c] = saved[c]
  <2> DEFINE s == Append(saved[home[t]], t)
  <2>1. saved \in [Chats -> Seq(Turns)]
    BY <1>1, Shapes
  <2>2. s \in Seq(Turns)
    BY <1>2, <2>1, Appended
  <2>3. saved' = [saved EXCEPT ![home[t]] = s]
    BY <1>1
  <2> HIDE DEF s
  <2>4. /\ saved' \in [Chats -> Seq(Turns)] /\ saved'[home[t]] = s
        /\ saved[home[t]] \in Seq(Turns)
        /\ \A c \in Chats \ {home[t]} : saved'[c] = saved[c]
    BY <1>2, <2>1, <2>2, <2>3
  <2> QED
    BY <2>4 DEF s
<1>5. Range(saved'[home[t]]) = Range(saved[home[t]]) \cup {t}
  BY <1>4, RangeAppend
<1>6. Len(rounds) \in Nat
  BY <1>1 DEF TypeOK
<1>7. TypeOK'
  <2>1. rounds' \in Seq(Round)
    BY <1>3 DEF RoundsGoOn
  <2>2. req' \in [Turns -> ReqState] /\ won' \in [Turns -> Nat]
    <3>1. /\ req' = [req EXCEPT ![t] = "ok"] /\ req \in [Turns -> ReqState]
          /\ won' = [won EXCEPT ![t] = Len(rounds) + 1] /\ won \in [Turns -> Nat]
      BY <1>1 DEF TypeOK
    <3> QED
      BY <1>6, <3>1 DEF ReqState
  <2>3. UNCHANGED <<active, batch, held, retry, retrying, ctrl, item, home, run,
                    chatOf, src, heard, painted, left, blind, breaks, extras>>
    BY <1>1
  <2> QED
    BY <1>1, <1>4, <2>1, <2>2, <2>3, Zenon DEF TypeOK
<1>8. PlaceInv' /\ HeldInv' /\ CtrlInv'
  <2>1. HeldInv' /\ CtrlInv'
    BY <1>1 DEF IInv, HeldInv, CtrlInv
  <2>2. \A u \in Turns : req'[u] # "none" => run[u] \in {"posted", "stopped"}
    BY <1>1, <1>2 DEF PlaceInv, TypeOK
  <2>3. \A u \in Turns : run[u] = "none" => req'[u] = "none"
    BY <1>1, <1>2 DEF PlaceInv, TypeOK
  <2>4. PlaceInv'
    BY <1>1, <2>2, <2>3 DEF PlaceInv
  <2> QED
    BY <2>1, <2>4
<1>9. \A u \in Turns : home[u] # None => (Saved(u)' <=> Saved(u) \/ u = t)
  <2> SUFFICES ASSUME NEW u \in Turns, home[u] # None
               PROVE  u \in Range(saved'[home[u]]) <=>
                        u \in Range(saved[home[u]]) \/ u = t
    BY <1>1 DEF Saved
  <2>1. home[u] \in Chats
    BY <1>1, Shapes
  <2>2. CASE home[u] = home[t]
    BY <1>5, <2>2
  <2>3. CASE home[u] # home[t]
    BY <1>4, <2>1, <2>3
  <2> QED
    BY <2>2, <2>3
<1>10. SavedInv'
  <2>1. ASSUME NEW c \in Chats, NEW u \in Range(saved'[c])
        PROVE  home'[u] = c
    BY <1>1, <1>4, <1>5, <2>1 DEF IInv, SavedInv
  <2>2. ASSUME NEW u \in Turns
        PROVE  /\ home'[u] # None /\ Saved(u)' => won'[u] # 0
               /\ req'[u] = "ok" \/ run'[u] \in Given =>
                    home'[u] # None /\ Saved(u)' /\ won'[u] \in DOMAIN rounds'
               /\ home'[u] # None /\ Saved(u)' /\ u \notin blind' =>
                    /\ req'[u] \notin {"out", "busy", "bad"}
                    /\ run'[u] \notin Untaken
    <3>1. CASE u = t
      <4>1. req'[u] = "ok" /\ won'[u] = Len(rounds) + 1
        BY <1>1, <3>1 DEF TypeOK
      <4>2. home'[u] # None /\ Saved(u)' /\ run'[u] \notin Untaken
        BY <1>1, <1>2, <1>9, <3>1 DEF Untaken
      <4> QED
        BY <1>3, <1>6, <4>1, <4>2
    <3>2. CASE u # t
      <4>1. req'[u] = req[u] /\ won'[u] = won[u]
        BY <1>1, <3>2 DEF TypeOK
      <4>2. DOMAIN rounds \subseteq DOMAIN rounds'
        BY <1>3 DEF RoundsGoOn
      <4>3. home[u] # None => (Saved(u)' <=> Saved(u))
        BY <1>9, <3>2
      <4> QED
        BY <1>1, <4>1, <4>2, <4>3 DEF IInv, SavedInv
    <3> QED
      BY <3>1, <3>2
  <2> QED
    BY <2>1, <2>2 DEF SavedInv
<1>11. HeardInv'
  <2>1. ASSUME NEW u \in Turns
        PROVE  /\ run'[u] \notin Given => heard'[u] = <<>>
               /\ run'[u] \in Given => src'[u] \in DOMAIN rounds' /\ StandsIn(u, src[u])'
               /\ \A i \in DOMAIN heard'[u] :
                    /\ heard'[u][i][1] \in DOMAIN rounds' /\ heard'[u][i][2] = i
                    /\ StandsIn(u, heard[u][i][1])'
    <3>1. CASE run[u] \notin Given
      BY <1>1, <3>1 DEF IInv, HeardInv
    <3>2. CASE run[u] \in Given
      <4>1. won[u] \in DOMAIN rounds /\ won'[u] = won[u]
        BY <1>1, <1>2, <3>2 DEF IInv, SavedInv, TypeOK
      <4>2. \A n \in DOMAIN rounds :
              StandsIn(u, n) => StandsIn(u, n)' /\ n \in DOMAIN rounds'
        BY <1>1, <1>3, <4>1, StandsOn
      <4> QED
        BY <1>1, <3>2, <4>2 DEF IInv, HeardInv
    <3> QED
      BY <3>1, <3>2
  <2> QED
    BY <1>1, <2>1 DEF HeardInv, StandsIn
<1>12. NothingDropped'
  <2>1. \A u \in Turns : SendOf(u)' = SendOf(u)
    BY <1>1 DEF SendOf
  <2>2. \A h \in Turns : Saved(h) => Saved(h)'
    <3>1. \A c \in Chats : Range(saved[c]) \subseteq Range(saved'[c])
      BY <1>4, <1>5
    <3>2. ASSUME NEW h \in Turns, Saved(h), home[h] \notin Chats
          PROVE  Saved(h)'
      <4>1. saved'[home[h]] = saved[home[h]]
        BY <1>1, <1>2, <3>2 DEF TypeOK
      <4> QED
        BY <1>1, <3>2, <4>1 DEF Saved
    <3> QED
      BY <1>1, <3>1, <3>2 DEF Saved
  <2>3. \A u \in Turns : \A h \in SendOf(u) : h \in Turns
    BY DEF SendOf
  <2> QED
    BY <1>1, <2>1, <2>2, <2>3 DEF IInv, NothingDropped
<1>13. SavedTwiceOnlyBlind'
  <2> SUFFICES ASSUME NEW c \in Chats, NEW i \in DOMAIN saved'[c],
                      NEW j \in DOMAIN saved'[c], i # j, saved'[c][i] = saved'[c][j]
               PROVE  saved'[c][i] \in blind
    BY <1>1 DEF SavedTwiceOnlyBlind
  <2>1. CASE c # home[t]
    BY <1>4, <2>1 DEF IInv, SavedTwiceOnlyBlind
  <2>2. CASE c = home[t]
    <3> DEFINE s == saved[home[t]]
    <3>1. /\ Len(s) \in Nat /\ DOMAIN s = 1..Len(s)
          /\ DOMAIN saved'[c] = 1..Len(s) + 1
          /\ saved'[c][Len(s) + 1] = t
          /\ \A k \in 1..Len(s) : saved'[c][k] = s[k]
      BY <1>4, <2>2, Appended
    <3>2. (i \in DOMAIN s \/ i = Len(s) + 1) /\ (j \in DOMAIN s \/ j = Len(s) + 1)
      BY <3>1
    <3>3. CASE i \in DOMAIN s /\ j \in DOMAIN s
      BY <1>2, <3>1, <3>3 DEF IInv, SavedTwiceOnlyBlind
    <3>4. CASE ~(i \in DOMAIN s /\ j \in DOMAIN s)
      <4>1. saved'[c][i] = t /\ \E k \in 1..Len(s) : s[k] = t
        BY <3>1, <3>2, <3>4
      <4>2. Saved(t)
        BY <1>4, <4>1, Ranges DEF Saved
      <4>3. t \in blind
        BY <1>1, <1>2, <4>2 DEF IInv, SavedInv
      <4> QED
        BY <4>1, <4>3
    <3> QED
      BY <3>2, <3>3, <3>4
  <2> QED
    BY <2>1, <2>2
<1>14. NothingStuck'
  BY <1>1 DEF IInv, NothingStuck, BatchWillDrain, RetryAwake
<1> QED
  BY <1>3, <1>7, <1>8, <1>10, <1>11, <1>12, <1>13, <1>14 DEF IInv
-----------------------------------------------------------------------------
(* The steps of a stream.                                                  *)

LEMMA Bounds ==
  ASSUME TypeOK
  PROVE  /\ active \in Chats /\ left \subseteq Chats /\ blind \subseteq Turns
         /\ breaks \in 0..MaxBreaks /\ extras \in 0..MaxExtras
         /\ breaks < MaxBreaks => breaks + 1 \in 0..MaxBreaks
         /\ extras < MaxExtras => extras + 1 \in 0..MaxExtras
<1>1. MaxBreaks \in Nat /\ MaxExtras \in Nat
  BY SendAssumption
<1>2. breaks \in 0..MaxBreaks /\ extras \in 0..MaxExtras
  BY DEF TypeOK
<1>3. active \in Chats /\ left \subseteq Chats /\ blind \subseteq Turns
  BY DEF TypeOK
<1> QED
  BY <1>1, <1>2, <1>3

(* The steps that end a run.                                               *)
LEMMA RunEnds ==
  ASSUME IInv, NEW t \in Turns,
         \/ HoldBusy(t) \/ HoldOffline(t) \/ ShowRefusal(t) \/ StreamEnds(t)
         \/ Refetched(t) \/ WakeCut(t)
  PROVE  IInv'
<1>1. TypeOK /\ PlaceInv /\ SavedInv
  BY DEF IInv
<1>2. CASE HoldBusy(t) \/ HoldOffline(t)
  <2>1. /\ run[t] = "posted" /\ Settle(t, "held", TRUE) /\ RetryAfter(t, held')
        /\ held' = Append(held, t) /\ left' = left
        /\ UNCHANGED <<personVars, home, won, src, heard, painted, serverVars>>
    BY <1>2 DEF HoldBusy, HoldOffline, Hold
  <2>2. breaks' \in 0..MaxBreaks
    BY <1>1, <1>2, Bounds DEF HoldBusy, HoldOffline
  <2>3. /\ blind \subseteq blind' /\ blind' \subseteq Turns
        /\ Saved(t) => t \in blind'
    <3>1. home[t] # None
      BY <1>1, <2>1 DEF PlaceInv
    <3>2. CASE HoldBusy(t)
      BY <1>1, <3>1, <3>2, Bounds DEF HoldBusy, SavedInv
    <3>3. CASE HoldOffline(t)
      BY <1>1, <3>1, <3>3, Bounds DEF HoldOffline, SavedInv
    <3> QED
      BY <1>2, <3>2, <3>3
  <2>4. Ends(t, "held", TRUE)
    BY <1>1, <2>1, <2>2, <2>3, Bounds DEF Ends, InFlight, personVars
  <2> QED
    BY <2>4, EndsKeeps
<1>3. CASE ShowRefusal(t)
  <2>1. Ends(t, "refused", TRUE)
    BY <1>1, <1>3, Bounds DEF ShowRefusal, Ends, InFlight, personVars, ghostVars
  <2> QED
    BY <2>1, EndsKeeps
<1>4. CASE StreamEnds(t) \/ Refetched(t)
  <2>1. Ends(t, "done", TRUE)
    BY <1>1, <1>4, Bounds
       DEF StreamEnds, Refetched, Ends, InFlight, personVars, ghostVars
  <2> QED
    BY <2>1, EndsKeeps
<1>5. CASE WakeCut(t)
  <2>1. chatOf[t] \in left
    BY <1>5 DEF WakeCut, IInv, CtrlInv
  <2>2. Ends(t, "done", FALSE)
    BY <1>1, <1>5, <2>1, Bounds
       DEF WakeCut, Ends, InFlight, personVars, ghostVars
  <2> QED
    BY <2>2, EndsKeeps
<1> QED
  BY <1>2, <1>3, <1>4, <1>5

(* A connection breaks, or the round it would go on with is gone.          *)
LEMMA Breaks ==
  ASSUME IInv, NEW t \in Turns, Break(t) \/ RoundGone(t)
  PROVE  IInv'
<1>1. /\ TypeOK /\ run[t] \in {"reading", "adrift"}
      /\ run' = [run EXCEPT ![t] = "adrift"] \/ run' = [run EXCEPT ![t] = "gone"]
      /\ UNCHANGED <<personVars, queueVars, retryVars, ctrl, chatOf,
                     wireVars, serverVars, ghostVars>>
  BY DEF IInv, Break, RoundGone
<1>2. breaks' \in 0..MaxBreaks
  BY <1>1, Bounds DEF Break, RoundGone
<1>3. TypeOK'
  BY <1>1, <1>2 DEF TypeOK, RunState, personVars, queueVars, retryVars,
                    wireVars, serverVars, ghostVars
<1>4. req[t] = "none"
  BY <1>1 DEF IInv, PlaceInv
<1>5. Moves
  BY <1>1, <1>4 DEF Moves, TypeOK, InFlight, queueVars, retryVars, wireVars,
                    serverVars, ghostVars
<1>6. RoundsGoOn /\ IdInv'
  BY <1>1 DEF RoundsGoOn, TypeOK, IInv, IdInv, Up, serverVars
<1>7. HeardInv'
  BY <1>1, <1>6, HeardKept DEF wireVars, Given, TypeOK
<1> QED
  BY <1>3, <1>5, <1>6, <1>7, MovesKeep DEF IInv

(* A stream is given the round of its answer, or the one it re-attaches    *)
(* to, which has the id it kept.                                           *)
LEMMA Attaches ==
  ASSUME IInv, NEW t \in Turns, Answered(t) \/ Reattach(t)
  PROVE  IInv'
<1>1. /\ TypeOK /\ PlaceInv /\ SavedInv /\ IdInv /\ HeardInv
      /\ run[t] \in {"posted", "adrift"}
      /\ run' = [run EXCEPT ![t] = "reading"]
      /\ UNCHANGED <<active, batch, held, item, home, retry, retrying, ctrl,
                     chatOf, won, heard, painted, rounds, saved, left, blind,
                     breaks, extras>>
  BY DEF IInv, Answered, Reattach, personVars, queueVars, retryVars, serverVars,
         ghostVars
<1>2. /\ req' = [req EXCEPT ![t] = "none"]
      /\ run[t] = "posted" => req[t] = "ok"
  <2>1. CASE Answered(t)
    BY <2>1 DEF Answered
  <2>2. CASE Reattach(t)
    BY <1>1, <2>2 DEF Reattach, PlaceInv, TypeOK
  <2> QED
    BY <2>1, <2>2
<1>3. PICK n \in DOMAIN rounds : src' = [src EXCEPT ![t] = n] /\ StandsIn(t, n)
  <2>1. CASE Answered(t)
    BY <2>1 DEF Answered, IInv, SavedInv, StandsIn
  <2>2. CASE Reattach(t)
    <3>1. /\ run[t] = "adrift" /\ Found(t) # 0
          /\ src' = [src EXCEPT ![t] = Found(t)]
      BY <2>2 DEF Reattach
    <3>2. chatOf[t] \in Chats
      BY <1>1, <3>1 DEF PlaceInv, TypeOK, InFlight
    <3>3. /\ Latest(chatOf[t]) # 0 /\ Found(t) = Latest(chatOf[t])
          /\ rounds[Found(t)].id = rounds[src[t]].id
      BY <3>1 DEF Found
    <3>4. Found(t) \in Up /\ rounds[Found(t)].chat = chatOf[t]
      BY <1>1, <3>2, <3>3, LatestRound
    <3>5. won[t] \in DOMAIN rounds /\ StandsIn(t, src[t])
      BY <1>1, <3>1 DEF SavedInv, HeardInv, Given
    <3>6. rounds[Found(t)].id = rounds[won[t]].id
      BY <3>3, <3>5 DEF StandsIn
    <3>7. won[t] \in Up => Found(t) = won[t]
      BY <1>1, <3>4, <3>6 DEF IdInv
    <3>8. Found(t) \in DOMAIN rounds /\ StandsIn(t, Found(t))
      BY <3>4, <3>5, <3>6, <3>7 DEF StandsIn, Up
    <3> QED
      BY <3>1, <3>8
  <2> QED
    BY <2>1, <2>2
<1>4. TypeOK'
  <2>1. n \in Nat
    BY <1>1, Shapes
  <2>2. /\ run' \in [Turns -> RunState] /\ req' \in [Turns -> ReqState]
        /\ src' \in [Turns -> Nat]
    BY <1>1, <1>2, <1>3, <2>1 DEF TypeOK, RunState, ReqState
  <2> QED
    BY <1>1, <2>2, Zenon DEF TypeOK
<1>5. Moves
  BY <1>1, <1>2 DEF Moves, TypeOK, InFlight, retryVars
<1>6. IdInv'
  BY <1>1 DEF IdInv, Up
<1>7. HeardInv'
  <2>1. \A u \in Turns : \A m : StandsIn(u, m) <=> StandsIn(u, m)'
    BY <1>1 DEF StandsIn
  <2>2. ASSUME NEW u \in Turns, u # t
        PROVE  run'[u] = run[u] /\ src'[u] = src[u]
    BY <1>1, <1>3, <2>2 DEF TypeOK
  <2>3. run'[t] = "reading" /\ src'[t] = n
    BY <1>1, <1>3 DEF TypeOK
  <2>4. ASSUME NEW u \in Turns
        PROVE  /\ run'[u] \notin Given => heard'[u] = <<>>
               /\ run'[u] \in Given => src'[u] \in DOMAIN rounds' /\ StandsIn(u, src'[u])
               /\ \A i \in DOMAIN heard'[u] :
                    /\ heard'[u][i][1] \in DOMAIN rounds' /\ heard'[u][i][2] = i
                    /\ StandsIn(u, heard'[u][i][1])
    BY <1>1, <1>3, <2>2, <2>3 DEF HeardInv, Given
  <2> QED
    BY <1>1, <2>1, <2>4 DEF HeardInv
<1> QED
  BY <1>4, <1>5, <1>6, <1>7, MovesKeep DEF IInv

(* The stream takes the next event of the round it reads.                  *)
LEMMA Receives ==
  ASSUME IInv, NEW t \in Turns, Receive(t)
  PROVE  IInv'
<1>1. /\ TypeOK /\ HeardInv /\ IdInv /\ run[t] = "reading"
      /\ heard' = [heard EXCEPT ![t] = Append(@, <<src[t], Len(heard[t]) + 1>>)]
      /\ UNCHANGED <<active, batch, held, item, home, retry, retrying, ctrl, run,
                     chatOf, req, won, src, rounds, saved, left, blind, breaks,
                     extras>>
  BY DEF IInv, Receive, personVars, queueVars, retryVars, runVars, serverVars,
         ghostVars
<1>2. src[t] \in DOMAIN rounds /\ StandsIn(t, src[t]) /\ src[t] \in Nat
  BY <1>1 DEF HeardInv, Given, TypeOK
<1> DEFINE h == heard[t]
           e == <<src[t], Len(h) + 1>>
<1>3. h \in Seq(Nat \X Nat) /\ Len(h) \in Nat /\ e \in Nat \X Nat
  <2>1. heard \in [Turns -> Seq(Nat \X Nat)]
    BY <1>1 DEF TypeOK
  <2>2. heard[t] \in Seq(Nat \X Nat)
    BY <2>1
  <2>3. Len(heard[t]) \in Nat
    BY <2>2
  <2> QED
    BY <1>2, <2>2, <2>3
<1>4. /\ heard' \in [Turns -> Seq(Nat \X Nat)]
      /\ heard'[t] = Append(h, e)
      /\ \A u \in Turns \ {t} : heard'[u] = heard[u]
  <2>1. Append(h, e) \in Seq(Nat \X Nat)
    BY <1>3, Appended
  <2>2. heard' = [heard EXCEPT ![t] = Append(h, e)]
    BY <1>1
  <2> HIDE DEF h, e
  <2> QED
    BY <1>1, <2>1, <2>2 DEF TypeOK
<1>5. painted' \subseteq Chats \X Chats
  <2>1. rounds[src[t]] \in Round
    BY <1>1, <1>2 DEF TypeOK
  <2>2. rounds[src[t]].chat \in Chats
    BY <2>1 DEF Round
  <2>3. painted \subseteq Chats \X Chats /\ active \in Chats
    BY <1>1 DEF TypeOK
  <2>4. painted' \subseteq painted \cup {<<active, rounds[src[t]].chat>>}
    BY DEF Receive
  <2> QED
    BY <2>2, <2>3, <2>4
<1>6. TypeOK'
  BY <1>1, <1>4, <1>5, Zenon DEF TypeOK
<1>7. Moves
  BY <1>1 DEF Moves, retryVars
<1>8. IdInv'
  BY <1>1 DEF IdInv, Up
<1>9. HeardInv'
  <2>1. /\ DOMAIN h = 1..Len(h) /\ DOMAIN heard'[t] = 1..Len(h) + 1
        /\ heard'[t][Len(h) + 1] = e
        /\ \A i \in 1..Len(h) : heard'[t][i] = h[i]
    BY <1>3, <1>4, Appended
  <2>2. ASSUME NEW i \in DOMAIN heard'[t]
        PROVE  /\ heard'[t][i][1] \in DOMAIN rounds /\ heard'[t][i][2] = i
               /\ StandsIn(t, heard'[t][i][1])
    <3>1. CASE i \in DOMAIN h
      BY <1>1, <2>1, <3>1 DEF HeardInv
    <3>2. CASE i = Len(h) + 1
      BY <1>2, <2>1, <3>2
    <3> QED
      BY <1>3, <2>1, <3>1, <3>2
  <2>3. \A u \in Turns : \A m : StandsIn(u, m) <=> StandsIn(u, m)'
    BY <1>1 DEF StandsIn
  <2>4. ASSUME NEW u \in Turns
        PROVE  /\ run[u] \notin Given => heard'[u] = <<>>
               /\ run[u] \in Given => src[u] \in DOMAIN rounds /\ StandsIn(u, src[u])
               /\ \A i \in DOMAIN heard'[u] :
                    /\ heard'[u][i][1] \in DOMAIN rounds /\ heard'[u][i][2] = i
                    /\ StandsIn(u, heard'[u][i][1])
    <3>1. CASE u = t
      BY <1>1, <1>2, <2>2, <3>1 DEF Given
    <3>2. CASE u # t
      BY <1>1, <1>4, <3>2 DEF HeardInv
    <3> QED
      BY <3>1, <3>2
  <2> QED
    BY <1>1, <2>3, <2>4 DEF HeardInv
<1> QED
  BY <1>6, <1>7, <1>8, <1>9, MovesKeep DEF IInv
-----------------------------------------------------------------------------
(* A send goes out, typed or held.                                         *)

Posts(t, text) ==
  /\ Post(t, text)
  /\ run[t] \in {"none", "held"}
  /\ home'[t] \in Chats /\ home[t] \in {None, home'[t]}
  /\ \A u \in Turns \ {t} : home'[u] = home[u]
  /\ item[t] \in {<<>>, text} /\ (home[t] = None => t \in Range(text))
  /\ UNCHANGED <<batch, won, src, heard, rounds, saved, left, blind>>

LEMMA PostKeeps ==
  ASSUME IInv, NEW t \in Turns, NEW text \in Seq(Turns), Posts(t, text), HeldInv',
         t \notin UNION {Range(batch[c]) : c \in Chats}
  PROVE  /\ PlaceInv' /\ CtrlInv' /\ SavedInv' /\ IdInv' /\ HeardInv'
         /\ NothingDropped' /\ SavedTwiceOnlyBlind' /\ BatchWillDrain'
<1>1. /\ TypeOK /\ PlaceInv /\ SavedInv /\ HeardInv
      /\ run[t] \in {"none", "held"} /\ run[t] \notin InFlight \cup Given
      /\ home'[t] \in Chats /\ home[t] \in {None, home'[t]}
      /\ UNCHANGED <<batch, won, src, heard, rounds, saved, left, blind>>
      /\ ctrl' = t /\ active \in Chats /\ None \notin Chats
  BY SendAssumption DEF IInv, Posts, Post, InFlight, Given, TypeOK
<1>2. /\ run'[t] = "posted" /\ req'[t] = "out" /\ chatOf'[t] = active
      /\ item'[t] = text
  BY <1>1 DEF Posts, Post, TypeOK
<1>3. ASSUME NEW u \in Turns, u # t
      PROVE  /\ run'[u] = run[u] /\ req'[u] = req[u] /\ chatOf'[u] = chatOf[u]
             /\ item'[u] = item[u] /\ home'[u] = home[u]
  BY <1>1, <1>3 DEF Posts, Post, TypeOK
<1>4. PlaceInv'
  <2>1. ASSUME NEW u \in Turns
        PROVE  /\ home'[u] = None => run'[u] = "none"
               /\ run'[u] = "none" => item'[u] = <<>> /\ req'[u] = "none"
               /\ run'[u] \in InFlight => chatOf'[u] # None
               /\ req'[u] # "none" => run'[u] \in {"posted", "stopped"}
    <3>1. CASE u = t
      BY <1>1, <1>2, <3>1
    <3>2. CASE u # t
      BY <1>1, <1>3, <3>2 DEF PlaceInv
    <3> QED
      BY <3>1, <3>2
  <2>2. ASSUME NEW c \in Chats, NEW u \in Range(batch'[c])
        PROVE  home'[u] = c /\ run'[u] = "none"
    <3>1. u \in Turns /\ u # t
      BY <1>1, <2>2, BatchSeq
    <3> QED
      BY <1>1, <1>3, <2>2, <3>1 DEF PlaceInv
  <2> QED
    BY <2>1, <2>2 DEF PlaceInv
<1>5. CtrlInv'
  BY <1>1, <1>2, <1>3 DEF IInv, CtrlInv, InFlight
<1>6. SavedInv'
  <2>1. ASSUME NEW c \in Chats, NEW u \in Range(saved'[c])
        PROVE  home'[u] = c
    <3>1. u \in Turns /\ home[u] = c
      BY <1>1, <2>1, BatchSeq DEF SavedInv
    <3> QED
      BY <1>1, <1>3, <3>1
  <2>2. home[t] # None => home'[t] = home[t]
    BY <1>1
  <2>3. home[t] = None => t \notin Range(saved[home'[t]])
    BY <1>1 DEF SavedInv
  <2>4. Saved(t)' => home[t] # None /\ home'[t] = home[t] /\ Saved(t)
    BY <1>1, <2>2, <2>3 DEF Saved
  <2>5. ASSUME NEW u \in Turns
        PROVE  /\ home'[u] # None /\ Saved(u)' => won'[u] # 0
               /\ req'[u] = "ok" \/ run'[u] \in Given =>
                    home'[u] # None /\ Saved(u)' /\ won'[u] \in DOMAIN rounds'
               /\ home'[u] # None /\ Saved(u)' /\ u \notin blind' =>
                    /\ req'[u] \notin {"out", "busy", "bad"}
                    /\ run'[u] \notin Untaken
    <3>1. CASE u = t
      <4>1. Saved(t)' => t \in blind /\ won[t] # 0
        BY <1>1, <2>4 DEF SavedInv, Untaken
      <4> QED
        BY <1>1, <1>2, <3>1, <4>1 DEF Given
    <3>2. CASE u # t
      <4>1. Saved(u)' <=> Saved(u)
        BY <1>1, <1>3, <3>2 DEF Saved
      <4> QED
        BY <1>1, <1>3, <3>2, <4>1 DEF SavedInv
    <3> QED
      BY <3>1, <3>2
  <2> QED
    BY <2>1, <2>5 DEF SavedInv
<1>7. IdInv'
  BY <1>1 DEF IInv, IdInv, Up
<1>8. HeardInv'
  <2>1. heard[t] = <<>>
    BY <1>1 DEF HeardInv
  <2>2. \A u \in Turns \ {t} : \A m : StandsIn(u, m) => StandsIn(u, m)'
    BY <1>1, <1>3 DEF StandsIn
  <2>3. ASSUME NEW u \in Turns
        PROVE  /\ run'[u] \notin Given => heard'[u] = <<>>
               /\ run'[u] \in Given => src'[u] \in DOMAIN rounds' /\ StandsIn(u, src[u])'
               /\ \A i \in DOMAIN heard'[u] :
                    /\ heard'[u][i][1] \in DOMAIN rounds' /\ heard'[u][i][2] = i
                    /\ StandsIn(u, heard[u][i][1])'
    <3>1. CASE u = t
      BY <1>1, <1>2, <2>1, <3>1 DEF Given
    <3>2. CASE u # t
      BY <1>1, <1>3, <2>2, <3>2 DEF HeardInv
    <3> QED
      BY <3>1, <3>2
  <2> QED
    BY <1>1, <2>3 DEF HeardInv, StandsIn
<1>9. NothingDropped'
  <2> SUFFICES ASSUME NEW u \in Turns, home'[u] # None
               PROVE  \/ u \in Range(batch'[home'[u]])
                      \/ \E h \in SendOf(u)' :
                           \/ h \in Range(held') /\ run'[h] = "held"
                           \/ run'[h] \in {"posted", "refused", "stopped"}
                           \/ Saved(h)'
    BY DEF NothingDropped
  <2>1. \A h \in Turns : run'[h] = "held" => h \in Range(held')
    BY DEF HeldInv
  <2>2. CASE home[u] = None
    <3>1. u = t
      BY <1>3, <2>2
    <3>2. t \in SendOf(t)'
      BY <1>2, <2>2, <3>1 DEF SendOf, Posts
    <3> QED
      BY <1>2, <3>1, <3>2
  <2>3. CASE home[u] # None /\ u \in Range(batch[home[u]])
    BY <1>1, <1>3, <2>3
  <2>4. ASSUME home[u] # None, NEW h \in SendOf(u),
               \/ h \in Range(held) /\ run[h] = "held"
               \/ run[h] \in {"posted", "refused", "stopped"}
               \/ Saved(h)
        PROVE  \E g \in SendOf(u)' :
                 \/ g \in Range(held') /\ run'[g] = "held"
                 \/ run'[g] \in {"posted", "refused", "stopped"}
                 \/ Saved(g)'
    <3>1. h \in Turns /\ u \in Range(item[h]) /\ item[h] # <<>>
      BY <1>1, Ranges DEF SendOf, TypeOK
    <3>2. item'[h] = item[h]
      BY <1>2, <1>3, <3>1 DEF Posts
    <3>3. h \in SendOf(u)'
      BY <3>1, <3>2 DEF SendOf
    <3>4. h # t => (Saved(h) => Saved(h)') /\ run'[h] = run[h]
      BY <1>1, <1>3, <3>1 DEF Saved
    <3> QED
      BY <1>2, <2>1, <2>4, <3>1, <3>3, <3>4
  <2> QED
    BY <2>2, <2>3, <2>4 DEF IInv, NothingDropped
<1>10. SavedTwiceOnlyBlind'
  BY <1>1 DEF IInv, SavedTwiceOnlyBlind
<1>11. BatchWillDrain'
  <2> SUFFICES ASSUME NEW c \in Chats, batch[c] # <<>>, c \notin left
               PROVE  \E u \in Turns : run'[u] \in InFlight /\ chatOf'[u] = c
    BY <1>1 DEF BatchWillDrain
  <2>1. PICK u \in Turns : run[u] \in InFlight /\ chatOf[u] = c
    BY DEF IInv, NothingStuck, BatchWillDrain
  <2>2. u # t
    BY <1>1, <2>1
  <2> QED
    BY <1>3, <2>1, <2>2
<1> QED
  BY <1>4, <1>5, <1>6, <1>7, <1>8, <1>9, <1>10, <1>11

LEMMA TypesSent ==
  ASSUME IInv, NEW t \in Turns, TypeSent(t)
  PROVE  IInv'
<1>1. /\ TypeOK /\ PlaceInv /\ SavedInv /\ home[t] = None /\ run[t] = "none"
      /\ home' = [home EXCEPT ![t] = active] /\ active \in Chats
      /\ Post(t, <<t>>)
      /\ UNCHANGED <<active, extras, batch, held, retry, retrying, won, src, heard,
                     painted, rounds, saved, left, blind, breaks>>
      /\ None \notin Chats
  BY SendAssumption DEF IInv, TypeSent, TypeOK, PlaceInv, personVars, retryVars,
                        serverVars, ghostVars
<1>2. <<t>> \in Seq(Turns) /\ Range(<<t>>) = {t}
  BY RangeOne
<1>3. Posts(t, <<t>>)
  BY <1>1, <1>2 DEF Posts, TypeOK, PlaceInv
<1>4. t \notin UNION {Range(batch[c]) : c \in Chats}
  BY <1>1 DEF PlaceInv
<1>5. \A u \in Turns \ {t} : run'[u] = run[u]
  BY <1>1 DEF Post, TypeOK
<1>6. run'[t] = "posted"
  BY <1>1 DEF Post, TypeOK
<1>7. HeldInv'
  BY <1>1, <1>5, <1>6 DEF IInv, HeldInv
<1>8. RetryAwake'
  BY <1>1, <1>5, <1>6 DEF IInv, NothingStuck, RetryAwake, InFlight, TypeOK
<1>9. TypeOK'
  <2>1. /\ ctrl' \in Turns \cup {None} /\ home' \in [Turns -> Chats \cup {None}]
        /\ run' \in [Turns -> RunState] /\ req' \in [Turns -> ReqState]
        /\ item' \in [Turns -> Seq(Turns)] /\ chatOf' \in [Turns -> Chats \cup {None}]
    BY <1>1, <1>2 DEF Post, TypeOK, RunState, ReqState
  <2> QED
    BY <1>1, <2>1, Zenon DEF TypeOK
<1> QED
  BY <1>2, <1>3, <1>4, <1>7, <1>8, <1>9, PostKeeps DEF IInv, NothingStuck

LEMMA SendsHeld ==
  ASSUME IInv, SendHeld
  PROVE  IInv'
<1> DEFINE t == Head(held)
<1>1. /\ TypeOK /\ PlaceInv /\ HeldInv /\ held \in Seq(Turns) /\ held # <<>>
      /\ retry = "waiting" /\ retry' = "sending"
      /\ retrying' = t /\ held' = Tail(held) /\ Post(t, item[t])
      /\ UNCHANGED <<active, extras, batch, home, won, src, heard, painted,
                     rounds, saved, left, blind, breaks>>
      /\ None \notin Turns
  BY SendAssumption DEF IInv, SendHeld, TypeOK, personVars, serverVars, ghostVars
<1>2. /\ t \in Turns /\ Tail(held) \in Seq(Turns)
      /\ Range(held) = Range(Tail(held)) \cup {t}
  BY <1>1, RangeTail
<1> HIDE DEF t
<1>3. run[t] = "held" /\ home[t] # None /\ home[t] \in Chats
  <2>1. run[t] = "held"
    BY <1>1, <1>2 DEF HeldInv
  <2>2. home[t] # None
    BY <1>1, <1>2, <2>1 DEF PlaceInv
  <2> QED
    BY <1>1, <1>2, <2>1, <2>2, Shapes
<1>4. item[t] \in Seq(Turns)
  BY <1>1, <1>2 DEF TypeOK
<1>5. t \notin UNION {Range(batch[c]) : c \in Chats}
  BY <1>1, <1>3 DEF PlaceInv
<1>6. Posts(t, item[t])
  BY <1>1, <1>2, <1>3 DEF Posts
<1>7. \A u \in Turns \ {t} : run'[u] = run[u]
  BY <1>1 DEF Post, TypeOK
<1>8. run'[t] = "posted"
  BY <1>1, <1>2 DEF Post, TypeOK
<1>9. HeldInv'
  <2> DEFINE q == Tail(held)
  <2>1. /\ Len(held) \in Nat /\ DOMAIN held = 1..Len(held) /\ t = held[1]
        /\ DOMAIN q = 1..Len(held) - 1
        /\ \A i \in 1..Len(held) - 1 : q[i] = held[i + 1]
    BY <1>1 DEF t
  <2>2. \A i, j \in 1..Len(held) : held[i] = held[j] => i = j
    BY <1>1, <2>1 DEF HeldInv
  <2>3. \A i, j \in DOMAIN q : q[i] = q[j] => i = j
    <3> SUFFICES ASSUME NEW i \in 1..Len(held) - 1, NEW j \in 1..Len(held) - 1,
                        held[i + 1] = held[j + 1]
                 PROVE  i = j
      BY <2>1
    <3>1. i + 1 \in 1..Len(held) /\ j + 1 \in 1..Len(held)
      BY <2>1
    <3>2. i + 1 = j + 1
      BY <2>2, <3>1
    <3> QED
      BY <2>1, <3>2
  <2>4. t \notin Range(q)
    <3> SUFFICES ASSUME NEW i \in 1..Len(held) - 1, held[i + 1] = t
                 PROVE  FALSE
      BY <2>1 DEF Range
    <3>1. 1 \in 1..Len(held) /\ i + 1 \in 1..Len(held) /\ i + 1 # 1
      BY <2>1
    <3> QED
      BY <2>1, <2>2, <3>1
  <2> HIDE DEF q
  <2>5. held' = q /\ Range(held) = Range(q) \cup {t}
    BY <1>1, <1>2 DEF q
  <2>6. \A u \in Turns : run'[u] = "held" <=> u \in Range(q)
    BY <1>1, <1>7, <1>8, <2>4, <2>5 DEF HeldInv
  <2> QED
    BY <2>3, <2>5, <2>6 DEF HeldInv
<1>10. RetryAwake'
  BY <1>1, <1>2, <1>8 DEF RetryAwake, InFlight
<1>11. TypeOK'
  <2>1. /\ ctrl' \in Turns \cup {None} /\ item' \in [Turns -> Seq(Turns)]
        /\ run' \in [Turns -> RunState] /\ req' \in [Turns -> ReqState]
        /\ chatOf' \in [Turns -> Chats \cup {None}]
    BY <1>1, <1>2, <1>4 DEF Post, TypeOK, RunState, ReqState
  <2>2. /\ held' \in Seq(Turns) /\ retrying' \in Turns \cup {None}
        /\ retry' \in {"off", "waiting", "sending"}
    BY <1>1, <1>2
  <2> QED
    BY <1>1, <2>1, <2>2, Zenon DEF TypeOK
<1> QED
  BY <1>2, <1>4, <1>5, <1>6, <1>9, <1>10, <1>11, PostKeeps
     DEF IInv, NothingStuck
-----------------------------------------------------------------------------
(* The person's other steps.                                               *)

(* A turn joins the batch of the open chat: a stream of that chat will     *)
(* send it, or the chat counts as left.                                    *)
LEMMA Queues ==
  ASSUME IInv, NEW t \in Turns, TypeQueued(t)
  PROVE  IInv'
<1>1. /\ TypeOK /\ PlaceInv /\ SavedInv /\ home[t] = None /\ run[t] = "none"
      /\ home' = [home EXCEPT ![t] = active] /\ active \in Chats
      /\ batch' = [batch EXCEPT ![active] = Append(@, t)]
      /\ left' = IF \E u \in Turns : run[u] \in InFlight /\ chatOf[u] = active
                 THEN left ELSE left \cup {active}
      /\ UNCHANGED <<active, extras, held, item, retry, retrying, ctrl, run, chatOf,
                     req, won, src, heard, painted, rounds, saved, blind, breaks>>
      /\ None \notin Chats
  BY SendAssumption DEF IInv, TypeQueued, TypeOK, PlaceInv, personVars, retryVars,
                        runVars, wireVars, serverVars
<1>2. /\ batch[active] \in Seq(Turns)
      /\ batch'[active] = Append(batch[active], t)
      /\ batch' \in [Chats -> Seq(Turns)]
      /\ \A c \in Chats \ {active} : batch'[c] = batch[c]
  <2> DEFINE s == Append(batch[active], t)
  <2>1. batch \in [Chats -> Seq(Turns)]
    BY <1>1, Shapes
  <2>2. s \in Seq(Turns)
    BY <1>1, <2>1, Appended
  <2>3. batch' = [batch EXCEPT ![active] = s]
    BY <1>1
  <2> HIDE DEF s
  <2>4. /\ batch' \in [Chats -> Seq(Turns)] /\ batch'[active] = s
        /\ batch[active] \in Seq(Turns)
        /\ \A c \in Chats \ {active} : batch'[c] = batch[c]
    BY <1>1, <2>1, <2>2, <2>3
  <2> QED
    BY <2>4 DEF s
<1>3. Range(batch'[active]) = Range(batch[active]) \cup {t}
  BY <1>2, RangeAppend
<1>4. home'[t] = active /\ \A u \in Turns \ {t} : home'[u] = home[u]
  BY <1>1 DEF TypeOK
<1>5. TypeOK'
  <2>1. home' \in [Turns -> Chats \cup {None}] /\ left' \subseteq Chats
    BY <1>1 DEF TypeOK
  <2> QED
    BY <1>1, <1>2, <2>1, Zenon DEF TypeOK
<1>6. PlaceInv'
  <2>1. ASSUME NEW c \in Chats, NEW u \in Range(batch'[c])
        PROVE  home'[u] = c /\ run'[u] = "none"
    <3>1. CASE u = t /\ c = active
      BY <1>1, <1>4, <3>1
    <3>2. CASE u \in Range(batch[c])
      <4>1. u \in Turns /\ home[u] = c /\ run[u] = "none" /\ u # t
        BY <1>1, <3>2, BatchSeq DEF PlaceInv
      <4> QED
        BY <1>1, <1>4, <4>1
    <3> QED
      BY <1>2, <1>3, <2>1, <3>1, <3>2
  <2> QED
    BY <1>1, <1>4, <2>1 DEF PlaceInv
<1>7. HeldInv' /\ IdInv'
  BY <1>1 DEF IInv, HeldInv, IdInv, Up
<1>8. CtrlInv'
  BY <1>1 DEF IInv, CtrlInv
<1>9. SavedInv'
  <2>1. \A c \in Chats : \A u \in Range(saved[c]) : home'[u] = c
    <3> SUFFICES ASSUME NEW c \in Chats, NEW u \in Range(saved[c])
                 PROVE  home'[u] = c
      OBVIOUS
    <3>1. u \in Turns /\ home[u] = c
      BY <1>1, BatchSeq DEF SavedInv
    <3> QED
      BY <1>1, <1>4, <3>1
  <2>2. ~Saved(t)' /\ run[t] \notin Given /\ req[t] = "none"
    <3>1. t \notin Range(saved[active])
      BY <1>1 DEF SavedInv
    <3>2. req[t] = "none"
      BY <1>1 DEF PlaceInv
    <3> QED
      BY <1>1, <1>4, <3>1, <3>2 DEF Saved, Given
  <2>3. \A u \in Turns \ {t} : Saved(u)' <=> Saved(u)
    BY <1>1, <1>4 DEF Saved
  <2> QED
    BY <1>1, <1>4, <2>1, <2>2, <2>3 DEF SavedInv
<1>10. HeardInv'
  BY <1>1 DEF IInv, HeardInv, StandsIn
<1>11. NothingDropped'
  <2> SUFFICES ASSUME NEW u \in Turns, home'[u] # None
               PROVE  \/ u \in Range(batch'[home'[u]])
                      \/ \E h \in SendOf(u)' :
                           \/ h \in Range(held') /\ run'[h] = "held"
                           \/ run'[h] \in {"posted", "refused", "stopped"}
                           \/ Saved(h)'
    BY DEF NothingDropped
  <2>1. CASE u = t
    BY <1>3, <1>4, <2>1
  <2>2. CASE u # t /\ u \in Range(batch[home[u]])
    <3>1. home[u] \in Chats /\ home'[u] = home[u]
      BY <1>1, <1>4, <2>2 DEF TypeOK
    <3>2. u \in Range(batch'[home[u]])
      BY <1>2, <1>3, <2>2, <3>1
    <3> QED
      BY <3>1, <3>2
  <2>3. ASSUME u # t, NEW h \in SendOf(u),
               \/ h \in Range(held) /\ run[h] = "held"
               \/ run[h] \in {"posted", "refused", "stopped"}
               \/ Saved(h)
        PROVE  \E g \in SendOf(u)' :
                 \/ g \in Range(held') /\ run'[g] = "held"
                 \/ run'[g] \in {"posted", "refused", "stopped"}
                 \/ Saved(g)'
    <3>1. h \in Turns /\ h \in SendOf(u)' /\ item[h] # <<>>
      BY <1>1, Ranges DEF SendOf, TypeOK
    <3>2. h # t
      BY <1>1, <3>1 DEF PlaceInv
    <3>3. Saved(h) => Saved(h)'
      BY <1>1, <1>4, <3>1, <3>2 DEF Saved
    <3> QED
      BY <1>1, <2>3, <3>1, <3>3
  <2> QED
    BY <1>4, <2>1, <2>2, <2>3 DEF IInv, NothingDropped
<1>12. SavedTwiceOnlyBlind'
  BY <1>1 DEF IInv, SavedTwiceOnlyBlind
<1>13. NothingStuck'
  <2>1. BatchWillDrain'
    <3> SUFFICES ASSUME NEW c \in Chats, batch'[c] # <<>>, c \notin left'
                 PROVE  \E u \in Turns : run[u] \in InFlight /\ chatOf[u] = c
      BY <1>1 DEF BatchWillDrain
    <3>1. CASE c = active
      BY <1>1, <3>1
    <3>2. CASE c # active
      BY <1>1, <1>2, <3>2 DEF IInv, NothingStuck, BatchWillDrain
    <3> QED
      BY <3>1, <3>2
  <2>2. RetryAwake'
    BY <1>1 DEF IInv, NothingStuck, RetryAwake
  <2> QED
    BY <2>1, <2>2 DEF NothingStuck
<1> QED
  BY <1>5, <1>6, <1>7, <1>8, <1>9, <1>10, <1>11, <1>12, <1>13 DEF IInv

(* The person takes a batch back.                                          *)
LEMMA Cancels ==
  ASSUME IInv, CancelBatch
  PROVE  IInv'
<1> DEFINE B == Range(batch[active])
<1>1. /\ TypeOK /\ PlaceInv /\ SavedInv /\ active \in Chats
      /\ batch' = [batch EXCEPT ![active] = <<>>]
      /\ run' = [t \in Turns |-> IF t \in B THEN "stopped" ELSE run[t]]
      /\ item' = [t \in Turns |-> IF t \in B THEN <<t>> ELSE item[t]]
      /\ UNCHANGED <<active, held, home, ctrl, chatOf, retry, retrying, req, won,
                     src, heard, painted, rounds, saved, left, blind, breaks>>
  BY DEF IInv, CancelBatch, TypeOK, retryVars, wireVars, serverVars, ghostVars
<1>2. extras' \in 0..MaxExtras
  BY <1>1, Bounds DEF CancelBatch
<1>3. /\ B \subseteq Turns
      /\ \A u \in B : home[u] = active /\ run[u] = "none" /\ req[u] = "none"
                      /\ item[u] = <<>>
  BY <1>1, BatchSeq DEF PlaceInv
<1>4. /\ batch'[active] = <<>> /\ batch' \in [Chats -> Seq(Turns)]
      /\ \A c \in Chats \ {active} : batch'[c] = batch[c]
  <2>1. <<>> \in Seq(Turns)
    OBVIOUS
  <2> QED
    BY <1>1, <2>1 DEF TypeOK
<1>5. None \notin Chats /\ None \notin Turns
  BY SendAssumption
<1>6. \A u \in Turns : \/ u \in B /\ run[u] = "none" /\ run'[u] = "stopped"
                       \/ u \notin B /\ run'[u] = run[u] /\ item'[u] = item[u]
  BY <1>1, <1>3
<1> HIDE DEF B
<1>7. TypeOK'
  <2>1. run' \in [Turns -> RunState]
    BY <1>1 DEF TypeOK, RunState
  <2>2. item' \in [Turns -> Seq(Turns)]
    BY <1>1, RangeOne DEF TypeOK
  <2> QED
    BY <1>1, <1>2, <1>4, <2>1, <2>2, Zenon DEF TypeOK
<1>8. PlaceInv'
  <2>1. ASSUME NEW u \in Turns
        PROVE  /\ home'[u] = None => run'[u] = "none"
               /\ run'[u] = "none" => item'[u] = <<>> /\ req'[u] = "none"
               /\ run'[u] \in InFlight => chatOf'[u] # None
               /\ req'[u] # "none" => run'[u] \in {"posted", "stopped"}
    BY <1>1, <1>3, <1>5, <1>6 DEF PlaceInv, InFlight
  <2>2. ASSUME NEW c \in Chats, NEW u \in Range(batch'[c])
        PROVE  home'[u] = c /\ run'[u] = "none"
    <3>1. c # active /\ batch'[c] = batch[c]
      BY <1>4, <2>2, Ranges
    <3>2. u \in Turns /\ home[u] = c /\ run[u] = "none"
      BY <1>1, <2>2, <3>1, BatchSeq DEF PlaceInv
    <3>3. u \notin B
      BY <1>3, <3>1, <3>2
    <3> QED
      BY <1>1, <1>6, <3>2, <3>3
  <2> QED
    BY <2>1, <2>2 DEF PlaceInv
<1>9. HeldInv'
  BY <1>1, <1>6 DEF IInv, HeldInv
<1>10. CtrlInv'
  BY <1>1, <1>6 DEF IInv, CtrlInv, TypeOK, InFlight
<1>11. SavedInv'
  <2>1. \A u \in Turns : Saved(u)' <=> Saved(u)
    BY <1>1 DEF Saved
  <2> QED
    BY <1>1, <1>6, <2>1 DEF SavedInv, Given, Untaken
<1>12. IdInv'
  BY <1>1 DEF IInv, IdInv, Up
<1>13. HeardInv'
  <2>1. \A u \in Turns : run'[u] \in Given <=> run[u] \in Given
    BY <1>6 DEF Given
  <2>2. RoundsGoOn
    BY <1>1 DEF RoundsGoOn, TypeOK
  <2> QED
    BY <1>1, <2>1, <2>2, HeardKept
<1>14. NothingDropped'
  <2> SUFFICES ASSUME NEW u \in Turns, home'[u] # None
               PROVE  \/ u \in Range(batch'[home'[u]])
                      \/ \E h \in SendOf(u)' :
                           \/ h \in Range(held') /\ run'[h] = "held"
                           \/ run'[h] \in {"posted", "refused", "stopped"}
                           \/ Saved(h)'
    BY DEF NothingDropped
  <2>1. home[u] \in Chats /\ home[u] # None
    BY <1>1 DEF TypeOK
  <2>2. CASE u \in B
    <3>1. item'[u] = <<u>> /\ run'[u] = "stopped"
      BY <1>1, <2>2
    <3>2. u \in SendOf(u)'
      BY <3>1, RangeOne DEF SendOf
    <3> QED
      BY <3>1, <3>2
  <2>3. CASE u \in Range(batch[home[u]]) /\ u \notin B
    BY <1>1, <1>4, <2>1, <2>3 DEF B
  <2>4. ASSUME NEW h \in SendOf(u),
               \/ h \in Range(held) /\ run[h] = "held"
               \/ run[h] \in {"posted", "refused", "stopped"}
               \/ Saved(h)
        PROVE  \E g \in SendOf(u)' :
                 \/ g \in Range(held') /\ run'[g] = "held"
                 \/ run'[g] \in {"posted", "refused", "stopped"}
                 \/ Saved(g)'
    <3>1. h \in Turns /\ u \in Range(item[h]) /\ item[h] # <<>>
      BY <1>1, Ranges DEF SendOf, TypeOK
    <3>2. h \notin B
      BY <1>3, <3>1
    <3>3. h \in SendOf(u)' /\ run'[h] = run[h] /\ (Saved(h) => Saved(h)')
      BY <1>1, <1>6, <3>1, <3>2 DEF SendOf, Saved
    <3> QED
      BY <1>1, <2>4, <3>3
  <2> QED
    BY <2>1, <2>2, <2>3, <2>4 DEF IInv, NothingDropped
<1>15. SavedTwiceOnlyBlind'
  BY <1>1 DEF IInv, SavedTwiceOnlyBlind
<1>16. NothingStuck'
  <2>1. \A u \in Turns : run[u] \in InFlight => run'[u] = run[u]
    BY <1>6 DEF InFlight
  <2>2. BatchWillDrain'
    BY <1>1, <1>4, <2>1 DEF IInv, NothingStuck, BatchWillDrain
  <2>3. RetryAwake'
    BY <1>1, <2>1 DEF IInv, NothingStuck, RetryAwake, TypeOK
  <2> QED
    BY <2>2, <2>3 DEF NothingStuck
<1> QED
  BY <1>7, <1>8, <1>9, <1>10, <1>11, <1>12, <1>13, <1>14, <1>15, <1>16 DEF IInv

(* Stop, and a switch of the chat, abort the stream.                       *)
LEMMA Aborts ==
  ASSUME IInv, Stop \/ \E c \in Chats : SelectChat(c)
  PROVE  IInv'
<1>1. /\ TypeOK /\ PlaceInv /\ CtrlInv /\ AbortReader
      /\ UNCHANGED <<held, home, won, src, heard, painted, rounds, saved,
                     blind, breaks>>
  BY DEF IInv, Stop, SelectChat, serverVars
<1>2. active' \in Chats /\ extras' \in 0..MaxExtras
  BY <1>1, Bounds DEF Stop, SelectChat
<1>3. RoundsGoOn /\ IdInv'
  BY <1>1 DEF RoundsGoOn, TypeOK, IInv, IdInv, Up
<1>4. CASE ctrl # None /\ run[ctrl] \in {"posted", "reading"}
  <2>1. /\ left' = left \cup {chatOf[ctrl]} /\ ctrl \in Turns
        /\ Settle(ctrl, IF run[ctrl] = "posted" THEN "stopped" ELSE "done", FALSE)
        /\ RetryAfter(ctrl, held)
    BY <1>1, <1>4 DEF AbortReader, TypeOK
  <2>2. chatOf[ctrl] \in Chats
    BY <1>1, <1>4, <2>1 DEF PlaceInv, TypeOK, InFlight
  <2>3. /\ left' \subseteq Chats /\ left \subseteq left' /\ chatOf[ctrl] \in left'
        /\ blind' \subseteq Turns /\ breaks' \in 0..MaxBreaks
    BY <1>1, <2>1, <2>2, Bounds
  <2>4. CASE run[ctrl] = "posted"
    <3>1. Ends(ctrl, "stopped", FALSE)
      BY <1>1, <1>2, <2>1, <2>3, <2>4 DEF Ends, InFlight, serverVars
    <3> QED
      BY <2>1, <3>1, EndsKeeps
  <2>5. CASE run[ctrl] = "reading"
    <3>1. Ends(ctrl, "done", FALSE)
      BY <1>1, <1>2, <2>1, <2>3, <2>5 DEF Ends, InFlight, serverVars
    <3> QED
      BY <2>1, <3>1, EndsKeeps
  <2> QED
    BY <1>4, <2>4, <2>5
<1>5. CASE ctrl = None \/ run[ctrl] \in {"adrift", "cut", "gone"}
  <2>1. /\ UNCHANGED <<ctrl, chatOf, retry, retrying, batch, item, req>>
        /\ left' = left \/ (ctrl # None /\ left' = left \cup {chatOf[ctrl]})
        /\ \/ run' = run
           \/ /\ ctrl # None /\ run[ctrl] = "adrift"
              /\ run' = [run EXCEPT ![ctrl] = "cut"]
              /\ left' = left \cup {chatOf[ctrl]}
    BY <1>1, <1>5 DEF AbortReader, runVars, retryVars
  <2>2. ctrl # None => ctrl \in Turns /\ run[ctrl] \in InFlight /\ chatOf[ctrl] \in Chats
    BY <1>1 DEF TypeOK, PlaceInv, CtrlInv
  <2>3. left' \subseteq Chats /\ left \subseteq left'
    BY <1>1, <2>1, <2>2 DEF TypeOK
  <2>4. run' \in [Turns -> RunState]
    BY <1>1, <2>1, <2>2 DEF TypeOK, RunState
  <2>5. TypeOK'
    BY <1>1, <1>2, <2>1, <2>3, <2>4, Zenon DEF TypeOK
  <2>6. \A u \in Turns :
          \/ run'[u] = run[u]
          \/ run[u] = "adrift" /\ run'[u] = "cut" /\ chatOf[u] \in left'
    BY <1>1, <2>1, <2>2 DEF TypeOK
  <2>7. \A u \in Turns : run[u] = "adrift" => req[u] = "none"
    BY <1>1 DEF PlaceInv
  <2>8. Moves
    BY <1>1, <2>1, <2>3, <2>6, <2>7 DEF Moves, InFlight, retryVars
  <2>9. HeardInv'
    BY <1>1, <1>3, <2>1, <2>6, HeardKept DEF Given
  <2> QED
    BY <1>3, <2>5, <2>8, <2>9, MovesKeep DEF IInv
<1> QED
  BY <1>1, <1>4, <1>5 DEF CtrlInv, InFlight

-----------------------------------------------------------------------------
(* The theorems.                                                           *)

LEMMA InitInv == Init => IInv
<1> SUFFICES ASSUME Init PROVE IInv
  OBVIOUS
<1>1. Range(<<>>) = {}
  BY DEF Range
<1>2. TypeOK
  <2>1. 0 \in 0..MaxBreaks /\ 0 \in 0..MaxExtras
    BY SendAssumption
  <2> QED
    BY <2>1 DEF Init, TypeOK, RunState, ReqState
<1>3. PlaceInv /\ HeldInv /\ CtrlInv
  BY <1>1 DEF Init, PlaceInv, HeldInv, CtrlInv, InFlight
<1>4. SavedInv
  BY <1>1 DEF Init, SavedInv, Given
<1>5. IdInv
  BY DEF Init, IdInv, Up
<1>6. HeardInv
  BY DEF Init, HeardInv, Given
<1>7. NothingDropped /\ SavedTwiceOnlyBlind
  BY DEF Init, NothingDropped, SavedTwiceOnlyBlind
<1>8. NothingStuck
  BY <1>2, SendAssumption
     DEF Init, NothingStuck, BatchWillDrain, RetryAwake
<1> QED
  BY <1>2, <1>3, <1>4, <1>5, <1>6, <1>7, <1>8 DEF IInv

LEMMA NextInv == IInv /\ [Next]_vars => IInv'
<1> SUFFICES ASSUME IInv, [Next]_vars PROVE IInv'
  OBVIOUS
<1>1. CASE Person
  BY <1>1, Queues, TypesSent, Cancels, Aborts DEF Person
<1>2. ASSUME NEW t \in Turns, Stream(t)
      PROVE  IInv'
  BY <1>2, RunEnds, Breaks, Attaches, Receives DEF Stream
<1>3. CASE SendHeld
  BY <1>3, SendsHeld
<1>4. CASE Server
  BY <1>4, Takes, Refusals, RoundSteps, Restarts DEF Server
<1>5. CASE UNCHANGED vars
  <2>1. UNCHANGED <<active, batch, held, retry, retrying, ctrl, item, home, run,
                    chatOf, req, rounds, won, src, heard, saved, painted, left,
                    blind, breaks, extras>>
    BY <1>5 DEF vars, personVars, queueVars, retryVars, runVars, wireVars,
                serverVars, ghostVars
  <2>2. TypeOK' /\ IdInv'
    BY <2>1, Zenon DEF IInv, TypeOK, IdInv, Up
  <2>3. PlaceInv' /\ HeldInv' /\ CtrlInv'
    BY <2>1 DEF IInv, PlaceInv, HeldInv, CtrlInv
  <2>4. SavedInv' /\ HeardInv'
    BY <2>1 DEF IInv, SavedInv, Saved, HeardInv, StandsIn
  <2>5. NothingDropped' /\ SavedTwiceOnlyBlind' /\ NothingStuck'
    BY <2>1 DEF IInv, NothingDropped, SendOf, Saved, SavedTwiceOnlyBlind,
                NothingStuck, BatchWillDrain, RetryAwake
  <2> QED
    BY <2>2, <2>3, <2>4, <2>5 DEF IInv
<1> QED
  BY <1>1, <1>2, <1>3, <1>4, <1>5 DEF Next

(* The variables of SendClient keep their types.                           *)
THEOREM TypeCorrect == Spec => []TypeOK
<1>1. IInv => TypeOK
  BY DEF IInv
<1> QED
  BY InitInv, NextInv, <1>1, PTL DEF Spec

(* useRoundStream.js, sendRetry.js and textQueue.js: a typed turn waits in *)
(* its batch, or its send is held, on its way, saved or told off to the    *)
(* person, through any refusals, lost answers and restarts.                *)
THEOREM NeverDropped == Spec => []NothingDropped
<1>1. IInv => NothingDropped
  BY DEF IInv
<1> QED
  BY InitInv, NextInv, <1>1, PTL DEF Spec

(* A 409, the retry loop and the batch that drains beside it never make a  *)
(* second copy: only a send whose answer was lost is saved again.          *)
THEOREM CopiesOnlyBlind == Spec => []SavedTwiceOnlyBlind
<1>1. IInv => SavedTwiceOnlyBlind
  BY DEF IInv
<1> QED
  BY InitInv, NextInv, <1>1, PTL DEF Spec

(* reattachRound: over any number of breaks a stream takes its own round's *)
(* events, each once and in order, unless a restart gave its id again.     *)
THEOREM StreamsInOrder == Spec => []StreamIsPrefix
<1>1. ASSUME IInv PROVE StreamIsPrefix
  <2> SUFFICES ASSUME NEW t \in Turns, NEW i \in DOMAIN heard[t]
               PROVE  /\ heard[t][i][2] = i
                      /\ \/ heard[t][i][1] = won[t]
                         \/ /\ ~rounds[won[t]].up
                            /\ rounds[heard[t][i][1]].chat = chatOf[t]
                            /\ rounds[heard[t][i][1]].id = rounds[won[t]].id
    BY DEF StreamIsPrefix
  <2>1. HeardInv
    BY <1>1 DEF IInv
  <2> QED
    BY <2>1 DEF HeardInv, StandsIn
<1> QED
  BY InitInv, NextInv, <1>1, PTL DEF Spec

(* What waits is somebody's to send: a batch has a stream of its chat that *)
(* drains it, unless the person left it, and a held send an awake loop.    *)
THEOREM NeverStuck == Spec => []NothingStuck
<1>1. IInv => NothingStuck
  BY DEF IInv
<1> QED
  BY InitInv, NextInv, <1>1, PTL DEF Spec

-----------------------------------------------------------------------------
(* The view.  Its inductive invariant.                                     *)

ViewTypes ==
  /\ dbRows \in Seq(View!Row) /\ edits \in Nat /\ Len(dbRows) + edits <= MaxChanges
  /\ \A i \in DOMAIN dbRows : dbRows[i].ver <= edits
  /\ openChat \in Chats /\ watermark \in 0..Len(dbRows)
  /\ list \in [View!Ids -> Seq(Nat)]
  /\ fetches \subseteq View!Fetch

(* A copy in the list, and a row in an answer, is of a row there is, by a  *)
(* version it has had.                                                     *)
CopiesInv ==
  \A i \in View!Ids : View!Shown(i) => i \in DOMAIN dbRows /\ View!Last(list[i]) <= dbRows[i].ver

AnswerOK(f) ==
  \A i \in View!Ids, v \in View!Vers : <<i, v>> \in f.rows =>
    /\ f.read /\ i \in DOMAIN dbRows
    /\ dbRows[i].chat = f.chat /\ v <= dbRows[i].ver
    /\ \A w \in View!Vers : <<i, w>> \in f.rows => w = v

AnswersInv == \A f \in fetches : AnswerOK(f)

(* What the round saves is of the chat that the send was posted to.        *)
TapeInv ==
  /\ stream = "on" => source \in Chats
  /\ tape # <<>> => stream = "on" /\ Head(tape) \in View!RowsOf(source)

(* The chats that a held send can go to.                                   *)
TrailInv == trail \in Seq(Chats) /\ openChat \in Chats

(* What excuses a row of another chat.                                     *)
Astray(i) == View!Opening \/ unopened \/ i \in strayed

Missed(i) ==
  \/ View!Shown(i) \/ i > watermark \/ i \in pending \/ i \in excused
  \/ \E f \in fetches : View!Brings(f, i)

(* Whether or not row i shows, its newest label does, or the tab will      *)
(* learn of it.                                                            *)
Known(i) ==
  \/ dbRows[i].ver = 0 \/ View!Newest(i, list)
  \/ i \in news \/ i \in pending \/ i > watermark \/ i \in dull
  \/ \E f \in fetches : View!Fresh(f, i)

KnownInv == \A i \in View!RowsOf(openChat) : Known(i)

ViewInv ==
  /\ ViewTypes /\ CopiesInv /\ AnswersInv /\ TapeInv
  /\ View!NothingMissed /\ KnownInv /\ View!NoStrangers

-----------------------------------------------------------------------------

LEMMA RowsAre ==
  ASSUME ViewTypes
  PROVE  /\ DOMAIN dbRows = 1..Len(dbRows) /\ Len(dbRows) \in Nat
         /\ DOMAIN dbRows \subseteq View!Ids
         /\ \A i \in DOMAIN dbRows : /\ dbRows[i].chat \in Chats
                                   /\ dbRows[i].ver \in View!Vers
         /\ \A c : View!RowsOf(c) \subseteq DOMAIN dbRows
         /\ \A i \in DOMAIN dbRows : i \in Nat
<1>1. DOMAIN dbRows = 1..Len(dbRows) /\ Len(dbRows) \in Nat
  BY DEF ViewTypes
<1>2. DOMAIN dbRows \subseteq View!Ids
  BY <1>1, ChangesAreNat DEF ViewTypes, View!Ids
<1>3. \A i \in DOMAIN dbRows : dbRows[i] \in View!Row
  BY <1>1 DEF ViewTypes
<1>4. \A i \in DOMAIN dbRows : dbRows[i].chat \in Chats /\ dbRows[i].ver \in View!Vers
  BY <1>3 DEF View!Row
<1>5. \A c : View!RowsOf(c) \subseteq DOMAIN dbRows
  BY DEF View!RowsOf
<1> QED
  BY <1>1, <1>2, <1>4, <1>5

LEMMA HighestIs ==
  ASSUME NEW shown
  PROVE  View!Highest(shown) \in 0..MaxChanges
<1> DEFINE S == {0} \cup {i \in View!Ids : shown[i] # <<>>}
<1>1. S \in SUBSET (0..MaxChanges) /\ S # {}
  BY ChangesAreNat DEF View!Ids
<1>2. PICK n \in S : \A m \in S : m <= n
  BY <1>1, ChangesAreNat, Greatest
<1>3. \E x \in S : \A y \in S : x >= y
  BY <1>1, <1>2
<1>4. View!Max(S) \in S
  <2> HIDE DEF S
  <2> QED
    BY <1>3 DEF View!Max
<1> QED
  BY <1>1, <1>4 DEF View!Highest

(* The cursor of a hydration is below its row.                             *)
LEMMA CursorIs ==
  ASSUME NEW shown, NEW i \in View!Ids
  PROVE  View!HydrateCursor(i, shown) \in View!Vers /\ View!HydrateCursor(i, shown) < i
<1> DEFINE S == {i - 1, View!Highest(shown)}
<1>1. View!Highest(shown) \in Nat /\ i - 1 \in 0..MaxChanges
  BY HighestIs, ChangesAreNat DEF View!Ids
<1>2. \E x \in S : \A y \in S : x <= y
  <2>1. CASE i - 1 <= View!Highest(shown)
    BY <1>1, <2>1
  <2>2. CASE View!Highest(shown) <= i - 1
    BY <1>1, <2>2
  <2> QED
    BY <1>1, <2>1, <2>2
<1>3. View!Min(S) \in S /\ View!Min(S) <= i - 1
  <2>1. i - 1 \in S
    OBVIOUS
  <2> HIDE DEF S
  <2> QED
    BY <1>2, <2>1 DEF View!Min
<1> QED
  BY <1>1, <1>3, HighestIs, ChangesAreNat DEF View!HydrateCursor, View!Vers,
     View!Ids

LEMMA AskIs ==
  ASSUME NEW k \in View!Kinds, NEW c \in Chats, NEW n \in View!Vers
  PROVE  /\ View!Ask(k, c, n) \in View!Fetch /\ AnswerOK(View!Ask(k, c, n))
         /\ \A i : /\ k # "poll" /\ c = openChat /\ dbRows[i].chat = openChat /\ i > n
                     => View!Fresh(View!Ask(k, c, n), i) /\ View!Brings(View!Ask(k, c, n), i)
BY DEF View!Ask, View!Fetch, AnswerOK, View!Fresh, View!Brings

(* A hydration brings every row of the open chat that it is asked for.     *)
LEMMA HydrateIs ==
  ASSUME ViewTypes, NEW S, NEW shown
  PROVE  /\ View!Hydrate(S, shown) \subseteq View!Fetch
         /\ \A f \in View!Hydrate(S, shown) : AnswerOK(f) /\ f.kind = "hydrate"
         /\ \A i \in S \cap View!RowsOf(openChat) :
              \E f \in View!Hydrate(S, shown) : View!Fresh(f, i) /\ View!Brings(f, i)
<1>1. ASSUME NEW i \in S \cap View!RowsOf(openChat)
      PROVE  /\ View!HydrateCursor(i, shown) \in View!Vers /\ View!HydrateCursor(i, shown) < i
             /\ dbRows[i].chat = openChat
  BY <1>1, RowsAre, CursorIs DEF View!RowsOf
<1>2. openChat \in Chats /\ "hydrate" \in View!Kinds
  BY DEF ViewTypes, View!Kinds
<1>3. ASSUME NEW i \in S \cap View!RowsOf(openChat)
      PROVE  LET f == View!Ask("hydrate", openChat, View!HydrateCursor(i, shown))
             IN  /\ f \in View!Hydrate(S, shown) /\ f \in View!Fetch /\ AnswerOK(f)
                 /\ f.kind = "hydrate" /\ View!Fresh(f, i) /\ View!Brings(f, i)
  <2> DEFINE n == View!HydrateCursor(i, shown)
  <2>1. n \in View!Vers /\ i > n /\ dbRows[i].chat = openChat /\ "hydrate" # "poll"
    BY <1>1, ChangesAreNat, RowsAre DEF View!Vers, View!RowsOf, View!Ids
  <2>2. View!Ask("hydrate", openChat, n) \in View!Hydrate(S, shown)
    BY DEF View!Hydrate
  <2>3. View!Ask("hydrate", openChat, n).kind = "hydrate"
    BY DEF View!Ask
  <2> HIDE DEF n
  <2>4. /\ View!Ask("hydrate", openChat, n) \in View!Fetch
        /\ AnswerOK(View!Ask("hydrate", openChat, n))
        /\ View!Fresh(View!Ask("hydrate", openChat, n), i)
        /\ View!Brings(View!Ask("hydrate", openChat, n), i)
    BY <1>2, <2>1, AskIs
  <2> QED
    BY <2>2, <2>3, <2>4 DEF n
<1>4. \A f \in View!Hydrate(S, shown) : \E i \in S \cap View!RowsOf(openChat) :
        f = View!Ask("hydrate", openChat, View!HydrateCursor(i, shown))
  BY DEF View!Hydrate
<1> QED
  BY <1>3, <1>4

-----------------------------------------------------------------------------
(* What a step that leaves a row and the open chat alone leaves of it.     *)

TapeRests ==
  \/ tape' = <<>> /\ stream' # "on"
  \/ tape' \in {tape, <<>>} /\ UNCHANGED <<stream, source>>

LEMMA SameRow ==
  ASSUME NEW i, dbRows'[i] = dbRows[i], openChat' = openChat
  PROVE  \A f : (View!Brings(f, i)' <=> View!Brings(f, i)) /\ (View!Fresh(f, i)' <=> View!Fresh(f, i))
BY DEF View!Brings, View!Fresh

(* The rows grow, and their versions.                                      *)
Grows ==
  /\ DOMAIN dbRows \subseteq DOMAIN dbRows'
  /\ \A i \in DOMAIN dbRows : /\ dbRows'[i].chat = dbRows[i].chat
                            /\ dbRows'[i].ver \in Nat /\ dbRows'[i].ver >= dbRows[i].ver

LEMMA AnswersStand ==
  ASSUME ViewTypes, Grows, NEW f, AnswerOK(f)
  PROVE  AnswerOK(f)'
<1> SUFFICES ASSUME NEW i \in View!Ids, NEW v \in View!Vers, <<i, v>> \in f.rows
             PROVE  /\ f.read /\ i \in DOMAIN dbRows'
                    /\ dbRows'[i].chat = f.chat /\ v <= dbRows'[i].ver
                    /\ \A w \in View!Vers : <<i, w>> \in f.rows => w = v
  BY DEF AnswerOK, View!Ids, View!Vers
<1>1. /\ f.read /\ i \in DOMAIN dbRows /\ dbRows[i].chat = f.chat
      /\ v <= dbRows[i].ver /\ \A w \in View!Vers : <<i, w>> \in f.rows => w = v
  BY DEF AnswerOK
<1>2. dbRows[i].ver \in Nat /\ v \in Nat
  BY <1>1, RowsAre, ChangesAreNat DEF View!Vers
<1> QED
  BY <1>1, <1>2 DEF Grows

LEMMA CopiesStand ==
  ASSUME ViewTypes, CopiesInv, Grows, list' = list
  PROVE  CopiesInv'
<1> SUFFICES ASSUME NEW i \in View!Ids, View!Shown(i)
             PROVE  i \in DOMAIN dbRows' /\ View!Last(list[i]) <= dbRows'[i].ver
  BY DEF CopiesInv, View!Shown, View!Ids
<1>1. i \in DOMAIN dbRows /\ View!Last(list[i]) <= dbRows[i].ver
  BY DEF CopiesInv
<1>2. dbRows[i].ver \in Nat
  BY <1>1, RowsAre, ChangesAreNat DEF View!Vers
<1>3. list[i] \in Seq(Nat) /\ list[i] # <<>>
  BY DEF ViewTypes, View!Shown
<1>4. View!Last(list[i]) \in Nat
  BY <1>3 DEF View!Last
<1> QED
  BY <1>1, <1>2, <1>4 DEF Grows

(* A row is saved, and perhaps its event is on the round's own tape.       *)
LEMMA SaveKeeps ==
  ASSUME ViewInv, NEW c \in Chats,
         Len(dbRows) + edits < MaxChanges,
         dbRows' = Append(dbRows, [chat |-> c, ver |-> 0]),
         UNCHANGED <<edits, View!busVars, View!viewVars, pending, fetches, View!ghostVars>>,
         \/ UNCHANGED <<tape, stream, source>>
         \/ source' = c /\ tape' = <<Len(dbRows) + 1>> /\ stream' = "on"
  PROVE  ViewInv'
<1>0. ViewTypes
  BY DEF ViewInv
<1>1. UNCHANGED <<edits, watermark, news, openChat, list, unopened, strayed, pending,
                  fetches, excused, dull>>
  BY DEF View!busVars, View!viewVars, View!ghostVars
<1> DEFINE new == dbRows'
           n == Len(dbRows) + 1
<1>2. /\ new \in Seq(View!Row) /\ Len(new) = n /\ DOMAIN new = DOMAIN dbRows \cup {n}
      /\ \A i \in DOMAIN dbRows : new[i] = dbRows[i]
      /\ new[n] = [chat |-> c, ver |-> 0] /\ n \notin DOMAIN dbRows
  <2>1. dbRows \in Seq(View!Row) /\ [chat |-> c, ver |-> 0] \in View!Row
    BY <1>0, ChangesAreNat DEF ViewTypes, View!Row, View!Vers
  <2> QED
    BY <2>1
<1>3. Grows
  BY <1>2, <1>0, RowsAre, ChangesAreNat DEF Grows, View!Vers
<1> HIDE DEF new
<1>4. View!RowsOf(openChat)' \subseteq View!RowsOf(openChat) \cup {n}
  BY <1>1, <1>2 DEF View!RowsOf, new
<1>5. n > watermark /\ watermark \in Nat
  BY <1>0 DEF ViewTypes
<1>6. \A i \in DOMAIN dbRows : dbRows'[i] = dbRows[i]
  BY <1>2 DEF new
<1>7. View!RowsOf(openChat) \subseteq DOMAIN dbRows
  BY DEF View!RowsOf
<1>a. ViewTypes'
  <2>1. Len(dbRows)' + edits' <= MaxChanges /\ Len(dbRows)' = n /\ n \in Nat
    BY <1>0, <1>1, <1>2, ChangesAreNat DEF ViewTypes, new
  <2>2. \A i \in DOMAIN dbRows' : dbRows'[i].ver <= edits
    BY <1>0, <1>2 DEF ViewTypes, new
  <2>3. dbRows' \in Seq(View!Row)
    BY <1>2 DEF new
  <2>4. watermark \in 0..Len(dbRows)'
    BY <1>0, <2>1 DEF ViewTypes
  <2> QED
    BY <1>0, <1>1, <2>1, <2>2, <2>3, <2>4 DEF ViewTypes, View!Ids, View!Fetch,
       View!Vers, View!Kinds
<1>b. CopiesInv'
  BY <1>0, <1>1, <1>3, CopiesStand DEF ViewInv
<1>c. AnswersInv'
  BY <1>0, <1>1, <1>3, AnswersStand DEF ViewInv, AnswersInv
<1>d. TapeInv'
  <2>1. CASE UNCHANGED <<tape, stream, source>>
    BY <2>1, <1>1, <1>2 DEF ViewInv, TapeInv, View!RowsOf, new
  <2>2. CASE source' = c /\ tape' = <<n>> /\ stream' = "on"
    BY <2>2, <1>1, <1>2 DEF TapeInv, View!RowsOf, new
  <2> QED
    BY <2>1, <2>2
<1>e. View!NothingMissed'
  <2> SUFFICES ASSUME NEW i \in View!RowsOf(openChat)'
               PROVE  Missed(i)'
    BY DEF View!NothingMissed, Missed
  <2>1. CASE i = n
    BY <2>1, <1>1, <1>5 DEF Missed
  <2>2. CASE i \in View!RowsOf(openChat)
    <3>1. Missed(i)
      BY <2>2 DEF ViewInv, View!NothingMissed, Missed
    <3>2. \A f : View!Brings(f, i)' <=> View!Brings(f, i)
      BY <2>2, <1>1, <1>6, <1>7, SameRow
    <3> QED
      BY <3>1, <3>2, <1>1 DEF Missed, View!Shown
  <2> QED
    BY <2>1, <2>2, <1>4
<1>f. KnownInv'
  <2> SUFFICES ASSUME NEW i \in View!RowsOf(openChat)'
               PROVE  Known(i)'
    BY DEF KnownInv
  <2>1. CASE i = n
    BY <2>1, <1>2 DEF Known, new
  <2>2. CASE i \in View!RowsOf(openChat)
    <3>1. Known(i)
      BY <2>2 DEF ViewInv, KnownInv
    <3>2. \A f : View!Fresh(f, i)' <=> View!Fresh(f, i)
      BY <2>2, <1>1, <1>6, <1>7, SameRow
    <3>3. dbRows'[i] = dbRows[i]
      BY <2>2, <1>6, <1>7
    <3> QED
      BY <3>1, <3>2, <3>3, <1>1 DEF Known, View!Newest
  <2> QED
    BY <2>1, <2>2, <1>4
<1>g. View!NoStrangers'
  <2> SUFFICES ASSUME NEW i \in DOMAIN dbRows', View!Shown(i)', dbRows'[i].chat # openChat'
               PROVE  Astray(i)'
    BY DEF View!NoStrangers, Astray
  <2>1. i \in DOMAIN dbRows
    <3>1. i \in View!Ids
      BY <1>0, <1>2, RowsAre, ChangesAreNat DEF new, ViewTypes, View!Ids
    <3> QED
      BY <3>1, <1>1 DEF ViewInv, CopiesInv, View!Shown
  <2>2. Astray(i)
    BY <2>1, <1>1, <1>6 DEF ViewInv, View!NoStrangers, View!Shown, Astray
  <2> QED
    BY <2>2, <1>1 DEF View!Opening, Astray
<1> QED
  BY <1>a, <1>b, <1>c, <1>d, <1>e, <1>f, <1>g DEF ViewInv

(* A label changes, and its event or a fetch of the tab's own will tell.   *)
LEMMA LabelKeeps ==
  ASSUME ViewInv, NEW j \in DOMAIN dbRows, View!Label(j),
         UNCHANGED <<watermark, View!viewVars, pending, tape, stream, source, excused>>,
         NEW more \in SUBSET View!Fetch, \A f \in more : AnswerOK(f),
         fetches' = fetches \cup more
  PROVE  ViewInv'
<1>0. ViewTypes
  BY DEF ViewInv
<1>1. UNCHANGED <<watermark, openChat, list, unopened, strayed, pending, tape, stream, source, excused>>
  BY DEF View!viewVars
<1> DEFINE new == dbRows'
<1>2. /\ new \in Seq(View!Row) /\ Len(new) = Len(dbRows) /\ DOMAIN new = DOMAIN dbRows
      /\ \A i \in DOMAIN dbRows \ {j} : new[i] = dbRows[i]
      /\ new[j].chat = dbRows[j].chat /\ new[j].ver = dbRows[j].ver + 1
      /\ edits' = edits + 1 /\ Len(dbRows) + edits + 1 <= MaxChanges
  <2>1. /\ dbRows \in Seq(View!Row) /\ dbRows[j] \in View!Row /\ dbRows[j].ver <= edits
        /\ edits \in Nat /\ Len(dbRows) \in Nat /\ Len(dbRows) + edits < MaxChanges
        /\ dbRows' = [dbRows EXCEPT ![j].ver = @ + 1] /\ edits' = edits + 1
    BY <1>0, RowsAre DEF ViewTypes, View!Label
  <2>2. [dbRows[j] EXCEPT !.ver = @ + 1] \in View!Row
    BY <2>1, ChangesAreNat DEF View!Row, View!Vers
  <2>3. dbRows' = [dbRows EXCEPT ![j] = [dbRows[j] EXCEPT !.ver = @ + 1]]
    BY <2>1
  <2>4. /\ dbRows' \in Seq(View!Row) /\ Len(dbRows') = Len(dbRows) /\ DOMAIN dbRows' = DOMAIN dbRows
    BY <2>1, <2>2, <2>3
  <2>5. dbRows'[j] = [dbRows[j] EXCEPT !.ver = @ + 1]
    BY <2>1, <2>3
  <2>6. \A i \in DOMAIN dbRows \ {j} : dbRows'[i] = dbRows[i]
    BY <2>1, <2>3
  <2>7. dbRows'[j].chat = dbRows[j].chat /\ dbRows'[j].ver = dbRows[j].ver + 1
    BY <2>1, <2>5 DEF View!Row
  <2> QED
    BY <2>1, <2>4, <2>6, <2>7, ChangesAreNat
<1>3. Grows
  BY <1>2, <1>0, RowsAre, ChangesAreNat DEF Grows, View!Vers
<1> HIDE DEF new
<1>4. View!RowsOf(openChat)' = View!RowsOf(openChat)
  <2>1. \A i \in DOMAIN dbRows : dbRows'[i].chat = dbRows[i].chat
    BY <1>2 DEF new
  <2> QED
    BY <1>1, <1>2, <2>1 DEF View!RowsOf, new
<1>5. j \in news' \cup dull' /\ news \subseteq news' /\ dull \subseteq dull'
  BY DEF View!Label
<1>6. \A i \in DOMAIN dbRows \ {j} : dbRows'[i] = dbRows[i]
  BY <1>2 DEF new
<1>7. View!RowsOf(openChat) \subseteq DOMAIN dbRows
  BY DEF View!RowsOf
<1>a. ViewTypes'
  <2>1. Len(dbRows)' + edits' <= MaxChanges /\ Len(dbRows)' = Len(dbRows)
    BY <1>0, <1>2, RowsAre, ChangesAreNat DEF ViewTypes, new
  <2>2. \A i \in DOMAIN dbRows' : dbRows'[i].ver <= edits'
    <3>1. \A i \in DOMAIN dbRows : dbRows[i].ver \in Nat /\ dbRows[i].ver <= edits
      BY <1>0, RowsAre DEF ViewTypes, View!Vers
    <3>2. edits \in Nat /\ edits' = edits + 1
      BY <1>0, <1>2 DEF ViewTypes
    <3>3. \A i \in DOMAIN dbRows \ {j} : new[i].ver <= edits + 1
      BY <3>1, <3>2, <1>2
    <3>4. new[j].ver <= edits + 1
      BY <3>1, <3>2, <1>2
    <3>5. DOMAIN dbRows' = DOMAIN dbRows
      BY <1>2 DEF new
    <3> QED
      BY <3>2, <3>3, <3>4, <3>5 DEF new
  <2>3. dbRows' \in Seq(View!Row) /\ edits' \in Nat
    BY <1>0, <1>2 DEF new, ViewTypes
  <2> QED
    BY <1>0, <1>1, <2>1, <2>2, <2>3 DEF ViewTypes
<1>b. CopiesInv'
  BY <1>0, <1>1, <1>3, CopiesStand DEF ViewInv
<1>c. AnswersInv'
  BY <1>0, <1>1, <1>3, AnswersStand DEF ViewInv, AnswersInv
<1>d. TapeInv'
  <2>1. \A i \in DOMAIN dbRows : dbRows'[i].chat = dbRows[i].chat
    BY <1>2 DEF new
  <2>2. View!RowsOf(source)' = View!RowsOf(source)
    BY <1>1, <1>2, <2>1 DEF View!RowsOf, new
  <2> QED
    BY <1>1, <2>2 DEF ViewInv, TapeInv
<1>e. View!NothingMissed'
  <2> SUFFICES ASSUME NEW i \in View!RowsOf(openChat)
               PROVE  Missed(i)'
    BY <1>4 DEF View!NothingMissed, Missed
  <2>1. Missed(i)
    BY DEF ViewInv, View!NothingMissed, Missed
  <2>2. \A f : View!Brings(f, i)' <=> View!Brings(f, i)
    BY <1>1, <1>2, <1>7 DEF View!Brings, new
  <2> QED
    BY <2>1, <2>2, <1>1 DEF Missed, View!Shown
<1>f. KnownInv'
  <2> SUFFICES ASSUME NEW i \in View!RowsOf(openChat)
               PROVE  Known(i)'
    BY <1>4 DEF KnownInv
  <2>1. CASE i = j
    BY <2>1, <1>5 DEF Known
  <2>2. CASE i # j
    <3>1. Known(i)
      BY DEF ViewInv, KnownInv
    <3>2. dbRows'[i] = dbRows[i]
      BY <2>2, <1>6, <1>7
    <3>3. \A f : View!Fresh(f, i)' <=> View!Fresh(f, i)
      BY <3>2, <1>1, SameRow
    <3> QED
      BY <3>1, <3>2, <3>3, <1>1, <1>5 DEF Known, View!Newest
  <2> QED
    BY <2>1, <2>2
<1>g. View!NoStrangers'
  <2> SUFFICES ASSUME NEW i \in DOMAIN dbRows, View!Shown(i), dbRows[i].chat # openChat
               PROVE  Astray(i)'
    BY <1>1, <1>2 DEF View!NoStrangers, View!Shown, Astray, new
  <2>1. Astray(i)
    BY DEF ViewInv, View!NoStrangers, Astray
  <2> QED
    BY <2>1, <1>1 DEF View!Opening, Astray
<1> QED
  BY <1>a, <1>b, <1>c, <1>d, <1>e, <1>f, <1>g DEF ViewInv

(* A step that leaves the rows and the open chat alone need only show, row *)
(* by row, that what was to come still is.                                 *)
LEMMA SameRowsKeep ==
  ASSUME ViewInv, UNCHANGED <<dbRows, edits, openChat>>,
         watermark' \in 0..Len(dbRows), list' \in [View!Ids -> Seq(Nat)],
         fetches' \subseteq View!Fetch, \A f \in fetches' : AnswerOK(f),
         \A i \in View!Ids : list'[i] # <<>> =>
                         i \in DOMAIN dbRows /\ View!Last(list'[i]) <= dbRows[i].ver,
         TapeRests,
         \A i \in View!RowsOf(openChat) : (Missed(i) => Missed(i)') /\ (Known(i) => Known(i)'),
         View!NoStrangers'
  PROVE  ViewInv'
<1>1. ViewTypes'
  BY DEF ViewInv, ViewTypes
<1>2. CopiesInv'
  BY DEF CopiesInv, View!Shown
<1>3. AnswersInv'
  BY DEF AnswersInv, AnswerOK
<1>4. View!RowsOf(openChat)' = View!RowsOf(openChat)
  BY DEF View!RowsOf
<1>5. TapeInv'
  BY DEF ViewInv, TapeInv, TapeRests, View!RowsOf
<1>6. View!NothingMissed' /\ KnownInv'
  BY <1>4 DEF ViewInv, View!NothingMissed, KnownInv, Missed
<1> QED
  BY <1>1, <1>2, <1>3, <1>5, <1>6 DEF ViewInv

LEMMA ListStands ==
  ASSUME ViewInv, list' = list
  PROVE  /\ list' \in [View!Ids -> Seq(Nat)]
         /\ \A i \in View!Ids : list'[i] # <<>> =>
              i \in DOMAIN dbRows /\ View!Last(list'[i]) <= dbRows[i].ver
BY DEF ViewInv, ViewTypes, CopiesInv, View!Shown

(* An answer is made: it brings what the request would have.               *)
LEMMA ReadKeeps ==
  ASSUME ViewInv, NEW f \in fetches, View!Read(f)
  PROVE  ViewInv'
<1>0. ViewTypes
  BY DEF ViewInv
<1> DEFINE found == {<<i, dbRows[i].ver>> : i \in {j \in View!RowsOf(f.chat) : j > f.after}}
           g == [f EXCEPT !.read = TRUE, !.rows = found]
<1>1. /\ UNCHANGED <<dbRows, edits, openChat, list, unopened, strayed, pending, tape,
                     stream, source, watermark, news, excused, dull>>
      /\ ~f.read /\ fetches' = (fetches \ {f}) \cup {g}
  BY DEF View!Read, View!serverVars, View!busVars, View!viewVars,
     View!roundVars, View!ghostVars
<1>2. f \in View!Fetch
  BY <1>0 DEF ViewTypes
<1>3. /\ found \subseteq View!Ids \X View!Vers
      /\ \A i, v : <<i, v>> \in found <=>
           i \in View!RowsOf(f.chat) /\ i > f.after /\ v = dbRows[i].ver
  <2>1. \A i \in View!RowsOf(f.chat) : i \in View!Ids /\ dbRows[i].ver \in View!Vers
    BY <1>0, RowsAre
  <2> QED
    BY <2>1
<1> HIDE DEF found
<1>4. /\ g \in View!Fetch /\ g.kind = f.kind /\ g.chat = f.chat /\ g.after = f.after
      /\ g.read /\ g.rows = found
  BY <1>2, <1>3 DEF View!Fetch
<1> HIDE DEF g
<1>5. AnswerOK(g)
  <2>1. \A i \in View!RowsOf(f.chat) : i \in DOMAIN dbRows /\ dbRows[i].chat = f.chat /\ dbRows[i].ver \in Nat
    BY <1>0, RowsAre DEF View!RowsOf, View!Vers
  <2> QED
    BY <1>3, <1>4, <2>1 DEF AnswerOK
<1>6. \A i \in View!RowsOf(openChat) : (View!Brings(f, i) => View!Brings(g, i)) /\ (View!Fresh(f, i) => View!Fresh(g, i))
  <2> SUFFICES ASSUME NEW i \in View!RowsOf(openChat), View!Brings(f, i)
               PROVE  View!Fresh(g, i)
    BY DEF View!Fresh
  <2>1. /\ f.kind # "poll" /\ f.chat = openChat /\ dbRows[i].chat = openChat /\ i > f.after
    BY DEF View!Brings
  <2>2. <<i, dbRows[i].ver>> \in found /\ dbRows[i].ver \in View!Vers
    BY <1>0, <1>3, <2>1, RowsAre
  <2> QED
    BY <2>1, <2>2, <1>4 DEF View!Fresh, View!Brings
<1>7. \A i \in View!RowsOf(openChat) : (Missed(i) => Missed(i)') /\ (Known(i) => Known(i)')
  <2> TAKE i \in View!RowsOf(openChat)
  <2>1. \A h : (View!Brings(h, i)' <=> View!Brings(h, i)) /\ (View!Fresh(h, i)' <=> View!Fresh(h, i))
    BY <1>1, SameRow
  <2>2. (\E h \in fetches : View!Brings(h, i)) => \E h \in fetches' : View!Brings(h, i)'
    BY <2>1, <1>1, <1>6
  <2>3. (\E h \in fetches : View!Fresh(h, i)) => \E h \in fetches' : View!Fresh(h, i)'
    BY <2>1, <1>1, <1>6
  <2> QED
    BY <2>2, <2>3, <1>1 DEF Missed, Known, View!Shown, View!Newest
<1>8. View!NoStrangers'
  BY <1>1, <1>4 DEF ViewInv, View!NoStrangers, View!Shown, View!Opening
<1>9. \A h \in fetches' : h \in View!Fetch /\ AnswerOK(h)
  BY <1>1, <1>4, <1>5, <1>0 DEF ViewInv, AnswersInv, ViewTypes
<1> QED
  BY <1>0, <1>1, <1>7, <1>8, <1>9, ListStands, SameRowsKeep DEF ViewTypes,
     TapeRests

(* A step that leaves the list alone, and what failed or came too late out *)
(* of it, loses no request that brings a row, and no event.                *)
LEMMA QuietKeeps ==
  ASSUME ViewInv, UNCHANGED <<dbRows, edits, openChat, list, excused>>,
         watermark' \in 0..Len(dbRows), dull \subseteq dull', TapeRests,
         \A f \in fetches' : f \in View!Fetch /\ AnswerOK(f),
         \A f \in fetches \ fetches', i \in View!RowsOf(openChat) : ~View!Brings(f, i),
         \A i \in View!RowsOf(openChat) :
           i > watermark \/ i \in pending =>
             \/ i > watermark' \/ i \in pending'
             \/ \E f \in fetches' : View!Fresh(f, i),
         \A i \in View!RowsOf(openChat) \cap news :
           \/ i \in news' \/ i \in pending' \/ i \in dull'
           \/ \E f \in fetches' : View!Fresh(f, i),
         (View!Opening \/ unopened => View!Opening' \/ unopened') /\ strayed \subseteq strayed'
  PROVE  ViewInv'
<1>1. ASSUME NEW i \in View!RowsOf(openChat)
      PROVE  (Missed(i) => Missed(i)') /\ (Known(i) => Known(i)')
  <2>1. \A f : (View!Brings(f, i)' <=> View!Brings(f, i)) /\ (View!Fresh(f, i)' <=> View!Fresh(f, i))
    BY SameRow
  <2>2. \A f \in fetches : View!Brings(f, i) => f \in fetches'
    OBVIOUS
  <2>3. \A f : View!Fresh(f, i) => View!Brings(f, i)
    BY DEF View!Fresh
  <2>4. (\E f \in fetches' : View!Fresh(f, i)) =>
          (\E f \in fetches' : View!Fresh(f, i)') /\ (\E f \in fetches' : View!Brings(f, i)')
    BY <2>1, <2>3
  <2>5. (\E f \in fetches : View!Brings(f, i)) => \E f \in fetches' : View!Brings(f, i)'
    BY <2>1, <2>2
  <2>6. (\E f \in fetches : View!Fresh(f, i)) => \E f \in fetches' : View!Fresh(f, i)'
    BY <2>1, <2>2, <2>3
  <2>7. Missed(i) => Missed(i)'
    BY <2>4, <2>5 DEF Missed, View!Shown
  <2>8. View!Newest(i, list)' <=> View!Newest(i, list)
    BY DEF View!Newest
  <2>9. Known(i) => Known(i)'
    BY <2>4, <2>6, <2>8 DEF Known
  <2> QED
    BY <2>7, <2>9
<1>2. View!NoStrangers'
  BY DEF ViewInv, View!NoStrangers, View!Shown, Astray
<1>3. fetches' \subseteq View!Fetch /\ \A f \in fetches' : AnswerOK(f)
  OBVIOUS
<1> QED
  BY <1>1, <1>2, <1>3, ListStands, SameRowsKeep

(* What Track makes of the rows that were shown, excused or lost.          *)
LEMMA TrackIs ==
  ASSUME ViewTypes, NEW shown, NEW lost, View!Track(shown, lost)
  PROVE  \A i \in DOMAIN dbRows :
           /\ View!Shown(i) \/ i \in excused \/ i \in lost =>
                shown[i] # <<>> \/ i \in excused'
           /\ View!Newest(i, list) \/ i \in dull \/ i \in lost =>
                View!Newest(i, shown) \/ i \in dull'
BY DEF View!Track

(* A step that paints the list, and accounts for it with Track.            *)
LEMMA PaintKeeps ==
  ASSUME ViewInv, NEW lost, NEW shown, list' = shown, View!Track(shown, lost),
         UNCHANGED <<dbRows, edits, openChat, watermark, news>>,
         shown \in [View!Ids -> Seq(Nat)],
         \A i \in View!Ids : shown[i] # <<>> =>
                         i \in DOMAIN dbRows /\ View!Last(shown[i]) <= dbRows[i].ver,
         TapeRests,
         \A f \in fetches' : f \in View!Fetch /\ AnswerOK(f),
         \A i \in View!RowsOf(openChat) \cap pending :
           i \in pending' \/ \E f \in fetches' : View!Fresh(f, i),
         \A f \in fetches \ fetches', i \in View!RowsOf(openChat) :
           /\ View!Brings(f, i) => shown[i] # <<>> \/ i \in lost
           /\ View!Fresh(f, i) => View!Newest(i, shown) \/ i \in lost,
         \A i \in DOMAIN dbRows :
           shown[i] # <<>> /\ dbRows[i].chat # openChat => Astray(i)'
  PROVE  ViewInv'
<1>0. ViewTypes
  BY DEF ViewInv
<1>1. ASSUME NEW i \in View!RowsOf(openChat)
      PROVE  (Missed(i) => Missed(i)') /\ (Known(i) => Known(i)')
  <2>1. \A f : (View!Brings(f, i)' <=> View!Brings(f, i)) /\ (View!Fresh(f, i)' <=> View!Fresh(f, i))
    BY SameRow
  <2>2. \A f : View!Fresh(f, i) => View!Brings(f, i)
    BY DEF View!Fresh
  <2>3. i \in DOMAIN dbRows
    BY DEF View!RowsOf
  <2>4. /\ View!Shown(i) \/ i \in excused \/ i \in lost => shown[i] # <<>> \/ i \in excused'
        /\ View!Newest(i, list) \/ i \in dull \/ i \in lost =>
              View!Newest(i, shown) \/ i \in dull'
    BY <1>0, <2>3, TrackIs
  <2>5. (\E f \in fetches : View!Brings(f, i)) =>
          \/ \E f \in fetches' : View!Brings(f, i)'
          \/ shown[i] # <<>> \/ i \in lost
    BY <2>1
  <2>6. (\E f \in fetches : View!Fresh(f, i)) =>
          \/ \E f \in fetches' : View!Fresh(f, i)'
          \/ View!Newest(i, shown) \/ i \in lost
    BY <2>1
  <2>7. i \in pending =>
          \/ i \in pending'
          \/ (\E f \in fetches' : View!Fresh(f, i)') /\ (\E f \in fetches' : View!Brings(f, i)')
    BY <2>1, <2>2
  <2>8. Missed(i) => Missed(i)'
    BY <2>4, <2>5, <2>7 DEF Missed, View!Shown
  <2>9. View!Newest(i, shown) => View!Newest(i, list)'
    BY DEF View!Newest
  <2>10. Known(i) => Known(i)'
    BY <2>4, <2>6, <2>7, <2>9 DEF Known
  <2> QED
    BY <2>8, <2>10
<1>2. View!NoStrangers'
  BY DEF View!NoStrangers, View!Shown, Astray
<1>3. fetches' \subseteq View!Fetch /\ \A f \in fetches' : AnswerOK(f)
  OBVIOUS
<1>4. watermark' \in 0..Len(dbRows)
  BY <1>0 DEF ViewTypes
<1> QED
  BY <1>1, <1>2, <1>3, <1>4, SameRowsKeep

LEMMA FetchesAre ==
  ASSUME ViewInv
  PROVE  \A f \in fetches : f \in View!Fetch /\ AnswerOK(f)
BY DEF ViewInv, ViewTypes, AnswersInv

-----------------------------------------------------------------------------
(* The event connection.                                                   *)

(* A handled event waits for the round's end, or its row is asked for.     *)
LEMMA HandleIs ==
  ASSUME ViewTypes, NEW i, View!Handle(i)
  PROVE  /\ pending \subseteq pending' /\ fetches \subseteq fetches'
         /\ \A f \in fetches' \ fetches : f \in View!Fetch /\ AnswerOK(f)
         /\ i \in View!RowsOf(openChat) =>
              i \in pending' \/ \E f \in fetches' : View!Fresh(f, i)
<1>1. CASE stream # "off" /\ dbRows[i].chat = openChat
  BY <1>1 DEF View!Handle
<1>2. CASE ~(stream # "off" /\ dbRows[i].chat = openChat)
  <2>1. fetches' = fetches \cup View!Hydrate({i}, list) /\ pending' = pending
    BY <1>2 DEF View!Handle
  <2>2. /\ View!Hydrate({i}, list) \subseteq View!Fetch
        /\ \A f \in View!Hydrate({i}, list) : AnswerOK(f)
        /\ \A j \in {i} \cap View!RowsOf(openChat) : \E f \in View!Hydrate({i}, list) : View!Fresh(f, j)
    BY HydrateIs
  <2> QED
    BY <2>1, <2>2
<1> QED
  BY <1>1, <1>2

LEMMA HandleKeeps ==
  ASSUME ViewInv, NEW i, View!Handle(i),
         UNCHANGED <<dbRows, edits, View!viewVars, tape, stream, source, View!ghostVars>>,
         watermark' \in 0..Len(dbRows),
         \A j \in View!RowsOf(openChat) \ {i} :
              /\ j > watermark => j > watermark'
              /\ j \in news => j \in news'
  PROVE  ViewInv'
<1>1. ViewTypes
  BY DEF ViewInv
<1>2. /\ pending \subseteq pending' /\ fetches \subseteq fetches'
      /\ \A f \in fetches' \ fetches : f \in View!Fetch /\ AnswerOK(f)
      /\ i \in View!RowsOf(openChat) => i \in pending' \/ \E f \in fetches' : View!Fresh(f, i)
  BY <1>1, HandleIs
<1>3. UNCHANGED <<openChat, list, unopened, strayed, excused, dull>>
  BY DEF View!viewVars, View!ghostVars
<1>4. \A f \in fetches' : f \in View!Fetch /\ AnswerOK(f)
  BY <1>2, FetchesAre
<1>5. View!Opening => View!Opening'
  BY <1>2, <1>3 DEF View!Opening
<1>6. ASSUME NEW j \in View!RowsOf(openChat)
      PROVE  /\ j > watermark \/ j \in pending =>
                  \/ j > watermark' \/ j \in pending'
                  \/ \E f \in fetches' : View!Fresh(f, j)
             /\ j \in news => \/ j \in news' \/ j \in pending'
                              \/ \E f \in fetches' : View!Fresh(f, j)
  <2>1. CASE j = i
    BY <2>1, <1>2
  <2>2. CASE j # i
    <3>0. j \in View!RowsOf(openChat) \ {i}
      BY <2>2
    <3>1. (j > watermark => j > watermark') /\ (j \in news => j \in news')
      BY <3>0
    <3> QED
      BY <3>1, <1>2
  <2> QED
    BY <2>1, <2>2
<1> QED
  BY <1>2, <1>3, <1>4, <1>5, <1>6, QuietKeeps DEF TapeRests

LEMMA BusKeeps ==
  ASSUME ViewInv, View!Bus
  PROVE  ViewInv'
<1>1. ViewTypes
  BY DEF ViewInv
<1>2. watermark \in 0..Len(dbRows) /\ watermark \in Nat /\ Len(dbRows) \in Nat
  BY <1>1 DEF ViewTypes
<1>3. \A i \in View!RowsOf(openChat) : i \in Nat
  BY <1>1, RowsAre
<1>4. CASE View!NewMessage
  <2>1. /\ View!Handle(watermark + 1) /\ watermark' = watermark + 1 /\ watermark < Len(dbRows)
        /\ UNCHANGED <<dbRows, edits, View!viewVars, tape, stream, source, View!ghostVars, news>>
    BY <1>4 DEF View!NewMessage, View!serverVars, View!roundVars
  <2>2. watermark' \in 0..Len(dbRows)
    BY <2>1, <1>2
  <2>3. \A j \in View!RowsOf(openChat) \ {watermark + 1} :
          j > watermark => j > watermark'
    BY <2>1, <1>2, <1>3
  <2> QED
    BY <2>1, <2>2, <2>3, HandleKeeps
<1>5. ASSUME NEW i \in news, View!MessageUpdate(i)
      PROVE  ViewInv'
  <2>1. /\ View!Handle(i) /\ watermark' = watermark /\ news' = news \ {i}
        /\ UNCHANGED <<dbRows, edits, View!viewVars, tape, stream, source, View!ghostVars>>
    BY <1>5 DEF View!MessageUpdate, View!serverVars, View!roundVars
  <2>2. watermark' \in 0..Len(dbRows)
    BY <2>1, <1>2
  <2>3. \A j \in View!RowsOf(openChat) \ {i} :
       /\ j > watermark => j > watermark'
       /\ j \in news => j \in news'
    BY <2>1
  <2> QED
    BY <2>1, <2>2, <2>3, HandleKeeps
<1>6. CASE View!ConnectionBreaks \/ View!Reconnect
  <2>1. /\ UNCHANGED <<dbRows, edits, openChat, list, unopened, strayed, watermark, pending,
                       fetches, tape, stream, source, excused>>
        /\ dull \subseteq dull' /\ news \subseteq news' \cup dull'
    BY <1>6 DEF View!ConnectionBreaks, View!Reconnect, View!serverVars,
       View!viewVars, View!roundVars,
                View!ghostVars
  <2>2. View!Opening => View!Opening'
    BY <2>1 DEF View!Opening
  <2> QED
    BY <2>1, <2>2, <1>2, FetchesAre, QuietKeeps DEF TapeRests
<1>7. CASE View!Poll
  <2>1. /\ UNCHANGED <<dbRows, edits, openChat, list, unopened, strayed, watermark, pending,
                       news, tape, stream, source, excused, dull>>
        /\ fetches' = fetches \cup {View!Ask("poll", openChat, View!Highest(list))}
    BY <1>7 DEF View!Poll, View!serverVars, View!viewVars, View!roundVars,
       View!ghostVars, View!busVars
  <2>2. "poll" \in View!Kinds /\ View!Highest(list) \in View!Vers /\ openChat \in Chats
    BY <1>1, HighestIs DEF View!Kinds, View!Vers, ViewTypes
  <2>3. /\ View!Ask("poll", openChat, View!Highest(list)) \in View!Fetch
        /\ AnswerOK(View!Ask("poll", openChat, View!Highest(list)))
    BY <2>2, AskIs
  <2>4. View!Opening => View!Opening'
    BY <2>1 DEF View!Opening
  <2>5. \A f \in fetches' : f \in View!Fetch /\ AnswerOK(f)
    BY <2>1, <2>3, FetchesAre
  <2> QED
    BY <2>1, <2>4, <2>5, <1>2, QuietKeeps DEF TapeRests
<1> QED
  BY <1>4, <1>5, <1>6, <1>7 DEF View!Bus

-----------------------------------------------------------------------------
(* The answers.                                                            *)

(* The end of a round asks for every row whose event waited.               *)
LEMMA SettleIs ==
  ASSUME ViewTypes, NEW shown, NEW inFlight, View!Settle(shown, inFlight),
         \A f \in inFlight : f \in View!Fetch /\ AnswerOK(f)
  PROVE  /\ tape' = <<>> /\ stream' # "on" /\ inFlight \subseteq fetches'
         /\ \A f \in fetches' : f \in View!Fetch /\ AnswerOK(f)
         /\ \A i \in View!RowsOf(openChat) \cap pending : \E f \in fetches' : View!Fresh(f, i)
<1>1. /\ View!Hydrate(pending, shown) \subseteq View!Fetch
      /\ \A f \in View!Hydrate(pending, shown) : AnswerOK(f)
      /\ \A i \in pending \cap View!RowsOf(openChat) :
           \E f \in View!Hydrate(pending, shown) : View!Fresh(f, i)
  BY HydrateIs
<1>2. /\ tape' = <<>> /\ stream' # "on"
      /\ fetches' = inFlight \cup View!Hydrate(pending, shown)
  BY DEF View!Settle
<1> QED
  BY <1>1, <1>2

(* A painted row, by the one label that the answer has for it.             *)
Painted(fresh, shown) ==
  \A i \in View!Ids, v \in View!Vers : <<i, v>> \in fresh => shown[i] = <<v>>

LEMMA ChosenIs ==
  ASSUME ViewInv, NEW f \in fetches, NEW i \in View!Ids, NEW v \in View!Vers, <<i, v>> \in f.rows
  PROVE  (CHOOSE w \in View!Vers : <<i, w>> \in f.rows) = v
<1>1. \A w \in View!Vers : <<i, w>> \in f.rows => w = v
  BY DEF ViewInv, AnswersInv, AnswerOK
<1> QED
  BY <1>1

LEMMA MergeIs ==
  ASSUME ViewInv, NEW f \in fetches
  PROVE  /\ View!Merge(f.rows) \in [View!Ids -> Seq(Nat)]
         /\ Painted(f.rows, View!Merge(f.rows))
         /\ \A i \in View!Ids : (~\E v \in View!Vers : <<i, v>> \in f.rows) =>
              View!Merge(f.rows)[i] = IF View!Shown(i) THEN <<View!Last(list[i])>> ELSE <<>>
<1> DEFINE shown == View!Merge(f.rows)
<1>1. ASSUME NEW i \in View!Ids, NEW v \in View!Vers, <<i, v>> \in f.rows
      PROVE  shown[i] = <<v>>
  BY <1>1, ChosenIs DEF View!Merge
<1>2. ASSUME NEW i \in View!Ids, ~\E v \in View!Vers : <<i, v>> \in f.rows
      PROVE  shown[i] = IF View!Shown(i) THEN <<View!Last(list[i])>> ELSE <<>>
  BY <1>2 DEF View!Merge
<1>3. \A i \in View!Ids : View!Shown(i) => View!Last(list[i]) \in Nat
  <2> SUFFICES ASSUME NEW i \in View!Ids, list[i] # <<>> PROVE View!Last(list[i]) \in Nat
    BY DEF View!Shown
  <2>1. list[i] \in Seq(Nat)
    BY DEF ViewInv, ViewTypes
  <2> QED
    BY <2>1 DEF View!Last
<1>4. \A i \in View!Ids : shown[i] \in Seq(Nat)
  <2> HIDE DEF shown
  <2>0. <<>> \in Seq(Nat) /\ \A n \in Nat : <<n>> \in Seq(Nat)
    OBVIOUS
  <2> TAKE i \in View!Ids
  <2>1. CASE \E v \in View!Vers : <<i, v>> \in f.rows
    <3>1. PICK v \in View!Vers : <<i, v>> \in f.rows
      BY <2>1
    <3>2. v \in Nat /\ shown[i] = <<v>>
      BY <3>1, <1>1, ChangesAreNat DEF View!Vers
    <3> QED
      BY <3>2
  <2>2. CASE ~\E v \in View!Vers : <<i, v>> \in f.rows
    <3>1. shown[i] = <<>> \/ (shown[i] = <<View!Last(list[i])>> /\ View!Last(list[i]) \in Nat)
      BY <2>2, <1>2, <1>3
    <3> QED
      BY <2>0, <3>1, Zenon
  <2> QED
    BY <2>1, <2>2
<1>5. shown = [i \in View!Ids |-> shown[i]]
  BY DEF View!Merge
<1>6. shown \in [View!Ids -> Seq(Nat)]
  <2> HIDE DEF shown
  <2> QED
    BY <1>4, <1>5
<1> QED
  BY <1>1, <1>2, <1>6 DEF Painted

LEMMA OnlyIs ==
  ASSUME ViewInv, NEW f \in fetches
  PROVE  /\ View!Only(f.rows) \in [View!Ids -> Seq(Nat)]
         /\ Painted(f.rows, View!Only(f.rows))
         /\ \A i \in View!Ids : (~\E v \in View!Vers : <<i, v>> \in f.rows) =>
              View!Only(f.rows)[i] = <<>>
<1> DEFINE shown == View!Only(f.rows)
<1>1. ASSUME NEW i \in View!Ids, NEW v \in View!Vers, <<i, v>> \in f.rows
      PROVE  shown[i] = <<v>>
  BY <1>1, ChosenIs DEF View!Only
<1>2. ASSUME NEW i \in View!Ids, ~\E v \in View!Vers : <<i, v>> \in f.rows
      PROVE  shown[i] = <<>>
  BY <1>2 DEF View!Only
<1>3. \A i \in View!Ids : shown[i] \in Seq(Nat)
  <2> HIDE DEF shown
  <2>0. <<>> \in Seq(Nat)
    OBVIOUS
  <2> TAKE i \in View!Ids
  <2>1. CASE \E v \in View!Vers : <<i, v>> \in f.rows
    <3>1. PICK v \in View!Vers : <<i, v>> \in f.rows
      BY <2>1
    <3>2. v \in Nat /\ shown[i] = <<v>>
      BY <3>1, <1>1, ChangesAreNat DEF View!Vers
    <3> QED
      BY <3>2
  <2>2. CASE ~\E v \in View!Vers : <<i, v>> \in f.rows
    BY <2>0, <2>2, <1>2, Zenon
  <2> QED
    BY <2>1, <2>2
<1>4. shown = [i \in View!Ids |-> shown[i]]
  BY DEF View!Only
<1>5. shown \in [View!Ids -> Seq(Nat)]
  <2> HIDE DEF shown
  <2> QED
    BY <1>3, <1>4
<1> QED
  BY <1>1, <1>2, <1>5 DEF Painted

(* A row of the answer that is painted is of its chat, by a label it has   *)
(* had; so what the answer was to bring is shown.                          *)
LEMMA PaintedIs ==
  ASSUME ViewInv, NEW f \in fetches, f.read, NEW shown, Painted(f.rows, shown)
  PROVE  /\ \A i \in View!Ids, v \in View!Vers : <<i, v>> \in f.rows =>
              /\ i \in DOMAIN dbRows /\ dbRows[i].chat = f.chat
              /\ shown[i] # <<>> /\ View!Last(shown[i]) <= dbRows[i].ver
         /\ \A i \in View!RowsOf(openChat) :
              /\ View!Brings(f, i) => shown[i] # <<>>
              /\ View!Fresh(f, i) => View!Newest(i, shown)
<1>0. ViewTypes
  BY DEF ViewInv
<1>1. \A v : <<v>> # <<>> /\ View!Last(<<v>>) = v
  BY DEF View!Last
<1>2. ASSUME NEW i \in View!Ids, NEW v \in View!Vers, <<i, v>> \in f.rows
      PROVE  /\ i \in DOMAIN dbRows /\ dbRows[i].chat = f.chat
             /\ shown[i] = <<v>> /\ v <= dbRows[i].ver
  BY <1>2 DEF Painted, ViewInv, AnswersInv, AnswerOK
<1>3. ASSUME NEW i \in View!RowsOf(openChat)
      PROVE  /\ View!Brings(f, i) => shown[i] # <<>>
             /\ View!Fresh(f, i) => View!Newest(i, shown)
  <2>1. i \in View!Ids /\ dbRows[i].ver \in View!Vers
    BY <1>0, RowsAre
  <2>2. View!Brings(f, i) => shown[i] # <<>>
    BY <2>1, <1>1, <1>2 DEF View!Brings
  <2>3. View!Fresh(f, i) => shown[i] = <<dbRows[i].ver>>
    BY <2>1, <1>2 DEF View!Fresh
  <2> QED
    BY <2>2, <2>3, <1>1 DEF View!Newest
<1>4. \A i \in View!Ids, v \in View!Vers : <<i, v>> \in f.rows =>
        /\ i \in DOMAIN dbRows /\ dbRows[i].chat = f.chat
        /\ shown[i] # <<>> /\ View!Last(shown[i]) <= dbRows[i].ver
  <2> SUFFICES ASSUME NEW i \in View!Ids, NEW v \in View!Vers, <<i, v>> \in f.rows
               PROVE  /\ i \in DOMAIN dbRows /\ dbRows[i].chat = f.chat
                      /\ shown[i] # <<>> /\ View!Last(shown[i]) <= dbRows[i].ver
    OBVIOUS
  <2>1. /\ i \in DOMAIN dbRows /\ dbRows[i].chat = f.chat
        /\ shown[i] = <<v>> /\ v <= dbRows[i].ver
    BY <1>2
  <2>2. shown[i] # <<>> /\ View!Last(shown[i]) = v
    BY <1>1, <2>1
  <2> QED
    BY <2>1, <2>2
<1> QED
  BY <1>3, <1>4

LEMMA LandKeeps ==
  ASSUME ViewInv, NEW f \in fetches, View!Lands(f)
  PROVE  ViewInv'
<1>0. ViewTypes /\ watermark \in 0..Len(dbRows)
  BY DEF ViewInv, ViewTypes
<1>1. /\ f.read /\ f.kind \in {"hydrate", "poll"} /\ fetches' = fetches \ {f}
      /\ UNCHANGED <<dbRows, edits, news, watermark, openChat, unopened, strayed, pending, tape, stream, source>>
  BY DEF View!Lands, View!serverVars, View!busVars, View!roundVars
<1>2. \A g \in fetches' : g \in View!Fetch /\ AnswerOK(g)
  BY <1>1, FetchesAre
<1>3. (View!Opening \/ unopened => View!Opening' \/ unopened') /\ strayed \subseteq strayed'
  BY <1>1 DEF View!Opening, Astray
<1>4. CASE f.chat = openChat /\ f.rows # {}
  <2> DEFINE shown == View!Merge(f.rows)
  <2>1. list' = shown /\ View!Track(shown, {})
    BY <1>4 DEF View!Lands
  <2>2. /\ shown \in [View!Ids -> Seq(Nat)] /\ Painted(f.rows, shown)
        /\ \A i \in View!Ids : (~\E v \in View!Vers : <<i, v>> \in f.rows) =>
             shown[i] = IF View!Shown(i) THEN <<View!Last(list[i])>> ELSE <<>>
    BY MergeIs
  <2> HIDE DEF shown
  <2>3. /\ \A i \in View!Ids, v \in View!Vers : <<i, v>> \in f.rows =>
             /\ i \in DOMAIN dbRows /\ dbRows[i].chat = f.chat
             /\ shown[i] # <<>> /\ View!Last(shown[i]) <= dbRows[i].ver
        /\ \A i \in View!RowsOf(openChat) :
             /\ View!Brings(f, i) => shown[i] # <<>>
             /\ View!Fresh(f, i) => View!Newest(i, shown)
    BY <1>1, <2>2, PaintedIs
  <2>4. ASSUME NEW i \in View!Ids, shown[i] # <<>>, ~\E v \in View!Vers : <<i, v>> \in f.rows
        PROVE  View!Shown(i) /\ View!Last(shown[i]) = View!Last(list[i])
    <3>1. \A v : View!Last(<<v>>) = v
      BY DEF View!Last
    <3>2. View!Shown(i) /\ shown[i] = <<View!Last(list[i])>>
      BY <2>2, <2>4
    <3> QED
      BY <3>1, <3>2
  <2>5. \A i \in View!Ids : shown[i] # <<>> =>
                       i \in DOMAIN dbRows /\ View!Last(shown[i]) <= dbRows[i].ver
    BY <2>3, <2>4 DEF ViewInv, CopiesInv
  <2>6. ASSUME NEW i \in DOMAIN dbRows, shown[i] # <<>>, dbRows[i].chat # openChat
        PROVE  Astray(i)'
    <3>1. i \in View!Ids
      BY <1>0, RowsAre
    <3>2. ~\E v \in View!Vers : <<i, v>> \in f.rows
      BY <1>4, <2>3, <2>6, <3>1
    <3>3. View!Shown(i)
      BY <2>4, <2>6, <3>1, <3>2
    <3> QED
      BY <3>3, <2>6, <1>3 DEF ViewInv, View!NoStrangers, Astray
  <2>7. \A g \in fetches \ fetches' : g = f
    BY <1>1
  <2> QED
    BY <1>1, <1>2, <2>1, <2>2, <2>3, <2>5, <2>6, <2>7, PaintKeeps DEF TapeRests
<1>5. CASE ~(f.chat = openChat /\ f.rows # {})
  <2>1. UNCHANGED <<list, excused, dull>>
    BY <1>5 DEF View!Lands, View!ghostVars
  <2>2. \A g \in fetches \ fetches', i \in View!RowsOf(openChat) : ~View!Brings(g, i)
    BY <1>1, <1>5 DEF View!Brings
  <2> QED
    BY <1>0, <1>1, <1>2, <1>3, <2>1, <2>2, QuietKeeps DEF TapeRests
<1> QED
  BY <1>4, <1>5

(* The rest of an answer for a whole chat: the round it may end, and the   *)
(* requests left.                                                          *)
LEMMA OpenRest ==
  ASSUME ViewInv, NEW f \in fetches, View!OpenLands(f)
  PROVE  /\ f.read /\ f.kind \in {"open", "gone"}
         /\ UNCHANGED <<dbRows, edits, news, watermark, openChat>>
         /\ TapeRests
         /\ \A g \in fetches \ fetches' : g = f
         /\ \A g \in fetches' : g \in View!Fetch /\ AnswerOK(g)
         /\ \A i \in View!RowsOf(openChat) \cap pending :
              i \in pending' \/ \E g \in fetches' : View!Fresh(g, i)
<1>0. ViewTypes
  BY DEF ViewInv
<1>1. /\ f.read /\ f.kind \in {"open", "gone"}
      /\ UNCHANGED <<dbRows, edits, news, watermark, openChat>>
  BY DEF View!OpenLands, View!serverVars, View!busVars
<1>2. \A g \in fetches \ {f} : g \in View!Fetch /\ AnswerOK(g)
  BY FetchesAre
<1>3. CASE f.kind = "gone"
  <2>1. View!Settle(list', fetches \ {f})
    BY <1>3 DEF View!OpenLands
  <2> DEFINE shown == list'
  <2> HIDE DEF shown
  <2>2. View!Settle(shown, fetches \ {f})
    BY <2>1 DEF shown
  <2>3. /\ tape' = <<>> /\ stream' # "on" /\ fetches \ {f} \subseteq fetches'
        /\ \A g \in fetches' : g \in View!Fetch /\ AnswerOK(g)
        /\ \A i \in View!RowsOf(openChat) \cap pending : \E g \in fetches' : View!Fresh(g, i)
    BY <1>0, <1>2, <2>2, SettleIs
  <2> QED
    BY <1>1, <2>3 DEF TapeRests
<1>4. CASE f.kind = "open"
  <2>1. fetches' = fetches \ {f} /\ UNCHANGED <<pending, tape, stream, source>>
    BY <1>4 DEF View!OpenLands
  <2> QED
    BY <1>1, <1>2, <2>1 DEF TapeRests
<1> QED
  BY <1>1, <1>3, <1>4

LEMMA OpenKeeps ==
  ASSUME ViewInv, NEW f \in fetches, View!OpenLands(f)
  PROVE  ViewInv'
<1>0. ViewTypes /\ watermark \in 0..Len(dbRows)
  BY DEF ViewInv, ViewTypes
<1>1. /\ f.read /\ f.kind \in {"open", "gone"}
      /\ UNCHANGED <<dbRows, edits, news, watermark, openChat>>
      /\ TapeRests
      /\ \A g \in fetches \ fetches' : g = f
      /\ \A g \in fetches' : g \in View!Fetch /\ AnswerOK(g)
      /\ \A i \in View!RowsOf(openChat) \cap pending :
           i \in pending' \/ \E g \in fetches' : View!Fresh(g, i)
  BY OpenRest
<1>2. CASE f.chat = openChat
  <2> DEFINE shown == View!Only(f.rows)
  <2>1. list' = shown /\ View!Track(shown, {})
    BY <1>2 DEF View!OpenLands
  <2>2. /\ shown \in [View!Ids -> Seq(Nat)] /\ Painted(f.rows, shown)
        /\ \A i \in View!Ids : (~\E v \in View!Vers : <<i, v>> \in f.rows) => shown[i] = <<>>
    BY OnlyIs
  <2> HIDE DEF shown
  <2>3. /\ \A i \in View!Ids, v \in View!Vers : <<i, v>> \in f.rows =>
             /\ i \in DOMAIN dbRows /\ dbRows[i].chat = f.chat
             /\ shown[i] # <<>> /\ View!Last(shown[i]) <= dbRows[i].ver
        /\ \A i \in View!RowsOf(openChat) :
             /\ View!Brings(f, i) => shown[i] # <<>>
             /\ View!Fresh(f, i) => View!Newest(i, shown)
    BY <1>1, <2>2, PaintedIs
  <2>4. \A i \in View!Ids : shown[i] # <<>> =>
             /\ i \in DOMAIN dbRows /\ View!Last(shown[i]) <= dbRows[i].ver
             /\ dbRows[i].chat = f.chat
    BY <2>2, <2>3
  <2>5. \A i \in DOMAIN dbRows :
          shown[i] # <<>> /\ dbRows[i].chat # openChat => Astray(i)'
    BY <1>0, <1>2, <2>4, RowsAre
  <2> QED
    BY <1>1, <2>1, <2>2, <2>3, <2>4, <2>5, PaintKeeps DEF TapeRests
<1>3. CASE f.chat # openChat
  <2>1. UNCHANGED <<list, excused, dull, unopened, strayed>>
    BY <1>3 DEF View!OpenLands, View!ghostVars
  <2>2. \A g \in fetches \ fetches', i \in View!RowsOf(openChat) : ~View!Brings(g, i)
    BY <1>1, <1>3 DEF View!Brings
  <2>3. (View!Opening \/ unopened => View!Opening' \/ unopened') /\ strayed \subseteq strayed'
    BY <1>1, <1>3, <2>1 DEF View!Opening
  <2> QED
    BY <1>0, <1>1, <2>1, <2>2, <2>3, QuietKeeps DEF TapeRests
<1> QED
  BY <1>2, <1>3

(* A fetch that fails is excused for all that it was to bring, unless it   *)
(* was of another chat or the poll.                                        *)
LEMMA FailKeeps ==
  ASSUME ViewInv, NEW f \in fetches, View!Fails(f)
  PROVE  ViewInv'
<1>0. ViewTypes /\ watermark \in 0..Len(dbRows)
  BY DEF ViewInv, ViewTypes
<1>1. /\ UNCHANGED <<dbRows, edits, news, watermark, openChat, list, strayed>>
      /\ unopened' = (unopened \/ (f.kind = "open" /\ f.chat = openChat))
  BY DEF View!Fails, View!serverVars, View!busVars
<1>2. /\ TapeRests
      /\ fetches \ {f} \subseteq fetches'
      /\ \A g \in fetches' : g \in View!Fetch /\ AnswerOK(g)
      /\ \A i \in View!RowsOf(openChat) \cap pending :
           i \in pending' \/ \E g \in fetches' : View!Fresh(g, i)
  <2>1. \A g \in fetches \ {f} : g \in View!Fetch /\ AnswerOK(g)
    BY FetchesAre
  <2>2. CASE f.kind = "gone"
    <3>1. View!Settle(list, fetches \ {f})
      BY <2>2 DEF View!Fails
    <3> QED
      BY <1>0, <2>1, <3>1, SettleIs DEF TapeRests
  <2>3. CASE f.kind # "gone"
    <3>1. fetches' = fetches \ {f} /\ UNCHANGED <<pending, tape, stream, source>>
      BY <2>3 DEF View!Fails, View!roundVars
    <3> QED
      BY <2>1, <3>1 DEF TapeRests
  <2> QED
    BY <2>2, <2>3
<1>3. (View!Opening \/ unopened => View!Opening' \/ unopened') /\ strayed \subseteq strayed'
  BY <1>1, <1>2 DEF View!Opening
<1>4. CASE f.kind = "poll" \/ f.chat # openChat
  <2>1. UNCHANGED <<excused, dull>>
    BY <1>4 DEF View!Fails, View!ghostVars
  <2>2. \A g \in fetches \ fetches', i \in View!RowsOf(openChat) : ~View!Brings(g, i)
    BY <1>2, <1>4 DEF View!Brings
  <2> QED
    BY <1>0, <1>1, <1>2, <1>3, <2>1, <2>2, QuietKeeps DEF TapeRests
<1>5. CASE ~(f.kind = "poll" \/ f.chat # openChat)
  <2> DEFINE lost == {i \in View!RowsOf(openChat) : i > f.after}
  <2>1. View!Track(list, lost)
    BY <1>5 DEF View!Fails
  <2>2. \A g \in fetches \ fetches', i \in View!RowsOf(openChat) :
          (View!Brings(g, i) => i \in lost) /\ (View!Fresh(g, i) => i \in lost)
    BY <1>2 DEF View!Brings, View!Fresh
  <2> HIDE DEF lost
  <2>3. \A i \in DOMAIN dbRows :
          list[i] # <<>> /\ dbRows[i].chat # openChat => Astray(i)'
    BY <1>3 DEF ViewInv, View!NoStrangers, View!Shown, Astray
  <2>4. /\ list \in [View!Ids -> Seq(Nat)]
        /\ \A i \in View!Ids : list[i] # <<>> =>
             i \in DOMAIN dbRows /\ View!Last(list[i]) <= dbRows[i].ver
    BY <1>1, ListStands
  <2> QED
    BY <1>1, <1>2, <2>1, <2>2, <2>3, <2>4, PaintKeeps DEF TapeRests
<1> QED
  BY <1>4, <1>5

-----------------------------------------------------------------------------
(* The tab's own round.                                                    *)

(* The row of an event is painted beside the copies there may be.          *)
LEMMA AppendPaints ==
  ASSUME ViewInv, tape # <<>>, NEW shown,
         \/ shown = [list EXCEPT ![Head(tape)] = Append(@, 0)]
         \/ shown = list
  PROVE  /\ shown \in [View!Ids -> Seq(Nat)]
         /\ \A i \in View!Ids : shown[i] # <<>> =>
              i \in DOMAIN dbRows /\ View!Last(shown[i]) <= dbRows[i].ver
         /\ \A i \in View!Ids : shown[i] # <<>> => View!Shown(i) \/ (i = Head(tape) /\ shown # list)
         /\ Head(tape) \in View!RowsOf(source)
<1>0. ViewTypes
  BY DEF ViewInv
<1>1. /\ list \in [View!Ids -> Seq(Nat)]
      /\ \A i \in View!Ids : View!Shown(i) =>
           i \in DOMAIN dbRows /\ View!Last(list[i]) <= dbRows[i].ver
  BY DEF ViewInv, ViewTypes, CopiesInv
<1>4. Head(tape) \in View!RowsOf(source)
  BY DEF ViewInv, TapeInv
<1>2. CASE shown = list
  BY <1>1, <1>2, <1>4 DEF View!Shown
<1>3. CASE shown = [list EXCEPT ![Head(tape)] = Append(@, 0)]
  <2> DEFINE h == Head(tape)
             s == list[h]
  <2>1. h \in View!RowsOf(source) /\ h \in DOMAIN dbRows /\ h \in View!Ids /\ dbRows[h].ver \in Nat
    BY <1>0, <1>4, RowsAre, ChangesAreNat DEF View!Vers
  <2>8. Append(s, 0) # s
    <3>1. s \in Seq(Nat)
      BY <1>1, <2>1
    <3> HIDE DEF s
    <3>2. Len(Append(s, 0)) = Len(s) + 1 /\ Len(s) \in Nat
      BY <3>1
    <3> QED
      BY <3>2
  <2>2. s \in Seq(Nat)
    BY <1>1, <2>1
  <2>3. Append(s, 0) \in Seq(Nat) /\ View!Last(Append(s, 0)) = 0
    <3> HIDE DEF s
    <3> QED
      BY <2>2 DEF View!Last
  <2>4. \A i \in View!Ids : shown[i] = IF i = h THEN Append(s, 0) ELSE list[i]
    BY <1>1, <1>3
  <2>5. shown \in [View!Ids -> Seq(Nat)]
    BY <1>1, <1>3, <2>1, <2>3
  <2>9. shown # list /\ Head(tape) = h
    BY <2>1, <2>4, <2>8
  <2> HIDE DEF h, s
  <2>6. \A i \in View!Ids \ {h} : shown[i] # <<>> => View!Shown(i) /\ shown[i] = list[i]
    BY <2>4 DEF View!Shown
  <2>7. View!Last(shown[h]) = 0 /\ 0 <= dbRows[h].ver
    BY <2>1, <2>3, <2>4
  <2> QED
    BY <1>1, <1>4, <2>1, <2>5, <2>6, <2>7, <2>9
<1> QED
  BY <1>2, <1>3

LEMMA EventKeeps ==
  ASSUME ViewInv, View!UserSaved \/ View!SpeakerEnd
  PROVE  ViewInv'
<1>0. ViewTypes
  BY DEF ViewInv
<1>1. /\ UNCHANGED <<dbRows, edits, news, watermark, openChat, unopened, pending, fetches,
                    stream, source>>
      /\ tape # <<>> /\ tape' = <<>> /\ View!Track(list', {})
      /\ View!Paint(Head(tape)) \/ UNCHANGED <<list, strayed>>
  BY DEF View!UserSaved, View!SpeakerEnd, View!serverVars, View!busVars
<1> DEFINE shown == list'
           h == Head(tape)
<1>2. View!Track(shown, {}) /\ shown = list'
  BY <1>1
<1>3. /\ \/ shown = [list EXCEPT ![Head(tape)] = Append(@, 0)]
         \/ shown = list
      /\ strayed \subseteq strayed'
      /\ shown # list /\ source # openChat => h \in strayed'
  BY <1>1 DEF View!Paint
<1> HIDE DEF shown
<1>4. /\ shown \in [View!Ids -> Seq(Nat)]
      /\ \A i \in View!Ids : shown[i] # <<>> =>
           i \in DOMAIN dbRows /\ View!Last(shown[i]) <= dbRows[i].ver
      /\ \A i \in View!Ids : shown[i] # <<>> => View!Shown(i) \/ (i = h /\ shown # list)
      /\ h \in View!RowsOf(source)
  BY <1>1, <1>3, AppendPaints
<1> HIDE DEF h
<1>5. ASSUME NEW i \in DOMAIN dbRows, shown[i] # <<>>, dbRows[i].chat # openChat
      PROVE  Astray(i)'
  <2>1. View!Shown(i) \/ (i = h /\ shown # list)
    BY <1>0, <1>4, <1>5, RowsAre
  <2>2. CASE View!Shown(i)
    <3>1. Astray(i)
      BY <2>2, <1>5 DEF ViewInv, View!NoStrangers, Astray
    <3> QED
      BY <3>1, <1>1, <1>3 DEF View!Opening, Astray
  <2>3. CASE i = h /\ shown # list
    <3>1. source # openChat
      BY <2>3, <1>4, <1>5 DEF View!RowsOf
    <3> QED
      BY <3>1, <2>3, <1>3 DEF Astray
  <2> QED
    BY <2>1, <2>2, <2>3
<1>6. \A f \in fetches' : f \in View!Fetch /\ AnswerOK(f)
  BY <1>1, FetchesAre
<1>7. /\ \A i \in View!RowsOf(openChat) \cap pending : i \in pending'
      /\ fetches \ fetches' = {} /\ TapeRests
  BY <1>1 DEF TapeRests
<1> QED
  BY <1>1, <1>2, <1>4, <1>5, <1>6, <1>7, PaintKeeps DEF TapeRests

LEMMA RoundKeeps ==
  ASSUME ViewInv, View!Round
  PROVE  ViewInv'
<1>0. ViewTypes /\ watermark \in 0..Len(dbRows)
  BY DEF ViewInv, ViewTypes
<1>1. CASE View!UserSaved \/ View!SpeakerEnd
  BY <1>1, EventKeeps
<1>2. CASE View!ReplySaved
  <2>1. /\ Len(dbRows) + edits < MaxChanges
        /\ dbRows' = Append(dbRows, [chat |-> source, ver |-> 0])
        /\ tape' = <<Len(dbRows) + 1>> /\ stream = "on" /\ UNCHANGED <<stream, source>>
        /\ UNCHANGED <<edits, View!busVars, View!viewVars, pending, fetches, View!ghostVars>>
    BY <1>2 DEF View!ReplySaved
  <2>2. source \in Chats
    BY <2>1 DEF ViewInv, TapeInv
  <2> QED
    BY <2>1, <2>2, SaveKeeps
<1>3. CASE View!SpeakerStart
  <2>1. UNCHANGED <<dbRows, edits, openChat, list, unopened, strayed, watermark, news, pending,
                    fetches, tape, stream, source, excused, dull>>
    BY <1>3 DEF View!SpeakerStart, View!serverVars, View!busVars,
       View!viewVars, View!ghostVars
  <2>2. View!Opening => View!Opening'
    BY <2>1 DEF View!Opening
  <2> QED
    BY <1>0, <2>1, <2>2, FetchesAre, QuietKeeps DEF TapeRests
<1>4. CASE View!RoundEnds \/ View!CutWakes
  <2>1. /\ View!Settle(list, fetches)
        /\ UNCHANGED <<dbRows, edits, openChat, list, unopened, strayed, watermark, news,
                       excused, dull>>
    BY <1>4 DEF View!RoundEnds, View!CutWakes, View!serverVars, View!busVars,
       View!viewVars, View!ghostVars
  <2>2. /\ tape' = <<>> /\ stream' # "on" /\ fetches \subseteq fetches'
        /\ \A f \in fetches' : f \in View!Fetch /\ AnswerOK(f)
        /\ \A i \in View!RowsOf(openChat) \cap pending : \E f \in fetches' : View!Fresh(f, i)
    BY <1>0, <2>1, FetchesAre, SettleIs
  <2>3. View!Opening => View!Opening'
    BY <2>1, <2>2 DEF View!Opening
  <2> QED
    BY <1>0, <2>1, <2>2, <2>3, QuietKeeps DEF TapeRests
<1>5. CASE View!RoundGone
  <2>1. /\ fetches' = fetches \cup {View!Ask("gone", openChat, 0)}
        /\ tape' = <<>> /\ stream' # "on"
        /\ UNCHANGED <<dbRows, edits, openChat, list, unopened, strayed, watermark, news, pending,
                       excused, dull>>
    BY <1>5 DEF View!RoundGone, View!serverVars, View!busVars, View!viewVars,
       View!ghostVars
  <2>2. "gone" \in View!Kinds /\ openChat \in Chats /\ 0 \in View!Vers
    BY <1>0, ChangesAreNat DEF View!Kinds, View!Vers, ViewTypes
  <2>3. /\ View!Ask("gone", openChat, 0) \in View!Fetch /\ AnswerOK(View!Ask("gone", openChat, 0))
    BY <2>2, AskIs
  <2>4. \A f \in fetches' : f \in View!Fetch /\ AnswerOK(f)
    BY <2>1, <2>3, FetchesAre
  <2>5. View!Opening => View!Opening'
    BY <2>1 DEF View!Opening
  <2> QED
    BY <1>0, <2>1, <2>4, <2>5, QuietKeeps DEF TapeRests
<1> QED
  BY <1>1, <1>2, <1>3, <1>4, <1>5 DEF View!Round

-----------------------------------------------------------------------------
(* The person.                                                             *)

(* Another chat is opened: its fetch, to be made, brings every row of it.  *)
LEMMA SelectKeeps ==
  ASSUME ViewInv, NEW c \in Chats, View!SelectChat(c)
  PROVE  ViewInv'
<1>0. ViewTypes
  BY DEF ViewInv
<1> DEFINE f == View!Ask("open", c, 0)
<1>1. /\ openChat' = c /\ fetches' = fetches \cup {f} /\ unopened' = FALSE
      /\ \/ tape' = <<>> /\ stream' # "on"
         \/ stream # "on" /\ UNCHANGED <<tape, stream, source>>
      /\ UNCHANGED <<dbRows, edits, watermark, list>>
  BY DEF View!SelectChat, View!serverVars, View!busVars, View!roundVars
<1>2. "open" \in View!Kinds /\ 0 \in View!Vers /\ c \in Chats
  BY ChangesAreNat DEF View!Kinds, View!Vers
<1>3. f \in View!Fetch /\ AnswerOK(f)
  BY <1>2, AskIs
<1>4. f.kind = "open" /\ f.chat = c /\ f.after = 0 /\ ~f.read
  BY DEF View!Ask
<1> HIDE DEF f
<1>5. \A i \in View!RowsOf(openChat)' : View!Fresh(f, i)' /\ View!Brings(f, i)'
  <2>1. \A i \in View!RowsOf(openChat)' : i > 0 /\ dbRows'[i].chat = openChat'
    BY <1>0, <1>1, RowsAre DEF View!RowsOf
  <2> QED
    BY <1>1, <1>4, <2>1 DEF View!Fresh, View!Brings
<1>6. f \in fetches'
  BY <1>1
<1>a. ViewTypes'
  BY <1>0, <1>1, <1>3 DEF ViewTypes
<1>b. CopiesInv'
  BY <1>1 DEF ViewInv, CopiesInv, View!Shown
<1>c. AnswersInv'
  BY <1>1, <1>3, FetchesAre DEF AnswersInv, AnswerOK
<1>d. TapeInv'
  BY <1>1 DEF ViewInv, TapeInv
<1>e. View!NothingMissed' /\ KnownInv'
  BY <1>5, <1>6 DEF View!NothingMissed, KnownInv, Known
<1>f. View!Opening'
  BY <1>1, <1>4 DEF View!Opening
<1> QED
  BY <1>a, <1>b, <1>c, <1>d, <1>e, <1>f DEF ViewInv, View!NoStrangers, Astray

LEMMA PersonKeeps ==
  ASSUME ViewInv, TrailInv, View!Person
  PROVE  ViewInv'
<1>0. ViewTypes
  BY DEF ViewInv
<1>1. ASSUME NEW c \in Chats, View!Posts(c)
      PROVE  ViewInv'
  <2>1. /\ Len(dbRows) + edits < MaxChanges
        /\ dbRows' = Append(dbRows, [chat |-> c, ver |-> 0])
        /\ tape' = <<Len(dbRows) + 1>> /\ stream' = "on" /\ source' = c
        /\ UNCHANGED <<edits, View!busVars, View!viewVars, pending, fetches,
                       View!ghostVars>>
    BY <1>1 DEF View!Posts
  <2> QED
    BY <2>1, SaveKeeps
<1>4. CASE View!Send
  BY <1>0, <1>1, <1>4 DEF View!Send, ViewTypes
<1>2. ASSUME NEW c \in Chats, View!SelectChat(c)
      PROVE  ViewInv'
  BY <1>2, SelectKeeps
<1>5. CASE View!SendLater
  <2>1. PICK c \in View!Range(trail) \ {openChat} : View!Posts(c)
    BY <1>5 DEF View!SendLater
  <2>2. c \in Chats
    BY <2>1 DEF TrailInv, View!Range
  <2> QED
    BY <1>1, <2>1, <2>2
<1>3. ASSUME NEW i \in DOMAIN dbRows, View!Reassign(i)
      PROVE  ViewInv'
  <2> DEFINE f == View!Ask("hydrate", openChat, i - 1)
  <2>1. /\ View!Label(i) /\ fetches' = fetches \cup {f}
        /\ UNCHANGED <<watermark, View!viewVars, pending, tape, stream, source, excused>>
    BY <1>3 DEF View!Reassign, View!roundVars
  <2>2. "hydrate" \in View!Kinds /\ openChat \in Chats /\ i - 1 \in View!Vers
    <3>1. i \in View!Ids
      BY <1>0, RowsAre
    <3> QED
      BY <1>0, <3>1, ChangesAreNat DEF View!Kinds, View!Vers, View!Ids,
         ViewTypes
  <2>3. f \in View!Fetch /\ AnswerOK(f)
    BY <2>2, AskIs
  <2> HIDE DEF f
  <2>4. {f} \in SUBSET View!Fetch /\ \A g \in {f} : AnswerOK(g)
    BY <2>3
  <2> QED
    BY <2>1, <2>4, LabelKeeps
<1> QED
  BY <1>1, <1>2, <1>3, <1>4, <1>5 DEF View!Person

LEMMA ServerKeeps ==
  ASSUME ViewInv, View!Server
  PROVE  ViewInv'
<1>1. ASSUME NEW c \in Chats, View!RowInserted(c)
      PROVE  ViewInv'
  <2>1. /\ Len(dbRows) + edits < MaxChanges
        /\ dbRows' = Append(dbRows, [chat |-> c, ver |-> 0])
        /\ UNCHANGED <<edits, View!busVars, View!viewVars, pending, fetches,
                       View!ghostVars, tape, stream, source>>
    BY <1>1 DEF View!RowInserted, View!roundVars
  <2> QED
    BY <2>1, SaveKeeps
<1>2. ASSUME NEW i \in DOMAIN dbRows, View!Labelled(i)
      PROVE  ViewInv'
  <2>1. /\ View!Label(i) /\ fetches' = fetches \cup {}
        /\ UNCHANGED <<watermark, View!viewVars, pending, tape, stream, source, excused>>
    BY <1>2 DEF View!Labelled, View!roundVars
  <2>2. {} \in SUBSET View!Fetch /\ \A g \in {} : AnswerOK(g)
    OBVIOUS
  <2> QED
    BY <2>1, <2>2, LabelKeeps
<1>3. ASSUME NEW f \in fetches, View!Read(f)
      PROVE  ViewInv'
  BY <1>3, ReadKeeps
<1> QED
  BY <1>1, <1>2, <1>3 DEF View!Server

LEMMA ViewInit == View!Init => ViewInv /\ TrailInv
<1> SUFFICES ASSUME View!Init
             PROVE  ViewInv /\ TrailInv
  OBVIOUS
<1>1. /\ dbRows = <<>> /\ edits = 0 /\ watermark = 0 /\ openChat \in Chats
      /\ list = [i \in View!Ids |-> <<>>] /\ fetches = {} /\ tape = <<>>
      /\ stream = "off" /\ trail = <<>>
  BY DEF View!Init
<1>2. ViewTypes
  <2>1. <<>> \in Seq(View!Row) /\ <<>> \in Seq(Nat) /\ Len(<<>>) = 0 /\ DOMAIN <<>> = {}
    OBVIOUS
  <2> QED
    BY <1>1, <2>1, ChangesAreNat DEF ViewTypes
<1>3. \A i \in View!Ids : ~View!Shown(i)
  BY <1>1 DEF View!Shown
<1>4. DOMAIN dbRows = {}
  BY <1>1
<1>5. \A i \in View!RowsOf(openChat) : FALSE
  BY <1>4 DEF View!RowsOf
<1>6. TrailInv
  BY <1>1 DEF TrailInv
<1> QED
  BY <1>1, <1>2, <1>3, <1>4, <1>5, <1>6 DEF ViewInv, CopiesInv, AnswersInv,
     TapeInv, View!NothingMissed, KnownInv, View!NoStrangers

(* The steps of the other half change nothing of this one.                 *)
LEMMA ViewRests ==
  ASSUME ViewInv, UNCHANGED viewState
  PROVE  ViewInv'
<1>1. UNCHANGED <<dbRows, news, openChat, list, watermark, pending, fetches,
                  stream, tape, source, edits, excused, dull, unopened, strayed>>
  BY DEF viewState
<1>2. View!RowsOf(openChat)' = View!RowsOf(openChat)
  BY <1>1 DEF View!RowsOf
<1>3. \A i : \A f : /\ View!Brings(f, i)' <=> View!Brings(f, i)
                    /\ View!Fresh(f, i)' <=> View!Fresh(f, i)
  BY <1>1 DEF View!Brings, View!Fresh
<1>4. \A i : (Missed(i)' <=> Missed(i)) /\ (Known(i)' <=> Known(i))
  BY <1>1, <1>3 DEF Missed, Known, View!Shown, View!Newest
<1>5. ViewTypes' /\ CopiesInv' /\ AnswersInv' /\ TapeInv'
  <2>1. View!RowsOf(source)' = View!RowsOf(source)
    BY <1>1 DEF View!RowsOf
  <2> QED
    BY <1>1, <2>1 DEF ViewInv, ViewTypes, CopiesInv, AnswersInv, AnswerOK,
       TapeInv, View!Shown
<1>6. View!NothingMissed' /\ KnownInv'
  BY <1>2, <1>4 DEF ViewInv, View!NothingMissed, KnownInv, Missed
<1>7. View!NoStrangers'
  BY <1>1 DEF ViewInv, View!NoStrangers, View!Opening, View!Shown, Astray
<1> QED
  BY <1>5, <1>6, <1>7 DEF ViewInv

(* Only the opening of a chat makes another one the last.                  *)
LEMMA TrailStep == TrailInv /\ [MCNext]_<<half, vars, viewState>> => TrailInv'
<1> SUFFICES ASSUME TrailInv, [MCNext]_<<half, vars, viewState>>
             PROVE  TrailInv'
  OBVIOUS
<1>1. CASE UNCHANGED <<trail, openChat>>
  BY <1>1 DEF TrailInv
<1>2. ASSUME NEW c \in Chats, View!SelectChat(c)
      PROVE  TrailInv'
  BY <1>2 DEF TrailInv, View!SelectChat
<1>3. CASE View!Server
  BY <1>3, <1>1 DEF View!Server, View!RowInserted, View!Labelled, View!Read,
     View!viewVars
<1>4. CASE View!Bus
  BY <1>4, <1>1 DEF View!Bus, View!NewMessage, View!MessageUpdate,
     View!ConnectionBreaks, View!Reconnect, View!Poll, View!viewVars
<1>5. CASE View!Answers
  BY <1>5, <1>1 DEF View!Answers, View!Lands, View!OpenLands, View!Fails
<1>6. CASE View!Round
  BY <1>6, <1>1 DEF View!Round, View!UserSaved, View!SpeakerStart,
     View!ReplySaved, View!SpeakerEnd, View!RoundEnds, View!RoundGone,
     View!CutWakes, View!viewVars
<1>7. CASE View!Person
  BY <1>7, <1>1, <1>2 DEF View!Person, View!Send, View!SendLater, View!Posts,
     View!Reassign, View!viewVars
<1>8. CASE UNCHANGED viewState
  BY <1>8, <1>1 DEF viewState
<1> QED
  BY <1>3, <1>4, <1>5, <1>6, <1>7, <1>8 DEF MCNext, View!Next

LEMMA ViewStep ==
  ViewInv /\ TrailInv /\ [MCNext]_<<half, vars, viewState>> => ViewInv'
<1> SUFFICES ASSUME ViewInv, TrailInv, [MCNext]_<<half, vars, viewState>>
             PROVE  ViewInv'
  OBVIOUS
<1>1. CASE View!Next
  <2>1. CASE View!Server
    BY <2>1, ServerKeeps
  <2>2. CASE View!Bus
    BY <2>2, BusKeeps
  <2>3. CASE View!Answers
    BY <2>3, LandKeeps, OpenKeeps, FailKeeps DEF View!Answers
  <2>4. CASE View!Round
    BY <2>4, RoundKeeps
  <2>5. CASE View!Person
    BY <2>5, PersonKeeps
  <2> QED
    BY <1>1, <2>1, <2>2, <2>3, <2>4, <2>5 DEF View!Next
<1>2. CASE UNCHANGED viewState
  BY <1>2, ViewRests
<1> QED
  BY <1>1, <1>2 DEF MCNext

(* In every reachable state of a tab, what the view holds and awaits       *)
(* accounts for every row and label of the open chat.                      *)
THEOREM ViewInvariance == MCSpec => []ViewInv
<1>1. MCInit => ViewInv /\ TrailInv
  BY ViewInit DEF MCInit
<1> QED
  BY <1>1, ViewStep, TrailStep, PTL DEF MCSpec

(* A row of the open chat that the watermark has passed shows, or a fetch  *)
(* that will bring it is under way, however late and in whatever order the *)
(* answers come: only a fetch that failed, or an answer older than what it *)
(* replaces, loses one (useEventStream.js).                                *)
THEOREM NothingEverMissed == MCSpec => []NothingMissed
BY ViewInvariance, PTL DEF ViewInv, NothingMissed

(* Rows of another chat show only until the open chat's answer comes, or   *)
(* when it failed (selectChat of App.jsx), or because a stream that was    *)
(* posted to another chat painted them (useRoundStream.js).                *)
THEOREM NoStrangersStay == MCSpec => []NoStrangers
BY ViewInvariance, PTL DEF ViewInv, NoStrangers

(* A label that shows is the newest, or the tab will learn of the newer    *)
(* one, but for the named losses.                                          *)
THEOREM LabelsAlwaysFresh == MCSpec => []LabelsFresh
<1>1. ViewInv => View!LabelsFresh
  <2> SUFFICES ASSUME ViewInv, NEW i \in View!RowsOf(openChat), View!Shown(i)
               PROVE  \/ View!Newest(i, list)
                      \/ i \in news \/ i \in pending
                      \/ i > watermark
                      \/ \E f \in fetches : View!Fresh(f, i)
                      \/ i \in dull
    BY DEF View!LabelsFresh
  <2>1. ViewTypes
    BY DEF ViewInv
  <2>2. Known(i)
    BY DEF ViewInv, KnownInv
  <2>3. dbRows[i].ver = 0 => View!Newest(i, list)
    <3>1. i \in View!Ids /\ i \in DOMAIN dbRows
      BY <2>1, RowsAre
    <3>2. View!Last(list[i]) <= dbRows[i].ver
      BY <3>1 DEF ViewInv, CopiesInv
    <3>3. list[i] \in Seq(Nat) /\ list[i] # <<>>
      BY <2>1, <3>1 DEF ViewTypes, View!Shown
    <3>4. View!Last(list[i]) \in Nat
      BY <3>3 DEF View!Last
    <3> QED
      BY <3>2, <3>3, <3>4 DEF View!Newest
  <2> QED
    BY <2>2, <2>3 DEF Known
<1>2. ViewInv => LabelsFresh
  BY <1>1 DEF LabelsFresh
<1> QED
  BY <1>2, ViewInvariance, PTL
=============================================================================
