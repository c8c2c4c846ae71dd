------------------------------ MODULE ChatTurn ------------------------------
(***************************************************************************)
(* What the rounds of a chat promise its clients: the chat is held by one  *)
(* party at a time.  A send holds it from before its turn is saved until   *)
(* its own round holds it; nothing else gets in between, so a turn that is *)
(* refused was never saved and a turn that was saved is answered next.     *)
(***************************************************************************)
CONSTANTS Sends, Starters

VARIABLES
  holder,  \* who holds the chat
  saved,   \* the turns in the chat
  began    \* the rounds that have begun

vars == <<holder, saved, began>>

Nobody     == [by |-> "nobody"]
Claim(s)   == [by |-> "send", send |-> s]
Round(q)   == [by |-> "round", round |-> q]

Holders == {Nobody} \cup {Claim(s) : s \in Sends} \cup {Round(q) : q \in Starters}

Init ==
  /\ holder = Nobody
  /\ saved = {}
  /\ began = {}

Reserve(s) ==
  /\ holder = Nobody
  /\ s \notin saved
  /\ holder' = Claim(s)
  /\ UNCHANGED <<saved, began>>

SaveTurn(s) ==
  /\ holder = Claim(s)
  /\ saved' = saved \cup {s}
  /\ UNCHANGED <<holder, began>>

\* A turn that could not be saved gives the chat back.
GiveUp(s) ==
  /\ holder = Claim(s)
  /\ s \notin saved
  /\ holder' = Nobody
  /\ UNCHANGED <<saved, began>>

Answer(s) ==
  /\ holder = Claim(s)
  /\ s \in saved
  /\ s \notin began
  /\ holder' = Round(s)
  /\ began' = began \cup {s}
  /\ UNCHANGED saved

\* A round nobody's turn asked for.
BeginAlone(q) ==
  /\ holder = Nobody
  /\ q \notin began
  /\ holder' = Round(q)
  /\ began' = began \cup {q}
  /\ UNCHANGED saved

Finish(q) ==
  /\ holder = Round(q)
  /\ holder' = Nobody
  /\ UNCHANGED <<saved, began>>

Next ==
  \/ \E s \in Sends : Reserve(s) \/ SaveTurn(s) \/ GiveUp(s) \/ Answer(s)
  \/ \E q \in Starters \ Sends : BeginAlone(q)
  \/ \E q \in Starters : Finish(q)

Spec == Init /\ [][Next]_vars
=============================================================================
