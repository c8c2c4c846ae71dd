-------------------------- MODULE GuestJobsProofs --------------------------
(***************************************************************************)
(* Theorems about GuestJobs: one guest at a time, hand-backs that are      *)
(* bounded and only ever of saved replies, no summons dropped in silence,  *)
(* and ChatTurn kept by every hand-back.                                   *)
(***************************************************************************)
EXTENDS GuestJobs, TLAPS

(* The inductive invariant.  A queued summons excludes a running job, so   *)
(* the launch of one never meets another; a round that holds the chat has  *)
(* begun and has launched nothing under its name yet; and a hand-back      *)
(* leaves its job in "relayed" for good, which is what makes it begin      *)
(* once.                                                                   *)

SummonsInv == pending # None => ~AnyRunning

RoundInv ==
  \A r \in Rounds :
    /\ holder = Chat!Round(r) => r \in began /\ job[r] = "none"
    /\ job[r] # "none" => r \in began \cup Inner
    /\ r \in narrate => r[2] = 0
    /\ job[r] = "waiting" => r \in narrate
    /\ job[r] = "waiting" /\ ~Gone => r \in reply /\ row[r] = "completed"

RelayInv ==
  \A j \in Rounds : j[2] < MaxRelays /\ Relay(j) \in began =>
    /\ job[j] = "relayed"
    /\ ~Gone => j \in reply /\ row[j] = "completed"

IInv == TypeOK /\ OneGuest /\ SummonsInv /\ RoundInv /\ RelayInv /\ RelaysBounded

-----------------------------------------------------------------------------

(* How rounds are named.                                                   *)
LEMMA Names ==
  /\ Plain \subseteq Rounds /\ Alone \subseteq Rounds /\ Inner \subseteq Rounds
  /\ Plain \cap Alone = {} /\ Plain \cap Inner = {} /\ Alone \cap Inner = {}
  /\ \A r \in Rounds : r[2] \in 0..MaxRelays
  /\ \A r \in Plain \cup Alone \cup Inner : r[2] = 0
  /\ \A j \in Rounds : j[2] < MaxRelays =>
       Relay(j) \in Rounds /\ Relay(j)[2] = j[2] + 1
  /\ \A i, j \in Rounds : Relay(i) = Relay(j) => i = j
  /\ None \notin Rounds
<1>1. /\ Plain \subseteq Rounds /\ Alone \subseteq Rounds /\ Inner \subseteq Rounds
      /\ \A r \in Rounds : r[2] \in 0..MaxRelays
      /\ \A r \in Plain \cup Alone \cup Inner : r[2] = 0
      /\ None \notin Rounds
  BY GuestAssumption DEF Plain, Alone, Inner, Rounds
<1>2. Plain \cap Alone = {} /\ Plain \cap Inner = {} /\ Alone \cap Inner = {}
  BY GuestAssumption DEF Plain, Alone, Inner
<1>3. \A j \in Rounds : j[2] < MaxRelays => Relay(j) \in Rounds /\ Relay(j)[2] = j[2] + 1
  BY GuestAssumption DEF Rounds, Relay
<1>4. \A i, j \in Rounds : Relay(i) = Relay(j) => i = j
  BY GuestAssumption DEF Rounds, Relay
<1> QED
  BY <1>1, <1>2, <1>3, <1>4

(* Who holds the chat is one of three, and says which.                     *)
LEMMA Parties ==
  /\ Chat!Nobody \in Chat!Holders
  /\ \A s \in Plain : Chat!Claim(s) \in Chat!Holders /\ Chat!Claim(s) # Chat!Nobody
  /\ \A r \in Rounds : Chat!Round(r) \in Chat!Holders /\ Chat!Round(r) # Chat!Nobody
  /\ \A s \in Plain, r \in Rounds : Chat!Claim(s) # Chat!Round(r)
  /\ \A q, r \in Rounds : Chat!Round(q) = Chat!Round(r) => q = r
BY DEF Chat!Holders, Chat!Nobody, Chat!Claim, Chat!Round

LEMMA InitIInv == Init => IInv
<1> SUFFICES ASSUME Init PROVE IInv
  OBVIOUS
<1> USE Names, Parties DEF Init, Chat!Init
<1>1. TypeOK
  BY GuestAssumption DEF TypeOK, JobState, RowState
<1>2. OneGuest /\ SummonsInv /\ RelaysBounded
  BY DEF OneGuest, SummonsInv, RelaysBounded, Running
<1>3. RoundInv /\ RelayInv
  BY DEF RoundInv, RelayInv
<1> QED
  BY <1>1, <1>2, <1>3 DEF IInv

(* What a person's turn does to the chat.                                  *)
LEMMA TurnSteps ==
  ASSUME IInv, NEW s \in Plain, Turn(s)
  PROVE  /\ holder' \in Chat!Holders /\ saved' \subseteq Plain
         /\ began' \in {began, began \cup {s}}
         /\ \A r \in Rounds : holder' = Chat!Round(r) =>
              r = s /\ s \notin began /\ s \in began'
         /\ UNCHANGED <<summonVars, jobVars, restarts>>
BY Names, Parties
   DEF IInv, TypeOK, Turn, Chat!Reserve, Chat!SaveTurn, Chat!GiveUp, Chat!Answer

(* A continue takes a free chat for a round that has not begun.            *)
LEMMA ContinueSteps ==
  ASSUME IInv, NEW c \in Alone, ContinueStart(c)
  PROVE  /\ c \in Rounds /\ c \notin Plain
         /\ Chat!BeginAlone(c)
         /\ holder' = Chat!Round(c) /\ c \notin began /\ began' = began \cup {c}
         /\ UNCHANGED <<saved, summonVars, jobVars, restarts>>
BY Names DEF ContinueStart, Chat!BeginAlone

(* Every step keeps the types.                                             *)
LEMMA TypeStep == IInv /\ [Next]_vars => TypeOK'
<1> SUFFICES ASSUME IInv, [Next]_vars PROVE TypeOK'
  OBVIOUS
<1> USE Names, Parties, GuestAssumption
    DEF TypeOK, IInv, JobState, RowState, chatVars, summonVars, jobVars
<1>1. ASSUME NEW s \in Plain, Turn(s) PROVE TypeOK'
  BY <1>1, TurnSteps
<1>2. CASE Switch \/ DeleteChat
  BY <1>2 DEF Switch, DeleteChat
<1>3. CASE Restart
  BY <1>3 DEF Restart
<1>8. ASSUME NEW c \in Alone, ContinueStart(c) PROVE TypeOK'
  BY <1>8, ContinueSteps
<1>9. ASSUME NEW c \in Alone, NEW part \in Inner, PartEnds(c, part) PROVE TypeOK'
  BY <1>9 DEF PartEnds, Launch, StartJob
<1>4. ASSUME NEW r \in Rounds, RoundStep(r) PROVE TypeOK'
  <2>1. CASE SeatStarts(r)
    BY <2>1 DEF SeatStarts
  <2>2. CASE Summon(r)
    BY <2>2 DEF Summon
  <2>3. CASE RoundEnds(r)
    BY <2>3 DEF RoundEnds, Chat!Finish, Launch, StartJob
  <2>4. CASE RoundStops(r) \/ LaunchRaises(r)
    BY <2>4 DEF RoundStops, LaunchRaises, Chat!Finish
  <2> QED
    BY <1>4, <2>1, <2>2, <2>3, <2>4 DEF RoundStep
<1>5. ASSUME NEW j \in Rounds, TaskStep(j) PROVE TypeOK'
  BY <1>5 DEF TaskStep, Become, JobStarts, JobCompletes, JobSaysNothing, JobFails,
     JobBreaks, RowTo
<1>6. ASSUME NEW j \in Rounds, WaitStep(j) \/ WaitEnds(j) PROVE TypeOK'
  <2> USE DEF Reap
  <2>1. CASE PollIdle(j)
    <3>1. idle[j] + 1 \in 0..(SettlePolls - 1)
      BY <2>1 DEF PollIdle, Settled, Polls
    <3> QED
      BY <2>1, <3>1 DEF PollIdle
  <2>2. CASE PollBusy(j)
    BY <2>2 DEF PollBusy
  <2>3. CASE HandBack(j)
    BY <2>3 DEF HandBack, Become
  <2>4. CASE HandBackDropped(j) \/ WaitEnds(j)
    BY <2>4 DEF HandBackDropped, WaitEnds, Become
  <2> QED
    BY <1>6, <2>1, <2>2, <2>3, <2>4 DEF WaitStep
<1>7. CASE UNCHANGED vars
  BY <1>7 DEF vars
<1> QED
  BY <1>1, <1>2, <1>3, <1>4, <1>5, <1>6, <1>7, <1>8, <1>9 DEF Next

(* Steps that leave the jobs' state, the summons' claim and the chat's     *)
(* rounds alone keep the whole invariant.                                  *)
LEMMA Undisturbed ==
  ASSUME IInv, TypeOK', Gone' \/ UNCHANGED <<reply, row>>, Gone => Gone',
         UNCHANGED <<chatVars, pending, job, narrate>>
  PROVE  IInv'
BY DEF IInv, OneGuest, SummonsInv, RoundInv, RelayInv, RelaysBounded, Running,
   AnyRunning, chatVars

(* A round that ends leaves the chat to nobody.                            *)
LEMMA RoundLeaves ==
  ASSUME IInv, TypeOK', NEW r \in Rounds, Chat!Finish(r),
         pending' \in {None, pending},
         UNCHANGED <<code, job, narrate, reply, row>>
  PROVE  IInv'
BY Parties
   DEF IInv, Gone, OneGuest, SummonsInv, RoundInv, RelayInv, RelaysBounded, Running,
       AnyRunning, Chat!Finish

(* A launch finds no job running, because a summons was queued, and makes   *)
(* the one that runs: under the name of the round that ends, or of a part   *)
(* of the one that goes on.                                                *)
LEMMA LaunchKeeps ==
  ASSUME IInv, TypeOK', NEW r \in Rounds, job[r] = "none", r \in began \cup Inner,
         pending # None, pending' = None, StartJob(r),
         holder' = Chat!Nobody \/ (UNCHANGED holder /\ holder # Chat!Round(r)),
         UNCHANGED <<began, code>>
  PROVE  IInv'
<1>1. ~AnyRunning
  BY DEF IInv, SummonsInv
<1>2. /\ job' = [job EXCEPT ![r] = "created"]
      /\ row' = [row EXCEPT ![r] = "running"]
      /\ narrate' = IF r[2] = 0 THEN narrate \cup {r} ELSE narrate
      /\ UNCHANGED reply
  BY DEF StartJob
<1>3. OneGuest'
  BY <1>1, <1>2 DEF IInv, TypeOK, OneGuest, Running, AnyRunning
<1>4. SummonsInv'
  BY DEF SummonsInv
<1>5. RoundInv'
  BY <1>2, Parties DEF IInv, TypeOK, RoundInv, Gone
<1>6. RelayInv'
  BY <1>2 DEF IInv, TypeOK, RelayInv, Gone
<1>7. RelaysBounded'
  BY <1>2 DEF IInv, RelaysBounded
<1> QED
  BY <1>3, <1>4, <1>5, <1>6, <1>7 DEF IInv

(* A job that moves on, without its hand-back, and does not come to run.   *)
LEMMA JobMoves ==
  ASSUME IInv, TypeOK', NEW j \in Rounds, NEW to,
         job' = [job EXCEPT ![j] = to],
         job[j] \in {"created", "working", "waiting"},
         to = "working" => job[j] = "created",
         to \in {"working", "waiting", "dropped", "ended"},
         to = "waiting" => j \in narrate /\ j \in reply' /\ row'[j] = "completed",
         \A i \in Rounds \ {j} : row'[i] = row[i] /\ (i \in reply' <=> i \in reply),
         UNCHANGED <<chatVars, code, pending, narrate>>
  PROVE  IInv'
<1>1. \A i \in Rounds : job'[i] = IF i = j THEN to ELSE job[i]
  BY DEF IInv, TypeOK
<1>2. \A i \in Rounds : Running(i)' => Running(i)
  BY <1>1 DEF Running
<1>3. OneGuest' /\ SummonsInv'
  BY <1>2 DEF IInv, OneGuest, SummonsInv, AnyRunning
<1>4. RoundInv'
  BY <1>1 DEF IInv, RoundInv, chatVars, Gone
<1>5. RelayInv'
  <2> SUFFICES ASSUME NEW i \in Rounds, i[2] < MaxRelays, Relay(i) \in began'
               PROVE  /\ job'[i] = "relayed"
                      /\ ~Gone => i \in reply' /\ row'[i] = "completed"
    BY DEF RelayInv, Gone
  <2>1. job[i] = "relayed" /\ (~Gone => i \in reply /\ row[i] = "completed")
    BY DEF IInv, RelayInv, chatVars
  <2> QED
    BY <1>1, <2>1
<1>6. RelaysBounded'
  BY DEF IInv, RelaysBounded, chatVars
<1> QED
  BY <1>3, <1>4, <1>5, <1>6 DEF IInv

(* The hand-back takes the chat for a round that has not begun, of a job   *)
(* that a person's round launched.                                         *)
LEMMA HandBackKeeps ==
  ASSUME IInv, TypeOK', NEW j \in Rounds, HandBack(j)
  PROVE  IInv' /\ Relay(j) \in Rounds \ Plain /\ Relay(j) \notin began
<1>1. /\ job[j] = "waiting" /\ j[2] = 0 /\ j \in reply /\ row[j] = "completed"
      /\ j[2] < MaxRelays
  BY DEF HandBack, Become, IInv, RoundInv
<1>2. Relay(j) \in Rounds \ Plain /\ Relay(j) \notin Inner /\ Relay(j)[2] = 1
  BY <1>1, Names
<1>3. Relay(j) \notin began /\ job[Relay(j)] = "none" /\ Relay(j) # j
  BY <1>1, <1>2, Names DEF IInv, TypeOK, RelayInv, RoundInv, JobState
<1>4. /\ \A i \in Rounds : job'[i] = IF i = j THEN "relayed" ELSE job[i]
      /\ holder' = Chat!Round(Relay(j)) /\ began' = began \cup {Relay(j)}
      /\ UNCHANGED <<code, pending, narrate, reply, row>>
  BY DEF HandBack, Become, IInv, TypeOK, summonVars
<1>5. OneGuest' /\ SummonsInv'
  BY <1>4 DEF IInv, OneGuest, SummonsInv, AnyRunning, Running
<1>6. RoundInv'
  BY <1>1, <1>2, <1>3, <1>4, Parties DEF IInv, RoundInv, Gone
<1>7. RelayInv'
  <2> SUFFICES ASSUME NEW i \in Rounds, i[2] < MaxRelays, Relay(i) \in began'
               PROVE  /\ job'[i] = "relayed"
                      /\ ~Gone => i \in reply' /\ row'[i] = "completed"
    BY <1>4 DEF RelayInv, Gone
  <2>1. CASE i = j
    BY <1>1, <1>4, <2>1
  <2>2. CASE i # j
    <3>1. Relay(i) \in began
      BY <1>4, <2>2, Names
    <3> QED
      BY <1>4, <2>2, <3>1 DEF IInv, RelayInv
  <2> QED
    BY <2>1, <2>2
<1>8. RelaysBounded'
  BY <1>2, <1>4 DEF IInv, RelaysBounded
<1> QED
  BY <1>2, <1>3, <1>5, <1>6, <1>7, <1>8 DEF IInv

LEMMA RestartKeeps == ASSUME IInv, TypeOK', Restart PROVE IInv'
<1>1. PICK settled \in SUBSET {j \in Rounds : job[j] = "working" /\ ~Gone} :
        /\ row' = [j \in Rounds |-> IF j \in settled THEN "cancelled" ELSE row[j]]
        /\ reply \subseteq reply'
  BY DEF Restart
<1>2. /\ \A j \in Rounds : job'[j] =
            IF job[j] \in {"created", "working", "waiting"} THEN "ended" ELSE job[j]
      /\ holder' = Chat!Nobody /\ pending' = None
      /\ UNCHANGED <<began, code, narrate>>
  BY DEF Restart
<1>3. OneGuest' /\ SummonsInv'
  BY <1>2 DEF OneGuest, SummonsInv, Running
<1>4. RoundInv'
  BY <1>2, Parties DEF IInv, RoundInv
<1>5. RelayInv'
  <2> SUFFICES ASSUME NEW i \in Rounds, i[2] < MaxRelays, Relay(i) \in began'
               PROVE  /\ job'[i] = "relayed"
                      /\ ~Gone => i \in reply' /\ row'[i] = "completed"
    BY <1>2 DEF RelayInv, Gone
  <2>1. job[i] = "relayed" /\ (~Gone => i \in reply /\ row[i] = "completed")
    BY <1>2 DEF IInv, RelayInv
  <2> QED
    BY <1>1, <1>2, <2>1
<1>6. RelaysBounded'
  BY <1>2 DEF IInv, RelaysBounded
<1> QED
  BY <1>3, <1>4, <1>5, <1>6 DEF IInv

(* A round of a turn or of a continue begins under a name of level 0, no   *)
(* part's, and relays nothing.                                             *)
LEMMA BeginKeeps ==
  ASSUME IInv, TypeOK', NEW q \in Plain \cup Alone,
         began' \in {began, began \cup {q}},
         \A r \in Rounds : holder' = Chat!Round(r) =>
           r = q /\ q \notin began /\ q \in began',
         UNCHANGED <<code, pending, job, narrate, reply, row>>
  PROVE  IInv'
<1>1. q \in Rounds /\ q[2] = 0 /\ q \notin Inner
  BY Names
<1>2. OneGuest' /\ SummonsInv'
  BY DEF IInv, OneGuest, SummonsInv, AnyRunning, Running
<1>3. RoundInv'
  BY <1>1 DEF IInv, RoundInv, Gone
<1>4. RelayInv'
  <2> SUFFICES ASSUME NEW i \in Rounds, i[2] < MaxRelays, Relay(i) \in began'
               PROVE  Relay(i) \in began
    BY DEF IInv, RelayInv, Gone
  <2>1. Relay(i)[2] = i[2] + 1 /\ i[2] \in Nat
    BY Names
  <2> QED
    BY <1>1, <2>1
<1>5. RelaysBounded'
  BY <1>1 DEF IInv, RelaysBounded
<1> QED
  BY <1>2, <1>3, <1>4, <1>5 DEF IInv

LEMMA NextIInv == IInv /\ [Next]_vars => IInv'
<1> SUFFICES ASSUME IInv, [Next]_vars PROVE IInv'
  OBVIOUS
<1> TypeOK'
  BY TypeStep
<1> USE DEF chatVars, summonVars, jobVars
<1>1. ASSUME NEW s \in Plain, Turn(s) PROVE IInv'
  BY <1>1, TurnSteps, BeginKeeps
<1>2. CASE Switch \/ DeleteChat
  BY <1>2, Undisturbed DEF Switch, DeleteChat, Gone
<1>3. CASE Restart
  BY <1>3, RestartKeeps
<1>8. ASSUME NEW c \in Alone, ContinueStart(c) PROVE IInv'
  BY <1>8, ContinueSteps, Parties, BeginKeeps
<1>9. ASSUME NEW c \in Alone, NEW part \in Inner, PartEnds(c, part) PROVE IInv'
  <2>1. c \in Rounds /\ part \in Rounds /\ c # part
    BY Names
  <2>2. CASE StartJob(part)
    <3>1. holder # Chat!Round(part) /\ job[part] = "none" /\ pending # None
      BY <1>9, <2>1, Parties DEF PartEnds
    <3> QED
      BY <1>9, <2>1, <2>2, <3>1, LaunchKeeps DEF PartEnds
  <2>3. CASE UNCHANGED jobVars
    BY <1>9, <2>3 DEF PartEnds, IInv, OneGuest, SummonsInv, RoundInv, RelayInv,
       RelaysBounded, Running, AnyRunning, Gone
  <2> QED
    BY <1>9, <2>2, <2>3 DEF PartEnds, Launch
<1>4. ASSUME NEW r \in Rounds, RoundStep(r) PROVE IInv'
  <2>1. CASE SeatStarts(r)
    BY <2>1, Undisturbed DEF SeatStarts, Gone
  <2>2. CASE Summon(r)
    BY <2>2 DEF Summon, IInv, OneGuest, SummonsInv, RoundInv, RelayInv,
       RelaysBounded, AnyRunning, Running, Gone
  <2>3. CASE RoundEnds(r)
    <3>1. CASE pending = None \/ UNCHANGED jobVars
      BY <2>3, <3>1, RoundLeaves DEF RoundEnds
    <3>2. CASE pending # None /\ StartJob(r)
      <4>1. job[r] = "none" /\ r \in began
        BY <2>3 DEF RoundEnds, IInv, RoundInv, Chat!Finish
      <4> QED
        BY <2>3, <3>2, <4>1, LaunchKeeps DEF RoundEnds, Chat!Finish
    <3> QED
      BY <2>3, <3>1, <3>2 DEF RoundEnds, Launch
  <2>4. CASE RoundStops(r) \/ LaunchRaises(r)
    BY <2>4, RoundLeaves DEF RoundStops, LaunchRaises
  <2> QED
    BY <1>4, <2>1, <2>2, <2>3, <2>4 DEF RoundStep
<1>5. ASSUME NEW j \in Rounds, TaskStep(j) PROVE IInv'
  <2> USE DEF Become, IInv, TypeOK, RowTo
  <2>1. CASE JobStarts(j)
    BY <2>1, JobMoves DEF JobStarts
  <2>2. CASE JobCompletes(j)
    BY <2>2, JobMoves DEF JobCompletes
  <2>3. CASE JobSaysNothing(j)
    BY <2>3, JobMoves DEF JobSaysNothing
  <2>4. CASE JobFails(j)
    BY <2>4, JobMoves DEF JobFails
  <2>5. CASE JobBreaks(j)
    BY <2>5, JobMoves DEF JobBreaks
  <2> QED
    BY <1>5, <2>1, <2>2, <2>3, <2>4, <2>5 DEF TaskStep
<1>6. ASSUME NEW j \in Rounds, WaitStep(j) \/ WaitEnds(j) PROVE IInv'
  <2>1. CASE PollBusy(j) \/ PollIdle(j)
    BY <2>1, Undisturbed DEF PollBusy, PollIdle, Gone
  <2>2. CASE HandBack(j)
    BY <2>2, HandBackKeeps
  <2>3. CASE HandBackDropped(j) \/ WaitEnds(j)
    BY <2>3, JobMoves DEF HandBackDropped, WaitEnds, Become
  <2> QED
    BY <1>6, <2>1, <2>2, <2>3 DEF WaitStep
<1>7. CASE UNCHANGED vars
  BY <1>7, Undisturbed DEF vars, Gone
<1> QED
  BY <1>1, <1>2, <1>3, <1>4, <1>5, <1>6, <1>7, <1>8, <1>9 DEF Next

-----------------------------------------------------------------------------

(* The strengthened invariant holds in every reachable state.              *)
THEOREM Invariance == Spec => []IInv
BY InitIInv, NextIInv, PTL DEF Spec

(* The variables keep their types; a wait never counts past its pause.     *)
THEOREM TypeCorrect == Spec => []TypeOK
<1>1. IInv => TypeOK
  BY DEF IInv
<1> QED
  BY <1>1, Invariance, PTL

(* However rounds summon, are stopped, end and relay, a chat never has two  *)
(* guests at work: guest.request and active_for_chat are enough.           *)
THEOREM OneGuestAlways == Spec => []OneGuest
<1>1. IInv => OneGuest
  BY DEF IInv
<1> QED
  BY <1>1, Invariance, PTL

(* Hand-backs never chain: narrate=not is_handback bounds them to one per   *)
(* round of a person.                                                      *)
THEOREM RelaysAlwaysBounded == Spec => []RelaysBounded
<1>1. IInv => RelaysBounded
  BY DEF IInv
<1> QED
  BY <1>1, Invariance, PTL

(* A hand-back round only ever relays a saved reply of a completed job.    *)
THEOREM RelaysAlwaysOfReplies == Spec => []RelaysAreOfReplies
<1>1. IInv => RelaysAreOfReplies
  BY DEF IInv, RelayInv, RelaysAreOfReplies
<1> QED
  BY <1>1, Invariance, PTL

(* Every step of the chat is a step of ChatTurn, but for a restart: a       *)
(* hand-back takes a free chat for a round that has not begun, and a part   *)
(* of a continue leaves it where it is.                                    *)
THEOREM ChatTurnKept == Spec => KeepsChatTurn
<1>1. IInv /\ [Next]_vars => [Chat!Next \/ restarts' # restarts]_chatVars
  <2> SUFFICES ASSUME IInv, [Next]_vars, restarts' = restarts
               PROVE  Chat!Next \/ UNCHANGED chatVars
    OBVIOUS
  <2> USE DEF chatVars
  <2> TypeOK'
    BY TypeStep
  <2>1. ASSUME NEW s \in Plain, Turn(s) PROVE Chat!Next
    BY <2>1 DEF Turn, Chat!Next
  <2>2. CASE Restart
    BY <2>2 DEF Restart, IInv, TypeOK
  <2>3. ASSUME NEW r \in Rounds, RoundStep(r) PROVE Chat!Next \/ UNCHANGED chatVars
    <3>1. CASE Chat!Finish(r)
      BY <3>1 DEF Chat!Next
    <3>2. CASE SeatStarts(r) \/ Summon(r)
      BY <3>2 DEF SeatStarts, Summon
    <3> QED
      BY <2>3, <3>1, <3>2 DEF RoundStep, RoundEnds, RoundStops, LaunchRaises
  <2>4. ASSUME NEW j \in Rounds, HandBack(j) PROVE Chat!Next
    <3>1. Relay(j) \in Rounds \ Plain /\ Relay(j) \notin began
      BY <2>4, HandBackKeeps
    <3>2. Chat!BeginAlone(Relay(j))
      BY <2>4, <3>1 DEF HandBack, ChatBusy, Chat!BeginAlone
    <3> QED
      BY <3>1, <3>2 DEF Chat!Next
  <2>5. ASSUME NEW j \in Rounds,
               TaskStep(j) \/ PollBusy(j) \/ PollIdle(j) \/ HandBackDropped(j) \/ WaitEnds(j)
        PROVE  UNCHANGED chatVars
    BY <2>5 DEF TaskStep, JobStarts, JobCompletes, JobSaysNothing, JobFails,
       JobBreaks, PollBusy, PollIdle, HandBackDropped, WaitEnds
  <2>6. CASE Switch \/ DeleteChat \/ UNCHANGED vars
    BY <2>6 DEF Switch, DeleteChat, vars
  <2>7. ASSUME NEW c \in Alone, ContinueStart(c) PROVE Chat!Next
    BY <2>7, ContinueSteps DEF Chat!Next
  <2>8. ASSUME NEW c \in Alone, NEW part \in Inner, PartEnds(c, part)
        PROVE  UNCHANGED chatVars
    BY <2>8 DEF PartEnds
  <2> QED
    BY <2>1, <2>2, <2>3, <2>4, <2>5, <2>6, <2>7, <2>8 DEF Next, WaitStep
<1> QED
  BY <1>1, Invariance, PTL DEF Spec, KeepsChatTurn

(* A round, or a part of one, drops no summons of a chat that is there in   *)
(* silence, except by raising.                                             *)
THEOREM SummonsAlwaysAnswered == Spec => SummonsAnswered
<1> DEFINE Answered(r) == \/ Gone \/ r \in notices'
                          \/ \E j \in Rounds : Starts(j) \/ LaunchRaises(j)
<1>1. ASSUME IInv, [Next]_vars, NEW r \in Rounds, pending = r, pending' = None,
             restarts' = restarts
      PROVE  Answered(r)
  <2>1. \/ \E q \in Rounds : RoundEnds(q) \/ LaunchRaises(q)
        \/ \E c \in Alone, part \in Inner : PartEnds(c, part)
    BY <1>1, Names
       DEF Next, vars, chatVars, summonVars, jobVars, Turn, Switch, DeleteChat, Restart,
           ContinueStart, RoundStep, SeatStarts, Summon, RoundStops, TaskStep, JobStarts,
           JobCompletes, JobSaysNothing, JobFails, JobBreaks, WaitStep, PollBusy,
           PollIdle, HandBack, HandBackDropped, WaitEnds, IInv, TypeOK
  <2>2. ASSUME NEW q \in Rounds, RoundEnds(q) PROVE Answered(r)
    <3>1. Launch(q) /\ job[q] = "none"
      BY <1>1, <2>2, Names DEF RoundEnds, Chat!Finish, IInv, RoundInv
    <3> QED
      BY <1>1, <3>1 DEF Launch, StartJob, Starts, IInv, TypeOK
  <2>3. ASSUME NEW c \in Alone, NEW part \in Inner, PartEnds(c, part) PROVE Answered(r)
    <3>1. Launch(part) /\ job[part] = "none" /\ part \in Rounds
      BY <2>3, Names DEF PartEnds
    <3> QED
      BY <1>1, <3>1 DEF Launch, StartJob, Starts, IInv, TypeOK
  <2> QED
    BY <2>1, <2>2, <2>3
<1>2. IInv /\ [Next]_vars =>
        [\A r \in Rounds : pending = r /\ pending' = None /\ restarts' = restarts
           => Answered(r)]_vars
  BY <1>1
<1> QED
  BY <1>2, Invariance, PTL DEF Spec, SummonsAnswered
=============================================================================
