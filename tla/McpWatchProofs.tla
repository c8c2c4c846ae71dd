--------------------------- MODULE McpWatchProofs ---------------------------
(***************************************************************************)
(* Theorems about McpWatch: for any number of jobs, questions and stages,  *)
(* what the watch counts as said was said or is one of two known losses,   *)
(* and nothing is posted twice, after a seat had it, or once it was missed.*)
(***************************************************************************)
EXTENDS McpWatch, TLAPS

Said(news) == \E i \in DOMAIN said : said[i] = news

\* What the watch remembers: its two sets cover all that the room has had, and
\* all that was missed.
Noted(news) ==
  IF news.kind = "blocker" THEN news \in asked ELSE news.job \in doneJobs

Remembered == \A news \in News : Said(news) \/ news \in told \cup missed => Noted(news)

IInv == TypeOK /\ NoNewsLost /\ Remembered

-----------------------------------------------------------------------------

(* The bounds contain what the actions count up to.                        *)
LEMMA Bounds ==
  0 \in 0..MaxJobs /\ 0 \in 0..MaxAsks /\ 0 \in 0..MaxStages
BY WatchAssumption

(* What the server answers is a block, and a block's news are news.        *)
LEMMA Blocks ==
  /\ NoWork \in Block
  /\ \A w \in Block : Later(w) \subseteq Block
  /\ \A b \in Block : Question(b) \in News /\ Result(b) \in News
BY Bounds DEF NoWork, Block, States, Later, Honest, News, Question, Result

(* A post adds its news and nothing else.                                  *)
LEMMA PostAdds ==
  ASSUME NEW news \in News, said \in Seq(News), unsaid \subseteq News, Post(news)
  PROVE  /\ said' \in Seq(News)
         /\ unsaid' \subseteq News
         /\ \A n \in News : Said(n) => Said(n)'
         /\ \A n \in News : Said(n)' => Said(n) \/ n = news
         /\ unsaid \subseteq unsaid'
         /\ Said(news)' \/ news \in unsaid'
<1>1. CASE said' = Append(said, news) /\ UNCHANGED unsaid
  <2>1. /\ said' \in Seq(News)
        /\ DOMAIN said = 1..Len(said) /\ Len(said) \in Nat
        /\ DOMAIN said' = 1..(Len(said) + 1)
        /\ \A i \in DOMAIN said : said'[i] = said[i]
        /\ said'[Len(said) + 1] = news
    BY <1>1
  <2>2. \A i \in DOMAIN said' : i \in DOMAIN said \/ i = Len(said) + 1
    BY <2>1
  <2>3. Len(said) + 1 \in DOMAIN said'
    BY <2>1
  <2>4. \A i \in DOMAIN said : i \in DOMAIN said'
    BY <2>1
  <2> QED
    BY <1>1, <2>1, <2>2, <2>3, <2>4 DEF Said
<1>2. CASE unsaid' = unsaid \cup {news} /\ UNCHANGED said
  BY <1>2 DEF Said
<1> QED
  BY <1>1, <1>2 DEF Post

(* Queueing posts at most the news it was asked to: a result always, and a  *)
(* question unless it is outranked and counted as missed.                  *)
LEMMA QueueAdds ==
  ASSUME NEW b \in Block, NEW kind \in {"none", "progress", "blocker", "result"},
         TypeOK, Queue(kind, b)
  PROVE  /\ relay' \in {"none", "progress", "blocker", "result"}
         /\ said' \in Seq(News)
         /\ unsaid' \subseteq News
         /\ unsaid \subseteq unsaid'
         /\ missed \subseteq missed'
         /\ \A n \in missed' : n \in missed \/ (kind = "blocker" /\ n = Question(b))
         /\ \A n \in News : Said(n) => Said(n)'
         /\ \A n \in News : Said(n)' =>
              \/ Said(n)
              \/ kind = "blocker" /\ n = Question(b)
              \/ kind = "result" /\ n = Result(b)
         /\ \A n \in News : kind = "result" /\ n = Result(b) => Said(n)' \/ n \in unsaid'
         /\ \A n \in News : kind = "blocker" /\ n = Question(b)
                           => Said(n)' \/ n \in unsaid' \cup missed'
<1>0. /\ missed \subseteq missed'
      /\ \A n \in missed' : n \in missed \/ (kind = "blocker" /\ n = Question(b))
      /\ Outranked(kind) => Question(b) \in missed'
  BY DEF Queue, Outranked
<1>1. CASE UNCHANGED relayVars /\ kind # "result" /\ (kind = "blocker" => Outranked(kind))
  BY <1>0, <1>1 DEF relayVars, TypeOK, Said
<1>2. CASE relay' = kind /\ kind = "blocker" /\ Post(Question(b))
  BY <1>0, <1>2, PostAdds, Blocks DEF TypeOK
<1>3. CASE relay' = kind /\ kind = "result" /\ Post(Result(b))
  BY <1>0, <1>3, PostAdds, Blocks DEF TypeOK
<1>4. CASE relay' = kind /\ kind \notin {"blocker", "result"} /\ UNCHANGED <<said, unsaid>>
  BY <1>0, <1>4 DEF TypeOK, Said
<1>5. Rank(relay) <= 3 /\ Rank("result") = 3
  BY DEF TypeOK, Rank
<1>6. kind = "result" => ~(Rank(relay) > Rank(kind))
  BY <1>5 DEF TypeOK, Rank
<1>7. CASE kind = "none" \/ Rank(relay) > Rank(kind) \/ (kind = "progress" /\ relay = "progress")
  BY <1>1, <1>6, <1>7 DEF Queue, Outranked
<1>8. CASE ~(kind = "none" \/ Rank(relay) > Rank(kind) \/ (kind = "progress" /\ relay = "progress"))
  <2>1. relay' = kind /\ PostFor(kind, b)
    BY <1>8 DEF Queue
  <2> QED
    BY <1>2, <1>3, <1>4, <2>1 DEF PostFor
<1> QED
  BY <1>7, <1>8

(* Every initial state satisfies the invariant: nothing was said.          *)
LEMMA InitIInv == Init => IInv
<1> SUFFICES ASSUME Init PROVE IInv
  OBVIOUS
<1> USE DEF Init
<1>1. TypeOK
  BY Bounds, Blocks DEF TypeOK, WatchState, States
<1>2. NoNewsLost /\ Remembered
  BY DEF NoNewsLost, Remembered, Said
<1> QED
  BY <1>1, <1>2 DEF IInv

(* A step that folds no block in and posts nothing leaves the invariant to  *)
(* the types.                                                              *)
LEMMA Unheard ==
  ASSUME IInv, TypeOK', UNCHANGED <<asked, doneJobs, said, unsaid, told, missed>>
  PROVE  IInv'
BY DEF IInv, NoNewsLost, Out, Remembered, Noted, Said

(* A seat's block is remembered as it is told.                             *)
LEMMA SeatsBlock ==
  ASSUME IInv, NEW b \in Block, FoldSeats(b), UNCHANGED relayVars,
         work' \in Block, chat' \in {"quiet", "claimed", "round"},
         call' = None, watch' \in {"asleep", "polling"}, watch = "polling" => watch' = "polling",
         UNCHANGED answer
  PROVE  IInv'
<1> USE DEF relayVars
<1>1. TypeOK'
  <2>1. Says(b) \subseteq News
    BY Blocks DEF Says
  <2> QED
    BY <2>1, Blocks DEF IInv, TypeOK, FoldSeats, Fold, Going, Block, States, WatchState
<1>2. NoNewsLost'
  <2>0. told \subseteq told' /\ missed \subseteq missed'
    BY DEF FoldSeats
  <2>1. ASSUME NEW j \in doneJobs', j \notin doneJobs
        PROVE  ResultOf(j) \in told' \cup missed'
    <3>1. j = b.job /\ ResultOf(j) = Result(b) /\ b.state \in {"done", "idle"}
      BY <2>1 DEF FoldSeats, Going, Block, States, Result, ResultOf
    <3>2. CASE b.state = "done"
      BY <3>1, <3>2 DEF FoldSeats, Says
    <3>3. CASE b.state = "idle"
      BY <2>1, <3>1, <3>3 DEF FoldSeats
    <3> QED
      BY <3>1, <3>2, <3>3
  <2>2. ASSUME NEW q \in asked', q \notin asked
        PROVE  q \in told'
    BY <2>2 DEF FoldSeats, Says
  <2>3. \A n : Out(n) => Out(n)'
    BY <2>0 DEF Out
  <2>4. \A n : n \in told' => Out(n)'
    BY DEF Out
  <2> QED
    BY <2>0, <2>1, <2>2, <2>3, <2>4 DEF NoNewsLost, IInv
<1>3. Remembered'
  <2> SUFFICES ASSUME NEW news \in News, Said(news)' \/ news \in told' \cup missed'
               PROVE  Noted(news)'
    BY DEF Remembered
  <2>1. CASE Said(news) \/ news \in told \cup missed
    BY <2>1 DEF IInv, Remembered, Noted, FoldSeats
  <2>2. CASE b.state = "waiting" /\ news = Question(b)
    BY <2>2 DEF Noted, FoldSeats, Question
  <2>3. CASE ~Going(b) /\ news = Result(b)
    BY <2>3 DEF Noted, FoldSeats, Result
  <2>4. \A n \in told' \cup missed' :
          \/ n \in told \cup missed
          \/ b.state = "waiting" /\ n = Question(b)
          \/ ~Going(b) /\ n = Result(b)
    BY DEF FoldSeats, Says, Going
  <2> QED
    BY <2>1, <2>2, <2>3, <2>4 DEF Said
<1> QED
  BY <1>1, <1>2, <1>3 DEF IInv

(* What a polled block makes due was not noted before, and is afterwards.  *)
LEMMA DueIsNews ==
  ASSUME NEW b \in Block, NEW kind \in Due(b), FoldPolled(b), TypeOK
  PROVE  /\ kind \in {"none", "progress", "blocker", "result"}
         /\ \A n \in News :
              (kind = "blocker" /\ n = Question(b)) \/ (kind = "result" /\ n = Result(b))
                => ~Noted(n) /\ Noted(n)'
         /\ \A n \in News : Noted(n) => Noted(n)'
         /\ \A j \in doneJobs' \ doneJobs : j = b.job /\ kind = "result"
         /\ \A q \in asked' \ asked : q = Question(b) /\ kind = "blocker"
<1>1. b.state \in States
  BY DEF Block
<1>2. CASE b.state = "idle"
  BY <1>2 DEF Due, FoldPolled, Noted
<1>3. CASE b.state = "done"
  BY <1>3 DEF Due, FoldPolled, Noted, Result
<1>4. CASE b.state = "waiting"
  BY <1>4 DEF Due, FoldPolled, Noted, Question
<1>5. CASE b.state = "running"
  BY <1>5 DEF Due, FoldPolled, Noted
<1> QED
  BY <1>1, <1>2, <1>3, <1>4, <1>5 DEF States

(* A polled block posts only what is news, and marks it as known.          *)
LEMMA PolledBlock ==
  ASSUME IInv, PollReturns
  PROVE  /\ IInv'
         /\ \A n \in News : said' = Append(said, n) => ~Said(n) /\ n \notin told \cup missed
<1>1. answer \in Block /\ TypeOK
  BY DEF PollReturns, IInv, TypeOK
<1>2. PICK kind \in Due(answer) : Queue(kind, answer)
  BY DEF PollReturns
<1>3. FoldPolled(answer)
  BY DEF PollReturns
<1>4. kind \in {"none", "progress", "blocker", "result"}
  BY <1>1, <1>2, <1>3, DueIsNews
<1>5. Question(answer) \in News /\ Result(answer) \in News
  BY <1>1, Blocks
<1>6. TypeOK'
  <2>1. finished' \in {"no", "yes"} /\ watch' \in WatchState
    BY <1>1, <1>3 DEF PollReturns, FoldPolled, Fold, TopOfLoop, WatchState
  <2>2. /\ seen' \in [state: States, stage: 0..MaxStages]
        /\ doneJobs' \subseteq 0..MaxJobs /\ asked' \subseteq News
    BY <1>1, <1>3, <1>5 DEF FoldPolled, Fold, Block, TypeOK
  <2>3. missed' \subseteq News
    BY <1>1, <1>2, <1>4, <1>5, QueueAdds DEF TypeOK
  <2>4. relay' \in {"none", "progress", "blocker", "result"} /\ said' \in Seq(News) /\ unsaid' \subseteq News
    BY <1>1, <1>2, <1>4, QueueAdds
  <2> QED
    BY <1>1, <2>1, <2>2, <2>3, <2>4 DEF PollReturns, TypeOK
<1>7. NoNewsLost'
  <2>0. ASSUME NEW n \in News, Out(n) \/ n \in missed
        PROVE  Out(n)' \/ n \in missed'
    BY <2>0, <1>1, <1>2, <1>4, QueueAdds DEF PollReturns, Out, Said
  <2>1. ASSUME NEW j \in doneJobs'
        PROVE  Out(ResultOf(j))' \/ ResultOf(j) \in missed'
    <3>1. ResultOf(j) \in News
      BY <1>6, Bounds DEF News, TypeOK, ResultOf
    <3>2. CASE j \in doneJobs
      BY <2>0, <3>1, <3>2 DEF IInv, NoNewsLost
    <3>3. CASE j \notin doneJobs
      <4>1. j = answer.job /\ kind = "result"
        BY <3>3, <1>1, <1>2, <1>3, DueIsNews
      <4>2. ResultOf(j) = Result(answer)
        BY <4>1 DEF Result, ResultOf
      <4>3. Said(ResultOf(j))' \/ ResultOf(j) \in unsaid'
        BY <3>1, <4>1, <4>2, <1>1, <1>2, <1>4, QueueAdds
      <4> QED
        BY <4>3 DEF Out, Said
    <3> QED
      BY <3>2, <3>3
  <2>2. ASSUME NEW q \in asked'
        PROVE  Out(q)' \/ q \in missed'
    <3>1. q \in News
      BY <1>6 DEF TypeOK
    <3>2. CASE q \in asked
      BY <2>0, <3>1, <3>2 DEF IInv, NoNewsLost
    <3>3. CASE q \notin asked
      <4>1. q = Question(answer) /\ kind = "blocker"
        BY <3>3, <1>1, <1>2, <1>3, DueIsNews
      <4>2. Said(q)' \/ q \in unsaid' \cup missed'
        BY <3>1, <4>1, <1>1, <1>2, <1>4, QueueAdds
      <4> QED
        BY <4>2 DEF Out, Said
    <3> QED
      BY <3>2, <3>3
  <2>3. \A j \in doneJobs' : ResultOf(j)' = ResultOf(j)
    BY DEF ResultOf
  <2> QED
    BY <2>1, <2>2, <2>3 DEF NoNewsLost, Out, ResultOf
<1>8. Remembered'
  <2> SUFFICES ASSUME NEW n \in News, Said(n)' \/ n \in told' \cup missed'
               PROVE  Noted(n)'
    BY DEF Remembered
  <2>1. CASE Said(n) \/ n \in told \cup missed
    <3>1. Noted(n)
      BY <2>1 DEF IInv, Remembered
    <3> QED
      BY <3>1, <1>1, <1>2, <1>3, DueIsNews
  <2>2. CASE kind = "blocker" /\ n = Question(answer)
    BY <2>2, <1>1, <1>2, <1>3, DueIsNews
  <2>3. CASE kind = "result" /\ n = Result(answer)
    BY <2>3, <1>1, <1>2, <1>3, DueIsNews
  <2>4. n \in missed' => n \in missed \/ (kind = "blocker" /\ n = Question(answer))
    BY <1>1, <1>2, <1>4, QueueAdds
  <2>5. Said(n)' =>
                   \/ Said(n)
                   \/ (kind = "blocker" /\ n = Question(answer))
                   \/ (kind = "result" /\ n = Result(answer))
    BY <1>1, <1>2, <1>4, QueueAdds
  <2> QED
    BY <2>1, <2>2, <2>3, <2>4, <2>5 DEF PollReturns
<1>9. ASSUME NEW n \in News, said' = Append(said, n)
      PROVE  ~Said(n) /\ n \notin told \cup missed
  <2>1. said' # said
    <3>1. Len(said') = Len(said) + 1 /\ Len(said) \in Nat
      BY <1>1, <1>9 DEF TypeOK
    <3> QED
      BY <3>1
  <2>2. (kind = "blocker" /\ Post(Question(answer))) \/ (kind = "result" /\ Post(Result(answer)))
    BY <2>1, <1>2 DEF Queue, PostFor, relayVars
  <2>3. \A m \in News : said' = Append(said, m) => m = n
    <3>1. said \in Seq(News)
      BY <1>1 DEF TypeOK
    <3>2. \A m \in News : Append(said, m)[Len(said) + 1] = m
      BY <3>1
    <3> QED
      BY <3>2, <1>9
  <2>4. (kind = "blocker" /\ n = Question(answer)) \/ (kind = "result" /\ n = Result(answer))
    BY <2>1, <2>2, <2>3, <1>5 DEF Post
  <2>5. ~Noted(n)
    BY <2>4, <1>1, <1>2, <1>3, DueIsNews
  <2> QED
    BY <2>5 DEF IInv, Remembered
<1> QED
  BY <1>6, <1>7, <1>8, <1>9 DEF IInv

(* Every step keeps the invariant: only folding a block in could break it.  *)
LEMMA NextIInv == IInv /\ [Next]_vars => IInv'
<1> SUFFICES ASSUME IInv, [Next]_vars PROVE IInv'
  OBVIOUS
<1> USE DEF blockVars, relayVars, heard
<1>1. CASE ChatMoves
  <2>1. TypeOK'
    BY <1>1 DEF ChatMoves, IInv, TypeOK
  <2> QED
    BY <1>1, <2>1, Unheard DEF ChatMoves
<1>2. CASE SeatCalls
  <2>1. TypeOK'
    BY <1>2, Blocks DEF SeatCalls, IInv, TypeOK
  <2> QED
    BY <1>2, <2>1, Unheard DEF SeatCalls
<1>3. CASE StartWatch
  <2>1. call \in Block /\ work \in Block /\ chat \in {"quiet", "claimed", "round"}
    BY <1>3 DEF StartWatch, IInv, TypeOK
  <2> QED
    BY <1>3, <2>1, SeatsBlock DEF StartWatch
<1>4. CASE SeatReturns
  <2>1. call \in Block /\ work \in Block /\ chat \in {"quiet", "claimed", "round"}
    BY <1>4 DEF SeatReturns, IInv, TypeOK
  <2> QED
    BY <1>4, <2>1, SeatsBlock DEF SeatReturns
<1>5. CASE SeatReturnsUnwatched
  <2>1. TypeOK'
    BY <1>5 DEF SeatReturnsUnwatched, IInv, TypeOK
  <2> QED
    BY <1>5, <2>1, Unheard DEF SeatReturnsUnwatched
<1>6. CASE PollStarts
  <2>1. TypeOK'
    BY <1>6 DEF PollStarts, IInv, TypeOK, WatchState
  <2> QED
    BY <1>6, <2>1, Unheard DEF PollStarts
<1>7. CASE PollReturns
  BY <1>7, PolledBlock
<1>8. CASE PollFails
  <2>1. TypeOK'
    BY <1>8 DEF PollFails, IInv, TypeOK, WatchState
  <2> QED
    BY <1>8, <2>1, Unheard DEF PollFails
<1>9. CASE WakesFinished
  <2>1. TypeOK'
    BY <1>9 DEF WakesFinished, TopOfLoop, IInv, TypeOK, WatchState
  <2> QED
    BY <1>9, <2>1, Unheard DEF WakesFinished
<1>10. CASE PollAnswered
  <2>1. TypeOK'
    BY <1>10, Blocks DEF PollAnswered, IInv, TypeOK
  <2> QED
    BY <1>10, <2>1, Unheard DEF PollAnswered
<1>11. CASE Lost
  <2>1. TypeOK'
    BY <1>11 DEF Lost, IInv, TypeOK, WatchState
  <2> QED
    BY <1>11, <2>1, Unheard DEF Lost
<1>12. CASE Stop
  <2>1. TypeOK'
    BY <1>12 DEF Stop, IInv, TypeOK, WatchState
  <2> QED
    BY <1>12, <2>1, Unheard DEF Stop
<1>13. CASE RelayFires
  <2>1. TypeOK'
    BY <1>13 DEF RelayFires, IInv, TypeOK
  <2> QED
    BY <1>13, <2>1, Unheard DEF RelayFires
<1>14. CASE RelayEnds
  <2>1. TypeOK'
    BY <1>14 DEF RelayEnds, IInv, TypeOK
  <2> QED
    BY <1>14, <2>1, Unheard DEF RelayEnds
<1>15. CASE UNCHANGED vars
  <2>1. TypeOK'
    BY <1>15 DEF vars, IInv, TypeOK
  <2> QED
    BY <1>15, <2>1, Unheard DEF vars
<1> QED
  BY <1>1, <1>2, <1>3, <1>4, <1>5, <1>6, <1>7, <1>8, <1>9, <1>10, <1>11,
     <1>12, <1>13, <1>14, <1>15 DEF Next, SeatStep, LoopStep

(* The watch's memory covers what the room has had, in every state of every *)
(* behaviour of mcpjobs.Watcher.                                           *)
THEOREM Invariance == Spec => []IInv
BY InitIInv, NextIInv, PTL DEF Spec

(* The variables keep their types, and only a poll that is under way has an *)
(* answer coming.                                                          *)
THEOREM TypeCorrect == Spec => []TypeOK
<1>1. IInv => TypeOK
  BY DEF IInv
<1> QED
  BY <1>1, Invariance, PTL

(* However polls, seats' calls and follow-up requests meet, a job that      *)
(* done_jobs counts, and a question in `asked`, was posted or told, or its  *)
(* post failed; or it is a job that a seat was told is idle before any      *)
(* result was out, or a question that a pending result outranked.          *)
THEOREM NoNewsEverLost == Spec => []NoNewsLost
<1>1. IInv => NoNewsLost
  BY DEF IInv
<1> QED
  BY <1>1, Invariance, PTL

(* The server's question or result is posted at most once in a watch, and   *)
(* never after a seat had it from its own call, or after it was missed.    *)
THEOREM NothingEverRepeated == Spec => NothingRepeated
<1>1. ASSUME IInv, [Next]_vars
      PROVE  [\A news \in News :
                said' = Append(said, news)
                  => /\ news \notin told \cup missed
                     /\ \A i \in DOMAIN said : said[i] # news]_vars
  <2> SUFFICES ASSUME Next, NEW news \in News, said' = Append(said, news)
               PROVE  news \notin told \cup missed /\ ~Said(news)
    BY <1>1 DEF Said
  <2>1. CASE PollReturns
    BY <1>1, <2>1, PolledBlock
  <2>2. CASE UNCHANGED said
    <3>1. said \in Seq(News) /\ Len(said) \in Nat
      BY <1>1 DEF IInv, TypeOK
    <3>2. Len(Append(said, news)) = Len(said) + 1
      BY <3>1
    <3> QED
      BY <2>2, <3>1, <3>2
  <2> QED
    BY <2>1, <2>2 DEF Next, SeatStep, LoopStep, ChatMoves, SeatCalls, StartWatch,
       SeatReturns, SeatReturnsUnwatched, PollStarts, PollFails, WakesFinished,
       PollAnswered, Lost, Stop, RelayFires, RelayEnds, relayVars
<1> QED
  BY <1>1, Invariance, PTL DEF Spec, NothingRepeated
=============================================================================
