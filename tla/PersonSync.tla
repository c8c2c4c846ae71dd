----------------------------- MODULE PersonSync -----------------------------
(* The sync pass between the store of remembered voices and membro:         *)
(* person_sync.py.                                                          *)
(*                                                                          *)
(* One pass runs at a time, on its own thread, while the owner goes on      *)
(* using the store (VoiceBank).  Each read of the store, write to it and    *)
(* request to membro is an action; those that no act of the owner can tell  *)
(* apart are one.  A request may fail and end the pass, or be refused and   *)
(* the pass goes on without it, and the process may die: what was not done  *)
(* is left to the next pass.                                                *)
(*                                                                          *)
(* Membro is external: it is what the routes the pass calls do.  Its people *)
(* go by slug, the id of whoever pushed them first.                         *)
EXTENDS VoiceBank

CONSTANT MaxFaults  \* bound: requests that fail, and forgets on membro's side

ASSUME FaultsAssumption == MaxFaults \in Nat

VARIABLES
  living,   \* the people of membro
  dead,     \* those it forgot or merged away
  mname,    \* the name of a person there
  aka,      \* the names, aliases too, that are theirs there
  holds,    \* the clips it holds for a person
  news,     \* people changed since the watermark
  pc,
  listed,   \* the people the pass was told of, unchanged there since
  fresh,    \* those of them who lived when it was told
  snap,     \* slugs by local id, as the pass read them
  people,   \* the people of the store, as the pass read them
  todo,     \* people, or slugs, left in the loop at hand
  who,      \* the person at hand
  up, want, \* the clips to send, and to fetch, for that person
  rows,     \* the corrections left to replay
  done,     \* those that landed
  pending,  \* clips a correction names
  offered,  \* clips offered back to a bank by this process
  faults,
  crossed,  \* clips whose correction crossed a pass, or came to nothing
  orphans   \* people who went behind the pass's back

membroVars == <<living, dead, mname, aka, holds, news>>
passVars   == <<listed, fresh, snap, people, todo, who, up, want, rows, done,
                pending>>
ghostVars  == <<crossed, orphans>>
vars == <<bankVars, membroVars, pc, passVars, offered, faults, ghostVars>>

TypeOK ==
  /\ BankTypeOK
  /\ living \subseteq Ids /\ dead \subseteq Ids /\ living \cap dead = {}
  /\ mname \in [Ids -> Names] /\ aka \in [Ids -> SUBSET Names]
  /\ holds \in [Ids -> SUBSET Clips]
  /\ news \subseteq Ids /\ listed \subseteq Ids /\ fresh \subseteq Ids
  /\ pc \in {"idle", "mirror", "build", "clips", "push", "pushed", "replay",
             "settle", "people", "diff"}
  /\ snap \in [Ids -> Id0] /\ people \subseteq Ids /\ todo \subseteq Ids
  /\ who \in Id0 /\ up \subseteq Clips /\ want \subseteq Clips
  /\ rows \in Seq(Correction) /\ done \subseteq Nat /\ pending \subseteq Clips
  /\ offered \subseteq Ids \X Clips
  /\ faults \in 0..MaxFaults
  /\ crossed \subseteq Clips /\ orphans \subseteq Ids

Blank ==
  /\ listed = {} /\ fresh = {} /\ snap = [p \in Ids |-> 0]
  /\ people = {} /\ todo = {}
  /\ who = 0 /\ up = {} /\ want = {} /\ rows = <<>> /\ done = {}
  /\ pending = {}

Init ==
  /\ BankInit
  /\ living = {} /\ dead = {} /\ news = {}
  /\ mname = name /\ aka = [s \in Ids |-> {}] /\ holds = [s \in Ids |-> {}]
  /\ pc = "idle" /\ Blank
  /\ offered = {} /\ faults = 0 /\ crossed = {} /\ orphans = {}

(* The store lists its people by created_at, which goes up with the ids. *)
Eldest(p) == p \in todo /\ \A q \in todo : p <= q

Changed(S) == news' = news \cup S /\ listed' = listed \ S

-----------------------------------------------------------------------------
(* PULL.  Forget marks first, before any rebuild. *)

Begin ==
  /\ pc = "idle"
  /\ pc' = "mirror" /\ listed' = news /\ snap' = slug
  /\ todo' = news \cap dead /\ fresh' = news \cap living
  /\ UNCHANGED <<bankVars, membroVars, people, who, up, want, rows, done,
                 pending, offered, faults, ghostVars>>

Mirror(s) ==
  /\ pc = "mirror" /\ s \in todo
  /\ IF \E p \in known : snap[p] = s
     THEN \E p \in known : snap[p] = s /\ ForgetHere(p)
     ELSE UNCHANGED bankVars
  /\ todo' = todo \ {s}
  /\ UNCHANGED <<membroVars, pc, listed, fresh, snap, people, who, up, want,
                 rows, done, pending, offered, faults, ghostVars>>

Forgets == {ledger[i].slug : i \in {j \in DOMAIN ledger :
                                      ledger[j].kind = "forget"}}

(* Their forget is on its way to membro, or membro's mark on its way back.  *)
BeingForgotten == Forgets \cup (dead \cap news)

(* The living people not held here, and not about to be forgotten there. *)
ReadForgets ==
  /\ pc = "mirror" /\ todo = {}
  /\ pc' = "build" /\ fresh' = {}
  /\ todo' = {s \in fresh : (\A p \in Ids : snap[p] # s) /\ s \notin Forgets}
  /\ UNCHANGED <<bankVars, membroVars, listed, snap, people, who, up, want,
                 rows, done, pending, offered, faults, ghostVars>>

(* A name that resolves to somebody who has a slug keeps that one.  Whom    *)
(* membro forgot since the pass was told has no clips there any more.       *)
Build(s) ==
  LET P == IF Named(mname[s]) = {} THEN Unused ELSE {Find(mname[s])}
  IN /\ pc = "build" /\ s \in todo
     /\ todo' = todo \ {s}
     /\ IF \E p \in P : slug[p] = 0
        THEN \E p \in P :
               /\ Rebuild(p, mname[s], s)
               /\ who' = p /\ want' = holds[s] /\ pc' = "clips"
        ELSE UNCHANGED <<bankVars, who, want, pc>>
     /\ UNCHANGED <<membroVars, listed, fresh, snap, people, up, rows, done,
                    pending, offered, faults, ghostVars>>

\* Mutant: only a move is taken to name a clip.
ShasOfMoves == {ledger[i].sha : i \in {j \in DOMAIN ledger :
                                          ledger[j].kind = "move"}}

(* Clips that a correction names. *)
Shas == {ledger[i].sha : i \in DOMAIN ledger} \ {NoClip}

(* Clips that others have, of somebody who is to be forgotten: if one is    *)
(* fetched, the bank of p has it too until membro's mark comes.             *)
Doubled(p) ==
  IF slug[p] \in BeingForgotten THEN UNION {bank[q] : q \in Ids \ {p}} ELSE {}

PullClip(c) ==
  /\ pc = "clips" /\ c \in want
  /\ AddClip(who, c)
  /\ want' = want \ {c}
  /\ crossed' = crossed \cup ({c} \cap (Shas \cup Doubled(who)))
  /\ UNCHANGED <<membroVars, pc, listed, fresh, snap, people, todo, who, up,
                 rows, done, pending, offered, faults, orphans>>

Pulled ==
  /\ pc = "clips" /\ want = {}
  /\ pc' = "build" /\ who' = 0
  /\ UNCHANGED <<bankVars, membroVars, listed, fresh, snap, people, todo, up,
                 want, rows, done, pending, offered, faults, ghostVars>>

-----------------------------------------------------------------------------
(* PUSH people.  Membro refuses a name that is another of its people's.     *)

ReadPeople ==
  /\ pc = "build" /\ todo = {}
  /\ pc' = "push" /\ people' = known /\ todo' = known
  /\ UNCHANGED <<bankVars, membroVars, listed, fresh, snap, who, up, want,
                 rows, done, pending, offered, faults, ghostVars>>

Aliases(p) == {name[p]} \cup also[p]

Conflicts(p) ==
  p \in dead \/ \E s \in living \ {p} : aka[s] \cap Aliases(p) # {}

Push(p) ==
  /\ pc = "push" /\ Eldest(p)
  /\ todo' = todo \ {p}
  /\ IF slug[p] # 0 \/ Conflicts(p)
     THEN UNCHANGED <<living, mname, aka, news, listed, pc, who>>
     ELSE /\ living' = living \cup {p}
          /\ mname' = [mname EXCEPT ![p] = name[p]]
          /\ aka' = [aka EXCEPT ![p] = Aliases(p)]
          /\ Changed({p})
          /\ pc' = "pushed" /\ who' = p
  /\ UNCHANGED <<bankVars, dead, holds, fresh, snap, people, up, want, rows,
                 done, pending, offered, faults, ghostVars>>

(* Any other refusal: the person waits for the next pass. *)
PushRefused(p) ==
  /\ pc = "push" /\ Eldest(p) /\ slug[p] = 0 /\ faults < MaxFaults
  /\ faults' = faults + 1 /\ todo' = todo \ {p}
  /\ UNCHANGED <<bankVars, membroVars, pc, listed, fresh, snap, people, who,
                 up, want, rows, done, pending, offered, ghostVars>>

Pushed ==
  /\ pc = "pushed"
  /\ SetSlug(who, who)
  /\ pc' = "push" /\ who' = 0
  /\ UNCHANGED <<membroVars, listed, fresh, snap, people, todo, up, want, rows,
                 done, pending, offered, faults, ghostVars>>

-----------------------------------------------------------------------------
(* REPLAY the corrections (_replay_corrections). *)

ReadLedger ==
  /\ pc = "push" /\ todo = {}
  /\ pc' = "replay" /\ rows' = ledger /\ snap' = slug
  /\ UNCHANGED <<bankVars, membroVars, listed, fresh, people, todo, who, up,
                 want, done, pending, offered, faults, ghostVars>>

SlugOf(p) == IF p = 0 THEN 0 ELSE snap[p]
Source(r) == IF r.slug # 0 THEN r.slug ELSE SlugOf(r.from)

\* Mutant: a clip that is not there to correct is waited for.
WaitsForTheClip(r) ==
  \/ r.kind = "merge" /\ SlugOf(r.to) = 0
  \/ /\ r.kind \in {"move", "delete"} /\ Source(r) # 0
     /\ r.sha \notin holds[Source(r)]

(* The target is not pushed yet: the row stays for the next pass. *)
Waits(r) ==
  \/ r.kind = "move" /\ Source(r) # 0 /\ SlugOf(r.to) = 0
  \/ r.kind = "merge" /\ SlugOf(r.to) = 0

(* Membro holds what the row corrects; otherwise it has converged. *)
Applies(r) ==
  CASE r.kind = "move"   -> /\ Source(r) \in living /\ SlugOf(r.to) \in living
                            /\ r.sha \in holds[Source(r)]
    [] r.kind = "delete" -> /\ Source(r) \in living
                            /\ r.sha \in holds[Source(r)]
    [] r.kind = "merge"  -> /\ {r.slug, SlugOf(r.to)} \subseteq living
                            /\ r.slug # SlugOf(r.to)
    [] r.kind = "forget" -> r.slug \in living

(* A move onto itself is taken for a second copy, and deleted. *)
ClipsAfter(r) ==
  LET taken == [holds EXCEPT ![Source(r)] = @ \ {r.sha}]
  IN CASE r.kind = "move"   -> IF Source(r) = SlugOf(r.to) THEN taken
                               ELSE [taken EXCEPT ![SlugOf(r.to)] = @ \cup {r.sha}]
       [] r.kind = "delete" -> taken
       [] r.kind = "merge"  ->
            [holds EXCEPT ![SlugOf(r.to)] = @ \cup holds[r.slug],
                          ![r.slug] = {}]
       [] r.kind = "forget" -> [holds EXCEPT ![r.slug] = {}]

Leavers(r) == IF r.kind \in {"merge", "forget"} THEN {r.slug} ELSE {}

(* Rows before r that wait for the next pass, as they are now. *)
Before(r) == {ledger[i] : i \in {j \in DOMAIN ledger :
                ledger[j].cid \notin done /\ ledger[j].cid < r.cid}}

(* They are to bring clip c to s, or to take it, or s and all, away. *)
Brings(l, s, c) ==
  /\ SlugOf(l.to) = s
  /\ \/ l.kind = "move" /\ l.sha = c
     \/ l.kind = "merge" /\ c \in holds[l.slug]

Removes(l, s, c) ==
  \/ l.kind \in {"move", "delete"} /\ l.sha = c /\ Source(l) = s
  \/ l.kind = "forget" /\ l.slug = s

(* A row is done with, and what it corrects is still there: it was to go to *)
(* somebody membro forgot, or a row before it, which waits, is yet to bring *)
(* the clip to where this row takes it from.  Or the row is a merge, and    *)
(* takes along a clip that a row before it, which waits, looks for there.   *)
Stranded(r) ==
  {c \in Clips :
     \/ /\ r.kind = "move" /\ c = r.sha /\ SlugOf(r.to) \in dead
     \/ /\ r.kind = "merge" /\ c \in holds[r.slug]
        /\ \/ SlugOf(r.to) \in dead
           \/ /\ SlugOf(r.to) \in living
              /\ \E l \in Before(r) : Removes(l, r.slug, c)
     \/ /\ r.kind \in {"move", "delete"} /\ c = r.sha /\ ~Waits(r)
        /\ \E l \in Before(r) : Brings(l, Source(r), c)}

Replay ==
  /\ pc = "replay" /\ rows # <<>>
  /\ LET r == Head(rows)
     IN /\ done' = IF Waits(r) THEN done ELSE done \cup {r.cid}
        /\ IF ~Waits(r) /\ Applies(r)
           THEN /\ holds' = ClipsAfter(r)
                /\ living' = living \ Leavers(r) /\ dead' = dead \cup Leavers(r)
                /\ Changed(Leavers(r))
           ELSE UNCHANGED <<holds, living, dead, news, listed>>
  /\ crossed' = crossed \cup Stranded(Head(rows))
  /\ rows' = Tail(rows)
  /\ UNCHANGED <<bankVars, mname, aka, pc, fresh, snap, people, todo, who, up,
                 want, pending, offered, faults, orphans>>

(* A request is made for the row; a correction of a clip is looked up       *)
(* first, and posted when membro has the clip.                              *)
Requested(r) ==
  ~Waits(r) /\ (r.kind \in {"move", "delete"} => Source(r) # 0)

Posted(r) ==
  /\ Requested(r)
  /\ r.kind \in {"move", "delete"} =>
       Source(r) \in living /\ r.sha \in holds[Source(r)]

(* Membro went away, or would not say what it holds: the rows that landed   *)
(* are still taken off the ledger.  Or it refused this one, and the pass    *)
(* goes on to the next.                                                     *)
ReplayFails ==
  /\ pc = "replay" /\ rows # <<>> /\ faults < MaxFaults
  /\ faults' = faults + 1
  /\ \/ Requested(Head(rows)) /\ rows' = <<>>
     \/ Posted(Head(rows)) /\ rows' = Tail(rows)
  /\ UNCHANGED <<bankVars, membroVars, pc, listed, fresh, snap, people, todo,
                 who, up, want, done, pending, offered, ghostVars>>

TakeOff ==
  /\ pc = "replay" /\ rows = <<>>
  /\ RemoveCorrections(done)
  /\ pc' = "settle" /\ done' = {}
  /\ UNCHANGED <<membroVars, listed, fresh, snap, people, todo, who, up, want,
                 rows, pending, offered, faults, ghostVars>>

-----------------------------------------------------------------------------
(* PUSH clips and RESTORE, one person at a time. *)

ReadPending ==
  /\ pc = "settle"
  /\ pc' = "people" /\ pending' = Shas /\ todo' = people
  /\ UNCHANGED <<bankVars, membroVars, listed, fresh, snap, people, who, up,
                 want, rows, done, offered, faults, ghostVars>>

Offered(p) == {c \in Clips : <<p, c>> \in offered}

(* A bank that has enough takes nothing back; a clip that was fetched from  *)
(* membro does not go up while a correction names it.                       *)
Diff(p) ==
  /\ pc = "people" /\ Eldest(p)
  /\ todo' = todo \ {p}
  /\ IF slug[p] \in living
     THEN /\ who' = p /\ pc' = "diff"
          /\ snap' = [snap EXCEPT ![p] = slug[p]]
          /\ up' \in {bank[p] \ holds[slug[p]],
                     bank[p] \ (holds[slug[p]] \cup pending)}
          /\ want' \in {{}, holds[slug[p]] \ (bank[p] \cup pending \cup Offered(p))}
     ELSE UNCHANGED <<who, pc, snap, up, want>>
  /\ UNCHANGED <<bankVars, membroVars, listed, fresh, people, rows, done,
                 pending, offered, faults, ghostVars>>

Upload(c) ==
  /\ pc = "diff" /\ c \in up
  /\ up' = up \ {c}
  /\ holds' = IF c \in bank[who] /\ snap[who] \in living
              THEN [holds EXCEPT ![snap[who]] = @ \cup {c}] ELSE holds
  /\ UNCHANGED <<bankVars, living, dead, mname, aka, news, pc, listed, fresh,
                 snap, people, todo, who, want, rows, done, pending, offered,
                 faults, ghostVars>>

Restore(c) ==
  /\ pc = "diff" /\ up = {} /\ c \in want
  /\ want' = want \ {c}
  /\ IF c \in holds[snap[who]]
     THEN AddClip(who, c) /\ offered' = offered \cup {<<who, c>>}
     ELSE UNCHANGED <<bankVars, offered>>
  /\ crossed' = crossed \cup ({c} \cap Doubled(who))
  /\ UNCHANGED <<membroVars, pc, listed, fresh, snap, people, todo, who, up,
                 rows, done, pending, faults, orphans>>

(* Requests for clips at hand are refused, or the list of them: the next    *)
(* pass sees.                                                               *)
ClipsRefused ==
  /\ pc \in {"clips", "diff"} /\ faults < MaxFaults
  /\ faults' = faults + 1
  /\ up' \in SUBSET up /\ want' \in SUBSET want
  /\ <<up', want'>> # <<up, want>>
  /\ UNCHANGED <<bankVars, membroVars, pc, listed, fresh, snap, people, todo,
                 who, rows, done, pending, offered, ghostVars>>

NextPerson ==
  /\ pc = "diff" /\ up = {} /\ want = {}
  /\ pc' = "people" /\ who' = 0
  /\ UNCHANGED <<bankVars, membroVars, listed, fresh, snap, people, todo, up,
                 want, rows, done, pending, offered, faults, ghostVars>>

-----------------------------------------------------------------------------

Stopped ==
  /\ pc' = "idle"
  /\ listed' = {} /\ fresh' = {} /\ snap' = [p \in Ids |-> 0]
  /\ people' = {} /\ todo' = {}
  /\ who' = 0 /\ up' = {} /\ want' = {} /\ rows' = <<>> /\ done' = {}
  /\ pending' = {}

(* The watermark passes what the pass was told of. *)
Finish ==
  /\ pc = "people" /\ todo = {}
  /\ Stopped
  /\ news' = news \ listed
  /\ UNCHANGED <<bankVars, living, dead, mname, aka, holds, offered, faults,
                 ghostVars>>

(* A request fails, or the process dies and forgets what it offered. *)
Fail ==
  /\ pc # "idle" /\ faults < MaxFaults
  /\ faults' = faults + 1
  /\ Stopped
  /\ offered' \in {offered, {}}
  /\ UNCHANGED <<bankVars, membroVars, ghostVars>>

MembroForgets(s) ==
  /\ s \in living /\ faults < MaxFaults
  /\ faults' = faults + 1
  /\ living' = living \ {s} /\ dead' = dead \cup {s}
  /\ holds' = [holds EXCEPT ![s] = {}]
  /\ Changed({s})
  /\ UNCHANGED <<bankVars, mname, aka, pc, fresh, snap, people, todo, who, up,
                 want, rows, done, pending, offered, ghostVars>>

(* What the owner does while a pass is under way: clips that change hands   *)
(* once the pass has read the ledger, people it does not know it pushed,    *)
(* and the merges into a person forgotten while it replays them (the row    *)
(* becomes a forget and keeps its id, so the pass takes it off).            *)
Touched ==
  IF pc \notin {"replay", "settle", "people", "diff"} THEN {}
  ELSE {c \in Clips : \E p \in Ids : c \in bank[p] /\ c \notin bank'[p]}

Unseen == {p \in known \ known' :
             /\ slug[p] = 0
             /\ p \in living \/ (pc \in {"push", "pushed"} /\ p \in todo)}

Replayed == {ledger[i].slug : i \in {j \in DOMAIN ledger :
               /\ pc = "replay" /\ ledger[j].kind = "merge"
               /\ ledger[j].to \in known \ known'}}

(* A pending move that membro has made, or is being asked to, into somebody *)
(* who goes: the store takes the clip to be where it was.                   *)
Carried == {ledger[i].sha : i \in {j \in DOMAIN ledger :
              /\ ledger[j].kind = "move" /\ ledger[j].to \in known \ known'
              /\ \/ pc = "replay"
                 \/ \E s \in living : /\ s = slug[ledger[j].to]
                                      /\ ledger[j].sha \in holds[s]}}

(* A pending correction of somebody who is merged away, of a clip that      *)
(* membro still has under a person it is yet to merge with them: it is      *)
(* rewritten to look for the clip where membro does not have it.            *)
Misnamed == {ledger[i].sha : i \in {j \in DOMAIN ledger :
               /\ ledger[j].kind \in {"move", "delete"}
               /\ ledger[j].from \in known \ known'
               /\ \E k \in DOMAIN ledger :
                    /\ ledger[k].kind = "merge"
                    /\ ledger[k].to = ledger[j].from
                    /\ ledger[j].sha \in holds[ledger[k].slug]}}

OwnerActs ==
  /\ Owner
  /\ crossed' = crossed \cup Touched \cup Carried \cup Misnamed
  /\ orphans' = orphans \cup Unseen \cup Replayed
  /\ UNCHANGED <<membroVars, pc, passVars, offered, faults>>

Pass ==
  \/ Begin \/ ReadForgets \/ Pulled \/ ReadPeople \/ Pushed
  \/ ReadLedger \/ Replay \/ TakeOff \/ ReadPending \/ NextPerson \/ Finish
  \/ \E s \in Ids : Mirror(s) \/ Build(s) \/ Push(s) \/ Diff(s)
  \/ \E c \in Clips : PullClip(c) \/ Upload(c) \/ Restore(c)

Next ==
  \/ Pass \/ OwnerActs \/ ReplayFails \/ ClipsRefused \/ Fail
  \/ \E s \in Ids : PushRefused(s) \/ MembroForgets(s)

Spec == Init /\ [][Next]_vars

(* A pass follows every round, at startup and every forget. *)
FairSpec == Spec /\ WF_vars(Pass)

-----------------------------------------------------------------------------
(* A clip the owner deleted, or whose person they forgot, does not come     *)
(* back to a bank for good, whatever was pending when it went and however   *)
(* often a pass was cut short, unless the owner moved it since or merged    *)
(* its person.  The exceptions (crossed): it ever changed hands between the *)
(* moment a pass read the ledger and the end of that pass (Touched), was    *)
(* fetched with a rebuilt person while a correction named it (PullClip), or *)
(* with a person to be forgotten while somebody else had it (Doubled), or a *)
(* correction of it came to nothing (Stranded, Carried, Misnamed): so a     *)
(* delete that a pass settles while an earlier move of the clip, refused by *)
(* membro or with nowhere to go yet, is still to bring it there.            *)
StaysRemoved ==
  \A p \in known :
     slug[p] \notin BeingForgotten => bank[p] \cap removed \subseteq crossed

(* Nobody the owner forgot is rebuilt from membro's copy for good, but      *)
(* somebody forgotten before the store knew that membro has them, or the    *)
(* loser of a merge that was being replayed when its winner was forgotten.  *)
NobodyReturns ==
  \A p \in known : slug[p] \in forgot => slug[p] \in orphans \cup BeingForgotten

(* Once the owner rests, every correction lands, and membro holds what the  *)
(* banks do and nothing the owner removed, but for a person whose name      *)
(* membro keeps for somebody else, and what waits for that person.          *)
Refused(p) == p \in known /\ slug[p] = 0 /\ Conflicts(p)

Converged ==
  /\ \A i \in DOMAIN ledger : Refused(ledger[i].to)
  /\ \A p \in known : \/ Refused(p)
                      \/ /\ slug[p] \in living
                         /\ bank[p] \ Shas \subseteq holds[slug[p]]
  /\ \A s \in living : \/ holds[s] \cap removed \subseteq crossed
                       \/ \E i \in DOMAIN ledger : s = ledger[i].slug

Converges == <>[]Converged

(* person_sync.py, of a correction: "Consumed when they land OR have already *)
(* converged (the clip or person is not there to correct)", as "dropping a   *)
(* correction silently is how a fixed mis-attribution resurrects".           *)
SettledWhenCorrected ==
  [][pc = "replay" /\ rows # <<>> /\ done' # done =>
       LET r == Head(rows)
       IN r.kind = "delete" =>
            \A l \in Before(r) : ~Brings(l, Source(r), r.sha)]_vars

(* person_sync.py: "A clip a correction still names is never offered back". *)
NeverOfferedBack ==
  [][offered' # offered =>
       \A p \in known : (bank'[p] \ bank[p]) \cap Shas = {}]_vars

=============================================================================
