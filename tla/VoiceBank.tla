----------------------------- MODULE VoiceBank -----------------------------
(* The store of remembered voices: AnchorStore of anchors.py, what the      *)
(* owner does to it, and the ledger of corrections it keeps for membro.     *)
(*                                                                          *)
(* A person is a local id.  A voice clip is its content address.  Every     *)
(* operation rewrites the index under the store's lock: it is one action.   *)
EXTENDS Integers, Sequences, FiniteSets

CONSTANTS
  Ids,     \* local ids, 1..n: an id is used once
  Names,
  Clips,   \* voice clips
  NoClip,
  MaxActs  \* bound: acts of the owner

VARIABLES
  known,   \* the ids of the index
  name,    \* the name of a person
  also,    \* the names merged into it
  slug,    \* membro_slug: the id under which membro knows them, or 0
  bank,    \* the clips of a person
  ledger,  \* pending_corrections
  used,    \* ids used
  acts,    \* acts of the owner, and so the corrections recorded
  removed, \* clips the owner deleted, or whose person they forgot, but for
           \* those they moved since, or merged with their person
  forgot   \* people the owner forgot, by slug if they had one

ASSUME BankAssumption ==
  Ids \subseteq Nat \ {0} /\ NoClip \notin Clips /\ MaxActs \in Nat

bankVars == <<known, name, also, slug, bank, ledger, used, acts,
              removed, forgot>>

Id0 == Ids \cup {0}

(* slug is from_slug of a move or delete, the loser of a merge, and the     *)
(* person of a forget; "to" is the winner of a merge.                       *)
Correction == [kind : {"move", "delete", "merge", "forget"}, from : Id0,
               to : Id0, sha : Clips \cup {NoClip}, slug : Id0, cid : Nat]

BankTypeOK ==
  /\ known \subseteq used /\ used \subseteq Ids
  /\ name \in [Ids -> Names] /\ also \in [Ids -> SUBSET Names]
  /\ slug \in [Ids -> Id0]
  /\ bank \in [Ids -> SUBSET Clips]
  /\ ledger \in Seq(Correction)
  /\ acts \in 0..MaxActs
  /\ removed \subseteq Clips /\ forgot \subseteq Ids

MoveOf(p, q, c) == [kind |-> "move", from |-> p, to |-> q, sha |-> c,
                    slug |-> 0, cid |-> acts]
DeleteOf(p, c)  == [kind |-> "delete", from |-> p, to |-> 0, sha |-> c,
                    slug |-> 0, cid |-> acts]
MergeOf(s, p)   == [kind |-> "merge", from |-> 0, to |-> p, sha |-> NoClip,
                    slug |-> s, cid |-> acts]
ForgetOf(s)     == [kind |-> "forget", from |-> 0, to |-> 0, sha |-> NoClip,
                    slug |-> s, cid |-> acts]

Named(n) == {p \in known : n = name[p] \/ n \in also[p]}

(* find_by_name: a person's own name comes before those merged into one. *)
Find(n) ==
  LET own == {p \in known : name[p] = n}
  IN CHOOSE p \in (IF own # {} THEN own ELSE Named(n)) : TRUE

(* ensure_person creates under the next id. *)
Unused == IF Ids \subseteq used THEN {}
          ELSE {CHOOSE p \in Ids \ used : \A q \in Ids \ used : p <= q}

(* An installed base that was never synced.  Names are interchangeable: the *)
(* first person has the first of them, and whoever is not there yet.        *)
BankInit ==
  \E first \in SUBSET Ids, own \in [Clips -> Id0] :
    /\ first = 1..Cardinality(first)
    /\ name \in [Ids -> Names]
    /\ \A p, q \in first : name[p] = name[q] => p = q
    /\ \A p \in Ids : p = 1 \/ p \notin first =>
                      name[p] = CHOOSE m \in Names : TRUE
    /\ \A c \in Clips : own[c] \in first \cup {0}
    /\ known = first /\ used = first
    /\ also = [p \in Ids |-> {}]
    /\ slug = [p \in Ids |-> 0]
    /\ bank = [p \in Ids |-> {c \in Clips : own[c] = p}]
    /\ ledger = <<>> /\ acts = 0
    /\ removed = {} /\ forgot = {}

-----------------------------------------------------------------------------
(* _settle_corrections: the rows that name a person about to lose their     *)
(* local id, rewritten so that each can still land.  into is 0 when p is    *)
(* forgotten.  A clip of a retargeted move sits under the survivor from     *)
(* then on: "carried".                                                      *)

\* Mutant: a merge into the person who is forgotten goes with them.
SettleRowDropsMerges(acc, r, p, s, into) ==
  IF r.kind = "merge" /\ r.to = p /\ into = 0 THEN acc
  ELSE [acc EXCEPT !.rows = Append(@, r)]

SettleRow(acc, r, p, s, into) ==
  LET keep(row) == [acc EXCEPT !.rows = Append(@, row)]
  IN CASE r.kind = "merge" /\ r.to = p ->
            IF into # 0 THEN keep([r EXCEPT !.to = into])
            ELSE keep([r EXCEPT !.kind = "forget", !.to = 0])
       [] r.kind = "move" /\ r.to = p ->
            IF into = 0
            THEN keep([r EXCEPT !.kind = "delete", !.to = 0])
            ELSE [rows |-> IF r.from = into THEN acc.rows
                           ELSE Append(acc.rows, [r EXCEPT !.to = into]),
                  carried |-> acc.carried \cup {r.sha}]
       [] r.kind \in {"move", "delete"} /\ r.from = p /\ r.to # p ->
            IF r.sha \in acc.carried
            THEN IF r.kind = "move" /\ r.to = into THEN acc
                 ELSE [rows |-> Append(acc.rows, [r EXCEPT !.from = into,
                                                           !.slug = 0]),
                       carried |-> acc.carried \ {r.sha}]
            ELSE IF s # 0 THEN keep([r EXCEPT !.slug = s]) ELSE acc
       [] OTHER -> keep(r)

Settled(p, s, into) ==
  LET acc[n \in 0..Len(ledger)] ==
        IF n = 0 THEN [rows |-> <<>>, carried |-> {}]
        ELSE SettleRow(acc[n - 1], ledger[n], p, s, into)
  IN acc[Len(ledger)].rows

-----------------------------------------------------------------------------
(* What happens to the store. *)

Act == acts < MaxActs /\ acts' = acts + 1

(* An introduction of somebody who is not known. *)
Introduce(n) ==
  /\ Act /\ Named(n) = {}
  /\ \E p \in Unused :
       /\ known' = known \cup {p} /\ used' = used \cup {p}
       /\ name' = [name EXCEPT ![p] = n]
  /\ UNCHANGED <<also, slug, bank, ledger, removed, forgot>>

(* A clip nobody had is added to the bank of the person who spoke it. *)
Learn(p, c) ==
  /\ Act /\ p \in known
  /\ c \notin removed /\ \A q \in Ids : c \notin bank[q]
  /\ bank' = [bank EXCEPT ![p] = @ \cup {c}]
  /\ UNCHANGED <<known, name, also, slug, ledger, used, removed, forgot>>

DeleteClip(p, c) ==
  /\ Act /\ p \in known /\ c \in bank[p]
  /\ bank' = [bank EXCEPT ![p] = @ \ {c}]
  /\ ledger' = Append(ledger, DeleteOf(p, c))
  /\ removed' = removed \cup {c}
  /\ UNCHANGED <<known, name, also, slug, used, forgot>>

MoveClip(p, q, c) ==
  /\ Act /\ {p, q} \subseteq known /\ p # q /\ c \in bank[p]
  /\ bank' = [bank EXCEPT ![p] = @ \ {c}, ![q] = @ \cup {c}]
  /\ ledger' = Append(ledger, MoveOf(p, q, c))
  /\ removed' = removed \ {c}
  /\ UNCHANGED <<known, name, also, slug, used, forgot>>

(* The index entry goes, with its clips. *)
Gone(p) ==
  /\ known' = known \ {p}
  /\ slug' = [slug EXCEPT ![p] = 0]
  /\ also' = [also EXCEPT ![p] = {}]

ForgetPerson(p) ==
  /\ Act /\ p \in known
  /\ Gone(p)
  /\ bank' = [bank EXCEPT ![p] = {}]
  /\ ledger' = Settled(p, slug[p], 0)
                 \o IF slug[p] = 0 THEN <<>> ELSE <<ForgetOf(slug[p])>>
  /\ removed' = removed \cup bank[p]
  /\ forgot' = forgot \cup {IF slug[p] = 0 THEN p ELSE slug[p]}
                \cup {ledger[i].slug : i \in {j \in DOMAIN ledger :
                        ledger[j].kind = "merge" /\ ledger[j].to = p}}
  /\ UNCHANGED <<name, used>>

(* The older of the two survives. *)
MergePeople(p, q) ==
  /\ Act /\ {p, q} \subseteq known /\ p < q
  /\ known' = known \ {q}
  /\ slug' = [slug EXCEPT ![q] = 0]
  /\ also' = [also EXCEPT ![p] = @ \cup also[q] \cup {name[q]}, ![q] = {}]
  /\ bank' = [bank EXCEPT ![p] = @ \cup bank[q], ![q] = {}]
  /\ ledger' = Settled(q, slug[q], p)
                 \o IF slug[q] = 0 THEN <<>> ELSE <<MergeOf(slug[q], p)>>
  /\ removed' = removed \ bank[q]
  /\ UNCHANGED <<name, used, forgot>>

Owner ==
  \/ \E n \in Names : Introduce(n)
  \/ \E p \in Ids, c \in Clips : Learn(p, c) \/ DeleteClip(p, c)
  \/ \E p, q \in Ids, c \in Clips : MoveClip(p, q, c)
  \/ \E p \in Ids : ForgetPerson(p)
  \/ \E p, q \in Ids : MergePeople(p, q)

-----------------------------------------------------------------------------
(* What the sync pass asks of the store. *)

(* forget(record=False): membro forgot them first. *)
ForgetHere(p) ==
  /\ Gone(p)
  /\ bank' = [bank EXCEPT ![p] = {}]
  /\ ledger' = Settled(p, slug[p], 0)
  /\ UNCHANGED <<name, used, acts, removed, forgot>>

SetSlug(p, s) ==
  /\ slug' = IF p \in known THEN [slug EXCEPT ![p] = s] ELSE slug
  /\ UNCHANGED <<known, name, also, bank, ledger, used, acts, removed, forgot>>

(* add_clip takes a clip for a person of the index only. *)
AddClip(p, c) ==
  /\ bank' = IF p \in known THEN [bank EXCEPT ![p] = @ \cup {c}] ELSE bank
  /\ UNCHANGED <<known, name, also, slug, ledger, used, acts, removed, forgot>>

\* Mutant: the id handed out is not written down as used.
RebuildUnrecorded(p, n, s) ==
  /\ known' = known \cup {p}
  /\ name' = IF p \in used THEN name ELSE [name EXCEPT ![p] = n]
  /\ slug' = [slug EXCEPT ![p] = s]
  /\ UNCHANGED <<also, bank, ledger, used, acts, removed, forgot>>

(* ensure_person, then set_membro_slug for a person that has none yet. *)
Rebuild(p, n, s) ==
  /\ known' = known \cup {p} /\ used' = used \cup {p}
  /\ name' = IF p \in used THEN name ELSE [name EXCEPT ![p] = n]
  /\ slug' = [slug EXCEPT ![p] = s]
  /\ UNCHANGED <<also, bank, ledger, acts, removed, forgot>>

Without(cids) ==
  LET left[n \in 0..Len(ledger)] ==
        IF n = 0 THEN <<>>
        ELSE IF ledger[n].cid \in cids THEN left[n - 1]
             ELSE Append(left[n - 1], ledger[n])
  IN left[Len(ledger)]

RemoveCorrections(cids) ==
  /\ ledger' = Without(cids)
  /\ UNCHANGED <<known, name, also, slug, bank, used, acts, removed, forgot>>

=============================================================================
