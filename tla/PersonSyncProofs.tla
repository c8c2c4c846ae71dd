-------------------------- MODULE PersonSyncProofs --------------------------
(***************************************************************************)
(* Theorems about the sync of remembered voices: its types, what settling  *)
(* the ledger keeps, that nobody the owner forgot is rebuilt for good, and *)
(* that no clip they deleted comes back to a bank.                         *)
(***************************************************************************)
EXTENDS PersonSync, WellFoundedInduction, TLAPS

-----------------------------------------------------------------------------
(* Recursion along a sequence.                                             *)

LEMMA Least ==
  ASSUME NEW S \in SUBSET Nat, S # {}
  PROVE  \E i \in S : \A j \in S : i <= j
<1>1. PICK i \in S : \A j \in S : ~(j < i)
  <2>1. \E i \in S : \A j \in S : ~(<<j, i>> \in OpToRel(<, Nat))
    BY NatLessThanWellFounded, WFMin
  <2> QED
    BY <2>1 DEF OpToRel
<1> QED
  BY <1>1

LEMMA Climb ==
  ASSUME NEW N \in Nat, NEW S, 0 \in S,
         \A n \in 1..N : n - 1 \in S => n \in S
  PROVE  \A n \in 0..N : n \in S
<1> DEFINE Bad == {n \in 0..N : n \notin S}
<1>1. Bad = {}
  <2> SUFFICES ASSUME Bad # {} PROVE FALSE
    OBVIOUS
  <2>0. Bad \in SUBSET Nat
    OBVIOUS
  <2> HIDE DEF Bad
  <2>1. PICK n \in Bad : \A m \in Bad : n <= m
    BY <2>0, Least
  <2> USE DEF Bad
  <2>2. n \in 1..N /\ n - 1 \in 0..N /\ n - 1 \notin Bad
    BY <2>1
  <2> QED
    BY <2>1, <2>2
<1> QED
  BY <1>1

(* A function along 0..N that goes by a step from one value to the next.   *)
Runs(f, N, base, step) ==
  f[0] = base /\ \A n \in 1..N : f[n] = step[<<n, f[n - 1]>>]

LEMMA Recursion ==
  ASSUME NEW N \in Nat, NEW T, NEW base \in T,
         NEW step \in [(1..N) \X T -> T]
  PROVE  \E f \in [0..N -> T] : Runs(f, N, base, step)
<1> DEFINE Good(n, g) == g[0] = base /\ \A k \in 1..n : g[k] = step[<<k, g[k - 1]>>]
           S == {n \in 0..N : \E g \in [0..n -> T] : Good(n, g)}
<1>1. 0 \in S
  <2> DEFINE g == [k \in 0..0 |-> base]
  <2>1. g \in [0..0 -> T] /\ Good(0, g)
    OBVIOUS
  <2> HIDE DEF g
  <2> QED
    BY <2>1
<1>2. ASSUME NEW n \in 1..N, n - 1 \in S
      PROVE  n \in S
  <2>1. PICK g \in [0..(n - 1) -> T] : Good(n - 1, g)
    BY <1>2
  <2> DEFINE h == [k \in 0..n |-> IF k = n THEN step[<<n, g[n - 1]>>] ELSE g[k]]
  <2>2. n - 1 \in 0..(n - 1) /\ 0 \in 0..(n - 1)
    OBVIOUS
  <2>3. g[n - 1] \in T /\ step[<<n, g[n - 1]>>] \in T
    <3>1. g[n - 1] \in T
      BY <2>1, <2>2
    <3> QED
      BY <3>1
  <2>4. h \in [0..n -> T]
    BY <2>1, <2>3
  <2>5. h[0] = base
    BY <2>1
  <2>6. ASSUME NEW k \in 1..n
        PROVE  h[k] = step[<<k, h[k - 1]>>]
    <3>1. k \in 0..n /\ k - 1 \in 0..n /\ k - 1 # n /\ h[k - 1] = g[k - 1]
      OBVIOUS
    <3>2. CASE k = n
      BY <3>1, <3>2
    <3>3. CASE k # n
      <4>1. k \in 1..(n - 1)
        BY <3>3
      <4>2. h[k] = g[k] /\ g[k] = step[<<k, g[k - 1]>>]
        BY <2>1, <3>1, <3>3, <4>1
      <4> QED
        BY <3>1, <4>2
    <3> QED
      BY <3>2, <3>3
  <2> HIDE DEF h
  <2>7. Good(n, h)
    BY <2>5, <2>6
  <2> QED
    BY <2>4, <2>7
<1>3. N \in S
  <2> HIDE DEF S
  <2>1. \A n \in 1..N : n - 1 \in S => n \in S
    BY <1>2
  <2>2. \A n \in 0..N : n \in S
    BY <1>1, <2>1, Climb
  <2> QED
    BY <2>2
<1> QED
  BY <1>3 DEF Runs

-----------------------------------------------------------------------------
(* What settling keeps (AnchorStore._settle_corrections).                  *)

(* A correction that membro can be asked for names a clip or a person.     *)
RowOK(r) ==
  /\ r.kind \in {"move", "delete"} => r.sha \in Clips
  /\ r.kind \in {"merge", "forget"} => r.slug \in Ids

Acc == [rows : Seq(Correction), carried : SUBSET (Clips \cup {NoClip})]

(* A settled row stands for the row it was made from; a merge into a       *)
(* person who is forgotten becomes a forget.                               *)
Stands(q, r, p, into) ==
  /\ q \in Correction /\ RowOK(q) /\ q.cid = r.cid
  /\ \/ q.kind \in {"move", "delete"} /\ r.kind \in {"move", "delete"}
     \/ q.kind = r.kind /\ q.slug = r.slug
     \/ /\ q.kind = "forget" /\ q.slug = r.slug
        /\ r.kind = "merge" /\ r.to = p /\ into = 0

Forgetting(r, p, into) ==
  r.kind = "forget" \/ (r.kind = "merge" /\ r.to = p /\ into = 0)

LEMMA SettleRowIs ==
  ASSUME NEW acc \in Acc, NEW r \in Correction, RowOK(r),
         NEW p \in Ids, NEW s \in Id0, NEW into \in Id0
  PROVE  LET new == SettleRow(acc, r, p, s, into)
         IN /\ new \in Acc
            /\ \/ new.rows = acc.rows /\ ~Forgetting(r, p, into)
               \/ \E q \in Correction :
                    /\ Stands(q, r, p, into) /\ new.rows = Append(acc.rows, q)
                    /\ Forgetting(r, p, into) => q.kind = "forget"
<1> DEFINE new == SettleRow(acc, r, p, s, into)
           Kept(q) == [acc EXCEPT !.rows = Append(@, q)]
<1>0. /\ r.kind \in {"move", "delete", "merge", "forget"}
      /\ r.from \in Id0 /\ r.to \in Id0 /\ r.sha \in Clips \cup {NoClip}
      /\ r.slug \in Id0 /\ r.cid \in Nat
      /\ acc.rows \in Seq(Correction)
      /\ acc.carried \in SUBSET (Clips \cup {NoClip})
  BY DEF Correction, Acc
<1>1. \A q \in Correction : Kept(q) \in Acc /\ Kept(q).rows = Append(acc.rows, q)
  <2> SUFFICES ASSUME NEW q \in Correction
               PROVE  Kept(q) \in Acc /\ Kept(q).rows = Append(acc.rows, q)
    OBVIOUS
  <2>1. Append(acc.rows, q) \in Seq(Correction)
    BY <1>0
  <2> QED
    BY <2>1 DEF Acc
<1>2. ASSUME NEW q \in Correction, NEW S \in SUBSET (Clips \cup {NoClip})
      PROVE  /\ [rows |-> Append(acc.rows, q), carried |-> S] \in Acc
             /\ [rows |-> acc.rows, carried |-> S] \in Acc
  BY <1>0 DEF Acc
<1>3. CASE r.kind = "merge" /\ r.to = p
  <2>1. CASE into # 0
    <3> DEFINE q == [r EXCEPT !.to = into]
    <3>1. new = Kept(q)
      BY <1>3, <2>1 DEF SettleRow
    <3>2. q \in Correction /\ q.kind = "merge" /\ q.slug = r.slug /\ q.cid = r.cid
      BY <1>0, <1>3 DEF Correction
    <3>3. Stands(q, r, p, into)
      BY <3>2, <1>3 DEF Stands, RowOK
    <3>4. ~Forgetting(r, p, into)
      BY <1>3, <2>1 DEF Forgetting
    <3> HIDE DEF q
    <3>5. new \in Acc /\ new.rows = Append(acc.rows, q)
      BY <1>1, <3>1, <3>2
    <3> QED
      BY <3>2, <3>3, <3>4, <3>5
  <2>2. CASE into = 0
    <3> DEFINE q == [r EXCEPT !.kind = "forget", !.to = 0]
    <3>1. new = Kept(q)
      BY <1>3, <2>2 DEF SettleRow
    <3>2. q \in Correction /\ q.kind = "forget" /\ q.slug = r.slug /\ q.cid = r.cid
      BY <1>0, <1>3 DEF Correction, Id0
    <3>3. Stands(q, r, p, into)
      BY <3>2, <1>3, <2>2 DEF Stands, RowOK
    <3> HIDE DEF q
    <3>5. new \in Acc /\ new.rows = Append(acc.rows, q)
      BY <1>1, <3>1, <3>2
    <3> QED
      BY <3>2, <3>3, <3>5
  <2> QED
    BY <2>1, <2>2
<1>4. CASE r.kind = "move" /\ r.to = p
  <2>0. ~Forgetting(r, p, into)
    BY <1>4 DEF Forgetting
  <2>1. CASE into # 0
    <3> DEFINE q == [r EXCEPT !.to = into]
               S == acc.carried \cup {r.sha}
    <3>1. new = [rows |-> IF r.from = into THEN acc.rows ELSE Append(acc.rows, q),
                 carried |-> S]
      BY <1>4, <2>1 DEF SettleRow
    <3>2. q \in Correction /\ q.kind = "move" /\ q.cid = r.cid /\ q.sha = r.sha
      BY <1>0, <1>4 DEF Correction
    <3>3. Stands(q, r, p, into) /\ S \in SUBSET (Clips \cup {NoClip})
      BY <1>0, <3>2, <1>4 DEF Stands, RowOK
    <3> HIDE DEF q, S
    <3>4. /\ [rows |-> Append(acc.rows, q), carried |-> S] \in Acc
          /\ [rows |-> acc.rows, carried |-> S] \in Acc
      BY <1>2, <3>2, <3>3
    <3>5. CASE r.from = into
      <4>1. new = [rows |-> acc.rows, carried |-> S]
        BY <3>1, <3>5
      <4> QED
        BY <4>1, <3>4, <2>0
    <3>6. CASE r.from # into
      <4>1. new = [rows |-> Append(acc.rows, q), carried |-> S]
        BY <3>1, <3>6
      <4> QED
        BY <4>1, <3>2, <3>3, <3>4, <2>0
    <3> QED
      BY <3>5, <3>6
  <2>2. CASE into = 0
    <3> DEFINE q == [r EXCEPT !.kind = "delete", !.to = 0]
    <3>1. new = Kept(q)
      BY <1>4, <2>2 DEF SettleRow
    <3>2. q \in Correction /\ q.kind = "delete" /\ q.cid = r.cid /\ q.sha = r.sha
      BY <1>0, <1>4 DEF Correction, Id0
    <3>3. Stands(q, r, p, into)
      BY <3>2, <1>4 DEF Stands, RowOK
    <3> HIDE DEF q
    <3>5. new \in Acc /\ new.rows = Append(acc.rows, q)
      BY <1>1, <3>1, <3>2
    <3> QED
      BY <3>2, <3>3, <3>5, <2>0
  <2> QED
    BY <2>1, <2>2
<1>5. CASE r.kind \in {"move", "delete"} /\ r.from = p /\ r.to # p
  <2>0. ~Forgetting(r, p, into)
    BY <1>5 DEF Forgetting
  <2>1. CASE r.sha \in acc.carried
    <3> DEFINE q == [r EXCEPT !.from = into, !.slug = 0]
               S == acc.carried \ {r.sha}
    <3>1. new = IF r.kind = "move" /\ r.to = into THEN acc
                ELSE [rows |-> Append(acc.rows, q), carried |-> S]
      BY <1>5, <2>1 DEF SettleRow
    <3>2. q \in Correction /\ q.kind = r.kind /\ q.cid = r.cid /\ q.sha = r.sha
      BY <1>0, <1>5 DEF Correction, Id0
    <3>3. Stands(q, r, p, into) /\ S \in SUBSET (Clips \cup {NoClip})
      BY <1>0, <3>2, <1>5 DEF Stands, RowOK
    <3> HIDE DEF q, S
    <3>4. [rows |-> Append(acc.rows, q), carried |-> S] \in Acc
      BY <1>2, <3>2, <3>3
    <3>5. CASE r.kind = "move" /\ r.to = into
      <4>1. new = acc
        BY <3>1, <3>5
      <4> QED
        BY <4>1, <2>0
    <3>6. CASE ~(r.kind = "move" /\ r.to = into)
      <4>1. new = [rows |-> Append(acc.rows, q), carried |-> S]
        BY <3>1, <3>6
      <4> QED
        BY <4>1, <3>2, <3>3, <3>4, <2>0
    <3> QED
      BY <3>5, <3>6
  <2>2. CASE r.sha \notin acc.carried /\ s # 0
    <3> DEFINE q == [r EXCEPT !.slug = s]
    <3>1. new = Kept(q)
      BY <1>5, <2>2 DEF SettleRow
    <3>2. q \in Correction /\ q.kind = r.kind /\ q.cid = r.cid /\ q.sha = r.sha
      BY <1>0, <1>5 DEF Correction
    <3>3. Stands(q, r, p, into)
      BY <3>2, <1>5 DEF Stands, RowOK
    <3> HIDE DEF q
    <3>5. new \in Acc /\ new.rows = Append(acc.rows, q)
      BY <1>1, <3>1, <3>2
    <3> QED
      BY <3>2, <3>3, <3>5, <2>0
  <2>3. CASE r.sha \notin acc.carried /\ s = 0
    <3>1. new = acc
      BY <1>5, <2>3 DEF SettleRow
    <3> QED
      BY <3>1, <2>0
  <2> QED
    BY <2>1, <2>2, <2>3
<1>6. CASE /\ ~(r.kind = "merge" /\ r.to = p)
           /\ ~(r.kind = "move" /\ r.to = p)
           /\ ~(r.kind \in {"move", "delete"} /\ r.from = p /\ r.to # p)
  <2>1. new = Kept(r)
    BY <1>6 DEF SettleRow
  <2>2. Stands(r, r, p, into)
    BY <1>0 DEF Stands
  <2>3. Forgetting(r, p, into) => r.kind = "forget"
    BY <1>6 DEF Forgetting
  <2>4. new \in Acc /\ new.rows = Append(acc.rows, r)
    BY <1>1, <2>1
  <2> QED
    BY <2>2, <2>3, <2>4
<1> QED
  BY <1>3, <1>4, <1>5, <1>6

LedgerTypes == ledger \in Seq(Correction) /\ \A i \in DOMAIN ledger : RowOK(ledger[i])

(* The rows settled so far, after each row of the ledger.                  *)
LEMMA SettledTrace ==
  ASSUME LedgerTypes, NEW p \in Ids, NEW s \in Id0, NEW into \in Id0
  PROVE  \E f \in [0..Len(ledger) -> Acc] :
           /\ f[0] = [rows |-> <<>>, carried |-> {}]
           /\ \A n \in 1..Len(ledger) :
                f[n] = SettleRow(f[n - 1], ledger[n], p, s, into)
           /\ Settled(p, s, into) = f[Len(ledger)].rows
<1> DEFINE N == Len(ledger)
           base == [rows |-> <<>>, carried |-> {}]
           step == [x \in (1..N) \X Acc |->
                      SettleRow(x[2], ledger[x[1]], p, s, into)]
           Rec(f) == f = [n \in 0..N |-> IF n = 0 THEN base
                            ELSE SettleRow(f[n - 1], ledger[n], p, s, into)]
<1>1. N \in Nat /\ \A n \in 1..N : ledger[n] \in Correction /\ RowOK(ledger[n])
  BY DEF LedgerTypes
<1>2. base \in Acc
  <2>1. <<>> \in Seq(Correction)
    OBVIOUS
  <2> QED
    BY <2>1 DEF Acc
<1>3. step \in [(1..N) \X Acc -> Acc]
  <2>1. ASSUME NEW x \in (1..N) \X Acc
        PROVE  SettleRow(x[2], ledger[x[1]], p, s, into) \in Acc
    <3>1. x[1] \in 1..N /\ x[2] \in Acc
      OBVIOUS
    <3>2. ledger[x[1]] \in Correction /\ RowOK(ledger[x[1]])
      BY <1>1, <3>1
    <3> QED
      BY <3>1, <3>2, SettleRowIs
  <2> QED
    BY <2>1
<1>4. \A a \in Acc, n \in 1..N : step[<<n, a>>] = SettleRow(a, ledger[n], p, s, into)
  OBVIOUS
<1> HIDE DEF base, step, N
<1>5. PICK f \in [0..N -> Acc] : Runs(f, N, base, step)
  BY <1>1, <1>2, <1>3, Recursion
<1>6. \A n \in 1..N : f[n] = SettleRow(f[n - 1], ledger[n], p, s, into)
  <2> SUFFICES ASSUME NEW n \in 1..N
               PROVE  f[n] = SettleRow(f[n - 1], ledger[n], p, s, into)
    OBVIOUS
  <2>1. n - 1 \in 0..N
    BY <1>1
  <2>2. f[n - 1] \in Acc
    BY <2>1, <1>5
  <2> QED
    BY <2>2, <1>4, <1>5 DEF Runs
<1>7. Rec(f)
  <2>1. \A n \in 0..N : f[n] = IF n = 0 THEN base
                              ELSE SettleRow(f[n - 1], ledger[n], p, s, into)
    <3> SUFFICES ASSUME NEW n \in 0..N
                 PROVE  f[n] = IF n = 0 THEN base
                              ELSE SettleRow(f[n - 1], ledger[n], p, s, into)
      OBVIOUS
    <3>1. n = 0 \/ n \in 1..N
      BY <1>1
    <3> QED
      BY <1>5, <1>6, <3>1 DEF Runs
  <2> QED
    BY <1>5, <2>1
<1> DEFINE g == CHOOSE h : Rec(h)
<1>8. Rec(g)
  BY <1>7
<1>9. Settled(p, s, into) = g[N].rows
  BY DEF Settled, N, base
<1>10. /\ g[0] = base
       /\ \A n \in 1..N : g[n] = SettleRow(g[n - 1], ledger[n], p, s, into)
  <2> HIDE DEF g
  <2>1. \A n \in 0..N : g[n] = IF n = 0 THEN base
                              ELSE SettleRow(g[n - 1], ledger[n], p, s, into)
    BY <1>8
  <2>2. 0 \in 0..N /\ \A n \in 1..N : n \in 0..N /\ n # 0
    BY <1>1
  <2> QED
    BY <2>1, <2>2
<1>11. g \in [0..N -> Acc]
  <2> HIDE DEF g, Rec
  <2> DEFINE S == {n \in 0..N : g[n] \in Acc}
  <2>1. 0 \in S
    BY <1>1, <1>2, <1>10
  <2>2. ASSUME NEW n \in 1..N, n - 1 \in S
        PROVE  n \in S
    <3>1. g[n - 1] \in Acc /\ ledger[n] \in Correction /\ RowOK(ledger[n])
      BY <1>1, <2>2
    <3>2. SettleRow(g[n - 1], ledger[n], p, s, into) \in Acc
      BY <3>1, SettleRowIs
    <3>3. n \in 0..N
      BY <1>1
    <3> QED
      BY <3>2, <3>3, <1>10
  <2> HIDE DEF S
  <2>3. \A n \in 0..N : n \in S
    BY <1>1, <2>1, <2>2, Climb
  <2>4. \A n \in 0..N : g[n] \in Acc
    BY <2>3 DEF S
  <2>5. g = [n \in 0..N |-> g[n]]
    BY <1>8 DEF Rec
  <2> QED
    BY <2>4, <2>5
<1> QED
  BY <1>9, <1>10, <1>11 DEF N, base

Ordered(l) == \A i, j \in DOMAIN l : i < j => l[i].cid < l[j].cid

LEMMA Appended ==
  ASSUME NEW S, NEW l \in Seq(S), NEW q \in S
  PROVE  /\ Append(l, q) \in Seq(S) /\ Len(l) \in Nat /\ DOMAIN l = 1..Len(l)
         /\ DOMAIN Append(l, q) = 1..(Len(l) + 1)
         /\ \A i \in DOMAIN l : i \in DOMAIN Append(l, q) /\ Append(l, q)[i] = l[i]
         /\ Append(l, q)[Len(l) + 1] = q
         /\ \A i \in DOMAIN Append(l, q) : i \in DOMAIN l \/ i = Len(l) + 1
OBVIOUS

(* A row added at the end keeps the order of a ledger of earlier rows.     *)
LEMMA AppendOrdered ==
  ASSUME NEW l \in Seq(Correction), NEW q \in Correction, Ordered(l),
         \A i \in DOMAIN l : l[i].cid < q.cid
  PROVE  Ordered(Append(l, q))
<1> DEFINE a == Append(l, q)
<1>1. /\ Len(l) \in Nat /\ DOMAIN l = 1..Len(l) /\ DOMAIN a = 1..(Len(l) + 1)
      /\ \A i \in DOMAIN l : a[i] = l[i]
      /\ a[Len(l) + 1] = q
      /\ \A i \in DOMAIN a : i \in DOMAIN l \/ i = Len(l) + 1
  BY Appended
<1> HIDE DEF a
<1>2. ASSUME NEW i \in DOMAIN a, NEW j \in DOMAIN a, i < j
      PROVE  a[i].cid < a[j].cid
  <2>1. i \in DOMAIN l
    BY <1>1, <1>2
  <2>2. CASE j \in DOMAIN l
    BY <1>1, <1>2, <2>1, <2>2 DEF Ordered
  <2>3. CASE j = Len(l) + 1
    BY <1>1, <2>1, <2>3
  <2> QED
    BY <1>1, <2>2, <2>3
<1> QED
  BY <1>2 DEF Ordered, a

(* What has come of the first n rows of the ledger.                        *)
SettledTo(n, l, p, into) ==
  /\ l \in Seq(Correction)
  /\ \A i \in DOMAIN l : \E j \in 1..n : Stands(l[i], ledger[j], p, into)
  /\ \A j \in 1..n : Forgetting(ledger[j], p, into) =>
       \E i \in DOMAIN l : l[i].kind = "forget" /\ l[i].slug = ledger[j].slug
  /\ Ordered(ledger) => Ordered(l)

LEMMA SettledMore ==
  ASSUME LedgerTypes, NEW n \in 1..Len(ledger), NEW l, NEW m,
         NEW p \in Ids, NEW into \in Id0,
         SettledTo(n - 1, l, p, into),
         \/ m = l /\ ~Forgetting(ledger[n], p, into)
         \/ \E q \in Correction :
              /\ Stands(q, ledger[n], p, into) /\ m = Append(l, q)
              /\ Forgetting(ledger[n], p, into) => q.kind = "forget"
  PROVE  SettledTo(n, m, p, into)
<1>0. /\ n \in Nat /\ n \in 1..n /\ \A j \in 1..(n - 1) : j \in 1..n
      /\ \A j \in 1..n : j \in 1..(n - 1) \/ j = n
      /\ Len(ledger) \in Nat /\ DOMAIN ledger = 1..Len(ledger)
      /\ \A j \in 1..(n - 1) : j \in DOMAIN ledger /\ j < n
      /\ n \in DOMAIN ledger
  BY DEF LedgerTypes
<1>1. CASE m = l /\ ~Forgetting(ledger[n], p, into)
  <2>1. \A i \in DOMAIN l : \E j \in 1..n : Stands(l[i], ledger[j], p, into)
    BY <1>0 DEF SettledTo
  <2> QED
    BY <1>0, <1>1, <2>1 DEF SettledTo
<1>2. ASSUME NEW q \in Correction, Stands(q, ledger[n], p, into),
             m = Append(l, q), Forgetting(ledger[n], p, into) => q.kind = "forget"
      PROVE  SettledTo(n, m, p, into)
  <2>1. /\ m \in Seq(Correction) /\ Len(l) \in Nat /\ DOMAIN l = 1..Len(l)
        /\ DOMAIN m = 1..(Len(l) + 1)
        /\ \A i \in DOMAIN l : i \in DOMAIN m /\ m[i] = l[i]
        /\ m[Len(l) + 1] = q
        /\ \A i \in DOMAIN m : i \in DOMAIN l \/ i = Len(l) + 1
    BY <1>2, Appended DEF SettledTo
  <2>2. ASSUME NEW i \in DOMAIN m
        PROVE  \E j \in 1..n : Stands(m[i], ledger[j], p, into)
    <3>1. CASE i \in DOMAIN l
      BY <3>1, <2>1, <1>0 DEF SettledTo
    <3>2. CASE i = Len(l) + 1
      BY <3>2, <2>1, <1>0, <1>2
    <3> QED
      BY <2>1, <3>1, <3>2
  <2>3. ASSUME NEW j \in 1..n, Forgetting(ledger[j], p, into)
        PROVE  \E i \in DOMAIN m :
                 m[i].kind = "forget" /\ m[i].slug = ledger[j].slug
    <3>1. CASE j \in 1..(n - 1)
      <4>1. PICK i \in DOMAIN l : l[i].kind = "forget" /\ l[i].slug = ledger[j].slug
        BY <3>1, <2>3 DEF SettledTo
      <4> QED
        BY <4>1, <2>1
    <3>2. CASE j = n
      <4>1. q.kind = "forget" /\ q.slug = ledger[n].slug
        BY <3>2, <2>3, <1>2 DEF Stands
      <4>2. Len(l) + 1 \in DOMAIN m
        BY <2>1
      <4> QED
        BY <3>2, <4>1, <4>2, <2>1
    <3> QED
      BY <1>0, <3>1, <3>2
  <2>4. ASSUME Ordered(ledger)
        PROVE  Ordered(m)
    <3>1. ASSUME NEW i \in DOMAIN l
          PROVE  l[i].cid < q.cid
      <4>1. PICK j \in 1..(n - 1) : Stands(l[i], ledger[j], p, into)
        BY DEF SettledTo
      <4>2. ledger[j].cid < ledger[n].cid
        BY <4>1, <1>0, <2>4 DEF Ordered
      <4> QED
        BY <4>1, <4>2, <1>2 DEF Stands
    <3>2. l \in Seq(Correction) /\ Ordered(l)
      BY <2>4 DEF SettledTo
    <3> QED
      BY <3>1, <3>2, <1>2, AppendOrdered
  <2> QED
    BY <2>1, <2>2, <2>3, <2>4 DEF SettledTo
<1> QED
  BY <1>1, <1>2

(* Every row that is left stands for one of the ledger, in the same order; *)
(* and every forget is left, with one for each merge into who is forgotten.*)
LEMMA SettledIs ==
  ASSUME LedgerTypes, NEW p \in Ids, NEW s \in Id0, NEW into \in Id0
  PROVE  SettledTo(Len(ledger), Settled(p, s, into), p, into)
<1> DEFINE N == Len(ledger)
<1>0. N \in Nat /\ \A n \in 1..N : ledger[n] \in Correction /\ RowOK(ledger[n])
  BY DEF LedgerTypes
<1>1. PICK f \in [0..N -> Acc] :
        /\ f[0] = [rows |-> <<>>, carried |-> {}]
        /\ \A n \in 1..N : f[n] = SettleRow(f[n - 1], ledger[n], p, s, into)
        /\ Settled(p, s, into) = f[N].rows
  BY SettledTrace
<1> DEFINE S == {n \in 0..N : SettledTo(n, f[n].rows, p, into)}
<1>2. 0 \in S
  <2>1. f[0].rows = <<>> /\ 0 \in 0..N
    BY <1>0, <1>1
  <2>2. /\ <<>> \in Seq(Correction) /\ DOMAIN <<>> = {} /\ 1..0 = {}
    OBVIOUS
  <2>3. SettledTo(0, <<>>, p, into)
    BY <2>2 DEF SettledTo, Ordered
  <2> QED
    BY <2>1, <2>3
<1>3. ASSUME NEW n \in 1..N, n - 1 \in S
      PROVE  n \in S
  <2>1. n - 1 \in 0..N /\ n \in 0..N
    BY <1>0
  <2>2. f[n - 1] \in Acc /\ ledger[n] \in Correction /\ RowOK(ledger[n])
    BY <2>1, <1>0, <1>1
  <2>3. f[n] = SettleRow(f[n - 1], ledger[n], p, s, into)
    BY <1>1
  <2> DEFINE l == f[n - 1].rows
             m == f[n].rows
  <2>4. \/ m = l /\ ~Forgetting(ledger[n], p, into)
        \/ \E q \in Correction :
             /\ Stands(q, ledger[n], p, into) /\ m = Append(l, q)
             /\ Forgetting(ledger[n], p, into) => q.kind = "forget"
    <3> DEFINE a == f[n - 1]
               r == ledger[n]
    <3>1. a \in Acc /\ r \in Correction /\ RowOK(r) /\ f[n] = SettleRow(a, r, p, s, into)
      BY <2>2, <2>3
    <3> HIDE DEF a, r
    <3>2. \/ f[n].rows = a.rows /\ ~Forgetting(r, p, into)
          \/ \E q \in Correction :
               /\ Stands(q, r, p, into) /\ f[n].rows = Append(a.rows, q)
               /\ Forgetting(r, p, into) => q.kind = "forget"
      BY <3>1, SettleRowIs
    <3> QED
      BY <3>2 DEF a, r
  <2>5. SettledTo(n - 1, l, p, into)
    BY <1>3
  <2> HIDE DEF l, m
  <2>6. SettledTo(n, m, p, into)
    BY <2>4, <2>5, SettledMore
  <2> QED
    BY <2>1, <2>6 DEF m
<1> HIDE DEF S
<1>4. \A n \in 0..N : n \in S
  BY <1>0, <1>2, <1>3, Climb
<1>5. N \in S
  BY <1>0, <1>4
<1> QED
  BY <1>1, <1>5 DEF S

(* Taking rows off leaves the others, in order.                            *)
LEMMA WithoutIs ==
  ASSUME LedgerTypes, NEW cids
  PROVE  LET l == Without(cids)
         IN /\ l \in Seq(Correction)
            /\ \A i \in DOMAIN l : \E j \in DOMAIN ledger :
                 l[i] = ledger[j] /\ ledger[j].cid \notin cids
            /\ \A j \in DOMAIN ledger : ledger[j].cid \notin cids =>
                 \E i \in DOMAIN l : l[i] = ledger[j]
            /\ Ordered(ledger) => Ordered(l)
<1> DEFINE N == Len(ledger)
           T == Seq(Correction)
           Next1(l, n) == IF ledger[n].cid \in cids THEN l ELSE Append(l, ledger[n])
           step == [x \in (1..N) \X T |-> Next1(x[2], x[1])]
           Rec(f) == f = [n \in 0..N |-> IF n = 0 THEN <<>>
                            ELSE IF ledger[n].cid \in cids THEN f[n - 1]
                                 ELSE Append(f[n - 1], ledger[n])]
           Done(n, l) ==
             /\ l \in Seq(Correction)
             /\ \A i \in DOMAIN l : \E j \in 1..n :
                  l[i] = ledger[j] /\ ledger[j].cid \notin cids
             /\ \A j \in 1..n : ledger[j].cid \notin cids =>
                  \E i \in DOMAIN l : l[i] = ledger[j]
             /\ Ordered(ledger) => Ordered(l)
           g == CHOOSE h : Rec(h)
<1>1. /\ N \in Nat /\ DOMAIN ledger = 1..N
      /\ \A n \in 1..N : ledger[n] \in Correction
  BY DEF LedgerTypes
<1>2. <<>> \in T
  OBVIOUS
<1>3. step \in [(1..N) \X T -> T]
  <2>1. ASSUME NEW x \in (1..N) \X T
        PROVE  Next1(x[2], x[1]) \in T
    <3>1. x[1] \in 1..N /\ x[2] \in T /\ ledger[x[1]] \in Correction
      BY <1>1
    <3> QED
      BY <3>1
  <2> QED
    BY <2>1
<1>4. \A l \in T, n \in 1..N : step[<<n, l>>] = Next1(l, n)
  OBVIOUS
<1> HIDE DEF step, N, T
<1>5. PICK f \in [0..N -> T] : Runs(f, N, <<>>, step)
  BY <1>1, <1>2, <1>3, Recursion
<1>6. Rec(f)
  <2>1. ASSUME NEW n \in 0..N
        PROVE  f[n] = IF n = 0 THEN <<>>
                      ELSE IF ledger[n].cid \in cids THEN f[n - 1]
                           ELSE Append(f[n - 1], ledger[n])
    <3>1. CASE n = 0
      BY <3>1, <1>5 DEF Runs
    <3>2. CASE n # 0
      <4>1. n \in 1..N /\ n - 1 \in 0..N
        BY <3>2, <1>1
      <4>2. f[n - 1] \in T
        BY <4>1, <1>5
      <4>3. f[n] = Next1(f[n - 1], n)
        BY <4>1, <4>2, <1>4, <1>5 DEF Runs
      <4> QED
        BY <3>2, <4>3
    <3> QED
      BY <3>1, <3>2
  <2> QED
    BY <1>5, <2>1
<1>7. Rec(g)
  BY <1>6
<1>8. Without(cids) = g[N]
  BY DEF Without, N
<1>9. /\ g[0] = <<>>
      /\ \A n \in 1..N : g[n] = Next1(g[n - 1], n)
  <2> HIDE DEF g
  <2>1. \A n \in 0..N : g[n] = IF n = 0 THEN <<>>
                      ELSE IF ledger[n].cid \in cids THEN g[n - 1]
                           ELSE Append(g[n - 1], ledger[n])
    BY <1>7
  <2>2. 0 \in 0..N /\ \A n \in 1..N : n \in 0..N /\ n # 0
    BY <1>1
  <2> QED
    BY <2>1, <2>2
<1> HIDE DEF g, Rec
<1> DEFINE S == {n \in 0..N : Done(n, g[n])}
<1>10. 0 \in S
  <2>1. DOMAIN <<>> = {} /\ 1..0 = {} /\ 0 \in 0..N /\ <<>> \in Seq(Correction)
    BY <1>1
  <2> QED
    BY <1>9, <2>1 DEF Ordered
<1>11. ASSUME NEW n \in 1..N, n - 1 \in S
       PROVE  n \in S
  <2> DEFINE l == g[n - 1]
             m == g[n]
  <2>0. /\ n \in 0..N /\ n \in 1..n /\ \A j \in 1..(n - 1) : j \in 1..n
        /\ \A j \in 1..n : j \in 1..(n - 1) \/ j = n
        /\ \A j \in 1..(n - 1) : j \in DOMAIN ledger /\ j < n
        /\ n \in DOMAIN ledger
    BY <1>1
  <2>1. Done(n - 1, l) /\ m = Next1(l, n)
    BY <1>9, <1>11
  <2> HIDE DEF l, m
  <2>2. CASE ledger[n].cid \in cids
    BY <2>0, <2>1, <2>2 DEF m
  <2>3. CASE ledger[n].cid \notin cids
    <3> DEFINE q == ledger[n]
    <3>1. q \in Correction /\ l \in Seq(Correction) /\ m = Append(l, q)
      BY <1>1, <2>1, <2>3
    <3> HIDE DEF q
    <3>2. /\ m \in Seq(Correction) /\ Len(l) \in Nat /\ DOMAIN l = 1..Len(l)
          /\ DOMAIN m = 1..(Len(l) + 1)
          /\ \A i \in DOMAIN l : i \in DOMAIN m /\ m[i] = l[i]
          /\ m[Len(l) + 1] = q
          /\ \A i \in DOMAIN m : i \in DOMAIN l \/ i = Len(l) + 1
      BY <3>1, Appended
    <3>3. ASSUME NEW i \in DOMAIN m
          PROVE  \E j \in 1..n : m[i] = ledger[j] /\ ledger[j].cid \notin cids
      <4>1. CASE i \in DOMAIN l
        BY <4>1, <3>2, <2>0, <2>1
      <4>2. CASE i = Len(l) + 1
        BY <4>2, <3>2, <2>0, <2>3 DEF q
      <4> QED
        BY <3>2, <4>1, <4>2
    <3>4. ASSUME NEW j \in 1..n, ledger[j].cid \notin cids
          PROVE  \E i \in DOMAIN m : m[i] = ledger[j]
      <4>1. CASE j \in 1..(n - 1)
        BY <4>1, <3>4, <3>2, <2>1
      <4>2. CASE j = n
        <5>1. Len(l) + 1 \in DOMAIN m
          BY <3>2
        <5> QED
          BY <5>1, <4>2, <3>2 DEF q
      <4> QED
        BY <2>0, <4>1, <4>2
    <3>5. ASSUME Ordered(ledger)
          PROVE  Ordered(m)
      <4>1. ASSUME NEW i \in DOMAIN l
            PROVE  l[i].cid < q.cid
        <5>1. PICK j \in 1..(n - 1) : l[i] = ledger[j]
          BY <2>1
        <5> QED
          BY <5>1, <2>0, <3>5 DEF Ordered, q
      <4>2. Ordered(l)
        BY <2>1, <3>5
      <4> QED
        BY <3>1, <4>1, <4>2, AppendOrdered
    <3>6. Done(n, m)
      BY <3>2, <3>3, <3>4, <3>5
    <3> QED
      BY <2>0, <3>6 DEF m
  <2> QED
    BY <2>2, <2>3
<1> HIDE DEF S
<1>12. \A n \in 0..N : n \in S
  BY <1>1, <1>10, <1>11, Climb
<1>13. Done(N, g[N])
  BY <1>1, <1>12 DEF S
<1> QED
  BY <1>1, <1>8, <1>13

-----------------------------------------------------------------------------
(* Types.                                                                  *)

Types ==
  /\ TypeOK
  /\ \A i \in DOMAIN ledger : RowOK(ledger[i])
  /\ \A i \in DOMAIN rows : RowOK(rows[i])
  /\ pc \in {"clips", "pushed", "diff"} => who \in Ids

LEMMA TypesLedger ==
  ASSUME Types
  PROVE  LedgerTypes /\ 0 \notin Ids /\ NoClip \notin Clips
BY BankAssumption DEF Types, TypeOK, BankTypeOK, LedgerTypes

LEMMA UnusedIs ==
  ASSUME NEW p \in Unused
  PROVE  p \in Ids /\ p \notin used
<1> DEFINE S == Ids \ used
<1>1. S # {} /\ S \in SUBSET Nat
  BY BankAssumption DEF Unused
<1> HIDE DEF S
<1>2. \E i \in S : \A j \in S : i <= j
  BY <1>1, Least
<1>3. (CHOOSE i \in S : \A j \in S : i <= j) \in S
  BY <1>2
<1>4. p = CHOOSE i \in S : \A j \in S : i <= j
  BY <1>1 DEF Unused, S
<1> QED
  BY <1>3, <1>4 DEF S

LEMMA FindIs ==
  ASSUME NEW n, Named(n) # {}
  PROVE  /\ Find(n) \in known
         /\ name[Find(n)] # n => \A p \in known : name[p] # n
<1> DEFINE own == {p \in known : name[p] = n}
           S == IF own # {} THEN own ELSE Named(n)
<1>1. S # {} /\ S \subseteq known /\ (own # {} => S = own)
  BY DEF Named
<1>2. Find(n) = CHOOSE p \in S : TRUE
  BY DEF Find
<1>3. Find(n) \in S
  BY <1>1, <1>2
<1> QED
  BY <1>1, <1>3

LEMMA InitTypes ==
  ASSUME Init
  PROVE  Types
<1>1. <<>> \in Seq(Correction) /\ DOMAIN <<>> = {} /\ 0 \in 0..MaxActs /\ 0 \in 0..MaxFaults
  BY BankAssumption, FaultsAssumption
<1>2. BankTypeOK
  BY <1>1 DEF Init, BankInit, BankTypeOK, Id0
<1>3. /\ mname \in [Ids -> Names]
      /\ [p \in Ids |-> {}] \in [Ids -> SUBSET Names]
  BY DEF Init, BankInit
<1>4. [p \in Ids |-> 0] \in [Ids -> Id0] /\ [p \in Ids |-> {}] \in [Ids -> SUBSET Clips]
  BY DEF Id0
<1>5. TypeOK
  BY <1>1, <1>2, <1>3, <1>4 DEF Init, Blank, TypeOK, Id0
<1> QED
  BY <1>1, <1>5 DEF Types, Init, BankInit, Blank

(* The store, after an act of the owner or of the pass.                    *)
BankTypes ==
  BankTypeOK /\ \A i \in DOMAIN ledger : RowOK(ledger[i])

LEMMA AppendTypes ==
  ASSUME Types, NEW l \in Seq(Correction), NEW q \in Correction, RowOK(q),
         \A i \in DOMAIN l : RowOK(l[i])
  PROVE  /\ Append(l, q) \in Seq(Correction)
         /\ \A i \in DOMAIN Append(l, q) : RowOK(Append(l, q)[i])
<1> DEFINE a == Append(l, q)
<1>1. /\ a \in Seq(Correction)
      /\ \A i \in DOMAIN l : a[i] = l[i]
      /\ a[Len(l) + 1] = q
      /\ \A i \in DOMAIN a : i \in DOMAIN l \/ i = Len(l) + 1
  BY Appended
<1> HIDE DEF a
<1> QED
  BY <1>1 DEF a

LEMMA SettledTypes ==
  ASSUME Types, NEW p \in Ids, NEW s \in Id0, NEW into \in Id0
  PROVE  /\ Settled(p, s, into) \in Seq(Correction)
         /\ \A i \in DOMAIN Settled(p, s, into) : RowOK(Settled(p, s, into)[i])
BY TypesLedger, SettledIs DEF SettledTo, Stands

LEMMA RowsOf ==
  ASSUME Types
  PROVE  /\ \A p, q \in Ids, c \in Clips :
              MoveOf(p, q, c) \in Correction /\ RowOK(MoveOf(p, q, c))
         /\ \A p \in Ids, c \in Clips :
              DeleteOf(p, c) \in Correction /\ RowOK(DeleteOf(p, c))
         /\ \A s, p \in Ids : MergeOf(s, p) \in Correction /\ RowOK(MergeOf(s, p))
         /\ \A s \in Ids : ForgetOf(s) \in Correction /\ RowOK(ForgetOf(s))
BY BankAssumption DEF Types, TypeOK, BankTypeOK, Correction, Id0, RowOK,
   MoveOf, DeleteOf, MergeOf, ForgetOf

(* The ledger of somebody who is forgotten, or merged away.                *)
SettledWith(p, s, into, q) ==
  Settled(p, s, into) \o IF s = 0 THEN <<>> ELSE <<q>>

LEMMA SettledAnd ==
  ASSUME Types, NEW p \in Ids, NEW s \in Id0, NEW into \in Id0,
         NEW q, s # 0 => q \in Correction /\ RowOK(q)
  PROVE  LET l == SettledWith(p, s, into, q)
         IN /\ l = IF s = 0 THEN Settled(p, s, into)
                   ELSE Append(Settled(p, s, into), q)
            /\ l \in Seq(Correction)
            /\ \A i \in DOMAIN l : RowOK(l[i])
<1> DEFINE m == Settled(p, s, into)
           l == SettledWith(p, s, into, q)
<1>1. m \in Seq(Correction) /\ \A i \in DOMAIN m : RowOK(m[i])
  BY SettledTypes
<1> HIDE DEF m
<1>2. CASE s = 0
  <2>1. l = m \o <<>>
    BY <1>2 DEF m, SettledWith
  <2>2. m \o <<>> = m
    BY <1>1
  <2> QED
    BY <1>1, <1>2, <2>1, <2>2 DEF m
<1>3. CASE s # 0
  <2>1. l = m \o <<q>>
    BY <1>3 DEF m, SettledWith
  <2>2. m \o <<q>> = Append(m, q)
    BY <1>1, <1>3
  <2>3. q \in Correction /\ RowOK(q)
    BY <1>3
  <2>4. Append(m, q) \in Seq(Correction) /\ \A i \in DOMAIN Append(m, q) : RowOK(Append(m, q)[i])
    BY <1>1, <2>3, AppendTypes
  <2> QED
    BY <1>3, <2>1, <2>2, <2>4 DEF m
<1> QED
  BY <1>2, <1>3

LEMMA ActsOnTypes ==
  ASSUME Types, Owner
  PROVE  BankTypes'
<1>0. /\ BankTypeOK /\ LedgerTypes /\ acts \in Nat
      /\ (Act => acts' \in 0..MaxActs) /\ 0 \notin Ids
  <2>1. BankTypeOK /\ LedgerTypes /\ 0 \notin Ids
    BY TypesLedger DEF Types, TypeOK
  <2>2. acts \in 0..MaxActs
    BY <2>1 DEF BankTypeOK
  <2>3. acts \in Nat /\ (Act => acts' \in 0..MaxActs)
    BY <2>2, BankAssumption DEF Act
  <2> QED
    BY <2>1, <2>3
<1>1. ASSUME NEW n \in Names, Introduce(n)
      PROVE  BankTypes'
  <2>1. PICK p \in Unused :
          /\ known' = known \cup {p} /\ used' = used \cup {p}
          /\ name' = [name EXCEPT ![p] = n]
    BY <1>1 DEF Introduce
  <2>2. p \in Ids
    BY UnusedIs
  <2> QED
    BY <1>0, <1>1, <2>1, <2>2 DEF Introduce, BankTypes, BankTypeOK, LedgerTypes
<1>2. ASSUME NEW p \in Ids, NEW c \in Clips, Learn(p, c)
      PROVE  BankTypes'
  BY <1>0, <1>2 DEF Learn, BankTypes, BankTypeOK, LedgerTypes
<1>3. ASSUME NEW p \in Ids, NEW c \in Clips, DeleteClip(p, c)
      PROVE  BankTypes'
  <2>1. /\ ledger' \in Seq(Correction)
        /\ \A i \in DOMAIN ledger' : RowOK(ledger'[i])
    BY <1>0, <1>3, RowsOf, AppendTypes DEF DeleteClip, LedgerTypes
  <2> QED
    BY <1>0, <1>3, <2>1 DEF DeleteClip, BankTypes, BankTypeOK, RowOK
<1>4. ASSUME NEW p \in Ids, NEW q \in Ids, NEW c \in Clips, MoveClip(p, q, c)
      PROVE  BankTypes'
  <2>1. /\ ledger' \in Seq(Correction)
        /\ \A i \in DOMAIN ledger' : RowOK(ledger'[i])
    BY <1>0, <1>4, RowsOf, AppendTypes DEF MoveClip, LedgerTypes
  <2> QED
    BY <1>0, <1>4, <2>1 DEF MoveClip, BankTypes, BankTypeOK, RowOK
<1>5. ASSUME NEW p \in Ids, ForgetPerson(p)
      PROVE  BankTypes'
  <2>1. slug[p] \in Id0 /\ 0 \in Id0
    BY <1>0 DEF BankTypeOK, Id0
  <2>2. slug[p] # 0 => ForgetOf(slug[p]) \in Correction /\ RowOK(ForgetOf(slug[p]))
    BY <2>1, RowsOf DEF Id0
  <2>3. /\ ledger' \in Seq(Correction)
        /\ \A i \in DOMAIN ledger' : RowOK(ledger'[i])
    <3> DEFINE s == slug[p]
               r == ForgetOf(slug[p])
    <3>1. ledger' = SettledWith(p, s, 0, r)
      BY <1>5 DEF ForgetPerson, SettledWith
    <3>2. s \in Id0 /\ (s # 0 => r \in Correction /\ RowOK(r))
      BY <2>1, <2>2
    <3> HIDE DEF s, r
    <3> QED
      BY <2>1, <3>1, <3>2, SettledAnd
  <2>4. forgot' \subseteq Ids
    <3>1. {ledger[i].slug : i \in {j \in DOMAIN ledger :
              ledger[j].kind = "merge" /\ ledger[j].to = p}} \subseteq Ids
      BY <1>0 DEF LedgerTypes, RowOK
    <3> QED
      BY <1>0, <1>5, <2>1, <3>1 DEF ForgetPerson, BankTypeOK, Id0
  <2>5. /\ known' \subseteq used' /\ used' \subseteq Ids
        /\ name' \in [Ids -> Names] /\ also' \in [Ids -> SUBSET Names]
        /\ slug' \in [Ids -> Id0]
    BY <1>0, <1>5, <2>1 DEF ForgetPerson, Gone, BankTypeOK
  <2>6. /\ bank' \in [Ids -> SUBSET Clips] /\ removed' \subseteq Clips
        /\ acts' \in 0..MaxActs
    BY <1>0, <1>5 DEF ForgetPerson, BankTypeOK
  <2> QED
    BY <2>3, <2>4, <2>5, <2>6 DEF BankTypes, BankTypeOK, RowOK
<1>6. ASSUME NEW p \in Ids, NEW q \in Ids, MergePeople(p, q)
      PROVE  BankTypes'
  <2>1. slug[q] \in Id0 /\ p \in Id0 /\ 0 \in Id0
    BY <1>0 DEF BankTypeOK, Id0
  <2>2. slug[q] # 0 => MergeOf(slug[q], p) \in Correction /\ RowOK(MergeOf(slug[q], p))
    BY <2>1, RowsOf DEF Id0
  <2>3. /\ ledger' \in Seq(Correction)
        /\ \A i \in DOMAIN ledger' : RowOK(ledger'[i])
    <3> DEFINE s == slug[q]
               r == MergeOf(slug[q], p)
    <3>1. ledger' = SettledWith(q, s, p, r)
      BY <1>6 DEF MergePeople, SettledWith
    <3>2. s \in Id0 /\ (s # 0 => r \in Correction /\ RowOK(r))
      BY <2>1, <2>2
    <3> HIDE DEF s, r
    <3> QED
      BY <2>1, <3>1, <3>2, SettledAnd
  <2>4. /\ known' \subseteq used' /\ used' \subseteq Ids
        /\ name' \in [Ids -> Names] /\ slug' \in [Ids -> Id0]
    BY <1>0, <1>6, <2>1 DEF MergePeople, BankTypeOK
  <2>5. also' \in [Ids -> SUBSET Names]
    <3>1. also \in [Ids -> SUBSET Names] /\ name[q] \in Names
      BY <1>0 DEF BankTypeOK
    <3>2. also' = [also EXCEPT ![p] = @ \cup also[q] \cup {name[q]}, ![q] = {}]
      BY <1>6 DEF MergePeople
    <3> QED
      BY <3>1, <3>2
  <2>6. bank' \in [Ids -> SUBSET Clips]
    <3>1. bank \in [Ids -> SUBSET Clips]
      BY <1>0 DEF BankTypeOK
    <3>2. bank' = [bank EXCEPT ![p] = @ \cup bank[q], ![q] = {}]
      BY <1>6 DEF MergePeople
    <3> QED
      BY <3>1, <3>2
  <2>7. removed' \subseteq Clips /\ acts' \in 0..MaxActs /\ forgot' \subseteq Ids
    BY <1>0, <1>6 DEF MergePeople, BankTypeOK
  <2> QED
    BY <2>3, <2>4, <2>5, <2>6, <2>7 DEF BankTypes, BankTypeOK, RowOK
<1> QED
  BY <1>1, <1>2, <1>3, <1>4, <1>5, <1>6 DEF Owner

LEMMA ForgetHereTypes ==
  ASSUME Types, NEW p \in Ids, ForgetHere(p)
  PROVE  BankTypes'
<1>1. BankTypeOK /\ 0 \in Id0
  BY DEF Types, TypeOK, Id0
<1>2. /\ ledger' \in Seq(Correction)
      /\ \A i \in DOMAIN ledger' : RowOK(ledger'[i])
  BY <1>1, SettledTypes DEF ForgetHere, BankTypeOK
<1> QED
  BY <1>1, <1>2 DEF ForgetHere, Gone, BankTypes, BankTypeOK, RowOK

(* A merge leaves to somebody, and what a row takes is taken from somebody.*)
LEMMA ReplayTypes ==
  ASSUME Types, Replay
  PROVE  /\ living' \subseteq Ids /\ dead' \subseteq Ids
         /\ living' \cap dead' = {}
         /\ holds' \in [Ids -> SUBSET Clips]
         /\ news' \subseteq Ids /\ listed' \subseteq Ids
         /\ rows' \in Seq(Correction) /\ \A i \in DOMAIN rows' : RowOK(rows'[i])
         /\ done' \subseteq Nat /\ crossed' \subseteq Clips
<1> DEFINE r == Head(rows)
<1>0. /\ rows \in Seq(Correction) /\ rows # <<>>
      /\ living \subseteq Ids /\ dead \subseteq Ids /\ living \cap dead = {}
      /\ holds \in [Ids -> SUBSET Clips] /\ news \subseteq Ids
      /\ listed \subseteq Ids /\ done \subseteq Nat /\ crossed \subseteq Clips
      /\ snap \in [Ids -> Id0] /\ ledger \in Seq(Correction)
  BY DEF Types, TypeOK, BankTypeOK, Replay
<1>1. /\ r = rows[1] /\ 1 \in DOMAIN rows /\ r \in Correction
      /\ rows' \in Seq(Correction)
      /\ \A i \in DOMAIN rows' : i + 1 \in DOMAIN rows /\ rows'[i] = rows[i + 1]
  BY <1>0 DEF Replay
<1>2. RowOK(r) /\ \A i \in DOMAIN rows' : RowOK(rows'[i])
  BY <1>1 DEF Types
<1> HIDE DEF r
<1>3. /\ r.kind \in {"move", "delete", "merge", "forget"}
      /\ r.from \in Id0 /\ r.to \in Id0 /\ r.slug \in Id0 /\ r.cid \in Nat
  BY <1>1 DEF Correction
<1>4. done' \subseteq Nat
  BY <1>0, <1>3 DEF Replay, r
<1>5. ASSUME Applies(r)
      PROVE  Leavers(r) \subseteq Ids /\ ClipsAfter(r) \in [Ids -> SUBSET Clips]
  <2>1. Leavers(r) \subseteq Ids
    BY <1>2 DEF Leavers, RowOK
  <2>2. r.kind = "move" => /\ Source(r) \in Ids /\ SlugOf(r.to) \in Ids /\ r.sha \in Clips
    BY <1>0, <1>2, <1>5 DEF Applies, RowOK
  <2>3. r.kind = "delete" => Source(r) \in Ids
    BY <1>0, <1>5 DEF Applies
  <2>4. r.kind = "merge" => r.slug \in Ids /\ SlugOf(r.to) \in Ids
    BY <1>0, <1>5 DEF Applies
  <2>5. r.kind = "forget" => r.slug \in Ids
    BY <1>0, <1>5 DEF Applies
  <2> DEFINE a == Source(r)
             b == SlugOf(r.to)
  <2> HIDE DEF a, b
  <2>6. CASE r.kind = "move"
    <3> DEFINE taken == [holds EXCEPT ![a] = @ \ {r.sha}]
    <3>1. taken \in [Ids -> SUBSET Clips] /\ a \in Ids /\ b \in Ids /\ r.sha \in Clips
      BY <1>0, <2>2, <2>6 DEF a, b
    <3>2. ClipsAfter(r) = IF a = b THEN taken
                          ELSE [taken EXCEPT ![b] = @ \cup {r.sha}]
      BY <2>6 DEF ClipsAfter, a, b
    <3> HIDE DEF taken
    <3>3. [taken EXCEPT ![b] = @ \cup {r.sha}] \in [Ids -> SUBSET Clips]
      BY <3>1
    <3> QED
      BY <2>1, <3>1, <3>2, <3>3
  <2>7. CASE r.kind = "delete"
    <3>1. ClipsAfter(r) = [holds EXCEPT ![a] = @ \ {r.sha}]
      BY <2>7 DEF ClipsAfter, a
    <3> QED
      BY <1>0, <2>1, <3>1
  <2>8. CASE r.kind = "merge"
    <3>1. ClipsAfter(r) = [holds EXCEPT ![b] = @ \cup holds[r.slug], ![r.slug] = {}]
      BY <2>8 DEF ClipsAfter, b
    <3>2. r.slug \in Ids /\ b \in Ids
      BY <2>4, <2>8 DEF b
    <3> QED
      BY <1>0, <2>1, <3>1, <3>2
  <2>9. CASE r.kind = "forget"
    <3>1. ClipsAfter(r) = [holds EXCEPT ![r.slug] = {}]
      BY <2>9 DEF ClipsAfter
    <3> QED
      BY <1>0, <2>1, <3>1
  <2> QED
    BY <1>3, <2>6, <2>7, <2>8, <2>9
<1>6. /\ living' \subseteq Ids /\ dead' \subseteq Ids /\ living' \cap dead' = {}
      /\ holds' \in [Ids -> SUBSET Clips]
      /\ news' \subseteq Ids /\ listed' \subseteq Ids
  <2>1. CASE ~Waits(r) /\ Applies(r)
    <3>1. /\ holds' = ClipsAfter(r) /\ living' = living \ Leavers(r)
          /\ dead' = dead \cup Leavers(r)
          /\ news' = news \cup Leavers(r) /\ listed' = listed \ Leavers(r)
      BY <2>1 DEF Replay, Changed, r
    <3> QED
      BY <1>0, <1>5, <2>1, <3>1
  <2>2. CASE ~(~Waits(r) /\ Applies(r))
    BY <1>0, <2>2 DEF Replay, r
  <2> QED
    BY <2>1, <2>2
<1>7. crossed' \subseteq Clips
  <2>2. Stranded(r) \subseteq Clips
    BY DEF Stranded
  <2>3. crossed' = crossed \cup Stranded(r)
    BY DEF Replay, r
  <2> QED
    BY <1>0, <2>2, <2>3
<1> QED
  BY <1>1, <1>2, <1>4, <1>6, <1>7

LEMMA StepTypes ==
  ASSUME Types, [Next]_vars
  PROVE  Types'
<1>0. /\ TypeOK /\ BankTypeOK /\ BankTypes /\ 0 \notin Ids /\ 0 \in Id0
      /\ Ids \subseteq Id0 /\ <<>> \in Seq(Correction) /\ DOMAIN <<>> = {}
      /\ [p \in Ids |-> 0] \in [Ids -> Id0]
      /\ (UNCHANGED bankVars => BankTypes')
      /\ (BankTypes' => BankTypeOK' /\ \A i \in DOMAIN ledger' : RowOK(ledger'[i]))
      /\ \A i \in DOMAIN rows : RowOK(rows[i])
  <2>1. TypeOK /\ BankTypeOK /\ BankTypes /\ 0 \notin Ids
    BY BankAssumption DEF Types, TypeOK, BankTypes
  <2>2. /\ 0 \in Id0 /\ Ids \subseteq Id0
    BY DEF Id0
  <2>3. <<>> \in Seq(Correction) /\ DOMAIN <<>> = {}
    OBVIOUS
  <2>4. UNCHANGED bankVars => BankTypes'
    BY <2>1 DEF BankTypes, BankTypeOK, bankVars, RowOK
  <2> QED
    BY <2>1, <2>2, <2>3, <2>4 DEF BankTypes, Types
<1> DEFINE PassTypes ==
      /\ living \subseteq Ids /\ dead \subseteq Ids /\ living \cap dead = {}
      /\ mname \in [Ids -> Names] /\ aka \in [Ids -> SUBSET Names]
      /\ holds \in [Ids -> SUBSET Clips]
      /\ news \subseteq Ids /\ listed \subseteq Ids /\ fresh \subseteq Ids
      /\ pc \in {"idle", "mirror", "build", "clips", "push", "pushed", "replay",
                 "settle", "people", "diff"}
      /\ snap \in [Ids -> Id0] /\ people \subseteq Ids /\ todo \subseteq Ids
      /\ who \in Id0 /\ up \subseteq Clips /\ want \subseteq Clips
      /\ rows \in Seq(Correction) /\ done \subseteq Nat /\ pending \subseteq Clips
      /\ offered \subseteq Ids \X Clips
      /\ faults \in 0..MaxFaults
      /\ crossed \subseteq Clips /\ orphans \subseteq Ids
      /\ \A i \in DOMAIN rows : RowOK(rows[i])
      /\ pc \in {"clips", "pushed", "diff"} => who \in Ids
<1>1. Types <=> BankTypes /\ PassTypes
  BY DEF Types, TypeOK, BankTypes
<1>2. Types' <=> BankTypes' /\ PassTypes'
  BY DEF Types, TypeOK, BankTypes
<1>3. /\ PassTypes
      /\ slug \in [Ids -> Id0] /\ bank \in [Ids -> SUBSET Clips]
      /\ known \subseteq Ids /\ used \subseteq Ids
      /\ name \in [Ids -> Names] /\ also \in [Ids -> SUBSET Names]
      /\ ledger \in Seq(Correction)
  BY <1>0, <1>1 DEF BankTypes, BankTypeOK
<1>4. faults < MaxFaults => faults + 1 \in 0..MaxFaults
  BY <1>3, FaultsAssumption
<1>5. CASE Begin
  <2>1. BankTypes'
    BY <1>0, <1>5 DEF Begin
  <2>2. PassTypes'
    BY <1>3, <1>5 DEF Begin, RowOK, membroVars, ghostVars
  <2> QED
    BY <1>2, <2>1, <2>2
<1>6. ASSUME NEW s \in Ids, Mirror(s)
      PROVE  Types'
  <2>1. BankTypes'
    BY <1>0, <1>3, <1>6, ForgetHereTypes DEF Mirror
  <2>2. PassTypes'
    BY <1>3, <1>6 DEF Mirror, RowOK, membroVars, ghostVars
  <2> QED
    BY <1>2, <2>1, <2>2
<1>7. CASE ReadForgets
  <2>1. BankTypes'
    BY <1>0, <1>7 DEF ReadForgets
  <2>2. PassTypes'
    BY <1>3, <1>7 DEF ReadForgets, RowOK, membroVars, ghostVars
  <2> QED
    BY <1>2, <2>1, <2>2
<1>8. ASSUME NEW s \in Ids, Build(s)
      PROVE  Types'
  <2> DEFINE P == IF Named(mname[s]) = {} THEN Unused ELSE {Find(mname[s])}
  <2>1. \A p \in P : p \in Ids
    BY <1>3, UnusedIs, FindIs
  <2> HIDE DEF P
  <2>2. CASE \E p \in P : slug[p] = 0
    <3>1. PICK p \in P : /\ Rebuild(p, mname[s], s)
                         /\ who' = p /\ want' = holds[s] /\ pc' = "clips"
      BY <1>8, <2>2 DEF Build, P
    <3>2. p \in Ids /\ mname[s] \in Names /\ holds[s] \subseteq Clips
      BY <2>1, <1>3
    <3>3. BankTypes'
      <4>1. ledger' = ledger
        BY <3>1 DEF Rebuild
      <4>2. \A i \in DOMAIN ledger' : RowOK(ledger'[i])
        BY <4>1, <1>0 DEF BankTypes
      <4>3. BankTypeOK'
        BY <1>0, <3>1, <3>2 DEF Rebuild, BankTypeOK
      <4> QED
        BY <4>2, <4>3 DEF BankTypes
    <3>4. PassTypes'
      BY <1>0, <1>3, <1>8, <3>1, <3>2 DEF Build, RowOK, membroVars, ghostVars
    <3> QED
      BY <1>2, <3>3, <3>4
  <2>3. CASE ~(\E p \in P : slug[p] = 0)
    <3>1. UNCHANGED <<bankVars, who, want, pc>>
      BY <1>8, <2>3 DEF Build, P
    <3>2. BankTypes'
      BY <1>0, <3>1
    <3>3. PassTypes'
      BY <1>3, <1>8, <3>1 DEF Build, RowOK, membroVars, ghostVars
    <3> QED
      BY <1>2, <3>2, <3>3
  <2> QED
    BY <2>2, <2>3
<1>9. ASSUME NEW p, NEW c \in Clips, AddClip(p, c)
      PROVE  BankTypes'
  <2>1. BankTypeOK'
    BY <1>0, <1>9 DEF AddClip, BankTypeOK
  <2> QED
    BY <1>0, <1>9, <2>1 DEF AddClip, BankTypes, RowOK
<1>10. ASSUME NEW c \in Clips, PullClip(c)
       PROVE  Types'
  <2>1. BankTypes'
    BY <1>9, <1>10 DEF PullClip
  <2>2. PassTypes'
    BY <1>3, <1>10 DEF PullClip, RowOK, membroVars
  <2> QED
    BY <1>2, <2>1, <2>2
<1>11. CASE Pulled
  <2>1. BankTypes'
    BY <1>0, <1>11 DEF Pulled
  <2>2. PassTypes'
    BY <1>0, <1>3, <1>11 DEF Pulled, RowOK, membroVars, ghostVars
  <2> QED
    BY <1>2, <2>1, <2>2
<1>12. CASE ReadPeople
  <2>1. BankTypes'
    BY <1>0, <1>12 DEF ReadPeople
  <2>2. PassTypes'
    BY <1>3, <1>12 DEF ReadPeople, RowOK, membroVars, ghostVars
  <2> QED
    BY <1>2, <2>1, <2>2
<1>13. ASSUME NEW p \in Ids, Push(p)
       PROVE  Types'
  <2>1. BankTypes'
    BY <1>0, <1>13 DEF Push
  <2>2. Aliases(p) \in SUBSET Names
    BY <1>3 DEF Aliases
  <2>3. aka' \in [Ids -> SUBSET Names] /\ mname' \in [Ids -> Names]
    BY <1>3, <1>13, <2>2 DEF Push
  <2>4. /\ UNCHANGED <<dead, holds, fresh, snap, people, up, want, rows, done,
                      pending, offered, faults, crossed, orphans>>
        /\ todo' = todo \ {p} /\ pc = "push"
        /\ \/ UNCHANGED <<living, news, listed, pc, who>>
           \/ /\ living' = living \cup {p} /\ p \notin dead
              /\ news' = news \cup {p} /\ listed' = listed \ {p}
              /\ pc' = "pushed" /\ who' = p
    BY <1>13 DEF Push, Conflicts, Changed, ghostVars
  <2>5. PassTypes'
    BY <1>0, <1>3, <2>3, <2>4 DEF RowOK
  <2> QED
    BY <1>2, <2>1, <2>5
<1>14. CASE Pushed
  <2>1. who \in Ids
    BY <1>3, <1>14 DEF Pushed
  <2>2. BankTypeOK'
    BY <1>0, <1>3, <1>14, <2>1 DEF Pushed, SetSlug, BankTypeOK
  <2>3. BankTypes'
    BY <1>0, <1>14, <2>2 DEF Pushed, SetSlug, BankTypes, RowOK
  <2>4. PassTypes'
    BY <1>0, <1>3, <1>14 DEF Pushed, RowOK, membroVars, ghostVars
  <2> QED
    BY <1>2, <2>3, <2>4
<1>15. CASE ReadLedger
  <2>1. BankTypes'
    BY <1>0, <1>15 DEF ReadLedger
  <2>2. PassTypes'
    BY <1>0, <1>3, <1>15 DEF ReadLedger, BankTypes, RowOK, membroVars, ghostVars
  <2> QED
    BY <1>2, <2>1, <2>2
<1>16. CASE Replay
  <2>1. BankTypes'
    BY <1>0, <1>16 DEF Replay
  <2>2. PassTypes'
    BY <1>3, <1>16, ReplayTypes DEF Replay
  <2> QED
    BY <1>2, <2>1, <2>2
<1>17. CASE TakeOff
  <2>1. /\ ledger' \in Seq(Correction)
        /\ \A i \in DOMAIN ledger' : \E j \in DOMAIN ledger : ledger'[i] = ledger[j]
    BY <1>17, TypesLedger, WithoutIs DEF TakeOff, RemoveCorrections
  <2>2. \A i \in DOMAIN ledger' : RowOK(ledger'[i])
    BY <1>0, <2>1 DEF BankTypes
  <2>3. BankTypeOK'
    BY <1>0, <1>17, <2>1 DEF TakeOff, RemoveCorrections, BankTypeOK
  <2>4. PassTypes'
    BY <1>3, <1>17 DEF TakeOff, RowOK, membroVars, ghostVars
  <2> QED
    BY <1>2, <2>2, <2>3, <2>4 DEF BankTypes
<1>18. CASE ReadPending
  <2>1. Shas \subseteq Clips
    <3>1. \A i \in DOMAIN ledger : ledger[i].sha \in Clips \cup {NoClip}
      <4>1. \A i \in DOMAIN ledger : ledger[i] \in Correction
        BY <1>3
      <4> QED
        BY <4>1 DEF Correction
    <3> QED
      BY <3>1 DEF Shas
  <2>2. BankTypes'
    BY <1>0, <1>18 DEF ReadPending
  <2>3. PassTypes'
    BY <1>3, <1>18, <2>1 DEF ReadPending, RowOK, membroVars, ghostVars
  <2> QED
    BY <1>2, <2>2, <2>3
<1>19. ASSUME NEW p \in Ids, Diff(p)
       PROVE  Types'
  <2>1. BankTypes'
    BY <1>0, <1>19 DEF Diff
  <2>2. PassTypes'
    <3>1. CASE slug[p] \in living
      BY <1>0, <1>3, <1>19, <3>1 DEF Diff, RowOK, membroVars, ghostVars
    <3>2. CASE slug[p] \notin living
      BY <1>3, <1>19, <3>2 DEF Diff, RowOK, membroVars, ghostVars
    <3> QED
      BY <3>1, <3>2
  <2> QED
    BY <1>2, <2>1, <2>2
<1>20. ASSUME NEW c \in Clips, Upload(c)
       PROVE  Types'
  <2>1. BankTypes'
    BY <1>0, <1>20 DEF Upload
  <2>2. PassTypes'
    BY <1>3, <1>20 DEF Upload, RowOK, ghostVars
  <2> QED
    BY <1>2, <2>1, <2>2
<1>21. ASSUME NEW c \in Clips, Restore(c)
       PROVE  Types'
  <2>1. BankTypes'
    BY <1>0, <1>9, <1>21 DEF Restore
  <2>2. who \in Ids
    BY <1>3, <1>21 DEF Restore
  <2>3. offered' \subseteq Ids \X Clips
    BY <1>3, <1>21, <2>2 DEF Restore
  <2>4. PassTypes'
    BY <1>3, <1>21, <2>3 DEF Restore, RowOK, membroVars, ghostVars
  <2> QED
    BY <1>2, <2>1, <2>4
<1>22. CASE NextPerson
  <2>1. BankTypes'
    BY <1>0, <1>22 DEF NextPerson
  <2>2. PassTypes'
    BY <1>0, <1>3, <1>22 DEF NextPerson, RowOK, membroVars, ghostVars
  <2> QED
    BY <1>2, <2>1, <2>2
<1>23. CASE Finish
  <2>1. BankTypes'
    BY <1>0, <1>23 DEF Finish
  <2>2. PassTypes'
    BY <1>0, <1>3, <1>23 DEF Finish, Stopped, ghostVars
  <2> QED
    BY <1>2, <2>1, <2>2
<1>24. CASE ReplayFails
  <2>1. BankTypes'
    BY <1>0, <1>24 DEF ReplayFails
  <2>2. rows' \in Seq(Correction) /\ \A i \in DOMAIN rows' : RowOK(rows'[i])
    <3>1. CASE rows' = <<>>
      BY <1>0, <3>1
    <3>2. CASE rows' = Tail(rows)
      <4>1. rows \in Seq(Correction) /\ rows # <<>> /\ \A i \in DOMAIN rows : RowOK(rows[i])
        BY <1>3, <1>24 DEF ReplayFails
      <4>2. /\ rows' \in Seq(Correction)
            /\ \A i \in DOMAIN rows' : i + 1 \in DOMAIN rows /\ rows'[i] = rows[i + 1]
        BY <3>2, <4>1
      <4> QED
        BY <4>1, <4>2
    <3> QED
      BY <1>24, <3>1, <3>2 DEF ReplayFails
  <2>3. PassTypes'
    BY <1>3, <1>4, <1>24, <2>2 DEF ReplayFails, membroVars, ghostVars
  <2> QED
    BY <1>2, <2>1, <2>3
<1>25. CASE Fail
  <2>1. BankTypes'
    BY <1>0, <1>25 DEF Fail
  <2>2. PassTypes'
    BY <1>0, <1>3, <1>4, <1>25 DEF Fail, Stopped, membroVars, ghostVars
  <2> QED
    BY <1>2, <2>1, <2>2
<1>26. ASSUME NEW s \in Ids, MembroForgets(s)
       PROVE  Types'
  <2>1. BankTypes'
    BY <1>0, <1>26 DEF MembroForgets
  <2>2. PassTypes'
    BY <1>3, <1>4, <1>26 DEF MembroForgets, Changed, RowOK, ghostVars
  <2> QED
    BY <1>2, <2>1, <2>2
<1>27. CASE OwnerActs
  <2>1. BankTypes'
    BY <1>27, ActsOnTypes DEF OwnerActs
  <2>2. Touched \subseteq Clips /\ Unseen \subseteq Ids
    BY <1>3 DEF Touched, Unseen
  <2>3. Carried \subseteq Clips /\ Misnamed \subseteq Clips /\ Replayed \subseteq Ids
    BY <1>0 DEF Carried, Misnamed, Replayed, BankTypes, RowOK
  <2>4. PassTypes'
    BY <1>3, <1>27, <2>2, <2>3 DEF OwnerActs, RowOK, membroVars, passVars
  <2> QED
    BY <1>2, <2>1, <2>4
<1>28. CASE UNCHANGED vars
  <2>1. BankTypes'
    BY <1>0, <1>28 DEF vars
  <2>2. PassTypes'
    BY <1>3, <1>28 DEF vars, membroVars, passVars, ghostVars, RowOK
  <2> QED
    BY <1>2, <2>1, <2>2
<1>30. CASE ClipsRefused
  <2>1. BankTypes'
    BY <1>0, <1>30 DEF ClipsRefused
  <2>2. PassTypes'
    BY <1>3, <1>4, <1>30 DEF ClipsRefused, RowOK, membroVars, ghostVars
  <2> QED
    BY <1>2, <2>1, <2>2
<1>31. ASSUME NEW p \in Ids, PushRefused(p)
       PROVE  Types'
  <2>1. BankTypes'
    BY <1>0, <1>31 DEF PushRefused
  <2>2. PassTypes'
    BY <1>3, <1>4, <1>31 DEF PushRefused, RowOK, membroVars, ghostVars
  <2> QED
    BY <1>2, <2>1, <2>2
<1> HIDE DEF PassTypes
<1>29. CASE Pass
  BY <1>5, <1>6, <1>7, <1>8, <1>10, <1>11, <1>12, <1>13, <1>14, <1>15, <1>16,
     <1>17, <1>18, <1>19, <1>20, <1>21, <1>22, <1>23, <1>29 DEF Pass
<1> QED
  BY <1>24, <1>25, <1>26, <1>27, <1>28, <1>29, <1>30, <1>31 DEF Next

-----------------------------------------------------------------------------
(* The invariant.                                                          *)

(* Everybody membro has had. *)
Had == living \cup dead

(* Who has which slug.  A slug has one bearer, and if its first bearer is  *)
(* known that is who has it: a rebuild finds them under the name they gave *)
(* membro, and no two people of the store have one name.                   *)
SlugInv ==
  /\ \A p \in Ids \ known : slug[p] = 0
  /\ \A p \in known : slug[p] # 0 => slug[p] \in Had
  /\ \A p, q \in known : slug[p] # 0 /\ slug[p] = slug[q] => p = q
  /\ \A p \in known : slug[p] \in known => slug[p] = p
  /\ \A p, q \in known : name[p] = name[q] => p = q
  /\ Had \subseteq used
  /\ \A s \in Had : mname[s] = name[s]

(* What a pass holds is not stale where it matters: who it marks is whom   *)
(* it read and membro forgot, whom it takes to live is there or news       *)
(* again, nobody has the slug of those it rebuilds, and it has told membro *)
(* of whoever it gives a slug.                                             *)
MirrorInv ==
  pc = "mirror" =>
    /\ todo \subseteq dead
    /\ \A p \in Ids : slug[p] \in {0, snap[p]}
    /\ \A p, q \in Ids : snap[p] # 0 /\ snap[p] = snap[q] => p = q
    /\ \A s \in fresh : s \in Had /\ (s \in dead => s \in news /\ s \notin listed)

BuildInv ==
  pc \in {"build", "clips"} =>
    \A s \in todo : /\ s \in Had /\ \A p \in Ids : slug[p] # s
                    /\ s \in dead => s \in news /\ s \notin listed

PushInv ==
  /\ pc \in {"push", "pushed"} => todo \subseteq used
  /\ pc = "pushed" => who \in Had /\ who \in news /\ who \notin listed

(* Membro's mark of somebody known is still to be told, and a pass that is *)
(* told of it marks them before it does anything else.                     *)
MarkInv ==
  \A p \in known : slug[p] \in dead =>
    /\ slug[p] \in news
    /\ slug[p] \in listed =>
         pc = "mirror" /\ slug[p] \in todo /\ snap[p] = slug[p]

(* The ledger, and the rows a pass read of it.  A merge may have become a  *)
(* forget since it was read; then its loser is an orphan.                  *)
OfAPerson(r) == r.kind \in {"merge", "forget"}

SameRow(l, r) ==
  /\ r.slug = l.slug
  /\ \/ r.kind = l.kind
     \/ r.kind = "merge" /\ l.kind = "forget" /\ l.slug \in orphans

LedgerInv ==
  /\ Ordered(ledger)
  /\ \A i \in DOMAIN ledger :
       ledger[i].cid < acts /\ (OfAPerson(ledger[i]) => ledger[i].slug \in Had)
  /\ \A i \in DOMAIN rows :
       rows[i].cid < acts /\ (OfAPerson(rows[i]) => rows[i].slug \in Had)
  /\ \A c \in done : c < acts
  /\ done # {} \/ rows # <<>> => pc = "replay"
  /\ \A i \in DOMAIN ledger, j \in DOMAIN rows :
       OfAPerson(ledger[i]) /\ ledger[i].cid = rows[j].cid
         => SameRow(ledger[i], rows[j])
  /\ \A i \in DOMAIN ledger :
       ledger[i].kind = "forget" /\ ledger[i].cid \in done =>
         ledger[i].slug \in dead \cup orphans

(* Whoever the owner forgot membro has forgotten, or will, or it never     *)
(* heard of them and never will.                                           *)
Unheard(s) ==
  /\ s \notin living /\ s \in used /\ s \notin known
  /\ pc \in {"push", "pushed"} => s \notin todo

ForgotInv ==
  \A s \in forgot : s \in orphans \cup dead \cup Forgets \/ Unheard(s)

Deep ==
  /\ SlugInv /\ MirrorInv /\ BuildInv /\ PushInv /\ MarkInv
  /\ LedgerInv /\ ForgotInv

-----------------------------------------------------------------------------
(* Changes of the ledger.                                                  *)

(* Rows made of the ledger's, in order: what is a correction of a person   *)
(* was one of them, and a merge that became a forget while a pass replays  *)
(* leaves an orphan.                                                       *)
From(l, orph) ==
  /\ l \in Seq(Correction) /\ Ordered(l)
  /\ \A i \in DOMAIN l : \E j \in DOMAIN ledger :
       /\ l[i].cid = ledger[j].cid
       /\ OfAPerson(l[i]) =>
            /\ OfAPerson(ledger[j]) /\ l[i].slug = ledger[j].slug
            /\ \/ l[i].kind = ledger[j].kind
               \/ /\ l[i].kind = "forget" /\ ledger[j].kind = "merge"
                  /\ pc = "replay" => l[i].slug \in orph

(* What is left of the rows to replay was among them.                      *)
Remain == \A j \in DOMAIN rows' : \E k \in DOMAIN rows : rows'[j] = rows[k]

LEMMA LedgerNext ==
  ASSUME Types, LedgerInv, acts' \in Nat,
         NEW l, From(l, orphans'),
         \/ ledger' = l /\ acts <= acts'
         \/ \E q \in Correction :
              /\ ledger' = Append(l, q) /\ q.cid = acts /\ acts' = acts + 1
              /\ OfAPerson(q) => q.slug \in Had',
         Had \subseteq Had', dead \subseteq dead', orphans \subseteq orphans',
         rows' = rows \/ rows' = <<>> \/ Remain, done' \subseteq done,
         done' # {} \/ rows' # <<>> => pc' = "replay"
  PROVE  LedgerInv'
<1>0. /\ acts \in Nat /\ acts' \in Nat /\ acts <= acts' /\ DOMAIN <<>> = {}
      /\ rows \in Seq(Correction) /\ ledger \in Seq(Correction)
      /\ \A i \in DOMAIN rows : rows[i].cid \in Nat
      /\ \A i \in DOMAIN ledger : ledger[i].cid \in Nat
      /\ done \subseteq Nat
  <2>1. acts \in Nat /\ DOMAIN <<>> = {}
    BY BankAssumption DEF Types, TypeOK, BankTypeOK
  <2>2. rows \in Seq(Correction) /\ ledger \in Seq(Correction) /\ done \subseteq Nat
    BY DEF Types, TypeOK, BankTypeOK
  <2>3. /\ \A i \in DOMAIN rows : rows[i].cid \in Nat
        /\ \A i \in DOMAIN ledger : ledger[i].cid \in Nat
    <3>1. /\ \A i \in DOMAIN rows : rows[i] \in Correction
          /\ \A i \in DOMAIN ledger : ledger[i] \in Correction
      BY <2>2
    <3> QED
      BY <3>1 DEF Correction
  <2> QED
    BY <2>1, <2>2, <2>3
<1>a. \A x \in Nat : x < acts => x < acts'
  <2>1. acts \in Nat /\ acts' \in Nat /\ acts <= acts'
    BY <1>0
  <2> QED
    BY <2>1
<1>1. ASSUME NEW i \in DOMAIN rows'
      PROVE  \E k \in DOMAIN rows : rows'[i] = rows[k] /\ rows # <<>>
  BY <1>0 DEF Remain
<1>2. \A i \in DOMAIN l : \E j \in DOMAIN ledger :
        /\ l[i].cid = ledger[j].cid
        /\ OfAPerson(l[i]) =>
             /\ OfAPerson(ledger[j]) /\ l[i].slug = ledger[j].slug
             /\ \/ l[i].kind = ledger[j].kind
                \/ /\ l[i].kind = "forget" /\ ledger[j].kind = "merge"
                   /\ pc = "replay" => l[i].slug \in orphans'
  BY DEF From
(* What holds of each row of ledger'. *)
<1> DEFINE Good(r) ==
      /\ r.cid < acts' /\ (OfAPerson(r) => r.slug \in Had')
      /\ \A j \in DOMAIN rows' :
           OfAPerson(r) /\ r.cid = rows'[j].cid =>
             /\ rows'[j].slug = r.slug
             /\ \/ rows'[j].kind = r.kind
                \/ rows'[j].kind = "merge" /\ r.kind = "forget" /\ r.slug \in orphans'
      /\ r.kind = "forget" /\ r.cid \in done' => r.slug \in dead' \cup orphans'
<1>3. ASSUME NEW i \in DOMAIN l
      PROVE  Good(l[i])
  <2>1. PICK k \in DOMAIN ledger :
          /\ l[i].cid = ledger[k].cid
          /\ OfAPerson(l[i]) =>
               /\ OfAPerson(ledger[k]) /\ l[i].slug = ledger[k].slug
               /\ \/ l[i].kind = ledger[k].kind
                  \/ /\ l[i].kind = "forget" /\ ledger[k].kind = "merge"
                     /\ pc = "replay" => l[i].slug \in orphans'
    BY <1>2
  <2>2. l[i].cid < acts' /\ (OfAPerson(l[i]) => l[i].slug \in Had')
    <3>1. ledger[k].cid < acts /\ (OfAPerson(ledger[k]) => ledger[k].slug \in Had)
      BY DEF LedgerInv
    <3>2. ledger[k].cid < acts'
      BY <1>0, <1>a, <3>1
    <3> QED
      BY <2>1, <3>1, <3>2
  <2>3. ASSUME NEW j \in DOMAIN rows', OfAPerson(l[i]), l[i].cid = rows'[j].cid
        PROVE  /\ rows'[j].slug = l[i].slug
               /\ \/ rows'[j].kind = l[i].kind
                  \/ /\ rows'[j].kind = "merge" /\ l[i].kind = "forget"
                     /\ l[i].slug \in orphans'
    <3>1. PICK m \in DOMAIN rows : rows'[j] = rows[m] /\ pc = "replay"
      BY <1>1 DEF LedgerInv
    <3>2. SameRow(ledger[k], rows[m])
      BY <2>1, <2>3, <3>1 DEF LedgerInv
    <3> QED
      BY <2>1, <2>3, <3>1, <3>2 DEF SameRow
  <2>4. ASSUME l[i].kind = "forget", l[i].cid \in done'
        PROVE  l[i].slug \in dead' \cup orphans'
    <3>1. pc = "replay" /\ ledger[k].cid \in done
      BY <2>1, <2>4 DEF LedgerInv
    <3> QED
      BY <2>1, <2>4, <3>1 DEF LedgerInv, OfAPerson
  <2> QED
    BY <2>2, <2>3, <2>4
<1>4. l \in Seq(Correction) /\ Ordered(l)
  BY DEF From
<1>5. Ordered(ledger') /\ \A i \in DOMAIN ledger' : Good(ledger'[i])
  <2>1. CASE ledger' = l
    BY <1>3, <1>4, <2>1
  <2>2. ASSUME NEW q \in Correction, ledger' = Append(l, q), q.cid = acts,
               acts' = acts + 1, OfAPerson(q) => q.slug \in Had'
        PROVE  Ordered(ledger') /\ \A i \in DOMAIN ledger' : Good(ledger'[i])
    <3>1. Good(q)
      <4>1. \A j \in DOMAIN rows' : q.cid # rows'[j].cid
        <5>1. \A k \in DOMAIN rows : q.cid # rows[k].cid
          BY <1>0, <2>2 DEF LedgerInv
        <5> QED
          BY <1>1, <5>1
      <4>2. q.cid \notin done' /\ q.cid < acts'
        BY <1>0, <2>2 DEF LedgerInv
      <4> QED
        BY <4>1, <4>2, <2>2
    <3>2. \A i \in DOMAIN l : l[i].cid < q.cid
      BY <1>2, <2>2 DEF LedgerInv
    <3>3. Ordered(ledger')
      BY <1>4, <2>2, <3>2, AppendOrdered
    <3>4. /\ \A i \in DOMAIN l : ledger'[i] = l[i]
          /\ ledger'[Len(l) + 1] = q
          /\ \A i \in DOMAIN ledger' : i \in DOMAIN l \/ i = Len(l) + 1
      BY <1>4, <2>2, Appended
    <3> HIDE DEF Good
    <3> QED
      BY <1>3, <3>1, <3>3, <3>4
  <2> QED
    BY <2>1, <2>2
<1>6. /\ \A i \in DOMAIN rows' :
           rows'[i].cid < acts' /\ (OfAPerson(rows'[i]) => rows'[i].slug \in Had')
      /\ \A c \in done' : c < acts'
  <2>1. ASSUME NEW i \in DOMAIN rows'
        PROVE  rows'[i].cid < acts' /\ (OfAPerson(rows'[i]) => rows'[i].slug \in Had')
    <3>0. PICK k \in DOMAIN rows : rows'[i] = rows[k]
      BY <1>1
    <3>1. rows[k].cid < acts /\ (OfAPerson(rows[k]) => rows[k].slug \in Had)
      BY DEF LedgerInv
    <3>2. rows[k].cid < acts'
      BY <1>0, <1>a, <3>1
    <3> QED
      BY <3>0, <3>1, <3>2
  <2>2. ASSUME NEW c \in done'
        PROVE  c < acts'
    <3>1. c < acts
      BY DEF LedgerInv
    <3> QED
      BY <1>0, <1>a, <3>1
  <2> QED
    BY <2>1, <2>2
<1> QED
  BY <1>5, <1>6 DEF LedgerInv, SameRow, OfAPerson

(* The ledger as it is, settled, and without the rows that landed.         *)
LEMMA FromLedger ==
  ASSUME Types, LedgerInv, NEW orph
  PROVE  From(ledger, orph)
BY DEF From, LedgerInv, Types, TypeOK, BankTypeOK

LosersAre(orph, p, into) ==
  \A j \in DOMAIN ledger :
    pc = "replay" /\ into = 0 /\ ledger[j].kind = "merge" /\ ledger[j].to = p
      => ledger[j].slug \in orph

LEMMA FromSettled ==
  ASSUME Types, LedgerInv, NEW orph, NEW p \in Ids, NEW s \in Id0, NEW into \in Id0,
         LosersAre(orph, p, into)
  PROVE  /\ From(Settled(p, s, into), orph)
         /\ \A i \in DOMAIN ledger : Forgetting(ledger[i], p, into) =>
              \E j \in DOMAIN Settled(p, s, into) :
                /\ Settled(p, s, into)[j].kind = "forget"
                /\ Settled(p, s, into)[j].slug = ledger[i].slug
<1> DEFINE l == Settled(p, s, into)
<1>1. SettledTo(Len(ledger), l, p, into) /\ DOMAIN ledger = 1..Len(ledger)
  BY TypesLedger, SettledIs DEF LedgerTypes
<1> HIDE DEF l
<1>2. l \in Seq(Correction) /\ Ordered(l)
  BY <1>1 DEF SettledTo, LedgerInv
<1>3. ASSUME NEW i \in DOMAIN l
      PROVE  \E j \in DOMAIN ledger :
               /\ l[i].cid = ledger[j].cid
               /\ OfAPerson(l[i]) =>
                    /\ OfAPerson(ledger[j]) /\ l[i].slug = ledger[j].slug
                    /\ \/ l[i].kind = ledger[j].kind
                       \/ /\ l[i].kind = "forget" /\ ledger[j].kind = "merge"
                          /\ pc = "replay" => l[i].slug \in orph
  <2>1. PICK j \in DOMAIN ledger : Stands(l[i], ledger[j], p, into)
    BY <1>1 DEF SettledTo
  <2> QED
    BY <2>1 DEF Stands, OfAPerson, LosersAre
<1>4. \A i \in DOMAIN ledger : Forgetting(ledger[i], p, into) =>
        \E j \in DOMAIN l : l[j].kind = "forget" /\ l[j].slug = ledger[i].slug
  BY <1>1 DEF SettledTo
<1> QED
  BY <1>2, <1>3, <1>4 DEF From, l

LEMMA FromWithout ==
  ASSUME Types, LedgerInv, NEW orph, NEW cids
  PROVE  From(Without(cids), orph)
<1> DEFINE l == Without(cids)
<1>1. /\ l \in Seq(Correction)
      /\ \A i \in DOMAIN l : \E j \in DOMAIN ledger : l[i] = ledger[j]
      /\ Ordered(l)
  BY TypesLedger, WithoutIs DEF LedgerInv
<1> HIDE DEF l
<1>2. From(l, orph)
  BY <1>1 DEF From
<1> QED
  BY <1>2 DEF l

(* A forget stays on the ledger while its rows are settled.                *)
LEMMA ForgetsMember ==
  \A s : s \in Forgets <=>
    \E i \in DOMAIN ledger : ledger[i].kind = "forget" /\ ledger[i].slug = s
BY DEF Forgets

LEMMA ForgetsMemberNext ==
  \A s : s \in Forgets' <=>
    \E i \in DOMAIN ledger' : ledger'[i].kind = "forget" /\ ledger'[i].slug = s
BY DEF Forgets

-----------------------------------------------------------------------------
(* The steps of a pass, and what goes on beside it.                        *)

LEMMA NumTypes ==
  ASSUME Types
  PROVE  acts \in Nat /\ 0 \notin Ids
<1>1. acts \in 0..MaxActs /\ MaxActs \in Nat /\ Ids \subseteq Nat \ {0}
  BY BankAssumption DEF Types, TypeOK, BankTypeOK
<1> QED
  BY <1>1

LEMMA SlugKept ==
  ASSUME SlugInv, UNCHANGED <<known, name, slug, used, mname>>, Had' = Had
  PROVE  SlugInv'
BY DEF SlugInv

LEMMA ForgotKept ==
  ASSUME ForgotInv, forgot' = forgot, orphans \subseteq orphans',
         dead \subseteq dead', Forgets \subseteq Forgets' \cup dead' \cup orphans',
         \A s \in forgot : Unheard(s) => Unheard(s)'
  PROVE  ForgotInv'
BY DEF ForgotInv

(* Nothing of what the invariant is about changes, but that acts go up, a  *)
(* pass drops what it holds, or is past the part where that matters.       *)
LEMMA Quiet ==
  ASSUME Types, Deep, acts' \in Nat, acts <= acts',
         UNCHANGED <<known, name, slug, ledger, used, forgot>>,
         UNCHANGED <<living, dead, mname, news, orphans>>,
         rows' = rows \/ rows' = <<>> \/ Remain, done' \subseteq done,
         done' # {} \/ rows' # <<>> => pc' = "replay",
         \/ /\ UNCHANGED <<pc, listed, fresh, snap, who>>
            /\ todo' = todo \/ (pc = "push" /\ todo' \subseteq todo)
         \/ /\ pc' \notin {"mirror", "build", "clips", "push", "pushed"}
            /\ listed' \subseteq listed /\ (pc = "mirror" => listed' = {})
  PROVE  Deep'
<1>1. SlugInv'
  BY SlugKept DEF Deep, Had
<1>2. MirrorInv'
  BY DEF Deep, MirrorInv, Had
<1>3. BuildInv'
  BY DEF Deep, BuildInv, Had
<1>4. PushInv'
  BY DEF Deep, PushInv, Had
<1>5. MarkInv'
  BY DEF Deep, MarkInv
<1>6. LedgerInv'
  <2>1. From(ledger, orphans')
    BY FromLedger DEF Deep
  <2> QED
    BY <2>1, LedgerNext DEF Deep, Had
<1>7. ForgotInv'
  <2>1. Forgets' = Forgets
    BY DEF Forgets
  <2>2. \A s \in forgot : Unheard(s) => Unheard(s)'
    BY DEF Unheard
  <2> QED
    BY <2>1, <2>2, ForgotKept DEF Deep
<1> QED
  BY <1>1, <1>2, <1>3, <1>4, <1>5, <1>6, <1>7 DEF Deep

LEMMA QuietSteps ==
  ASSUME Types, Deep,
         \/ \E c \in Clips : PullClip(c) \/ Upload(c) \/ Restore(c)
         \/ \E p \in Ids : Diff(p)
         \/ \E p \in Ids : PushRefused(p)
         \/ ReadPending \/ NextPerson \/ ReplayFails \/ ClipsRefused \/ Fail
         \/ OwnerActs /\ \E p \in Ids, c \in Clips : Learn(p, c)
         \/ UNCHANGED vars
  PROVE  Deep'
<1>0. acts \in Nat /\ (acts' = acts \/ acts' = acts + 1 => acts' \in Nat /\ acts <= acts')
  <2>1. acts \in Nat
    BY NumTypes
  <2> QED
    BY <2>1
<1>1. ASSUME NEW c \in Clips, PullClip(c)
      PROVE  Deep'
  BY <1>0, <1>1, Quiet DEF PullClip, AddClip, membroVars, Deep, LedgerInv
<1>2. ASSUME NEW c \in Clips, Upload(c)
      PROVE  Deep'
  BY <1>0, <1>2, Quiet DEF Upload, bankVars, ghostVars, Deep, LedgerInv
<1>3. ASSUME NEW c \in Clips, Restore(c)
      PROVE  Deep'
  BY <1>0, <1>3, Quiet DEF Restore, AddClip, bankVars, membroVars, ghostVars,
     Deep, LedgerInv
<1>4. ASSUME NEW p \in Ids, Diff(p)
      PROVE  Deep'
  <2>1. pc = "people" /\ pc' \in {"people", "diff"}
    BY <1>4 DEF Diff
  <2>2. done = {} /\ rows = <<>>
    BY <2>1 DEF Deep, LedgerInv
  <2> QED
    BY <1>0, <1>4, <2>1, <2>2, Quiet DEF Diff, bankVars, membroVars, ghostVars
<1>5. CASE ReadPending
  <2>1. done = {} /\ rows = <<>>
    BY <1>5 DEF Deep, LedgerInv, ReadPending
  <2> QED
    BY <1>0, <1>5, <2>1, Quiet DEF ReadPending, bankVars, membroVars, ghostVars
<1>6. CASE NextPerson
  <2>1. done = {} /\ rows = <<>>
    BY <1>6 DEF Deep, LedgerInv, NextPerson
  <2> QED
    BY <1>0, <1>6, <2>1, Quiet DEF NextPerson, bankVars, membroVars, ghostVars
<1>7. CASE ReplayFails
  <2>1. rows' = <<>> \/ Remain
    <3>1. rows \in Seq(Correction) /\ rows # <<>>
      BY <1>7 DEF Types, TypeOK, ReplayFails
    <3>2. CASE rows' = Tail(rows)
      <4>1. \A j \in DOMAIN rows' : j + 1 \in DOMAIN rows /\ rows'[j] = rows[j + 1]
        BY <3>1, <3>2
      <4> QED
        BY <4>1 DEF Remain
    <3> QED
      BY <1>7, <3>2 DEF ReplayFails
  <2> QED
    BY <1>0, <1>7, <2>1, Quiet DEF ReplayFails, bankVars, membroVars, ghostVars
<1>11. CASE ClipsRefused
  BY <1>0, <1>11, Quiet DEF ClipsRefused, bankVars, membroVars, ghostVars, Deep,
     LedgerInv
<1>12. ASSUME NEW p \in Ids, PushRefused(p)
       PROVE  Deep'
  BY <1>0, <1>12, Quiet DEF PushRefused, bankVars, membroVars, ghostVars, Deep,
     LedgerInv
<1>8. CASE Fail
  BY <1>0, <1>8, Quiet DEF Fail, Stopped, bankVars, membroVars, ghostVars
<1>9. ASSUME OwnerActs, NEW p \in Ids, NEW c \in Clips, Learn(p, c)
      PROVE  Deep'
  <2>1. /\ UNCHANGED <<known, name, slug, ledger, used, forgot>>
        /\ acts' = acts + 1
        /\ UNCHANGED <<living, dead, mname, news, pc, listed, fresh, snap, todo,
                       who, rows, done>>
    BY <1>9 DEF OwnerActs, Learn, Act, membroVars, passVars
  <2>2. orphans' = orphans
    BY <1>9, <2>1 DEF OwnerActs, Unseen, Replayed
  <2>3. done' # {} \/ rows' # <<>> => pc' = "replay"
    BY <2>1 DEF Deep, LedgerInv
  <2> QED
    BY <1>0, <2>1, <2>2, <2>3, Quiet
<1>10. CASE UNCHANGED vars
  BY <1>0, <1>10, Quiet DEF vars, bankVars, membroVars, passVars, ghostVars,
     Deep, LedgerInv
<1> QED
  BY <1>1, <1>2, <1>3, <1>4, <1>5, <1>6, <1>7, <1>8, <1>9, <1>10,
     <1>11, <1>12

LEMMA PhaseSteps ==
  ASSUME Types, Deep,
         Begin \/ ReadForgets \/ Pulled \/ ReadPeople \/ ReadLedger \/ Finish
  PROVE  Deep'
<1>0. /\ slug \in [Ids -> Id0] /\ acts \in Nat /\ known \subseteq used
      /\ living \cap dead = {} /\ 0 \notin Ids
  BY NumTypes DEF Types, TypeOK, BankTypeOK
<1>1. UNCHANGED <<known, name, slug, ledger, used, acts, forgot>>
  BY DEF Begin, ReadForgets, Pulled, ReadPeople, ReadLedger, Finish, bankVars
<1>2. UNCHANGED <<living, dead, mname, orphans>>
  BY DEF Begin, ReadForgets, Pulled, ReadPeople, ReadLedger, Finish,
     membroVars, ghostVars
<1>3. SlugInv'
  BY <1>1, <1>2, SlugKept DEF Deep, Had
<1>4. MirrorInv'
  <2>1. CASE Begin
    <3>1. \A p \in Ids : slug[p] # 0 => p \in known
      BY DEF Deep, SlugInv
    <3>2. \A p, q \in Ids : slug[p] # 0 /\ slug[p] = slug[q] => p = q
      BY <3>1 DEF Deep, SlugInv
    <3>3. \A s \in fresh' : s \in living
      BY <2>1 DEF Begin
    <3> QED
      BY <1>0, <1>1, <1>2, <2>1, <3>2, <3>3 DEF Begin, MirrorInv, Had
  <2>2. CASE ~Begin
    BY <2>2 DEF ReadForgets, Pulled, ReadPeople, ReadLedger, Finish, Stopped,
       MirrorInv
  <2> QED
    BY <2>1, <2>2
<1>5. BuildInv'
  <2>1. CASE ReadForgets
    <3>1. ASSUME NEW s \in todo'
          PROVE  /\ s \in Had /\ \A p \in Ids : slug[p] # s
                 /\ s \in dead => s \in news' /\ s \notin listed'
      <4>1. s \in fresh /\ \A p \in Ids : snap[p] # s
        BY <2>1, <3>1 DEF ReadForgets
      <4>2. s \in Ids
        BY <4>1 DEF Types, TypeOK
      <4>3. \A p \in Ids : slug[p] \in {0, snap[p]}
        BY <2>1 DEF Deep, MirrorInv, ReadForgets
      <4>4. s \in Had /\ (s \in dead => s \in news /\ s \notin listed)
        BY <2>1, <4>1 DEF Deep, MirrorInv, ReadForgets
      <4> QED
        BY <1>0, <2>1, <4>1, <4>2, <4>3, <4>4 DEF ReadForgets, membroVars
    <3> QED
      BY <1>1, <1>2, <3>1 DEF BuildInv, Had
  <2>2. CASE Pulled
    BY <1>1, <1>2, <2>2 DEF Pulled, membroVars, Deep, BuildInv, Had
  <2>3. CASE Begin \/ ReadPeople \/ ReadLedger \/ Finish
    BY <2>3 DEF Begin, ReadPeople, ReadLedger, Finish, Stopped, BuildInv
  <2> QED
    BY <2>1, <2>2, <2>3
<1>6. PushInv'
  <2>1. CASE ReadPeople
    BY <1>0, <1>1, <2>1 DEF ReadPeople, PushInv
  <2>2. CASE ~ReadPeople
    BY <2>2 DEF Begin, ReadForgets, Pulled, ReadLedger, Finish, Stopped, PushInv
  <2> QED
    BY <2>1, <2>2
<1>7. MarkInv'
  <2>1. CASE Begin
    BY <1>1, <1>2, <2>1 DEF Begin, membroVars, Deep, MarkInv
  <2>2. CASE ReadForgets \/ Pulled \/ ReadPeople \/ ReadLedger
    BY <1>1, <1>2, <2>2 DEF ReadForgets, Pulled, ReadPeople, ReadLedger,
       membroVars, Deep, MarkInv
  <2>3. CASE Finish
    BY <1>1, <1>2, <2>3 DEF Finish, Stopped, Deep, MarkInv
  <2> QED
    BY <2>1, <2>2, <2>3
<1>8. LedgerInv'
  <2>1. CASE ReadLedger
    <3>1. done = {} /\ done' = {} /\ pc' = "replay" /\ rows' = ledger
      BY <2>1 DEF ReadLedger, Deep, LedgerInv
    <3>2. ASSUME NEW i \in DOMAIN ledger, NEW j \in DOMAIN ledger,
                 ledger[i].cid = ledger[j].cid
          PROVE  i = j
      <4>1. /\ i < j => ledger[i].cid < ledger[j].cid
            /\ j < i => ledger[j].cid < ledger[i].cid
        BY DEF Deep, LedgerInv, Ordered
      <4>2. ledger[i] \in Correction /\ ledger[j] \in Correction /\ i \in Nat /\ j \in Nat
        BY DEF Types, TypeOK, BankTypeOK
      <4>3. ledger[i].cid \in Nat /\ ledger[j].cid \in Nat
        BY <4>2 DEF Correction
      <4>4. ~(i < j) /\ ~(j < i)
        BY <3>2, <4>1, <4>3
      <4> QED
        BY <4>2, <4>4
    <3>3. \A i \in DOMAIN ledger, j \in DOMAIN rows' :
            OfAPerson(ledger[i]) /\ ledger[i].cid = rows'[j].cid
              => rows'[j].slug = ledger[i].slug /\ rows'[j].kind = ledger[i].kind
      BY <3>1, <3>2
    <3>4. /\ Ordered(ledger')
          /\ \A i \in DOMAIN ledger' :
               ledger'[i].cid < acts' /\ (OfAPerson(ledger'[i]) => ledger'[i].slug \in Had')
      BY <1>1, <1>2 DEF Deep, LedgerInv, Had
    <3>5. /\ \A i \in DOMAIN rows' :
               rows'[i].cid < acts' /\ (OfAPerson(rows'[i]) => rows'[i].slug \in Had')
          /\ \A i \in DOMAIN ledger', j \in DOMAIN rows' :
               OfAPerson(ledger'[i]) /\ ledger'[i].cid = rows'[j].cid
                 => rows'[j].slug = ledger'[i].slug /\ rows'[j].kind = ledger'[i].kind
      BY <1>1, <3>1, <3>3, <3>4
    <3> QED
      BY <3>1, <3>4, <3>5 DEF LedgerInv, SameRow
  <2>2. CASE ~ReadLedger
    <3>1. done = {} /\ rows = <<>>
      BY <2>2 DEF Deep, LedgerInv, Begin, ReadForgets, Pulled, ReadPeople, Finish
    <3>2. done' = {} /\ rows' = <<>>
      BY <2>2, <3>1 DEF Begin, ReadForgets, Pulled, ReadPeople, Finish, Stopped
    <3>3. From(ledger, orphans')
      BY FromLedger DEF Deep
    <3>4. acts' \in Nat /\ acts <= acts'
      BY <1>0, <1>1
    <3> QED
      BY <1>1, <1>2, <3>2, <3>3, <3>4, LedgerNext DEF Deep, Had
  <2> QED
    BY <2>1, <2>2
<1>9. ForgotInv'
  <2>1. Forgets' = Forgets
    BY <1>1 DEF Forgets
  <2>2. \A s \in forgot : Unheard(s) => Unheard(s)'
    <3>1. CASE ReadPeople
      BY <1>1, <1>2, <3>1 DEF ReadPeople, Unheard
    <3>2. CASE ~ReadPeople
      BY <1>1, <1>2, <3>2 DEF Begin, ReadForgets, Pulled, ReadLedger, Finish,
         Stopped, Unheard
    <3> QED
      BY <3>1, <3>2
  <2> QED
    BY <1>1, <1>2, <2>1, <2>2, ForgotKept DEF Deep
<1> QED
  BY <1>3, <1>4, <1>5, <1>6, <1>7, <1>8, <1>9 DEF Deep

(* Membro's mark takes the person who was read with it, and nobody else.   *)
LEMMA MirrorStep ==
  ASSUME Types, Deep, NEW s \in Ids, Mirror(s)
  PROVE  Deep'
<1>0. /\ slug \in [Ids -> Id0] /\ acts \in Nat /\ known \subseteq Ids
      /\ 0 \notin Ids /\ 0 \in Id0
      /\ pc = "mirror" /\ pc' = "mirror" /\ todo' = todo \ {s}
  BY NumTypes DEF Types, TypeOK, BankTypeOK, Id0, Mirror
<1>1. /\ UNCHANGED <<living, dead, mname, news, listed, fresh, snap, rows, done,
                     orphans>>
      /\ UNCHANGED <<name, used, acts, forgot>>
  BY DEF Mirror, ForgetHere, bankVars, membroVars, ghostVars
<1>2. done = {} /\ rows = <<>>
  BY <1>0 DEF Deep, LedgerInv
<1>3. /\ known' \subseteq known
      /\ \A p \in Ids : slug'[p] = IF p \in known \ known' THEN 0 ELSE slug[p]
      /\ \A p \in known' : slug[p] = s => s \notin dead
      /\ From(ledger', orphans') /\ Forgets \subseteq Forgets'
  <2>1. CASE \E p \in known : snap[p] = s
    <3>1. PICK p \in known : snap[p] = s /\ ForgetHere(p)
      BY <2>1 DEF Mirror
    <3>2. /\ known' = known \ {p} /\ slug' = [slug EXCEPT ![p] = 0]
          /\ ledger' = Settled(p, slug[p], 0)
      BY <3>1 DEF ForgetHere, Gone
    <3>3. p \in Ids /\ slug[p] \in Id0
      BY <1>0
    <3>4. \A q \in known' : slug[q] # s
      <4>1. \A q \in Ids : slug[q] \in {0, snap[q]}
        BY <1>0 DEF Deep, MirrorInv
      <4>2. \A q \in Ids : snap[q] # 0 /\ snap[q] = snap[p] => q = p
        BY <1>0, <3>3 DEF Deep, MirrorInv
      <4> QED
        BY <1>0, <3>1, <3>2, <4>1, <4>2
    <3>5. /\ From(ledger', orphans')
          /\ \A i \in DOMAIN ledger : Forgetting(ledger[i], p, 0) =>
               \E j \in DOMAIN ledger' :
                 ledger'[j].kind = "forget" /\ ledger'[j].slug = ledger[i].slug
      <4> DEFINE l == Settled(p, slug[p], 0)
      <4>1. /\ From(l, orphans')
            /\ \A i \in DOMAIN ledger : Forgetting(ledger[i], p, 0) =>
                 \E j \in DOMAIN l : l[j].kind = "forget" /\ l[j].slug = ledger[i].slug
        BY <1>0, <3>3, FromSettled DEF Deep, LosersAre
      <4>2. ledger' = l
        BY <3>2
      <4> HIDE DEF l
      <4> QED
        BY <4>1, <4>2
    <3>6. Forgets \subseteq Forgets'
      BY <3>5, ForgetsMember, ForgetsMemberNext DEF Forgetting
    <3> QED
      BY <1>0, <3>2, <3>3, <3>4, <3>5, <3>6
  <2>2. CASE ~(\E p \in known : snap[p] = s)
    <3>1. UNCHANGED <<known, slug, ledger>>
      BY <2>2 DEF Mirror, bankVars
    <3>2. \A p \in known : slug[p] = s => s \notin dead
      BY <1>0, <2>2 DEF Deep, MirrorInv
    <3>3. From(ledger', orphans')
      BY <3>1, FromLedger DEF Deep
    <3>4. Forgets' = Forgets
      BY <3>1 DEF Forgets
    <3> QED
      BY <3>1, <3>2, <3>3, <3>4
  <2> QED
    BY <2>1, <2>2
<1>4. SlugInv'
  BY <1>0, <1>1, <1>3 DEF Deep, SlugInv, Had
<1>5. MirrorInv'
  BY <1>0, <1>1, <1>3 DEF Deep, MirrorInv, Had
<1>6. BuildInv' /\ PushInv'
  BY <1>0 DEF BuildInv, PushInv
<1>7. MarkInv'
  BY <1>0, <1>1, <1>3 DEF Deep, MarkInv
<1>8. LedgerInv'
  <2>1. done' # {} \/ rows' # <<>> => pc' = "replay"
    BY <1>1, <1>2
  <2>2. acts' \in Nat /\ acts <= acts'
    BY <1>0, <1>1
  <2> QED
    BY <1>1, <1>3, <2>1, <2>2, LedgerNext DEF Deep, Had
<1>9. ForgotInv'
  BY <1>0, <1>1, <1>3, ForgotKept DEF Deep, Unheard
<1> QED
  BY <1>4, <1>5, <1>6, <1>7, <1>8, <1>9 DEF Deep

(* A rebuild gives a slug that nobody has, to its first bearer if the      *)
(* store still has them.                                                   *)
LEMMA BuildStep ==
  ASSUME Types, Deep, NEW s \in Ids, Build(s)
  PROVE  Deep'
<1> DEFINE P == IF Named(mname[s]) = {} THEN Unused ELSE {Find(mname[s])}
<1>0. /\ slug \in [Ids -> Id0] /\ name \in [Ids -> Names] /\ acts \in Nat
      /\ known \subseteq used /\ used \subseteq Ids /\ 0 \notin Ids
      /\ pc = "build" /\ s \in todo /\ todo' = todo \ {s}
  BY NumTypes DEF Types, TypeOK, BankTypeOK, Build
<1>1. UNCHANGED <<living, dead, mname, news, listed, snap, rows, done, orphans>>
  BY DEF Build, membroVars, ghostVars
<1>2. /\ s \in Had /\ \A q \in Ids : slug[q] # s
      /\ s \in dead => s \in news /\ s \notin listed
      /\ mname[s] = name[s] /\ Had \subseteq used
  BY <1>0 DEF Deep, BuildInv, SlugInv
<1>3. CASE ~(\E p \in P : slug[p] = 0)
  <2>1. UNCHANGED <<bankVars, who, pc>>
    BY <1>3 DEF Build
  <2>2. UNCHANGED <<known, name, slug, ledger, used, acts, forgot>>
    BY <2>1 DEF bankVars
  <2>3. SlugInv'
    BY <1>1, <2>2, SlugKept DEF Deep, Had
  <2>4. MirrorInv' /\ PushInv'
    BY <1>0, <2>1 DEF MirrorInv, PushInv
  <2>5. BuildInv'
    BY <1>0, <1>1, <2>1, <2>2 DEF Deep, BuildInv, Had
  <2>6. MarkInv'
    BY <1>0, <1>1, <2>1, <2>2 DEF Deep, MarkInv
  <2>7. LedgerInv'
    <3>1. From(ledger, orphans') /\ acts' \in Nat /\ acts <= acts'
      BY <1>0, <2>2, FromLedger DEF Deep
    <3>2. done' # {} \/ rows' # <<>> => pc' = "replay"
      BY <1>1, <2>1 DEF Deep, LedgerInv
    <3> QED
      BY <1>1, <2>2, <3>1, <3>2, LedgerNext DEF Deep, Had
  <2>8. ForgotInv'
    <3>1. Forgets' = Forgets
      BY <2>2 DEF Forgets
    <3> QED
      BY <1>0, <1>1, <2>1, <2>2, <3>1, ForgotKept DEF Deep, Unheard
  <2> QED
    BY <2>3, <2>4, <2>5, <2>6, <2>7, <2>8 DEF Deep
<1>4. ASSUME NEW p \in P, Rebuild(p, mname[s], s), pc' = "clips"
      PROVE  Deep'
  <2>0. /\ p \in Ids /\ (p \in known \/ p \notin used)
        /\ p \notin known => \A q \in known : name[q] # name[s]
        /\ s \in known => p = s
    <3>1. CASE Named(mname[s]) = {}
      <4>1. p \in Ids /\ p \notin used
        BY <3>1, <1>4, UnusedIs
      <4>2. \A q \in known : name[q] # name[s]
        BY <3>1, <1>2 DEF Named
      <4> QED
        BY <4>1, <4>2
    <3>2. CASE Named(mname[s]) # {}
      <4>1. p = Find(mname[s])
        BY <3>2
      <4>2. /\ p \in known
            /\ name[p] # mname[s] => \A q \in known : name[q] # mname[s]
        BY <3>2, <4>1, FindIs
      <4>3. s \in known => p = s
        BY <4>2, <1>2 DEF Deep, SlugInv
      <4> QED
        BY <1>0, <4>2, <4>3
    <3> QED
      BY <3>1, <3>2
  <2> HIDE DEF P
  <2>1. /\ known' = known \cup {p} /\ used' = used \cup {p}
        /\ slug' = [slug EXCEPT ![p] = s]
        /\ UNCHANGED <<ledger, acts, forgot>>
        /\ \A q \in used : name'[q] = name[q]
        /\ p \notin used => name'[p] = name[s]
    BY <1>0, <1>2, <1>4, <2>0 DEF Rebuild
  <2>2. \A q \in Ids : slug'[q] = IF q = p THEN s ELSE slug[q]
    BY <1>0, <2>1
  <2>3. p \notin known => p \notin Had /\ p # s
    BY <1>2, <2>0
  <2>4. SlugInv'
    <3>1. \A q \in Ids \ known' : slug'[q] = 0
      BY <2>1, <2>2 DEF Deep, SlugInv
    <3>2. \A q \in known' : slug'[q] # 0 => slug'[q] \in Had
      BY <1>0, <1>2, <2>0, <2>1, <2>2 DEF Deep, SlugInv
    <3>3. \A q, r \in known' : slug'[q] # 0 /\ slug'[q] = slug'[r] => q = r
      BY <1>0, <1>2, <2>0, <2>1, <2>2 DEF Deep, SlugInv
    <3>4. ASSUME NEW q \in known', slug'[q] \in known'
          PROVE  slug'[q] = q
      <4>1. CASE q = p
        BY <4>1, <3>4, <2>0, <2>1, <2>2, <2>3
      <4>2. CASE q # p
        <5>1. slug'[q] = slug[q] /\ q \in known
          BY <4>2, <1>0, <2>0, <2>1, <2>2
        <5>2. slug[q] # 0 /\ slug[q] \in Had
          BY <5>1, <3>4, <1>0, <2>0, <2>1 DEF Deep, SlugInv
        <5>3. slug[q] \in known
          BY <5>1, <5>2, <3>4, <2>1, <2>3
        <5> QED
          BY <5>1, <5>3 DEF Deep, SlugInv
      <4> QED
        BY <4>1, <4>2
    <3>5. \A q, r \in known' : name'[q] = name'[r] => q = r
      BY <1>0, <1>2, <2>0, <2>1 DEF Deep, SlugInv
    <3>6. Had' = Had /\ Had' \subseteq used' /\ \A t \in Had' : mname'[t] = name'[t]
      BY <1>1, <1>2, <2>1 DEF Deep, SlugInv, Had
    <3> QED
      BY <3>1, <3>2, <3>3, <3>4, <3>5, <3>6 DEF SlugInv
  <2>5. MirrorInv' /\ PushInv'
    BY <1>4 DEF MirrorInv, PushInv
  <2>6. BuildInv'
    <3>1. ASSUME NEW t \in todo'
          PROVE  /\ t \in Had /\ \A q \in Ids : slug'[q] # t
                 /\ t \in dead => t \in news /\ t \notin listed
      <4>1. t \in todo /\ t # s
        BY <1>0
      <4> QED
        BY <4>1, <1>0, <2>2 DEF Deep, BuildInv
    <3> QED
      BY <1>1, <3>1 DEF BuildInv, Had
  <2>7. MarkInv'
    <3>1. ASSUME NEW q \in known', slug'[q] \in dead
          PROVE  slug'[q] \in news /\ slug'[q] \notin listed
      <4>1. CASE q = p
        BY <4>1, <3>1, <1>2, <2>0, <2>2
      <4>2. CASE q # p
        <5>1. q \in known /\ slug'[q] = slug[q]
          BY <4>2, <1>0, <2>0, <2>1, <2>2
        <5> QED
          BY <5>1, <3>1, <1>0 DEF Deep, MarkInv
      <4> QED
        BY <4>1, <4>2
    <3> QED
      BY <1>1, <3>1 DEF MarkInv
  <2>8. LedgerInv'
    <3>1. From(ledger, orphans') /\ acts' \in Nat /\ acts <= acts'
      BY <1>0, <2>1, FromLedger DEF Deep
    <3>2. done = {} /\ rows = <<>>
      BY <1>0 DEF Deep, LedgerInv
    <3>3. done' # {} \/ rows' # <<>> => pc' = "replay"
      BY <1>1, <3>2
    <3> QED
      BY <1>1, <2>1, <3>1, <3>3, LedgerNext DEF Deep, Had
  <2>9. ForgotInv'
    <3>1. Forgets' = Forgets
      BY <2>1 DEF Forgets
    <3>2. \A t \in forgot : Unheard(t) => Unheard(t)'
      BY <1>1, <1>4, <2>0, <2>1 DEF Unheard
    <3> QED
      BY <1>1, <2>1, <3>1, <3>2, ForgotKept DEF Deep
  <2> QED
    BY <2>4, <2>5, <2>6, <2>7, <2>8, <2>9 DEF Deep
<1> QED
  BY <1>3, <1>4 DEF Build

(* Whoever is pushed is somebody the store knows or knew, and goes by the  *)
(* name they have there.                                                   *)
LEMMA PushStep ==
  ASSUME Types, Deep, NEW p \in Ids, Push(p)
  PROVE  Deep'
<1>0. /\ acts \in Nat /\ pc = "push" /\ p \in todo /\ p \in used
      /\ todo' = todo \ {p} /\ done = {} /\ rows = <<>>
  BY NumTypes DEF Push, Eldest, Deep, PushInv, LedgerInv
<1>1. /\ UNCHANGED <<known, name, slug, ledger, used, acts, forgot>>
      /\ UNCHANGED <<dead, snap, rows, done, orphans>>
  BY DEF Push, bankVars, ghostVars
<1>2. \/ UNCHANGED <<living, mname, news, listed, pc, who>>
      \/ /\ living' = living \cup {p} /\ mname' = [mname EXCEPT ![p] = name[p]]
         /\ news' = news \cup {p} /\ listed' = listed \ {p}
         /\ pc' = "pushed" /\ who' = p
  BY DEF Push, Changed
<1>3. /\ living \subseteq living' /\ news \subseteq news' /\ listed' \subseteq listed
      /\ pc' \in {"push", "pushed"} /\ Had \subseteq Had'
      /\ Had' \subseteq Had \cup {p}
  BY <1>0, <1>1, <1>2 DEF Had
<1>4. SlugInv'
  <2>1. \A s \in Had' : mname'[s] = name'[s]
    <3>1. mname \in [Ids -> Names] /\ Had' \subseteq Ids
      BY <1>3 DEF Types, TypeOK, Had
    <3>2. CASE mname' = mname /\ living' = living
      BY <1>1, <3>2 DEF Deep, SlugInv, Had
    <3>3. CASE mname' = [mname EXCEPT ![p] = name[p]]
      BY <1>1, <1>3, <3>1, <3>3 DEF Deep, SlugInv
    <3> QED
      BY <1>2, <3>2, <3>3
  <2> QED
    BY <1>0, <1>1, <1>3, <2>1 DEF Deep, SlugInv
<1>5. MirrorInv' /\ BuildInv'
  BY <1>3 DEF MirrorInv, BuildInv
<1>6. PushInv'
  BY <1>0, <1>1, <1>2 DEF Deep, PushInv, Had
<1>7. MarkInv'
  BY <1>0, <1>1, <1>3 DEF Deep, MarkInv
<1>8. LedgerInv'
  <2>1. From(ledger, orphans') /\ acts' \in Nat /\ acts <= acts'
    BY <1>0, <1>1, FromLedger DEF Deep
  <2>2. done' # {} \/ rows' # <<>> => pc' = "replay"
    BY <1>0, <1>1
  <2> QED
    BY <1>1, <1>3, <2>1, <2>2, LedgerNext DEF Deep
<1>9. ForgotInv'
  <2>1. Forgets' = Forgets
    BY <1>1 DEF Forgets
  <2>2. \A s \in forgot : Unheard(s) => Unheard(s)'
    BY <1>0, <1>1, <1>2 DEF Unheard
  <2> QED
    BY <1>1, <2>1, <2>2, ForgotKept DEF Deep
<1> QED
  BY <1>4, <1>5, <1>6, <1>7, <1>8, <1>9 DEF Deep

LEMMA PushedStep ==
  ASSUME Types, Deep, Pushed
  PROVE  Deep'
<1>0. /\ acts \in Nat /\ pc = "pushed" /\ pc' = "push" /\ todo' = todo
      /\ slug \in [Ids -> Id0] /\ who \in Ids /\ 0 \notin Ids /\ known \subseteq Ids
      /\ done = {} /\ rows = <<>>
      /\ who \in Had /\ who \in news /\ who \notin listed
  BY NumTypes DEF Pushed, Deep, PushInv, LedgerInv, Types, TypeOK, BankTypeOK
<1>1. /\ UNCHANGED <<known, name, ledger, used, acts, forgot>>
      /\ UNCHANGED <<living, dead, mname, news, listed, snap, rows, done, orphans>>
  BY DEF Pushed, SetSlug, membroVars, ghostVars
<1>2. /\ \A p \in Ids : slug'[p] = IF p = who /\ p \in known THEN who ELSE slug[p]
      /\ Had' = Had
  BY <1>0, <1>1 DEF Pushed, SetSlug, Had
<1>3. SlugInv'
  BY <1>0, <1>1, <1>2 DEF Deep, SlugInv
<1>4. MirrorInv' /\ BuildInv'
  BY <1>0 DEF MirrorInv, BuildInv
<1>5. PushInv'
  BY <1>0, <1>1 DEF Deep, PushInv
<1>6. MarkInv'
  BY <1>0, <1>1, <1>2 DEF Deep, MarkInv
<1>7. LedgerInv'
  <2>1. From(ledger, orphans') /\ acts' \in Nat /\ acts <= acts'
    BY <1>0, <1>1, FromLedger DEF Deep
  <2>2. done' # {} \/ rows' # <<>> => pc' = "replay"
    BY <1>0, <1>1
  <2> QED
    BY <1>1, <1>2, <2>1, <2>2, LedgerNext DEF Deep
<1>8. ForgotInv'
  <2>1. Forgets' = Forgets
    BY <1>1 DEF Forgets
  <2>2. \A s \in forgot : Unheard(s) => Unheard(s)'
    BY <1>0, <1>1 DEF Unheard
  <2> QED
    BY <1>1, <2>1, <2>2, ForgotKept DEF Deep
<1> QED
  BY <1>3, <1>4, <1>5, <1>6, <1>7, <1>8 DEF Deep

(* Somebody membro forgets or merges away is marked.                       *)
LEMMA LeavesStep ==
  ASSUME Types, Deep, NEW S, S \subseteq living,
         living' = living \ S, dead' = dead \cup S,
         news' = news \cup S, listed' = listed \ S,
         UNCHANGED <<known, name, slug, ledger, used, acts, forgot>>,
         UNCHANGED <<mname, pc, fresh, snap, todo, who, orphans>>
  PROVE  (SlugInv /\ MirrorInv /\ BuildInv /\ PushInv /\ MarkInv /\ ForgotInv)'
<1>0. living \cap dead = {} /\ Had' = Had
  BY DEF Types, TypeOK, Had
<1>1. SlugInv'
  BY <1>0, SlugKept DEF Deep
<1>2. MirrorInv'
  BY <1>0 DEF Deep, MirrorInv
<1>3. BuildInv'
  BY <1>0 DEF Deep, BuildInv
<1>4. PushInv'
  BY <1>0 DEF Deep, PushInv
<1>5. MarkInv'
  BY DEF Deep, MarkInv
<1>6. ForgotInv'
  <2>1. Forgets' = Forgets
    BY DEF Forgets
  <2>2. \A s \in forgot : Unheard(s) => Unheard(s)'
    BY DEF Unheard
  <2> QED
    BY <2>1, <2>2, ForgotKept DEF Deep
<1> QED
  BY <1>1, <1>2, <1>3, <1>4, <1>5, <1>6

LEMMA MembroForgetsStep ==
  ASSUME Types, Deep, NEW s \in Ids, MembroForgets(s)
  PROVE  Deep'
<1>1. /\ {s} \subseteq living /\ living' = living \ {s} /\ dead' = dead \cup {s}
      /\ news' = news \cup {s} /\ listed' = listed \ {s}
      /\ UNCHANGED <<known, name, slug, ledger, used, acts, forgot>>
      /\ UNCHANGED <<mname, pc, fresh, snap, todo, who, rows, done, orphans>>
  BY DEF MembroForgets, Changed, bankVars, ghostVars
<1>2. (SlugInv /\ MirrorInv /\ BuildInv /\ PushInv /\ MarkInv /\ ForgotInv)'
  BY <1>1, LeavesStep
<1>3. LedgerInv'
  <2>1. From(ledger, orphans') /\ acts' \in Nat /\ acts <= acts'
    BY <1>1, NumTypes, FromLedger DEF Deep
  <2>2. done' # {} \/ rows' # <<>> => pc' = "replay"
    BY <1>1 DEF Deep, LedgerInv
  <2>3. Had' = Had
    BY <1>1 DEF Had
  <2> QED
    BY <1>1, <2>1, <2>2, <2>3, LedgerNext DEF Deep
<1> QED
  BY <1>2, <1>3 DEF Deep

(* A row that landed: who it names has left, or the row was a merge and    *)
(* its loser an orphan.                                                    *)
LEMMA ReplayStep ==
  ASSUME Types, Deep, Replay
  PROVE  Deep'
<1> DEFINE r == Head(rows)
           S == IF ~Waits(r) /\ Applies(r) THEN Leavers(r) ELSE {}
<1>0. /\ rows \in Seq(Correction) /\ rows # <<>> /\ pc = "replay" /\ acts \in Nat
  BY NumTypes DEF Replay, Types, TypeOK
<1>1. /\ r = rows[1] /\ 1 \in DOMAIN rows /\ r \in Correction
      /\ \A i \in DOMAIN rows' : i + 1 \in DOMAIN rows /\ rows'[i] = rows[i + 1]
  BY <1>0 DEF Replay
<1>2. /\ UNCHANGED <<known, name, slug, ledger, used, acts, forgot>>
      /\ UNCHANGED <<mname, pc, fresh, snap, todo, who, orphans>>
      /\ done' = IF Waits(r) THEN done ELSE done \cup {r.cid}
  BY DEF Replay, bankVars
<1>3. /\ living' = living \ S /\ dead' = dead \cup S
      /\ news' = news \cup S /\ listed' = listed \ S
  BY DEF Replay, Changed
<1>4. S \subseteq living
  BY DEF Applies, Leavers
<1>5. r.kind = "forget" /\ r.slug \in Had => ~Waits(r) /\ r.slug \in dead'
  BY <1>3 DEF Waits, Applies, Leavers, Had
<1> HIDE DEF r, S
<1>6. (SlugInv /\ MirrorInv /\ BuildInv /\ PushInv /\ MarkInv /\ ForgotInv)'
  BY <1>2, <1>3, <1>4, LeavesStep
<1>7. Had' = Had /\ dead \subseteq dead'
  BY <1>3, <1>4 DEF Had
<1>8. LedgerInv'
  <2>1. /\ Ordered(ledger')
        /\ \A i \in DOMAIN ledger' :
             ledger'[i].cid < acts' /\ (OfAPerson(ledger'[i]) => ledger'[i].slug \in Had')
    BY <1>2, <1>7 DEF Deep, LedgerInv
  <2>2. \A i \in DOMAIN rows' :
          rows'[i].cid < acts' /\ (OfAPerson(rows'[i]) => rows'[i].slug \in Had')
    BY <1>1, <1>2, <1>7 DEF Deep, LedgerInv
  <2>3. \A c \in done' : c < acts'
    BY <1>1, <1>2 DEF Deep, LedgerInv
  <2>4. \A i \in DOMAIN ledger', j \in DOMAIN rows' :
          OfAPerson(ledger'[i]) /\ ledger'[i].cid = rows'[j].cid =>
            /\ rows'[j].slug = ledger'[i].slug
            /\ \/ rows'[j].kind = ledger'[i].kind
               \/ /\ rows'[j].kind = "merge" /\ ledger'[i].kind = "forget"
                  /\ ledger'[i].slug \in orphans'
    <3>1. \A i \in DOMAIN ledger, j \in DOMAIN rows :
            OfAPerson(ledger[i]) /\ ledger[i].cid = rows[j].cid =>
              /\ rows[j].slug = ledger[i].slug
              /\ \/ rows[j].kind = ledger[i].kind
                 \/ /\ rows[j].kind = "merge" /\ ledger[i].kind = "forget"
                    /\ ledger[i].slug \in orphans
      BY DEF Deep, LedgerInv, SameRow
    <3> QED
      BY <1>1, <1>2, <3>1
  <2>5. ASSUME NEW i \in DOMAIN ledger', ledger'[i].kind = "forget",
               ledger'[i].cid \in done'
        PROVE  ledger'[i].slug \in dead' \cup orphans'
    <3>1. i \in DOMAIN ledger /\ ledger'[i] = ledger[i] /\ OfAPerson(ledger[i])
      BY <1>2, <2>5 DEF OfAPerson
    <3>2. CASE ledger[i].cid \in done
      BY <1>2, <1>7, <2>5, <3>1, <3>2 DEF Deep, LedgerInv
    <3>3. CASE ledger[i].cid = r.cid
      <4>1. SameRow(ledger[i], rows[1])
        BY <1>1, <3>1, <3>3 DEF Deep, LedgerInv
      <4>2. CASE r.kind = "forget"
        <5>1. r.slug = ledger[i].slug /\ r.slug \in Had
          BY <1>1, <3>1, <4>1 DEF SameRow, Deep, LedgerInv
        <5> QED
          BY <1>5, <3>1, <4>2, <5>1
      <4>3. CASE r.kind # "forget"
        BY <1>1, <1>2, <2>5, <3>1, <4>1, <4>3 DEF SameRow
      <4> QED
        BY <4>2, <4>3
    <3> QED
      BY <1>2, <2>5, <3>1, <3>2, <3>3
  <2>6. pc' = "replay"
    BY <1>0, <1>2
  <2> QED
    BY <2>1, <2>2, <2>3, <2>4, <2>5, <2>6 DEF LedgerInv, SameRow
<1> QED
  BY <1>6, <1>8 DEF Deep

LEMMA TakeOffStep ==
  ASSUME Types, Deep, TakeOff
  PROVE  Deep'
<1>0. /\ acts \in Nat /\ pc = "replay" /\ pc' = "settle"
      /\ rows' = <<>> /\ done' = {} /\ ledger' = Without(done)
      /\ UNCHANGED <<known, name, slug, used, acts, forgot>>
      /\ UNCHANGED <<living, dead, mname, news, listed, orphans>>
  BY NumTypes DEF TakeOff, RemoveCorrections, membroVars, ghostVars
<1>1. SlugInv'
  BY <1>0, SlugKept DEF Deep, Had
<1>2. MirrorInv' /\ BuildInv' /\ PushInv'
  BY <1>0 DEF MirrorInv, BuildInv, PushInv
<1>3. MarkInv'
  BY <1>0 DEF Deep, MarkInv
<1>4. LedgerInv'
  <2>1. From(ledger', orphans')
    BY <1>0, FromWithout DEF Deep
  <2>2. acts' \in Nat /\ acts <= acts'
    BY <1>0
  <2> QED
    BY <1>0, <2>1, <2>2, LedgerNext DEF Deep, Had
<1>5. Forgets \subseteq Forgets' \cup dead' \cup orphans'
  <2>1. ASSUME NEW i \in DOMAIN ledger, ledger[i].kind = "forget"
        PROVE  ledger[i].slug \in Forgets' \cup dead' \cup orphans'
    <3>1. CASE ledger[i].cid \in done
      BY <1>0, <2>1, <3>1 DEF Deep, LedgerInv
    <3>2. CASE ledger[i].cid \notin done
      <4>1. \E j \in DOMAIN ledger' : ledger'[j] = ledger[i]
        BY <1>0, <3>2, TypesLedger, WithoutIs
      <4> QED
        BY <2>1, <4>1, ForgetsMemberNext
    <3> QED
      BY <3>1, <3>2
  <2> QED
    BY <2>1, ForgetsMember
<1>6. ForgotInv'
  <2>1. \A s \in forgot : Unheard(s) => Unheard(s)'
    BY <1>0 DEF Unheard
  <2> QED
    BY <1>0, <1>5, <2>1, ForgotKept DEF Deep
<1> QED
  BY <1>1, <1>2, <1>3, <1>4, <1>6 DEF Deep

-----------------------------------------------------------------------------
(* What the owner does, at any moment of a pass.                           *)

LEMMA Beside ==
  ASSUME OwnerActs
  PROVE  /\ UNCHANGED <<living, dead, mname, news, pc, listed, fresh, snap, todo,
                        who, rows, done>>
         /\ orphans' = orphans \cup Unseen \cup Replayed
         /\ Had' = Had
BY DEF OwnerActs, membroVars, passVars, Had

LEMMA IntroduceStep ==
  ASSUME Types, Deep, OwnerActs, NEW n \in Names, Introduce(n)
  PROVE  Deep'
<1>0. /\ slug \in [Ids -> Id0] /\ name \in [Ids -> Names] /\ acts \in Nat
      /\ known \subseteq used /\ used \subseteq Ids /\ 0 \notin Ids
  BY NumTypes DEF Types, TypeOK, BankTypeOK
<1>1. /\ acts' = acts + 1 /\ Named(n) = {}
      /\ UNCHANGED <<slug, ledger, forgot>>
  BY DEF Introduce, Act
<1>2. PICK p \in Unused :
        /\ known' = known \cup {p} /\ used' = used \cup {p}
        /\ name' = [name EXCEPT ![p] = n]
  BY DEF Introduce
<1>3. /\ p \in Ids /\ p \notin used /\ slug[p] = 0
      /\ \A q \in used : name'[q] = name[q] /\ q # p
      /\ name'[p] = n /\ \A q \in known : name[q] # n
  BY <1>0, <1>1, <1>2, UnusedIs DEF Named, Deep, SlugInv
<1>4. /\ UNCHANGED <<living, dead, mname, news, pc, listed, fresh, snap, todo,
                     who, rows, done>>
      /\ orphans' = orphans /\ Had' = Had
  BY <1>2, Beside DEF Unseen, Replayed
<1>5. SlugInv'
  BY <1>0, <1>1, <1>2, <1>3, <1>4 DEF Deep, SlugInv
<1>6. MirrorInv' /\ BuildInv'
  BY <1>1, <1>4 DEF Deep, MirrorInv, BuildInv, Had
<1>7. PushInv'
  BY <1>2, <1>4 DEF Deep, PushInv
<1>8. MarkInv'
  <2>1. p \notin known /\ 0 \notin dead
    BY <1>0, <1>3 DEF Types, TypeOK
  <2> QED
    BY <1>1, <1>2, <1>3, <1>4, <2>1 DEF Deep, MarkInv
<1>9. LedgerInv'
  <2>1. From(ledger, orphans') /\ acts' \in Nat /\ acts <= acts'
    BY <1>0, <1>1, FromLedger DEF Deep
  <2>2. done' # {} \/ rows' # <<>> => pc' = "replay"
    BY <1>4 DEF Deep, LedgerInv
  <2> QED
    BY <1>1, <1>4, <2>1, <2>2, LedgerNext DEF Deep
<1>10. ForgotInv'
  <2>1. Forgets' = Forgets
    BY <1>1 DEF Forgets
  <2>2. \A s \in forgot : Unheard(s) => Unheard(s)'
    BY <1>2, <1>3, <1>4 DEF Unheard
  <2> QED
    BY <1>1, <1>4, <2>1, <2>2, ForgotKept DEF Deep
<1> QED
  BY <1>5, <1>6, <1>7, <1>8, <1>9, <1>10 DEF Deep

(* A clip is deleted, or moved: a row about it, at the end of the ledger.  *)
LEMMA ClipStep ==
  ASSUME Types, Deep, OwnerActs, NEW p \in Ids, NEW c \in Clips,
         DeleteClip(p, c) \/ \E q \in Ids : MoveClip(p, q, c)
  PROVE  Deep'
<1>1. /\ UNCHANGED <<known, name, slug, used, forgot>>
      /\ acts' = acts + 1 /\ acts \in Nat
  BY NumTypes DEF DeleteClip, MoveClip, Act
<1>2. PICK r \in Correction :
        ledger' = Append(ledger, r) /\ r.cid = acts /\ ~OfAPerson(r)
  <2>1. CASE DeleteClip(p, c)
    BY <2>1, RowsOf DEF DeleteClip, DeleteOf, OfAPerson
  <2>2. ASSUME NEW q \in Ids, MoveClip(p, q, c)
        PROVE  \E r \in Correction :
                 ledger' = Append(ledger, r) /\ r.cid = acts /\ ~OfAPerson(r)
    BY <2>2, RowsOf DEF MoveClip, MoveOf, OfAPerson
  <2> QED
    BY <2>1, <2>2
<1>3. /\ UNCHANGED <<living, dead, mname, news, pc, listed, fresh, snap, todo,
                     who, rows, done>>
      /\ orphans' = orphans /\ Had' = Had
  BY <1>1, Beside DEF Unseen, Replayed
<1>4. SlugInv'
  BY <1>1, <1>3, SlugKept DEF Deep
<1>5. MirrorInv' /\ BuildInv' /\ PushInv' /\ MarkInv'
  BY <1>1, <1>3 DEF Deep, MirrorInv, BuildInv, PushInv, MarkInv, Had
<1>6. LedgerInv'
  <2>1. From(ledger, orphans') /\ acts' \in Nat
    BY <1>1, FromLedger DEF Deep
  <2>2. done' # {} \/ rows' # <<>> => pc' = "replay"
    BY <1>3 DEF Deep, LedgerInv
  <2> QED
    BY <1>1, <1>2, <1>3, <2>1, <2>2, LedgerNext DEF Deep
<1>7. ForgotInv'
  <2>1. Forgets \subseteq Forgets'
    <3>1. \A i \in DOMAIN ledger : i \in DOMAIN ledger' /\ ledger'[i] = ledger[i]
      BY <1>2, Appended DEF Types, TypeOK, BankTypeOK
    <3> QED
      BY <3>1, ForgetsMember, ForgetsMemberNext
  <2>2. \A s \in forgot : Unheard(s) => Unheard(s)'
    BY <1>1, <1>3 DEF Unheard
  <2> QED
    BY <1>1, <1>3, <2>1, <2>2, ForgotKept DEF Deep
<1> QED
  BY <1>4, <1>5, <1>6, <1>7 DEF Deep

(* Somebody leaves the store: what is kept, whoever it is and whyever.     *)
LEMMA LosesStep ==
  ASSUME Types, Deep, OwnerActs, NEW p \in Ids, p \in known, NEW into \in Id0,
         known' = known \ {p}, slug' = [slug EXCEPT ![p] = 0],
         NEW q,
         ledger' = Settled(p, slug[p], into)
                     \o IF slug[p] = 0 THEN <<>> ELSE <<q>>,
         slug[p] # 0 => /\ q \in Correction /\ RowOK(q) /\ q.cid = acts
                        /\ q.slug = slug[p],
         UNCHANGED <<name, used>>, acts' = acts + 1
  PROVE  /\ (SlugInv /\ MirrorInv /\ BuildInv /\ PushInv /\ MarkInv /\ LedgerInv)'
         /\ \A i \in DOMAIN ledger : Forgetting(ledger[i], p, into) =>
              \E j \in DOMAIN ledger' :
                ledger'[j].kind = "forget" /\ ledger'[j].slug = ledger[i].slug
         /\ slug[p] # 0 => \E j \in DOMAIN ledger' : ledger'[j] = q
         /\ \A s \in forgot : Unheard(s) => Unheard(s)'
<1>0. /\ slug \in [Ids -> Id0] /\ acts \in Nat /\ known \subseteq Ids
      /\ 0 \notin Ids /\ 0 \in Id0 /\ slug[p] \in Id0
  BY NumTypes DEF Types, TypeOK, BankTypeOK, Id0
<1>1. /\ UNCHANGED <<living, dead, mname, news, pc, listed, fresh, snap, todo,
                     who, rows, done>>
      /\ orphans' = orphans \cup Unseen \cup Replayed
      /\ Had' = Had
  BY Beside
<1>2. \A r \in Ids : slug'[r] = IF r = p THEN 0 ELSE slug[r]
  BY <1>0
<1>3. SlugInv'
  BY <1>0, <1>1, <1>2 DEF Deep, SlugInv
<1>4. MirrorInv' /\ BuildInv' /\ PushInv'
  <2>1. 0 \notin todo
    BY <1>0 DEF Types, TypeOK
  <2>2. MirrorInv' /\ PushInv'
    BY <1>0, <1>1, <1>2 DEF Deep, MirrorInv, PushInv, Had
  <2>3. BuildInv'
    BY <1>1, <1>2, <2>1 DEF Deep, BuildInv
  <2> QED
    BY <2>2, <2>3
<1>5. MarkInv'
  BY <1>0, <1>1, <1>2 DEF Deep, MarkInv
<1> DEFINE l == Settled(p, slug[p], into)
<1>6. /\ From(l, orphans')
      /\ \A i \in DOMAIN ledger : Forgetting(ledger[i], p, into) =>
           \E j \in DOMAIN l : l[j].kind = "forget" /\ l[j].slug = ledger[i].slug
  <2>1. LosersAre(orphans', p, into)
    <3>1. p \in known \ known'
      OBVIOUS
    <3> QED
      BY <1>1, <3>1 DEF Replayed, LosersAre
  <2>2. LedgerInv /\ slug[p] \in Id0
    BY <1>0 DEF Deep
  <2> QED
    BY <2>1, <2>2, FromSettled
<1>7. /\ ledger' = IF slug[p] = 0 THEN l ELSE Append(l, q)
      /\ l \in Seq(Correction)
  <2>1. ledger' = SettledWith(p, slug[p], into, q)
    BY DEF SettledWith
  <2> QED
    BY <1>0, <1>6, <2>1, SettledAnd DEF From
<1> HIDE DEF l
<1>8. slug[p] # 0 => q.slug \in Had'
  BY <1>1 DEF Deep, SlugInv
<1>9. LedgerInv'
  <2>1. acts' \in Nat /\ acts <= acts'
    BY <1>0
  <2>2. done' # {} \/ rows' # <<>> => pc' = "replay"
    BY <1>1 DEF Deep, LedgerInv
  <2> QED
    BY <1>1, <1>6, <1>7, <1>8, <2>1, <2>2, LedgerNext DEF Deep
<1>10. /\ \A i \in DOMAIN l : i \in DOMAIN ledger' /\ ledger'[i] = l[i]
       /\ slug[p] # 0 => \E j \in DOMAIN ledger' : ledger'[j] = q
  <2>1. CASE slug[p] = 0
    BY <1>7, <2>1
  <2>2. CASE slug[p] # 0
    <3>1. /\ \A i \in DOMAIN l : i \in DOMAIN ledger' /\ ledger'[i] = l[i]
          /\ ledger'[Len(l) + 1] = q /\ DOMAIN ledger' = 1..(Len(l) + 1)
          /\ Len(l) \in Nat
      BY <1>7, <2>2, Appended
    <3>2. Len(l) + 1 \in DOMAIN ledger'
      BY <3>1
    <3> QED
      BY <3>1, <3>2
  <2> QED
    BY <2>1, <2>2
<1>11. \A i \in DOMAIN ledger : Forgetting(ledger[i], p, into) =>
         \E j \in DOMAIN ledger' :
           ledger'[j].kind = "forget" /\ ledger'[j].slug = ledger[i].slug
  BY <1>6, <1>10
<1>12. \A s \in forgot : Unheard(s) => Unheard(s)'
  BY <1>1 DEF Unheard
<1> QED
  BY <1>3, <1>4, <1>5, <1>9, <1>10, <1>11, <1>12

(* The forgotten and their losers are on the ledger, or nobody's, or       *)
(* membro has not heard of them.                                           *)
LEMMA ForgetPersonStep ==
  ASSUME Types, Deep, OwnerActs, NEW p \in Ids, ForgetPerson(p)
  PROVE  Deep'
<1> DEFINE q == ForgetOf(slug[p])
           Losers == {ledger[i].slug : i \in {j \in DOMAIN ledger :
                        ledger[j].kind = "merge" /\ ledger[j].to = p}}
<1>0. /\ slug \in [Ids -> Id0] /\ 0 \in Id0 /\ known \subseteq used /\ p \in known
  BY DEF Types, TypeOK, BankTypeOK, Id0, ForgetPerson
<1>1. /\ known' = known \ {p} /\ slug' = [slug EXCEPT ![p] = 0]
      /\ ledger' = Settled(p, slug[p], 0) \o IF slug[p] = 0 THEN <<>> ELSE <<q>>
      /\ UNCHANGED <<name, used>> /\ acts' = acts + 1
      /\ forgot' = forgot \cup {IF slug[p] = 0 THEN p ELSE slug[p]} \cup Losers
  BY DEF ForgetPerson, Gone, Act
<1>2. slug[p] # 0 => /\ q \in Correction /\ RowOK(q) /\ q.cid = acts
                     /\ q.slug = slug[p] /\ q.kind = "forget"
  <2>1. slug[p] # 0 => slug[p] \in Ids
    BY <1>0 DEF Id0
  <2> QED
    BY <2>1, RowsOf DEF ForgetOf
<1> HIDE DEF q
<1>3. /\ (SlugInv /\ MirrorInv /\ BuildInv /\ PushInv /\ MarkInv /\ LedgerInv)'
      /\ \A i \in DOMAIN ledger : Forgetting(ledger[i], p, 0) =>
           \E j \in DOMAIN ledger' :
             ledger'[j].kind = "forget" /\ ledger'[j].slug = ledger[i].slug
      /\ slug[p] # 0 => \E j \in DOMAIN ledger' : ledger'[j] = q
      /\ \A s \in forgot : Unheard(s) => Unheard(s)'
  BY <1>0, <1>1, <1>2, LosesStep
<1>4. /\ Forgets \subseteq Forgets' /\ Losers \subseteq Forgets'
      /\ slug[p] # 0 => slug[p] \in Forgets'
  BY <1>2, <1>3, ForgetsMember, ForgetsMemberNext DEF Forgetting
<1>5. /\ UNCHANGED <<living, dead, pc, todo, who>>
      /\ orphans' = orphans \cup Unseen \cup Replayed
  BY Beside
<1>6. slug[p] = 0 => p \in orphans' \cup dead' \/ Unheard(p)'
  <2>1. CASE slug[p] = 0 /\ (p \in living \/ (pc \in {"push", "pushed"} /\ p \in todo))
    BY <1>0, <1>1, <1>5, <2>1 DEF Unseen
  <2>2. CASE slug[p] = 0 /\ ~(p \in living \/ (pc \in {"push", "pushed"} /\ p \in todo))
    BY <1>0, <1>1, <1>5, <2>2 DEF Unheard
  <2> QED
    BY <2>1, <2>2
<1>7. ForgotInv'
  <2>1. \A s \in forgot : s \in orphans' \cup dead' \cup Forgets' \/ Unheard(s)'
    BY <1>3, <1>4, <1>5 DEF Deep, ForgotInv
  <2> HIDE DEF Losers
  <2> QED
    BY <1>1, <1>4, <1>6, <2>1 DEF ForgotInv
<1> QED
  BY <1>3, <1>7 DEF Deep

LEMMA MergePeopleStep ==
  ASSUME Types, Deep, OwnerActs, NEW p \in Ids, NEW q \in Ids, MergePeople(p, q)
  PROVE  Deep'
<1> DEFINE r == MergeOf(slug[q], p)
<1>0. /\ slug \in [Ids -> Id0] /\ p \in Id0 /\ q \in known
  BY DEF Types, TypeOK, BankTypeOK, Id0, MergePeople
<1>1. /\ known' = known \ {q} /\ slug' = [slug EXCEPT ![q] = 0]
      /\ ledger' = Settled(q, slug[q], p) \o IF slug[q] = 0 THEN <<>> ELSE <<r>>
      /\ UNCHANGED <<name, used>> /\ acts' = acts + 1 /\ forgot' = forgot
  BY DEF MergePeople, Act
<1>2. slug[q] # 0 => r \in Correction /\ RowOK(r) /\ r.cid = acts /\ r.slug = slug[q]
  <2>1. slug[q] # 0 => slug[q] \in Ids
    BY <1>0 DEF Id0
  <2> QED
    BY <2>1, RowsOf DEF MergeOf
<1> HIDE DEF r
<1>3. /\ (SlugInv /\ MirrorInv /\ BuildInv /\ PushInv /\ MarkInv /\ LedgerInv)'
      /\ \A i \in DOMAIN ledger : Forgetting(ledger[i], q, p) =>
           \E j \in DOMAIN ledger' :
             ledger'[j].kind = "forget" /\ ledger'[j].slug = ledger[i].slug
      /\ \A s \in forgot : Unheard(s) => Unheard(s)'
  BY <1>0, <1>1, <1>2, LosesStep
<1>4. Forgets \subseteq Forgets'
  BY <1>3, ForgetsMember, ForgetsMemberNext DEF Forgetting
<1>5. dead' = dead /\ orphans \subseteq orphans'
  BY Beside
<1>6. ForgotInv'
  BY <1>1, <1>3, <1>4, <1>5, ForgotKept DEF Deep
<1> QED
  BY <1>3, <1>6 DEF Deep

-----------------------------------------------------------------------------
(* The theorems about people.                                              *)

LEMMA InitDeep ==
  ASSUME Init
  PROVE  Deep
<1>1. /\ living = {} /\ dead = {} /\ news = {} /\ listed = {} /\ todo = {}
      /\ pc = "idle" /\ rows = <<>> /\ done = {} /\ ledger = <<>> /\ forgot = {}
      /\ \A p \in Ids : slug[p] = 0
      /\ DOMAIN <<>> = {} /\ known \subseteq Ids /\ 0 \notin Ids
  BY InitTypes, NumTypes DEF Init, BankInit, Blank, Types, TypeOK, BankTypeOK
<1>2. \A p, q \in known : name[p] = name[q] => p = q
  BY DEF Init, BankInit
<1>3. SlugInv
  BY <1>1, <1>2 DEF SlugInv, Had
<1>4. MirrorInv /\ BuildInv /\ PushInv /\ MarkInv /\ ForgotInv
  BY <1>1 DEF MirrorInv, BuildInv, PushInv, MarkInv, ForgotInv
<1>5. LedgerInv
  BY <1>1 DEF LedgerInv, Ordered
<1> QED
  BY <1>3, <1>4, <1>5 DEF Deep

LEMMA StepDeep ==
  ASSUME Types, Deep, [Next]_vars
  PROVE  Deep'
<1>1. CASE Pass
  BY <1>1, QuietSteps, PhaseSteps, MirrorStep, BuildStep, PushStep, PushedStep,
     ReplayStep, TakeOffStep DEF Pass
<1>2. CASE OwnerActs
  <2>1. Owner
    BY <1>2 DEF OwnerActs
  <2> QED
    BY <1>2, <2>1, QuietSteps, IntroduceStep, ClipStep, ForgetPersonStep,
       MergePeopleStep DEF Owner
<1>3. CASE \/ ReplayFails \/ ClipsRefused \/ Fail \/ UNCHANGED vars
         \/ \E s \in Ids : PushRefused(s)
  BY <1>3, QuietSteps
<1>4. CASE \E s \in Ids : MembroForgets(s)
  BY <1>4, MembroForgetsStep
<1> QED
  BY <1>1, <1>2, <1>3, <1>4 DEF Next

IInv == Types /\ Deep

(* The invariant of a pass and the ledger: who has which slug, what the    *)
(* pass holds, and where everybody the owner forgot has got to.            *)
THEOREM SyncInvariance == Spec => []IInv
<1>1. Init => IInv
  BY InitTypes, InitDeep DEF IInv
<1>2. IInv /\ [Next]_vars => IInv'
  BY StepTypes, StepDeep DEF IInv
<1> QED
  BY <1>1, <1>2, PTL DEF Spec

(* Every variable of the store, of membro and of the pass has its type: in *)
(* particular nobody is known under an id that was not handed out, and     *)
(* membro has nobody both living and gone.                                 *)
THEOREM SyncTypeCorrect == Spec => []TypeOK
<1>1. IInv => TypeOK
  BY DEF IInv, Types
<1> QED
  BY <1>1, SyncInvariance, PTL

(* Nobody the owner forgot is rebuilt from membro's copy for good, at      *)
(* whatever moment of a pass they did, and whatever merges were pending    *)
(* (AnchorStore.forget, _settle_corrections, person_sync._pull).           *)
THEOREM NobodyEverReturns == Spec => []NobodyReturns
<1>1. IInv => NobodyReturns
  <2> SUFFICES ASSUME IInv, NEW p \in known, slug[p] \in forgot
               PROVE  slug[p] \in orphans \cup BeingForgotten
    BY DEF NobodyReturns
  <2>1. slug[p] # 0 /\ slug[p] \in Had
    BY NumTypes DEF IInv, Types, TypeOK, BankTypeOK, Deep, SlugInv
  <2>2. slug[p] \in dead => slug[p] \in news
    BY DEF IInv, Deep, MarkInv
  <2>3. slug[p] \in orphans \cup dead \cup Forgets \/ Unheard(slug[p])
    BY DEF IInv, Deep, ForgotInv
  <2>4. Unheard(slug[p]) => slug[p] \in dead
    BY <2>1 DEF Unheard, Had
  <2> QED
    BY <2>2, <2>3, <2>4 DEF BeingForgotten
<1> QED
  BY <1>1, SyncInvariance, PTL

-----------------------------------------------------------------------------
(* Where the clips are.  The ledger and what a pass read of it, as sets:   *)
(* a row is told by its id.                                                *)
Rows(l) == {l[i] : i \in DOMAIN l}
Log  == Rows(ledger)
Left == Rows(rows)
Undone == {l \in Log : l.cid \notin done}

AClip(l) == l.kind \in {"move", "delete"}

(* Nobody goes by a name of somebody else, and whoever has a slug, or had  *)
(* its bearer merged into them, goes by the name membro has for it.        *)
NamesInv ==
  /\ \A p, q \in known : Aliases(p) \cap Aliases(q) # {} => p = q
  /\ \A p \in known : slug[p] # 0 => name[slug[p]] \in Aliases(p)
  /\ \A p \in Ids \ known : also[p] = {}
  /\ \A l \in Log : l.kind = "merge" => name[l.slug] \in Aliases(l.to)

(* A correction of a clip names whom it left by local id while they are    *)
(* known, and by slug once they are not; whom it brings a clip, or people, *)
(* is known.                                                               *)
RowInv ==
  \A l \in Log :
    /\ AClip(l) /\ l.slug = 0 => l.from \in known /\ l.from # l.to
    /\ AClip(l) /\ l.slug # 0 => l.from \in used \ known /\ l.slug \in Had
    /\ l.kind \in {"move", "merge"} => l.to \in known
    /\ l.kind = "delete" => l.to = 0
    /\ l.slug \in used \cup {0} /\ l.slug \notin known

(* Only people have clips. *)
HoldsInv ==
  /\ \A s \in Ids \ living : holds[s] = {}
  /\ \A p \in Ids \ known : bank[p] = {}

(* One winner of whoever is merged away, who alone may have got them back. *)
MergeInv ==
  \A m \in Log : m.kind = "merge" =>
    /\ \A p \in known : slug[p] = m.slug => p = m.to
    /\ \A n \in Log : n.kind = "merge" /\ n.slug = m.slug => n.to = m.to
    /\ \A f \in Log : f.kind = "forget" /\ f.slug = m.slug => f.cid < m.cid

(* What a pass holds in its hands. *)
HandInv ==
  /\ pc = "replay" => /\ \A p \in known : snap[p] = slug[p]
                      /\ \A p \in Ids : snap[p] \in Had \cup {0}
                      /\ \A p \in Ids \ used : snap[p] = 0
  /\ pc = "diff" => who \in used /\ (who \in known => snap[who] = slug[who])
  /\ pc = "pushed" /\ who \in known => slug[who] = 0
  /\ pc = "clips" => who \in used
  /\ Ordered(rows)
  /\ \A r \in Left : r.cid \notin done

(* A merge that a pass is to replay, whatever became of it meanwhile: its  *)
(* winner may have been merged away, or forgotten, and their own merge or  *)
(* forget waits behind.                                                    *)
Gone1(r, g, l) ==
  /\ g.slug = SlugOf(r.to) /\ \A x \in Left : x.cid # g.cid
  /\ \/ g.kind = "forget"
     \/ l.kind = "merge" /\ g.kind = "merge" /\ g.to = l.to

Became(r, l) ==
  /\ l.cid = r.cid /\ l.kind \in {"merge", "forget"} /\ l.slug = r.slug
  /\ l.kind = "forget" =>
       /\ \A m \in Log : m.kind = "merge" => m.slug # r.slug
       /\ \A p \in known : slug[p] # r.slug
       /\ r.to \notin known
  /\ l.kind = "merge" => l.to = r.to \/ r.to \notin known
  /\ r.to \notin known => \/ SlugOf(r.to) \in dead \cup {0}
                          \/ \E g \in Undone : Gone1(r, g, l)

MergeReadInv ==
  \A r \in Left : r.kind = "merge" =>
    /\ r.to \in used
    /\ \A p \in known : slug[p] = r.slug => p = r.to
    /\ \E l \in Log : Became(r, l)

People == NamesInv /\ RowInv /\ HoldsInv /\ MergeInv
Replaying == HandInv /\ MergeReadInv

(* A clip nobody crossed.  Who still has it, or passed it on by a later    *)
(* row: so a chain of rows ends where the clip is, or was deleted.         *)
Fixes(l, c) == AClip(l) /\ l.sha = c
Origin(l) == IF l.slug # 0 THEN l.slug ELSE slug[l.from]
Keeps(p, c) == c \notin removed /\ p \in known /\ c \in bank[p]
Goes(S, k, q, c) ==
  \/ Keeps(q, c)
  \/ \E l \in S : l.cid > k /\ Fixes(l, c) /\ l.from = q /\ l.slug = 0
Chain(S, c) ==
  \A l \in S : l.kind = "move" /\ l.sha = c => Goes(S, l.cid, l.to, c)

(* Whoever holds a clip at membro is to be forgotten, or has it in the     *)
(* store, or a row is to take it from them, alone or with all they hold.   *)
Ahead(l, s, c) ==
  /\ Fixes(l, c) /\ Origin(l) = s
  /\ l.slug # 0 => \A m \in Log : m.kind = "merge" /\ m.slug = s => l.cid < m.cid
Doomed(s) == \E f \in Undone : f.kind = "forget" /\ f.slug = s
Covered(s, c) ==
  \/ \E p \in Ids : Keeps(p, c) /\ slug[p] = s
  \/ \E l \in Undone : Ahead(l, s, c)
  \/ \E m \in Undone : m.kind = "merge" /\ m.slug = s /\ Goes(Undone, m.cid, m.to, c)
Held(c) == \A s \in living : c \in holds[s] => Doomed(s) \/ Covered(s, c)
Once(c) == \A p, q \in Ids : c \in bank[p] /\ c \in bank[q] => p = q
Stays(c) ==
  \A p \in known : c \in bank[p] /\ c \in removed => Doomed(slug[p]) \/ slug[p] \in dead

(* What a pass read of the rows is what they are, and a merge whose winner *)
(* changed finds no clip its loser should still give up.                   *)
Earlier(k, s, c) ==
  \E j \in Undone : /\ j.cid < k
                    /\ Ahead(j, s, c) \/ (j.kind = "forget" /\ j.slug = s)
ReadAs(l, r) ==
  l.kind = r.kind /\ l.sha = r.sha /\ l.to = r.to /\ Origin(l) = Source(r)
ReadInv(c) ==
  /\ \A l \in Log, r \in Left :
       l.cid = r.cid /\ (Fixes(l, c) \/ Fixes(r, c)) => ReadAs(l, r)
  /\ \A r \in Left : Fixes(r, c) /\ Source(r) # 0 => \E l \in Log : l.cid = r.cid
  /\ \A l \in Log, r \in Left :
       l.cid = r.cid /\ l.kind = "merge" /\ c \in holds[l.slug] =>
         l.to = r.to \/ Earlier(l.cid, l.slug, c)
WantInv(c) ==
  /\ pc \in {"people", "diff"} => (c \in Shas => c \in pending)
  /\ pc = "clips" /\ c \in want /\ who \in known =>
       (slug[who] # 0 /\ c \in holds[slug[who]]) \/ slug[who] \in dead
  /\ pc = "diff" /\ c \in want /\ who \in known =>
       Doomed(slug[who]) \/ slug[who] \in dead

Placed(c) ==
  Chain(Log, c) /\ Chain(Undone, c) /\ Held(c) /\ Once(c) /\ Stays(c)
Told(c) == Placed(c) /\ ReadInv(c) /\ WantInv(c)

ClipInv == \A c \in Clips \ crossed : Told(c)

-----------------------------------------------------------------------------
(* What becomes of a row when p leaves, whose slug was s: k says that its  *)
(* clip is carried.                                                        *)
Leaves(l, p) == AClip(l) /\ l.from = p /\ l.to # p
Drops(l, into) == l.kind = "move" /\ l.to = into

Image(l, p, s, into, k) ==
  IF l.kind = "merge" /\ l.to = p
  THEN {IF into # 0 THEN [l EXCEPT !.to = into]
        ELSE [l EXCEPT !.kind = "forget", !.to = 0]}
  ELSE IF l.kind = "move" /\ l.to = p
  THEN IF into = 0 THEN {[l EXCEPT !.kind = "delete", !.to = 0]}
       ELSE IF l.from = into THEN {} ELSE {[l EXCEPT !.to = into]}
  ELSE IF Leaves(l, p)
  THEN IF k THEN IF Drops(l, into) THEN {}
                 ELSE {[l EXCEPT !.from = into, !.slug = 0]}
       ELSE IF s # 0 THEN {[l EXCEPT !.slug = s]} ELSE {}
  ELSE {l}

LEMMA AppendRows ==
  ASSUME NEW S, NEW l \in Seq(S), NEW q \in S
  PROVE  Rows(Append(l, q)) = Rows(l) \cup {q}
<1>1. \A x : x \in Rows(Append(l, q)) => x \in Rows(l) \cup {q}
  BY Appended DEF Rows
<1>2. \A x : x \in Rows(l) \cup {q} => x \in Rows(Append(l, q))
  <2>1. Len(l) + 1 \in DOMAIN Append(l, q)
    BY Appended
  <2> QED
    BY <2>1, Appended DEF Rows
<1> QED
  BY <1>1, <1>2

(* What is carried along.                                                  *)
Carries(l, p, into, old, new) ==
  /\ l.kind = "move" /\ l.to = p /\ into # 0 => new = old \cup {l.sha}
  /\ ~(l.kind = "move" /\ l.to = p /\ into # 0) => new \subseteq old
  /\ \A c \in old \ new : l.sha = c /\ Leaves(l, p) /\ ~Drops(l, into)

LEMMA RowImage ==
  ASSUME NEW acc \in Acc, NEW l \in Correction, RowOK(l),
         NEW p \in Ids, NEW s \in Id0, NEW into \in Id0
  PROVE  LET new == SettleRow(acc, l, p, s, into)
         IN /\ Rows(new.rows) = Rows(acc.rows)
                                  \cup Image(l, p, s, into, l.sha \in acc.carried)
            /\ Carries(l, p, into, acc.carried, new.carried)
<1> DEFINE new == SettleRow(acc, l, p, s, into)
           im == Image(l, p, s, into, l.sha \in acc.carried)
<1>0. /\ acc.rows \in Seq(Correction) /\ acc = [rows |-> acc.rows, carried |-> acc.carried]
      /\ l.from \in Id0 /\ l.to \in Id0 /\ l.slug \in Id0
      /\ l.kind \in {"move", "delete", "merge", "forget"}
  BY DEF Acc, Correction
<1>1. /\ \A q \in Correction : Rows(Append(acc.rows, q)) = Rows(acc.rows) \cup {q}
      /\ \A q \in Correction : [acc EXCEPT !.rows = Append(@, q)].rows = Append(acc.rows, q)
      /\ \A q \in Correction : [acc EXCEPT !.rows = Append(@, q)].carried = acc.carried
  BY <1>0, AppendRows
<1>2. CASE l.kind = "merge" /\ l.to = p /\ into # 0
  <2>1. [l EXCEPT !.to = into] \in Correction
    BY <1>0 DEF Correction
  <2>2. new = [acc EXCEPT !.rows = Append(@, [l EXCEPT !.to = into])]
    BY <1>2 DEF SettleRow
  <2>3. im = {[l EXCEPT !.to = into]}
    BY <1>2 DEF Image
  <2> QED
    BY <1>1, <1>2, <2>1, <2>2, <2>3 DEF Carries
<1>3. CASE l.kind = "merge" /\ l.to = p /\ into = 0
  <2>1. [l EXCEPT !.kind = "forget", !.to = 0] \in Correction
    BY <1>0, <1>3 DEF Correction, Id0
  <2>2. new = [acc EXCEPT !.rows = Append(@, [l EXCEPT !.kind = "forget", !.to = 0])]
    BY <1>3 DEF SettleRow
  <2>3. im = {[l EXCEPT !.kind = "forget", !.to = 0]}
    BY <1>3 DEF Image
  <2> QED
    BY <1>1, <1>3, <2>1, <2>2, <2>3 DEF Carries
<1>4. CASE l.kind = "move" /\ l.to = p /\ into = 0
  <2>1. [l EXCEPT !.kind = "delete", !.to = 0] \in Correction
    BY <1>0, <1>4 DEF Correction, Id0
  <2>2. new = [acc EXCEPT !.rows = Append(@, [l EXCEPT !.kind = "delete", !.to = 0])]
    BY <1>4 DEF SettleRow
  <2>3. im = {[l EXCEPT !.kind = "delete", !.to = 0]}
    BY <1>4 DEF Image
  <2> QED
    BY <1>1, <1>4, <2>1, <2>2, <2>3 DEF Carries
<1>5. CASE l.kind = "move" /\ l.to = p /\ into # 0
  <2>1. [l EXCEPT !.to = into] \in Correction
    BY <1>0, <1>5 DEF Correction
  <2>2. new = [rows |-> IF l.from = into THEN acc.rows
                        ELSE Append(acc.rows, [l EXCEPT !.to = into]),
               carried |-> acc.carried \cup {l.sha}]
    BY <1>5 DEF SettleRow
  <2>3. im = IF l.from = into THEN {} ELSE {[l EXCEPT !.to = into]}
    BY <1>5 DEF Image
  <2>4. Carries(l, p, into, acc.carried, new.carried)
    BY <1>5, <2>2 DEF Carries
  <2>5. CASE l.from = into
    <3>1. new.rows = acc.rows /\ im = {}
      BY <2>2, <2>3, <2>5
    <3> QED
      BY <3>1, <2>4
  <2>6. CASE l.from # into
    <3>1. new.rows = Append(acc.rows, [l EXCEPT !.to = into])
      BY <2>2, <2>6
    <3>2. im = {[l EXCEPT !.to = into]}
      BY <2>3, <2>6
    <3> QED
      BY <3>1, <3>2, <2>1, <2>4, <1>1
  <2> QED
    BY <2>5, <2>6
<1>6. CASE Leaves(l, p) /\ l.sha \in acc.carried /\ Drops(l, into)
  <2>1. new = acc
    BY <1>6 DEF SettleRow, Leaves, AClip, Drops
  <2>2. im = {}
    BY <1>6 DEF Image, Leaves, AClip
  <2> QED
    BY <1>6, <2>1, <2>2 DEF Carries, Leaves
<1>7. CASE Leaves(l, p) /\ l.sha \in acc.carried /\ ~Drops(l, into)
  <2>1. [l EXCEPT !.from = into, !.slug = 0] \in Correction
    BY <1>0 DEF Correction, Id0
  <2>2. new = [rows |-> Append(acc.rows, [l EXCEPT !.from = into, !.slug = 0]),
               carried |-> acc.carried \ {l.sha}]
    BY <1>7 DEF SettleRow, Leaves, AClip, Drops
  <2>3. im = {[l EXCEPT !.from = into, !.slug = 0]}
    BY <1>7 DEF Image, Leaves, AClip
  <2>4. new.rows = Append(acc.rows, [l EXCEPT !.from = into, !.slug = 0])
        /\ new.carried = acc.carried \ {l.sha}
    BY <2>2
  <2> QED
    BY <1>1, <1>7, <2>1, <2>3, <2>4 DEF Carries, Leaves
<1>8. CASE Leaves(l, p) /\ l.sha \notin acc.carried /\ s # 0
  <2>1. [l EXCEPT !.slug = s] \in Correction
    BY <1>0 DEF Correction
  <2>2. new = [acc EXCEPT !.rows = Append(@, [l EXCEPT !.slug = s])]
    BY <1>8 DEF SettleRow, Leaves, AClip
  <2>3. im = {[l EXCEPT !.slug = s]}
    BY <1>8 DEF Image, Leaves, AClip
  <2> QED
    BY <1>1, <1>8, <2>1, <2>2, <2>3 DEF Carries, Leaves
<1>9. CASE Leaves(l, p) /\ l.sha \notin acc.carried /\ s = 0
  <2>1. new = acc
    BY <1>9 DEF SettleRow, Leaves, AClip
  <2>2. im = {}
    BY <1>9 DEF Image, Leaves, AClip
  <2> QED
    BY <1>9, <2>1, <2>2 DEF Carries, Leaves
<1>10. CASE ~Leaves(l, p) /\ ~(l.kind \in {"merge", "move"} /\ l.to = p)
  <2>1. new = [acc EXCEPT !.rows = Append(@, l)]
    BY <1>10 DEF SettleRow, Leaves, AClip
  <2>2. im = {l}
    BY <1>10 DEF Image
  <2> QED
    BY <1>1, <1>10, <2>1, <2>2 DEF Carries
<1> QED
  BY <1>0, <1>2, <1>3, <1>4, <1>5, <1>6, <1>7, <1>8, <1>9, <1>10

(* The rows that leave after their clip was brought: they are in K if a    *)
(* row brings it to p, and none takes it from there in between.            *)
MovesTo(j, p, c) == j.kind = "move" /\ j.to = p /\ j.sha = c
Between(j, l, p, into) ==
  \E i \in Log : /\ j.cid < i.cid /\ i.cid < l.cid /\ i.sha = l.sha
                 /\ Leaves(i, p) /\ ~Drops(i, into)
CarriedRows(K, p, into) ==
  /\ K \subseteq Log
  /\ \A l \in K : into # 0 /\ \E j \in Log : j.cid < l.cid /\ MovesTo(j, p, l.sha)
  /\ into # 0 => \A j, l \in Log :
       j.cid < l.cid /\ MovesTo(j, p, l.sha) /\ ~Between(j, l, p, into) => l \in K

LEMMA SettledRows ==
  ASSUME LedgerTypes, Ordered(ledger),
         NEW p \in Ids, NEW s \in Id0, NEW into \in Id0
  PROVE  \E K : /\ CarriedRows(K, p, into)
                /\ Rows(Settled(p, s, into)) =
                     UNION {Image(l, p, s, into, l \in K) : l \in Log}
<1> DEFINE N == Len(ledger)
<1>1. PICK f \in [0..N -> Acc] :
           /\ f[0] = [rows |-> <<>>, carried |-> {}]
           /\ \A n \in 1..N : f[n] = SettleRow(f[n - 1], ledger[n], p, s, into)
           /\ Settled(p, s, into) = f[N].rows
  BY SettledTrace
<1> DEFINE KI == {n \in 1..N : ledger[n].sha \in f[n - 1].carried}
           K == {ledger[n] : n \in KI}
           R(n) == Rows(f[n].rows)
           C(n) == f[n].carried
           im(n) == Image(ledger[n], p, s, into, n \in KI)
<1>2. /\ N \in Nat /\ DOMAIN ledger = 1..N
      /\ \A n \in 1..N : ledger[n] \in Correction /\ RowOK(ledger[n])
      /\ \A n \in 1..N : n - 1 \in 0..N
      /\ \A n \in 1..N : ledger[n].cid \in Nat
  <2>1. N \in Nat /\ DOMAIN ledger = 1..N
    BY DEF LedgerTypes
  <2>2. \A n \in 1..N : ledger[n] \in Correction /\ RowOK(ledger[n])
    BY <2>1 DEF LedgerTypes
  <2>3. \A n \in 1..N : ledger[n].cid \in Nat
    BY <2>2 DEF Correction
  <2> QED
    BY <2>1, <2>2, <2>3
<1>3. ASSUME NEW n \in 1..N
      PROVE  /\ R(n) = R(n - 1) \cup im(n)
             /\ Carries(ledger[n], p, into, C(n - 1), C(n))
  <2>1. f[n - 1] \in Acc
    BY <1>1, <1>2
  <2>2. LET new == SettleRow(f[n - 1], ledger[n], p, s, into)
        IN /\ Rows(new.rows) = Rows(f[n - 1].rows)
                  \cup Image(ledger[n], p, s, into, ledger[n].sha \in f[n - 1].carried)
           /\ Carries(ledger[n], p, into, f[n - 1].carried, new.carried)
    BY <1>2, <2>1, RowImage
  <2>3. (ledger[n].sha \in f[n - 1].carried) = (n \in KI)
    OBVIOUS
  <2> QED
    BY <1>1, <2>2, <2>3
<1>4. R(0) = {} /\ C(0) = {}
  BY <1>1 DEF Rows
<1>5. \A i, j \in 1..N : ledger[i].cid < ledger[j].cid <=> i < j
  <2>1. \A i, j \in 1..N : i < j \/ i = j \/ j < i
    BY <1>2
  <2> QED
    BY <1>2, <2>1 DEF Ordered
<1>6. \A n \in 1..N : (ledger[n] \in K) = (n \in KI)
  <2> SUFFICES ASSUME NEW n \in 1..N, NEW m \in KI, ledger[n] = ledger[m]
               PROVE  n \in KI
    OBVIOUS
  <2>1. ~(n < m) /\ ~(m < n)
    BY <1>2, <1>5
  <2>2. n = m
    BY <2>1
  <2> QED
    BY <2>2
<1> HIDE DEF KI, K, R, C, im
<1>7. R(N) = UNION {im(n) : n \in 1..N}
  <2> DEFINE S == {n \in 0..N : R(n) = UNION {im(i) : i \in 1..n}}
  <2>1. 0 \in S
    BY <1>2, <1>4
  <2>2. ASSUME NEW n \in 1..N, n - 1 \in S
        PROVE  n \in S
    <3>1. 1..n = (1..(n - 1)) \cup {n}
      BY <1>2
    <3>2. \A x : x \in UNION {im(i) : i \in 1..n}
                   <=> x \in UNION {im(i) : i \in 1..(n - 1)} \cup im(n)
      BY <3>1
    <3> QED
      BY <1>2, <1>3, <2>2, <3>2
  <2> HIDE DEF S
  <2>3. \A n \in 0..N : n \in S
    BY <1>2, <2>1, <2>2, Climb
  <2> QED
    BY <1>2, <2>3 DEF S
<1>8. Rows(Settled(p, s, into)) = UNION {Image(l, p, s, into, l \in K) : l \in Log}
  <2>1. \A n \in 1..N : im(n) = Image(ledger[n], p, s, into, ledger[n] \in K)
    BY <1>6 DEF im
  <2>2. \A x : x \in UNION {im(n) : n \in 1..N}
               <=> x \in UNION {Image(l, p, s, into, l \in K) : l \in Log}
    BY <1>2, <2>1 DEF Log, Rows
  <2>3. Rows(Settled(p, s, into)) = R(N)
    BY <1>1 DEF R
  <2> QED
    BY <1>7, <2>2, <2>3
(* Only what a row brought to p is carried. *)
<1>9. ASSUME NEW c
      PROVE  \A n \in 0..N : c \in C(n) =>
               into # 0 /\ \E i \in 1..n : MovesTo(ledger[i], p, c)
  <2> DEFINE S == {n \in 0..N : c \in C(n) =>
                      into # 0 /\ \E i \in 1..n : MovesTo(ledger[i], p, c)}
  <2>1. 0 \in S
    BY <1>2, <1>4
  <2>2. ASSUME NEW n \in 1..N, n - 1 \in S
        PROVE  n \in S
    <3>1. CASE c \in C(n - 1)
      <4>1. into # 0 /\ \E i \in 1..(n - 1) : MovesTo(ledger[i], p, c)
        BY <2>2, <3>1
      <4> QED
        BY <1>2, <4>1
    <3>2. CASE c \notin C(n - 1) /\ c \in C(n)
      <4>1. MovesTo(ledger[n], p, c) /\ into # 0
        BY <1>3, <3>2 DEF Carries, MovesTo
      <4> QED
        BY <1>2, <4>1
    <3> QED
      BY <3>1, <3>2
  <2> HIDE DEF S
  <2>3. \A n \in 0..N : n \in S
    BY <1>2, <2>1, <2>2, Climb
  <2> QED
    BY <2>3 DEF S
(* And it stays so until a row takes it from there. *)
<1>10. ASSUME NEW j \in 1..N, NEW m \in 1..N, into # 0, j < m,
              MovesTo(ledger[j], p, ledger[m].sha),
              ~Between(ledger[j], ledger[m], p, into)
       PROVE  m \in KI
  <2> DEFINE c == ledger[m].sha
             S == {n \in 0..N : j <= n /\ n < m => c \in C(n)}
  <2>1. 0 \in S
    BY <1>2
  <2>2. ASSUME NEW n \in 1..N, n - 1 \in S
        PROVE  n \in S
    <3> SUFFICES ASSUME j <= n, n < m
                 PROVE  c \in C(n)
      OBVIOUS
    <3>1. CASE n = j
      BY <1>3, <1>10, <3>1 DEF Carries, MovesTo
    <3>2. CASE n # j
      <4>1. c \in C(n - 1)
        BY <2>2, <3>2
      <4>2. /\ ledger[j].cid < ledger[n].cid /\ ledger[n].cid < ledger[m].cid
            /\ ledger[n] \in Log
        BY <1>2, <1>5, <3>2 DEF Log, Rows
      <4>3. ~(ledger[n].sha = c /\ Leaves(ledger[n], p) /\ ~Drops(ledger[n], into))
        BY <1>10, <4>2 DEF Between
      <4> QED
        BY <1>3, <4>1, <4>3 DEF Carries
    <3> QED
      BY <3>1, <3>2
  <2> HIDE DEF S
  <2>3. m - 1 \in S
    BY <1>2, <2>1, <2>2, Climb
  <2>4. c \in C(m - 1)
    BY <2>3, <1>10 DEF S
  <2> QED
    BY <2>4 DEF KI, C
<1>11. CarriedRows(K, p, into)
  <2>1. \A l \in K : l \in Log /\ into # 0
                     /\ \E j \in Log : j.cid < l.cid /\ MovesTo(j, p, l.sha)
    <3> SUFFICES ASSUME NEW m \in KI
                 PROVE  /\ ledger[m] \in Log /\ into # 0
                        /\ \E j \in Log : /\ j.cid < ledger[m].cid
                                          /\ MovesTo(j, p, ledger[m].sha)
      BY DEF K
    <3>1. m \in 1..N /\ ledger[m].sha \in C(m - 1)
      BY DEF KI, C
    <3>2. PICK i \in 1..(m - 1) : into # 0 /\ MovesTo(ledger[i], p, ledger[m].sha)
      BY <1>2, <1>9, <3>1
    <3>3. i \in 1..N /\ i < m /\ ledger[i] \in Log /\ ledger[m] \in Log
      BY <1>2, <3>1 DEF Log, Rows
    <3> QED
      BY <1>5, <3>1, <3>2, <3>3
  <2>2. ASSUME into # 0, NEW j \in Log, NEW l \in Log, j.cid < l.cid,
               MovesTo(j, p, l.sha), ~Between(j, l, p, into)
        PROVE  l \in K
    <3>1. PICK a \in 1..N : j = ledger[a]
      BY <1>2 DEF Log, Rows
    <3>2. PICK m \in 1..N : l = ledger[m]
      BY <1>2 DEF Log, Rows
    <3>3. a < m
      BY <1>5, <2>2, <3>1, <3>2
    <3> QED
      BY <1>6, <1>10, <2>2, <3>1, <3>2, <3>3
  <2> QED
    BY <2>1, <2>2 DEF CarriedRows
<1> QED
  BY <1>8, <1>11

-----------------------------------------------------------------------------
(* What the first invariant says of the rows, as sets.                     *)
LogOK ==
  /\ \A l \in Log : l \in Correction /\ RowOK(l) /\ l.cid \in Nat /\ l.cid < acts
  /\ \A l, m \in Log : l.cid = m.cid => l = m
  /\ \A r \in Left : r \in Correction /\ RowOK(r) /\ r.cid \in Nat /\ r.cid < acts
  /\ \A l \in Log : OfAPerson(l) => l.slug \in Had
  /\ \A l \in Log, r \in Left :
       OfAPerson(l) /\ l.cid = r.cid =>
         r.slug = l.slug /\ (r.kind = l.kind \/ (r.kind = "merge" /\ l.kind = "forget"))
  /\ acts \notin done
  /\ done # {} \/ Left # {} => pc = "replay"
  /\ acts \in Nat /\ 0 \notin Ids /\ Had \subseteq Ids /\ used \subseteq Ids

LEMMA LogIs == Types /\ Deep => LogOK
<1> SUFFICES ASSUME Types, Deep PROVE LogOK
  OBVIOUS
<1>1. /\ ledger \in Seq(Correction) /\ rows \in Seq(Correction)
      /\ acts \in Nat /\ 0 \notin Ids /\ used \subseteq Ids
      /\ \A i \in DOMAIN ledger : RowOK(ledger[i])
      /\ \A i \in DOMAIN rows : RowOK(rows[i])
      /\ living \subseteq Ids /\ dead \subseteq Ids
  BY NumTypes DEF Types, TypeOK, BankTypeOK
<1>2. /\ \A i \in DOMAIN ledger : ledger[i] \in Correction
      /\ \A i \in DOMAIN rows : rows[i] \in Correction
      /\ \A l \in Correction : l.cid \in Nat
      /\ rows = <<>> => DOMAIN rows = {}
  <2>1. \A l \in Correction : l.cid \in Nat
    BY DEF Correction
  <2>2. rows = <<>> => DOMAIN rows = {}
    OBVIOUS
  <2>3. /\ \A i \in DOMAIN ledger : ledger[i] \in Correction
        /\ \A i \in DOMAIN rows : rows[i] \in Correction
    BY <1>1
  <2> QED
    BY <2>1, <2>2, <2>3
<1>3. \A i, j \in DOMAIN ledger : ledger[i].cid = ledger[j].cid => i = j
  <2>1. \A i, j \in DOMAIN ledger : i < j \/ i = j \/ j < i
    BY <1>1
  <2> QED
    BY <1>2, <2>1 DEF Deep, LedgerInv, Ordered
<1>4. \A k \in done : k < acts
  BY DEF Deep, LedgerInv
<1>5. acts \notin done
  BY <1>1, <1>4
<1>6. done # {} \/ Left # {} => pc = "replay"
  BY <1>2 DEF Deep, LedgerInv, Left, Rows
<1>7. \A l \in Log, r \in Left : OfAPerson(l) /\ l.cid = r.cid =>
        r.slug = l.slug /\ (r.kind = l.kind \/ (r.kind = "merge" /\ l.kind = "forget"))
  BY DEF Deep, LedgerInv, Log, Left, Rows, SameRow
<1>8. /\ \A l \in Log : l \in Correction /\ RowOK(l) /\ l.cid \in Nat /\ l.cid < acts
      /\ \A r \in Left : r \in Correction /\ RowOK(r) /\ r.cid \in Nat /\ r.cid < acts
      /\ \A l \in Log : OfAPerson(l) => l.slug \in Had
  BY <1>1, <1>2 DEF Deep, LedgerInv, Log, Left, Rows
<1>9. \A l, m \in Log : l.cid = m.cid => l = m
  BY <1>3 DEF Log, Rows
<1> QED
  BY <1>1, <1>5, <1>6, <1>7, <1>8, <1>9 DEF LogOK, Had

LEMMA LogNext == Types' /\ Deep' => LogOK'
BY LogIs, PTL

(* What a row becomes when p is forgotten, whose slug was s.               *)
Forgotten(l, t, p, s) ==
  /\ t \in Correction /\ t.cid = l.cid /\ t.sha = l.sha /\ t.from = l.from
  /\ \/ l.kind = "merge" /\ l.to = p /\ t.kind = "forget" /\ t.to = 0 /\ t.slug = l.slug
     \/ l.kind = "move" /\ l.to = p /\ t.kind = "delete" /\ t.to = 0 /\ t.slug = l.slug
     \/ Leaves(l, p) /\ s # 0 /\ t.kind = l.kind /\ t.to = l.to /\ t.slug = s
     \/ t = l /\ ~Leaves(l, p) /\ ~(l.kind \in {"merge", "move"} /\ l.to = p)

ForgetLog(p, s, new) ==
  /\ \A t \in Log' : t \in new \/ \E l \in Log : Forgotten(l, t, p, s)
  /\ \A l \in Log : \/ Leaves(l, p) /\ s = 0
                    \/ \E t \in Log' : Forgotten(l, t, p, s)
  /\ new \subseteq Log'

(* What it becomes when q is merged into p; K are the rows whose clip is   *)
(* carried.                                                                *)
Merged(l, t, q, s, p, K) ==
  /\ t \in Correction /\ t.cid = l.cid /\ t.sha = l.sha /\ t.kind = l.kind
  /\ \/ /\ l.kind \in {"merge", "move"} /\ l.to = q
        /\ l.kind = "move" => l.from # p
        /\ t.to = p /\ t.slug = l.slug /\ t.from = l.from
     \/ /\ Leaves(l, q) /\ l \in K /\ ~Drops(l, p)
        /\ t.to = l.to /\ t.from = p /\ t.slug = 0
     \/ /\ Leaves(l, q) /\ l \notin K /\ s # 0
        /\ t.to = l.to /\ t.from = l.from /\ t.slug = s
     \/ t = l /\ ~Leaves(l, q) /\ ~(l.kind \in {"merge", "move"} /\ l.to = q)

Lost(l, q, s, p, K) ==
  \/ l.kind = "move" /\ l.to = q /\ l.from = p
  \/ Leaves(l, q) /\ l \in K /\ Drops(l, p)
  \/ Leaves(l, q) /\ l \notin K /\ s = 0

MergeLog(q, s, p, K, new) ==
  /\ \A t \in Log' : t \in new \/ \E l \in Log : Merged(l, t, q, s, p, K)
  /\ \A l \in Log : Lost(l, q, s, p, K) \/ \E t \in Log' : Merged(l, t, q, s, p, K)
  /\ new \subseteq Log'

LEMMA ImageForget ==
  ASSUME NEW l \in Correction, NEW p \in Ids, NEW s \in Id0
  PROVE  /\ \A t \in Image(l, p, s, 0, FALSE) : Forgotten(l, t, p, s)
         /\ Image(l, p, s, 0, FALSE) = {} => Leaves(l, p) /\ s = 0
<1> DEFINE im == Image(l, p, s, 0, FALSE)
<1>0. /\ l.from \in Id0 /\ l.to \in Id0 /\ l.slug \in Id0
      /\ l.kind \in {"move", "delete", "merge", "forget"} /\ 0 \in Id0
  BY DEF Correction, Id0
<1>1. CASE l.kind = "merge" /\ l.to = p
  <2> DEFINE t == [l EXCEPT !.kind = "forget", !.to = 0]
  <2>1. im = {t}
    BY <1>1 DEF Image
  <2>2. Forgotten(l, t, p, s)
    BY <1>0, <1>1 DEF Forgotten, Correction
  <2> QED
    BY <2>1, <2>2
<1>2. CASE l.kind = "move" /\ l.to = p
  <2> DEFINE t == [l EXCEPT !.kind = "delete", !.to = 0]
  <2>1. im = {t}
    BY <1>2 DEF Image
  <2>2. Forgotten(l, t, p, s)
    BY <1>0, <1>2 DEF Forgotten, Correction
  <2> QED
    BY <2>1, <2>2
<1>3. CASE Leaves(l, p) /\ s # 0
  <2> DEFINE t == [l EXCEPT !.slug = s]
  <2>1. im = {t}
    BY <1>3 DEF Image, Leaves, AClip
  <2>2. Forgotten(l, t, p, s)
    BY <1>0, <1>3 DEF Forgotten, Correction
  <2> QED
    BY <2>1, <2>2
<1>4. CASE Leaves(l, p) /\ s = 0
  <2>1. im = {}
    BY <1>4 DEF Image, Leaves, AClip
  <2> QED
    BY <1>4, <2>1
<1>5. CASE ~Leaves(l, p) /\ ~(l.kind \in {"merge", "move"} /\ l.to = p)
  <2>1. im = {l}
    BY <1>5 DEF Image
  <2> QED
    BY <1>5, <2>1 DEF Forgotten
<1> QED
  BY <1>0, <1>1, <1>2, <1>3, <1>4, <1>5

LEMMA ImageMerge ==
  ASSUME NEW l \in Correction, NEW q \in Ids, NEW p \in Ids, NEW s \in Id0,
         0 \notin Ids, NEW K
  PROVE  /\ \A t \in Image(l, q, s, p, l \in K) : Merged(l, t, q, s, p, K)
         /\ Image(l, q, s, p, l \in K) = {} => Lost(l, q, s, p, K)
<1> DEFINE im == Image(l, q, s, p, l \in K)
<1>0. /\ l.from \in Id0 /\ l.to \in Id0 /\ l.slug \in Id0 /\ p # 0 /\ p \in Id0
      /\ l.kind \in {"move", "delete", "merge", "forget"} /\ 0 \in Id0
  BY DEF Correction, Id0
<1>1. CASE l.kind \in {"merge", "move"} /\ l.to = q /\ (l.kind = "move" => l.from # p)
  <2> DEFINE t == [l EXCEPT !.to = p]
  <2>1. im = {t}
    BY <1>0, <1>1 DEF Image
  <2>2. Merged(l, t, q, s, p, K)
    BY <1>0, <1>1 DEF Merged, Correction
  <2> QED
    BY <2>1, <2>2
<1>2. CASE l.kind = "move" /\ l.to = q /\ l.from = p
  <2>1. im = {}
    BY <1>0, <1>2 DEF Image
  <2> QED
    BY <1>2, <2>1 DEF Lost
<1>3. CASE Leaves(l, q) /\ l \in K /\ ~Drops(l, p)
  <2> DEFINE t == [l EXCEPT !.from = p, !.slug = 0]
  <2>1. im = {t}
    BY <1>3 DEF Image, Leaves, AClip
  <2>2. Merged(l, t, q, s, p, K)
    BY <1>0, <1>3 DEF Merged, Correction
  <2> QED
    BY <2>1, <2>2
<1>4. CASE Leaves(l, q) /\ l \in K /\ Drops(l, p)
  <2>1. im = {}
    BY <1>4 DEF Image, Leaves, AClip
  <2> QED
    BY <1>4, <2>1 DEF Lost
<1>5. CASE Leaves(l, q) /\ l \notin K /\ s # 0
  <2> DEFINE t == [l EXCEPT !.slug = s]
  <2>1. im = {t}
    BY <1>5 DEF Image, Leaves, AClip
  <2>2. Merged(l, t, q, s, p, K)
    BY <1>0, <1>5 DEF Merged, Correction
  <2> QED
    BY <2>1, <2>2
<1>6. CASE Leaves(l, q) /\ l \notin K /\ s = 0
  <2>1. im = {}
    BY <1>6 DEF Image, Leaves, AClip
  <2> QED
    BY <1>6, <2>1 DEF Lost
<1>7. CASE ~Leaves(l, q) /\ ~(l.kind \in {"merge", "move"} /\ l.to = q)
  <2>1. im = {l}
    BY <1>7 DEF Image
  <2> QED
    BY <1>7, <2>1 DEF Merged
<1> QED
  BY <1>0, <1>1, <1>2, <1>3, <1>4, <1>5, <1>6, <1>7

LEMMA RowsAdded ==
  ASSUME NEW l \in Seq(Correction), NEW x \in Correction, NEW b \in BOOLEAN
  PROVE  Rows(l \o IF b THEN <<>> ELSE <<x>>) = Rows(l) \cup IF b THEN {} ELSE {x}
<1>1. CASE b
  <2>1. l \o <<>> = l
    OBVIOUS
  <2>2. (IF b THEN <<>> ELSE <<x>>) = <<>> /\ (IF b THEN {} ELSE {x}) = {}
    BY <1>1
  <2> QED
    BY <2>1, <2>2
<1>2. CASE ~b
  <2>1. l \o <<x>> = Append(l, x)
    OBVIOUS
  <2>2. (IF b THEN <<>> ELSE <<x>>) = <<x>> /\ (IF b THEN {} ELSE {x}) = {x}
    BY <1>2
  <2> QED
    BY <2>1, <2>2, AppendRows
<1> QED
  BY <1>1, <1>2

-----------------------------------------------------------------------------
(* How each act changes the ledger.                                        *)

LEMMA SettledTypesOf ==
  ASSUME Types, Deep, NEW p \in Ids, NEW into \in Id0
  PROVE  /\ Settled(p, slug[p], into) \in Seq(Correction)
         /\ slug[p] \in Id0 /\ (slug[p] # 0 => slug[p] \in Ids)
         /\ LedgerTypes /\ Ordered(ledger)
<1>1. /\ slug[p] \in Id0 /\ (slug[p] # 0 => slug[p] \in Ids)
      /\ LedgerTypes /\ Ordered(ledger)
  BY TypesLedger DEF Types, TypeOK, BankTypeOK, Id0, Deep, LedgerInv
<1>2. SettledTo(Len(ledger), Settled(p, slug[p], into), p, into)
  BY <1>1, SettledIs
<1> QED
  BY <1>1, <1>2 DEF SettledTo

LEMMA ForgetLogIs ==
  ASSUME Types, Deep, NEW p \in Ids, NEW new,
         Log' = Rows(Settled(p, slug[p], 0)) \cup new
  PROVE  ForgetLog(p, slug[p], new)
<1> DEFINE s == slug[p]
<1>1. s \in Id0 /\ 0 \in Id0 /\ LedgerTypes /\ Ordered(ledger)
  BY SettledTypesOf DEF Id0
<1>2. \A l \in Log : l \in Correction
  BY LogIs DEF LogOK
<1> HIDE DEF s
<1>3. PICK K : /\ CarriedRows(K, p, 0)
               /\ Rows(Settled(p, s, 0)) = UNION {Image(l, p, s, 0, l \in K) : l \in Log}
  BY <1>1, SettledRows
<1>4. \A l \in Log : (l \in K) = FALSE
  BY <1>3 DEF CarriedRows
<1>5. \A l \in Log : Image(l, p, s, 0, l \in K) = Image(l, p, s, 0, FALSE)
  BY <1>4
<1>6. Rows(Settled(p, s, 0)) = UNION {Image(l, p, s, 0, FALSE) : l \in Log}
  BY <1>3, <1>5
<1>7. \A l \in Log : /\ \A t \in Image(l, p, s, 0, FALSE) : Forgotten(l, t, p, s)
                     /\ Image(l, p, s, 0, FALSE) = {} => Leaves(l, p) /\ s = 0
  BY <1>1, <1>2, ImageForget
<1>8. ASSUME NEW t \in Log'
      PROVE  t \in new \/ \E l \in Log : Forgotten(l, t, p, s)
  <2>1. t \in new \/ \E l \in Log : t \in Image(l, p, s, 0, FALSE)
    BY <1>6 DEF s
  <2> QED
    BY <2>1, <1>7
<1>9. ASSUME NEW l \in Log
      PROVE  \/ Leaves(l, p) /\ s = 0
             \/ \E t \in Log' : Forgotten(l, t, p, s)
  <2>1. \A t \in Image(l, p, s, 0, FALSE) : t \in Log'
    BY <1>6 DEF s
  <2>2. CASE Image(l, p, s, 0, FALSE) = {}
    BY <2>2, <1>7
  <2>3. CASE Image(l, p, s, 0, FALSE) # {}
    BY <2>1, <2>3, <1>7
  <2> QED
    BY <2>2, <2>3
<1> QED
  BY <1>8, <1>9 DEF ForgetLog, s

LEMMA ForgetPersonLog ==
  ASSUME Types, Deep, NEW p \in Ids, ForgetPerson(p)
  PROVE  /\ ForgetLog(p, slug[p], IF slug[p] = 0 THEN {} ELSE {ForgetOf(slug[p])})
         /\ slug[p] # 0 => slug[p] \in Ids /\ ForgetOf(slug[p]) \in Correction
<1> DEFINE x == ForgetOf(slug[p])
<1>0. 0 \in Id0
  BY DEF Id0
<1>1. /\ Settled(p, slug[p], 0) \in Seq(Correction)
      /\ slug[p] # 0 => slug[p] \in Ids /\ x \in Correction
  BY <1>0, SettledTypesOf, RowsOf
<1>2. ledger' = Settled(p, slug[p], 0) \o IF slug[p] = 0 THEN <<>> ELSE <<x>>
  BY DEF ForgetPerson
<1> HIDE DEF x
<1>3. Log' = Rows(Settled(p, slug[p], 0)) \cup IF slug[p] = 0 THEN {} ELSE {x}
  <2>1. CASE slug[p] # 0
    <3>1. ledger' = Append(Settled(p, slug[p], 0), x)
      BY <1>1, <1>2, <2>1
    <3> QED
      BY <1>1, <2>1, <3>1, AppendRows DEF Log, Rows
  <2>2. CASE slug[p] = 0
    <3>1. ledger' = Settled(p, slug[p], 0)
      BY <1>1, <1>2, <2>2
    <3> QED
      BY <2>2, <3>1 DEF Log, Rows
  <2> QED
    BY <2>1, <2>2
<1> QED
  BY <1>1, <1>3, ForgetLogIs DEF x

LEMMA ForgetHereLog ==
  ASSUME Types, Deep, NEW p \in Ids, ForgetHere(p)
  PROVE  ForgetLog(p, slug[p], {})
<1>1. Log' = Rows(Settled(p, slug[p], 0)) \cup {}
  BY DEF ForgetHere, Log, Rows
<1> QED
  BY <1>1, ForgetLogIs

LEMMA MergePeopleLog ==
  ASSUME Types, Deep, NEW p \in Ids, NEW q \in Ids, MergePeople(p, q)
  PROVE  /\ \E K : /\ CarriedRows(K, q, p)
                   /\ MergeLog(q, slug[q], p, K,
                               IF slug[q] = 0 THEN {} ELSE {MergeOf(slug[q], p)})
         /\ slug[q] # 0 => slug[q] \in Ids /\ MergeOf(slug[q], p) \in Correction
<1> DEFINE x == MergeOf(slug[q], p)
           s == slug[q]
           new == IF s = 0 THEN {} ELSE {x}
<1>0. p \in Id0 /\ 0 \notin Ids
  BY NumTypes DEF Id0
<1>1. /\ Settled(q, s, p) \in Seq(Correction)
      /\ s # 0 => s \in Ids /\ x \in Correction
      /\ s \in Id0 /\ LedgerTypes /\ Ordered(ledger)
  BY <1>0, SettledTypesOf, RowsOf
<1>2. ledger' = Settled(q, s, p) \o IF s = 0 THEN <<>> ELSE <<x>>
  BY DEF MergePeople
<1>3. \A l \in Log : l \in Correction
  BY LogIs DEF LogOK
<1> HIDE DEF x, s
<1>4. Log' = Rows(Settled(q, s, p)) \cup new
  <2>1. CASE s # 0
    <3>1. ledger' = Append(Settled(q, s, p), x)
      BY <1>1, <1>2, <2>1
    <3> QED
      BY <1>1, <2>1, <3>1, AppendRows DEF Log, Rows
  <2>2. CASE s = 0
    <3>1. ledger' = Settled(q, s, p)
      BY <1>1, <1>2, <2>2
    <3> QED
      BY <2>2, <3>1 DEF Log, Rows
  <2> QED
    BY <2>1, <2>2
<1> HIDE DEF new
<1>5. PICK K : /\ CarriedRows(K, q, p)
               /\ Rows(Settled(q, s, p)) = UNION {Image(l, q, s, p, l \in K) : l \in Log}
  BY <1>0, <1>1, SettledRows
<1>6. \A l \in Log : /\ \A t \in Image(l, q, s, p, l \in K) : Merged(l, t, q, s, p, K)
                     /\ Image(l, q, s, p, l \in K) = {} => Lost(l, q, s, p, K)
  BY <1>0, <1>1, <1>3, ImageMerge
<1>7. ASSUME NEW t \in Log'
      PROVE  t \in new \/ \E l \in Log : Merged(l, t, q, s, p, K)
  <2>1. t \in new \/ \E l \in Log : t \in Image(l, q, s, p, l \in K)
    BY <1>4, <1>5
  <2> QED
    BY <2>1, <1>6
<1>8. ASSUME NEW l \in Log
      PROVE  Lost(l, q, s, p, K) \/ \E t \in Log' : Merged(l, t, q, s, p, K)
  <2>1. \A t \in Image(l, q, s, p, l \in K) : t \in Log'
    BY <1>4, <1>5
  <2>2. CASE Image(l, q, s, p, l \in K) = {}
    BY <2>2, <1>6
  <2>3. CASE Image(l, q, s, p, l \in K) # {}
    BY <2>1, <2>3, <1>6
  <2> QED
    BY <2>2, <2>3
<1>9. MergeLog(q, s, p, K, new)
  BY <1>4, <1>7, <1>8 DEF MergeLog
<1> QED
  BY <1>1, <1>5, <1>9 DEF x, s, new

LEMMA AddedLog ==
  ASSUME Types, NEW x \in Correction, ledger' = Append(ledger, x)
  PROVE  Log' = Log \cup {x}
<1>1. Log' = Rows(Append(ledger, x)) /\ ledger \in Seq(Correction)
  BY DEF Types, TypeOK, BankTypeOK, Log, Rows
<1> QED
  BY <1>1, AppendRows DEF Log

LEMMA TakenOffLog ==
  ASSUME Types, Deep, TakeOff
  PROVE  Log' = Undone /\ Undone' = Undone /\ done' = {} /\ Left = {} /\ Left' = {}
<1>1. ledger' = Without(done) /\ done' = {} /\ rows = <<>> /\ rows' = <<>>
  BY DEF TakeOff, RemoveCorrections
<1>2. /\ \A i \in DOMAIN Without(done) :
           \E j \in DOMAIN ledger : /\ Without(done)[i] = ledger[j]
                                    /\ ledger[j].cid \notin done
      /\ \A j \in DOMAIN ledger : ledger[j].cid \notin done =>
           \E i \in DOMAIN Without(done) : Without(done)[i] = ledger[j]
  BY TypesLedger, WithoutIs DEF Deep, LedgerInv
<1>3. Log' = Undone
  BY <1>1, <1>2 DEF Log, Rows, Undone
<1> QED
  BY <1>1, <1>3 DEF Undone, Left, Rows

-----------------------------------------------------------------------------
(* People, names and slugs.                                                *)

LEMMA PeopleQuiet ==
  ASSUME People, HoldsInv', UNCHANGED <<known, name, also, slug, used>>,
         \A l \in Log' : l \in Log, Had \subseteq Had'
  PROVE  People'
<1>1. NamesInv'
  BY DEF People, NamesInv, Aliases
<1>2. RowInv'
  BY DEF People, RowInv
<1>3. MergeInv'
  BY DEF People, MergeInv
<1> QED
  BY <1>1, <1>2, <1>3 DEF People

LEMMA HoldsQuiet ==
  ASSUME People, UNCHANGED <<known, living, bank, holds>>
  PROVE  HoldsInv'
BY DEF People, HoldsInv

(* A clip is added to the bank of somebody known.                          *)
LEMMA HoldsLearnt ==
  ASSUME Types, People, NEW p \in known, NEW c,
         bank' = [bank EXCEPT ![p] = @ \cup {c}], UNCHANGED <<known, living, holds>>
  PROVE  HoldsInv'
BY DEF Types, TypeOK, BankTypeOK, People, HoldsInv

LEMMA LogSame ==
  ASSUME ledger' = ledger
  PROVE  Log' = Log
BY DEF Log, Rows

LEMMA PeopleBanks ==
  ASSUME Types, People,
         \/ \E c \in Clips : PullClip(c) \/ Upload(c) \/ Restore(c)
         \/ OwnerActs /\ \E p \in Ids, c \in Clips : Learn(p, c)
  PROVE  People'
<1>1. /\ UNCHANGED <<known, name, also, slug, used, ledger, living, dead>>
      /\ Had' = Had
  BY DEF PullClip, Upload, Restore, AddClip, Learn, OwnerActs, bankVars,
     membroVars, Had
<1>2. HoldsInv'
  <2>1. ASSUME NEW c \in Clips, PullClip(c)
        PROVE  HoldsInv'
    <3>1. CASE who \in known
      BY <2>1, <3>1, HoldsLearnt DEF PullClip, AddClip, membroVars
    <3>2. CASE who \notin known
      BY <2>1, <3>2, HoldsQuiet DEF PullClip, AddClip, membroVars
    <3> QED
      BY <3>1, <3>2
  <2>2. ASSUME NEW c \in Clips, Restore(c)
        PROVE  HoldsInv'
    <3>1. CASE who \in known /\ c \in holds[snap[who]]
      BY <2>2, <3>1, HoldsLearnt DEF Restore, AddClip, membroVars
    <3>2. CASE ~(who \in known /\ c \in holds[snap[who]])
      BY <2>2, <3>2, HoldsQuiet DEF Restore, AddClip, membroVars, bankVars
    <3> QED
      BY <3>1, <3>2
  <2>3. ASSUME NEW c \in Clips, Upload(c)
        PROVE  HoldsInv'
    BY <2>3 DEF Upload, bankVars, People, HoldsInv, Types, TypeOK
  <2>4. ASSUME NEW p \in Ids, NEW c \in Clips, OwnerActs, Learn(p, c)
        PROVE  HoldsInv'
    BY <2>4, HoldsLearnt DEF Learn, OwnerActs, membroVars
  <2> QED
    BY <2>1, <2>2, <2>3, <2>4
<1> QED
  BY <1>1, <1>2, LogSame, PeopleQuiet

(* What a row that is replayed does to the people and clips of membro.     *)
LEMMA ReplayHolds ==
  ASSUME Types, Deep, HandInv, HoldsInv, Replay
  PROVE  HoldsInv' /\ Had \subseteq Had' /\ Had' \subseteq Had
<1> DEFINE r == Head(rows)
<1>0. /\ r \in Left /\ r \in Correction /\ RowOK(r) /\ 0 \notin Ids
      /\ living \subseteq Ids /\ dead \subseteq Ids
      /\ OfAPerson(r) => r.slug \in Ids
      /\ snap \in [Ids -> Id0] /\ holds \in [Ids -> SUBSET Clips]
  <2>1. rows \in Seq(Correction) /\ rows # <<>>
    BY DEF Types, TypeOK, Replay
  <2>2. r = rows[1] /\ 1 \in DOMAIN rows
    BY <2>1
  <2>3. r \in Left
    BY <2>2 DEF Left, Rows
  <2> QED
    BY <2>3, LogIs DEF LogOK, Types, TypeOK, RowOK, OfAPerson
<1>1. UNCHANGED <<known, bank>>
  BY DEF Replay, bankVars
<1> HIDE DEF r
<1>2. CASE ~Waits(r) /\ Applies(r)
  <2>1. /\ holds' = ClipsAfter(r) /\ living' = living \ Leavers(r)
        /\ dead' = dead \cup Leavers(r)
    BY <1>2 DEF Replay, r
  <2>2. Leavers(r) \subseteq living
    BY <1>2 DEF Leavers, Applies
  <2>3. Had' = Had
    BY <2>1, <2>2 DEF Had
  <2>4. \A s \in Ids \ living' : holds'[s] = {}
    <3>1. CASE r.kind = "move"
      BY <1>0, <1>2, <2>1, <3>1 DEF Applies, ClipsAfter, Leavers, HoldsInv
    <3>2. CASE r.kind = "delete"
      BY <1>0, <1>2, <2>1, <3>2 DEF Applies, ClipsAfter, Leavers, HoldsInv
    <3>3. CASE r.kind = "merge"
      BY <1>0, <1>2, <2>1, <3>3 DEF Applies, ClipsAfter, Leavers, HoldsInv
    <3>4. CASE r.kind = "forget"
      BY <1>0, <1>2, <2>1, <3>4 DEF Applies, ClipsAfter, Leavers, HoldsInv
    <3> QED
      BY <1>0, <3>1, <3>2, <3>3, <3>4 DEF Correction
  <2> QED
    BY <1>1, <2>3, <2>4 DEF HoldsInv
<1>3. CASE ~(~Waits(r) /\ Applies(r))
  <2>1. UNCHANGED <<holds, living, dead>>
    BY <1>3 DEF Replay, r
  <2> QED
    BY <1>1, <2>1 DEF HoldsInv, Had
<1> QED
  BY <1>2, <1>3

LEMMA PeopleMembro ==
  ASSUME Types, Deep, People, HandInv,
         Replay \/ TakeOff \/ \E s \in Ids : MembroForgets(s) \/ Push(s)
  PROVE  People'
<1>1. CASE Replay
  <2>1. UNCHANGED <<known, name, also, slug, used, ledger>>
    BY <1>1 DEF Replay, bankVars
  <2> QED
    BY <1>1, <2>1, LogSame, ReplayHolds, PeopleQuiet DEF People
<1>2. CASE TakeOff
  <2>1. UNCHANGED <<known, name, also, slug, used, bank, holds, living, dead>>
    BY <1>2 DEF TakeOff, RemoveCorrections, membroVars
  <2>2. \A l \in Log' : l \in Log
    BY <1>2, TakenOffLog DEF Undone
  <2> QED
    BY <2>1, <2>2, HoldsQuiet, PeopleQuiet DEF Had
<1>3. ASSUME NEW s \in Ids, MembroForgets(s)
      PROVE  People'
  <2>1. /\ UNCHANGED <<known, name, also, slug, used, ledger, bank>>
        /\ living' = living \ {s} /\ dead' = dead \cup {s} /\ s \in living
        /\ holds' = [holds EXCEPT ![s] = {}]
    BY <1>3 DEF MembroForgets, bankVars
  <2>2. HoldsInv'
    BY <2>1 DEF People, HoldsInv, Types, TypeOK
  <2> QED
    BY <2>1, <2>2, LogSame, PeopleQuiet DEF Had
<1>4. ASSUME NEW p \in Ids, Push(p)
      PROVE  People'
  <2>1. /\ UNCHANGED <<known, name, also, slug, used, ledger, bank, holds, dead>>
        /\ living' \in {living, living \cup {p}}
    BY <1>4 DEF Push, bankVars
  <2>2. HoldsInv'
    BY <2>1 DEF People, HoldsInv
  <2> QED
    BY <2>1, <2>2, LogSame, PeopleQuiet DEF Had
<1> QED
  BY <1>1, <1>2, <1>3, <1>4

(* Of two who go by a name of somebody else, both are the same.            *)
LEMMA FindOne ==
  ASSUME NamesInv, NEW p \in known, NEW n, n \in Aliases(p)
  PROVE  Named(n) # {} /\ Find(n) = p
<1>1. \A q \in known : n \in Aliases(q) => q = p
  BY DEF NamesInv
<1>2. Named(n) = {p}
  BY <1>1 DEF Named, Aliases
<1>3. {q \in known : name[q] = n} \in {{}, {p}}
  BY <1>1 DEF Aliases
<1> QED
  BY <1>2, <1>3 DEF Find

(* Somebody new: nobody goes by their name, and no row names them.         *)
LEMMA PeopleNew ==
  ASSUME Types, Deep, People, NEW p \in Ids, p \notin used, NEW n,
         known' = known \cup {p}, used' = used \cup {p},
         name' = [name EXCEPT ![p] = n], Named(n) = {},
         also' = also, Log' = Log, Had' = Had,
         UNCHANGED <<living, bank, holds>>,
         slug' = slug \/ \E s \in used : /\ slug' = [slug EXCEPT ![p] = s]
                                         /\ s \in Had /\ name[s] = n
  PROVE  People'
<1>0. /\ LogOK /\ known \subseteq used /\ used \subseteq Ids /\ 0 \notin Ids
      /\ name \in [Ids -> Names] /\ slug \in [Ids -> Id0]
      /\ p \notin known /\ slug[p] = 0 /\ also[p] = {}
      /\ Had \subseteq used
  BY LogIs, NumTypes DEF Types, TypeOK, BankTypeOK, Deep, SlugInv, People, NamesInv
<1>1. /\ \A q \in known : Aliases(q)' = Aliases(q) /\ q # p /\ n \notin Aliases(q)
      /\ Aliases(p)' = {n}
      /\ \A s \in used : name'[s] = name[s] /\ s # p
  BY <1>0 DEF Aliases, Named
<1>2. \A l \in Log : l.kind = "merge" => l.slug \in used /\ l.to \in known
  BY <1>0 DEF LogOK, OfAPerson, People, RowInv
<1>3. \A q \in known : slug'[q] = slug[q]
  BY <1>0, <1>1
<1>4. slug'[p] # 0 => slug'[p] \in used /\ name'[slug'[p]] = n
  BY <1>0, <1>1
<1>5. NamesInv'
  <2>1. \A a, b \in known' : Aliases(a)' \cap Aliases(b)' # {} => a = b
    BY <1>1 DEF People, NamesInv
  <2>2. \A q \in known' : slug'[q] # 0 => name'[slug'[q]] \in Aliases(q)'
    <3>1. \A q \in known : slug[q] # 0 => slug[q] \in used
      BY <1>0 DEF Deep, SlugInv
    <3> QED
      BY <1>1, <1>3, <1>4, <3>1 DEF People, NamesInv
  <2>3. \A l \in Log' : l.kind = "merge" => name'[l.slug] \in Aliases(l.to)'
    BY <1>1, <1>2 DEF People, NamesInv
  <2>4. \A q \in Ids \ known' : also'[q] = {}
    BY DEF People, NamesInv
  <2> QED
    BY <2>1, <2>2, <2>3, <2>4 DEF NamesInv
<1>6. RowInv'
  BY <1>0 DEF People, RowInv
<1>7. HoldsInv'
  BY DEF People, HoldsInv
<1>8. MergeInv'
  <2>1. \A m \in Log : m.kind = "merge" => slug'[p] # m.slug
    <3>1. ASSUME NEW m \in Log, m.kind = "merge", slug'[p] = m.slug
          PROVE  FALSE
      <4>1. m.slug # 0 /\ m.slug \in used /\ m.to \in known
        BY <1>0, <1>2, <3>1
      <4>2. name[m.slug] = n
        BY <1>1, <1>4, <3>1, <4>1
      <4>3. name[m.slug] \in Aliases(m.to)
        BY <3>1 DEF People, NamesInv
      <4> QED
        BY <1>1, <4>1, <4>2, <4>3
    <3> QED
      BY <3>1
  <2> QED
    BY <1>3, <2>1 DEF People, MergeInv
<1> QED
  BY <1>5, <1>6, <1>7, <1>8 DEF People

(* Somebody known is given a slug.                                         *)
LEMMA PeopleGiven ==
  ASSUME Types, Deep, People, NEW p \in known, NEW s \in used,
         slug' = [slug EXCEPT ![p] = s], name[s] \in Aliases(p),
         UNCHANGED <<known, used, name, also, living, bank, holds>>,
         Log' = Log, Had' = Had
  PROVE  People'
<1>0. /\ LogOK /\ known \subseteq used /\ used \subseteq Ids /\ slug \in [Ids -> Id0]
  BY LogIs DEF Types, TypeOK, BankTypeOK
<1>1. /\ \A q \in known : slug'[q] = IF q = p THEN s ELSE slug[q]
      /\ \A q \in known : Aliases(q)' = Aliases(q)
  BY <1>0 DEF Aliases
<1>2. \A l \in Log : l.kind = "merge" => l.to \in known
  BY DEF People, RowInv
<1>3. NamesInv'
  BY <1>0, <1>1, <1>2 DEF People, NamesInv, Aliases
<1>4. RowInv'
  BY DEF People, RowInv
<1>5. HoldsInv'
  BY DEF People, HoldsInv
<1>6. MergeInv'
  <2>1. \A m \in Log : m.kind = "merge" /\ m.slug = s => m.to = p
    <3> SUFFICES ASSUME NEW m \in Log, m.kind = "merge", m.slug = s
                 PROVE  m.to = p
      OBVIOUS
    <3>1. name[s] \in Aliases(m.to) /\ m.to \in known
      BY <1>2 DEF People, NamesInv
    <3> QED
      BY <3>1 DEF People, NamesInv
  <2> QED
    BY <1>1, <2>1 DEF People, MergeInv
<1> QED
  BY <1>3, <1>4, <1>5, <1>6 DEF People

LEMMA PeopleKnown ==
  ASSUME Types, Deep, People, HandInv,
         \/ OwnerActs /\ \E n \in Names : Introduce(n)
         \/ Pushed \/ \E s \in Ids : Build(s)
  PROVE  People'
<1>0. known \subseteq used /\ name \in [Ids -> Names]
  BY DEF Types, TypeOK, BankTypeOK
<1>1. ASSUME OwnerActs, NEW n \in Names, Introduce(n)
      PROVE  People'
  <2>1. PICK p \in Unused :
          /\ known' = known \cup {p} /\ used' = used \cup {p}
          /\ name' = [name EXCEPT ![p] = n]
    BY <1>1 DEF Introduce
  <2>2. p \in Ids /\ p \notin used
    BY <2>1, UnusedIs
  <2>3. /\ Named(n) = {} /\ UNCHANGED <<also, slug, bank, ledger, living, holds>>
        /\ Had' = Had
    BY <1>1, Beside DEF Introduce, OwnerActs, membroVars
  <2> QED
    BY <2>1, <2>2, <2>3, LogSame, PeopleNew
<1>2. CASE Pushed
  <2>1. /\ slug' = IF who \in known THEN [slug EXCEPT ![who] = who] ELSE slug
        /\ UNCHANGED <<known, used, name, also, bank, ledger, living, dead, holds>>
    BY <1>2 DEF Pushed, SetSlug, membroVars
  <2>2. CASE who \in known
    BY <1>0, <2>1, <2>2, LogSame, PeopleGiven DEF Aliases, Had
  <2>3. CASE who \notin known
    BY <2>1, <2>3, LogSame, HoldsQuiet, PeopleQuiet DEF Had
  <2> QED
    BY <2>2, <2>3
<1>3. ASSUME NEW s \in Ids, Build(s)
      PROVE  People'
  <2> DEFINE n == mname[s]
             P == IF Named(n) = {} THEN Unused ELSE {Find(n)}
  <2>1. /\ s \in Had /\ s \in used /\ name[s] = n
        /\ UNCHANGED <<living, dead, holds>> /\ Had' = Had
    BY <1>3 DEF Build, Deep, BuildInv, SlugInv, membroVars, Had
  <2>2. CASE \E p \in P : slug[p] = 0
    <3>1. PICK p \in P : Rebuild(p, n, s)
      BY <1>3, <2>2 DEF Build
    <3>2. /\ known' = known \cup {p} /\ used' = used \cup {p}
          /\ name' = IF p \in used THEN name ELSE [name EXCEPT ![p] = n]
          /\ slug' = [slug EXCEPT ![p] = s]
          /\ UNCHANGED <<also, bank, ledger>>
      BY <3>1 DEF Rebuild
    <3>3. CASE Named(n) = {}
      <4>1. p \in Ids /\ p \notin used
        BY <3>1, <3>3, UnusedIs
      <4> QED
        BY <2>1, <3>2, <3>3, <4>1, LogSame, PeopleNew
    <3>4. CASE Named(n) # {}
      <4>1. PICK q \in known : n \in Aliases(q)
        BY <3>4 DEF Named, Aliases
      <4>2. Find(n) = q
        BY <4>1, FindOne DEF People
      <4>3. p = q
        BY <3>1, <3>4, <4>2
      <4>4. known' = known /\ used' = used /\ name' = name
        BY <1>0, <3>2, <4>3
      <4> QED
        BY <2>1, <3>2, <4>1, <4>3, <4>4, LogSame, PeopleGiven
    <3> QED
      BY <3>3, <3>4
  <2>3. CASE ~\E p \in P : slug[p] = 0
    <3>1. UNCHANGED bankVars
      BY <1>3, <2>3 DEF Build
    <3> QED
      BY <2>1, <3>1, LogSame, HoldsQuiet, PeopleQuiet DEF bankVars
  <2> QED
    BY <2>2, <2>3
<1> QED
  BY <1>1, <1>2, <1>3

(* A clip is deleted or moved.                                             *)
LEMMA PeopleClip ==
  ASSUME Types, Deep, People, OwnerActs, NEW p \in Ids, NEW c \in Clips,
         DeleteClip(p, c) \/ \E q \in Ids : MoveClip(p, q, c)
  PROVE  People'
<1>0. /\ LogOK /\ known \subseteq used /\ used \subseteq Ids /\ 0 \notin Ids
      /\ bank \in [Ids -> SUBSET Clips]
  BY LogIs, NumTypes DEF Types, TypeOK, BankTypeOK
<1>1. /\ UNCHANGED <<known, used, name, also, slug, living, dead, holds>>
      /\ Had' = Had /\ p \in known
  BY Beside DEF DeleteClip, MoveClip, OwnerActs, membroVars
<1>2. PICK x \in Correction :
        /\ Log' = Log \cup {x} /\ AClip(x) /\ x.slug = 0 /\ x.from = p /\ x.to # p
        /\ x.kind = "delete" => x.to = 0
        /\ x.kind = "move" => x.to \in known
  <2>1. CASE DeleteClip(p, c)
    BY <1>0, <1>1, <2>1, RowsOf, AddedLog DEF DeleteClip, DeleteOf, AClip
  <2>2. ASSUME NEW q \in Ids, MoveClip(p, q, c)
        PROVE  \E x \in Correction :
                 /\ Log' = Log \cup {x} /\ AClip(x) /\ x.slug = 0 /\ x.from = p
                 /\ x.to # p
                 /\ x.kind = "delete" => x.to = 0
                 /\ x.kind = "move" => x.to \in known
    <3> DEFINE x == MoveOf(p, q, c)
    <3>1. x \in Correction /\ ledger' = Append(ledger, x)
      BY <2>2, RowsOf DEF MoveClip
    <3>2. Log' = Log \cup {x}
      BY <3>1, AddedLog
    <3>3. x.kind = "move" /\ x.slug = 0 /\ x.from = p /\ x.to = q
      BY DEF MoveOf
    <3> HIDE DEF x
    <3> QED
      BY <2>2, <3>1, <3>2, <3>3 DEF MoveClip, AClip
  <2> QED
    BY <2>1, <2>2
<1>3. ~OfAPerson(x)
  BY <1>2 DEF OfAPerson, AClip
<1>4. NamesInv'
  BY <1>1, <1>2, <1>3 DEF People, NamesInv, Aliases, OfAPerson
<1>5. RowInv'
  BY <1>0, <1>1, <1>2 DEF People, RowInv, AClip
<1>6. HoldsInv'
  BY <1>0, <1>1 DEF People, HoldsInv, DeleteClip, MoveClip
<1>7. MergeInv'
  BY <1>1, <1>2, <1>3 DEF People, MergeInv, OfAPerson
<1> QED
  BY <1>4, <1>5, <1>6, <1>7 DEF People

(* Somebody is forgotten, by the owner or after membro.                    *)
LEMMA PeopleForgotten ==
  ASSUME Types, Deep, People, NEW p \in known, Gone(p),
         bank' = [bank EXCEPT ![p] = {}], NEW new, ForgetLog(p, slug[p], new),
         \A x \in new : x.kind = "forget" /\ x.slug = slug[p] /\ slug[p] # 0,
         UNCHANGED <<name, used, living, holds>>, Had' = Had
  PROVE  People'
<1> DEFINE s == slug[p]
<1>0. /\ LogOK /\ known \subseteq used /\ used \subseteq Ids /\ 0 \notin Ids
      /\ slug \in [Ids -> Id0] /\ also \in [Ids -> SUBSET Names]
      /\ bank \in [Ids -> SUBSET Clips] /\ p \in Ids
      /\ Had \subseteq used
      /\ s # 0 => s \in Had
      /\ \A q \in known : slug[q] \in known => slug[q] = q
      /\ \A q \in known : slug[q] # 0 => slug[q] \in used
  BY LogIs, NumTypes DEF Types, TypeOK, BankTypeOK, Deep, SlugInv
<1>1. /\ known' = known \ {p}
      /\ \A q \in known' : slug'[q] = slug[q] /\ Aliases(q)' = Aliases(q) /\ q # p
      /\ \A q \in Ids \ known' : also'[q] = {} /\ bank'[q] = {}
  BY <1>0 DEF Gone, Aliases, People, NamesInv, HoldsInv
<1>2. \A t \in Log' : t \in new \/ \E l \in Log : Forgotten(l, t, p, s)
  BY DEF ForgetLog
<1>3. s \notin known'
  BY <1>0, <1>1
<1>4. \A t \in Log' : t.kind = "merge" => t \in Log /\ t.to # p
  BY <1>2 DEF Forgotten, Leaves, AClip
<1>5. NamesInv'
  <2>1. \A l \in Log : l.kind = "merge" /\ l.to # p => l.to \in known'
    BY <1>1 DEF People, RowInv
  <2> QED
    BY <1>1, <1>4, <2>1 DEF People, NamesInv
<1>6. RowInv'
  <2>1. ASSUME NEW t \in Log'
        PROVE  /\ AClip(t) /\ t.slug = 0 => t.from \in known' /\ t.from # t.to
               /\ AClip(t) /\ t.slug # 0 => t.from \in used \ known' /\ t.slug \in Had
               /\ t.kind \in {"move", "merge"} => t.to \in known'
               /\ t.kind = "delete" => t.to = 0
               /\ t.slug \in used \cup {0} /\ t.slug \notin known'
    <3>1. CASE t \in new
      BY <1>0, <1>3, <3>1 DEF AClip
    <3>2. ASSUME NEW l \in Log, Forgotten(l, t, p, s)
          PROVE  /\ AClip(t) /\ t.slug = 0 => t.from \in known' /\ t.from # t.to
                 /\ AClip(t) /\ t.slug # 0 => t.from \in used \ known' /\ t.slug \in Had
                 /\ t.kind \in {"move", "merge"} => t.to \in known'
                 /\ t.kind = "delete" => t.to = 0
                 /\ t.slug \in used \cup {0} /\ t.slug \notin known'
      <4>1. /\ AClip(l) /\ l.slug = 0 => l.from \in known /\ l.from # l.to
            /\ AClip(l) /\ l.slug # 0 => l.from \in used \ known /\ l.slug \in Had
            /\ l.kind \in {"move", "merge"} => l.to \in known
            /\ l.kind = "delete" => l.to = 0
            /\ l.slug \in used \cup {0} /\ l.slug \notin known
        BY DEF People, RowInv
      <4>3. CASE l.kind \in {"merge", "move"} /\ l.to = p /\ t.to = 0 /\ t.slug = l.slug
                 /\ t.from = l.from /\ t.kind \in {"forget", "delete"}
                 /\ (t.kind = "delete" => l.kind = "move")
        BY <1>0, <1>1, <4>1, <4>3 DEF AClip
      <4>4. CASE /\ Leaves(l, p) /\ s # 0 /\ t.kind = l.kind
                 /\ t.to = l.to /\ t.slug = s /\ t.from = l.from
        BY <1>0, <1>1, <1>3, <4>1, <4>4 DEF Leaves, AClip
      <4>5. CASE t = l /\ ~Leaves(l, p) /\ ~(l.kind \in {"merge", "move"} /\ l.to = p)
        BY <1>0, <1>1, <4>1, <4>5 DEF Leaves, AClip
      <4> QED
        BY <3>2, <4>3, <4>4, <4>5 DEF Forgotten
    <3> QED
      BY <1>2, <3>1, <3>2
  <2> QED
    BY <2>1 DEF RowInv
<1>7. HoldsInv'
  BY <1>1 DEF People, HoldsInv
<1>8. MergeInv'
  <2> SUFFICES ASSUME NEW m \in Log', m.kind = "merge"
               PROVE  /\ \A q \in known' : slug'[q] = m.slug => q = m.to
                      /\ \A n \in Log' : n.kind = "merge" /\ n.slug = m.slug => n.to = m.to
                      /\ \A f \in Log' : f.kind = "forget" /\ f.slug = m.slug
                                           => f.cid < m.cid
    BY DEF MergeInv
  <2>1. m \in Log /\ m.to # p
    BY <1>4
  <2>2. /\ \A q \in known : slug[q] = m.slug => q = m.to
        /\ \A n \in Log : n.kind = "merge" /\ n.slug = m.slug => n.to = m.to
        /\ \A f \in Log : f.kind = "forget" /\ f.slug = m.slug => f.cid < m.cid
    BY <2>1 DEF People, MergeInv
  <2>3. ASSUME NEW f \in Log', f.kind = "forget", f.slug = m.slug
        PROVE  f \in Log
    <3>1. f \notin new
      BY <2>1, <2>2, <2>3
    <3>2. PICK l \in Log : Forgotten(l, f, p, s)
      BY <1>2, <3>1
    <3>3. ~(l.kind = "merge" /\ l.to = p /\ f.slug = l.slug)
      BY <2>1, <2>2, <2>3
    <3> QED
      BY <2>3, <3>2, <3>3 DEF Forgotten, Leaves, AClip
  <2> QED
    BY <1>1, <1>4, <2>2, <2>3
<1> QED
  BY <1>5, <1>6, <1>7, <1>8 DEF People

LEMMA PeopleForget ==
  ASSUME Types, Deep, People,
         \/ OwnerActs /\ \E p \in Ids : ForgetPerson(p)
         \/ \E s \in Ids : Mirror(s)
  PROVE  People'
<1>1. ASSUME OwnerActs, NEW p \in Ids, ForgetPerson(p)
      PROVE  People'
  <2> DEFINE new == IF slug[p] = 0 THEN {} ELSE {ForgetOf(slug[p])}
  <2>1. ForgetLog(p, slug[p], new)
    BY <1>1, ForgetPersonLog
  <2>2. \A x \in new : x.kind = "forget" /\ x.slug = slug[p] /\ slug[p] # 0
    BY DEF ForgetOf
  <2>3. /\ p \in known /\ Gone(p) /\ bank' = [bank EXCEPT ![p] = {}]
        /\ UNCHANGED <<name, used, living, holds>> /\ Had' = Had
    BY <1>1, Beside DEF ForgetPerson, OwnerActs, membroVars
  <2> HIDE DEF new
  <2> QED
    BY <2>1, <2>2, <2>3, PeopleForgotten
<1>2. ASSUME NEW s \in Ids, Mirror(s)
      PROVE  People'
  <2>1. UNCHANGED <<living, dead, holds>> /\ Had' = Had
    BY <1>2 DEF Mirror, membroVars, Had
  <2>2. CASE UNCHANGED bankVars
    BY <2>1, <2>2, LogSame, HoldsQuiet, PeopleQuiet DEF bankVars
  <2>3. ASSUME NEW p \in known, ForgetHere(p)
        PROVE  People'
    <3>1. p \in Ids
      BY DEF Types, TypeOK, BankTypeOK
    <3>2. /\ Gone(p) /\ bank' = [bank EXCEPT ![p] = {}]
          /\ UNCHANGED <<name, used>>
      BY <2>3 DEF ForgetHere
    <3> DEFINE new == {}
    <3>3. ForgetLog(p, slug[p], new)
      BY <2>3, <3>1, ForgetHereLog
    <3>4. \A x \in new : x.kind = "forget" /\ x.slug = slug[p] /\ slug[p] # 0
      OBVIOUS
    <3> HIDE DEF new
    <3> QED
      BY <2>1, <3>2, <3>3, <3>4, PeopleForgotten
  <2> QED
    BY <1>2, <2>2, <2>3 DEF Mirror
<1> QED
  BY <1>1, <1>2

(* Somebody is merged into somebody.                                       *)
LEMMA PeopleMerge ==
  ASSUME Types, Deep, People, OwnerActs, NEW p \in Ids, NEW q \in Ids,
         MergePeople(p, q)
  PROVE  People'
<1> DEFINE s == slug[q]
           new == IF s = 0 THEN {} ELSE {MergeOf(s, p)}
<1>0. /\ LogOK /\ known \subseteq used /\ used \subseteq Ids /\ 0 \notin Ids
      /\ slug \in [Ids -> Id0] /\ also \in [Ids -> SUBSET Names]
      /\ bank \in [Ids -> SUBSET Clips] /\ known \subseteq Ids
      /\ Had \subseteq used
      /\ s # 0 => s \in Had
      /\ \A x \in known : slug[x] \in known => slug[x] = x
      /\ \A x, y \in known : slug[x] # 0 /\ slug[x] = slug[y] => x = y
      /\ \A x \in known : slug[x] # 0 => slug[x] \in used
      /\ p \in known /\ q \in known /\ p # q
  <2>1. p \in known /\ q \in known /\ p # q
    <3>1. p \in Nat /\ q \in Nat
      BY BankAssumption
    <3> QED
      BY <3>1 DEF MergePeople
  <2> QED
    BY <2>1, LogIs, NumTypes DEF Types, TypeOK, BankTypeOK, Deep, SlugInv
<1>1. /\ known' = known \ {q}
      /\ \A x \in known' : slug'[x] = slug[x] /\ x # q
      /\ \A x \in known' : Aliases(x)' = IF x = p THEN Aliases(p) \cup Aliases(q)
                                          ELSE Aliases(x)
      /\ \A x \in Ids \ known' : also'[x] = {} /\ bank'[x] = {}
      /\ UNCHANGED <<name, used, living, holds>> /\ Had' = Had
  BY <1>0, Beside DEF MergePeople, Aliases, People, NamesInv, HoldsInv, OwnerActs,
     membroVars
<1>2. PICK K : MergeLog(q, s, p, K, new)
  BY MergePeopleLog
<1>3. /\ \A t \in Log' : t \in new \/ \E l \in Log : Merged(l, t, q, s, p, K)
      /\ \A x \in new : x.kind = "merge" /\ x.slug = s /\ s # 0 /\ x.to = p /\ x.cid = acts
  BY <1>2 DEF MergeLog, MergeOf
<1> HIDE DEF new
<1>4. s \notin known'
  BY <1>0, <1>1
<1>5. ASSUME NEW t \in Log', t.kind = "merge"
      PROVE  \/ t \in new
             \/ \E l \in Log : /\ l.kind = "merge" /\ l.slug = t.slug /\ l.cid = t.cid
                               /\ t.to = IF l.to = q THEN p ELSE l.to
  <2>1. ASSUME NEW l \in Log, Merged(l, t, q, s, p, K)
        PROVE  /\ l.kind = "merge" /\ l.slug = t.slug /\ l.cid = t.cid
               /\ t.to = IF l.to = q THEN p ELSE l.to
    BY <1>5, <2>1 DEF Merged, Leaves, AClip
  <2> QED
    BY <1>3, <2>1
<1>6. NamesInv'
  <2>1. \A x, y \in known' : Aliases(x)' \cap Aliases(y)' # {} => x = y
    BY <1>0, <1>1 DEF People, NamesInv
  <2>2. \A x \in known' : slug'[x] # 0 => name'[slug'[x]] \in Aliases(x)'
    BY <1>1 DEF People, NamesInv
  <2>3. ASSUME NEW t \in Log', t.kind = "merge"
        PROVE  name'[t.slug] \in Aliases(t.to)'
    <3>1. CASE t \in new
      <4>1. name[s] \in Aliases(q)
        BY <1>0, <1>3, <3>1 DEF People, NamesInv
      <4> QED
        BY <1>0, <1>1, <1>3, <3>1, <4>1
    <3>2. ASSUME NEW l \in Log, l.kind = "merge", l.slug = t.slug,
                 t.to = IF l.to = q THEN p ELSE l.to
          PROVE  name'[t.slug] \in Aliases(t.to)'
      <4>1. name[l.slug] \in Aliases(l.to) /\ l.to \in known
        BY <3>2 DEF People, NamesInv, RowInv
      <4> QED
        BY <1>0, <1>1, <3>2, <4>1
    <3> QED
      BY <1>5, <2>3, <3>1, <3>2
  <2> QED
    BY <1>1, <2>1, <2>2, <2>3 DEF NamesInv
<1>7. RowInv'
  <2>1. ASSUME NEW t \in Log'
        PROVE  /\ AClip(t) /\ t.slug = 0 => t.from \in known' /\ t.from # t.to
               /\ AClip(t) /\ t.slug # 0 => t.from \in used \ known' /\ t.slug \in Had
               /\ t.kind \in {"move", "merge"} => t.to \in known'
               /\ t.kind = "delete" => t.to = 0
               /\ t.slug \in used \cup {0} /\ t.slug \notin known'
    <3>1. CASE t \in new
      BY <1>0, <1>1, <1>3, <1>4, <3>1 DEF AClip
    <3>2. ASSUME NEW l \in Log, Merged(l, t, q, s, p, K)
          PROVE  /\ AClip(t) /\ t.slug = 0 => t.from \in known' /\ t.from # t.to
                 /\ AClip(t) /\ t.slug # 0 => t.from \in used \ known' /\ t.slug \in Had
                 /\ t.kind \in {"move", "merge"} => t.to \in known'
                 /\ t.kind = "delete" => t.to = 0
                 /\ t.slug \in used \cup {0} /\ t.slug \notin known'
      <4>1. /\ AClip(l) /\ l.slug = 0 => l.from \in known /\ l.from # l.to
            /\ AClip(l) /\ l.slug # 0 => l.from \in used \ known /\ l.slug \in Had
            /\ l.kind \in {"move", "merge"} => l.to \in known
            /\ l.kind = "delete" => l.to = 0
            /\ l.slug \in used \cup {0} /\ l.slug \notin known
        BY DEF People, RowInv
      <4>2. p \in known'
        BY <1>0, <1>1
      <4>3. CASE /\ l.kind \in {"merge", "move"} /\ l.to = q
                 /\ l.kind = "move" => l.from # p
                 /\ t.to = p /\ t.slug = l.slug /\ t.from = l.from /\ t.kind = l.kind
        BY <1>0, <1>1, <4>1, <4>2, <4>3 DEF AClip
      <4>4. CASE /\ Leaves(l, q) /\ ~Drops(l, p) /\ t.kind = l.kind
                 /\ t.to = l.to /\ t.from = p /\ t.slug = 0
        BY <1>0, <1>1, <4>1, <4>2, <4>4 DEF AClip, Leaves, Drops
      <4>5. CASE /\ Leaves(l, q) /\ s # 0 /\ t.kind = l.kind
                 /\ t.to = l.to /\ t.from = l.from /\ t.slug = s
        BY <1>0, <1>1, <1>4, <4>1, <4>5 DEF AClip, Leaves
      <4>6. CASE t = l /\ ~Leaves(l, q) /\ ~(l.kind \in {"merge", "move"} /\ l.to = q)
        BY <1>0, <1>1, <4>1, <4>6 DEF AClip, Leaves
      <4>7. t.kind = l.kind
        BY <3>2 DEF Merged
      <4> QED
        BY <3>2, <4>3, <4>4, <4>5, <4>6, <4>7 DEF Merged
    <3> QED
      BY <1>3, <3>1, <3>2
  <2> QED
    BY <1>1, <2>1 DEF RowInv
<1>8. HoldsInv'
  BY <1>1 DEF People, HoldsInv
<1>9. MergeInv'
  <2> DEFINE to(l) == IF l.to = q THEN p ELSE l.to
  <2>1. ASSUME NEW m \in Log', m.kind = "merge"
        PROVE  /\ \A x \in known : slug[x] = m.slug => m.to = IF x = q THEN p ELSE x
               /\ \A l \in Log : l.kind = "merge" /\ l.slug = m.slug => m.to = to(l)
               /\ \A f \in Log : f.kind = "forget" /\ f.slug = m.slug => f.cid < m.cid
    <3>1. CASE m \in new
      <4>1. m.slug = s /\ m.to = p /\ m.cid = acts /\ s # 0
        BY <1>3, <3>1
      <4>2. \A x \in known : slug[x] = s => x = q
        BY <1>0, <4>1
      <4>3. \A l \in Log : l.kind = "merge" /\ l.slug = s => l.to = q
        BY <1>0 DEF People, MergeInv
      <4>4. \A f \in Log : f.cid < acts
        BY <1>0 DEF LogOK
      <4> QED
        BY <4>1, <4>2, <4>3, <4>4
    <3>2. ASSUME NEW l \in Log, l.kind = "merge", l.slug = m.slug, l.cid = m.cid,
                 m.to = to(l)
          PROVE  /\ \A x \in known : slug[x] = m.slug => m.to = IF x = q THEN p ELSE x
                 /\ \A n \in Log : n.kind = "merge" /\ n.slug = m.slug => m.to = to(n)
                 /\ \A f \in Log : f.kind = "forget" /\ f.slug = m.slug => f.cid < m.cid
      <4>1. /\ \A x \in known : slug[x] = l.slug => x = l.to
            /\ \A n \in Log : n.kind = "merge" /\ n.slug = l.slug => n.to = l.to
            /\ \A f \in Log : f.kind = "forget" /\ f.slug = l.slug => f.cid < l.cid
        BY <3>2 DEF People, MergeInv
      <4> QED
        BY <3>2, <4>1
    <3> QED
      BY <1>5, <2>1, <3>1, <3>2
  <2>2. ASSUME NEW m \in Log', m.kind = "merge", NEW n \in Log', n.kind = "merge",
               n.slug = m.slug
        PROVE  n.to = m.to
    <3>1. CASE n \in new
      <4>1. n.to = p /\ n.slug = slug[q]
        BY <1>3, <3>1
      <4> QED
        BY <1>0, <2>1, <2>2, <4>1
    <3>2. ASSUME NEW l \in Log, l.kind = "merge", l.slug = n.slug, n.to = to(l)
          PROVE  n.to = m.to
      BY <2>1, <2>2, <3>2
    <3> QED
      BY <1>5, <2>2, <3>1, <3>2
  <2>3. ASSUME NEW f \in Log', f.kind = "forget"
        PROVE  f \in Log
    BY <1>3, <2>3 DEF Merged, Leaves, AClip
  <2> HIDE DEF to
  <2> QED
    BY <1>1, <2>1, <2>2, <2>3 DEF MergeInv
<1> QED
  BY <1>6, <1>7, <1>8, <1>9 DEF People

-----------------------------------------------------------------------------
(* What a pass holds, and the rows it has still to replay.                 *)

LEMMA NotReplaying ==
  ASSUME Types', Deep', pc' # "replay",
         (pc = "diff" => who \in used /\ (who \in known => snap[who] = slug[who]))',
         (pc = "pushed" /\ who \in known => slug[who] = 0)',
         (pc = "clips" => who \in used)'
  PROVE  Replaying'
<1>1. Left' = {} /\ rows' = <<>>
  BY LogNext DEF LogOK, Deep, LedgerInv
<1>2. HandInv'
  BY <1>1 DEF HandInv, Ordered
<1> QED
  BY <1>1, <1>2 DEF Replaying, MergeReadInv

(* What an act of the owner leaves as it is.                               *)
LEMMA OwnerLeaves ==
  ASSUME Types, Deep, OwnerActs
  PROVE  /\ used \subseteq used'
         /\ \A x \in known' : /\ slug'[x] = slug[x]
                              /\ x \in known \/ (x \notin used /\ slug[x] = 0)
         /\ UNCHANGED <<living, dead, mname, holds, pc, passVars>> /\ Had' = Had
         /\ Left' = Left /\ crossed' = crossed \cup Touched \cup Carried \cup Misnamed
<1>0. /\ slug \in [Ids -> Id0] /\ known \subseteq used
      /\ \A x \in Ids \ known : slug[x] = 0
  BY DEF Types, TypeOK, BankTypeOK, Deep, SlugInv
<1>1. /\ UNCHANGED <<living, dead, mname, holds, pc, passVars>> /\ Had' = Had
      /\ Left' = Left /\ crossed' = crossed \cup Touched \cup Carried \cup Misnamed
  BY DEF OwnerActs, membroVars, passVars, Had, Left, Rows
<1>2. Owner
  BY DEF OwnerActs
<1>3. ASSUME NEW n \in Names, Introduce(n)
      PROVE  /\ used \subseteq used'
             /\ \A x \in known' : /\ slug'[x] = slug[x]
                                  /\ x \in known \/ (x \notin used /\ slug[x] = 0)
  BY <1>0, <1>3, UnusedIs DEF Introduce
<1>4. ASSUME NEW p \in Ids, NEW c \in Clips,
             Learn(p, c) \/ DeleteClip(p, c) \/ \E q \in Ids : MoveClip(p, q, c)
      PROVE  used' = used /\ known' = known /\ slug' = slug
  BY <1>4 DEF Learn, DeleteClip, MoveClip
<1>5. ASSUME NEW p \in Ids, ForgetPerson(p)
      PROVE  /\ used' = used
             /\ \A x \in known' : slug'[x] = slug[x] /\ x \in known
  BY <1>0, <1>5 DEF ForgetPerson, Gone
<1>6. ASSUME NEW p \in Ids, NEW q \in Ids, MergePeople(p, q)
      PROVE  /\ used' = used
             /\ \A x \in known' : slug'[x] = slug[x] /\ x \in known
  BY <1>0, <1>6 DEF MergePeople
<1> QED
  BY <1>1, <1>2, <1>3, <1>4, <1>5, <1>6 DEF Owner

LEMMA HandsOfOwner ==
  ASSUME Types, Deep, HandInv, OwnerActs
  PROVE  HandInv'
<1>1. /\ used \subseteq used'
      /\ \A x \in known' : /\ slug'[x] = slug[x]
                           /\ x \in known \/ (x \notin used /\ slug[x] = 0)
      /\ UNCHANGED <<living, dead, mname, holds, pc, passVars>> /\ Had' = Had
      /\ Left' = Left
  BY OwnerLeaves
<1>2. UNCHANGED <<snap, who, rows, done>>
  BY <1>1 DEF passVars
<1>3. used' \subseteq Ids /\ known \subseteq used /\ known' \subseteq Ids
  <2>1. known' \subseteq Ids
    <3>1. \A x \in known' : x \in known \/ x \in Ids
      BY UnusedIs DEF OwnerActs, Owner, Introduce, Learn, DeleteClip, MoveClip,
         ForgetPerson, MergePeople, Gone
    <3> QED
      BY <3>1 DEF Types, TypeOK, BankTypeOK
  <2>2. used' \subseteq Ids
    <3>1. \A x \in used' : x \in used \/ x \in Ids
      BY UnusedIs DEF OwnerActs, Owner, Introduce, Learn, DeleteClip, MoveClip,
         ForgetPerson, MergePeople
    <3> QED
      BY <3>1 DEF Types, TypeOK, BankTypeOK
  <2> QED
    BY <2>1, <2>2 DEF Types, TypeOK, BankTypeOK
<1> QED
  BY <1>1, <1>2, <1>3 DEF HandInv

(* Rows of clips added to the ledger, people to the store.                 *)
LEMMA ReplayingMore ==
  ASSUME Types, Deep, Replaying, OwnerActs,
         Log \subseteq Log', \A t \in Log' \ Log : t.cid = acts /\ ~OfAPerson(t),
         known \subseteq known'
  PROVE  Replaying'
<1>1. /\ used \subseteq used'
      /\ \A x \in known' : /\ slug'[x] = slug[x]
                           /\ x \in known \/ (x \notin used /\ slug[x] = 0)
      /\ UNCHANGED <<living, dead, mname, holds, pc, passVars>> /\ Had' = Had
      /\ Left' = Left
  BY OwnerLeaves
<1>2. UNCHANGED <<snap, who, rows, done>>
  BY <1>1 DEF passVars
<1>3. HandInv'
  BY HandsOfOwner DEF Replaying
<1>4. LogOK
  BY LogIs
<1>5. /\ \A t \in Log' : OfAPerson(t) => t \in Log
      /\ Undone \subseteq Undone'
      /\ \A t \in Undone' : OfAPerson(t) => t \in Undone
      /\ \A r \in Left : SlugOf(r.to)' = SlugOf(r.to)
  BY <1>2 DEF Undone, SlugOf
<1>6. MergeReadInv'
  <2> SUFFICES ASSUME NEW r \in Left, r.kind = "merge"
               PROVE  /\ r.to \in used'
                      /\ \A p \in known' : slug'[p] = r.slug => p = r.to
                      /\ \E l \in Log' : Became(r, l)'
    BY <1>1 DEF MergeReadInv
  <2>1. /\ r.to \in used
        /\ \A p \in known : slug[p] = r.slug => p = r.to
        /\ \E l \in Log : Became(r, l)
    BY DEF Replaying, MergeReadInv
  <2>2. PICK l \in Log : Became(r, l)
    BY <2>1
  <2>3. r.slug # 0
    BY <1>4, <2>2 DEF Became, LogOK, OfAPerson
  <2>4. r.to \in known' => r.to \in known
    BY <1>1, <2>1
  <2>5. Became(r, l)'
    <3>1. \A g \in Undone : Gone1(r, g, l) => g \in Undone' /\ Gone1(r, g, l)'
      BY <1>1, <1>5 DEF Gone1
    <3>2. l.kind = "forget" => /\ \A m \in Log' : m.kind = "merge" => m.slug # r.slug
                               /\ \A p \in known' : slug'[p] # r.slug
                               /\ r.to \notin known'
      BY <1>1, <1>5, <2>2, <2>3, <2>4 DEF Became, OfAPerson
    <3>3. r.to \notin known' => \/ SlugOf(r.to)' \in dead' \cup {0}
                                \/ \E g \in Undone' : Gone1(r, g, l)'
      <4>1. r.to \notin known' => \/ SlugOf(r.to) \in dead \cup {0}
                                  \/ \E g \in Undone : Gone1(r, g, l)
        BY <2>2 DEF Became
      <4> QED
        BY <4>1, <3>1, <1>1, <1>5
    <3> QED
      BY <2>2, <2>4, <3>2, <3>3 DEF Became
  <2> QED
    BY <1>1, <2>1, <2>2, <2>3, <2>5
<1> QED
  BY <1>3, <1>6 DEF Replaying

(* The same rows, people and slugs, whoever membro forgets meanwhile.      *)
LEMMA ReplayingSame ==
  ASSUME Replaying, Log' = Log, dead \subseteq dead', Had' = Had,
         UNCHANGED <<known, used, slug, snap, who, done, rows, pc>>
  PROVE  Replaying'
<1>1. Left' = Left /\ Undone' = Undone
  BY DEF Left, Rows, Undone
<1>2. HandInv'
  BY <1>1 DEF Replaying, HandInv
<1>3. MergeReadInv'
  <2>1. \A r \in Left, l \in Log : Became(r, l) => Became(r, l)'
    <3> SUFFICES ASSUME NEW r \in Left, NEW l \in Log, Became(r, l)
                 PROVE  Became(r, l)'
      OBVIOUS
    <3>1. \A g \in Undone : Gone1(r, g, l) => Gone1(r, g, l)'
      BY <1>1 DEF Gone1, SlugOf
    <3>2. SlugOf(r.to)' = SlugOf(r.to)
      BY DEF SlugOf
    <3> QED
      BY <1>1, <3>1, <3>2 DEF Became
  <2> QED
    BY <1>1, <2>1 DEF Replaying, MergeReadInv
<1> QED
  BY <1>2, <1>3 DEF Replaying

LEMMA ReplayingRead ==
  ASSUME Types, Deep, People, ReadLedger
  PROVE  Replaying'
<1>0. /\ LogOK /\ pc = "push" /\ done = {} /\ done' = {} /\ rows' = ledger /\ snap' = slug
      /\ UNCHANGED <<known, used, slug, ledger, living, dead, who>> /\ pc' = "replay"
      /\ Had' = Had
  BY LogIs DEF ReadLedger, LogOK, bankVars, membroVars, Had
<1>1. Left' = Log /\ Log' = Log /\ Undone' = Log
  BY <1>0 DEF Left, Log, Rows, Undone
<1>2. \A l \in Log : l.cid \in Nat
  BY <1>0 DEF LogOK
<1>3. HandInv'
  <2>1. /\ \A p \in known : slug[p] = slug[p]
        /\ \A p \in Ids : slug[p] \in Had \cup {0}
        /\ \A p \in Ids \ used : slug[p] = 0
    BY DEF Deep, SlugInv, Types, TypeOK, BankTypeOK
  <2>2. Ordered(ledger)
    BY DEF Deep, LedgerInv
  <2> QED
    BY <1>0, <1>1, <2>1, <2>2 DEF HandInv, Ordered
<1>4. MergeReadInv'
  <2>1. ASSUME NEW r \in Log, r.kind = "merge"
        PROVE  /\ r.to \in used /\ Became(r, r)'
               /\ \A p \in known : slug[p] = r.slug => p = r.to
    BY <1>0, <2>1 DEF People, RowInv, MergeInv, Became, Types, TypeOK, BankTypeOK
  <2> QED
    BY <1>0, <1>1, <2>1 DEF MergeReadInv
<1> QED
  BY <1>3, <1>4 DEF Replaying

LEMMA ReplayingFails ==
  ASSUME Types, Deep, Replaying, ReplayFails
  PROVE  Replaying' /\ Left' \subseteq Left
<1>0. /\ UNCHANGED <<known, used, slug, snap, who, done, pc, ledger>>
      /\ pc = "replay" /\ UNCHANGED <<living, dead>>
      /\ rows \in Seq(Correction) /\ rows # <<>> /\ Ordered(rows)
      /\ rows' = <<>> \/ rows' = Tail(rows)
  BY DEF ReplayFails, bankVars, membroVars, Types, TypeOK, Replaying, HandInv
<1>1. Log' = Log /\ Undone' = Undone /\ Had' = Had
  BY <1>0 DEF Log, Rows, Undone, Had
<1>2. Left' \subseteq Left /\ Ordered(rows')
  <2>1. CASE rows' = <<>>
    BY <2>1 DEF Left, Rows, Ordered
  <2>2. CASE rows' = Tail(rows)
    <3>1. \A i \in DOMAIN rows' : /\ i + 1 \in DOMAIN rows /\ rows'[i] = rows[i + 1]
                                  /\ i \in Nat
      BY <1>0, <2>2
    <3> QED
      BY <1>0, <3>1 DEF Left, Rows, Ordered
  <2> QED
    BY <1>0, <2>1, <2>2
<1>3. HandInv'
  BY <1>0, <1>1, <1>2 DEF Replaying, HandInv
<1>4. MergeReadInv'
  <2>1. \A x \in Left', l \in Log : Became(x, l) => Became(x, l)'
    <3> SUFFICES ASSUME NEW x \in Left', NEW l \in Log, Became(x, l)
                 PROVE  Became(x, l)'
      OBVIOUS
    <3>1. \A g \in Undone : Gone1(x, g, l) => Gone1(x, g, l)'
      BY <1>0, <1>2 DEF Gone1, SlugOf
    <3>2. SlugOf(x.to)' = SlugOf(x.to)
      BY <1>0 DEF SlugOf
    <3> QED
      BY <1>0, <1>1, <3>1, <3>2 DEF Became
  <2> QED
    BY <1>0, <1>1, <1>2, <2>1 DEF Replaying, MergeReadInv
<1> QED
  BY <1>2, <1>3, <1>4 DEF Replaying

(* What is left once the first row is replayed.                            *)
LEMMA HeadLeaves ==
  ASSUME Types, Deep, HandInv, Replay
  PROVE  LET r == Head(rows)
         IN /\ r \in Left /\ Left' \subseteq Left /\ Left \subseteq Left' \cup {r}
            /\ \A x \in Left' : r.cid < x.cid /\ x # r
            /\ Ordered(rows') /\ Ordered(rows)
            /\ Log' = Log /\ pc = "replay"
            /\ done' = IF Waits(r) THEN done ELSE done \cup {r.cid}
            /\ UNCHANGED <<known, used, slug, snap, who, pc, bank, name, also, removed>>
            /\ dead \subseteq dead' /\ crossed' = crossed \cup Stranded(r)
            /\ rows' = Tail(rows) /\ rows # <<>>
<1> DEFINE r == Head(rows)
<1>1. /\ rows \in Seq(Correction) /\ rows # <<>> /\ rows' = Tail(rows)
      /\ r = rows[1] /\ 1 \in DOMAIN rows
  BY DEF Types, TypeOK, Replay
<1>2. /\ \A i \in DOMAIN rows' : i + 1 \in DOMAIN rows /\ rows'[i] = rows[i + 1]
                                /\ i \in Nat /\ 1 < i + 1
      /\ \A i \in DOMAIN rows : i = 1 \/ (i - 1 \in DOMAIN rows' /\ rows'[i - 1] = rows[i])
  BY <1>1
<1>3. Ordered(rows)
  BY DEF HandInv
<1>4. Ordered(rows')
  BY <1>2, <1>3 DEF Ordered
<1>5. r \in Left /\ Left' \subseteq Left /\ Left \subseteq Left' \cup {r}
  BY <1>1, <1>2 DEF Left, Rows
<1>6. \A x \in Left' : r.cid < x.cid
  BY <1>1, <1>2, <1>3 DEF Left, Rows, Ordered
<1>7. \A x \in Left' : x # r
  <2>1. \A x \in Left : x.cid \in Nat
    BY LogIs DEF LogOK
  <2> QED
    BY <1>5, <1>6, <2>1
<1>8. /\ Log' = Log /\ pc = "replay"
      /\ done' = IF Waits(r) THEN done ELSE done \cup {r.cid}
      /\ UNCHANGED <<known, used, slug, snap, who, pc, bank, name, also, removed>>
      /\ dead \subseteq dead' /\ crossed' = crossed \cup Stranded(r)
  BY DEF Replay, bankVars, Log, Rows
<1> QED
  BY <1>1, <1>3, <1>4, <1>5, <1>6, <1>7, <1>8

LEMMA ReplayingRow ==
  ASSUME Types, Deep, People, Replaying, Replay
  PROVE  Replaying'
<1> DEFINE r == Head(rows)
<1>0. /\ r \in Left /\ Left' \subseteq Left /\ Left \subseteq Left' \cup {r}
      /\ \A x \in Left' : r.cid < x.cid /\ x # r
      /\ Ordered(rows')
      /\ Log' = Log /\ pc = "replay"
      /\ done' = IF Waits(r) THEN done ELSE done \cup {r.cid}
      /\ UNCHANGED <<known, used, slug, snap, who, pc>>
      /\ dead \subseteq dead'
  BY HeadLeaves DEF Replaying
<1>2. LogOK
  BY LogIs
<1>3. /\ \A l \in Log : l.cid \in Nat
      /\ \A x \in Left : x.cid \in Nat
  BY <1>2 DEF LogOK
<1>4. Had \subseteq Had'
  BY ReplayHolds DEF Replaying, People
<1> HIDE DEF r
<1>5. HandInv'
  <2>1. \A x \in Left' : x.cid \notin done'
    <3>1. \A x \in Left' : x.cid # r.cid
      BY <1>0, <1>3
    <3> QED
      BY <1>0, <3>1 DEF Replaying, HandInv
  <2>3. /\ \A p \in known : snap[p] = slug[p]
        /\ \A p \in Ids : snap[p] \in Had' \cup {0}
        /\ \A p \in Ids \ used : snap[p] = 0
    BY <1>0, <1>4 DEF Replaying, HandInv
  <2> QED
    BY <1>0, <2>1, <2>3 DEF HandInv
<1>6. MergeReadInv'
  <2>1. ASSUME NEW x \in Left', x.kind = "merge", NEW l \in Log, Became(x, l)
        PROVE  Became(x, l)'
    <3>1. SlugOf(x.to)' = SlugOf(x.to)
      BY <1>0 DEF SlugOf
    <3>2. \A g \in Undone : Gone1(x, g, l) => g \in Undone' /\ Gone1(x, g, l)'
      BY <1>0, <3>1 DEF Gone1, Undone
    <3> QED
      BY <1>0, <2>1, <3>1, <3>2 DEF Became
  <2> QED
    BY <1>0, <2>1 DEF Replaying, MergeReadInv
<1> QED
  BY <1>5, <1>6 DEF Replaying

(* Somebody goes while a pass replays.                                     *)
LEMMA ReplayingForgotten ==
  ASSUME Types, Deep, People, Replaying, OwnerActs, NEW p \in Ids, ForgetPerson(p),
         pc = "replay"
  PROVE  Replaying'
<1> DEFINE s == slug[p]
           new == IF slug[p] = 0 THEN {} ELSE {ForgetOf(slug[p])}
<1>1. /\ used \subseteq used'
      /\ UNCHANGED <<living, dead, mname, holds, pc, passVars>> /\ Had' = Had
      /\ Left' = Left
  BY OwnerLeaves
<1>2. UNCHANGED <<snap, who, rows, done>>
  BY <1>1 DEF passVars
<1>3. p \in known /\ known' = known \ {p} /\ \A x \in known' : slug'[x] = slug[x]
  BY DEF ForgetPerson, Gone, Types, TypeOK, BankTypeOK
<1>4. ForgetLog(p, s, new)
  BY ForgetPersonLog
<1>5. LogOK
  BY LogIs
<1>6. /\ \A x \in new : /\ x = ForgetOf(s) /\ x.kind = "forget" /\ x.slug = s
                        /\ x.cid = acts /\ s # 0
      /\ s # 0 => ForgetOf(s) \in new
  BY DEF ForgetOf
<1> HIDE DEF new
<1>7. \A t \in Log' : t \in new \/ \E l \in Log : Forgotten(l, t, p, s)
  BY <1>4 DEF ForgetLog
<1>8. \A t \in Log' : t.kind = "merge" => t \in Log /\ t.to # p
  BY <1>6, <1>7 DEF Forgotten, Leaves, AClip
<1>9. HandInv'
  BY HandsOfOwner DEF Replaying
<1>10. ASSUME NEW l \in Log, OfAPerson(l)
       PROVE  /\ \E t \in Log' : Forgotten(l, t, p, s)
              /\ \A t : Forgotten(l, t, p, s) =>
                   \/ t = l /\ ~(l.kind = "merge" /\ l.to = p)
                   \/ /\ l.kind = "merge" /\ l.to = p
                      /\ t.kind = "forget" /\ t.slug = l.slug /\ t.cid = l.cid
  BY <1>4, <1>10 DEF ForgetLog, Forgotten, Leaves, AClip, OfAPerson
<1>11. MergeReadInv'
  <2> SUFFICES ASSUME NEW r \in Left, r.kind = "merge"
               PROVE  /\ r.to \in used'
                      /\ \A x \in known' : slug'[x] = r.slug => x = r.to
                      /\ \E t \in Log' : Became(r, t)'
    BY <1>1 DEF MergeReadInv
  <2>1. /\ r.to \in used
        /\ \A x \in known : slug[x] = r.slug => x = r.to
        /\ \E l \in Log : Became(r, l)
    BY DEF Replaying, MergeReadInv
  <2>2. PICK l \in Log : Became(r, l)
    BY <2>1
  <2>3. OfAPerson(l) /\ l.slug = r.slug
    BY <2>2 DEF Became, OfAPerson
  <2>4. PICK t \in Log' : Forgotten(l, t, p, s)
    BY <1>10, <2>3
  <2>5. SlugOf(r.to)' = SlugOf(r.to)
    BY <1>2 DEF SlugOf
  <2>6. t.cid = r.cid /\ t.kind \in {"merge", "forget"} /\ t.slug = r.slug
    BY <1>10, <2>2, <2>3, <2>4 DEF Became, OfAPerson
  <2>7. ASSUME t.kind = "forget"
        PROVE  /\ \A m \in Log' : m.kind = "merge" => m.slug # r.slug
               /\ \A x \in known' : slug'[x] # r.slug
               /\ r.to \notin known'
    <3>1. CASE t = l
      <4>1. /\ \A m \in Log : m.kind = "merge" => m.slug # r.slug
            /\ \A x \in known : slug[x] # r.slug
            /\ r.to \notin known
        BY <2>2, <2>7, <3>1 DEF Became
      <4> QED
        BY <1>3, <1>8, <4>1
    <3>2. CASE l.kind = "merge" /\ l.to = p
      <4>1. /\ \A x \in known : slug[x] = l.slug => x = p
            /\ \A m \in Log : m.kind = "merge" /\ m.slug = l.slug => m.to = p
        BY <3>2 DEF People, MergeInv
      <4>2. r.to = p \/ r.to \notin known
        BY <2>2, <3>2 DEF Became
      <4> QED
        BY <1>3, <1>8, <2>3, <4>1, <4>2
    <3> QED
      BY <1>10, <2>3, <2>4, <3>1, <3>2
  <2>8. t.kind = "merge" => t.to = r.to \/ r.to \notin known'
    BY <1>3, <1>10, <2>2, <2>3, <2>4 DEF Became
  <2>9. ASSUME r.to \notin known'
        PROVE  \/ SlugOf(r.to)' \in dead' \cup {0}
               \/ \E g \in Undone' : Gone1(r, g, t)'
    <3>1. CASE r.to \in known
      <4>1. r.to = p /\ l.kind = "merge" /\ l.to = p
        BY <1>3, <2>2, <2>3, <2>9, <3>1 DEF Became, OfAPerson
      <4>2. SlugOf(r.to) = s
        BY <1>3, <1>5, <4>1 DEF SlugOf, Replaying, HandInv, LogOK
      <4>3. CASE s = 0
        BY <1>1, <2>5, <4>2, <4>3
      <4>4. CASE s # 0
        <5>1. PICK g \in new : g = ForgetOf(s)
          BY <1>6, <4>4
        <5>2. g \in Undone'
          BY <1>2, <1>4, <1>5, <1>6, <5>1 DEF Undone, ForgetLog, LogOK
        <5>3. \A x \in Left : x.cid # g.cid
          BY <1>5, <1>6, <5>1 DEF LogOK
        <5>4. Gone1(r, g, t)'
          BY <1>1, <1>6, <2>5, <4>2, <5>1, <5>3 DEF Gone1
        <5> QED
          BY <5>2, <5>4
      <4> QED
        BY <4>3, <4>4
    <3>2. CASE r.to \notin known
      <4>1. CASE SlugOf(r.to) \in dead \cup {0}
        BY <1>1, <2>5, <4>1
      <4>2. ASSUME NEW g \in Undone, Gone1(r, g, l)
            PROVE  \E h \in Undone' : Gone1(r, h, t)'
        <5>1. OfAPerson(g) /\ g \in Log /\ g.cid \notin done
          BY <4>2 DEF Gone1, OfAPerson, Undone
        <5>2. PICK h \in Log' : Forgotten(g, h, p, s)
          BY <1>10, <5>1
        <5>3. \/ h = g /\ ~(g.kind = "merge" /\ g.to = p)
              \/ /\ g.kind = "merge" /\ g.to = p
                 /\ h.kind = "forget" /\ h.slug = g.slug /\ h.cid = g.cid
          BY <1>10, <5>1, <5>2
        <5>4. h \in Undone'
          BY <1>2, <5>1, <5>2, <5>3 DEF Undone
        <5>5. h.kind = "forget" \/ (h = g /\ t = l)
          BY <1>10, <2>3, <2>4, <4>2, <5>3 DEF Gone1, OfAPerson
        <5>6. Gone1(r, h, t)'
          BY <1>1, <2>5, <4>2, <5>3, <5>5 DEF Gone1
        <5> QED
          BY <5>4, <5>6
      <4> QED
        BY <2>2, <3>2, <4>1, <4>2 DEF Became
    <3> QED
      BY <3>1, <3>2
  <2>10. Became(r, t)'
    BY <2>6, <2>7, <2>8, <2>9 DEF Became
  <2> QED
    BY <1>1, <1>3, <2>1, <2>10
<1> QED
  BY <1>9, <1>11 DEF Replaying

LEMMA ReplayingMerged ==
  ASSUME Types, Deep, People, Replaying, OwnerActs,
         NEW p \in Ids, NEW q \in Ids, MergePeople(p, q), pc = "replay"
  PROVE  Replaying'
<1> DEFINE s == slug[q]
           new == IF slug[q] = 0 THEN {} ELSE {MergeOf(slug[q], p)}
<1>1. /\ used \subseteq used'
      /\ UNCHANGED <<living, dead, mname, holds, pc, passVars>> /\ Had' = Had
      /\ Left' = Left
  BY OwnerLeaves
<1>2. UNCHANGED <<snap, who, rows, done>>
  BY <1>1 DEF passVars
<1>3. /\ q \in known /\ known' = known \ {q} /\ \A x \in known' : slug'[x] = slug[x]
      /\ p \in known /\ p # q
  BY BankAssumption DEF MergePeople, Types, TypeOK, BankTypeOK
<1>4. PICK K : CarriedRows(K, q, p) /\ MergeLog(q, s, p, K, new)
  BY MergePeopleLog
<1>5. LogOK
  BY LogIs
<1>6. /\ \A x \in new : /\ x = MergeOf(s, p) /\ x.kind = "merge" /\ x.slug = s
                        /\ x.to = p /\ x.cid = acts /\ s # 0
      /\ s # 0 => MergeOf(s, p) \in new
  BY DEF MergeOf
<1> HIDE DEF new
<1>7. \A t \in Log' : t \in new \/ \E l \in Log : Merged(l, t, q, s, p, K)
  BY <1>4 DEF MergeLog
<1>9. HandInv'
  BY HandsOfOwner DEF Replaying
<1>10. ASSUME NEW l \in Log, OfAPerson(l)
       PROVE  /\ \E t \in Log' : Merged(l, t, q, s, p, K)
              /\ \A t : Merged(l, t, q, s, p, K) =>
                   /\ t.kind = l.kind /\ t.slug = l.slug /\ t.cid = l.cid
                   /\ l.kind = "merge" => t.to = IF l.to = q THEN p ELSE l.to
  <2>1. ~Lost(l, q, s, p, K)
    BY <1>10 DEF Lost, Leaves, AClip, OfAPerson
  <2>2. \E t \in Log' : Merged(l, t, q, s, p, K)
    BY <1>4, <2>1 DEF MergeLog
  <2> QED
    BY <1>10, <2>2 DEF Merged, Leaves, AClip, OfAPerson
<1>8. ASSUME NEW t \in Log', t.kind = "merge", t \notin new
      PROVE  \E l \in Log : l.kind = "merge" /\ l.slug = t.slug
  BY <1>7, <1>8 DEF Merged, Leaves, AClip
<1>11. MergeReadInv'
  <2> SUFFICES ASSUME NEW r \in Left, r.kind = "merge"
               PROVE  /\ r.to \in used'
                      /\ \A x \in known' : slug'[x] = r.slug => x = r.to
                      /\ \E t \in Log' : Became(r, t)'
    BY <1>1 DEF MergeReadInv
  <2>1. /\ r.to \in used
        /\ \A x \in known : slug[x] = r.slug => x = r.to
        /\ \E l \in Log : Became(r, l)
    BY DEF Replaying, MergeReadInv
  <2>2. PICK l \in Log : Became(r, l)
    BY <2>1
  <2>3. OfAPerson(l) /\ l.slug = r.slug
    BY <2>2 DEF Became, OfAPerson
  <2>4. PICK t \in Log' : Merged(l, t, q, s, p, K)
    BY <1>10, <2>3
  <2>5. SlugOf(r.to)' = SlugOf(r.to)
    BY <1>2 DEF SlugOf
  <2>6. /\ t.cid = r.cid /\ t.kind = l.kind /\ t.kind \in {"merge", "forget"}
        /\ t.slug = r.slug /\ (l.kind = "merge" => t.to = IF l.to = q THEN p ELSE l.to)
    BY <1>10, <2>2, <2>3, <2>4 DEF Became, OfAPerson
  <2>7. ASSUME t.kind = "forget"
        PROVE  /\ \A m \in Log' : m.kind = "merge" => m.slug # r.slug
               /\ \A x \in known' : slug'[x] # r.slug
               /\ r.to \notin known'
    <3>1. /\ \A m \in Log : m.kind = "merge" => m.slug # r.slug
          /\ \A x \in known : slug[x] # r.slug
          /\ r.to \notin known
      BY <2>2, <2>6, <2>7 DEF Became
    <3>2. s # r.slug
      BY <1>3, <3>1
    <3> QED
      BY <1>3, <1>6, <1>8, <3>1, <3>2
  <2>8. t.kind = "merge" => t.to = r.to \/ r.to \notin known'
    BY <1>3, <2>2, <2>6 DEF Became
  <2>9. ASSUME r.to \notin known'
        PROVE  \/ SlugOf(r.to)' \in dead' \cup {0}
               \/ \E g \in Undone' : Gone1(r, g, t)'
    <3>1. CASE r.to \in known
      <4>1. r.to = q /\ l.kind = "merge" /\ l.to = q /\ t.to = p
        BY <1>3, <2>2, <2>3, <2>6, <2>9, <3>1 DEF Became, OfAPerson
      <4>2. SlugOf(r.to) = s
        BY <1>3, <1>5, <4>1 DEF SlugOf, Replaying, HandInv, LogOK
      <4>3. CASE s = 0
        BY <1>1, <2>5, <4>2, <4>3
      <4>4. CASE s # 0
        <5>1. PICK g \in new : g = MergeOf(s, p)
          BY <1>6, <4>4
        <5>2. g \in Undone'
          BY <1>2, <1>4, <1>5, <1>6, <5>1 DEF Undone, MergeLog, LogOK
        <5>3. \A x \in Left : x.cid # g.cid
          BY <1>5, <1>6, <5>1 DEF LogOK
        <5>4. Gone1(r, g, t)'
          BY <1>1, <1>6, <2>5, <2>6, <4>1, <4>2, <5>1, <5>3 DEF Gone1
        <5> QED
          BY <5>2, <5>4
      <4> QED
        BY <4>3, <4>4
    <3>2. CASE r.to \notin known
      <4>1. CASE SlugOf(r.to) \in dead \cup {0}
        BY <1>1, <2>5, <4>1
      <4>2. ASSUME NEW g \in Undone, Gone1(r, g, l)
            PROVE  \E h \in Undone' : Gone1(r, h, t)'
        <5>1. OfAPerson(g) /\ g \in Log /\ g.cid \notin done
          BY <4>2 DEF Gone1, OfAPerson, Undone
        <5>2. PICK h \in Log' : Merged(g, h, q, s, p, K)
          BY <1>10, <5>1
        <5>3. /\ h.kind = g.kind /\ h.slug = g.slug /\ h.cid = g.cid
              /\ g.kind = "merge" => h.to = IF g.to = q THEN p ELSE g.to
          BY <1>10, <5>1, <5>2
        <5>4. h \in Undone'
          BY <1>2, <5>1, <5>2, <5>3 DEF Undone
        <5>6. Gone1(r, h, t)'
          BY <1>1, <2>5, <2>6, <4>2, <5>3 DEF Gone1
        <5> QED
          BY <5>4, <5>6
      <4> QED
        BY <2>2, <3>2, <4>1, <4>2 DEF Became
    <3> QED
      BY <3>1, <3>2
  <2>10. Became(r, t)'
    BY <2>6, <2>7, <2>8, <2>9 DEF Became
  <2> QED
    BY <1>1, <1>3, <2>1, <2>10
<1> QED
  BY <1>9, <1>11 DEF Replaying

(* The people of the store, and what a pass holds, over every step.        *)
LEMMA IdleLog ==
  ASSUME \/ Begin \/ ReadForgets \/ Pulled \/ ReadPeople \/ ReadLedger
         \/ ReplayFails \/ ClipsRefused \/ ReadPending \/ NextPerson \/ Finish \/ Fail
         \/ UNCHANGED vars \/ \E p \in Ids : Diff(p) \/ PushRefused(p)
  PROVE  /\ UNCHANGED <<bankVars, living, dead, mname, holds, crossed>>
         /\ Log' = Log /\ Had' = Had
<1>1. UNCHANGED <<bankVars, living, dead, mname, holds, crossed>>
  BY DEF Begin, ReadForgets, Pulled, ReadPeople, ReadLedger, ReplayFails, ReadPending,
     NextPerson, Finish, Fail, Diff, PushRefused, ClipsRefused, vars, membroVars, ghostVars
<1> QED
  BY <1>1 DEF Log, Rows, bankVars, Had

LEMMA PeopleIdle ==
  ASSUME People, UNCHANGED <<bankVars, living, dead, holds>>
  PROVE  People'
<1>1. HoldsInv'
  BY HoldsQuiet DEF bankVars
<1>2. Log' = Log /\ Had' = Had
  BY DEF Log, Rows, bankVars, Had
<1> QED
  BY <1>1, <1>2, PeopleQuiet DEF bankVars

LEMMA PeopleStep ==
  ASSUME Types, Deep, People, HandInv, [Next]_vars
  PROVE  People'
<1>1. CASE \/ Begin \/ ReadForgets \/ Pulled \/ ReadPeople \/ ReadLedger
           \/ ReplayFails \/ ClipsRefused \/ ReadPending \/ NextPerson \/ Finish \/ Fail
           \/ UNCHANGED vars \/ \E p \in Ids : Diff(p) \/ PushRefused(p)
  BY <1>1, IdleLog, PeopleIdle
<1>2. CASE \E s \in Ids : Mirror(s) \/ Build(s) \/ Push(s)
  BY <1>2, PeopleForget, PeopleKnown, PeopleMembro
<1>3. CASE Pushed \/ Replay \/ TakeOff
  BY <1>3, PeopleKnown, PeopleMembro
<1>4. CASE \E c \in Clips : PullClip(c) \/ Upload(c) \/ Restore(c)
  BY <1>4, PeopleBanks
<1>5. CASE \E s \in Ids : MembroForgets(s)
  BY <1>5, PeopleMembro
<1>6. CASE OwnerActs
  <2>1. Owner
    BY <1>6 DEF OwnerActs
  <2> QED
    BY <1>6, <2>1, PeopleKnown, PeopleBanks, PeopleClip, PeopleForget, PeopleMerge
    DEF Owner
<1> QED
  BY <1>1, <1>2, <1>3, <1>4, <1>5, <1>6 DEF Next, Pass

LEMMA ReplayingOwner ==
  ASSUME Types, Deep, Types', Deep', People, Replaying, OwnerActs
  PROVE  Replaying'
<1>0. /\ used \subseteq used'
      /\ \A x \in known' : /\ slug'[x] = slug[x]
                           /\ x \in known \/ (x \notin used /\ slug[x] = 0)
      /\ UNCHANGED <<living, dead, mname, holds, pc, passVars>>
  BY OwnerLeaves
<1>1. CASE pc # "replay"
  BY <1>0, <1>1, NotReplaying DEF Replaying, HandInv, passVars, Deep, PushInv
<1>2. CASE pc = "replay"
  <2>1. Owner
    BY DEF OwnerActs
  <2>2. ASSUME NEW n \in Names, Introduce(n)
        PROVE  Replaying'
    <3>1. Log' = Log /\ known \subseteq known'
      BY <2>2 DEF Introduce, Log, Rows
    <3> QED
      BY <3>1, ReplayingMore
  <2>3. ASSUME NEW a \in Ids, NEW c \in Clips, Learn(a, c)
        PROVE  Replaying'
    <3>1. Log' = Log /\ known \subseteq known'
      BY <2>3 DEF Learn, Log, Rows
    <3> QED
      BY <3>1, ReplayingMore
  <2>4. ASSUME NEW a \in Ids, NEW c \in Clips, DeleteClip(a, c)
        PROVE  Replaying'
    <3>1. DeleteOf(a, c) \in Correction
      BY RowsOf
    <3>2. Log' = Log \cup {DeleteOf(a, c)} /\ known \subseteq known'
      BY <2>4, <3>1, AddedLog DEF DeleteClip
    <3> QED
      BY <3>2, ReplayingMore DEF DeleteOf, OfAPerson
  <2>5. ASSUME NEW a \in Ids, NEW b \in Ids, NEW c \in Clips, MoveClip(a, b, c)
        PROVE  Replaying'
    <3>1. MoveOf(a, b, c) \in Correction
      BY RowsOf
    <3>2. Log' = Log \cup {MoveOf(a, b, c)} /\ known \subseteq known'
      BY <2>5, <3>1, AddedLog DEF MoveClip
    <3> QED
      BY <3>2, ReplayingMore DEF MoveOf, OfAPerson
  <2> QED
    BY <1>2, <2>1, <2>2, <2>3, <2>4, <2>5, ReplayingForgotten, ReplayingMerged DEF Owner
<1> QED
  BY <1>1, <1>2

LEMMA ReplayingElse ==
  ASSUME Types, Deep, Types', Deep', Replaying,
         \/ Begin \/ ReadForgets \/ Pulled \/ ReadPeople \/ Pushed
         \/ TakeOff \/ ReadPending \/ NextPerson \/ Finish \/ Fail \/ ClipsRefused
         \/ \E s \in Ids : Mirror(s) \/ Build(s) \/ Push(s) \/ Diff(s) \/ PushRefused(s)
         \/ \E c \in Clips : PullClip(c) \/ Upload(c) \/ Restore(c)
  PROVE  Replaying'
<1>0. /\ known \subseteq used /\ slug \in [Ids -> Id0]
      /\ \A x \in Ids \ known : slug[x] = 0
      /\ 0 \notin living
      /\ snap \in [Ids -> Id0]
      /\ known \subseteq Ids /\ used \subseteq Ids
  <2>1. 0 \notin living /\ used \subseteq Ids /\ known \subseteq used
        /\ slug \in [Ids -> Id0] /\ snap \in [Ids -> Id0]
    BY NumTypes DEF Types, TypeOK, BankTypeOK
  <2> QED
    BY <2>1 DEF Deep, SlugInv, Types, TypeOK
<1>1. CASE \/ Begin \/ ReadForgets \/ Pulled \/ ReadPeople
           \/ TakeOff \/ ReadPending \/ NextPerson \/ Finish \/ Fail
  BY <1>1, NotReplaying DEF Begin, ReadForgets, Pulled, ReadPeople, TakeOff, ReadPending,
     NextPerson, Finish, Fail, Stopped
<1>2. ASSUME NEW s \in Ids, Mirror(s)
      PROVE  Replaying'
  BY <1>2, NotReplaying DEF Mirror
<1>3. ASSUME NEW s \in Ids, Build(s)
      PROVE  Replaying'
  <2>1. pc' \in {"build", "clips"} /\ (pc' = "clips" => who' \in used')
    <3>1. pc = "build" /\ (UNCHANGED pc \/ \E p \in Ids : used' = used \cup {p} /\ pc' = "clips" /\ who' = p)
      <4>1. \A p \in Unused : p \in Ids
        BY UnusedIs
      <4>2. \A p \in {Find(mname[s])} : Named(mname[s]) # {} => p \in Ids
        BY <1>0, FindIs
      <4> QED
        BY <1>3, <4>1, <4>2 DEF Build, Rebuild
    <3> QED
      BY <3>1
  <2> QED
    BY <2>1, NotReplaying
<1>4. ASSUME NEW p \in Ids, Push(p)
      PROVE  Replaying'
  BY <1>4, NotReplaying DEF Push, bankVars
<1>5. CASE Pushed
  BY <1>5, NotReplaying DEF Pushed
<1>6. ASSUME NEW p \in Ids, Diff(p)
      PROVE  Replaying'
  <2>1. pc' # "replay" /\ pc' \notin {"pushed", "clips"}
    BY <1>6 DEF Diff
  <2>2. pc' = "diff" => who' = p /\ slug[p] \in living /\ snap' = [snap EXCEPT ![p] = slug[p]]
    BY <1>6 DEF Diff
  <2>3. UNCHANGED <<used, known, slug>>
    BY <1>6 DEF Diff, bankVars
  <2>4. pc' = "diff" => p \in known
    BY <1>0, <2>2
  <2>5. pc' = "diff" => who' \in used' /\ (who' \in known' => snap'[who'] = slug'[who'])
    <3> SUFFICES ASSUME pc' = "diff"
                 PROVE  who' \in used' /\ snap'[who'] = slug'[who']
      OBVIOUS
    <3>1. who' = p /\ p \in used /\ used' = used /\ slug' = slug
      BY <1>0, <2>2, <2>3, <2>4
    <3>2. snap'[p] = slug[p]
      BY <1>0, <2>2
    <3> QED
      BY <3>1, <3>2
  <2> QED
    BY <2>1, <2>5, NotReplaying
<1>7. ASSUME NEW c \in Clips, PullClip(c) \/ Upload(c) \/ Restore(c)
      PROVE  Replaying'
  <2>1. UNCHANGED <<pc, who, used, known, slug, snap>>
    BY <1>7 DEF PullClip, Upload, Restore, AddClip, bankVars
  <2> QED
    BY <1>7, <2>1, NotReplaying DEF Replaying, HandInv, PullClip, Upload, Restore
<1>8. CASE ClipsRefused
  <2>1. UNCHANGED <<pc, who, used, known, slug, snap>> /\ pc # "replay"
    BY <1>8 DEF ClipsRefused, bankVars
  <2> QED
    BY <1>8, <2>1, NotReplaying DEF Replaying, HandInv
<1>9. ASSUME NEW p \in Ids, PushRefused(p)
      PROVE  Replaying'
  BY <1>9, NotReplaying DEF PushRefused
<1> QED
  BY <1>1, <1>2, <1>3, <1>4, <1>5, <1>6, <1>7, <1>8, <1>9

LEMMA ReplayingStep ==
  ASSUME Types, Deep, Types', Deep', People, Replaying, [Next]_vars
  PROVE  Replaying'
<1>1. ASSUME NEW s \in Ids, MembroForgets(s)
      PROVE  Replaying'
  <2>1. /\ Log' = Log /\ dead \subseteq dead' /\ Had' = Had
        /\ UNCHANGED <<known, used, slug, snap, who, done, rows, pc>>
    BY <1>1 DEF MembroForgets, bankVars, Log, Rows, Had
  <2> QED
    BY <2>1, ReplayingSame
<1>2. CASE UNCHANGED vars
  <2>1. /\ Log' = Log /\ dead \subseteq dead' /\ Had' = Had
        /\ UNCHANGED <<known, used, slug, snap, who, done, rows, pc>>
    BY <1>2 DEF vars, bankVars, membroVars, passVars, Log, Rows, Had
  <2> QED
    BY <2>1, ReplayingSame
<1> QED
  BY <1>1, <1>2, ReplayingElse, ReplayingOwner, ReplayingRow, ReplayingRead, ReplayingFails
  DEF Next, Pass

(* A correction names its clip.                                            *)
LEMMA FixesSha ==
  ASSUME Types, NEW c \in Clips, NEW l \in Log, Fixes(l, c)
  PROVE  c \in Shas
BY TypesLedger DEF Shas, Log, Rows, Fixes

LEMMA ShasIs ==
  ASSUME NEW c, c \in Shas
  PROVE  \E l \in Log : l.sha = c
BY DEF Shas, Log, Rows

(* The same rows, or more of them that count; more people and clips.       *)
LEMMA HeldMore ==
  ASSUME Types, Deep, People, NEW c \in Clips, Placed(c),
         Log' = Log, Undone \subseteq Undone', Undone' \in {Undone, Log},
         \A x \in known : Keeps(x, c) => Keeps(x, c)',
         \A x \in known : slug[x] # 0 => slug'[x] = slug[x],
         \A t \in living' : c \in holds'[t] => t \in living /\ c \in holds[t],
         Once(c)', Stays(c)'
  PROVE  Placed(c)'
<1>0. /\ 0 \notin living /\ known \subseteq Ids /\ \A x \in Ids \ known : slug[x] = 0
  BY NumTypes DEF Types, TypeOK, BankTypeOK, Deep, SlugInv
<1>1. ASSUME NEW S, NEW k, NEW x, Goes(S, k, x, c), NEW T, S \subseteq T
      PROVE  Goes(T, k, x, c)'
  BY <1>1 DEF Goes, Fixes, AClip, Keeps
<1>2. Chain(Log, c)'
  BY <1>1 DEF Placed, Chain
<1>3. Chain(Undone, c)'
  <2>1. Chain(Undone', c)
    BY DEF Placed
  <2> QED
    BY <1>1, <2>1 DEF Chain
<1>4. Held(c)'
  <2> SUFFICES ASSUME NEW t \in living', c \in holds'[t]
               PROVE  Doomed(t)' \/ Covered(t, c)'
    BY DEF Held
  <2>1. t \in living /\ c \in holds[t] /\ t # 0
    BY <1>0
  <2>2. Doomed(t) => Doomed(t)'
    BY DEF Doomed
  <2>3. \A x \in Ids : Keeps(x, c) /\ slug[x] = t => Keeps(x, c)' /\ slug'[x] = t
    BY <2>1 DEF Keeps
  <2>4. \A l \in Undone : Ahead(l, t, c) => l \in Undone' /\ Ahead(l, t, c)'
    <3> SUFFICES ASSUME NEW l \in Undone, Ahead(l, t, c) PROVE Ahead(l, t, c)'
      OBVIOUS
    <3>1. l.slug = 0 => l.from \in known
      BY DEF Undone, People, RowInv, Ahead, Fixes
    <3> QED
      BY <2>1, <3>1 DEF Ahead, Fixes, AClip, Origin
  <2>5. \A m \in Undone : Goes(Undone, m.cid, m.to, c) => Goes(Undone, m.cid, m.to, c)'
    BY <1>1
  <2>6. Covered(t, c) => Covered(t, c)'
    BY <2>3, <2>4, <2>5 DEF Covered
  <2> QED
    BY <2>1, <2>2, <2>6 DEF Placed, Held
<1> QED
  BY <1>2, <1>3, <1>4 DEF Placed

(* The pass is not replaying: it holds no rows.                            *)
LEMMA AwayNow ==
  ASSUME Types, Deep, pc # "replay"
  PROVE  Left = {} /\ done = {} /\ Undone = Log
BY LogIs DEF LogOK, Undone

LEMMA AwayNext ==
  ASSUME Types', Deep', pc' # "replay", NEW c
  PROVE  ReadInv(c)' /\ Undone' = Log' /\ done' = {} /\ Left' = {}
<1>1. Left' = {} /\ done' = {}
  BY LogNext DEF LogOK
<1> QED
  BY <1>1 DEF ReadInv, Undone

LEMMA PlacedIdle ==
  ASSUME Types, Deep, People, NEW c \in Clips, Placed(c),
         UNCHANGED <<bankVars, living, dead, mname, holds>>,
         done' = done \/ done' = {}
  PROVE  Placed(c)' /\ Log' = Log
<1>1. Log' = Log /\ UNCHANGED <<known, slug, bank, removed>>
  BY DEF bankVars, Log, Rows
<1>2. Undone \subseteq Undone' /\ Undone' \in {Undone, Log}
  BY <1>1 DEF Undone
<1>3. \A x \in known : Keeps(x, c) => Keeps(x, c)'
  BY <1>1 DEF Keeps
<1>4. Once(c)'
  BY <1>1 DEF Placed, Once
<1>5. Stays(c)'
  <2>1. \A t : Doomed(t) => Doomed(t)'
    BY <1>2 DEF Doomed
  <2> QED
    BY <1>1, <2>1 DEF Placed, Stays
<1> QED
  BY <1>1, <1>2, <1>3, <1>4, <1>5, HeldMore

LEMMA ToldIdle ==
  ASSUME Types, Deep, People, Replaying, Types', Deep', NEW c \in Clips, Told(c),
         \/ Begin \/ ReadForgets \/ Pulled \/ ReadPeople \/ ReadPending
         \/ NextPerson \/ Finish \/ Fail \/ \E p \in Ids : PushRefused(p)
  PROVE  Told(c)'
<1>1. UNCHANGED <<bankVars, living, dead, mname, holds>>
  BY IdleLog
<1>2. /\ done' = done \/ done' = {}
      /\ pc' \notin {"replay", "clips", "diff"}
      /\ pc' = "people" => \/ pc = "diff" /\ pending' = pending
                           \/ pending' = Shas
  BY DEF Begin, ReadForgets, Pulled, ReadPeople, ReadPending, NextPerson, Finish,
     Fail, Stopped, PushRefused
<1>3. Placed(c)' /\ Log' = Log
  BY <1>1, <1>2, PlacedIdle DEF Told
<1>4. Shas' = Shas
  BY <1>1 DEF bankVars, Shas
<1>5. WantInv(c)'
  BY <1>2, <1>4 DEF Told, WantInv
<1> QED
  BY <1>2, <1>3, <1>5, AwayNext DEF Told

LEMMA ToldStutter ==
  ASSUME Types, Deep, People, NEW c \in Clips, Told(c), UNCHANGED vars
  PROVE  Told(c)'
<1>1. /\ UNCHANGED <<known, slug, bank, removed, ledger>>
      /\ UNCHANGED <<living, dead, holds, pc, snap, who, want, rows, done, pending>>
  BY DEF vars, bankVars, membroVars, passVars
<1>2. Log' = Log /\ Left' = Left /\ Undone' = Undone /\ Shas' = Shas
  BY <1>1 DEF Log, Left, Rows, Undone, Shas
<1>3. Placed(c)'
  BY PlacedIdle DEF Told, vars, membroVars, passVars
<1>4. \A l, s : Ahead(l, s, c) => Ahead(l, s, c)'
  BY <1>1, <1>2 DEF Ahead, Fixes, AClip, Origin
<1>5. \A k, s : Earlier(k, s, c) => Earlier(k, s, c)'
  BY <1>2, <1>4 DEF Earlier
<1>6. \A l, r : ReadAs(l, r) => ReadAs(l, r)'
  BY <1>1 DEF ReadAs, Origin, Source, SlugOf
<1>7. ReadInv(c)'
  BY <1>1, <1>2, <1>5, <1>6 DEF Told, ReadInv, Fixes, AClip, Source, SlugOf
<1>9. WantInv(c)'
  BY <1>1, <1>2 DEF Told, WantInv, Doomed
<1> QED
  BY <1>3, <1>7, <1>9 DEF Told

LEMMA ToldRead ==
  ASSUME Types, Deep, People, Replaying, Types', Deep', NEW c \in Clips, Told(c),
         ReadLedger
  PROVE  Told(c)'
<1>1. UNCHANGED <<bankVars, living, dead, mname, holds>>
  BY IdleLog
<1>2. pc = "push" /\ pc' = "replay" /\ rows' = ledger /\ snap' = slug /\ done' = done
  BY DEF ReadLedger
<1>3. Placed(c)' /\ Log' = Log
  BY <1>1, <1>2, PlacedIdle DEF Told
<1>4. Left' = Log /\ slug' = slug /\ holds' = holds
  BY <1>1, <1>2 DEF Left, Log, Rows, bankVars
<1>5. LogOK
  BY LogIs
<1>6. ReadInv(c)'
  <2>1. ASSUME NEW l \in Log, NEW r \in Log, l.cid = r.cid
        PROVE  l = r
    BY <1>5, <2>1 DEF LogOK
  <2>2. ASSUME NEW r \in Log, Fixes(r, c)
        PROVE  ReadAs(r, r)'
    <3>1. r.slug = 0 => r.from # 0
      BY <1>5, <2>2 DEF People, RowInv, Fixes, LogOK, Types, TypeOK, BankTypeOK
    <3> QED
      BY <1>2, <1>4, <3>1 DEF ReadAs, Origin, Source, SlugOf
  <2> QED
    BY <1>3, <1>4, <2>1, <2>2 DEF ReadInv, Fixes, AClip
<1>8. WantInv(c)'
  BY <1>2 DEF WantInv
<1> QED
  BY <1>3, <1>6, <1>8 DEF Told

LEMMA ToldFails ==
  ASSUME Types, Deep, People, Replaying, NEW c \in Clips, Told(c), ReplayFails
  PROVE  Told(c)'
<1>1. UNCHANGED <<bankVars, living, dead, mname, holds>> /\ Log' = Log
  BY IdleLog
<1>2. pc' = "replay" /\ done' = done /\ snap' = snap
  BY DEF ReplayFails
<1>3. Placed(c)'
  BY <1>1, <1>2, PlacedIdle DEF Told
<1>4. Left' \subseteq Left /\ Undone' = Undone /\ slug' = slug
  BY <1>1, <1>2, ReplayingFails DEF Undone, bankVars
<1>5. \A k, s : Earlier(k, s, c) => Earlier(k, s, c)'
  <2>1. \A l, s : Ahead(l, s, c) => Ahead(l, s, c)'
    BY <1>1, <1>4 DEF Ahead, Fixes, AClip, Origin
  <2> QED
    BY <1>4, <2>1 DEF Earlier
<1>6. \A l, r : ReadAs(l, r) => ReadAs(l, r)'
  BY <1>2, <1>4 DEF ReadAs, Origin, Source, SlugOf
<1>7. ReadInv(c)'
  BY <1>1, <1>2, <1>4, <1>5, <1>6 DEF Told, ReadInv, Fixes, AClip, Source, SlugOf
<1>8. WantInv(c)'
  BY <1>2 DEF WantInv
<1> QED
  BY <1>3, <1>7, <1>8 DEF Told

(* Fewer clips are asked for.                                              *)
LEMMA ToldRefused ==
  ASSUME Types, Deep, People, Types', Deep', NEW c \in Clips, Told(c), ClipsRefused
  PROVE  Told(c)'
<1>1. UNCHANGED <<bankVars, living, dead, mname, holds>> /\ Log' = Log
  BY IdleLog
<1>2. /\ UNCHANGED <<done, pc, who, pending>> /\ pc' # "replay"
      /\ want' \subseteq want
  BY DEF ClipsRefused
<1>3. Placed(c)'
  BY <1>1, <1>2, PlacedIdle DEF Told
<1>4. Undone' = Log' /\ ReadInv(c)'
  BY <1>2, AwayNext
<1>5. Undone' = Undone /\ Shas' = Shas /\ UNCHANGED <<known, slug, dead, holds>>
  BY <1>1, <1>2 DEF Undone, Shas, bankVars
<1>6. \A s : Doomed(s) => Doomed(s)'
  BY <1>5 DEF Doomed
<1>7. WantInv(c)'
  BY <1>2, <1>5, <1>6 DEF Told, WantInv
<1> QED
  BY <1>3, <1>4, <1>7 DEF Told

LEMMA ToldOff ==
  ASSUME Types, Deep, People, Replaying, Types', Deep', NEW c \in Clips, Told(c),
         TakeOff
  PROVE  Told(c)'
<1>1. /\ Log' = Undone /\ Undone' = Undone
      /\ UNCHANGED <<known, slug, bank, removed, living, dead, holds>>
      /\ pc' = "settle"
  BY TakenOffLog DEF TakeOff, RemoveCorrections, membroVars
<1>2. Chain(Log, c)' /\ Chain(Undone, c)'
  <2>1. Chain(Undone, c)
    BY DEF Told, Placed
  <2> QED
    BY <1>1, <2>1 DEF Chain, Goes, Keeps, Fixes, AClip
<1>3. Held(c)'
  <2> SUFFICES ASSUME NEW t \in living, c \in holds[t]
               PROVE  Doomed(t)' \/ Covered(t, c)'
    BY <1>1 DEF Held
  <2>1. Doomed(t) \/ Covered(t, c)
    BY DEF Told, Placed, Held
  <2>2. \A l \in Undone : Ahead(l, t, c) => Ahead(l, t, c)'
    BY <1>1 DEF Ahead, Fixes, AClip, Origin, Undone
  <2> QED
    BY <1>1, <2>1, <2>2 DEF Doomed, Covered, Goes, Keeps, Fixes, AClip
<1>4. Once(c)' /\ Stays(c)'
  BY <1>1 DEF Told, Placed, Once, Stays, Doomed
<1>5. WantInv(c)'
  BY <1>1 DEF WantInv
<1> QED
  BY <1>1, <1>2, <1>3, <1>4, <1>5, AwayNext DEF Told, Placed

(* Nothing stays removed with somebody who has no slug.                    *)
LEMMA StaysSlugged ==
  ASSUME Types, Deep, NEW c, Stays(c), NEW p \in known, c \in bank[p], c \in removed
  PROVE  slug[p] # 0
<1>1. 0 \notin dead /\ ~Doomed(0)
  BY NumTypes, LogIs DEF Types, TypeOK, BankTypeOK, LogOK, OfAPerson, Doomed, Undone
<1> QED
  BY <1>1 DEF Stays

(* What a person of the store has at membro, if no correction names it and *)
(* they are not to be forgotten, they have here.                           *)
LEMMA HereToo ==
  ASSUME Types, Deep, People, NEW c \in Clips, Held(c), NEW p \in known,
         slug[p] \in living, c \in holds[slug[p]], c \notin Shas
  PROVE  Doomed(slug[p]) \/ Keeps(p, c)
<1>1. slug[p] # 0 /\ known \subseteq Ids
  BY NumTypes DEF Types, TypeOK, BankTypeOK
<1>2. Doomed(slug[p]) \/ Covered(slug[p], c)
  BY DEF Held
<1>3. \A l \in Undone : ~Fixes(l, c)
  BY FixesSha DEF Undone
<1>4. \A x \in Ids : Keeps(x, c) /\ slug[x] = slug[p] => x = p
  BY <1>1 DEF Keeps, Deep, SlugInv
<1>5. ASSUME NEW m \in Undone, m.kind = "merge", m.slug = slug[p],
             Goes(Undone, m.cid, m.to, c)
      PROVE  Keeps(p, c)
  <2>1. p = m.to
    BY <1>5 DEF People, MergeInv, Undone
  <2> QED
    BY <1>3, <1>5, <2>1 DEF Goes
<1> QED
  BY <1>2, <1>3, <1>4, <1>5 DEF Covered, Ahead

LEMMA ToldPush ==
  ASSUME Types, Deep, People, Replaying, Types', Deep', NEW c \in Clips, Told(c),
         NEW p \in Ids, Push(p)
  PROVE  Told(c)'
<1>1. /\ UNCHANGED <<bankVars, dead, holds, done, known, slug, bank, removed>>
      /\ living' \subseteq living \cup {p} /\ pc' \in {"push", "pushed"}
      /\ p \notin living \/ living' = living
  BY DEF Push, bankVars
<1>2. Log' = Log /\ Undone' = Undone
  BY <1>1 DEF bankVars, Log, Rows, Undone
<1>3. \A t \in living' : c \in holds'[t] => t \in living /\ c \in holds[t]
  BY <1>1 DEF People, HoldsInv
<1>4. Once(c)' /\ Stays(c)'
  BY <1>1, <1>2 DEF Told, Placed, Once, Stays, Doomed
<1>5. Placed(c)'
  <2>1. \A x \in known : Keeps(x, c) => Keeps(x, c)'
    BY <1>1 DEF Keeps
  <2> QED
    BY <1>1, <1>2, <1>3, <1>4, <2>1, HeldMore DEF Told
<1>6. WantInv(c)'
  BY <1>1 DEF WantInv
<1> QED
  BY <1>1, <1>5, <1>6, AwayNext DEF Told

LEMMA ToldPushed ==
  ASSUME Types, Deep, People, Replaying, Types', Deep', NEW c \in Clips, Told(c),
         Pushed
  PROVE  Told(c)'
<1>1. /\ UNCHANGED <<known, bank, removed, living, dead, holds, done, ledger>>
      /\ pc = "pushed" /\ pc' = "push"
      /\ slug' = IF who \in known THEN [slug EXCEPT ![who] = who] ELSE slug
      /\ who \in known => slug[who] = 0
      /\ slug \in [Ids -> Id0] /\ known \subseteq Ids
  BY DEF Pushed, SetSlug, membroVars, Replaying, HandInv, Types, TypeOK, BankTypeOK
<1>2. Log' = Log /\ Undone' = Undone
  BY <1>1 DEF Log, Rows, Undone
<1>3. \A x \in known : slug[x] # 0 => slug'[x] = slug[x]
  BY <1>1
<1>4. Once(c)'
  BY <1>1 DEF Told, Placed, Once
<1>5. Stays(c)'
  BY <1>1, <1>2, <1>3, StaysSlugged DEF Told, Placed, Stays, Doomed
<1>6. Placed(c)'
  <2>1. \A x \in known : Keeps(x, c) => Keeps(x, c)'
    BY <1>1 DEF Keeps
  <2> QED
    BY <1>1, <1>2, <1>3, <1>4, <1>5, <2>1, HeldMore DEF Told
<1>7. WantInv(c)'
  BY <1>1 DEF WantInv
<1> QED
  BY <1>1, <1>6, <1>7, AwayNext DEF Told

LEMMA ToldBuild ==
  ASSUME Types, Deep, People, Replaying, Types', Deep', NEW c \in Clips, Told(c),
         NEW s \in Ids, Build(s)
  PROVE  Told(c)'
<1>0. /\ known \subseteq Ids /\ 0 \notin Ids /\ slug \in [Ids -> Id0]
      /\ \A p \in Unused : p \in Ids
      /\ \A x \in Ids \ known : bank[x] = {}
  BY NumTypes, UnusedIs DEF Types, TypeOK, BankTypeOK, People, HoldsInv
<1>1. /\ UNCHANGED <<bank, removed, living, dead, holds, done, ledger>>
      /\ pc = "build" /\ pc' \in {"build", "clips"}
      /\ \/ UNCHANGED <<known, slug, pc>>
         \/ \E p \in Ids : /\ known' = known \cup {p} /\ slug' = [slug EXCEPT ![p] = s]
                           /\ slug[p] = 0 /\ who' = p /\ want' = holds[s]
                           /\ pc' = "clips"
  <2> DEFINE P == IF Named(mname[s]) = {} THEN Unused ELSE {Find(mname[s])}
  <2>1. P \subseteq Ids
    BY <1>0, FindIs
  <2>2. /\ pc = "build" /\ UNCHANGED <<living, dead, holds, done>>
        /\ \/ /\ UNCHANGED bankVars
              /\ pc' = pc
           \/ \E p \in P : /\ slug[p] = 0 /\ Rebuild(p, mname[s], s)
                            /\ who' = p /\ want' = holds[s] /\ pc' = "clips"
    <3>1. pc = "build" /\ UNCHANGED <<living, dead, holds, done>>
      BY DEF Build, membroVars
    <3>2. CASE \E p \in P : slug[p] = 0
      <4>1. \A x, y \in P : x = y
        BY DEF Unused
      <4>2. \E p \in P : /\ Rebuild(p, mname[s], s) /\ who' = p
                         /\ want' = holds[s] /\ pc' = "clips"
        BY <3>2 DEF Build
      <4> HIDE DEF P
      <4> QED
        BY <3>1, <3>2, <4>1, <4>2
    <3>3. CASE ~\E p \in P : slug[p] = 0
      BY <3>1, <3>3 DEF Build
    <3> QED
      BY <3>1, <3>2, <3>3
  <2> HIDE DEF P
  <2>3. CASE UNCHANGED bankVars /\ pc' = pc
    BY <2>2, <2>3 DEF bankVars
  <2>4. ASSUME NEW p \in P, slug[p] = 0, Rebuild(p, mname[s], s),
               who' = p, want' = holds[s], pc' = "clips"
        PROVE  /\ UNCHANGED <<bank, removed, ledger>> /\ p \in Ids
               /\ known' = known \cup {p} /\ slug' = [slug EXCEPT ![p] = s]
    BY <2>1, <2>4 DEF Rebuild
  <2> QED
    BY <2>2, <2>3, <2>4
<1>2. Log' = Log /\ Undone' = Undone
  BY <1>1 DEF Log, Rows, Undone
<1>3. known \subseteq known' /\ \A x \in known : slug[x] # 0 => slug'[x] = slug[x]
  BY <1>0, <1>1
<1>4. Once(c)'
  BY <1>1 DEF Told, Placed, Once
<1>5. Stays(c)'
  <2> SUFFICES ASSUME NEW x \in known', c \in bank[x], c \in removed
               PROVE  Doomed(slug'[x]) \/ slug'[x] \in dead
    BY <1>1, <1>2 DEF Stays, Doomed
  <2>1. x \in known
    BY <1>0, <1>1
  <2> QED
    BY <1>3, <2>1, StaysSlugged DEF Told, Placed, Stays
<1>6. Placed(c)'
  <2>1. \A x \in known : Keeps(x, c) => Keeps(x, c)'
    BY <1>1, <1>3 DEF Keeps
  <2> QED
    BY <1>1, <1>2, <1>3, <1>4, <1>5, <2>1, HeldMore DEF Told
<1>7. WantInv(c)'
  BY <1>0, <1>1 DEF WantInv
<1> QED
  BY <1>1, <1>6, <1>7, AwayNext DEF Told

LEMMA ToldDiff ==
  ASSUME Types, Deep, People, Replaying, Types', Deep', NEW c \in Clips, Told(c),
         NEW p \in Ids, Diff(p)
  PROVE  Told(c)'
<1>1. UNCHANGED <<bankVars, living, dead, mname, holds>>
  BY IdleLog
<1>2. /\ done' = done /\ pending' = pending
      /\ pc = "people" /\ pc' \in {"people", "diff"}
      /\ pc' = "diff" => /\ who' = p /\ slug[p] \in living
                         /\ want' \subseteq holds[slug[p]] \ (bank[p] \cup pending)
  BY DEF Diff
<1>3. Placed(c)' /\ Log' = Log
  BY <1>1, <1>2, PlacedIdle DEF Told
<1>4. Shas' = Shas /\ Undone' = Undone /\ UNCHANGED <<known, slug, bank, dead>>
  BY <1>1, <1>2, <1>3 DEF bankVars, Shas, Undone
<1>5. ASSUME pc' = "diff", c \in want', p \in known
      PROVE  Doomed(slug[p])
  <2>1. c \in holds[slug[p]] /\ slug[p] \in living /\ c \notin bank[p] /\ c \notin Shas
    BY <1>2, <1>5 DEF Told, WantInv
  <2> QED
    BY <1>5, <2>1, HereToo DEF Told, Placed, Keeps
<1>6. WantInv(c)'
  BY <1>2, <1>4, <1>5 DEF Told, WantInv, Doomed
<1> QED
  BY <1>2, <1>3, <1>6, AwayNext DEF Told

LEMMA ToldUpload ==
  ASSUME Types, Deep, People, Replaying, Types', Deep', NEW c \in Clips, Told(c),
         NEW b \in Clips, Upload(b)
  PROVE  Told(c)'
<1>1. /\ UNCHANGED <<bankVars, living, dead, done, pending, pc, who, want, snap>>
      /\ UNCHANGED <<known, slug, bank, removed>> /\ pc = "diff"
      /\ holds \in [Ids -> SUBSET Clips] /\ living \subseteq Ids
      /\ living \cap dead = {} /\ who \in Ids /\ known \subseteq Ids
  BY DEF Upload, bankVars, Types, TypeOK, BankTypeOK
<1>2. Log' = Log /\ Undone' = Undone /\ Shas' = Shas
  BY <1>1 DEF bankVars, Log, Rows, Undone, Shas
<1>3. Chain(Log, c)' /\ Chain(Undone, c)' /\ Once(c)' /\ Stays(c)'
  BY <1>1, <1>2 DEF Told, Placed, Once, Stays, Doomed, Chain, Goes, Keeps, Fixes, AClip
<1>4. Held(c)'
  <2> SUFFICES ASSUME NEW t \in living, c \in holds'[t]
               PROVE  Doomed(t) \/ Covered(t, c)
    <3>1. \A t : Covered(t, c) => Covered(t, c)'
      BY <1>1, <1>2 DEF Covered, Keeps, Ahead, Goes, Fixes, AClip, Origin
    <3> QED
      BY <1>1, <1>2, <3>1 DEF Held, Doomed
  <2>1. CASE c \in holds[t]
    BY <2>1 DEF Told, Placed, Held
  <2>2. CASE c \notin holds[t]
    <3>1. c \in bank[who] /\ snap[who] = t
      BY <1>1, <2>2 DEF Upload
    <3>2. who \in known
      BY <1>1, <3>1 DEF People, HoldsInv
    <3>3. slug[who] = t
      BY <1>1, <3>1, <3>2 DEF Replaying, HandInv
    <3>4. CASE c \in removed
      BY <1>1, <3>1, <3>2, <3>3, <3>4 DEF Told, Placed, Stays
    <3>5. CASE c \notin removed
      BY <1>1, <3>1, <3>2, <3>3, <3>5 DEF Covered, Keeps
    <3> QED
      BY <3>4, <3>5
  <2> QED
    BY <2>1, <2>2
<1>5. WantInv(c)'
  BY <1>1, <1>2 DEF Told, WantInv, Doomed
<1> QED
  BY <1>1, <1>3, <1>4, <1>5, AwayNext DEF Told, Placed

(* A clip that comes back to somebody who is to be forgotten: nobody else  *)
(* has it.                                                                 *)
LEMMA DoomedForgets ==
  ASSUME Types, NEW s, Doomed(s)
  PROVE  s \in Forgets
BY DEF Doomed, Undone, Log, Rows, Forgets

LEMMA NotDoubled ==
  ASSUME Types, Deep, NEW p \in known, NEW c, c \notin Doubled(p),
         slug[p] \in Forgets \/ slug[p] \in dead
  PROVE  \A q \in Ids : c \in bank[q] => q = p
<1>1. slug[p] \in BeingForgotten
  BY DEF BeingForgotten, Deep, MarkInv
<1> QED
  BY <1>1 DEF Doubled

LEMMA HeldFetched ==
  ASSUME Types, Deep, People, NEW c \in Clips, Placed(c), NEW b \in Clips,
         UNCHANGED <<known, slug, removed, ledger, living, dead, done>>,
         NEW p \in Ids, bank' = bank \/ (p \in known /\ bank' = [bank EXCEPT ![p] = @ \cup {b}]),
         \A t \in living : c \in holds'[t] => c \in holds[t],
         b = c /\ bank' # bank =>
           /\ \A q \in Ids : c \in bank[q] => q = p
           /\ c \in removed => Doomed(slug[p]) \/ slug[p] \in dead
  PROVE  Placed(c)' /\ Log' = Log /\ Undone' = Undone
<1>0. known \subseteq Ids /\ bank \in [Ids -> SUBSET Clips]
  BY DEF Types, TypeOK, BankTypeOK
<1>1. Log' = Log /\ Undone' = Undone
  BY DEF Log, Rows, Undone
<1>2. \A q \in Ids : /\ c \in bank[q] => c \in bank'[q]
                     /\ c \in bank'[q] => c \in bank[q] \/ (q = p /\ b = c /\ bank' # bank)
  BY <1>0
<1>3. Once(c)'
  BY <1>2 DEF Placed, Once
<1>4. Stays(c)'
  BY <1>0, <1>1, <1>2 DEF Placed, Stays, Doomed
<1>5. \A x \in known : Keeps(x, c) => Keeps(x, c)'
  BY <1>0, <1>2 DEF Keeps
<1> QED
  BY <1>1, <1>3, <1>4, <1>5, HeldMore

LEMMA ToldPull ==
  ASSUME Types, Deep, People, Replaying, Types', Deep', NEW c \in Clips, Told(c),
         c \notin crossed', NEW b \in Clips, PullClip(b)
  PROVE  Told(c)'
<1>1. /\ UNCHANGED <<known, slug, removed, ledger, living, dead, holds, done, pc, who>>
      /\ bank' = IF who \in known THEN [bank EXCEPT ![who] = @ \cup {b}] ELSE bank
      /\ pc = "clips" /\ b \in want /\ want' \subseteq want /\ who \in Ids
      /\ b = c => c \notin Shas /\ c \notin Doubled(who)
  BY DEF PullClip, AddClip, membroVars, Types
<1>3. ASSUME b = c, who \in known, NEW q \in Ids, c \in bank[q]
      PROVE  q = who
  <2>1. CASE slug[who] \in Forgets \/ slug[who] \in dead
    BY <1>1, <1>3, <2>1, NotDoubled
  <2>2. CASE ~(slug[who] \in Forgets \/ slug[who] \in dead)
    <3>1. slug[who] \in living /\ c \in holds[slug[who]]
      BY <1>1, <1>3, <2>2 DEF Told, WantInv, People, HoldsInv, Types, TypeOK, BankTypeOK, Id0
    <3>2. ~Doomed(slug[who])
      BY <2>2, DoomedForgets
    <3>3. Keeps(who, c)
      BY <1>1, <1>3, <3>1, <3>2, HereToo DEF Told, Placed
    <3> QED
      BY <1>1, <1>3, <3>3 DEF Told, Placed, Once, Keeps
  <2> QED
    BY <2>1, <2>2
<1>4. ASSUME b = c, who \in known, c \in removed
      PROVE  Doomed(slug[who]) \/ slug[who] \in dead
  <2> SUFFICES ASSUME slug[who] \notin dead
               PROVE  Doomed(slug[who])
    OBVIOUS
  <2>1. slug[who] \in living /\ c \in holds[slug[who]]
    BY <1>1, <1>4 DEF Told, WantInv, People, HoldsInv, Types, TypeOK, BankTypeOK, Id0
  <2> QED
    BY <1>1, <1>4, <2>1, HereToo DEF Told, Placed, Keeps
<1>5. Placed(c)' /\ Log' = Log /\ Undone' = Undone
  BY <1>1, <1>3, <1>4, HeldFetched DEF Told
<1>6. WantInv(c)'
  BY <1>1 DEF Told, WantInv
<1> QED
  BY <1>1, <1>5, <1>6, AwayNext DEF Told

LEMMA ToldRestore ==
  ASSUME Types, Deep, People, Replaying, Types', Deep', NEW c \in Clips, Told(c),
         c \notin crossed', NEW b \in Clips, Restore(b)
  PROVE  Told(c)'
<1>1. /\ UNCHANGED <<known, slug, removed, ledger, living, dead, holds, done, pc, who>>
      /\ pending' = pending /\ pc = "diff" /\ b \in want /\ want' \subseteq want
      /\ who \in Ids
      /\ bank' = bank \/ (who \in known /\ bank' = [bank EXCEPT ![who] = @ \cup {b}])
      /\ b = c => c \notin Doubled(who)
  BY DEF Restore, AddClip, membroVars, Types, bankVars
<1>2. b = c /\ who \in known => Doomed(slug[who]) \/ slug[who] \in dead
  BY <1>1 DEF Told, WantInv
<1>3. ASSUME b = c, who \in known
      PROVE  \A q \in Ids : c \in bank[q] => q = who
  BY <1>1, <1>2, <1>3, NotDoubled, DoomedForgets
<1>4. Placed(c)' /\ Log' = Log /\ Undone' = Undone
  BY <1>1, <1>2, <1>3, HeldFetched DEF Told
<1>5. Shas' = Shas
  BY <1>1 DEF Shas
<1>6. WantInv(c)'
  BY <1>1, <1>4, <1>5 DEF Told, WantInv, Doomed
<1> QED
  BY <1>1, <1>4, <1>6, AwayNext DEF Told

LEMMA ToldMark ==
  ASSUME Types, Deep, People, Replaying, Types', Deep', NEW c \in Clips, Told(c),
         NEW s \in Ids, MembroForgets(s)
  PROVE  Told(c)'
<1>1. /\ UNCHANGED <<bankVars, known, slug, bank, removed, ledger>>
      /\ UNCHANGED <<pc, snap, who, want, rows, done, pending>>
      /\ living' = living \ {s} /\ dead' = dead \cup {s}
      /\ holds' = [holds EXCEPT ![s] = {}] /\ holds \in [Ids -> SUBSET Clips]
  BY DEF MembroForgets, bankVars, Types, TypeOK
<1>2. Log' = Log /\ Undone' = Undone /\ Left' = Left /\ Shas' = Shas
  BY <1>1 DEF Log, Left, Rows, Undone, Shas
<1>3. \A t \in Ids : t # s => holds'[t] = holds[t]
  BY <1>1
<1>4. holds'[s] = {}
  BY <1>1
<1>5. Once(c)' /\ Stays(c)'
  BY <1>1, <1>2 DEF Told, Placed, Once, Stays, Doomed
<1>6. Placed(c)'
  <2>1. \A x \in known : Keeps(x, c) => Keeps(x, c)'
    BY <1>1 DEF Keeps
  <2>2. \A t \in living' : c \in holds'[t] => t \in living /\ c \in holds[t]
    BY <1>1, <1>3, <1>4 DEF Types, TypeOK
  <2> QED
    BY <1>1, <1>2, <1>5, <2>1, <2>2, HeldMore DEF Told
<1>7. \A l, t : Ahead(l, t, c) => Ahead(l, t, c)'
  BY <1>1, <1>2 DEF Ahead, Fixes, AClip, Origin
<1>8. \A k, t : Earlier(k, t, c) => Earlier(k, t, c)'
  BY <1>2, <1>7 DEF Earlier
<1>9. \A l, r : ReadAs(l, r) => ReadAs(l, r)'
  BY <1>1 DEF ReadAs, Origin, Source, SlugOf
<1>10. \A l \in Log : l.kind = "merge" /\ c \in holds'[l.slug] => c \in holds[l.slug]
  <2>1. \A l \in Log : l.kind = "merge" => l.slug \in Ids
    BY LogIs DEF LogOK, OfAPerson
  <2> QED
    BY <1>3, <1>4, <2>1
<1>11. ReadInv(c)'
  BY <1>1, <1>2, <1>8, <1>9, <1>10 DEF Told, ReadInv, Fixes, AClip, Source, SlugOf
<1>13. WantInv(c)'
  <2>1. pc = "clips" /\ c \in want /\ who \in known =>
          \/ slug[who] # 0 /\ slug[who] \in Ids /\ c \in holds[slug[who]]
          \/ slug[who] \in dead
    BY DEF Told, WantInv, Types, TypeOK, BankTypeOK, Id0
  <2> QED
    BY <1>1, <1>2, <1>3, <2>1 DEF Told, WantInv, Doomed
<1> QED
  BY <1>6, <1>11, <1>13 DEF Told

(* What the owner does that leaves the clip alone, or gives it to somebody *)
(* when nobody has it.                                                     *)
LEMMA ToldMore ==
  ASSUME Types, Deep, People, Replaying, OwnerActs, NEW c \in Clips, Told(c),
         Log \subseteq Log', known \subseteq known', slug' = slug,
         \A x \in Log' \ Log : x.sha # c /\ x.cid = acts /\ ~OfAPerson(x),
         \A x \in known : Keeps(x, c) => Keeps(x, c)',
         Once(c)',
         \A x \in known' : c \in bank'[x] /\ c \in removed' =>
            x \in known /\ c \in bank[x] /\ c \in removed
  PROVE  Told(c)'
<1>1. /\ UNCHANGED <<living, dead, mname, holds, pc, passVars>> /\ Left' = Left
      /\ \A x \in known' : x \in known \/ x \notin used
  BY OwnerLeaves
<1>2. UNCHANGED <<snap, who, want, rows, done, pending>>
  BY <1>1 DEF passVars
<1>3. LogOK
  BY LogIs
<1>4. Undone \subseteq Undone' /\ \A x \in Undone' \ Undone : x \in Log' \ Log
  BY <1>2 DEF Undone
<1>5. \A l \in Log' : Fixes(l, c) \/ OfAPerson(l) => l \in Log
  BY DEF Fixes
<1>6. ASSUME NEW S, NEW k, NEW x, Goes(S, k, x, c), NEW T, S \subseteq T
      PROVE  Goes(T, k, x, c)'
  BY <1>6 DEF Goes, Fixes, AClip, Keeps
<1>7. Chain(Log, c)'
  <2>1. ASSUME NEW l \in Log', l.kind = "move", l.sha = c
        PROVE  Goes(Log, l.cid, l.to, c)
    BY <1>5, <2>1 DEF Told, Placed, Chain, Fixes, AClip
  <2> QED
    BY <1>6, <2>1 DEF Chain
<1>8. Chain(Undone, c)'
  <2>1. ASSUME NEW l \in Undone', l.kind = "move", l.sha = c
        PROVE  Goes(Undone, l.cid, l.to, c)
    BY <1>4, <1>5, <2>1 DEF Told, Placed, Chain, Fixes, AClip
  <2> QED
    BY <1>4, <1>6, <2>1 DEF Chain
<1>9. \A l, t : Ahead(l, t, c) => Ahead(l, t, c)'
  BY <1>5 DEF Ahead, Fixes, AClip, Origin, OfAPerson
<1>10. \A t : Doomed(t) => Doomed(t)'
  BY <1>4 DEF Doomed
<1>11. Held(c)'
  <2> SUFFICES ASSUME NEW t \in living, c \in holds[t]
               PROVE  Doomed(t)' \/ Covered(t, c)'
    BY <1>1 DEF Held
  <2>1. Doomed(t) \/ Covered(t, c)
    BY DEF Told, Placed, Held
  <2>2. Covered(t, c) => Covered(t, c)'
    <3>1. \A x \in Ids : Keeps(x, c) /\ slug[x] = t => Keeps(x, c)' /\ slug'[x] = t
      BY DEF Keeps
    <3>2. \A m \in Undone : Goes(Undone, m.cid, m.to, c) => Goes(Undone, m.cid, m.to, c)'
      BY <1>4, <1>6
    <3> QED
      BY <1>4, <1>9, <3>1, <3>2 DEF Covered
  <2> QED
    BY <1>10, <2>1, <2>2
<1>12. Stays(c)'
  BY <1>1, <1>10 DEF Told, Placed, Stays
<1>13. \A k, t : Earlier(k, t, c) => Earlier(k, t, c)'
  BY <1>4, <1>9 DEF Earlier
<1>14. \A l, r : ReadAs(l, r) => ReadAs(l, r)'
  BY <1>2 DEF ReadAs, Origin, Source, SlugOf
<1>15. \A r \in Left : r.cid # acts
  BY <1>3 DEF LogOK
<1>16. ReadInv(c)'
  <2>1. \A l \in Log', r \in Left : l.cid = r.cid => l \in Log
    BY <1>15
  <2> QED
    BY <1>1, <1>2, <1>13, <1>14, <2>1 DEF Told, ReadInv, Fixes, AClip, Source, SlugOf
<1>18. c \in Shas' => c \in Shas
  <2> SUFFICES ASSUME c \in Shas' PROVE c \in Shas
    OBVIOUS
  <2>1. PICK l \in Log' : l.sha = c
    BY DEF Shas, Log, Rows
  <2>2. l \in Log /\ c # NoClip
    BY <2>1, TypesLedger
  <2> QED
    BY <2>1, <2>2 DEF Shas, Log, Rows
<1>19. WantInv(c)'
  <2>1. pc \in {"clips", "diff"} => who \in used
    BY DEF Replaying, HandInv
  <2> QED
    BY <1>1, <1>2, <1>10, <1>18, <2>1 DEF Told, WantInv
<1> QED
  BY <1>7, <1>8, <1>11, <1>12, <1>16, <1>19 DEF Told, Placed, Once

(* The owner deletes the clip, or moves it: a row of it is added.          *)
LEMMA ToldTaken ==
  ASSUME Types, Deep, People, Replaying, Types', Deep', OwnerActs,
         NEW c \in Clips, Told(c), c \notin crossed',
         NEW p \in known, c \in bank[p], c \notin bank'[p],
         UNCHANGED <<known, slug>>,
         NEW x \in Correction, Log' = Log \cup {x}, x.cid = acts,
         Fixes(x, c), x.from = p, x.slug = 0,
         x.kind = "move" => Keeps(x.to, c)',
         \A q \in Ids : q # p /\ c \in bank'[q] =>
            c \in bank[q] \/ (q = x.to /\ c \notin removed')
  PROVE  Told(c)'
<1>1. /\ UNCHANGED <<living, dead, mname, holds, pc, passVars>> /\ Left' = Left
  BY OwnerLeaves
<1>2. UNCHANGED <<snap, who, want, rows, done, pending>>
  BY <1>1 DEF passVars
<1>3. LogOK /\ known \subseteq Ids /\ 0 \notin Ids
  BY LogIs, NumTypes DEF Types, TypeOK, BankTypeOK
<1>4. pc \notin {"replay", "settle", "people", "diff"}
  <2>1. c \notin Touched
    BY DEF OwnerActs
  <2> QED
    BY <1>3, <2>1 DEF Touched
<1>5. Undone = Log /\ Undone' = Log'
  BY <1>1, <1>4, AwayNow, AwayNext
<1>6. \A q \in Ids : c \in bank[q] => q = p
  BY <1>3 DEF Told, Placed, Once
<1>7. ASSUME NEW k \in Nat, k < acts, NEW q, Goes(Log, k, q, c)
      PROVE  Goes(Log, k, q, c)'
  <2>1. CASE Keeps(q, c)
    <3>1. q = p
      BY <1>3, <1>6, <2>1 DEF Keeps
    <3> QED
      BY <1>7, <3>1 DEF Goes, Fixes, AClip
  <2>2. CASE ~Keeps(q, c)
    BY <1>7, <2>2 DEF Goes, Fixes, AClip
  <2> QED
    BY <2>1, <2>2
<1>8. Chain(Log, c)'
  <2> SUFFICES ASSUME NEW l \in Log', l.kind = "move", l.sha = c
               PROVE  Goes(Log, l.cid, l.to, c)'
    BY DEF Chain
  <2>1. CASE l = x
    BY <2>1 DEF Goes
  <2>2. CASE l \in Log
    <3>1. l.cid \in Nat /\ l.cid < acts /\ Goes(Log, l.cid, l.to, c)
      BY <1>3, <2>2 DEF LogOK, Told, Placed, Chain
    <3> QED
      BY <1>7, <3>1
  <2> QED
    BY <2>1, <2>2
<1>9. \A m \in Log' : OfAPerson(m) => m \in Log
  BY DEF OfAPerson, Fixes, AClip
<1>10. \A l, t : Ahead(l, t, c) => Ahead(l, t, c)'
  BY <1>9 DEF Ahead, Fixes, AClip, Origin, OfAPerson
<1>11. \A t : Doomed(t) => Doomed(t)'
  BY <1>5 DEF Doomed
<1>12. Held(c)'
  <2> SUFFICES ASSUME NEW t \in living, c \in holds[t]
               PROVE  Doomed(t)' \/ Covered(t, c)'
    BY <1>1 DEF Held
  <2>1. Doomed(t) \/ Covered(t, c)
    BY DEF Told, Placed, Held
  <2>2. ASSUME NEW q \in Ids, Keeps(q, c), slug[q] = t
        PROVE  Covered(t, c)'
    <3>1. q = p
      BY <1>6, <2>2 DEF Keeps
    <3>2. Ahead(x, t, c)'
      BY <2>2, <3>1 DEF Ahead, Fixes, AClip, Origin
    <3> QED
      BY <1>5, <3>2 DEF Covered
  <2>3. ASSUME NEW l \in Undone, Ahead(l, t, c)
        PROVE  Covered(t, c)'
    BY <1>5, <1>10, <2>3 DEF Covered
  <2>4. ASSUME NEW m \in Undone, m.kind = "merge", m.slug = t, Goes(Undone, m.cid, m.to, c)
        PROVE  Covered(t, c)'
    <3>1. m \in Log /\ m.cid \in Nat /\ m.cid < acts
      BY <1>3, <1>5 DEF LogOK
    <3>2. Goes(Undone, m.cid, m.to, c)'
      BY <1>5, <1>7, <2>4, <3>1
    <3> QED
      BY <1>5, <2>4, <3>1, <3>2 DEF Covered
  <2> QED
    BY <1>11, <2>1, <2>2, <2>3, <2>4 DEF Covered
<1>13. Once(c)' /\ Stays(c)'
  <2>1. \A q \in Ids : c \in bank'[q] => q = x.to /\ c \notin removed'
    BY <1>6
  <2> QED
    BY <1>3, <2>1 DEF Once, Stays
<1>14. WantInv(c)'
  BY <1>1, <1>2, <1>4 DEF Told, WantInv
<1> QED
  BY <1>1, <1>4, <1>5, <1>8, <1>12, <1>13, <1>14, AwayNext DEF Told, Placed

LEMMA ToldIntroduce ==
  ASSUME Types, Deep, People, Replaying, OwnerActs, NEW c \in Clips, Told(c),
         NEW n \in Names, Introduce(n)
  PROVE  Told(c)'
<1>1. /\ Log' = Log /\ UNCHANGED <<slug, bank, removed>>
      /\ \E p \in Ids : p \notin used /\ known' = known \cup {p}
  BY UnusedIs DEF Introduce, Log, Rows
<1>2. known \subseteq used /\ \A x \in Ids \ known : bank[x] = {}
  BY DEF Types, TypeOK, BankTypeOK, People, HoldsInv
<1>3. Once(c)'
  BY <1>1 DEF Told, Placed, Once
<1>4. \A x \in known : Keeps(x, c) => Keeps(x, c)'
  BY <1>1 DEF Keeps
<1>5. \A x \in known' : c \in bank'[x] => x \in known
  BY <1>1, <1>2
<1> QED
  BY <1>1, <1>3, <1>4, <1>5, ToldMore

LEMMA ToldLearn ==
  ASSUME Types, Deep, People, Replaying, OwnerActs, NEW c \in Clips, Told(c),
         NEW p \in Ids, NEW b \in Clips, Learn(p, b)
  PROVE  Told(c)'
<1>1. /\ Log' = Log /\ UNCHANGED <<known, slug, removed>>
      /\ bank' = [bank EXCEPT ![p] = @ \cup {b}] /\ bank \in [Ids -> SUBSET Clips]
      /\ known \subseteq Ids
      /\ b \notin removed /\ \A q \in Ids : b \notin bank[q]
  BY DEF Learn, Log, Rows, Types, TypeOK, BankTypeOK
<1>2. \A q \in Ids : /\ c \in bank[q] => c \in bank'[q]
                     /\ c \in bank'[q] => c \in bank[q] \/ (c = b /\ q = p)
  BY <1>1
<1>3. Once(c)'
  BY <1>1, <1>2 DEF Told, Placed, Once
<1>4. \A x \in known : Keeps(x, c) => Keeps(x, c)'
  BY <1>1, <1>2 DEF Keeps
<1>5. \A x \in known' : c \in bank'[x] /\ c \in removed' =>
        x \in known /\ c \in bank[x] /\ c \in removed
  BY <1>1, <1>2
<1> QED
  BY <1>1, <1>3, <1>4, <1>5, ToldMore

LEMMA ToldDelete ==
  ASSUME Types, Deep, People, Replaying, Types', Deep', OwnerActs,
         NEW c \in Clips, Told(c), c \notin crossed',
         NEW p \in Ids, NEW b \in Clips, DeleteClip(p, b)
  PROVE  Told(c)'
<1> DEFINE x == DeleteOf(p, b)
<1>0. x \in Correction /\ RowOK(x)
  BY RowsOf
<1>1. /\ x.kind = "delete" /\ x.from = p /\ x.to = 0 /\ x.sha = b
      /\ x.slug = 0 /\ x.cid = acts
  BY DEF DeleteOf
<1>2. Log' = Log \cup {x}
  BY <1>0, AddedLog DEF DeleteClip
<1> HIDE DEF x
<1>3. /\ UNCHANGED <<known, slug>> /\ removed' = removed \cup {b}
      /\ bank' = [bank EXCEPT ![p] = @ \ {b}] /\ bank \in [Ids -> SUBSET Clips]
      /\ known \subseteq Ids /\ p \in known /\ b \in bank[p]
  BY DEF DeleteClip, Types, TypeOK, BankTypeOK
<1>4. \A q \in Ids : c \in bank'[q] <=> c \in bank[q] /\ (q # p \/ c # b)
  BY <1>3
<1>5. CASE c = b
  <2>1. c \notin bank'[p]
    BY <1>4, <1>5
  <2>2. Fixes(x, c) /\ x.kind # "move"
    BY <1>1, <1>5 DEF Fixes, AClip
  <2> QED
    BY <1>0, <1>1, <1>2, <1>3, <1>4, <1>5, <2>1, <2>2, ToldTaken
<1>6. CASE c # b
  <2>1. Once(c)'
    BY <1>4 DEF Told, Placed, Once
  <2>2. \A q \in known : Keeps(q, c) => Keeps(q, c)'
    BY <1>3, <1>4, <1>6 DEF Keeps
  <2>3. \A q \in known' : c \in bank'[q] /\ c \in removed' =>
          q \in known /\ c \in bank[q] /\ c \in removed
    BY <1>3, <1>4, <1>6
  <2>4. \A y \in Log' \ Log : y.sha # c /\ y.cid = acts /\ ~OfAPerson(y)
    BY <1>1, <1>2, <1>6 DEF OfAPerson
  <2> QED
    BY <1>2, <1>3, <2>1, <2>2, <2>3, <2>4, ToldMore
<1> QED
  BY <1>5, <1>6

LEMMA ToldMove ==
  ASSUME Types, Deep, People, Replaying, Types', Deep', OwnerActs,
         NEW c \in Clips, Told(c), c \notin crossed',
         NEW p \in Ids, NEW q \in Ids, NEW b \in Clips, MoveClip(p, q, b)
  PROVE  Told(c)'
<1> DEFINE x == MoveOf(p, q, b)
<1>0. x \in Correction /\ RowOK(x)
  BY RowsOf
<1>1. /\ x.kind = "move" /\ x.from = p /\ x.to = q /\ x.sha = b
      /\ x.slug = 0 /\ x.cid = acts
  BY DEF MoveOf
<1>2. Log' = Log \cup {x}
  BY <1>0, AddedLog DEF MoveClip
<1> HIDE DEF x
<1>3. /\ UNCHANGED <<known, slug>> /\ removed' = removed \ {b}
      /\ bank' = [bank EXCEPT ![p] = @ \ {b}, ![q] = @ \cup {b}]
      /\ bank \in [Ids -> SUBSET Clips]
      /\ known \subseteq Ids /\ p \in known /\ q \in known /\ b \in bank[p] /\ p # q
  BY DEF MoveClip, Types, TypeOK, BankTypeOK
<1>4. \A z \in Ids : /\ c # b => (c \in bank'[z] <=> c \in bank[z])
                     /\ c = b => (c \in bank'[z] <=> (c \in bank[z] /\ z # p) \/ z = q)
  BY <1>3
<1>5. CASE c = b
  <2>1. c \notin bank'[p]
    BY <1>3, <1>4, <1>5
  <2>2. Fixes(x, c) /\ Keeps(q, c)'
    BY <1>1, <1>3, <1>4, <1>5 DEF Fixes, AClip, Keeps
  <2>3. \A z \in Ids : z # p /\ c \in bank'[z] =>
          c \in bank[z] \/ (z = x.to /\ c \notin removed')
    BY <1>1, <1>3, <1>4, <1>5
  <2> QED
    BY <1>0, <1>1, <1>2, <1>3, <1>5, <2>1, <2>2, <2>3, ToldTaken
<1>6. CASE c # b
  <2>1. Once(c)'
    BY <1>4, <1>6 DEF Told, Placed, Once
  <2>2. \A z \in known : Keeps(z, c) => Keeps(z, c)'
    BY <1>3, <1>4, <1>6 DEF Keeps
  <2>3. \A z \in known' : c \in bank'[z] /\ c \in removed' =>
          z \in known /\ c \in bank[z] /\ c \in removed
    BY <1>3, <1>4, <1>6
  <2>4. \A y \in Log' \ Log : y.sha # c /\ y.cid = acts /\ ~OfAPerson(y)
    BY <1>1, <1>2, <1>6 DEF OfAPerson
  <2> QED
    BY <1>2, <1>3, <2>1, <2>2, <2>3, <2>4, ToldMore
<1> QED
  BY <1>5, <1>6

(* Somebody is forgotten, by the owner or after membro: their rows name    *)
(* them by slug, and merges into them become forgets.                      *)
LEMMA ToldForgotten ==
  ASSUME Types, Deep, People, Replaying, NEW c \in Clips, Told(c),
         NEW p \in known, known' = known \ {p},
         slug' = [slug EXCEPT ![p] = 0], bank' = [bank EXCEPT ![p] = {}],
         NEW new, ForgetLog(p, slug[p], new),
         \A x \in new : /\ x.kind = "forget" /\ x.slug = slug[p]
                        /\ x.sha = NoClip /\ x.cid = acts,
         removed \subseteq removed', removed' \subseteq removed \cup bank[p],
         UNCHANGED <<living, dead, holds, pc, snap, who, want, rows, done, pending>>,
         slug[p] \in living => new # {},
         pc = "replay" => \A l \in Log : ~(l.kind = "move" /\ l.to = p /\ l.sha = c)
  PROVE  Told(c)'
<1> DEFINE s == slug[p]
<1>0. /\ LogOK /\ known \subseteq used /\ used \subseteq Ids /\ 0 \notin Ids /\ p \in Ids
      /\ slug \in [Ids -> Id0] /\ bank \in [Ids -> SUBSET Clips] /\ NoClip \notin Clips
      /\ 0 \notin living
  BY LogIs, NumTypes, TypesLedger DEF Types, TypeOK, BankTypeOK
<1>1. /\ \A x \in known' : x # p /\ x \in known
      /\ \A x \in Ids : x # p => slug'[x] = slug[x] /\ bank'[x] = bank[x]
      /\ slug'[p] = 0 /\ bank'[p] = {}
      /\ \A x \in known : x # p => x \in known'
  BY <1>0
<1>2. /\ \A t \in Log' : t \in new \/ \E l \in Log : Forgotten(l, t, p, s)
      /\ \A l \in Log : (Leaves(l, p) /\ s = 0) \/ \E t \in Log' : Forgotten(l, t, p, s)
      /\ new \subseteq Log'
  BY DEF ForgetLog
<1>3. \A x \in new : /\ x.kind = "forget" /\ x.slug = s /\ x.cid = acts
                     /\ ~Fixes(x, c) /\ x.sha # c
  BY <1>0 DEF Fixes
<1> HIDE DEF s
<1>4. \A x \in Ids : c \in bank[x] /\ c \in bank[p] => x = p
  BY <1>0 DEF Told, Placed, Once
<1>5. \A x : Keeps(x, c) /\ x # p => Keeps(x, c)'
  BY <1>0, <1>1, <1>4 DEF Keeps
<1>6. \A l \in Log : /\ AClip(l) /\ l.slug = 0 => l.from \in known /\ l.from # l.to
                     /\ AClip(l) /\ l.slug # 0 => l.from \notin known
  BY DEF People, RowInv
<1>7. ASSUME NEW l \in Log, NEW t, Forgotten(l, t, p, s)
      PROVE  /\ t.cid = l.cid /\ t.sha = l.sha /\ t.from = l.from
             /\ Fixes(t, c) <=> Fixes(l, c)
             /\ t.kind = "move" => l.kind = "move" /\ l.to # p /\ t.to = l.to
             /\ t.kind = "merge" => t = l /\ l.to # p
             /\ l.from # p => t.slug = l.slug
             /\ l.kind = "merge" /\ l.to = p => t.kind = "forget" /\ t.slug = l.slug
             /\ OfAPerson(l) /\ ~(l.kind = "merge" /\ l.to = p) => t = l
             /\ t.kind = "forget" /\ l.kind # "merge" => t = l
  BY <1>7 DEF Forgotten, Fixes, AClip, Leaves, OfAPerson
<1>8. Undone' = {t \in Log' : t.cid \notin done}
  BY DEF Undone
<1>9. ASSUME NEW l \in Log, l.from # p \/ ~AClip(l)
      PROVE  \E t \in Log' : Forgotten(l, t, p, s)
  BY <1>2, <1>9 DEF Leaves
<1>10. ASSUME NEW k, NEW q, q # p
       PROVE  /\ Goes(Log, k, q, c) => Goes(Log, k, q, c)'
              /\ Goes(Undone, k, q, c) => Goes(Undone, k, q, c)'
  <2>1. ASSUME NEW l \in Log, l.cid > k, Fixes(l, c), l.from = q, l.slug = 0
        PROVE  \E t \in Log' : /\ t.cid = l.cid /\ t.cid > k /\ Fixes(t, c)
                               /\ t.from = q /\ t.slug = 0
    <3>1. PICK t \in Log' : Forgotten(l, t, p, s)
      BY <1>9, <1>10, <2>1
    <3> QED
      BY <1>7, <1>10, <2>1, <3>1
  <2>2. Goes(Log, k, q, c) => Goes(Log, k, q, c)'
    BY <1>5, <1>10, <2>1 DEF Goes, Fixes, AClip
  <2>3. Goes(Undone, k, q, c) => Goes(Undone, k, q, c)'
    <3>1. \A l \in Undone : l \in Log /\ l.cid \notin done
      BY DEF Undone
    <3> QED
      BY <1>5, <1>8, <1>10, <2>1, <3>1 DEF Goes, Fixes, AClip
  <2> QED
    BY <2>2, <2>3
<1>11. ASSUME NEW t \in Log', t.kind = "move", t.sha = c
       PROVE  \E l \in Log : /\ l.kind = "move" /\ l.sha = c /\ l.cid = t.cid
                             /\ l.to = t.to /\ l.to # p
  BY <1>2, <1>3, <1>7, <1>11
<1>12. Chain(Log, c)' /\ Chain(Undone, c)'
  <2>1. Chain(Log, c)'
    BY <1>10, <1>11 DEF Told, Placed, Chain
  <2>2. ASSUME NEW t \in Undone', t.kind = "move", t.sha = c
        PROVE  Goes(Undone, t.cid, t.to, c)'
    <3>1. PICK l \in Log : /\ l.kind = "move" /\ l.sha = c /\ l.cid = t.cid
                           /\ l.to = t.to /\ l.to # p
      BY <1>8, <1>11, <2>2
    <3>2. l \in Undone
      BY <1>8, <3>1 DEF Undone
    <3> QED
      BY <1>10, <3>1, <3>2 DEF Told, Placed, Chain
  <2> QED
    BY <2>1, <2>2 DEF Chain
<1>13. \A t : Doomed(t) => Doomed(t)'
  <2> SUFFICES ASSUME NEW t, NEW f \in Undone, f.kind = "forget", f.slug = t
               PROVE  f \in Undone'
    BY DEF Doomed
  <2>1. f \in Log /\ ~AClip(f)
    BY DEF Undone, AClip
  <2>2. PICK g \in Log' : Forgotten(f, g, p, s)
    BY <1>9, <2>1
  <2> QED
    BY <1>7, <1>8, <2>1, <2>2 DEF OfAPerson, Undone
<1>14. ASSUME NEW l \in Log, NEW t, t # s, t # 0, Ahead(l, t, c)
       PROVE  \E j \in Log' : j.cid = l.cid /\ Ahead(j, t, c)'
  <2>1. Fixes(l, c) /\ AClip(l)
    BY <1>14 DEF Ahead, Fixes
  <2>2. l.from # p
    BY <1>0, <1>6, <1>14, <2>1 DEF Ahead, Origin, s
  <2>3. PICK j \in Log' : Forgotten(l, j, p, s)
    BY <1>9, <2>2
  <2>4. j.cid = l.cid /\ Fixes(j, c) /\ j.from = l.from /\ j.slug = l.slug
    BY <1>7, <2>1, <2>2, <2>3
  <2>5. Origin(j)' = t
    BY <1>0, <1>1, <1>6, <1>14, <2>1, <2>2, <2>4 DEF Ahead, Origin
  <2>6. \A m \in Log' : m.kind = "merge" => m \in Log
    BY <1>2, <1>3, <1>7
  <2>7. Ahead(j, t, c)'
    BY <1>14, <2>4, <2>5, <2>6 DEF Ahead, Fixes, AClip
  <2> QED
    BY <2>4, <2>7
<1>15. Held(c)'
  <2> SUFFICES ASSUME NEW t \in living, c \in holds[t]
               PROVE  Doomed(t)' \/ Covered(t, c)'
    BY DEF Held
  <2>0. t # 0
    BY <1>0
  <2>1. CASE t = s
    <3>1. PICK f \in new : TRUE
      BY <2>1 DEF s
    <3>2. f \in Undone'
      BY <1>0, <1>2, <1>3, <1>8, <3>1 DEF LogOK
    <3> QED
      BY <1>3, <2>1, <3>2 DEF Doomed
  <2>2. CASE t # s
    <3>1. ASSUME NEW x \in Ids, Keeps(x, c), slug[x] = t
          PROVE  Covered(t, c)'
      <4>1. x # p
        BY <2>2, <3>1 DEF s
      <4> QED
        BY <1>1, <1>5, <3>1, <4>1 DEF Covered
    <3>2. ASSUME NEW l \in Undone, Ahead(l, t, c)
          PROVE  Covered(t, c)'
      <4>1. l \in Log /\ l.cid \notin done
        BY DEF Undone
      <4>2. PICK j \in Log' : j.cid = l.cid /\ Ahead(j, t, c)'
        BY <1>14, <2>0, <2>2, <3>2, <4>1
      <4> QED
        BY <1>8, <4>1, <4>2 DEF Covered
    <3>3. ASSUME NEW m \in Undone, m.kind = "merge", m.slug = t,
                 Goes(Undone, m.cid, m.to, c)
          PROVE  Doomed(t)' \/ Covered(t, c)'
      <4>1. m \in Log /\ m.cid \notin done /\ ~AClip(m) /\ OfAPerson(m)
        BY <3>3 DEF Undone, AClip, OfAPerson
      <4>2. PICK j \in Log' : Forgotten(m, j, p, s)
        BY <1>9, <4>1
      <4>3. j \in Undone'
        BY <1>7, <1>8, <4>1, <4>2
      <4>4. CASE m.to = p
        BY <1>7, <3>3, <4>1, <4>2, <4>3, <4>4 DEF Doomed
      <4>5. CASE m.to # p
        <5>1. j = m
          BY <1>7, <3>3, <4>1, <4>2, <4>5
        <5>2. Goes(Undone, m.cid, m.to, c)'
          BY <1>10, <3>3, <4>5
        <5> QED
          BY <3>3, <4>3, <5>1, <5>2 DEF Covered
      <4> QED
        BY <4>4, <4>5
    <3> QED
      BY <1>13, <3>1, <3>2, <3>3 DEF Told, Placed, Held, Covered
  <2> QED
    BY <2>1, <2>2
<1>16. Once(c)'
  BY <1>1 DEF Told, Placed, Once
<1>17. Stays(c)'
  BY <1>0, <1>1, <1>4, <1>13 DEF Told, Placed, Stays
<1>18. ASSUME NEW t, t # s, t # 0, NEW k, Earlier(k, t, c)
       PROVE  Earlier(k, t, c)'
  <2>1. PICK j \in Undone : j.cid < k /\ (Ahead(j, t, c) \/ (j.kind = "forget" /\ j.slug = t))
    BY <1>18 DEF Earlier
  <2>2. j \in Log /\ j.cid \notin done
    BY DEF Undone
  <2>3. CASE Ahead(j, t, c)
    BY <1>8, <1>14, <1>18, <2>1, <2>2, <2>3 DEF Earlier
  <2>4. CASE j.kind = "forget" /\ j.slug = t
    <3>1. ~AClip(j) /\ OfAPerson(j)
      BY <2>4 DEF AClip, OfAPerson
    <3>2. PICK g \in Log' : Forgotten(j, g, p, s)
      BY <1>9, <2>2, <3>1
    <3>3. g = j
      BY <1>7, <2>2, <2>4, <3>1, <3>2
    <3> QED
      BY <1>8, <2>1, <2>2, <2>4, <3>2, <3>3 DEF Earlier
  <2> QED
    BY <2>1, <2>3, <2>4
<1>19. \A m \in Log : m.kind = "merge" /\ m.to # p => m.slug # s /\ m.slug # 0
  <2>1. \A m \in Log : m.kind = "merge" => m.slug # 0
    BY <1>0 DEF LogOK, OfAPerson
  <2> QED
    BY <2>1 DEF People, MergeInv, s
<1>20. Left' = Left /\ \A r \in Left : r.cid # acts /\ Source(r)' = Source(r)
  BY <1>0 DEF Left, Rows, LogOK, Source, SlugOf
<1>21. ReadInv(c)'
  <2>1. ASSUME NEW t \in Log', NEW r \in Left, t.cid = r.cid, Fixes(t, c) \/ Fixes(r, c)
        PROVE  ReadAs(t, r)'
    <3>1. PICK l \in Log : Forgotten(l, t, p, s)
      BY <1>2, <1>3, <1>20, <2>1
    <3>2. ReadAs(l, r)
      BY <1>7, <2>1, <3>1 DEF Told, ReadInv
    <3>3. Fixes(l, c) /\ l.sha = c /\ AClip(l)
      BY <1>7, <2>1, <3>1, <3>2 DEF ReadAs, Fixes, AClip
    <3>4. ~(l.kind = "move" /\ l.to = p)
      BY <1>0, <3>3 DEF LogOK
    <3>5. CASE l.from = p
      <4>1. l.slug = 0 /\ Leaves(l, p)
        BY <1>6, <3>3, <3>5 DEF Leaves
      <4>2. t.kind = l.kind /\ t.to = l.to /\ t.slug = s /\ s # 0 /\ t.sha = l.sha
        BY <3>1, <3>4, <4>1 DEF Forgotten, AClip, Leaves
      <4> QED
        BY <1>20, <3>2, <3>5, <4>1, <4>2 DEF ReadAs, Origin, s
    <3>6. CASE l.from # p
      <4>1. t = l
        BY <3>1, <3>3, <3>4, <3>6 DEF Forgotten, AClip, Leaves
      <4>2. Origin(l)' = Origin(l)
        BY <1>0, <1>1, <1>6, <3>3, <3>6 DEF Origin
      <4> QED
        BY <1>20, <3>2, <4>1, <4>2 DEF ReadAs
    <3> QED
      BY <3>5, <3>6
  <2>2. ASSUME NEW r \in Left, Fixes(r, c), Source(r) # 0
        PROVE  \E t \in Log' : t.cid = r.cid
    <3>1. PICK l \in Log : l.cid = r.cid
      BY <2>2 DEF Told, ReadInv
    <3>2. ReadAs(l, r)
      BY <2>2, <3>1 DEF Told, ReadInv
    <3>3. ~(Leaves(l, p) /\ s = 0)
      <4> SUFFICES ASSUME Leaves(l, p), s = 0 PROVE FALSE
        OBVIOUS
      <4>1. l.slug = 0 /\ l.from = p
        BY <1>6 DEF Leaves
      <4> QED
        BY <2>2, <3>2, <4>1 DEF ReadAs, Origin, s
    <3> QED
      BY <1>2, <1>7, <3>1, <3>3
  <2>3. ASSUME NEW t \in Log', NEW r \in Left, t.cid = r.cid, t.kind = "merge",
               c \in holds[t.slug]
        PROVE  t.to = r.to \/ Earlier(t.cid, t.slug, c)'
    <3>1. t \in Log /\ t.to # p
      BY <1>2, <1>3, <1>7, <2>3
    <3>2. t.to = r.to \/ Earlier(t.cid, t.slug, c)
      BY <2>3, <3>1 DEF Told, ReadInv
    <3> QED
      BY <1>18, <1>19, <2>3, <3>1, <3>2
  <2> QED
    BY <1>20, <2>1, <2>2, <2>3 DEF ReadInv, Fixes, AClip
<1>23. c \in Shas' => c \in Shas
  <2> SUFFICES ASSUME c \in Shas' PROVE c \in Shas
    OBVIOUS
  <2>1. PICK t \in Log' : t.sha = c
    BY DEF Shas, Log, Rows
  <2>2. \E l \in Log : l.sha = c
    BY <1>2, <1>3, <1>7, <2>1
  <2> QED
    BY <1>0, <2>2 DEF Shas, Log, Rows
<1>24. WantInv(c)'
  <2>1. who \in known' => who \in known /\ slug'[who] = slug[who]
    BY <1>0, <1>1
  <2> QED
    BY <1>13, <1>23, <2>1 DEF Told, WantInv
<1> QED
  BY <1>12, <1>15, <1>16, <1>17, <1>21, <1>24 DEF Told, Placed

LEMMA ToldForget ==
  ASSUME Types, Deep, People, Replaying, OwnerActs,
         NEW c \in Clips, Told(c), c \notin crossed', NEW p \in Ids, ForgetPerson(p)
  PROVE  Told(c)'
<1> DEFINE new == IF slug[p] = 0 THEN {} ELSE {ForgetOf(slug[p])}
<1>1. /\ UNCHANGED <<living, dead, mname, holds, pc, passVars>>
      /\ crossed' = crossed \cup Touched \cup Carried \cup Misnamed
  BY OwnerLeaves
<1>2. UNCHANGED <<snap, who, want, rows, done, pending>>
  BY <1>1 DEF passVars
<1>3. ForgetLog(p, slug[p], new)
  BY ForgetPersonLog
<1>4. \A x \in new : /\ x.kind = "forget" /\ x.slug = slug[p]
                     /\ x.sha = NoClip /\ x.cid = acts
  BY DEF ForgetOf
<1>5. slug[p] \in living => new # {}
  BY NumTypes DEF Types, TypeOK
<1> HIDE DEF new
<1>6. /\ p \in known /\ known' = known \ {p} /\ slug' = [slug EXCEPT ![p] = 0]
      /\ bank' = [bank EXCEPT ![p] = {}] /\ removed' = removed \cup bank[p]
  BY DEF ForgetPerson, Gone
<1>7. pc = "replay" => \A l \in Log : ~(l.kind = "move" /\ l.to = p /\ l.sha = c)
  <2> SUFFICES ASSUME pc = "replay", NEW l \in Log, l.kind = "move", l.to = p, l.sha = c
               PROVE  FALSE
    OBVIOUS
  <2>1. c \in Carried
    BY <1>6 DEF Carried, Log, Rows
  <2> QED
    BY <1>1, <2>1
<1> QED
  BY <1>1, <1>2, <1>3, <1>4, <1>5, <1>6, <1>7, ToldForgotten

LEMMA ToldMirror ==
  ASSUME Types, Deep, People, Replaying, Types', Deep',
         NEW c \in Clips, Told(c), NEW s \in Ids, Mirror(s)
  PROVE  Told(c)'
<1>1. /\ UNCHANGED <<living, dead, mname, holds, pc, snap, who, want, rows, done, pending>>
      /\ pc = "mirror"
  BY DEF Mirror, membroVars
<1>2. CASE UNCHANGED bankVars
  <2>1. Placed(c)'
    BY <1>1, <1>2, PlacedIdle DEF Told
  <2>2. WantInv(c)'
    BY <1>1 DEF WantInv
  <2> QED
    BY <1>1, <2>1, <2>2, AwayNext DEF Told
<1>3. ASSUME NEW p \in known, snap[p] = s, s \in dead, ForgetHere(p)
      PROVE  Told(c)'
  <2>0. p \in Ids /\ 0 \notin Ids /\ slug \in [Ids -> Id0] /\ living \cap dead = {}
        /\ 0 \notin living
    BY NumTypes DEF Types, TypeOK, BankTypeOK
  <2>1. ForgetLog(p, slug[p], {})
    BY <1>3, <2>0, ForgetHereLog
  <2>2. slug[p] \notin living
    BY <1>1, <1>3, <2>0 DEF Deep, MirrorInv
  <2>3. /\ known' = known \ {p} /\ slug' = [slug EXCEPT ![p] = 0]
        /\ bank' = [bank EXCEPT ![p] = {}] /\ removed' = removed
    BY <1>3 DEF ForgetHere, Gone
  <2> DEFINE new == {}
  <2>4. /\ ForgetLog(p, slug[p], new) /\ \A x \in new : FALSE
    BY <2>1
  <2> HIDE DEF new
  <2>5. \A x \in new : /\ x.kind = "forget" /\ x.slug = slug[p]
                       /\ x.sha = NoClip /\ x.cid = acts
    BY <2>4
  <2> QED
    BY <1>1, <2>2, <2>3, <2>4, <2>5, ToldForgotten
<1>4. \/ UNCHANGED bankVars
      \/ \E p \in known : snap[p] = s /\ s \in dead /\ ForgetHere(p)
  BY <1>1 DEF Mirror, Deep, MirrorInv
<1> QED
  BY <1>2, <1>3, <1>4

(* Somebody is merged into p.  A chain of rows that comes past them goes   *)
(* on from p: the rows between the two are dropped, and the first that     *)
(* leads away is carried, or was p's all along.                            *)
LEMMA Latest ==
  ASSUME Types, Deep, NEW V, V \subseteq Log, V # {}
  PROVE  \E u \in V : \A v \in V : v.cid <= u.cid
<1> DEFINE N == {acts - v.cid : v \in V}
<1>0. acts \in Nat /\ \A v \in V : v.cid \in Nat /\ v.cid < acts
  BY LogIs DEF LogOK
<1>1. N \in SUBSET Nat /\ N # {}
  <2>1. \A v \in V : acts - v.cid \in Nat
    BY <1>0
  <2> QED
    BY <2>1
<1> HIDE DEF N
<1>2. PICK i \in N : \A j \in N : i <= j
  BY <1>1, Least
<1> USE DEF N
<1>3. PICK u \in V : i = acts - u.cid
  BY <1>2
<1>4. \A v \in V : acts - u.cid <= acts - v.cid
  BY <1>2, <1>3
<1> QED
  BY <1>0, <1>3, <1>4

LEMMA Soonest ==
  ASSUME Types, Deep, NEW V, V \subseteq Log, V # {}
  PROVE  \E u \in V : \A v \in V : u.cid <= v.cid
<1> DEFINE N == {v.cid : v \in V}
<1>1. N \in SUBSET Nat /\ N # {}
  <2>1. \A v \in V : v.cid \in Nat
    BY LogIs DEF LogOK
  <2> QED
    BY <2>1
<1> HIDE DEF N
<1>2. PICK i \in N : \A j \in N : i <= j
  BY <1>1, Least
<1> USE DEF N
<1> QED
  BY <1>2

LEMMA HopOver ==
  ASSUME Types, Deep, People, NEW c \in Clips, Chain(Log, c),
         NEW p \in known, NEW q \in known, p # q,
         NEW s, NEW K, CarriedRows(K, q, p), NEW new, MergeLog(q, s, p, K, new),
         Keeps(p, c) \/ Keeps(q, c) => Keeps(p, c)',
         NEW m \in Log, MovesTo(m, q, c)
  PROVE  Goes(Log, m.cid, p, c)'
<1>0. /\ LogOK /\ p # 0
      /\ \A l \in Log : AClip(l) /\ l.from \in known => l.slug = 0 /\ l.from # l.to
  BY LogIs, NumTypes DEF People, RowInv, Types, TypeOK, BankTypeOK
<1>1. \A l \in Log : Lost(l, q, s, p, K) \/ \E t \in Log' : Merged(l, t, q, s, p, K)
  BY DEF MergeLog
<1> DEFINE W == {l \in Log : /\ l.cid > m.cid /\ Fixes(l, c) /\ l.slug = 0
                             /\ l.from \in {p, q}
                             /\ ~(l.kind = "move" /\ l.to \in {p, q})}
<1>2. CASE W # {}
  <2>0. W \subseteq Log
    OBVIOUS
  <2> HIDE DEF W
  <2>1. PICK w \in W : \A v \in W : w.cid <= v.cid
    BY <1>2, <2>0, Soonest
  <2> USE DEF W
  <2>2. /\ w \in Log /\ w.cid > m.cid /\ Fixes(w, c) /\ w.slug = 0 /\ AClip(w)
        /\ w.sha = c /\ ~(w.kind = "move" /\ w.to \in {p, q})
    BY DEF Fixes
  <2>3. CASE w.from = p
    <3>1. ~Leaves(w, q) /\ ~(w.kind \in {"merge", "move"} /\ w.to = q)
      BY <2>2, <2>3 DEF Leaves, AClip
    <3>2. ~Lost(w, q, s, p, K)
      BY <3>1 DEF Lost
    <3>3. w \in Log'
      BY <1>1, <2>2, <3>1, <3>2 DEF Merged
    <3> QED
      BY <2>2, <2>3, <3>3 DEF Goes, Fixes, AClip
  <2>4. CASE w.from = q
    <3>1. Leaves(w, q) /\ ~Drops(w, p)
      BY <1>0, <2>2, <2>4 DEF Leaves, Drops
    <3>2. ~Between(m, w, q, p)
      <4> SUFFICES ASSUME NEW i \in Log, m.cid < i.cid, i.cid < w.cid, i.sha = c,
                          Leaves(i, q), ~Drops(i, p)
                   PROVE  FALSE
        BY <2>2 DEF Between
      <4>1. i \in W
        BY <1>0 DEF Leaves, Drops, Fixes, AClip
      <4> QED
        BY <1>0, <2>1, <2>2, <4>1 DEF LogOK
    <3>3. w \in K
      BY <1>0, <2>2, <3>2 DEF CarriedRows
    <3>4. ~Lost(w, q, s, p, K)
      BY <1>0, <2>2, <3>1, <3>3 DEF Lost, Leaves
    <3>5. PICK t \in Log' : Merged(w, t, q, s, p, K)
      BY <1>1, <2>2, <3>4
    <3>6. t.cid = w.cid /\ t.sha = c /\ t.kind = w.kind /\ t.from = p /\ t.slug = 0
      BY <2>2, <3>1, <3>3, <3>5 DEF Merged, Leaves
    <3> QED
      BY <2>2, <3>6 DEF Goes, Fixes, AClip
  <2> QED
    BY <2>3, <2>4
<1>3. CASE W = {}
  <2> DEFINE V == {u \in Log : u.kind = "move" /\ u.sha = c /\ u.to \in {p, q}
                                /\ m.cid <= u.cid}
  <2>0. V \subseteq Log /\ m \in V
    BY <1>0 DEF MovesTo, LogOK
  <2> HIDE DEF V, W
  <2>1. PICK u \in V : \A v \in V : v.cid <= u.cid
    BY <2>0, Latest
  <2> USE DEF V
  <2>2. Goes(Log, u.cid, u.to, c)
    BY DEF Chain
  <2>3. ASSUME NEW l \in Log, l.cid > u.cid, Fixes(l, c), l.from = u.to, l.slug = 0
        PROVE  FALSE
    <3>1. l.cid > m.cid /\ l.cid \in Nat /\ u.cid \in Nat /\ m.cid \in Nat
      BY <1>0, <2>3 DEF LogOK
    <3>2. l.kind = "move" /\ l.to \in {p, q} /\ l.sha = c
      BY <1>3, <2>3, <3>1 DEF W, Fixes
    <3>3. l \in V
      BY <3>1, <3>2
    <3> QED
      BY <2>1, <2>3, <3>1, <3>3
  <2>4. Keeps(u.to, c)
    BY <2>2, <2>3 DEF Goes
  <2> QED
    BY <2>4 DEF Goes
<1> QED
  BY <1>2, <1>3

LEMMA Hop ==
  ASSUME Types, Deep, People, NEW c \in Clips, Chain(Log, c),
         NEW p \in known, NEW q \in known, p # q,
         NEW s, NEW K, CarriedRows(K, q, p), NEW new, MergeLog(q, s, p, K, new),
         \A x : Keeps(x, c) /\ x # q => Keeps(x, c)',
         Keeps(q, c) => Keeps(p, c)',
         NEW D, D = {} \/ \A l \in Log : ~MovesTo(l, q, c),
         NEW S, S = {l \in Log : l.cid \notin D},
         NEW T, T = {t \in Log' : t.cid \notin D},
         \A t \in Log' : t.cid \in Nat,
         NEW k \in Nat, NEW x, x # q, Goes(S, k, x, c)
  PROVE  Goes(T, k, x, c)'
<1>0. /\ LogOK
      /\ \A l \in Log : AClip(l) /\ l.from \in known => l.slug = 0 /\ l.from # l.to
  BY LogIs DEF People, RowInv
<1>1. \A l \in Log : Lost(l, q, s, p, K) \/ \E t \in Log' : Merged(l, t, q, s, p, K)
  BY DEF MergeLog
<1>2. CASE Keeps(x, c)
  BY <1>2 DEF Goes
<1>3. ASSUME NEW l \in S, l.cid > k, Fixes(l, c), l.from = x, l.slug = 0
      PROVE  Goes(T, k, x, c)'
  <2>0. l \in Log /\ l.cid \notin D /\ ~Leaves(l, q) /\ AClip(l) /\ l.sha = c
    BY <1>3 DEF Leaves, Fixes
  <2>1. CASE l.kind = "move" /\ l.to = q /\ l.from = p
    <3>1. MovesTo(l, q, c)
      BY <2>0, <2>1 DEF MovesTo
    <3>2. D = {} /\ T = Log'
      BY <2>0, <3>1
    <3>3. Goes(Log, l.cid, p, c)'
      BY <2>0, <3>1, HopOver
    <3>4. l.cid \in Nat /\ x = p
      BY <1>0, <1>3, <2>0, <2>1 DEF LogOK
    <3>5. \A t \in Log' : t.cid > l.cid => t.cid > k
      BY <1>3, <3>4
    <3> QED
      BY <3>2, <3>3, <3>4, <3>5 DEF Goes
  <2>2. CASE ~(l.kind = "move" /\ l.to = q /\ l.from = p)
    <3>1. ~Lost(l, q, s, p, K)
      BY <2>0, <2>2 DEF Lost
    <3>2. PICK t \in Log' : Merged(l, t, q, s, p, K)
      BY <1>1, <2>0, <3>1
    <3>3. t.cid = l.cid /\ t.sha = c /\ t.kind = l.kind /\ t.from = l.from /\ t.slug = l.slug
      BY <2>0, <3>2 DEF Merged
    <3> QED
      BY <1>3, <2>0, <3>2, <3>3 DEF Goes, Fixes, AClip
  <2> QED
    BY <2>1, <2>2
<1> QED
  BY <1>2, <1>3 DEF Goes

NoneCarried(q, c) ==
  \A l \in Log : MovesTo(l, q, c) =>
    pc # "replay" /\ ~(slug[q] \in living /\ c \in holds[slug[q]])

NoneMisnamed(q, c) ==
  \A l, m \in Log :
    AClip(l) /\ l.from = q /\ l.sha = c /\ m.kind = "merge" /\ m.to = q =>
      c \notin holds[m.slug]

LEMMA ToldMerged ==
  ASSUME Types, Deep, People, Replaying, Types', Deep', NEW c \in Clips, Told(c),
         NEW p \in known, NEW q \in known, p # q, known' = known \ {q},
         slug' = [slug EXCEPT ![q] = 0],
         bank' = [bank EXCEPT ![p] = @ \cup bank[q], ![q] = {}],
         removed' = removed \ bank[q],
         NEW K, CarriedRows(K, q, p), NEW new, MergeLog(q, slug[q], p, K, new),
         \A x \in new : /\ x.kind = "merge" /\ x.slug = slug[q] /\ x.to = p
                        /\ x.sha = NoClip /\ x.cid = acts,
         slug[q] # 0 => new # {},
         UNCHANGED <<living, dead, holds, pc, snap, who, want, rows, done, pending>>,
         pc = "replay" => c \notin bank[q],
         NoneCarried(q, c), NoneMisnamed(q, c)
  PROVE  Told(c)'
<1> USE DEF NoneCarried, NoneMisnamed
<1> DEFINE s == slug[q]
<1>0. /\ LogOK /\ known \subseteq used /\ used \subseteq Ids /\ 0 \notin Ids
      /\ p \in Ids /\ q \in Ids /\ p # 0
      /\ slug \in [Ids -> Id0] /\ bank \in [Ids -> SUBSET Clips] /\ NoClip \notin Clips
      /\ 0 \notin living
  BY LogIs, NumTypes, TypesLedger DEF Types, TypeOK, BankTypeOK
<1>1. /\ \A x \in known' : x # q /\ x \in known
      /\ \A x \in Ids : x # q => slug'[x] = slug[x]
      /\ \A x \in Ids : x # q /\ x # p => bank'[x] = bank[x]
      /\ slug'[q] = 0 /\ bank'[q] = {} /\ bank'[p] = bank[p] \cup bank[q]
      /\ \A x \in known : x # q => x \in known'
  BY <1>0
<1>2. /\ \A t \in Log' : t \in new \/ \E l \in Log : Merged(l, t, q, s, p, K)
      /\ \A l \in Log : Lost(l, q, s, p, K) \/ \E t \in Log' : Merged(l, t, q, s, p, K)
      /\ new \subseteq Log'
  BY DEF MergeLog
<1>3. \A x \in new : /\ x.kind = "merge" /\ x.slug = s /\ x.to = p /\ x.cid = acts
                     /\ ~Fixes(x, c) /\ x.sha # c
  BY <1>0 DEF Fixes
<1>4. MergeLog(q, s, p, K, new) /\ (s # 0 => new # {})
  OBVIOUS
<1> HIDE DEF s
<1>5. \A x \in Ids : c \in bank[x] /\ c \in bank[q] => x = q
  BY <1>0 DEF Told, Placed, Once
<1>6. /\ \A x : Keeps(x, c) /\ x # q => Keeps(x, c)'
      /\ Keeps(q, c) => Keeps(p, c)'
  BY <1>0, <1>1 DEF Keeps
<1>7. \A l \in Log : /\ AClip(l) /\ l.slug = 0 => l.from \in known /\ l.from # l.to
                     /\ AClip(l) /\ l.slug # 0 => l.from \notin known
  BY DEF People, RowInv
<1>8. ASSUME NEW l \in Log, NEW t, Merged(l, t, q, s, p, K)
      PROVE  /\ t.cid = l.cid /\ t.sha = l.sha /\ t.kind = l.kind
             /\ Fixes(t, c) <=> Fixes(l, c)
             /\ l.kind = "merge" => t.slug = l.slug
             /\ l.kind \in {"move", "merge"} /\ l.to = q => t.to = p
             /\ ~(l.kind \in {"move", "merge"} /\ l.to = q) => t.to = l.to
             /\ l.from # q => t.slug = l.slug /\ t.from = l.from
             /\ OfAPerson(l) /\ ~(l.kind = "merge" /\ l.to = q) => t = l
  BY <1>8 DEF Merged, Fixes, AClip, Leaves, OfAPerson
<1>9. /\ Undone' = {t \in Log' : t.cid \notin done}
      /\ Undone = {l \in Log : l.cid \notin done}
  BY DEF Undone
<1>10. done = {} \/ \A l \in Log : ~MovesTo(l, q, c)
  BY <1>0 DEF LogOK
<1>11. \A t \in Log' : t.cid \in Nat
  BY LogNext DEF LogOK
<1>12. ASSUME NEW k \in Nat, NEW x, x # q
       PROVE  /\ Goes(Log, k, x, c) => Goes(Log, k, x, c)'
              /\ Goes(Undone, k, x, c) => Goes(Undone, k, x, c)'
  <2>1. ASSUME NEW D, D = {} \/ \A l \in Log : ~MovesTo(l, q, c),
               NEW S, S = {l \in Log : l.cid \notin D},
               NEW T, T = {t \in Log' : t.cid \notin D}, Goes(S, k, x, c)
        PROVE  Goes(T, k, x, c)'
    BY <1>4, <1>6, <1>11, <1>12, <2>1, Hop DEF Told, Placed
  <2>2. Goes(Log, k, x, c) => Goes(Log, k, x, c)'
    <3>1. ASSUME NEW S, S = Log, NEW T, T = Log', Goes(S, k, x, c)
          PROVE  Goes(T, k, x, c)'
      <4> DEFINE D == {}
      <4>1. /\ D = {} \/ \A l \in Log : ~MovesTo(l, q, c)
            /\ S = {l \in Log : l.cid \notin D} /\ T = {t \in Log' : t.cid \notin D}
        BY <3>1
      <4> HIDE DEF D
      <4> QED
        BY <2>1, <3>1, <4>1
    <3> QED
      BY <3>1
  <2>3. Goes(Undone, k, x, c) => Goes(Undone, k, x, c)'
    BY <1>9, <1>10, <2>1
  <2> QED
    BY <2>2, <2>3
<1>13. ASSUME NEW l \in Log, MovesTo(l, q, c)
       PROVE  /\ Goes(Log, l.cid, p, c)'
              /\ Log' = Undone' /\ done = {}
  <2>1. Goes(Log, l.cid, p, c)'
    BY <1>4, <1>6, <1>13, HopOver DEF Told, Placed
  <2> QED
    BY <1>9, <1>10, <1>13, <2>1
<1>14. ASSUME NEW t \in Log', t.kind = "move", t.sha = c
       PROVE  \E l \in Log : /\ l.kind = "move" /\ l.sha = c /\ l.cid = t.cid
                             /\ l.cid \in Nat
                             /\ \/ MovesTo(l, q, c) /\ t.to = p
                                \/ l.to # q /\ t.to = l.to
  <2>1. PICK l \in Log : Merged(l, t, q, s, p, K)
    BY <1>2, <1>3, <1>14
  <2> QED
    BY <1>0, <1>8, <1>14, <2>1 DEF MovesTo, LogOK
<1>15. Chain(Log, c)'
  <2> SUFFICES ASSUME NEW t \in Log', t.kind = "move", t.sha = c
               PROVE  Goes(Log, t.cid, t.to, c)'
    BY DEF Chain
  <2>1. PICK l \in Log : /\ l.kind = "move" /\ l.sha = c /\ l.cid = t.cid
                         /\ l.cid \in Nat
                         /\ \/ MovesTo(l, q, c) /\ t.to = p
                            \/ l.to # q /\ t.to = l.to
    BY <1>14
  <2>2. Goes(Log, l.cid, l.to, c)
    BY <2>1 DEF Told, Placed, Chain
  <2> QED
    BY <1>12, <1>13, <2>1, <2>2
<1>16. Chain(Undone, c)'
  <2> SUFFICES ASSUME NEW t \in Undone', t.kind = "move", t.sha = c
               PROVE  Goes(Undone, t.cid, t.to, c)'
    BY DEF Chain
  <2>0. t \in Log' /\ t.cid \notin done
    BY <1>9
  <2>1. PICK l \in Log : /\ l.kind = "move" /\ l.sha = c /\ l.cid = t.cid
                         /\ l.cid \in Nat
                         /\ \/ MovesTo(l, q, c) /\ t.to = p
                            \/ l.to # q /\ t.to = l.to
    BY <1>14, <2>0
  <2>2. l \in Undone
    BY <1>9, <2>0, <2>1
  <2>3. Goes(Undone, l.cid, l.to, c)
    BY <2>1, <2>2 DEF Told, Placed, Chain
  <2>4. CASE MovesTo(l, q, c) /\ t.to = p
    <3>1. Goes(Log, l.cid, p, c)' /\ Log' = Undone'
      BY <1>13, <2>4
    <3> QED
      BY <2>1, <2>4, <3>1
  <2> QED
    BY <1>12, <2>1, <2>3, <2>4
<1>17. ASSUME NEW l \in Log, OfAPerson(l)
       PROVE  \E t \in Log' : Merged(l, t, q, s, p, K)
  BY <1>2, <1>17 DEF Lost, Leaves, AClip, OfAPerson
<1>18. \A t : Doomed(t) => Doomed(t)'
  <2> SUFFICES ASSUME NEW t, NEW f \in Undone, f.kind = "forget", f.slug = t
               PROVE  f \in Undone'
    BY DEF Doomed
  <2>1. f \in Log /\ OfAPerson(f) /\ f.cid \notin done
    BY <1>9 DEF OfAPerson
  <2>2. PICK g \in Log' : Merged(f, g, q, s, p, K)
    BY <1>17, <2>1
  <2> QED
    BY <1>8, <1>9, <2>1, <2>2
<1>19. ASSUME NEW m \in Log', m.kind = "merge"
       PROVE  \/ m.cid = acts
              \/ \E n \in Log : n.kind = "merge" /\ n.slug = m.slug /\ n.cid = m.cid
  BY <1>2, <1>3, <1>8, <1>19
<1>20. ASSUME NEW l \in Log, NEW t, t # 0, Ahead(l, t, c), l.from # q,
              ~(l.kind = "move" /\ l.to = q /\ l.from = p)
       PROVE  \E j \in Log' : j.cid = l.cid /\ Ahead(j, t, c)'
  <2>1. Fixes(l, c) /\ AClip(l) /\ l.cid < acts
    BY <1>0, <1>20 DEF Ahead, Fixes, LogOK
  <2>2. ~Lost(l, q, s, p, K)
    BY <1>20 DEF Lost, Leaves
  <2>3. PICK j \in Log' : Merged(l, j, q, s, p, K)
    BY <1>2, <2>2
  <2>4. j.cid = l.cid /\ Fixes(j, c) /\ j.from = l.from /\ j.slug = l.slug
    BY <1>8, <1>20, <2>1, <2>3
  <2>5. Origin(j)' = t
    BY <1>0, <1>1, <1>7, <1>20, <2>1, <2>4 DEF Ahead, Origin
  <2>6. j.slug # 0 => \A m \in Log' : m.kind = "merge" /\ m.slug = t => j.cid < m.cid
    BY <1>19, <1>20, <2>1, <2>4 DEF Ahead
  <2>7. Ahead(j, t, c)'
    BY <2>4, <2>5, <2>6 DEF Ahead, Fixes, AClip
  <2> QED
    BY <2>4, <2>7
<1>21. Held(c)'
  <2> SUFFICES ASSUME NEW t \in living, c \in holds[t]
               PROVE  Doomed(t)' \/ Covered(t, c)'
    BY DEF Held
  <2>0. t # 0
    BY <1>0
  <2>1. ASSUME NEW x \in Ids, Keeps(x, c), slug[x] = t
        PROVE  Covered(t, c)'
    <3>1. CASE x # q
      BY <1>1, <1>6, <2>1, <3>1 DEF Covered
    <3>2. CASE x = q
      <4>1. PICK n \in new : TRUE
        BY <1>4, <2>0, <2>1, <3>2 DEF s
      <4>2. n \in Undone' /\ n.kind = "merge" /\ n.slug = t /\ n.to = p
        BY <1>0, <1>2, <1>3, <1>9, <2>1, <3>2, <4>1 DEF LogOK, s
      <4>3. Goes(Undone, n.cid, p, c)'
        BY <1>6, <2>1, <3>2 DEF Goes
      <4> QED
        BY <4>2, <4>3 DEF Covered
    <3> QED
      BY <3>1, <3>2
  <2>2. ASSUME NEW l \in Undone, Ahead(l, t, c)
        PROVE  Covered(t, c)'
    <3>0. l \in Log /\ l.cid \notin done /\ Fixes(l, c) /\ AClip(l) /\ l.sha = c
      BY <1>9, <2>2 DEF Ahead, Fixes
    <3>1. CASE l.kind = "move" /\ l.to = q /\ l.from = p
      <4>1. MovesTo(l, q, c) /\ l.slug = 0 /\ slug[p] = t
        BY <1>7, <2>2, <3>0, <3>1 DEF MovesTo, Ahead, Origin
      <4>2. Goes(Log, l.cid, p, c)' /\ Log' = Undone'
        BY <1>13, <3>0, <4>1
      <4>3. CASE Keeps(p, c)'
        BY <1>0, <1>1, <4>1, <4>3 DEF Covered
      <4>4. ASSUME NEW j \in Log', Fixes(j, c), j.from = p, j.slug = 0
            PROVE  Covered(t, c)'
        <5>1. Ahead(j, t, c)'
          BY <1>0, <1>1, <4>1, <4>4 DEF Ahead, Fixes, AClip, Origin
        <5> QED
          BY <4>2, <5>1 DEF Covered
      <4> QED
        BY <4>2, <4>3, <4>4 DEF Goes, Fixes, AClip
    <3>2. CASE l.from # q /\ ~(l.kind = "move" /\ l.to = q /\ l.from = p)
      BY <1>9, <1>20, <2>0, <2>2, <3>0, <3>2 DEF Covered
    <3>3. CASE l.from = q
      <4>1. l.slug = 0 /\ t = s /\ Leaves(l, q) /\ s # 0
        BY <1>7, <2>0, <2>2, <3>0, <3>3 DEF Ahead, Origin, Leaves, s
      <4>2. l \notin K
        BY <3>0, <4>1 DEF CarriedRows, s
      <4>3. PICK j \in Log' : Merged(l, j, q, s, p, K)
        BY <1>2, <3>0, <4>1, <4>2 DEF Lost, Leaves
      <4>4. j.slug = s /\ j.cid = l.cid /\ Fixes(j, c)
        BY <3>0, <4>1, <4>2, <4>3, <1>8 DEF Merged, Leaves, AClip
      <4>5. \A m \in Log' : m.kind = "merge" /\ m.slug = s => j.cid < m.cid
        <5>1. \A m \in Log : m.kind = "merge" /\ m.slug = s => m.to = q
          BY DEF People, MergeInv, s
        <5>2. \A m \in Log : ~(m.kind = "merge" /\ m.slug = s)
          BY <3>0, <3>3, <4>1, <5>1
        <5> QED
          BY <1>0, <1>19, <3>0, <4>4, <5>2 DEF LogOK
      <4>6. Ahead(j, t, c)'
        BY <4>1, <4>4, <4>5 DEF Ahead, Fixes, AClip, Origin
      <4>7. j \in Undone'
        BY <1>9, <3>0, <4>4
      <4> QED
        BY <4>6, <4>7 DEF Covered
    <3> QED
      BY <3>1, <3>2, <3>3
  <2>3. ASSUME NEW m \in Undone, m.kind = "merge", m.slug = t, Goes(Undone, m.cid, m.to, c)
        PROVE  Covered(t, c)'
    <3>1. m \in Log /\ m.cid \notin done /\ OfAPerson(m) /\ m.cid \in Nat
      BY <1>0, <1>9, <2>3 DEF OfAPerson, LogOK
    <3>2. PICK j \in Log' : Merged(m, j, q, s, p, K)
      BY <1>17, <3>1
    <3>3. j \in Undone' /\ j.kind = "merge" /\ j.slug = t /\ j.cid = m.cid
      BY <1>8, <1>9, <2>3, <3>1, <3>2
    <3>4. CASE m.to # q
      <4>1. j.to = m.to
        BY <1>8, <3>1, <3>2, <3>4
      <4>2. Goes(Undone, m.cid, m.to, c)'
        BY <1>12, <2>3, <3>1, <3>4
      <4> QED
        BY <3>3, <4>1, <4>2 DEF Covered
    <3>5. CASE m.to = q
      <4>1. j.to = p
        BY <1>8, <2>3, <3>1, <3>2, <3>5
      <4>2. \A l \in Undone : ~(Fixes(l, c) /\ l.from = q)
        BY <1>9, <2>3, <3>1, <3>5 DEF Fixes
      <4>3. Keeps(q, c)
        BY <2>3, <3>5, <4>2 DEF Goes
      <4>4. Goes(Undone, m.cid, p, c)'
        BY <1>6, <4>3 DEF Goes
      <4> QED
        BY <3>3, <4>1, <4>4 DEF Covered
    <3> QED
      BY <3>4, <3>5
  <2> QED
    BY <1>18, <2>1, <2>2, <2>3 DEF Told, Placed, Held, Covered
<1>22. Once(c)'
  BY <1>0, <1>1, <1>5 DEF Told, Placed, Once
<1>23. Stays(c)'
  <2>1. \A x \in known' : c \in bank'[x] /\ c \in removed' =>
          x \in known /\ slug'[x] = slug[x] /\ c \in bank[x] /\ c \in removed
    BY <1>0, <1>1
  <2> QED
    BY <1>18, <2>1 DEF Told, Placed, Stays
(* While a pass replays the rows. *)
<1>24. Left' = Left /\ \A r \in Left : r.cid # acts /\ Source(r)' = Source(r)
  BY <1>0 DEF Left, Rows, LogOK, Source, SlugOf
<1>25. Left # {} => /\ c \notin bank[q]
                    /\ \A l \in Log : ~MovesTo(l, q, c)
  BY <1>0 DEF LogOK
<1>26. ASSUME Left # {}, NEW l \in Log, l.kind = "merge", c \in holds[l.slug],
              NEW k, Earlier(k, l.slug, c)
       PROVE  Earlier(k, l.slug, c)'
  <2>1. PICK j \in Undone : j.cid < k /\ \/ Ahead(j, l.slug, c)
                                         \/ j.kind = "forget" /\ j.slug = l.slug
    BY <1>26 DEF Earlier
  <2>2. j \in Log /\ j.cid \notin done /\ l.slug # 0
    BY <1>0, <1>9, <1>26 DEF LogOK, OfAPerson
  <2>3. CASE Ahead(j, l.slug, c)
    <3>1. j.from # q
      <4> SUFFICES ASSUME j.from = q PROVE FALSE
        OBVIOUS
      <4>1. AClip(j) /\ j.sha = c /\ j.slug = 0 /\ slug[q] = l.slug
        BY <1>7, <2>2, <2>3 DEF Ahead, Fixes, Origin
      <4>2. l.to = q
        BY <1>26, <4>1 DEF People, MergeInv
      <4> QED
        BY <1>26, <2>2, <4>1, <4>2
    <3>2. ~(j.kind = "move" /\ j.to = q /\ j.from = p)
      BY <1>25, <1>26, <2>2, <2>3 DEF Ahead, Fixes, MovesTo
    <3>3. PICK i \in Log' : i.cid = j.cid /\ Ahead(i, l.slug, c)'
      BY <1>20, <2>2, <2>3, <3>1, <3>2
    <3> QED
      BY <1>9, <2>1, <2>2, <3>3 DEF Earlier
  <2>4. CASE j.kind = "forget" /\ j.slug = l.slug
    <3>1. OfAPerson(j)
      BY <2>4 DEF OfAPerson
    <3>2. PICK i \in Log' : Merged(j, i, q, s, p, K)
      BY <1>17, <2>2, <3>1
    <3>3. i = j
      BY <1>8, <2>2, <2>4, <3>1, <3>2
    <3> QED
      BY <1>9, <2>1, <2>2, <2>4, <3>2, <3>3 DEF Earlier
  <2> QED
    BY <2>1, <2>3, <2>4
<1>27. ASSUME Left # {}, NEW l \in Log, l.kind = "merge", l.to = q, c \in holds[l.slug]
       PROVE  Earlier(l.cid, l.slug, c)
  <2>0. \A j \in Log : ~(AClip(j) /\ j.from = q /\ j.sha = c)
    BY <1>27
  <2>1. /\ \A x \in known : slug[x] = l.slug => x = q
        /\ \A n \in Log : n.kind = "merge" /\ n.slug = l.slug => n.to = q
        /\ \A f \in Log : f.kind = "forget" /\ f.slug = l.slug => f.cid < l.cid
    BY <1>27 DEF People, MergeInv
  <2>2. l.slug \in living /\ l.slug # 0
    BY <1>0, <1>27 DEF People, HoldsInv, LogOK, OfAPerson, Had, Types, TypeOK, Correction
  <2>3. CASE Doomed(l.slug)
    BY <1>9, <2>1, <2>3 DEF Doomed, Earlier
  <2>4. ASSUME NEW x \in Ids, Keeps(x, c), slug[x] = l.slug
        PROVE  FALSE
    BY <1>25, <1>27, <2>1, <2>4 DEF Keeps
  <2>5. ASSUME NEW j \in Undone, Ahead(j, l.slug, c)
        PROVE  Earlier(l.cid, l.slug, c)
    <3>1. j \in Log /\ AClip(j) /\ j.sha = c
      BY <1>9, <2>5 DEF Ahead, Fixes
    <3>2. j.slug # 0
      <4> SUFFICES ASSUME j.slug = 0 PROVE FALSE
        OBVIOUS
      <4>1. j.from \in known /\ slug[j.from] = l.slug
        BY <1>7, <2>5, <3>1 DEF Ahead, Origin
      <4> QED
        BY <2>0, <2>1, <3>1, <4>1
    <3>3. j.cid < l.cid
      BY <1>27, <2>5, <3>2 DEF Ahead
    <3> QED
      BY <2>5, <3>3 DEF Earlier
  <2>6. ASSUME NEW m \in Undone, m.kind = "merge", m.slug = l.slug,
               Goes(Undone, m.cid, m.to, c)
        PROVE  FALSE
    <3>1. m.to = q
      BY <1>9, <2>1, <2>6
    <3> QED
      BY <1>9, <1>25, <1>27, <2>0, <2>6, <3>1 DEF Goes, Keeps, Fixes
  <2> QED
    BY <1>27, <2>2, <2>3, <2>4, <2>5, <2>6 DEF Told, Placed, Held, Covered
<1>28. ReadInv(c)'
  <2>1. ASSUME NEW t \in Log', NEW r \in Left, t.cid = r.cid, Fixes(t, c) \/ Fixes(r, c)
        PROVE  ReadAs(t, r)'
    <3>1. PICK l \in Log : Merged(l, t, q, s, p, K)
      BY <1>2, <1>3, <1>24, <2>1
    <3>2. ReadAs(l, r)
      BY <1>8, <2>1, <3>1 DEF Told, ReadInv
    <3>3. Fixes(l, c) /\ l.sha = c /\ AClip(l)
      BY <1>8, <2>1, <3>1, <3>2 DEF ReadAs, Fixes, AClip
    <3>4. ~(l.kind = "move" /\ l.to = q) /\ l \notin K
      BY <1>25, <3>3 DEF MovesTo, CarriedRows
    <3>5. CASE l.from = q
      <4>1. l.slug = 0 /\ Leaves(l, q)
        BY <1>7, <3>3, <3>5 DEF Leaves
      <4>2. t.kind = l.kind /\ t.to = l.to /\ t.slug = s /\ s # 0 /\ t.sha = l.sha
        BY <3>1, <3>3, <3>4, <4>1 DEF Merged, AClip, Leaves
      <4> QED
        BY <1>24, <3>2, <3>5, <4>1, <4>2 DEF ReadAs, Origin, s
    <3>6. CASE l.from # q
      <4>1. t = l
        BY <3>1, <3>3, <3>4, <3>6 DEF Merged, AClip, Leaves
      <4>2. Origin(l)' = Origin(l)
        BY <1>0, <1>1, <1>7, <3>3, <3>6 DEF Origin
      <4> QED
        BY <1>24, <3>2, <4>1, <4>2 DEF ReadAs
    <3> QED
      BY <3>5, <3>6
  <2>2. ASSUME NEW r \in Left, Fixes(r, c), Source(r) # 0
        PROVE  \E t \in Log' : t.cid = r.cid
    <3>1. PICK l \in Log : l.cid = r.cid
      BY <2>2 DEF Told, ReadInv
    <3>2. ReadAs(l, r) /\ AClip(l) /\ l.sha = c
      BY <2>2, <3>1 DEF Told, ReadInv, ReadAs, Fixes, AClip
    <3>3. ~(Leaves(l, q) /\ s = 0)
      <4> SUFFICES ASSUME Leaves(l, q), s = 0 PROVE FALSE
        OBVIOUS
      <4>1. l.slug = 0 /\ l.from = q
        BY <1>7 DEF Leaves
      <4> QED
        BY <2>2, <3>2, <4>1 DEF ReadAs, Origin, s
    <3>4. ~Lost(l, q, s, p, K)
      BY <1>25, <3>2, <3>3 DEF Lost, MovesTo, CarriedRows
    <3> QED
      BY <1>2, <1>8, <3>1, <3>4
  <2>3. ASSUME NEW t \in Log', NEW r \in Left, t.cid = r.cid, t.kind = "merge",
               c \in holds[t.slug]
        PROVE  t.to = r.to \/ Earlier(t.cid, t.slug, c)'
    <3>1. PICK l \in Log : Merged(l, t, q, s, p, K)
      BY <1>2, <1>3, <1>24, <2>3
    <3>2. l.kind = "merge" /\ l.slug = t.slug /\ l.cid = t.cid /\ (l.to # q => t = l)
      BY <1>8, <2>3, <3>1 DEF OfAPerson
    <3>3. t.to = r.to \/ Earlier(t.cid, t.slug, c)
      BY <1>27, <2>3, <3>2 DEF Told, ReadInv
    <3> QED
      BY <1>26, <2>3, <3>2, <3>3
  <2> QED
    BY <1>24, <2>1, <2>2, <2>3 DEF ReadInv, Fixes, AClip
<1>30. c \in Shas' => c \in Shas
  <2> SUFFICES ASSUME c \in Shas' PROVE c \in Shas
    OBVIOUS
  <2>1. PICK t \in Log' : t.sha = c
    BY DEF Shas, Log, Rows
  <2>2. \E l \in Log : l.sha = c
    BY <1>2, <1>3, <1>8, <2>1
  <2> QED
    BY <1>0, <2>2 DEF Shas, Log, Rows
<1>31. WantInv(c)'
  <2>1. who \in known' => who \in known /\ slug'[who] = slug[who]
    BY <1>0, <1>1
  <2> QED
    BY <1>18, <1>30, <2>1 DEF Told, WantInv
<1> QED
  BY <1>15, <1>16, <1>21, <1>22, <1>23, <1>28, <1>31 DEF Told, Placed

LEMMA ToldMerge ==
  ASSUME Types, Deep, People, Replaying, Types', Deep', OwnerActs,
         NEW c \in Clips, Told(c), c \notin crossed',
         NEW p \in Ids, NEW q \in Ids, MergePeople(p, q)
  PROVE  Told(c)'
<1> DEFINE new == IF slug[q] = 0 THEN {} ELSE {MergeOf(slug[q], p)}
<1>0. /\ UNCHANGED <<living, dead, mname, holds, pc, passVars>>
      /\ crossed' = crossed \cup Touched \cup Carried \cup Misnamed
  BY OwnerLeaves
<1>1. UNCHANGED <<snap, who, want, rows, done, pending>>
  BY <1>0 DEF passVars
<1>2. PICK K : CarriedRows(K, q, p) /\ MergeLog(q, slug[q], p, K, new)
  BY MergePeopleLog
<1>3. /\ \A x \in new : /\ x.kind = "merge" /\ x.slug = slug[q] /\ x.to = p
                        /\ x.sha = NoClip /\ x.cid = acts
      /\ slug[q] # 0 => new # {}
  <2>1. CASE slug[q] = 0
    <3>1. new = {}
      BY <2>1
    <3>2. \A x \in new : FALSE
      BY <3>1
    <3> HIDE DEF new
    <3>3. slug[q] # 0 => new # {}
      BY <2>1
    <3> QED
      BY <3>2, <3>3
  <2>2. CASE slug[q] # 0
    <3>1. new = {MergeOf(slug[q], p)}
      BY <2>2
    <3> HIDE DEF new
    <3>2. slug[q] # 0 => new # {}
      BY <3>1
    <3>3. \A x \in new : x = MergeOf(slug[q], p)
      BY <3>1
    <3> QED
      BY <3>2, <3>3 DEF MergeOf
  <2> QED
    BY <2>1, <2>2
<1> HIDE DEF new
<1>4. /\ p \in known /\ q \in known /\ p # q /\ known' = known \ {q}
      /\ slug' = [slug EXCEPT ![q] = 0]
      /\ bank' = [bank EXCEPT ![p] = @ \cup bank[q], ![q] = {}]
      /\ removed' = removed \ bank[q]
      /\ bank'[q] = {}
  <2>1. p \in Nat /\ q \in Nat /\ bank \in [Ids -> SUBSET Clips] /\ p < q
    BY BankAssumption DEF MergePeople, Types, TypeOK, BankTypeOK
  <2>2. p # q
    BY <2>1
  <2> QED
    BY <2>1, <2>2 DEF MergePeople
<1>5. pc = "replay" => c \notin bank[q]
  BY <1>0, <1>4 DEF Touched
<1>6. ASSUME NEW l \in Log, MovesTo(l, q, c)
      PROVE  pc # "replay" /\ ~(slug[q] \in living /\ c \in holds[slug[q]])
  <2>1. c \notin Carried
    BY <1>0
  <2> QED
    BY <1>4, <1>6, <2>1 DEF Carried, MovesTo, Log, Rows
<1>7. ASSUME NEW l \in Log, NEW m \in Log, AClip(l), l.from = q, l.sha = c,
             m.kind = "merge", m.to = q
      PROVE  c \notin holds[m.slug]
  <2>1. c \notin Misnamed
    BY <1>0
  <2> QED
    BY <1>4, <1>7, <2>1 DEF Misnamed, AClip, Log, Rows
<1>8. NoneCarried(q, c) /\ NoneMisnamed(q, c)
  <2>1. NoneCarried(q, c)
    BY <1>6 DEF NoneCarried
  <2>2. NoneMisnamed(q, c)
    BY <1>7 DEF NoneMisnamed
  <2> QED
    BY <2>1, <2>2
<1> QED
  BY <1>0, <1>1, <1>2, <1>3, <1>4, <1>5, <1>8, ToldMerged

(* A row is replayed: what it does to the clip.                            *)
Takes(r, c) ==
  /\ ~Waits(r) /\ AClip(r) /\ r.sha = c /\ Source(r) \in living
  /\ r.kind = "move" => SlugOf(r.to) \in living

Gives(r, t, c) ==
  /\ ~Waits(r) /\ t \in living /\ t = SlugOf(r.to)
  /\ \/ r.kind = "move" /\ r.sha = c /\ Source(r) \in living
     \/ r.kind = "merge" /\ r.slug \in living /\ r.slug # t /\ c \in holds[r.slug]

LEMMA ReplayTakes ==
  ASSUME Types, Deep, People, Replaying, Replay, NEW c \in Clips,
         NEW r, r = Head(rows)
  PROVE  /\ living' \subseteq living /\ Had' = Had /\ Had = living \cup dead
         /\ Waits(r) => UNCHANGED <<holds, living, dead>>
         /\ ~Waits(r) /\ r.kind = "forget" => r.slug \notin living'
         /\ ~Waits(r) /\ r.kind = "merge" /\ {r.slug, SlugOf(r.to)} \subseteq living =>
              r.slug = SlugOf(r.to) \/ r.slug \notin living'
         /\ Takes(r, c) => c \notin holds'[Source(r)]
         /\ \A t \in Ids : c \in holds'[t] => c \in holds[t] \/ Gives(r, t, c)
<1>0. /\ r \in Left /\ r \in Correction /\ RowOK(r) /\ 0 \notin Ids
      /\ living \subseteq Ids /\ dead \subseteq Ids
      /\ OfAPerson(r) => r.slug \in Ids
      /\ snap \in [Ids -> Id0] /\ holds \in [Ids -> SUBSET Clips]
      /\ \A s \in Ids \ living : holds[s] = {}
      /\ r.kind \in {"move", "delete", "merge", "forget"}
  <2>1. r \in Left
    BY HeadLeaves DEF Replaying
  <2> QED
    BY <2>1, LogIs DEF LogOK, Types, TypeOK, RowOK, OfAPerson, People, HoldsInv, Correction
<1>1. Had' = Had /\ Had = living \cup dead
  BY ReplayHolds DEF Replaying, People, Had
<1>2. CASE ~Waits(r) /\ Applies(r)
  <2>1. /\ holds' = ClipsAfter(r) /\ living' = living \ Leavers(r)
    BY <1>2 DEF Replay
  <2>2. CASE r.kind = "move"
    <3>1. /\ Source(r) \in living /\ SlugOf(r.to) \in living /\ Leavers(r) = {}
      BY <1>2, <2>2 DEF Applies, Leavers
    <3>2. holds' = IF Source(r) = SlugOf(r.to)
                   THEN [holds EXCEPT ![Source(r)] = @ \ {r.sha}]
                   ELSE [[holds EXCEPT ![Source(r)] = @ \ {r.sha}]
                           EXCEPT ![SlugOf(r.to)] = @ \cup {r.sha}]
      BY <2>1, <2>2 DEF ClipsAfter
    <3>3. r.sha \notin holds'[Source(r)]
      BY <1>0, <3>1, <3>2
    <3>4. \A t \in Ids : c \in holds'[t] => c \in holds[t] \/ (t = SlugOf(r.to) /\ r.sha = c)
      BY <1>0, <3>1, <3>2
    <3> QED
      BY <1>1, <1>2, <2>1, <2>2, <3>1, <3>3, <3>4 DEF Takes, Gives
  <2>3. CASE r.kind = "delete"
    <3>1. Source(r) \in living /\ Leavers(r) = {}
      BY <1>2, <2>3 DEF Applies, Leavers
    <3>2. holds' = [holds EXCEPT ![Source(r)] = @ \ {r.sha}]
      BY <2>1, <2>3 DEF ClipsAfter
    <3> QED
      BY <1>0, <1>1, <1>2, <2>1, <2>3, <3>1, <3>2 DEF Takes
  <2>4. CASE r.kind = "merge"
    <3>1. /\ r.slug \in living /\ SlugOf(r.to) \in living /\ r.slug # SlugOf(r.to)
          /\ Leavers(r) = {r.slug}
      BY <1>2, <2>4 DEF Applies, Leavers
    <3>2. holds' = [holds EXCEPT ![SlugOf(r.to)] = @ \cup holds[r.slug], ![r.slug] = {}]
      BY <2>1, <2>4 DEF ClipsAfter
    <3>3. \A t \in Ids : c \in holds'[t] =>
             c \in holds[t] \/ (t = SlugOf(r.to) /\ c \in holds[r.slug])
      BY <1>0, <3>1, <3>2
    <3> QED
      BY <1>1, <1>2, <2>1, <2>4, <3>1, <3>3 DEF Takes, Gives, AClip
  <2>5. CASE r.kind = "forget"
    <3>1. r.slug \in living /\ Leavers(r) = {r.slug}
      BY <1>2, <2>5 DEF Applies, Leavers
    <3>2. holds' = [holds EXCEPT ![r.slug] = {}]
      BY <2>1, <2>5 DEF ClipsAfter
    <3> QED
      BY <1>0, <1>1, <1>2, <2>1, <2>5, <3>1, <3>2 DEF Takes, AClip
  <2> QED
    BY <1>0, <2>2, <2>3, <2>4, <2>5
<1>3. CASE ~(~Waits(r) /\ Applies(r))
  <2>1. UNCHANGED <<holds, living, dead>>
    BY <1>3 DEF Replay
  <2>2. ~Waits(r) /\ r.kind = "forget" => r.slug \notin living
    BY <1>3 DEF Applies
  <2>3. ~Waits(r) /\ r.kind = "merge" /\ {r.slug, SlugOf(r.to)} \subseteq living =>
              r.slug = SlugOf(r.to)
    BY <1>3 DEF Applies
  <2>4. Takes(r, c) => c \notin holds[Source(r)]
    BY <1>3 DEF Takes, AClip, Applies
  <2> QED
    BY <1>1, <2>1, <2>2, <2>3, <2>4
<1> QED
  BY <1>2, <1>3

(* A clip that the row does not strand.                                    *)
LEMMA NotStranded ==
  ASSUME Types, NEW c \in Clips, NEW r, c \notin Stranded(r)
  PROVE  /\ r.kind = "move" /\ SlugOf(r.to) \in dead => r.sha # c
         /\ r.kind = "merge" /\ SlugOf(r.to) \in dead => c \notin holds[r.slug]
         /\ r.kind = "merge" /\ SlugOf(r.to) \in living /\ c \in holds[r.slug] =>
              \A l \in Undone : l.cid < r.cid => ~Removes(l, r.slug, c)
         /\ AClip(r) /\ r.sha = c /\ ~Waits(r) =>
              \A l \in Undone : l.cid < r.cid => ~Brings(l, Source(r), c)
<1>1. \A l \in Undone : l.cid < r.cid => l \in Before(r)
  BY DEF Undone, Log, Rows, Before
<1> QED
  BY <1>1 DEF Stranded, AClip

LEMMA ToldReplay ==
  ASSUME Types, Types', Deep, People, Replaying, Replay,
         NEW c \in Clips, Told(c), c \notin crossed'
  PROVE  Told(c)'
<1> DEFINE r == Head(rows)
<1>0. /\ r \in Left /\ Left' \subseteq Left /\ Left \subseteq Left' \cup {r}
      /\ \A x \in Left' : r.cid < x.cid
      /\ Log' = Log /\ pc = "replay" /\ pc' = pc
      /\ done' = IF Waits(r) THEN done ELSE done \cup {r.cid}
      /\ UNCHANGED <<known, used, slug, snap, who, bank, removed>>
      /\ crossed' = crossed \cup Stranded(r)
  BY HeadLeaves DEF Replaying
<1>1. /\ living' \subseteq living /\ Had' = Had /\ Had = living \cup dead
      /\ Waits(r) => UNCHANGED <<holds, living, dead>>
      /\ ~Waits(r) /\ r.kind = "forget" => r.slug \notin living'
      /\ ~Waits(r) /\ r.kind = "merge" /\ {r.slug, SlugOf(r.to)} \subseteq living =>
              r.slug = SlugOf(r.to) \/ r.slug \notin living'
      /\ Takes(r, c) => c \notin holds'[Source(r)]
      /\ \A t \in Ids : c \in holds'[t] => c \in holds[t] \/ Gives(r, t, c)
  BY ReplayTakes
<1>2. /\ r.kind = "move" /\ SlugOf(r.to) \in dead => r.sha # c
      /\ r.kind = "merge" /\ SlugOf(r.to) \in dead => c \notin holds[r.slug]
      /\ r.kind = "merge" /\ SlugOf(r.to) \in living /\ c \in holds[r.slug] =>
           \A l \in Undone : l.cid < r.cid => ~Removes(l, r.slug, c)
      /\ AClip(r) /\ r.sha = c /\ ~Waits(r) =>
           \A l \in Undone : l.cid < r.cid => ~Brings(l, Source(r), c)
  BY <1>0, NotStranded
<1>3. /\ LogOK /\ 0 \notin Ids /\ living \cap dead = {} /\ living \subseteq Ids /\ dead \subseteq Ids
      /\ slug \in [Ids -> Id0] /\ snap \in [Ids -> Id0] /\ known \subseteq Ids
      /\ \A x \in known : snap[x] = slug[x]
      /\ \A x \in Ids : snap[x] \in Had \cup {0}
      /\ \A s \in Ids \ living : holds[s] = {}
      /\ used \subseteq Ids /\ known \subseteq used
      /\ holds \in [Ids -> SUBSET Clips]
  BY <1>0, LogIs, NumTypes DEF Types, TypeOK, BankTypeOK, Replaying, HandInv, People, HoldsInv
<1> HIDE DEF r
<1>4. /\ r.cid \in Nat /\ r.cid \notin done
      /\ \A l \in Log : l.cid \in Nat
      /\ \A x \in Left : x.cid \in Nat
      /\ r.kind \in {"move", "delete", "merge", "forget"}
  BY <1>0, <1>3 DEF LogOK, Replaying, HandInv, Correction
<1>5. /\ Undone' = {l \in Log : l.cid \notin done'}
      /\ Undone = {l \in Log : l.cid \notin done}
      /\ Undone' \subseteq Undone
      /\ \A l \in Undone : l \in Undone' \/ (l.cid = r.cid /\ ~Waits(r))
  BY <1>0 DEF Undone
<1>7. /\ \A l \in Log : l.cid = r.cid /\ (Fixes(l, c) \/ Fixes(r, c)) => ReadAs(l, r)
      /\ Fixes(r, c) /\ Source(r) # 0 => \E l \in Log : l.cid = r.cid
      /\ \A l \in Log : l.cid = r.cid /\ l.kind = "merge" /\ c \in holds[l.slug] =>
           l.to = r.to \/ Earlier(l.cid, l.slug, c)
  BY <1>0 DEF Told, ReadInv
<1>8. r.kind = "merge" => /\ r.to \in used /\ r.to # 0 /\ SlugOf(r.to) = snap[r.to]
                          /\ SlugOf(r.to) \in Had \cup {0}
                          /\ \A x \in known : slug[x] = r.slug => x = r.to
                          /\ \E l \in Log : Became(r, l)
  BY <1>0, <1>3 DEF Replaying, MergeReadInv, SlugOf
(* The row that the pass replays, as it is now. *)
<1>9. ASSUME NEW l \in Log, l.cid = r.cid, Fixes(l, c)
      PROVE  /\ ReadAs(l, r) /\ AClip(r) /\ r.sha = c /\ r.kind = l.kind /\ r.to = l.to
             /\ Source(r) = Origin(l)
             /\ Source(r) # 0 /\ ~Waits(r) /\ Source(r) \in living => Takes(r, c)
  <2>1. ReadAs(l, r) /\ AClip(r) /\ r.sha = c /\ r.kind = l.kind /\ Source(r) = Origin(l)
        /\ r.to = l.to
    BY <1>7, <1>9 DEF ReadAs, Fixes, AClip
  <2>2. ASSUME Source(r) # 0, ~Waits(r), Source(r) \in living
        PROVE  Takes(r, c)
    <3>1. r.kind = "move" => SlugOf(r.to) \in Had /\ SlugOf(r.to) \notin dead
      <4> SUFFICES ASSUME r.kind = "move" PROVE SlugOf(r.to) \in Had /\ SlugOf(r.to) \notin dead
        OBVIOUS
      <4>1. l.to \in known /\ l.kind = "move"
        BY <2>1 DEF People, RowInv
      <4>2. SlugOf(r.to) # 0
        BY <2>2 DEF Waits
      <4> QED
        BY <1>2, <1>3, <2>1, <4>1, <4>2 DEF SlugOf
    <3> QED
      BY <1>1, <2>1, <2>2, <3>1 DEF Takes
  <2> QED
    BY <2>1, <2>2
<1>10. ASSUME NEW t \in living', c \in holds'[t], NEW l \in Undone, Ahead(l, t, c)
       PROVE  l \in Undone'
  <2> SUFFICES ASSUME l \notin Undone' PROVE FALSE
    OBVIOUS
  <2>1. l \in Log /\ l.cid = r.cid /\ ~Waits(r) /\ Fixes(l, c) /\ Origin(l) = t
    BY <1>5, <1>10 DEF Ahead
  <2>2. Source(r) = t /\ t # 0 /\ t \in living
    BY <1>1, <1>3, <1>9, <2>1
  <2> QED
    BY <1>1, <1>9, <1>10, <2>1, <2>2
<1>11. \A l, t : Ahead(l, t, c) => Ahead(l, t, c)'
  BY <1>0 DEF Ahead, Fixes, AClip, Origin
<1>12. ASSUME NEW k, NEW t, Earlier(k, t, c), k <= r.cid, k \in Nat
       PROVE  Earlier(k, t, c)'
  <2>1. PICK i \in Undone : i.cid < k /\ (Ahead(i, t, c) \/ (i.kind = "forget" /\ i.slug = t))
    BY <1>12 DEF Earlier
  <2>2. i \in Undone'
    BY <1>4, <1>5, <1>12, <2>1
  <2> QED
    BY <1>11, <2>1, <2>2 DEF Earlier
<1>13. \A k, t : Earlier(k, t, c)' => Doomed(t)' \/ Covered(t, c)'
  BY <1>0 DEF Earlier, Doomed, Covered
<1>14. ASSUME NEW S, NEW T, NEW k, NEW x, Goes(S, k, x, c), T \subseteq S,
              \A l \in S : l.cid > k /\ Fixes(l, c) /\ l.from = x /\ l.slug = 0 => l \in T
       PROVE  Goes(T, k, x, c)'
  BY <1>0, <1>14 DEF Goes, Fixes, AClip, Keeps
(* A row looks for the clip where it is to leave: one before it that is to *)
(* bring it there does not wait.                                           *)
<1>15. \A l \in Log : AClip(l) => Source(l) = Origin(l)
  BY <1>3 DEF People, RowInv, Source, Origin, SlugOf
<1>16. Chain(Undone, c)'
  <2> SUFFICES ASSUME NEW t \in Undone', t.kind = "move", t.sha = c
               PROVE  Goes(Undone, t.cid, t.to, c)'
    BY DEF Chain
  <2>1. t \in Undone /\ t \in Log /\ Fixes(t, c) /\ Goes(Undone, t.cid, t.to, c)
    BY <1>5 DEF Fixes, AClip, Told, Placed, Chain
  <2>2. ASSUME NEW l \in Undone, l.cid > t.cid, Fixes(l, c), l.from = t.to, l.slug = 0
        PROVE  l \in Undone'
    <3> SUFFICES ASSUME l \notin Undone' PROVE FALSE
      OBVIOUS
    <3>1. l \in Log /\ l.cid = r.cid
      BY <1>5
    <3>2. t.cid < r.cid /\ ~Waits(r) /\ AClip(r) /\ r.sha = c /\ Source(r) = Origin(l)
      BY <1>4, <1>5, <1>9, <2>1, <2>2, <3>1
    <3>3. SlugOf(t.to) = Origin(l)
      BY <1>3, <2>1, <2>2 DEF People, RowInv, SlugOf, Origin
    <3> QED
      BY <1>2, <2>1, <3>2, <3>3 DEF Brings, Fixes
  <2> QED
    BY <1>5, <1>14, <2>1, <2>2
<1>17. Chain(Log, c)'
  BY <1>0 DEF Told, Placed, Chain, Goes, Keeps, Fixes, AClip
(* Whoever is to be forgotten is gone once their forget is replayed.       *)
<1>18. ASSUME NEW t, Doomed(t), ~Doomed(t)'
       PROVE  \/ t \in dead'
              \/ /\ r.kind = "merge" /\ ~Waits(r) /\ t = r.slug
                 /\ \A x \in known : slug[x] # t
                 /\ \A m \in Log : m.kind = "merge" => m.slug # t
                 /\ \/ SlugOf(r.to) \in dead
                    \/ SlugOf(r.to) \in living /\ SlugOf(r.to) # t
  <2>1. PICK f \in Undone : f.kind = "forget" /\ f.slug = t
    BY <1>18 DEF Doomed
  <2>2. f \in Log /\ f.cid = r.cid /\ ~Waits(r)
    BY <1>0, <1>5, <1>18, <2>1 DEF Doomed
  <2>3. r.slug = t /\ r.kind \in {"forget", "merge"} /\ t \in Had
    BY <1>0, <1>3, <2>1, <2>2 DEF LogOK, OfAPerson
  <2>4. CASE r.kind = "forget"
    BY <1>1, <2>2, <2>3, <2>4 DEF Had
  <2>5. CASE r.kind = "merge"
    <3>1. PICK l \in Log : Became(r, l)
      BY <1>8, <2>5
    <3>2. l = f
      BY <1>3, <2>2, <3>1 DEF Became, LogOK
    <3>3. /\ \A m \in Log : m.kind = "merge" => m.slug # t
          /\ \A x \in known : slug[x] # t
          /\ SlugOf(r.to) \in dead \cup {0} \/ \E g \in Undone : Gone1(r, g, l)
      BY <2>1, <2>3, <3>1, <3>2 DEF Became
    <3>4. SlugOf(r.to) # 0
      BY <2>2, <2>5 DEF Waits
    <3>5. ASSUME NEW g \in Undone, Gone1(r, g, l)
          PROVE  SlugOf(r.to) # t
      <4>1. g \in Undone' /\ g.kind = "forget" /\ g.slug = SlugOf(r.to)
        BY <1>0, <1>5, <2>1, <3>2, <3>5 DEF Gone1
      <4> QED
        BY <1>0, <1>18, <4>1 DEF Doomed
    <3>6. SlugOf(r.to) \in living \cup dead
      BY <1>1, <1>8, <2>5, <3>4
    <3>7. SlugOf(r.to) \in dead \/ SlugOf(r.to) # t
      BY <3>3, <3>4, <3>5
    <3> QED
      BY <2>2, <2>3, <2>5, <3>3, <3>6, <3>7
  <2> QED
    BY <2>3, <2>4, <2>5
<1>19. ASSUME NEW t \in living', c \in holds[t], Doomed(t)
       PROVE  Doomed(t)'
  <2> SUFFICES ASSUME ~Doomed(t)' PROVE FALSE
    OBVIOUS
  <2>1. t \in living /\ t \notin dead'
    <3>1. living' \cap dead' = {}
      BY DEF Types, TypeOK
    <3> QED
      BY <1>1, <3>1
  <2> QED
    BY <1>1, <1>2, <1>18, <1>19, <2>1
<1>20. Stays(c)'
  <2>1. \A t : Doomed(t) => Doomed(t)' \/ t \in dead' \/ \A x \in known : slug[x] # t
    BY <1>18
  <2>2. dead \subseteq dead'
    BY <1>0 DEF Replay
  <2> QED
    BY <1>0, <2>1, <2>2 DEF Told, Placed, Stays
(* Whom the row gives the clip: to be forgotten, or known.                 *)
<1>21. ASSUME NEW t, Gives(r, t, c)
       PROVE  \/ \E g \in Undone' : g.kind = "forget" /\ g.slug = t
              \/ \E x \in known : /\ slug[x] = t
                                  /\ \/ Keeps(x, c)
                                     \/ \E l \in Undone' : /\ Fixes(l, c) /\ l.from = x
                                                           /\ l.slug = 0
  <2>0. /\ ~Waits(r) /\ t \in living /\ t = SlugOf(r.to) /\ t # 0 /\ t \notin dead
        /\ r.to # 0 /\ snap[r.to] = t
    BY <1>3, <1>21 DEF Gives, SlugOf
  <2>1. CASE r.kind = "move" /\ r.sha = c /\ Source(r) \in living
    <3>1. PICK l \in Log : l.cid = r.cid
      BY <1>3, <1>7, <2>1 DEF Fixes, AClip
    <3>2. ReadAs(l, r) /\ l.kind = "move" /\ l.sha = c /\ l.to = r.to
      BY <1>7, <2>1, <3>1 DEF ReadAs, Fixes, AClip
    <3>3. l \in Undone /\ l.to \in known /\ slug[l.to] = t
      BY <1>3, <1>4, <1>5, <2>0, <3>1, <3>2 DEF People, RowInv
    <3>4. Goes(Undone, l.cid, l.to, c)
      BY <3>2, <3>3 DEF Told, Placed, Chain
    <3>5. \A j \in Undone : j.cid > l.cid => j \in Undone'
      BY <1>4, <1>5, <3>1
    <3> QED
      BY <3>3, <3>4, <3>5 DEF Goes
  <2>2. CASE r.kind = "merge" /\ r.slug \in living /\ r.slug # t /\ c \in holds[r.slug]
    <3> DEFINE u == r.slug
    <3>1. PICK l \in Log : Became(r, l)
      BY <1>8, <2>2
    <3>2. l.cid = r.cid /\ l.slug = u /\ l.kind \in {"merge", "forget"} /\ l \in Undone
      BY <1>4, <1>5, <3>1 DEF Became
    <3>3. \A i \in Undone : i.cid < r.cid => ~Removes(i, u, c)
      BY <1>2, <2>0, <2>2
    <3>4. CASE l.kind = "forget"
      <4>1. r.to \notin known
        BY <3>1, <3>4 DEF Became
      <4>2. PICK g \in Undone : Gone1(r, g, l)
        BY <2>0, <3>1, <4>1 DEF Became
      <4>3. g.kind = "forget" /\ g.slug = t /\ g \in Undone'
        BY <1>0, <1>5, <2>0, <3>4, <4>2 DEF Gone1
      <4> QED
        BY <4>3
    <3>5. CASE l.kind = "merge"
      <4>1. /\ \A x \in known : slug[x] = u => x = l.to
            /\ \A n \in Log : n.kind = "merge" /\ n.slug = u => n.to = l.to
            /\ \A f \in Log : f.kind = "forget" /\ f.slug = u => f.cid < l.cid
            /\ l.to \in known
        BY <3>2, <3>5 DEF People, MergeInv, RowInv
      <4>2. ~(\E f \in Undone : f.kind = "forget" /\ f.slug = u)
        <5> SUFFICES ASSUME NEW f \in Undone, f.kind = "forget", f.slug = u PROVE FALSE
          OBVIOUS
        <5>1. f.cid < r.cid
          BY <1>5, <3>2, <4>1
        <5> QED
          BY <3>3, <5>1 DEF Removes
      <4>3. l.to = r.to
        <5>1. ~Earlier(l.cid, u, c)
          BY <1>5, <1>15, <3>2, <3>3, <4>2 DEF Earlier, Ahead, Fixes, AClip, Removes
        <5> QED
          BY <1>7, <2>2, <3>2, <3>5, <5>1
      <4>4. slug[l.to] = t
        BY <1>3, <2>0, <4>1, <4>3
      <4>5. ~Doomed(u)
        BY <4>2 DEF Doomed
      <4>6. ~(\E x \in Ids : Keeps(x, c) /\ slug[x] = u)
        BY <2>2, <4>1, <4>4 DEF Keeps
      <4>7. ~(\E j \in Undone : Ahead(j, u, c))
        <5> SUFFICES ASSUME NEW j \in Undone, Ahead(j, u, c) PROVE FALSE
          OBVIOUS
        <5>1. j \in Log /\ j.sha = c /\ AClip(j)
          BY <1>5 DEF Ahead, Fixes
        <5>2. CASE j.slug # 0
          <6>1. j.cid < l.cid
            BY <3>5, <3>2, <5>2 DEF Ahead
          <6> QED
            BY <1>15, <3>2, <3>3, <5>1, <6>1 DEF Ahead, Removes, AClip
        <5>3. CASE j.slug = 0
          <6>1. j.from \in known /\ slug[j.from] = u
            BY <5>1, <5>3 DEF Ahead, Origin, People, RowInv
          <6> QED
            BY <2>2, <4>1, <4>4, <6>1
        <5> QED
          BY <5>2, <5>3
      <4>8. PICK m \in Undone : m.kind = "merge" /\ m.slug = u /\ Goes(Undone, m.cid, m.to, c)
        BY <2>2, <4>5, <4>6, <4>7 DEF Told, Placed, Held, Covered
      <4>9. m.to = l.to
        BY <1>5, <4>1, <4>8
      <4>10. \A j \in Undone : Fixes(j, c) => j \in Undone'
        BY <1>3, <1>5, <3>2, <3>5 DEF LogOK, Fixes, AClip
      <4> QED
        BY <4>1, <4>4, <4>8, <4>9, <4>10 DEF Goes
    <3> QED
      BY <3>2, <3>4, <3>5
  <2> QED
    BY <1>21, <2>1, <2>2 DEF Gives
<1>22. Held(c)'
  <2> SUFFICES ASSUME NEW t \in living', c \in holds'[t]
               PROVE  Doomed(t)' \/ Covered(t, c)'
    BY DEF Held
  <2>0. t \in living /\ t \in Ids /\ t # 0
    BY <1>1, <1>3
  <2>1. ASSUME NEW x \in Ids, Keeps(x, c), slug[x] = t
        PROVE  Covered(t, c)'
    BY <1>0, <2>1 DEF Covered, Keeps
  <2>2. ASSUME NEW x \in known, slug[x] = t,
               NEW l \in Undone', Fixes(l, c), l.from = x, l.slug = 0
        PROVE  Covered(t, c)'
    <3>1. Ahead(l, t, c)
      BY <2>2 DEF Ahead, Origin
    <3> QED
      BY <1>11, <3>1 DEF Covered
  <2>3. CASE Gives(r, t, c)
    <3>1. ASSUME NEW g \in Undone', g.kind = "forget", g.slug = t
          PROVE  Doomed(t)'
      BY <3>1 DEF Doomed
    <3> QED
      BY <1>3, <1>21, <2>1, <2>2, <2>3, <3>1
  <2>4. CASE c \in holds[t]
    <3>1. CASE Doomed(t)
      BY <1>19, <2>4, <3>1
    <3>2. ASSUME NEW l \in Undone, Ahead(l, t, c)
          PROVE  Covered(t, c)'
      BY <1>10, <1>11, <3>2 DEF Covered
    <3>3. ASSUME NEW m \in Undone, m.kind = "merge", m.slug = t, Goes(Undone, m.cid, m.to, c)
          PROVE  Doomed(t)' \/ Covered(t, c)'
      <4>0. m \in Log /\ m.to \in known /\ m.cid \in Nat
        BY <1>4, <1>5, <3>3 DEF People, RowInv
      <4>1. CASE m \in Undone'
        <5>1. CASE \A l \in Undone : l.cid > m.cid /\ Fixes(l, c) /\ l.from = m.to
                                       /\ l.slug = 0 => l \in Undone'
          <6>1. Goes(Undone, m.cid, m.to, c)'
            BY <1>5, <1>14, <3>3, <5>1
          <6> QED
            BY <3>3, <4>1, <6>1 DEF Covered
        <5>2. ASSUME NEW l \in Undone, l.cid > m.cid, Fixes(l, c), l.from = m.to,
                     l.slug = 0, l \notin Undone'
              PROVE  Doomed(t)' \/ Covered(t, c)'
          <6>1. l \in Log /\ l.cid = r.cid /\ m.cid < r.cid
            BY <1>4, <1>5, <4>0, <5>2
          <6>2. ~Waits(r) /\ AClip(r) /\ r.sha = c /\ Source(r) = Origin(l)
            BY <1>5, <1>9, <5>2, <6>1
          <6>3. SlugOf(m.to) = Origin(l)
            BY <1>3, <4>0, <5>2 DEF SlugOf, Origin
          <6> QED
            BY <1>2, <2>4, <3>3, <6>1, <6>2, <6>3 DEF Brings
        <5> QED
          BY <5>1, <5>2
      <4>2. CASE m \notin Undone'
        <5>1. m.cid = r.cid /\ ~Waits(r)
          BY <1>5, <4>2
        <5>2. r.kind = "merge" /\ r.slug = t
          BY <1>0, <1>3, <3>3, <4>0, <5>1 DEF LogOK, OfAPerson
        <5>3. SlugOf(r.to) = t
          <6>1. SlugOf(r.to) # 0
            BY <5>1, <5>2 DEF Waits
          <6>2. SlugOf(r.to) \in living
            BY <1>1, <1>2, <1>8, <2>4, <5>2, <6>1
          <6> QED
            BY <1>1, <2>0, <5>1, <5>2, <6>2
        <5>4. CASE Earlier(m.cid, t, c)
          BY <1>4, <1>12, <1>13, <5>1, <5>4
        <5>5. CASE m.to = r.to
          <6>1. slug[m.to] = t
            BY <1>3, <1>8, <4>0, <5>2, <5>3, <5>5
          <6>2. CASE Keeps(m.to, c)
            BY <1>3, <2>1, <4>0, <6>1, <6>2
          <6>3. ASSUME NEW l \in Undone, l.cid > m.cid, Fixes(l, c), l.from = m.to, l.slug = 0
                PROVE  Covered(t, c)'
            <7>1. l \in Undone'
              BY <1>4, <1>5, <5>1, <6>3
            <7> QED
              BY <2>2, <4>0, <6>1, <6>3, <7>1
          <6> QED
            BY <3>3, <6>2, <6>3 DEF Goes
        <5> QED
          BY <1>7, <2>4, <3>3, <4>0, <5>1, <5>4, <5>5
      <4> QED
        BY <4>1, <4>2
    <3> QED
      BY <2>0, <2>1, <2>4, <3>1, <3>2, <3>3 DEF Told, Placed, Held, Covered
  <2> QED
    BY <1>1, <2>0, <2>3, <2>4
<1>23. Once(c)'
  BY <1>0 DEF Told, Placed, Once
(* What the pass holds. *)
<1>24. ASSUME NEW l \in Log, l.kind = "merge", Gives(r, l.slug, c)
       PROVE  \/ Earlier(l.cid, l.slug, c)'
              \/ \E x \in known : slug[x] = l.slug
  <2>1. ASSUME NEW g \in Undone', g.kind = "forget", g.slug = l.slug
        PROVE  Earlier(l.cid, l.slug, c)'
    <3>1. g.cid < l.cid
      BY <1>5, <1>24, <2>1 DEF People, MergeInv
    <3> QED
      BY <2>1, <3>1 DEF Earlier
  <2> QED
    BY <1>21, <1>24, <2>1
<1>25. \A l \in Log : l.kind = "merge" => l.slug \in Ids
  BY <1>3 DEF LogOK, OfAPerson
<1>26. ReadInv(c)'
  <2>1. ASSUME NEW l \in Log, NEW x \in Left', l.cid = x.cid, Fixes(l, c) \/ Fixes(x, c)
        PROVE  ReadAs(l, x)'
    <3>1. ReadAs(l, x)
      BY <1>0, <2>1 DEF Told, ReadInv
    <3> QED
      BY <1>0, <3>1 DEF ReadAs, Origin, Source, SlugOf
  <2>2. ASSUME NEW x \in Left', Fixes(x, c), Source(x)' # 0
        PROVE  \E l \in Log : l.cid = x.cid
    <3>1. Source(x) # 0
      BY <1>0, <2>2 DEF Source, SlugOf
    <3> QED
      BY <1>0, <2>2, <3>1 DEF Told, ReadInv
  <2>3. ASSUME NEW l \in Log, NEW x \in Left', l.cid = x.cid, l.kind = "merge",
               c \in holds'[l.slug]
        PROVE  l.to = x.to \/ Earlier(l.cid, l.slug, c)'
    <3> DEFINE u == l.slug
    <3>0. x \in Left /\ r.cid < l.cid /\ u \in Ids /\ l.cid \in Nat
      BY <1>0, <1>4, <1>25, <2>3
    <3>1. CASE Gives(r, u, c)
      <4>1. ASSUME NEW y \in known, slug[y] = u
            PROVE  l.to = x.to
        <5>1. y = l.to
          BY <2>3, <4>1 DEF People, MergeInv
        <5>2. x.slug = u /\ x.kind = "merge"
          BY <1>3, <2>3, <3>0 DEF LogOK, OfAPerson
        <5>3. y = x.to
          BY <3>0, <4>1, <5>2 DEF Replaying, MergeReadInv
        <5> QED
          BY <5>1, <5>3
      <4> QED
        BY <1>24, <2>3, <3>1, <4>1
    <3>2. CASE c \in holds[u]
      <4>1. CASE l.to = x.to
        BY <4>1
      <4>2. CASE Earlier(l.cid, u, c)
        <5>1. PICK i \in Undone : i.cid < l.cid /\ \/ Ahead(i, u, c)
                                                   \/ i.kind = "forget" /\ i.slug = u
          BY <4>2 DEF Earlier
        <5>2. u \in living
          BY <1>3, <3>0, <3>2
        <5>3. CASE i \in Undone'
          BY <1>11, <5>1, <5>3 DEF Earlier
        <5>4. CASE i \notin Undone'
          <6>1. i \in Log /\ i.cid = r.cid /\ ~Waits(r)
            BY <1>5, <5>4
          <6>2. CASE Ahead(i, u, c)
            <7>1. Fixes(i, c) /\ Source(r) = u /\ u # 0
              BY <1>3, <1>9, <5>2, <6>1, <6>2 DEF Ahead
            <7> QED
              BY <1>1, <1>9, <2>3, <5>2, <6>1, <7>1
          <6>3. CASE i.kind = "forget" /\ i.slug = u
            <7>1. r.slug = u /\ r.kind \in {"forget", "merge"}
              BY <1>0, <1>3, <6>1, <6>3 DEF LogOK, OfAPerson
            <7>2. CASE r.kind = "forget"
              <8>1. u \notin living'
                BY <1>1, <6>1, <7>1, <7>2
              <8>2. \A s \in Ids \ living' : holds'[s] = {}
                BY ReplayHolds DEF Replaying, People, HoldsInv
              <8> QED
                BY <2>3, <3>0, <8>1, <8>2
            <7>3. CASE r.kind = "merge"
              <8>1. PICK k \in Log : Became(r, k)
                BY <1>8, <7>3
              <8>2. k = i
                BY <1>3, <6>1, <8>1 DEF Became, LogOK
              <8> QED
                BY <2>3, <6>3, <7>1, <8>1, <8>2 DEF Became
            <7> QED
              BY <7>1, <7>2, <7>3
          <6> QED
            BY <5>1, <6>2, <6>3
        <5> QED
          BY <5>3, <5>4
      <4> QED
        BY <2>3, <3>0, <3>2, <4>1, <4>2 DEF Told, ReadInv
    <3> QED
      BY <1>1, <2>3, <3>0, <3>1, <3>2
  <2> QED
    BY <1>0, <2>1, <2>2, <2>3 DEF ReadInv, Fixes, AClip
<1>28. WantInv(c)'
  BY <1>0 DEF WantInv
<1> QED
  BY <1>16, <1>17, <1>20, <1>22, <1>23, <1>26, <1>28 DEF Told, Placed
(* A clip nobody crossed, over every step.                                 *)
LEMMA CrossedGrows ==
  ASSUME [Next]_vars
  PROVE  crossed \subseteq crossed'
<1>1. CASE Replay \/ OwnerActs
  BY <1>1 DEF Replay, OwnerActs
<1>2. CASE \E c \in Clips : PullClip(c) \/ Upload(c) \/ Restore(c)
  BY <1>2 DEF PullClip, Upload, Restore, ghostVars
<1>3. CASE \/ Begin \/ ReadForgets \/ Pulled \/ ReadPeople \/ ReadLedger
           \/ ReplayFails \/ ClipsRefused \/ ReadPending \/ NextPerson \/ Finish \/ Fail
           \/ UNCHANGED vars \/ \E p \in Ids : Diff(p) \/ PushRefused(p)
  BY <1>3, IdleLog
<1>4. CASE Pushed \/ TakeOff \/ \E s \in Ids : Mirror(s) \/ Build(s) \/ Push(s)
  BY <1>4 DEF Pushed, TakeOff, Mirror, Build, Push, ghostVars
<1>5. CASE \E s \in Ids : MembroForgets(s)
  BY <1>5 DEF MembroForgets, ghostVars
<1> QED
  BY <1>1, <1>2, <1>3, <1>4, <1>5 DEF Next, Pass

LEMMA ToldStep ==
  ASSUME Types, Deep, Types', Deep', People, Replaying, [Next]_vars,
         NEW c \in Clips, Told(c), c \notin crossed'
  PROVE  Told(c)'
<1>1. CASE \/ Begin \/ ReadForgets \/ Pulled \/ ReadPeople \/ ReadPending
           \/ NextPerson \/ Finish \/ Fail \/ \E p \in Ids : PushRefused(p)
  BY <1>1, ToldIdle
<1>2. CASE UNCHANGED vars
  BY <1>2, ToldStutter
<1>3. CASE ReadLedger \/ ReplayFails \/ ClipsRefused \/ TakeOff \/ Pushed
  BY <1>3, ToldRead, ToldFails, ToldRefused, ToldOff, ToldPushed
<1>4. CASE Replay
  BY <1>4, ToldReplay
<1>5. CASE \E s \in Ids : Mirror(s) \/ Build(s) \/ Push(s) \/ Diff(s)
  BY <1>5, ToldMirror, ToldBuild, ToldPush, ToldDiff
<1>6. CASE \E b \in Clips : PullClip(b) \/ Upload(b) \/ Restore(b)
  BY <1>6, ToldPull, ToldUpload, ToldRestore
<1>7. CASE \E s \in Ids : MembroForgets(s)
  BY <1>7, ToldMark
<1>8. CASE OwnerActs
  <2>1. Owner
    BY <1>8 DEF OwnerActs
  <2>2. ASSUME NEW n \in Names, Introduce(n)
        PROVE  Told(c)'
    BY <1>8, <2>2, ToldIntroduce
  <2>3. ASSUME NEW p \in Ids, NEW b \in Clips, Learn(p, b)
        PROVE  Told(c)'
    BY <1>8, <2>3, ToldLearn
  <2>4. ASSUME NEW p \in Ids, NEW b \in Clips, DeleteClip(p, b)
        PROVE  Told(c)'
    BY <1>8, <2>4, ToldDelete
  <2>5. ASSUME NEW p \in Ids, NEW q \in Ids, NEW b \in Clips, MoveClip(p, q, b)
        PROVE  Told(c)'
    BY <1>8, <2>5, ToldMove
  <2>6. ASSUME NEW p \in Ids, ForgetPerson(p)
        PROVE  Told(c)'
    BY <1>8, <2>6, ToldForget
  <2>7. ASSUME NEW p \in Ids, NEW q \in Ids, MergePeople(p, q)
        PROVE  Told(c)'
    BY <1>8, <2>7, ToldMerge
  <2> QED
    BY <2>1, <2>2, <2>3, <2>4, <2>5, <2>6, <2>7 DEF Owner
<1> QED
  BY <1>1, <1>2, <1>3, <1>4, <1>5, <1>6, <1>7, <1>8 DEF Next, Pass

SInv == Types /\ Deep /\ People /\ Replaying /\ ClipInv

LEMMA InitClips ==
  ASSUME Init
  PROVE  People /\ Replaying /\ ClipInv
<1>1. /\ living = {} /\ dead = {} /\ pc = "idle" /\ rows = <<>> /\ ledger = <<>>
      /\ done = {} /\ removed = {} /\ want = {} /\ DOMAIN <<>> = {}
      /\ \A p \in Ids : also[p] = {} /\ slug[p] = 0 /\ holds[p] = {}
      /\ \A p, q \in Ids, c \in Clips : c \in bank[p] /\ c \in bank[q] => p = q
      /\ \A p \in Ids \ known : bank[p] = {}
      /\ \A p, q \in known : name[p] = name[q] => p = q
      /\ known \subseteq Ids
  <2>1. Types
    BY InitTypes
  <2>2. 0 \notin Ids
    BY <2>1, NumTypes
  <2>3. known \subseteq Ids
    BY <2>1 DEF Types, TypeOK, BankTypeOK
  <2>4. PICK own \in [Clips -> Id0] :
          /\ \A c \in Clips : own[c] \in known \cup {0}
          /\ bank = [p \in Ids |-> {c \in Clips : own[c] = p}]
    BY DEF Init, BankInit
  <2>5. \A p, q \in Ids, c \in Clips : c \in bank[p] /\ c \in bank[q] => p = q
    BY <2>4
  <2>6. \A p \in Ids \ known : bank[p] = {}
    BY <2>2, <2>4
  <2>7. \A p, q \in known : name[p] = name[q] => p = q
    BY DEF Init, BankInit
  <2>8. \A p \in Ids : also[p] = {} /\ slug[p] = 0
    BY DEF Init, BankInit
  <2> QED
    BY <2>3, <2>5, <2>6, <2>7, <2>8 DEF Init, BankInit, Blank
<1>2. Log = {} /\ Left = {} /\ Undone = {}
  BY <1>1 DEF Log, Left, Rows, Undone
<1>3. NamesInv
  <2>1. \A p \in known : Aliases(p) = {name[p]}
    BY <1>1 DEF Aliases
  <2> QED
    BY <1>1, <1>2, <2>1 DEF NamesInv
<1>4. People
  BY <1>1, <1>2, <1>3 DEF People, RowInv, HoldsInv, MergeInv
<1>5. Ordered(rows)
  BY <1>1 DEF Ordered
<1>6. Replaying
  BY <1>1, <1>2, <1>5 DEF Replaying, HandInv, MergeReadInv
<1>7. ASSUME NEW c \in Clips
      PROVE  Told(c)
  <2>1. Placed(c)
    BY <1>1, <1>2 DEF Placed, Chain, Held, Once, Stays
  <2> QED
    BY <1>1, <1>2, <2>1 DEF Told, ReadInv, WantInv
<1> QED
  BY <1>4, <1>6, <1>7 DEF ClipInv

(* The invariant of the clips nobody crossed: where each is, and the rows  *)
(* that are to bring it there, through every replay that is cut short or   *)
(* goes on past a row that membro refused, every merge and every forget.   *)
THEOREM ClipsInvariance == Spec => []SInv
<1>1. Init => SInv
  BY InitTypes, InitDeep, InitClips DEF SInv
<1>2. SInv /\ [Next]_vars => SInv'
  <2> SUFFICES ASSUME SInv, [Next]_vars
               PROVE  SInv'
    OBVIOUS
  <2>1. Types /\ Deep /\ People /\ Replaying /\ HandInv /\ ClipInv
    BY DEF SInv, Replaying
  <2>2. Types' /\ Deep'
    BY <2>1, StepTypes, StepDeep
  <2>3. People' /\ Replaying'
    BY <2>1, <2>2, PeopleStep, ReplayingStep
  <2>4. ASSUME NEW c \in Clips, c \notin crossed'
        PROVE  Told(c)'
    <3>1. Told(c)
      BY <2>1, <2>4, CrossedGrows DEF ClipInv
    <3> QED
      BY <2>1, <2>2, <2>4, <3>1, ToldStep
  <2> QED
    BY <2>2, <2>3, <2>4 DEF SInv, ClipInv
<1> QED
  BY <1>1, <1>2, PTL DEF Spec

(* A clip the owner deleted, or whose person they forgot, does not come    *)
(* back to a bank for good, whatever was pending when it went, however     *)
(* many passes were cut short and whatever rows membro refused, but for    *)
(* the exceptions that crossed names                                       *)
(* (AnchorStore.delete_clip, forget and merge, person_sync._pull and       *)
(* _replay_corrections).                                                   *)
THEOREM StaysRemovedAlways == Spec => []StaysRemoved
<1>1. SInv => StaysRemoved
  <2> SUFFICES ASSUME SInv, NEW p \in known, slug[p] \notin BeingForgotten,
                      NEW c \in bank[p] \cap removed, c \notin crossed
               PROVE  FALSE
    BY DEF StaysRemoved
  <2>1. Types /\ Deep /\ c \in Clips
    BY DEF SInv, Types, TypeOK, BankTypeOK
  <2>2. Told(c)
    BY <2>1 DEF SInv, ClipInv
  <2>3. Doomed(slug[p]) \/ slug[p] \in dead
    BY <2>2 DEF Told, Placed, Stays
  <2>4. Doomed(slug[p]) => slug[p] \in Forgets
    BY <2>1, DoomedForgets
  <2>5. slug[p] \in dead => slug[p] \in news
    BY <2>1 DEF Deep, MarkInv
  <2> QED
    BY <2>3, <2>4, <2>5 DEF BeingForgotten
<1> QED
  BY <1>1, ClipsInvariance, PTL

=============================================================================
