----------------------------- MODULE SharesProofs -----------------------------
(***************************************************************************)
(* Theorems about TierShares, for every set of tiers and of depositors,    *)
(* every lock time, and queues of any length.                              *)
(***************************************************************************)
EXTENDS TierShares, LedgerLemmas, SequenceTheorems

------------------------------------------------------------------------------
(* The shares of a queue *)

\* Amounts[k] is what entry k holds: the queue holds their sum.
LEMMA QueuedAsSum ==
  ASSUME NEW q, q \in Seq(Entries), NEW f, \A k \in 1..Len(q) : f[k] = q[k].amount
  PROVE  /\ Queued(q) = SumOn(f, 1..Len(q)) /\ Queued(q) \in Nat
         /\ \A k \in 1..Len(q) : f[k] \in Nat
<1> DEFINE S == 1..Len(q)
           amounts == [k \in DOMAIN q |-> q[k].amount]
<1>1. DOMAIN q = S /\ Len(q) \in Nat /\ \A k \in S : q[k] \in Entries
  BY LenProperties
<1>2. IsFiniteSet(S)
  BY <1>1, FS_Interval
<1>3. \A k \in S : q[k].amount \in Nat
  BY <1>1 DEF Entries
<1>4. Queued(q) = SumOn(amounts, S)
  <2>1. DOMAIN amounts = S
    BY <1>1
  <2> QED BY <2>1 DEF Queued, FoldFunction, SumOn
<1>5. \A k \in S : amounts[k] = f[k] /\ f[k] \in Nat
  BY <1>1, <1>3
<1> HIDE DEF S, amounts
<1>6. SumOn(amounts, S) = SumOn(f, S)
  BY ONLY <1>2, <1>5, SumAgree
<1>7. SumOn(f, S) \in Nat
  BY ONLY <1>2, <1>5, SumNat
<1> QED BY <1>4, <1>5, <1>6, <1>7 DEF S

\* A part of a queue holds the sum of its entries.
LEMMA QueuedOfPart ==
  ASSUME NEW q, q \in Seq(Entries), NEW f, \A k \in 1..Len(q) : f[k] = q[k].amount,
         NEW m \in 1..(Len(q) + 1), NEW n \in (m - 1)..Len(q)
  PROVE  /\ SubSeq(q, m, n) \in Seq(Entries) /\ Len(SubSeq(q, m, n)) = n - m + 1
         /\ \A k \in 1..(n - m + 1) : SubSeq(q, m, n)[k] = q[m + k - 1]
         /\ Queued(SubSeq(q, m, n)) = SumOn(f, m..n)
<1> DEFINE p == SubSeq(q, m, n)
           l == n - m + 1
           g == [k \in 1..l |-> p[k].amount]
           h == [k \in 1..l |-> m + k - 1]
<1>1. Len(q) \in Nat /\ m \in Int /\ n \in Int /\ m..n \subseteq 1..Len(q) /\ l \in Nat
  BY LenProperties
<1>2. \A k \in m..n : q[k] \in Entries
  BY <1>1, LenProperties
<1>3. /\ p \in Seq(Entries) /\ Len(p) = l /\ \A k \in 1..l : p[k] = q[m + k - 1]
  BY <1>1, <1>2, SubSeqProperties
<1> HIDE DEF p
<1>4. \A k \in 1..l : g[k] = p[k].amount
  OBVIOUS
<1>5. Queued(p) = SumOn(g, 1..l)
  <2> HIDE DEF g, l
  <2> QED BY <1>3, <1>4, QueuedAsSum
<1>6. SumOn(g, 1..l) = SumOn(f, m..n)
  <2> DEFINE A == 1..l
             B == m..n
  <2>1. IsFiniteSet(A) /\ IsFiniteSet(B)
    BY <1>1, FS_Interval
  <2>2. \A k \in A : h[k] \in B /\ g[k] = f[h[k]]
    <3> SUFFICES ASSUME NEW k \in A PROVE h[k] \in B /\ g[k] = f[h[k]]
      OBVIOUS
    <3>1. h[k] = m + k - 1 /\ m + k - 1 \in B /\ m + k - 1 \in 1..Len(q)
      BY <1>1
    <3>2. g[k] = q[m + k - 1].amount
      BY <1>3, <1>4
    <3> QED BY <3>1, <3>2
  <2>3. \A j, k \in A : h[j] = h[k] => j = k
    BY <1>1
  <2>4. \A u \in B : f[u] \in Int /\ \E k \in A : h[k] = u
    <3> SUFFICES ASSUME NEW u \in B PROVE f[u] \in Int /\ \E k \in A : h[k] = u
      OBVIOUS
    <3>1. f[u] = q[u].amount /\ q[u] \in Entries
      BY <1>1, <1>2
    <3>2. u - m + 1 \in A /\ h[u - m + 1] = u
      BY <1>1
    <3> QED BY <3>1, <3>2 DEF Entries
  <2> HIDE DEF A, B, g, h
  <2>5. SumOn(g, A) = SumOn(f, B)
    BY <2>1, <2>2, <2>3, <2>4, SumReindex, SMTT(30)
  <2> QED BY <2>5 DEF A, B
<1> QED BY <1>3, <1>5, <1>6 DEF p

\* A queue cut in two: both parts hold what the queue holds.
LEMMA QueuedCut ==
  ASSUME NEW q, q \in Seq(Entries), NEW k \in 0..Len(q)
  PROVE  /\ Leading(q, k) \in Nat /\ Queued(SubSeq(q, k + 1, Len(q))) \in Nat
         /\ Queued(q) = Leading(q, k) + Queued(SubSeq(q, k + 1, Len(q)))
<1> DEFINE f == [i \in 1..Len(q) |-> q[i].amount]
           n == Len(q)
           A == 1..k
           B == (k + 1)..n
<1>1. n \in Nat /\ k \in 0..n /\ A \cup B = 1..n /\ A \cap B = {}
  BY LenProperties
<1>2. \A i \in 1..Len(q) : f[i] = q[i].amount
  OBVIOUS
<1>3. IsFiniteSet(A) /\ IsFiniteSet(B)
  BY <1>1, FS_Interval
<1> HIDE DEF f
<1>4. Queued(q) = SumOn(f, 1..n) /\ \A i \in 1..n : f[i] \in Nat
  BY <1>2, QueuedAsSum
<1>5. Leading(q, k) = SumOn(f, A)
  <2>1. 1 \in 1..(Len(q) + 1) /\ k \in (1 - 1)..Len(q)
    BY <1>1
  <2>2. Queued(SubSeq(q, 1, k)) = SumOn(f, 1..k)
    BY <1>2, <2>1, QueuedOfPart
  <2> QED BY <2>2 DEF Leading
<1>6. Queued(SubSeq(q, k + 1, n)) = SumOn(f, B)
  <2>1. k + 1 \in 1..(Len(q) + 1) /\ Len(q) \in (k + 1 - 1)..Len(q)
    BY <1>1
  <2> QED BY <1>2, <2>1, QueuedOfPart
<1>7. \A i \in A \cup B : f[i] \in Nat
  BY <1>1, <1>4
<1> HIDE DEF A, B
<1>8. \A i \in A \cup B : f[i] \in Int
  BY ONLY <1>7
<1>9. SumOn(f, A \cup B) = SumOn(f, A) + SumOn(f, B)
  BY ONLY <1>1, <1>3, <1>8, SumUnion
<1>10. SumOn(f, A) \in Nat
  BY ONLY <1>3, <1>7, SumNat
<1>11. SumOn(f, B) \in Nat
  BY ONLY <1>3, <1>7, SumNat
<1> QED BY <1>1, <1>4, <1>5, <1>6, <1>9, <1>10, <1>11

\* A queue read from its other end holds the same.
LEMMA QueuedReversed ==
  ASSUME NEW q, q \in Seq(Entries)
  PROVE  /\ Reverse(q) \in Seq(Entries) /\ Len(Reverse(q)) = Len(q)
         /\ \A k \in 1..Len(q) : Reverse(q)[k] = q[Len(q) - k + 1]
         /\ Queued(Reverse(q)) = Queued(q)
<1> DEFINE n == Len(q)
           p == Reverse(q)
           f == [k \in 1..n |-> q[k].amount]
           g == [k \in 1..n |-> p[k].amount]
           h == [k \in 1..n |-> n - k + 1]
           S == 1..n
<1>1. n \in Nat /\ \A k \in S : q[k] \in Entries
  BY LenProperties
<1>2. p = [k \in 1..n |-> q[(n - k) + 1]]
  BY DEF Reverse
<1>3. \A k \in S : n - k + 1 \in S /\ p[k] = q[n - k + 1] /\ p[k] \in Entries
  BY <1>1, <1>2
<1>4. p \in Seq(Entries) /\ Len(p) = n
  <2>1. p \in [1..n -> Entries]
    BY <1>2, <1>3
  <2> QED BY <1>1, <2>1
<1>5. /\ \A k \in S : f[k] = q[k].amount /\ g[k] = p[k].amount
      /\ \A k \in S : h[k] = n - k + 1
  OBVIOUS
<1>6. Queued(q) = SumOn(f, S) /\ \A k \in S : f[k] \in Nat
  <2> HIDE DEF f, p
  <2> QED BY <1>5, QueuedAsSum
<1>7. Queued(p) = SumOn(g, S)
  <2> HIDE DEF g, p
  <2> QED BY <1>4, <1>5, QueuedAsSum
<1>8. SumOn(g, S) = SumOn(f, S)
  <2>1. IsFiniteSet(S)
    BY <1>1, FS_Interval
  <2> HIDE DEF f, g, h, p
  <2>2. \A k \in S : h[k] \in S /\ g[k] = f[h[k]]
    <3> SUFFICES ASSUME NEW k \in S PROVE h[k] \in S /\ g[k] = f[h[k]]
      OBVIOUS
    <3>1. h[k] = n - k + 1 /\ n - k + 1 \in S
      BY <1>3, <1>5
    <3>2. g[k] = q[n - k + 1].amount
      BY <1>3, <1>5
    <3> QED BY <1>5, <3>1, <3>2
  <2>3. \A j, k \in S : h[j] = h[k] => j = k
    BY <1>1, <1>5
  <2>4. \A u \in S : f[u] \in Int /\ \E k \in S : h[k] = u
    <3> SUFFICES ASSUME NEW u \in S PROVE f[u] \in Int /\ \E k \in S : h[k] = u
      OBVIOUS
    <3>1. n - u + 1 \in S /\ h[n - u + 1] = u
      BY <1>1, <1>5
    <3> QED BY <1>6, <3>1
  <2> HIDE DEF S
  <2> QED BY ONLY <2>1, <2>2, <2>3, <2>4, SumReindex
<1> QED BY <1>3, <1>4, <1>6, <1>7, <1>8 DEF p

\* An entry that joins the queue adds what it holds.
LEMMA QueuedAppended ==
  ASSUME NEW q, q \in Seq(Entries), NEW e \in Entries
  PROVE  /\ Append(q, e) \in Seq(Entries) /\ Len(Append(q, e)) = Len(q) + 1
         /\ \A k \in 1..Len(q) : Append(q, e)[k] = q[k]
         /\ Append(q, e)[Len(q) + 1] = e
         /\ Queued(Append(q, e)) = Queued(q) + e.amount
<1> DEFINE n == Len(q)
           p == Append(q, e)
           f == [k \in 1..(n + 1) |-> p[k].amount]
           S == 1..(n + 1)
<1>1. n \in Nat
  BY LenProperties
<1>2. /\ p \in Seq(Entries) /\ Len(p) = n + 1
      /\ \A k \in 1..n : p[k] = q[k]
      /\ p[n + 1] = e
  BY AppendProperties
<1> HIDE DEF p
<1>3. \A k \in 1..(n + 1) : f[k] = p[k].amount
  OBVIOUS
<1>4. \A k \in 1..n : f[k] = q[k].amount
  BY <1>1, <1>2, <1>3
<1>5. f[n + 1] = e.amount
  BY <1>1, <1>2, <1>3
<1> HIDE DEF f
<1>6. Queued(p) = SumOn(f, S) /\ \A k \in S : f[k] \in Nat
  BY <1>2, <1>3, QueuedAsSum
<1>7. Queued(q) = SumOn(f, 1..n) /\ Queued(q) \in Nat
  BY <1>4, QueuedAsSum
<1>8. S \ {n + 1} = 1..n /\ n + 1 \in S /\ IsFiniteSet(S)
  <2>1. S \ {n + 1} = 1..n /\ n + 1 \in S
    BY <1>1
  <2>2. IsFiniteSet(S)
    BY <1>1, FS_Interval
  <2> QED BY <2>1, <2>2
<1> HIDE DEF S
<1>9. \A k \in S : f[k] \in Int
  BY ONLY <1>6
<1>10. SumOn(f, S) = f[n + 1] + SumOn(f, S \ {n + 1})
  BY ONLY <1>8, <1>9, SumRemove
<1>11. e.amount \in Nat
  BY DEF Entries
<1>12. Queued(p) = Queued(q) + e.amount
  <2>1. SumOn(f, S \ {n + 1}) = SumOn(f, 1..n)
    BY <1>8
  <2> HIDE DEF n, S
  <2> QED BY ONLY <1>5, <1>6, <1>7, <1>10, <1>11, <2>1
<1> QED BY <1>2, <1>12 DEF p

\* Where a walk ends: within the queue, at an entry that completes the amount.
LEMMA WalkEnds ==
  ASSUME NEW q, q \in Seq(Entries), NEW amount \in Nat, Suffices(q, amount)
  PROVE  /\ LastTaken(q, amount) \in 0..Len(q)
         /\ Leading(q, LastTaken(q, amount)) - amount \in Nat
         /\ LastTaken(q, amount) = 0 => Leading(q, LastTaken(q, amount)) = 0
<1> DEFINE n == Len(q)
           T == {k \in DOMAIN q : Leading(q, k) >= amount} \cup {n}
<1>1. n \in Nat /\ DOMAIN q = 1..n
  BY LenProperties
<1>2. T \subseteq 0..n /\ T \subseteq Int /\ n \in T
  BY <1>1
<1>3. IsFiniteSet(T)
  <2>1. IsFiniteSet(0..n)
    BY <1>1, FS_Interval
  <2> HIDE DEF T
  <2> QED BY <1>2, <2>1, FS_Subset
<1>4. Min(T) \in T
  <2> HIDE DEF T
  <2>1. \E s \in T : \A x \in T : s <= x
    BY <1>2, <1>3, SmallestExists
  <2> QED BY <2>1 DEF Min
<1>5. Leading(q, n) = Queued(q)
  BY SubSeqFull DEF Leading
<1>6. \A k \in T : Leading(q, k) >= amount
  BY <1>5 DEF Suffices
<1>7. \A k \in 0..n : Leading(q, k) \in Nat
  BY QueuedCut
<1>8. Leading(q, 0) = 0
  <2>1. 0 \in 0..n
    BY <1>1
  <2>2. Queued(q) = Leading(q, 0) + Queued(SubSeq(q, 1, n)) /\ Leading(q, 0) \in Nat
    BY <2>1, 0 + 1 = 1, QueuedCut
  <2>3. SubSeq(q, 1, n) = q
    BY SubSeqFull
  <2>4. Queued(q) \in Nat
    <3> DEFINE f == [k \in 1..Len(q) |-> q[k].amount]
    <3>1. \A k \in 1..Len(q) : f[k] = q[k].amount
      OBVIOUS
    <3> HIDE DEF f
    <3> QED BY <3>1, QueuedAsSum
  <2>5. Queued(SubSeq(q, 1, n)) = Queued(q)
    BY <2>3
  <2> HIDE DEF n
  <2> QED BY ONLY <2>2, <2>4, <2>5
<1>9. LastTaken(q, amount) = Min(T)
  BY DEF LastTaken
<1> HIDE DEF T
<1>10. Min(T) \in 0..Len(q) /\ Leading(q, Min(T)) >= amount /\ Leading(q, Min(T)) \in Nat
  BY <1>2, <1>4, <1>6, <1>7
<1> QED BY ONLY amount \in Nat, <1>8, <1>9, <1>10

\* What a walk leaves holds exactly as much less; the entries that stay keep their
\* order and expiration, and only the first of them may have been cut.
LEMMA RestOfQueue ==
  ASSUME NEW q, q \in Seq(Entries), NEW amount \in Nat, Suffices(q, amount)
  PROVE  LET rest == Rest(q, amount)
         IN /\ rest \in Seq(Entries)
            /\ Queued(rest) \in Nat /\ Queued(rest) = Queued(q) - amount
            /\ \E k \in 0..Len(q) :
                 /\ Len(rest) = Len(q) - k
                 /\ \A i \in 1..Len(rest) : rest[i].exp = q[i + k].exp
<1> DEFINE n == Len(q)
           last == LastTaken(q, amount)
           over == Leading(q, last) - amount
           rest == Rest(q, amount)
           tail == SubSeq(q, last + 1, n)
           cut == SubSeq(q, last, n)
<1>1. n \in Nat /\ last \in 0..n /\ over \in Nat /\ (last = 0 => Leading(q, last) = 0)
  BY WalkEnds, LenProperties
<1>2. /\ Leading(q, last) \in Nat /\ Queued(tail) \in Nat
      /\ Queued(q) = Leading(q, last) + Queued(tail)
  BY <1>1, QueuedCut
<1>3. rest = IF over > 0 THEN [cut EXCEPT ![1].amount = over] ELSE tail
  BY DEF Rest
<1> DEFINE f == [k \in 1..n |-> q[k].amount]
<1>4. \A k \in 1..n : f[k] = q[k].amount
  OBVIOUS
<1> HIDE DEF f
<1>5. \A k \in 1..n : f[k] \in Nat
  BY <1>4, QueuedAsSum
<1>6. /\ tail \in Seq(Entries) /\ Len(tail) = n - last
      /\ \A i \in 1..Len(tail) : tail[i] = q[i + last]
      /\ Queued(tail) = SumOn(f, (last + 1)..n)
  <2>1. last + 1 \in 1..(Len(q) + 1) /\ Len(q) \in (last + 1 - 1)..Len(q)
    BY <1>1
  <2>2. /\ tail \in Seq(Entries) /\ Len(tail) = n - (last + 1) + 1
        /\ \A i \in 1..(n - (last + 1) + 1) : tail[i] = q[last + 1 + i - 1]
        /\ Queued(tail) = SumOn(f, (last + 1)..n)
    BY <1>4, <2>1, QueuedOfPart
  <2>3. n - (last + 1) + 1 = n - last /\ \A i \in 1..(n - last) : last + 1 + i - 1 = i + last
    BY <1>1
  <2> HIDE DEF tail, last, n
  <2> QED BY <2>2, <2>3
<1>7. CASE over = 0
  <2>1. rest = tail /\ Queued(tail) = Queued(q) - amount
    <3>1. ~(over > 0) /\ Leading(q, last) = amount
      BY <1>1, <1>2, <1>7
    <3> HIDE DEF over, last, tail, rest, n
    <3> QED BY <1>2, <1>3, <3>1
  <2> HIDE DEF rest, tail, last, over
  <2>2. Len(rest) = Len(q) - last /\ \A i \in 1..Len(rest) : rest[i].exp = q[i + last].exp
    BY <1>6, <2>1
  <2> QED BY <1>1, <1>2, <1>6, <2>1, <2>2 DEF rest
<1>8. CASE over > 0
  <2>1. last \in 1..n
    <3>1. last # 0
      BY <1>1, <1>8
    <3> QED BY <1>1, <3>1
  <2>2. /\ cut \in Seq(Entries) /\ Len(cut) = n - last + 1
        /\ \A i \in 1..(n - last + 1) : cut[i] = q[last + i - 1]
        /\ Queued(cut) = SumOn(f, last..n)
    <3>1. last \in 1..(Len(q) + 1) /\ Len(q) \in (last - 1)..Len(q)
      BY <1>1, <2>1
    <3> QED BY <1>4, <3>1, QueuedOfPart
  <2> DEFINE l == n - last + 1
             e == [cut[1] EXCEPT !.amount = over]
             S == 1..l
             U == last..n
             g == [k \in S |-> cut[k].amount]
             h == [k \in S |-> rest[k].amount]
  <2>3. 1 \in S /\ l \in Nat /\ IsFiniteSet(S)
    <3>1. 1 \in S /\ l \in Nat
      BY <1>1, <2>1
    <3> HIDE DEF l
    <3> QED BY <3>1, FS_Interval
  <2> HIDE DEF cut, last, over, f, n
  <2>4. e \in Entries /\ e.amount = over /\ e.exp = cut[1].exp
    <3>1. cut[1] \in Entries
      BY <2>2, <2>3
    <3> QED BY <1>1, <3>1 DEF Entries
  <2>5. rest = [cut EXCEPT ![1] = e]
    BY <1>3, <1>8
  <2>6. /\ rest \in Seq(Entries) /\ Len(rest) = l
        /\ \A j \in 1..l : rest[j] = IF j = 1 THEN e ELSE cut[j]
    <3> HIDE DEF e, rest
    <3> QED BY <2>2, <2>3, <2>4, <2>5, ExceptSeq
  <2> HIDE DEF e, rest
  <2>7. /\ \A k \in S : g[k] = cut[k].amount /\ h[k] = rest[k].amount
        /\ h[1] = over /\ \A k \in S \ {1} : g[k] = h[k]
    BY <2>3, <2>4, <2>6
  <2> HIDE DEF g, h
  <2>8. Queued(cut) = SumOn(g, S) /\ \A k \in S : g[k] \in Nat
    BY <2>2, <2>7, QueuedAsSum
  <2>9. Queued(rest) = SumOn(h, S) /\ \A k \in S : h[k] \in Nat
    BY <2>6, <2>7, QueuedAsSum
  <2>10. SumOn(h, S) = SumOn(g, S) - g[1] + h[1]
    <3>1. \A k \in S : g[k] \in Int /\ h[k] \in Int
      BY ONLY <2>8, <2>9
    <3>2. 1 \in S /\ IsFiniteSet(S) /\ \A k \in S \ {1} : g[k] = h[k]
      BY <2>3, <2>7
    <3> HIDE DEF S
    <3> QED BY ONLY <3>1, <3>2, SumChange
  <2>11. SumOn(f, U) = f[last] + SumOn(f, (last + 1)..n)
    <3>1. U \ {last} = (last + 1)..n /\ last \in U
      BY <1>1, <2>1
    <3>4. IsFiniteSet(U)
      BY <1>1, <2>1, FS_Interval
    <3>2. \A k \in U : f[k] \in Int
      BY <1>1, <1>5, <2>1
    <3> HIDE DEF U
    <3>3. SumOn(f, U) = f[last] + SumOn(f, U \ {last})
      BY ONLY <3>1, <3>2, <3>4, SumRemove
    <3> QED BY <3>1, <3>3
  <2>12. g[1] = f[last] /\ f[last] \in Nat
    <3>1. cut[1] = q[last]
      BY <1>1, <2>1, <2>2, <2>3
    <3> QED BY <1>4, <1>5, <2>1, <2>3, <2>7, <3>1
  <2>13. Queued(rest) = Queued(tail) + over
    BY <1>1, <1>2, <1>6, <2>2, <2>7, <2>8, <2>9, <2>10, <2>11, <2>12
  <2>14. Queued(rest) = Queued(q) - amount /\ Queued(rest) \in Nat
    BY <1>1, <1>2, <2>13 DEF over
  <2>15. last - 1 \in 0..Len(q) /\ Len(rest) = Len(q) - (last - 1)
    BY <1>1, <2>1, <2>6 DEF n
  <2>16. \A i \in 1..Len(rest) : rest[i].exp = q[i + (last - 1)].exp
    <3> SUFFICES ASSUME NEW i \in 1..Len(rest) PROVE rest[i].exp = q[i + (last - 1)].exp
      OBVIOUS
    <3>1. i \in 1..l /\ rest[i].exp = cut[i].exp
      BY <2>4, <2>6
    <3>2. cut[i] = q[last + i - 1] /\ last + i - 1 = i + (last - 1)
      BY <1>1, <2>1, <2>2, <3>1
    <3> QED BY <3>1, <3>2
  <2> QED BY <2>6, <2>14, <2>15, <2>16 DEF rest
<1> QED BY <1>1, <1>7, <1>8

\* The same from the other end of the queue.
LEMMA RestOfOlderQueue ==
  ASSUME NEW q, q \in Seq(Entries), NEW amount \in Nat, Suffices(q, amount)
  PROVE  LET rest == RestOfOlder(q, amount)
         IN /\ rest \in Seq(Entries)
            /\ Queued(rest) \in Nat /\ Queued(rest) = Queued(q) - amount
            /\ Len(rest) <= Len(q)
            /\ \A i \in 1..Len(rest) : rest[i].exp = q[i].exp
<1> DEFINE n == Len(q)
           back == Reverse(q)
           left == Rest(back, amount)
           rest == Reverse(left)
<1>1. /\ back \in Seq(Entries) /\ Len(back) = n
      /\ \A k \in 1..n : back[k] = q[n - k + 1]
      /\ Queued(back) = Queued(q)
  BY QueuedReversed
<1>2. n \in Nat
  BY LenProperties
<1> HIDE DEF back, n
<1>3. Suffices(back, amount)
  BY <1>1 DEF Suffices
<1>4. /\ left \in Seq(Entries)
      /\ Queued(left) \in Nat /\ Queued(left) = Queued(q) - amount
      /\ \E k \in 0..n : /\ Len(left) = n - k
                         /\ \A i \in 1..Len(left) : left[i].exp = back[i + k].exp
  <2>1. back \in Seq(Entries) /\ Suffices(back, amount)
    BY <1>1, <1>3
  <2>2. /\ left \in Seq(Entries)
        /\ Queued(left) \in Nat /\ Queued(left) = Queued(back) - amount
        /\ \E k \in 0..Len(back) :
             /\ Len(left) = Len(back) - k
             /\ \A i \in 1..Len(left) : left[i].exp = back[i + k].exp
    BY <2>1, RestOfQueue
  <2> HIDE DEF left
  <2> QED BY <1>1, <2>2
<1> HIDE DEF left
<1>5. PICK k \in 0..n : /\ Len(left) = n - k
                        /\ \A i \in 1..Len(left) : left[i].exp = back[i + k].exp
  BY <1>4
<1>6. /\ rest \in Seq(Entries) /\ Len(rest) = Len(left)
      /\ \A i \in 1..Len(left) : rest[i] = left[Len(left) - i + 1]
      /\ Queued(rest) = Queued(left)
  BY <1>4, QueuedReversed
<1> HIDE DEF rest
<1>7. \A i \in 1..Len(rest) : rest[i].exp = q[i].exp
  <2> SUFFICES ASSUME NEW i \in 1..(n - k) PROVE rest[i].exp = q[i].exp
    BY <1>5, <1>6
  <2>1. rest[i].exp = left[n - k - i + 1].exp
    BY <1>5, <1>6
  <2>2. n - k - i + 1 \in 1..(n - k) /\ n - k - i + 1 + k \in 1..n
    BY <1>2, <1>5
  <2>3. left[n - k - i + 1].exp = back[n - k - i + 1 + k].exp
    BY <1>5, <2>2
  <2>4. back[n - k - i + 1 + k] = q[n - (n - k - i + 1 + k) + 1]
    BY <1>1, <2>2
  <2>5. n - (n - k - i + 1 + k) + 1 = i
    BY <1>2, <1>5
  <2> QED BY <2>1, <2>3, <2>4, <2>5
<1>8. Len(rest) <= n
  BY <1>2, <1>5, <1>6
<1> QED BY <1>4, <1>6, <1>7, <1>8 DEF RestOfOlder, rest, left, back, n

\* The matured entries at the front are a part of the queue.
LEMMA MaturedIsPart ==
  ASSUME NEW q, q \in Seq(Entries)
  PROVE  MaturedShares(q) \in Nat
<1> DEFINE S == {i \in DOMAIN q : \A j \in 1..i : Matured(q[j])}
           n == Len(q)
<1>1. n \in Nat /\ DOMAIN q = 1..n
  BY LenProperties
<1>2. S \subseteq 1..n
  BY <1>1
<1> HIDE DEF S, n
<1>3. IsFiniteSet(1..n) /\ Cardinality(1..n) = n
  <2>1. 0 \in Int /\ 1 \in Int /\ n \in Int /\ (1 > n => n = 0) /\ n - 1 + 1 = n
    BY <1>1
  <2> QED BY <2>1, FS_Interval
<1>4. Cardinality(S) \in 0..n
  <2>1. IsFiniteSet(S) /\ Cardinality(S) <= Cardinality(1..n)
    BY <1>2, <1>3, FS_Subset
  <2>2. Cardinality(S) \in Nat
    BY <2>1, FS_CardinalityType
  <2> QED BY <1>1, <1>3, <2>1, <2>2
<1>5. MaturedShares(q) = Leading(q, Cardinality(S))
  BY DEF MaturedShares, S
<1> QED BY <1>4, <1>5, QueuedCut DEF n

------------------------------------------------------------------------------
(* The two ledgers of a tier *)

\* SharesConserved for one tier, of its balance and its depositors' accounts.
Agree(balance, accounts) ==
  LET queued == Total([u \in Users |-> Queued(accounts[u].q4w)])
      active == Total([u \in Users |-> accounts[u].shares])
  IN balance.q4w = queued /\ balance.shares = active + queued

\* One depositor's account changes, and the balance by as much.
LEMMA AgreeAfterChange ==
  ASSUME NEW b, NEW c, NEW f, NEW g, NEW v \in Users,
         \A u \in Users : f[u].shares \in Nat /\ f[u].q4w \in Seq(Entries),
         \A u \in Users : g[u].shares \in Nat /\ g[u].q4w \in Seq(Entries),
         \A u \in Users \ {v} : g[u] = f[u],
         Agree(b, f),
         c.q4w = b.q4w + Queued(g[v].q4w) - Queued(f[v].q4w),
         c.shares = b.shares + g[v].shares - f[v].shares
                    + Queued(g[v].q4w) - Queued(f[v].q4w)
  PROVE  Agree(c, g)
<1> DEFINE fq == [u \in Users |-> Queued(f[u].q4w)]
           gq == [u \in Users |-> Queued(g[u].q4w)]
           fa == [u \in Users |-> f[u].shares]
           ga == [u \in Users |-> g[u].shares]
<1>1. \A q : q \in Seq(Entries) => Queued(q) \in Nat
  <2> SUFFICES ASSUME NEW q, q \in Seq(Entries) PROVE Queued(q) \in Nat
    OBVIOUS
  <2> DEFINE h == [k \in 1..Len(q) |-> q[k].amount]
  <2>1. \A k \in 1..Len(q) : h[k] = q[k].amount
    OBVIOUS
  <2> HIDE DEF h
  <2> QED BY <2>1, QueuedAsSum
<1>2. /\ DOMAIN fq = Users /\ DOMAIN gq = Users /\ DOMAIN fa = Users /\ DOMAIN ga = Users
      /\ \A u \in Users : /\ fq[u] = Queued(f[u].q4w) /\ gq[u] = Queued(g[u].q4w)
                          /\ fa[u] = f[u].shares /\ ga[u] = g[u].shares
  OBVIOUS
<1>3. /\ b.q4w = Total(fq) /\ b.shares = Total(fa) + Total(fq)
  BY DEF Agree
<1>4. Agree(c, g) <=> c.q4w = Total(gq) /\ c.shares = Total(ga) + Total(gq)
  BY DEF Agree
<1> HIDE DEF fq, gq, fa, ga
<1>5. /\ Total(fq) = SumOn(fq, Users) /\ Total(gq) = SumOn(gq, Users)
      /\ Total(fa) = SumOn(fa, Users) /\ Total(ga) = SumOn(ga, Users)
  BY <1>2 DEF Total, FoldFunction, SumOn
<1>6. \A u \in Users : fq[u] \in Nat /\ gq[u] \in Nat /\ fa[u] \in Nat /\ ga[u] \in Nat
  BY <1>1, <1>2
<1>7. \A u \in Users \ {v} : fq[u] = gq[u] /\ fa[u] = ga[u]
  BY <1>2
<1>8. \A u \in Users : fq[u] \in Int /\ gq[u] \in Int /\ fa[u] \in Int /\ ga[u] \in Int
  BY ONLY <1>6
<1>9. v \in Users /\ IsFiniteSet(Users)
  BY SharesAssumption
<1>10. SumOn(gq, Users) = SumOn(fq, Users) - fq[v] + gq[v]
  BY ONLY <1>7, <1>8, <1>9, SumChange
<1>11. SumOn(ga, Users) = SumOn(fa, Users) - fa[v] + ga[v]
  BY ONLY <1>7, <1>8, <1>9, SumChange
<1>12. /\ SumOn(fq, Users) \in Int /\ SumOn(fa, Users) \in Int
       /\ fq[v] \in Int /\ gq[v] \in Int /\ fa[v] \in Int /\ ga[v] \in Int
  BY ONLY <1>8, <1>9, SumInt
<1>13. /\ c.q4w = b.q4w + gq[v] - fq[v]
       /\ c.shares = b.shares + ga[v] - fa[v] + gq[v] - fq[v]
  BY <1>2
<1> QED BY ONLY <1>3, <1>4, <1>5, <1>10, <1>11, <1>12, <1>13

------------------------------------------------------------------------------
(* The invariant *)

\* No entry unlocks later than one queued now would: it is what keeps a queue in
\* order when an entry joins it.
NothingBeyondLock ==
  \A tier \in Tiers, u \in Users :
    \A i \in DOMAIN user[tier][u].q4w : user[tier][u].q4w[i].exp <= now + LockSeconds

IInv ==
  /\ SharesConserved
  /\ CustodySolvent
  /\ QueueOrdered
  /\ NothingBeyondLock

Balances == [shares : Nat, tokens : Nat, q4w : Nat]
Accounts == [shares : Nat, q4w : Seq(Entries)]

\* A queue in order, with nothing beyond the lock of the ledger time t.
Orderly(q4w, t) ==
  /\ \A i, j \in DOMAIN q4w : i < j => q4w[i].exp <= q4w[j].exp
  /\ \A i \in DOMAIN q4w : q4w[i].exp <= t + LockSeconds

LEMMA InvariantByParts ==
  IInv <=> /\ SharesTypeOK
           /\ \A t \in Tiers : Agree(pool[t], user[t])
           /\ \A t \in Tiers, u \in Users : Orderly(user[t][u].q4w, now)
           /\ CustodySolvent
BY DEF IInv, SharesConserved, Agree, QueueOrdered, NothingBeyondLock, Orderly

LEMMA InvariantByPartsNext ==
  IInv' <=> /\ SharesTypeOK'
            /\ \A t \in Tiers : Agree(pool'[t], user'[t])
            /\ \A t \in Tiers, u \in Users : Orderly(user'[t][u].q4w, now')
            /\ CustodySolvent'
BY DEF IInv, SharesConserved, Agree, QueueOrdered, NothingBeyondLock, Orderly

\* Every balance, account, and custody of a state the invariant describes.
LEMMA Typing ==
  ASSUME IInv
  PROVE  /\ SharesTypeOK /\ now \in Nat
         /\ pool \in [Tiers -> Balances] /\ user \in [Tiers -> [Users -> Accounts]]
         /\ \A t \in Tiers : /\ pool[t] \in Balances
                             /\ pool[t].shares \in Nat /\ pool[t].tokens \in Nat
                             /\ pool[t].q4w \in Nat
         /\ \A t \in Tiers, u \in Users :
              /\ user[t][u] \in Accounts
              /\ user[t][u].shares \in Nat /\ user[t][u].q4w \in Seq(Entries)
         /\ \A t \in Tiers : TokenOf[t] \in DOMAIN custody
         /\ \A token \in DOMAIN custody : custody[token] \in Nat
BY InvariantByParts DEF SharesTypeOK, Balances, Accounts

LEMMA QueuedIsAmount == ASSUME NEW q, q \in Seq(Entries) PROVE Queued(q) \in Nat
<1> DEFINE h == [k \in 1..Len(q) |-> q[k].amount]
<1>1. \A k \in 1..Len(q) : h[k] = q[k].amount
  OBVIOUS
<1> HIDE DEF h
<1> QED BY <1>1, QueuedAsSum

\* A step that changes one balance and one account of the same tier by as much.
LEMMA AccountMoves ==
  ASSUME IInv, NEW tier \in Tiers, NEW v \in Users,
         pool' \in [Tiers -> Balances], user' \in [Tiers -> [Users -> Accounts]],
         \A t \in Tiers \ {tier} : pool'[t] = pool[t] /\ user'[t] = user[t],
         \A u \in Users \ {v} : user'[tier][u] = user[tier][u],
         now' = now, Orderly(user'[tier][v].q4w, now),
         pool'[tier].q4w = pool[tier].q4w
                           + Queued(user'[tier][v].q4w) - Queued(user[tier][v].q4w),
         pool'[tier].shares = pool[tier].shares
                              + user'[tier][v].shares - user[tier][v].shares
                              + Queued(user'[tier][v].q4w) - Queued(user[tier][v].q4w)
  PROVE  /\ \A t \in Tiers : Agree(pool'[t], user'[t])
         /\ \A t \in Tiers, u \in Users : Orderly(user'[t][u].q4w, now')
<1>1. \A t \in Tiers : Agree(pool'[t], user'[t])
  <2> SUFFICES ASSUME NEW t \in Tiers PROVE Agree(pool'[t], user'[t])
    OBVIOUS
  <2>1. CASE t # tier
    BY <2>1, InvariantByParts
  <2>2. CASE t = tier
    <3> DEFINE b == pool[tier]
               c == pool'[tier]
               f == user[tier]
               g == user'[tier]
    <3>1. Agree(b, f)
      BY InvariantByParts
    <3>2. \A u \in Users : f[u].shares \in Nat /\ f[u].q4w \in Seq(Entries)
      BY Typing
    <3>3. \A u \in Users \ {v} : g[u] = f[u]
      OBVIOUS
    <3>4. \A u \in Users : g[u].shares \in Nat /\ g[u].q4w \in Seq(Entries)
      BY DEF Accounts
    <3>5. /\ c.q4w = b.q4w + Queued(g[v].q4w) - Queued(f[v].q4w)
          /\ c.shares = b.shares + g[v].shares - f[v].shares
                        + Queued(g[v].q4w) - Queued(f[v].q4w)
      OBVIOUS
    <3> HIDE DEF b, c, f, g
    <3>6. Agree(c, g)
      BY ONLY v \in Users, <3>1, <3>2, <3>3, <3>4, <3>5, AgreeAfterChange
    <3> QED BY <2>2, <3>6 DEF c, g
  <2> QED BY <2>1, <2>2
<1>2. \A t \in Tiers, u \in Users : Orderly(user'[t][u].q4w, now')
  <2> SUFFICES ASSUME NEW t \in Tiers, NEW u \in Users
               PROVE  Orderly(user'[t][u].q4w, now')
    OBVIOUS
  <2>1. CASE t = tier /\ u = v
    BY <2>1
  <2>2. CASE ~(t = tier /\ u = v)
    <3>1. user'[t][u] = user[t][u]
      BY <2>2
    <3> QED BY <3>1, InvariantByParts
  <2> QED BY <2>1, <2>2
<1> QED BY <1>1, <1>2

\* A step that moves tokens into or out of one tier, and of the contract.
LEMMA CustodyMoves ==
  ASSUME IInv, NEW tier \in Tiers, NEW d \in Int,
         \A t \in Tiers : pool'[t].tokens \in Nat,
         \A t \in Tiers \ {tier} : pool'[t].tokens = pool[t].tokens,
         pool'[tier].tokens = pool[tier].tokens + d,
         custody' \in [{TokenOf[t] : t \in Tiers} -> Nat],
         custody'[TokenOf[tier]] = custody[TokenOf[tier]] + d,
         \A token \in DOMAIN custody : token # TokenOf[tier] => custody'[token] = custody[token]
  PROVE  CustodySolvent'
<1>2. DOMAIN custody' = DOMAIN custody
  BY Typing DEF SharesTypeOK
<1>3. /\ custody'[TokenOf[tier]] = custody[TokenOf[tier]] + d
      /\ \A token \in DOMAIN custody : token # TokenOf[tier] => custody'[token] = custody[token]
  OBVIOUS
<1> DEFINE f == [t \in Tiers |-> pool[t].tokens]
           g == [t \in Tiers |-> pool'[t].tokens]
           S(token) == {t \in Tiers : TokenOf[t] = token}
<1>4. /\ \A t \in Tiers : f[t] = pool[t].tokens /\ f[t] \in Int /\ g[t] \in Int
      /\ g[tier] = f[tier] + d
      /\ \A t \in Tiers \ {tier} : f[t] = g[t]
  BY Typing
<1>5. \A token \in DOMAIN custody : custody[token] >= SumOn(f, S(token))
  BY InvariantByParts DEF CustodySolvent, TotalOn, SumOn
<1>6. ASSUME \A token \in DOMAIN custody' : custody'[token] >= SumOn(g, S(token))
      PROVE  CustodySolvent'
  <2>1. \A s, h : TotalOn(s, h) = SumOn(h, s)
    BY DEF TotalOn, SumOn
  <2>2. ASSUME \A token \in DOMAIN custody' : custody'[token] >= TotalOn(S(token), g)
        PROVE  CustodySolvent'
    BY <2>2 DEF CustodySolvent
  <2>3. \A token \in DOMAIN custody' : custody'[token] >= TotalOn(S(token), g)
    <3> HIDE DEF g, S
    <3> QED BY <1>6, <2>1
  <2> QED BY <2>2, <2>3
<1> HIDE DEF f, g
<1>7. ASSUME NEW T, T \subseteq Tiers
      PROVE  /\ SumOn(f, T) \in Int
             /\ SumOn(g, T) = IF tier \in T THEN SumOn(f, T) + d ELSE SumOn(f, T)
  <2>1. IsFiniteSet(T)
    BY <1>7, FS_Subset, SharesAssumption
  <2>2. \A t \in T : f[t] \in Int /\ g[t] \in Int
    BY <1>4, <1>7
  <2>3. SumOn(f, T) \in Int
    BY ONLY <2>1, <2>2, SumInt
  <2>4. ASSUME tier \in T PROVE SumOn(g, T) = SumOn(f, T) + d
    <3>1. \A t \in T \ {tier} : f[t] = g[t]
      BY <1>4, <1>7
    <3>2. SumOn(g, T) = SumOn(f, T) - f[tier] + g[tier]
      BY ONLY <2>1, <2>2, <2>4, <3>1, SumChange
    <3> QED BY <1>4, <2>3, <3>2
  <2>5. ASSUME tier \notin T PROVE SumOn(g, T) = SumOn(f, T)
    <3>1. \A t \in T : f[t] = g[t]
      BY <1>4, <1>7, <2>5
    <3> QED BY ONLY <2>1, <3>1, SumAgree
  <2> QED BY <2>3, <2>4, <2>5
<1>8. ASSUME NEW token \in DOMAIN custody
      PROVE  custody'[token] >= SumOn(g, S(token))
  <2>1. S(token) \subseteq Tiers /\ (tier \in S(token) <=> token = TokenOf[tier])
    OBVIOUS
  <2>2. custody[token] >= SumOn(f, S(token)) /\ custody[token] \in Nat
    BY <1>5, Typing
  <2> HIDE DEF S
  <2>3. /\ SumOn(f, S(token)) \in Int
        /\ SumOn(g, S(token)) = IF token = TokenOf[tier] THEN SumOn(f, S(token)) + d
                                ELSE SumOn(f, S(token))
    BY <1>7, <2>1
  <2>4. custody'[token] = IF token = TokenOf[tier] THEN custody[token] + d ELSE custody[token]
    BY <1>3
  <2> QED BY <2>2, <2>3, <2>4
<1> QED BY <1>2, <1>6, <1>8

LEMMA CustodyUntouched ==
  ASSUME IInv, custody' = custody, \A t \in Tiers : pool'[t].tokens = pool[t].tokens
  PROVE  CustodySolvent'
<1> DEFINE f == [t \in Tiers |-> pool[t].tokens]
           g == [t \in Tiers |-> pool'[t].tokens]
<1>1. f = g
  OBVIOUS
<1>2. \A token \in DOMAIN custody :
        custody[token] >= TotalOn({t \in Tiers : TokenOf[t] = token}, f)
  BY InvariantByParts DEF CustodySolvent
<1>3. \A token \in DOMAIN custody :
        custody'[token] >= TotalOn({t \in Tiers : TokenOf[t] = token}, g)
  <2> HIDE DEF f, g
  <2> QED BY <1>1, <1>2
<1> QED BY <1>3 DEF CustodySolvent

------------------------------------------------------------------------------
(* Conversions *)

LEMMA MintedIsAmount ==
  ASSUME NEW b \in Balances, NEW tokens \in Nat
  PROVE  ConvertToShares(b, tokens) \in Nat
<1>1. b.shares \in Nat /\ b.tokens \in Nat /\ tokens * b.shares \in Nat
  BY ProductNat DEF Balances
<1>2. ASSUME b.tokens # 0 PROVE (tokens * b.shares) \div b.tokens \in Nat
  <2>1. b.tokens \in Nat \ {0}
    BY <1>1, <1>2
  <2> QED BY <1>1, <2>1, DivisionBounds
<1> QED BY <1>1, <1>2 DEF ConvertToShares

LEMMA RedeemedIsAmount ==
  ASSUME NEW b \in Balances, NEW shares \in Nat
  PROVE  ConvertToTokens(b, shares) \in Nat
<1>1. b.shares \in Nat /\ b.tokens \in Nat /\ shares * b.tokens \in Nat
  BY ProductNat DEF Balances
<1>2. ASSUME b.shares # 0 PROVE (shares * b.tokens) \div b.shares \in Nat
  <2>1. b.shares \in Nat \ {0}
    BY <1>1, <1>2
  <2> QED BY <1>1, <2>1, DivisionBounds
<1> QED BY <1>1, <1>2 DEF ConvertToTokens

------------------------------------------------------------------------------
(* Steps *)

\* The parts of the state a step leaves alone.
LEMMA TypedNext ==
  ASSUME SharesTypeOK, now' \in Nat,
         pool' \in [Tiers -> Balances], user' \in [Tiers -> [Users -> Accounts]],
         custody' \in [{TokenOf[t] : t \in Tiers} -> Nat],
         badDebt' = badDebt, weightOpen' = weightOpen, permitted' = permitted
  PROVE  SharesTypeOK'
BY DEF SharesTypeOK, Balances, Accounts

LEMMA CreditPreserves ==
  ASSUME IInv, NEW tier \in Tiers, NEW u \in Users, NEW amount \in Nat,
         Credit(tier, u, amount), now' = now,
         badDebt' = badDebt, weightOpen' = weightOpen, permitted' = permitted
  PROVE  IInv'
<1>1. PICK minted \in Nat : minted = ConvertToShares(pool[tier], amount)
  BY Typing, MintedIsAmount
<1>2. /\ pool' = [pool EXCEPT ![tier].tokens = @ + amount, ![tier].shares = @ + minted]
      /\ user' = [user EXCEPT ![tier][u].shares = @ + minted]
      /\ custody' = [custody EXCEPT ![TokenOf[tier]] = @ + amount]
      /\ now' = now /\ badDebt' = badDebt /\ weightOpen' = weightOpen /\ permitted' = permitted
  BY <1>1 DEF Credit
<1>3. /\ pool' \in [Tiers -> Balances]
      /\ pool'[tier].q4w = pool[tier].q4w
      /\ pool'[tier].shares = pool[tier].shares + minted
      /\ pool'[tier].tokens = pool[tier].tokens + amount
      /\ \A t \in Tiers \ {tier} : pool'[t] = pool[t]
  <2>1. PICK b \in Balances : b = pool[tier]
    BY Typing
  <2> DEFINE c == [b EXCEPT !.tokens = @ + amount, !.shares = @ + minted]
  <2>2. /\ c \in Balances /\ c.q4w = b.q4w /\ c.shares = b.shares + minted
        /\ c.tokens = b.tokens + amount
    <3> DEFINE d == [b EXCEPT !.tokens = @ + amount]
    <3>1. d \in Balances /\ d.q4w = b.q4w /\ d.shares = b.shares /\ d.tokens = b.tokens + amount
      BY DEF Balances
    <3>2. c = [d EXCEPT !.shares = @ + minted]
      OBVIOUS
    <3> HIDE DEF d, c
    <3> QED BY <3>1, <3>2 DEF Balances
  <2>3. pool' = [pool EXCEPT ![tier] = c] /\ pool \in [Tiers -> Balances]
    BY <1>2, <2>1, Typing
  <2> HIDE DEF c
  <2> QED BY <2>1, <2>2, <2>3
<1>4. /\ user' \in [Tiers -> [Users -> Accounts]]
      /\ user'[tier][u].q4w = user[tier][u].q4w
      /\ user'[tier][u].shares = user[tier][u].shares + minted
      /\ \A v \in Users \ {u} : user'[tier][v] = user[tier][v]
      /\ \A t \in Tiers \ {tier} : user'[t] = user[t]
  <2>1. PICK b \in Accounts : b = user[tier][u]
    BY Typing
  <2> DEFINE c == [b EXCEPT !.shares = @ + minted]
  <2>2. c \in Accounts /\ c.q4w = b.q4w /\ c.shares = b.shares + minted
    BY DEF Accounts
  <2>3. /\ user' = [user EXCEPT ![tier] = [user[tier] EXCEPT ![u] = c]]
        /\ user \in [Tiers -> [Users -> Accounts]]
    BY <1>2, <2>1, Typing
  <2> HIDE DEF c
  <2> QED BY <2>1, <2>2, <2>3
<1>5. /\ custody' \in [{TokenOf[t] : t \in Tiers} -> Nat]
      /\ custody'[TokenOf[tier]] = custody[TokenOf[tier]] + amount
      /\ \A token \in DOMAIN custody : token # TokenOf[tier] => custody'[token] = custody[token]
  <2>1. custody' = [custody EXCEPT ![TokenOf[tier]] = @ + amount]
    BY <1>2
  <2>2. custody \in [{TokenOf[t] : t \in Tiers} -> Nat]
    BY Typing DEF SharesTypeOK
  <2> QED BY ONLY tier \in Tiers, amount \in Nat, <2>1, <2>2
<1>6. /\ pool'[tier].q4w = pool[tier].q4w
                           + Queued(user'[tier][u].q4w) - Queued(user[tier][u].q4w)
      /\ pool'[tier].shares = pool[tier].shares
                              + user'[tier][u].shares - user[tier][u].shares
                              + Queued(user'[tier][u].q4w) - Queued(user[tier][u].q4w)
  <2>1. /\ Queued(user[tier][u].q4w) \in Nat /\ user[tier][u].shares \in Nat
        /\ pool[tier].q4w \in Nat /\ pool[tier].shares \in Nat
    BY Typing, QueuedIsAmount
  <2> QED BY <1>1, <1>3, <1>4, <2>1
<1>7. /\ \A t \in Tiers : Agree(pool'[t], user'[t])
      /\ \A t \in Tiers, v \in Users : Orderly(user'[t][v].q4w, now')
  <2>1. now' = now /\ Orderly(user'[tier][u].q4w, now)
    BY <1>2, <1>4, InvariantByParts
  <2> QED BY ONLY IInv, tier \in Tiers, u \in Users, <1>3, <1>4, <1>6, <2>1, AccountMoves
<1>8. CustodySolvent'
  <2>1. /\ \A t \in Tiers : pool'[t].tokens \in Nat
        /\ \A t \in Tiers \ {tier} : pool'[t].tokens = pool[t].tokens
        /\ pool'[tier].tokens = pool[tier].tokens + amount
    BY <1>3 DEF Balances
  <2>2. amount \in Int
    OBVIOUS
  <2> QED BY ONLY IInv, tier \in Tiers, <1>5, <2>1, <2>2, CustodyMoves
<1>9. SharesTypeOK'
  BY <1>2, <1>3, <1>4, <1>5, Typing, TypedNext
<1> QED BY <1>7, <1>8, <1>9, InvariantByPartsNext

\* An entry that expires after all others joins the end of the queue.
LEMMA OrderlyAppended ==
  ASSUME NEW q, q \in Seq(Entries), NEW e \in Entries, NEW t \in Nat, Orderly(q, t),
         e.exp = t + LockSeconds
  PROVE  Orderly(Append(q, e), t)
<1> DEFINE p == Append(q, e)
           n == Len(q)
<1>1. /\ n \in Nat /\ DOMAIN q = 1..n /\ p \in Seq(Entries) /\ Len(p) = n + 1
      /\ \A k \in 1..n : p[k] = q[k]
      /\ p[n + 1] = e
  BY QueuedAppended, LenProperties
<1>2. DOMAIN p = 1..(n + 1)
  BY <1>1, LenProperties
<1> HIDE DEF p, n
<1>3. /\ \A i, j \in 1..n : i < j => q[i].exp <= q[j].exp
      /\ \A i \in 1..n : q[i].exp <= t + LockSeconds
  BY <1>1 DEF Orderly
<1>4. \A k \in 1..(n + 1) : p[k].exp <= t + LockSeconds
  BY <1>1, <1>3, SharesAssumption
<1>5. ASSUME NEW i \in 1..(n + 1), NEW j \in 1..(n + 1), i < j
      PROVE  p[i].exp <= p[j].exp
  <2>1. i \in 1..n
    BY <1>1, <1>5
  <2>2. CASE j = n + 1
    BY <1>1, <1>3, <2>1, <2>2
  <2>3. CASE j \in 1..n
    BY <1>1, <1>3, <1>5, <2>1, <2>3
  <2> QED BY <1>1, <2>2, <2>3
<1> QED BY <1>2, <1>4, <1>5 DEF Orderly, p

LEMMA QueuePreserves ==
  ASSUME IInv, NEW tier \in Tiers, NEW u \in Users, NEW amount \in Nat,
         QueueShares(tier, u, amount)
  PROVE  IInv'
<1> DEFINE e == [amount |-> amount, exp |-> now + LockSeconds]
           q == user[tier][u].q4w
           r == Append(q, e)
<1>1. /\ user' = [user EXCEPT ![tier][u].shares = @ - amount, ![tier][u].q4w = Append(@, e)]
      /\ pool' = [pool EXCEPT ![tier].q4w = @ + amount]
      /\ amount <= user[tier][u].shares
      /\ now' = now /\ custody' = custody
      /\ badDebt' = badDebt /\ weightOpen' = weightOpen /\ permitted' = permitted
  BY DEF QueueShares
<1>2. e \in Entries /\ e.amount = amount /\ e.exp = now + LockSeconds
  BY Typing, SharesAssumption DEF Entries
<1>3. r \in Seq(Entries) /\ Queued(r) = Queued(q) + amount /\ Orderly(r, now)
  <2>1. q \in Seq(Entries) /\ now \in Nat /\ Orderly(q, now)
    BY Typing, InvariantByParts
  <2> HIDE DEF e, q
  <2> QED BY <1>2, <2>1, QueuedAppended, OrderlyAppended
<1>4. /\ pool' \in [Tiers -> Balances]
      /\ pool'[tier].q4w = pool[tier].q4w + amount
      /\ pool'[tier].shares = pool[tier].shares
      /\ pool'[tier].tokens = pool[tier].tokens
      /\ \A t \in Tiers \ {tier} : pool'[t] = pool[t]
  BY <1>1, Typing DEF Balances
<1>5. /\ user' \in [Tiers -> [Users -> Accounts]]
      /\ user'[tier][u].q4w = r
      /\ user'[tier][u].shares = user[tier][u].shares - amount
      /\ \A v \in Users \ {u} : user'[tier][v] = user[tier][v]
      /\ \A t \in Tiers \ {tier} : user'[t] = user[t]
  <2>1. user' = [user EXCEPT ![tier][u].shares = @ - amount, ![tier][u].q4w = r]
    BY <1>1, Typing
  <2>2. user[tier][u].shares - amount \in Nat
    BY <1>1, Typing
  <2> HIDE DEF r
  <2> QED BY <1>3, <2>1, <2>2, Typing DEF Accounts
<1>6. /\ pool'[tier].q4w = pool[tier].q4w
                           + Queued(user'[tier][u].q4w) - Queued(user[tier][u].q4w)
      /\ pool'[tier].shares = pool[tier].shares
                              + user'[tier][u].shares - user[tier][u].shares
                              + Queued(user'[tier][u].q4w) - Queued(user[tier][u].q4w)
  <2>1. /\ Queued(q) \in Nat /\ user[tier][u].shares \in Nat
        /\ pool[tier].q4w \in Nat /\ pool[tier].shares \in Nat
    BY Typing, QueuedIsAmount
  <2>2. Queued(user'[tier][u].q4w) = Queued(user[tier][u].q4w) + amount
    <3> HIDE DEF r
    <3> QED BY <1>3, <1>5
  <2> HIDE DEF r, e
  <2> QED BY <1>4, <1>5, <2>1, <2>2
<1>7. /\ \A t \in Tiers : Agree(pool'[t], user'[t])
      /\ \A t \in Tiers, v \in Users : Orderly(user'[t][v].q4w, now')
  <2>1. now' = now /\ Orderly(user'[tier][u].q4w, now)
    BY <1>1, <1>3, <1>5
  <2>2. user' \in [Tiers -> [Users -> Accounts]]
    BY <1>5
  <2>3. /\ \A v \in Users \ {u} : user'[tier][v] = user[tier][v]
        /\ \A t \in Tiers \ {tier} : pool'[t] = pool[t] /\ user'[t] = user[t]
    BY <1>4, <1>5
  <2> HIDE DEF r, e, q
  <2> QED BY ONLY IInv, tier \in Tiers, u \in Users, <1>4, <1>6, <2>1, <2>2, <2>3, AccountMoves
<1>8. CustodySolvent'
  <2>1. \A t \in Tiers : pool'[t].tokens = pool[t].tokens
    BY <1>4
  <2> QED BY <1>1, <2>1, CustodyUntouched
<1>9. SharesTypeOK'
  BY <1>1, <1>4, <1>5, Typing, TypedNext DEF SharesTypeOK
<1> QED BY <1>7, <1>8, <1>9, InvariantByPartsNext

LEMMA DequeuePreserves ==
  ASSUME IInv, NEW tier \in Tiers, NEW u \in Users, NEW amount \in Nat,
         DequeueWithdrawal(tier, u, amount)
  PROVE  IInv'
<1>1. PICK w \in Accounts : w = user[tier][u]
  BY Typing
<1> DEFINE q == w.q4w
           r == RestOfOlder(q, amount)
<1>2. /\ Suffices(q, amount) /\ amount <= pool[tier].q4w
      /\ user' = [user EXCEPT ![tier][u].shares = @ + amount, ![tier][u].q4w = r]
      /\ pool' = [pool EXCEPT ![tier].q4w = @ - amount]
      /\ now' = now /\ custody' = custody
      /\ badDebt' = badDebt /\ weightOpen' = weightOpen /\ permitted' = permitted
  BY <1>1, Typing DEF DequeueWithdrawal
<1>3. r \in Seq(Entries) /\ Queued(r) = Queued(q) - amount /\ Orderly(r, now)
  <2>1. q \in Seq(Entries) /\ now \in Nat /\ Orderly(q, now)
    BY <1>1, Typing, InvariantByParts
  <2> HIDE DEF q
  <2>2. /\ r \in Seq(Entries) /\ Queued(r) = Queued(q) - amount
        /\ Len(r) <= Len(q) /\ \A i \in 1..Len(r) : r[i].exp = q[i].exp
    BY <1>2, <2>1, RestOfOlderQueue
  <2> HIDE DEF r
  <2>3. /\ DOMAIN q = 1..Len(q) /\ DOMAIN r = 1..Len(r) /\ 1..Len(r) \subseteq 1..Len(q)
    BY <2>1, <2>2, LenProperties
  <2>4. Orderly(r, now)
    BY <2>1, <2>2, <2>3 DEF Orderly
  <2> QED BY <2>2, <2>4
<1>4. /\ pool' \in [Tiers -> Balances]
      /\ pool'[tier].q4w = pool[tier].q4w - amount
      /\ pool'[tier].shares = pool[tier].shares
      /\ pool'[tier].tokens = pool[tier].tokens
      /\ \A t \in Tiers \ {tier} : pool'[t] = pool[t]
  <2>1. PICK b \in Balances : b = pool[tier]
    BY Typing
  <2> DEFINE c == [b EXCEPT !.q4w = @ - amount]
  <2>2. c \in Balances /\ c.q4w = b.q4w - amount /\ c.shares = b.shares /\ c.tokens = b.tokens
    BY <1>2, <2>1 DEF Balances
  <2>3. pool' = [pool EXCEPT ![tier] = c] /\ pool \in [Tiers -> Balances]
    BY <1>2, <2>1, Typing
  <2> HIDE DEF c
  <2> QED BY <2>1, <2>2, <2>3
<1>5. /\ user' \in [Tiers -> [Users -> Accounts]]
      /\ user'[tier][u].q4w = r
      /\ user'[tier][u].shares = user[tier][u].shares + amount
      /\ \A v \in Users \ {u} : user'[tier][v] = user[tier][v]
      /\ \A t \in Tiers \ {tier} : user'[t] = user[t]
  <2>1. PICK s \in Seq(Entries) : s = r
    BY <1>3
  <2> HIDE DEF r
  <2> DEFINE d == [w EXCEPT !.shares = @ + amount]
             c == [d EXCEPT !.q4w = s]
  <2>2. d \in Accounts /\ d.q4w = w.q4w /\ d.shares = w.shares + amount
    BY DEF Accounts
  <2>3. c \in Accounts /\ c.q4w = s /\ c.shares = d.shares
    <3> HIDE DEF d
    <3> QED BY <2>2 DEF Accounts
  <2>4. /\ user' = [user EXCEPT ![tier] = [user[tier] EXCEPT ![u] = c]]
        /\ user \in [Tiers -> [Users -> Accounts]]
    BY <1>1, <1>2, <2>1, Typing
  <2> HIDE DEF c, d
  <2> QED BY <1>1, <2>1, <2>2, <2>3, <2>4
<1>6. /\ pool'[tier].q4w = pool[tier].q4w
                           + Queued(user'[tier][u].q4w) - Queued(user[tier][u].q4w)
      /\ pool'[tier].shares = pool[tier].shares
                              + user'[tier][u].shares - user[tier][u].shares
                              + Queued(user'[tier][u].q4w) - Queued(user[tier][u].q4w)
  <2>1. /\ Queued(user[tier][u].q4w) \in Nat /\ user[tier][u].shares \in Nat
        /\ pool[tier].q4w \in Nat /\ pool[tier].shares \in Nat
    BY Typing, QueuedIsAmount
  <2>2. Queued(user'[tier][u].q4w) = Queued(user[tier][u].q4w) - amount
    <3> HIDE DEF r
    <3> QED BY <1>1, <1>3, <1>5
  <2> HIDE DEF r
  <2> QED BY <1>4, <1>5, <2>1, <2>2
<1>7. /\ \A t \in Tiers : Agree(pool'[t], user'[t])
      /\ \A t \in Tiers, v \in Users : Orderly(user'[t][v].q4w, now')
  <2>1. now' = now /\ Orderly(user'[tier][u].q4w, now)
    BY <1>2, <1>3, <1>5
  <2>2. user' \in [Tiers -> [Users -> Accounts]]
    BY <1>5
  <2>3. /\ \A v \in Users \ {u} : user'[tier][v] = user[tier][v]
        /\ \A t \in Tiers \ {tier} : pool'[t] = pool[t] /\ user'[t] = user[t]
    BY <1>4, <1>5
  <2> HIDE DEF r, q
  <2> QED BY ONLY IInv, tier \in Tiers, u \in Users, <1>4, <1>6, <2>1, <2>2, <2>3, AccountMoves
<1>8. CustodySolvent'
  <2>1. \A t \in Tiers : pool'[t].tokens = pool[t].tokens
    BY <1>4
  <2> QED BY <1>2, <2>1, CustodyUntouched
<1>9. SharesTypeOK'
  BY <1>2, <1>4, <1>5, Typing, TypedNext DEF SharesTypeOK
<1> QED BY <1>7, <1>8, <1>9, InvariantByPartsNext

LEMMA RedeemedBalance ==
  ASSUME NEW b \in Balances, NEW tokens \in Nat, NEW shares \in Nat,
         tokens <= b.tokens, shares <= b.shares, shares <= b.q4w
  PROVE  LET c == Redeem(b, tokens, shares)
         IN /\ c \in Balances
            /\ c.tokens = b.tokens - tokens
            /\ c.shares = b.shares - shares /\ c.q4w = b.q4w - shares
<1> DEFINE d == [b EXCEPT !.tokens = @ - tokens]
           e == [d EXCEPT !.shares = @ - shares]
           c == [e EXCEPT !.q4w = @ - shares]
<1>1. d \in Balances /\ d.tokens = b.tokens - tokens /\ d.shares = b.shares /\ d.q4w = b.q4w
  BY DEF Balances
<1>2. e \in Balances /\ e.tokens = d.tokens /\ e.shares = d.shares - shares /\ e.q4w = d.q4w
  <2> HIDE DEF d
  <2> QED BY <1>1 DEF Balances
<1>3. c \in Balances /\ c.tokens = e.tokens /\ c.shares = e.shares /\ c.q4w = e.q4w - shares
  <2> HIDE DEF e
  <2> QED BY <1>1, <1>2 DEF Balances
<1>4. Redeem(b, tokens, shares) = c
  BY DEF Redeem
<1> HIDE DEF c, d, e
<1> QED BY <1>1, <1>2, <1>3, <1>4

LEMMA RedeemPreserves ==
  ASSUME IInv, NEW tier \in Tiers, NEW u \in Users, NEW amount \in Nat,
         RedeemShares(tier, u, amount)
  PROVE  IInv'
<1>1. PICK w \in Accounts, b \in Balances : w = user[tier][u] /\ b = pool[tier]
  BY Typing
<1>2. PICK tokens \in Nat : tokens = ConvertToTokens(b, amount)
  BY RedeemedIsAmount
<1> DEFINE q == w.q4w
           r == Rest(q, amount)
           c == Redeem(b, tokens, amount)
<1>3. /\ Suffices(q, amount)
      /\ tokens <= b.tokens /\ amount <= b.shares /\ amount <= b.q4w
      /\ user' = [user EXCEPT ![tier][u].q4w = r]
      /\ pool' = [pool EXCEPT ![tier] = c]
      /\ tokens <= custody[TokenOf[tier]]
      /\ custody' = [custody EXCEPT ![TokenOf[tier]] = @ - tokens]
      /\ now' = now
      /\ badDebt' = badDebt /\ weightOpen' = weightOpen /\ permitted' = permitted
  BY <1>1, <1>2, Typing DEF RedeemShares, CanTakeMatured
<1>4. r \in Seq(Entries) /\ Queued(r) = Queued(q) - amount /\ Orderly(r, now)
  <2>1. q \in Seq(Entries) /\ now \in Nat /\ Orderly(q, now)
    BY <1>1, Typing, InvariantByParts
  <2> HIDE DEF q
  <2>2. /\ r \in Seq(Entries) /\ Queued(r) = Queued(q) - amount
        /\ \E k \in 0..Len(q) : /\ Len(r) = Len(q) - k
                                /\ \A i \in 1..Len(r) : r[i].exp = q[i + k].exp
    BY <1>3, <2>1, RestOfQueue
  <2> HIDE DEF r
  <2>3. PICK k \in 0..Len(q) : /\ Len(r) = Len(q) - k
                               /\ \A i \in 1..Len(r) : r[i].exp = q[i + k].exp
    BY <2>2
  <2>4. /\ DOMAIN q = 1..Len(q) /\ DOMAIN r = 1..Len(r) /\ Len(q) \in Nat
    BY <2>1, <2>2, LenProperties
  <2>5. \A i \in DOMAIN r : i + k \in DOMAIN q /\ r[i].exp = q[i + k].exp /\ i \in Int
    BY <2>3, <2>4
  <2>6. Orderly(r, now)
    <3>1. ASSUME NEW i \in DOMAIN r, NEW j \in DOMAIN r, i < j
          PROVE  r[i].exp <= r[j].exp
      <4>1. i + k < j + k /\ i + k \in DOMAIN q /\ j + k \in DOMAIN q
        BY <2>5, <3>1
      <4> QED BY <2>1, <2>5, <4>1 DEF Orderly
    <3>2. \A i \in DOMAIN r : r[i].exp <= now + LockSeconds
      BY <2>1, <2>5 DEF Orderly
    <3> QED BY <3>1, <3>2 DEF Orderly
  <2> QED BY <2>2, <2>6
<1>5. /\ pool' \in [Tiers -> Balances]
      /\ pool'[tier].q4w = pool[tier].q4w - amount
      /\ pool'[tier].shares = pool[tier].shares - amount
      /\ pool'[tier].tokens = pool[tier].tokens - tokens
      /\ \A t \in Tiers \ {tier} : pool'[t] = pool[t]
  <2>1. /\ c \in Balances /\ c.tokens = b.tokens - tokens
        /\ c.shares = b.shares - amount /\ c.q4w = b.q4w - amount
    BY <1>3, RedeemedBalance
  <2> HIDE DEF c
  <2>2. pool \in [Tiers -> Balances] /\ pool' = [pool EXCEPT ![tier] = c]
    BY <1>3, Typing
  <2> QED BY <1>1, <2>1, <2>2
<1> HIDE DEF c
<1>6. /\ user' \in [Tiers -> [Users -> Accounts]]
      /\ user'[tier][u].q4w = r
      /\ user'[tier][u].shares = user[tier][u].shares
      /\ \A v \in Users \ {u} : user'[tier][v] = user[tier][v]
      /\ \A t \in Tiers \ {tier} : user'[t] = user[t]
  <2>1. PICK s \in Seq(Entries) : s = r
    BY <1>4
  <2> HIDE DEF r
  <2> DEFINE d == [w EXCEPT !.q4w = s]
  <2>2. d \in Accounts /\ d.q4w = s /\ d.shares = w.shares
    BY DEF Accounts
  <2>3. /\ user' = [user EXCEPT ![tier] = [user[tier] EXCEPT ![u] = d]]
        /\ user \in [Tiers -> [Users -> Accounts]]
    BY <1>1, <1>3, <2>1, Typing
  <2> HIDE DEF d
  <2> QED BY <1>1, <2>1, <2>2, <2>3
<1>7. /\ custody' \in [{TokenOf[t] : t \in Tiers} -> Nat]
      /\ custody'[TokenOf[tier]] = custody[TokenOf[tier]] + (-tokens)
      /\ \A token \in DOMAIN custody : token # TokenOf[tier] => custody'[token] = custody[token]
  <2>1. /\ custody' = [custody EXCEPT ![TokenOf[tier]] = @ - tokens]
        /\ tokens <= custody[TokenOf[tier]]
    BY <1>3
  <2>2. custody \in [{TokenOf[t] : t \in Tiers} -> Nat]
    BY Typing DEF SharesTypeOK
  <2> HIDE DEF r, q
  <2> QED BY ONLY tier \in Tiers, tokens \in Nat, <2>1, <2>2
<1>8. /\ pool'[tier].q4w = pool[tier].q4w
                           + Queued(user'[tier][u].q4w) - Queued(user[tier][u].q4w)
      /\ pool'[tier].shares = pool[tier].shares
                              + user'[tier][u].shares - user[tier][u].shares
                              + Queued(user'[tier][u].q4w) - Queued(user[tier][u].q4w)
  <2>1. /\ Queued(user[tier][u].q4w) \in Nat /\ user[tier][u].shares \in Nat
        /\ pool[tier].q4w \in Nat /\ pool[tier].shares \in Nat
    BY Typing, QueuedIsAmount
  <2>2. Queued(user'[tier][u].q4w) = Queued(user[tier][u].q4w) - amount
    <3> HIDE DEF r
    <3> QED BY <1>1, <1>4, <1>6
  <2> HIDE DEF r
  <2> QED BY <1>5, <1>6, <2>1, <2>2
<1>9. /\ \A t \in Tiers : Agree(pool'[t], user'[t])
      /\ \A t \in Tiers, v \in Users : Orderly(user'[t][v].q4w, now')
  <2>1. now' = now /\ Orderly(user'[tier][u].q4w, now)
    BY <1>3, <1>4, <1>6
  <2>2. user' \in [Tiers -> [Users -> Accounts]]
    BY <1>6
  <2>3. /\ \A v \in Users \ {u} : user'[tier][v] = user[tier][v]
        /\ \A t \in Tiers \ {tier} : pool'[t] = pool[t] /\ user'[t] = user[t]
    BY <1>5, <1>6
  <2> HIDE DEF r, q
  <2> QED BY ONLY IInv, tier \in Tiers, u \in Users, <1>5, <1>8, <2>1, <2>2, <2>3, AccountMoves
<1>10. CustodySolvent'
  <2>1. /\ \A t \in Tiers : pool'[t].tokens \in Nat
        /\ \A t \in Tiers \ {tier} : pool'[t].tokens = pool[t].tokens
    BY <1>5 DEF Balances
  <2>2. pool'[tier].tokens = pool[tier].tokens + (-tokens) /\ -tokens \in Int
    BY <1>5, Typing
  <2> HIDE DEF r, q
  <2> QED BY ONLY IInv, tier \in Tiers, <1>7, <2>1, <2>2, CustodyMoves
<1>11. SharesTypeOK'
  BY <1>3, <1>5, <1>6, <1>7, Typing, TypedNext
<1> QED BY <1>9, <1>10, <1>11, InvariantByPartsNext

\* A change of a tier's tokens alone.
LEMMA TokensMove ==
  ASSUME IInv, NEW tier \in Tiers, NEW d \in Int,
         pool' = [pool EXCEPT ![tier].tokens = @ + d], pool[tier].tokens + d \in Nat,
         custody' = [custody EXCEPT ![TokenOf[tier]] = @ + d],
         custody[TokenOf[tier]] + d \in Nat,
         now' = now, user' = user,
         badDebt' = badDebt, weightOpen' = weightOpen, permitted' = permitted
  PROVE  IInv'
<1>1. PICK b \in Balances : b = pool[tier]
  BY Typing
<1> DEFINE c == [b EXCEPT !.tokens = @ + d]
<1>2. c \in Balances /\ c.q4w = b.q4w /\ c.shares = b.shares /\ c.tokens = b.tokens + d
  <2>1. b.tokens + d \in Nat
    BY <1>1
  <2> QED BY ONLY b \in Balances, <2>1 DEF Balances
<1>3. pool' = [pool EXCEPT ![tier] = c] /\ pool \in [Tiers -> Balances]
  BY <1>1, Typing
<1> HIDE DEF c
<1>4. /\ pool' \in [Tiers -> Balances] /\ pool'[tier].tokens = pool[tier].tokens + d
      /\ \A t \in Tiers : pool'[t].q4w = pool[t].q4w /\ pool'[t].shares = pool[t].shares
      /\ \A t \in Tiers \ {tier} : pool'[t] = pool[t]
  BY <1>1, <1>2, <1>3
<1>5. /\ custody' \in [{TokenOf[t] : t \in Tiers} -> Nat]
      /\ custody'[TokenOf[tier]] = custody[TokenOf[tier]] + d
      /\ \A token \in DOMAIN custody : token # TokenOf[tier] => custody'[token] = custody[token]
  <2>1. /\ custody' = [custody EXCEPT ![TokenOf[tier]] = @ + d]
        /\ custody[TokenOf[tier]] + d \in Nat
    OBVIOUS
  <2>2. custody \in [{TokenOf[t] : t \in Tiers} -> Nat]
    BY Typing DEF SharesTypeOK
  <2> QED BY ONLY tier \in Tiers, d \in Int, <2>1, <2>2
<1>6. CustodySolvent'
  <2>1. /\ \A t \in Tiers : pool'[t].tokens \in Nat
        /\ \A t \in Tiers \ {tier} : pool'[t].tokens = pool[t].tokens
        /\ pool'[tier].tokens = pool[tier].tokens + d
    BY <1>4 DEF Balances
  <2> QED BY ONLY IInv, tier \in Tiers, d \in Int, <1>5, <2>1, CustodyMoves
<1>7. \A t \in Tiers : Agree(pool'[t], user'[t])
  BY <1>4, InvariantByParts DEF Agree
<1>8. \A t \in Tiers, u \in Users : Orderly(user'[t][u].q4w, now')
  BY InvariantByParts
<1>9. SharesTypeOK'
  BY <1>4, <1>5, Typing, TypedNext
<1> QED BY <1>6, <1>7, <1>8, <1>9, InvariantByPartsNext

LEMMA DrawPreserves ==
  ASSUME IInv, NEW tier \in Tiers, NEW amount \in Nat, Draw(tier, amount)
  PROVE  IInv'
<1>1. /\ pool' = [pool EXCEPT ![tier] = DrawnFrom(pool[tier], amount)]
      /\ custody' = [custody EXCEPT ![TokenOf[tier]] = @ - amount]
      /\ amount <= pool[tier].tokens /\ amount <= custody[TokenOf[tier]]
      /\ now' = now /\ user' = user
      /\ badDebt' = badDebt /\ weightOpen' = weightOpen /\ permitted' = permitted
  BY Typing DEF Draw
<1> DEFINE d == -amount
<1>2. /\ d \in Int /\ pool[tier].tokens + d \in Nat /\ custody[TokenOf[tier]] + d \in Nat
      /\ pool[tier].tokens - amount = pool[tier].tokens + d
      /\ custody[TokenOf[tier]] - amount = custody[TokenOf[tier]] + d
  BY <1>1, Typing
<1>3. /\ pool' = [pool EXCEPT ![tier].tokens = @ + d]
      /\ custody' = [custody EXCEPT ![TokenOf[tier]] = @ + d]
  <2>1. DrawnFrom(pool[tier], amount) = [pool[tier] EXCEPT !.tokens = pool[tier].tokens + d]
    BY <1>2 DEF DrawnFrom
  <2>2. pool' = [pool EXCEPT ![tier] = [pool[tier] EXCEPT !.tokens = pool[tier].tokens + d]]
    BY <1>1, <2>1
  <2>3. custody' = [custody EXCEPT ![TokenOf[tier]] = @ + d]
    BY <1>1, <1>2
  <2> QED BY <2>2, <2>3
<1> HIDE DEF d
<1> QED BY <1>1, <1>2, <1>3, TokensMove

LEMMA DonatePreserves ==
  ASSUME IInv, NEW tier \in Tiers, NEW amount \in Nat, Donate(tier, amount)
  PROVE  IInv'
<1>1. /\ pool' = [pool EXCEPT ![tier].tokens = @ + amount]
      /\ custody' = [custody EXCEPT ![TokenOf[tier]] = @ + amount]
      /\ now' = now /\ user' = user
      /\ badDebt' = badDebt /\ weightOpen' = weightOpen /\ permitted' = permitted
  BY DEF Donate
<1>2. /\ amount \in Int /\ pool[tier].tokens + amount \in Nat
      /\ custody[TokenOf[tier]] + amount \in Nat
  BY Typing
<1> QED BY <1>1, <1>2, TokensMove

\* The clock, the pool's debt, the emitter, and the access controller.
LEMMA EnvironmentPreserves ==
  ASSUME IInv, \/ Tick \/ ToggleBadDebt \/ ToggleWeight \/ \E u \in Users : SetPermission(u)
               \/ UNCHANGED sharesVars
  PROVE  IInv'
<1>1. /\ pool' = pool /\ user' = user /\ custody' = custody
      /\ now' \in Nat /\ now <= now'
      /\ badDebt' \in BOOLEAN /\ weightOpen' \in BOOLEAN /\ permitted' \subseteq Users
  <2>1. /\ now \in Nat /\ badDebt \in BOOLEAN /\ weightOpen \in BOOLEAN
        /\ permitted \subseteq Users
    BY Typing DEF SharesTypeOK
  <2>2. CASE Tick
    BY <2>1, <2>2 DEF Tick
  <2>3. CASE ToggleBadDebt
    BY <2>1, <2>3 DEF ToggleBadDebt
  <2>4. CASE ToggleWeight
    BY <2>1, <2>4 DEF ToggleWeight
  <2>5. ASSUME NEW u \in Users, SetPermission(u)
        PROVE  /\ pool' = pool /\ user' = user /\ custody' = custody
               /\ now' \in Nat /\ now <= now'
               /\ badDebt' \in BOOLEAN /\ weightOpen' \in BOOLEAN /\ permitted' \subseteq Users
    BY <2>1, <2>5 DEF SetPermission
  <2>6. CASE UNCHANGED sharesVars
    BY <2>1, <2>6 DEF sharesVars
  <2> QED BY <2>2, <2>3, <2>4, <2>5, <2>6
<1>2. SharesTypeOK'
  BY <1>1, Typing DEF SharesTypeOK
<1>3. \A t \in Tiers : Agree(pool'[t], user'[t])
  BY <1>1, InvariantByParts
<1>4. \A t \in Tiers, u \in Users : Orderly(user'[t][u].q4w, now')
  <2> SUFFICES ASSUME NEW t \in Tiers, NEW u \in Users, NEW q, q = user[t][u].q4w
               PROVE  Orderly(q, now')
    BY <1>1
  <2>1. Orderly(q, now) /\ DOMAIN q = 1..Len(q) /\ \A i \in 1..Len(q) : q[i] \in Entries
    BY Typing, InvariantByParts, LenProperties
  <2>2. \A i \in DOMAIN q : q[i].exp \in Nat
    BY <2>1 DEF Entries
  <2>3. now + LockSeconds <= now' + LockSeconds /\ now + LockSeconds \in Int
        /\ now' + LockSeconds \in Int
    BY <1>1, Typing, SharesAssumption
  <2> QED BY <2>1, <2>2, <2>3 DEF Orderly
<1>5. CustodySolvent'
  BY <1>1, CustodyUntouched
<1> QED BY <1>2, <1>3, <1>4, <1>5, InvariantByPartsNext

LEMMA InitIInv == SharesInit => IInv
<1> SUFFICES ASSUME SharesInit PROVE IInv
  OBVIOUS
<1>1. SharesTypeOK
  <2>1. <<>> \in Seq(Entries)
    BY EmptySeq
  <2> QED BY <2>1 DEF SharesInit, SharesTypeOK
<1>2. /\ \A t \in Tiers : pool[t] = [shares |-> 0, tokens |-> 0, q4w |-> 0]
      /\ \A t \in Tiers, u \in Users : user[t][u].shares = 0 /\ user[t][u].q4w = <<>>
      /\ \A token \in DOMAIN custody : custody[token] = 0
  BY DEF SharesInit
<1>3. Queued(<<>>) = 0
  <2> DEFINE f == [i \in DOMAIN <<>> |-> <<>>[i].amount]
  <2>1. DOMAIN f = {}
    OBVIOUS
  <2>2. Queued(<<>>) = SumOn(f, {})
    BY <2>1 DEF Queued, FoldFunction, SumOn
  <2> HIDE DEF f
  <2> QED BY <2>2, SumEmpty
<1>4. ASSUME NEW f, DOMAIN f = Users, \A u \in Users : f[u] = 0
      PROVE  Total(f) = 0
  <2>1. Total(f) = SumOn(f, Users)
    BY <1>4 DEF Total, FoldFunction, SumOn
  <2>2. IsFiniteSet(Users)
    BY SharesAssumption
  <2> QED BY <1>4, <2>1, <2>2, SumZero
<1>5. \A t \in Tiers : Agree(pool[t], user[t])
  <2> SUFFICES ASSUME NEW t \in Tiers PROVE Agree(pool[t], user[t])
    OBVIOUS
  <2> DEFINE f == [u \in Users |-> Queued(user[t][u].q4w)]
             g == [u \in Users |-> user[t][u].shares]
  <2>1. DOMAIN f = Users /\ DOMAIN g = Users /\ \A u \in Users : f[u] = 0 /\ g[u] = 0
    BY <1>2, <1>3
  <2>2. Total(f) = 0 /\ Total(g) = 0
    <3> HIDE DEF f, g
    <3> QED BY <1>4, <2>1
  <2> QED BY <1>2, <2>2 DEF Agree
<1>6. \A t \in Tiers, u \in Users : Orderly(user[t][u].q4w, now)
  BY <1>2 DEF Orderly
<1>7. CustodySolvent
  <2> DEFINE f == [t \in Tiers |-> pool[t].tokens]
             S(token) == {t \in Tiers : TokenOf[t] = token}
  <2>1. \A t \in Tiers : f[t] = 0
    BY <1>2
  <2>2. ASSUME NEW token \in DOMAIN custody PROVE custody[token] >= TotalOn(S(token), f)
    <3>1. TotalOn(S(token), f) = SumOn(f, S(token))
      BY DEF TotalOn, SumOn
    <3>2. S(token) \subseteq Tiers
      OBVIOUS
    <3> HIDE DEF f, S
    <3>3. IsFiniteSet(S(token)) /\ \A t \in S(token) : f[t] = 0
      BY <2>1, <3>2, FS_Subset, SharesAssumption
    <3>4. SumOn(f, S(token)) = 0
      BY ONLY <3>3, SumZero
    <3> QED BY <1>2, <3>1, <3>4
  <2> QED BY <2>2 DEF CustodySolvent
<1> QED BY <1>1, <1>5, <1>6, <1>7, InvariantByParts

LEMMA NextIInv == IInv /\ [SharesNext]_sharesVars => IInv'
<1> SUFFICES ASSUME IInv, [SharesNext]_sharesVars PROVE IInv'
  OBVIOUS
<1> USE SharesAssumption
<1>1. ASSUME NEW tier \in Tiers, NEW u \in Users, NEW amount \in Amounts,
             Deposit(tier, u, amount) \/ CompoundClaim(tier, u, amount)
      PROVE  IInv'
  <2>1. /\ Credit(tier, u, amount) /\ now' = now
        /\ badDebt' = badDebt /\ weightOpen' = weightOpen /\ permitted' = permitted
    BY <1>1 DEF Deposit, CompoundClaim
  <2> QED BY <2>1, CreditPreserves
<1>2. ASSUME NEW tier \in Tiers, NEW u \in Users, NEW amount \in Amounts,
             QueueWithdrawal(tier, u, amount)
      PROVE  IInv'
  BY <1>2, QueuePreserves DEF QueueWithdrawal
<1>3. ASSUME NEW tier \in Tiers, NEW u \in Users, NEW amount \in Amounts,
             DequeueWithdrawal(tier, u, amount)
      PROVE  IInv'
  BY <1>3, DequeuePreserves
<1>4. ASSUME NEW tier \in Tiers, NEW u \in Users, NEW amount \in Amounts,
             Withdraw(tier, u, amount)
      PROVE  IInv'
  BY <1>4, RedeemPreserves DEF Withdraw
<1>5. ASSUME NEW tier \in Tiers, NEW u \in Users, ForceQueueWithdrawal(tier, u)
      PROVE  IInv'
  <2>1. user[tier][u].shares \in Nat
    BY Typing
  <2> QED BY <1>5, <2>1, QueuePreserves DEF ForceQueueWithdrawal
<1>6. ASSUME NEW tier \in Tiers, NEW u \in Users, ForceWithdrawal(tier, u)
      PROVE  IInv'
  <2>1. MaturedShares(user[tier][u].q4w) \in Nat
    BY Typing, MaturedIsPart
  <2> QED BY <1>6, <2>1, RedeemPreserves DEF ForceWithdrawal
<1>7. ASSUME NEW tier \in Tiers, NEW amount \in Amounts, Draw(tier, amount)
      PROVE  IInv'
  BY <1>7, DrawPreserves
<1>8. ASSUME NEW tier \in Tiers, NEW amount \in Amounts, Donate(tier, amount)
      PROVE  IInv'
  BY <1>8, DonatePreserves
<1>9. CASE \/ Tick \/ ToggleBadDebt \/ ToggleWeight \/ \E u \in Users : SetPermission(u)
           \/ UNCHANGED sharesVars
  BY <1>9, EnvironmentPreserves
<1> QED BY <1>1, <1>2, <1>3, <1>4, <1>5, <1>6, <1>7, <1>8, <1>9 DEF SharesNext

LEMMA Invariance == SharesSpec => []IInv
BY InitIInv, NextIInv, PTL DEF SharesSpec

------------------------------------------------------------------------------
(* The rate *)

\* What a step does to the balances: tokens reach a tier as shares, shares are
\* redeemed, or the number of shares stays.
LEMMA SharesChange ==
  ASSUME IInv, [SharesNext]_sharesVars, NEW t \in Tiers
  PROVE  \/ \E amount \in Nat :
              /\ pool'[t].tokens = pool[t].tokens + amount
              /\ pool'[t].shares = pool[t].shares + ConvertToShares(pool[t], amount)
              /\ ConvertToShares(pool[t], amount) > 0
         \/ \E amount \in Nat :
              /\ pool'[t].tokens = pool[t].tokens - ConvertToTokens(pool[t], amount)
              /\ pool'[t].shares = pool[t].shares - amount
              /\ ConvertToTokens(pool[t], amount) <= pool[t].tokens
              /\ amount <= pool[t].shares
         \/ pool'[t].shares = pool[t].shares
<1> DEFINE Goal == \/ \E amount \in Nat :
                        /\ pool'[t].tokens = pool[t].tokens + amount
                        /\ pool'[t].shares = pool[t].shares + ConvertToShares(pool[t], amount)
                        /\ ConvertToShares(pool[t], amount) > 0
                   \/ \E amount \in Nat :
                        /\ pool'[t].tokens = pool[t].tokens - ConvertToTokens(pool[t], amount)
                        /\ pool'[t].shares = pool[t].shares - amount
                        /\ ConvertToTokens(pool[t], amount) <= pool[t].tokens
                        /\ amount <= pool[t].shares
                   \/ pool'[t].shares = pool[t].shares
<1> USE SharesAssumption
<1>1. ASSUME NEW tier \in Tiers, NEW u \in Users, NEW amount \in Nat, Credit(tier, u, amount)
      PROVE  Goal
  <2>1. PICK minted \in Nat : minted = ConvertToShares(pool[tier], amount)
    BY Typing, MintedIsAmount
  <2>2. /\ pool' = [pool EXCEPT ![tier].tokens = @ + amount, ![tier].shares = @ + minted]
        /\ minted > 0
    BY <1>1, <2>1 DEF Credit
  <2>3. CASE t = tier
    <3>1. /\ pool'[t].tokens = pool[t].tokens + amount
          /\ pool'[t].shares = pool[t].shares + minted
      BY <2>2, <2>3, Typing DEF Balances
    <3> QED BY <2>1, <2>2, <2>3, <3>1
  <2>4. CASE t # tier
    BY <2>2, <2>4, Typing
  <2> QED BY <2>3, <2>4
<1>2. ASSUME NEW tier \in Tiers, NEW u \in Users, NEW amount \in Nat,
             RedeemShares(tier, u, amount)
      PROVE  Goal
  <2>1. PICK b \in Balances : b = pool[tier]
    BY Typing
  <2>2. PICK tokens \in Nat : tokens = ConvertToTokens(b, amount)
    BY RedeemedIsAmount
  <2> DEFINE c == Redeem(b, tokens, amount)
  <2>3. /\ tokens <= b.tokens /\ amount <= b.shares /\ amount <= b.q4w
        /\ pool' = [pool EXCEPT ![tier] = c]
    BY <1>2, <2>1, <2>2, Typing DEF RedeemShares
  <2>4. c.tokens = b.tokens - tokens /\ c.shares = b.shares - amount
    BY <2>3, RedeemedBalance
  <2> HIDE DEF c
  <2>5. CASE t = tier
    <3>1. pool'[t] = c
      BY <2>3, <2>5, Typing
    <3> QED BY <2>1, <2>2, <2>3, <2>4, <2>5, <3>1
  <2>6. CASE t # tier
    BY <2>3, <2>6, Typing
  <2> QED BY <2>5, <2>6
<1> DEFINE Kept == pool'[t].shares = pool[t].shares
<1>3. ASSUME NEW tier \in Tiers, NEW u \in Users, NEW amount \in Nat,
             QueueShares(tier, u, amount)
      PROVE  Kept
  <2>1. pool' = [pool EXCEPT ![tier].q4w = @ + amount]
    BY <1>3 DEF QueueShares
  <2> QED BY <2>1, Typing DEF Balances
<1>4. ASSUME NEW tier \in Tiers, NEW u \in Users, NEW amount \in Nat,
             DequeueWithdrawal(tier, u, amount)
      PROVE  Kept
  <2>1. pool' = [pool EXCEPT ![tier].q4w = @ - amount]
    BY <1>4 DEF DequeueWithdrawal
  <2> QED BY <2>1, Typing DEF Balances
<1>5. ASSUME NEW tier \in Tiers, NEW amount \in Nat, Draw(tier, amount) PROVE Kept
  <2>1. pool' = [pool EXCEPT ![tier] = DrawnFrom(pool[tier], amount)]
    BY <1>5, Typing DEF Draw
  <2>2. DrawnFrom(pool[tier], amount).shares = pool[tier].shares
    BY Typing DEF DrawnFrom, Balances
  <2> QED BY <2>1, <2>2, Typing
<1>6. ASSUME NEW tier \in Tiers, NEW amount \in Nat, Donate(tier, amount) PROVE Kept
  <2>1. pool' = [pool EXCEPT ![tier].tokens = @ + amount]
    BY <1>6 DEF Donate
  <2> QED BY <2>1, Typing DEF Balances
<1>7. ASSUME NEW tier \in Tiers, NEW u \in Users, NEW amount \in Amounts,
             Deposit(tier, u, amount) \/ CompoundClaim(tier, u, amount)
      PROVE  Goal
  <2>1. Credit(tier, u, amount)
    BY <1>7 DEF Deposit, CompoundClaim
  <2> QED BY <1>1, <2>1
<1>8. ASSUME NEW tier \in Tiers, NEW u \in Users, NEW amount \in Amounts,
             QueueWithdrawal(tier, u, amount) \/ DequeueWithdrawal(tier, u, amount)
      PROVE  Kept
  BY <1>3, <1>4, <1>8 DEF QueueWithdrawal
<1>9. ASSUME NEW tier \in Tiers, NEW u \in Users, NEW amount \in Amounts,
             Withdraw(tier, u, amount)
      PROVE  Goal
  BY <1>2, <1>9 DEF Withdraw
<1>10. ASSUME NEW tier \in Tiers, NEW u \in Users, ForceQueueWithdrawal(tier, u)
       PROVE  Kept
  <2>1. user[tier][u].shares \in Nat
    BY Typing
  <2> QED BY <1>3, <1>10, <2>1 DEF ForceQueueWithdrawal
<1>11. ASSUME NEW tier \in Tiers, NEW u \in Users, ForceWithdrawal(tier, u)
       PROVE  Goal
  <2>1. MaturedShares(user[tier][u].q4w) \in Nat
    BY Typing, MaturedIsPart
  <2> QED BY <1>2, <1>11, <2>1 DEF ForceWithdrawal
<1>12. ASSUME \/ Tick \/ ToggleBadDebt \/ ToggleWeight \/ \E u \in Users : SetPermission(u)
              \/ UNCHANGED sharesVars
       PROVE  Kept
  <2>1. pool' = pool
    BY <1>12 DEF Tick, ToggleBadDebt, ToggleWeight, SetPermission, sharesVars
  <2> QED BY <2>1
<1>13. Kept => Goal
  OBVIOUS
<1>15. ASSUME NEW tier \in Tiers, NEW amount \in Amounts,
              Draw(tier, amount) \/ Donate(tier, amount)
       PROVE  Kept
  BY <1>5, <1>6, <1>15
<1> HIDE DEF Goal, Kept
<1>14. Goal
  <2>1. CASE SharesNext
    BY <1>7, <1>8, <1>9, <1>10, <1>11, <1>12, <1>13, <1>15, <2>1 DEF SharesNext
  <2>2. CASE UNCHANGED sharesVars
    BY <1>12, <1>13, <2>2
  <2> QED BY <2>1, <2>2
<1> QED BY <1>14 DEF Goal

\* Products of the deposit: what it brings is worth at least the shares minted for
\* it at the old rate, and less than one share more.
LEMMA MintedRate ==
  ASSUME NEW T \in Nat \ {0}, NEW S \in Nat, NEW a \in Nat, NEW m \in Nat,
         m = (a * S) \div T
  PROVE  (T + a) * S >= T * (S + m) /\ (m + 1) * (T + a) >= a * (S + m)
<1>1. a * S \in Nat
  BY ProductNat
<1>2. T * m <= a * S /\ a * S < T * m + T
  BY <1>1, DivisionBounds
<1>3. /\ T * m \in Nat /\ T * S \in Nat /\ a * m \in Nat
      /\ (T + a) * S = T * S + a * S /\ T * (S + m) = T * S + T * m
  BY ProductNat
<1>4. (m + 1) * (T + a) = T * m + T + a * m + a /\ a * (S + m) = a * S + a * m
  OBVIOUS
<1> QED BY <1>1, <1>2, <1>3, <1>4

\* A redemption takes no more than its shares are worth.
LEMMA RedeemedRate ==
  ASSUME NEW T \in Nat, NEW S \in Nat \ {0}, NEW n \in Nat, NEW k \in Nat,
         k = (n * T) \div S
  PROVE  (T - k) * S >= T * (S - n)
<1>1. n * T \in Nat
  BY ProductNat
<1>2. S * k <= n * T
  BY <1>1, DivisionBounds
<1>3. (T - k) * S = T * S - S * k /\ T * (S - n) = T * S - n * T
  OBVIOUS
<1>4. S * k \in Nat /\ T * S \in Nat
  BY ProductNat
<1> QED BY <1>1, <1>2, <1>3, <1>4

Undiluted(old, new) ==
  new.shares # old.shares /\ old.shares # 0 /\ new.shares # 0
    => new.tokens * old.shares >= old.tokens * new.shares

KeepsValue(old, new) ==
  new.shares > old.shares
    => (new.shares - old.shares + 1) * new.tokens >= (new.tokens - old.tokens) * new.shares

LEMMA CreditKeepsRate ==
  ASSUME NEW b \in Balances, NEW c, NEW amount \in Nat,
         c.tokens = b.tokens + amount, c.shares = b.shares + ConvertToShares(b, amount),
         ConvertToShares(b, amount) > 0
  PROVE  Undiluted(b, c) /\ KeepsValue(b, c)
<1>1. PICK m \in Nat : m = ConvertToShares(b, amount)
  BY MintedIsAmount
<1>2. PICK S \in Nat, T \in Nat : S = b.shares /\ T = b.tokens
  BY DEF Balances
<1>3. c.tokens = T + amount /\ c.shares = S + m /\ m > 0
  BY <1>1, <1>2
<1>4. m = IF S = 0 THEN amount ELSE IF T = 0 THEN 0 ELSE (amount * S) \div T
  BY <1>1, <1>2 DEF ConvertToShares
<1>5. CASE S = 0
  <2>1. m = amount /\ c.shares = amount /\ c.tokens = T + amount /\ b.shares = 0
    BY <1>2, <1>3, <1>4, <1>5
  <2>2. (amount + 1) * (T + amount) >= amount * amount
    <3>1. amount * T \in Nat /\ amount * amount \in Nat
      BY ProductNat
    <3>2. (amount + 1) * (T + amount) = amount * T + amount * amount + T + amount
      OBVIOUS
    <3> QED BY <3>1, <3>2
  <2>3. c.tokens - b.tokens = amount /\ c.shares - b.shares + 1 = amount + 1
    BY <1>2, <2>1
  <2>4. (c.shares - b.shares + 1) * c.tokens >= (c.tokens - b.tokens) * c.shares
    BY <2>1, <2>2, <2>3
  <2> QED BY <2>1, <2>4 DEF Undiluted, KeepsValue
<1>6. CASE S # 0
  <2>1. T \in Nat \ {0} /\ m = (amount * S) \div T
    BY <1>3, <1>4, <1>6
  <2>2. (T + amount) * S >= T * (S + m) /\ (m + 1) * (T + amount) >= amount * (S + m)
    BY <2>1, MintedRate
  <2>3. c.tokens - b.tokens = amount /\ c.shares - b.shares + 1 = m + 1
    BY <1>2, <1>3
  <2>4. /\ c.tokens * b.shares >= b.tokens * c.shares
        /\ (c.shares - b.shares + 1) * c.tokens >= (c.tokens - b.tokens) * c.shares
    BY <1>2, <1>3, <2>2, <2>3
  <2> QED BY <2>4 DEF Undiluted, KeepsValue
<1> QED BY <1>5, <1>6

LEMMA RedeemKeepsRate ==
  ASSUME NEW b \in Balances, NEW c, NEW amount \in Nat,
         c.tokens = b.tokens - ConvertToTokens(b, amount), c.shares = b.shares - amount,
         ConvertToTokens(b, amount) <= b.tokens, amount <= b.shares
  PROVE  Undiluted(b, c) /\ KeepsValue(b, c)
<1>1. PICK k \in Nat : k = ConvertToTokens(b, amount)
  BY RedeemedIsAmount
<1>2. PICK S \in Nat, T \in Nat : S = b.shares /\ T = b.tokens
  BY DEF Balances
<1>3. c.tokens = T - k /\ c.shares = S - amount /\ amount <= S
  BY <1>1, <1>2
<1>4. KeepsValue(b, c)
  BY <1>2, <1>3 DEF KeepsValue
<1>5. Undiluted(b, c)
  <2> SUFFICES ASSUME c.shares # 0 PROVE c.tokens * b.shares >= b.tokens * c.shares
    BY DEF Undiluted
  <2>1. S \in Nat \ {0} /\ S # amount
    BY <1>3
  <2>2. k = (amount * T) \div S
    BY <1>1, <1>2, <2>1 DEF ConvertToTokens
  <2>3. (T - k) * S >= T * (S - amount)
    BY <2>1, <2>2, RedeemedRate
  <2> QED BY <1>2, <1>3, <2>3
<1> QED BY <1>4, <1>5

LEMMA RatesKept ==
  ASSUME IInv, [SharesNext]_sharesVars, NEW t \in Tiers
  PROVE  Undiluted(pool[t], pool'[t]) /\ KeepsValue(pool[t], pool'[t])
<1>1. pool[t] \in Balances /\ pool[t].shares \in Nat
  BY Typing
<1>2. ASSUME NEW amount \in Nat,
             pool'[t].tokens = pool[t].tokens + amount,
             pool'[t].shares = pool[t].shares + ConvertToShares(pool[t], amount),
             ConvertToShares(pool[t], amount) > 0
      PROVE  Undiluted(pool[t], pool'[t]) /\ KeepsValue(pool[t], pool'[t])
  BY <1>1, <1>2, CreditKeepsRate
<1>3. ASSUME NEW amount \in Nat,
             pool'[t].tokens = pool[t].tokens - ConvertToTokens(pool[t], amount),
             pool'[t].shares = pool[t].shares - amount,
             ConvertToTokens(pool[t], amount) <= pool[t].tokens,
             amount <= pool[t].shares
      PROVE  Undiluted(pool[t], pool'[t]) /\ KeepsValue(pool[t], pool'[t])
  BY <1>1, <1>3, RedeemKeepsRate
<1>4. ASSUME pool'[t].shares = pool[t].shares
      PROVE  Undiluted(pool[t], pool'[t]) /\ KeepsValue(pool[t], pool'[t])
  BY <1>1, <1>4 DEF Undiluted, KeepsValue
<1> QED BY <1>2, <1>3, <1>4, SharesChange

------------------------------------------------------------------------------
(* The theorems *)

\* The balance of every tier and the accounts of its depositors are the same ledger
\* (pool.rs and user.rs), for queues of any length: partial withdrawals, dequeues, and
\* forced exits, which walk the entries from either end, take from both the same.
THEOREM SharesStayConserved == SharesSpec => []SharesConserved
<1>1. IInv => SharesConserved
  BY DEF IInv
<1> QED BY <1>1, Invariance, PTL

\* The contract's balance of a token covers all tiers that use it, for any number of
\* tiers over one token: every payment is written off the tier it is made from.
THEOREM CustodyStaysSolvent == SharesSpec => []CustodySolvent
<1>1. IInv => CustodySolvent
  BY DEF IInv
<1> QED BY <1>1, Invariance, PTL

\* A queue stays ordered by expiration whatever is appended to it, taken from its
\* front, or dequeued from its end with an entry left in part (user.rs).
THEOREM QueuesStayOrdered == SharesSpec => []QueueOrdered
<1>1. IInv => QueueOrdered
  BY DEF IInv
<1> QED BY <1>1, Invariance, PTL

\* No deposit, compounded claim, or redemption of another depositor lowers the tokens
\* per share of a tier: convert_to_shares and convert_to_tokens round for the tier.
THEOREM SharesAreNotDiluted == SharesSpec => NoDilution
<1>1. IInv /\ [SharesNext]_sharesVars =>
        [\A tier \in Tiers :
           LET old == pool[tier] new == pool'[tier]
           IN new.shares # old.shares /\ old.shares # 0 /\ new.shares # 0
                => new.tokens * old.shares >= old.tokens * new.shares]_sharesVars
  BY RatesKept DEF Undiluted
<1> QED BY <1>1, Invariance, PTL DEF SharesSpec, NoDilution

\* What a deposit loses to the rounding of its shares is less than one share, at any
\* rate, and a deposit into a worthless tier fails (convert_to_shares).
THEOREM DepositsKeepTheirValue == SharesSpec => DepositKeepsValue
<1>1. IInv /\ [SharesNext]_sharesVars =>
        [\A tier \in Tiers :
           LET old == pool[tier] new == pool'[tier]
           IN new.shares > old.shares
                => (new.shares - old.shares + 1) * new.tokens
                     >= (new.tokens - old.tokens) * new.shares]_sharesVars
  BY RatesKept DEF KeepsValue
<1> QED BY <1>1, Invariance, PTL DEF SharesSpec, DepositKeepsValue

=============================================================================
