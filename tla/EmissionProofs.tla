----------------------------- MODULE EmissionProofs -----------------------------
(***************************************************************************)
(* Theorems about EmissionStreams and ReserveEmissions, for every finite   *)
(* set of pools, tiers, depositors, and reserve tokens, all deposits and   *)
(* weights, and every rate, scale, and period.                             *)
(***************************************************************************)
EXTENDS ReserveEmissions, LedgerLemmas

------------------------------------------------------------------------------
(* The invariant *)

\* A stream was not checkpointed in the future, and one that has ended has released
\* what its rate rounded off.
StreamOK(s) ==
  /\ s \in StreamRecord
  /\ s.last <= now
  /\ s.last >= s.expiration => s.scheduleCarry = 0

\* Nobody is ahead of the index of the stream, and the balance of the tier is what its
\* depositors hold, active and queued: the shares an index is divided by are those it
\* is paid to.
TierOK(pos, s, b) ==
  /\ StreamOK(s)
  /\ \A u \in Users : pos[u].index <= s.index
  /\ ActiveShares(b) = Sum([u \in Users |-> pos[u].shares], Users)
  /\ b.q4w = Sum([u \in Users |-> pos[u].q4w], Users)

TiersInOrder == \A p \in Pools, t \in Tiers : TierOK(position[p][t], stream[p][t], balance[p][t])

BackstopInv ==
  /\ EveryTokenIsAccounted
  /\ ClaimsAreFunded
  /\ WeightsAreCurrent
  /\ TiersInOrder

\* The same of the token of a reserve.  One without a schedule never emitted, so that
\* nobody is owed anything.
TokenOK(hs, e) ==
  /\ e.last <= now
  /\ \A u \in Users : hs[u].index <= e.index
  /\ e.expiration = Never => e = NoEmission /\ \A u \in Users : hs[u].accrued = 0

TokensInOrder == \A k \in ResTokens : TokenOK(holder[k], emission[k])

ReserveInv == ReserveStreamsPayTheirTranche /\ TokensInOrder

IInv == BackstopInv /\ ReserveInv /\ GrantsCoverTheStreams

------------------------------------------------------------------------------
(* Records and remainders *)

Accounts == [shares : Nat, q4w : Nat, accrued : Nat, carry : 0..Scale*Scale-1, index : Nat]
Balances == [shares : Nat, q4w : Nat, tokens : Nat]
Histories == [gulped : Nat, unearned : Nat]

LEMMA SumIsSumOn == \A f, S : Sum(f, S) = SumOn(f, S)
BY DEF Sum, SumOn

\* A quotient and its remainder make up the number.
LEMMA QuotientAndRest ==
  \A a \in Nat, b \in Nat \ {0} :
    a \div b \in Nat /\ a % b \in 0..b-1 /\ b * (a \div b) + (a % b) = a
OBVIOUS

\* What a checkpoint releases is what the schedule has less.
LEMMA ReleasedIsScheduled ==
  ASSUME NEW s, StreamOK(s), now \in Nat,
         NEW d, d.last = now, d.expiration = s.expiration, d.eps = s.eps,
         d.scheduleCarry = IF s.last < s.expiration /\ s.expiration <= now THEN 0
                           ELSE s.scheduleCarry
  PROVE  /\ Released(s) \in Nat /\ Unreleased(d) \in Nat /\ Unreleased(s) \in Nat
         /\ Unreleased(d) + Released(s) = Unreleased(s)
         /\ d.last >= d.expiration => d.scheduleCarry = 0
         /\ Least(now, s.expiration) <= s.last => Released(s) = 0
<1> DEFINE last == s.last
           expiration == s.expiration
           eps == s.eps
           rest == s.scheduleCarry
<1>1. /\ last \in Nat /\ eps \in Nat /\ rest \in Nat /\ expiration \in Int /\ last <= now
      /\ last >= expiration => rest = 0
  BY StreamsAssumption DEF StreamOK, StreamRecord, Never
<1>2. Released(s) = IF Least(now, expiration) <= last THEN 0
                    ELSE (Least(now, expiration) - last) * eps
                         + IF Least(now, expiration) = expiration THEN rest ELSE 0
  BY DEF Released
<1>3. Unreleased(s) = IF last < expiration THEN (expiration - last) * eps + rest ELSE 0
  BY DEF Unreleased
<1>4. Unreleased(d) = IF now < expiration
                      THEN (expiration - now) * eps
                           + (IF last < expiration /\ expiration <= now THEN 0 ELSE rest)
                      ELSE 0
  BY DEF Unreleased
<1>5. \A a, b \in Nat : a * b \in Nat
  BY ProductNat
<1> HIDE DEF last, expiration, eps, rest
<1>6. CASE last >= expiration
  <2>1. Released(s) = 0 /\ Unreleased(s) = 0 /\ Unreleased(d) = 0
    BY <1>1, <1>2, <1>3, <1>4, <1>6 DEF Least
  <2> QED BY <1>1, <1>6, <2>1 DEF last, expiration, rest
<1>7. CASE last < expiration /\ expiration <= now
  <2>1. expiration - last \in Nat /\ (expiration - last) * eps \in Nat
    BY <1>1, <1>5, <1>7
  <2>2. /\ Released(s) = (expiration - last) * eps + rest
        /\ Unreleased(s) = (expiration - last) * eps + rest /\ Unreleased(d) = 0
    BY <1>1, <1>2, <1>3, <1>4, <1>7 DEF Least
  <2>3. d.scheduleCarry = 0
    BY <1>7 DEF last, expiration, rest
  <2>4. ~(Least(now, expiration) <= last)
    BY <1>1, <1>7 DEF Least
  <2> QED BY <1>1, <2>1, <2>2, <2>3, <2>4 DEF expiration, last
<1>8. CASE last < expiration /\ now < expiration
  <2> DEFINE before == (now - last) * eps
             after == (expiration - now) * eps
             whole == (expiration - last) * eps
  <2>1. before \in Nat /\ after \in Nat /\ whole \in Nat
    BY <1>1, <1>5, <1>8
  <2>2. whole = after + before
    <3>1. \A a, b, c \in Int : (a + b) * c = a * c + b * c
      OBVIOUS
    <3>2. expiration - last = (expiration - now) + (now - last)
      BY <1>1
    <3> QED BY <1>1, <3>1, <3>2
  <2>3. Unreleased(s) = whole + rest /\ Unreleased(d) = after + rest
    BY <1>1, <1>3, <1>4, <1>8
  <2>4. Released(s) = before /\ (Least(now, expiration) <= last => before = 0)
    <3>1. Least(now, expiration) = now
      BY <1>1, <1>8 DEF Least
    <3>2. CASE now <= last
      <4>1. now - last = 0
        BY <1>1, <3>2
      <4> QED BY <1>1, <1>2, <3>1, <3>2, <4>1
    <3>3. CASE ~(now <= last)
      <4>1. now # expiration
        BY <1>1, <1>8
      <4> QED BY <1>1, <1>2, <2>1, <3>1, <3>3, <4>1
    <3> QED BY <3>2, <3>3
  <2>5. d.last < d.expiration /\ d.last \in Nat /\ d.expiration \in Int
    BY <1>1, <1>8 DEF expiration
  <2> HIDE DEF before, after, whole
  <2> QED BY <1>1, <2>1, <2>2, <2>3, <2>4, <2>5 DEF expiration, last
<1> QED BY <1>1, <1>6, <1>7, <1>8

\* The advance of a stream moves what it releases into the index, or loses it when
\* there is nobody to earn it.
LEMMA AdvanceIsExact ==
  ASSUME NEW s, StreamOK(s), now \in Nat, NEW shares \in Nat
  PROVE  LET d == Advanced(s, shares)
             lost == IF shares = 0 THEN Released(s) ELSE 0
         IN /\ StreamOK(d)
            /\ d.index >= s.index /\ lost \in Nat
            /\ Unreleased(d) \in Nat /\ Unreleased(s) \in Nat
            /\ shares * (d.index - s.index) + d.indexCarry + (Unreleased(d) + lost) * Scale
                 = s.indexCarry + Unreleased(s) * Scale
            /\ Most(0, d.expiration - now) * d.eps + d.scheduleCarry = Unreleased(d)
<1> DEFINE d == Advanced(s, shares)
           lost == IF shares = 0 THEN Released(s) ELSE 0
           ended == s.last < s.expiration /\ s.expiration <= now
           moved == [s EXCEPT !.last = now, !.scheduleCarry = IF ended THEN 0 ELSE @]
           n == Released(s) * Scale + s.indexCarry
<1>1. /\ s.index \in Nat /\ s.indexCarry \in Nat /\ s.eps \in Nat /\ s.last \in Nat
      /\ s.expiration \in Nat \cup {Never} /\ s.scheduleCarry \in 0..StreamTicks-1
      /\ Scale \in Nat \ {0} /\ StreamTicks \in Nat \ {0}
  BY StreamsAssumption DEF StreamOK, StreamRecord
<1>2. CASE s = NoStream
  <2>1. d = s
    BY <1>2 DEF Advanced
  <2>2. /\ s.last = 0 /\ s.expiration = Never /\ s.scheduleCarry = 0 /\ s.eps = 0
        /\ s.index = 0 /\ s.indexCarry = 0
    BY <1>2 DEF NoStream
  <2>3. Released(s) = 0 /\ Unreleased(s) = 0
    BY <2>2 DEF Released, Unreleased, Never, Least
  <2>4. Most(0, s.expiration - now) = 0
    BY <2>2 DEF Most, Never
  <2>5. shares * (0 - 0) = 0 /\ (0 + 0) * Scale = 0 /\ 0 * Scale = 0
    BY <1>1
  <2>6. lost = 0
    BY <2>3
  <2> HIDE DEF d, lost
  <2>7. shares * (d.index - s.index) + d.indexCarry + (Unreleased(d) + lost) * Scale
          = s.indexCarry + Unreleased(s) * Scale
    BY <2>1, <2>2, <2>3, <2>5, <2>6
  <2>8. Most(0, d.expiration - now) * d.eps + d.scheduleCarry = Unreleased(d)
    BY <2>1, <2>2, <2>3, <2>4
  <2> QED BY <1>1, <2>1, <2>3, <2>6, <2>7, <2>8 DEF d, lost
<1>3. CASE s # NoStream
  <2>1. /\ moved \in StreamRecord /\ moved.last = now /\ moved.expiration = s.expiration
        /\ moved.eps = s.eps /\ moved.index = s.index /\ moved.indexCarry = s.indexCarry
        /\ moved.scheduleCarry = IF ended THEN 0 ELSE s.scheduleCarry
    <3>1. 0 \in 0..StreamTicks-1
      BY <1>1
    <3> QED BY <1>1, <3>1 DEF StreamOK, StreamRecord
  <2> HIDE DEF moved
  <2>2. /\ Released(s) \in Nat /\ Unreleased(moved) \in Nat /\ Unreleased(s) \in Nat
        /\ Unreleased(moved) + Released(s) = Unreleased(s)
        /\ moved.last >= moved.expiration => moved.scheduleCarry = 0
        /\ Least(now, s.expiration) <= s.last => Released(s) = 0
    BY <2>1, ReleasedIsScheduled
  <2>3. Most(0, moved.expiration - now) * moved.eps + moved.scheduleCarry = Unreleased(moved)
    <3>1. CASE now < s.expiration
      <4>1. Most(0, moved.expiration - now) = s.expiration - now
        BY <1>1, <2>1, <3>1 DEF Most, Never
      <4> QED BY <2>1, <3>1, <4>1 DEF Unreleased
    <3>2. CASE ~(now < s.expiration)
      <4>1. Most(0, moved.expiration - now) = 0 /\ moved.scheduleCarry = 0 /\ 0 * s.eps = 0
        BY <1>1, <2>1, <2>2, <3>2 DEF Most, Never
      <4> QED BY <2>1, <3>2, <4>1 DEF Unreleased
    <3> QED BY <3>1, <3>2
  <2>4. Unreleased(s) * Scale = Unreleased(moved) * Scale + Released(s) * Scale
    <3>1. \A a, b, c \in Int : (a + b) * c = a * c + b * c
      OBVIOUS
    <3> QED BY <1>1, <2>2, <3>1
  <2>5. /\ Unreleased(moved) * Scale \in Int /\ Released(s) * Scale \in Nat
        /\ (Unreleased(moved) + Released(s)) * Scale
             = Unreleased(moved) * Scale + Released(s) * Scale
        /\ (Unreleased(moved) + 0) * Scale = Unreleased(moved) * Scale
    BY <1>1, <2>2, ProductNat
  <2>6. CASE shares = 0 \/ Least(now, s.expiration) <= s.last
    <3>1. d = moved
      BY <1>3, <2>6 DEF Advanced, moved
    <3>2. lost \in Nat /\ lost = Released(s)
      BY <2>2, <2>6
    <3>3. shares * (s.index - s.index) = 0
      BY <1>1
    <3>4. StreamOK(d)
      BY <2>1, <2>2, <3>1 DEF StreamOK
    <3> HIDE DEF d, lost
    <3>5. d.index >= s.index
      BY <1>1, <2>1, <3>1
    <3>6. shares * (d.index - s.index) + d.indexCarry + (Unreleased(d) + lost) * Scale
            = s.indexCarry + Unreleased(s) * Scale
      BY <1>1, <2>1, <2>2, <2>4, <2>5, <3>1, <3>2, <3>3
    <3> QED BY <2>2, <2>3, <3>1, <3>2, <3>4, <3>5, <3>6 DEF d, lost
  <2>7. CASE shares # 0 /\ ~(Least(now, s.expiration) <= s.last)
    <3>1. d = [moved EXCEPT !.index = @ + n \div shares, !.indexCarry = n % shares]
      BY <1>3, <2>7 DEF Advanced, moved
    <3>2. n \in Nat
      BY <1>1, <2>5
    <3> HIDE DEF n
    <3>3. n \div shares \in Nat /\ n % shares \in Nat /\ shares * (n \div shares) + (n % shares) = n
      BY <2>7, <3>2, QuotientAndRest
    <3>4. /\ d \in StreamRecord /\ d.last = now /\ d.expiration = s.expiration
          /\ d.eps = s.eps /\ d.index = s.index + n \div shares /\ d.indexCarry = n % shares
          /\ d.scheduleCarry = moved.scheduleCarry
      <4> DEFINE q == n \div shares
                 m == n % shares
      <4>1. d = [moved EXCEPT !.index = @ + q, !.indexCarry = m] /\ q \in Nat /\ m \in Nat
        BY <3>1, <3>3
      <4>2. moved.index + q \in Nat /\ moved.index = s.index
        BY <1>1, <2>1, <4>1
      <4> HIDE DEF q, m
      <4>3. d \in StreamRecord /\ d.index = s.index + q /\ d.indexCarry = m
        BY <2>1, <4>1, <4>2 DEF StreamRecord
      <4>4. /\ d.last = moved.last /\ d.expiration = moved.expiration /\ d.eps = moved.eps
            /\ d.scheduleCarry = moved.scheduleCarry
        BY <2>1, <4>1 DEF StreamRecord
      <4> QED BY <2>1, <4>3, <4>4 DEF q, m
    <3>5. StreamOK(d)
      BY <2>1, <2>2, <3>4 DEF StreamOK
    <3>6. lost = 0
      BY <2>7
    <3>7. Unreleased(d) = Unreleased(moved)
      BY <2>1, <3>4 DEF Unreleased
    <3> HIDE DEF d, lost
    <3>8. d.index - s.index = n \div shares /\ d.index >= s.index
      BY <1>1, <3>3, <3>4
    <3>9. shares * (d.index - s.index) + d.indexCarry + (Unreleased(d) + lost) * Scale
            = s.indexCarry + Unreleased(s) * Scale
      BY <1>1, <2>2, <2>4, <2>5, <3>3, <3>4, <3>6, <3>7, <3>8 DEF n
    <3> QED BY <2>1, <2>2, <2>3, <3>4, <3>5, <3>6, <3>7, <3>8, <3>9 DEF d, lost
  <2> QED BY <2>6, <2>7
<1> QED BY <1>2, <1>3

\* A restart schedules what it was given, with all that was not released.
LEMMA RestartIsExact ==
  ASSUME NEW s, StreamOK(s), now \in Nat, NEW pending \in Nat, Unreleased(s) \in Nat,
         Most(0, s.expiration - now) * s.eps + s.scheduleCarry = Unreleased(s)
  PROVE  LET d == Restarted(s, pending)
         IN /\ StreamOK(d) /\ d.index = s.index /\ d.indexCarry = s.indexCarry
            /\ Unreleased(d) = pending * Scale + Unreleased(s)
<1> DEFINE total == pending * Scale + Unreleased(s)
           d == Restarted(s, pending)
<1>1. Scale \in Nat \ {0} /\ StreamTicks \in Nat \ {0}
  BY StreamsAssumption
<1>2. total \in Nat
  BY <1>1, ProductNat
<1>3. d = [s EXCEPT !.eps = total \div StreamTicks, !.scheduleCarry = total % StreamTicks,
                    !.expiration = now + StreamTicks, !.last = now]
  <2>1. pending * Scale + Most(0, s.expiration - now) * s.eps + s.scheduleCarry = total
    <3>1. s.eps \in Nat /\ s.scheduleCarry \in Nat /\ s.expiration \in Int
      BY StreamsAssumption DEF StreamOK, StreamRecord, Never
    <3>2. Most(0, s.expiration - now) \in Nat
      BY <3>1 DEF Most
    <3>3. Most(0, s.expiration - now) * s.eps \in Nat /\ pending * Scale \in Nat
      BY <1>1, <3>1, <3>2, ProductNat
    <3> QED BY <3>1, <3>3
  <2> HIDE DEF total
  <2> QED BY <2>1 DEF Restarted
<1> HIDE DEF total
<1>4. /\ total \div StreamTicks \in Nat /\ total % StreamTicks \in 0..StreamTicks-1
      /\ StreamTicks * (total \div StreamTicks) + (total % StreamTicks) = total
  BY <1>1, <1>2, QuotientAndRest
<1>5. /\ d \in StreamRecord /\ d.index = s.index /\ d.indexCarry = s.indexCarry
      /\ d.last = now /\ d.expiration = now + StreamTicks
      /\ d.eps = total \div StreamTicks /\ d.scheduleCarry = total % StreamTicks
  <2>1. s \in StreamRecord /\ now + StreamTicks \in Nat \cup {Never}
    BY <1>1 DEF StreamOK
  <2> QED BY <1>3, <1>4, <2>1 DEF StreamRecord
<1> HIDE DEF d
<1>6. StreamOK(d)
  BY <1>1, <1>5 DEF StreamOK
<1>7. Unreleased(d) = total
  <2>1. now < now + StreamTicks /\ (now + StreamTicks) - now = StreamTicks
    BY <1>1
  <2> QED BY <1>4, <1>5, <2>1 DEF Unreleased
<1> QED BY <1>5, <1>6, <1>7 DEF d, total

\* The settlement of a depositor loses nothing to rounding.
LEMMA AccrualIsExact ==
  ASSUME NEW user \in Accounts, NEW index \in Nat, user.index <= index
  PROVE  LET c == Accrued(user, index)
         IN /\ c \in Accounts /\ c.index = index
            /\ c.shares = user.shares /\ c.q4w = user.q4w
            /\ c.accrued * Scale * Scale + c.carry
                 = user.accrued * Scale * Scale + user.carry + user.shares * (index - user.index)
<1> DEFINE c == Accrued(user, index)
           n == user.shares * (index - user.index) + user.carry
           square == Scale * Scale
<1>1. square \in Nat \ {0} /\ Scale \in Nat
  BY StreamsAssumption
<1>2. /\ user.shares \in Nat /\ user.index \in Nat /\ user.carry \in 0..square-1
      /\ user.accrued \in Nat /\ user.q4w \in Nat
  BY DEF Accounts
<1>3. n \in Nat /\ user.shares * (index - user.index) \in Nat
  <2>1. index - user.index \in Nat /\ user.carry \in Nat
    BY <1>1, <1>2
  <2> QED BY <1>2, <2>1, ProductNat
<1>4. c = [user EXCEPT !.accrued = @ + n \div square, !.carry = n % square, !.index = index]
  BY DEF Accrued
<1>5. \A a \in Int : a * Scale * Scale = a * square /\ a * square \in Int
  BY <1>1
<1>6. n = user.shares * (index - user.index) + user.carry
  OBVIOUS
<1> HIDE DEF n, square
<1>7. /\ n \div square \in Nat /\ n % square \in 0..square-1
      /\ square * (n \div square) + (n % square) = n
  BY <1>1, <1>3, QuotientAndRest
<1>8. /\ c \in Accounts /\ c.index = index /\ c.shares = user.shares /\ c.q4w = user.q4w
      /\ c.accrued = user.accrued + n \div square /\ c.carry = n % square
  <2>1. Accounts = [shares : Nat, q4w : Nat, accrued : Nat, carry : 0..square-1, index : Nat]
    BY DEF Accounts, square
  <2>2. user.accrued + n \div square \in Nat
    BY <1>2, <1>7
  <2> QED BY <1>4, <1>7, <2>1, <2>2
<1> HIDE DEF c
<1>9. c.accrued * square = user.accrued * square + square * (n \div square)
  <2>1. \A a, b, x \in Int : (a + b) * x = a * x + x * b
    OBVIOUS
  <2> QED BY <1>1, <1>2, <1>7, <1>8, <2>1
<1>10. c.accrued * Scale * Scale = c.accrued * square /\ c.accrued * square \in Int
  <2>1. c.accrued \in Int
    BY <1>8 DEF Accounts
  <2> QED BY <1>5, <2>1, Zenon
<1>11. user.accrued * Scale * Scale = user.accrued * square /\ user.accrued * square \in Int
  <2>1. user.accrued \in Int
    BY <1>2
  <2> QED BY <1>5, <2>1, Zenon
<1>12. c.accrued * Scale * Scale + c.carry
         = user.accrued * Scale * Scale + user.carry + user.shares * (index - user.index)
  <2>1. user.carry \in Int /\ n % square \in Int /\ square * (n \div square) \in Int
    BY <1>1, <1>2, <1>7
  <2> QED BY <1>3, <1>6, <1>7, <1>8, <1>9, <1>10, <1>11, <2>1
<1> QED BY <1>8, <1>12 DEF c

------------------------------------------------------------------------------
(* One tier of a pool *)

\* Earned and Holding, of records.
EarnedOf(user, index) ==
  user.accrued * Scale * Scale + user.carry + user.shares * (index - user.index)

HoldingOf(pos, s, h) ==
  Sum([u \in Users |-> EarnedOf(pos[u], s.index)], Users) + s.indexCarry
    + (Unreleased(s) + h.unearned) * Scale

LEMMA EarnedGrows ==
  ASSUME NEW user \in Accounts, NEW i \in Nat, NEW j \in Nat
  PROVE  /\ EarnedOf(user, i) \in Int /\ user.shares * (j - i) \in Int
         /\ EarnedOf(user, j) = EarnedOf(user, i) + user.shares * (j - i)
<1> DEFINE base == user.accrued * Scale * Scale + user.carry
           n == user.shares
           k == user.index
<1>1. base \in Int /\ n \in Int /\ k \in Int
  <2>1. Scale * Scale \in Nat /\ Scale \in Nat
    BY StreamsAssumption
  <2>2. user.accrued \in Int /\ user.carry \in Int /\ n \in Int /\ k \in Int
    BY <2>1 DEF Accounts
  <2>3. user.accrued * Scale \in Int
    BY <2>1, <2>2
  <2>4. user.accrued * Scale * Scale \in Int
    BY <2>1, <2>3
  <2> QED BY <2>2, <2>4
<1>2. EarnedOf(user, i) = base + n * (i - k) /\ EarnedOf(user, j) = base + n * (j - k)
  BY DEF EarnedOf
<1> HIDE DEF base, n, k
<1>3. n * (j - k) = n * (i - k) + n * (j - i) /\ n * (i - k) \in Int /\ n * (j - i) \in Int
  <2>1. \A a, x, y \in Int : a * (x + y) = a * x + a * y /\ a * x \in Int
    OBVIOUS
  <2>2. j - k = (i - k) + (j - i) /\ j - i \in Int /\ i - k \in Int
    BY <1>1
  <2> QED BY <1>1, <2>1, <2>2
<1> QED BY <1>1, <1>2, <1>3 DEF n

\* Before anybody is paid, the advance of a stream leaves what it holds as it was.
LEMMA TierAdvanced ==
  ASSUME now \in Nat,
         NEW pos \in [Users -> Accounts], NEW s, NEW b \in Balances, TierOK(pos, s, b),
         NEW h \in Histories, NEW d, d = Advanced(s, ActiveShares(b)),
         NEW h2 \in Histories,
         h2.unearned = h.unearned + IF ActiveShares(b) = 0 THEN Released(s) ELSE 0
  PROVE  /\ TierOK(pos, d, b)
         /\ HoldingOf(pos, d, h2) = HoldingOf(pos, s, h) /\ HoldingOf(pos, s, h) \in Int
         /\ Unreleased(d) \in Nat
         /\ Most(0, d.expiration - now) * d.eps + d.scheduleCarry = Unreleased(d)
<1> DEFINE A == ActiveShares(b)
           lost == IF A = 0 THEN Released(s) ELSE 0
           delta == d.index - s.index
           shares == [w \in Users |-> pos[w].shares]
           grown == [w \in Users |-> delta * shares[w]]
           f == [w \in Users |-> EarnedOf(pos[w], s.index)]
           g == [w \in Users |-> EarnedOf(pos[w], d.index)]
<1>1. Scale \in Nat /\ IsFiniteSet(Users)
  BY StreamsAssumption
<1>2. \A w \in Users : /\ pos[w] \in Accounts /\ pos[w].shares \in Nat
                       /\ pos[w].index \in Nat /\ pos[w].index <= s.index
  BY DEF TierOK, Accounts
<1>3. StreamOK(s) /\ A = SumOn(shares, Users)
  BY SumIsSumOn DEF TierOK
<1>4. A \in Nat
  <2>1. \A w \in Users : shares[w] \in Nat
    BY <1>2
  <2> HIDE DEF shares, A
  <2> QED BY <1>1, <1>3, <2>1, SumNat
<1> HIDE DEF A, lost
<1>5. /\ StreamOK(d) /\ d.index >= s.index /\ lost \in Nat
      /\ Unreleased(d) \in Nat /\ Unreleased(s) \in Nat
      /\ A * delta + d.indexCarry + (Unreleased(d) + lost) * Scale
           = s.indexCarry + Unreleased(s) * Scale
      /\ Most(0, d.expiration - now) * d.eps + d.scheduleCarry = Unreleased(d)
  <2>1. d = Advanced(s, A)
    BY DEF A
  <2>2. LET e == Advanced(s, A)
            lst == IF A = 0 THEN Released(s) ELSE 0
        IN /\ StreamOK(e) /\ e.index >= s.index /\ lst \in Nat
           /\ Unreleased(e) \in Nat /\ Unreleased(s) \in Nat
           /\ A * (e.index - s.index) + e.indexCarry + (Unreleased(e) + lst) * Scale
                = s.indexCarry + Unreleased(s) * Scale
           /\ Most(0, e.expiration - now) * e.eps + e.scheduleCarry = Unreleased(e)
    BY <1>3, <1>4, AdvanceIsExact
  <2> QED BY <2>1, <2>2 DEF lost
<1>6. /\ d.index \in Nat /\ s.index \in Nat /\ d.indexCarry \in Nat /\ s.indexCarry \in Nat
      /\ delta \in Nat
  BY <1>3, <1>5 DEF StreamOK, StreamRecord
<1> HIDE DEF delta
<1>7. ASSUME NEW w \in Users
      PROVE  /\ f[w] \in Int /\ grown[w] \in Int /\ g[w] = f[w] + grown[w]
             /\ shares[w] \in Int /\ grown[w] = delta * shares[w]
  <2>1. /\ f[w] \in Int /\ pos[w].shares * (d.index - s.index) \in Int
        /\ g[w] = f[w] + pos[w].shares * (d.index - s.index)
    <3>1. f[w] = EarnedOf(pos[w], s.index) /\ g[w] = EarnedOf(pos[w], d.index)
      OBVIOUS
    <3>2. pos[w] \in Accounts
      BY <1>2
    <3> HIDE DEF f, g
    <3>3. EarnedOf(pos[w], s.index) \in Int
      BY ONLY <1>6, <3>2, EarnedGrows
    <3>4. pos[w].shares * (d.index - s.index) \in Int
      BY ONLY <1>6, <3>2, EarnedGrows
    <3>5. EarnedOf(pos[w], d.index)
            = EarnedOf(pos[w], s.index) + pos[w].shares * (d.index - s.index)
      BY ONLY <1>6, <3>2, EarnedGrows
    <3> QED BY <3>1, <3>3, <3>4, <3>5
  <2>2. pos[w].shares * (d.index - s.index) = grown[w] /\ shares[w] \in Int
    <3>1. \A x, y \in Int : x * y = y * x
      OBVIOUS
    <3> QED BY <1>2, <1>6, <3>1 DEF delta
  <2> QED BY <2>1, <2>2
<1>8. SumOn(grown, Users) = delta * A
  <2>1. delta \in Int /\ \A w \in Users : shares[w] \in Int /\ grown[w] = delta * shares[w]
    BY <1>6, <1>7
  <2> HIDE DEF shares, grown
  <2>2. SumOn(grown, Users) = delta * SumOn(shares, Users)
    BY ONLY <1>1, <2>1, SumFactor
  <2> QED BY <1>3, <2>2
<1>9. SumOn(g, Users) = SumOn(f, Users) + SumOn(grown, Users)
  <2> HIDE DEF f, grown, g
  <2>1. \A w \in Users : f[w] \in Int /\ grown[w] \in Int /\ g[w] = f[w] + grown[w]
    BY <1>7
  <2> QED BY ONLY <1>1, <2>1, SumPlus
<1>10. /\ HoldingOf(pos, d, h2) = SumOn(g, Users) + d.indexCarry
                                    + (Unreleased(d) + h2.unearned) * Scale
       /\ HoldingOf(pos, s, h) = SumOn(f, Users) + s.indexCarry
                                   + (Unreleased(s) + h.unearned) * Scale
  BY SumIsSumOn DEF HoldingOf
<1>11. SumOn(f, Users) \in Int
  <2>1. \A w \in Users : f[w] \in Int
    BY <1>7
  <2> HIDE DEF f
  <2> QED BY <1>1, <2>1, SumInt
<1>12. h.unearned \in Nat /\ h2.unearned = h.unearned + lost
  BY DEF Histories, lost, A
<1>13. HoldingOf(pos, d, h2) = HoldingOf(pos, s, h) /\ HoldingOf(pos, s, h) \in Int
  <2>1. /\ (Unreleased(d) + h2.unearned) * Scale
             = (Unreleased(d) + lost) * Scale + h.unearned * Scale
        /\ (Unreleased(s) + h.unearned) * Scale = Unreleased(s) * Scale + h.unearned * Scale
        /\ (Unreleased(d) + lost) * Scale \in Int /\ Unreleased(s) * Scale \in Int
        /\ h.unearned * Scale \in Int
    <3>1. \A x, y \in Int : /\ (x + y) * Scale = x * Scale + y * Scale
                            /\ x * Scale \in Int /\ y * Scale \in Int
      BY <1>1
    <3>2. h2.unearned = h.unearned + lost /\ Unreleased(d) + lost \in Int
      BY <1>5, <1>12
    <3>3. Unreleased(d) + h2.unearned = (Unreleased(d) + lost) + h.unearned
      BY <1>5, <1>12
    <3>4. Unreleased(d) \in Int /\ Unreleased(s) \in Int /\ h.unearned \in Int
      BY <1>5, <1>12
    <3> QED BY ONLY <3>1, <3>2, <3>3, <3>4
  <2>2. A * delta = delta * A /\ A * delta \in Int
    BY <1>4, <1>6
  <2> HIDE DEF f, g, grown
  <2> DEFINE x1 == SumOn(f, Users)
             x2 == SumOn(g, Users)
             y1 == Unreleased(s) * Scale
             y2 == (Unreleased(d) + lost) * Scale
             z == h.unearned * Scale
             m == A * delta
  <2>3. x2 = x1 + m
    BY <1>6, <1>8, <1>9, <1>11, <2>2
  <2>4. m + d.indexCarry + y2 = s.indexCarry + y1
    BY <1>5
  <2>5. /\ HoldingOf(pos, d, h2) = x2 + d.indexCarry + (y2 + z)
        /\ HoldingOf(pos, s, h) = x1 + s.indexCarry + (y1 + z)
    BY <1>10, <2>1
  <2>6. x1 \in Int /\ m \in Int /\ y1 \in Int /\ y2 \in Int /\ z \in Int
    BY <1>11, <2>1, <2>2
  <2> HIDE DEF x1, x2, y1, y2, z, m
  <2> QED BY <1>6, <2>3, <2>4, <2>5, <2>6
<1>14. TierOK(pos, d, b)
  <2>1. \A w \in Users : pos[w].index <= d.index
    BY <1>2, <1>5, <1>6
  <2> QED BY <1>5, <2>1 DEF TierOK
<1> QED BY <1>5, <1>13, <1>14

\* A depositor at the end of a checkpoint: paid, and with shares that changed.
TierSettled(pos, d, b, u, user, pay, b2) ==
  LET c == Accrued(pos[u], d.index)
  IN /\ user.index = c.index /\ user.carry = c.carry /\ user.accrued = c.accrued - pay
     /\ ActiveShares(b2) = ActiveShares(b) + user.shares - pos[u].shares
     /\ b2.q4w = b.q4w + user.q4w - pos[u].q4w

\* Settling one depositor takes from the stream what is paid, and nothing else.
LEMMA TierPaid ==
  ASSUME NEW pos \in [Users -> Accounts], NEW d, NEW b, TierOK(pos, d, b),
         NEW h \in Histories, Unreleased(d) \in Nat,
         NEW u \in Users, NEW pay \in Nat, NEW user \in Accounts, NEW b2,
         TierSettled(pos, d, b, u, user, pay, b2)
  PROVE  LET pos2 == [pos EXCEPT ![u] = user]
         IN /\ TierOK(pos2, d, b2)
            /\ HoldingOf(pos2, d, h) = HoldingOf(pos, d, h) - pay * Scale * Scale
<1> DEFINE pos2 == [pos EXCEPT ![u] = user]
           c == Accrued(pos[u], d.index)
           square == Scale * Scale
           f == [w \in Users |-> EarnedOf(pos[w], d.index)]
           g == [w \in Users |-> EarnedOf(pos2[w], d.index)]
<1>1. Scale \in Nat /\ square \in Nat /\ IsFiniteSet(Users)
  BY StreamsAssumption
<1>2. /\ StreamOK(d) /\ d.index \in Nat
      /\ \A w \in Users : pos[w] \in Accounts /\ pos[w].index <= d.index
  BY DEF TierOK, StreamOK, StreamRecord
<1>3. /\ c.index = d.index /\ c.accrued \in Nat /\ c.carry \in Nat
      /\ c.accrued * Scale * Scale + c.carry = EarnedOf(pos[u], d.index)
  <2>1. /\ c \in Accounts /\ c.index = d.index
        /\ c.accrued * Scale * Scale + c.carry
             = pos[u].accrued * Scale * Scale + pos[u].carry
               + pos[u].shares * (d.index - pos[u].index)
    BY <1>2, AccrualIsExact
  <2> HIDE DEF c
  <2>2. c.carry \in Nat /\ c.accrued \in Nat
    BY <1>1, <2>1 DEF Accounts
  <2> QED BY <2>1, <2>2 DEF EarnedOf
<1>4. user.index = d.index /\ user.carry = c.carry /\ user.accrued = c.accrued - pay
  BY <1>3 DEF TierSettled
<1> HIDE DEF c, square
<1>5. /\ \A w \in Users : pos2[w] = IF w = u THEN user ELSE pos[w]
      /\ \A w \in Users : pos2[w] \in Accounts
  BY <1>2
<1> HIDE DEF pos2
<1>6. \A w \in Users : f[w] \in Int /\ g[w] \in Int /\ (w # u => f[w] = g[w])
  <2> SUFFICES ASSUME NEW w \in Users PROVE f[w] \in Int /\ g[w] \in Int /\ (w # u => f[w] = g[w])
    OBVIOUS
  <2>1. f[w] = EarnedOf(pos[w], d.index) /\ g[w] = EarnedOf(pos2[w], d.index)
    OBVIOUS
  <2>2. pos[w] \in Accounts /\ pos2[w] \in Accounts /\ (w # u => pos2[w] = pos[w])
    BY <1>2, <1>5
  <2>3. EarnedOf(pos[w], d.index) \in Int /\ EarnedOf(pos2[w], d.index) \in Int
    BY ONLY <1>2, <2>2, EarnedGrows
  <2> QED BY <2>1, <2>2, <2>3
<1>7. g[u] = f[u] - pay * square /\ pay * square \in Int /\ pay * Scale * Scale = pay * square
  <2>1. g[u] = user.accrued * Scale * Scale + user.carry + user.shares * (d.index - d.index)
    BY <1>4, <1>5 DEF EarnedOf
  <2>2. user.shares * (d.index - d.index) = 0
    <3>1. user.shares \in Nat /\ d.index - d.index = 0
      BY <1>2 DEF Accounts
    <3> QED BY <3>1
  <2>3. /\ \A x \in Int : x * Scale * Scale = x * square /\ x * square \in Int
        /\ \A x, y \in Int : (x - y) * square = x * square - y * square
    BY <1>1 DEF square
  <2>4. user.accrued \in Int /\ c.accrued \in Int /\ pay \in Int
    BY <1>3, <1>4
  <2>5. user.accrued * Scale * Scale = user.accrued * square
    BY <2>3, <2>4, Zenon
  <2>6. user.accrued * square = c.accrued * square - pay * square
    BY <1>4, <2>3, <2>4, Zenon
  <2>7. /\ c.accrued * square \in Int /\ pay * square \in Int
        /\ c.accrued * Scale * Scale = c.accrued * square
        /\ pay * Scale * Scale = pay * square
    BY <2>3, <2>4, Zenon
  <2>8. f[u] = c.accrued * square + c.carry
    BY <1>3, <2>7
  <2> HIDE DEF f, g
  <2> QED BY <1>3, <1>4, <2>1, <2>2, <2>5, <2>6, <2>7, <2>8
<1>8. SumOn(g, Users) = SumOn(f, Users) - pay * square /\ SumOn(f, Users) \in Int
  <2>1. \A w \in Users : f[w] \in Int /\ g[w] \in Int
    BY <1>6
  <2>2. \A w \in Users \ {u} : f[w] = g[w]
    BY <1>6
  <2> HIDE DEF f, g
  <2>3. SumOn(g, Users) = SumOn(f, Users) - f[u] + g[u]
    <3>1. IsFiniteSet(Users)
      BY <1>1
    <3>2. u \in Users
      OBVIOUS
    <3>3. \A x \in Users : f[x] \in Int /\ g[x] \in Int
      BY <2>1
    <3>4. \A x \in Users \ {u} : f[x] = g[x]
      BY <2>2
    <3> QED BY <3>1, <3>2, <3>3, <3>4, SumChange, SMTT(30)
  <2>4. SumOn(f, Users) \in Int /\ f[u] \in Int
    BY <1>1, <2>1, SumInt
  <2> QED BY <1>7, <2>3, <2>4
<1>9. /\ HoldingOf(pos2, d, h) = SumOn(g, Users) + d.indexCarry
                                   + (Unreleased(d) + h.unearned) * Scale
      /\ HoldingOf(pos, d, h) = SumOn(f, Users) + d.indexCarry
                                  + (Unreleased(d) + h.unearned) * Scale
  BY SumIsSumOn DEF HoldingOf
<1>10. HoldingOf(pos2, d, h) = HoldingOf(pos, d, h) - pay * Scale * Scale
  <2>1. d.indexCarry \in Int
    BY <1>2 DEF StreamOK, StreamRecord
  <2> HIDE DEF f, g
  <2> DEFINE e == (Unreleased(d) + h.unearned) * Scale
  <2>2. e \in Int
    <3>1. Unreleased(d) + h.unearned \in Int
      BY DEF Histories
    <3> QED BY <1>1, <3>1
  <2>3. /\ HoldingOf(pos2, d, h) = SumOn(g, Users) + d.indexCarry + e
        /\ HoldingOf(pos, d, h) = SumOn(f, Users) + d.indexCarry + e
    BY <1>9
  <2> HIDE DEF e
  <2> QED BY <1>7, <1>8, <2>1, <2>2, <2>3
<1>11. TierOK(pos2, d, b2)
  <2>1. \A w \in Users : pos2[w].index <= d.index
    BY <1>2, <1>4, <1>5
  <2>2. ActiveShares(b2) = SumOn([w \in Users |-> pos2[w].shares], Users)
    <3> DEFINE q == [w \in Users |-> pos[w].shares]
               q2 == [w \in Users |-> pos2[w].shares]
    <3>1. \A w \in Users : q[w] \in Int /\ q2[w] \in Int
      BY <1>2, <1>5 DEF Accounts
    <3>2. \A w \in Users \ {u} : q[w] = q2[w]
      BY <1>5
    <3>3. q[u] = pos[u].shares /\ q2[u] = user.shares /\ ActiveShares(b) = SumOn(q, Users)
      BY <1>5, SumIsSumOn DEF TierOK
    <3> HIDE DEF q, q2
    <3>4. SumOn(q2, Users) = SumOn(q, Users) - q[u] + q2[u]
      BY ONLY <1>1, <3>1, <3>2, u \in Users, SumChange
    <3>5. q[u] \in Int /\ q2[u] \in Int /\ SumOn(q, Users) \in Int
      BY <1>1, <3>1, SumInt
    <3>6. ActiveShares(b2) = ActiveShares(b) + user.shares - pos[u].shares
      BY DEF TierSettled
    <3>7. SumOn(q2, Users) = ActiveShares(b2)
      BY <3>3, <3>4, <3>5, <3>6
    <3> QED BY <3>7 DEF q2
  <2>3. b2.q4w = SumOn([w \in Users |-> pos2[w].q4w], Users)
    <3> DEFINE q == [w \in Users |-> pos[w].q4w]
               q2 == [w \in Users |-> pos2[w].q4w]
    <3>1. \A w \in Users : q[w] \in Int /\ q2[w] \in Int
      BY <1>2, <1>5 DEF Accounts
    <3>2. \A w \in Users \ {u} : q[w] = q2[w]
      BY <1>5
    <3>3. q[u] = pos[u].q4w /\ q2[u] = user.q4w /\ b.q4w = SumOn(q, Users)
      BY <1>5, SumIsSumOn DEF TierOK
    <3> HIDE DEF q, q2
    <3>4. SumOn(q2, Users) = SumOn(q, Users) - q[u] + q2[u]
      BY ONLY <1>1, <3>1, <3>2, u \in Users, SumChange
    <3>5. q[u] \in Int /\ q2[u] \in Int /\ SumOn(q, Users) \in Int
      BY <1>1, <3>1, SumInt
    <3>6. b2.q4w = b.q4w + user.q4w - pos[u].q4w
      BY DEF TierSettled
    <3>7. SumOn(q2, Users) = b2.q4w
      BY <3>3, <3>4, <3>5, <3>6
    <3> QED BY <3>7 DEF q2
  <2> QED BY <1>2, <2>1, <2>2, <2>3, SumIsSumOn DEF TierOK
<1> QED BY <1>10, <1>11 DEF pos2

\* A restart adds what was gulped to what the stream holds.
LEMMA TierRestarted ==
  ASSUME now \in Nat, NEW pos \in [Users -> Accounts], NEW d, NEW b, TierOK(pos, d, b),
         NEW pending \in Nat,
         NEW h \in Histories, Unreleased(d) \in Nat,
         Most(0, d.expiration - now) * d.eps + d.scheduleCarry = Unreleased(d)
  PROVE  LET e == Restarted(d, pending)
         IN /\ TierOK(pos, e, b)
            /\ HoldingOf(pos, e, h) = HoldingOf(pos, d, h) + pending * Scale * Scale
<1> DEFINE e == Restarted(d, pending)
           f == [w \in Users |-> EarnedOf(pos[w], d.index)]
<1>1. /\ StreamOK(e) /\ e.index = d.index /\ e.indexCarry = d.indexCarry
      /\ Unreleased(e) = pending * Scale + Unreleased(d)
  <2>1. StreamOK(d)
    BY DEF TierOK
  <2> QED BY <2>1, RestartIsExact
<1> HIDE DEF e
<1>2. TierOK(pos, e, b)
  BY <1>1 DEF TierOK
<1>3. /\ HoldingOf(pos, e, h) = Sum(f, Users) + d.indexCarry
                                  + (pending * Scale + Unreleased(d) + h.unearned) * Scale
      /\ HoldingOf(pos, d, h) = Sum(f, Users) + d.indexCarry
                                  + (Unreleased(d) + h.unearned) * Scale
  BY <1>1 DEF HoldingOf
<1>4. (pending * Scale + Unreleased(d) + h.unearned) * Scale
        = (Unreleased(d) + h.unearned) * Scale + pending * Scale * Scale
  <2>1. Scale \in Int /\ pending * Scale \in Int /\ Unreleased(d) + h.unearned \in Int
    BY StreamsAssumption DEF Histories
  <2>2. \A x, y \in Int : (x + y) * Scale = y * Scale + x * Scale
    BY <2>1
  <2>3. pending * Scale + Unreleased(d) + h.unearned
          = pending * Scale + (Unreleased(d) + h.unearned)
    BY <2>1 DEF Histories
  <2> QED BY <2>1, <2>2, <2>3
<1>5. Sum(f, Users) \in Int
  <2>1. d.index \in Nat /\ IsFiniteSet(Users)
    BY StreamsAssumption DEF TierOK, StreamOK, StreamRecord
  <2>2. \A w \in Users : EarnedOf(pos[w], d.index) \in Int
    BY <2>1, EarnedGrows
  <2>3. \A w \in Users : f[w] \in Int
    BY <2>2
  <2> HIDE DEF f
  <2>4. SumOn(f, Users) \in Int
    BY <2>1, <2>3, SumInt
  <2> QED BY <2>4, SumIsSumOn
<1> HIDE DEF f
<1> DEFINE x == Sum(f, Users)
           y == (Unreleased(d) + h.unearned) * Scale
           z == pending * Scale * Scale
<1>6. x \in Int /\ y \in Int /\ z \in Int /\ d.indexCarry \in Int
  <2>1. Scale \in Int /\ pending * Scale \in Int /\ Unreleased(d) + h.unearned \in Int
    BY StreamsAssumption DEF Histories
  <2> QED BY <1>5, <2>1 DEF TierOK, StreamOK, StreamRecord
<1>7. /\ HoldingOf(pos, e, h) = x + d.indexCarry + (y + z)
      /\ HoldingOf(pos, d, h) = x + d.indexCarry + y
  BY <1>3, <1>4
<1> HIDE DEF x, y, z
<1>8. HoldingOf(pos, e, h) = HoldingOf(pos, d, h) + z
  BY <1>6, <1>7
<1> QED BY <1>2, <1>8 DEF e, z

------------------------------------------------------------------------------
(* One token of a reserve *)

Emissions ==
  [remaining : Nat, index : Nat, indexCarry : Nat, expiration : Nat \cup {Never}, last : Nat]
Holders == [balance : Nat, known : BOOLEAN, index : Nat, accrued : Nat, carry : 0..IndexScale-1]

\* Vesting moves what it takes from a stream into the index.
LEMMA VestedIsExact ==
  ASSUME NEW e \in Emissions, e.last <= now, now \in Nat, NEW supply \in Nat
  PROVE  LET d == Vested(e, supply)
         IN /\ d \in Emissions /\ d.last <= now /\ d.expiration = e.expiration
            /\ d.index >= e.index
            /\ e = NoEmission => d = e
            /\ supply * (d.index - e.index) + d.indexCarry + d.remaining * IndexScale
                 = e.indexCarry + e.remaining * IndexScale
<1> DEFINE d == Vested(e, supply)
           end == Least(now, e.expiration)
           vested == IF end = e.expiration THEN e.remaining
                     ELSE Portion(e.remaining, end - e.last, e.expiration - e.last)
           n == vested * IndexScale + e.indexCarry
           waits == \/ e.last >= e.expiration \/ now = e.last \/ supply = 0
                    \/ e.remaining = 0 /\ e.indexCarry = 0
<1>1. /\ e.index \in Nat /\ e.indexCarry \in Nat /\ e.remaining \in Nat /\ e.last \in Nat
      /\ e.expiration \in Int /\ IndexScale \in Nat
  BY ReserveEmissionsAssumption DEF Emissions, Never
<1>2. CASE waits
  <2>1. d = e
    BY <1>2 DEF Vested
  <2>2. supply * (e.index - e.index) = 0
    BY <1>1
  <2>3. e.index >= e.index
    BY <1>1
  <2>4. e.remaining * IndexScale \in Int
    BY <1>1
  <2> HIDE DEF d
  <2>5. supply * (d.index - e.index) + d.indexCarry + d.remaining * IndexScale
          = e.indexCarry + e.remaining * IndexScale
    BY <1>1, <2>1, <2>2, <2>4
  <2> QED BY <2>1, <2>3, <2>5 DEF d
<1>3. CASE ~waits
  <2>1. d = [e EXCEPT !.remaining = @ - vested, !.index = @ + n \div supply,
                      !.indexCarry = n % supply, !.last = end]
    BY <1>3 DEF Vested
  <2>2. e.last < e.expiration /\ e.last < now /\ supply \in Nat \ {0} /\ e # NoEmission
    BY <1>1, <1>3 DEF NoEmission
  <2>3. end \in Nat /\ end <= now /\ end <= e.expiration /\ e.last < end
    BY <1>1, <2>2 DEF Least
  <2> HIDE DEF end
  <2>4. vested \in 0..e.remaining
    <3>1. e.expiration - e.last \in Nat \ {0} /\ end - e.last \in 0..(e.expiration - e.last)
      BY <1>1, <2>2, <2>3
    <3>2. Portion(e.remaining, end - e.last, e.expiration - e.last) \in 0..e.remaining
      BY <1>1, <3>1, PartRoundedDown DEF Portion
    <3> QED BY <1>1, <3>2
  <2> HIDE DEF vested, waits
  <2>5. n \in Nat /\ vested * IndexScale \in Nat
    BY <1>1, <2>4, ProductNat
  <2>6. /\ e.remaining * IndexScale = vested * IndexScale + (e.remaining - vested) * IndexScale
        /\ (e.remaining - vested) * IndexScale \in Int
    <3>1. \A x, y \in Int : x * IndexScale = y * IndexScale + (x - y) * IndexScale
      BY <1>1
    <3> QED BY <1>1, <2>4, <3>1
  <2>7. n = vested * IndexScale + e.indexCarry
    OBVIOUS
  <2> HIDE DEF n
  <2> DEFINE q == n \div supply
             m == n % supply
  <2>8. q \in Nat /\ m \in Nat /\ supply * q + m = n
    <3>1. /\ n \div supply \in Nat /\ n % supply \in 0..supply-1
          /\ supply * (n \div supply) + (n % supply) = n
      BY ONLY <2>2, <2>5, QuotientAndRest
    <3>2. n % supply \in Nat
      BY <2>2, <3>1
    <3> QED BY <3>1, <3>2
  <2>9. d = [e EXCEPT !.remaining = @ - vested, !.index = @ + q, !.indexCarry = m, !.last = end]
    BY <2>1
  <2> HIDE DEF q, m, d
  <2>10. d \in Emissions
    <3>1. e.remaining - vested \in Nat /\ e.index + q \in Nat
      BY <1>1, <2>4, <2>8
    <3> QED BY <2>3, <2>8, <2>9, <3>1 DEF Emissions
  <2>11. d.remaining = e.remaining - vested /\ d.index = e.index + q /\ d.indexCarry = m
    BY <2>9 DEF Emissions
  <2>12. d.last = end /\ d.expiration = e.expiration
    BY <2>9 DEF Emissions
  <2>13. d.index - e.index = q /\ d.index >= e.index
    BY <1>1, <2>8, <2>11
  <2>14. supply * (d.index - e.index) + d.indexCarry + d.remaining * IndexScale
           = e.indexCarry + e.remaining * IndexScale
    <3> DEFINE y == supply * q
               v == vested * IndexScale
               l == (e.remaining - vested) * IndexScale
               w == e.remaining * IndexScale
    <3>1. y + m = v + e.indexCarry /\ w = v + l
      BY <2>6, <2>7, <2>8
    <3>2. v \in Int /\ l \in Int /\ m \in Int /\ y \in Int
      BY <1>1, <2>2, <2>5, <2>6, <2>8
    <3>3. y + m + l = e.indexCarry + w
      <4> HIDE DEF y, v, l, w
      <4> QED BY <1>1, <3>1, <3>2
    <3> QED BY <2>11, <2>13, <3>3
  <2> QED BY <2>2, <2>3, <2>10, <2>12, <2>13, <2>14 DEF d
<1> QED BY <1>2, <1>3

\* Due, of records.
DueOf(h, index) == h.accrued * IndexScale + h.carry + h.balance * (index - h.index)

\* What Settled makes of a holder once the stream is at d.
SettledAt(h, d) ==
  LET numerator == h.balance * (d.index - Since(h, d)) + h.carry
  IN [h EXCEPT !.known = TRUE, !.index = d.index, !.carry = numerator % IndexScale,
               !.accrued = @ + numerator \div IndexScale]

LEMMA SettlementIsExact ==
  ASSUME NEW h \in Holders, NEW d \in Emissions, h.index <= d.index
  PROVE  LET c == SettledAt(h, d)
         IN /\ c \in Holders /\ c.index = d.index /\ c.balance = h.balance
            /\ c.accrued * IndexScale + c.carry = DueOf(h, d.index)
<1> DEFINE c == SettledAt(h, d)
           n == h.balance * (d.index - Since(h, d)) + h.carry
           x == h.balance * (d.index - h.index)
<1>1. /\ IndexScale \in Nat \ {0} /\ h.balance \in Nat /\ h.index \in Nat /\ d.index \in Nat
      /\ h.carry \in 0..IndexScale-1 /\ h.accrued \in Nat
  BY ReserveEmissionsAssumption DEF Holders, Emissions
<1>2. x \in Nat
  <2>1. d.index - h.index \in Nat
    BY <1>1
  <2> QED BY <1>1, <2>1, ProductNat
<1>3. n = x + h.carry
  <2>1. CASE h.known \/ h.balance > 0
    BY <2>1 DEF Since
  <2>2. CASE ~(h.known \/ h.balance > 0)
    <3>1. h.balance = 0
      BY <1>1, <2>2
    <3>2. 0 * (d.index - Since(h, d)) = 0 /\ 0 * (d.index - h.index) = 0
      BY <1>1, <2>2 DEF Since
    <3> QED BY <3>1, <3>2
  <2> QED BY <2>1, <2>2
<1> HIDE DEF x
<1>4. n \in Nat
  BY <1>1, <1>2, <1>3
<1>5. c = [h EXCEPT !.known = TRUE, !.index = d.index, !.carry = n % IndexScale,
                    !.accrued = @ + n \div IndexScale]
  BY DEF SettledAt
<1> HIDE DEF n, c
<1> DEFINE q == n \div IndexScale
           m == n % IndexScale
<1>6. q \in Nat /\ m \in 0..IndexScale-1 /\ IndexScale * q + m = n
  BY <1>1, <1>4, QuotientAndRest
<1>7. c = [h EXCEPT !.known = TRUE, !.index = d.index, !.carry = m, !.accrued = @ + q]
  BY <1>5
<1> HIDE DEF q, m
<1>8. c \in Holders
  <2>1. h.accrued + q \in Nat
    BY <1>1, <1>6
  <2> QED BY <1>1, <1>6, <1>7, <2>1 DEF Holders
<1>9. c.index = d.index /\ c.balance = h.balance /\ c.carry = m /\ c.accrued = h.accrued + q
  BY <1>7 DEF Holders
<1>10. c.accrued * IndexScale = h.accrued * IndexScale + IndexScale * q
  <2>1. \A a, b \in Int : (a + b) * IndexScale = a * IndexScale + IndexScale * b
    BY <1>1
  <2> QED BY <1>1, <1>6, <1>9, <2>1
<1>11. h.accrued * IndexScale \in Int /\ IndexScale * q \in Int
  BY <1>1, <1>6
<1>12. DueOf(h, d.index) = h.accrued * IndexScale + h.carry + x
  BY DEF DueOf, x
<1>13. c.accrued * IndexScale + c.carry = DueOf(h, d.index)
  <2> DEFINE y == IndexScale * q
             w == h.accrued * IndexScale
  <2>1. w + y + m = w + h.carry + x
    <3>1. y + m = x + h.carry /\ y \in Int /\ w \in Int /\ m \in Int /\ h.carry \in Int
      BY <1>1, <1>3, <1>6, <1>11
    <3> HIDE DEF y, w
    <3> QED BY <1>2, <3>1
  <2> QED BY <1>9, <1>10, <1>12, <2>1
<1> QED BY <1>8, <1>9, <1>13 DEF c
\* What the stream of a token owes and has left.
TokenHolding(hs, e) ==
  Sum([u \in Users |-> DueOf(hs[u], e.index)], Users) + e.indexCarry + e.remaining * IndexScale

LEMMA DueGrows ==
  ASSUME NEW h \in Holders, NEW i \in Nat, NEW j \in Nat
  PROVE  /\ DueOf(h, i) \in Int /\ h.balance * (j - i) \in Int
         /\ DueOf(h, j) = DueOf(h, i) + h.balance * (j - i)
<1> DEFINE base == h.accrued * IndexScale + h.carry
           n == h.balance
           k == h.index
<1>1. base \in Int /\ n \in Int /\ k \in Int
  <2>1. h.accrued \in Int /\ h.carry \in Int /\ n \in Int /\ k \in Int /\ IndexScale \in Int
    BY ReserveEmissionsAssumption DEF Holders
  <2> QED BY <2>1
<1>2. DueOf(h, i) = base + n * (i - k) /\ DueOf(h, j) = base + n * (j - k)
  BY DEF DueOf
<1> HIDE DEF base, n, k
<1>3. n * (j - k) = n * (i - k) + n * (j - i) /\ n * (i - k) \in Int /\ n * (j - i) \in Int
  <2>1. \A a, x, y \in Int : a * (x + y) = a * x + a * y /\ a * x \in Int
    OBVIOUS
  <2>2. j - k = (i - k) + (j - i) /\ j - i \in Int /\ i - k \in Int
    BY <1>1
  <2> QED BY <1>1, <2>1, <2>2
<1> QED BY <1>1, <1>2, <1>3 DEF n

\* Before anybody is settled, vesting leaves what the stream holds as it was.
LEMMA TokenVested ==
  ASSUME now \in Nat, NEW hs \in [Users -> Holders], NEW e \in Emissions, TokenOK(hs, e),
         NEW d, d = Vested(e, Sum([u \in Users |-> hs[u].balance], Users))
  PROVE  /\ d \in Emissions /\ TokenOK(hs, d) /\ d.expiration = e.expiration
         /\ e = NoEmission => d = e
         /\ TokenHolding(hs, d) = TokenHolding(hs, e) /\ TokenHolding(hs, e) \in Int
<1> DEFINE held == [w \in Users |-> hs[w].balance]
           A == SumOn(held, Users)
           delta == d.index - e.index
           grown == [w \in Users |-> delta * held[w]]
           f == [w \in Users |-> DueOf(hs[w], e.index)]
           g == [w \in Users |-> DueOf(hs[w], d.index)]
<1>1. IndexScale \in Nat /\ IsFiniteSet(Users)
  BY StreamsAssumption, ReserveEmissionsAssumption
<1>2. \A w \in Users : /\ hs[w] \in Holders /\ hs[w].balance \in Nat
                       /\ hs[w].index \in Nat /\ hs[w].index <= e.index
  BY DEF TokenOK, Holders
<1>3. A \in Nat
  <2>1. \A w \in Users : held[w] \in Nat
    BY <1>2
  <2> HIDE DEF held
  <2> QED BY <1>1, <2>1, SumNat
<1>4. d = Vested(e, A)
  BY SumIsSumOn
<1> HIDE DEF A
<1>5. /\ d \in Emissions /\ d.last <= now /\ d.expiration = e.expiration
      /\ d.index >= e.index
      /\ e = NoEmission => d = e
      /\ A * delta + d.indexCarry + d.remaining * IndexScale
           = e.indexCarry + e.remaining * IndexScale
  <2>1. e.last <= now
    BY DEF TokenOK
  <2> QED BY <1>3, <1>4, <2>1, VestedIsExact
<1>6. /\ d.index \in Nat /\ e.index \in Nat /\ d.indexCarry \in Nat /\ e.indexCarry \in Nat
      /\ delta \in Nat /\ d.remaining * IndexScale \in Int /\ e.remaining * IndexScale \in Int
  BY <1>1, <1>5 DEF Emissions
<1> HIDE DEF delta
<1>7. ASSUME NEW w \in Users
      PROVE  /\ f[w] \in Int /\ grown[w] \in Int /\ g[w] = f[w] + grown[w]
             /\ held[w] \in Int /\ grown[w] = delta * held[w]
  <2>1. f[w] = DueOf(hs[w], e.index) /\ g[w] = DueOf(hs[w], d.index)
    OBVIOUS
  <2>2. hs[w] \in Holders /\ held[w] = hs[w].balance /\ held[w] \in Int
    BY <1>2
  <2>3. held[w] * (d.index - e.index) = grown[w] /\ grown[w] = delta * held[w]
    <3>1. \A x, y \in Int : x * y = y * x
      OBVIOUS
    <3> QED BY <1>6, <2>2, <3>1 DEF delta
  <2> HIDE DEF f, g, held, grown
  <2>4. DueOf(hs[w], e.index) \in Int /\ hs[w].balance * (d.index - e.index) \in Int
    BY ONLY <1>6, <2>2, DueGrows
  <2>5. DueOf(hs[w], d.index) = DueOf(hs[w], e.index) + hs[w].balance * (d.index - e.index)
    BY ONLY <1>6, <2>2, DueGrows
  <2> QED BY <2>1, <2>2, <2>3, <2>4, <2>5
<1>8. SumOn(grown, Users) = delta * A
  <2>1. delta \in Int /\ \A w \in Users : held[w] \in Int /\ grown[w] = delta * held[w]
    BY <1>6, <1>7
  <2> HIDE DEF held, grown
  <2>2. SumOn(grown, Users) = delta * SumOn(held, Users)
    BY ONLY <1>1, <2>1, SumFactor
  <2> QED BY <2>2 DEF A
<1>9. SumOn(g, Users) = SumOn(f, Users) + SumOn(grown, Users) /\ SumOn(f, Users) \in Int
  <2> HIDE DEF f, grown, g
  <2>1. \A w \in Users : f[w] \in Int /\ grown[w] \in Int /\ g[w] = f[w] + grown[w]
    BY <1>7
  <2>2. SumOn(g, Users) = SumOn(f, Users) + SumOn(grown, Users)
    BY ONLY <1>1, <2>1, SumPlus
  <2> QED BY <1>1, <2>1, <2>2, SumInt
<1>10. /\ TokenHolding(hs, d) = SumOn(g, Users) + d.indexCarry + d.remaining * IndexScale
       /\ TokenHolding(hs, e) = SumOn(f, Users) + e.indexCarry + e.remaining * IndexScale
  BY SumIsSumOn DEF TokenHolding
<1>11. TokenHolding(hs, d) = TokenHolding(hs, e) /\ TokenHolding(hs, e) \in Int
  <2>1. A * delta = delta * A /\ A * delta \in Int
    BY <1>3, <1>6
  <2> HIDE DEF f, g, grown
  <2> DEFINE x1 == SumOn(f, Users)
             x2 == SumOn(g, Users)
             y1 == e.remaining * IndexScale
             y2 == d.remaining * IndexScale
             m == A * delta
  <2>2. x2 = x1 + m /\ m + d.indexCarry + y2 = e.indexCarry + y1
    BY <1>5, <1>8, <1>9, <2>1
  <2>3. TokenHolding(hs, d) = x2 + d.indexCarry + y2 /\ TokenHolding(hs, e) = x1 + e.indexCarry + y1
    BY <1>10
  <2>4. x1 \in Int /\ m \in Int /\ y1 \in Int /\ y2 \in Int
    BY <1>6, <1>9, <2>1
  <2>5. d.indexCarry \in Int /\ e.indexCarry \in Int
    BY <1>6
  <2> HIDE DEF x1, x2, y1, y2, m
  <2>6. TokenHolding(hs, e) \in Int
    BY ONLY <2>3, <2>4, <2>5
  <2>7. x2 + d.indexCarry + y2 = x1 + e.indexCarry + y1
    <3> DEFINE a == d.indexCarry
               b == e.indexCarry
    <3>1. x2 = x1 + m /\ m + a + y2 = b + y1 /\ a \in Int /\ b \in Int
      BY <2>2, <2>5
    <3> HIDE DEF a, b
    <3>2. x2 + a + y2 = x1 + b + y1
      BY ONLY <2>4, <3>1
    <3> QED BY <3>2 DEF a, b
  <2> QED BY ONLY <2>3, <2>6, <2>7
<1>12. TokenOK(hs, d)
  <2>1. \A w \in Users : hs[w].index <= d.index
    BY <1>2, <1>5, <1>6
  <2> QED BY <1>5, <2>1 DEF TokenOK
<1> QED BY <1>5, <1>11, <1>12

\* A holder at the end of a checkpoint, paid, and with a balance that changed.
TokenSettled(hs, d, u, h2, pay) ==
  LET c == IF d = NoEmission THEN hs[u] ELSE SettledAt(hs[u], d)
  IN h2.index = c.index /\ h2.carry = c.carry /\ h2.accrued = c.accrued - pay

\* Settling one holder takes from the stream what is paid.
LEMMA TokenPaid ==
  ASSUME NEW hs \in [Users -> Holders], NEW d \in Emissions, TokenOK(hs, d),
         NEW u \in Users, NEW pay \in Nat, NEW h2 \in Holders, TokenSettled(hs, d, u, h2, pay)
  PROVE  LET hs2 == [hs EXCEPT ![u] = h2]
         IN /\ TokenOK(hs2, d)
            /\ TokenHolding(hs2, d) = TokenHolding(hs, d) - pay * IndexScale
<1> DEFINE hs2 == [hs EXCEPT ![u] = h2]
           before == [w \in Users |-> DueOf(hs[w], d.index)]
           after == [w \in Users |-> DueOf(hs2[w], d.index)]
<1>1. /\ IndexScale \in Nat /\ IsFiniteSet(Users) /\ d.index \in Nat /\ d.indexCarry \in Int
      /\ d.remaining * IndexScale \in Int
  BY StreamsAssumption, ReserveEmissionsAssumption DEF Emissions
<1>2. /\ \A w \in Users : hs2[w] = IF w = u THEN h2 ELSE hs[w]
      /\ \A w \in Users : hs[w] \in Holders /\ hs2[w] \in Holders /\ hs[w].index <= d.index
  BY DEF TokenOK
<1>3. /\ h2.index <= d.index
      /\ d.expiration = Never => h2.accrued = 0
      /\ DueOf(h2, d.index) = DueOf(hs[u], d.index) - pay * IndexScale
  <2>1. /\ h2.accrued \in Nat /\ h2.balance \in Nat /\ h2.index \in Nat /\ h2.carry \in Int
        /\ hs[u] \in Holders /\ hs[u].index \in Nat /\ hs[u].index <= d.index
        /\ hs[u].balance \in Nat
    BY <1>2, ReserveEmissionsAssumption DEF Holders
  <2>2. CASE d = NoEmission
    <3>1. h2.index = hs[u].index /\ h2.carry = hs[u].carry /\ h2.accrued = hs[u].accrued - pay
      BY <2>2 DEF TokenSettled
    <3>2. d.index = 0 /\ d.expiration = Never
      BY <2>2 DEF NoEmission
    <3>3. hs[u].accrued = 0
      BY <3>2 DEF TokenOK
    <3>4. pay = 0 /\ h2.accrued = 0 /\ hs[u].index = 0
      BY <2>1, <3>1, <3>2, <3>3
    <3>5. h2.balance * (0 - 0) = 0 /\ hs[u].balance * (0 - 0) = 0 /\ 0 * IndexScale = 0
      BY <1>1, <2>1
    <3>6. DueOf(h2, d.index) = 0 + h2.carry + 0 /\ DueOf(hs[u], d.index) = 0 + h2.carry + 0
      BY <3>1, <3>2, <3>3, <3>4, <3>5 DEF DueOf
    <3>7. DueOf(hs[u], d.index) - pay * IndexScale = DueOf(hs[u], d.index)
      BY <2>1, <3>4, <3>5, <3>6
    <3> QED BY <2>1, <3>1, <3>2, <3>4, <3>6, <3>7
  <2>3. CASE d # NoEmission
    <3> DEFINE c == SettledAt(hs[u], d)
    <3>1. /\ c \in Holders /\ c.index = d.index
          /\ c.accrued * IndexScale + c.carry = DueOf(hs[u], d.index)
      BY <2>1, SettlementIsExact
    <3>2. h2.index = c.index /\ h2.carry = c.carry /\ h2.accrued = c.accrued - pay
      BY <2>3 DEF TokenSettled
    <3> HIDE DEF c
    <3>3. c.accrued \in Int /\ c.carry \in Int
      BY <3>1, ReserveEmissionsAssumption DEF Holders
    <3>4. h2.balance * (d.index - h2.index) = 0
      <4>1. d.index - h2.index = 0
        BY <1>1, <3>1, <3>2
      <4> QED BY <2>1, <4>1
    <3>5. h2.accrued * IndexScale = c.accrued * IndexScale - pay * IndexScale
      <4>1. \A x, y \in Int : (x - y) * IndexScale = x * IndexScale - y * IndexScale
        BY <1>1
      <4> QED BY <3>2, <3>3, <4>1
    <3>6. c.accrued * IndexScale \in Int /\ pay * IndexScale \in Int
      BY <1>1, <3>3
    <3>7. DueOf(h2, d.index) = h2.accrued * IndexScale + h2.carry + 0
      BY <3>4 DEF DueOf
    <3>8. DueOf(h2, d.index) = DueOf(hs[u], d.index) - pay * IndexScale
      BY <3>1, <3>2, <3>3, <3>5, <3>6, <3>7
    <3>9. d.expiration # Never
      BY <2>3 DEF TokenOK
    <3> QED BY <1>1, <3>1, <3>2, <3>8, <3>9
  <2> QED BY <2>2, <2>3
<1> HIDE DEF hs2
<1>4. /\ \A w \in Users : before[w] \in Int /\ after[w] \in Int
      /\ \A w \in Users \ {u} : before[w] = after[w]
      /\ after[u] = before[u] - pay * IndexScale
  <2>1. ASSUME NEW w \in Users PROVE before[w] \in Int /\ after[w] \in Int
    <3>1. hs[w] \in Holders /\ hs2[w] \in Holders
      BY <1>2
    <3>2. DueOf(hs[w], d.index) \in Int /\ DueOf(hs2[w], d.index) \in Int
      BY ONLY <1>1, <3>1, DueGrows
    <3> QED BY <3>2
  <2>2. \A w \in Users \ {u} : before[w] = after[w]
    BY <1>2
  <2> QED BY <1>2, <1>3, <2>1, <2>2
<1>5. /\ TokenHolding(hs2, d) = SumOn(after, Users) + d.indexCarry + d.remaining * IndexScale
      /\ TokenHolding(hs, d) = SumOn(before, Users) + d.indexCarry + d.remaining * IndexScale
  BY SumIsSumOn DEF TokenHolding
<1> HIDE DEF before, after
<1>6. SumOn(after, Users) = SumOn(before, Users) - before[u] + after[u]
  BY <1>1, <1>4, SumChange, SMTT(30)
<1>7. /\ SumOn(before, Users) \in Int /\ before[u] \in Int /\ after[u] \in Int
      /\ pay * IndexScale \in Int
  BY <1>1, <1>4, SumInt
<1>8. TokenHolding(hs2, d) = TokenHolding(hs, d) - pay * IndexScale
  <2> DEFINE y == d.remaining * IndexScale
             z == pay * IndexScale
  <2>1. /\ TokenHolding(hs2, d) = SumOn(after, Users) + d.indexCarry + y
        /\ TokenHolding(hs, d) = SumOn(before, Users) + d.indexCarry + y
        /\ after[u] = before[u] - z /\ y \in Int /\ z \in Int
    BY <1>1, <1>4, <1>5, <1>7
  <2> HIDE DEF y, z
  <2>2. TokenHolding(hs2, d) = TokenHolding(hs, d) - z
    BY <1>1, <1>6, <1>7, <2>1
  <2> QED BY <2>2 DEF z
<1>9. TokenOK(hs2, d)
  <2>1. \A w \in Users : hs2[w].index <= d.index
    BY <1>2, <1>3
  <2>2. d.expiration = Never => d = NoEmission /\ \A w \in Users : hs2[w].accrued = 0
    BY <1>2, <1>3 DEF TokenOK
  <2> QED BY <2>1, <2>2 DEF TokenOK
<1> QED BY <1>8, <1>9 DEF hs2

\* A refill adds its amount to the stream.
LEMMA TokenRefilled ==
  ASSUME now \in Nat, NEW hs \in [Users -> Holders], NEW d \in Emissions, TokenOK(hs, d),
         TokenHolding(hs, d) \in Int, NEW amount \in Nat
  PROVE  LET e == Refilled(d, amount)
         IN /\ e \in Emissions /\ TokenOK(hs, e)
            /\ TokenHolding(hs, e) = TokenHolding(hs, d) + amount * IndexScale
<1> DEFINE e == Refilled(d, amount)
<1>1. StreamTicks \in Nat \ {0} /\ IndexScale \in Nat /\ d.remaining \in Nat
  BY StreamsAssumption, ReserveEmissionsAssumption DEF Emissions
<1>2. /\ e \in Emissions /\ e.index = d.index /\ e.indexCarry = d.indexCarry
      /\ e.remaining = d.remaining + amount /\ e.last = now /\ e.expiration = now + StreamTicks
  <2>1. e = [d EXCEPT !.remaining = @ + amount, !.expiration = now + StreamTicks, !.last = now]
    BY DEF Refilled
  <2>2. d.remaining + amount \in Nat /\ now + StreamTicks \in Nat
    BY <1>1
  <2> HIDE DEF e
  <2>3. e \in Emissions
    BY <2>1, <2>2 DEF Emissions
  <2> QED BY <2>1, <2>3 DEF Emissions
<1> HIDE DEF e
<1>3. TokenOK(hs, e)
  <2>1. e.expiration # Never
    BY <1>1, <1>2 DEF Never
  <2>2. e.last <= now
    BY <1>2
  <2> QED BY <1>2, <2>1, <2>2 DEF TokenOK
<1>4. TokenHolding(hs, e) = TokenHolding(hs, d) + amount * IndexScale
  <2> DEFINE x == Sum([w \in Users |-> DueOf(hs[w], d.index)], Users)
             y == d.remaining * IndexScale
             z == amount * IndexScale
  <2>1. (d.remaining + amount) * IndexScale = y + z /\ y \in Int /\ z \in Int
    BY <1>1
  <2>2. /\ TokenHolding(hs, e) = x + d.indexCarry + (y + z)
        /\ TokenHolding(hs, d) = x + d.indexCarry + y
    BY <1>2, <2>1 DEF TokenHolding
  <2>3. x \in Int /\ d.indexCarry \in Int
    <3> DEFINE f == [w \in Users |-> DueOf(hs[w], d.index)]
    <3>1. \A w \in Users : DueOf(hs[w], d.index) \in Int
      <4>1. d.index \in Nat
        BY DEF Emissions
      <4> QED BY <4>1, DueGrows
    <3>2. \A w \in Users : f[w] \in Int
      BY <3>1
    <3>3. x = SumOn(f, Users) /\ d.indexCarry \in Int /\ IsFiniteSet(Users)
      BY SumIsSumOn, StreamsAssumption DEF Emissions
    <3> HIDE DEF f, x
    <3> QED BY <3>2, <3>3, SumInt
  <2> HIDE DEF x, y, z
  <2>4. TokenHolding(hs, e) = TokenHolding(hs, d) + z
    BY <2>1, <2>2, <2>3
  <2> QED BY <2>4 DEF z
<1> QED BY <1>2, <1>3, <1>4 DEF e
------------------------------------------------------------------------------
(* Sums over tiers and pools *)

\* If what every tier holds changes by what it is given less what it pays, then all
\* of them still hold what they were given less what was paid.
LEMMA FundedStep ==
  ASSUME NEW S, IsFiniteSet(S), NEW sq \in Int,
         NEW held, NEW held2, NEW given, NEW given2, NEW pay,
         \A x \in S : /\ held[x] \in Int /\ held2[x] \in Int
                      /\ given[x] \in Int /\ given2[x] \in Int /\ pay[x] \in Int
                      /\ held2[x] = held[x] + (given2[x] - given[x]) * sq - pay[x] * sq,
         NEW paid \in Int, SumOn(held, S) + paid * sq = SumOn(given, S) * sq
  PROVE  SumOn(held2, S) + (paid + SumOn(pay, S)) * sq = SumOn(given2, S) * sq
<1> DEFINE p == [x \in S |-> sq * pay[x]]
           a == [x \in S |-> sq * given[x]]
           b == [x \in S |-> sq * given2[x]]
           l1 == [x \in S |-> held2[x] + p[x]]
           l2 == [x \in S |-> l1[x] + a[x]]
           r == [x \in S |-> held[x] + b[x]]
<1>1. \A x, y \in Int : x * y = y * x /\ x * y \in Int
  OBVIOUS
<1>2. \A x, y, z \in Int : (x - y) * z = z * x - z * y /\ (x + y) * z = x * z + y * z
  OBVIOUS
<1>3. ASSUME NEW x \in S
      PROVE  /\ p[x] = sq * pay[x] /\ a[x] = sq * given[x] /\ b[x] = sq * given2[x]
             /\ p[x] \in Int /\ a[x] \in Int /\ b[x] \in Int
             /\ l1[x] \in Int /\ l2[x] \in Int /\ r[x] \in Int
             /\ l1[x] = held2[x] + p[x] /\ l2[x] = l1[x] + a[x] /\ r[x] = held[x] + b[x]
             /\ l2[x] = r[x]
  <2>1. p[x] = sq * pay[x] /\ a[x] = sq * given[x] /\ b[x] = sq * given2[x]
    OBVIOUS
  <2>2. l1[x] = held2[x] + p[x] /\ l2[x] = l1[x] + a[x] /\ r[x] = held[x] + b[x]
    OBVIOUS
  <2> HIDE DEF p, a, b, l1, l2, r
  <2>3. /\ held[x] \in Int /\ held2[x] \in Int /\ given[x] \in Int /\ given2[x] \in Int
        /\ pay[x] \in Int
        /\ held2[x] = held[x] + (given2[x] - given[x]) * sq - pay[x] * sq
    OBVIOUS
  <2>4. p[x] \in Int /\ a[x] \in Int /\ b[x] \in Int
    BY <1>1, <2>1, <2>3
  <2>5. (given2[x] - given[x]) * sq = b[x] - a[x] /\ pay[x] * sq = p[x]
    <3>1. (given2[x] - given[x]) * sq = sq * given2[x] - sq * given[x]
      BY ONLY <1>2, <2>3, sq \in Int
    <3>2. pay[x] * sq = sq * pay[x]
      BY ONLY <1>1, <2>3, sq \in Int
    <3> QED BY ONLY <2>1, <3>1, <3>2
  <2>6. held2[x] = held[x] + (b[x] - a[x]) - p[x]
    BY ONLY <2>3, <2>5
  <2> QED BY ONLY <2>1, <2>2, <2>3, <2>4, <2>6
<1> HIDE DEF p, a, b, l1, l2, r
<1>4. \A x \in S : /\ held[x] \in Int /\ held2[x] \in Int /\ given[x] \in Int
                   /\ given2[x] \in Int /\ pay[x] \in Int
  OBVIOUS
<1>5. SumOn(p, S) = sq * SumOn(pay, S)
  <2>1. \A x \in S : pay[x] \in Int /\ p[x] = sq * pay[x]
    BY <1>3, <1>4
  <2> QED BY ONLY <2>1, IsFiniteSet(S), sq \in Int, SumFactor
<1>6. SumOn(a, S) = sq * SumOn(given, S)
  <2>1. \A x \in S : given[x] \in Int /\ a[x] = sq * given[x]
    BY <1>3, <1>4
  <2> QED BY ONLY <2>1, IsFiniteSet(S), sq \in Int, SumFactor
<1>7. SumOn(b, S) = sq * SumOn(given2, S)
  <2>1. \A x \in S : given2[x] \in Int /\ b[x] = sq * given2[x]
    BY <1>3, <1>4
  <2> QED BY ONLY <2>1, IsFiniteSet(S), sq \in Int, SumFactor
<1>8. SumOn(l1, S) = SumOn(held2, S) + SumOn(p, S)
  <2>1. \A x \in S : held2[x] \in Int /\ p[x] \in Int /\ l1[x] = held2[x] + p[x]
    BY <1>3, <1>4
  <2> QED BY ONLY <2>1, IsFiniteSet(S), SumPlus
<1>9. SumOn(l2, S) = SumOn(l1, S) + SumOn(a, S)
  <2>1. \A x \in S : l1[x] \in Int /\ a[x] \in Int /\ l2[x] = l1[x] + a[x]
    BY <1>3, <1>4
  <2> QED BY ONLY <2>1, IsFiniteSet(S), SumPlus
<1>10. SumOn(r, S) = SumOn(held, S) + SumOn(b, S)
  <2>1. \A x \in S : held[x] \in Int /\ b[x] \in Int /\ r[x] = held[x] + b[x]
    BY <1>3, <1>4
  <2> QED BY ONLY <2>1, IsFiniteSet(S), SumPlus
<1>11. SumOn(l2, S) = SumOn(r, S)
  <2>1. \A x \in S : l2[x] = r[x]
    BY <1>3
  <2> QED BY ONLY <2>1, IsFiniteSet(S), SumAgree
<1>12. /\ SumOn(held, S) \in Int /\ SumOn(held2, S) \in Int /\ SumOn(given, S) \in Int
       /\ SumOn(given2, S) \in Int /\ SumOn(pay, S) \in Int
  BY <1>4, SumInt
<1> DEFINE H1 == SumOn(held, S)
           H2 == SumOn(held2, S)
           G1 == SumOn(given, S)
           G2 == SumOn(given2, S)
           P == SumOn(pay, S)
<1>13. H2 + sq * P + sq * G1 = H1 + sq * G2
  BY <1>5, <1>6, <1>7, <1>8, <1>9, <1>10, <1>11
<1>14. H1 + paid * sq = G1 * sq /\ H1 \in Int /\ H2 \in Int /\ G1 \in Int /\ G2 \in Int /\ P \in Int
  BY <1>12
<1>15. H2 + (paid + P) * sq = G2 * sq
  <2> HIDE DEF H1, H2, G1, G2, P
  <2>1. /\ sq * P = P * sq /\ sq * G1 = G1 * sq /\ sq * G2 = G2 * sq
        /\ (paid + P) * sq = paid * sq + P * sq
        /\ P * sq \in Int /\ G1 * sq \in Int /\ G2 * sq \in Int /\ paid * sq \in Int
    BY ONLY <1>1, <1>2, <1>14, paid \in Int, sq \in Int
  <2> DEFINE x == P * sq
             y == G1 * sq
             z == G2 * sq
             w == paid * sq
  <2>2. /\ H2 + x + y = H1 + z /\ H1 + w = y /\ x \in Int /\ y \in Int /\ z \in Int /\ w \in Int
        /\ (paid + P) * sq = w + x
    BY <1>13, <1>14, <2>1
  <2> HIDE DEF x, y, z, w
  <2>3. H2 + (w + x) = z
    BY ONLY <1>14, <2>2
  <2> QED BY <2>2, <2>3 DEF z
<1> QED BY <1>15

\* Credited splits all it is given, and what was left over, among the tiers.
OngoingOf ==
  [active : [Tiers -> Nat], pending : [Tiers -> Nat], tierCarry : Nat, accrued : Nat]

LEMMA CreditedKeeps ==
  ASSUME NEW o \in OngoingOf, NEW weights \in [Tiers -> Nat], NEW toBackstop \in Nat,
         NEW toPool \in Nat, Sum(weights, Tiers) = 0 => toBackstop = 0
  PROVE  LET d == Credited(o, weights, toBackstop, toPool)
         IN /\ d \in OngoingOf /\ d.active = o.active /\ d.accrued = o.accrued + toPool
            /\ Sum(d.pending, Tiers) + d.tierCarry
                 = Sum(o.pending, Tiers) + o.tierCarry + toBackstop
<1> DEFINE d == Credited(o, weights, toBackstop, toPool)
           distribution == toBackstop + o.tierCarry
           total == Sum(weights, Tiers)
           part == [t \in Tiers |-> IF total = 0 THEN 0
                                    ELSE Portion(distribution, weights[t], total)]
           pending == o.pending
           more == [t \in Tiers |-> pending[t] + part[t]]
           left == IF total = 0 THEN o.tierCarry ELSE distribution - Sum(part, Tiers)
<1>1. /\ IsFiniteSet(Tiers) /\ distribution \in Nat /\ o.tierCarry \in Nat /\ o.accrued \in Nat
      /\ pending \in [Tiers -> Nat]
  BY StreamsAssumption DEF OngoingOf
<1>2. d = [o EXCEPT !.pending = more, !.tierCarry = left, !.accrued = @ + toPool]
  BY DEF Credited
<1>3. /\ \A t \in Tiers : part[t] \in Nat
      /\ SumOn(part, Tiers) \in 0..distribution
  <2>1. \A t \in Tiers : weights[t] \in Nat
    OBVIOUS
  <2>2. \A t \in Tiers : part[t] = IF SumOn(weights, Tiers) = 0 THEN 0
                                   ELSE (distribution * weights[t]) \div SumOn(weights, Tiers)
    BY SumIsSumOn DEF Portion
  <2> HIDE DEF part, distribution
  <2> QED BY ONLY <1>1, <2>1, <2>2, PartsWithinAmount
<1>4. total = 0 => SumOn(part, Tiers) = 0
  <2>1. total = 0 => \A t \in Tiers : part[t] = 0
    OBVIOUS
  <2> HIDE DEF part, total
  <2> QED BY <1>1, <2>1, SumZero
<1>5. \A t \in Tiers : more[t] = pending[t] + part[t] /\ pending[t] \in Int /\ part[t] \in Int
  BY <1>1, <1>3
<1>6. more \in [Tiers -> Nat]
  <2>1. \A t \in Tiers : pending[t] + part[t] \in Nat
    BY <1>1, <1>3
  <2> HIDE DEF part, pending
  <2> QED BY <2>1
<1>7. left = distribution - SumOn(part, Tiers) /\ left \in Nat
  <2>1. total = 0 => left = distribution - 0
    BY <1>1
  <2>2. total # 0 => left = distribution - SumOn(part, Tiers)
    BY SumIsSumOn
  <2>3. left = distribution - SumOn(part, Tiers)
    BY <1>4, <2>1, <2>2
  <2> HIDE DEF left, part, distribution
  <2> QED BY <1>1, <1>3, <2>3
<1> HIDE DEF part, total, more, left
<1>8. SumOn(more, Tiers) = SumOn(pending, Tiers) + SumOn(part, Tiers)
  <2> HIDE DEF pending
  <2>1. \A t \in Tiers : pending[t] \in Int /\ part[t] \in Int /\ more[t] = pending[t] + part[t]
    BY <1>5
  <2> QED BY ONLY <1>1, <2>1, SumPlus
<1>9. /\ d \in OngoingOf /\ d.active = o.active /\ d.accrued = o.accrued + toPool
      /\ d.pending = more /\ d.tierCarry = left
  <2>1. o.accrued + toPool \in Nat
    BY <1>1
  <2> HIDE DEF d
  <2> QED BY <1>2, <1>6, <1>7, <2>1 DEF OngoingOf
<1>10. SumOn(pending, Tiers) \in Int
  <2> HIDE DEF pending
  <2>1. \A t \in Tiers : pending[t] \in Int
    BY <1>1
  <2> QED BY <1>1, <2>1, SumInt
<1> HIDE DEF d
<1>11. Sum(d.pending, Tiers) + d.tierCarry = Sum(o.pending, Tiers) + o.tierCarry + toBackstop
  BY <1>1, <1>3, <1>7, <1>8, <1>9, <1>10, SumIsSumOn
<1> QED BY <1>9, <1>11 DEF d

\* The parts of the pools of the zone, of an amount.
LEMMA ZoneParts ==
  ASSUME NEW Z \in SUBSET Pools, NEW amount \in Nat, NEW weight \in [Pools -> Nat],
         NEW part, part = [p \in Z |-> IF Sum(weight, Z) = 0 THEN 0
                                       ELSE Portion(amount, weight[p], Sum(weight, Z))]
  PROVE  /\ \A p \in Z : part[p] \in Nat /\ (weight[p] = 0 => part[p] = 0)
         /\ Sum(part, Z) \in Nat /\ amount - Sum(part, Z) \in Nat
<1>1. IsFiniteSet(Z)
  BY StreamsAssumption, FS_Subset
<1>2. \A p \in Z : part[p] = IF SumOn(weight, Z) = 0 THEN 0
                             ELSE (amount * weight[p]) \div SumOn(weight, Z)
  BY SumIsSumOn DEF Portion
<1>3. \A p \in Z : weight[p] \in Nat
  OBVIOUS
<1>4. (\A p \in Z : part[p] \in Nat) /\ SumOn(part, Z) \in 0..amount
  BY ONLY <1>1, <1>2, <1>3, amount \in Nat, PartsWithinAmount
<1>5. SumOn(weight, Z) \in Nat
  BY <1>1, <1>3, SumNat
<1>6. ASSUME NEW p \in Z, weight[p] = 0 PROVE part[p] = 0
  <2>1. \A w \in Nat \ {0} : (amount * 0) \div w = 0
    OBVIOUS
  <2>2. part[p] = IF SumOn(weight, Z) = 0 THEN 0 ELSE (amount * 0) \div SumOn(weight, Z)
    BY <1>2, <1>6
  <2> QED BY <1>5, <2>1, <2>2
<1> QED BY <1>4, <1>6, SumIsSumOn

\* A function that is increased on part of a set.
LEMMA PartIncrease ==
  ASSUME NEW S, IsFiniteSet(S), NEW Z \in SUBSET S, NEW f, NEW g, NEW part,
         \A p \in S : f[p] \in Int /\ g[p] \in Int, \A p \in Z : part[p] \in Int,
         \A p \in S : g[p] = IF p \in Z THEN f[p] + part[p] ELSE f[p]
  PROVE  Sum(g, S) = Sum(f, S) + Sum(part, Z)
<1> DEFINE O == S \ Z
<1>1. IsFiniteSet(Z) /\ IsFiniteSet(O) /\ Z \cap O = {} /\ Z \cup O = S
  BY FS_Subset
<1> HIDE DEF O
<1>2. \A p \in Z \cup O : f[p] \in Int /\ g[p] \in Int
  BY <1>1
<1>3. SumOn(f, Z \cup O) = SumOn(f, Z) + SumOn(f, O)
  BY ONLY <1>1, <1>2, SumUnion
<1>4. SumOn(g, Z \cup O) = SumOn(g, Z) + SumOn(g, O)
  BY ONLY <1>1, <1>2, SumUnion
<1>5. SumOn(g, Z) = SumOn(f, Z) + SumOn(part, Z)
  <2>1. \A p \in Z : f[p] \in Int /\ part[p] \in Int /\ g[p] = f[p] + part[p]
    OBVIOUS
  <2> QED BY ONLY <1>1, <2>1, SumPlus
<1>6. SumOn(g, O) = SumOn(f, O)
  <2>1. \A p \in O : g[p] = f[p]
    BY DEF O
  <2> QED BY ONLY <1>1, <2>1, SumAgree
<1>7. SumOn(f, Z) \in Int /\ SumOn(f, O) \in Int /\ SumOn(part, Z) \in Int
  <2>1. /\ \A p \in Z : f[p] \in Int /\ part[p] \in Int
        /\ \A p \in O : f[p] \in Int
    BY <1>2
  <2> QED BY <1>1, <2>1, SumInt
<1>8. SumOn(g, S) = SumOn(f, S) + SumOn(part, Z)
  <2>1. SumOn(g, Z \cup O) = SumOn(f, Z \cup O) + SumOn(part, Z)
    BY ONLY <1>3, <1>4, <1>5, <1>6, <1>7
  <2> QED BY ONLY <1>1, <2>1
<1> QED BY <1>8, SumIsSumOn
------------------------------------------------------------------------------
(* The backstop's side of the invariant *)

Tranches == Pools \X Tiers

\* The records of a tier.
LEMMA TierTypes ==
  ASSUME StreamsTypeOK, NEW p \in Pools, NEW t \in Tiers
  PROVE  /\ position[p][t] \in [Users -> Accounts] /\ stream[p][t] \in StreamRecord
         /\ balance[p][t] \in Balances /\ history[p][t] \in Histories
         /\ ongoing[p] \in OngoingOf /\ now \in Nat
BY DEF StreamsTypeOK, Accounts, Balances, Histories, OngoingOf

LEMMA HoldingInt ==
  ASSUME now \in Nat, NEW pos \in [Users -> Accounts], NEW s, NEW b, TierOK(pos, s, b),
         NEW h \in Histories
  PROVE  HoldingOf(pos, s, h) \in Int
<1> DEFINE f == [u \in Users |-> EarnedOf(pos[u], s.index)]
<1>1. s.index \in Nat /\ s.indexCarry \in Int /\ StreamOK(s)
  BY DEF TierOK, StreamOK, StreamRecord
<1>2. \A u \in Users : f[u] \in Int
  <2>1. \A u \in Users : EarnedOf(pos[u], s.index) \in Int
    BY <1>1, EarnedGrows
  <2> QED BY <2>1
<1>3. Unreleased(s) \in Nat /\ h.unearned \in Nat /\ Scale \in Nat
  <2>1. Unreleased(s) \in Nat
    BY <1>1, AdvanceIsExact, 0 \in Nat
  <2> QED BY <2>1, StreamsAssumption DEF Histories
<1>4. HoldingOf(pos, s, h) = SumOn(f, Users) + s.indexCarry + (Unreleased(s) + h.unearned) * Scale
  BY SumIsSumOn DEF HoldingOf
<1> HIDE DEF f
<1>5. SumOn(f, Users) \in Int
  BY <1>2, SumInt, StreamsAssumption
<1>6. (Unreleased(s) + h.unearned) * Scale \in Int
  BY <1>3
<1> QED BY <1>1, <1>4, <1>5, <1>6

\* The number a sum of claims is measured in.
LEMMA SquareInt == Scale * Scale \in Int /\ \A x \in Int : x * Scale * Scale = x * (Scale * Scale)
<1>1. Scale \in Int
  BY StreamsAssumption
<1> QED BY <1>1

LEMMA HoldingIsHoldingOf ==
  \A p, t : Holding(p, t) = HoldingOf(position[p][t], stream[p][t], history[p][t])
BY DEF Holding, HoldingOf, Earned, EarnedOf

\* A call that changes tiers one by one keeps the claims funded.
LEMMA FundedMove ==
  ASSUME StreamsTypeOK, StreamsTypeOK', ClaimsAreFunded, TiersInOrder, TiersInOrder',
         NEW pay, \A x \in Tranches : pay[x] \in Nat,
         \A p \in Pools, t \in Tiers :
           HoldingOf(position'[p][t], stream'[p][t], history'[p][t])
             = HoldingOf(position[p][t], stream[p][t], history[p][t])
               + (history'[p][t].gulped - history[p][t].gulped) * (Scale * Scale)
               - pay[<<p, t>>] * (Scale * Scale),
         ledger'.claimed = ledger.claimed + SumOn(pay, Tranches)
  PROVE  ClaimsAreFunded'
<1> DEFINE sq == Scale * Scale
           held == [x \in Tranches |-> Holding(x[1], x[2])]
           held2 == [x \in Tranches |-> Holding(x[1], x[2])']
           given == [x \in Tranches |-> history[x[1]][x[2]].gulped]
           given2 == [x \in Tranches |-> history'[x[1]][x[2]].gulped]
<1>1. IsFiniteSet(Tranches) /\ sq \in Int
  BY StreamsAssumption, FS_Product, SquareInt DEF Tranches
<1>2. /\ ledger.claimed \in Int
      /\ SumOn(held, Tranches) + ledger.claimed * sq = SumOn(given, Tranches) * sq
  <2>1. \A p \in Pools, t \in Tiers : history[p][t].gulped \in Int
    BY TierTypes DEF Histories
  <2>2. \A x \in Tranches : given[x] \in Int
    BY <2>1 DEF Tranches
  <2>3. SumOn(given, Tranches) \in Int
    <3> HIDE DEF given
    <3> QED BY <1>1, <2>2, SumInt
  <2>4. ledger.claimed \in Int
    BY DEF StreamsTypeOK
  <2>5. SumOn(held, Tranches) + ledger.claimed * Scale * Scale
          = SumOn(given, Tranches) * Scale * Scale
    BY SumIsSumOn DEF ClaimsAreFunded, Tranches
  <2>6. ledger.claimed * Scale * Scale = ledger.claimed * sq
    BY ONLY <2>4, SquareInt
  <2>7. SumOn(given, Tranches) * Scale * Scale = SumOn(given, Tranches) * sq
    <3> HIDE DEF given
    <3> QED BY ONLY <2>3, SquareInt
  <2> HIDE DEF held, given
  <2> QED BY <2>4, <2>5, <2>6, <2>7
<1>3. ASSUME NEW x \in Tranches
      PROVE  /\ held[x] \in Int /\ held2[x] \in Int
             /\ given[x] \in Int /\ given2[x] \in Int /\ pay[x] \in Int
             /\ held2[x] = held[x] + (given2[x] - given[x]) * sq - pay[x] * sq
  <2>1. PICK p \in Pools, t \in Tiers : x = <<p, t>>
    BY DEF Tranches
  <2>2. held[x] = HoldingOf(position[p][t], stream[p][t], history[p][t])
    BY <2>1, HoldingIsHoldingOf
  <2>3. held2[x] = HoldingOf(position'[p][t], stream'[p][t], history'[p][t])
    <3>1. Holding(p, t)' = HoldingOf(position'[p][t], stream'[p][t], history'[p][t])
      BY DEF Holding, HoldingOf, Earned, EarnedOf, Unreleased
    <3> QED BY <2>1, <3>1
  <2>4. given[x] = history[p][t].gulped /\ given2[x] = history'[p][t].gulped
    BY <2>1
  <2>5. given[x] \in Int /\ HoldingOf(position[p][t], stream[p][t], history[p][t]) \in Int
    <3>1. history[p][t].gulped \in Int
      BY TierTypes DEF Histories
    <3>2. TierOK(position[p][t], stream[p][t], balance[p][t])
      BY DEF TiersInOrder
    <3> QED BY <2>4, <3>1, <3>2, TierTypes, HoldingInt
  <2>6. given2[x] \in Int
    BY <2>4 DEF StreamsTypeOK
  <2> HIDE DEF held, held2, given, given2, sq
  <2>7. pay[x] \in Int /\ pay[<<p, t>>] = pay[x]
    BY <2>1
  <2>8. held2[x] = held[x] + (given2[x] - given[x]) * sq - pay[x] * sq
    BY <2>2, <2>3, <2>4, <2>7 DEF sq
  <2>9. held2[x] \in Int
    BY <1>1, <2>2, <2>5, <2>6, <2>7, <2>8
  <2> QED BY <2>2, <2>5, <2>6, <2>7, <2>8, <2>9
<1> HIDE DEF held, held2, given, given2, sq
<1>4. SumOn(held2, Tranches) + (ledger.claimed + SumOn(pay, Tranches)) * sq
        = SumOn(given2, Tranches) * sq
  <2> DEFINE paid == ledger.claimed
  <2>1. /\ IsFiniteSet(Tranches) /\ sq \in Int /\ paid \in Int
        /\ SumOn(held, Tranches) + paid * sq = SumOn(given, Tranches) * sq
    BY <1>1, <1>2
  <2>2. \A x \in Tranches :
          /\ held[x] \in Int /\ held2[x] \in Int
          /\ given[x] \in Int /\ given2[x] \in Int /\ pay[x] \in Int
          /\ held2[x] = held[x] + (given2[x] - given[x]) * sq - pay[x] * sq
    BY <1>3
  <2> HIDE DEF paid
  <2>3. SumOn(held2, Tranches) + (paid + SumOn(pay, Tranches)) * sq = SumOn(given2, Tranches) * sq
    BY ONLY <2>1, <2>2, FundedStep, SMTT(60)
  <2> QED BY <2>3 DEF paid
<1>5. SumOn(held2, Tranches) + ledger'.claimed * sq = SumOn(given2, Tranches) * sq
  BY <1>4
<1>6. ledger'.claimed \in Int /\ SumOn(given2, Tranches) \in Int
  <2>1. SumOn(given2, Tranches) \in Int
    BY <1>1, <1>3, SumInt
  <2> QED BY <2>1 DEF StreamsTypeOK
<1>7. /\ ledger'.claimed * Scale * Scale = ledger'.claimed * sq
      /\ SumOn(given2, Tranches) * Scale * Scale = SumOn(given2, Tranches) * sq
  BY <1>6, SquareInt DEF sq
<1>8. SumOn(held2, Tranches) + ledger'.claimed * Scale * Scale
        = SumOn(given2, Tranches) * Scale * Scale
  BY <1>5, <1>7
<1> QED BY <1>8, SumIsSumOn DEF ClaimsAreFunded, Tranches, held2, given2

\* The checkpoint of a tier, with what u is paid and the change of its shares.
LEMMA Checkpointing ==
  ASSUME StreamsTypeOK, TiersInOrder, NEW p \in Pools, NEW t \in Tiers, NEW u \in Users
  PROVE  /\ Now(p, t) \in StreamRecord /\ Lost(p, t) \in Nat
         /\ [history[p][t] EXCEPT !.unearned = @ + Lost(p, t)] \in Histories
         /\ Checkpointed(p, t, u) \in Accounts
         /\ Checkpointed(p, t, u) = Accrued(position[p][t][u], Now(p, t).index)
         /\ Checkpointed(p, t, u).shares = position[p][t][u].shares
         /\ Checkpointed(p, t, u).q4w = position[p][t][u].q4w
         /\ \A user \in Accounts, pay \in Nat : \A b2 :
              TierSettled(position[p][t], Now(p, t), balance[p][t], u, user, pay, b2) =>
                /\ TierOK([position[p][t] EXCEPT ![u] = user], Now(p, t), b2)
                /\ HoldingOf([position[p][t] EXCEPT ![u] = user], Now(p, t),
                             [history[p][t] EXCEPT !.unearned = @ + Lost(p, t)])
                     = HoldingOf(position[p][t], stream[p][t], history[p][t])
                       - pay * Scale * Scale
<1> DEFINE pos == position[p][t]
           s == stream[p][t]
           b == balance[p][t]
           h == history[p][t]
           d == Now(p, t)
           h2 == [h EXCEPT !.unearned = @ + Lost(p, t)]
<1>1. /\ pos \in [Users -> Accounts] /\ s \in StreamRecord /\ b \in Balances /\ h \in Histories
      /\ now \in Nat /\ TierOK(pos, s, b)
  BY TierTypes DEF TiersInOrder
<1>2. /\ d = Advanced(s, ActiveShares(b))
      /\ Lost(p, t) = IF ActiveShares(b) = 0 THEN Released(s) ELSE 0
  BY DEF Now, Lost
<1> HIDE DEF pos, s, b, h, d
<1>3. Lost(p, t) \in Nat
  <2>1. StreamOK(s)
    BY <1>1 DEF TierOK
  <2>2. ActiveShares(b) \in Nat
    <3> DEFINE shares == [w \in Users |-> pos[w].shares]
    <3>1. \A w \in Users : shares[w] \in Nat
      BY <1>1 DEF Accounts
    <3>2. ActiveShares(b) = SumOn(shares, Users)
      BY <1>1, SumIsSumOn DEF TierOK
    <3> HIDE DEF shares
    <3> QED BY <3>1, <3>2, SumNat, StreamsAssumption
  <2>3. LET lost == IF ActiveShares(b) = 0 THEN Released(s) ELSE 0 IN lost \in Nat
    BY <1>1, <2>1, <2>2, AdvanceIsExact
  <2> QED BY <1>2, <2>3
<1>4. h2 \in Histories /\ h2.unearned = h.unearned + Lost(p, t)
  BY <1>1, <1>3 DEF Histories
<1> HIDE DEF h2
<1>5. /\ TierOK(pos, d, b) /\ HoldingOf(pos, d, h2) = HoldingOf(pos, s, h)
      /\ Unreleased(d) \in Nat
  BY <1>1, <1>2, <1>4, TierAdvanced
<1>6. d \in StreamRecord /\ d.index \in Nat
  BY <1>5 DEF TierOK, StreamOK, StreamRecord
<1>7. /\ Checkpointed(p, t, u) = Accrued(pos[u], d.index)
      /\ Checkpointed(p, t, u) \in Accounts
      /\ Checkpointed(p, t, u).shares = pos[u].shares
      /\ Checkpointed(p, t, u).q4w = pos[u].q4w
  <2>1. Checkpointed(p, t, u) = Accrued(pos[u], d.index)
    BY DEF Checkpointed, pos, d
  <2>2. pos[u] \in Accounts /\ pos[u].index <= d.index
    BY <1>1, <1>5 DEF TierOK
  <2> QED BY <1>6, <2>1, <2>2, AccrualIsExact
<1>8. ASSUME NEW user \in Accounts, NEW pay \in Nat, NEW b2,
             TierSettled(pos, d, b, u, user, pay, b2)
      PROVE  /\ TierOK([pos EXCEPT ![u] = user], d, b2)
             /\ HoldingOf([pos EXCEPT ![u] = user], d, h2)
                  = HoldingOf(pos, s, h) - pay * Scale * Scale
  <2>1. LET pos2 == [pos EXCEPT ![u] = user]
        IN /\ TierOK(pos2, d, b2)
           /\ HoldingOf(pos2, d, h2) = HoldingOf(pos, d, h2) - pay * Scale * Scale
    <3>1. pos \in [Users -> Accounts] /\ TierOK(pos, d, b) /\ h2 \in Histories
      BY <1>1, <1>4, <1>5
    <3>2. Unreleased(d) \in Nat /\ TierSettled(pos, d, b, u, user, pay, b2)
      BY <1>5, <1>8
    <3>3. u \in Users /\ pay \in Nat /\ user \in Accounts
      OBVIOUS
    <3> QED BY ONLY <3>1, <3>2, <3>3, TierPaid
  <2> QED BY <1>5, <2>1
<1> QED BY <1>3, <1>4, <1>6, <1>7, <1>8 DEF pos, s, b, h, d, h2
\* A call that leaves the splits alone keeps them accounted for.
LEMMA AccountingFrame ==
  ASSUME EveryTokenIsAccounted, StreamsTypeOK',
         ledger'.total = ledger.total, ledger'.toBackstop = ledger.toBackstop,
         ledger'.toPools = ledger.toPools, ledger'.splitCarry = ledger.splitCarry,
         ledger'.backstopCarry = ledger.backstopCarry, ledger'.poolCarry = ledger.poolCarry,
         \A p \in Pools : /\ \A t \in Tiers : history'[p][t].gulped = history[p][t].gulped
                          /\ ongoing'[p].pending = ongoing[p].pending
                          /\ ongoing'[p].tierCarry = ongoing[p].tierCarry
  PROVE  EveryTokenIsAccounted'
<1>1. ASSUME NEW p \in Pools PROVE GulpedFor(p)' = GulpedFor(p) /\ Waiting(p)' = Waiting(p)
  <2>1. [t \in Tiers |-> history'[p][t].gulped] = [t \in Tiers |-> history[p][t].gulped]
    OBVIOUS
  <2> QED BY <2>1 DEF GulpedFor, Waiting
<1>2. [p \in Pools |-> GulpedFor(p)' + Waiting(p)'] = [p \in Pools |-> GulpedFor(p) + Waiting(p)]
  BY <1>1
<1>3. (Sum([p \in Pools |-> GulpedFor(p) + Waiting(p)], Pools))'
        = Sum([p \in Pools |-> GulpedFor(p) + Waiting(p)], Pools)
  BY <1>2
<1> QED BY <1>3 DEF EveryTokenIsAccounted

\* What a balance is worth.
LEMMA WorthNat ==
  ASSUME NEW b \in Balances, ActiveShares(b) \in Nat
  PROVE  ActiveAssets(b) \in Nat
<1>1. b.shares \in Nat /\ b.tokens \in Nat
  BY DEF Balances
<1>2. ActiveShares(b) * b.tokens \in Nat
  BY <1>1, ProductNat
<1>3. CASE b.shares = 0 \/ b.shares = ActiveShares(b)
  BY <1>1, <1>3 DEF ActiveAssets, ConvertToTokens
<1>4. CASE b.shares # 0 /\ b.shares # ActiveShares(b)
  <2>1. (ActiveShares(b) * b.tokens) \div b.shares \in Nat
    BY <1>1, <1>2, <1>4, DivisionBounds
  <2> QED BY <1>4, <2>1 DEF ActiveAssets, ConvertToTokens, Portion
<1> QED BY <1>3, <1>4

LEMMA ActiveNat ==
  ASSUME NEW pos \in [Users -> Accounts], NEW s, NEW b, TierOK(pos, s, b)
  PROVE  ActiveShares(b) \in Nat
<1> DEFINE shares == [w \in Users |-> pos[w].shares]
<1>1. \A w \in Users : shares[w] \in Nat
  BY DEF Accounts
<1>2. ActiveShares(b) = SumOn(shares, Users)
  BY SumIsSumOn DEF TierOK
<1> HIDE DEF shares
<1> QED BY <1>1, <1>2, SumNat, StreamsAssumption

LEMMA RefreshedTypes ==
  ASSUME NEW o \in OngoingOf, NEW bs, \A t \in Tiers : ActiveAssets(bs[t]) \in Nat
  PROVE  /\ Refreshed(o, bs) \in OngoingOf
         /\ \A t \in Tiers : Refreshed(o, bs).active[t] = ActiveAssets(bs[t])
         /\ Refreshed(o, bs).pending = o.pending /\ Refreshed(o, bs).tierCarry = o.tierCarry
         /\ Refreshed(o, bs).accrued = o.accrued
<1> DEFINE active == [t \in Tiers |-> ActiveAssets(bs[t])]
<1>1. Refreshed(o, bs) = [o EXCEPT !.active = active]
  BY DEF Refreshed
<1>2. active \in [Tiers -> Nat] /\ \A t \in Tiers : active[t] = ActiveAssets(bs[t])
  OBVIOUS
<1> HIDE DEF active
<1> QED BY <1>1, <1>2 DEF OngoingOf

\* A change of the balance of one depositor, after the checkpoint of the tier.
LEMMA MoveKeeps ==
  ASSUME BackstopInv, now' = now, NEW p \in Pools, NEW t \in Tiers, NEW u \in Users,
         NEW user \in Accounts, NEW b \in Balances,
         TierSettled(position[p][t], Now(p, t), balance[p][t], u, user, 0, b),
         Move(p, t, u, user, b)
  PROVE  /\ BackstopInv'
         /\ \A x \in Pools : ongoing'[x].accrued = ongoing[x].accrued
<1> DEFINE bs == [balance[p] EXCEPT ![t] = b]
           h2 == [history[p][t] EXCEPT !.unearned = @ + Lost(p, t)]
           pos2 == [position[p][t] EXCEPT ![u] = user]
<1>1. StreamsTypeOK /\ TiersInOrder /\ ClaimsAreFunded /\ EveryTokenIsAccounted /\ WeightsAreCurrent
  BY DEF BackstopInv, EveryTokenIsAccounted
<1>2. /\ Now(p, t) \in StreamRecord /\ h2 \in Histories
      /\ TierOK(pos2, Now(p, t), b)
      /\ HoldingOf(pos2, Now(p, t), h2)
           = HoldingOf(position[p][t], stream[p][t], history[p][t]) - 0 * Scale * Scale
  BY <1>1, Checkpointing, 0 \in Nat
<1>3. /\ position \in [Pools -> [Tiers -> [Users -> Accounts]]]
      /\ stream \in [Pools -> [Tiers -> StreamRecord]]
      /\ balance \in [Pools -> [Tiers -> Balances]]
      /\ history \in [Pools -> [Tiers -> Histories]]
      /\ ongoing \in [Pools -> OngoingOf]
  BY <1>1 DEF StreamsTypeOK, Accounts, Balances, Histories, OngoingOf
<1>4. h2.gulped = history[p][t].gulped
  BY <1>3 DEF Histories
<1> HIDE DEF h2
<1>5. /\ stream' = [stream EXCEPT ![p][t] = Now(p, t)]
      /\ position' = [position EXCEPT ![p][t][u] = user]
      /\ balance' = [balance EXCEPT ![p][t] = b]
      /\ ongoing' = [ongoing EXCEPT ![p] = Refreshed(@, bs)]
      /\ UNCHANGED <<zone, ledger, lastGulp, allowance>>
  BY DEF Move
<1>6. history' = [history EXCEPT ![p][t] = h2]
  BY DEF Move, h2
<1>7. pos2 \in [Users -> Accounts]
  BY <1>3
<1>8. \A x \in Pools, y \in Tiers :
        /\ position'[x][y] = IF x = p /\ y = t THEN pos2 ELSE position[x][y]
        /\ stream'[x][y] = IF x = p /\ y = t THEN Now(p, t) ELSE stream[x][y]
        /\ balance'[x][y] = IF x = p /\ y = t THEN b ELSE balance[x][y]
        /\ history'[x][y] = IF x = p /\ y = t THEN h2 ELSE history[x][y]
  BY <1>3, <1>5, <1>6
<1> HIDE DEF pos2
<1>9. /\ position' \in [Pools -> [Tiers -> [Users -> Accounts]]]
      /\ stream' \in [Pools -> [Tiers -> StreamRecord]]
      /\ balance' \in [Pools -> [Tiers -> Balances]]
      /\ history' \in [Pools -> [Tiers -> Histories]]
  BY <1>2, <1>3, <1>5, <1>6
<1>10. TiersInOrder'
  <2>1. ASSUME NEW x \in Pools, NEW y \in Tiers
        PROVE  TierOK(position'[x][y], stream'[x][y], balance'[x][y])
    BY <1>1, <1>2, <1>8 DEF TiersInOrder
  <2>2. ASSUME NEW x \in Pools, NEW y \in Tiers
        PROVE  TierOK(position[x][y], stream[x][y], balance[x][y])'
    BY <2>1, now' = now DEF TierOK, StreamOK
  <2> QED BY <2>2 DEF TiersInOrder
<1>11. \A x \in Pools, y \in Tiers : ActiveAssets(balance'[x][y]) \in Nat
  <2> TAKE x \in Pools, y \in Tiers
  <2>1. position'[x][y] \in [Users -> Accounts] /\ balance'[x][y] \in Balances
    BY <1>9
  <2>2. TierOK(position'[x][y], stream'[x][y], balance'[x][y])
    BY <1>1, <1>2, <1>8 DEF TiersInOrder
  <2> QED BY <2>1, <2>2, ActiveNat, WorthNat
<1>12. /\ ongoing' \in [Pools -> OngoingOf]
       /\ \A y \in Tiers : ongoing'[p].active[y] = ActiveAssets(balance'[p][y])
       /\ \A x \in Pools : /\ x # p => ongoing'[x] = ongoing[x]
                           /\ ongoing'[x].pending = ongoing[x].pending
                           /\ ongoing'[x].tierCarry = ongoing[x].tierCarry
                           /\ ongoing'[x].accrued = ongoing[x].accrued
  <2>1. \A y \in Tiers : bs[y] = balance'[p][y]
    BY <1>3, <1>8
  <2> HIDE DEF bs
  <2>2. ongoing[p] \in OngoingOf /\ \A y \in Tiers : ActiveAssets(bs[y]) \in Nat
    BY <1>3, <1>11, <2>1
  <2>3. /\ Refreshed(ongoing[p], bs) \in OngoingOf
        /\ \A y \in Tiers : Refreshed(ongoing[p], bs).active[y] = ActiveAssets(bs[y])
        /\ Refreshed(ongoing[p], bs).pending = ongoing[p].pending
        /\ Refreshed(ongoing[p], bs).tierCarry = ongoing[p].tierCarry
        /\ Refreshed(ongoing[p], bs).accrued = ongoing[p].accrued
    BY <2>2, RefreshedTypes
  <2>4. \A x \in Pools : ongoing'[x] = IF x = p THEN Refreshed(ongoing[p], bs) ELSE ongoing[x]
    BY <1>3, <1>5
  <2>5. ongoing' \in [Pools -> OngoingOf]
    BY <1>3, <1>5, <2>3
  <2> QED BY <2>1, <2>3, <2>4, <2>5
<1>13. StreamsTypeOK'
  BY <1>1, <1>5, <1>9, <1>12, now' = now
    DEF StreamsTypeOK, Accounts, Balances, Histories, OngoingOf
<1>14. EveryTokenIsAccounted'
  <2>1. \A x \in Pools, y \in Tiers : history'[x][y].gulped = history[x][y].gulped
    BY <1>4, <1>8
  <2> QED BY <1>1, <1>5, <1>12, <1>13, <2>1, AccountingFrame
<1>15. ClaimsAreFunded'
  <2> DEFINE pay == [x \in Tranches |-> 0]
  <2>1. \A x \in Pools, y \in Tiers :
          HoldingOf(position'[x][y], stream'[x][y], history'[x][y])
            = HoldingOf(position[x][y], stream[x][y], history[x][y])
              + (history'[x][y].gulped - history[x][y].gulped) * (Scale * Scale)
              - pay[<<x, y>>] * (Scale * Scale)
    <3> TAKE x \in Pools, y \in Tiers
    <3>1. pay[<<x, y>>] = 0
      BY DEF Tranches
    <3>2. history'[x][y].gulped = history[x][y].gulped /\ history[x][y].gulped \in Int
      <4>1. history[x][y] \in Histories
        BY <1>3
      <4>2. history[x][y].gulped \in Int
        BY <4>1 DEF Histories
      <4> QED BY <1>4, <1>8, <4>2
    <3>3. HoldingOf(position[x][y], stream[x][y], history[x][y]) \in Int
      <4>1. TierOK(position[x][y], stream[x][y], balance[x][y])
        BY <1>1 DEF TiersInOrder
      <4> QED BY <1>1, <4>1, TierTypes, HoldingInt
    <3>4. HoldingOf(position'[x][y], stream'[x][y], history'[x][y])
            = HoldingOf(position[x][y], stream[x][y], history[x][y])
      <4>1. 0 * Scale * Scale = 0
        BY StreamsAssumption
      <4>2. HoldingOf(pos2, Now(p, t), h2) = HoldingOf(position[p][t], stream[p][t], history[p][t])
        <5>1. TierOK(position[p][t], stream[p][t], balance[p][t])
          BY <1>1 DEF TiersInOrder
        <5>2. HoldingOf(position[p][t], stream[p][t], history[p][t]) \in Int
          BY <1>1, <5>1, TierTypes, HoldingInt
        <5> QED BY <1>2, <4>1, <5>2
      <4> QED BY <1>8, <4>2
    <3>5. (history[x][y].gulped - history[x][y].gulped) * (Scale * Scale) = 0
          /\ 0 * (Scale * Scale) = 0
      <4>1. history[x][y].gulped - history[x][y].gulped = 0
        BY <3>2
      <4> QED BY <4>1, SquareInt
    <3> HIDE DEF pay
    <3> QED BY <3>1, <3>2, <3>3, <3>4, <3>5
  <2>2. /\ \A x \in Tranches : pay[x] = 0
        /\ \A x \in Tranches : pay[x] \in Nat
    OBVIOUS
  <2> HIDE DEF pay
  <2>3. SumOn(pay, Tranches) = 0
    BY <2>2, SumZero, FS_Product, StreamsAssumption DEF Tranches
  <2>4. ledger'.claimed = ledger.claimed + SumOn(pay, Tranches)
    BY <1>1, <1>5, <2>3 DEF StreamsTypeOK
  <2> QED BY <1>1, <1>10, <1>13, <2>1, <2>2, <2>4, FundedMove
<1>16. WeightsAreCurrent'
  <2>1. ASSUME NEW x \in zone', NEW y \in Tiers
        PROVE  ongoing'[x].active[y] = ActiveAssets(balance'[x][y])
    <3>1. x \in zone /\ x \in Pools
      BY <1>1, <1>5 DEF StreamsTypeOK
    <3> QED BY <1>1, <1>8, <1>12, <3>1 DEF WeightsAreCurrent
  <2> QED BY <2>1 DEF WeightsAreCurrent, ActiveAssets, ActiveShares, ConvertToTokens, Portion
<1> QED BY <1>10, <1>12, <1>14, <1>15, <1>16 DEF BackstopInv
------------------------------------------------------------------------------
(* Calls of depositors *)

LEMMA Conversions ==
  ASSUME NEW b \in Balances, NEW a \in Nat
  PROVE  /\ ConvertToShares(b, a) \in Nat /\ (a = 0 => ConvertToShares(b, a) = 0)
         /\ ConvertToTokens(b, a) \in Nat /\ (a <= b.shares => ConvertToTokens(b, a) <= b.tokens)
<1>1. b.shares \in Nat /\ b.tokens \in Nat
  BY DEF Balances
<1>2. a * b.shares \in Nat /\ a * b.tokens \in Nat /\ (a = 0 => a * b.shares = 0)
  BY <1>1, ProductNat
<1>3. ConvertToShares(b, a) \in Nat /\ (a = 0 => ConvertToShares(b, a) = 0)
  <2>1. CASE b.shares = 0 \/ b.tokens = 0
    BY <1>1, <2>1 DEF ConvertToShares
  <2>2. CASE b.shares # 0 /\ b.tokens # 0
    <3>1. ConvertToShares(b, a) = (a * b.shares) \div b.tokens
      BY <2>2 DEF ConvertToShares, Portion
    <3>2. (a * b.shares) \div b.tokens \in Nat
      BY <1>1, <1>2, <2>2, DivisionBounds
    <3>3. 0 \div b.tokens = 0
      BY <1>1, <2>2
    <3> QED BY <1>2, <3>1, <3>2, <3>3
  <2> QED BY <2>1, <2>2
<1>4. ConvertToTokens(b, a) \in Nat /\ (a <= b.shares => ConvertToTokens(b, a) <= b.tokens)
  <2>1. CASE b.shares = 0 \/ b.shares = a
    BY <1>1, <2>1 DEF ConvertToTokens
  <2>2. CASE b.shares # 0 /\ b.shares # a
    <3>1. ConvertToTokens(b, a) = (a * b.tokens) \div b.shares
      BY <2>2 DEF ConvertToTokens, Portion
    <3>2. (a * b.tokens) \div b.shares \in Nat
      BY <1>1, <1>2, <2>2, DivisionBounds
    <3>3. ASSUME a <= b.shares PROVE (a * b.tokens) \div b.shares <= b.tokens
      <4>1. a * b.tokens = b.tokens * a
        BY <1>1
      <4>2. a \in 0..b.shares /\ b.shares \in Nat \ {0}
        BY <1>1, <2>2, <3>3
      <4>3. (b.tokens * a) \div b.shares \in 0..b.tokens
        BY ONLY <1>1, <4>2, PartRoundedDown
      <4> QED BY <1>1, <4>1, <4>3
    <3> QED BY <3>1, <3>2, <3>3
  <2> QED BY <2>1, <2>2
<1> QED BY <1>3, <1>4

\* What the actions of depositors start from.
LEMMA DepositorFacts ==
  ASSUME BackstopInv, NEW p \in Pools, NEW t \in Tiers, NEW u \in Users
  PROVE  /\ Checkpointed(p, t, u) \in Accounts
         /\ Checkpointed(p, t, u) = Accrued(position[p][t][u], Now(p, t).index)
         /\ Checkpointed(p, t, u).shares = position[p][t][u].shares
         /\ Checkpointed(p, t, u).q4w = position[p][t][u].q4w
         /\ balance[p][t] \in Balances /\ ActiveShares(balance[p][t]) \in Nat
         /\ position[p][t][u] \in Accounts
         /\ position[p][t][u].q4w <= balance[p][t].q4w
<1>1. StreamsTypeOK /\ TiersInOrder
  BY DEF BackstopInv, EveryTokenIsAccounted
<1>2. /\ position[p][t] \in [Users -> Accounts] /\ balance[p][t] \in Balances
      /\ TierOK(position[p][t], stream[p][t], balance[p][t])
  BY <1>1, TierTypes DEF TiersInOrder
<1>3. ActiveShares(balance[p][t]) \in Nat
  BY <1>2, ActiveNat
<1>4. position[p][t][u].q4w <= balance[p][t].q4w
  <2> DEFINE q == [w \in Users |-> position[p][t][w].q4w]
  <2>1. \A w \in Users : q[w] \in Nat
    BY <1>2 DEF Accounts
  <2>2. balance[p][t].q4w = SumOn(q, Users) /\ q[u] = position[p][t][u].q4w
    BY <1>2, SumIsSumOn DEF TierOK
  <2> HIDE DEF q
  <2> QED BY <2>1, <2>2, SumAtLeast, StreamsAssumption
<1> QED BY <1>1, <1>2, <1>3, <1>4, Checkpointing

LEMMA DepositKeeps ==
  ASSUME BackstopInv, now' = now, NEW p \in Pools, NEW t \in Tiers, NEW u \in Users,
         NEW amount \in Nat, Deposit(p, t, u, amount)
  PROVE  BackstopInv' /\ \A x \in Pools : ongoing'[x].accrued = ongoing[x].accrued
<1> DEFINE b == balance[p][t]
           shares == ConvertToShares(b, amount)
           C == Checkpointed(p, t, u)
           user == [C EXCEPT !.shares = @ + shares]
           b2 == [b EXCEPT !.shares = @ + shares, !.tokens = @ + amount]
<1>1. /\ C \in Accounts /\ C = Accrued(position[p][t][u], Now(p, t).index)
      /\ C.shares = position[p][t][u].shares /\ C.q4w = position[p][t][u].q4w
      /\ b \in Balances /\ ActiveShares(b) \in Nat
  BY DepositorFacts
<1>2. Move(p, t, u, user, b2)
  BY DEF Deposit
<1>3. shares \in Nat
  BY <1>1, Conversions
<1> HIDE DEF shares, C, b
<1>4. /\ user \in Accounts /\ user.shares = C.shares + shares /\ user.q4w = C.q4w
      /\ user.index = C.index /\ user.carry = C.carry /\ user.accrued = C.accrued
      /\ C.shares \in Nat /\ C.q4w \in Nat /\ C.accrued \in Nat
  BY <1>1, <1>3 DEF Accounts
<1>5. /\ b2 \in Balances /\ b2.shares = b.shares + shares /\ b2.q4w = b.q4w
      /\ b.shares \in Nat /\ b.q4w \in Nat
  <2>1. b.shares + shares \in Nat /\ b.tokens + amount \in Nat /\ b.shares \in Nat /\ b.q4w \in Nat
    BY <1>1, <1>3 DEF Balances
  <2> QED BY <1>1, <2>1 DEF Balances
<1> HIDE DEF user, b2
<1>6. TierSettled(position[p][t], Now(p, t), b, u, user, 0, b2)
  BY <1>1, <1>3, <1>4, <1>5 DEF TierSettled, ActiveShares
<1> QED BY <1>2, <1>4, <1>5, <1>6, MoveKeeps DEF b

LEMMA QueueKeeps ==
  ASSUME BackstopInv, now' = now, NEW p \in Pools, NEW t \in Tiers, NEW u \in Users,
         NEW amount \in Nat, QueueWithdrawal(p, t, u, amount)
  PROVE  BackstopInv' /\ \A x \in Pools : ongoing'[x].accrued = ongoing[x].accrued
<1> DEFINE b == balance[p][t]
           C == Checkpointed(p, t, u)
           user == [C EXCEPT !.shares = @ - amount, !.q4w = @ + amount]
           b2 == [b EXCEPT !.q4w = @ + amount]
<1>1. /\ C \in Accounts /\ C = Accrued(position[p][t][u], Now(p, t).index)
      /\ C.shares = position[p][t][u].shares /\ C.q4w = position[p][t][u].q4w
      /\ b \in Balances /\ ActiveShares(b) \in Nat
  BY DepositorFacts
<1>2. Move(p, t, u, user, b2) /\ amount <= C.shares
  BY <1>1 DEF QueueWithdrawal, QueuedUser
<1> HIDE DEF C, b
<1>3. /\ user \in Accounts /\ user.shares = C.shares - amount /\ user.q4w = C.q4w + amount
      /\ user.index = C.index /\ user.carry = C.carry /\ user.accrued = C.accrued
      /\ C.shares \in Nat /\ C.q4w \in Nat /\ C.accrued \in Nat
  <2>1. C.shares - amount \in Nat /\ C.q4w + amount \in Nat /\ C.accrued \in Nat /\ C.shares \in Nat
        /\ C.q4w \in Nat
    BY <1>1, <1>2 DEF Accounts
  <2> QED BY <1>1, <2>1 DEF Accounts
<1>4. /\ b2 \in Balances /\ b2.shares = b.shares /\ b2.q4w = b.q4w + amount
      /\ b.shares \in Nat /\ b.q4w \in Nat
  BY <1>1 DEF Balances
<1> HIDE DEF user, b2
<1>5. TierSettled(position[p][t], Now(p, t), b, u, user, 0, b2)
  BY <1>1, <1>3, <1>4 DEF TierSettled, ActiveShares
<1> QED BY <1>2, <1>3, <1>4, <1>5, MoveKeeps DEF b

LEMMA DequeueKeeps ==
  ASSUME BackstopInv, now' = now, NEW p \in Pools, NEW t \in Tiers, NEW u \in Users,
         NEW amount \in Nat, DequeueWithdrawal(p, t, u, amount)
  PROVE  BackstopInv' /\ \A x \in Pools : ongoing'[x].accrued = ongoing[x].accrued
<1> DEFINE b == balance[p][t]
           C == Checkpointed(p, t, u)
           user == [C EXCEPT !.shares = @ + amount, !.q4w = @ - amount]
           b2 == [b EXCEPT !.q4w = @ - amount]
<1>1. /\ C \in Accounts /\ C = Accrued(position[p][t][u], Now(p, t).index)
      /\ C.shares = position[p][t][u].shares /\ C.q4w = position[p][t][u].q4w
      /\ b \in Balances /\ ActiveShares(b) \in Nat /\ C.q4w <= b.q4w
  BY DepositorFacts
<1>2. Move(p, t, u, user, b2) /\ amount <= C.q4w
  BY <1>1 DEF DequeueWithdrawal
<1> HIDE DEF C, b
<1>3. /\ user \in Accounts /\ user.shares = C.shares + amount /\ user.q4w = C.q4w - amount
      /\ user.index = C.index /\ user.carry = C.carry /\ user.accrued = C.accrued
      /\ C.shares \in Nat /\ C.q4w \in Nat /\ C.accrued \in Nat
  <2>1. C.shares + amount \in Nat /\ C.q4w - amount \in Nat /\ C.accrued \in Nat /\ C.shares \in Nat
        /\ C.q4w \in Nat
    BY <1>1, <1>2 DEF Accounts
  <2> QED BY <1>1, <2>1 DEF Accounts
<1>4. /\ b2 \in Balances /\ b2.shares = b.shares /\ b2.q4w = b.q4w - amount
      /\ b.shares \in Nat /\ b.q4w \in Nat
  <2>1. b.q4w \in Nat /\ b.q4w - amount \in Nat
    BY <1>1, <1>2, <1>3 DEF Balances
  <2> QED BY <1>1, <2>1 DEF Balances
<1> HIDE DEF user, b2
<1>5. TierSettled(position[p][t], Now(p, t), b, u, user, 0, b2)
  BY <1>1, <1>3, <1>4 DEF TierSettled, ActiveShares
<1> QED BY <1>2, <1>3, <1>4, <1>5, MoveKeeps DEF b

LEMMA WithdrawKeeps ==
  ASSUME BackstopInv, now' = now, NEW p \in Pools, NEW t \in Tiers, NEW u \in Users,
         NEW amount \in Nat, Withdraw(p, t, u, amount)
  PROVE  BackstopInv' /\ \A x \in Pools : ongoing'[x].accrued = ongoing[x].accrued
<1> DEFINE b == balance[p][t]
           C == Checkpointed(p, t, u)
           tokens == ConvertToTokens(b, amount)
           user == [C EXCEPT !.q4w = @ - amount]
           b2 == [shares |-> b.shares - amount, q4w |-> b.q4w - amount,
                  tokens |-> b.tokens - tokens]
<1>1. /\ C \in Accounts /\ C = Accrued(position[p][t][u], Now(p, t).index)
      /\ C.shares = position[p][t][u].shares /\ C.q4w = position[p][t][u].q4w
      /\ b \in Balances /\ ActiveShares(b) \in Nat /\ C.q4w <= b.q4w
  BY DepositorFacts
<1>2. Move(p, t, u, user, b2) /\ amount <= C.q4w
  BY <1>1 DEF Withdraw
<1> HIDE DEF C, b
<1>3. /\ user \in Accounts /\ user.shares = C.shares /\ user.q4w = C.q4w - amount
      /\ user.index = C.index /\ user.carry = C.carry /\ user.accrued = C.accrued
      /\ C.shares \in Nat /\ C.q4w \in Nat /\ C.accrued \in Nat
  <2>1. C.q4w - amount \in Nat /\ C.accrued \in Nat /\ C.shares \in Nat /\ C.q4w \in Nat
    BY <1>1, <1>2 DEF Accounts
  <2> QED BY <1>1, <2>1 DEF Accounts
<1>4. /\ b2 \in Balances /\ b2.shares = b.shares - amount /\ b2.q4w = b.q4w - amount
      /\ b.shares \in Nat /\ b.q4w \in Nat
  <2>1. b.q4w \in Nat /\ b.shares \in Nat /\ b.tokens \in Nat
    BY <1>1 DEF Balances
  <2>2. b.q4w - amount \in Nat /\ b.shares - amount \in Nat /\ amount <= b.shares
    BY <1>1, <1>2, <1>3, <2>1 DEF ActiveShares
  <2>3. b.tokens - tokens \in Nat
    <3>1. tokens \in Nat /\ tokens <= b.tokens
      BY <1>1, <2>2, Conversions
    <3> QED BY <2>1, <3>1
  <2> QED BY <2>1, <2>2, <2>3 DEF Balances
<1> HIDE DEF user, b2
<1>5. TierSettled(position[p][t], Now(p, t), b, u, user, 0, b2)
  BY <1>1, <1>3, <1>4 DEF TierSettled, ActiveShares
<1> QED BY <1>2, <1>3, <1>4, <1>5, MoveKeeps DEF b

\* A change of the value of a tier changes no stream, and the weight of its pool.
LEMMA RevalueKeeps ==
  ASSUME BackstopInv, now' = now, NEW p \in Pools, NEW t \in Tiers, NEW tokens \in Nat,
         Revalue(p, t, tokens)
  PROVE  BackstopInv' /\ \A x \in Pools : ongoing'[x].accrued = ongoing[x].accrued
<1> DEFINE b == [balance[p][t] EXCEPT !.tokens = tokens]
<1>1. StreamsTypeOK /\ TiersInOrder /\ ClaimsAreFunded /\ EveryTokenIsAccounted /\ WeightsAreCurrent
  BY DEF BackstopInv, EveryTokenIsAccounted
<1>2. /\ position \in [Pools -> [Tiers -> [Users -> Accounts]]]
      /\ balance \in [Pools -> [Tiers -> Balances]]
      /\ ongoing \in [Pools -> OngoingOf]
  BY <1>1 DEF StreamsTypeOK, Accounts, Balances, OngoingOf
<1>3. /\ b \in Balances /\ b.shares = balance[p][t].shares /\ b.q4w = balance[p][t].q4w
  <2> DEFINE old == balance[p][t]
  <2>1. old \in Balances
    BY <1>2
  <2> HIDE DEF old
  <2>2. [old EXCEPT !.tokens = tokens] \in Balances
    BY <2>1 DEF Balances
  <2>3. /\ [old EXCEPT !.tokens = tokens].shares = old.shares
        /\ [old EXCEPT !.tokens = tokens].q4w = old.q4w
    BY <2>1 DEF Balances
  <2> QED BY <2>2, <2>3 DEF old
<1>4. balance' = [balance EXCEPT ![p][t] = b]
  BY DEF Revalue
<1>5. /\ ongoing' = [ongoing EXCEPT ![p] = Refreshed(@, balance'[p])]
      /\ UNCHANGED <<zone, ledger, lastGulp, stream, position, allowance, history>>
  BY DEF Revalue
<1> HIDE DEF b
<1>6. \A x \in Pools, y \in Tiers :
        balance'[x][y] = IF x = p /\ y = t THEN b ELSE balance[x][y]
  BY <1>2, <1>4
<1>7. balance' \in [Pools -> [Tiers -> Balances]]
  BY <1>2, <1>3, <1>4
<1>8. ASSUME NEW x \in Pools, NEW y \in Tiers
      PROVE  TierOK(position[x][y], stream[x][y], balance'[x][y])
  <2>1. TierOK(position[x][y], stream[x][y], balance[x][y])
    BY <1>1 DEF TiersInOrder
  <2>2. balance'[x][y].shares = balance[x][y].shares /\ balance'[x][y].q4w = balance[x][y].q4w
    BY <1>3, <1>6
  <2> QED BY <2>1, <2>2 DEF TierOK, ActiveShares
<1>9. TiersInOrder'
  <2>1. ASSUME NEW x \in Pools, NEW y \in Tiers
        PROVE  TierOK(position[x][y], stream[x][y], balance[x][y])'
    BY <1>5, <1>8, now' = now DEF TierOK, StreamOK
  <2> QED BY <2>1 DEF TiersInOrder
<1>10. \A x \in Pools, y \in Tiers : ActiveAssets(balance'[x][y]) \in Nat
  <2> TAKE x \in Pools, y \in Tiers
  <2>1. position[x][y] \in [Users -> Accounts] /\ balance'[x][y] \in Balances
    BY <1>2, <1>7
  <2> QED BY <1>8, <2>1, ActiveNat, WorthNat
<1>11. /\ ongoing' \in [Pools -> OngoingOf]
       /\ \A y \in Tiers : ongoing'[p].active[y] = ActiveAssets(balance'[p][y])
       /\ \A x \in Pools : /\ x # p => ongoing'[x] = ongoing[x]
                           /\ ongoing'[x].pending = ongoing[x].pending
                           /\ ongoing'[x].tierCarry = ongoing[x].tierCarry
                           /\ ongoing'[x].accrued = ongoing[x].accrued
  <2> DEFINE bs == balance'[p]
  <2>1. ongoing[p] \in OngoingOf /\ \A y \in Tiers : ActiveAssets(bs[y]) \in Nat
    BY <1>2, <1>10
  <2> HIDE DEF bs
  <2>2. /\ Refreshed(ongoing[p], bs) \in OngoingOf
        /\ \A y \in Tiers : Refreshed(ongoing[p], bs).active[y] = ActiveAssets(bs[y])
        /\ Refreshed(ongoing[p], bs).pending = ongoing[p].pending
        /\ Refreshed(ongoing[p], bs).tierCarry = ongoing[p].tierCarry
        /\ Refreshed(ongoing[p], bs).accrued = ongoing[p].accrued
    BY <2>1, RefreshedTypes
  <2>3. ongoing' = [ongoing EXCEPT ![p] = Refreshed(ongoing[p], bs)]
    BY <1>2, <1>5 DEF bs
  <2>4. \A x \in Pools : ongoing'[x] = IF x = p THEN Refreshed(ongoing[p], bs) ELSE ongoing[x]
    BY <1>2, <2>3
  <2>5. ongoing' \in [Pools -> OngoingOf]
    BY <1>2, <2>2, <2>3
  <2> QED BY <2>2, <2>4, <2>5 DEF bs
<1>12. StreamsTypeOK'
  BY <1>1, <1>5, <1>7, <1>11, now' = now DEF StreamsTypeOK, Balances, OngoingOf
<1>13. EveryTokenIsAccounted'
  BY <1>1, <1>5, <1>11, <1>12, AccountingFrame
<1>14. ClaimsAreFunded'
  BY <1>1, <1>5 DEF ClaimsAreFunded, Holding, Earned, Unreleased
<1>15. WeightsAreCurrent'
  <2>1. ASSUME NEW x \in zone', NEW y \in Tiers
        PROVE  ongoing'[x].active[y] = ActiveAssets(balance'[x][y])
    <3>1. x \in zone /\ x \in Pools
      BY <1>1, <1>5 DEF StreamsTypeOK
    <3> QED BY <1>1, <1>6, <1>11, <3>1 DEF WeightsAreCurrent
  <2> QED BY <2>1 DEF WeightsAreCurrent, ActiveAssets, ActiveShares, ConvertToTokens, Portion
<1> QED BY <1>9, <1>11, <1>13, <1>14, <1>15 DEF BackstopInv
------------------------------------------------------------------------------
(* The reward zone and the distribution *)

LEMMA ClaimsFrame ==
  ASSUME ClaimsAreFunded, UNCHANGED <<stream, position, history>>, ledger'.claimed = ledger.claimed
  PROVE  ClaimsAreFunded'
BY DEF ClaimsAreFunded, Holding, Earned, Unreleased

LEMMA TiersFrame ==
  ASSUME TiersInOrder, UNCHANGED <<now, stream, position, balance>>
  PROVE  TiersInOrder'
BY DEF TiersInOrder, TierOK, StreamOK, ActiveShares

LEMMA AddRewardKeeps ==
  ASSUME BackstopInv, now' = now, NEW p \in Pools, NEW removed \in Pools, NEW c,
         AddReward(p, removed, c)
  PROVE  BackstopInv' /\ \A x \in Pools : ongoing'[x].accrued = ongoing[x].accrued
<1> DEFINE bs == balance[p]
           o == Refreshed(ongoing[p], bs)
<1>1. StreamsTypeOK /\ TiersInOrder /\ ClaimsAreFunded /\ EveryTokenIsAccounted /\ WeightsAreCurrent
  BY DEF BackstopInv, EveryTokenIsAccounted
<1>2. /\ zone' = (zone \ {removed}) \cup {p}
      /\ ongoing' = [ongoing EXCEPT ![p] = o]
      /\ UNCHANGED <<ledger, lastGulp, balance, stream, position, allowance, history>>
  BY DEF AddReward
<1>3. /\ ongoing \in [Pools -> OngoingOf] /\ zone \subseteq Pools
  BY <1>1 DEF StreamsTypeOK, OngoingOf
<1>4. \A y \in Tiers : ActiveAssets(bs[y]) \in Nat
  <2> TAKE y \in Tiers
  <2>1. /\ position[p][y] \in [Users -> Accounts] /\ balance[p][y] \in Balances
        /\ TierOK(position[p][y], stream[p][y], balance[p][y])
    BY <1>1, TierTypes DEF TiersInOrder
  <2> QED BY <2>1, ActiveNat, WorthNat
<1>5. /\ o \in OngoingOf /\ o.pending = ongoing[p].pending /\ o.tierCarry = ongoing[p].tierCarry
      /\ o.accrued = ongoing[p].accrued
      /\ \A y \in Tiers : o.active[y] = ActiveAssets(balance[p][y])
  <2>1. ongoing[p] \in OngoingOf
    BY <1>3
  <2> HIDE DEF bs
  <2>2. /\ o \in OngoingOf /\ o.pending = ongoing[p].pending /\ o.tierCarry = ongoing[p].tierCarry
        /\ o.accrued = ongoing[p].accrued
        /\ \A y \in Tiers : o.active[y] = ActiveAssets(bs[y])
    BY <1>4, <2>1, RefreshedTypes
  <2> HIDE DEF o
  <2> QED BY <2>2 DEF bs
<1> HIDE DEF o
<1>6. \A x \in Pools : ongoing'[x] = IF x = p THEN o ELSE ongoing[x]
  BY <1>2, <1>3
<1>7. ongoing' \in [Pools -> OngoingOf] /\ zone' \subseteq Pools
  BY <1>2, <1>3, <1>5
<1>8. StreamsTypeOK'
  BY <1>1, <1>2, <1>7, now' = now DEF StreamsTypeOK, OngoingOf
<1>9. EveryTokenIsAccounted'
  BY <1>1, <1>2, <1>5, <1>6, <1>8, AccountingFrame
<1>10. WeightsAreCurrent'
  <2>1. ASSUME NEW x \in zone', NEW y \in Tiers
        PROVE  ongoing'[x].active[y] = ActiveAssets(balance[x][y])
    <3>1. x \in Pools /\ (x = p \/ x \in zone)
      BY <1>2, <1>7
    <3> QED BY <1>1, <1>5, <1>6, <3>1 DEF WeightsAreCurrent
  <2> QED BY <1>2, <2>1 DEF WeightsAreCurrent, ActiveAssets, ActiveShares, ConvertToTokens, Portion
<1>11. ClaimsAreFunded' /\ TiersInOrder'
  BY <1>1, <1>2, now' = now, ClaimsFrame, TiersFrame
<1> QED BY <1>5, <1>6, <1>9, <1>10, <1>11 DEF BackstopInv

LEMMA RemoveRewardKeeps ==
  ASSUME BackstopInv, now' = now, NEW p \in Pools, NEW c, RemoveReward(p, c)
  PROVE  BackstopInv' /\ ongoing' = ongoing
<1>1. StreamsTypeOK /\ TiersInOrder /\ ClaimsAreFunded /\ EveryTokenIsAccounted /\ WeightsAreCurrent
  BY DEF BackstopInv, EveryTokenIsAccounted
<1>2. /\ zone' = zone \ {p}
      /\ UNCHANGED <<ledger, ongoing, lastGulp, balance, stream, position, allowance, history>>
  BY DEF RemoveReward
<1>3. StreamsTypeOK'
  BY <1>1, <1>2, now' = now DEF StreamsTypeOK
<1>4. EveryTokenIsAccounted'
  BY <1>1, <1>2, <1>3, AccountingFrame
<1>5. WeightsAreCurrent'
  BY <1>1, <1>2 DEF WeightsAreCurrent, ActiveAssets, ActiveShares, ConvertToTokens, Portion
<1>6. ClaimsAreFunded' /\ TiersInOrder'
  BY <1>1, <1>2, now' = now, ClaimsFrame, TiersFrame
<1> QED BY <1>2, <1>4, <1>5, <1>6 DEF BackstopInv

LEMMA UnderlyingNat ==
  ASSUME NEW c \in Compositions, NEW active \in [Tiers -> Nat]
  PROVE  Underlying(c, active) \in [Tiers -> Nat] /\ WeightIn(c, active) \in Nat
<1> DEFINE f == Underlying(c, active)
<1>1. \A t \in Tiers : c[t] \in Nat /\ LpSupply \in Nat \ {0} /\ IsFiniteSet(Tiers)
  BY StreamsAssumption
<1>2. \A t \in Tiers : (active[t] * c[t]) \div LpSupply \in Nat
  <2> TAKE t \in Tiers
  <2>1. active[t] * c[t] \in Nat
    BY <1>1, ProductNat
  <2> QED BY <1>1, <2>1, DivisionBounds
<1>3. f \in [Tiers -> Nat]
  BY <1>2 DEF Underlying, Portion
<1> HIDE DEF f
<1>4. SumOn(f, Tiers) \in Nat
  BY <1>3, SumNat, StreamsAssumption
<1> QED BY <1>3, <1>4, SumIsSumOn DEF f, WeightIn

\* Both parts of a split, and what is left of it.
LEMMA SevenThree ==
  \A a \in Nat : /\ Portion(a, 7, 10) \in Nat /\ Portion(a, 3, 10) \in Nat
                 /\ a - Portion(a, 7, 10) - Portion(a, 3, 10) \in Nat
<1> TAKE a \in Nat
<1>1. Portion(a, 7, 10) = (a * 7) \div 10 /\ Portion(a, 3, 10) = (a * 3) \div 10
  BY DEF Portion
<1>2. /\ (a * 7) \div 10 \in Nat /\ 10 * ((a * 7) \div 10) <= a * 7
      /\ (a * 3) \div 10 \in Nat /\ 10 * ((a * 3) \div 10) <= a * 3
  BY a * 7 \in Nat, a * 3 \in Nat, 10 \in Nat \ {0}, DivisionBounds
<1> QED BY <1>1, <1>2

LEMMA DistributeKeeps ==
  ASSUME BackstopInv, now' = now, NEW c \in Compositions, Distribute(c)
  PROVE  /\ BackstopInv' /\ Ungulped' = Ungulped + (ledger'.toPools - ledger.toPools)
<1> DEFINE amount == (now - ledger.last) * Rate
           split == amount + ledger.splitCarry
           backstopSplit == Portion(split, 7, 10)
           poolSplit == Portion(split, 3, 10)
           backstopPart == backstopSplit + ledger.backstopCarry
           poolPart == poolSplit + ledger.poolCarry
           weight == [p \in Pools |-> WeightIn(c, ongoing[p].active)]
           eligible == Sum(weight, zone)
           portion(value) ==
             [p \in zone |-> IF eligible = 0 THEN 0 ELSE Portion(value, weight[p], eligible)]
           toBackstop == portion(backstopPart)
           toPool == portion(poolPart)
<1>1. StreamsTypeOK /\ TiersInOrder /\ ClaimsAreFunded /\ EveryTokenIsAccounted /\ WeightsAreCurrent
  BY DEF BackstopInv, EveryTokenIsAccounted
<1>2. /\ now > ledger.last
      /\ ongoing' = [p \in Pools |->
           IF p \notin zone THEN ongoing[p]
           ELSE Credited(ongoing[p], Underlying(c, ongoing[p].active), toBackstop[p], toPool[p])]
      /\ ledger' = [total |-> ledger.total + amount,
                    toBackstop |-> ledger.toBackstop + Sum(toBackstop, zone),
                    toPools |-> ledger.toPools + Sum(toPool, zone),
                    claimed |-> ledger.claimed,
                    splitCarry |-> split - backstopSplit - poolSplit,
                    backstopCarry |-> backstopPart - Sum(toBackstop, zone),
                    poolCarry |-> poolPart - Sum(toPool, zone),
                    last |-> now]
      /\ UNCHANGED <<zone, lastGulp, balance, stream, position, allowance, history>>
  BY DEF Distribute
<1>3. /\ now \in Nat /\ zone \in SUBSET Pools /\ ongoing \in [Pools -> OngoingOf]
      /\ ledger.total \in Nat /\ ledger.toBackstop \in Nat /\ ledger.toPools \in Nat
      /\ ledger.claimed \in Nat /\ ledger.splitCarry \in Nat /\ ledger.backstopCarry \in Nat
      /\ ledger.poolCarry \in Nat /\ ledger.last \in Nat
  BY <1>1 DEF StreamsTypeOK, OngoingOf
<1>4. amount \in Nat
  <2>1. now - ledger.last \in Nat /\ Rate \in Nat
    BY <1>2, <1>3, StreamsAssumption
  <2> QED BY <2>1, ProductNat
<1> HIDE DEF amount
<1>5. split \in Nat
  BY <1>3, <1>4
<1> HIDE DEF split
<1>6. /\ backstopSplit \in Nat /\ poolSplit \in Nat /\ split - backstopSplit - poolSplit \in Nat
  BY <1>5, SevenThree
<1> HIDE DEF backstopSplit, poolSplit
<1>7. backstopPart \in Nat /\ poolPart \in Nat
  BY <1>3, <1>6
<1>8. /\ weight \in [Pools -> Nat]
      /\ \A p \in Pools : /\ Underlying(c, ongoing[p].active) \in [Tiers -> Nat]
                          /\ weight[p] = Sum(Underlying(c, ongoing[p].active), Tiers)
  <2>1. \A p \in Pools : ongoing[p].active \in [Tiers -> Nat]
    BY <1>3 DEF OngoingOf
  <2>2. \A p \in Pools : /\ Underlying(c, ongoing[p].active) \in [Tiers -> Nat]
                         /\ WeightIn(c, ongoing[p].active) \in Nat
    BY <2>1, UnderlyingNat
  <2>3. weight \in [Pools -> Nat]
    BY <2>2
  <2> QED BY <2>2, <2>3 DEF WeightIn
<1>9. /\ \A p \in zone : toBackstop[p] \in Nat /\ (weight[p] = 0 => toBackstop[p] = 0)
      /\ Sum(toBackstop, zone) \in Nat /\ backstopPart - Sum(toBackstop, zone) \in Nat
  <2> HIDE DEF weight, backstopPart
  <2> QED BY <1>3, <1>7, <1>8, ZoneParts
<1>10. /\ \A p \in zone : toPool[p] \in Nat
       /\ Sum(toPool, zone) \in Nat /\ poolPart - Sum(toPool, zone) \in Nat
  <2>1. toPool = [p \in zone |-> IF Sum(weight, zone) = 0 THEN 0
                                  ELSE Portion(poolPart, weight[p], Sum(weight, zone))]
    OBVIOUS
  <2>2. zone \in SUBSET Pools /\ poolPart \in Nat /\ weight \in [Pools -> Nat]
    BY <1>3, <1>7, <1>8
  <2> HIDE DEF weight, poolPart, toPool
  <2> QED BY ONLY <2>1, <2>2, ZoneParts
<1> HIDE DEF toBackstop, toPool, weight, backstopPart, poolPart
<1>11. ASSUME NEW p \in Pools
       PROVE  /\ ongoing'[p] \in OngoingOf /\ ongoing'[p].active = ongoing[p].active
              /\ ongoing'[p].accrued = IF p \in zone THEN ongoing[p].accrued + toPool[p]
                                       ELSE ongoing[p].accrued
              /\ Waiting(p)' = IF p \in zone THEN Waiting(p) + toBackstop[p] ELSE Waiting(p)
  <2>1. Waiting(p)' = Sum(ongoing'[p].pending, Tiers) + ongoing'[p].tierCarry
    BY DEF Waiting
  <2>2. CASE p \notin zone
    <3>1. ongoing'[p] = ongoing[p]
      BY <1>2, <2>2
    <3> QED BY <1>3, <2>1, <2>2, <3>1 DEF Waiting
  <2>3. CASE p \in zone
    <3> DEFINE o == ongoing[p]
               w == Underlying(c, o.active)
               d == Credited(o, w, toBackstop[p], toPool[p])
    <3>1. ongoing'[p] = d
      BY <1>2, <2>3
    <3>2. /\ o \in OngoingOf /\ w \in [Tiers -> Nat] /\ toBackstop[p] \in Nat /\ toPool[p] \in Nat
          /\ Sum(w, Tiers) = 0 => toBackstop[p] = 0
      BY <1>3, <1>8, <1>9, <1>10, <2>3
    <3> HIDE DEF w
    <3>3. /\ d \in OngoingOf /\ d.active = o.active /\ d.accrued = o.accrued + toPool[p]
          /\ Sum(d.pending, Tiers) + d.tierCarry
               = Sum(o.pending, Tiers) + o.tierCarry + toBackstop[p]
      BY ONLY <3>2, CreditedKeeps
    <3>4. Waiting(p) = Sum(o.pending, Tiers) + o.tierCarry
      BY DEF Waiting
    <3> HIDE DEF d, o
    <3>5. Waiting(p)' = Waiting(p) + toBackstop[p]
      BY <2>1, <3>1, <3>3, <3>4
    <3> QED BY <2>3, <3>1, <3>3, <3>5 DEF o
  <2> QED BY <2>2, <2>3
<1>12. ongoing' \in [Pools -> OngoingOf]
  <2> DEFINE val(p) == IF p \notin zone THEN ongoing[p]
           ELSE Credited(ongoing[p], Underlying(c, ongoing[p].active), toBackstop[p], toPool[p])
  <2>1. ongoing' = [p \in Pools |-> val(p)]
    BY <1>2
  <2> HIDE DEF val
  <2>2. \A p \in Pools : val(p) \in OngoingOf
    BY <1>11, <2>1
  <2> QED BY <2>1, <2>2
<1> DEFINE tb == Sum(toBackstop, zone)
           tp == Sum(toPool, zone)
<1>13. /\ ledger'.total = ledger.total + amount
       /\ ledger'.toBackstop = ledger.toBackstop + tb /\ ledger'.toPools = ledger.toPools + tp
       /\ ledger'.claimed = ledger.claimed
       /\ ledger'.splitCarry = split - backstopSplit - poolSplit
       /\ ledger'.backstopCarry = backstopPart - tb /\ ledger'.poolCarry = poolPart - tp
       /\ ledger'.last = now
  BY <1>2
<1>14. ledger' \in [total : Nat, toBackstop : Nat, toPools : Nat, claimed : Nat, splitCarry : Nat,
                    backstopCarry : Nat, poolCarry : Nat, last : Nat]
  <2>1. /\ ledger.total + amount \in Nat /\ ledger.toBackstop + tb \in Nat
        /\ ledger.toPools + tp \in Nat
    BY <1>3, <1>4, <1>9, <1>10
  <2> QED BY <1>2, <1>3, <1>6, <1>9, <1>10, <2>1
<1>15. StreamsTypeOK'
  BY <1>1, <1>2, <1>12, <1>14, now' = now DEF StreamsTypeOK, OngoingOf
<1>20. IsFiniteSet(Pools)
  BY StreamsAssumption
<1>16. EveryTokenIsAccounted'
  <2>1. ledger'.total = ledger'.toBackstop + ledger'.toPools
                        + ledger'.splitCarry + ledger'.backstopCarry + ledger'.poolCarry
    <3>1. ledger.total = ledger.toBackstop + ledger.toPools
                         + ledger.splitCarry + ledger.backstopCarry + ledger.poolCarry
      BY <1>1 DEF EveryTokenIsAccounted
    <3>2. /\ split = amount + ledger.splitCarry
          /\ backstopPart = backstopSplit + ledger.backstopCarry
          /\ poolPart = poolSplit + ledger.poolCarry
      BY DEF split, backstopPart, poolPart
    <3> HIDE DEF tb, tp
    <3>3. tb \in Int /\ tp \in Int
      BY <1>9, <1>10 DEF tb, tp
    <3> QED BY <1>3, <1>4, <1>6, <1>13, <3>1, <3>2, <3>3
  <2> DEFINE f == [p \in Pools |-> GulpedFor(p) + Waiting(p)]
             g == [p \in Pools |-> GulpedFor(p)' + Waiting(p)']
  <2>2. \A p \in Pools : GulpedFor(p)' = GulpedFor(p) /\ GulpedFor(p) \in Int /\ Waiting(p) \in Int
    <3> TAKE p \in Pools
    <3>1. GulpedFor(p)' = GulpedFor(p)
      BY <1>2 DEF GulpedFor
    <3>2. GulpedFor(p) \in Int
      <4> DEFINE q == [t \in Tiers |-> history[p][t].gulped]
      <4>1. \A t \in Tiers : q[t] \in Int
        BY <1>1, TierTypes DEF Histories
      <4> HIDE DEF q
      <4>2. SumOn(q, Tiers) \in Int
        BY <4>1, SumInt, StreamsAssumption
      <4> QED BY <4>2, SumIsSumOn DEF GulpedFor, q
    <3>3. Waiting(p) \in Int
      <4> DEFINE q == ongoing[p].pending
      <4>1. (\A t \in Tiers : q[t] \in Int) /\ ongoing[p].tierCarry \in Int
        BY <1>3 DEF OngoingOf
      <4> HIDE DEF q
      <4>2. SumOn(q, Tiers) \in Int
        BY <4>1, SumInt, StreamsAssumption
      <4> QED BY <4>1, <4>2, SumIsSumOn DEF Waiting, q
    <3> QED BY <3>1, <3>2, <3>3
  <2>3. \A p \in Pools : /\ f[p] \in Int /\ g[p] \in Int
                         /\ g[p] = IF p \in zone THEN f[p] + toBackstop[p] ELSE f[p]
    <3> TAKE p \in Pools
    <3>1. f[p] = GulpedFor(p) + Waiting(p) /\ g[p] = GulpedFor(p)' + Waiting(p)'
      OBVIOUS
    <3>2. p \in zone => toBackstop[p] \in Int
      BY <1>9
    <3> HIDE DEF f, g
    <3> QED BY <1>11, <2>2, <3>1, <3>2
  <2>4. \A p \in zone : toBackstop[p] \in Int
    BY <1>9
  <2>5. ledger.toBackstop = Sum(f, Pools)
    BY <1>1 DEF EveryTokenIsAccounted
  <2>6. (ledger.toBackstop = Sum([p \in Pools |-> GulpedFor(p) + Waiting(p)], Pools))'
          <=> ledger'.toBackstop = Sum(g, Pools)
    OBVIOUS
  <2>7. Sum(g, Pools) = Sum(f, Pools) + tb
    <3> HIDE DEF f, g
    <3> QED BY ONLY <1>3, <1>20, <2>3, <2>4, PartIncrease
  <2> HIDE DEF f, g, tb
  <2>8. ledger'.toBackstop = Sum(g, Pools)
    BY <1>13, <2>5, <2>7
  <2> QED BY <1>15, <2>1, <2>6, <2>8 DEF EveryTokenIsAccounted
<1>17. Ungulped' = Ungulped + (ledger'.toPools - ledger.toPools)
  <2> DEFINE f == [p \in Pools |-> ongoing[p].accrued]
             g == [p \in Pools |-> ongoing'[p].accrued]
  <2>1. \A p \in Pools : /\ f[p] \in Int /\ g[p] \in Int
                         /\ g[p] = IF p \in zone THEN f[p] + toPool[p] ELSE f[p]
    <3> TAKE p \in Pools
    <3>1. f[p] = ongoing[p].accrued /\ g[p] = ongoing'[p].accrued
      OBVIOUS
    <3>2. ongoing[p].accrued \in Int /\ ongoing'[p].accrued \in Int
      BY <1>3, <1>12 DEF OngoingOf
    <3> HIDE DEF f, g
    <3> QED BY <1>11, <3>1, <3>2
  <2>2. \A p \in zone : toPool[p] \in Int
    BY <1>10
  <2>3. Ungulped = Sum(f, Pools) /\ Ungulped' = Sum(g, Pools)
    BY DEF Ungulped
  <2> HIDE DEF f, g
  <2>4. Sum(g, Pools) = Sum(f, Pools) + tp
    BY ONLY <1>3, <1>20, <2>1, <2>2, PartIncrease
  <2> HIDE DEF tp
  <2>5. tp \in Int
    BY <1>10 DEF tp
  <2>6. ledger'.toPools - ledger.toPools = tp
    BY <1>3, <1>13, <2>5
  <2> QED BY <2>3, <2>4, <2>6
<1>18. WeightsAreCurrent'
  <2>1. ASSUME NEW x \in zone', NEW y \in Tiers
        PROVE  ongoing'[x].active[y] = ActiveAssets(balance[x][y])
    <3>1. x \in Pools /\ x \in zone
      BY <1>2, <1>3
    <3> QED BY <1>1, <1>11, <3>1 DEF WeightsAreCurrent
  <2>2. balance' = balance
    BY <1>2
  <2> QED BY <2>1, <2>2 DEF WeightsAreCurrent, ActiveAssets, ActiveShares, ConvertToTokens, Portion
<1>19. ClaimsAreFunded' /\ TiersInOrder'
  BY <1>1, <1>2, <1>13, now' = now, ClaimsFrame, TiersFrame
<1> QED BY <1>16, <1>17, <1>18, <1>19 DEF BackstopInv
------------------------------------------------------------------------------
(* Claims of a tier *)

\* What is paid in one column of the tiers, over all of them.
LEMMA ColumnSum ==
  ASSUME NEW ps \in SUBSET Pools, NEW t \in Tiers, NEW f, \A p \in ps : f[p] \in Int,
         NEW pay,
         pay = [x \in Tranches |-> IF x[2] = t /\ x[1] \in ps THEN f[x[1]] ELSE 0]
  PROVE  SumOn(pay, Tranches) = SumOn(f, ps)
<1> DEFINE A == ps \X {t}
           B == Tranches \ A
           h == [x \in A |-> x[1]]
<1>1. IsFiniteSet(Tranches) /\ A \in SUBSET Tranches /\ IsFiniteSet(ps)
  BY StreamsAssumption, FS_Product, FS_Subset DEF Tranches
<1>2. IsFiniteSet(A) /\ IsFiniteSet(B) /\ A \cap B = {} /\ A \cup B = Tranches
  BY <1>1, FS_Subset
<1>3. \A x \in A : pay[x] = f[x[1]] /\ x[1] \in ps
  BY <1>1
<1>4. \A x \in B : pay[x] = 0
  <2> TAKE x \in B
  <2>1. PICK p \in Pools, y \in Tiers : x = <<p, y>>
    BY DEF Tranches
  <2>2. ~(y = t /\ p \in ps)
    BY <2>1
  <2> QED BY <2>1, <2>2
<1>5. SumOn(pay, B) = 0
  <2> HIDE DEF B
  <2> QED BY ONLY <1>2, <1>4, SumZero
<1>6. SumOn(pay, A) = SumOn(f, ps)
  <2>1. \A x \in A : h[x] \in ps /\ pay[x] = f[h[x]]
    BY <1>3
  <2>2. \A x, y \in A : h[x] = h[y] => x = y
    OBVIOUS
  <2>3. \A p \in ps : f[p] \in Int /\ \E x \in A : h[x] = p
    <3> TAKE p \in ps
    <3>1. <<p, t>> \in A /\ h[<<p, t>>] = p
      OBVIOUS
    <3> QED BY <3>1
  <2> HIDE DEF A, h
  <2> QED BY ONLY <1>1, <1>2, <2>1, <2>2, <2>3, SumReindex
<1>7. SumOn(pay, A \cup B) = SumOn(pay, A) + SumOn(pay, B)
  <2>1. \A x \in A \cup B : pay[x] \in Int
    <3>1. \A x \in A : pay[x] \in Int
      BY <1>3
    <3> QED BY <1>4, <3>1
  <2> HIDE DEF A, B
  <2> QED BY ONLY <1>2, <2>1, SumUnion
<1>8. SumOn(f, ps) \in Int
  BY <1>1, SumInt
<1> HIDE DEF A, B
<1>9. SumOn(pay, Tranches) = SumOn(f, ps) + 0
  BY ONLY <1>2, <1>5, <1>6, <1>7
<1> QED BY ONLY <1>8, <1>9

LEMMA ClaimTierKeeps ==
  ASSUME BackstopInv, now' = now, NEW u \in Users, NEW t \in Tiers, NEW ps \in SUBSET Pools,
         NEW lp \in Nat, ClaimTier(u, t, ps, lp)
  PROVE  BackstopInv' /\ \A x \in Pools : ongoing'[x].accrued = ongoing[x].accrued
<1> DEFINE due == [p \in ps |-> Checkpointed(p, t, u).accrued]
           amount == Sum(due, ps)
           tokens == [p \in Pools |->
                        IF p \in ps /\ amount > 0 THEN Portion(lp, due[p], amount) ELSE 0]
           mint == [p \in Pools |-> ConvertToShares(balance[p][t], tokens[p])]
           b2 == [p \in Pools |->
                    [balance[p][t] EXCEPT !.shares = @ + mint[p], !.tokens = @ + tokens[p]]]
           user == [p \in Pools |->
                     [Checkpointed(p, t, u) EXCEPT !.accrued = 0, !.shares = @ + mint[p]]]
           h2 == [p \in Pools |-> [history[p][t] EXCEPT !.unearned = @ + Lost(p, t)]]
<1>1. StreamsTypeOK /\ TiersInOrder /\ ClaimsAreFunded /\ EveryTokenIsAccounted /\ WeightsAreCurrent
  BY DEF BackstopInv, EveryTokenIsAccounted
<1>2. /\ ledger' = [ledger EXCEPT !.claimed = @ + amount]
      /\ stream' = [p \in Pools |->
           IF p \in ps THEN [stream[p] EXCEPT ![t] = Now(p, t)] ELSE stream[p]]
      /\ history' = [p \in Pools |->
           IF p \in ps THEN [history[p] EXCEPT ![t] = h2[p]] ELSE history[p]]
      /\ position' = [p \in Pools |->
           IF p \notin ps THEN position[p] ELSE [position[p] EXCEPT ![t][u] = user[p]]]
      /\ balance' = [p \in Pools |->
           [balance[p] EXCEPT ![t].shares = @ + mint[p], ![t].tokens = @ + tokens[p]]]
      /\ ongoing' = [p \in Pools |->
           IF tokens[p] > 0 THEN Refreshed(ongoing[p], balance'[p]) ELSE ongoing[p]]
      /\ UNCHANGED <<zone, lastGulp, allowance>>
  BY DEF ClaimTier, ClaimRefreshes
<1>3. /\ position \in [Pools -> [Tiers -> [Users -> Accounts]]]
      /\ stream \in [Pools -> [Tiers -> StreamRecord]]
      /\ balance \in [Pools -> [Tiers -> Balances]]
      /\ history \in [Pools -> [Tiers -> Histories]]
      /\ ongoing \in [Pools -> OngoingOf]
      /\ ledger.claimed \in Nat
  BY <1>1 DEF StreamsTypeOK, Accounts, Balances, Histories, OngoingOf
<1>4. \A p \in Pools : /\ Checkpointed(p, t, u) \in Accounts
                       /\ Checkpointed(p, t, u).accrued \in Nat
                       /\ Checkpointed(p, t, u).shares \in Nat
                       /\ Checkpointed(p, t, u).shares = position[p][t][u].shares
                       /\ Checkpointed(p, t, u).q4w = position[p][t][u].q4w
                       /\ Checkpointed(p, t, u).q4w \in Nat
                       /\ Checkpointed(p, t, u) = Accrued(position[p][t][u], Now(p, t).index)
  <2> TAKE p \in Pools
  <2>1. /\ Checkpointed(p, t, u) \in Accounts
        /\ Checkpointed(p, t, u).shares = position[p][t][u].shares
        /\ Checkpointed(p, t, u).q4w = position[p][t][u].q4w
        /\ Checkpointed(p, t, u) = Accrued(position[p][t][u], Now(p, t).index)
    BY DepositorFacts
  <2> QED BY <2>1 DEF Accounts
<1>5. \A p \in ps : due[p] \in Nat /\ due[p] = Checkpointed(p, t, u).accrued
  BY <1>4
<1> HIDE DEF due
<1>6. amount \in Nat /\ amount = SumOn(due, ps)
  <2>1. IsFiniteSet(ps)
    BY StreamsAssumption, FS_Subset
  <2> QED BY <1>5, <2>1, SumNat, SumIsSumOn
<1> HIDE DEF amount
<1>7. \A p \in Pools : tokens[p] \in Nat /\ (p \notin ps => tokens[p] = 0)
  <2> TAKE p \in Pools
  <2>1. CASE p \in ps /\ amount > 0
    <3>1. lp * due[p] \in Nat /\ amount \in Nat \ {0}
      BY <1>5, <1>6, <2>1, ProductNat
    <3>2. (lp * due[p]) \div amount \in Nat
      BY <3>1, DivisionBounds
    <3> QED BY <2>1, <3>2 DEF Portion
  <2>2. CASE ~(p \in ps /\ amount > 0)
    BY <2>2
  <2> QED BY <2>1, <2>2
<1> HIDE DEF tokens
<1>8. \A p \in Pools : mint[p] \in Nat /\ (tokens[p] = 0 => mint[p] = 0)
  <2> TAKE p \in Pools
  <2>1. balance[p][t] \in Balances
    BY <1>3
  <2>2. ConvertToShares(balance[p][t], tokens[p]) \in Nat
    BY <1>7, <2>1, Conversions
  <2>3. tokens[p] = 0 => ConvertToShares(balance[p][t], tokens[p]) = 0
    BY <1>7, <2>1, Conversions
  <2> QED BY <2>2, <2>3
<1> HIDE DEF mint
<1>9. ASSUME NEW p \in Pools
      PROVE  /\ b2[p] \in Balances /\ b2[p].q4w = balance[p][t].q4w
             /\ b2[p].shares = balance[p][t].shares + mint[p]
             /\ tokens[p] = 0 => b2[p] = balance[p][t]
             /\ balance'[p] = [balance[p] EXCEPT ![t] = b2[p]]
  <2> DEFINE b == balance[p][t]
             m == mint[p]
             k == tokens[p]
  <2>1. b \in Balances /\ m \in Nat /\ k \in Nat /\ (k = 0 => m = 0)
    BY <1>3, <1>7, <1>8
  <2>2. b2[p] = [b EXCEPT !.shares = @ + m, !.tokens = @ + k]
    OBVIOUS
  <2>3. balance'[p] = [balance[p] EXCEPT ![t] = b2[p]]
    <3>1. balance'[p] = [balance[p] EXCEPT ![t].shares = @ + mint[p], ![t].tokens = @ + tokens[p]]
      BY <1>2
    <3>2. balance[p] \in [Tiers -> Balances]
      BY <1>3
    <3> QED BY <2>2, <3>1, <3>2 DEF Balances
  <2> HIDE DEF b, m, k, b2
  <2>4. b.shares \in Nat /\ b.tokens \in Nat /\ b.shares + m \in Nat /\ b.tokens + k \in Nat
    BY <2>1 DEF Balances
  <2>5. b2[p] \in Balances /\ b2[p].q4w = b.q4w /\ b2[p].shares = b.shares + m
    BY <2>1, <2>2, <2>4 DEF Balances
  <2>6. ASSUME k = 0 PROVE b2[p] = b
    <3>1. b.shares + m = b.shares /\ b.tokens + k = b.tokens
      BY <2>1, <2>4, <2>6
    <3> QED BY <2>1, <2>2, <3>1 DEF Balances
  <2> QED BY <2>3, <2>5, <2>6 DEF b, m, k
<1> HIDE DEF b2, h2
<1>10. ASSUME NEW p \in ps
       PROVE  /\ user[p] \in Accounts
              /\ TierSettled(position[p][t], Now(p, t), balance[p][t], u, user[p], due[p], b2[p])
  <2> DEFINE C == Checkpointed(p, t, u)
             m == mint[p]
  <2>1. /\ C \in Accounts /\ C.accrued \in Nat /\ C.shares \in Nat /\ C.q4w \in Nat /\ m \in Nat
        /\ C.shares = position[p][t][u].shares /\ C.q4w = position[p][t][u].q4w
        /\ C = Accrued(position[p][t][u], Now(p, t).index) /\ due[p] = C.accrued
    BY <1>4, <1>5, <1>8
  <2>2. user[p] = [C EXCEPT !.accrued = 0, !.shares = @ + m]
    OBVIOUS
  <2> HIDE DEF user, C, m
  <2>3. C.shares + m \in Nat
    BY <2>1
  <2>4. user[p] \in Accounts
    <3>1. C \in Accounts /\ 0 \in Nat
      BY <2>1
    <3>2. user[p] = [C EXCEPT !.accrued = 0, !.shares = C.shares + m]
      BY <2>2
    <3> QED BY ONLY <2>3, <3>1, <3>2 DEF Accounts
  <2>5. /\ user[p].index = C.index /\ user[p].carry = C.carry /\ user[p].accrued = 0
        /\ user[p].shares = C.shares + m /\ user[p].q4w = C.q4w
    BY <2>1, <2>2 DEF Accounts
  <2>6. balance[p][t].shares \in Nat /\ balance[p][t].q4w \in Nat
    <3>1. balance[p][t] \in Balances
      BY <1>3
    <3> QED BY <3>1 DEF Balances
  <2>7. b2[p].q4w = balance[p][t].q4w /\ b2[p].shares = balance[p][t].shares + m
    BY <1>9 DEF m
  <2>8. ActiveShares(b2[p])
          = ActiveShares(balance[p][t]) + user[p].shares - position[p][t][u].shares
    BY <2>1, <2>5, <2>6, <2>7 DEF ActiveShares
  <2>9. b2[p].q4w = balance[p][t].q4w + user[p].q4w - position[p][t][u].q4w
    BY <2>1, <2>5, <2>6, <2>7
  <2>10. user[p].accrued = C.accrued - due[p]
    BY <2>1, <2>5
  <2> QED BY <2>1, <2>4, <2>5, <2>8, <2>9, <2>10 DEF TierSettled
<1> HIDE DEF user
<1> DEFINE pos2 == [p \in Pools |-> [position[p][t] EXCEPT ![u] = user[p]]]
<1>11. ASSUME NEW p \in ps
       PROVE  /\ Now(p, t) \in StreamRecord /\ h2[p] \in Histories
              /\ h2[p].gulped = history[p][t].gulped
              /\ pos2[p] \in [Users -> Accounts]
              /\ TierOK(pos2[p], Now(p, t), b2[p])
              /\ HoldingOf(pos2[p], Now(p, t), h2[p])
                   = HoldingOf(position[p][t], stream[p][t], history[p][t])
                     - due[p] * Scale * Scale
  <2>1. p \in Pools
    OBVIOUS
  <2>2. /\ h2[p] = [history[p][t] EXCEPT !.unearned = @ + Lost(p, t)]
        /\ pos2[p] = [position[p][t] EXCEPT ![u] = user[p]]
    BY <2>1 DEF h2
  <2>3. /\ Now(p, t) \in StreamRecord
        /\ [history[p][t] EXCEPT !.unearned = @ + Lost(p, t)] \in Histories
        /\ \A v \in Accounts, pay \in Nat : \A bb :
              TierSettled(position[p][t], Now(p, t), balance[p][t], u, v, pay, bb) =>
                /\ TierOK([position[p][t] EXCEPT ![u] = v], Now(p, t), bb)
                /\ HoldingOf([position[p][t] EXCEPT ![u] = v], Now(p, t),
                             [history[p][t] EXCEPT !.unearned = @ + Lost(p, t)])
                     = HoldingOf(position[p][t], stream[p][t], history[p][t])
                       - pay * Scale * Scale
    BY ONLY <1>1, <2>1, t \in Tiers, u \in Users, Checkpointing
  <2>4. h2[p].gulped = history[p][t].gulped
    <3>1. history[p][t] \in Histories
      BY <1>3, <2>1
    <3> QED BY <2>2, <3>1 DEF Histories
  <2> HIDE DEF pos2
  <2>5. pos2[p] \in [Users -> Accounts]
    <3>1. position[p][t] \in [Users -> Accounts] /\ user[p] \in Accounts
      BY <1>3, <1>10, <2>1
    <3> QED BY <2>2, <3>1
  <2>6. due[p] \in Nat /\ user[p] \in Accounts
    BY <1>5, <1>10
  <2>7. /\ TierOK([position[p][t] EXCEPT ![u] = user[p]], Now(p, t), b2[p])
        /\ HoldingOf([position[p][t] EXCEPT ![u] = user[p]], Now(p, t),
                     [history[p][t] EXCEPT !.unearned = @ + Lost(p, t)])
             = HoldingOf(position[p][t], stream[p][t], history[p][t]) - due[p] * Scale * Scale
    BY <1>10, <2>3, <2>6
  <2> QED BY <2>2, <2>3, <2>4, <2>5, <2>7
<1>12. \A x \in Pools, y \in Tiers :
         /\ position'[x][y] = IF x \in ps /\ y = t THEN pos2[x] ELSE position[x][y]
         /\ stream'[x][y] = IF x \in ps /\ y = t THEN Now(x, t) ELSE stream[x][y]
         /\ balance'[x][y] = IF x \in ps /\ y = t THEN b2[x] ELSE balance[x][y]
         /\ history'[x][y] = IF x \in ps /\ y = t THEN h2[x] ELSE history[x][y]
  <2> TAKE x \in Pools, y \in Tiers
  <2>1. position'[x][y] = IF x \in ps /\ y = t THEN pos2[x] ELSE position[x][y]
    BY <1>2, <1>3
  <2>2. stream'[x][y] = IF x \in ps /\ y = t THEN Now(x, t) ELSE stream[x][y]
    BY <1>2, <1>3
  <2>3. history'[x][y] = IF x \in ps /\ y = t THEN h2[x] ELSE history[x][y]
    BY <1>2, <1>3
  <2>4. balance'[x][y] = IF x \in ps /\ y = t THEN b2[x] ELSE balance[x][y]
    <3>1. balance'[x] = [balance[x] EXCEPT ![t] = b2[x]] /\ balance[x] \in [Tiers -> Balances]
      BY <1>3, <1>9
    <3>2. x \notin ps => b2[x] = balance[x][t]
      BY <1>7, <1>9
    <3> QED BY <3>1, <3>2
  <2> QED BY <2>1, <2>2, <2>3, <2>4
<1> HIDE DEF pos2
<1>13. /\ position' \in [Pools -> [Tiers -> [Users -> Accounts]]]
       /\ stream' \in [Pools -> [Tiers -> StreamRecord]]
       /\ balance' \in [Pools -> [Tiers -> Balances]]
       /\ history' \in [Pools -> [Tiers -> Histories]]
  <2>1. \A x \in Pools :
          x \in ps => [position[x] EXCEPT ![t][u] = user[x]] \in [Tiers -> [Users -> Accounts]]
    BY <1>3, <1>10
  <2>2. \A x \in Pools : x \in ps => [stream[x] EXCEPT ![t] = Now(x, t)] \in [Tiers -> StreamRecord]
    BY <1>3, <1>11
  <2>3. \A x \in Pools : x \in ps => [history[x] EXCEPT ![t] = h2[x]] \in [Tiers -> Histories]
    BY <1>3, <1>11
  <2>4. position' \in [Pools -> [Tiers -> [Users -> Accounts]]]
    BY <1>2, <1>3, <2>1
  <2>5. stream' \in [Pools -> [Tiers -> StreamRecord]]
    BY <1>2, <1>3, <2>2
  <2>6. history' \in [Pools -> [Tiers -> Histories]]
    BY <1>2, <1>3, <2>3
  <2>7. balance' \in [Pools -> [Tiers -> Balances]]
    <3> DEFINE val(x) == [balance[x] EXCEPT ![t].shares = @ + mint[x], ![t].tokens = @ + tokens[x]]
    <3>1. balance' = [x \in Pools |-> val(x)]
      BY <1>2
    <3> HIDE DEF val
    <3>2. ASSUME NEW x \in Pools PROVE val(x) \in [Tiers -> Balances]
      <4>1. val(x) = [balance[x] EXCEPT ![t] = b2[x]]
        BY <1>9, <3>1
      <4> QED BY <1>3, <1>9, <4>1
    <3> QED BY <3>1, <3>2
  <2> QED BY <2>4, <2>5, <2>6, <2>7
<1>14. ASSUME NEW x \in Pools, NEW y \in Tiers
       PROVE  TierOK(position'[x][y], stream'[x][y], balance'[x][y])
  BY <1>1, <1>11, <1>12 DEF TiersInOrder
<1>15. TiersInOrder'
  <2>1. ASSUME NEW x \in Pools, NEW y \in Tiers
        PROVE  TierOK(position[x][y], stream[x][y], balance[x][y])'
    BY <1>14, now' = now DEF TierOK, StreamOK
  <2> QED BY <2>1 DEF TiersInOrder
<1>16. \A x \in Pools, y \in Tiers : ActiveAssets(balance'[x][y]) \in Nat
  <2> TAKE x \in Pools, y \in Tiers
  <2>1. position'[x][y] \in [Users -> Accounts] /\ balance'[x][y] \in Balances
    BY <1>13
  <2> QED BY <1>14, <2>1, ActiveNat, WorthNat
<1>17. ASSUME NEW x \in Pools
       PROVE  /\ ongoing'[x] \in OngoingOf
              /\ tokens[x] = 0 => ongoing'[x] = ongoing[x]
              /\ tokens[x] # 0 =>
                   \A y \in Tiers : ongoing'[x].active[y] = ActiveAssets(balance'[x][y])
              /\ ongoing'[x].pending = ongoing[x].pending
              /\ ongoing'[x].tierCarry = ongoing[x].tierCarry
              /\ ongoing'[x].accrued = ongoing[x].accrued
  <2>1. ongoing'[x] = IF tokens[x] > 0 THEN Refreshed(ongoing[x], balance'[x]) ELSE ongoing[x]
    BY <1>2
  <2>2. ongoing[x] \in OngoingOf /\ tokens[x] \in Nat
    BY <1>3, <1>7
  <2> DEFINE bs == balance'[x]
  <2>3. \A y \in Tiers : ActiveAssets(bs[y]) \in Nat
    BY <1>16
  <2> HIDE DEF bs
  <2>4. /\ Refreshed(ongoing[x], bs) \in OngoingOf
        /\ \A y \in Tiers : Refreshed(ongoing[x], bs).active[y] = ActiveAssets(bs[y])
        /\ Refreshed(ongoing[x], bs).pending = ongoing[x].pending
        /\ Refreshed(ongoing[x], bs).tierCarry = ongoing[x].tierCarry
        /\ Refreshed(ongoing[x], bs).accrued = ongoing[x].accrued
    BY <2>2, <2>3, RefreshedTypes
  <2> QED BY <2>1, <2>2, <2>4 DEF bs
<1>18. ongoing' \in [Pools -> OngoingOf]
  <2> DEFINE val(x) == IF tokens[x] > 0 THEN Refreshed(ongoing[x], balance'[x]) ELSE ongoing[x]
  <2>1. ongoing' = [x \in Pools |-> val(x)]
    BY <1>2
  <2> HIDE DEF val
  <2>2. \A x \in Pools : val(x) \in OngoingOf
    BY <1>17, <2>1
  <2> QED BY <2>1, <2>2
<1>19. /\ ledger'.total = ledger.total /\ ledger'.toBackstop = ledger.toBackstop
       /\ ledger'.toPools = ledger.toPools /\ ledger'.splitCarry = ledger.splitCarry
       /\ ledger'.backstopCarry = ledger.backstopCarry /\ ledger'.poolCarry = ledger.poolCarry
       /\ ledger'.claimed = ledger.claimed + amount
       /\ ledger' \in [total : Nat, toBackstop : Nat, toPools : Nat, claimed : Nat,
                       splitCarry : Nat, backstopCarry : Nat, poolCarry : Nat, last : Nat]
  <2>1. ledger \in [total : Nat, toBackstop : Nat, toPools : Nat, claimed : Nat, splitCarry : Nat,
                    backstopCarry : Nat, poolCarry : Nat, last : Nat]
    BY <1>1 DEF StreamsTypeOK
  <2>2. ledger.claimed + amount \in Nat
    BY <1>3, <1>6
  <2>3. ledger' = [ledger EXCEPT !.claimed = ledger.claimed + amount]
    BY <1>2, <2>1
  <2> QED BY <2>1, <2>2, <2>3
<1>20. StreamsTypeOK'
  BY <1>1, <1>2, <1>13, <1>18, <1>19, now' = now
    DEF StreamsTypeOK, Accounts, Balances, Histories, OngoingOf
<1>21. EveryTokenIsAccounted'
  <2>1. \A x \in Pools, y \in Tiers : history'[x][y].gulped = history[x][y].gulped
    BY <1>11, <1>12
  <2> QED BY <1>1, <1>17, <1>19, <1>20, <2>1, AccountingFrame
<1>22. ClaimsAreFunded'
  <2> DEFINE pay == [x \in Tranches |-> IF x[2] = t /\ x[1] \in ps THEN due[x[1]] ELSE 0]
  <2>1. ASSUME NEW x \in Pools, NEW y \in Tiers
        PROVE  /\ pay[<<x, y>>] \in Nat
               /\ HoldingOf(position'[x][y], stream'[x][y], history'[x][y])
                    = HoldingOf(position[x][y], stream[x][y], history[x][y])
                      + (history'[x][y].gulped - history[x][y].gulped) * (Scale * Scale)
                      - pay[<<x, y>>] * (Scale * Scale)
    <3> DEFINE n == pay[<<x, y>>]
               old == HoldingOf(position[x][y], stream[x][y], history[x][y])
               new == HoldingOf(position'[x][y], stream'[x][y], history'[x][y])
               g == history[x][y].gulped
    <3>1. <<x, y>> \in Tranches
      BY DEF Tranches
    <3>2. n = IF y = t /\ x \in ps THEN due[x] ELSE 0
      BY <3>1
    <3>3. n \in Nat
      BY <1>5, <3>2
    <3>4. history'[x][y].gulped = g /\ g \in Int
      <4>1. history[x][y] \in Histories
        BY <1>3
      <4>2. g \in Int
        BY <4>1 DEF Histories
      <4> QED BY <1>11, <1>12, <4>2
    <3>5. old \in Int
      <4>1. TierOK(position[x][y], stream[x][y], balance[x][y])
        BY <1>1 DEF TiersInOrder
      <4> QED BY <1>1, <4>1, TierTypes, HoldingInt
    <3>6. new = old - n * Scale * Scale
      <4>1. CASE y = t /\ x \in ps
        BY <1>11, <1>12, <3>2, <4>1
      <4>2. CASE ~(y = t /\ x \in ps)
        <5>1. 0 * Scale * Scale = 0
          BY StreamsAssumption
        <5>2. new = old /\ n = 0
          BY <1>12, <3>2, <4>2
        <5> QED BY <3>5, <5>1, <5>2
      <4> QED BY <4>1, <4>2
    <3> HIDE DEF n, old, new, g
    <3>7. n * Scale * Scale = n * (Scale * Scale) /\ n * (Scale * Scale) \in Int
      BY <3>3, SquareInt
    <3>8. (g - g) * (Scale * Scale) = 0
      <4>1. g - g = 0
        BY <3>4
      <4> QED BY <4>1, SquareInt
    <3>9. new = old + (history'[x][y].gulped - g) * (Scale * Scale) - n * (Scale * Scale)
      BY <3>4, <3>5, <3>6, <3>7, <3>8
    <3> QED BY <3>3, <3>9 DEF n, old, new, g
  <2>2. \A x \in Tranches : pay[x] \in Nat
    <3> TAKE x \in Tranches
    <3>1. PICK p \in Pools, y \in Tiers : x = <<p, y>>
      BY DEF Tranches
    <3> HIDE DEF pay
    <3> QED BY <2>1, <3>1
  <2>3. SumOn(pay, Tranches) = SumOn(due, ps)
    <3>1. \A p \in ps : due[p] \in Int
      BY <1>5
    <3> QED BY <3>1, ColumnSum
  <2> HIDE DEF pay
  <2>4. ledger'.claimed = ledger.claimed + SumOn(pay, Tranches)
    BY <1>6, <1>19, <2>3
  <2> QED BY <1>1, <1>15, <1>20, <2>1, <2>2, <2>4, FundedMove
<1>23. WeightsAreCurrent'
  <2>1. ASSUME NEW x \in zone', NEW y \in Tiers
        PROVE  ongoing'[x].active[y] = ActiveAssets(balance'[x][y])
    <3>1. x \in zone /\ x \in Pools
      BY <1>1, <1>2 DEF StreamsTypeOK
    <3>2. tokens[x] = 0 => balance'[x][y] = balance[x][y]
      BY <1>9, <1>12, <3>1
    <3> QED BY <1>1, <1>17, <3>1, <3>2 DEF WeightsAreCurrent
  <2> QED BY <2>1 DEF WeightsAreCurrent, ActiveAssets, ActiveShares, ConvertToTokens, Portion
<1> QED BY <1>15, <1>17, <1>21, <1>22, <1>23 DEF BackstopInv
------------------------------------------------------------------------------
(* Gulps of the backstop *)

\* One tier of the pool that gulps.
LEMMA GulpedTier ==
  ASSUME StreamsTypeOK, TiersInOrder, NEW p \in Pools, NEW t \in Tiers, NEW pending \in Nat
  PROVE  LET h2 == [gulped |-> history[p][t].gulped + pending,
                    unearned |-> history[p][t].unearned + Lost(p, t)]
             e == Restarted(Now(p, t), pending)
         IN /\ h2 \in Histories /\ e \in StreamRecord
            /\ TierOK(position[p][t], e, balance[p][t])
            /\ HoldingOf(position[p][t], e, h2)
                 = HoldingOf(position[p][t], stream[p][t], history[p][t])
                   + pending * Scale * Scale
<1> DEFINE pos == position[p][t]
           s == stream[p][t]
           b == balance[p][t]
           h == history[p][t]
           d == Now(p, t)
           h2 == [gulped |-> h.gulped + pending, unearned |-> h.unearned + Lost(p, t)]
           e == Restarted(d, pending)
<1>1. /\ pos \in [Users -> Accounts] /\ s \in StreamRecord /\ b \in Balances /\ h \in Histories
      /\ now \in Nat /\ TierOK(pos, s, b)
  BY TierTypes DEF TiersInOrder
<1>2. /\ d = Advanced(s, ActiveShares(b))
      /\ Lost(p, t) = IF ActiveShares(b) = 0 THEN Released(s) ELSE 0
  BY DEF Now, Lost
<1> HIDE DEF pos, s, b, h, d
<1>3. Lost(p, t) \in Nat
  <2>1. StreamOK(s) /\ ActiveShares(b) \in Nat
    BY <1>1, ActiveNat DEF TierOK
  <2>2. LET lost == IF ActiveShares(b) = 0 THEN Released(s) ELSE 0 IN lost \in Nat
    BY <1>1, <2>1, AdvanceIsExact
  <2> QED BY <1>2, <2>2
<1>4. h2 \in Histories /\ h2.unearned = h.unearned + Lost(p, t)
  <2>1. h.gulped + pending \in Nat /\ h.unearned + Lost(p, t) \in Nat
    BY <1>1, <1>3 DEF Histories
  <2> QED BY <2>1 DEF Histories
<1> HIDE DEF h2
<1>5. /\ TierOK(pos, d, b) /\ HoldingOf(pos, d, h2) = HoldingOf(pos, s, h)
      /\ Unreleased(d) \in Nat
      /\ Most(0, d.expiration - now) * d.eps + d.scheduleCarry = Unreleased(d)
  BY <1>1, <1>2, <1>4, TierAdvanced
<1>6. /\ TierOK(pos, e, b)
      /\ HoldingOf(pos, e, h2) = HoldingOf(pos, d, h2) + pending * Scale * Scale
  BY <1>1, <1>4, <1>5, TierRestarted
<1>7. e \in StreamRecord
  BY <1>6 DEF TierOK, StreamOK
<1> QED BY <1>4, <1>5, <1>6, <1>7 DEF pos, s, b, h, d, h2, e

LEMMA GulpTiersKeeps ==
  ASSUME BackstopInv, now' = now, NEW p \in Pools, GulpTiers(p)
  PROVE  /\ BackstopInv' /\ Ungulped' = Ungulped - ongoing[p].accrued
         /\ ongoing[p].accrued \in Nat /\ Ungulped \in Int
<1> DEFINE o == ongoing[p]
           zero == [t \in Tiers |-> 0]
           e == [t \in Tiers |-> IF o.pending[t] = 0 THEN stream[p][t]
                                 ELSE Restarted(Now(p, t), o.pending[t])]
           h2 == [t \in Tiers |-> IF o.pending[t] = 0 THEN history[p][t]
                                  ELSE [gulped |-> history[p][t].gulped + o.pending[t],
                                        unearned |-> history[p][t].unearned + Lost(p, t)]]
           o2 == [o EXCEPT !.pending = zero, !.accrued = 0]
<1>1. StreamsTypeOK /\ TiersInOrder /\ ClaimsAreFunded /\ EveryTokenIsAccounted /\ WeightsAreCurrent
  BY DEF BackstopInv, EveryTokenIsAccounted
<1>2. /\ position \in [Pools -> [Tiers -> [Users -> Accounts]]]
      /\ stream \in [Pools -> [Tiers -> StreamRecord]]
      /\ balance \in [Pools -> [Tiers -> Balances]]
      /\ history \in [Pools -> [Tiers -> Histories]]
      /\ ongoing \in [Pools -> OngoingOf]
      /\ lastGulp \in [Pools -> Nat \cup {Never}]
      /\ allowance \in [Pools -> [amount : Nat, until : Nat \cup {Never}]]
      /\ now \in Nat
  BY <1>1 DEF StreamsTypeOK, Accounts, Balances, Histories, OngoingOf
<1>3. /\ stream' = [stream EXCEPT ![p] = e]
      /\ history' = [history EXCEPT ![p] = h2]
      /\ ongoing' = [ongoing EXCEPT ![p].pending = zero, ![p].accrued = 0]
      /\ allowance' = [allowance EXCEPT ![p] = IF o.accrued > 0 THEN Granted(p, o.accrued) ELSE @]
      /\ lastGulp' = [lastGulp EXCEPT ![p] = now]
      /\ UNCHANGED <<zone, ledger, balance, position>>
  <2>1. history' = [history EXCEPT ![p] = [t \in Tiers |->
          IF o.pending[t] = 0 THEN history[p][t]
          ELSE [gulped |-> history[p][t].gulped + o.pending[t],
                unearned |-> history[p][t].unearned + Lost(p, t)]]]
    BY <1>2 DEF GulpTiers
  <2> QED BY <2>1 DEF GulpTiers
<1>4. /\ o \in OngoingOf /\ o.pending \in [Tiers -> Nat] /\ o.accrued \in Nat
      /\ o2 \in OngoingOf /\ o2.active = o.active /\ o2.pending = zero /\ o2.accrued = 0
      /\ o2.tierCarry = o.tierCarry
  BY <1>2 DEF OngoingOf
<1>5. ongoing' = [ongoing EXCEPT ![p] = o2]
  BY <1>2, <1>3
<1> HIDE DEF o2, e, h2
<1>6. ASSUME NEW t \in Tiers
      PROVE  /\ e[t] \in StreamRecord /\ h2[t] \in Histories
             /\ TierOK(position[p][t], e[t], balance[p][t])
             /\ h2[t].gulped = history[p][t].gulped + o.pending[t]
             /\ history[p][t].gulped \in Int /\ o.pending[t] \in Nat
             /\ HoldingOf(position[p][t], e[t], h2[t])
                  = HoldingOf(position[p][t], stream[p][t], history[p][t])
                    + o.pending[t] * Scale * Scale
  <2> DEFINE n == o.pending[t]
  <2>1. n \in Nat /\ history[p][t] \in Histories
    BY <1>2, <1>4
  <2>2. history[p][t].gulped \in Int
    BY <2>1 DEF Histories
  <2>3. CASE n = 0
    <3>1. e[t] = stream[p][t] /\ h2[t] = history[p][t]
      BY <2>3 DEF e, h2
    <3>2. TierOK(position[p][t], stream[p][t], balance[p][t]) /\ stream[p][t] \in StreamRecord
      BY <1>1, <1>2 DEF TiersInOrder
    <3>3. HoldingOf(position[p][t], stream[p][t], history[p][t]) \in Int
      BY <1>1, <3>2, TierTypes, HoldingInt
    <3>4. 0 * Scale * Scale = 0
      BY StreamsAssumption
    <3> QED BY <2>1, <2>2, <2>3, <3>1, <3>2, <3>3, <3>4
  <2>4. CASE n # 0
    <3>1. /\ e[t] = Restarted(Now(p, t), n)
          /\ h2[t] = [gulped |-> history[p][t].gulped + n,
                      unearned |-> history[p][t].unearned + Lost(p, t)]
      BY <2>4 DEF e, h2
    <3> HIDE DEF n
    <3>2. LET hh == [gulped |-> history[p][t].gulped + n,
                     unearned |-> history[p][t].unearned + Lost(p, t)]
              ee == Restarted(Now(p, t), n)
          IN /\ hh \in Histories /\ ee \in StreamRecord
             /\ TierOK(position[p][t], ee, balance[p][t])
             /\ HoldingOf(position[p][t], ee, hh)
                  = HoldingOf(position[p][t], stream[p][t], history[p][t]) + n * Scale * Scale
      BY <1>1, <2>1, GulpedTier
    <3>3. h2[t].gulped = history[p][t].gulped + n
      BY <3>1
    <3> QED BY <2>1, <2>2, <3>1, <3>2, <3>3 DEF n
  <2> QED BY <2>3, <2>4
<1>7. e \in [Tiers -> StreamRecord] /\ h2 \in [Tiers -> Histories]
  BY <1>6 DEF e, h2
<1>8. \A x \in Pools, y \in Tiers :
        /\ stream'[x][y] = IF x = p THEN e[y] ELSE stream[x][y]
        /\ history'[x][y] = IF x = p THEN h2[y] ELSE history[x][y]
  BY <1>2, <1>3
<1>9. /\ stream' \in [Pools -> [Tiers -> StreamRecord]]
      /\ history' \in [Pools -> [Tiers -> Histories]]
      /\ ongoing' \in [Pools -> OngoingOf]
  BY <1>2, <1>3, <1>4, <1>5, <1>7
<1>10. /\ lastGulp' \in [Pools -> Nat \cup {Never}]
       /\ allowance' \in [Pools -> [amount : Nat, until : Nat \cup {Never}]]
  <2>1. Granted(p, o.accrued) \in [amount : Nat, until : Nat \cup {Never}]
    <3>1. Allowed(p) \in Nat
      BY <1>2 DEF Allowed
    <3>2. Allowed(p) + o.accrued \in Nat /\ now + AllowanceTicks \in Nat
      BY <1>2, <1>4, <3>1, StreamsAssumption
    <3> QED BY <3>2 DEF Granted
  <2> QED BY <1>2, <1>3, <2>1
<1>11. StreamsTypeOK'
  BY <1>1, <1>2, <1>3, <1>9, <1>10, now' = now
    DEF StreamsTypeOK, Accounts, Balances, Histories, OngoingOf
<1>12. TiersInOrder'
  <2>1. ASSUME NEW x \in Pools, NEW y \in Tiers
        PROVE  TierOK(position'[x][y], stream'[x][y], balance'[x][y])
    BY <1>1, <1>3, <1>6, <1>8 DEF TiersInOrder
  <2>2. ASSUME NEW x \in Pools, NEW y \in Tiers
        PROVE  TierOK(position[x][y], stream[x][y], balance[x][y])'
    BY <2>1, now' = now DEF TierOK, StreamOK
  <2> QED BY <2>2 DEF TiersInOrder
<1>13. ClaimsAreFunded'
  <2> DEFINE pay == [x \in Tranches |-> 0]
  <2>1. ASSUME NEW x \in Pools, NEW y \in Tiers
        PROVE  HoldingOf(position'[x][y], stream'[x][y], history'[x][y])
                 = HoldingOf(position[x][y], stream[x][y], history[x][y])
                   + (history'[x][y].gulped - history[x][y].gulped) * (Scale * Scale)
                   - pay[<<x, y>>] * (Scale * Scale)
    <3> DEFINE old == HoldingOf(position[x][y], stream[x][y], history[x][y])
               new == HoldingOf(position'[x][y], stream'[x][y], history'[x][y])
               n == IF x = p THEN o.pending[y] ELSE 0
               g == history[x][y].gulped
    <3>1. pay[<<x, y>>] = 0
      BY DEF Tranches
    <3>2. n \in Nat
      BY <1>6
    <3>3. history'[x][y].gulped = g + n /\ g \in Int
      <4>1. history[x][y] \in Histories
        BY <1>2
      <4>2. g \in Int
        BY <4>1 DEF Histories
      <4>3. x # p => history'[x][y] = history[x][y]
        BY <1>8
      <4>4. x = p => history'[x][y] = h2[y] /\ h2[y].gulped = g + o.pending[y]
        BY <1>6, <1>8
      <4> QED BY <4>2, <4>3, <4>4
    <3>4. old \in Int
      <4>1. TierOK(position[x][y], stream[x][y], balance[x][y])
        BY <1>1 DEF TiersInOrder
      <4> QED BY <1>1, <4>1, TierTypes, HoldingInt
    <3>5. new = old + n * Scale * Scale
      <4>1. CASE x = p
        BY <1>3, <1>6, <1>8, <4>1
      <4>2. CASE x # p
        <5>1. 0 * Scale * Scale = 0
          BY StreamsAssumption
        <5>2. new = old /\ n = 0
          BY <1>3, <1>8, <4>2
        <5> QED BY <3>4, <5>1, <5>2
      <4> QED BY <4>1, <4>2
    <3> HIDE DEF old, new, n, g, pay
    <3>6. /\ n * Scale * Scale = n * (Scale * Scale) /\ n * (Scale * Scale) \in Int
          /\ 0 * (Scale * Scale) = 0
      BY <3>2, SquareInt
    <3>7. history'[x][y].gulped - g = n
      BY <3>2, <3>3
    <3>8. new = old + (history'[x][y].gulped - g) * (Scale * Scale)
                - pay[<<x, y>>] * (Scale * Scale)
      BY <3>1, <3>4, <3>5, <3>6, <3>7
    <3> QED BY <3>8 DEF old, new, g
  <2>2. /\ \A x \in Tranches : pay[x] = 0
        /\ \A x \in Tranches : pay[x] \in Nat
    OBVIOUS
  <2> HIDE DEF pay
  <2>3. SumOn(pay, Tranches) = 0
    BY <2>2, SumZero, FS_Product, StreamsAssumption DEF Tranches
  <2>4. ledger'.claimed = ledger.claimed + SumOn(pay, Tranches)
    BY <1>1, <1>3, <2>3 DEF StreamsTypeOK
  <2> QED BY <1>1, <1>11, <1>12, <2>1, <2>2, <2>4, FundedMove
<1>14. EveryTokenIsAccounted'
  <2>1. ASSUME NEW x \in Pools
        PROVE  GulpedFor(x)' + Waiting(x)' = GulpedFor(x) + Waiting(x)
    <3>1. CASE x # p
      <4>1. [t \in Tiers |-> history'[x][t].gulped] = [t \in Tiers |-> history[x][t].gulped]
        BY <1>8, <3>1
      <4>2. ongoing'[x] = ongoing[x]
        BY <1>2, <1>5, <3>1
      <4> QED BY <4>1, <4>2 DEF GulpedFor, Waiting
    <3>2. CASE x = p
      <4> DEFINE f == [t \in Tiers |-> history[p][t].gulped]
                 g == [t \in Tiers |-> history'[p][t].gulped]
                 q == o.pending
      <4>1. /\ GulpedFor(p) = Sum(f, Tiers) /\ GulpedFor(p)' = Sum(g, Tiers)
            /\ Waiting(p) = Sum(q, Tiers) + o.tierCarry
        BY DEF GulpedFor, Waiting
      <4>2. Waiting(p)' = Sum(zero, Tiers) + o.tierCarry
        <5>1. ongoing'[p] = o2
          BY <1>2, <1>5
        <5> QED BY <1>4, <5>1 DEF Waiting
      <4>3. \A t \in Tiers : f[t] \in Int /\ q[t] \in Int /\ g[t] = f[t] + q[t]
        <5> TAKE t \in Tiers
        <5>1. history'[p][t] = h2[t]
          BY <1>8
        <5> QED BY <1>6, <5>1
      <4>4. \A t \in Tiers : zero[t] = 0
        OBVIOUS
      <4>5. IsFiniteSet(Tiers) /\ o.tierCarry \in Int
        BY <1>4, StreamsAssumption DEF OngoingOf
      <4> HIDE DEF f, g, q, zero
      <4>6. SumOn(g, Tiers) = SumOn(f, Tiers) + SumOn(q, Tiers)
        BY ONLY <4>3, <4>5, SumPlus
      <4>7. SumOn(zero, Tiers) = 0
        BY ONLY <4>4, <4>5, SumZero
      <4>8. SumOn(f, Tiers) \in Int /\ SumOn(q, Tiers) \in Int
        BY <4>3, <4>5, SumInt
      <4> QED BY <3>2, <4>1, <4>2, <4>5, <4>6, <4>7, <4>8, SumIsSumOn
    <3> QED BY <3>1, <3>2
  <2>2. [x \in Pools |-> GulpedFor(x)' + Waiting(x)'] = [x \in Pools |-> GulpedFor(x) + Waiting(x)]
    BY <2>1
  <2>3. (Sum([x \in Pools |-> GulpedFor(x) + Waiting(x)], Pools))'
          = Sum([x \in Pools |-> GulpedFor(x) + Waiting(x)], Pools)
    BY <2>2
  <2> QED BY <1>1, <1>3, <1>11, <2>3 DEF EveryTokenIsAccounted
<1>15. Ungulped' = Ungulped - ongoing[p].accrued /\ Ungulped \in Int
  <2> DEFINE before == [x \in Pools |-> ongoing[x].accrued]
             after == [x \in Pools |-> ongoing'[x].accrued]
  <2>1. \A x \in Pools : ongoing'[x] = IF x = p THEN o2 ELSE ongoing[x]
    BY <1>2, <1>5
  <2>2. \A x \in Pools : ongoing[x].accrued \in Int /\ ongoing'[x].accrued \in Int
    BY <1>2, <1>9 DEF OngoingOf
  <2>3. /\ \A x \in Pools : before[x] \in Int /\ after[x] \in Int
        /\ \A x \in Pools \ {p} : before[x] = after[x]
        /\ before[p] = ongoing[p].accrued /\ after[p] = 0
    BY <1>4, <2>1, <2>2
  <2>4. Ungulped = Sum(before, Pools) /\ Ungulped' = Sum(after, Pools)
    BY DEF Ungulped
  <2>5. IsFiniteSet(Pools)
    BY StreamsAssumption
  <2> HIDE DEF before, after
  <2>6. SumOn(after, Pools) = SumOn(before, Pools) - before[p] + after[p]
    BY ONLY <2>3, <2>5, SumChange, SMTT(60)
  <2>7. SumOn(before, Pools) \in Int /\ before[p] \in Int
    BY <2>3, <2>5, SumInt
  <2> QED BY <2>3, <2>4, <2>6, <2>7, SumIsSumOn
<1>16. WeightsAreCurrent'
  <2>1. ASSUME NEW x \in zone', NEW y \in Tiers
        PROVE  ongoing'[x].active[y] = ActiveAssets(balance[x][y])
    <3>1. x \in zone /\ x \in Pools
      BY <1>1, <1>3 DEF StreamsTypeOK
    <3>2. ongoing'[x].active = ongoing[x].active
      BY <1>2, <1>4, <1>5, <3>1
    <3> QED BY <1>1, <3>1, <3>2 DEF WeightsAreCurrent
  <2>2. balance' = balance
    BY <1>3
  <2> QED BY <2>1, <2>2 DEF WeightsAreCurrent, ActiveAssets, ActiveShares, ConvertToTokens, Portion
<1> QED BY <1>4, <1>12, <1>13, <1>14, <1>15, <1>16 DEF BackstopInv
------------------------------------------------------------------------------
(* The pool's side of the invariant *)

LEMMA TokenTypes ==
  ASSUME EmissionsTypeOK, NEW k \in ResTokens
  PROVE  /\ holder[k] \in [Users -> Holders] /\ emission[k] \in Emissions
         /\ payments.paid[k] \in Nat /\ payments.gulped[k] \in Nat
BY DEF EmissionsTypeOK, Holders, Emissions

\* What a stream holds and has paid is what was gulped for it.
Tranche(k) ==
  TokenHolding(holder[k], emission[k]) + payments.paid[k] * IndexScale
    = payments.gulped[k] * IndexScale

LEMMA HoldingOfToken ==
  ASSUME NEW hs \in [Users -> Holders], NEW e \in Emissions
  PROVE  TokenHolding(hs, e) \in Int
<1> DEFINE f == [u \in Users |-> DueOf(hs[u], e.index)]
<1>1. e.index \in Nat /\ e.indexCarry \in Int /\ e.remaining \in Int /\ IndexScale \in Int
  BY ReserveEmissionsAssumption DEF Emissions
<1>2. \A u \in Users : f[u] \in Int
  <2>1. \A u \in Users : DueOf(hs[u], e.index) \in Int
    BY <1>1, DueGrows
  <2> QED BY <2>1
<1>3. TokenHolding(hs, e) = SumOn(f, Users) + e.indexCarry + e.remaining * IndexScale
  BY SumIsSumOn DEF TokenHolding
<1> HIDE DEF f
<1>4. SumOn(f, Users) \in Int
  BY <1>2, SumInt, StreamsAssumption
<1> QED BY <1>1, <1>3, <1>4

LEMMA TrancheIsPaid ==
  EmissionsTypeOK => (ReserveStreamsPayTheirTranche <=> \A k \in ResTokens : Tranche(k))
<1> SUFFICES ASSUME EmissionsTypeOK
             PROVE  ReserveStreamsPayTheirTranche <=> \A k \in ResTokens : Tranche(k)
  OBVIOUS
<1> DEFINE L(k) == Sum([u \in Users |-> Due(k, u)], Users) + emission[k].indexCarry
                     + (emission[k].remaining + payments.paid[k]) * IndexScale
<1>1. ASSUME NEW k \in ResTokens
      PROVE  L(k) = TokenHolding(holder[k], emission[k]) + payments.paid[k] * IndexScale
  <2> DEFINE f == [u \in Users |-> DueOf(holder[k][u], emission[k].index)]
             r == emission[k].remaining
             q == payments.paid[k]
             i == emission[k].indexCarry
  <2>1. /\ L(k) = Sum(f, Users) + i + (r + q) * IndexScale
        /\ TokenHolding(holder[k], emission[k]) = Sum(f, Users) + i + r * IndexScale
    BY DEF Due, DueOf, TokenHolding
  <2>2. /\ holder[k] \in [Users -> Holders] /\ emission[k] \in Emissions
        /\ q \in Nat /\ r \in Nat /\ i \in Nat /\ emission[k].index \in Nat /\ IndexScale \in Nat
    BY TokenTypes, ReserveEmissionsAssumption DEF Emissions
  <2>3. \A u \in Users : f[u] \in Int
    <3>1. \A u \in Users : DueOf(holder[k][u], emission[k].index) \in Int
      BY <2>2, DueGrows
    <3> QED BY <3>1
  <2> HIDE DEF f, r, q, i
  <2>4. SumOn(f, Users) \in Int
    BY <2>3, SumInt, StreamsAssumption
  <2>5. Sum(f, Users) \in Int
    BY <2>4, SumIsSumOn
  <2>6. (r + q) * IndexScale = r * IndexScale + q * IndexScale
        /\ r * IndexScale \in Int /\ q * IndexScale \in Int
    BY <2>2
  <2>7. L(k) = TokenHolding(holder[k], emission[k]) + q * IndexScale
    <3> HIDE DEF L
    <3> QED BY <2>1, <2>2, <2>5, <2>6
  <2> QED BY <2>7 DEF q
<1>2. ReserveStreamsPayTheirTranche <=> \A k \in ResTokens : L(k) = payments.gulped[k] * IndexScale
  BY DEF ReserveStreamsPayTheirTranche
<1> HIDE DEF L
<1> QED BY <1>1, <1>2 DEF Tranche

\* Streams that change by what they are given less what they pay keep paying their
\* tranche.
LEMMA ReserveStep ==
  ASSUME ReserveInv, EmissionsTypeOK', TokensInOrder',
         \A k \in ResTokens :
           TokenHolding(holder'[k], emission'[k])
             = TokenHolding(holder[k], emission[k])
               + (payments'.gulped[k] - payments.gulped[k]) * IndexScale
               - (payments'.paid[k] - payments.paid[k]) * IndexScale
  PROVE  ReserveInv'
<1>1. EmissionsTypeOK
  BY DEF ReserveInv, ReserveStreamsPayTheirTranche
<1>2. \A k \in ResTokens : Tranche(k)
  BY <1>1, TrancheIsPaid DEF ReserveInv
<1>3. ASSUME NEW k \in ResTokens PROVE Tranche(k)'
  <2> DEFINE H == TokenHolding(holder[k], emission[k])
             H2 == TokenHolding(holder'[k], emission'[k])
             g == payments.gulped[k]
             g2 == payments'.gulped[k]
             q == payments.paid[k]
             q2 == payments'.paid[k]
  <2>1. /\ H + q * IndexScale = g * IndexScale
        /\ H2 = H + (g2 - g) * IndexScale - (q2 - q) * IndexScale
    BY <1>2 DEF Tranche
  <2>2. /\ g \in Int /\ q \in Int /\ g2 \in Int /\ q2 \in Int /\ IndexScale \in Int /\ H \in Int
    <3>1. holder[k] \in [Users -> Holders] /\ emission[k] \in Emissions /\ g \in Int /\ q \in Int
      BY <1>1, TokenTypes
    <3>2. H \in Int
      BY <3>1, HoldingOfToken
    <3>3. g2 \in Int /\ q2 \in Int
      BY DEF EmissionsTypeOK
    <3> QED BY <3>1, <3>2, <3>3, ReserveEmissionsAssumption
  <2>3. Tranche(k)' <=> H2 + q2 * IndexScale = g2 * IndexScale
    BY DEF Tranche, TokenHolding, DueOf
  <2> HIDE DEF H, H2, g, g2, q, q2
  <2>4. /\ (g2 - g) * IndexScale = g2 * IndexScale - g * IndexScale
        /\ (q2 - q) * IndexScale = q2 * IndexScale - q * IndexScale
        /\ g * IndexScale \in Int /\ g2 * IndexScale \in Int
        /\ q * IndexScale \in Int /\ q2 * IndexScale \in Int
    BY <2>2
  <2> QED BY <2>1, <2>2, <2>3, <2>4
<1>4. (EmissionsTypeOK => (ReserveStreamsPayTheirTranche <=> \A k \in ResTokens : Tranche(k)))'
  BY TrancheIsPaid, PTL
<1> QED BY <1>3, <1>4 DEF ReserveInv

\* The checkpoint of a token and of one of its holders.
LEMMA TokenCheckpoint ==
  ASSUME EmissionsTypeOK, TokensInOrder, now \in Nat, NEW k \in ResTokens
  PROVE  /\ Current(k) \in Emissions /\ TokenOK(holder[k], Current(k))
         /\ TokenHolding(holder[k], Current(k)) = TokenHolding(holder[k], emission[k])
         /\ TokenHolding(holder[k], emission[k]) \in Int
         /\ Current(k) = NoEmission <=> emission[k] = NoEmission
<1>1. holder[k] \in [Users -> Holders] /\ emission[k] \in Emissions
      /\ TokenOK(holder[k], emission[k])
  BY TokenTypes DEF TokensInOrder
<1>2. Current(k) = Vested(emission[k], Sum([u \in Users |-> holder[k][u].balance], Users))
  BY DEF Current, Supply
<1>3. /\ Current(k) \in Emissions /\ TokenOK(holder[k], Current(k))
      /\ Current(k).expiration = emission[k].expiration
      /\ emission[k] = NoEmission => Current(k) = emission[k]
      /\ TokenHolding(holder[k], Current(k)) = TokenHolding(holder[k], emission[k])
      /\ TokenHolding(holder[k], emission[k]) \in Int
  BY <1>1, <1>2, TokenVested
<1>4. Current(k) = NoEmission => emission[k] = NoEmission
  <2>1. Current(k) = NoEmission => emission[k].expiration = Never
    BY <1>3 DEF NoEmission
  <2> QED BY <1>1, <2>1 DEF TokenOK
<1> QED BY <1>3, <1>4

LEMMA HolderCheckpoint ==
  ASSUME EmissionsTypeOK, TokensInOrder, now \in Nat, NEW k \in ResTokens, NEW u \in Users
  PROVE  /\ Settled(k, u) = IF Current(k) = NoEmission THEN holder[k][u]
                            ELSE SettledAt(holder[k][u], Current(k))
         /\ Settled(k, u) \in Holders /\ Settled(k, u).balance = holder[k][u].balance
<1>1. /\ Current(k) \in Emissions /\ TokenOK(holder[k], Current(k))
      /\ Current(k) = NoEmission <=> emission[k] = NoEmission
  BY TokenCheckpoint
<1>2. Settled(k, u) = IF Current(k) = NoEmission THEN holder[k][u]
                      ELSE SettledAt(holder[k][u], Current(k))
  BY <1>1 DEF Settled, SettledAt
<1>3. holder[k][u] \in Holders
  BY TokenTypes
<1>4. holder[k][u].index <= Current(k).index
  BY <1>1 DEF TokenOK
<1>5. /\ SettledAt(holder[k][u], Current(k)) \in Holders
      /\ SettledAt(holder[k][u], Current(k)).balance = holder[k][u].balance
  BY <1>1, <1>3, <1>4, SettlementIsExact
<1> QED BY <1>2, <1>3, <1>5

LEMMA OwedInt ==
  ASSUME EmissionsTypeOK
  PROVE  Owed \in Int /\ Sum(payments.paid, ResTokens) \in Int
<1> DEFINE f == [k \in ResTokens |-> payments.gulped[k] - payments.paid[k]]
<1>1. IsFiniteSet(ResTokens) /\ carry \in Int
  BY ReserveEmissionsAssumption DEF EmissionsTypeOK
<1>2. \A k \in ResTokens : f[k] \in Int /\ payments.paid[k] \in Int
  BY DEF EmissionsTypeOK
<1>3. /\ Owed = SumOn(f, ResTokens) + carry
      /\ Sum(payments.paid, ResTokens) = SumOn(payments.paid, ResTokens)
  BY SumIsSumOn DEF Owed
<1> HIDE DEF f
<1>4. SumOn(f, ResTokens) \in Int /\ SumOn(payments.paid, ResTokens) \in Int
  BY <1>1, <1>2, SumInt
<1> QED BY <1>1, <1>3, <1>4

LEMMA UngulpedInt ==
  ASSUME StreamsTypeOK
  PROVE  Ungulped \in Int
<1> DEFINE f == [p \in Pools |-> ongoing[p].accrued]
<1>1. IsFiniteSet(Pools) /\ \A p \in Pools : f[p] \in Int
  BY StreamsAssumption DEF StreamsTypeOK
<1>2. Ungulped = SumOn(f, Pools)
  BY SumIsSumOn DEF Ungulped
<1> HIDE DEF f
<1> QED BY <1>1, <1>2, SumInt

LEMMA UngulpedFrame ==
  (\A x \in Pools : ongoing'[x].accrued = ongoing[x].accrued) => Ungulped' = Ungulped
<1> SUFFICES ASSUME \A x \in Pools : ongoing'[x].accrued = ongoing[x].accrued
             PROVE  Ungulped' = Ungulped
  OBVIOUS
<1>1. [p \in Pools |-> ongoing'[p].accrued] = [p \in Pools |-> ongoing[p].accrued]
  OBVIOUS
<1> QED BY <1>1 DEF Ungulped
------------------------------------------------------------------------------
(* Calls that concern one side only *)

\* What the backstop keeps is untouched by a call of the pool.
LEMMA BackstopFrame ==
  ASSUME BackstopInv, now' = now,
         UNCHANGED <<zone, ledger, ongoing, lastGulp, balance, stream, position, history>>,
         allowance' \in [Pools -> [amount : Nat, until : Nat \cup {Never}]]
  PROVE  BackstopInv'
<1>1. StreamsTypeOK /\ TiersInOrder /\ ClaimsAreFunded /\ EveryTokenIsAccounted /\ WeightsAreCurrent
  BY DEF BackstopInv, EveryTokenIsAccounted
<1>2. StreamsTypeOK'
  BY <1>1, now' = now DEF StreamsTypeOK
<1>3. EveryTokenIsAccounted'
  BY <1>1, <1>2, AccountingFrame
<1>4. ClaimsAreFunded'
  BY <1>1, ClaimsFrame
<1>5. TiersInOrder'
  BY <1>1, TiersFrame
<1>6. WeightsAreCurrent'
  BY <1>1 DEF WeightsAreCurrent, ActiveAssets, ActiveShares, ConvertToTokens, Portion
<1> QED BY <1>3, <1>4, <1>5, <1>6 DEF BackstopInv

\* What the pool keeps is untouched by a call of the backstop.
LEMMA ReserveFrame ==
  ASSUME ReserveInv, now' = now, UNCHANGED reserveVars, moves' \in Nat
  PROVE  ReserveInv'
<1>1. UNCHANGED <<targets, enabled, carry, emission, holder, payments>>
  BY DEF reserveVars
<1>2. EmissionsTypeOK'
  BY <1>1 DEF ReserveInv, ReserveStreamsPayTheirTranche, EmissionsTypeOK
<1>3. ReserveStreamsPayTheirTranche'
  BY <1>1, <1>2 DEF ReserveInv, ReserveStreamsPayTheirTranche, Due
<1>4. TokensInOrder'
  BY <1>1, now' = now DEF ReserveInv, TokensInOrder, TokenOK
<1> QED BY <1>3, <1>4 DEF ReserveInv

\* What was set aside for pools grows by what they have yet to gulp.
LEMMA GrantsFrame ==
  ASSUME GrantsCoverTheStreams, StreamsTypeOK, EmissionsTypeOK, StreamsTypeOK',
         UNCHANGED <<carry, payments, allowance>>,
         Ungulped \in Int, Ungulped' = Ungulped + (ledger'.toPools - ledger.toPools)
  PROVE  GrantsCoverTheStreams'
<1>1. Owed' = Owed /\ Sum(payments.paid, ResTokens)' = Sum(payments.paid, ResTokens)
      /\ allowance'[Pool] = allowance[Pool] /\ payments'.lapsed = payments.lapsed
  BY DEF Owed
<1>2. ledger.toPools \in Int /\ ledger'.toPools \in Int
  BY DEF StreamsTypeOK
<1>3. /\ payments.lapsed \/ allowance[Pool].amount = Owed
      /\ Owed + Sum(payments.paid, ResTokens) + Ungulped = ledger.toPools
  BY DEF GrantsCoverTheStreams
<1>4. Owed \in Int /\ Sum(payments.paid, ResTokens) \in Int
  BY OwedInt
<1>5. Owed + Sum(payments.paid, ResTokens) + Ungulped' = ledger'.toPools
  BY <1>2, <1>3, <1>4
<1>6. (Owed + Sum(payments.paid, ResTokens) + Ungulped)' = ledger'.toPools
  BY <1>1, <1>5
<1>7. (payments.lapsed \/ allowance[Pool].amount = Owed)'
  BY <1>1, <1>3
<1> QED BY <1>6, <1>7 DEF GrantsCoverTheStreams

------------------------------------------------------------------------------
(* Holders *)

\* A position mutation settles the holder and pays nothing.
LEMMA HoldKeeps ==
  ASSUME ReserveInv, now \in Nat, NEW k \in ResTokens, NEW u \in Users, NEW amount \in Int,
         Hold(k, u, amount)
  PROVE  ReserveInv'
<1> DEFINE c == Settled(k, u)
           h2 == [c EXCEPT !.balance = @ + amount]
           hs2 == [holder[k] EXCEPT ![u] = h2]
           d == Current(k)
<1>1. EmissionsTypeOK /\ TokensInOrder
  BY DEF ReserveInv, ReserveStreamsPayTheirTranche
<1>2. /\ moves' = moves + 1 /\ now' = now
      /\ holder[k][u].balance + amount >= 0
      /\ emission' = [emission EXCEPT ![k] = d]
      /\ holder' = [holder EXCEPT ![k] = hs2]
      /\ UNCHANGED <<targets, enabled, carry, payments>>
  <2>1. holder' = [holder EXCEPT ![k][u] = h2]
    BY DEF Hold
  <2>2. holder' = [holder EXCEPT ![k] = hs2]
    BY <2>1
  <2> HIDE DEF h2, hs2, d
  <2> QED BY <2>2 DEF Hold, Act, d
<1>3. /\ d \in Emissions /\ TokenOK(holder[k], d)
      /\ TokenHolding(holder[k], d) = TokenHolding(holder[k], emission[k])
      /\ TokenHolding(holder[k], emission[k]) \in Int
  BY <1>1, TokenCheckpoint
<1>4. /\ c = IF d = NoEmission THEN holder[k][u] ELSE SettledAt(holder[k][u], d)
      /\ c \in Holders /\ c.balance = holder[k][u].balance
  BY <1>1, HolderCheckpoint
<1>5. holder[k] \in [Users -> Holders]
  BY <1>1, TokenTypes
<1> HIDE DEF c, d
<1>6. /\ h2 \in Holders /\ h2.index = c.index /\ h2.carry = c.carry /\ h2.accrued = c.accrued
  <2>1. c.balance + amount \in Nat
    <3>1. c.balance \in Nat
      BY <1>4 DEF Holders
    <3> QED BY <1>2, <1>4, <3>1
  <2> QED BY <1>4, <2>1 DEF Holders
<1> HIDE DEF h2
<1>7. TokenSettled(holder[k], d, u, h2, 0)
  <2>1. c.accrued \in Int
    BY <1>4 DEF Holders
  <2> QED BY <1>4, <1>6, <2>1 DEF TokenSettled
<1>8. /\ TokenOK(hs2, d)
      /\ TokenHolding(hs2, d) = TokenHolding(holder[k], d) - 0 * IndexScale
  BY <1>3, <1>5, <1>6, <1>7, 0 \in Nat, TokenPaid
<1>9. hs2 \in [Users -> Holders]
  BY <1>5, <1>6
<1> HIDE DEF hs2
<1>10. \A x \in ResTokens :
         /\ emission'[x] = IF x = k THEN d ELSE emission[x]
         /\ holder'[x] = IF x = k THEN hs2 ELSE holder[x]
  BY <1>1, <1>2 DEF EmissionsTypeOK
<1>11. EmissionsTypeOK'
  <2>1. emission' \in [ResTokens -> Emissions] /\ holder' \in [ResTokens -> [Users -> Holders]]
    BY <1>1, <1>2, <1>3, <1>9 DEF EmissionsTypeOK, Emissions, Holders
  <2> QED BY <1>1, <1>2, <2>1 DEF EmissionsTypeOK, Emissions, Holders
<1>12. TokensInOrder'
  <2>1. ASSUME NEW x \in ResTokens PROVE TokenOK(holder'[x], emission'[x])
    BY <1>1, <1>8, <1>10 DEF TokensInOrder
  <2>2. ASSUME NEW x \in ResTokens PROVE TokenOK(holder[x], emission[x])'
    BY <1>2, <2>1 DEF TokenOK
  <2> QED BY <2>2 DEF TokensInOrder
<1>13. \A x \in ResTokens :
         TokenHolding(holder'[x], emission'[x])
           = TokenHolding(holder[x], emission[x])
             + (payments'.gulped[x] - payments.gulped[x]) * IndexScale
             - (payments'.paid[x] - payments.paid[x]) * IndexScale
  <2> TAKE x \in ResTokens
  <2>1. /\ payments'.gulped[x] - payments.gulped[x] = 0 /\ payments'.paid[x] - payments.paid[x] = 0
        /\ 0 * IndexScale = 0
    BY <1>1, <1>2, TokenTypes, ReserveEmissionsAssumption
  <2>2. TokenHolding(holder[x], emission[x]) \in Int
    BY <1>1, TokenTypes, HoldingOfToken
  <2>3. TokenHolding(holder'[x], emission'[x]) = TokenHolding(holder[x], emission[x])
    <3>1. CASE x = k
      BY <1>3, <1>8, <1>10, <2>1, <3>1
    <3>2. CASE x # k
      BY <1>10, <3>2
    <3> QED BY <3>1, <3>2
  <2> QED BY <2>1, <2>2, <2>3
<1> QED BY <1>11, <1>12, <1>13, ReserveStep

\* A claim pays what its holders have accrued, out of the allowance.
LEMMA ClaimReservesKeeps ==
  ASSUME IInv, NEW u \in Users, NEW ks \in SUBSET ResTokens, ClaimReserves(u, ks)
  PROVE  IInv'
<1> DEFINE due == [k \in ks |-> IF emission[k] = NoEmission THEN 0 ELSE Settled(k, u).accrued]
           amount == Sum(due, ks)
           h2(k) == [Settled(k, u) EXCEPT !.accrued = 0]
           hs2(k) == [holder[k] EXCEPT ![u] = h2(k)]
           d(k) == Current(k)
<1>1. /\ EmissionsTypeOK /\ TokensInOrder /\ StreamsTypeOK /\ now \in Nat
      /\ BackstopInv /\ ReserveInv /\ GrantsCoverTheStreams
  BY DEF IInv, BackstopInv, EveryTokenIsAccounted, StreamsTypeOK,
         ReserveInv, ReserveStreamsPayTheirTranche
<1>2. /\ moves' = moves + 1 /\ now' = now
      /\ amount <= Allowed(Pool)
      /\ emission' = [k \in ResTokens |-> IF k \in ks THEN d(k) ELSE emission[k]]
      /\ holder' = [k \in ResTokens |-> IF k \in ks THEN hs2(k) ELSE holder[k]]
      /\ allowance' = IF amount = 0 THEN allowance
                      ELSE [allowance EXCEPT ![Pool].amount = @ - amount]
      /\ payments' = [payments EXCEPT
           !.paid = [k \in ResTokens |-> IF k \in ks THEN @[k] + due[k] ELSE @[k]]]
      /\ UNCHANGED <<zone, ledger, ongoing, lastGulp, balance, stream, position, history>>
      /\ UNCHANGED <<targets, enabled, carry>>
  BY DEF ClaimReserves, Act
<1>3. ASSUME NEW k \in ks
      PROVE  /\ due[k] \in Nat /\ d(k) \in Emissions /\ hs2(k) \in [Users -> Holders]
             /\ TokenOK(hs2(k), d(k))
             /\ TokenHolding(hs2(k), d(k))
                  = TokenHolding(holder[k], emission[k]) - due[k] * IndexScale
  <2> DEFINE c == Settled(k, u)
             pay == due[k]
             e == d(k)
             h == h2(k)
  <2>1. k \in ResTokens
    OBVIOUS
  <2>2. /\ e \in Emissions /\ TokenOK(holder[k], e)
        /\ TokenHolding(holder[k], e) = TokenHolding(holder[k], emission[k])
        /\ e = NoEmission <=> emission[k] = NoEmission
    BY <1>1, <2>1, TokenCheckpoint
  <2>3. /\ c = IF e = NoEmission THEN holder[k][u] ELSE SettledAt(holder[k][u], e)
        /\ c \in Holders /\ c.accrued \in Nat
    BY <1>1, <2>1, HolderCheckpoint DEF Holders
  <2>4. holder[k] \in [Users -> Holders]
    BY <1>1, <2>1, TokenTypes
  <2>5. pay = IF e = NoEmission THEN 0 ELSE c.accrued
    BY <2>2
  <2>6. pay = c.accrued
    <3>1. CASE e = NoEmission
      <4>1. e.expiration = Never
        BY <3>1 DEF NoEmission
      <4>2. holder[k][u].accrued = 0
        BY <2>2, <4>1 DEF TokenOK
      <4> HIDE DEF c, pay, e
      <4> QED BY <2>3, <2>5, <3>1, <4>2
    <3>2. CASE e # NoEmission
      BY <2>5, <3>2
    <3> QED BY <3>1, <3>2
  <2>7. h = [c EXCEPT !.accrued = 0]
    OBVIOUS
  <2> HIDE DEF c, pay, e, h
  <2>8. h \in Holders /\ h.index = c.index /\ h.carry = c.carry /\ h.accrued = c.accrued - pay
    <3>1. h \in Holders /\ h.index = c.index /\ h.carry = c.carry /\ h.accrued = 0
      BY <2>3, <2>7 DEF Holders
    <3> QED BY <2>3, <2>6, <3>1
  <2>9. TokenSettled(holder[k], e, u, h, pay)
    BY <2>3, <2>8 DEF TokenSettled
  <2>10. pay \in Nat
    BY <2>3, <2>6
  <2>11. /\ TokenOK([holder[k] EXCEPT ![u] = h], e)
         /\ TokenHolding([holder[k] EXCEPT ![u] = h], e)
              = TokenHolding(holder[k], e) - pay * IndexScale
    BY ONLY <2>2, <2>4, <2>8, <2>9, <2>10, TokenPaid, u \in Users
  <2>12. [holder[k] EXCEPT ![u] = h] \in [Users -> Holders]
    BY <2>4, <2>8
  <2>13. hs2(k) = [holder[k] EXCEPT ![u] = h]
    BY DEF h
  <2> HIDE DEF hs2
  <2> QED BY <2>2, <2>10, <2>11, <2>12, <2>13 DEF pay, e
<1> HIDE DEF due, hs2, d, h2
<1>4. amount \in Nat /\ IsFiniteSet(ks) /\ IsFiniteSet(ResTokens)
  <2>1. IsFiniteSet(ks) /\ IsFiniteSet(ResTokens)
    BY ReserveEmissionsAssumption, FS_Subset
  <2>2. SumOn(due, ks) \in Nat
    BY <1>3, <2>1, SumNat
  <2> QED BY <2>1, <2>2, SumIsSumOn
<1> HIDE DEF amount
<1>5. amount <= allowance[Pool].amount /\ allowance[Pool].amount \in Nat
      /\ allowance \in [Pools -> [amount : Nat, until : Nat \cup {Never}]] /\ Pool \in Pools
  BY <1>1, <1>2, <1>4, ReserveEmissionsAssumption DEF Allowed, StreamsTypeOK
<1>6. /\ allowance' \in [Pools -> [amount : Nat, until : Nat \cup {Never}]]
      /\ allowance'[Pool].amount = allowance[Pool].amount - amount
  <2>1. CASE amount = 0
    BY <1>2, <1>5, <2>1
  <2>2. CASE amount # 0
    <3>1. allowance[Pool].amount - amount \in Nat
      BY <1>4, <1>5
    <3> QED BY <1>2, <1>5, <2>2, <3>1
  <2> QED BY <2>1, <2>2
<1>7. BackstopInv'
  BY <1>1, <1>2, <1>6, BackstopFrame
<1>8. /\ payments' \in [gulped : [ResTokens -> Nat], paid : [ResTokens -> Nat], lapsed : BOOLEAN]
      /\ payments'.gulped = payments.gulped /\ payments'.lapsed = payments.lapsed
      /\ \A k \in ResTokens : /\ payments.paid[k] \in Nat /\ payments.gulped[k] \in Nat
                              /\ payments'.paid[k] = IF k \in ks THEN payments.paid[k] + due[k]
                                                     ELSE payments.paid[k]
  <2> DEFINE paid == [k \in ResTokens |-> IF k \in ks THEN payments.paid[k] + due[k]
                                          ELSE payments.paid[k]]
  <2>1. payments \in [gulped : [ResTokens -> Nat], paid : [ResTokens -> Nat], lapsed : BOOLEAN]
    BY <1>1 DEF EmissionsTypeOK
  <2>2. payments' = [payments EXCEPT !.paid = paid]
    BY <1>2
  <2>3. \A k \in ResTokens : payments.paid[k] \in Nat /\ payments.gulped[k] \in Nat
    BY <2>1
  <2>4. paid \in [ResTokens -> Nat]
    <3>1. ASSUME NEW k \in ResTokens
          PROVE  (IF k \in ks THEN payments.paid[k] + due[k] ELSE payments.paid[k]) \in Nat
      BY <1>3, <2>3
    <3> QED BY <3>1
  <2>5. \A k \in ResTokens : paid[k] = IF k \in ks THEN payments.paid[k] + due[k]
                                       ELSE payments.paid[k]
    OBVIOUS
  <2> HIDE DEF paid
  <2> QED BY <2>1, <2>2, <2>3, <2>4, <2>5
<1>9. \A k \in ResTokens :
        /\ emission'[k] = IF k \in ks THEN d(k) ELSE emission[k]
        /\ holder'[k] = IF k \in ks THEN hs2(k) ELSE holder[k]
  BY <1>2
<1>10. EmissionsTypeOK'
  <2>1. emission' \in [ResTokens -> Emissions] /\ holder' \in [ResTokens -> [Users -> Holders]]
    <3>1. ASSUME NEW k \in ResTokens
          PROVE  emission'[k] \in Emissions /\ holder'[k] \in [Users -> Holders]
      BY <1>1, <1>3, <1>9, TokenTypes
    <3> QED BY <1>2, <3>1
  <2> QED BY <1>1, <1>2, <1>8, <2>1 DEF EmissionsTypeOK, Emissions, Holders
<1>11. TokensInOrder'
  <2>1. ASSUME NEW x \in ResTokens PROVE TokenOK(holder'[x], emission'[x])
    BY <1>1, <1>3, <1>9 DEF TokensInOrder
  <2>2. ASSUME NEW x \in ResTokens PROVE TokenOK(holder[x], emission[x])'
    BY <1>2, <2>1 DEF TokenOK
  <2> QED BY <2>2 DEF TokensInOrder
<1>12. ReserveInv'
  <2>1. \A x \in ResTokens :
          TokenHolding(holder'[x], emission'[x])
            = TokenHolding(holder[x], emission[x])
              + (payments'.gulped[x] - payments.gulped[x]) * IndexScale
              - (payments'.paid[x] - payments.paid[x]) * IndexScale
    <3> TAKE x \in ResTokens
    <3>1. /\ payments'.gulped[x] - payments.gulped[x] = 0 /\ 0 * IndexScale = 0
          /\ IndexScale \in Int
      BY <1>8, ReserveEmissionsAssumption
    <3>2. TokenHolding(holder[x], emission[x]) \in Int
      BY <1>1, TokenTypes, HoldingOfToken
    <3>3. CASE x \in ks
      <4>1. payments'.paid[x] - payments.paid[x] = due[x] /\ due[x] \in Nat
        BY <1>3, <1>8, <3>3
      <4>2. due[x] * IndexScale \in Int
        BY <3>1, <4>1
      <4> QED BY <1>3, <1>9, <3>1, <3>2, <3>3, <4>1, <4>2
    <3>4. CASE x \notin ks
      <4>1. payments'.paid[x] - payments.paid[x] = 0
        BY <1>8, <3>4
      <4> QED BY <1>9, <3>1, <3>2, <3>4, <4>1
    <3> QED BY <3>3, <3>4
  <2> QED BY <1>1, <1>10, <1>11, <2>1, ReserveStep
<1>13. GrantsCoverTheStreams'
  <2> DEFINE f == [k \in ResTokens |-> payments'.gulped[k] - payments'.paid[k]]
             g == [k \in ResTokens |-> payments.gulped[k] - payments.paid[k]]
             q == payments.paid
             q2 == payments'.paid
  <2>1. /\ \A k \in ResTokens : /\ f[k] \in Int /\ g[k] \in Int
                                /\ g[k] = IF k \in ks THEN f[k] + due[k] ELSE f[k]
        /\ \A k \in ks : due[k] \in Int
    BY <1>3, <1>8
  <2>2. /\ \A k \in ResTokens : /\ q[k] \in Int /\ q2[k] \in Int
                                /\ q2[k] = IF k \in ks THEN q[k] + due[k] ELSE q[k]
    BY <1>3, <1>8
  <2>3. Owed = Sum(g, ResTokens) + carry /\ Owed' = Sum(f, ResTokens) + carry
    BY <1>2 DEF Owed
  <2> HIDE DEF f, g, q, q2
  <2>4. Sum(g, ResTokens) = Sum(f, ResTokens) + Sum(due, ks)
    BY ONLY <1>4, <2>1, ks \in SUBSET ResTokens, PartIncrease
  <2>5. Sum(q2, ResTokens) = Sum(q, ResTokens) + Sum(due, ks)
    BY ONLY <1>4, <2>1, <2>2, ks \in SUBSET ResTokens, PartIncrease
  <2>6. SumOn(f, ResTokens) \in Int /\ carry \in Int
    BY <1>1, <1>4, <2>1, SumInt DEF EmissionsTypeOK
  <2>7. Sum(f, ResTokens) \in Int /\ Sum(q, ResTokens) \in Int /\ Ungulped \in Int
    BY <1>1, <2>6, SumIsSumOn, OwedInt, UngulpedInt DEF q
  <2>8. /\ payments.lapsed \/ allowance[Pool].amount = Owed
        /\ Owed + Sum(q, ResTokens) + Ungulped = ledger.toPools
    BY <1>1 DEF GrantsCoverTheStreams, q
  <2>9. Ungulped' = Ungulped
    BY <1>2, UngulpedFrame
  <2>10. /\ payments'.lapsed \/ allowance'[Pool].amount = Owed'
         /\ Owed' + Sum(q2, ResTokens) + Ungulped' = ledger'.toPools
    <3>1. amount = Sum(due, ks)
      BY DEF amount
    <3>2. Owed' = Owed - amount /\ Owed \in Int
      BY <1>4, <2>3, <2>4, <2>6, <2>7, <3>1
    <3>3. Sum(q2, ResTokens) = Sum(q, ResTokens) + amount
      BY <2>5, <3>1
    <3>4. ledger'.toPools = ledger.toPools
      BY <1>2
    <3>5. payments'.lapsed \/ allowance'[Pool].amount = Owed'
      BY <1>6, <1>8, <2>8, <3>2
    <3>6. Owed' + Sum(q2, ResTokens) = Owed + Sum(q, ResTokens)
      <4> DEFINE a == Owed
                 b == Owed'
                 r == Sum(q, ResTokens)
                 r2 == Sum(q2, ResTokens)
      <4>1. b = a - amount /\ r2 = r + amount /\ a \in Int /\ r \in Int /\ amount \in Int
        BY <1>4, <2>7, <3>2, <3>3
      <4> HIDE DEF a, b, r, r2
      <4>2. b + r2 = a + r
        BY ONLY <4>1
      <4> QED BY <4>2 DEF a, b, r, r2
    <3> QED BY <2>8, <2>9, <3>4, <3>5, <3>6
  <2> QED BY <2>10 DEF GrantsCoverTheStreams, q2
<1> QED BY <1>7, <1>12, <1>13 DEF IInv

------------------------------------------------------------------------------
(* The gulp of the pool *)

\* What the targets of the gulp are given is no more than there is.
LEMMA GulpShares ==
  ASSUME EmissionsTypeOK, Earning # {}, NEW amount \in Nat, NEW share,
         share = [k \in ResTokens |->
                    IF k \in Earning THEN Portion(amount, targets[k], Sum(targets, Earning)) ELSE 0]
  PROVE  /\ \A k \in ResTokens : share[k] \in Nat
         /\ amount - Sum(share, Earning) \in Nat /\ Sum(share, Earning) \in Nat
<1> DEFINE total == SumOn(targets, Earning)
<1>1. IsFiniteSet(Earning) /\ Earning \subseteq ResTokens
  BY ReserveEmissionsAssumption, FS_Subset DEF Earning
<1>2. \A k \in Earning : targets[k] \in Nat /\ targets[k] > 0
  BY ReserveEmissionsAssumption DEF EmissionsTypeOK, Earning
<1>3. total \in Nat \ {0}
  <2>1. PICK k \in Earning : TRUE
    OBVIOUS
  <2>2. total \in Nat
    BY <1>1, <1>2, SumNat
  <2>3. targets[k] <= total
    BY <1>1, <1>2, SumAtLeast
  <2> HIDE DEF total
  <2> QED BY <1>2, <2>2, <2>3
<1>4. \A k \in Earning : share[k] = (amount * targets[k]) \div total
  BY <1>1, SumIsSumOn DEF Portion
<1>5. \A k \in ResTokens : k \notin Earning => share[k] = 0
  OBVIOUS
<1> HIDE DEF total
<1>6. \A k \in Earning : share[k] \in Nat
  <2> TAKE k \in Earning
  <2>1. amount * targets[k] \in Nat
    BY <1>2, ProductNat
  <2> QED BY <1>3, <1>4, <2>1, DivisionBounds
<1>7. amount - Sum(share, Earning) \in Nat /\ Sum(share, Earning) \in Nat
  <2>1. SumOn(share, Earning) \in Nat
    BY <1>1, <1>6, SumNat
  <2>2. SumOn(share, Earning) <= amount
    BY ONLY <1>1, <1>2, <1>3, <1>4, amount \in Nat, PartsWithinAmount DEF total
  <2> QED BY <2>1, <2>2, SumIsSumOn
<1> QED BY <1>5, <1>6, <1>7

\* The gulp moves its tranche from what waits in the backstop to the streams.
LEMMA GulpKeeps ==
  ASSUME IInv, Gulp
  PROVE  IInv'
<1> DEFINE tranche == ongoing[Pool].accrued
           distribution == tranche + carry
           share == [k \in ResTokens |->
                       IF k \in Earning
                       THEN Portion(distribution, targets[k], Sum(targets, Earning))
                       ELSE 0]
           e(k) == Refilled(Current(k), share[k])
<1>1. /\ EmissionsTypeOK /\ TokensInOrder /\ StreamsTypeOK /\ now \in Nat
      /\ BackstopInv /\ ReserveInv /\ GrantsCoverTheStreams
  BY DEF IInv, BackstopInv, EveryTokenIsAccounted, StreamsTypeOK,
         ReserveInv, ReserveStreamsPayTheirTranche
<1>2. /\ Earning # {} /\ tranche >= Scale /\ GulpTiers(Pool)
      /\ emission' = [k \in ResTokens |-> IF k \in Earning THEN e(k) ELSE emission[k]]
      /\ carry' = distribution - Sum(share, Earning)
      /\ payments' = [payments EXCEPT
           !.gulped = [k \in ResTokens |-> @[k] + share[k]],
           !.lapsed = @ \/ allowance[Pool].amount > Allowed(Pool)]
      /\ UNCHANGED <<now, targets, enabled, holder, moves>>
  BY DEF Gulp
<1>3. /\ BackstopInv' /\ Ungulped' = Ungulped - tranche /\ tranche \in Nat /\ Ungulped \in Int
  BY <1>1, <1>2, GulpTiersKeeps, ReserveEmissionsAssumption
<1>4. /\ tranche > 0 /\ Pool \in Pools /\ carry \in Nat /\ distribution \in Nat
      /\ distribution = tranche + carry
  BY <1>1, <1>2, <1>3, StreamsAssumption, ReserveEmissionsAssumption DEF EmissionsTypeOK
<1>5. ledger' = ledger /\ allowance' = [allowance EXCEPT ![Pool] = Granted(Pool, tranche)]
  BY <1>2, <1>4 DEF GulpTiers
<1> HIDE DEF tranche, distribution
<1>6. /\ \A k \in ResTokens : share[k] \in Nat /\ (k \notin Earning => share[k] = 0)
      /\ distribution - Sum(share, Earning) \in Nat /\ Sum(share, Earning) \in Nat
  <2>1. \A k \in ResTokens : k \notin Earning => share[k] = 0
    OBVIOUS
  <2>2. share = [k \in ResTokens |->
                  IF k \in Earning THEN Portion(distribution, targets[k], Sum(targets, Earning))
                  ELSE 0]
    OBVIOUS
  <2> HIDE DEF share
  <2> QED BY <1>1, <1>2, <1>4, <2>1, <2>2, GulpShares
<1> HIDE DEF share, e
<1>7. ASSUME NEW k \in Earning
      PROVE  /\ e(k) \in Emissions /\ TokenOK(holder[k], e(k))
             /\ TokenHolding(holder[k], e(k))
                  = TokenHolding(holder[k], emission[k]) + share[k] * IndexScale
  <2> DEFINE d == Current(k)
             r == Refilled(d, share[k])
  <2>1. k \in ResTokens
    BY DEF Earning
  <2>2. /\ d \in Emissions /\ TokenOK(holder[k], d)
        /\ TokenHolding(holder[k], d) = TokenHolding(holder[k], emission[k])
        /\ TokenHolding(holder[k], emission[k]) \in Int
    BY <1>1, <2>1, TokenCheckpoint
  <2>3. holder[k] \in [Users -> Holders]
    BY <1>1, <2>1, TokenTypes
  <2>4. share[k] \in Nat
    BY <1>6, <2>1
  <2>5. e(k) = r
    BY DEF e
  <2> HIDE DEF d
  <2>6. TokenHolding(holder[k], d) \in Int
    BY <2>2
  <2>7. /\ r \in Emissions /\ TokenOK(holder[k], r)
        /\ TokenHolding(holder[k], r) = TokenHolding(holder[k], d) + share[k] * IndexScale
    BY ONLY <1>1, <2>2, <2>3, <2>4, <2>6, TokenRefilled
  <2> HIDE DEF r
  <2> QED BY <2>2, <2>5, <2>7
<1>8. /\ payments' \in [gulped : [ResTokens -> Nat], paid : [ResTokens -> Nat], lapsed : BOOLEAN]
      /\ payments'.paid = payments.paid
      /\ payments'.lapsed = (payments.lapsed \/ allowance[Pool].amount > Allowed(Pool))
      /\ \A k \in ResTokens : /\ payments.paid[k] \in Nat /\ payments.gulped[k] \in Nat
                              /\ payments'.gulped[k] = payments.gulped[k] + share[k]
  <2> DEFINE gulped == [k \in ResTokens |-> payments.gulped[k] + share[k]]
             lapsed == payments.lapsed \/ allowance[Pool].amount > Allowed(Pool)
  <2>1. payments \in [gulped : [ResTokens -> Nat], paid : [ResTokens -> Nat], lapsed : BOOLEAN]
    BY <1>1 DEF EmissionsTypeOK
  <2>2. payments' = [payments EXCEPT !.gulped = gulped, !.lapsed = lapsed]
    BY <1>2
  <2>3. \A k \in ResTokens : payments.paid[k] \in Nat /\ payments.gulped[k] \in Nat
    BY <2>1
  <2>4. gulped \in [ResTokens -> Nat]
    <3>1. ASSUME NEW k \in ResTokens PROVE payments.gulped[k] + share[k] \in Nat
      BY <1>6, <2>3
    <3> QED BY <3>1
  <2>5. \A k \in ResTokens : gulped[k] = payments.gulped[k] + share[k]
    OBVIOUS
  <2>6. lapsed \in BOOLEAN
    OBVIOUS
  <2>7. lapsed = (payments.lapsed \/ allowance[Pool].amount > Allowed(Pool))
    OBVIOUS
  <2> HIDE DEF gulped, lapsed
  <2>8. payments' \in [gulped : [ResTokens -> Nat], paid : [ResTokens -> Nat], lapsed : BOOLEAN]
    BY <2>1, <2>2, <2>4, <2>6
  <2>9. payments'.gulped = gulped /\ payments'.paid = payments.paid /\ payments'.lapsed = lapsed
    BY <2>1, <2>2
  <2> QED BY <2>3, <2>5, <2>7, <2>8, <2>9
<1>9. \A k \in ResTokens :
        /\ emission'[k] = IF k \in Earning THEN e(k) ELSE emission[k]
        /\ holder'[k] = holder[k]
  BY <1>2
<1>10. EmissionsTypeOK'
  <2>1. emission' \in [ResTokens -> Emissions]
    <3>1. ASSUME NEW k \in ResTokens PROVE emission'[k] \in Emissions
      BY <1>1, <1>7, <1>9, TokenTypes
    <3> QED BY <1>2, <3>1
  <2>2. carry' \in Nat
    BY <1>2, <1>6
  <2> QED BY <1>1, <1>2, <1>8, <2>1, <2>2 DEF EmissionsTypeOK, Emissions, Holders
<1>11. TokensInOrder'
  <2>1. ASSUME NEW x \in ResTokens PROVE TokenOK(holder'[x], emission'[x])
    BY <1>1, <1>7, <1>9 DEF TokensInOrder
  <2>2. ASSUME NEW x \in ResTokens PROVE TokenOK(holder[x], emission[x])'
    BY <1>2, <2>1 DEF TokenOK
  <2> QED BY <2>2 DEF TokensInOrder
<1>12. ReserveInv'
  <2>1. \A x \in ResTokens :
          TokenHolding(holder'[x], emission'[x])
            = TokenHolding(holder[x], emission[x])
              + (payments'.gulped[x] - payments.gulped[x]) * IndexScale
              - (payments'.paid[x] - payments.paid[x]) * IndexScale
    <3> TAKE x \in ResTokens
    <3>1. /\ payments'.paid[x] - payments.paid[x] = 0 /\ 0 * IndexScale = 0
          /\ IndexScale \in Int
          /\ payments'.gulped[x] - payments.gulped[x] = share[x] /\ share[x] \in Int
      BY <1>6, <1>8, ReserveEmissionsAssumption
    <3>2. TokenHolding(holder[x], emission[x]) \in Int /\ share[x] * IndexScale \in Int
      BY <1>1, <3>1, TokenTypes, HoldingOfToken
    <3>3. TokenHolding(holder'[x], emission'[x])
            = TokenHolding(holder[x], emission[x]) + share[x] * IndexScale
      <4>1. CASE x \in Earning
        BY <1>7, <1>9, <4>1
      <4>2. CASE x \notin Earning
        <5>1. share[x] = 0
          BY <1>6, <4>2
        <5> QED BY <1>9, <3>1, <3>2, <4>2, <5>1
      <4> QED BY <4>1, <4>2
    <3> QED BY <3>1, <3>2, <3>3
  <2> QED BY <1>1, <1>10, <1>11, <2>1, ReserveStep
<1>13. allowance'[Pool].amount = Allowed(Pool) + tranche
  <2>1. allowance'[Pool] = Granted(Pool, tranche)
    BY <1>1, <1>4, <1>5 DEF StreamsTypeOK
  <2> QED BY <2>1 DEF Granted
<1>14. ~payments'.lapsed => ~payments.lapsed /\ Allowed(Pool) = allowance[Pool].amount
  <2>1. allowance[Pool].amount \in Nat
    BY <1>1, <1>4 DEF StreamsTypeOK
  <2> QED BY <1>8, <2>1 DEF Allowed
<1>15. GrantsCoverTheStreams'
  <2> DEFINE f == [k \in ResTokens |-> payments.gulped[k] - payments.paid[k]]
             g == [k \in ResTokens |-> payments'.gulped[k] - payments'.paid[k]]
             q == Sum(payments.paid, ResTokens)
             s == Sum(share, Earning)
  <2>1. /\ \A k \in ResTokens : /\ f[k] \in Int /\ g[k] \in Int
                                /\ g[k] = IF k \in Earning THEN f[k] + share[k] ELSE f[k]
        /\ \A k \in Earning : share[k] \in Int
    BY <1>6, <1>8 DEF Earning
  <2>2. Owed = Sum(f, ResTokens) + carry /\ Owed' = Sum(g, ResTokens) + carry'
    BY DEF Owed
  <2> HIDE DEF f, g
  <2>3. IsFiniteSet(ResTokens) /\ Earning \in SUBSET ResTokens
    BY ReserveEmissionsAssumption DEF Earning
  <2>4. Sum(g, ResTokens) = Sum(f, ResTokens) + s
    BY ONLY <2>1, <2>3, PartIncrease
  <2>5. Sum(f, ResTokens) \in Int
    BY <2>1, <2>3, SumInt, SumIsSumOn
  <2>6. carry' = distribution - s /\ s \in Int
    BY <1>2, <1>6
  <2> HIDE DEF s
  <2>7. Owed' = Owed + tranche /\ Owed \in Int
    BY <1>3, <1>4, <2>2, <2>4, <2>5, <2>6
  <2>8. q \in Int /\ Sum(payments'.paid, ResTokens) = q
    BY <1>1, <1>8, OwedInt
  <2>9. /\ payments.lapsed \/ allowance[Pool].amount = Owed
        /\ Owed + q + Ungulped = ledger.toPools
    BY <1>1 DEF GrantsCoverTheStreams
  <2> HIDE DEF q
  <2>10. Owed' + q + Ungulped' = ledger'.toPools
    <3>1. Owed' + q + Ungulped' = Owed + q + Ungulped
      BY <1>3, <2>7, <2>8
    <3> QED BY <1>5, <2>9, <3>1
  <2>11. payments'.lapsed \/ allowance'[Pool].amount = Owed'
    BY <1>13, <1>14, <2>7, <2>9
  <2> QED BY <2>8, <2>10, <2>11 DEF GrantsCoverTheStreams
<1> QED BY <1>3, <1>12, <1>15 DEF IInv

------------------------------------------------------------------------------
(* The administrator and the clock *)

LEMMA AdministratorKeeps ==
  ASSUME IInv, targets' \in Targets, enabled' \subseteq {ReserveOf[k] : k \in ResTokens},
         moves' \in Nat, UNCHANGED <<now, backstopVars, carry, emission, holder, payments>>
  PROVE  IInv'
<1>1. /\ EmissionsTypeOK /\ TokensInOrder /\ StreamsTypeOK
      /\ BackstopInv /\ ReserveInv /\ GrantsCoverTheStreams
  BY DEF IInv, BackstopInv, EveryTokenIsAccounted, ReserveInv, ReserveStreamsPayTheirTranche
<1>2. UNCHANGED <<zone, ledger, ongoing, lastGulp, balance, stream, position, allowance, history>>
  BY DEF backstopVars
<1>3. BackstopInv'
  <2>1. allowance' \in [Pools -> [amount : Nat, until : Nat \cup {Never}]]
    BY <1>1, <1>2 DEF StreamsTypeOK
  <2> QED BY <1>1, <1>2, <2>1, BackstopFrame
<1>4. ReserveInv'
  <2>1. EmissionsTypeOK'
    BY <1>1 DEF EmissionsTypeOK
  <2>2. ReserveStreamsPayTheirTranche'
    BY <1>1, <2>1 DEF ReserveInv, ReserveStreamsPayTheirTranche, Due
  <2>3. TokensInOrder'
    BY <1>1 DEF TokensInOrder, TokenOK
  <2> QED BY <2>2, <2>3 DEF ReserveInv
<1>5. GrantsCoverTheStreams'
  BY <1>1, <1>2 DEF GrantsCoverTheStreams, Owed, Ungulped
<1> QED BY <1>3, <1>4, <1>5 DEF IInv

LEMMA TickKeeps ==
  ASSUME IInv, Tick
  PROVE  IInv'
<1>1. /\ EmissionsTypeOK /\ TokensInOrder /\ StreamsTypeOK /\ now \in Nat
      /\ BackstopInv /\ ReserveInv /\ GrantsCoverTheStreams
      /\ ClaimsAreFunded /\ EveryTokenIsAccounted /\ WeightsAreCurrent /\ TiersInOrder
  BY DEF IInv, BackstopInv, EveryTokenIsAccounted, StreamsTypeOK,
         ReserveInv, ReserveStreamsPayTheirTranche
<1>2. /\ UNCHANGED <<zone, ledger, ongoing, lastGulp, balance, stream, position, allowance,
                     history>>
      /\ UNCHANGED <<targets, enabled, carry, emission, holder, payments>>
      /\ moves' = moves /\ now' = now + 1
  BY DEF Tick, backstopVars, reserveVars
<1>3. StreamsTypeOK' /\ EmissionsTypeOK'
  BY <1>1, <1>2 DEF StreamsTypeOK, EmissionsTypeOK
<1>4. EveryTokenIsAccounted'
  BY <1>1, <1>2, <1>3, AccountingFrame
<1>5. ClaimsAreFunded'
  BY <1>1, <1>2, ClaimsFrame
<1>6. WeightsAreCurrent'
  BY <1>1, <1>2 DEF WeightsAreCurrent, ActiveAssets, ActiveShares, ConvertToTokens, Portion
<1>7. TiersInOrder'
  <2>1. ASSUME NEW p \in Pools, NEW t \in Tiers
        PROVE  TierOK(position[p][t], stream[p][t], balance[p][t])'
    <3>1. TierOK(position[p][t], stream[p][t], balance[p][t])
      BY <1>1 DEF TiersInOrder
    <3>2. StreamOK(stream[p][t])'
      <4>1. stream[p][t] \in StreamRecord /\ stream[p][t].last <= now
            /\ stream[p][t].last \in Nat
        BY <3>1 DEF TierOK, StreamOK, StreamRecord
      <4>2. stream[p][t].last <= now + 1
        BY <1>1, <4>1
      <4> QED BY <1>2, <3>1, <4>1, <4>2 DEF TierOK, StreamOK
    <3> QED BY <1>2, <3>1, <3>2 DEF TierOK, ActiveShares
  <2> QED BY <2>1 DEF TiersInOrder
<1>8. ReserveInv'
  <2>1. ReserveStreamsPayTheirTranche'
    BY <1>1, <1>2, <1>3 DEF ReserveInv, ReserveStreamsPayTheirTranche, Due
  <2>2. ASSUME NEW k \in ResTokens PROVE TokenOK(holder[k], emission[k])'
    <3>1. TokenOK(holder[k], emission[k]) /\ emission[k].last \in Nat
      BY <1>1 DEF TokensInOrder, EmissionsTypeOK
    <3>2. emission[k].last <= now + 1
      BY <1>1, <3>1 DEF TokenOK
    <3> QED BY <1>2, <3>1, <3>2 DEF TokenOK
  <2> QED BY <2>1, <2>2 DEF ReserveInv, TokensInOrder
<1>9. GrantsCoverTheStreams'
  BY <1>1, <1>2 DEF GrantsCoverTheStreams, Owed, Ungulped
<1> QED BY <1>4, <1>5, <1>6, <1>7, <1>8, <1>9 DEF IInv, BackstopInv

------------------------------------------------------------------------------
(* The start *)

LEMMA ZeroSum == \A S : IsFiniteSet(S) => Sum([x \in S |-> 0], S) = 0
<1> SUFFICES ASSUME NEW S, IsFiniteSet(S) PROVE Sum([x \in S |-> 0], S) = 0
  OBVIOUS
<1> DEFINE f == [x \in S |-> 0]
<1>1. \A x \in S : f[x] = 0
  OBVIOUS
<1> HIDE DEF f
<1>2. SumOn(f, S) = 0
  BY <1>1, SumZero
<1>3. Sum(f, S) = 0
  BY <1>2, SumIsSumOn
<1> QED BY <1>3 DEF f

\* Nobody is owed anything at the start.
LEMMA BackstopStart ==
  ASSUME StreamsInit
  PROVE  BackstopInv
<1> DEFINE shares(p, t) == Sum(Deposited[p][t], Users)
           account(p, t, u) == [shares |-> Deposited[p][t][u], q4w |-> 0, accrued |-> 0,
                                carry |-> 0, index |-> 0]
           b(p, t) == [shares |-> shares(p, t), q4w |-> 0, tokens |-> shares(p, t)]
           h == [gulped |-> 0, unearned |-> 0]
           none == [t \in Tiers |-> 0]
           o(p) == [active |-> [t \in Tiers |-> shares(p, t)], pending |-> none,
                    tierCarry |-> 0, accrued |-> 0]
<1>1. /\ IsFiniteSet(Pools) /\ IsFiniteSet(Tiers) /\ IsFiniteSet(Users)
      /\ Scale \in Nat \ {0} /\ StreamTicks \in Nat \ {0}
      /\ \A p \in Pools, t \in Tiers, u \in Users : Deposited[p][t][u] \in Nat
      /\ \A p \in Pools, t \in Tiers : Deposited[p][t] \in [Users -> Nat]
  BY StreamsAssumption
<1>2. /\ 0 \in 0..Scale*Scale-1 /\ 0 \in 0..StreamTicks-1
      /\ Scale * Scale \in Int /\ 0 * Scale = 0 /\ 0 * Scale * Scale = 0
  <2>1. Scale * Scale >= 1 /\ Scale * Scale \in Int
    BY <1>1
  <2> QED BY <1>1, <2>1
<1>3. ASSUME NEW p \in Pools, NEW t \in Tiers PROVE shares(p, t) \in Nat
  <2>1. SumOn(Deposited[p][t], Users) \in Nat
    BY <1>1, SumNat
  <2> QED BY <2>1, SumIsSumOn
<1>4. /\ now = 0 /\ zone = Rewarded
      /\ ledger = [total |-> 0, toBackstop |-> 0, toPools |-> 0, claimed |-> 0,
                   splitCarry |-> 0, backstopCarry |-> 0, poolCarry |-> 0, last |-> 0]
      /\ ongoing = [p \in Pools |-> o(p)]
      /\ lastGulp = [p \in Pools |-> Never]
      /\ balance = [p \in Pools |-> [t \in Tiers |-> b(p, t)]]
      /\ stream = [p \in Pools |-> [t \in Tiers |-> NoStream]]
      /\ position = [p \in Pools |-> [t \in Tiers |-> [u \in Users |-> account(p, t, u)]]]
      /\ allowance = [p \in Pools |-> [amount |-> 0, until |-> Never]]
      /\ history = [p \in Pools |-> [t \in Tiers |-> h]]
  BY DEF StreamsInit
<1> HIDE DEF shares
<1>5. StreamsTypeOK
  <2>1. NoStream \in StreamRecord
    BY <1>2 DEF NoStream, StreamRecord, Never
  <2>2. \A p \in Pools, t \in Tiers, u \in Users : account(p, t, u) \in Accounts
    BY <1>1, <1>2 DEF Accounts
  <2>3. \A p \in Pools, t \in Tiers : b(p, t) \in Balances
    BY <1>3 DEF Balances
  <2>4. \A p \in Pools : o(p) \in OngoingOf
    <3>1. ASSUME NEW p \in Pools PROVE [t \in Tiers |-> shares(p, t)] \in [Tiers -> Nat]
      BY <1>3
    <3>2. none \in [Tiers -> Nat]
      OBVIOUS
    <3> HIDE DEF none
    <3> QED BY <3>1, <3>2 DEF OngoingOf
  <2>5. h \in Histories
    BY DEF Histories
  <2>6. allowance \in [Pools -> [amount : Nat, until : Nat \cup {Never}]]
        /\ lastGulp \in [Pools -> Nat \cup {Never}]
    BY <1>4
  <2>7. ledger \in [total : Nat, toBackstop : Nat, toPools : Nat, claimed : Nat, splitCarry : Nat,
                    backstopCarry : Nat, poolCarry : Nat, last : Nat]
    BY <1>4
  <2>8. now \in Nat /\ zone \subseteq Pools
    BY <1>4, StreamsAssumption
  <2> HIDE DEF account, b, o, h
  <2>9. /\ ongoing \in [Pools -> OngoingOf]
        /\ stream \in [Pools -> [Tiers -> StreamRecord]]
        /\ balance \in [Pools -> [Tiers -> Balances]]
        /\ position \in [Pools -> [Tiers -> [Users -> Accounts]]]
        /\ history \in [Pools -> [Tiers -> Histories]]
    BY <1>4, <2>1, <2>2, <2>3, <2>4, <2>5
  <2> QED BY <2>6, <2>7, <2>8, <2>9 DEF StreamsTypeOK, OngoingOf, Balances, Accounts, Histories
<1>6. EveryTokenIsAccounted
  <2>1. ASSUME NEW p \in Pools PROVE GulpedFor(p) + Waiting(p) = 0
    <3>1. [t \in Tiers |-> history[p][t].gulped] = [t \in Tiers |-> 0]
      BY <1>4
    <3>2. ongoing[p].pending = [t \in Tiers |-> 0] /\ ongoing[p].tierCarry = 0
      BY <1>4
    <3>3. Sum([t \in Tiers |-> 0], Tiers) = 0
      BY <1>1, ZeroSum
    <3> QED BY <3>1, <3>2, <3>3 DEF GulpedFor, Waiting
  <2>2. [p \in Pools |-> GulpedFor(p) + Waiting(p)] = [p \in Pools |-> 0]
    BY <2>1
  <2>3. Sum([p \in Pools |-> 0], Pools) = 0
    BY <1>1, ZeroSum
  <2> QED BY <1>4, <1>5, <2>2, <2>3 DEF EveryTokenIsAccounted
<1>7. ClaimsAreFunded
  <2>1. ASSUME NEW p \in Pools, NEW t \in Tiers
        PROVE  Holding(p, t) = 0 /\ history[p][t].gulped = 0
    <3>1. /\ stream[p][t].index = 0 /\ stream[p][t].indexCarry = 0
          /\ Unreleased(stream[p][t]) = 0 /\ history[p][t].unearned = 0 /\ history[p][t].gulped = 0
      BY <1>4 DEF NoStream, Unreleased, Never
    <3>2. \A u \in Users : Earned(p, t, u) = 0
      <4> TAKE u \in Users
      <4>1. /\ position[p][t][u].accrued = 0 /\ position[p][t][u].carry = 0
            /\ position[p][t][u].index = 0 /\ position[p][t][u].shares \in Nat
        BY <1>1, <1>4
      <4>2. position[p][t][u].shares * (0 - 0) = 0
        BY <4>1
      <4> QED BY <1>2, <3>1, <4>1, <4>2 DEF Earned
    <3>3. [u \in Users |-> Earned(p, t, u)] = [u \in Users |-> 0]
      BY <3>2
    <3>4. Sum([u \in Users |-> 0], Users) = 0
      BY <1>1, ZeroSum
    <3> QED BY <1>2, <3>1, <3>3, <3>4 DEF Holding
  <2> DEFINE T == Pools \X Tiers
  <2>2. /\ [x \in T |-> Holding(x[1], x[2])] = [x \in T |-> 0]
        /\ [x \in T |-> history[x[1]][x[2]].gulped] = [x \in T |-> 0]
    BY <2>1
  <2>3. Sum([x \in T |-> 0], T) = 0
    BY <1>1, FS_Product, ZeroSum
  <2>4. ledger.claimed = 0
    BY <1>4
  <2> HIDE DEF T
  <2> QED BY <1>2, <2>2, <2>3, <2>4 DEF ClaimsAreFunded, T
<1>8. WeightsAreCurrent
  <2>1. ASSUME NEW p \in Pools, NEW t \in Tiers
        PROVE  ongoing[p].active[t] = ActiveAssets(balance[p][t])
    <3>1. /\ balance[p][t].shares = shares(p, t) /\ balance[p][t].q4w = 0
          /\ balance[p][t].tokens = shares(p, t) /\ ongoing[p].active[t] = shares(p, t)
      BY <1>4
    <3>2. ActiveShares(balance[p][t]) = shares(p, t)
      BY <1>3, <3>1 DEF ActiveShares
    <3> QED BY <3>1, <3>2 DEF ActiveAssets, ConvertToTokens
  <2> QED BY <1>4, <2>1, StreamsAssumption DEF WeightsAreCurrent
<1>9. TiersInOrder
  <2>1. ASSUME NEW p \in Pools, NEW t \in Tiers
        PROVE  TierOK(position[p][t], stream[p][t], balance[p][t])
    <3>1. /\ balance[p][t].shares = shares(p, t) /\ balance[p][t].q4w = 0
          /\ stream[p][t] = NoStream
          /\ \A u \in Users : /\ position[p][t][u].shares = Deposited[p][t][u]
                              /\ position[p][t][u].q4w = 0 /\ position[p][t][u].index = 0
      BY <1>4
    <3>2. ActiveShares(balance[p][t]) = shares(p, t)
      BY <1>3, <3>1 DEF ActiveShares
    <3>3. [u \in Users |-> position[p][t][u].shares] = Deposited[p][t]
      BY <1>1, <3>1
    <3>4. [u \in Users |-> position[p][t][u].q4w] = [u \in Users |-> 0]
      BY <3>1
    <3>5. Sum([u \in Users |-> 0], Users) = 0
      BY <1>1, ZeroSum
    <3>6. StreamOK(stream[p][t])
      BY <1>2, <1>4, <3>1 DEF StreamOK, NoStream, StreamRecord, Never
    <3>7. stream[p][t].index = 0
      BY <3>1 DEF NoStream
    <3> QED BY <3>1, <3>2, <3>3, <3>4, <3>5, <3>6, <3>7 DEF TierOK, shares
  <2> QED BY <2>1 DEF TiersInOrder
<1> QED BY <1>6, <1>7, <1>8, <1>9 DEF BackstopInv

LEMMA EmissionsStart == EmissionsInit => IInv
<1> SUFFICES ASSUME EmissionsInit PROVE IInv
  OBVIOUS
<1>1. StreamsInit /\ ReserveInit /\ moves = 0
  BY DEF EmissionsInit
<1>2. /\ IndexScale \in Nat \ {0} /\ IsFiniteSet(ResTokens) /\ IsFiniteSet(Users)
      /\ IsFiniteSet(Pools) /\ Pool \in Pools
      /\ \A k \in ResTokens, u \in Users : Held[k][u] \in Nat
  BY StreamsAssumption, ReserveEmissionsAssumption
<1>3. /\ carry = 0 /\ emission = [k \in ResTokens |-> NoEmission]
      /\ holder = [k \in ResTokens |-> [u \in Users |->
           [balance |-> Held[k][u], known |-> FALSE, index |-> 0, accrued |-> 0, carry |-> 0]]]
      /\ payments = [gulped |-> [k \in ResTokens |-> 0], paid |-> [k \in ResTokens |-> 0],
                     lapsed |-> FALSE]
      /\ targets \in Targets /\ enabled = {ReserveOf[k] : k \in ResTokens}
  BY <1>1 DEF ReserveInit
<1>4. BackstopInv
  BY <1>1, BackstopStart
<1>5. now = 0 /\ allowance[Pool].amount = 0 /\ ledger.toPools = 0
      /\ \A p \in Pools : ongoing[p].accrued = 0
  BY <1>1, <1>2 DEF StreamsInit
<1>6. EmissionsTypeOK
  <2>1. holder \in [ResTokens -> [Users -> Holders]]
    <3>1. \A k \in ResTokens, u \in Users :
            [balance |-> Held[k][u], known |-> FALSE, index |-> 0, accrued |-> 0, carry |-> 0]
              \in Holders
      BY <1>2 DEF Holders
    <3> QED BY <1>3, <3>1
  <2>2. emission \in [ResTokens -> Emissions]
    BY <1>3 DEF Emissions, NoEmission
  <2>3. payments \in [gulped : [ResTokens -> Nat], paid : [ResTokens -> Nat], lapsed : BOOLEAN]
    BY <1>3
  <2> QED BY <1>1, <1>3, <2>1, <2>2, <2>3 DEF EmissionsTypeOK, Holders, Emissions
<1>7. ASSUME NEW k \in ResTokens
      PROVE  /\ TokenOK(holder[k], emission[k]) /\ Tranche(k)
  <2>1. /\ emission[k] = NoEmission /\ payments.paid[k] = 0 /\ payments.gulped[k] = 0
        /\ \A u \in Users : /\ holder[k][u].balance \in Nat /\ holder[k][u].index = 0
                            /\ holder[k][u].accrued = 0 /\ holder[k][u].carry = 0
    BY <1>2, <1>3
  <2>2. emission[k].index = 0 /\ emission[k].indexCarry = 0 /\ emission[k].remaining = 0
        /\ emission[k].last = 0
    BY <2>1 DEF NoEmission
  <2>3. TokenOK(holder[k], emission[k])
    BY <1>5, <2>1, <2>2 DEF TokenOK
  <2>4. 0 * IndexScale = 0
    BY <1>2
  <2>5. \A u \in Users : DueOf(holder[k][u], emission[k].index) = 0
    <3> TAKE u \in Users
    <3>1. holder[k][u].balance * (0 - 0) = 0
      BY <2>1
    <3> QED BY <2>1, <2>2, <2>4, <3>1 DEF DueOf
  <2>6. [u \in Users |-> DueOf(holder[k][u], emission[k].index)] = [u \in Users |-> 0]
    BY <2>5
  <2>7. Sum([u \in Users |-> 0], Users) = 0
    BY <1>2, ZeroSum
  <2> QED BY <2>1, <2>2, <2>3, <2>4, <2>6, <2>7 DEF Tranche, TokenHolding
<1>8. ReserveInv
  BY <1>6, <1>7, TrancheIsPaid DEF ReserveInv, TokensInOrder
<1>9. GrantsCoverTheStreams
  <2>1. Sum([k \in ResTokens |-> 0], ResTokens) = 0 /\ Sum([p \in Pools |-> 0], Pools) = 0
    BY <1>2, ZeroSum
  <2>2. /\ payments.paid = [k \in ResTokens |-> 0]
        /\ [k \in ResTokens |-> payments.gulped[k] - payments.paid[k]] = [k \in ResTokens |-> 0]
    BY <1>3
  <2>3. [p \in Pools |-> ongoing[p].accrued] = [p \in Pools |-> 0]
    BY <1>5
  <2>4. Owed = 0
    BY <1>3, <2>1, <2>2 DEF Owed
  <2>5. Ungulped = 0 /\ Sum(payments.paid, ResTokens) = 0
    BY <2>1, <2>2, <2>3 DEF Ungulped
  <2> QED BY <1>5, <2>4, <2>5 DEF GrantsCoverTheStreams
<1> QED BY <1>4, <1>8, <1>9 DEF IInv

------------------------------------------------------------------------------
(* The invariant holds *)

\* A call of the backstop that leaves the pool alone.
LEMMA BackstopCall ==
  ASSUME IInv, now' = now, UNCHANGED reserveVars, moves' \in Nat, allowance' = allowance,
         BackstopInv', Ungulped' = Ungulped + (ledger'.toPools - ledger.toPools)
  PROVE  IInv'
<1>1. /\ EmissionsTypeOK /\ StreamsTypeOK /\ StreamsTypeOK'
      /\ ReserveInv /\ GrantsCoverTheStreams
  BY DEF IInv, BackstopInv, EveryTokenIsAccounted, ReserveInv, ReserveStreamsPayTheirTranche
<1>2. ReserveInv'
  BY <1>1, ReserveFrame
<1>3. UNCHANGED <<carry, payments, allowance>> /\ Ungulped \in Int
  BY <1>1, UngulpedInt DEF reserveVars
<1>4. GrantsCoverTheStreams'
  BY <1>1, <1>3, GrantsFrame
<1> QED BY <1>2, <1>4 DEF IInv

\* The same, of one that grants the pools nothing.
LEMMA QuietCall ==
  ASSUME IInv, now' = now, UNCHANGED reserveVars, moves' \in Nat, allowance' = allowance,
         BackstopInv', ledger'.toPools = ledger.toPools,
         \A x \in Pools : ongoing'[x].accrued = ongoing[x].accrued
  PROVE  IInv'
<1>1. StreamsTypeOK
  BY DEF IInv, BackstopInv, EveryTokenIsAccounted
<1>2. Ungulped' = Ungulped /\ Ungulped \in Int /\ ledger.toPools \in Int
  BY <1>1, UngulpedInt, UngulpedFrame DEF StreamsTypeOK
<1>3. Ungulped' = Ungulped + (ledger'.toPools - ledger.toPools)
  BY <1>2
<1> QED BY <1>3, BackstopCall

LEMMA Invariance == EmissionsSpec => []IInv
<1>1. IInv /\ [EmissionsNext]_emissionVars => IInv'
  <2> SUFFICES ASSUME IInv, [EmissionsNext]_emissionVars PROVE IInv'
    OBVIOUS
  <2>1. /\ BackstopInv /\ ReserveInv /\ StreamsTypeOK /\ now \in Nat /\ moves \in Nat
        /\ enabled \subseteq {ReserveOf[k] : k \in ResTokens} /\ targets \in Targets
        /\ \A p \in Pools, t \in Tiers : balance[p][t].tokens \in Nat
    BY DEF IInv, BackstopInv, EveryTokenIsAccounted, StreamsTypeOK,
           ReserveInv, ReserveStreamsPayTheirTranche, EmissionsTypeOK
  <2>2. Amounts \subseteq Nat /\ Movers \subseteq Users
    BY ReserveEmissionsAssumption
  <2>3. CASE Gulp
    BY <2>3, GulpKeeps
  <2>4. ASSUME NEW weights \in Targets, SetPoolEmissions(weights) PROVE IInv'
    BY <2>1, <2>4, AdministratorKeeps DEF SetPoolEmissions, Act
  <2>5. ASSUME NEW r \in {ReserveOf[k] : k \in ResTokens}, SetEnabled(r) PROVE IInv'
    <3>1. /\ enabled' \subseteq {ReserveOf[k] : k \in ResTokens} /\ targets' \in Targets
          /\ moves' \in Nat /\ UNCHANGED <<now, backstopVars, carry, emission, holder, payments>>
      BY <2>1, <2>5 DEF SetEnabled, Act
    <3> QED BY <3>1, AdministratorKeeps
  <2>6. ASSUME NEW u \in Users, NEW ks \in SUBSET ResTokens, ClaimReserves(u, ks) PROVE IInv'
    BY <2>6, ClaimReservesKeeps
  <2>7. ASSUME NEW k \in ResTokens, NEW u \in Movers, NEW amount \in Int, Hold(k, u, amount)
        PROVE  IInv'
    <3>1. ReserveInv'
      BY <2>1, <2>2, <2>7, HoldKeeps
    <3>2. UNCHANGED <<now, backstopVars, targets, enabled, carry, payments>>
      BY <2>7 DEF Hold
    <3>3. UNCHANGED <<zone, ledger, ongoing, lastGulp, balance, stream, position, allowance,
                      history>>
      BY <3>2 DEF backstopVars
    <3>4. BackstopInv'
      <4>1. allowance' \in [Pools -> [amount : Nat, until : Nat \cup {Never}]]
        BY <2>1, <3>3 DEF StreamsTypeOK
      <4> QED BY <2>1, <3>2, <3>3, <4>1, BackstopFrame
    <3>5. GrantsCoverTheStreams'
      BY <3>2, <3>3 DEF IInv, GrantsCoverTheStreams, Owed, Ungulped
    <3> QED BY <3>1, <3>4, <3>5 DEF IInv
  <2>8. ASSUME NEW c \in Compositions, Upkeep, Distribute(c) PROVE IInv'
    <3>1. now' = now /\ UNCHANGED reserveVars /\ moves' \in Nat /\ allowance' = allowance
      BY <2>1, <2>8 DEF Upkeep, Distribute
    <3>2. BackstopInv' /\ Ungulped' = Ungulped + (ledger'.toPools - ledger.toPools)
      BY <2>1, <2>8, <3>1, DistributeKeeps
    <3> QED BY <3>1, <3>2, BackstopCall
  <2>9. ASSUME NEW c \in Compositions, NEW p \in Pools, NEW removed \in Pools,
               Upkeep, AddReward(p, removed, c)
        PROVE  IInv'
    <3>1. /\ now' = now /\ UNCHANGED reserveVars /\ moves' \in Nat /\ allowance' = allowance
          /\ ledger' = ledger
      BY <2>1, <2>9 DEF Upkeep, AddReward
    <3>2. BackstopInv' /\ \A x \in Pools : ongoing'[x].accrued = ongoing[x].accrued
      BY <2>1, <2>9, <3>1, AddRewardKeeps
    <3> QED BY <3>1, <3>2, QuietCall
  <2>10. ASSUME NEW c \in Compositions, NEW p \in Pools, Upkeep, RemoveReward(p, c) PROVE IInv'
    <3>1. /\ now' = now /\ UNCHANGED reserveVars /\ moves' \in Nat /\ allowance' = allowance
          /\ ledger' = ledger
      BY <2>1, <2>10 DEF Upkeep, RemoveReward
    <3>2. BackstopInv' /\ ongoing' = ongoing
      BY <2>1, <2>10, <3>1, RemoveRewardKeeps
    <3> QED BY <3>1, <3>2, QuietCall
  <2>11. ASSUME NEW p \in Pools, NEW t \in Tiers, NEW amount \in Amounts, InBackstop,
                \/ Draw(p, t, amount)
                \/ Donate(p, t, amount)
                \/ \E u \in Movers : \/ Deposit(p, t, u, amount)
                                     \/ QueueWithdrawal(p, t, u, amount)
                                     \/ DequeueWithdrawal(p, t, u, amount)
                                     \/ Withdraw(p, t, u, amount)
         PROVE  IInv'
    <3>1. now' = now /\ UNCHANGED reserveVars /\ moves' \in Nat /\ amount \in Nat
      BY <2>1, <2>2, <2>11 DEF InBackstop, Act
    <3>2. /\ BackstopInv' /\ \A x \in Pools : ongoing'[x].accrued = ongoing[x].accrued
          /\ allowance' = allowance /\ ledger' = ledger
      <4>1. CASE Draw(p, t, amount)
        <5>1. balance[p][t].tokens - amount \in Nat
              /\ Revalue(p, t, balance[p][t].tokens - amount)
          BY <2>1, <3>1, <4>1 DEF Draw
        <5>2. allowance' = allowance /\ ledger' = ledger
          BY <5>1 DEF Revalue
        <5> QED BY <2>1, <3>1, <5>1, <5>2, RevalueKeeps
      <4>2. CASE Donate(p, t, amount)
        <5>1. balance[p][t].tokens + amount \in Nat
              /\ Revalue(p, t, balance[p][t].tokens + amount)
          BY <2>1, <3>1, <4>2 DEF Donate
        <5>2. allowance' = allowance /\ ledger' = ledger
          BY <5>1 DEF Revalue
        <5> QED BY <2>1, <3>1, <5>1, <5>2, RevalueKeeps
      <4>3. ASSUME NEW u \in Movers, Deposit(p, t, u, amount)
            PROVE  /\ BackstopInv' /\ \A x \in Pools : ongoing'[x].accrued = ongoing[x].accrued
                   /\ allowance' = allowance /\ ledger' = ledger
        <5>1. u \in Users /\ allowance' = allowance /\ ledger' = ledger
          BY <2>2, <4>3 DEF Deposit, Move
        <5> QED BY <2>1, <3>1, <4>3, <5>1, DepositKeeps
      <4>4. ASSUME NEW u \in Movers, QueueWithdrawal(p, t, u, amount)
            PROVE  /\ BackstopInv' /\ \A x \in Pools : ongoing'[x].accrued = ongoing[x].accrued
                   /\ allowance' = allowance /\ ledger' = ledger
        <5>1. u \in Users /\ allowance' = allowance /\ ledger' = ledger
          BY <2>2, <4>4 DEF QueueWithdrawal, Move
        <5> QED BY <2>1, <3>1, <4>4, <5>1, QueueKeeps
      <4>5. ASSUME NEW u \in Movers, DequeueWithdrawal(p, t, u, amount)
            PROVE  /\ BackstopInv' /\ \A x \in Pools : ongoing'[x].accrued = ongoing[x].accrued
                   /\ allowance' = allowance /\ ledger' = ledger
        <5>1. u \in Users /\ allowance' = allowance /\ ledger' = ledger
          BY <2>2, <4>5 DEF DequeueWithdrawal, Move
        <5> QED BY <2>1, <3>1, <4>5, <5>1, DequeueKeeps
      <4>6. ASSUME NEW u \in Movers, Withdraw(p, t, u, amount)
            PROVE  /\ BackstopInv' /\ \A x \in Pools : ongoing'[x].accrued = ongoing[x].accrued
                   /\ allowance' = allowance /\ ledger' = ledger
        <5>1. u \in Users /\ allowance' = allowance /\ ledger' = ledger
          BY <2>2, <4>6 DEF Withdraw, Move
        <5> QED BY <2>1, <3>1, <4>6, <5>1, WithdrawKeeps
      <4> QED BY <2>11, <4>1, <4>2, <4>3, <4>4, <4>5, <4>6
    <3> QED BY <3>1, <3>2, QuietCall
  <2>12. ASSUME NEW u \in Users, NEW t \in Tiers, NEW ps \in SUBSET Pools, NEW lp \in Amounts,
                InBackstop, ClaimTier(u, t, ps, lp)
         PROVE  IInv'
    <3>1. now' = now /\ UNCHANGED reserveVars /\ moves' \in Nat /\ lp \in Nat
      BY <2>1, <2>2, <2>12 DEF InBackstop, Act
    <3>2. allowance' = allowance /\ ledger'.toPools = ledger.toPools
      <4>1. ledger' = [ledger EXCEPT !.claimed = ledger'.claimed] /\ allowance' = allowance
        BY <2>1, <2>12 DEF ClaimTier, StreamsTypeOK
      <4> QED BY <2>1, <4>1 DEF StreamsTypeOK
    <3>3. BackstopInv' /\ \A x \in Pools : ongoing'[x].accrued = ongoing[x].accrued
      BY <2>1, <2>12, <3>1, ClaimTierKeeps
    <3> QED BY <3>1, <3>2, <3>3, QuietCall
  <2>13. CASE Tick
    BY <2>13, TickKeeps
  <2>14. CASE UNCHANGED emissionVars
    <3>1. /\ UNCHANGED <<now, backstopVars, carry, emission, holder, payments>>
          /\ targets' = targets /\ enabled' = enabled /\ moves' = moves
      BY <2>14 DEF emissionVars, reserveVars
    <3> QED BY <2>1, <3>1, AdministratorKeeps
  <2>15. ASSUME NEW k \in ResTokens, NEW u \in Movers, NEW amount \in Amounts,
                Hold(k, u, amount) \/ Hold(k, u, -amount)
         PROVE  IInv'
    <3>1. amount \in Int /\ -amount \in Int
      BY <2>2
    <3> QED BY <2>7, <2>15, <3>1
  <2> QED BY <2>3, <2>4, <2>5, <2>6, <2>8, <2>9, <2>10, <2>11, <2>12, <2>13, <2>14, <2>15
          DEF EmissionsNext
<1>2. EmissionsInit => IInv
  BY EmissionsStart
<1> QED BY <1>1, <1>2, PTL DEF EmissionsSpec

\* The splits among tranches, pools, and tiers lose nothing (distribute,
\* gulp_emissions): all BLNT minted is with a tranche or in a carry, and all a tranche
\* was given is gulped, pending or carried.
THEOREM TokensAreAccounted == EmissionsSpec => []EveryTokenIsAccounted
BY Invariance, PTL DEF IInv, BackstopInv

\* The streams of the tiers (advance_emission_data, update_user_emissions,
\* set_backstop_emission_eps) pay what was gulped for them, to the last fraction, so that
\* no claim exceeds what was allocated.
THEOREM TierClaimsAreFunded == EmissionsSpec => []ClaimsAreFunded
BY Invariance, PTL DEF IInv, BackstopInv

\* Whatever changes a balance or the zone refreshes the cached weights
\* (refresh_pool_ongoing_assets): those a distribution uses are those of the deposits.
THEOREM WeightsStayCurrent == EmissionsSpec => []WeightsAreCurrent
BY Invariance, PTL DEF IInv, BackstopInv

\* The stream of a reserve token (update_emission_data, update_user_emissions) pays its
\* holders exactly what was gulped for it.
THEOREM TranchesArePaid == EmissionsSpec => []ReserveStreamsPayTheirTranche
BY Invariance, PTL DEF IInv, ReserveInv

\* The allowance the backstop grants at a gulp covers what the pool owes or will owe,
\* until one lapses, and what the backstop set aside for pools covers both.
THEOREM GrantsCover == EmissionsSpec => []GrantsCoverTheStreams
BY Invariance, PTL DEF IInv
================================================================================
