------------------------- MODULE GeminiQuota_proofs -------------------------
(***************************************************************************)
(* Proofs about GeminiQuota, for any number of slots, any configurations   *)
(* and any backoffs.                                                       *)
(***************************************************************************)
EXTENDS GeminiQuota, FiniteSetTheorems, TLAPS

\* What a grant now would have to fit into: the parts in the bucket and the
\* grants since the i-th never exceed the quota of the time since then.
Covered(log, parts, time, from, b, r) ==
  \A i \in from..Len(log) :
    parts + (Len(log) - i + 1) * Unit <= b * Unit + r * (time - log[i])

Typed ==
  /\ now \in Nat /\ last \in Nat /\ last <= now
  /\ rate \in Rates /\ capacity \in Bursts
  /\ tokens \in Nat /\ tokens <= capacity * Unit
  /\ granted \in Seq(Nat)
  /\ since \in Nat /\ since >= 1

QuotaInv ==
  /\ Typed
  /\ GrantsWithinQuota /\ Covered(granted, tokens, last, since, capacity, rate)
  /\ GrantsWithinLargest /\ Covered(granted, tokens, last, 1, MaxBurst, MaxRate)

\* A difference of times times a rate can be split at any moment between them.
LEMMA SplitTime ==
  ASSUME NEW r \in Nat, NEW a \in Int, NEW b \in Int, NEW c \in Int
  PROVE  r * (c - a) = r * (b - a) + r * (c - b)
OBVIOUS

\* A larger rate or a longer time adds more.
LEMMA MoreTokens ==
  ASSUME NEW r \in Nat, NEW q \in Nat, r <= q, NEW d \in Nat
  PROVE  r * d <= q * d /\ r * d \in Nat
OBVIOUS

\* Arithmetic, apart from the logs it is used for.
LEMMA Products == \A a, b \in Int : a * b \in Int
OBVIOUS

LEMMA OneMore ==
  ASSUME NEW a \in Int, NEW u \in Int
  PROVE  (a + 1) * u = u + a * u
OBVIOUS

LEMMA LastFits ==
  \A p, u, y, r, d, c \in Int : d = 0 /\ c = 1 /\ p + u <= y => p + c * u <= y + r * d
<1> SUFFICES ASSUME NEW p \in Int, NEW u \in Int, NEW y \in Int, NEW r \in Int, p + u <= y
             PROVE  p + 1 * u <= y + r * 0
  OBVIOUS
<1>1. 1 * u = u /\ r * 0 = 0 OBVIOUS
<1> QED BY <1>1

LEMMA DropPart == \A p \in Nat : \A x, z \in Int : p + x <= z => x <= z
OBVIOUS

LEMMA Sums == \A a, b \in Int : a + b \in Int /\ a - b \in Int
OBVIOUS

LEMMA Chain ==
  ASSUME NEW p \in Int, NEW x \in Int, NEW y \in Int, NEW z \in Int, NEW w \in Int,
         NEW q \in Int, p + x <= y + z, q <= p + w
  PROVE  q + x <= y + (z + w)
OBVIOUS

\* What appending an event to a log does.
LEMMA Appended ==
  ASSUME NEW log \in Seq(Nat), NEW n \in Nat
  PROVE  LET new == Append(log, n) IN
         /\ new \in Seq(Nat) /\ Len(new) = Len(log) + 1 /\ Len(log) \in Nat
         /\ new[Len(log) + 1] = n
         /\ \A i \in 1..Len(log) : new[i] = log[i] /\ log[i] \in Nat
OBVIOUS

\* Where an event of the longer log stands, counted from its end.
LEMMA Places ==
  ASSUME NEW log \in Seq(Nat), NEW n \in Nat, NEW from \in Nat, from >= 1
  PROVE  LET new == Append(log, n)
             m == Len(log) IN
         \A i \in from..Len(new) :
           /\ n - new[i] \in Int /\ Len(new) - i + 1 \in Int
           /\ \/ i = m + 1 /\ n - new[i] = 0 /\ Len(new) - i + 1 = 1
              \/ /\ i \in from..m /\ new[i] = log[i] /\ log[i] \in Nat
                 /\ m - i + 1 \in Int /\ Len(new) - i + 1 = (m - i + 1) + 1
           /\ \A j \in from..m : i <= j => i \in from..m
<1> DEFINE new == Append(log, n)
           m == Len(log)
<1>0. /\ new \in Seq(Nat) /\ Len(new) = m + 1 /\ m \in Nat
      /\ new[m + 1] = n /\ \A i \in 1..m : new[i] = log[i] /\ log[i] \in Nat
  BY Appended
<1> HIDE DEF new, m
<1> SUFFICES ASSUME NEW i \in from..Len(new)
             PROVE  /\ n - new[i] \in Int /\ Len(new) - i + 1 \in Int
                    /\ \/ i = m + 1 /\ n - new[i] = 0 /\ Len(new) - i + 1 = 1
                       \/ /\ i \in from..m /\ new[i] = log[i] /\ log[i] \in Nat
                          /\ m - i + 1 \in Int /\ Len(new) - i + 1 = (m - i + 1) + 1
                    /\ \A j \in from..m : i <= j => i \in from..m
  BY DEF new, m
<1>1. i \in Nat /\ (i = m + 1 \/ (i \in from..m /\ i \in 1..m)) BY <1>0
<1>2. CASE i = m + 1 BY <1>0, <1>2
<1>3. CASE i \in from..m /\ i \in 1..m BY <1>0, <1>3
<1> QED BY <1>1, <1>2, <1>3

\* The bucket spends time without a grant. (acquire that returns False)
LEMMA RefillStep ==
  ASSUME NEW log \in Seq(Nat), NEW p \in Nat, NEW t \in Nat, NEW n \in Nat, t <= n,
         NEW from \in Nat, from >= 1, NEW b \in Nat, NEW r \in Nat,
         NEW p2 \in Nat, p2 <= p + r * (n - t),
         Covered(log, p, t, from, b, r)
  PROVE  Covered(log, p2, n, from, b, r)
<1> DEFINE w == r * (n - t)
<1>1. p2 <= p + w OBVIOUS
<1>2. n - t \in Int /\ r \in Int OBVIOUS
<1>3. w \in Int BY <1>2, Products, Zenon
<1> HIDE DEF w
<1> SUFFICES ASSUME NEW i \in from..Len(log)
             PROVE  p2 + (Len(log) - i + 1) * Unit <= b * Unit + r * (n - log[i])
  BY DEF Covered
<1> DEFINE e == log[i]
           c == Len(log) - i + 1
<1>4. e \in Nat /\ c \in Int
  <2>1. Len(log) \in Nat /\ i \in 1..Len(log) OBVIOUS
  <2> QED BY <2>1
<1>5. p + c * Unit <= b * Unit + r * (t - e) BY DEF Covered
<1> HIDE DEF e, c
<1> DEFINE x == c * Unit
           y == b * Unit
           z == r * (t - e)
<1>6. x \in Int /\ y \in Int /\ z \in Int
  <2>1. c \in Int /\ Unit \in Int /\ b \in Int /\ r \in Int /\ t - e \in Int
    BY <1>4, QuotaAssumption
  <2> QED BY <2>1, Products, Zenon
<1>7. r * (n - e) = z + w BY <1>4, SplitTime DEF w
<1>8. p + x <= y + z BY <1>5
<1> HIDE DEF x, y, z
<1>9. p2 + x <= y + (z + w) BY <1>1, <1>3, <1>6, <1>8, Chain
<1> QED BY <1>7, <1>9 DEF x, y, c, e

\* The bucket grants one permit. (acquire that returns True)
LEMMA GrantStep ==
  ASSUME NEW log \in Seq(Nat), NEW p \in Nat, NEW t \in Nat, NEW n \in Nat, t <= n,
         NEW from \in Nat, from >= 1, NEW b \in Nat, NEW r \in Nat,
         NEW p2 \in Nat, p2 + Unit <= p + r * (n - t), p2 + Unit <= b * Unit,
         Covered(log, p, t, from, b, r), WithinQuota(log, from, b, r)
  PROVE  /\ Covered(Append(log, n), p2, n, from, b, r)
         /\ WithinQuota(Append(log, n), from, b, r)
<1> DEFINE new == Append(log, n)
           m == Len(log)
<1>0. /\ new \in Seq(Nat) /\ Len(new) = m + 1 /\ m \in Nat
      /\ new[m + 1] = n /\ \A i \in 1..m : new[i] = log[i] /\ log[i] \in Nat
  BY Appended
<1>1. p2 + Unit \in Nat /\ Unit \in Int BY QuotaAssumption
<1>2. Covered(log, p2 + Unit, n, from, b, r) BY <1>1, RefillStep
<1> DEFINE y == b * Unit
<1>3. y \in Int /\ p2 + Unit <= y
  <2>1. b \in Int OBVIOUS
  <2>2. y \in Int BY <1>1, <2>1, Products, Zenon
  <2> QED BY <2>2
<1> HIDE DEF new, m, y
<1>4. ASSUME NEW i \in from..Len(new)
      PROVE  /\ n - new[i] \in Int /\ Len(new) - i + 1 \in Int
             /\ \/ i = m + 1 /\ n - new[i] = 0 /\ Len(new) - i + 1 = 1
                \/ /\ i \in from..m /\ new[i] = log[i] /\ log[i] \in Nat
                   /\ m - i + 1 \in Int /\ Len(new) - i + 1 = (m - i + 1) + 1
             /\ \A j \in from..m : i <= j => i \in from..m
  BY Places, Zenon DEF new, m
<1>5. ASSUME NEW i \in from..Len(new)
      PROVE  p2 + (Len(new) - i + 1) * Unit <= b * Unit + r * (n - new[i])
  <2>1. CASE i = m + 1 /\ n - new[i] = 0 /\ Len(new) - i + 1 = 1
    <3>1. r \in Int /\ p2 \in Int OBVIOUS
    <3> QED BY <1>1, <1>3, <1>4, <2>1, <3>1, LastFits, Zenon DEF y
  <2>2. CASE /\ i \in from..m /\ new[i] = log[i] /\ log[i] \in Nat
             /\ m - i + 1 \in Int /\ Len(new) - i + 1 = (m - i + 1) + 1
    <3> DEFINE c == m - i + 1
               x == c * Unit
               z == r * (n - log[i])
    <3>1. p2 + Unit + x <= y + z BY <1>2, <2>2, Zenon DEF Covered, m, y
    <3>2. x \in Int BY <1>1, <2>2, Products, Zenon
    <3>3. (c + 1) * Unit = Unit + x BY <1>1, <2>2, OneMore, Zenon
    <3> HIDE DEF x, z
    <3>4. p2 + (Unit + x) = p2 + Unit + x BY <1>1, <3>2
    <3> QED BY <2>2, <3>1, <3>3, <3>4, Zenon DEF y, z
  <2> QED BY <1>4, <2>1, <2>2, Zenon
<1>6. Covered(new, p2, n, from, b, r) BY <1>5, Zenon DEF Covered
<1>7. ASSUME NEW i \in from..Len(new), NEW j \in from..Len(new), i <= j
      PROVE  (j - i + 1) * Unit <= b * Unit + r * (new[j] - new[i])
  <2>1. CASE j = m + 1
    <3> DEFINE x == (Len(new) - i + 1) * Unit
               z == b * Unit + r * (n - new[i])
    <3>1. p2 + x <= z BY <1>5, Zenon
    <3>2. x \in Int /\ z \in Int
      <4>1. r \in Int OBVIOUS
      <4>2. x \in Int /\ r * (n - new[i]) \in Int BY <1>1, <1>4, <4>1, Products, Zenon
      <4> QED BY <1>3, <4>2, Sums, Zenon DEF y
    <3>3. x <= z BY <3>1, <3>2, DropPart, Zenon
    <3> QED BY <1>0, <2>1, <3>3, Zenon
  <2>2. CASE j \in from..m
    <3>1. i \in from..m BY <1>4, <1>7, <2>2, Zenon
    <3>2. \A k \in from..m : m + 1 # k BY <1>0
    <3>3. new[i] = log[i] /\ new[j] = log[j] BY <1>4, <2>2, <3>1, <3>2, Zenon
    <3> QED BY <1>7, <2>2, <3>1, <3>3, Zenon DEF WithinQuota, m
  <2> QED BY <1>4, <2>1, <2>2, Zenon
<1>8. WithinQuota(new, from, b, r) BY <1>7 DEF WithinQuota
<1> QED BY <1>6, <1>8 DEF new

\* A configured rate and burst are natural numbers below the largest.
LEMMA Configured ==
  ASSUME NEW r \in Rates, NEW b \in Bursts
  PROVE  /\ r \in Nat /\ r <= MaxRate /\ b \in Nat /\ b <= MaxBurst
         /\ b * Unit \in Nat /\ b * Unit <= MaxBurst * Unit
  BY QuotaAssumption

\* An acquire keeps within the quota b and r if the bucket's own are no larger.
LEMMA AcquireStep ==
  ASSUME Typed, NEW ok \in BOOLEAN, acquire(ok),
         NEW from \in Nat, from >= 1, NEW b \in Nat, NEW r \in Nat,
         capacity * Unit <= b * Unit, rate <= r,
         Covered(granted, tokens, last, from, b, r), WithinQuota(granted, from, b, r)
  PROVE  /\ Covered(granted', tokens', last', from, b, r)
         /\ WithinQuota(granted', from, b, r)
         /\ tokens' \in Nat /\ tokens' <= capacity * Unit /\ granted' \in Seq(Nat)
<1>1. /\ rate \in Nat /\ capacity * Unit \in Nat /\ b * Unit \in Nat
      /\ tokens \in Nat /\ now - last \in Nat /\ Unit \in Nat
  BY Configured, QuotaAssumption DEF Typed
<1> DEFINE w == (now - last) * rate
           v == r * (now - last)
           cap == capacity * Unit
<1>2. w \in Nat /\ v \in Nat /\ w <= v
  <2>1. w = rate * (now - last) BY <1>1
  <2> QED BY <1>1, <2>1, MoreTokens
<1>3. Refilled = IF cap <= tokens + w THEN cap ELSE tokens + w BY DEF Refilled, Smaller
<1> HIDE DEF w, v, cap
<1>4. /\ Refilled \in Nat /\ Refilled <= cap /\ Refilled <= tokens + w
      /\ Refilled <= tokens + v
  BY <1>1, <1>2, <1>3 DEF cap
<1>5. CASE ok
  <2>1. /\ tokens' = Refilled - Unit /\ Refilled >= Unit
        /\ granted' = Append(granted, now) /\ last' = now
    BY <1>5 DEF acquire
  <2>2. /\ tokens' \in Nat /\ tokens' + Unit <= tokens + v /\ tokens' + Unit <= cap
        /\ tokens' <= cap
    BY <1>1, <1>2, <1>4, <2>1 DEF cap
  <2>3. tokens' + Unit <= b * Unit
    <3>1. tokens' + Unit = Refilled BY <1>1, <1>4, <2>1
    <3>2. Refilled \in Nat /\ Refilled <= capacity * Unit BY <1>4 DEF cap
    <3>3. \A x, y, z \in Nat : x <= y /\ y <= z => x <= z OBVIOUS
    <3>4. Refilled <= b * Unit BY <1>1, <3>2, <3>3
    <3> QED BY <3>1, <3>4
  <2>4. /\ Covered(Append(granted, now), tokens', now, from, b, r)
        /\ WithinQuota(Append(granted, now), from, b, r)
    BY <2>2, <2>3, GrantStep DEF v, Typed
  <2> QED BY <2>1, <2>2, <2>4 DEF cap, Typed
<1>6. CASE ~ok
  <2>1. tokens' = Refilled /\ granted' = granted /\ last' = now BY <1>6 DEF acquire
  <2>2. Covered(granted, tokens', now, from, b, r)
    BY <1>4, <2>1, RefillStep DEF v, Typed
  <2> QED BY <1>4, <2>1, <2>2 DEF cap, Typed
<1> QED BY <1>5, <1>6

\* QuotaInv survives an acquire.
LEMMA AcquireKeepsQuota ==
  ASSUME QuotaInv, NEW ok \in BOOLEAN, acquire(ok), UNCHANGED <<now, since>>
  PROVE  QuotaInv'
<1>1. Typed /\ rate \in Nat /\ capacity \in Nat /\ since \in Nat /\ since >= 1
  BY Configured DEF QuotaInv, Typed
<1>2. UNCHANGED <<rate, capacity>> /\ last' = now BY DEF acquire
<1>3. /\ Covered(granted', tokens', last', since, capacity, rate)
      /\ WithinQuota(granted', since, capacity, rate)
      /\ tokens' \in Nat /\ tokens' <= capacity * Unit /\ granted' \in Seq(Nat)
  <2>1. capacity * Unit <= capacity * Unit /\ rate <= rate BY <1>1, QuotaAssumption
  <2> QED BY <1>1, <2>1, AcquireStep DEF QuotaInv, GrantsWithinQuota
<1>4. /\ Covered(granted', tokens', last', 1, MaxBurst, MaxRate)
      /\ WithinQuota(granted', 1, MaxBurst, MaxRate)
  <2>1. capacity * Unit <= MaxBurst * Unit /\ rate <= MaxRate BY <1>1, Configured DEF Typed
  <2>2. MaxBurst \in Nat /\ MaxRate \in Nat BY QuotaAssumption
  <2> QED BY <1>1, <2>1, <2>2, AcquireStep DEF QuotaInv, GrantsWithinLargest
<1> QED BY <1>1, <1>2, <1>3, <1>4
        DEF QuotaInv, Typed, GrantsWithinQuota, GrantsWithinLargest

\* QuotaInv survives a refresh: a new configuration starts with the tokens that
\* are left, the old one goes on with no more than it had.
LEMMA RefreshKeepsQuota ==
  ASSUME QuotaInv, RateRefresh
  PROVE  QuotaInv'
<1>1. PICK r \in Rates, b \in Bursts :
        /\ rate' = r /\ capacity' = b /\ tokens' = Clamped(b)
        /\ since' = IF r = rate /\ b = capacity THEN since ELSE Len(granted) + 1
  BY DEF RateRefresh
<1>2. UNCHANGED <<now, last, granted>> BY DEF RateRefresh
<1>3. Typed BY DEF QuotaInv
<1>4. /\ tokens' \in Nat /\ tokens' <= tokens /\ tokens' <= b * Unit
  BY <1>1, <1>3, Configured DEF Typed, Clamped, Smaller
<1>5. since' \in Nat /\ since' >= 1 BY <1>1, <1>3 DEF Typed
<1>6. Typed' BY <1>1, <1>2, <1>3, <1>4, <1>5 DEF Typed
<1>7. ASSUME NEW from \in Nat, from >= 1, NEW q \in Nat, NEW c \in Nat,
             Covered(granted, tokens, last, from, c, q)
      PROVE  Covered(granted, tokens', last, from, c, q)
  <2>1. last - last = 0 /\ q * 0 = 0 BY <1>3 DEF Typed
  <2>2. tokens' <= tokens + q * (last - last) BY <1>3, <1>4, <2>1 DEF Typed
  <2> QED BY <1>3, <1>4, <1>7, <2>2, RefillStep DEF Typed
<1>8. (GrantsWithinLargest /\ Covered(granted, tokens, last, 1, MaxBurst, MaxRate))'
  <2>1. Covered(granted, tokens', last, 1, MaxBurst, MaxRate)
    BY <1>7, QuotaAssumption DEF QuotaInv
  <2> QED BY <1>2, <2>1 DEF QuotaInv, GrantsWithinLargest
<1>9. (GrantsWithinQuota /\ Covered(granted, tokens, last, since, capacity, rate))'
  <2>1. CASE r = rate /\ b = capacity
    <3>1. Covered(granted, tokens', last, since, capacity, rate)
      BY <1>3, <1>7, Configured DEF QuotaInv, Typed
    <3> QED BY <1>1, <1>2, <2>1, <3>1 DEF QuotaInv, GrantsWithinQuota
  <2>2. CASE ~(r = rate /\ b = capacity)
    <3>1. since' = Len(granted) + 1 /\ Len(granted) \in Nat BY <1>1, <1>3, <2>2 DEF Typed
    <3>2. since'..Len(granted) = {} BY <3>1
    <3> QED BY <1>2, <3>2 DEF GrantsWithinQuota, WithinQuota, Covered
  <2> QED BY <2>1, <2>2
<1> QED BY <1>6, <1>8, <1>9 DEF QuotaInv

\* QuotaInv is an invariant.
LEMMA QuotaInvHolds == Spec => []QuotaInv
<1>1. Init => QuotaInv
  <2> SUFFICES ASSUME Init PROVE QuotaInv
    OBVIOUS
  <2>1. Typed BY Configured, QuotaAssumption DEF Init, Typed
  <2>2. granted = <<>> /\ since = 1 /\ Len(granted) = 0 BY DEF Init
  <2> QED BY <2>1, <2>2 DEF QuotaInv, GrantsWithinQuota, GrantsWithinLargest, WithinQuota,
             Covered
<1>2. QuotaInv /\ [Next]_vars => QuotaInv'
  <2> SUFFICES ASSUME QuotaInv, [Next]_vars PROVE QuotaInv'
    OBVIOUS
  <2>1. CASE Tick
    <3>1. /\ now' = now + 1 /\ UNCHANGED <<rate, capacity, tokens, last, granted, since>>
      BY <2>1 DEF Tick, bucket
    <3>2. Typed' BY <3>1 DEF QuotaInv, Typed
    <3> QED BY <3>1, <3>2 DEF QuotaInv, GrantsWithinQuota, GrantsWithinLargest
  <2>2. CASE RateRefresh BY <2>2, RefreshKeepsQuota
  <2>3. ASSUME NEW s \in Slots, Acquire(s) PROVE QuotaInv'
    <3>1. \E ok \in BOOLEAN : acquire(ok) BY <2>3 DEF Acquire
    <3> QED BY <2>3, <3>1, AcquireKeepsQuota DEF Acquire
  <2>4. CASE UNCHANGED <<now, rate, capacity, tokens, last, granted, since>>
    BY <2>4 DEF QuotaInv, Typed, GrantsWithinQuota, GrantsWithinLargest
  <2> QED BY <2>1, <2>2, <2>3, <2>4
          DEF Next, Slot, Answered, ServerFails, Retry, vars, bucket
<1> QED BY <1>1, <1>2, PTL DEF Spec

\* The permits of any window fit the configuration it lies in. (acquire)
THEOREM GrantsRespectQuota == Spec => []GrantsWithinQuota
<1>1. QuotaInv => GrantsWithinQuota BY DEF QuotaInv
<1> QED BY <1>1, QuotaInvHolds, PTL

\* The permits of any window fit the largest configuration, whatever the
\* refresh daemon does within it. (acquire, update_config)
THEOREM GrantsRespectLargest == Spec => []GrantsWithinLargest
<1>1. QuotaInv => GrantsWithinLargest BY DEF QuotaInv
<1> QED BY <1>1, QuotaInvHolds, PTL

-----------------------------------------------------------------------------
(* The calls.                                                              *)

\* The calls a permit pays for.
Attempts == Len(Backoffs) + 1

\* The calls that slots in the extractions c may still make on their permits.
Ahead(c) == {x \in Slots \X (1..Attempts) : c[x[1]].at # "idle" /\ x[2] > c[x[1]].attempt}

Extractions == [at : {"idle", "calling", "sleeping"}, attempt : Nat, wake : Nat]

CallTyped ==
  /\ call \in [Slots -> Extractions]
  /\ \A s \in Slots :
       /\ call[s].at # "idle" => call[s].attempt \in 1..Attempts
       /\ call[s].at = "sleeping" => call[s].attempt < Attempts

LogsArePast ==
  /\ called \in Seq(Nat)
  /\ \A i \in 1..Len(called) : called[i] <= now
  /\ \A m \in 1..Len(granted) : granted[m] <= now

\* The calls made since the i-th one and those still to come are paid for by the
\* grants since then and by one permit for each slot.
Charged(i, calls, grants, owed) ==
  \E g \in 1..(Len(grants) + 1) :
    /\ \A m \in g..Len(grants) : grants[m] >= calls[i]
    /\ Len(calls) - i + 1 + owed <= Attempts * (Cardinality(Slots) + (Len(grants) - g + 1))

AllCharged ==
  \A i \in 1..Len(called) : Charged(i, called, granted, Cardinality(Ahead(call)))

\* Arithmetic and intervals, apart from the logs and sets they are used for.
LEMMA NatInt == \A x \in Nat : x \in Int
OBVIOUS

LEMMA NatSum == \A a, b \in Nat : a + b \in Nat
OBVIOUS

LEMMA NatProduct == \A a, b \in Nat : a * b \in Nat
OBVIOUS

LEMMA NotAfter == \A x \in Nat : x <= x
OBVIOUS

LEMMA LaterToo ==
  \A x, n \in Nat : \A m : (m = n \/ m = n + 1) /\ x <= n => x <= m
OBVIOUS

LEMMA MoreTime == \A x, y, v, w \in Int : x <= y + v /\ v <= w => x <= y + w
OBVIOUS

LEMMA LessOwed == \A l, q \in Nat : \A x \in Int : l + q <= x => l <= x
OBVIOUS

LEMMA NoGrant ==
  \A u, b, w, p \in Nat : p = 0 => p * u <= b * u + w
<1> SUFFICES ASSUME NEW u \in Nat, NEW b \in Nat, NEW w \in Nat PROVE 0 * u <= b * u + w
  OBVIOUS
<1>1. 0 * u = 0 /\ b * u \in Nat OBVIOUS
<1> QED BY <1>1

LEMMA PaidType == \A a, s, p \in Nat : a * (s + p) \in Int
OBVIOUS

LEMMA Grows ==
  ASSUME NEW k \in Nat, NEW x \in Int, NEW y \in Int, x <= y
  PROVE  k * x <= k * y /\ k * x \in Int /\ k * y \in Int
<1>1. k * (y - x) >= 0 /\ k * (y - x) = k * y - k * x OBVIOUS
<1> QED BY <1>1

LEMMA LogLength == \A log \in Seq(Nat) : Len(log) \in Nat
OBVIOUS

LEMMA InFront == \A e \in Nat : \A g \in 1..e : g \in g..e /\ e \in 1..e
OBVIOUS

LEMMA LastOrBefore == \A e \in Nat : \A i \in 1..(e + 1) : i \in 1..e \/ i = e + 1
OBVIOUS

LEMMA BeforeToo ==
  \A e \in Nat : \A i \in 1..(e + 1) : \A j \in 1..e : i <= j => i \in 1..e
OBVIOUS

LEMMA NotTheLast ==
  \A e \in Nat : \A f : \A g \in 1..(e + 1) : f = e + 1 =>
    \A m \in g..f : m # e + 1 => m \in g..e /\ m \in 1..e
OBVIOUS

LEMMA GrantsLeft ==
  \A e \in Nat : \A g \in 1..(e + 1) :
    /\ e - g + 1 \in Nat
    /\ g = e + 1 => e - g + 1 = 0
    /\ g # e + 1 => g \in 1..e
OBVIOUS

LEMMA AttemptsType ==
  /\ Attempts \in Nat /\ Attempts >= 1
  /\ IsFiniteSet(1..Attempts) /\ Cardinality(1..Attempts) = Attempts
  /\ IsFiniteSet(Slots) /\ Cardinality(Slots) \in Nat
<1>1. Backoffs \in Seq(Nat) /\ IsFiniteSet(Slots) BY QuotaAssumption
<1>2. Attempts \in Nat /\ Attempts >= 1 BY <1>1 DEF Attempts
<1>3. 1 \in Int /\ Attempts \in Int BY <1>2
<1>4. /\ IsFiniteSet(1..Attempts)
      /\ Cardinality(1..Attempts) = IF 1 > Attempts THEN 0 ELSE Attempts - 1 + 1
  BY <1>3, FS_Interval, Zenon
<1>5. Cardinality(1..Attempts) = Attempts BY <1>2, <1>4
<1> QED BY <1>1, <1>2, <1>4, <1>5, FS_CardinalityType

\* There is an attempt of a slot for each of the calls its permit pays for.
LEMMA AheadBounded ==
  ASSUME NEW c, NEW s \in Slots, c[s].at # "idle" => c[s].attempt \in 1..Attempts
  PROVE  /\ IsFiniteSet(Ahead(c)) /\ Cardinality(Ahead(c)) \in Nat
         /\ Cardinality(Ahead(c)) + 1 <= Attempts * Cardinality(Slots)
<1> DEFINE all == Slots \X (1..Attempts)
           first == <<s, 1>>
<1>0. /\ IsFiniteSet(Slots) /\ Attempts \in Nat /\ Attempts >= 1
      /\ Cardinality(Slots) \in Nat
  BY AttemptsType
<1>1. IsFiniteSet(1..Attempts) /\ Cardinality(1..Attempts) = Attempts
  BY AttemptsType
<1>2. /\ IsFiniteSet(all) /\ Cardinality(all) = Cardinality(Slots) * Attempts
  BY <1>0, <1>1, FS_Product
<1>3. first \in all BY <1>0
<1>4. Ahead(c) \in SUBSET (all \ {first})
  <2>1. Ahead(c) \in SUBSET all BY DEF Ahead
  <2>2. first \notin Ahead(c)
    <3> SUFFICES ASSUME c[first[1]].at # "idle", first[2] > c[first[1]].attempt PROVE FALSE
      BY DEF Ahead
    <3>1. first[1] = s /\ first[2] = 1 OBVIOUS
    <3> HIDE DEF first
    <3> QED BY <1>0, <3>1
  <2> QED BY <2>1, <2>2
<1> HIDE DEF all, first
<1>5. IsFiniteSet(all \ {first}) /\ Cardinality(all \ {first}) = Cardinality(all) - 1
  BY <1>2, <1>3, FS_RemoveElement
<1>6. /\ IsFiniteSet(Ahead(c)) /\ Cardinality(Ahead(c)) <= Cardinality(all \ {first})
  BY <1>4, <1>5, FS_Subset
<1>7. Cardinality(Ahead(c)) \in Nat /\ Cardinality(all) \in Nat
  BY <1>2, <1>6, FS_CardinalityType
<1>8. Cardinality(all) = Attempts * Cardinality(Slots) BY <1>0, <1>2
<1> QED BY <1>5, <1>6, <1>7, <1>8

\* What the step of one slot does to the calls that may still be made.
LEMMA AheadMoves ==
  ASSUME NEW c \in [Slots -> Extractions], NEW d \in [Slots -> Extractions],
         NEW s \in Slots, \A t \in Slots : t # s => d[t] = c[t],
         c[s].at # "idle" => c[s].attempt \in 1..Attempts
  PROVE  /\ IsFiniteSet(Ahead(c)) /\ Cardinality(Ahead(c)) \in Nat
         /\ IsFiniteSet(Ahead(d)) /\ Cardinality(Ahead(d)) \in Nat
         /\ d[s].at = "idle" => Cardinality(Ahead(d)) <= Cardinality(Ahead(c))
         /\ d[s].attempt = c[s].attempt /\ c[s].at # "idle" =>
              Cardinality(Ahead(d)) <= Cardinality(Ahead(c))
         /\ c[s].at # "idle" /\ d[s].attempt = c[s].attempt + 1 /\ c[s].attempt < Attempts =>
              Cardinality(Ahead(d)) + 1 <= Cardinality(Ahead(c))
         /\ c[s].at = "idle" /\ d[s].attempt = 1 =>
              Cardinality(Ahead(d)) + 1 <= Cardinality(Ahead(c)) + Attempts
<1>0. Attempts \in Nat /\ Attempts >= 1 /\ IsFiniteSet(Slots) BY AttemptsType
<1>1. \A e : IsFiniteSet(Ahead(e)) /\ Cardinality(Ahead(e)) \in Nat
  <2> TAKE e
  <2>1. IsFiniteSet(Slots \X (1..Attempts)) BY AttemptsType, FS_Product, Zenon
  <2>2. Ahead(e) \in SUBSET (Slots \X (1..Attempts)) BY DEF Ahead
  <2> QED BY <2>1, <2>2, FS_Subset, FS_CardinalityType
<1>2. \A t \in Slots, k \in 1..Attempts :
        /\ <<t, k>> \in Ahead(c) <=> c[t].at # "idle" /\ k > c[t].attempt
        /\ <<t, k>> \in Ahead(d) <=> d[t].at # "idle" /\ k > d[t].attempt
  BY DEF Ahead
<1>3. \A x \in Ahead(c) \union Ahead(d) :
         \E t \in Slots, k \in 1..Attempts : x = <<t, k>>
  BY DEF Ahead
<1>4. /\ c[s].attempt \in Nat /\ d[s].attempt \in Nat
      /\ c[s].at # "idle" => c[s].attempt \in 1..Attempts
  BY DEF Extractions
<1>5. ASSUME d[s].at = "idle" \/ (d[s].attempt = c[s].attempt /\ c[s].at # "idle")
      PROVE  Cardinality(Ahead(d)) <= Cardinality(Ahead(c))
  <2>1. Ahead(d) \in SUBSET Ahead(c) BY <1>2, <1>3, <1>5
  <2> QED BY <1>1, <2>1, FS_Subset
<1>6. ASSUME c[s].at # "idle", d[s].attempt = c[s].attempt + 1, c[s].attempt < Attempts
      PROVE  Cardinality(Ahead(d)) + 1 <= Cardinality(Ahead(c))
  <2> DEFINE x == <<s, d[s].attempt>>
  <2>1. d[s].attempt \in 1..Attempts BY <1>0, <1>4, <1>6
  <2>2. x \in Ahead(c) BY <1>2, <1>4, <1>6, <2>1
  <2>3. Ahead(d) \in SUBSET (Ahead(c) \ {x})
    <3> SUFFICES ASSUME NEW y \in Ahead(d) PROVE y \in Ahead(c) /\ y # x OBVIOUS
    <3>1. PICK t \in Slots, k \in 1..Attempts : y = <<t, k>> BY <1>3
    <3>2. d[t].at # "idle" /\ k > d[t].attempt BY <1>2, <3>1
    <3>3. CASE t = s BY <1>2, <1>4, <1>6, <3>1, <3>2, <3>3
    <3>4. CASE t # s BY <1>2, <3>1, <3>2, <3>4
    <3> QED BY <3>3, <3>4
  <2> HIDE DEF x
  <2>4. /\ IsFiniteSet(Ahead(c) \ {x})
        /\ Cardinality(Ahead(c) \ {x}) = Cardinality(Ahead(c)) - 1
    BY <1>1, <2>2, FS_RemoveElement
  <2>5. Cardinality(Ahead(d)) <= Cardinality(Ahead(c) \ {x}) BY <2>3, <2>4, FS_Subset
  <2> QED BY <1>1, <2>4, <2>5
<1>7. ASSUME c[s].at = "idle", d[s].attempt = 1
      PROVE  Cardinality(Ahead(d)) + 1 <= Cardinality(Ahead(c)) + Attempts
  <2> DEFINE own == {s} \X (2..Attempts)
  <2>1. Ahead(d) \in SUBSET (Ahead(c) \union own)
    <3> SUFFICES ASSUME NEW y \in Ahead(d) PROVE y \in Ahead(c) \union own OBVIOUS
    <3>1. PICK t \in Slots, k \in 1..Attempts : y = <<t, k>> BY <1>3
    <3>2. d[t].at # "idle" /\ k > d[t].attempt BY <1>2, <3>1
    <3>3. CASE t = s
      <4>1. k \in 2..Attempts BY <1>7, <3>2, <3>3
      <4> QED BY <3>1, <3>3, <4>1
    <3>4. CASE t # s BY <1>2, <3>1, <3>2, <3>4
    <3> QED BY <3>3, <3>4
  <2>2. IsFiniteSet(own) /\ Cardinality(own) = Attempts - 1
    <3>1. /\ IsFiniteSet(2..Attempts)
          /\ Cardinality(2..Attempts) = IF 2 > Attempts THEN 0 ELSE Attempts - 2 + 1
      BY <1>0, FS_Interval
    <3>2. Cardinality(2..Attempts) = Attempts - 1 BY <1>0, <3>1
    <3>3. IsFiniteSet({s}) /\ Cardinality({s}) = 1 BY FS_Singleton
    <3>4. IsFiniteSet(own) /\ Cardinality(own) = Cardinality({s}) * Cardinality(2..Attempts)
      BY <3>1, <3>3, FS_Product
    <3> QED BY <1>0, <3>2, <3>3, <3>4
  <2> HIDE DEF own
  <2>3. /\ IsFiniteSet(Ahead(c) \union own)
        /\ Cardinality(Ahead(c) \union own) =
             Cardinality(Ahead(c)) + Cardinality(own) - Cardinality(Ahead(c) \cap own)
    BY <1>1, <2>2, FS_Union
  <2>4. Cardinality(Ahead(c) \cap own) \in Nat
    BY <1>1, FS_Intersection, FS_CardinalityType
  <2>5. Cardinality(Ahead(d)) <= Cardinality(Ahead(c) \union own)
    BY <2>1, <2>3, FS_Subset
  <2> QED BY <1>0, <1>1, <2>2, <2>3, <2>4, <2>5
<1> QED BY <1>1, <1>5, <1>6, <1>7

\* What is charged stays charged when nothing is called, when a slot makes the
\* next call on its permit, and when a permit is granted with its first call.
LEMMA StaysCharged ==
  ASSUME NEW calls \in Seq(Nat), NEW grants \in Seq(Nat), NEW i \in 1..Len(calls),
         NEW r \in Nat, NEW q \in Nat, NEW n \in Nat, Charged(i, calls, grants, r)
  PROVE  /\ q <= r => Charged(i, calls, grants, q)
         /\ q + 1 <= r => Charged(i, Append(calls, n), grants, q)
         /\ q + 1 <= r + Attempts /\ calls[i] <= n =>
              Charged(i, Append(calls, n), Append(grants, n), q)
<1> DEFINE calls2 == Append(calls, n)
           grants2 == Append(grants, n)
           N == Cardinality(Slots)
<1>1. Attempts \in Nat /\ N \in Nat BY AttemptsType
<1>2. /\ Len(calls) \in Nat /\ Len(calls2) = Len(calls) + 1 /\ calls2[i] = calls[i]
      /\ Len(grants) \in Nat /\ Len(grants2) = Len(grants) + 1
      /\ grants2[Len(grants) + 1] = n
      /\ \A m \in 1..Len(grants) : grants2[m] = grants[m]
  OBVIOUS
<1> HIDE DEF calls2, grants2, N
<1>3. PICK g \in 1..(Len(grants) + 1) :
        /\ \A m \in g..Len(grants) : grants[m] >= calls[i]
        /\ Len(calls) - i + 1 + r <= Attempts * (N + (Len(grants) - g + 1))
  BY DEF Charged, N
<1> DEFINE k == N + (Len(grants) - g + 1)
           p == Attempts * k
<1>4. k \in Int /\ p \in Int BY <1>1, <1>2
<1>5. Len(calls) - i + 1 + r <= p BY <1>3
<1>6. ASSUME q <= r PROVE Charged(i, calls, grants, q)
  <2> HIDE DEF p
  <2>1. Len(calls) - i + 1 + q <= p BY <1>2, <1>4, <1>5, <1>6
  <2> QED BY <1>3, <2>1 DEF Charged, N, p
<1>7. ASSUME q + 1 <= r PROVE Charged(i, calls2, grants, q)
  <2> HIDE DEF p
  <2>1. Len(calls2) - i + 1 + q <= p BY <1>2, <1>4, <1>5, <1>7
  <2> QED BY <1>2, <1>3, <2>1 DEF Charged, N, p
<1>8. ASSUME q + 1 <= r + Attempts, calls[i] <= n PROVE Charged(i, calls2, grants2, q)
  <2>1. Attempts * (k + 1) = p + Attempts BY <1>1, <1>4
  <2>2. N + (Len(grants2) - g + 1) = k + 1 BY <1>1, <1>2
  <2>3. g \in 1..(Len(grants2) + 1) BY <1>2
  <2>4. \A m \in g..Len(grants2) : grants2[m] >= calls2[i]
    <3> SUFFICES ASSUME NEW m \in g..Len(grants2) PROVE grants2[m] >= calls2[i] OBVIOUS
    <3>1. CASE m = Len(grants) + 1 BY <1>2, <1>8, <3>1
    <3>2. CASE m # Len(grants) + 1
      <4>1. m \in g..Len(grants) /\ m \in 1..Len(grants)
        BY <1>2, <3>2, NotTheLast, Zenon
      <4> QED BY <1>2, <1>3, <4>1
    <3> QED BY <3>1, <3>2
  <2> HIDE DEF p, k
  <2>5. Len(calls2) - i + 1 + q <= p + Attempts BY <1>1, <1>2, <1>4, <1>5, <1>8
  <2> QED BY <2>1, <2>2, <2>3, <2>4, <2>5 DEF Charged, N
<1> QED BY <1>6, <1>7, <1>8 DEF calls2, grants2

\* A call that was just made is paid for by the permits of the slots.
LEMMA NewIsCharged ==
  ASSUME NEW calls \in Seq(Nat), NEW grants \in Seq(Nat), NEW n \in Nat,
         NEW q \in Nat, q + 1 <= Attempts * Cardinality(Slots)
  PROVE  Charged(Len(calls) + 1, Append(calls, n), grants, q)
<1> DEFINE g == Len(grants) + 1
           calls2 == Append(calls, n)
           N == Cardinality(Slots)
<1>1. Attempts \in Nat /\ N \in Nat BY AttemptsType
<1>2. Len(calls) \in Nat /\ Len(calls2) = Len(calls) + 1 /\ Len(grants) \in Nat OBVIOUS
<1>3. g \in 1..(Len(grants) + 1) /\ g..Len(grants) = {} BY <1>2
<1>4. N + (Len(grants) - g + 1) = N BY <1>1, <1>2
<1>5. Len(calls2) - (Len(calls) + 1) + 1 + q = q + 1 BY <1>2
<1> HIDE DEF calls2, g, N
<1>6. Len(calls2) - (Len(calls) + 1) + 1 + q <= Attempts * (N + (Len(grants) - g + 1))
  BY <1>4, <1>5 DEF N
<1> QED BY <1>3, <1>6 DEF Charged, calls2, N

\* The time between two events of a log is within any window around them.
LEMMA InWindow ==
  ASSUME NEW log \in Seq(Nat), NEW g \in 1..Len(log), NEW t \in Nat, NEW n \in Nat,
         t <= log[g], log[Len(log)] <= n
  PROVE  /\ Len(log) \in 1..Len(log) /\ g <= Len(log)
         /\ log[Len(log)] - log[g] \in Int /\ log[Len(log)] - log[g] <= n - t
<1> DEFINE e == log[Len(log)]
           f == log[g]
<1>1. Len(log) \in 1..Len(log) /\ g <= Len(log) OBVIOUS
<1>2. e \in Nat /\ f \in Nat BY <1>1
<1>3. t <= f /\ e <= n OBVIOUS
<1> HIDE DEF e, f
<1>4. e - f \in Int /\ e - f <= n - t BY <1>2, <1>3
<1> QED BY <1>1, <1>4 DEF e, f

\* What p grants pay for if they and one permit of each slot pay for x calls.
LEMMA PaidFits ==
  ASSUME NEW a \in Nat, NEW s \in Nat, NEW u \in Nat, NEW b \in Nat, NEW w \in Nat,
         NEW p \in Nat, NEW x \in Nat, x <= a * (s + p), p * u <= b * u + w
  PROVE  x * u <= a * ((s + b) * u + w)
<1> DEFINE y == s * u + p * u
           z == (s + b) * u + w
           v == a * (s + p)
<1>1. /\ y \in Int /\ z \in Int /\ v \in Int
      /\ v * u = a * y /\ s * u \in Int /\ p * u \in Int /\ b * u \in Int
      /\ z = s * u + (b * u + w)
  OBVIOUS
<1>2. y <= z
  <2> DEFINE e == s * u
             f == p * u
             g == b * u
  <2>1. e \in Int /\ f \in Int /\ g \in Int /\ f <= g + w BY <1>1
  <2>2. y = e + f /\ z = e + (g + w) BY <1>1
  <2> HIDE DEF e, f, g, y, z
  <2> QED BY <1>1, <2>1, <2>2
<1>3. x <= v OBVIOUS
<1> HIDE DEF y, z, v
<1>4. u * x <= u * v /\ u * x \in Int /\ u * v \in Int BY <1>1, <1>3, Grows
<1>5. a * y <= a * z /\ a * y \in Int /\ a * z \in Int BY <1>1, <1>2, Grows
<1>6. u * x = x * u /\ u * v = v * u BY <1>1
<1>7. x * u <= a * z
  <2>1. \A c, d, e \in Int : c <= d /\ d <= e => c <= e OBVIOUS
  <2>2. x * u <= v * u /\ x * u \in Int /\ v * u \in Int BY <1>4, <1>6, Zenon
  <2>3. v * u <= a * z /\ a * z \in Int BY <1>1, <1>5, Zenon
  <2> QED BY <2>1, <2>2, <2>3, Zenon
<1> QED BY <1>7 DEF z

\* Where a window of the log begins, and how long it is.
LEMMA WindowAt ==
  ASSUME NEW log \in Seq(Nat), NEW i \in 1..Len(log)
  PROVE  /\ log[i] \in Nat /\ Len(log) \in Nat /\ Len(log) - i + 1 \in Nat
         /\ \A n \in Nat : log[i] <= n => n - log[i] \in Nat
         /\ Len(log) \in 1..Len(log)
<1>1. log[i] \in Nat /\ Len(log) \in Nat /\ i \in Nat /\ i <= Len(log) /\ 1 <= i OBVIOUS
<1> QED BY <1>1

\* What is charged fits the window that ends now.
LEMMA ChargedFits ==
  ASSUME NEW calls \in Seq(Nat), NEW grants \in Seq(Nat), NEW i \in 1..Len(calls),
         NEW q \in Nat, Charged(i, calls, grants, q),
         NEW n \in Nat, calls[i] <= n, \A m \in 1..Len(grants) : grants[m] <= n,
         WithinQuota(grants, 1, MaxBurst, MaxRate)
  PROVE  (Len(calls) - i + 1) * Unit <=
           Attempts * ((Cardinality(Slots) + MaxBurst) * Unit + MaxRate * (n - calls[i]))
<1> DEFINE N == Cardinality(Slots)
           l == Len(calls) - i + 1
           d == n - calls[i]
           e == Len(grants)
           w == MaxRate * d
<1>1. /\ Attempts \in Nat /\ N \in Nat /\ Unit \in Nat /\ MaxBurst \in Nat /\ MaxRate \in Nat
  BY AttemptsType, QuotaAssumption, Zenon
<1>2. l \in Nat /\ d \in Nat /\ calls[i] \in Nat /\ e \in Nat
  BY WindowAt, LogLength, Zenon
<1>3. w \in Nat BY <1>1, <1>2, NatProduct, Zenon
<1>4. PICK g \in 1..(e + 1) :
        /\ \A m \in g..e : grants[m] >= calls[i]
        /\ l + q <= Attempts * (N + (e - g + 1))
  BY Zenon DEF Charged
<1> DEFINE p == e - g + 1
<1>5. p \in Nat BY <1>2, GrantsLeft, Zenon
<1>6. p * Unit <= MaxBurst * Unit + w
  <2>1. CASE g = e + 1
    <3>1. p = 0 BY <1>2, <2>1, GrantsLeft, Zenon
    <3> HIDE DEF p, w
    <3> QED BY <1>1, <1>3, <3>1, NoGrant, Zenon
  <2>2. CASE g # e + 1
    <3>1. g \in 1..e BY <1>2, <2>2, GrantsLeft, Zenon
    <3>2. g \in g..e /\ e \in 1..e BY <1>2, <3>1, InFront, Zenon
    <3>3. calls[i] <= grants[g] BY <1>4, <3>2
    <3>4. grants[e] <= n BY <3>2, Zenon
    <3>5. /\ g <= e /\ grants[e] - grants[g] \in Int /\ grants[e] - grants[g] <= d
      BY <1>2, <3>1, <3>3, <3>4, InWindow, Zenon
    <3>6. p * Unit <= MaxBurst * Unit + MaxRate * (grants[e] - grants[g])
      BY <3>1, <3>2, <3>5, Zenon DEF WithinQuota
    <3> DEFINE f == grants[e] - grants[g]
               v == MaxRate * f
    <3>7. v <= w /\ v \in Int /\ w \in Int
      <4> d \in Int BY <1>2, NatInt, Zenon
      <4> HIDE DEF f, d
      <4> QED BY <1>1, <3>5, Grows, Zenon DEF f
    <3>8. p * Unit \in Int /\ MaxBurst * Unit \in Int
      <4> p \in Int /\ Unit \in Int /\ MaxBurst \in Int BY <1>1, <1>5, NatInt, Zenon
      <4> QED BY Products, Zenon
    <3>9. p * Unit <= MaxBurst * Unit + v BY <3>6
    <3> HIDE DEF v, w, p
    <3> QED BY <3>7, <3>8, <3>9, MoreTime, Zenon
  <2> QED BY <2>1, <2>2
<1>7. l <= Attempts * (N + p)
  <2> DEFINE x == Attempts * (N + p)
  <2>1. x \in Int BY <1>1, <1>5, PaidType, Zenon
  <2>2. l + q <= x BY <1>4
  <2> HIDE DEF x, l
  <2> QED BY <1>2, <2>1, <2>2, LessOwed, Zenon DEF x
<1> HIDE DEF p, l, w, d, N
<1>8. l * Unit <= Attempts * ((N + MaxBurst) * Unit + w)
  BY <1>1, <1>2, <1>3, <1>5, <1>6, <1>7, PaidFits, Zenon
<1> QED BY <1>8 DEF l, w, d, N

\* A call takes its window along: what is charged for the calls before it stays
\* charged, it is itself, and every window that ends with it is within bounds.
LEMMA CallKeepsCharge ==
  ASSUME Typed, GrantsWithinLargest', LogsArePast, AllCharged, CallsWithinRetries,
         NEW r \in Nat, r = Cardinality(Ahead(call)),
         NEW q \in Nat, q = Cardinality(Ahead(call)'),
         q + 1 <= Attempts * Cardinality(Slots),
         now' = now, called' = Append(called, now),
         \/ granted' = granted /\ q + 1 <= r
         \/ granted' = Append(granted, now) /\ q + 1 <= r + Attempts
  PROVE  LogsArePast' /\ AllCharged' /\ CallsWithinRetries'
<1> DEFINE n == Len(called) + 1
<1>1. /\ now \in Nat /\ called \in Seq(Nat) /\ granted \in Seq(Nat)
  BY DEF Typed, LogsArePast
<1>2. /\ called' \in Seq(Nat) /\ Len(called') = n /\ Len(called) \in Nat
      /\ called'[n] = now
      /\ \A i \in 1..Len(called) : called'[i] = called[i] /\ called[i] \in Nat
  BY <1>1, Appended, Zenon
<1>3. \A i \in 1..n : i \in 1..Len(called) \/ i = n BY <1>2, LastOrBefore, Zenon
<1>4. \A i \in 1..Len(called') : called'[i] <= now
  <2> SUFFICES ASSUME NEW i \in 1..n PROVE called'[i] <= now BY <1>2, Zenon
  <2>1. CASE i = n BY <1>1, <1>2, <2>1, NotAfter, Zenon
  <2>2. CASE i \in 1..Len(called) BY <1>2, <2>2, Zenon DEF LogsArePast
  <2> QED BY <1>3, <2>1, <2>2, Zenon
<1>5. granted' \in Seq(Nat) /\ \A m \in 1..Len(granted') : granted'[m] <= now
  <2>1. CASE granted' = granted BY <1>1, <2>1, Zenon DEF LogsArePast
  <2>2. CASE granted' = Append(granted, now)
    <3> DEFINE k == Len(granted) + 1
    <3>1. /\ granted' \in Seq(Nat) /\ Len(granted') = k /\ Len(granted) \in Nat
          /\ granted'[k] = now
          /\ \A i \in 1..Len(granted) : granted'[i] = granted[i]
      BY <1>1, <2>2, Appended, Zenon
    <3> SUFFICES ASSUME NEW m \in 1..k PROVE granted'[m] <= now BY <3>1, Zenon
    <3>2. m \in 1..Len(granted) \/ m = k BY <3>1, LastOrBefore, Zenon
    <3>3. CASE m = k BY <1>1, <3>1, <3>3, NotAfter, Zenon
    <3>4. CASE m \in 1..Len(granted) BY <3>1, <3>4, Zenon DEF LogsArePast
    <3> QED BY <3>2, <3>3, <3>4, Zenon
  <2> QED BY <2>1, <2>2, Zenon
<1>6. LogsArePast' BY <1>2, <1>4, <1>5, Zenon DEF LogsArePast
<1>7. \A i \in 1..Len(called') : Charged(i, called', granted', q)
  <2> SUFFICES ASSUME NEW i \in 1..n PROVE Charged(i, called', granted', q)
    BY <1>2, Zenon
  <2>1. CASE i = n BY <1>1, <1>5, <2>1, NewIsCharged, Zenon
  <2>2. CASE i \in 1..Len(called)
    <3>1. Charged(i, called, granted, r) BY <2>2, Zenon DEF AllCharged
    <3>2. called[i] <= now BY <2>2, Zenon DEF LogsArePast
    <3> QED BY <1>1, <2>2, <3>1, <3>2, StaysCharged, Zenon
  <2> QED BY <1>3, <2>1, <2>2, Zenon
<1>8. AllCharged' BY <1>7, Zenon DEF AllCharged
<1>9. CallsWithinRetries'
  <2> DEFINE K(x) == Attempts * ((Cardinality(Slots) + MaxBurst) * Unit + MaxRate * x)
  <2> SUFFICES ASSUME NEW i \in 1..n, NEW j \in 1..n, i <= j
               PROVE  (j - i + 1) * Unit <= K(called'[j] - called'[i])
    BY <1>2, Zenon DEF CallsWithinRetries, Attempts
  <2>1. CASE j = n
    <3>1. Charged(i, called', granted', q) BY <1>2, <1>7, Zenon
    <3>2. WithinQuota(granted', 1, MaxBurst, MaxRate) BY Zenon DEF GrantsWithinLargest
    <3>3. (Len(called') - i + 1) * Unit <= K(now - called'[i])
      BY <1>1, <1>2, <1>4, <1>5, <3>1, <3>2, ChargedFits, Zenon
    <3> QED BY <1>2, <2>1, <3>3, Zenon
  <2>2. CASE j \in 1..Len(called)
    <3>1. i \in 1..Len(called) BY <1>2, <2>2, BeforeToo, Zenon
    <3>2. (j - i + 1) * Unit <= K(called[j] - called[i])
      BY <2>2, <3>1, Zenon DEF CallsWithinRetries, Attempts
    <3> QED BY <1>2, <2>2, <3>1, <3>2, Zenon
  <2> QED BY <1>3, <2>1, <2>2, Zenon
<1> QED BY <1>6, <1>8, <1>9

\* Where nothing is called nothing more is owed.
LEMMA QuietKeepsCharge ==
  ASSUME Typed, LogsArePast, AllCharged, CallsWithinRetries,
         NEW r \in Nat, r = Cardinality(Ahead(call)),
         NEW q \in Nat, q = Cardinality(Ahead(call)'), q <= r,
         now' = now \/ now' = now + 1, UNCHANGED <<called, granted>>
  PROVE  LogsArePast' /\ AllCharged' /\ CallsWithinRetries'
<1>1. CallsWithinRetries' BY Zenon DEF CallsWithinRetries
<1>2. AllCharged'
  <2> SUFFICES ASSUME NEW i \in 1..Len(called) PROVE Charged(i, called, granted, q)
    BY Zenon DEF AllCharged
  <2>1. called \in Seq(Nat) /\ granted \in Seq(Nat) /\ now \in Nat
    BY DEF Typed, LogsArePast
  <2>2. Charged(i, called, granted, r) BY Zenon DEF AllCharged
  <2> QED BY <2>1, <2>2, StaysCharged, Zenon
<1>3. LogsArePast'
  <2>1. \A x \in Nat : x <= now => x <= now'
    <3>1. now \in Nat BY DEF Typed
    <3> QED BY <3>1, LaterToo, Zenon
  <2>2. /\ \A i \in 1..Len(called) : called[i] \in Nat
        /\ \A m \in 1..Len(granted) : granted[m] \in Nat
    BY WindowAt, Zenon DEF Typed, LogsArePast
  <2> QED BY <2>1, <2>2, Zenon DEF LogsArePast
<1> QED BY <1>1, <1>2, <1>3

-----------------------------------------------------------------------------
(* The extractions.                                                        *)

\* A slot that comes to the extraction e.
LEMMA OneSlotMoves ==
  ASSUME CallTyped, NEW s \in Slots, NEW e \in Extractions,
         call' = [call EXCEPT ![s] = e],
         e.at # "idle" => e.attempt \in 1..Attempts,
         e.at = "sleeping" => e.attempt < Attempts
  PROVE  /\ CallTyped' /\ call' \in [Slots -> Extractions] /\ call'[s] = e
         /\ \A t \in Slots : t # s => call'[t] = call[t]
BY DEF CallTyped

CallsInv == CallTyped /\ LogsArePast /\ AllCharged /\ CallsWithinRetries

\* A permit with its first call. (acquire, extract_invoice)
LEMMA AcquireKeepsCalls ==
  ASSUME CallsInv, QuotaInv, QuotaInv', NEW s \in Slots, Acquire(s)
  PROVE  CallsInv'
<1>0. CallTyped /\ call \in [Slots -> Extractions] BY DEF CallsInv, CallTyped
<1>1. CASE acquire(FALSE) /\ UNCHANGED <<call, called>>
  <2>1. granted' = granted /\ now' = now BY <1>1 DEF acquire, Acquire
  <2>2. Ahead(call)' = Ahead(call) BY <1>1 DEF Ahead
  <2>3. Cardinality(Ahead(call)) \in Nat
    BY <1>0, AheadBounded, Zenon DEF CallTyped
  <2>4. Cardinality(Ahead(call)) <= Cardinality(Ahead(call)) BY <2>3
  <2>5. LogsArePast' /\ AllCharged' /\ CallsWithinRetries'
    BY <1>1, <2>1, <2>2, <2>3, <2>4, QuietKeepsCharge, Zenon DEF CallsInv, QuotaInv
  <2>6. CallTyped' BY <1>0, <1>1 DEF CallTyped
  <2> QED BY <2>5, <2>6 DEF CallsInv
<1>2. CASE /\ acquire(TRUE)
           /\ call' = [call EXCEPT ![s] = Busy(1)]
           /\ called' = Append(called, now)
  <2> DEFINE e == Busy(1)
  <2>1. /\ e \in Extractions /\ e.at = "calling" /\ e.attempt = 1 /\ 1 \in 1..Attempts
    BY AttemptsType DEF Busy, Extractions
  <2>2. granted' = Append(granted, now) /\ now' = now BY <1>2 DEF acquire, Acquire
  <2>3. call[s].at = "idle" BY DEF Acquire, Idle
  <2>4. call' = [call EXCEPT ![s] = e] BY <1>2
  <2> HIDE DEF e
  <2>5. /\ CallTyped' /\ call' \in [Slots -> Extractions] /\ call'[s] = e
        /\ \A t \in Slots : t # s => call'[t] = call[t]
    BY <1>0, <2>1, <2>4, OneSlotMoves
  <2> DEFINE r == Cardinality(Ahead(call))
             q == Cardinality(Ahead(call)')
  <2>6. /\ r \in Nat /\ q \in Nat /\ q + 1 <= r + Attempts
    BY <1>0, <2>1, <2>3, <2>5, AheadMoves, Zenon DEF Ahead
  <2>7. q + 1 <= Attempts * Cardinality(Slots)
    BY <2>1, <2>5, AheadBounded, Zenon DEF Ahead
  <2>8. GrantsWithinLargest' /\ Typed BY DEF QuotaInv
  <2> HIDE DEF r, q
  <2>9. LogsArePast' /\ AllCharged' /\ CallsWithinRetries'
    BY <1>2, <2>2, <2>6, <2>7, <2>8, CallKeepsCharge, Zenon DEF CallsInv, r, q
  <2> QED BY <2>5, <2>9 DEF CallsInv
<1> QED BY <1>1, <1>2 DEF Acquire

\* An extraction ends or waits for its next attempt. (the outcomes of a call)
LEMMA OutcomeKeepsCalls ==
  ASSUME CallsInv, QuotaInv, NEW s \in Slots, Answered(s) \/ ServerFails(s)
  PROVE  CallsInv'
<1>1. /\ CallTyped /\ call \in [Slots -> Extractions] /\ call[s].at = "calling"
      /\ UNCHANGED <<now, granted, called>>
  BY DEF CallsInv, CallTyped, Answered, ServerFails, bucket
<1>2. /\ call[s] \in Extractions /\ call[s].attempt \in 1..Attempts
      /\ call[s].at # "idle"
  BY <1>1 DEF CallTyped
<1>3. PICK e \in Extractions :
        /\ call' = [call EXCEPT ![s] = e]
        /\ \/ e.at = "idle"
           \/ /\ e.at = "sleeping" /\ e.attempt = call[s].attempt
              /\ e.attempt < Attempts
  <2>1. Idle \in Extractions /\ Idle.at = "idle" BY DEF Idle, Extractions
  <2>2. CASE Answered(s) BY <2>1, <2>2 DEF Answered
  <2>3. CASE ServerFails(s)
    <3> DEFINE a == call[s].attempt
               e == [at |-> "sleeping", attempt |-> a, wake |-> now + Delay(a)]
    <3>1. a \in Nat BY <1>2, AttemptsType
    <3>2. CASE MayRetry(a)
      <4>1. a < Attempts
        <5>1. Len(Backoffs) \in Nat BY QuotaAssumption
        <5> QED BY <3>1, <3>2, <5>1 DEF MayRetry, Attempts
      <4>2. now + Delay(a) \in Nat
        <5>1. Delay(a) \in Nat BY <3>1, QuotaAssumption DEF Delay
        <5>2. now \in Nat BY DEF QuotaInv, Typed
        <5> QED BY <5>1, <5>2, NatSum, Zenon
      <4>3. e \in Extractions /\ e.at = "sleeping" /\ e.attempt = a
        BY <3>1, <4>2 DEF Extractions
      <4>4. call' = [call EXCEPT ![s] = e] BY <2>3, <3>2 DEF ServerFails
      <4> QED BY <4>1, <4>3, <4>4
    <3>3. CASE ~ MayRetry(a) BY <2>1, <2>3, <3>3 DEF ServerFails
    <3> QED BY <3>2, <3>3
  <2> QED BY <2>2, <2>3
<1>4. /\ CallTyped' /\ call' \in [Slots -> Extractions] /\ call'[s] = e
      /\ \A t \in Slots : t # s => call'[t] = call[t]
  BY <1>1, <1>2, <1>3, OneSlotMoves
<1> DEFINE r == Cardinality(Ahead(call))
           q == Cardinality(Ahead(call)')
<1>5. r \in Nat /\ q \in Nat /\ q <= r
  BY <1>1, <1>2, <1>3, <1>4, AheadMoves, Zenon DEF Ahead
<1> HIDE DEF r, q
<1>6. LogsArePast' /\ AllCharged' /\ CallsWithinRetries'
  BY <1>1, <1>5, QuietKeepsCharge, Zenon DEF CallsInv, QuotaInv, r, q
<1> QED BY <1>4, <1>6 DEF CallsInv

\* The next attempt on the same permit. (the retry loop of extract_invoice)
LEMMA RetryKeepsCalls ==
  ASSUME CallsInv, QuotaInv, QuotaInv', NEW s \in Slots, Retry(s)
  PROVE  CallsInv'
<1>1. /\ CallTyped /\ call \in [Slots -> Extractions] /\ call[s].at = "sleeping"
      /\ now' = now /\ granted' = granted /\ called' = Append(called, now)
  BY DEF CallsInv, CallTyped, Retry, bucket
<1> DEFINE e == Busy(call[s].attempt + 1)
<1>2. /\ call[s] \in Extractions /\ call[s].attempt \in 1..Attempts
      /\ call[s].attempt < Attempts /\ call[s].at # "idle"
  BY <1>1 DEF CallTyped
<1>3. /\ e \in Extractions /\ e.at = "calling" /\ e.attempt = call[s].attempt + 1
      /\ e.attempt \in 1..Attempts
  <2>1. call[s].attempt + 1 \in 1..Attempts /\ call[s].attempt + 1 \in Nat
    BY <1>2, AttemptsType
  <2> QED BY <2>1 DEF Busy, Extractions
<1>4. call' = [call EXCEPT ![s] = e] BY DEF Retry
<1> HIDE DEF e
<1>5. /\ CallTyped' /\ call' \in [Slots -> Extractions] /\ call'[s] = e
      /\ \A t \in Slots : t # s => call'[t] = call[t]
  BY <1>1, <1>3, <1>4, OneSlotMoves
<1> DEFINE r == Cardinality(Ahead(call))
           q == Cardinality(Ahead(call)')
<1>6. r \in Nat /\ q \in Nat /\ q + 1 <= r
  BY <1>1, <1>2, <1>3, <1>5, AheadMoves, Zenon DEF Ahead
<1>7. q + 1 <= Attempts * Cardinality(Slots)
  BY <1>3, <1>5, AheadBounded, Zenon DEF Ahead
<1>8. GrantsWithinLargest' /\ Typed BY DEF QuotaInv
<1> HIDE DEF r, q
<1>9. LogsArePast' /\ AllCharged' /\ CallsWithinRetries'
  BY <1>1, <1>6, <1>7, <1>8, CallKeepsCharge, Zenon DEF CallsInv, r, q
<1> QED BY <1>5, <1>9 DEF CallsInv

\* A step outside of the slots. (the clock, the refresh daemon)
LEMMA OutsideKeepsCalls ==
  ASSUME CallsInv, QuotaInv, UNCHANGED <<call, granted, called>>,
         now' = now \/ now' = now + 1
  PROVE  CallsInv'
<1>1. Ahead(call)' = Ahead(call) BY DEF Ahead
<1> DEFINE r == Cardinality(Ahead(call))
<1>2. r \in Nat /\ r <= r
  <2>1. IsFiniteSet(Slots \X (1..Attempts)) BY AttemptsType, FS_Product, Zenon
  <2>2. Ahead(call) \in SUBSET (Slots \X (1..Attempts)) BY DEF Ahead
  <2>3. r \in Nat BY <2>1, <2>2, FS_Subset, FS_CardinalityType, Zenon
  <2> QED BY <2>3, NotAfter, Zenon
<1>3. LogsArePast' /\ AllCharged' /\ CallsWithinRetries'
  BY <1>1, <1>2, QuietKeepsCharge, Zenon DEF CallsInv, QuotaInv
<1>4. CallTyped' BY DEF CallsInv, CallTyped
<1> QED BY <1>3, <1>4 DEF CallsInv

\* For any number of slots, any backoffs and any sequence of refreshes: in no
\* window is Gemini called more often than Len(Backoffs) + 1 times for each permit
\* of the window and each slot. (acquire, the retry loop of extract_invoice)
THEOREM CallsStayWithinRetries == Spec => []CallsWithinRetries
<1>1. Init => CallsInv
  <2> SUFFICES ASSUME Init PROVE CallsInv OBVIOUS
  <2>1. call = [s \in Slots |-> Idle] /\ called = <<>> /\ granted = <<>> BY DEF Init
  <2>2. CallTyped
    <3>1. Idle \in Extractions /\ Idle.at = "idle" BY DEF Idle, Extractions
    <3> QED BY <2>1, <3>1 DEF CallTyped
  <2>3. /\ called \in Seq(Nat) /\ 1..Len(called) = {} /\ 1..Len(granted) = {}
    BY <2>1
  <2> QED BY <2>2, <2>3 DEF CallsInv, LogsArePast, AllCharged, CallsWithinRetries
<1>2. CallsInv /\ QuotaInv /\ QuotaInv' /\ [Next]_vars => CallsInv'
  <2> SUFFICES ASSUME CallsInv, QuotaInv, QuotaInv', [Next]_vars PROVE CallsInv'
    OBVIOUS
  <2>1. CASE Tick BY <2>1, OutsideKeepsCalls DEF Tick, bucket
  <2>2. CASE RateRefresh BY <2>2, OutsideKeepsCalls DEF RateRefresh
  <2>3. CASE UNCHANGED vars BY <2>3, OutsideKeepsCalls DEF vars, bucket
  <2> QED
    BY <2>1, <2>2, <2>3, AcquireKeepsCalls, OutcomeKeepsCalls, RetryKeepsCalls
    DEF Next, Slot
<1>3. CallsInv => CallsWithinRetries BY DEF CallsInv
<1> QED BY <1>1, <1>2, <1>3, QuotaInvHolds, PTL DEF Spec
=============================================================================
