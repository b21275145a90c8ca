--------------------------- MODULE RateLimiterProofs ---------------------------
(***************************************************************************)
(* Theorems about RateLimiter, for any callers, limit, window and delay.   *)
(* What ties the buckets, which are all the code has, to the grants it     *)
(* gave is a Ledger per identity: a grant for each time in the bucket.     *)
(***************************************************************************)
EXTENDS RateLimiter, FiniteSetTheorems, TLAPS

-----------------------------------------------------------------------------
(* The invariant                                                           *)

Identities == {IdentityOf(c) : c \in Callers}

Grants == [by : Callers, at : Nat, nth : Nat]

\* A reading is of the clock, and no older than the way to the mutex takes.
ReadingsFresh ==
  \A c \in Callers : asking[c] = -1 \/ (asking[c] \in Nat /\ asking[c] <= now /\ now - asking[c] <= MaxDelay)

\* No bucket is kept without a time in it, nor with more than Limit.
BucketsBounded ==
  /\ DOMAIN identities \subseteq Identities
  /\ \A i \in DOMAIN identities :
       identities[i] \in Seq(Nat) /\ Len(identities[i]) \in 1..Limit

\* Grants of one caller in one moment are numbered, so that they are told apart.
Numbered ==
  \A g \in granted : g.nth < Cardinality({h \in granted : h.by = g.by /\ h.at = g.at})

\* The grants that the times of a bucket, in their order, stand for: among them every one
\* that the limit is about, and of those that are remembered each that has a time here.
Matches(bucket, i, e) ==
  /\ \A n \in 1..Len(bucket) :
       /\ IdentityOf(e[n].by) = i
       /\ bucket[n] <= e[n].at /\ e[n].at <= bucket[n] + MaxDelay /\ e[n].at <= now
       /\ e[n].at >= now - (Window + MaxDelay) => e[n] \in granted
  /\ \A m, n \in 1..Len(bucket) : m < n => e[m] # e[n] /\ e[m].at <= e[n].at
  /\ \A g \in granted :
       IdentityOf(g.by) = i /\ g.at >= now - (Window - MaxDelay) =>
         \E n \in 1..Len(bucket) : e[n] = g

Ledgers(bucket, i) == {e \in [1..Len(bucket) -> Grants] : Matches(bucket, i, e)}

Accounted == \A i \in Identities : Ledgers(Bucket(i), i) # {}

LimiterInv ==
  /\ now \in Nat
  /\ asking \in [Callers -> Int]
  /\ verdict \in [Callers -> {"none", "granted", "denied"}]
  /\ granted \subseteq Grants /\ IsFiniteSet(granted)
  /\ \A g \in granted : g.at <= now
  /\ ReadingsFresh
  /\ BucketsBounded
  /\ Numbered
  /\ Accounted

-----------------------------------------------------------------------------
(* Buckets                                                                 *)

LEMMA NumbersAre ==
  /\ Limit \in Nat /\ Limit >= 1 /\ Window \in Nat /\ MaxDelay \in Nat /\ MaxDelay <= Window
BY LimiterAssumption

LEMMA Counted == ASSUME NEW n \in Nat PROVE IsFiniteSet(1..n) /\ Cardinality(1..n) = n
BY FS_Interval

\* What is in a set that holds with each place of a sequence all later ones.
LEMMA Suffix ==
  ASSUME NEW len \in Nat, NEW K \in SUBSET (1..len),
         \A x \in K, y \in 1..len : x <= y => y \in K
  PROVE  /\ Cardinality(K) \in 0..len
         /\ \A x \in 1..len : x \in K <=> x > len - Cardinality(K)
<1>1. IsFiniteSet(1..len) /\ Cardinality(1..len) = len
  BY Counted
<1>2. IsFiniteSet(K) /\ Cardinality(K) \in Nat /\ Cardinality(K) <= len
  BY <1>1, FS_Subset, FS_CardinalityType
<1>3. ASSUME NEW x \in K PROVE x > len - Cardinality(K)
  <2>1. x..len \subseteq K /\ x \in 1..len
    OBVIOUS
  <2>2. Cardinality(x..len) = len - x + 1
    BY <2>1, FS_Interval
  <2>3. Cardinality(x..len) <= Cardinality(K)
    BY <1>2, <2>1, FS_Subset
  <2> QED
    BY <1>2, <2>1, <2>2, <2>3
<1>4. ASSUME NEW x \in 1..len, x \notin K PROVE x <= len - Cardinality(K)
  <2>1. K \subseteq x + 1..len
    BY <1>4
  <2>2. IsFiniteSet(x + 1..len) /\ Cardinality(x + 1..len) = len - x
    BY FS_Interval
  <2>3. K \in SUBSET (x + 1..len)
    BY <2>1
  <2>4. Cardinality(K) <= Cardinality(x + 1..len)
    BY <2>2, <2>3, FS_Subset
  <2> QED
    BY <1>2, <2>2, <2>4
<1> QED
  BY <1>2, <1>3, <1>4

\* Pruning takes the times before the first that has not expired.
LEMMA PrunedIs ==
  ASSUME NEW bucket \in Seq(Nat), NEW s \in Int
  PROVE  \E k \in 0..Len(bucket) :
           /\ Pruned(bucket, s) \in Seq(Nat) /\ Len(Pruned(bucket, s)) = Len(bucket) - k
           /\ \A n \in 1..Len(bucket) - k : Pruned(bucket, s)[n] = bucket[n + k]
           /\ \A n \in 1..k : Expired(bucket[n], s)
           /\ k < Len(bucket) => ~Expired(bucket[k + 1], s)
<1> DEFINE K == {n \in 1..Len(bucket) : \E m \in 1..n : ~Expired(bucket[m], s)}
           k == Len(bucket) - Cardinality(K)
<1>1. Len(bucket) \in Nat
  OBVIOUS
<1>2. K \in SUBSET (1..Len(bucket)) /\ \A x \in K, y \in 1..Len(bucket) : x <= y => y \in K
  OBVIOUS
<1>3. /\ Cardinality(K) \in 0..Len(bucket)
      /\ \A x \in 1..Len(bucket) : x \in K <=> x > Len(bucket) - Cardinality(K)
  <2> HIDE DEF K
  <2> QED
    BY <1>1, <1>2, Suffix
<1>4. k \in 0..Len(bucket) /\ \A x \in 1..Len(bucket) : x \in K <=> x > k
  <2> HIDE DEF K
  <2> QED
    BY <1>1, <1>3
<1>5. Pruned(bucket, s) = SubSeq(bucket, k + 1, Len(bucket))
  BY DEF Pruned
<1> HIDE DEF k
<1>6. \A n \in 1..k : Expired(bucket[n], s)
  BY <1>1, <1>4
<1>7. k < Len(bucket) => ~Expired(bucket[k + 1], s)
  <2>1. SUFFICES ASSUME k < Len(bucket) PROVE ~Expired(bucket[k + 1], s)
    OBVIOUS
  <2>2. k + 1 \in K
    BY <1>1, <1>4, <2>1
  <2>3. PICK m \in 1..k + 1 : ~Expired(bucket[m], s)
    BY <2>2
  <2>4. m \notin 1..k
    BY <1>6, <2>3
  <2> QED
    BY <1>4, <2>3, <2>4
<1>8. /\ Pruned(bucket, s) \in Seq(Nat) /\ Len(Pruned(bucket, s)) = Len(bucket) - k
      /\ \A n \in 1..Len(bucket) - k : Pruned(bucket, s)[n] = bucket[n + k]
  BY <1>1, <1>4, <1>5
<1> QED
  BY <1>4, <1>6, <1>7, <1>8

LEMMA WithIs ==
  ASSUME NEW i, NEW b
  PROVE  /\ DOMAIN With(i, b) = DOMAIN identities \cup {i} /\ With(i, b)[i] = b
         /\ \A j \in DOMAIN identities \ {i} : With(i, b)[j] = identities[j]
BY DEF With

\* The bound takes buckets whose newest time has expired, and no others.
LEMMA BoundedIs ==
  ASSUME NEW map, NEW s
  PROVE  /\ DOMAIN Bounded(map, s) \subseteq DOMAIN map
         /\ \A j \in DOMAIN Bounded(map, s) : Bounded(map, s)[j] = map[j]
         /\ \A j \in DOMAIN map \ DOMAIN Bounded(map, s) : Expired(map[j][Len(map[j])], s)
BY DEF Bounded

-----------------------------------------------------------------------------
(* Ledgers                                                                 *)

\* Readings and expiry: a time that is as old as the limit asks for, or younger, is never
\* taken out, and one that stays in a pruned bucket is of a grant that is remembered.
LEMMA Young ==
  ASSUME LimiterInv, NEW c \in Callers, asking[c] # -1
  PROVE  /\ asking[c] \in Nat /\ asking[c] <= now /\ now <= asking[c] + MaxDelay
         /\ \A t \in Nat, a \in Nat :
              Expired(t, asking[c]) /\ a <= t + MaxDelay => a < now - (Window - MaxDelay)
         /\ \A t \in Nat, a \in Nat :
              ~Expired(t, asking[c]) /\ t <= a => a >= now - (Window + MaxDelay)
BY NumbersAre DEF LimiterInv, ReadingsFresh, Expired

\* What is left of a bucket when it is pruned has the rest of its ledger, and every grant
\* in it is remembered.
LEMMA PrunedLedger ==
  ASSUME LimiterInv, NEW c \in Callers, asking[c] # -1, NEW i \in Identities,
         NEW bucket \in Seq(Nat), NEW e \in Ledgers(bucket, i)
  PROVE  \E d \in Ledgers(Pruned(bucket, asking[c]), i) :
           \A n \in DOMAIN d : d[n] \in granted /\ d[n].at >= now - (Window + MaxDelay)
<1>0. asking[c] \in Int
  BY Young
<1>1. PICK k \in 0..Len(bucket) :
        /\ Pruned(bucket, asking[c]) \in Seq(Nat) /\ Len(Pruned(bucket, asking[c])) = Len(bucket) - k
        /\ \A n \in 1..Len(bucket) - k : Pruned(bucket, asking[c])[n] = bucket[n + k]
        /\ \A n \in 1..k : Expired(bucket[n], asking[c])
        /\ k < Len(bucket) => ~Expired(bucket[k + 1], asking[c])
  BY <1>0, PrunedIs
<1>2. PICK rest : rest = Pruned(bucket, asking[c])
  OBVIOUS
<1>3. Matches(bucket, i, e) /\ e \in [1..Len(bucket) -> Grants] /\ Len(bucket) \in Nat /\ now \in Nat
  BY DEF Ledgers, LimiterInv
<1> DEFINE d == [n \in 1..Len(bucket) - k |-> e[n + k]]
<1>a. /\ Len(rest) = Len(bucket) - k /\ k \in Nat /\ Len(rest) \in Nat /\ rest \in Seq(Nat)
      /\ \A n \in 1..Len(rest) : n \in Nat /\ n + k \in 1..Len(bucket)
  BY <1>1, <1>2, <1>3
<1>4. d \in [1..Len(rest) -> Grants] /\ \A n \in 1..Len(rest) : d[n] = e[n + k]
  BY <1>a, <1>3
<1> HIDE DEF d
<1>b. \A n \in 1..Len(rest) : d[n].at \in Nat
  <2>1. \A n \in 1..Len(rest) : d[n] \in Grants
    BY <1>4
  <2> QED
    BY <2>1 DEF Grants
<1>5. \A n \in 1..Len(rest) : rest[n] = bucket[n + k] /\ rest[n] \in Nat /\ d[n].at \in Nat
  <2> TAKE n \in 1..Len(rest)
  <2>1. rest[n] = bucket[n + k]
    BY <1>1, <1>2, <1>a
  <2>2. rest[n] \in Nat
    <3>1. rest \in Seq(Nat)
      BY <1>a
    <3> QED
      BY <3>1
  <2>3. d[n].at \in Nat
    BY <1>b
  <2> QED
    BY <2>1, <2>2, <2>3
<1>6. \A n \in 1..Len(rest) :
        /\ IdentityOf(d[n].by) = i
        /\ rest[n] <= d[n].at /\ d[n].at <= rest[n] + MaxDelay /\ d[n].at <= now
        /\ d[n].at >= now - (Window + MaxDelay) => d[n] \in granted
  <2> TAKE n \in 1..Len(rest)
  <2>1. n + k \in 1..Len(bucket) /\ d[n] = e[n + k] /\ rest[n] = bucket[n + k]
    BY <1>a, <1>4, <1>5
  <2> QED
    BY <1>3, <2>1 DEF Matches
<1>7. \A m, n \in 1..Len(rest) : m < n => d[m] # d[n] /\ d[m].at <= d[n].at
  <2> SUFFICES ASSUME NEW m \in 1..Len(rest), NEW n \in 1..Len(rest), m < n
               PROVE  d[m] # d[n] /\ d[m].at <= d[n].at
    OBVIOUS
  <2>1. m + k \in 1..Len(bucket) /\ n + k \in 1..Len(bucket) /\ m + k < n + k
    BY <1>a
  <2>2. d[n] = e[n + k] /\ d[m] = e[m + k]
    BY <1>4
  <2> QED
    BY <1>3, <2>1, <2>2 DEF Matches
<1>8. ASSUME NEW g \in granted, IdentityOf(g.by) = i, g.at >= now - (Window - MaxDelay)
      PROVE  \E n \in 1..Len(rest) : d[n] = g
  <2>1. PICK n \in 1..Len(bucket) : e[n] = g
    BY <1>3, <1>8 DEF Matches
  <2>2. n \notin 1..k
    <3>1. bucket[n] \in Nat /\ g.at \in Nat /\ g.at <= bucket[n] + MaxDelay
      BY <1>3, <2>1 DEF Matches, Grants
    <3>2. ~Expired(bucket[n], asking[c])
      <4>1. ~(g.at < now - (Window - MaxDelay))
        BY <1>3, <1>8, <3>1, NumbersAre
      <4> QED
        BY <3>1, <4>1, Young
    <3> QED
      BY <1>1, <3>2
  <2>3. n - k \in 1..Len(rest) /\ (n - k) + k = n
    BY <1>a, <2>2
  <2> QED
    BY <1>4, <2>1, <2>3
<1>9. d \in Ledgers(rest, i)
  BY <1>4, <1>6, <1>7, <1>8 DEF Ledgers, Matches
<1>10. \A n \in 1..Len(rest) : d[n] \in granted /\ d[n].at >= now - (Window + MaxDelay)
  <2>1. SUFFICES ASSUME NEW n \in 1..Len(rest) PROVE d[n].at >= now - (Window + MaxDelay)
    BY <1>6
  <2>2. 1 \in 1..Len(rest) /\ ~Expired(rest[1], asking[c])
    <3>1. /\ Len(rest) = Len(bucket) - k /\ Len(rest) \in Nat
          /\ k \in Nat /\ Len(bucket) \in Nat
      BY <1>3, <1>a
    <3>2. 1 \in 1..Len(rest) /\ k < Len(bucket) /\ 1 + k = k + 1
      BY <3>1
    <3>3. ~Expired(bucket[k + 1], asking[c])
      BY <1>1, <3>2
    <3>4. rest[1] = bucket[1 + k]
      BY <1>5, <3>2
    <3> QED
      BY <3>2, <3>3, <3>4
  <2>3. d[1].at >= now - (Window + MaxDelay)
    BY <1>5, <1>6, <2>2, Young
  <2>4. d[1].at <= d[n].at
    <3>1. d[1].at \in Nat /\ d[n].at \in Nat
      BY <1>b, <2>2
    <3>2. 1 < n => d[1].at <= d[n].at
      BY <1>7, <2>2
    <3>3. n = 1 \/ 1 < n
      BY <1>a
    <3> QED
      BY <3>1, <3>2, <3>3
  <2>5. d[1].at \in Nat /\ d[n].at \in Nat /\ now - (Window + MaxDelay) \in Int
    BY <1>3, <1>5, <2>2, NumbersAre
  <2>6. \A x, y \in Nat, z \in Int : x >= z /\ x <= y => y >= z
    OBVIOUS
  <2> QED
    BY <2>3, <2>4, <2>5, <2>6
<1> QED
  BY <1>2, <1>4, <1>9, <1>10

\* A ledger stays one as time passes and as others are granted requests.
LEMMA LedgerStays ==
  ASSUME now \in Nat, now' \in Nat, now <= now', NEW i, NEW bucket \in Seq(Nat),
         NEW e \in Ledgers(bucket, i),
         \A g \in granted : g.at >= now' - (Window + MaxDelay) => g \in granted',
         granted' \subseteq Grants, \A g \in granted' : IdentityOf(g.by) = i => g \in granted
  PROVE  e \in Ledgers(bucket, i)'
<1>1. e \in [1..Len(bucket) -> Grants] /\ Matches(bucket, i, e) /\ Len(bucket) \in Nat
  BY DEF Ledgers
<1>2. \A n \in 1..Len(bucket) :
        /\ IdentityOf(e[n].by) = i
        /\ bucket[n] <= e[n].at /\ e[n].at <= bucket[n] + MaxDelay /\ e[n].at <= now'
        /\ e[n].at >= now' - (Window + MaxDelay) => e[n] \in granted'
  <2> TAKE n \in 1..Len(bucket)
  <2>1. e[n].at \in Nat
    BY <1>1 DEF Grants
  <2>2. /\ IdentityOf(e[n].by) = i
        /\ bucket[n] <= e[n].at /\ e[n].at <= bucket[n] + MaxDelay /\ e[n].at <= now
        /\ e[n].at >= now - (Window + MaxDelay) => e[n] \in granted
    BY <1>1 DEF Matches
  <2>3. e[n].at >= now' - (Window + MaxDelay) => e[n].at >= now - (Window + MaxDelay)
    BY <2>1, NumbersAre
  <2>4. e[n].at <= now'
    BY <2>1, <2>2
  <2> QED
    BY <2>2, <2>3, <2>4
<1>3. ASSUME NEW g \in granted', IdentityOf(g.by) = i, g.at >= now' - (Window - MaxDelay)
      PROVE  \E n \in 1..Len(bucket) : e[n] = g
  <2>1. g \in granted /\ g.at \in Nat
    BY <1>3 DEF Grants
  <2>2. g.at >= now - (Window - MaxDelay)
    BY <1>3, <2>1, NumbersAre
  <2> QED
    BY <1>1, <1>3, <2>1, <2>2 DEF Matches
<1>4. Matches(bucket, i, e)'
  BY <1>1, <1>2, <1>3 DEF Matches
<1> QED
  BY <1>1, <1>4 DEF Ledgers

\* Ledgers of what the buckets are next make the next state accounted for.
LEMMA Joined ==
  ASSUME \A i \in Identities : \E b : Bucket(i)' = b /\ Ledgers(b, i)' # {} PROVE Accounted'
<1>1. ASSUME NEW i \in Identities PROVE (Ledgers(Bucket(i), i) # {})'
  <2>1. PICK b : Bucket(i)' = b /\ Ledgers(b, i)' # {}
    OBVIOUS
  <2> QED
    BY <2>1 DEF Ledgers, Matches
<1> QED
  BY <1>1 DEF Accounted, Identities

\* A bucket is a sequence of times.
LEMMA BucketIs ==
  ASSUME LimiterInv, NEW i \in Identities
  PROVE  Bucket(i) \in Seq(Nat) /\ \E e : e \in Ledgers(Bucket(i), i)
BY DEF LimiterInv, BucketsBounded, Bucket, Accounted

-----------------------------------------------------------------------------
(* It is inductive                                                         *)

LEMMA LimiterInit == Init => LimiterInv
<1> SUFFICES ASSUME Init PROVE LimiterInv
  OBVIOUS
<1>1. /\ now = 0 /\ granted = {} /\ DOMAIN identities = {} /\ asking = [c \in Callers |-> -1]
      /\ verdict = [c \in Callers |-> "none"]
  BY DEF Init
<1>2. ASSUME NEW i \in Identities PROVE Ledgers(Bucket(i), i) # {}
  <2>1. Bucket(i) = <<>> /\ Len(<<>>) = 0
    BY <1>1 DEF Bucket
  <2>2. [n \in 1..0 |-> n] \in Ledgers(<<>>, i)
    BY <1>1, <2>1 DEF Ledgers, Matches
  <2> QED
    BY <2>1, <2>2
<1>3. ReadingsFresh /\ BucketsBounded /\ Numbered /\ IsFiniteSet(granted)
  BY <1>1, FS_EmptySet DEF ReadingsFresh, BucketsBounded, Numbered
<1> QED
  BY <1>1, <1>2, <1>3 DEF LimiterInv, Accounted

\* Steps that leave the buckets alone and only forget grants.
LEMMA QuietKeeps ==
  ASSUME LimiterInv, UNCHANGED identities, now' \in Nat, now <= now',
         asking' \in [Callers -> Int], ReadingsFresh',
         verdict' \in [Callers -> {"none", "granted", "denied"}],
         granted' \subseteq granted, \A g \in granted : g.at >= now' - (Window + MaxDelay) => g \in granted',
         \A g \in granted', h \in granted : h.at = g.at => h \in granted'
  PROVE  LimiterInv'
<1>1. granted' \subseteq Grants /\ IsFiniteSet(granted')
  BY FS_Subset DEF LimiterInv
<1>2. \A g \in granted' : g.at <= now'
  BY <1>1 DEF LimiterInv, Grants
<1>3. BucketsBounded'
  BY DEF LimiterInv, BucketsBounded
<1>4. Numbered'
  <2>1. ASSUME NEW g \in granted' PROVE g.nth < Cardinality({h \in granted' : h.by = g.by /\ h.at = g.at})
    <3>1. {h \in granted' : h.by = g.by /\ h.at = g.at} = {h \in granted : h.by = g.by /\ h.at = g.at}
      OBVIOUS
    <3> QED
      BY <3>1 DEF LimiterInv, Numbered
  <2> QED
    BY <2>1 DEF Numbered
<1>5. Accounted'
  <2>1. ASSUME NEW i \in Identities PROVE \E b : Bucket(i)' = b /\ Ledgers(b, i)' # {}
    <3>1. PICK b, e : b \in Seq(Nat) /\ b = Bucket(i) /\ e \in Ledgers(b, i)
      BY BucketIs
    <3>2. Bucket(i)' = b
      BY <3>1 DEF Bucket
    <3>3. e \in Ledgers(b, i)'
      BY <1>1, <3>1, LedgerStays DEF LimiterInv
    <3> QED
      BY <3>2, <3>3
  <2> QED
    BY <2>1, Joined
<1> QED
  BY <1>1, <1>2, <1>3, <1>4, <1>5 DEF LimiterInv

LEMMA AskKeeps == ASSUME LimiterInv, NEW c \in Callers, Ask(c) PROVE LimiterInv'
<1>1. UNCHANGED <<now, identities, granted>> /\ asking' = [asking EXCEPT ![c] = now] /\ now \in Nat
  BY DEF Ask, LimiterInv
<1>2. asking' \in [Callers -> Int] /\ ReadingsFresh'
  BY <1>1, NumbersAre DEF LimiterInv, ReadingsFresh
<1>3. verdict' \in [Callers -> {"none", "granted", "denied"}]
  BY DEF Ask, Tick, LimiterInv
<1> QED
  BY <1>1, <1>2, <1>3, QuietKeeps

LEMMA TickKeeps == ASSUME LimiterInv, Tick PROVE LimiterInv'
<1>1. /\ UNCHANGED <<identities, asking>> /\ now \in Nat /\ now' = now + 1
      /\ granted' = {g \in granted : g.at >= now' - (Window + MaxDelay)}
      /\ \A c \in Callers : asking[c] = -1 \/ now - asking[c] < MaxDelay
  BY DEF Tick, LimiterInv
<1>2. asking' \in [Callers -> Int] /\ ReadingsFresh'
  BY <1>1, NumbersAre DEF LimiterInv, ReadingsFresh
<1>3. verdict' \in [Callers -> {"none", "granted", "denied"}]
  BY DEF Ask, Tick, LimiterInv
<1> QED
  BY <1>1, <1>2, <1>3, QuietKeeps

\* What a caller is judged by: its pruned bucket, and the ledger of that.
LEMMA Judged ==
  ASSUME LimiterInv, NEW c \in Callers, asking[c] # -1
  PROVE  \E rest \in Seq(Nat) :
           /\ rest = Pruned(Bucket(IdentityOf(c)), asking[c]) /\ Len(rest) <= Limit
           /\ \E d \in Ledgers(rest, IdentityOf(c)) :
                \A n \in DOMAIN d : d[n] \in granted /\ d[n].at >= now - (Window + MaxDelay)
<1>1. IdentityOf(c) \in Identities
  BY DEF Identities
<1>2. PICK b, e : b \in Seq(Nat) /\ b = Bucket(IdentityOf(c)) /\ e \in Ledgers(b, IdentityOf(c))
  BY <1>1, BucketIs
<1>3. asking[c] \in Int
  BY Young
<1>4. Len(b) <= Limit
  BY <1>2, NumbersAre DEF LimiterInv, BucketsBounded, Bucket
<1>5. Pruned(b, asking[c]) \in Seq(Nat) /\ Len(Pruned(b, asking[c])) <= Len(b)
  <2>1. PICK k \in 0..Len(b) :
          Pruned(b, asking[c]) \in Seq(Nat) /\ Len(Pruned(b, asking[c])) = Len(b) - k
    BY <1>2, <1>3, PrunedIs
  <2> QED
    BY <2>1
<1>6. Len(Pruned(b, asking[c])) <= Limit
  BY <1>4, <1>5, NumbersAre
<1> QED
  BY <1>1, <1>2, <1>5, <1>6, PrunedLedger

\* Buckets of others: kept as they are, or dropped when the limit asks for nothing in them.
LEMMA OthersStay ==
  ASSUME LimiterInv, NEW c \in Callers, asking[c] # -1, now' = now, granted \subseteq granted',
         granted' \subseteq Grants,
         \A g \in granted' : g \in granted \/ IdentityOf(g.by) = IdentityOf(c),
         NEW j \in Identities, j # IdentityOf(c),
         \/ Bucket(j)' = Bucket(j)
         \/ /\ Bucket(j)' = <<>> /\ Len(Bucket(j)) > 0
            /\ Expired(Bucket(j)[Len(Bucket(j))], asking[c])
  PROVE  \E b : Bucket(j)' = b /\ Ledgers(b, j)' # {}
<1>1. PICK b, e : b \in Seq(Nat) /\ b = Bucket(j) /\ e \in Ledgers(b, j)
  BY BucketIs
<1>2. now \in Nat /\ Len(b) \in Nat
  BY DEF LimiterInv
<1>3. CASE Bucket(j)' = b
  <2>1. e \in Ledgers(b, j)'
    BY <1>1, <1>2, LedgerStays
  <2> QED
    BY <1>3, <2>1
<1>4. CASE Bucket(j)' = <<>> /\ Len(b) > 0 /\ Expired(b[Len(b)], asking[c])
  <2>1. e \in [1..Len(b) -> Grants] /\ Matches(b, j, e) /\ Len(b) \in 1..Len(b)
    BY <1>1, <1>2, <1>4 DEF Ledgers
  <2>2. \A n \in 1..Len(b) : e[n].at < now - (Window - MaxDelay)
    <3>1. e[Len(b)].at < now - (Window - MaxDelay)
      <4>1. e[Len(b)].at \in Nat /\ b[Len(b)] \in Nat /\ e[Len(b)].at <= b[Len(b)] + MaxDelay
        BY <1>1, <2>1 DEF Matches, Grants
      <4> QED
        BY <1>4, <4>1, Young
    <3> TAKE n \in 1..Len(b)
    <3>2. e[n].at <= e[Len(b)].at /\ e[n].at \in Nat /\ e[Len(b)].at \in Nat
      <4>1. e[n].at \in Nat /\ e[Len(b)].at \in Nat
        BY <2>1 DEF Grants
      <4>2. n < Len(b) => e[n].at <= e[Len(b)].at
        BY <2>1 DEF Matches
      <4>3. n < Len(b) \/ n = Len(b)
        BY <1>2
      <4> QED
        BY <4>1, <4>2, <4>3
    <3>3. \A x, y \in Nat, z \in Int : x <= y /\ y < z => x < z
      OBVIOUS
    <3>4. now - (Window - MaxDelay) \in Int
      BY <1>2, NumbersAre
    <3> QED
      BY <3>1, <3>2, <3>3, <3>4
  <2>3. \A g \in granted' : IdentityOf(g.by) = j => ~(g.at >= now' - (Window - MaxDelay))
    <3> SUFFICES ASSUME NEW g \in granted', IdentityOf(g.by) = j
                 PROVE  ~(g.at >= now - (Window - MaxDelay))
      OBVIOUS
    <3>1. g \in granted /\ g.at \in Nat /\ now - (Window - MaxDelay) \in Int
      BY <1>2, NumbersAre DEF Grants
    <3>2. SUFFICES ASSUME g.at >= now - (Window - MaxDelay) PROVE FALSE
      OBVIOUS
    <3>3. PICK n \in 1..Len(b) : e[n] = g
      BY <2>1, <3>1, <3>2 DEF Matches
    <3> QED
      BY <2>2, <3>1, <3>2, <3>3
  <2>4. [n \in 1..0 |-> n] \in Ledgers(<<>>, j)'
    <3>1. Len(<<>>) = 0
      OBVIOUS
    <3> QED
      BY <2>3, <3>1 DEF Ledgers, Matches
  <2> QED
    BY <1>4, <2>4
<1> QED
  BY <1>1, <1>3, <1>4

LEMMA DenyKeeps == ASSUME LimiterInv, NEW c \in Callers, Deny(c) PROVE LimiterInv'
<1>1. PICK i \in Identities : i = IdentityOf(c)
  BY DEF Identities
<1>2. asking[c] # -1 /\ UNCHANGED <<now, granted>> /\ now \in Nat
  BY DEF Deny, LimiterInv
<1>3. PICK rest \in Seq(Nat) :
        /\ rest = Pruned(Bucket(i), asking[c]) /\ Len(rest) <= Limit
        /\ \E d \in Ledgers(rest, i) : \A n \in DOMAIN d : d[n] \in granted
  BY <1>1, <1>2, Judged
<1>4. identities' = With(i, rest) /\ Len(rest) >= Limit /\ asking' = [asking EXCEPT ![c] = -1]
  BY <1>1, <1>3 DEF Deny
<1>a. /\ DOMAIN identities' = DOMAIN identities \cup {i} /\ identities'[i] = rest
      /\ \A j \in DOMAIN identities \ {i} : identities'[j] = identities[j]
  BY <1>4 DEF With
<1>5. /\ asking' \in [Callers -> Int] /\ ReadingsFresh'
      /\ verdict' \in [Callers -> {"none", "granted", "denied"}]
  BY <1>2, <1>4 DEF LimiterInv, ReadingsFresh, Deny
<1>6. BucketsBounded'
  <2>1. Len(rest) \in 1..Limit
    BY <1>3, <1>4, NumbersAre
  <2>2. Identities' = Identities
    BY DEF Identities, IdentityOf
  <2> QED
    BY <1>a, <2>1, <2>2 DEF LimiterInv, BucketsBounded
<1>7. Bucket(i)' = rest /\ \A j \in Identities : j # i => Bucket(j)' = Bucket(j)
  BY <1>a DEF Bucket
<1>8. Accounted'
  <2>1. \E b : Bucket(i)' = b /\ Ledgers(b, i)' # {}
    BY <1>2, <1>3, <1>7, LedgerStays DEF LimiterInv
  <2>2. ASSUME NEW j \in Identities, j # i PROVE \E b : Bucket(j)' = b /\ Ledgers(b, j)' # {}
    BY <1>1, <1>2, <1>7, <2>2, OthersStay DEF LimiterInv
  <2> QED
    BY <2>1, <2>2, Joined
<1>9. Numbered'
  BY <1>2 DEF LimiterInv, Numbered
<1> QED
  BY <1>2, <1>5, <1>6, <1>8, <1>9 DEF LimiterInv

\* A ledger grows by the grant that is given.
LEMMA LedgerGrows ==
  ASSUME LimiterInv, NEW c \in Callers, NEW i \in Identities, i = IdentityOf(c),
         NEW s \in Nat, s <= now, now <= s + MaxDelay,
         NEW rest \in Seq(Nat), NEW d \in Ledgers(rest, i), NEW b, b = Append(rest, s),
         NEW new \in Grants, new.by = c, new.at = now, new \notin granted,
         now' = now, granted' = granted \cup {new}
  PROVE  Ledgers(b, i)' # {}
<1> DEFINE e == [n \in 1..Len(rest) + 1 |-> IF n <= Len(rest) THEN d[n] ELSE new]
<1>1. /\ now \in Nat /\ Len(rest) \in Nat /\ Len(b) = Len(rest) + 1 /\ b[Len(b)] = s
      /\ \A n \in 1..Len(rest) : b[n] = rest[n]
      /\ d \in [1..Len(rest) -> Grants] /\ Matches(rest, i, d)
  BY DEF LimiterInv, Ledgers
<1>2. /\ e \in [1..Len(b) -> Grants] /\ e[Len(b)] = new
      /\ \A n \in 1..Len(rest) : e[n] = d[n] /\ n \in 1..Len(b)
      /\ \A n \in 1..Len(b) : n = Len(b) \/ n \in 1..Len(rest)
  BY <1>1
<1> HIDE DEF e
<1>3. \A n \in 1..Len(b) :
        /\ IdentityOf(e[n].by) = i
        /\ b[n] <= e[n].at /\ e[n].at <= b[n] + MaxDelay /\ e[n].at <= now'
        /\ e[n].at >= now' - (Window + MaxDelay) => e[n] \in granted'
  <2> TAKE n \in 1..Len(b)
  <2>1. CASE n = Len(b)
    BY <1>1, <1>2, <2>1
  <2>2. CASE n \in 1..Len(rest)
    BY <1>1, <1>2, <2>2 DEF Matches
  <2> QED
    BY <1>2, <2>1, <2>2
<1>4. \A m, n \in 1..Len(b) : m < n => e[m] # e[n] /\ e[m].at <= e[n].at
  <2> SUFFICES ASSUME NEW m \in 1..Len(b), NEW n \in 1..Len(b), m < n
               PROVE  e[m] # e[n] /\ e[m].at <= e[n].at
    OBVIOUS
  <2>1. m \in 1..Len(rest) /\ e[m] = d[m]
    BY <1>1, <1>2
  <2>2. CASE n = Len(b)
    <3>1. d[m].at <= now /\ (d[m].at >= now - (Window + MaxDelay) => d[m] \in granted)
      BY <1>1, <2>1 DEF Matches
    <3>2. now >= now - (Window + MaxDelay)
      BY <1>1, NumbersAre
    <3> QED
      BY <1>2, <2>1, <2>2, <3>1, <3>2
  <2>3. CASE n \in 1..Len(rest)
    BY <1>1, <1>2, <2>1, <2>3 DEF Matches
  <2> QED
    BY <1>2, <2>2, <2>3
<1>5. ASSUME NEW g \in granted', IdentityOf(g.by) = i, g.at >= now' - (Window - MaxDelay)
      PROVE  \E n \in 1..Len(b) : e[n] = g
  <2>1. CASE g = new
    BY <1>1, <1>2, <2>1
  <2>2. CASE g \in granted
    <3>1. PICK n \in 1..Len(rest) : d[n] = g
      BY <1>1, <1>5, <2>2 DEF Matches
    <3> QED
      BY <1>2, <3>1
  <2> QED
    BY <2>1, <2>2
<1>6. e \in Ledgers(b, i)'
  BY <1>2, <1>3, <1>4, <1>5 DEF Ledgers, Matches
<1> QED
  BY <1>6

LEMMA GrantKeeps == ASSUME LimiterInv, NEW c \in Callers, Grant(c) PROVE LimiterInv'
<1>1. PICK i \in Identities : i = IdentityOf(c)
  BY DEF Identities
<1>2. asking[c] # -1 /\ now' = now /\ now \in Nat
  BY DEF Grant, LimiterInv
<1>3. PICK rest \in Seq(Nat), d \in Ledgers(Pruned(Bucket(i), asking[c]), i) :
        rest = Pruned(Bucket(i), asking[c]) /\ Len(rest) <= Limit
  BY <1>1, <1>2, Judged
<1>4. PICK s \in Nat : s = asking[c]
  BY <1>2, Young
<1>5. PICK b : b = Append(rest, s)
  OBVIOUS
<1>6. PICK new : new = [by |-> c, at |-> now,
                       nth |-> Cardinality({g \in granted : g.by = c /\ g.at = now})]
  OBVIOUS
<1>7. /\ Len(rest) < Limit /\ identities' = Bounded(With(i, b), s) /\ granted' = granted \cup {new}
      /\ asking' = [asking EXCEPT ![c] = -1]
  BY <1>1, <1>3, <1>4, <1>5, <1>6 DEF Grant
<1>8. /\ b \in Seq(Nat) /\ Len(b) = Len(rest) + 1 /\ Len(rest) \in Nat /\ b[Len(b)] = s
      /\ \A n \in 1..Len(rest) : b[n] = rest[n]
  BY <1>3, <1>4, <1>5
<1>9. /\ IsFiniteSet({g \in granted : g.by = c /\ g.at = now})
      /\ Cardinality({g \in granted : g.by = c /\ g.at = now}) \in Nat
  <2>1. {g \in granted : g.by = c /\ g.at = now} \in SUBSET granted /\ IsFiniteSet(granted)
    BY DEF LimiterInv
  <2> QED
    BY <2>1, FS_Subset, FS_CardinalityType
<1>10. new \in Grants /\ new.by = c /\ new.at = now
  BY <1>2, <1>6, <1>9 DEF Grants
<1>11. new \notin granted
  <2>1. SUFFICES ASSUME new \in granted PROVE FALSE
    OBVIOUS
  <2>2. new.nth < Cardinality({h \in granted : h.by = new.by /\ h.at = new.at})
    BY <2>1 DEF LimiterInv, Numbered
  <2>3. {h \in granted : h.by = new.by /\ h.at = new.at} = {g \in granted : g.by = c /\ g.at = now}
    BY <1>10
  <2>4. new.nth = Cardinality({g \in granted : g.by = c /\ g.at = now})
    BY <1>6
  <2>5. PICK k \in Nat : k = Cardinality({g \in granted : g.by = c /\ g.at = now})
    BY <1>9
  <2>6. new.nth = k /\ Cardinality({h \in granted : h.by = new.by /\ h.at = new.at}) = k
    BY <2>3, <2>4, <2>5
  <2>7. k < k
    BY <2>2, <2>6
  <2> QED
    BY <2>7
<1>12. /\ asking' \in [Callers -> Int] /\ ReadingsFresh'
       /\ verdict' \in [Callers -> {"none", "granted", "denied"}]
  BY <1>2, <1>7 DEF LimiterInv, ReadingsFresh, Grant
<1>13. granted' \subseteq Grants /\ IsFiniteSet(granted') /\ \A g \in granted' : g.at <= now'
  <2>1. IsFiniteSet(granted \cup {new})
    BY FS_AddElement DEF LimiterInv
  <2> QED
    BY <1>2, <1>7, <1>10, <2>1 DEF LimiterInv
<1>14. Numbered'
  <2> DEFINE Same(g) == {h \in granted : h.by = g.by /\ h.at = g.at}
  <2>1. ASSUME NEW g \in granted' PROVE g.nth < Cardinality({h \in granted' : h.by = g.by /\ h.at = g.at})
    <3>1. IsFiniteSet(Same(g)) /\ Cardinality(Same(g)) \in Nat
      <4>1. Same(g) \in SUBSET granted /\ IsFiniteSet(granted)
        BY DEF LimiterInv
      <4> QED
        BY <4>1, FS_Subset, FS_CardinalityType
    <3>2. CASE g.by = c /\ g.at = now
      <4>1. {h \in granted' : h.by = g.by /\ h.at = g.at} = Same(g) \cup {new} /\ new \notin Same(g)
        BY <1>7, <1>10, <1>11, <3>2
      <4>2. Cardinality(Same(g) \cup {new}) = Cardinality(Same(g)) + 1
        BY <3>1, <4>1, FS_AddElement
      <4>3. g = new => g.nth = Cardinality(Same(g))
        BY <1>6, <1>10
      <4>4. g \in granted => g.nth < Cardinality(Same(g)) /\ g.nth \in Nat
        BY DEF LimiterInv, Numbered, Grants
      <4> HIDE DEF Same
      <4>5. g = new => g.nth < Cardinality(Same(g)) + 1
        BY <3>1, <4>3
      <4>6. g \in granted => g.nth < Cardinality(Same(g)) + 1
        BY <3>1, <4>4
      <4>7. g \in granted \/ g = new
        BY <1>7, <2>1
      <4> QED
        BY <4>1, <4>2, <4>5, <4>6, <4>7
    <3>3. CASE ~(g.by = c /\ g.at = now)
      <4>1. g \in granted /\ {h \in granted' : h.by = g.by /\ h.at = g.at} = Same(g)
        BY <1>7, <1>10, <3>3
      <4> QED
        BY <4>1 DEF LimiterInv, Numbered
    <3> QED
      BY <3>2, <3>3
  <2> QED
    BY <2>1 DEF Numbered
<1>15. /\ DOMAIN identities' \subseteq DOMAIN identities \cup {i} /\ i \in DOMAIN identities'
       /\ identities'[i] = b
       /\ \A j \in DOMAIN identities' \ {i} : identities'[j] = identities[j]
       /\ \A j \in DOMAIN identities \ DOMAIN identities' :
            Expired(identities[j][Len(identities[j])], s)
  <2>1. /\ DOMAIN With(i, b) = DOMAIN identities \cup {i} /\ With(i, b)[i] = b
        /\ \A j \in DOMAIN identities \ {i} : With(i, b)[j] = identities[j]
    BY DEF With
  <2>2. PICK map : map = With(i, b)
    OBVIOUS
  <2>3. /\ DOMAIN identities' \subseteq DOMAIN map
        /\ \A j \in DOMAIN identities' : identities'[j] = map[j]
        /\ \A j \in DOMAIN map \ DOMAIN identities' : Expired(map[j][Len(map[j])], s)
    BY <1>7, <2>2, BoundedIs
  <2>4. ~Expired(b[Len(b)], s)
    BY <1>4, <1>8, NumbersAre DEF Expired
  <2> QED
    BY <2>1, <2>2, <2>3, <2>4
<1>16. BucketsBounded'
  <2>1. Len(b) \in 1..Limit
    BY <1>7, <1>8, NumbersAre
  <2> QED
    BY <1>8, <1>15, <2>1 DEF LimiterInv, BucketsBounded, Identities, IdentityOf
<1>17. Bucket(i)' = b
  BY <1>15 DEF Bucket
<1>18. ASSUME NEW j \in Identities, j # i
       PROVE  \/ Bucket(j)' = Bucket(j)
              \/ /\ Bucket(j)' = <<>> /\ Len(Bucket(j)) > 0
                 /\ Expired(Bucket(j)[Len(Bucket(j))], asking[c])
  BY <1>4, <1>15, <1>18 DEF Bucket, LimiterInv, BucketsBounded
<1>19. Accounted'
  <2>1. Ledgers(b, i)' # {}
    <3>1. d \in Ledgers(rest, i)
      BY <1>3
    <3>2. s <= now /\ now <= s + MaxDelay
      BY <1>2, <1>4, Young
    <3> QED
      BY <1>1, <1>2, <1>5, <1>7, <1>10, <1>11, <3>1, <3>2, LedgerGrows
  <2>2. ASSUME NEW j \in Identities, j # i PROVE \E x : Bucket(j)' = x /\ Ledgers(x, j)' # {}
    BY <1>1, <1>2, <1>7, <1>10, <1>13, <1>18, <2>2, OthersStay
  <2> QED
    BY <1>17, <2>1, <2>2, Joined
<1> QED
  BY <1>2, <1>12, <1>13, <1>14, <1>16, <1>19 DEF LimiterInv

LEMMA Invariance == Spec => []LimiterInv
<1>1. ASSUME LimiterInv, [Next]_vars PROVE LimiterInv'
  <2>1. CASE UNCHANGED vars
    BY <1>1, <2>1, QuietKeeps DEF vars, LimiterInv, ReadingsFresh
  <2> QED
    BY <1>1, <2>1, AskKeeps, GrantKeeps, DenyKeeps, TickKeeps DEF Next
<1> QED
  BY <1>1, LimiterInit, PTL DEF Spec

-----------------------------------------------------------------------------
(* What it gives                                                           *)

\* An identity is granted no more than Limit requests in a window less the delay, whatever
\* order the readings come in and whatever buckets are evicted: the grants that count
\* are entries of one ledger, and that is no longer than a bucket.
THEOREM NeverMore == Spec => []LimitHolds
<1>1. LimiterInv => LimitHolds
  <2> SUFFICES ASSUME LimiterInv, NEW c \in Callers
               PROVE  Cardinality(Since(Alike(c), now - (Window - MaxDelay))) <= Limit
    BY DEF LimitHolds
  <2> DEFINE S == Since(Alike(c), now - (Window - MaxDelay))
  <2>1. PICK i \in Identities : i = IdentityOf(c)
    BY DEF Identities
  <2>2. PICK b, e : b \in Seq(Nat) /\ b = Bucket(i) /\ e \in Ledgers(b, i)
    BY BucketIs
  <2>3. e \in [1..Len(b) -> Grants] /\ Matches(b, i, e) /\ Len(b) \in Nat /\ Len(b) <= Limit
    BY <2>2, NumbersAre DEF Ledgers, LimiterInv, BucketsBounded, Bucket
  <2>4. \A g \in S : \E n \in 1..Len(b) : e[n] = g
    BY <2>1, <2>3 DEF Since, Alike, Matches
  <2> HIDE DEF S
  <2> DEFINE f == [g \in S |-> CHOOSE n \in 1..Len(b) : e[n] = g]
  <2>5. \A g \in S : f[g] \in 1..Len(b) /\ e[f[g]] = g
    BY <2>4
  <2>6. f \in Injection(S, 1..Len(b))
    <3>1. f \in [S -> 1..Len(b)]
      BY <2>5
    <3> HIDE DEF f
    <3> QED
      BY <2>5, <3>1 DEF Injection, IsInjective
  <2>7. IsFiniteSet(1..Len(b)) /\ Cardinality(1..Len(b)) = Len(b)
    BY <2>3, Counted
  <2>8. Cardinality(S) <= Cardinality(1..Len(b)) /\ IsFiniteSet(S)
    BY <2>6, <2>7, FS_Injection
  <2>9. Cardinality(S) \in Nat
    BY <2>8, FS_CardinalityType
  <2> QED
    BY <2>3, <2>7, <2>8, <2>9, NumbersAre DEF S
<1> QED
  BY <1>1, Invariance, PTL

\* Nobody is refused whose identity was not granted Limit requests in a window and that
\* delay: each time the refusal counts is the reading of a grant of its own.
THEOREM RefusedWhenBusy == Spec => DeniedOnlyWhenBusy
<1>1. ASSUME LimiterInv, NEW c \in Callers, Deny(c)
      PROVE  Cardinality(Since(Alike(c), now - (Window + MaxDelay))) >= Limit
  <2> DEFINE S == Since(Alike(c), now - (Window + MaxDelay))
  <2>1. asking[c] # -1
    BY <1>1 DEF Deny
  <2>a. PICK rest \in Seq(Nat) :
          /\ rest = Pruned(Bucket(IdentityOf(c)), asking[c])
          /\ \E d \in Ledgers(rest, IdentityOf(c)) :
               \A n \in DOMAIN d : d[n] \in granted /\ d[n].at >= now - (Window + MaxDelay)
    BY <1>1, <2>1, Judged
  <2>2. PICK d \in Ledgers(rest, IdentityOf(c)) :
          \A n \in DOMAIN d : d[n] \in granted /\ d[n].at >= now - (Window + MaxDelay)
    BY <2>a
  <2>3. Len(rest) >= Limit /\ Len(rest) \in Nat
    BY <1>1, <2>a DEF Deny
  <2>4. d \in [1..Len(rest) -> Grants] /\ Matches(rest, IdentityOf(c), d)
    BY <2>2 DEF Ledgers
  <2>5. \A n \in 1..Len(rest) : d[n] \in S
    BY <1>1, <2>2, <2>4 DEF Since, Alike, Matches, Grants
  <2>6. \A m, n \in 1..Len(rest) : d[m] = d[n] => m = n
    BY <2>3, <2>4 DEF Matches
  <2>7. IsFiniteSet(S)
    <3>1. S \in SUBSET granted
      BY DEF Since
    <3> QED
      BY <1>1, <3>1, FS_Subset DEF LimiterInv
  <2> HIDE DEF S
  <2>8. d \in Injection(1..Len(rest), S)
    BY <2>4, <2>5, <2>6 DEF Injection, IsInjective
  <2>9. Cardinality(1..Len(rest)) = Len(rest)
    BY <2>3, Counted
  <2>10. Len(rest) <= Cardinality(S) /\ Cardinality(S) \in Nat
    BY <2>7, <2>8, <2>9, FS_Injection, FS_CardinalityType
  <2> QED
    BY <2>3, <2>10, NumbersAre DEF S
<1>2. ASSUME LimiterInv, [Next]_vars, NEW c \in Callers, verdict[c] # "denied", verdict'[c] = "denied"
      PROVE  Deny(c)
  <2>1. \E x \in Callers : Ask(x) \/ Grant(x) \/ Deny(x)
    BY <1>2 DEF Next, Tick, vars
  <2>2. PICK x \in Callers : Ask(x) \/ Grant(x) \/ Deny(x)
    BY <2>1
  <2>3. /\ Ask(x) => verdict' = [verdict EXCEPT ![x] = "none"]
        /\ Grant(x) => verdict' = [verdict EXCEPT ![x] = "granted"]
        /\ Deny(x) => verdict' = [verdict EXCEPT ![x] = "denied"]
    BY DEF Ask, Grant, Deny
  <2>4. verdict \in [Callers -> {"none", "granted", "denied"}]
    BY <1>2 DEF LimiterInv
  <2>5. x = c /\ ~Ask(x) /\ ~Grant(x)
    BY <1>2, <2>2, <2>3, <2>4
  <2> QED
    BY <2>2, <2>5
<1>3. LimiterInv /\ [Next]_vars =>
        [\A c \in Callers :
           verdict[c] # "denied" /\ verdict'[c] = "denied" =>
             Cardinality(Since(Alike(c), now - (Window + MaxDelay))) >= Limit]_vars
  BY <1>1, <1>2
<1> QED
  BY <1>3, Invariance, PTL DEF Spec, DeniedOnlyWhenBusy

=============================================================================
