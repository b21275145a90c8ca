----------------------------- MODULE RateLimiter -----------------------------
(***************************************************************************)
(* RateLimiter::check and the identity it is asked about                   *)
(* (api/middleware.rs).  A request reads the clock before it takes the     *)
(* mutex, so the times that enter a bucket need not be in order, and the   *)
(* time a request decides by may be a little old.                          *)
(***************************************************************************)
EXTENDS Integers, Sequences, FiniteSets

CONSTANTS
  Callers,         \* connections, each with a port of its own
  KeyOf,           \* the API key a caller presents, or NoKey
  AddressOf,       \* the IP address it connects from
  ForwardedFor,    \* what a trusted proxy says of it, or NoAddress
  NoKey, NoAddress,
  Limit, Window,
  MaxIdentities,
  MaxDelay,        \* bound: from reading the clock to taking the mutex
  MaxTime          \* bound: the clock stops here

ASSUME LimiterAssumption ==
  /\ IsFiniteSet(Callers)
  /\ Limit \in Nat \ {0}
  /\ Window \in Nat \ {0}
  /\ MaxIdentities \in Nat
  /\ MaxDelay \in 0..Window
  /\ MaxTime \in Nat

VARIABLES
  now,
  identities,   \* the map: a bucket of times per identity
  asking,       \* the clock reading a caller decides by, or -1
  verdict,      \* what it was told last
  granted       \* history: grants by caller and by the time they were given, as
                \* far back as a property asks for them

vars == <<now, identities, asking, verdict, granted>>

Times == 0..MaxTime

\* The key; without one what a trusted proxy forwards, or else the peer, which
\* is an address and a port.
IdentityOf(c) ==
  IF KeyOf[c] # NoKey THEN <<"key", KeyOf[c]>>
  ELSE IF ForwardedFor[c] # NoAddress THEN <<"forwarded", ForwardedFor[c]>>
  ELSE <<"peer", AddressOf[c], c>>

Init ==
  /\ now = 0
  /\ identities = <<>>
  /\ asking = [c \in Callers |-> -1]
  /\ verdict = [c \in Callers |-> "none"]
  /\ granted = {}

-----------------------------------------------------------------------------

Bucket(i) == IF i \in DOMAIN identities THEN identities[i] ELSE <<>>

\* Mutant: a time exactly one window old has expired.
ExpiredEarly(t, s) == s - t >= Window

Expired(t, s) == s - t > Window

\* Expired times leave from the front, up to the first that has not expired.
Pruned(bucket, s) ==
  LET kept == {n \in 1..Len(bucket) : \E m \in 1..n : ~Expired(bucket[m], s)}
  IN  SubSeq(bucket, Len(bucket) - Cardinality(kept) + 1, Len(bucket))

\* Above twice the bound, buckets whose newest time has expired are dropped;
\* the branch that would evict one for a new identity is never taken, the
\* identity is in the map by then.
Bounded(map, s) ==
  IF Cardinality(DOMAIN map) > 2 * MaxIdentities
  THEN [i \in {j \in DOMAIN map : ~Expired(map[j][Len(map[j])], s)} |-> map[i]]
  ELSE map

Ask(c) ==
  /\ asking[c] = -1
  /\ asking' = [asking EXCEPT ![c] = now]
  /\ verdict' = [verdict EXCEPT ![c] = "none"]
  /\ UNCHANGED <<now, identities, granted>>

With(i, bucket) ==
  [j \in DOMAIN identities \cup {i} |-> IF j = i THEN bucket ELSE identities[j]]

Grant(c) ==
  LET s == asking[c]
      i == IdentityOf(c)
      kept == Pruned(Bucket(i), s)
  IN  /\ s # -1
      /\ Len(kept) < Limit
      /\ identities' = Bounded(With(i, Append(kept, s)), s)
      /\ asking' = [asking EXCEPT ![c] = -1]
      /\ verdict' = [verdict EXCEPT ![c] = "granted"]
      /\ granted' = granted \cup
           {[by |-> c, at |-> now,
             nth |-> Cardinality({g \in granted : g.by = c /\ g.at = now})]}
      /\ UNCHANGED now

\* Mutant: a refused request takes a place too, and the oldest leaves for it.
DenyRecording(c) ==
  LET s == asking[c]
      i == IdentityOf(c)
      kept == Pruned(Bucket(i), s)
  IN  /\ s # -1
      /\ Len(kept) >= Limit
      /\ identities' = With(i, Append(Tail(kept), s))
      /\ asking' = [asking EXCEPT ![c] = -1]
      /\ verdict' = [verdict EXCEPT ![c] = "denied"]
      /\ UNCHANGED <<now, granted>>

Deny(c) ==
  LET s == asking[c]
      i == IdentityOf(c)
      kept == Pruned(Bucket(i), s)
  IN  /\ s # -1
      /\ Len(kept) >= Limit
      /\ identities' = With(i, kept)
      /\ asking' = [asking EXCEPT ![c] = -1]
      /\ verdict' = [verdict EXCEPT ![c] = "denied"]
      /\ UNCHANGED <<now, granted>>

Tick ==
  /\ now < MaxTime
  /\ \A c \in Callers : asking[c] = -1 \/ now - asking[c] < MaxDelay
  /\ now' = now + 1
  /\ granted' = {g \in granted : g.at >= now' - (Window + MaxDelay)}
  /\ UNCHANGED <<identities, asking, verdict>>

Next == (\E c \in Callers : Ask(c) \/ Grant(c) \/ Deny(c)) \/ Tick

Spec == Init /\ [][Next]_vars

-----------------------------------------------------------------------------

\* Grants to the same, by whatever makes callers the same, since a time.
Since(same, t) == {g \in granted : g.by \in same /\ g.at >= t}

Alike(c) == {d \in Callers : IdentityOf(d) = IdentityOf(c)}

\* Whatever order the clock readings reach the mutex in, and whatever buckets
\* are evicted, an identity is granted no more than Limit requests in any
\* stretch of a window less the delay a reading may have.
LimitHolds ==
  \A c \in Callers : Cardinality(Since(Alike(c), now - (Window - MaxDelay))) <= Limit

\* And nobody is refused who was not granted Limit requests in a window and
\* that delay: a time stuck behind a later one does no harm for longer.
DeniedOnlyWhenBusy ==
  [][\A c \in Callers :
       verdict[c] # "denied" /\ verdict'[c] = "denied" =>
         Cardinality(Since(Alike(c), now - (Window + MaxDelay))) >= Limit]_vars

=============================================================================
