---------------------------- MODULE SingleFlight ----------------------------
(***************************************************************************)
(* ProfileService::fetch_once (service/profile.rs): lookups of one profile *)
(* coalesce into one upstream fetch.  A lookup takes the `inflight` mutex  *)
(* and joins the flight registered under its key, or registers a flight of *)
(* its own and spawns the task that leads it.  The leader fetches, stores  *)
(* the profile, publishes the outcome on a watch channel and removes the   *)
(* map entry; every waiter that sees the outcome removes it as well, by    *)
(* key, whichever flight is registered by then.                            *)
(*                                                                         *)
(* A request begins at most one flight, so a flight is named by the        *)
(* request that began it.                                                  *)
(***************************************************************************)
EXTENDS Naturals, FiniteSets

CONSTANTS
  Requests,
  Keys,       \* cache keys of profiles
  KeyOf,      \* the key a request looks up
  NoFlight    \* not a request

VARIABLES
  inflight,   \* the map: the flight registered under a key, or NoFlight
  leader,     \* where the leader task of a flight is
  outcome,    \* what the leader's fetch returned
  waiter,     \* where a request is in fetch_once
  joined      \* the flight whose channel a request watches

flightVars == <<inflight, leader, outcome, waiter, joined>>

-----------------------------------------------------------------------------

\* What a receiver sees on the watch channel of flight f: Pending until the
\* leader sends, Done from then on, and closed when the task is gone unsent.
Unsent == {"fetching", "storing", "publishing"}
Sent   == {"removing", "finished"}

Leaders  == Unsent \cup Sent \cup {"none", "dead"}
Waiters  == {"idle", "waiting", "leaving", "answered", "failed", "gone"}
Outcomes == {"none", "ok", "error"}

FlightInit ==
  /\ inflight = [k \in Keys |-> NoFlight]
  /\ leader = [r \in Requests |-> "none"]
  /\ outcome = [r \in Requests |-> "none"]
  /\ waiter = [r \in Requests |-> "idle"]
  /\ joined = [r \in Requests |-> NoFlight]

\* Mutant: the mutex is released between the lookup and the insertion, so a
\* request may begin a flight although one is registered.
EnterUnlocked(r) ==
  /\ waiter[r] = "idle"
  /\ waiter' = [waiter EXCEPT ![r] = "waiting"]
  /\ \/ /\ inflight[KeyOf[r]] # NoFlight
        /\ joined' = [joined EXCEPT ![r] = inflight[KeyOf[r]]]
        /\ UNCHANGED <<inflight, leader>>
     \/ /\ joined' = [joined EXCEPT ![r] = r]
        /\ inflight' = [inflight EXCEPT ![KeyOf[r]] = r]
        /\ leader' = [leader EXCEPT ![r] = "fetching"]
  /\ UNCHANGED outcome

\* Under the mutex: clone the receiver of the registered flight, or spawn the
\* leader of a new one and insert it.
Enter(r) ==
  /\ waiter[r] = "idle"
  /\ waiter' = [waiter EXCEPT ![r] = "waiting"]
  /\ IF inflight[KeyOf[r]] # NoFlight
     THEN /\ joined' = [joined EXCEPT ![r] = inflight[KeyOf[r]]]
          /\ UNCHANGED <<inflight, leader>>
     ELSE /\ joined' = [joined EXCEPT ![r] = r]
          /\ inflight' = [inflight EXCEPT ![KeyOf[r]] = r]
          /\ leader' = [leader EXCEPT ![r] = "fetching"]
  /\ UNCHANGED outcome

\* Mutant: whatever a fetch returns is stored.
FetchReturnsStoring(f, o) ==
  /\ leader[f] = "fetching"
  /\ outcome' = [outcome EXCEPT ![f] = o]
  /\ leader' = [leader EXCEPT ![f] = "storing"]
  /\ UNCHANGED <<inflight, waiter, joined>>

\* The repository's fetch returns; only a profile is stored.
FetchReturns(f, o) ==
  /\ leader[f] = "fetching"
  /\ outcome' = [outcome EXCEPT ![f] = o]
  /\ leader' = [leader EXCEPT ![f] = IF o = "ok" THEN "storing" ELSE "publishing"]
  /\ UNCHANGED <<inflight, waiter, joined>>

\* Memory and disk hold the profile.
Stored(f) ==
  /\ leader[f] = "storing"
  /\ leader' = [leader EXCEPT ![f] = "publishing"]
  /\ UNCHANGED <<inflight, outcome, waiter, joined>>

\* tx.send(Done).
Publish(f) ==
  /\ leader[f] = "publishing"
  /\ leader' = [leader EXCEPT ![f] = "removing"]
  /\ UNCHANGED <<inflight, outcome, waiter, joined>>

\* Mutant: cleaning up is left to the waiters.
LeaderLeavesEntry(f) ==
  /\ leader[f] = "removing"
  /\ leader' = [leader EXCEPT ![f] = "finished"]
  /\ UNCHANGED <<inflight, outcome, waiter, joined>>

\* The leader's own remove, by key.
LeaderRemoves(f) ==
  /\ leader[f] = "removing"
  /\ leader' = [leader EXCEPT ![f] = "finished"]
  /\ inflight' = [inflight EXCEPT ![KeyOf[f]] = NoFlight]
  /\ UNCHANGED <<outcome, waiter, joined>>

\* The fetch panics: the task unwinds, the sender is dropped unsent, and the
\* statement that removes the entry is never reached.
LeaderPanics(f) ==
  /\ leader[f] = "fetching"
  /\ leader' = [leader EXCEPT ![f] = "dead"]
  /\ UNCHANGED <<inflight, outcome, waiter, joined>>

\* A waiter finds Done and goes to take the mutex.
SeesDone(r) ==
  /\ waiter[r] = "waiting"
  /\ leader[joined[r]] \in Sent
  /\ waiter' = [waiter EXCEPT ![r] = "leaving"]
  /\ UNCHANGED <<inflight, leader, outcome, joined>>

\* It removes what is registered under its key and returns the outcome.
Leave(r) ==
  /\ waiter[r] = "leaving"
  /\ waiter' = [waiter EXCEPT ![r] = "answered"]
  /\ inflight' = [inflight EXCEPT ![KeyOf[r]] = NoFlight]
  /\ UNCHANGED <<leader, outcome, joined>>

\* The channel closed unsent: Internal, "in-flight fetch dropped".
SeesClosed(r) ==
  /\ waiter[r] = "waiting"
  /\ leader[joined[r]] = "dead"
  /\ waiter' = [waiter EXCEPT ![r] = "failed"]
  /\ UNCHANGED <<inflight, leader, outcome, joined>>

\* Mutant: the leader is part of the request that began the flight.
CancelWithLeader(r) ==
  /\ waiter[r] \in {"waiting", "leaving"}
  /\ waiter' = [waiter EXCEPT ![r] = "gone"]
  /\ leader' = [leader EXCEPT ![r] = IF @ \in Unsent THEN "none" ELSE @]
  /\ UNCHANGED <<inflight, outcome, joined>>

\* The client disconnects: the request's future is dropped, the leader is a
\* task of its own and goes on.
Cancel(r) ==
  /\ waiter[r] \in {"waiting", "leaving"}
  /\ waiter' = [waiter EXCEPT ![r] = "gone"]
  /\ UNCHANGED <<inflight, leader, outcome, joined>>

\* The process dies and starts again with an empty map.
FlightsLost ==
  /\ inflight' = [k \in Keys |-> NoFlight]
  /\ leader' = [r \in Requests |->
                  IF leader[r] \in Unsent \cup {"removing"} THEN "dead" ELSE leader[r]]
  /\ waiter' = [r \in Requests |->
                  IF waiter[r] \in {"waiting", "leaving"} THEN "gone" ELSE waiter[r]]
  /\ UNCHANGED <<outcome, joined>>

Waiting(r) == SeesDone(r) \/ Leave(r) \/ SeesClosed(r)

-----------------------------------------------------------------------------

\* The shapes of the state: among them, a flight that is registered or joined
\* has a leader task.
FlightTypeOK ==
  /\ inflight \in [Keys -> Requests \cup {NoFlight}]
  /\ leader \in [Requests -> Leaders]
  /\ outcome \in [Requests -> Outcomes]
  /\ waiter \in [Requests -> Waiters]
  /\ joined \in [Requests -> Requests \cup {NoFlight}]
  /\ \A k \in Keys : inflight[k] # NoFlight => leader[inflight[k]] # "none"
  /\ \A r \in Requests : /\ (joined[r] = NoFlight) <=> (waiter[r] = "idle")
                         /\ joined[r] # NoFlight => leader[joined[r]] # "none"

Aloft(f) == leader[f] \in Unsent

\* However many requests miss at once, a key's first flight is alone: two
\* flights of a key are aloft together only after an earlier one has come to
\* its end (what the test coalesces_100_concurrent_misses_into_one_fetch sees
\* as long as its hundred requests arrive before the first fetch returns).
FirstFlightAlone ==
  \A f, g \in Requests :
    /\ f # g /\ KeyOf[f] = KeyOf[g] /\ Aloft(f) /\ Aloft(g)
    => \E h \in Requests \ {f, g} : KeyOf[h] = KeyOf[f] /\ leader[h] \in Sent

\* Completed flights leave the map: an entry's leader has still to remove it,
\* unless the leader panicked.
NoEntryOutlivesItsLeader ==
  \A k \in Keys :
    inflight[k] # NoFlight =>
      /\ KeyOf[inflight[k]] = k
      /\ leader[inflight[k]] \in Unsent \cup {"removing", "dead"}

\* service/profile.rs:111, "Cancelling one waiter must not cancel the leader":
\* a flight that took off publishes an outcome or dies of its own, also when
\* nobody waits for it any more.  (Flights land once, so that all of them have, again
\* and again, is that each does.)
FlightsLand ==
  []<>(\A r \in Requests : joined[r] # NoFlight => leader[joined[r]] \in {"finished", "dead"})

\* service/profile.rs:110-112 and README.md:138, one upstream fetch for the
\* concurrent lookups of a profile.
OneFetchPerKey ==
  \A f, g \in Requests :
    f # g /\ KeyOf[f] = KeyOf[g] => ~(leader[f] = "fetching" /\ leader[g] = "fetching")

=============================================================================
