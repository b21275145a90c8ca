----------------------------- MODULE ReadThrough -----------------------------
(***************************************************************************)
(* What get_profile promises: a lookup is answered with a copy of a        *)
(* profile of its key no older than two times to live, or with the result  *)
(* of a flight it boarded, once that has landed; a refresh never gets a    *)
(* copy.  Copies are made of successful flights only and may be forgotten  *)
(* at any time, and a key has one flight aloft until its first has landed. *)
(* Where copies are held, what shares the one file name of a key and who   *)
(* runs a flight is ProfileService's business, which implements this       *)
(* specification.                                                          *)
(***************************************************************************)
EXTENDS Naturals

CONSTANTS
  Keys,
  Requests,   \* lookups; each flies at most once, and its flight has its name
  KeyOf,      \* the key a lookup asks for
  Past,       \* the fetch behind the copies an earlier process left
  NoFlight,
  NoFile,     \* the fetch of no copy
  Ttl

\* ProfileService, which instantiates this module, states what it assumes of them.

VARIABLES
  now,
  kept,       \* the copies that may yet be answered with
  phase,      \* how far each lookup has come
  reply,      \* the fetch a hit is of, and its age when it was found
  boarded,    \* the flight a lookup waits for
  stage,      \* how far each flight has come
  result      \* what its fetch returned

lookups  == <<phase, reply, boarded>>
flights  == <<stage, result>>
promised == <<now, kept, lookups, flights>>

NoReply == [fetch |-> NoFile, age |-> 0]

Init ==
  /\ now = 0
  /\ kept \subseteq {[key |-> k, fetch |-> Past, stored |-> 0] : k \in Keys}
  /\ phase = [r \in Requests |-> "new"]
  /\ reply = [r \in Requests |-> NoReply]
  /\ boarded = [r \in Requests |-> NoFlight]
  /\ stage = [f \in Requests |-> "none"]
  /\ result = [f \in Requests |-> "none"]

Forget == kept' \subseteq kept

-----------------------------------------------------------------------------
(* Lookups                                                                 *)

Becomes(r, from, to) ==
  /\ phase[r] \in from
  /\ phase' = [phase EXCEPT ![r] = to]
  /\ Forget
  /\ UNCHANGED now

Ask(r) == Becomes(r, {"new"}, "asked") /\ UNCHANGED <<reply, boarded, flights>>

\* No copy is found, or, for a refresh, none is looked for.
Miss(r) == Becomes(r, {"new", "asked"}, "missed") /\ UNCHANGED <<reply, boarded, flights>>

Hit(r) ==
  /\ Becomes(r, {"new", "asked"}, "hit")
  /\ \E copy \in kept :
       /\ copy.key = KeyOf[r]
       /\ copy.stored <= now /\ now - copy.stored <= 2 * Ttl
       /\ reply' = [reply EXCEPT ![r] = [fetch |-> copy.fetch, age |-> now - copy.stored]]
  /\ UNCHANGED <<boarded, flights>>

\* A flight that has landed can still be boarded, until its gate is closed, and
\* so can one that was lost.
Join(r) ==
  /\ Becomes(r, {"missed"}, "boarded")
  /\ \E f \in Requests :
       /\ KeyOf[f] = KeyOf[r]
       /\ stage[f] \in {"aloft", "landed", "lost"}
       /\ boarded' = [boarded EXCEPT ![r] = f]
  /\ UNCHANGED <<reply, flights>>

Landed(f) == stage[f] \in {"landed", "closed"}

\* A flight departs beside another of its key only after one has landed.
Depart(r) ==
  /\ Becomes(r, {"missed"}, "boarded")
  /\ \A f \in Requests : KeyOf[f] = KeyOf[r] /\ stage[f] = "aloft" =>
       \E g \in Requests : KeyOf[g] = KeyOf[r] /\ Landed(g)
  /\ stage[r] = "none"
  /\ stage' = [stage EXCEPT ![r] = "aloft"]
  /\ boarded' = [boarded EXCEPT ![r] = r]
  /\ UNCHANGED <<reply, result>>

\* A lookup says what its flight brought, or that it was lost.
Arrive(r) ==
  /\ \/ Becomes(r, {"boarded"}, "answered") /\ Landed(boarded[r])
     \/ Becomes(r, {"boarded"}, "failed") /\ stage[boarded[r]] = "lost"
  /\ UNCHANGED <<reply, boarded, flights>>

\* Its client leaves.
Drop(r) ==
  /\ Becomes(r, {"asked", "hit", "missed", "boarded"}, "gone")
  /\ reply' = [reply EXCEPT ![r] = NoReply]
  /\ UNCHANGED <<boarded, flights>>

-----------------------------------------------------------------------------
(* Flights and copies                                                      *)

Return(f) ==
  /\ stage[f] = "aloft" /\ result[f] = "none"
  /\ \E o \in {"ok", "error"} : result' = [result EXCEPT ![f] = o]
  /\ Forget
  /\ UNCHANGED <<now, lookups, stage>>

\* A flight leaves copies of what it brought before it lands.
Keep(f) ==
  /\ stage[f] = "aloft" /\ result[f] = "ok"
  /\ kept' \subseteq kept \cup {[key |-> KeyOf[f], fetch |-> f, stored |-> now]}
  /\ UNCHANGED <<now, lookups, flights>>

Moves(f, from, to) ==
  /\ stage[f] = from
  /\ stage' = [stage EXCEPT ![f] = to]
  /\ Forget
  /\ UNCHANGED <<now, lookups, result>>

Land(f)  == Moves(f, "aloft", "landed") /\ result[f] # "none"
Close(f) == Moves(f, "landed", "closed")
Lose(f)  == Moves(f, "aloft", "lost")

Forgetting == Forget /\ UNCHANGED <<now, lookups, flights>>

\* Lookups under way and flights end with the process; a hit may have been told.
Crash ==
  /\ \E untold \in SUBSET {r \in Requests : phase[r] = "hit"} :
       LET ends == untold \cup {r \in Requests : phase[r] \in {"asked", "missed", "boarded"}}
       IN  /\ phase' = [r \in Requests |-> IF r \in ends THEN "gone" ELSE phase[r]]
           /\ reply' = [r \in Requests |-> IF r \in ends THEN NoReply ELSE reply[r]]
  /\ stage' = [f \in Requests |-> IF stage[f] \in {"aloft", "landed"} THEN "lost" ELSE stage[f]]
  /\ Forget
  /\ UNCHANGED <<now, boarded, result>>

Tick == now' = now + 1 /\ Forget /\ UNCHANGED <<lookups, flights>>

Next ==
  \/ \E r \in Requests :
       \/ Ask(r) \/ Miss(r) \/ Hit(r) \/ Join(r) \/ Depart(r) \/ Arrive(r) \/ Drop(r)
       \/ Return(r) \/ Keep(r) \/ Land(r) \/ Close(r) \/ Lose(r)
  \/ Forgetting
  \/ Crash
  \/ Tick

Spec == Init /\ [][Next]_promised

=============================================================================
