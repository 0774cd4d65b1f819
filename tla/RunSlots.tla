------------------------------ MODULE RunSlots ------------------------------
(***************************************************************************)
(* What the panel promises about its run slots, without operations, locks, *)
(* workers or batches: a slot gets a record before anything is provisioned *)
(* for it and keeps the record until everything was destroyed.             *)
(***************************************************************************)
CONSTANT Runs

VARIABLES
  drawn,       \* run ids handed out so far
  recorded,    \* slots the panel lists
  provisioned, \* slots with management infrastructure
  extended     \* slots with downstream clusters

vars == <<drawn, recorded, provisioned, extended>>

Init == drawn = {} /\ recorded = {} /\ provisioned = {} /\ extended = {}

Create(r) ==
  /\ r \notin drawn
  /\ drawn' = drawn \cup {r}
  /\ recorded' = recorded \cup {r}
  /\ UNCHANGED <<provisioned, extended>>

Provision(r) ==
  /\ r \in recorded
  /\ provisioned' = provisioned \cup {r}
  /\ UNCHANGED <<drawn, recorded, extended>>

Extend(r) ==
  /\ r \in provisioned
  /\ extended' = extended \cup {r}
  /\ UNCHANGED <<drawn, recorded, provisioned>>

Shrink(r) ==
  /\ extended' = extended \ {r}
  /\ UNCHANGED <<drawn, recorded, provisioned>>

\* The management infrastructure goes last.
Destroy(r) ==
  /\ r \notin extended
  /\ provisioned' = provisioned \ {r}
  /\ UNCHANGED <<drawn, recorded, extended>>

\* A record is removed only when nothing is left behind it.
Release(r) ==
  /\ r \in recorded
  /\ r \notin provisioned
  /\ recorded' = recorded \ {r}
  /\ UNCHANGED <<drawn, provisioned, extended>>

Next == \E r \in Runs : \/ Create(r) \/ Provision(r) \/ Extend(r)
                        \/ Shrink(r) \/ Destroy(r) \/ Release(r)

Spec == Init /\ [][Next]_vars
=============================================================================
