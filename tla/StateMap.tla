------------------------------ MODULE StateMap ------------------------------
(***************************************************************************)
(* The operations of collector/state.go on a map with a capacity and a     *)
(* time to live per entry.  A map is a function from keys to entries; the  *)
(* clock is passed in.  Every operation runs under the map's lock.         *)
(***************************************************************************)
EXTENDS Integers, FiniteSets

CONSTANTS
    TTL,        \* sm.ttl
    MaxEntries  \* sm.maxEntries, 0 for no limit

ASSUME StateMapAssumption == TTL \in Nat /\ MaxEntries \in Nat

Empty == [k \in {} |-> {}]

\* A new key is refused at capacity, by entries that have expired too.
Accepts(m, k) ==
    MaxEntries > 0 /\ Cardinality(DOMAIN m) >= MaxEntries => k \in DOMAIN m

Set(m, k, v, now) ==
    IF Accepts(m, k)
    THEN [x \in DOMAIN m \cup {k} |->
             IF x = k THEN [value |-> v, expiresAt |-> now + TTL] ELSE m[x]]
    ELSE m

\* The second result of Get: present and not expired.
Has(m, k, now) == k \in DOMAIN m /\ now <= m[k].expiresAt

Delete(m, k) == [x \in DOMAIN m \ {k} |-> m[x]]

\* One round of the janitor.
Cleanup(m, now) == [x \in {k \in DOMAIN m : Has(m, k, now)} |-> m[x]]
=============================================================================
