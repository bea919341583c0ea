----------------------------- MODULE ZoneLeases -----------------------------
(***************************************************************************)
(* What a zone allocator promises its clients, whatever it does inside: a  *)
(* zone is leased to one client at a time, leased zones are exactly those  *)
(* the allocator takes for taken, and a zone given back can be leased      *)
(* again.  Requests that fail change nothing.  A zone that somebody        *)
(* revokes can be leased although its client has not given it back; it is  *)
(* shared until the last of its clients has.                               *)
(***************************************************************************)
CONSTANTS
    Clients,
    Leasable,   \* the zone indices a client may ask for
    NoLease     \* none of them

VARIABLES
    lease,      \* lease[c]: the zone leased to c, or NoLease
    taken,      \* the zones that are refused
    revoked     \* the leased zones that somebody asked to be leased again

leaseVars == <<lease, taken, revoked>>

LeasesInit ==
    /\ lease = [c \in Clients |-> NoLease]
    /\ taken = {}
    /\ revoked = {}

Acquire(c, z) ==
    /\ lease[c] = NoLease
    /\ z \notin taken
    /\ lease' = [lease EXCEPT ![c] = z]
    /\ taken' = taken \cup {z}
    /\ UNCHANGED revoked

GiveBack(c) ==
    /\ lease[c] # NoLease
    /\ lease' = [lease EXCEPT ![c] = NoLease]
    /\ taken' = taken \ {lease[c]}
    /\ revoked' = {z \in revoked : \E d \in Clients \ {c} : lease[d] = z}

Revoke(z) ==
    /\ z \in taken
    /\ taken' = taken \ {z}
    /\ revoked' = revoked \cup {z}
    /\ UNCHANGED lease

LeasesNext ==
    \/ \E c \in Clients : GiveBack(c) \/ \E z \in Leasable : Acquire(c, z)
    \/ \E z \in Leasable : Revoke(z)

LeasesSpec == LeasesInit /\ [][LeasesNext]_leaseVars

=============================================================================
