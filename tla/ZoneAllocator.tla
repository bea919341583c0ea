---------------------------- MODULE ZoneAllocator ----------------------------
(***************************************************************************)
(* ZoneAllocator (src/zone_allocator/mod.rs) and the handles it gives out. *)
(* A step is what a thread does between two points where another thread    *)
(* can interfere: a zone report, the acquisition of the mutex, a critical  *)
(* section.  allocate() reports the zones BEFORE it takes the mutex, and   *)
(* gives the mutex up before allocate_zone takes it again.                 *)
(*                                                                         *)
(* Critical sections that contain no call are one step, enabled when the   *)
(* mutex is free; the scan of allocate() holds the mutex over its loop and *)
(* is two, so that a missing drop(allocated) would show as a deadlock.     *)
(* Poisoning is not modelled: no critical section can panic.  Each thread  *)
(* holds one handle at most; one that holds two is two threads here.       *)
(***************************************************************************)
EXTENDS ZoneHandle

CONSTANT BatchSize      \* the 512 of allocate()

ASSUME AllocatorAssumption == BatchSize \in Nat \ {0}

VARIABLES
    allocated,  \* AllocatorInner.allocated: the zones checked out
    holder,     \* the thread that holds its mutex, or NoThread
    pc,         \* pc[t]: where t is in a call of the allocator
    target,     \* target[t]: the zone_index t is after, or holds
    seen,       \* seen[t]: of the zones report_all_zones has collected, the empty
    cursor,     \* cursor[t]: all_zones.len()
    outcome,    \* outcome[t]: what t's last call of the allocator returned
    revoked,    \* history: the zones that release() took from a thread that owns
                \* them, until the last owner is gone
    lent        \* history: lent[t]: of the zones seen[t], those that another thread
                \* owned when they were reported or later

allocatorVars == <<allocated, holder, pc, target, seen, cursor, outcome, revoked, lent>>
vars == <<handleVars, allocatorVars>>

NoThread == "NoThread"
ASSUME NoThreadAssumption == NoThread \notin Threads

\* Idle outside any call; Held between calls, with a handle.
Labels   == {"Idle", "Report", "Lock", "Scan", "Try", "Construct", "Rollback", "Held"}
Outcomes == {"None", "Pending", "Ok", "InvalidRange", "Error",
             "ZoneAlreadyAllocated", "ZoneNotAllocated"}

AllocatorTypeOK ==
    /\ allocated \subseteq Indices
    /\ holder \in Threads \cup {NoThread}
    /\ pc \in [Threads -> Labels]
    /\ target \in [Threads -> Indices \cup {NoZone}]
    /\ seen \in [Threads -> SUBSET Zones]
    /\ cursor \in [Threads -> 0 .. NrZones]
    /\ outcome \in [Threads -> Outcomes]
    /\ revoked \subseteq Indices
    /\ lent \in [Threads -> SUBSET Indices]

AllocatorInit ==
    /\ HandleInit
    /\ allocated = {}
    /\ holder = NoThread
    /\ pc = [t \in Threads |-> "Idle"]
    /\ target = [t \in Threads |-> NoZone]
    /\ seen = [t \in Threads |-> {}]
    /\ cursor = [t \in Threads |-> 0]
    /\ outcome = [t \in Threads |-> "None"]
    /\ revoked = {}
    /\ lent = [t \in Threads |-> {}]

Goto(t, label) == pc' = [pc EXCEPT ![t] = label]

\* The call returns r and leaves t without a handle.
Fail(t, r) ==
    /\ Goto(t, "Idle")
    /\ target' = [target EXCEPT ![t] = NoZone]
    /\ seen' = [seen EXCEPT ![t] = {}]
    /\ cursor' = [cursor EXCEPT ![t] = 0]
    /\ lent' = [lent EXCEPT ![t] = {}]
    /\ outcome' = [outcome EXCEPT ![t] = r]

\* The threads that a zone is checked out to, and the zones.
Owner(t) == pc[t] \in {"Construct", "Rollback", "Held"}
Owned    == {target[t] : t \in {u \in Threads : Owner(u)}}

MutexFree == holder = NoThread

-----------------------------------------------------------------------------
(* allocate()                                                              *)

Allocate(t) ==
    /\ pc[t] = "Idle"
    /\ Goto(t, "Report")
    /\ outcome' = [outcome EXCEPT ![t] = "Pending"]
    /\ UNCHANGED <<handleVars, allocated, holder, target, seen, cursor, revoked, lent>>

\* The zones of the next batch of report_all_zones.
Batch(t) == {z \in Zones : cursor[t] <= z /\ z < cursor[t] + BatchSize}

\* Mutant: the loop of report_all_zones runs past the last zone.
ReportBatch_OneMore(t) ==
    /\ pc[t] = "Report"
    /\ seen' = [seen EXCEPT ![t] = @ \cup {z \in Batch(t) : drive[z].cond = "Empty"}]
    /\ cursor' = [cursor EXCEPT ![t] = @ + BatchSize]
    /\ IF cursor[t] + BatchSize > NrZones THEN Goto(t, "Lock") ELSE UNCHANGED pc
    /\ lent' = [lent EXCEPT ![t] = @ \cup ((seen'[t] \ seen[t]) \cap Owned)]
    /\ UNCHANGED <<handleVars, allocated, holder, target, outcome, revoked>>

ReportBatch(t) ==
    /\ pc[t] = "Report"
    /\ seen' = [seen EXCEPT ![t] = @ \cup {z \in Batch(t) : drive[z].cond = "Empty"}]
    /\ IF cursor[t] + BatchSize >= NrZones
       THEN cursor' = [cursor EXCEPT ![t] = NrZones] /\ Goto(t, "Lock")
       ELSE cursor' = [cursor EXCEPT ![t] = @ + BatchSize] /\ UNCHANGED pc
    /\ lent' = [lent EXCEPT ![t] = @ \cup ((seen'[t] \ seen[t]) \cap Owned)]
    /\ UNCHANGED <<handleVars, allocated, holder, target, outcome, revoked>>

\* device_info or report_zones fails.
ReportFails(t) ==
    /\ pc[t] = "Report"
    /\ Fail(t, "Error")
    /\ UNCHANGED <<handleVars, allocated, holder, revoked>>

Lock(t) ==
    /\ pc[t] = "Lock"
    /\ MutexFree
    /\ holder' = t
    /\ Goto(t, "Scan")
    /\ UNCHANGED <<handleVars, allocated, target, seen, cursor, outcome, revoked, lent>>

\* Mutant: the reported condition is not looked at.
Suitable_AnyCondition(t) == {z \in Zones : IsSequential(z) /\ z \notin allocated}

Suitable(t) == {z \in seen[t] : IsSequential(z) /\ z \notin allocated}

\* Mutant: no drop(allocated) before allocate_zone is called.
Scan_KeepsMutex(t) ==
    /\ pc[t] = "Scan"
    /\ \/ /\ \E i \in Suitable(t) :
                /\ \A j \in Suitable(t) : i <= j
                /\ target' = [target EXCEPT ![t] = i]
          /\ Goto(t, "Try")
          /\ UNCHANGED <<holder, seen, cursor, outcome, lent>>
       \/ Suitable(t) = {} /\ Fail(t, "InvalidRange") /\ holder' = NoThread
    /\ UNCHANGED <<handleVars, allocated, revoked>>

\* Mutant: the zone found is not checked again under the second lock.
Scan_SkipsTry(t) ==
    /\ pc[t] = "Scan"
    /\ holder' = NoThread
    /\ \/ /\ \E i \in Suitable(t) :
                /\ \A j \in Suitable(t) : i <= j
                /\ target' = [target EXCEPT ![t] = i]
          /\ Goto(t, "Construct")
          /\ UNCHANGED <<seen, cursor, outcome, lent>>
       \/ Suitable(t) = {} /\ Fail(t, "InvalidRange")
    /\ UNCHANGED <<handleVars, allocated, revoked>>

Scan(t) ==
    /\ pc[t] = "Scan"
    /\ holder' = NoThread
    /\ \/ /\ \E i \in Suitable(t) :
                /\ \A j \in Suitable(t) : i <= j
                /\ target' = [target EXCEPT ![t] = i]
          /\ Goto(t, "Try")
          /\ UNCHANGED <<seen, cursor, outcome, lent>>
       \/ Suitable(t) = {} /\ Fail(t, "InvalidRange")
    /\ UNCHANGED <<handleVars, allocated, revoked>>

-----------------------------------------------------------------------------
(* allocate_zone(), on its own or called by allocate()                     *)

AllocateZone(t, i) ==
    /\ pc[t] = "Idle"
    /\ target' = [target EXCEPT ![t] = i]
    /\ Goto(t, "Try")
    /\ outcome' = [outcome EXCEPT ![t] = "Pending"]
    /\ UNCHANGED <<handleVars, allocated, holder, seen, cursor, revoked, lent>>

\* The calls whose report is out of date for zone i from now on.
LendTo(t, i) ==
    lent' = [u \in Threads |-> IF u # t /\ i \in seen[u] THEN lent[u] \cup {i} ELSE lent[u]]

\* Mutant: insert without contains.
TryAllocate_Unchecked(t) ==
    /\ pc[t] = "Try"
    /\ MutexFree
    /\ allocated' = allocated \cup {target[t]}
    /\ Goto(t, "Construct")
    /\ LendTo(t, target[t])
    /\ UNCHANGED <<handleVars, holder, target, seen, cursor, outcome, revoked>>

TryAllocate(t) ==
    /\ pc[t] = "Try"
    /\ MutexFree
    /\ \/ /\ target[t] \in allocated
          /\ Fail(t, "ZoneAlreadyAllocated")
          /\ UNCHANGED allocated
       \/ /\ target[t] \notin allocated
          /\ allocated' = allocated \cup {target[t]}
          /\ Goto(t, "Construct")
          /\ LendTo(t, target[t])
          /\ UNCHANGED <<target, seen, cursor, outcome>>
    /\ UNCHANGED <<handleVars, holder, revoked>>

\* ZoneHandle::new_with_allocator
Construct(t) ==
    /\ pc[t] = "Construct"
    /\ NewInner(t, target[t])
    /\ IF result'[t] = "Ok"
       THEN /\ Goto(t, "Held")
            /\ seen' = [seen EXCEPT ![t] = {}]
            /\ cursor' = [cursor EXCEPT ![t] = 0]
            /\ lent' = [lent EXCEPT ![t] = {}]
            /\ outcome' = [outcome EXCEPT ![t] = "Ok"]
       ELSE /\ Goto(t, "Rollback")
            /\ UNCHANGED <<seen, cursor, outcome, lent>>
    /\ UNCHANGED <<allocated, holder, target, revoked>>

\* The revoked zones that still have an owner when t is gone.
StillShared(t) == {z \in revoked : \E u \in Threads \ {t} : Owner(u) /\ target[u] = z}

\* Mutant: no rollback.
Rollback_Forgotten(t) ==
    /\ pc[t] = "Rollback"
    /\ revoked' = StillShared(t)
    /\ Fail(t, result[t])
    /\ UNCHANGED <<handleVars, allocated, holder>>

\* "Roll back the allocation on failure"
Rollback(t) ==
    /\ pc[t] = "Rollback"
    /\ MutexFree
    /\ allocated' = allocated \ {target[t]}
    /\ revoked' = StillShared(t)
    /\ Fail(t, result[t])
    /\ UNCHANGED <<handleVars, holder>>

-----------------------------------------------------------------------------
(* Handles, and release()                                                  *)

UseHandle(t) ==
    /\ pc[t] = "Held"
    /\ Operate(t)
    /\ UNCHANGED allocatorVars

\* Drop for ZoneHandle calls AllocatorInner::release.
DropHandle(t) ==
    /\ pc[t] = "Held"
    /\ MutexFree
    /\ Drop(t)
    /\ allocated' = allocated \ {handle[t].zone}
    /\ revoked' = StillShared(t)
    /\ Fail(t, "None")
    /\ UNCHANGED holder

\* ZoneAllocator::release takes any index, whoever owns the zone: its handle
\* lives on, and the zone can be allocated a second time.
Release(t, i) ==
    /\ pc[t] \in {"Idle", "Held"}
    /\ MutexFree
    /\ allocated' = allocated \ {i}
    /\ revoked' = revoked \cup ({i} \cap allocated)
    /\ outcome' = [outcome EXCEPT ![t] =
                      IF i \in allocated THEN "Ok" ELSE "ZoneNotAllocated"]
    /\ UNCHANGED <<handleVars, holder, pc, target, seen, cursor, lent>>

-----------------------------------------------------------------------------
(* The specification                                                       *)

\* The steps of a call that has begun.
Continue(t) ==
    \/ ReportBatch(t)
    \/ ReportFails(t)
    \/ Lock(t)
    \/ Scan(t)
    \/ TryAllocate(t)
    \/ Construct(t)
    \/ Rollback(t)

Begin(t) == Allocate(t) \/ \E i \in Indices : AllocateZone(t, i)

AllocatorNext ==
    \/ \E t \in Threads : Begin(t) \/ Continue(t) \/ UseHandle(t) \/ DropHandle(t)
    \/ \E t \in Threads, i \in Indices : Release(t, i)
    \/ DriveCloses /\ UNCHANGED allocatorVars

AllocatorSpec == AllocatorInit /\ [][AllocatorNext]_vars

\* Threads inside a call keep running.
AllocatorFairSpec == AllocatorSpec /\ \A t \in Threads : WF_vars(Continue(t))

-----------------------------------------------------------------------------
(* Properties                                                              *)

\* The set behind the mutex holds zones of live handles and of handles being
\* made only, so that no failed construction leaves a zone behind; and all of
\* them but the revoked, so that none is given back while its handle lives.
\* (try_allocate, the rollback, Drop, release.)
AllocatedExact ==
    /\ allocated \subseteq Owned
    /\ Owned \ revoked \subseteq allocated
    /\ revoked \subseteq Owned

\* The allocator implements ZoneLeases: from try_allocate to the end of the
\* rollback, or of the drop of the handle, a zone is leased to one thread, and
\* only then is it in the set behind the mutex, but for what release() revokes.
\* Every other step of allocate, allocate_zone and of the handles leaves leases
\* and set alone.
LeaseOf(t) == IF Owner(t) THEN target[t] ELSE NoZone

Leases == INSTANCE ZoneLeases WITH
              Clients <- Threads,
              Leasable <- Indices,
              NoLease <- NoZone,
              lease <- [t \in Threads |-> LeaseOf(t)],
              taken <- allocated

LeasesImplemented == Leases!LeasesSpec

\* No two threads own one zone that was not revoked, and a handle is of the zone
\* its thread owns.
OneOwner ==
    /\ \A t, u \in Threads :
           Owner(t) /\ Owner(u) /\ t # u /\ target[t] = target[u] => target[t] \in revoked
    /\ \A t \in Threads : Live(t) <=> pc[t] = "Held"
    /\ \A t \in Threads : Live(t) => handle[t].zone = target[t]

\* The handles behave as ZoneHandle specifies, whose obligation Exclusive the
\* allocator discharges: no second handle is made of a zone, unless release()
\* was called for it while the first one lived.
HandlesUnlessRevoked ==
    /\ HandleInit
    /\ [][HandleNext \/ \E t \in Threads, i \in revoked : NewInner(t, i)]_handleVars

\* "each zone has exactly one writer": no two threads hold handles of one zone.
\* release() of a zone whose handle lives, and a second allocation, break it.
ExclusiveOwnership ==
    \A t, u \in Threads : Live(t) /\ Live(u) /\ t # u => handle[t].zone # handle[u].zone

\* When callers stop making new calls, every call in progress returns: a report
\* ends, and nobody waits for ever for the mutex, nor for itself.
CallsReturn ==
    <>[][~ \E t \in Threads : pc[t] = "Idle" /\ pc'[t] # "Idle"]_vars
    => <>[](\A t \in Threads : pc[t] \in {"Idle", "Held"})

\* A call inside allocate() that has found a zone, not a bare allocate_zone().
InAllocate(t) == seen[t] # {}

\* "Allocate the next available empty sequential zone": the zone of the handle
\* allocate() returns is empty, unless another thread owned the zone when it
\* was reported or since.  (The report is taken before the mutex, and the set is
\* all that is looked at afterwards.)
StaleOnlyIfLent ==
    [][\A t \in Threads :
          InAllocate(t) /\ pc'[t] = "Held" =>
              drive[target[t]].cond = "Empty" \/ target[t] \in lent[t]]_vars

=============================================================================
