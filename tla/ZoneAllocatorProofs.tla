------------------------- MODULE ZoneAllocatorProofs -------------------------
(***************************************************************************)
(* Theorems about ZoneAllocator for any number of threads and zones and    *)
(* any batch size: one owner per zone, exact bookkeeping, and that handles *)
(* made by the allocator behave as ZoneHandle specifies, whose obligation  *)
(* Exclusive the allocator discharges.  release() is as in the code, open  *)
(* to any index: what it takes from a thread that holds a handle is in     *)
(* revoked, and the theorems say what holds of the zones that are not.     *)
(***************************************************************************)
EXTENDS ZoneAllocator, ZoneHandleProofs

-----------------------------------------------------------------------------
(* The inductive invariant                                                 *)

\* A thread past the beginning of allocate_zone has a target, and one that
\* rolls back knows why.
Targeted ==
    \A t \in Threads :
        /\ pc[t] \in {"Try", "Construct", "Rollback", "Held"} => target[t] \in Indices
        /\ pc[t] = "Rollback" => result[t] \in {"InvalidRange", "Error"}

AllocatorInv ==
    TypeInv /\ AllocatorTypeOK /\ Targeted /\ AllocatedExact /\ OneOwner

\* A step of t that leaves every owner an owner of the same zone, makes none,
\* and keeps handles and the set as they are.
LEMMA OwnersKept ==
    ASSUME AllocatedExact, OneOwner,
           allocated' = allocated, revoked' = revoked,
           \A u \in Threads : Live(u)' <=> Live(u),
           \A u \in Threads : handle'[u].zone = handle[u].zone,
           \A u \in Threads : Owner(u)' <=> Owner(u),
           \A u \in Threads : pc'[u] = "Held" <=> pc[u] = "Held",
           \A u \in Threads : Owner(u) => target'[u] = target[u]
    PROVE  AllocatedExact' /\ OneOwner'
<1>1. AllocatedExact'
  BY DEF AllocatedExact, Owned
<1>2. OneOwner'
  BY DEF OneOwner, Owner
<1> QED BY <1>1, <1>2

\* A step that changes nothing of the handles and moves only t, which owns no
\* zone before or after.
LEMMA BystanderStep ==
    ASSUME TypeInv, AllocatorTypeOK, AllocatedExact, OneOwner, NEW t \in Threads,
           UNCHANGED <<handleVars, allocated, revoked>>,
           \A u \in Threads \ {t} : pc'[u] = pc[u] /\ target'[u] = target[u],
           ~Owner(t), ~Owner(t)'
    PROVE  TypeInv' /\ AllocatedExact' /\ OneOwner'
<1>1. TypeInv'
  BY DEF handleVars, TypeInv, TypeOK, Live
<1>2. AllocatedExact' /\ OneOwner'
  BY OwnersKept DEF handleVars, Live, Owner
<1> QED BY <1>1, <1>2

\* An owner t goes idle and its zone leaves the set.
LEMMA GiveBack ==
    ASSUME AllocatedExact, OneOwner, AllocatorTypeOK,
           NEW t \in Threads, Owner(t),
           allocated' = allocated \ {target[t]},
           revoked' = StillShared(t),
           pc' = [pc EXCEPT ![t] = "Idle"],
           target' = [target EXCEPT ![t] = NoZone],
           ~Live(t)',
           \A u \in Threads \ {t} : handle'[u] = handle[u]
    PROVE  AllocatedExact' /\ OneOwner'
<1>1. /\ ~Owner(t)' /\ pc'[t] = "Idle"
      /\ \A u \in Threads \ {t} :
             /\ Owner(u)' <=> Owner(u)
             /\ pc'[u] = pc[u]
             /\ target'[u] = target[u]
  BY DEF Owner, AllocatorTypeOK
<1>2. ASSUME NEW u \in Threads \ {t}, Owner(u), target[u] = target[t]
      PROVE  target[t] \in revoked'
  BY <1>2 DEF OneOwner, StillShared
<1>3. /\ Owned' = {target[u] : u \in {v \in Threads \ {t} : Owner(v)}}
      /\ \A z \in Owned' : z \in revoked => z \in revoked'
      /\ revoked' \subseteq Owned'
  BY <1>1 DEF Owned, StillShared
<1>4. AllocatedExact'
  <2>1. allocated' \subseteq Owned'
    BY <1>3 DEF AllocatedExact, Owned
  <2>2. ASSUME NEW z \in Owned', z \notin revoked' PROVE z \in allocated'
    <3>1. z \in allocated
      BY <1>3, <2>2 DEF AllocatedExact, Owned
    <3>2. z # target[t]
      BY <1>2, <1>3, <2>2
    <3> QED BY <3>1, <3>2
  <2> QED BY <1>3, <2>1, <2>2 DEF AllocatedExact
<1>5. OneOwner'
  <2>1. ASSUME NEW u \in Threads, NEW v \in Threads, Owner(u)', Owner(v)', u # v,
               target'[u] = target'[v]
        PROVE  target'[u] \in revoked'
    BY <1>1, <2>1 DEF OneOwner, StillShared
  <2>2. \A u \in Threads : Live(u)' => handle'[u].zone = target'[u]
    BY <1>1 DEF OneOwner, Live
  <2>3. \A u \in Threads : Live(u)' <=> pc'[u] = "Held"
    BY <1>1 DEF OneOwner, Live
  <2> QED BY <2>1, <2>2, <2>3 DEF OneOwner
<1> QED BY <1>4, <1>5

LEMMA InitAllocatorInv == AllocatorInit => AllocatorInv
<1> SUFFICES ASSUME AllocatorInit PROVE AllocatorInv
  OBVIOUS
<1>1. TypeInv /\ (\A t \in Threads : ~Live(t))
  BY InitHandleInv DEF AllocatorInit, HandleInv, HandleInit, NoHandle, Live
<1>2. AllocatorTypeOK /\ Targeted
  BY DriveAssumption
     DEF AllocatorInit, AllocatorTypeOK, Targeted, Labels, Outcomes, NoThread
<1>3. AllocatedExact /\ OneOwner
  BY <1>1 DEF AllocatorInit, AllocatedExact, OneOwner, Owner, Owned
<1> QED BY <1>1, <1>2, <1>3 DEF AllocatorInv

\* A call that fails leaves the allocator's variables in their types.
LEMMA FailTypes ==
    ASSUME AllocatorTypeOK, NEW t \in Threads, NEW r \in Outcomes, Fail(t, r),
           allocated' \subseteq Indices, revoked' \subseteq Indices,
           holder' \in Threads \cup {NoThread}
    PROVE  AllocatorTypeOK'
<1> USE DriveAssumption DEF AllocatorTypeOK, Fail, Goto
<1>1. pc' \in [Threads -> Labels]
  BY DEF Labels
<1>2. target' \in [Threads -> Indices \cup {NoZone}] /\ outcome' \in [Threads -> Outcomes]
  OBVIOUS
<1>3. seen' \in [Threads -> SUBSET Zones]
  OBVIOUS
<1>4. cursor' \in [Threads -> 0 .. NrZones]
  OBVIOUS
<1>5. lent' \in [Threads -> SUBSET Indices]
  OBVIOUS
<1> QED BY <1>1, <1>2, <1>3, <1>4, <1>5

LEMMA FailTyping ==
    ASSUME AllocatorTypeOK, Targeted, NEW t \in Threads, NEW r \in Outcomes, Fail(t, r),
           allocated' \subseteq Indices, revoked' \subseteq Indices,
           holder' \in Threads \cup {NoThread}, UNCHANGED result
    PROVE  AllocatorTypeOK' /\ Targeted'
<1>1. AllocatorTypeOK'
  BY FailTypes
<1>2. Targeted'
  BY DEF AllocatorTypeOK, Targeted, Fail, Goto
<1> QED BY <1>1, <1>2

\* The steps of a call, one by one.
LEMMA ContinueInv ==
    ASSUME AllocatorInv, NEW t \in Threads, Begin(t) \/ Continue(t)
    PROVE  AllocatorInv'
<1> USE DEF AllocatorInv
<1>1. CASE Allocate(t)
  <2>1. TypeInv' /\ AllocatedExact' /\ OneOwner'
    BY <1>1, BystanderStep DEF Allocate, Goto, Owner, AllocatorTypeOK
  <2>2. AllocatorTypeOK' /\ Targeted'
    BY <1>1 DEF Allocate, Goto, AllocatorTypeOK, Targeted, Labels, Outcomes, handleVars
  <2> QED BY <2>1, <2>2
<1>2. ASSUME NEW i \in Indices, AllocateZone(t, i) PROVE AllocatorInv'
  <2>1. TypeInv' /\ AllocatedExact' /\ OneOwner'
    BY <1>2, BystanderStep DEF AllocateZone, Goto, Owner, AllocatorTypeOK
  <2>2. AllocatorTypeOK' /\ Targeted'
    BY <1>2 DEF AllocateZone, Goto, AllocatorTypeOK, Targeted, Labels, Outcomes, handleVars
  <2> QED BY <2>1, <2>2
<1>3. CASE ReportBatch(t)
  <2>1. TypeInv' /\ AllocatedExact' /\ OneOwner'
    BY <1>3, BystanderStep DEF ReportBatch, Goto, Owner, AllocatorTypeOK
  <2>2. seen' \in [Threads -> SUBSET Zones]
    BY <1>3 DEF ReportBatch, Batch, AllocatorTypeOK
  <2>3. cursor' \in [Threads -> 0 .. NrZones]
    BY <1>3, AllocatorAssumption, DriveAssumption DEF ReportBatch, AllocatorTypeOK
  <2>4. lent' \in [Threads -> SUBSET Indices]
    <3>1. seen'[t] \subseteq Indices
      BY <2>2, DriveAssumption DEF Zones, Indices
    <3> QED BY <1>3, <3>1 DEF ReportBatch, AllocatorTypeOK
  <2>5. AllocatorTypeOK' /\ Targeted'
    BY <1>3, <2>2, <2>3, <2>4
       DEF ReportBatch, Goto, AllocatorTypeOK, Targeted, Labels, handleVars
  <2> QED BY <2>1, <2>5
<1>4. CASE ReportFails(t)
  <2>1. TypeInv' /\ AllocatedExact' /\ OneOwner'
    BY <1>4, BystanderStep DEF ReportFails, Fail, Goto, Owner, AllocatorTypeOK
  <2>2. AllocatorTypeOK' /\ Targeted'
    BY <1>4, FailTyping DEF ReportFails, AllocatorTypeOK, Outcomes, handleVars
  <2> QED BY <2>1, <2>2
<1>5. CASE Lock(t)
  <2>1. TypeInv' /\ AllocatedExact' /\ OneOwner'
    BY <1>5, BystanderStep DEF Lock, Goto, Owner, AllocatorTypeOK
  <2>2. AllocatorTypeOK' /\ Targeted'
    BY <1>5 DEF Lock, Goto, AllocatorTypeOK, Targeted, Labels, handleVars
  <2> QED BY <2>1, <2>2
<1>6. CASE Scan(t)
  <2>1. TypeInv' /\ AllocatedExact' /\ OneOwner'
    BY <1>6, BystanderStep DEF Scan, Fail, Goto, Owner, AllocatorTypeOK
  <2>2. \A i \in Suitable(t) : i \in Indices
    BY DriveAssumption DEF Suitable, AllocatorTypeOK, Zones, Indices
  <2>3. CASE Suitable(t) = {}
    BY <1>6, <2>1, <2>3, FailTyping DEF Scan, AllocatorTypeOK, Outcomes, handleVars
  <2>4. CASE Suitable(t) # {}
    <3>1. PICK i \in Suitable(t) : target' = [target EXCEPT ![t] = i]
      BY <1>6, <2>4 DEF Scan
    <3>2. AllocatorTypeOK' /\ Targeted'
      BY <1>6, <2>2, <2>4, <3>1
         DEF Scan, Goto, AllocatorTypeOK, Targeted, Labels, handleVars
    <3> QED BY <2>1, <3>2
  <2> QED BY <2>3, <2>4
<1>7. CASE TryAllocate(t)
  <2>1. CASE target[t] \in allocated
    <3>1. TypeInv' /\ AllocatedExact' /\ OneOwner'
      BY <1>7, <2>1, BystanderStep DEF TryAllocate, Fail, Goto, Owner, AllocatorTypeOK
    <3>2. AllocatorTypeOK' /\ Targeted'
      BY <1>7, <2>1, FailTyping DEF TryAllocate, AllocatorTypeOK, Outcomes, handleVars
    <3> QED BY <3>1, <3>2
  <2>2. CASE target[t] \notin allocated
    <3>1. /\ pc' = [pc EXCEPT ![t] = "Construct"]
          /\ allocated' = allocated \cup {target[t]}
          /\ LendTo(t, target[t])
          /\ UNCHANGED <<handleVars, holder, target, seen, cursor, outcome, revoked>>
      BY <1>7, <2>2 DEF TryAllocate, Goto
    <3>2. TypeInv'
      BY <3>1 DEF handleVars, TypeInv, TypeOK, Live
    <3>3. AllocatorTypeOK' /\ Targeted'
      <4>1. target[t] \in Indices
        BY <1>7 DEF TryAllocate, Targeted
      <4>2. lent' \in [Threads -> SUBSET Indices]
        BY <3>1, <4>1 DEF LendTo, AllocatorTypeOK
      <4> QED BY <1>7, <3>1, <4>1, <4>2
              DEF TryAllocate, AllocatorTypeOK, Targeted, Labels, handleVars
    <3>4. /\ pc[t] = "Try" /\ pc \in [Threads -> Labels]
          /\ \A u \in Threads \ {t} : Owner(u)' <=> Owner(u)
          /\ Owner(t)' /\ ~Owner(t)
      BY <1>7, <3>1 DEF TryAllocate, Owner, AllocatorTypeOK
    <3>5. AllocatedExact'
      <4>1. Owned' = Owned \cup {target[t]}
        BY <3>1, <3>4 DEF Owned
      <4> QED BY <3>1, <4>1 DEF AllocatedExact
    <3>6. \A u \in Threads : Owner(u) /\ target[u] = target[t] => target[t] \in revoked
      BY <2>2 DEF AllocatedExact, Owned
    <3>7. OneOwner'
      BY <3>1, <3>4, <3>6 DEF OneOwner, handleVars, Live
    <3> QED BY <3>2, <3>3, <3>5, <3>7
  <2> QED BY <2>1, <2>2
<1>8. CASE Construct(t)
  <2>1. /\ pc[t] = "Construct" /\ target[t] \in Indices
        /\ NewInner(t, target[t])
        /\ UNCHANGED <<allocated, holder, target, revoked>>
        /\ \A u \in Threads \ {t} : pc'[u] = pc[u]
    BY <1>8 DEF Construct, Targeted, Goto, AllocatorTypeOK
  <2>2. TypeInv'
    <3>1. \E i \in Indices : NewInner(t, i)
      BY <2>1
    <3> QED BY <3>1, NewInnerTyping
  <2>3. /\ \A u \in Threads \ {t} : handle'[u] = handle[u] /\ result'[u] = result[u]
        /\ \/ result'[t] = "Ok" /\ target[t] \in Zones /\ handle'[t].zone = target[t]
           \/ result'[t] \in {"InvalidRange", "Error"} /\ handle' = handle
    BY <2>1, NewInnerKeeps
  <2>4. pc'[t] = IF result'[t] = "Ok" THEN "Held" ELSE "Rollback"
    BY <1>8 DEF Construct, Goto, AllocatorTypeOK
  <2>5. AllocatorTypeOK' /\ Targeted'
    <3>1. seen' \in [Threads -> SUBSET Zones]
      BY <1>8 DEF Construct, AllocatorTypeOK
    <3>2. cursor' \in [Threads -> 0 .. NrZones]
      BY <1>8, DriveAssumption DEF Construct, AllocatorTypeOK
    <3>5. lent' \in [Threads -> SUBSET Indices]
      BY <1>8 DEF Construct, AllocatorTypeOK
    <3>3. outcome' \in [Threads -> Outcomes] /\ pc' \in [Threads -> Labels]
      BY <1>8 DEF Construct, AllocatorTypeOK, Outcomes, Goto, Labels
    <3>4. Targeted'
      BY <2>1, <2>3, <2>4 DEF Targeted
    <3> QED BY <2>1, <3>1, <3>2, <3>3, <3>4, <3>5 DEF AllocatorTypeOK
  <2>6. \A u \in Threads : Owner(u)' <=> Owner(u)
    BY <2>1, <2>4 DEF Owner
  <2>7. AllocatedExact'
    BY <2>1, <2>6 DEF AllocatedExact, Owned
  <2>8. \A u \in Threads : Live(u)' <=> pc'[u] = "Held"
    BY <2>1, <2>3, <2>4 DEF OneOwner, Live, NoZone, Zones
  <2>9. OneOwner'
    BY <2>1, <2>3, <2>6, <2>8 DEF OneOwner, Live
  <2> QED BY <2>2, <2>5, <2>7, <2>9
<1>9. CASE Rollback(t)
  <2>1. /\ pc[t] = "Rollback"
        /\ pc' = [pc EXCEPT ![t] = "Idle"]
        /\ target' = [target EXCEPT ![t] = NoZone]
        /\ allocated' = allocated \ {target[t]}
        /\ revoked' = StillShared(t)
        /\ UNCHANGED handleVars
    BY <1>9 DEF Rollback, Fail, Goto
  <2>2. TypeInv'
    BY <2>1 DEF handleVars, TypeInv, TypeOK, Live
  <2>3. AllocatorTypeOK' /\ Targeted'
    <3>1. Fail(t, result[t]) /\ result[t] \in Outcomes /\ holder' = holder
      BY <1>9 DEF Rollback, Targeted, Outcomes
    <3>2. revoked' \subseteq Indices
      BY <2>1 DEF StillShared, AllocatorTypeOK
    <3> QED BY <2>1, <3>1, <3>2, FailTyping DEF AllocatorTypeOK, handleVars
  <2>4. AllocatedExact' /\ OneOwner'
    BY <2>1, GiveBack DEF handleVars, Live, Owner, AllocatorTypeOK, OneOwner
  <2> QED BY <2>2, <2>3, <2>4
<1> QED BY <1>1, <1>2, <1>3, <1>4, <1>5, <1>6, <1>7, <1>8, <1>9 DEF Begin, Continue

\* The inductive step.
LEMMA NextAllocatorInv == AllocatorInv /\ [AllocatorNext]_vars => AllocatorInv'
<1> SUFFICES ASSUME AllocatorInv, [AllocatorNext]_vars PROVE AllocatorInv'
  OBVIOUS
<1> USE DEF AllocatorInv
<1>1. ASSUME NEW t \in Threads, Begin(t) \/ Continue(t) PROVE AllocatorInv'
  BY <1>1, ContinueInv
<1>2. ASSUME NEW t \in Threads, UseHandle(t) PROVE AllocatorInv'
  <2>1. UNCHANGED allocatorVars /\ pc[t] = "Held"
    BY <1>2 DEF UseHandle
  <2>2. TypeInv'
    BY <1>2, OperateTyping DEF UseHandle
  <2>3. /\ \A u \in Threads : handle'[u].zone = handle[u].zone
        /\ \A u \in Threads \ {t} : result'[u] = result[u]
    BY <1>2, OperateKeeps DEF UseHandle
  <2>4. AllocatorTypeOK' /\ Targeted'
    BY <2>1, <2>3 DEF allocatorVars, AllocatorTypeOK, Targeted
  <2>5. AllocatedExact' /\ OneOwner'
    BY <2>1, <2>3, OwnersKept DEF allocatorVars, Live, Owner
  <2> QED BY <2>2, <2>4, <2>5
<1>3. ASSUME NEW t \in Threads, DropHandle(t) PROVE AllocatorInv'
  <2>1. /\ pc[t] = "Held" /\ handle[t].zone = target[t]
        /\ handle' = [handle EXCEPT ![t] = NoHandle]
        /\ pc' = [pc EXCEPT ![t] = "Idle"]
        /\ target' = [target EXCEPT ![t] = NoZone]
        /\ allocated' = allocated \ {target[t]}
        /\ revoked' = StillShared(t)
    BY <1>3 DEF DropHandle, Drop, Idle, Fail, Goto, OneOwner
  <2>2. TypeInv'
    BY <1>3, NextTyping DEF DropHandle, HandleNext
  <2>3. /\ \A u \in Threads \ {t} : handle'[u] = handle[u] /\ result'[u] = result[u]
        /\ ~Live(t)'
    BY <1>3, <2>1 DEF DropHandle, Drop, NoHandle, Live, TypeInv, TypeOK
  <2>4. AllocatedExact' /\ OneOwner'
    BY <2>1, <2>3, GiveBack DEF Owner
  <2>5. AllocatorTypeOK' /\ Targeted'
    <3>1. /\ Fail(t, "None") /\ holder' = holder
          /\ allocated' \subseteq Indices
          /\ revoked' \subseteq Indices
      BY <1>3, <2>1 DEF DropHandle, AllocatorTypeOK, StillShared
    <3>2. AllocatorTypeOK'
      BY <1>3, <3>1, FailTypes DEF AllocatorTypeOK, Outcomes
    <3>3. Targeted'
      BY <2>1, <2>3 DEF Targeted, AllocatorTypeOK
    <3> QED BY <3>2, <3>3
  <2> QED BY <2>2, <2>4, <2>5
<1>4. CASE DriveCloses /\ UNCHANGED allocatorVars
  <2>1. TypeInv'
    BY <1>4, NextTyping DEF HandleNext
  <2>2. handle' = handle /\ result' = result
    BY <1>4 DEF DriveCloses
  <2>3. AllocatorTypeOK' /\ Targeted'
    BY <1>4, <2>2 DEF allocatorVars, AllocatorTypeOK, Targeted
  <2>4. AllocatedExact' /\ OneOwner'
    BY <1>4, <2>2, OwnersKept DEF allocatorVars, Live, Owner
  <2> QED BY <2>1, <2>3, <2>4
<1>5. CASE UNCHANGED vars
  <2>1. UNCHANGED handleVars /\ UNCHANGED allocatorVars
    BY <1>5 DEF vars
  <2>2. TypeInv'
    BY <2>1, NextTyping
  <2>3. AllocatorTypeOK' /\ Targeted'
    BY <2>1 DEF handleVars, allocatorVars, AllocatorTypeOK, Targeted
  <2>4. AllocatedExact' /\ OneOwner'
    BY <2>1, OwnersKept DEF handleVars, allocatorVars, Live, Owner
  <2> QED BY <2>2, <2>3, <2>4
<1>6. ASSUME NEW t \in Threads, NEW i \in Indices, Release(t, i) PROVE AllocatorInv'
  <2>1. /\ allocated' = allocated \ {i}
        /\ revoked' = revoked \cup ({i} \cap allocated)
        /\ outcome' = [outcome EXCEPT ![t] =
                          IF i \in allocated THEN "Ok" ELSE "ZoneNotAllocated"]
        /\ UNCHANGED <<handleVars, holder, pc, target, seen, cursor, lent>>
    BY <1>6 DEF Release
  <2>2. TypeInv'
    BY <2>1, NextTyping
  <2>3. AllocatorTypeOK' /\ Targeted'
    BY <2>1 DEF handleVars, AllocatorTypeOK, Outcomes, Targeted
  <2>4. Owned' = Owned /\ \A u \in Threads : Owner(u)' <=> Owner(u)
    BY <2>1 DEF Owned, Owner
  <2>5. AllocatedExact'
    BY <2>1, <2>4 DEF AllocatedExact
  <2>6. OneOwner'
    BY <2>1, <2>4 DEF OneOwner, handleVars, Live
  <2> QED BY <2>2, <2>3, <2>5, <2>6
<1> QED BY <1>1, <1>2, <1>3, <1>4, <1>5, <1>6 DEF AllocatorNext

-----------------------------------------------------------------------------
(* Ownership                                                               *)

\* No two threads own one zone that release() did not take from its owner, however
\* allocate, allocate_zone, failed constructions, drops and releases interleave.
THEOREM Ownership == AllocatorSpec => []OneOwner
<1> QED BY InitAllocatorInv, NextAllocatorInv, PTL DEF AllocatorSpec, AllocatorInv

\* The set behind the mutex holds zones of live handles and of handles being made
\* only, and all of them that release() did not take away: no zone leaks, and
\* nothing but release() gives one back early.
THEOREM ExactBookkeeping == AllocatorSpec => []AllocatedExact
<1> QED BY InitAllocatorInv, NextAllocatorInv, PTL DEF AllocatorSpec, AllocatorInv

\* Type correctness of the allocator.
THEOREM AllocatorTyping == AllocatorSpec => []AllocatorTypeOK
<1> QED BY InitAllocatorInv, NextAllocatorInv, PTL DEF AllocatorSpec, AllocatorInv

\* "each zone has exactly one writer" holds of a program that never calls
\* release() for a zone somebody owns.
THEOREM OneWriterUnlessRevoked ==
    AllocatorSpec /\ [](revoked = {}) => []ExclusiveOwnership
<1>1. AllocatorInv /\ revoked = {} => ExclusiveOwnership
  BY DEF AllocatorInv, OneOwner, ExclusiveOwnership, Owner
<1> QED BY <1>1, InitAllocatorInv, NextAllocatorInv, PTL DEF AllocatorSpec

\* A zone that is about to be made a handle of has no other handle, unless it was
\* revoked: what the doc of ZoneHandle::new leaves to the caller.
LEMMA ConstructExclusive ==
    ASSUME AllocatorInv, NEW t \in Threads, pc[t] = "Construct", target[t] \notin revoked
    PROVE  Exclusive(target[t]) /\ target[t] \in Indices
<1> USE DEF AllocatorInv
<1>1. target[t] \in Indices
  BY DEF Targeted
<1>2. ASSUME NEW u \in Threads, handle[u].zone = target[t] PROVE FALSE
  <2>1. Live(u)
    BY <1>1, <1>2, DriveAssumption DEF Live, NoZone, Indices
  <2>2. pc[u] = "Held" /\ target[u] = target[t]
    BY <1>2, <2>1 DEF OneOwner
  <2> QED BY <2>2 DEF OneOwner, Owner
<1> QED BY <1>1, <1>2 DEF Exclusive

\* What a step does to the handles: a step of ZoneHandle, or a second handle of a
\* revoked zone.
LEMMA StepRefines ==
    ASSUME AllocatorInv, [AllocatorNext]_vars
    PROVE  [HandleNext \/ \E t \in Threads, i \in revoked : NewInner(t, i)]_handleVars
<1> DEFINE Step == HandleNext \/ \E t \in Threads, i \in revoked : NewInner(t, i)
<1>1. ASSUME NEW t \in Threads, Begin(t) \/ Continue(t) PROVE [Step]_handleVars
  <2>1. CASE Construct(t)
    <3>1. NewInner(t, target[t]) /\ pc[t] = "Construct"
      BY <2>1 DEF Construct
    <3>2. CASE target[t] \in revoked
      BY <3>1, <3>2
    <3>3. CASE target[t] \notin revoked
      <4>1. Exclusive(target[t]) /\ target[t] \in Indices
        BY <3>1, <3>3, ConstructExclusive
      <4> QED BY <3>1, <4>1 DEF HandleNext
    <3> QED BY <3>2, <3>3
  <2>2. CASE ~Construct(t)
    <3>1. UNCHANGED handleVars
      BY <1>1, <2>2 DEF Begin, Continue, Allocate, AllocateZone, ReportBatch, ReportFails,
                        Lock, Scan, TryAllocate, Rollback
    <3> QED BY <3>1
  <2> QED BY <2>1, <2>2
<1>2. ASSUME NEW t \in Threads, UseHandle(t) \/ DropHandle(t)
      PROVE  [Step]_handleVars
  BY <1>2 DEF UseHandle, DropHandle, HandleNext
<1>3. CASE DriveCloses
  BY <1>3 DEF HandleNext
<1>4. ASSUME NEW t \in Threads, NEW i \in Indices, Release(t, i)
      PROVE  [Step]_handleVars
  BY <1>4 DEF Release
<1>5. CASE UNCHANGED vars
  BY <1>5 DEF vars
<1> QED BY <1>1, <1>2, <1>3, <1>4, <1>5 DEF AllocatorNext

\* The allocator implements ZoneHandle: the handles it makes, uses and drops
\* behave as handles whose callers respect Exclusive for every zone that
\* release() did not take from its owner.
THEOREM AllocatorImplementsHandles == AllocatorSpec => HandlesUnlessRevoked
<1>1. AllocatorInit => HandleInit
  BY DEF AllocatorInit
<1> QED BY <1>1, InitAllocatorInv, NextAllocatorInv, StepRefines, PTL
        DEF AllocatorSpec, HandlesUnlessRevoked

-----------------------------------------------------------------------------
(* What a thread knows of a zone: its pointer, and that it is empty        *)

\* PointerTracksDevice for the zones that nobody took from their owner.
OwnedPointersTrack ==
    \A t \in Threads : Live(t) /\ synced[t] /\ handle[t].zone \notin revoked => Tracks(t)

\* A zone that a call of allocate() has seen empty is empty still and nobody
\* else's, unless it was lent meanwhile; and it is one of those that the call
\* goes after.
ReportHolds ==
    \A t \in Threads :
        /\ \A z \in seen[t] \ lent[t] :
               /\ drive[z].cond = "Empty"
               /\ \A u \in Threads \ {t} : Owner(u) => target[u] # z
        /\ pc[t] \in {"Idle", "Held"} => seen[t] = {}
        /\ pc[t] \in {"Try", "Construct", "Rollback"} /\ seen[t] # {} => target[t] \in seen[t]

\* Where a handle stands right after ZoneHandle::new, on Linux.
LEMMA NewTracks ==
    ASSUME Platform = "linux", TypeInv, NEW t \in Threads, NEW i \in Indices,
           NewInner(t, i), result'[t] = "Ok"
    PROVE  Tracks(t)'
<1> USE DEF TypeInv, TypeOK
<1>1. NewSucceeds(t, i) /\ drive' = drive
  BY DEF NewInner, NewFails
<1>2. PICK p \in ReportedPointers(drive, i) :
         handle' = [handle EXCEPT ![t] = [zone |-> i, wp |-> UnwrapOrStart(p)]]
  BY <1>1 DEF NewSucceeds
<1>3. i \in Zones /\ handle'[t].zone = i /\ handle'[t].wp = UnwrapOrStart(p)
  BY <1>1, <1>2 DEF NewSucceeds
<1>4. IsSequential(i) => UnwrapOrStart(p) = drive[i].wp
  BY <1>2, <1>3 DEF ReportedPointers, UnwrapOrStart, NoPointer, DriveState, Coherent
<1> QED BY <1>1, <1>3, <1>4 DEF Tracks

\* A step that leaves the drive, the pointers and what remains to be written.
LEMMA LeftFitsKept ==
    ASSUME LeftFits, UNCHANGED left, \A u \in Threads : left[u] > 0 => handle'[u] = handle[u]
    PROVE  LeftFits'
BY DEF LeftFits, Fits, AtCapacity, Capacity, IsSequential

\* Operate by t, which owns the zone: it writes to no other.
LEMMA UseOwn ==
    ASSUME NoSpill, AllocatorInv, LeftFits, NEW t \in Threads, UseHandle(t)
    PROVE  /\ Frame(t) /\ (Good(t) => Good(t)') /\ LeftFits'
           /\ Owner(t) /\ handle[t].zone = target[t]
           /\ UNCHANGED allocatorVars
<1>1. TypeInv /\ Operate(t) /\ UNCHANGED allocatorVars /\ pc[t] = "Held"
  BY DEF AllocatorInv, UseHandle
<1>2. Frame(t) /\ (Good(t) => Good(t)')
  BY <1>1, OperateStep
<1>3. LeftFits'
  BY <1>1, NextLeftFits DEF HandleNext
<1>4. Owner(t) /\ handle[t].zone = target[t]
  BY <1>1 DEF Owner, AllocatorInv, OneOwner
<1> QED BY <1>1, <1>2, <1>3, <1>4

LEMMA AllocatorLeftFits ==
    ASSUME NoSpill, AllocatorInv, LeftFits, [AllocatorNext]_vars
    PROVE  LeftFits'
<1>1. CASE [HandleNext]_handleVars
  BY <1>1, NextLeftFits DEF AllocatorInv
<1>2. ASSUME NEW t \in Threads, NEW i \in revoked, NewInner(t, i) PROVE LeftFits'
  <2>1. i \in Indices /\ TypeInv /\ left' = left
    BY <1>2 DEF AllocatorInv, AllocatorTypeOK, NewInner
  <2>2. left[t] = 0
    BY <1>2, <2>1 DEF NewInner, TypeInv, TypeOK
  <2>3. \A u \in Threads \ {t} : handle'[u] = handle[u]
    BY <1>2, <2>1, NewInnerKeeps
  <2> QED BY <2>1, <2>2, <2>3, LeftFitsKept
<1> QED BY <1>1, <1>2, StepRefines

\* The pointers of the handles of zones that were not revoked, step by step.
LEMMA NextOwnedPointers ==
    ASSUME Platform = "linux", NoSpill, AllocatorInv, LeftFits, OwnedPointersTrack,
           [AllocatorNext]_vars
    PROVE  OwnedPointersTrack'
<1> SUFFICES ASSUME NEW u \in Threads, Live(u)', synced'[u], handle'[u].zone \notin revoked'
             PROVE  Tracks(u)'
  BY DEF OwnedPointersTrack
<1> USE DEF AllocatorInv, TypeInv, TypeOK
<1>1. ASSUME UNCHANGED <<handle, synced, revoked>>,
             \A x \in Zones : /\ drive'[x].wp = drive[x].wp
                              /\ drive[x].cond = "Full" => drive'[x].cond = "Full"
      PROVE  Tracks(u)'
  <2>1. Tracks(u) /\ handle[u].zone \in Zones /\ handle'[u] = handle[u]
    BY <1>1 DEF OwnedPointersTrack, Live
  <2> QED BY <1>1, <2>1 DEF Tracks
<1>2. ASSUME NEW t \in Threads, UseHandle(t) PROVE Tracks(u)'
  <2>1. /\ Frame(t) /\ (Good(t) => Good(t)') /\ Owner(t)
        /\ handle[t].zone = target[t] /\ revoked' = revoked
    BY <1>2, UseOwn DEF allocatorVars
  <2>2. CASE u = t
    BY <2>1, <2>2 DEF Good, Frame, OwnedPointersTrack
  <2>3. CASE u # t
    <3>1. handle'[u] = handle[u] /\ Live(u) /\ synced[u] /\ handle[u].zone \notin revoked
      BY <2>1, <2>3 DEF Frame, Live
    <3>2. Owner(u) /\ target[u] = handle[u].zone
      BY <3>1 DEF OneOwner, Owner
    <3>3. handle[u].zone \in Zones \ {handle[t].zone}
      BY <2>1, <2>3, <3>1, <3>2 DEF OneOwner, Live
    <3>4. Tracks(u) /\ drive'[handle[u].zone] = drive[handle[u].zone]
      BY <2>1, <3>1, <3>3 DEF OwnedPointersTrack, Frame
    <3> QED BY <3>1, <3>4 DEF Tracks
  <2> QED BY <2>2, <2>3
<1>3. ASSUME NEW t \in Threads, Construct(t) PROVE Tracks(u)'
  <2>1. NewInner(t, target[t]) /\ target[t] \in Indices /\ revoked' = revoked /\ drive' = drive
    BY <1>3 DEF Construct, Targeted, NewInner
  <2>2. CASE u = t
    <3>1. result'[t] = "Ok" \/ handle' = handle
      BY <2>1, NewInnerKeeps
    <3>2. handle' # handle
      BY <2>1, <2>2 DEF NewInner, Live
    <3> QED BY <2>1, <2>2, <3>1, <3>2, NewTracks
  <2>3. CASE u # t
    <3>1. handle'[u] = handle[u] /\ synced'[u] = synced[u]
      BY <2>1, <2>3 DEF NewInner, NewSucceeds, NewFails
    <3> QED BY <2>1, <3>1 DEF OwnedPointersTrack, Live, Tracks
  <2> QED BY <2>2, <2>3
<1>4. ASSUME NEW t \in Threads, DropHandle(t) \/ Rollback(t) PROVE Tracks(u)'
  <2>1. revoked' = StillShared(t) /\ drive' = drive /\ Owner(t)
    BY <1>4 DEF DropHandle, Drop, Rollback, handleVars, Owner
  <2>2. u # t /\ handle'[u] = handle[u] /\ synced'[u] = synced[u]
    BY <1>4 DEF DropHandle, Drop, NoHandle, Rollback, handleVars, Live, OneOwner
  <2>3. Owner(u) /\ target[u] = handle[u].zone
    BY <2>2 DEF Live, OneOwner, Owner
  <2>4. handle[u].zone \notin revoked
    BY <2>1, <2>2, <2>3 DEF StillShared
  <2> QED BY <2>1, <2>2, <2>4 DEF OwnedPointersTrack, Live, Tracks
<1>5. ASSUME NEW t \in Threads, NEW i \in Indices, Release(t, i) PROVE Tracks(u)'
  BY <1>5 DEF Release, handleVars, OwnedPointersTrack, Live, Tracks
<1>6. CASE DriveCloses /\ UNCHANGED allocatorVars
  <2>1. \A x \in Zones : /\ drive'[x].wp = drive[x].wp
                         /\ drive[x].cond = "Full" => drive'[x].cond = "Full"
    BY <1>6 DEF DriveCloses, ImplicitCloseStates, Sets, DriveState
  <2> QED BY <1>1, <1>6, <2>1 DEF DriveCloses, allocatorVars
<1>7. ASSUME NEW t \in Threads,
             \/ Begin(t) \/ ReportBatch(t) \/ ReportFails(t) \/ Lock(t)
             \/ Scan(t) \/ TryAllocate(t)
      PROVE  Tracks(u)'
  <2>1. UNCHANGED <<handleVars, revoked>>
    BY <1>7 DEF Begin, Allocate, AllocateZone, ReportBatch, ReportFails, Lock, Scan, TryAllocate
  <2> QED BY <1>1, <2>1 DEF handleVars
<1>8. CASE UNCHANGED vars
  BY <1>1, <1>8 DEF vars, handleVars, allocatorVars
<1> QED BY <1>2, <1>3, <1>4, <1>5, <1>6, <1>7, <1>8 DEF AllocatorNext, Continue

\* Handles made by one allocator keep to the drive's pointer, on Linux and when
\* no write can spill, as long as nobody calls release() for their zone: no
\* other thread, whatever it allocates, releases, writes or drops, disturbs them.
THEOREM AllocatedPointerTracking ==
    ASSUME Platform = "linux", NoSpill
    PROVE  AllocatorSpec => []OwnedPointersTrack
<1> DEFINE Inv == AllocatorInv /\ LeftFits /\ OwnedPointersTrack
<1>1. AllocatorInit => Inv
  BY InitAllocatorInv, InitHandleInv
     DEF AllocatorInit, HandleInv, HandleInit, NoHandle, Live, OwnedPointersTrack
<1>2. Inv /\ [AllocatorNext]_vars => Inv'
  BY NextAllocatorInv, AllocatorLeftFits, NextOwnedPointers
<1> QED BY <1>1, <1>2, PTL DEF AllocatorSpec

\* What the calls of allocate() know of the zones they saw, step by step.
LEMMA NextReportHolds ==
    ASSUME NoSpill, AllocatorInv, LeftFits, ReportHolds, [AllocatorNext]_vars
    PROVE  ReportHolds'
<1> USE DEF AllocatorInv, TypeInv, TypeOK, AllocatorTypeOK
<1>1. ASSUME NEW t \in Threads, UseHandle(t) PROVE ReportHolds'
  <2>1. Frame(t) /\ Owner(t) /\ handle[t].zone = target[t] /\ UNCHANGED allocatorVars
    BY <1>1, UseOwn
  <2>2. ASSUME NEW u \in Threads, NEW z \in seen[u] \ lent[u] PROVE drive'[z].cond = "Empty"
    <3>1. u # t
      BY <1>1, <2>2 DEF ReportHolds, UseHandle
    <3>2. z # target[t] /\ drive[z].cond = "Empty" /\ z \in Zones
      BY <2>1, <2>2, <3>1 DEF ReportHolds
    <3> QED BY <2>1, <3>2 DEF Frame
  <2> QED BY <2>1, <2>2 DEF ReportHolds, allocatorVars, Owner
<1>2. ASSUME NEW t \in Threads, Begin(t) \/ Lock(t) PROVE ReportHolds'
  BY <1>2 DEF Begin, Allocate, AllocateZone, Lock, Goto, ReportHolds, Owner, handleVars
<1>3. ASSUME NEW t \in Threads, ReportBatch(t) PROVE ReportHolds'
  <2>1. /\ UNCHANGED <<handleVars, target>>
        /\ \A u \in Threads : Owner(u)' <=> Owner(u)
        /\ \A u \in Threads \ {t} : UNCHANGED <<pc[u], seen[u], lent[u]>>
        /\ pc'[t] \in {"Report", "Lock"}
    BY <1>3 DEF ReportBatch, Goto, Owner
  <2>2. /\ seen'[t] = seen[t] \cup {z \in Batch(t) : drive[z].cond = "Empty"}
        /\ lent'[t] = lent[t] \cup ((seen'[t] \ seen[t]) \cap Owned)
    BY <1>3 DEF ReportBatch
  <2>3. ASSUME NEW z \in seen'[t] \ lent'[t]
        PROVE  drive[z].cond = "Empty" /\ \A u \in Threads \ {t} : Owner(u) => target[u] # z
    <3>1. CASE z \in seen[t]
      BY <2>2, <2>3, <3>1 DEF ReportHolds
    <3>2. CASE z \notin seen[t]
      BY <2>2, <2>3, <3>2 DEF Owned
    <3> QED BY <3>1, <3>2
  <2> QED BY <2>1, <2>3 DEF ReportHolds, handleVars
<1>0. ASSUME NEW t \in Threads, NEW r, Fail(t, r), drive' = drive PROVE ReportHolds'
  <2>1. /\ pc' = [pc EXCEPT ![t] = "Idle"] /\ target' = [target EXCEPT ![t] = NoZone]
        /\ seen' = [seen EXCEPT ![t] = {}] /\ lent' = [lent EXCEPT ![t] = {}]
    BY <1>0 DEF Fail, Goto
  <2> QED BY <1>0, <2>1 DEF ReportHolds, Owner
<1>4. ASSUME NEW t \in Threads, ReportFails(t) \/ DropHandle(t) \/ Rollback(t) PROVE ReportHolds'
  BY <1>0, <1>4 DEF ReportFails, DropHandle, Drop, Rollback, handleVars
<1>5. ASSUME NEW t \in Threads, Scan(t) PROVE ReportHolds'
  <2>1. CASE Suitable(t) = {}
    BY <1>0, <1>5, <2>1 DEF Scan, handleVars
  <2>2. CASE Suitable(t) # {}
    <3>1. PICK i \in Suitable(t) : target' = [target EXCEPT ![t] = i]
      BY <1>5, <2>2 DEF Scan
    <3>2. i \in seen[t]
      BY <3>1 DEF Suitable
    <3> QED BY <1>5, <2>2, <3>1, <3>2 DEF Scan, Goto, ReportHolds, Owner, handleVars
  <2> QED BY <2>1, <2>2
<1>6. ASSUME NEW t \in Threads, TryAllocate(t) PROVE ReportHolds'
  <2>1. CASE target[t] \in allocated
    BY <1>0, <1>6, <2>1 DEF TryAllocate, handleVars
  <2>2. CASE target[t] \notin allocated
    BY <1>6, <2>2 DEF TryAllocate, Goto, LendTo, ReportHolds, Owner, handleVars
  <2> QED BY <2>1, <2>2
<1>7. ASSUME NEW t \in Threads, Construct(t) PROVE ReportHolds'
  BY <1>7 DEF Construct, NewInner, Goto, ReportHolds, Owner
<1>8. ASSUME NEW t \in Threads, NEW i \in Indices, Release(t, i) PROVE ReportHolds'
  BY <1>8 DEF Release, ReportHolds, Owner, handleVars
<1>9. CASE DriveCloses /\ UNCHANGED allocatorVars
  <2>1. \A z \in Zones : drive[z].cond = "Empty" => drive'[z].cond = "Empty"
    BY <1>9 DEF DriveCloses, ImplicitCloseStates, Sets, DriveState, Open
  <2> QED BY <1>9, <2>1 DEF ReportHolds, Owner, allocatorVars
<1>10. CASE UNCHANGED vars
  BY <1>10 DEF vars, handleVars, allocatorVars, ReportHolds, Owner
<1> QED BY <1>1, <1>2, <1>3, <1>4, <1>5, <1>6, <1>7, <1>8, <1>9, <1>10
        DEF AllocatorNext, Continue

\* The report that allocate() goes by can only be wrong about a zone that another
\* thread owned when it was reported or later: any other zone it returns is empty,
\* on either platform, when no write can spill.
THEOREM OnlyLentZonesAreStale ==
    ASSUME NoSpill
    PROVE  AllocatorSpec => StaleOnlyIfLent
<1> DEFINE Inv == AllocatorInv /\ LeftFits /\ ReportHolds
           Empty == \A t \in Threads :
                       InAllocate(t) /\ pc'[t] = "Held" =>
                           drive[target[t]].cond = "Empty" \/ target[t] \in lent[t]
<1>1. AllocatorInit => Inv
  BY InitAllocatorInv, InitHandleInv DEF AllocatorInit, HandleInv, ReportHolds
<1>2. Inv /\ [AllocatorNext]_vars => Inv'
  BY NextAllocatorInv, AllocatorLeftFits, NextReportHolds
<1>3. ASSUME Inv, [AllocatorNext]_vars PROVE Empty
  <2> SUFFICES ASSUME NEW t \in Threads, seen[t] # {}, pc'[t] = "Held"
               PROVE  drive[target[t]].cond = "Empty" \/ target[t] \in lent[t]
    BY DEF InAllocate
  <2>1. pc[t] # "Held" /\ pc \in [Threads -> Labels]
    BY <1>3 DEF ReportHolds, AllocatorInv, AllocatorTypeOK
  <2>2. pc[t] = "Construct"
    BY <1>3, <2>1
       DEF AllocatorNext, Begin, Continue, Allocate, AllocateZone, ReportBatch, ReportFails, Lock,
           Scan, TryAllocate, Construct, Rollback, UseHandle, DropHandle, Release, Fail, Goto,
           vars, allocatorVars
  <2>3. target[t] \in seen[t]
    BY <1>3, <2>2 DEF ReportHolds
  <2> QED BY <1>3, <2>3 DEF ReportHolds
<1> QED BY <1>1, <1>2, <1>3, PTL DEF AllocatorSpec, StaleOnlyIfLent

-----------------------------------------------------------------------------
(* The allocator implements ZoneLeases                                     *)

\* A step that keeps the owners, their zones and the set is a stutter.
LEMMA LeasesKept ==
    ASSUME allocated' = allocated, revoked' = revoked,
           \A u \in Threads : LeaseOf(u)' = LeaseOf(u)
    PROVE  UNCHANGED Leases!leaseVars
BY DEF Leases!leaseVars

\* The kinds of steps: a zone is checked out, given back, revoked, or none of it.
Quiet ==
    /\ allocated' = allocated /\ revoked' = revoked
    /\ \A u \in Threads : LeaseOf(u)' = LeaseOf(u)

CheckedOut(t) ==
    /\ \A u \in Threads \ {t} : LeaseOf(u)' = LeaseOf(u)
    /\ LeaseOf(t) = NoZone
    /\ LeaseOf(t)' \in Indices \ allocated
    /\ allocated' = allocated \cup {LeaseOf(t)'}
    /\ revoked' = revoked

GivenBack(t) ==
    /\ \A u \in Threads \ {t} : LeaseOf(u)' = LeaseOf(u)
    /\ LeaseOf(t) \in Indices
    /\ LeaseOf(t)' = NoZone
    /\ allocated' = allocated \ {LeaseOf(t)}
    /\ revoked' = {z \in revoked : \E u \in Threads \ {t} : LeaseOf(u) = z}

Revoked(i) ==
    /\ \A u \in Threads : LeaseOf(u)' = LeaseOf(u)
    /\ i \in allocated
    /\ allocated' = allocated \ {i}
    /\ revoked' = revoked \cup {i}

LEMMA LeaseSteps ==
    ASSUME AllocatorInv, [AllocatorNext]_vars
    PROVE  \/ Quiet
           \/ \E t \in Threads : CheckedOut(t) \/ GivenBack(t)
           \/ \E i \in Indices : Revoked(i)
<1> USE DEF AllocatorInv, AllocatorTypeOK, LeaseOf, Owner
<1>1. ASSUME NEW t \in Threads,
             \/ Begin(t) \/ ReportBatch(t) \/ ReportFails(t) \/ Lock(t) \/ Scan(t)
             \/ TryAllocate(t) /\ target[t] \in allocated
      PROVE  Quiet
  BY <1>1 DEF Begin, Allocate, AllocateZone, ReportBatch, ReportFails, Lock, Scan,
              TryAllocate, Fail, Goto, Quiet
<1>2. ASSUME NEW t \in Threads, TryAllocate(t), target[t] \notin allocated
      PROVE  CheckedOut(t)
  BY <1>2 DEF TryAllocate, Goto, Targeted, CheckedOut
<1>3. ASSUME NEW t \in Threads, Construct(t)
      PROVE  Quiet
  BY <1>3 DEF Construct, Goto, Quiet
<1>4. ASSUME NEW t \in Threads, Rollback(t) \/ DropHandle(t)
      PROVE  GivenBack(t)
  <2>1. LeaseOf(t) = target[t] /\ target[t] \in Indices
    BY <1>4 DEF Rollback, DropHandle, Targeted
  <2>2. allocated' = allocated \ {target[t]}
    BY <1>4 DEF Rollback, DropHandle, Drop, Idle, OneOwner
  <2>3. /\ pc' = [pc EXCEPT ![t] = "Idle"]
        /\ target' = [target EXCEPT ![t] = NoZone]
    BY <1>4 DEF Rollback, DropHandle, Fail, Goto
  <2>4. revoked' = StillShared(t)
    BY <1>4 DEF Rollback, DropHandle
  <2>5. \A z \in revoked : z # NoZone
    BY DriveAssumption DEF Indices, NoZone
  <2>6. StillShared(t) = {z \in revoked : \E u \in Threads \ {t} : LeaseOf(u) = z}
    BY <2>5 DEF StillShared
  <2> QED BY <2>1, <2>2, <2>3, <2>4, <2>6 DEF GivenBack
<1>5. ASSUME NEW t \in Threads, UseHandle(t)
      PROVE  Quiet
  BY <1>5 DEF UseHandle, allocatorVars, Quiet
<1>6. ASSUME NEW t \in Threads, NEW i \in Indices, Release(t, i)
      PROVE  Quiet \/ Revoked(i)
  BY <1>6 DEF Release, Quiet, Revoked
<1>7. CASE (DriveCloses /\ UNCHANGED allocatorVars) \/ UNCHANGED vars
  BY <1>7 DEF allocatorVars, vars, Quiet
<1> QED BY <1>1, <1>2, <1>3, <1>4, <1>5, <1>6, <1>7 DEF AllocatorNext, Continue

LEMMA StepImplementsLeases ==
    ASSUME AllocatorInv, [AllocatorNext]_vars
    PROVE  [Leases!LeasesNext]_(Leases!leaseVars)
<1>1. CASE Quiet
  BY <1>1, LeasesKept DEF Quiet
<1>2. ASSUME NEW t \in Threads, CheckedOut(t)
      PROVE  Leases!LeasesNext
  <2>1. Leases!Acquire(t, LeaseOf(t)')
    BY <1>2 DEF Leases!Acquire, CheckedOut
  <2> QED BY <1>2, <2>1 DEF Leases!LeasesNext, CheckedOut
<1>3. ASSUME NEW t \in Threads, GivenBack(t)
      PROVE  Leases!LeasesNext
  <2>1. LeaseOf(t) # NoZone
    BY <1>3, DriveAssumption DEF Indices, NoZone, GivenBack
  <2>2. [u \in Threads |-> LeaseOf(u)]'
           = [[u \in Threads |-> LeaseOf(u)] EXCEPT ![t] = NoZone]
    BY <1>3 DEF GivenBack
  <2>3. Leases!GiveBack(t)
    BY <1>3, <2>1, <2>2 DEF Leases!GiveBack, GivenBack
  <2> QED BY <2>3 DEF Leases!LeasesNext
<1>4. ASSUME NEW i \in Indices, Revoked(i)
      PROVE  Leases!LeasesNext
  <2>1. Leases!Revoke(i)
    BY <1>4 DEF Leases!Revoke, Revoked
  <2> QED BY <2>1 DEF Leases!LeasesNext
<1> QED BY LeaseSteps, <1>1, <1>2, <1>3, <1>4

\* The allocator is a lease table: one owner per zone, the set behind the mutex
\* exactly the leased zones, however its steps interleave; release() revokes.
THEOREM AllocatorImplementsLeases == AllocatorSpec => LeasesImplemented
<1>1. AllocatorInit => Leases!LeasesInit
  BY DEF AllocatorInit, Leases!LeasesInit, LeaseOf, Owner
<1> QED BY <1>1, InitAllocatorInv, NextAllocatorInv, StepImplementsLeases, PTL
        DEF AllocatorSpec, LeasesImplemented, Leases!LeasesSpec

=============================================================================
