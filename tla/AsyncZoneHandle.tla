--------------------------- MODULE AsyncZoneHandle ---------------------------
(***************************************************************************)
(* AsyncZoneHandle (src/async_api/zone_handle.rs): a ZoneHandle in an      *)
(* Arc<tokio::sync::Mutex>.  Every method but the getters clones the Arc   *)
(* into a closure, hands the closure to tokio's blocking pool and awaits   *)
(* its result; the closure takes the mutex and calls the synchronous       *)
(* method.  Dropping the future neither stops nor removes the closure.     *)
(* The getters take the mutex in the future itself.                        *)
(*                                                                         *)
(* AsyncZonedDevice (src/async_api/device.rs) does the same without a      *)
(* mutex: of its calls the model has those that change zones (zone_op, on  *)
(* one zone) and zone_handle, whose closure makes the ZoneHandle.          *)
(*                                                                         *)
(* Threads of ZoneHandle are the ZoneHandle objects here, Slots the calls  *)
(* that may be in progress at once.  A step is what runs between two       *)
(* points where another thread can interfere: the dequeue by a pool        *)
(* thread, blocking_lock, one turn of the method, the drop of the clone.   *)
(*                                                                         *)
(* Of tokio, which is not in the repository, the model has the FIFO queue  *)
(* and the limit of the blocking pool, and the fair mutex, whose release   *)
(* gives it to the first waiter, before that one is polled.  Panics and    *)
(* the shutdown of the runtime are left out.                               *)
(***************************************************************************)
EXTENDS ZoneHandle, Sequences, FiniteSets

CONSTANTS
    Slots,          \* calls in progress at once
    PoolSize        \* max_blocking_threads of the runtime

ASSUME AsyncAssumption ==
    /\ PoolSize \in Nat \ {0}
    /\ IsFiniteSet(Slots)
    /\ ~Clamped         \* the clients write whatever they like

\* The methods of a handle that go to the pool: which one it is, and with what
\* buffer, shows only when it has the mutex, but for the one that loops.
HandleCalls == {"one_call", "write_all_sequential"}

\* The calls of the device.
DeviceCalls == {"zone_op", "zone_handle"}

VARIABLES
    call,       \* call[s]: the closure and the future of a call
    pool,       \* closures the blocking pool has not started, in order
    owner,      \* owner[h]: the call that has h's mutex
    waiters,    \* waiters[h]: the calls queued for it, in order
    held        \* held[h]: the client still has its AsyncZoneHandle

asyncVars == <<call, pool, owner, waiters, held>>
vars == <<handleVars, asyncVars>>

NoSlot == "NoSlot"
NoOne  == "NoOne"
ASSUME NoSlotAssumption == NoSlot \notin Slots /\ NoOne \notin Threads

\* Queued and Started: before blocking_lock.  Locking: in the mutex' queue.
\* Running: has the mutex.  Dropping: only what the closure holds is left.
\* Done: the result waits for the future.
Phases == {"None", "Queued", "Started", "Locking", "Running", "Dropping", "Done"}

NoCall == [phase |-> "None", on |-> NoOne, method |-> "None", zone |-> NoZone, awaited |-> FALSE]

\* on is the handle of the call, zone the zone of a call of the device.
NewCall(h, method, z, phase) ==
    [phase |-> phase, on |-> h, method |-> method, zone |-> z, awaited |-> TRUE]

IsGetter(s) == call[s].method = "getter"
Makes(s)    == call[s].method = "zone_handle"

\* What keeps h beside its AsyncZoneHandle: closures with a clone of its Arc, and
\* the result of zone_handle on its way to the caller.
Clones(h) ==
    {s \in Slots : /\ call[s].on = h
                   /\ \/ Makes(s) /\ call[s].phase \in {"Dropping", "Done"}
                      \/ /\ ~Makes(s) /\ ~IsGetter(s)
                         /\ call[s].phase \notin {"None", "Done"}}

\* The device calls on zone i whose closures have not run, dropped or not.
Pending(i) ==
    {s \in Slots : /\ call[s].method \in DeviceCalls
                   /\ call[s].zone = i
                   /\ call[s].phase \in {"Queued", "Started"}}

AsyncInit ==
    /\ HandleInit
    /\ call = [s \in Slots |-> NoCall]
    /\ pool = <<>>
    /\ owner = [h \in Threads |-> NoSlot]
    /\ waiters = [h \in Threads |-> <<>>]
    /\ held = [h \in Threads |-> FALSE]

-----------------------------------------------------------------------------
(* Making and dropping the handle                                          *)

\* Mutant: the zone is taken for free as soon as the client holds no handle of
\* it and awaits no call on it.
FreeZone_OwnView(i) ==
    /\ \A g \in Threads : held[g] => handle[g].zone # i
    /\ \A s \in Pending(i) : ~call[s].awaited

\* The client's obligation before it makes a handle: none lives, and no call of
\* the device is still to run on the zone, not even one whose future is gone.
FreeZone(i) == Exclusive(i) /\ Pending(i) = {}

\* AsyncZoneHandle::new on a ZoneHandle made for it.
NewAsync(h, i) ==
    /\ ~held[h]
    /\ \A s \in Slots : call[s].on # h
    /\ FreeZone(i)
    /\ NewInner(h, i)
    /\ held' = [held EXCEPT ![h] = (result'[h] = "Ok")]
    /\ UNCHANGED <<call, pool, owner, waiters>>

\* Mutant: closures that still have to run do not keep the handle alive.
DropAsync_Weak(h) ==
    /\ held[h]
    /\ \A s \in Slots : call[s].on = h => ~call[s].awaited
    /\ held' = [held EXCEPT ![h] = FALSE]
    /\ Drop(h)
    /\ UNCHANGED <<call, pool, owner, waiters>>

\* The futures borrow the AsyncZoneHandle, so that none is left.  The
\* ZoneHandle goes with the last clone of the Arc.
DropAsync(h) ==
    /\ held[h]
    /\ \A s \in Slots : call[s].on = h => ~call[s].awaited
    /\ held' = [held EXCEPT ![h] = FALSE]
    /\ IF Clones(h) = {} THEN Drop(h) ELSE UNCHANGED handleVars
    /\ UNCHANGED <<call, pool, owner, waiters>>

-----------------------------------------------------------------------------
(* The mutex                                                               *)

\* The first waiter gets the mutex; c is call with the releasing slot's change.
Release(h, c) ==
    IF waiters[h] = <<>>
    THEN /\ owner' = [owner EXCEPT ![h] = NoSlot]
         /\ call' = c
         /\ UNCHANGED waiters
    ELSE /\ owner' = [owner EXCEPT ![h] = Head(waiters[h])]
         /\ call' = [c EXCEPT ![Head(waiters[h])].phase = "Running"]
         /\ waiters' = [waiters EXCEPT ![h] = Tail(@)]

\* Mutant: two closures share the lock.
BlockingLock_Shared(s) ==
    /\ call[s].phase = "Started"
    /\ call[s].method \notin DeviceCalls
    /\ owner' = [owner EXCEPT ![call[s].on] = s]
    /\ call' = [call EXCEPT ![s].phase = "Running"]
    /\ UNCHANGED <<handleVars, waiters, pool, held>>

BlockingLock(s) ==
    LET h == call[s].on IN
    /\ call[s].phase = "Started"
    /\ call[s].method \notin DeviceCalls
    /\ IF owner[h] = NoSlot
       THEN /\ owner' = [owner EXCEPT ![h] = s]
            /\ call' = [call EXCEPT ![s].phase = "Running"]
            /\ UNCHANGED waiters
       ELSE /\ waiters' = [waiters EXCEPT ![h] = Append(@, s)]
            /\ call' = [call EXCEPT ![s].phase = "Locking"]
            /\ UNCHANGED owner
    /\ UNCHANGED <<handleVars, pool, held>>

-----------------------------------------------------------------------------
(* A call: its closure                                                     *)

\* The first poll of the future: clone, spawn_blocking.
Call(s, h, method) ==
    /\ call[s] = NoCall
    /\ held[h]
    /\ call' = [call EXCEPT ![s] = NewCall(h, method, NoZone, "Queued")]
    /\ pool' = Append(pool, s)
    /\ UNCHANGED <<handleVars, owner, waiters, held>>

\* AsyncZonedDevice::reset_zones, open_zones, close_zones, finish_zones.  The
\* zone has no handle and none is being made: the client's obligation.
CallZoneOp(s, z) ==
    /\ call[s] = NoCall
    /\ Exclusive(z)
    /\ \A u \in Pending(z) : ~Makes(u)
    /\ call' = [call EXCEPT ![s] = NewCall(NoOne, "zone_op", z, "Queued")]
    /\ pool' = Append(pool, s)
    /\ UNCHANGED <<handleVars, owner, waiters, held>>

\* AsyncZonedDevice::zone_handle
CallZoneHandle(s, h, i) ==
    /\ call[s] = NoCall
    /\ ~held[h]
    /\ \A u \in Slots : call[u].on # h
    /\ FreeZone(i)
    /\ call' = [call EXCEPT ![s] = NewCall(h, "zone_handle", i, "Queued")]
    /\ pool' = Append(pool, s)
    /\ UNCHANGED <<handleVars, owner, waiters, held>>

\* The pool threads in use: those waiting for a mutex are, too.
BusyThreads == {s \in Slots : /\ ~IsGetter(s)
                              /\ call[s].phase \in {"Started", "Locking", "Running",
                                                    "Dropping"}}

PoolTakes ==
    /\ pool # <<>>
    /\ Cardinality(BusyThreads) < PoolSize
    /\ call' = [call EXCEPT ![Head(pool)].phase = "Started"]
    /\ pool' = Tail(pool)
    /\ UNCHANGED <<handleVars, owner, waiters, held>>

\* The guard is dropped when the method returns.
Unlock(s) ==
    /\ Release(call[s].on, [call EXCEPT ![s].phase = "Dropping"])
    /\ UNCHANGED <<pool, held>>

WriteAllBody(s, h) ==
    \/ /\ left[h] = 0
       /\ \E n \in 1 .. MaxBuf : BeginWriteAll(h, n)
       /\ UNCHANGED asyncVars
    \/ /\ WriteAllStep(h)
       /\ IF left'[h] = 0 THEN Unlock(s) ELSE UNCHANGED asyncVars

\* The method of the handle, under the mutex.
Body(s) ==
    LET h == call[s].on IN
    /\ call[s].phase = "Running"
    /\ \/ call[s].method = "write_all_sequential" /\ WriteAllBody(s, h)
       \/ /\ call[s].method = "one_call"
          /\ \/ \E n \in 1 .. MaxBuf : WriteSequential(h, n)
             \/ ResetZone(h)
             \/ FinishZone(h)
             \/ OpenZone(h)
             \/ CloseZone(h)
             \/ UNCHANGED handleVars       \* report
          /\ Unlock(s)

\* The command of a zone_op reaches the zone, or fails without effect; one that
\* fails after its effect leaves what one that succeeds leaves.
ZoneOp(s) ==
    /\ call[s].phase = "Started"
    /\ call[s].method = "zone_op"
    /\ Commands(call[s].zone) \/ UNCHANGED handleVars
    /\ call' = [call EXCEPT ![s].phase = "Dropping"]
    /\ UNCHANGED <<pool, owner, waiters, held>>

\* The closure of zone_handle: ZoneHandle::new.
MakeHandle(s) ==
    /\ call[s].phase = "Started"
    /\ Makes(s)
    /\ NewInner(call[s].on, call[s].zone)
    /\ call' = [call EXCEPT ![s].phase = "Dropping",
                            ![s].on = IF result'[@] = "Ok" THEN @ ELSE NoOne]
    /\ UNCHANGED <<pool, owner, waiters, held>>

\* The call is over: its slot keeps what the future has still to fetch.
Ended(s) == IF call[s].awaited THEN [call[s] EXCEPT !.phase = "Done"] ELSE NoCall

\* Mutant: the closure's clone outlives the closure.
DropClone_Leaks(s) ==
    /\ call[s].phase = "Dropping"
    /\ call' = [call EXCEPT ![s] = Ended(s)]
    /\ UNCHANGED <<handleVars, pool, owner, waiters, held>>

\* The closure ends and drops its clone, perhaps the last one, or a result
\* that nobody awaits.
DropClone(s) ==
    LET h == call[s].on IN
    /\ call[s].phase = "Dropping"
    /\ call' = [call EXCEPT ![s] = Ended(s)]
    /\ IF /\ h # NoOne /\ ~held[h] /\ Clones(h) = {s}
          /\ Makes(s) => ~call[s].awaited
       THEN Drop(h)
       ELSE UNCHANGED handleVars
    /\ UNCHANGED <<pool, owner, waiters, held>>

-----------------------------------------------------------------------------
(* A call: its future                                                      *)

\* The future is polled and returns the result, an AsyncZoneHandle perhaps.
Complete(s) ==
    LET h == call[s].on IN
    /\ call[s].awaited
    /\ call[s].phase = "Done"
    /\ call' = [call EXCEPT ![s] = NoCall]
    /\ IF Makes(s) /\ h # NoOne
       THEN held' = [held EXCEPT ![h] = TRUE]
       ELSE UNCHANGED held
    /\ UNCHANGED <<handleVars, pool, owner, waiters>>

\* The future is dropped (a timeout, a select!); its closure goes on, and a
\* result that is there is dropped with it.
CancelFuture(s) ==
    LET h == call[s].on IN
    /\ call[s].awaited
    /\ ~IsGetter(s)
    /\ IF call[s].phase = "Done"
       THEN /\ call' = [call EXCEPT ![s] = NoCall]
            /\ IF Makes(s) /\ h # NoOne THEN Drop(h) ELSE UNCHANGED handleVars
       ELSE call' = [call EXCEPT ![s].awaited = FALSE] /\ UNCHANGED handleVars
    /\ UNCHANGED <<pool, owner, waiters, held>>

\* A getter that finds the mutex taken; it returns at once otherwise.
Get(s, h) ==
    /\ call[s] = NoCall
    /\ held[h]
    /\ owner[h] # NoSlot
    /\ call' = [call EXCEPT ![s] = NewCall(h, "getter", NoZone, "Locking")]
    /\ waiters' = [waiters EXCEPT ![h] = Append(@, s)]
    /\ UNCHANGED <<handleVars, pool, owner, held>>

\* Mutant: the guard of a getter is not dropped.
EndGetter_KeepsGuard(s) ==
    /\ IsGetter(s)
    /\ call[s].phase = "Running"
    /\ call' = [call EXCEPT ![s] = NoCall]
    /\ UNCHANGED <<handleVars, pool, owner, waiters, held>>

\* A getter that was given the mutex is polled and returns, or is dropped.
EndGetter(s) ==
    /\ IsGetter(s)
    /\ call[s].phase = "Running"
    /\ Release(call[s].on, [call EXCEPT ![s] = NoCall])
    /\ UNCHANGED <<handleVars, pool, held>>

\* A getter is dropped while it waits.
CancelGetter(s) ==
    /\ IsGetter(s)
    /\ call[s].phase = "Locking"
    /\ \E k \in DOMAIN waiters[call[s].on] :
           /\ waiters[call[s].on][k] = s
           /\ waiters' = [waiters EXCEPT ![call[s].on] =
                             SubSeq(@, 1, k - 1) \o SubSeq(@, k + 1, Len(@))]
    /\ call' = [call EXCEPT ![s] = NoCall]
    /\ UNCHANGED <<handleVars, pool, owner, held>>

-----------------------------------------------------------------------------
(* The specification                                                       *)

\* The steps of pool threads and of futures that are polled.
Progress(s) ==
    \/ BlockingLock(s) \/ Body(s)
    \/ ZoneOp(s) \/ MakeHandle(s)
    \/ DropClone(s) \/ Complete(s) \/ EndGetter(s)

Client(s) ==
    \/ \E h \in Threads, method \in HandleCalls : Call(s, h, method)
    \/ \E z \in Zones : CallZoneOp(s, z)
    \/ \E h \in Threads, i \in Indices : CallZoneHandle(s, h, i)
    \/ \E h \in Threads : Get(s, h)
    \/ CancelFuture(s)
    \/ CancelGetter(s)

AsyncNext ==
    \/ \E h \in Threads : DropAsync(h) \/ \E i \in Indices : NewAsync(h, i)
    \/ PoolTakes
    \/ \E s \in Slots : Progress(s) \/ Client(s)
    \/ DriveCloses /\ UNCHANGED asyncVars

AsyncSpec == AsyncInit /\ [][AsyncNext]_vars

\* The pool runs its closures, the runtime polls the futures that are woken.
AsyncFairSpec ==
    AsyncSpec /\ WF_vars(PoolTakes) /\ \A s \in Slots : WF_vars(Progress(s))

-----------------------------------------------------------------------------
(* Properties                                                              *)

\* The variables have their types, and a call is queued where its phase says.
AsyncTypeOK ==
    /\ call \in [Slots -> [phase : Phases, on : Threads \cup {NoOne},
                           method : HandleCalls \cup DeviceCalls \cup {"None", "getter"},
                           zone : Indices \cup {NoZone}, awaited : BOOLEAN]]
    /\ pool \in Seq(Slots)
    /\ owner \in [Threads -> Slots \cup {NoSlot}]
    /\ waiters \in [Threads -> Seq(Slots)]
    /\ held \in [Threads -> BOOLEAN]
    /\ \A s \in Slots : /\ call[s] # NoCall <=> call[s].phase # "None"
                       /\ call[s].method \notin DeviceCalls \cup {"None"} =>
                              call[s].on \in Threads
    /\ {s \in Slots : call[s].phase = "Queued"} = {pool[k] : k \in DOMAIN pool}
    /\ \A h \in Threads :
           /\ {s \in Slots : call[s].on = h /\ call[s].phase = "Locking"}
                 = {waiters[h][k] : k \in DOMAIN waiters[h]}
           /\ owner[h] = NoSlot => waiters[h] = <<>>
           /\ owner[h] # NoSlot => call[owner[h]].on = h /\ call[owner[h]].phase = "Running"

\* "maintaining exclusive access semantics": one call at a time works on a
\* handle, and nobody, a getter included, gets at it in the middle of a
\* write_all_sequential of somebody else.
ExclusiveAccess ==
    /\ \A s, u \in Slots :
           /\ call[s].phase = "Running" /\ call[u].phase = "Running"
           /\ call[s].on = call[u].on
           => s = u
    /\ \A h \in Threads : left[h] > 0 =>
           \E s \in Slots : /\ call[s].on = h
                            /\ call[s].phase = "Running"
                            /\ call[s].method = "write_all_sequential"

\* A closure that has not ended finds its ZoneHandle, and the zone still taken:
\* a write whose future was dropped never lands in a zone given to another, and
\* a handle nobody fetches does not stay.
ClosureKeepsHandle == \A h \in Threads : held[h] \/ Clones(h) # {} <=> Live(h)


\* When the client has dropped its AsyncZoneHandle, or the future of zone_handle,
\* the zone is given back in the end, whatever calls were dropped before they
\* ended; a zone_handle that is awaited reaches its caller.
ZoneGivenBack == \A h \in Threads : Live(h) /\ ~held[h] ~> held[h] \/ ~Live(h)

=============================================================================
